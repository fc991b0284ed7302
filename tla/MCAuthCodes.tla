---------------------------- MODULE MCAuthCodes ----------------------------
(* Small instances of AuthCodes.  Without symmetry: the refinement is a     *)
(* temporal property.                                                       *)
EXTENDS AuthCodes
=============================================================================
