--------------------------- MODULE MCMethodStack ---------------------------
(* Small instances of MethodStack for TLC. *)
EXTENDS MethodStack

CONSTANTS t1, t2, o1
=============================================================================
