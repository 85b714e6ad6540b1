---------------------------- MODULE MCNavigation ----------------------------
(* Small instances of Navigation for TLC. *)
EXTENDS Navigation, TLC

CONSTANTS a, b, c

Symmetry == Permutations({a, b, c})
=============================================================================
