---------------------------- MODULE MCThreadPool ----------------------------
(* Small instances of ThreadPool for TLC. *)
EXTENDS ThreadPool, TLC

CONSTANTS o1, o2, a1, a2

Symmetry == Permutations({o1, o2}) \cup Permutations({a1, a2})
=============================================================================
