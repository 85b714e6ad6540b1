----------------------------- MODULE MCAppIcons -----------------------------
(* Small instances of AppIcons for TLC. *)
EXTENDS AppIcons

CONSTANTS i1, i2, i3
=============================================================================
