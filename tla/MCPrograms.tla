----------------------------- MODULE MCPrograms -----------------------------
(* Icons for the instances of Programs.                                    *)
EXTENDS Programs

CONSTANTS s1, s2, c1, c2

AnyIcons ==
  [type : {"project", "cli"}, tool : {"none", "path", "plain"}]
  \cup [type : {"tool", "rexx"}, tool : {"none"}]
ProjectIcons == [type : {"project"}, tool : {"plain"}]
=============================================================================
