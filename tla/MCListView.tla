----------------------------- MODULE MCListView -----------------------------
(* Small instances of ListView for TLC. *)
EXTENDS ListView

\* "x" stays; "n" of the smaller place may be deleted or replaced.
MCContents == [p \in Places |-> IF p = "b" THEN {"x", "n"} ELSE {"n"}]

Create(n) == <<[act |-> "make", name |-> n], [act |-> "create", name |-> n]>>
Delete(n) == <<[act |-> "unmake", name |-> n], [act |-> "delete", name |-> n]>>

\* Above QUIET_COPY_THRESHOLD the updates are turned off meanwhile.
Quietly(steps) == <<[act |-> "disable"]>> \o steps \o <<[act |-> "enable"]>>

MCFileJobs == {[place |-> "a", steps |-> Delete("n")],
               [place |-> "a", steps |-> Create("n")],
               [place |-> "a", steps |-> Quietly(<<>>)]}
=============================================================================
