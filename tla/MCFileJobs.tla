----------------------------- MODULE MCFileJobs -----------------------------
(* A directory d with a file a and a directory s with a file b, the icon of *)
(* d, and a file f with an icon. Copies are the same within a volume and    *)
(* between two.                                                             *)
EXTENDS FileJobs

MCSelected == <<"d", "f">>
MCInside == [d |-> {"a", "s"}, s |-> {"b"}]
MCIconOf == [d |-> "di", f |-> "fi"]

AJob(kind, samevol, noicon, rename) ==
  [kind |-> kind, samevol |-> samevol, noicon |-> noicon, rename |-> rename]
MCJobs ==
  {AJob("copy", FALSE, FALSE, FALSE), AJob("move", FALSE, FALSE, FALSE),
   AJob("move", FALSE, TRUE, TRUE), AJob("move", TRUE, FALSE, FALSE),
   AJob("delete", FALSE, FALSE, FALSE)}
MovesOnly == {AJob("move", FALSE, FALSE, FALSE)}
DeletesOnly == {AJob("delete", FALSE, FALSE, FALSE)}

MCSources == {Paths, Paths \ {"b", "f"}}

\* Nothing lies there, or files lie where the names of the job are.
Free == [p \in Paths |-> "none"]
Taken == [p \in Paths |->
            CASE p = "d" -> "dir" [] p = "fi" -> "dir" [] p = "f" -> "otherprot"
              [] OTHER -> "other"]
MCTargets == {Free, Taken}
TakenOnly == {Taken}

\* An empty directory, and a file where it is to go.
EmptyDir == {{"d"}}
DirTaken == {[p \in Paths |-> IF p = "d" THEN "other" ELSE "none"]}

MCProtected == {{"b", "f", "s"}}
DirProtected == {{"d"}}
=============================================================================
