--------------------------- MODULE FileJobsProofs ---------------------------
(***************************************************************************)
(* What a job that copies, moves or deletes keeps, for any tree, any list  *)
(* of paths, any answers and any failures: that no file is lost, that who  *)
(* cancels is heard, that what the user refuses stays, and that a job with *)
(* no trouble is complete. Each theorem names the few cases it leaves out, *)
(* which are those where the code does not keep its property (README.md    *)
(* has the behaviours); the failure of CloseAsync, which fastcopy does not *)
(* report, is one.                                                         *)
(*                                                                         *)
(* Placed says where the thread may be: at which path, in which kind of    *)
(* job. Without it a step that deletes (deletefile, deletedir, the end of  *)
(* a walk) could be one of a copying job, or hit a file for a directory.   *)
(***************************************************************************)
EXTENDS FileJobs, TLAPS

\* Who works on a path has one; only a deleting job is where things are
\* deleted; only a moving one renames; only a directory is walked through.
Placed ==
  /\ todo \in Seq(Entries)
  /\ pc \notin {"next", "done"} => todo # <<>>
  /\ pc \in {"delfile", "deldir", "delicon"} => Deleting
  /\ pc \in {"name", "move", "icon"} => ~Deleting
  /\ how = "rename" => Moving
  /\ pc \in {"deldir", "walk", "walked"} => Path \in Dirs

\* The failure of CloseAsync is the one that loses files.
Kept == "close" \notin Faults => NothingLost

Inv == TypeOK /\ Placed /\ Kept

-----------------------------------------------------------------------------
(* What the functions return.                                              *)

\* The path at work is one the user has selected, its icon a file.
LEMMA PathTypes ==
  ASSUME TypeOK, Placed, todo # <<>>
  PROVE  /\ Path \in Entries /\ Path \in Paths
         /\ Icon \in Files \cup {NULL}
         /\ Icon # NULL => Icon \in Icons
         /\ Tail(todo) \in Seq(Entries) /\ Tail(todo) \in Seq(Paths)
<1>1. Entries \subseteq Paths
  BY ConstantsAssumption DEF Entries
<1>2. Path \in Entries /\ Tail(todo) \in Seq(Entries)
  BY DEF Placed, Path
<1>3. Tail(todo) \in Seq(Paths)
  BY DEF TypeOK
<1>4. Icon \in Files \cup {NULL}
  BY <1>2, ConstantsAssumption DEF Icon
<1>5. Icon # NULL => Icon \in Icons
  BY <1>2 DEF Icon, Icons
<1> QED
  BY <1>1, <1>2, <1>3, <1>4, <1>5

\* fileaction.c: an answer adds known flags only.
Answers == [say: {"proceed", "skip", "cancel"}, flags: SUBSET Flags]

LEMMA AskedAnswers ==
  ASSUME NEW flags \in SUBSET Flags, NEW all \in Flags, NEW skip \in Flags
  PROVE  /\ Asked(all, skip, flags) \subseteq Answers
         /\ Unprotected(all, skip, flags) \subseteq Answers
<1>1. "cancel" \in Flags
  BY DEF Flags
<1>2. ASSUME NEW say \in {"proceed", "skip", "cancel"}, NEW f \in SUBSET Flags
      PROVE  Answer(say, f) \in Answers
  BY <1>2 DEF Answer, Answers
<1>3. /\ flags \cup {all} \in SUBSET Flags /\ flags \cup {skip} \in SUBSET Flags
      /\ flags \cup {"cancel"} \in SUBSET Flags
  BY <1>1
<1>4. Asked(all, skip, flags) \subseteq Answers
  BY <1>2, <1>3 DEF Asked
<1>5. ASSUME NEW b \in Asked(all, skip, flags)
      PROVE  Answer("cancel", b.flags \cup {"cancel"}) \in Answers
  <2>1. b.flags \cup {"cancel"} \in SUBSET Flags
    BY <1>1, <1>4 DEF Answers
  <2> QED
    BY <1>2, <2>1
<1> QED
  BY <1>4, <1>5 DEF Unprotected

LEMMA OverwriteAnswers ==
  ASSUME TypeOK, NEW p \in Paths
  PROVE  MayOverwrite(p) \subseteq Answers
<1>1. {"repl_all", "repl_skip", "over_all", "over_skip"} \subseteq Flags
      /\ reqflags \in SUBSET Flags
  BY DEF Flags, TypeOK
<1>2. CASE dst[p] \notin There
  BY <1>1, <1>2 DEF MayOverwrite, Answer, Answers
<1>3. ASSUME dst[p] \in There, NEW a \in MayOverwrite(p)
      PROVE  a \in Answers
  <2>1. PICK b \in Asked("repl_all", "repl_skip", reqflags) :
          a \in (IF b.say = "proceed" /\ dst[p] = "otherprot"
                   THEN Unprotected("over_all", "over_skip", b.flags) ELSE {b})
    BY <1>3 DEF MayOverwrite
  <2>2. b \in Answers /\ b.flags \in SUBSET Flags
    BY <1>1, AskedAnswers DEF Answers
  <2> QED
    BY <1>1, <2>1, <2>2, AskedAnswers
<1> QED
  BY <1>2, <1>3

LEMMA RemovedFlags ==
  ASSUME NEW flags \in SUBSET Flags, NEW p, NEW a \in Removed(p, flags)
  PROVE  a.flags \in SUBSET Flags
<1>1. {"del_all", "del_skip"} \subseteq Flags
  BY DEF Flags
<1>2. CASE a \in Unprotected("del_all", "del_skip", flags)
  BY <1>1, <1>2, AskedAnswers DEF Answers
<1>3. CASE a \in {Answer("proceed", flags), Answer("error", flags)}
  BY <1>3 DEF Answer
<1> QED
  BY <1>2, <1>3 DEF Removed

\* fastcopy: a success leaves the whole file there, unless CloseAsync fails;
\* where there is no source nothing is touched.
LEMMA FastCopyResult ==
  ASSUME TypeOK, NEW p \in Paths, NEW r \in FastCopy(p)
  PROVE  /\ r.rc \in Code /\ r.dst \in Target /\ r.flags \in SUBSET Flags
         /\ p \notin src => r.dst = dst[p]
         /\ r.rc = "ok" => p \in src
         /\ "close" \notin Faults /\ r.rc = "ok" => r.dst = "copy"
<1>1. reqflags \in SUBSET Flags /\ dst[p] \in Target
  BY DEF TypeOK
<1>2. CASE Cancelled \/ dst[p] = "dir" \/ p \notin src
  BY <1>1, <1>2 DEF FastCopy, Proceeds, Result, Answer, Code
<1>3. CASE ~(Cancelled \/ dst[p] = "dir" \/ p \notin src)
  <2>1. CASE r = Result("failed", dst[p], Answer("none", reqflags))
    BY <1>1, <1>3, <2>1 DEF Result, Answer, Code
  <2>2. CASE r # Result("failed", dst[p], Answer("none", reqflags))
    <3>1. PICK a \in MayOverwrite(p) :
            r \in (IF a.say = "proceed"
                     THEN Written(a) \cup (IF Fails("delete") /\ dst[p] \in There
                                             THEN {Result("failed", dst[p], a)} ELSE {})
                     ELSE {Result("nosource", dst[p], a)})
      BY <1>3, <2>2 DEF FastCopy, Proceeds
    <3>2. a.flags \in SUBSET Flags
      BY OverwriteAnswers DEF Answers
    <3>3. CASE r \in {Result("failed", dst[p], a), Result("nosource", dst[p], a)}
      BY <1>1, <1>3, <3>2, <3>3 DEF Result, Code
    <3>4. CASE r \in Written(a)
      <4>1. /\ r.rc \in Code /\ r.dst \in Target /\ r.flags = a.flags
            /\ "close" \notin Faults /\ r.rc = "ok" => r.dst = "copy"
        BY <3>4 DEF Written, Results, Result, Code, Target, There, Fails
      <4> QED
        BY <1>3, <3>2, <4>1
    <3> QED
      BY <3>1, <3>3, <3>4
  <2> QED
    BY <2>1, <2>2
<1> QED
  BY <1>2, <1>3

\* tr_rename: the same.
LEMMA RenamedResult ==
  ASSUME TypeOK, NEW p \in Paths, NEW r \in Renamed(p)
  PROVE  /\ r.rc \in Code /\ r.dst \in Target /\ r.flags \in SUBSET Flags
         /\ p \notin src => r.dst = dst[p]
         /\ r.rc = "ok" => p \in src /\ r.dst = "copy"
<1>1. reqflags \in SUBSET Flags /\ dst[p] \in Target /\ "cancel" \in Flags
  BY DEF TypeOK, Flags
<1>2. CASE dst[p] = "dir"
  BY <1>1, <1>2 DEF Renamed, Result, Answer, Code
<1>3. CASE dst[p] # "dir"
  <2>1. PICK a \in MayOverwrite(p) :
          r \in (CASE a.say = "skip" -> {Result("nosource", dst[p], a)}
                   [] a.say = "cancel" -> {Result("aborted", dst[p], a)}
                   [] a.say = "proceed" /\ p \notin src -> {Result("nosource", dst[p], a)}
                   [] OTHER ->
                        {Result("ok", "copy", a)}
                          \cup (IF Fails("rename") THEN {Result("failed", "none", a)}
                                ELSE {})
                          \cup (IF Fails("delete") /\ dst[p] \in There
                                  THEN {Result("aborted", dst[p], a)} ELSE {}))
    BY <1>3 DEF Renamed
  <2>2. a.flags \in SUBSET Flags /\ a.say \in {"proceed", "skip", "cancel"}
    BY OverwriteAnswers DEF Answers
  <2>3. CASE a.say = "proceed" /\ p \in src
    BY <1>1, <2>1, <2>2, <2>3 DEF Result, Code, Target, There
  <2>4. CASE ~(a.say = "proceed" /\ p \in src)
    <3>1. r \in {Result("nosource", dst[p], a), Result("aborted", dst[p], a)}
      BY <2>1, <2>2, <2>4
    <3> QED
      BY <1>1, <2>2, <3>1 DEF Result, Code
  <2> QED
    BY <2>3, <2>4
<1> QED
  BY <1>2, <1>3

-----------------------------------------------------------------------------
(* What the parts of a step keep.                                          *)

\* threads_check_abort
LEMMA HearTypes ==
  ASSUME TypeOK, Hear
  PROVE  abort' \in {"no", "told", "heard"}
BY DEF TypeOK, Hear, Told

\* recurse's stack of directories
LEMMA StackTypes ==
  ASSUME TypeOK, pc = "walk"
  PROVE  /\ Top \in Level /\ Top.dir \in Dirs /\ Top.rest \subseteq Paths
         /\ Tail(stack) \in Seq(Level)
         /\ \A q : Rest(q) \in Seq(Level) /\ Rest(q) # <<>>
         /\ Len(stack) > 1 => Tail(stack) # <<>>
<1>1. stack \in Seq(Level) /\ stack # <<>>
  BY DEF TypeOK
<1>2. Top \in Level /\ Tail(stack) \in Seq(Level)
  BY <1>1 DEF Top
<1>3. ASSUME NEW q
      PROVE  Rest(q) \in Seq(Level) /\ Rest(q) # <<>>
  <2>1. [Top EXCEPT !.rest = @ \ {q}] \in Level
    BY <1>2 DEF Level
  <2> QED
    BY <1>2, <2>1 DEF Rest
<1>4. Top.dir \in Dirs /\ Top.rest \subseteq Paths
  BY <1>2 DEF Level
<1>5. Len(stack) > 1 => Len(Tail(stack)) > 0
  BY <1>1
<1> QED
  BY <1>2, <1>3, <1>4, <1>5

LEMMA ScanTypes ==
  ASSUME TypeOK, NEW d \in Dirs, NEW below \in Seq(Level), NEW bad \in BOOLEAN,
         Scan(d, below, bad)
  PROVE  /\ pc' \in {"walk", "walked", "done"}
         /\ stack' \in Seq(Level) /\ (pc' = "walk" <=> stack' # <<>>)
         /\ trouble' \in BOOLEAN /\ abort' \in {"no", "told", "heard"}
<1>1. CASE /\ pc' = "walk"
           /\ stack' = <<[dir |-> d, rest |-> Listed(d)]>> \o below
           /\ trouble' = (trouble \/ bad) /\ UNCHANGED abort
  <2>1. [dir |-> d, rest |-> Listed(d)] \in Level
    BY ConstantsAssumption DEF Level, Listed
  <2>2. stack' \in Seq(Level) /\ stack' # <<>>
    BY <1>1, <2>1
  <2> QED
    BY <1>1, <2>2 DEF TypeOK
<1>2. CASE StopWalk /\ trouble' = TRUE /\ UNCHANGED abort
  BY <1>2 DEF StopWalk, TypeOK
<1>3. CASE pc' = "walked" /\ stack' = <<>> /\ trouble' = TRUE /\ Hear
  BY <1>3, HearTypes
<1> QED
  BY <1>1, <1>2, <1>3 DEF Scan

\* A file that has gone from the source is complete at the destination: at
\* most p goes, when r says that it was copied, or when it is an icon.
LEMMA TakeKeeps ==
  ASSUME Inv, NEW p \in Paths, NEW r, Take(p, r), r.dst \in Target,
         p \notin src => r.dst = dst[p],
         "close" \notin Faults /\ r.rc = "ok" => r.dst = "copy",
         src' \in {src, src \ {p}},
         src' # src => Moving /\ (p \in Icons \/ r.rc = "ok"),
         UNCHANGED params
  PROVE  /\ dst' \in [Paths -> Target] /\ declined' \subseteq Paths
         /\ src' \subseteq given' /\ Kept'
<1>1. /\ job' = job /\ given' = given
      /\ dst' = [dst EXCEPT ![p] = r.dst]
  BY DEF params, Take
<1>2. dst' \in [Paths -> Target] /\ declined' \subseteq Paths /\ src' \subseteq given'
  BY <1>1 DEF Inv, TypeOK, Take
<1>3. ASSUME "close" \notin Faults, ~Deleting
      PROVE  /\ \A f \in Data \cap given : f \in src' \/ dst'[f] = "copy"
             /\ Copying => src' = given
  <2>1. NothingLost
    BY <1>3 DEF Inv, Kept
  <2>2. Copying => src' = given
    BY <1>3, <2>1 DEF NothingLost, Copying, Moving
  <2>3. ASSUME NEW f \in Data \cap given
        PROVE  f \in src' \/ dst'[f] = "copy"
    <3>1. f \in src \/ dst[f] = "copy"
      BY <1>3, <2>1 DEF NothingLost
    <3>2. f \in Paths /\ f \notin Icons
      BY DEF Data, Paths
    <3>3. CASE f = p
      BY <1>1, <1>3, <3>1, <3>2, <3>3 DEF Inv, TypeOK
    <3>4. CASE f # p
      BY <1>1, <3>1, <3>2, <3>4 DEF Inv, TypeOK
    <3> QED
      BY <3>3, <3>4
  <2> QED
    BY <2>2, <2>3
<1>4. Kept'
  BY <1>1, <1>3 DEF Kept, NothingLost, Deleting, Copying
<1> QED
  BY <1>2, <1>4

\* Nothing of the files is touched.
LEMMA SameFiles ==
  ASSUME Inv, UNCHANGED <<params, src, dst>>
  PROVE  Kept'
BY DEF Inv, Kept, NothingLost, Deleting, Copying, params

\* A job that deletes is not meant by NothingLost.
LEMMA DeletingKeeps ==
  ASSUME Deleting, UNCHANGED params
  PROVE  Kept'
BY DEF Kept, NothingLost, Deleting, params

LEMMA DeletesTypes ==
  ASSUME TypeOK, NEW p, NEW a, a.flags \in SUBSET Flags, Deletes(p, a)
  PROVE  /\ src' \subseteq given /\ prot' \subseteq Paths /\ reqflags' \subseteq Flags
         /\ src' \in {src, src \ {p}}
BY DEF TypeOK, Deletes

-----------------------------------------------------------------------------
(* The list.                                                               *)

LEMMA ListSteps ==
  ASSUME Inv, TakeEntry \/ ListEnds \/ AskName \/ Judge
  PROVE  Inv'
<1> USE DEF params, walk, history, PC, Code
<1>1. CASE TakeEntry
  <2>1. /\ pc' \in {"deldir", "delfile", "name", "move"}
        /\ pc' \in {"deldir", "delfile"} <=> Deleting
        /\ pc' = "deldir" => Path \in Dirs
        /\ pc = "next" /\ todo # <<>>
    BY <1>1 DEF TakeEntry
  <2>2. /\ skipall' \in BOOLEAN /\ aborted' \in BOOLEAN
        /\ UNCHANGED <<job, given, todo, stack, how, retries, rc, reqflags, src, dst, prot,
                       abort, declined, trouble>>
    BY <1>1 DEF TakeEntry, Inv, TypeOK
  <2>3. TypeOK'
    BY <2>1, <2>2 DEF Inv, TypeOK
  <2>4. Placed'
    BY <2>1, <2>2 DEF Inv, Placed, Entries, Deleting, Moving, Path
  <2> QED
    BY <2>2, <2>3, <2>4, SameFiles DEF Inv
<1>2. CASE ListEnds
  <2>1. /\ pc = "next" /\ pc' = "done"
        /\ UNCHANGED <<job, given, todo, stack, how, aborted, skipall, retries, rc, reqflags,
                       src, dst, prot, abort, declined, trouble>>
    BY <1>2 DEF ListEnds
  <2>2. TypeOK'
    BY <2>1 DEF Inv, TypeOK
  <2>3. Placed'
    BY <2>1 DEF Inv, Placed, Entries, Moving
  <2> QED
    BY <2>1, <2>2, <2>3, SameFiles DEF Inv
<1>3. CASE AskName
  <2>1. /\ pc = "name" /\ pc' \in {"move", "judge"}
        /\ rc' \in Code /\ trouble' \in BOOLEAN
        /\ UNCHANGED <<job, given, todo, stack, how, aborted, skipall, retries, reqflags,
                       src, dst, prot, declined>>
    BY <1>3 DEF AskName, Inv, TypeOK
  <2>2. abort' \in {"no", "told", "heard"}
    BY <1>3, HearTypes DEF AskName, Inv, TypeOK
  <2>3. TypeOK'
    BY <2>1, <2>2 DEF Inv, TypeOK
  <2>4. Placed'
    BY <2>1 DEF Inv, Placed, Entries, Moving, Deleting
  <2> QED
    BY <2>1, <2>3, <2>4, SameFiles DEF Inv
<1>4. CASE Judge
  <2>1. /\ pc = "judge" /\ todo # <<>>
        /\ UNCHANGED <<job, given, stack, how, aborted, rc, reqflags, src, dst, prot, abort,
                       declined, trouble>>
    BY <1>4 DEF Judge, Inv, Placed
  <2>2. Tail(todo) \in Seq(Entries) /\ Tail(todo) \in Seq(Paths)
    BY <2>1, PathTypes DEF Inv
  <2>3. /\ pc' \in {"next", "done"} /\ todo' \in {todo, Tail(todo)}
        /\ skipall' \in BOOLEAN /\ retries' \in 0..MaxRetries
    BY <1>4, ConstantsAssumption DEF Judge, NextEntry, Inv, TypeOK
  <2>4. todo' \in Seq(Entries) /\ todo' \in Seq(Paths)
    BY <2>2, <2>3 DEF Inv, TypeOK, Placed
  <2>5. TypeOK'
    BY <2>1, <2>3, <2>4 DEF Inv, TypeOK
  <2>6. Placed'
    BY <2>1, <2>3, <2>4 DEF Inv, Placed, Entries, Moving
  <2> QED
    BY <2>1, <2>5, <2>6, SameFiles DEF Inv
<1> QED
  BY <1>1, <1>2, <1>3, <1>4

-----------------------------------------------------------------------------
(* One path and its icon.                                                  *)

LEMMA MoveByRenameStep ==
  ASSUME Inv, MoveByRename
  PROVE  Inv'
<1> USE DEF params, walk, history
<1>1. /\ pc = "move" /\ todo # <<>> /\ Moving /\ pc' = "icon" /\ how' = "rename"
      /\ UNCHANGED <<job, given, todo, stack, aborted, skipall, retries, prot, abort>>
  BY DEF MoveByRename, ByRename, Inv, Placed
<1>2. Path \in Paths
  BY <1>1, PathTypes DEF Inv
<1>3. PICK r \in Renamed(Path) :
        /\ rc' = r.rc /\ reqflags' = r.flags
        /\ IF r.rc = "ok"
             THEN /\ src' = src \ Under[Path]
                  /\ dst' = [p \in Paths |->
                               IF p \in Under[Path] \cap src
                                 THEN IF p \in Dirs THEN "dir" ELSE "copy"
                                 ELSE dst[p]]
                  /\ declined' = declined \ {Path}
             ELSE Take(Path, r) /\ UNCHANGED src
        /\ trouble' = (trouble \/ r.rc # "ok")
  BY DEF MoveByRename
<1>4. /\ r.rc \in Code /\ r.dst \in Target /\ r.flags \in SUBSET Flags
      /\ Path \notin src => r.dst = dst[Path]
      /\ r.rc = "ok" => Path \in src /\ r.dst = "copy"
  BY <1>2, RenamedResult DEF Inv
<1>5. trouble' \in BOOLEAN
  BY <1>3 DEF Inv, TypeOK
<1>6. /\ dst' \in [Paths -> Target] /\ declined' \subseteq Paths
      /\ src' \subseteq given' /\ Kept'
  <2>1. CASE r.rc # "ok"
    BY <1>1, <1>2, <1>3, <1>4, <2>1, TakeKeeps
  <2>2. CASE r.rc = "ok"
    <3>1. dst' \in [Paths -> Target] /\ declined' \subseteq Paths /\ src' \subseteq given'
      BY <1>1, <1>3, <2>2 DEF Inv, TypeOK, Target, There
    <3>2. ASSUME "close" \notin Faults, NEW f \in Data \cap given
          PROVE  f \in src' \/ dst'[f] = "copy"
      <4>1. f \in Paths /\ f \notin Dirs
        BY ConstantsAssumption DEF Data, Paths
      <4>2. f \in src \/ dst[f] = "copy"
        BY <1>1, <3>2 DEF Inv, Kept, NothingLost, Deleting, Moving
      <4> QED
        BY <1>3, <2>2, <4>1, <4>2
    <3>3. Kept'
      BY <1>1, <3>2 DEF Kept, NothingLost, Copying, Moving
    <3> QED
      BY <3>1, <3>3
  <2> QED
    BY <2>1, <2>2
<1>7. TypeOK'
  BY <1>1, <1>3, <1>4, <1>5, <1>6 DEF Inv, TypeOK, PC
<1>8. Placed'
  BY <1>1 DEF Inv, Placed, Entries, Moving, Deleting
<1> QED
  BY <1>6, <1>7, <1>8 DEF Inv

LEMMA CopyFileStep ==
  ASSUME Inv, CopyFile
  PROVE  Inv'
<1> USE DEF params, walk, history
<1>1. /\ pc = "move" /\ todo # <<>> /\ pc' = "icon" /\ how' = "copy"
      /\ UNCHANGED <<job, given, todo, stack, aborted, skipall, retries>>
  BY DEF CopyFile, Inv, Placed
<1>2. Path \in Paths
  BY <1>1, PathTypes DEF Inv
<1>3. PICK r \in FastCopy(Path) :
        /\ rc' = r.rc
        /\ Take(Path, r) /\ HearsIn(r)
        /\ \/ /\ ~SourceGoes(r)
              /\ reqflags' = r.flags /\ UNCHANGED <<src, prot>>
              /\ trouble' = (trouble \/ r.rc # "ok")
           \/ /\ SourceGoes(r)
              /\ \E a \in Removed(Path, r.flags) :
                   /\ Deletes(Path, a)
                   /\ trouble' = (trouble \/ r.rc # "ok" \/ a.say # "proceed")
  BY DEF CopyFile
<1>4. /\ r.rc \in Code /\ r.dst \in Target /\ r.flags \in SUBSET Flags
      /\ Path \notin src => r.dst = dst[Path]
      /\ "close" \notin Faults /\ r.rc = "ok" => r.dst = "copy"
  BY <1>2, FastCopyResult DEF Inv
<1>5. /\ src' \in {src, src \ {Path}}
      /\ src' # src => Moving /\ r.rc = "ok"
      /\ prot' \subseteq Paths /\ reqflags' \subseteq Flags /\ trouble' \in BOOLEAN
  <2>1. CASE ~SourceGoes(r)
    <3>1. reqflags' = r.flags /\ UNCHANGED <<src, prot>> /\ trouble' \in BOOLEAN
      BY <1>3, <2>1
    <3> QED
      BY <1>4, <3>1 DEF Inv, TypeOK
  <2>2. CASE SourceGoes(r)
    <3>1. PICK a \in Removed(Path, r.flags) :
            /\ Deletes(Path, a)
            /\ trouble' = (trouble \/ r.rc # "ok" \/ a.say # "proceed")
      BY <1>3, <2>2
    <3>2. a.flags \in SUBSET Flags
      BY <1>4, RemovedFlags
    <3> QED
      BY <2>2, <3>1, <3>2, DeletesTypes DEF Inv, SourceGoes
  <2> QED
    BY <2>1, <2>2
<1>6. /\ dst' \in [Paths -> Target] /\ declined' \subseteq Paths
      /\ src' \subseteq given' /\ Kept'
  BY <1>1, <1>2, <1>3, <1>4, <1>5, TakeKeeps
<1>7. abort' \in {"no", "told", "heard"}
  BY <1>3, HearTypes DEF HearsIn, Inv, TypeOK
<1>8. TypeOK'
  BY <1>1, <1>3, <1>4, <1>5, <1>6, <1>7 DEF Inv, TypeOK, PC
<1>9. Placed'
  BY <1>1 DEF Inv, Placed, Entries, Moving, Deleting
<1> QED
  BY <1>6, <1>8, <1>9 DEF Inv

LEMMA IconSteps ==
  ASSUME Inv, NoIcon \/ IconByRename \/ IconByCopy
  PROVE  Inv'
<1> USE DEF params, walk, history
<1>1. /\ pc = "icon" /\ todo # <<>> /\ pc' = "judge"
      /\ UNCHANGED <<job, given, todo, stack, how, aborted, skipall, retries>>
  BY DEF NoIcon, IconByRename, IconByCopy, Inv, Placed
<1>2. Placed'
  BY <1>1 DEF Inv, Placed, Entries, Moving
<1>3. CASE NoIcon
  <2>1. UNCHANGED <<rc, reqflags, src, dst, prot, abort, declined, trouble>>
    BY <1>3 DEF NoIcon
  <2>2. TypeOK'
    BY <1>1, <2>1 DEF Inv, TypeOK, PC
  <2> QED
    BY <1>1, <1>2, <2>1, <2>2, SameFiles DEF Inv
<1>4. ASSUME IconFollows
      PROVE  Icon \in Icons /\ Icon \in Paths
  BY <1>1, <1>4, PathTypes DEF Inv, IconFollows, Paths
<1>5. CASE IconByRename
  <2>1. PICK r \in Renamed(Icon) :
          /\ rc' = r.rc /\ reqflags' = r.flags /\ Take(Icon, r)
          /\ src' = IF r.rc = "ok" THEN src \ {Icon} ELSE src
          /\ trouble' = (trouble \/ r.rc # "ok")
    BY <1>5 DEF IconByRename
  <2>2. /\ Icon \in Icons /\ Icon \in Paths
        /\ Moving /\ UNCHANGED <<prot, abort>>
    BY <1>4, <1>5 DEF IconByRename, Inv, Placed
  <2>3. /\ r.rc \in Code /\ r.dst \in Target /\ r.flags \in SUBSET Flags
        /\ Icon \notin src => r.dst = dst[Icon]
        /\ r.rc = "ok" => r.dst = "copy"
    BY <2>2, RenamedResult DEF Inv
  <2>4. /\ dst' \in [Paths -> Target] /\ declined' \subseteq Paths
        /\ src' \subseteq given' /\ Kept'
    BY <1>1, <2>1, <2>2, <2>3, TakeKeeps
  <2>5. TypeOK'
    BY <1>1, <2>1, <2>2, <2>3, <2>4 DEF Inv, TypeOK, PC
  <2> QED
    BY <1>2, <2>4, <2>5 DEF Inv
<1>6. CASE IconByCopy
  <2>1. PICK r \in FastCopy(Icon) :
          /\ rc' = IF r.rc = "failed" THEN "failed" ELSE "ok"
          /\ Take(Icon, r) /\ HearsIn(r)
          /\ \/ /\ Copying \/ r.rc = "failed" \/ (how = "walk" /\ r.flags = {"cancel"})
                /\ reqflags' = r.flags /\ UNCHANGED <<src, prot>>
                /\ trouble' = (trouble \/ r.rc # "ok")
             \/ /\ Moving /\ r.rc # "failed" /\ how = "walk" /\ r.flags # {"cancel"}
                /\ \E gone \in Unlinks(Icon) :
                     /\ src' = IF gone THEN src \ {Icon} ELSE src
                     /\ trouble' = (trouble \/ r.rc # "ok" \/ ~gone)
                /\ reqflags' = r.flags /\ UNCHANGED prot
             \/ /\ Moving /\ r.rc # "failed" /\ how = "copy"
                /\ \E a \in Removed(Icon, r.flags) :
                     /\ Deletes(Icon, a)
                     /\ trouble' = (trouble \/ r.rc # "ok" \/ a.say # "proceed")
    BY <1>6 DEF IconByCopy
  <2>2. Icon \in Icons /\ Icon \in Paths
    BY <1>4, <1>6 DEF IconByCopy
  <2>3. /\ r.dst \in Target /\ r.flags \in SUBSET Flags
        /\ Icon \notin src => r.dst = dst[Icon]
        /\ "close" \notin Faults /\ r.rc = "ok" => r.dst = "copy"
    BY <2>2, FastCopyResult DEF Inv
  <2>4. /\ src' \in {src, src \ {Icon}}
        /\ src' # src => Moving
        /\ prot' \subseteq Paths /\ reqflags' \subseteq Flags /\ trouble' \in BOOLEAN
    <3>1. CASE /\ reqflags' = r.flags /\ UNCHANGED <<src, prot>>
               /\ trouble' = (trouble \/ r.rc # "ok")
      <4>1. trouble' \in BOOLEAN
        BY <3>1
      <4> QED
        BY <2>3, <3>1, <4>1 DEF Inv, TypeOK
    <3>2. CASE /\ Moving /\ reqflags' = r.flags /\ UNCHANGED prot
               /\ \E gone \in Unlinks(Icon) :
                    /\ src' = IF gone THEN src \ {Icon} ELSE src
                    /\ trouble' = (trouble \/ r.rc # "ok" \/ ~gone)
      <4>1. trouble' \in BOOLEAN /\ src' \in {src, src \ {Icon}}
        BY <3>2
      <4> QED
        BY <2>3, <3>2, <4>1 DEF Inv, TypeOK
    <3>3. CASE /\ Moving
               /\ \E a \in Removed(Icon, r.flags) :
                    /\ Deletes(Icon, a)
                    /\ trouble' = (trouble \/ r.rc # "ok" \/ a.say # "proceed")
      <4>1. PICK a \in Removed(Icon, r.flags) :
              /\ Deletes(Icon, a)
              /\ trouble' = (trouble \/ r.rc # "ok" \/ a.say # "proceed")
        BY <3>3
      <4>2. a.flags \in SUBSET Flags
        BY <2>3, RemovedFlags
      <4> QED
        BY <3>3, <4>1, <4>2, DeletesTypes DEF Inv
    <3> QED
      BY <2>1, <3>1, <3>2, <3>3
  <2>5. /\ dst' \in [Paths -> Target] /\ declined' \subseteq Paths
        /\ src' \subseteq given' /\ Kept'
    BY <1>1, <2>1, <2>2, <2>3, <2>4, TakeKeeps
  <2>6. abort' \in {"no", "told", "heard"} /\ rc' \in Code
    BY <2>1, HearTypes DEF HearsIn, Inv, TypeOK, Code
  <2>7. TypeOK'
    BY <1>1, <2>4, <2>5, <2>6 DEF Inv, TypeOK, PC
  <2> QED
    BY <1>2, <2>5, <2>7 DEF Inv
<1> QED
  BY <1>3, <1>5, <1>6

-----------------------------------------------------------------------------
(* A directory.                                                            *)

\* An empty directory that goes, when it was moved, is no file.
LEMMA DirectoryGoes ==
  ASSUME Inv, NEW d \in Dirs, src' \in {src, src \ {d}}, src' # src => Moving,
         UNCHANGED <<params, dst>>
  PROVE  src' \subseteq given' /\ Kept'
<1>1. job' = job /\ given' = given
  BY DEF params
<1>2. src' \subseteq given'
  BY <1>1 DEF Inv, TypeOK
<1>3. ASSUME "close" \notin Faults, ~Deleting
      PROVE  /\ \A f \in Data \cap given : f \in src' \/ dst'[f] = "copy"
             /\ Copying => src' = given
  <2>1. NothingLost
    BY <1>3 DEF Inv, Kept
  <2>2. d \notin Data
    BY ConstantsAssumption DEF Data
  <2> QED
    BY <1>3, <2>1, <2>2 DEF NothingLost, Copying, Moving
<1>4. Kept'
  BY <1>1, <1>3 DEF Kept, NothingLost, Deleting, Copying
<1> QED
  BY <1>2, <1>4

LEMMA EnterKeeps ==
  ASSUME Inv, NEW d \in Dirs, NEW below \in Seq(Level), Enter(d, below),
         Path \in Dirs, todo # <<>>, ~Deleting, how' \in {how, "walk"}
  PROVE  Inv'
<1>1. UNCHANGED <<job, given, todo, skipall, retries, aborted, rc, reqflags, src, prot>>
  BY DEF Enter, params
<1>2. PICK made \in MadeDir(d) :
        /\ dst' = [dst EXCEPT ![d] = made]
        /\ declined' = IF made \in There THEN declined \cup {d} ELSE declined \ {d}
        /\ IF made = "dir" THEN Scan(d, below, FALSE)
           ELSE StopWalk /\ trouble' = TRUE /\ UNCHANGED abort
  BY DEF Enter
<1>3. made \in Target
  BY DEF MadeDir, Target, There
<1>4. dst' \in [Paths -> Target] /\ declined' \subseteq Paths
  BY <1>2, <1>3 DEF Inv, TypeOK, Paths
<1>5. /\ pc' \in {"walk", "walked", "done"}
      /\ stack' \in Seq(Level)
      /\ pc' = "walk" <=> stack' # <<>>
      /\ trouble' \in BOOLEAN /\ abort' \in {"no", "told", "heard"}
  <2>1. CASE made = "dir"
    BY <1>2, <2>1, ScanTypes DEF Inv
  <2>2. CASE made # "dir"
    BY <1>2, <2>2 DEF StopWalk, Inv, TypeOK
  <2> QED
    BY <2>1, <2>2
<1>6. TypeOK'
  BY <1>1, <1>4, <1>5 DEF Inv, TypeOK, PC
<1>7. Placed'
  BY <1>1, <1>5 DEF Inv, Placed, Entries, Moving, Path
<1>8. Kept'
  <2>1. d \notin Data
    BY ConstantsAssumption DEF Data
  <2>2. \A f \in Data : dst'[f] = dst[f]
    BY <1>2, <2>1 DEF Inv, TypeOK, Data, Paths
  <2> QED
    BY <1>1, <2>2 DEF Inv, Kept, NothingLost, Deleting, Copying
<1> QED
  BY <1>6, <1>7, <1>8 DEF Inv

LEMMA EnterSteps ==
  ASSUME Inv, EnterTop \/ EnterSub
  PROVE  Inv'
<1>1. CASE EnterTop
  <2>1. /\ pc = "move" /\ todo # <<>> /\ Path \in Dirs /\ how' = "walk"
        /\ ~Deleting
    BY <1>1 DEF EnterTop, Inv, Placed
  <2>2. CASE Enter(Path, <<>>)
    <3>1. <<>> \in Seq(Level) /\ how' \in {how, "walk"}
      BY <2>1
    <3> QED
      BY <2>1, <2>2, <3>1, EnterKeeps
  <2>3. CASE /\ pc' = "judge" /\ rc' = "ok" /\ trouble' = TRUE
             /\ UNCHANGED <<params, todo, stack, skipall, retries, aborted, reqflags, src,
                            dst, prot, abort, declined>>
    <3>1. TypeOK'
      BY <2>1, <2>3 DEF Inv, TypeOK, PC, Code, params
    <3>2. Placed'
      BY <2>1, <2>3 DEF Inv, Placed, Entries
    <3> QED
      BY <2>3, <3>1, <3>2, SameFiles DEF Inv
  <2> QED
    BY <1>1, <2>2, <2>3 DEF EnterTop
<1>2. CASE EnterSub
  <2>1. pc = "walk" /\ how' = how /\ todo # <<>> /\ Path \in Dirs
    BY <1>2 DEF EnterSub, Inv, Placed
  <2>2. \A q : Rest(q) \in Seq(Level)
    BY <2>1, StackTypes DEF Inv
  <2>3. ASSUME ~Deleting, NEW d \in Top.rest \cap Dirs, Enter(d, Rest(d))
        PROVE  Inv'
    BY <2>1, <2>2, <2>3, EnterKeeps
  <2>4. ASSUME NEW d \in Top.rest \cap Dirs, Scan(d, Rest(d), FALSE),
               UNCHANGED <<params, todo, skipall, retries, aborted, rc, reqflags, src, dst,
                           prot, declined>>
        PROVE  Inv'
    <3>1. /\ pc' \in {"walk", "walked", "done"}
          /\ stack' \in Seq(Level)
          /\ pc' = "walk" <=> stack' # <<>>
          /\ trouble' \in BOOLEAN /\ abort' \in {"no", "told", "heard"}
      BY <2>2, <2>4, ScanTypes DEF Inv
    <3>2. TypeOK'
      BY <2>1, <2>4, <3>1 DEF Inv, TypeOK, PC, params
    <3>3. Placed'
      BY <2>1, <2>4, <3>1 DEF Inv, Placed, Entries, Moving, Path, params
    <3> QED
      BY <2>4, <3>2, <3>3, SameFiles DEF Inv
  <2> QED
    BY <1>2, <2>3, <2>4 DEF EnterSub
<1> QED
  BY <1>1, <1>2

LEMMA WalkFileStep ==
  ASSUME Inv, WalkFile
  PROVE  Inv'
<1>1. /\ pc = "walk" /\ todo # <<>> /\ Path \in Dirs /\ ~Deleting
      /\ UNCHANGED <<job, given, todo, how, skipall, rc, prot>>
  BY DEF WalkFile, Inv, Placed, params
<1>2. PICK p \in Top.rest \ Dirs : \E r \in FastCopy(p) :
        /\ Take(p, r) /\ reqflags' = r.flags /\ HearsIn(r)
        /\ \/ /\ r.rc \in {"ok", "nosource"}
              /\ \E gone \in IF SourceGoes(r) THEN Unlinks(p) ELSE {FALSE} :
                   /\ src' = IF gone THEN src \ {p} ELSE src
                   /\ trouble' = (trouble \/ r.rc # "ok" \/ (Moving /\ ~gone))
              /\ stack' = Rest(p)
              /\ UNCHANGED <<pc, aborted, retries>>
           \/ /\ r.rc = "aborted"
              /\ aborted' = TRUE /\ trouble' = TRUE
              /\ StopWalk /\ UNCHANGED <<src, retries>>
           \/ /\ r.rc = "failed" /\ trouble' = TRUE
              /\ \/ retries < MaxRetries /\ retries' = retries + 1
                    /\ UNCHANGED <<pc, stack>>
                 \/ stack' = Rest(p) /\ UNCHANGED <<pc, retries>>
                 \/ StopWalk /\ UNCHANGED retries
              /\ UNCHANGED <<src, aborted>>
  BY DEF WalkFile
<1>3. PICK r \in FastCopy(p) :
        /\ Take(p, r) /\ reqflags' = r.flags /\ HearsIn(r)
        /\ \/ /\ r.rc \in {"ok", "nosource"}
              /\ \E gone \in IF SourceGoes(r) THEN Unlinks(p) ELSE {FALSE} :
                   /\ src' = IF gone THEN src \ {p} ELSE src
                   /\ trouble' = (trouble \/ r.rc # "ok" \/ (Moving /\ ~gone))
              /\ stack' = Rest(p)
              /\ UNCHANGED <<pc, aborted, retries>>
           \/ /\ r.rc = "aborted"
              /\ aborted' = TRUE /\ trouble' = TRUE
              /\ StopWalk /\ UNCHANGED <<src, retries>>
           \/ /\ r.rc = "failed" /\ trouble' = TRUE
              /\ \/ retries < MaxRetries /\ retries' = retries + 1
                    /\ UNCHANGED <<pc, stack>>
                 \/ stack' = Rest(p) /\ UNCHANGED <<pc, retries>>
                 \/ StopWalk /\ UNCHANGED retries
              /\ UNCHANGED <<src, aborted>>
  BY <1>2
<1>4. /\ p \in Paths /\ Rest(p) \in Seq(Level) /\ Rest(p) # <<>>
      /\ stack \in Seq(Level) /\ stack # <<>>
  BY <1>1, StackTypes DEF Inv, TypeOK
<1>5. /\ r.dst \in Target /\ r.flags \in SUBSET Flags
      /\ p \notin src => r.dst = dst[p]
      /\ "close" \notin Faults /\ r.rc = "ok" => r.dst = "copy"
  BY <1>4, FastCopyResult DEF Inv
<1>6. /\ src' \in {src, src \ {p}}
      /\ src' # src => Moving /\ r.rc = "ok"
  BY <1>3 DEF SourceGoes
<1>7. /\ dst' \in [Paths -> Target] /\ declined' \subseteq Paths
      /\ src' \subseteq given' /\ Kept'
  BY <1>1, <1>3, <1>4, <1>5, <1>6, TakeKeeps DEF params
<1>8. /\ pc' \in {"walk", "walked"} /\ stack' \in Seq(Level)
      /\ pc' = "walk" <=> stack' # <<>>
  <2>1. StopWalk => pc' = "walked" /\ stack' = <<>>
    BY <1>1 DEF StopWalk
  <2>2. \/ pc' = pc /\ stack' \in {stack, Rest(p)}
        \/ pc' = "walked" /\ stack' = <<>>
    BY <1>3, <2>1
  <2>3. CASE pc' = pc /\ stack' \in {stack, Rest(p)}
    <3>1. stack' \in Seq(Level) /\ stack' # <<>>
      BY <1>4, <2>3
    <3> QED
      BY <1>1, <2>3, <3>1
  <2>4. CASE pc' = "walked" /\ stack' = <<>>
    BY <2>4
  <2> QED
    BY <2>2, <2>3, <2>4
<1>9. trouble' \in BOOLEAN /\ aborted' \in BOOLEAN /\ retries' \in 0..MaxRetries
  <2>1. trouble' \in BOOLEAN
    BY <1>3
  <2>2. aborted' \in BOOLEAN
    BY <1>3 DEF Inv, TypeOK
  <2>3. retries' = retries \/ (retries < MaxRetries /\ retries' = retries + 1)
    BY <1>3
  <2>4. retries' \in 0..MaxRetries
    BY <2>3, ConstantsAssumption DEF Inv, TypeOK
  <2> QED
    BY <2>1, <2>2, <2>4
<1>10. abort' \in {"no", "told", "heard"}
  BY <1>3, HearTypes DEF HearsIn, Inv, TypeOK
<1>11. TypeOK'
  BY <1>1, <1>3, <1>5, <1>7, <1>8, <1>9, <1>10 DEF Inv, TypeOK, PC
<1>12. Placed'
  BY <1>1, <1>8 DEF Inv, Placed, Entries, Moving, Path
<1> QED
  BY <1>7, <1>11, <1>12 DEF Inv

LEMMA WalkEnds ==
  ASSUME Inv, Leave \/ EndWalk \/ Walked
  PROVE  Inv'
<1> USE DEF params, walk, history
<1>1. CASE Leave
  <2>1. /\ pc = "walk" /\ Len(stack) > 1 /\ stack' = Tail(stack)
        /\ UNCHANGED <<job, given, todo, how, aborted, skipall, retries, pc, rc, reqflags,
                       dst, prot, abort, declined>>
    BY <1>1 DEF Leave
  <2>2. Top.dir \in Dirs /\ stack' \in Seq(Level) /\ stack' # <<>>
    BY <2>1, StackTypes DEF Inv
  <2>3. /\ src' \in {src, src \ {Top.dir}}
        /\ src' # src => Moving
        /\ trouble' \in BOOLEAN
    BY <1>1 DEF Leave
  <2>4. src' \subseteq given' /\ Kept'
    BY <2>1, <2>2, <2>3, DirectoryGoes
  <2>5. TypeOK'
    BY <2>1, <2>2, <2>3, <2>4 DEF Inv, TypeOK
  <2>6. Placed'
    BY <2>1 DEF Inv, Placed, Entries, Moving, Path, Deleting
  <2> QED
    BY <2>4, <2>5, <2>6 DEF Inv
<1>2. CASE EndWalk
  <2>1. /\ pc = "walk" /\ pc' = "walked" /\ stack' = <<>>
        /\ UNCHANGED <<job, given, todo, how, aborted, skipall, retries, rc, reqflags, src,
                       dst, prot, abort, declined, trouble>>
    BY <1>2 DEF EndWalk
  <2>2. TypeOK'
    BY <2>1 DEF Inv, TypeOK, PC
  <2>3. Placed'
    BY <2>1 DEF Inv, Placed, Entries, Moving, Path, Deleting
  <2> QED
    BY <2>1, <2>2, <2>3, SameFiles DEF Inv
<1>3. CASE Walked
  <2>1. /\ pc = "walked" /\ pc' = "icon" /\ rc' \in Code
        /\ Path \in Dirs /\ todo # <<>> /\ ~Deleting
        /\ UNCHANGED <<job, given, todo, stack, how, aborted, skipall, retries, reqflags,
                       dst, prot, abort, declined>>
    BY <1>3 DEF Walked, Code, Inv, Placed
  <2>2. /\ src' \in {src, src \ {Path}}
        /\ src' # src => Moving
        /\ trouble' \in BOOLEAN
    BY <1>3 DEF Walked
  <2>3. src' \subseteq given' /\ Kept'
    BY <2>1, <2>2, DirectoryGoes
  <2>4. TypeOK'
    BY <2>1, <2>2, <2>3 DEF Inv, TypeOK, PC
  <2>5. Placed'
    BY <2>1 DEF Inv, Placed, Entries, Moving, Deleting
  <2> QED
    BY <2>3, <2>4, <2>5 DEF Inv
<1> QED
  BY <1>1, <1>2, <1>3

-----------------------------------------------------------------------------
(* Deleting.                                                               *)

LEMMA DelFileStep ==
  ASSUME Inv, DelFile
  PROVE  Inv'
<1> USE DEF params, history
<1>1. /\ pc = "delfile" /\ todo # <<>> /\ Deleting
      /\ UNCHANGED <<job, given, stack, how, aborted, skipall, retries, rc, dst, abort>>
  BY DEF DelFile, Inv, Placed
<1>2. /\ Path \in Paths
      /\ Tail(todo) \in Seq(Entries) /\ Tail(todo) \in Seq(Paths)
  BY <1>1, PathTypes DEF Inv
<1>3. PICK a \in IF Path \in src THEN Removed(Path, reqflags)
                               ELSE {Answer("proceed", reqflags)} :
        /\ Deletes(Path, a)
        /\ declined' = IF Refuses(a) THEN declined \cup {Path} ELSE declined
        /\ trouble' = (trouble \/ a.say # "proceed")
        /\ \/ a.say = "proceed" /\ pc' = "delicon" /\ UNCHANGED todo
           \/ a.say = "skip" /\ NextEntry
           \/ a.say \in {"cancel", "error"} /\ pc' = "done" /\ UNCHANGED todo
  BY DEF DelFile
<1>4. a.flags \in SUBSET Flags
  <2>1. reqflags \in SUBSET Flags
    BY DEF Inv, TypeOK
  <2>2. CASE Path \in src
    BY <2>1, <2>2, RemovedFlags
  <2>3. CASE Path \notin src
    BY <2>1, <2>3 DEF Answer
  <2> QED
    BY <2>2, <2>3
<1>5. /\ src' \subseteq given' /\ prot' \subseteq Paths /\ reqflags' \subseteq Flags
      /\ trouble' \in BOOLEAN /\ declined' \subseteq Paths
  <2>1. declined' \subseteq Paths
    BY <1>2, <1>3 DEF Inv, TypeOK
  <2>2. trouble' \in BOOLEAN
    BY <1>3
  <2> QED
    BY <1>1, <1>3, <1>4, <2>1, <2>2, DeletesTypes DEF Inv
<1>6. \/ pc' = "delicon" /\ todo' = todo
      \/ pc' \in {"next", "done"} /\ todo' \in {todo, Tail(todo)}
  BY <1>3 DEF NextEntry
<1>7. TypeOK'
  BY <1>1, <1>2, <1>5, <1>6 DEF Inv, TypeOK, PC
<1>8. Placed'
  BY <1>1, <1>2, <1>6 DEF Inv, Placed, Entries, Moving, Deleting
<1> QED
  BY <1>1, <1>7, <1>8, DeletingKeeps DEF Inv

LEMMA DelIconStep ==
  ASSUME Inv, DelIcon
  PROVE  Inv'
<1> USE DEF params, history
<1>1. /\ pc = "delicon" /\ todo # <<>> /\ Deleting
      /\ UNCHANGED <<job, given, stack, how, aborted, skipall, retries, rc, dst, abort>>
  BY DEF DelIcon, Inv, Placed
<1>2. /\ Icon \in Files \cup {NULL}
      /\ Tail(todo) \in Seq(Entries) /\ Tail(todo) \in Seq(Paths)
  BY <1>1, PathTypes DEF Inv
<1>3. /\ src' \subseteq given' /\ prot' \subseteq Paths /\ reqflags' \subseteq Flags
      /\ trouble' \in BOOLEAN /\ declined' \subseteq Paths
      /\ pc' \in {"next", "done"} /\ todo' \in {todo, Tail(todo)}
  <2>1. CASE NextEntry /\ UNCHANGED <<src, prot, reqflags, declined, trouble>>
    BY <1>1, <2>1 DEF NextEntry, Inv, TypeOK
  <2>2. CASE /\ Icon # NULL
             /\ \E a \in Removed(Icon, reqflags) :
                  /\ Deletes(Icon, a)
                  /\ declined' = IF Refuses(a) THEN declined \cup {Icon} ELSE declined
                  /\ trouble' = (trouble \/ a.say # "proceed")
                  /\ \/ a.say # "cancel" /\ NextEntry
                     \/ a.say \in {"cancel", "error"} /\ pc' = "done" /\ UNCHANGED todo
    <3>1. PICK a \in Removed(Icon, reqflags) :
            /\ Deletes(Icon, a)
            /\ declined' = IF Refuses(a) THEN declined \cup {Icon} ELSE declined
            /\ trouble' = (trouble \/ a.say # "proceed")
            /\ \/ a.say # "cancel" /\ NextEntry
               \/ a.say \in {"cancel", "error"} /\ pc' = "done" /\ UNCHANGED todo
      BY <2>2
    <3>2. a.flags \in SUBSET Flags
      BY RemovedFlags DEF Inv, TypeOK
    <3>3. declined' \subseteq Paths /\ trouble' \in BOOLEAN
      BY <1>2, <2>2, <3>1 DEF Inv, TypeOK, Paths
    <3>4. pc' \in {"next", "done"} /\ todo' \in {todo, Tail(todo)}
      BY <3>1 DEF NextEntry
    <3> QED
      BY <1>1, <3>1, <3>2, <3>3, <3>4, DeletesTypes DEF Inv
  <2> QED
    BY <2>1, <2>2 DEF DelIcon
<1>4. TypeOK'
  BY <1>1, <1>2, <1>3 DEF Inv, TypeOK, PC
<1>5. Placed'
  BY <1>1, <1>2, <1>3 DEF Inv, Placed, Entries, Moving
<1> QED
  BY <1>1, <1>4, <1>5, DeletingKeeps DEF Inv

LEMMA DelDirStep ==
  ASSUME Inv, DelDir
  PROVE  Inv'
<1> DEFINE Typed ==
      /\ pc' \in {"delicon", "walk", "walked", "done"}
      /\ stack' \in Seq(Level)
      /\ pc' = "walk" <=> stack' # <<>>
      /\ prot' \subseteq Paths /\ reqflags' \subseteq Flags
      /\ declined' \subseteq Paths /\ trouble' \in BOOLEAN
      /\ abort' \in {"no", "told", "heard"}
<1>1. /\ pc = "deldir" /\ todo # <<>> /\ Deleting /\ Path \in Dirs
      /\ UNCHANGED <<job, given, todo, how, aborted, skipall, retries, rc, src, dst>>
  BY DEF DelDir, Inv, Placed, params
<1>2. ASSUME NEW a \in IF Path \in prot
                         THEN Unprotected("del_all", "del_skip", reqflags)
                         ELSE {Answer("proceed", reqflags)},
             reqflags' = a.flags,
             prot' = IF a.say = "proceed" THEN prot \ {Path} ELSE prot,
             declined' = IF Refuses(a) THEN declined \cup (Under[Path] \cap src)
                                       ELSE declined,
             \/ pc' = "delicon" /\ trouble' = TRUE /\ UNCHANGED <<stack, abort>>
             \/ Scan(Path, <<>>, Refuses(a))
             \/ StopWalk /\ trouble' = TRUE /\ UNCHANGED abort
      PROVE  Typed
  <2>1. {"del_all", "del_skip"} \subseteq Flags /\ reqflags \in SUBSET Flags
    BY DEF Flags, Inv, TypeOK
  <2>2. a.flags \in SUBSET Flags
    <3>1. CASE Path \in prot
      BY <1>2, <2>1, <3>1, AskedAnswers DEF Answers
    <3>2. CASE Path \notin prot
      BY <1>2, <2>1, <3>2 DEF Answer
    <3> QED
      BY <3>1, <3>2
  <2>3. /\ prot' \subseteq Paths /\ reqflags' \subseteq Flags /\ declined' \subseteq Paths
    BY <1>2, <2>2, ConstantsAssumption DEF Inv, TypeOK
  <2>4. /\ pc' \in {"delicon", "walk", "walked", "done"}
        /\ stack' \in Seq(Level)
        /\ pc' = "walk" <=> stack' # <<>>
        /\ trouble' \in BOOLEAN /\ abort' \in {"no", "told", "heard"}
    <3>1. CASE pc' = "delicon" /\ trouble' = TRUE /\ UNCHANGED <<stack, abort>>
      BY <1>1, <3>1 DEF Inv, TypeOK
    <3>2. CASE Scan(Path, <<>>, Refuses(a))
      <4>1. <<>> \in Seq(Level) /\ Refuses(a) \in BOOLEAN
        BY DEF Refuses
      <4> QED
        BY <1>1, <3>2, <4>1, ScanTypes DEF Inv
    <3>3. CASE StopWalk /\ trouble' = TRUE /\ UNCHANGED abort
      BY <3>3 DEF StopWalk, Inv, TypeOK
    <3> QED
      BY <1>2, <3>1, <3>2, <3>3
  <2> QED
    BY <2>3, <2>4
<1>3. ASSUME pc' = "delicon" /\ trouble' = TRUE,
             UNCHANGED <<stack, prot, reqflags, declined, abort>>
      PROVE  Typed
  BY <1>1, <1>3 DEF Inv, TypeOK
<1>4. Typed
  <2> HIDE DEF Typed
  <2> QED
    BY <1>2, <1>3 DEF DelDir
<1>5. TypeOK'
  BY <1>1, <1>4 DEF Inv, TypeOK, PC
<1>6. Placed'
  BY <1>1, <1>4 DEF Inv, Placed, Entries, Moving, Deleting, Path
<1> QED
  BY <1>1, <1>5, <1>6, DeletingKeeps DEF Inv, params

LEMMA DelItemStep ==
  ASSUME Inv, DelItem
  PROVE  Inv'
<1> USE DEF params, history
<1> DEFINE Typed ==
      /\ src' \subseteq given' /\ prot' \subseteq Paths /\ reqflags' \subseteq Flags
      /\ trouble' \in BOOLEAN /\ declined' \subseteq Paths /\ skipall' \in BOOLEAN
<1>1. /\ pc = "walk" /\ todo # <<>> /\ Deleting /\ Path \in Dirs
      /\ UNCHANGED <<job, given, todo, how, aborted, retries, rc, dst, abort>>
  BY DEF DelItem, Inv, Placed
<1>2. PICK p \in IF Top.rest = {} THEN {Top.dir} ELSE Top.rest \ Dirs :
        \/ /\ stack' = (IF Top.rest = {} THEN Tail(stack) ELSE Rest(p)) /\ UNCHANGED pc
           /\ UNCHANGED <<src, prot, reqflags, skipall, declined, trouble>>
        \/ \E a \in Removed(p, reqflags) :
             /\ Deletes(p, a)
             /\ declined' = IF Refuses(a) THEN declined \cup {p} ELSE declined
             /\ trouble' = (trouble \/ a.say # "proceed")
             /\ \/ /\ stack' = (IF Top.rest = {} THEN Tail(stack) ELSE Rest(p))
                   /\ UNCHANGED pc
                   /\ skipall' = skipall \/ skipall' = TRUE
                \/ StopWalk /\ UNCHANGED skipall
  BY DEF DelItem
<1>3. Top.rest = {} => Len(stack) > 1
  BY DEF DelItem
<1>4. /\ p \in Paths
      /\ IF Top.rest = {} THEN Tail(stack) \in Seq(Level) /\ Tail(stack) # <<>>
                          ELSE Rest(p) \in Seq(Level) /\ Rest(p) # <<>>
  BY <1>1, <1>3, StackTypes DEF Inv, Paths
<1>5. /\ pc' \in {"walk", "done"} /\ stack' \in Seq(Level)
      /\ pc' = "walk" <=> stack' # <<>>
  <2>1. StopWalk => pc' = "done" /\ stack' = <<>>
    BY <1>1 DEF StopWalk
  <2>2. \/ pc' = pc /\ stack' = (IF Top.rest = {} THEN Tail(stack) ELSE Rest(p))
        \/ pc' = "done" /\ stack' = <<>>
    BY <1>2, <2>1
  <2>3. CASE pc' = pc /\ stack' = (IF Top.rest = {} THEN Tail(stack) ELSE Rest(p))
    <3>1. stack' \in Seq(Level) /\ stack' # <<>>
      BY <1>4, <2>3
    <3> QED
      BY <1>1, <2>3, <3>1
  <2>4. CASE pc' = "done" /\ stack' = <<>>
    BY <2>4
  <2> QED
    BY <2>2, <2>3, <2>4
<1>6. Typed
  <2>1. CASE UNCHANGED <<src, prot, reqflags, skipall, declined, trouble>>
    BY <1>1, <2>1 DEF Inv, TypeOK
  <2>2. ASSUME NEW a \in Removed(p, reqflags), Deletes(p, a),
               declined' = IF Refuses(a) THEN declined \cup {p} ELSE declined,
               trouble' = (trouble \/ a.say # "proceed"),
               skipall' = skipall \/ skipall' = TRUE
        PROVE  Typed
    <3>1. a.flags \in SUBSET Flags
      BY RemovedFlags DEF Inv, TypeOK
    <3>2. trouble' \in BOOLEAN
      BY <2>2
    <3>3. declined' \subseteq Paths /\ skipall' \in BOOLEAN
      BY <1>4, <2>2 DEF Inv, TypeOK
    <3> QED
      BY <1>1, <2>2, <3>1, <3>2, <3>3, DeletesTypes DEF Inv
  <2> QED
    BY <1>2, <2>1, <2>2
<1>7. TypeOK'
  BY <1>1, <1>5, <1>6 DEF Inv, TypeOK, PC
<1>8. Placed'
  BY <1>1, <1>5 DEF Inv, Placed, Entries, Moving, Deleting, Path
<1> QED
  BY <1>1, <1>7, <1>8, DeletingKeeps DEF Inv

LEMMA DelWalkedStep ==
  ASSUME Inv, DelWalked
  PROVE  Inv'
<1> USE DEF params, walk
<1>1. /\ pc = "walked" /\ todo # <<>> /\ Deleting
      /\ pc' \in {"delicon", "done"}
      /\ UNCHANGED <<job, given, todo, stack, how, aborted, skipall, retries, rc, reqflags,
                     dst, prot, abort, declined>>
  BY DEF DelWalked, Inv, Placed
<1>2. src' \subseteq given' /\ trouble' \in BOOLEAN
  BY <1>1 DEF DelWalked, Inv, TypeOK
<1>3. TypeOK'
  BY <1>1, <1>2 DEF Inv, TypeOK, PC
<1>4. Placed'
  BY <1>1 DEF Inv, Placed, Entries, Moving, Deleting
<1> QED
  BY <1>1, <1>3, <1>4, DeletingKeeps DEF Inv

LEMMA AbortStep ==
  ASSUME Inv, Abort
  PROVE  Inv'
<1> USE DEF params, walk, history
<1>1. TypeOK'
  BY DEF Abort, Inv, TypeOK
<1>2. Placed'
  BY DEF Abort, Inv, Placed, Entries, Moving, Deleting, Path
<1> QED
  BY <1>1, <1>2, SameFiles DEF Abort, Inv

LEMMA StutterStep ==
  ASSUME Inv, UNCHANGED vars
  PROVE  Inv'
<1> USE DEF vars, params, walk, history
<1>1. TypeOK'
  BY DEF Inv, TypeOK
<1>2. Placed'
  BY DEF Inv, Placed, Entries, Moving, Deleting, Path
<1> QED
  BY <1>1, <1>2, SameFiles DEF Inv

-----------------------------------------------------------------------------
LEMMA InitInv ==
  ASSUME Init
  PROVE  Inv
<1>1. Selected \in Seq(Paths) /\ Selected \in Seq(Entries)
  BY ConstantsAssumption DEF Entries
<1>2. <<>> \in Seq(Level) /\ 0 \in 0..MaxRetries
  BY ConstantsAssumption
<1>3. /\ job \in Jobs /\ given \in Sources /\ src \subseteq given
      /\ dst \in [Paths -> Target] /\ prot \subseteq Paths
  BY ConstantsAssumption DEF Init
<1>4. TypeOK
  BY <1>1, <1>2, <1>3 DEF Init, TypeOK, PC, Code
<1>5. Placed
  BY <1>1 DEF Init, Placed
<1>6. Kept
  BY DEF Init, Kept, NothingLost
<1> QED
  BY <1>4, <1>5, <1>6 DEF Inv

LEMMA AlwaysInv == Spec => []Inv
<1>1. Init => Inv
  BY InitInv
<1>2. Inv /\ [Next]_vars => Inv'
  <2> SUFFICES ASSUME Inv, [Next]_vars PROVE Inv'
    OBVIOUS
  <2>1. CASE Work
    BY <2>1, ListSteps, MoveByRenameStep, CopyFileStep, IconSteps, EnterSteps,
       WalkFileStep, WalkEnds, DelFileStep, DelDirStep, DelItemStep, DelWalkedStep,
       DelIconStep
       DEF Work
  <2>2. CASE Abort
    BY <2>2, AbortStep
  <2>3. CASE UNCHANGED vars
    BY <2>3, StutterStep
  <2> QED
    BY <2>1, <2>2, <2>3 DEF Next, Ended
<1> QED
  BY <1>1, <1>2, PTL DEF Spec

\* The type invariant.
THEOREM TypeCorrect == Spec => []TypeOK
<1>1. Inv => TypeOK
  BY DEF Inv
<1> QED
  BY <1>1, AlwaysInv, PTL

\* As long as closing a copy does not fail, a job that copies or moves loses
\* no file, whatever else fails, whatever the user answers and whenever he
\* aborts, and a copy takes nothing away.
THEOREM FilesKept ==
  ASSUME "close" \notin Faults
  PROVE  Spec => []NothingLost
<1>1. Inv => NothingLost
  BY DEF Inv, Kept
<1> QED
  BY <1>1, AlwaysInv, PTL

-----------------------------------------------------------------------------
(* Cancelling: what CancelStops says holds unless a selected directory is   *)
(* protected from deletion. The answer to the question about that one is    *)
(* not heard.                                                               *)

NoDirProtected == \A P \in Protected : P \cap Dirs \cap Entries = {}

\* A job that deletes ends when it is cancelled; one that copies goes on.
CancelEnds ==
  NoDirProtected =>
    /\ prot \cap Dirs \cap Entries = {}
    /\ Deleting /\ "cancel" \in reqflags => pc = "done"

\* Only the answer Cancel sets its flag.
LEMMA OnlyCancelCancels ==
  ASSUME NEW flags, "cancel" \notin flags, NEW p, NEW a \in Removed(p, flags),
         "cancel" \in a.flags
  PROVE  a.say = "cancel"
<1>1. ASSUME NEW b \in Asked("del_all", "del_skip", flags), "cancel" \in b.flags
      PROVE  b.say = "cancel"
  BY <1>1 DEF Asked, Answer
<1>2. ASSUME a \in Unprotected("del_all", "del_skip", flags)
      PROVE  a.say = "cancel"
  <2>1. CASE a \in Asked("del_all", "del_skip", flags)
    BY <1>1, <2>1
  <2>2. CASE \E b : a = Answer("cancel", b.flags \cup {"cancel"})
    BY <2>2 DEF Answer
  <2> QED
    BY <1>2, <2>1, <2>2 DEF Unprotected
<1> QED
  BY <1>2 DEF Removed, Answer

\* fastcopy of a cancelled job does nothing.
LEMMA CancelledCopiesNothing ==
  ASSUME Cancelled, NEW p, NEW r \in FastCopy(p)
  PROVE  r.rc = "nosource" /\ r.dst = dst[p]
BY DEF FastCopy, Proceeds, Result

LEMMA CancelEndsKept ==
  ASSUME Inv, CancelEnds, [Next]_vars
  PROVE  CancelEnds'
<1> SUFFICES ASSUME NoDirProtected
             PROVE  /\ prot' \cap Dirs \cap Entries = {}
                    /\ Deleting' /\ "cancel" \in reqflags' => pc' = "done"
  BY DEF CancelEnds, NoDirProtected, Entries
<1> USE DEF params, walk, history
<1>1. /\ prot \cap Dirs \cap Entries = {}
      /\ Deleting /\ "cancel" \in reqflags => pc = "done"
  BY DEF CancelEnds
<1>2. CASE UNCHANGED <<job, prot, reqflags>> /\ pc # "done"
  BY <1>1, <1>2 DEF Deleting
<1>3. CASE TakeEntry \/ ListEnds \/ AskName \/ Judge \/ NoIcon
  BY <1>2, <1>3 DEF TakeEntry, ListEnds, AskName, Judge, NoIcon
<1>4. CASE EnterTop \/ EnterSub \/ Leave \/ EndWalk \/ Walked \/ DelWalked
  BY <1>2, <1>4 DEF EnterTop, EnterSub, Enter, Leave, EndWalk, Walked, DelWalked
<1>5. CASE Abort \/ UNCHANGED vars
  BY <1>1, <1>5 DEF Abort, Deleting, vars
<1>6. ASSUME NEW p, NEW a, Deletes(p, a)
      PROVE  prot' \subseteq prot /\ reqflags' = a.flags
  BY <1>6 DEF Deletes
<1>7. CASE MoveByRename \/ CopyFile \/ IconByRename \/ IconByCopy \/ WalkFile
  <2>1. ~Deleting /\ job' = job
    BY <1>7 DEF MoveByRename, ByRename, CopyFile, IconByRename, IconByCopy, WalkFile, Inv,
                Placed, Moving, Deleting
  <2>2. prot' \subseteq prot
    BY <1>6, <1>7 DEF MoveByRename, CopyFile, IconByRename, IconByCopy, WalkFile
  <2> QED
    BY <1>1, <2>1, <2>2 DEF Deleting
<1>8. CASE DelFile
  <2>1. PICK a \in IF Path \in src THEN Removed(Path, reqflags)
                                ELSE {Answer("proceed", reqflags)} :
          Deletes(Path, a) /\ (a.say = "cancel" => pc' = "done")
    BY <1>8 DEF DelFile
  <2>2. "cancel" \notin reqflags
    BY <1>1, <1>8 DEF DelFile, Inv, Placed
  <2>3. "cancel" \in a.flags => a.say = "cancel"
    BY <2>2, OnlyCancelCancels DEF Answer
  <2> QED
    BY <1>1, <1>6, <2>1, <2>3
<1>9. CASE DelIcon
  <2>1. CASE UNCHANGED <<prot, reqflags>>
    BY <1>2, <1>9, <2>1 DEF DelIcon
  <2>2. ASSUME NEW a \in Removed(Icon, reqflags), Deletes(Icon, a),
               a.say = "cancel" => pc' = "done"
        PROVE  /\ prot' \cap Dirs \cap Entries = {}
               /\ "cancel" \in reqflags' => pc' = "done"
    <3>1. "cancel" \notin reqflags
      BY <1>1, <1>9 DEF DelIcon, Inv, Placed
    <3>2. "cancel" \in a.flags => a.say = "cancel"
      BY <3>1, OnlyCancelCancels
    <3> QED
      BY <1>1, <1>6, <2>2, <3>2
  <2> QED
    BY <1>9, <2>1, <2>2 DEF DelIcon
<1>10. CASE DelItem
  <2>1. pc = "walk" /\ Deleting /\ job' = job
    BY <1>10 DEF DelItem
  <2>2. CASE UNCHANGED <<prot, reqflags>>
    BY <1>2, <2>1, <2>2
  <2>3. ASSUME NEW p, NEW a \in Removed(p, reqflags), Deletes(p, a),
               a.say = "cancel" => pc' = "done"
        PROVE  /\ prot' \cap Dirs \cap Entries = {}
               /\ "cancel" \in reqflags' => pc' = "done"
    <3>1. "cancel" \notin reqflags
      BY <1>1, <2>1
    <3>2. "cancel" \in a.flags => a.say = "cancel"
      BY <2>3, <3>1, OnlyCancelCancels
    <3> QED
      BY <1>1, <1>6, <2>3, <3>2
  <2>4. \/ UNCHANGED <<prot, reqflags>>
        \/ \E p : \E a \in Removed(p, reqflags) :
             Deletes(p, a) /\ (a.say = "cancel" => pc' = "done")
    BY <1>10, <2>1 DEF DelItem, StopWalk
  <2> QED
    BY <2>2, <2>3, <2>4
<1>11. CASE DelDir
  <2>1. Path \notin prot
    BY <1>1, <1>11, PathTypes DEF DelDir, Inv, Placed
  <2>2. UNCHANGED <<job, prot, reqflags>>
    BY <1>11, <2>1 DEF DelDir, Answer
  <2> QED
    BY <1>2, <1>11, <2>2 DEF DelDir
<1> QED
  BY <1>3, <1>4, <1>5, <1>7, <1>8, <1>9, <1>10, <1>11 DEF Next, Work, Ended

\* With no selected directory protected from deletion, a job that the user has
\* cancelled copies, replaces and deletes no file any more, but icons: the icon
\* of a file that is to be moved may still be deleted, the walk goes on to make
\* directories, and a move within a volume is not part of it, as it goes on.
THEOREM CancelHeard ==
  ASSUME NoDirProtected
  PROVE  Spec => CancelStops
<1>1. Init => CancelEnds
  BY DEF Init, CancelEnds, NoDirProtected
<1>2. Inv /\ CancelEnds /\ [Next]_vars => CancelEnds'
  BY CancelEndsKept
<1>3. Inv /\ CancelEnds /\ [Next]_vars =>
        [("cancel" \in reqflags /\ ~(Moving /\ job.samevol)) =>
           \A f \in Data : (f \in src' <=> f \in src) /\ dst'[f] = dst[f]]_vars
  <2> SUFFICES ASSUME Inv, CancelEnds, Next, "cancel" \in reqflags,
                      ~(Moving /\ job.samevol), NEW f \in Data
               PROVE  (f \in src' <=> f \in src) /\ dst'[f] = dst[f]
    OBVIOUS
  <2> USE DEF params, walk, history
  <2>1. /\ f \in Paths /\ f \notin Dirs /\ f \notin Icons
        /\ dst \in [Paths -> Target] /\ Cancelled
        /\ Deleting => pc = "done"
    BY ConstantsAssumption DEF Data, Paths, Inv, TypeOK, CancelEnds, Cancelled
  <2>2. ~MoveByRename
    BY DEF MoveByRename, ByRename
  <2>3. CASE TakeEntry \/ ListEnds \/ AskName \/ Judge \/ NoIcon \/ EndWalk \/ Abort \/ Ended
    BY <2>3 DEF TakeEntry, ListEnds, AskName, Judge, NoIcon, EndWalk, Abort, Ended, vars
  <2>4. CASE DelFile \/ DelDir \/ DelItem \/ DelWalked \/ DelIcon
    BY <2>1, <2>4 DEF DelFile, DelDir, DelItem, DelWalked, DelIcon, Inv, Placed
  <2>5. CASE CopyFile
    BY <2>5, CancelledCopiesNothing, <2>1 DEF CopyFile, Take, SourceGoes
  <2>6. CASE WalkFile
    BY <2>6, CancelledCopiesNothing, <2>1 DEF WalkFile, Take, SourceGoes
  <2>7. CASE IconByRename \/ IconByCopy
    <3>1. Icon # f
      BY <2>1, <2>7, PathTypes DEF IconByRename, IconByCopy, IconFollows, Inv, Placed
    <3> QED
      BY <2>1, <2>7, <3>1 DEF IconByRename, IconByCopy, Take, Deletes
  <2>8. CASE EnterTop \/ EnterSub
    <3>1. ASSUME NEW d \in Dirs, NEW below, Enter(d, below)
          PROVE  (f \in src' <=> f \in src) /\ dst'[f] = dst[f]
      BY <2>1, <3>1 DEF Enter
    <3> QED
      BY <2>8, <3>1 DEF EnterTop, EnterSub
  <2>9. CASE Leave \/ Walked
    <3>1. Leave => Top.dir \in Dirs
      BY StackTypes DEF Leave, Inv
    <3>2. Walked => Path \in Dirs
      BY DEF Walked, Inv, Placed
    <3> QED
      BY <2>1, <2>9, <3>1, <3>2 DEF Leave, Walked
  <2> QED
    BY <2>2, <2>3, <2>4, <2>5, <2>6, <2>7, <2>8, <2>9 DEF Next, Work
<1> QED
  BY <1>1, <1>2, <1>3, AlwaysInv, PTL DEF Spec, CancelStops

-----------------------------------------------------------------------------
(* Refusals: RefusedStays holds for any tree, any list of separate paths,  *)
(* any answers and any failures, unless a directory on the list itself is  *)
(* protected from deletion, or is empty and has a file in its way at the   *)
(* destination.                                                            *)
(*                                                                         *)
(* A thread that has been told to leave a path alone forgets it: nothing   *)
(* but its place in the walk keeps it from coming back to the path, or     *)
(* from taking a whole directory with it. So the invariant says where      *)
(* nothing was refused yet.                                                *)

NoEmptyDirInWay ==
  \A T \in Targets, S \in Sources : \A d \in Entries \cap Dirs \cap S :
    T[d] \in There => (Under[d] \ ({d} \cup Icons)) \cap S # {}

Refused == declined \ Icons

\* Nothing was refused of p and what lies below.
Untouched(p) == Under[p] \cap Refused = {}

\* Whatever is still to come on the list.
Ahead ==
  /\ \A i, j \in DOMAIN todo : i # j => Under[todo[i]] \cap Under[todo[j]] = {}
  /\ \A i \in DOMAIN todo : i # 1 => Untouched(todo[i])

\* A level of the walk through the path: what the thread will come back to.
LevelOK(l) ==
  /\ l.dir \in Under[Path] /\ l.rest \subseteq Inside[l.dir]
  /\ l.dir \notin Refused
  /\ ~Deleting => l.rest \cap Dirs \subseteq src
  /\ Deleting => l.rest \subseteq src /\ \A e \in l.rest : Untouched(e)

\* An outer level lies around the inner ones, and what it lists beside them.
Around(l, inner) ==
  /\ l.dir \notin Under[inner.dir]
  /\ \A e \in l.rest : Under[inner.dir] \cap Under[e] = {}

Levels ==
  /\ \A i \in DOMAIN stack : LevelOK(stack[i])
  /\ \A i, k \in DOMAIN stack : i < k => Around(stack[k], stack[i])

\* A directory that is kept from being made is not emptied either.
Holds(d) == (Under[d] \ ({d} \cup Icons)) \cap src # {}

InWay == \A d \in Entries \cap Dirs \cap src : dst[d] \in There => Holds(d)

\* A directory is moved as a whole as long as nothing in it was refused, and
\* gone through after that.
PutThere ==
  ~Deleting =>
    /\ \A p \in Refused : dst[p] # "none"
    /\ InWay
    /\ pc = "walk" => Path \notin declined /\ dst[Path] = "dir"
    /\ pc = "walked" => Path \notin declined \/ dst[Path] \in There
    /\ todo # <<>> /\ Path \in Dirs /\ dst[Path] # "dir" =>
         Under[Path] \cap Refused \subseteq {Path}

\* A job that deletes asks about everything once, and not about the paths of
\* the list that are directories.
Asks ==
  Deleting =>
    /\ Refused \cap Dirs \cap Entries = {}
    /\ pc \in {"next", "delfile", "deldir"} /\ todo # <<>> => Untouched(Path)
    /\ pc # "judge"

Stays == Refused \subseteq src /\ Ahead /\ Levels /\ PutThere /\ Asks

\* Nothing changes at the destination where something is refused, or where the
\* step refuses it.
ThereKept == \A p \in Refused' : dst'[p] = dst[p]

LEMMA RefusedNext == Refused' = declined' \ Icons
BY DEF Refused, Icons, Entries

LEMMA UntouchedNext ==
  ASSUME NEW p
  PROVE  Untouched(p)' <=> Under[p] \cap (declined' \ Icons) = {}
BY RefusedNext DEF Untouched

\* Who refuses leaves what lies there, and a success is no refusal.
LEMMA CopyRefused ==
  ASSUME TypeOK, NEW p \in Paths, NEW r \in FastCopy(p)
  PROVE  /\ r.say \in {"skip", "cancel"} => dst[p] # "none"
         /\ r.say \in {"none", "skip", "cancel"} => r.dst = dst[p]
         /\ r.say \in {"none", "skip", "cancel", "proceed"}
         /\ r.rc = "ok" => r.say = "proceed"
         /\ dst[p] = "dir" => r.dst = "dir"
<1>1. CASE Cancelled \/ dst[p] = "dir" \/ p \notin src
  BY <1>1 DEF FastCopy, Proceeds, Result, Answer
<1>2. CASE ~(Cancelled \/ dst[p] = "dir" \/ p \notin src)
  <2>1. CASE r = Result("failed", dst[p], Answer("none", reqflags))
    BY <2>1 DEF Result, Answer
  <2>2. CASE r # Result("failed", dst[p], Answer("none", reqflags))
    <3>1. PICK a \in MayOverwrite(p) :
            r \in (IF a.say = "proceed"
                     THEN Written(a) \cup (IF Fails("delete") /\ dst[p] \in There
                                             THEN {Result("failed", dst[p], a)} ELSE {})
                     ELSE {Result("nosource", dst[p], a)})
      BY <1>2, <2>2 DEF FastCopy, Proceeds
    <3>2. a.say \in {"proceed", "skip", "cancel"}
      BY OverwriteAnswers DEF Answers
    <3>3. CASE a.say = "proceed"
      <4>1. r.say = "proceed"
        BY <3>1, <3>3 DEF Written, Results, Result
      <4> QED
        BY <1>2, <4>1
    <3>4. CASE a.say # "proceed"
      <4>1. dst[p] \in There
        BY <3>4 DEF MayOverwrite, Answer
      <4>2. r = Result("nosource", dst[p], a)
        BY <3>1, <3>4
      <4> QED
        BY <3>2, <3>4, <4>1, <4>2 DEF Result, There
    <3> QED
      BY <3>3, <3>4
  <2> QED
    BY <2>1, <2>2
<1> QED
  BY <1>1, <1>2

LEMMA RenameRefused ==
  ASSUME TypeOK, NEW p \in Paths, NEW r \in Renamed(p)
  PROVE  /\ r.say \in {"skip", "cancel"} => dst[p] # "none" /\ r.dst = dst[p]
         /\ r.say \in {"skip", "cancel", "proceed"}
         /\ r.rc # "ok" => r.dst \in {dst[p], "none"}
         /\ dst[p] = "dir" => r.dst = "dir" /\ r.rc # "ok"
<1>1. CASE dst[p] = "dir"
  BY <1>1 DEF Renamed, Result, Answer
<1>2. CASE dst[p] # "dir"
  <2>1. PICK a \in MayOverwrite(p) :
          r \in (CASE a.say = "skip" -> {Result("nosource", dst[p], a)}
                   [] a.say = "cancel" -> {Result("aborted", dst[p], a)}
                   [] a.say = "proceed" /\ p \notin src -> {Result("nosource", dst[p], a)}
                   [] OTHER ->
                        {Result("ok", "copy", a)}
                          \cup (IF Fails("rename") THEN {Result("failed", "none", a)}
                                ELSE {})
                          \cup (IF Fails("delete") /\ dst[p] \in There
                                  THEN {Result("aborted", dst[p], a)} ELSE {}))
    BY <1>2 DEF Renamed
  <2>2. a.say \in {"proceed", "skip", "cancel"}
    BY OverwriteAnswers DEF Answers
  <2>3. a.say # "proceed" => dst[p] \in There
    BY DEF MayOverwrite, Answer
  <2>4. CASE a.say = "proceed"
    BY <1>2, <2>1, <2>4 DEF Result
  <2>5. CASE a.say # "proceed"
    <3>1. r \in {Result("nosource", dst[p], a), Result("aborted", dst[p], a)}
      BY <2>1, <2>2, <2>5
    <3> QED
      BY <1>2, <2>2, <2>3, <2>5, <3>1 DEF Result, There
  <2> QED
    BY <2>4, <2>5
<1> QED
  BY <1>1, <1>2

\* Only a protected path is asked about.
LEMMA RemovedAsks ==
  ASSUME NEW p, NEW flags, NEW a \in Removed(p, flags), Refuses(a)
  PROVE  p \in prot
BY DEF Removed, Refuses, Answer

-----------------------------------------------------------------------------
(* What the parts of a step keep of Stays.                                 *)

\* The list, while the path at work is handled, and when it is left: what is
\* refused lies below that path.
LEMMA AheadKept ==
  ASSUME Inv, Ahead, todo' \in {todo, Tail(todo)}, todo # <<>>,
         Refused' \subseteq Refused \cup Under[Path]
  PROVE  /\ Ahead'
         /\ todo' = Tail(todo) /\ todo' # <<>> => Untouched(Path)'
<1>1. todo \in Seq(Paths)
  BY DEF Inv, TypeOK
<1>2. Path = todo[1] /\ 1 \in DOMAIN todo
  BY <1>1 DEF Path
<1>3. ASSUME NEW i \in DOMAIN todo, i # 1
      PROVE  Under[todo[i]] \cap Refused' = {}
  BY <1>2, <1>3 DEF Ahead, Untouched
<1>4. CASE todo' = todo
  BY <1>3, <1>4, RefusedNext DEF Ahead, Untouched
<1>5. CASE todo' = Tail(todo)
  <2>1. \A i \in DOMAIN todo' : i + 1 \in DOMAIN todo /\ todo'[i] = todo[i + 1] /\ i + 1 # 1
    BY <1>1, <1>5
  <2>2. \A i, j \in DOMAIN todo' : i # j => i + 1 # j + 1
    BY <1>1, <1>5
  <2>3. Ahead'
    BY <1>3, <2>1, <2>2, RefusedNext DEF Ahead, Untouched
  <2>4. ASSUME todo' # <<>>
        PROVE  Untouched(Path)'
    <3>1. 1 \in DOMAIN todo' /\ Head(todo') = todo'[1]
      BY <1>1, <1>5, <2>4
    <3> QED
      BY <1>3, <2>1, <3>1, RefusedNext DEF Untouched, Path
  <2> QED
    BY <2>3, <2>4
<1>6. CASE todo' = todo /\ todo' = Tail(todo)
  <2>1. Len(Tail(todo)) # Len(todo)
    BY <1>1
  <2> QED
    BY <1>6, <2>1
<1> QED
  BY <1>4, <1>5, <1>6

\* A level of the next state, spelled out.
LevelNext(l) ==
  /\ l.dir \in Under[Path] /\ l.rest \subseteq Inside[l.dir]
  /\ l.dir \notin Refused'
  /\ ~Deleting => l.rest \cap Dirs \subseteq src'
  /\ Deleting => l.rest \subseteq src' /\ \A e \in l.rest : Under[e] \cap Refused' = {}

\* A job keeps its kind, and what it works on while it walks.
LEMMA LevelsNext ==
  ASSUME job' = job, todo' = todo,
         \A i \in DOMAIN stack' : LevelNext(stack'[i]),
         \A i, k \in DOMAIN stack' : i < k => Around(stack'[k], stack'[i])
  PROVE  Levels'
<1>1. \A e : Untouched(e)' <=> Under[e] \cap Refused' = {}
  BY UntouchedNext, RefusedNext
<1>2. Deleting' = Deleting /\ Path' = Path
  BY DEF Deleting, Path
<1> QED
  BY <1>1, <1>2 DEF Levels, LevelOK, LevelNext, Around, Untouched, Refused, Icons, Entries

LEMMA NoLevels ==
  ASSUME stack' = <<>>
  PROVE  Levels'
BY DEF Levels

\* The lists of the levels that are left get no longer.
LEMMA LevelsShrink ==
  ASSUME Levels, job' = job, todo' = todo, stack \in Seq(Level), NEW n \in {0, 1},
         \A i \in DOMAIN stack' :
           /\ i \in Nat /\ i + n \in DOMAIN stack
           /\ stack'[i].dir = stack[i + n].dir /\ stack'[i].rest \subseteq stack[i + n].rest
           /\ stack[i + n].dir \notin Refused'
           /\ ~Deleting => stack'[i].rest \cap Dirs \subseteq src'
           /\ Deleting => /\ stack'[i].rest \subseteq src'
                          /\ \A e \in stack'[i].rest : Under[e] \cap Refused' = {}
  PROVE  Levels'
<1>1. ASSUME NEW i \in DOMAIN stack'
      PROVE  LevelNext(stack'[i])
  <2>1. LevelOK(stack[i + n])
    BY DEF Levels
  <2> QED
    BY <2>1 DEF LevelOK, LevelNext
<1>2. ASSUME NEW i \in DOMAIN stack', NEW k \in DOMAIN stack', i < k
      PROVE  Around(stack'[k], stack'[i])
  <2>1. i + n < k + n
    BY <1>2
  <2>2. Around(stack[k + n], stack[i + n])
    BY <2>1 DEF Levels
  <2> QED
    BY <2>2 DEF Around
<1> QED
  BY <1>1, <1>2, LevelsNext

LEMMA RestParts ==
  ASSUME TypeOK, pc = "walk", NEW q
  PROVE  /\ 1 \in DOMAIN stack /\ Top = stack[1] /\ DOMAIN Rest(q) = DOMAIN stack
         /\ Rest(q)[1].dir = Top.dir /\ Rest(q)[1].rest = Top.rest \ {q}
         /\ \A i \in DOMAIN stack : i # 1 => Rest(q)[i] = stack[i]
         /\ Rest(q) \in Seq(Level)
<1>1. stack \in Seq(Level) /\ stack # <<>>
  BY DEF TypeOK
<1>2. Top = stack[1] /\ 1 \in DOMAIN stack /\ Top \in Level
  BY <1>1 DEF Top
<1> DEFINE l == [Top EXCEPT !.rest = @ \ {q}]
<1>3. l.dir = Top.dir /\ l.rest = Top.rest \ {q}
  BY <1>2 DEF Level
<1> HIDE DEF l
<1>4. DOMAIN (<<l>> \o Tail(stack)) = DOMAIN stack /\ (<<l>> \o Tail(stack))[1] = l
  BY <1>1
<1>5. ASSUME NEW i \in DOMAIN stack, i # 1
      PROVE  (<<l>> \o Tail(stack))[i] = stack[i]
  BY <1>1, <1>5
<1>6. Rest(q) = <<l>> \o Tail(stack)
  BY DEF Rest, l
<1> QED
  BY <1>2, <1>3, <1>4, <1>5, <1>6, StackTypes

LEMMA PushParts ==
  ASSUME NEW l, NEW s \in Seq(Level)
  PROVE  /\ 1 \in DOMAIN (<<l>> \o s) /\ (<<l>> \o s)[1] = l
         /\ \A i \in DOMAIN (<<l>> \o s) :
              i \in Nat /\ (i # 1 => i - 1 \in DOMAIN s /\ i > 1 /\ (<<l>> \o s)[i] = s[i - 1])
<1> DEFINE t == <<l>> \o s
<1>1. Len(t) = Len(s) + 1 /\ DOMAIN t = 1..(Len(s) + 1) /\ t[1] = l /\ Len(s) \in Nat
  BY DEF t
<1>2. ASSUME NEW i \in DOMAIN t, i # 1
      PROVE  i - 1 \in DOMAIN s /\ i > 1 /\ t[i] = s[i - 1]
  BY <1>1, <1>2
<1> QED
  BY <1>1, <1>2

\* The walk goes down to a directory: to the one of the list, or to one that
\* it has found.
LEMMA LevelsTop ==
  ASSUME Inv, job' = job, todo' = todo, src' = src, Path \in Dirs \cap Paths,
         stack' = <<[dir |-> Path, rest |-> Listed(Path)]>> \o <<>>,
         ~Deleting => Path \notin declined',
         Deleting => Under[Path] \cap Refused' = {}
  PROVE  Levels'
<1> DEFINE l == [dir |-> Path, rest |-> Listed(Path)]
<1>1. stack' = <<l>>
  OBVIOUS
<1>2. l.dir = Path /\ l.rest = Inside[Path] \cap src
  BY DEF Listed
<1>3. LevelNext(l)
  <2>1. Path \in Under[Path] /\ \A e \in Inside[Path] : Under[e] \subseteq Under[Path]
    BY TreeAssumption DEF Tree
  <2> HIDE DEF l
  <2> QED
    BY <1>2, <2>1, RefusedNext DEF LevelNext
<1> HIDE DEF l
<1>4. DOMAIN stack' = {1} /\ stack'[1] = l
  BY <1>1
<1> QED
  BY <1>3, <1>4, LevelsNext

LEMMA LevelsPush ==
  ASSUME Inv, Levels, pc = "walk", job' = job, todo' = todo, src' = src,
         NEW d \in Top.rest \cap Dirs,
         stack' = <<[dir |-> d, rest |-> Listed(d)]>> \o Rest(d),
         declined' \subseteq declined, Refused' \subseteq Refused,
         ~Deleting => d \notin declined'
  PROVE  Levels'
<1> DEFINE l == [dir |-> d, rest |-> Listed(d)]
<1>1. l.dir = d /\ l.rest = Inside[d] \cap src
  BY DEF Listed
<1>2. stack' = <<l>> \o Rest(d)
  OBVIOUS
<1> HIDE DEF l
<1>3. /\ 1 \in DOMAIN stack /\ Top = stack[1] /\ DOMAIN Rest(d) = DOMAIN stack
      /\ Rest(d)[1].dir = Top.dir /\ Rest(d)[1].rest = Top.rest \ {d}
      /\ \A i \in DOMAIN stack : i # 1 => Rest(d)[i] = stack[i]
      /\ Rest(d) \in Seq(Level) /\ stack \in Seq(Level)
  BY RestParts DEF Inv, TypeOK
<1>4. /\ 1 \in DOMAIN stack' /\ stack'[1] = l
      /\ \A i \in DOMAIN stack' :
           i \in Nat /\ (i # 1 => i - 1 \in DOMAIN Rest(d) /\ i > 1 /\ stack'[i] = Rest(d)[i - 1])
  BY <1>2, <1>3, PushParts
\* An outer level is what it was, but for d.
<1>5. ASSUME NEW i \in DOMAIN stack', i # 1
      PROVE  /\ i - 1 \in DOMAIN stack /\ i > 1 /\ i \in Nat
             /\ stack'[i].dir = stack[i - 1].dir
             /\ stack'[i].rest \subseteq stack[i - 1].rest
             /\ i = 2 => d \notin stack'[i].rest
  <2>1. i - 1 \in DOMAIN stack /\ i > 1 /\ i \in Nat /\ stack'[i] = Rest(d)[i - 1]
    BY <1>3, <1>4, <1>5
  <2>2. CASE i - 1 = 1
    BY <1>3, <2>1, <2>2
  <2>3. CASE i - 1 # 1
    <3>1. stack'[i] = stack[i - 1] /\ i # 2
      BY <1>3, <2>1, <2>3
    <3> QED
      BY <2>1, <3>1
  <2> QED
    BY <2>2, <2>3
<1>6. /\ LevelOK(Top) /\ Top.dir \in Dirs /\ d \in Inside[Top.dir] /\ d \in Paths
      /\ Top.dir \in Under[Path] /\ Path \in Paths
  <2>1. LevelOK(Top) /\ Top.dir \in Dirs
    BY <1>3, StackTypes DEF Levels, Inv
  <2>2. Path \in Paths
    BY PathTypes DEF Inv, Placed
  <2> QED
    BY <2>1, <2>2 DEF LevelOK, Paths
<1>7. /\ d \in Under[Path] /\ Under[d] \subseteq Under[Top.dir]
      /\ \A e \in Inside[Top.dir] : e # d => Under[d] \cap Under[e] = {}
      /\ \A e \in Inside[d] : Under[e] \subseteq Under[d]
      /\ d \in Under[d] /\ Top.dir \notin Under[d]
  BY <1>6, TreeAssumption DEF Tree
<1>8. LevelNext(l)
  <2>1. Deleting => Under[d] \cap Refused' = {}
    BY <1>6 DEF LevelOK, Untouched
  <2> QED
    BY <1>1, <1>7, <2>1, RefusedNext DEF LevelNext
<1>9. ASSUME NEW i \in DOMAIN stack', i # 1
      PROVE  LevelNext(stack'[i])
  <2>1. LevelOK(stack[i - 1])
    BY <1>5, <1>9 DEF Levels
  <2>2. Deleting => \A e \in stack[i - 1].rest : Under[e] \cap Refused' = {}
    BY <2>1 DEF LevelOK, Untouched
  <2> QED
    BY <1>5, <1>9, <2>1, <2>2 DEF LevelOK, LevelNext
<1>10. ASSUME NEW i \in DOMAIN stack', NEW k \in DOMAIN stack', i < k
       PROVE  Around(stack'[k], stack'[i])
  <2>1. k # 1 /\ i \in Nat /\ k \in Nat /\ (i # 1 => i > 1)
    <3>1. i \in Nat /\ k \in Nat /\ (i # 1 => i > 1) /\ (k = 1 => i # 1)
      BY <1>4, <1>10
    <3> QED
      BY <1>10, <3>1
  <2>2. CASE i # 1
    <3>1. i - 1 < k - 1 /\ i - 1 \in DOMAIN stack /\ k - 1 \in DOMAIN stack
      BY <1>5, <1>10, <2>1, <2>2
    <3>2. Around(stack[k - 1], stack[i - 1])
      BY <3>1 DEF Levels
    <3> QED
      BY <1>5, <1>10, <2>1, <2>2, <3>2 DEF Around
  <2>3. CASE i = 1 /\ k - 1 = 1
    <3>1. k = 2
      BY <2>1, <2>3
    <3>2. \A e \in stack'[k].rest : e \in Inside[Top.dir] /\ e # d
      BY <1>3, <1>5, <1>6, <1>10, <2>1, <2>3, <3>1 DEF LevelOK
    <3>3. stack'[k].dir = Top.dir
      BY <1>3, <1>5, <1>10, <2>1, <2>3
    <3> QED
      BY <1>1, <1>4, <1>7, <2>3, <3>2, <3>3 DEF Around
  <2>4. CASE i = 1 /\ k - 1 # 1
    <3>1. /\ k - 1 \in DOMAIN stack /\ 1 < k - 1
          /\ stack'[k].dir = stack[k - 1].dir /\ stack'[k].rest \subseteq stack[k - 1].rest
      BY <1>5, <1>10, <2>1, <2>4
    <3>2. Around(stack[k - 1], Top)
      BY <1>3, <3>1 DEF Levels
    <3> QED
      BY <1>1, <1>4, <1>7, <2>4, <3>1, <3>2 DEF Around
  <2> QED
    BY <2>2, <2>3, <2>4
<1> QED
  BY <1>4, <1>8, <1>9, <1>10, LevelsNext

-----------------------------------------------------------------------------
(* The steps.                                                              *)

\* The thread goes on to something else.
LEMMA StaysSame ==
  ASSUME Inv, Stays, UNCHANGED <<job, todo, src, dst, declined>>,
         stack' \in {stack, <<>>},
         ~Deleting => /\ pc' = "walk" => pc = "walk"
                      /\ pc' = "walked" => pc \in {"walk", "walked"},
         Deleting => /\ pc' # "judge"
                     /\ pc' \in {"next", "delfile", "deldir"} =>
                          pc \in {"next", "delfile", "deldir"}
  PROVE  Stays'
<1> USE DEF Untouched, Refused, Icons, Entries, Deleting, Path, InWay, Holds
<1>1. Refused' \subseteq src' /\ Ahead'
  BY DEF Stays, Ahead
<1>2. Levels'
  <2>1. CASE stack' = stack
    BY <2>1 DEF Stays, Levels, LevelOK
  <2>2. CASE stack' = <<>>
    BY <2>2, NoLevels
  <2> QED
    BY <2>1, <2>2
<1>3. PutThere'
  BY DEF Stays, PutThere
<1>4. Asks'
  BY DEF Stays, Asks
<1> QED
  BY <1>1, <1>2, <1>3, <1>4 DEF Stays

\* A step takes nothing from what is kept from being moved.
LEMMA InWayKept ==
  ASSUME Inv, InWay, todo # <<>>, src' \subseteq src,
         src \ src' \subseteq Under[Path] \cup Icons,
         \A d \in Entries \cap Dirs : dst'[d] \in There => dst[d] \in There,
         Path \in Dirs /\ dst'[Path] \in There => src \ src' \subseteq {Path} \cup Icons
  PROVE  InWay'
<1>1. Entries' = Entries /\ Icons' = Icons
  BY DEF Entries, Icons
<1>2. SUFFICES ASSUME NEW d \in Entries \cap Dirs, d \in src', dst'[d] \in There
               PROVE  (Under[d] \ ({d} \cup Icons)) \cap src' # {}
  BY <1>1 DEF InWay, Holds
<1>3. (Under[d] \ ({d} \cup Icons)) \cap src # {}
  BY <1>2 DEF InWay, Holds
<1>4. CASE d = Path
  BY <1>2, <1>3, <1>4
<1>5. CASE d # Path
  <2>1. Path \in Entries
    BY PathTypes DEF Inv
  <2>2. Under[d] \cap Under[Path] = {}
    BY <1>5, <2>1, TreeAssumption DEF Tree, Entries
  <2> QED
    BY <1>3, <2>2
<1> QED
  BY <1>4, <1>5

\* A step at the path of the list, or at its icon, in a job that copies or
\* moves.
LEMMA StaysAtPath ==
  ASSUME Inv, Stays, ~Deleting, todo # <<>>, UNCHANGED <<job, todo, stack>>,
         pc \notin {"walk"}, pc' \in {"icon", "judge"},
         Refused' \subseteq src', Refused' \subseteq Refused \cup {Path},
         \A p \in Refused' : dst'[p] # "none", InWay',
         Path \in Dirs /\ dst'[Path] # "dir" => Under[Path] \cap Refused' \subseteq {Path}
  PROVE  Stays'
<1>1. Path \in Under[Path]
  BY PathTypes, TreeAssumption DEF Inv, Tree
<1>2. Ahead'
  BY <1>1, AheadKept DEF Stays
<1>3. Levels'
  BY NoLevels DEF Inv, TypeOK
<1>4. Deleting' = Deleting /\ Path' = Path
  BY DEF Deleting, Path
<1>7. PutThere'
  BY <1>4 DEF PutThere
<1>8. Asks'
  BY <1>4 DEF Asks
<1> QED
  BY <1>2, <1>3, <1>7, <1>8 DEF Stays

LEMMA ListStays ==
  ASSUME Inv, Stays, TakeEntry \/ ListEnds \/ AskName \/ Judge \/ NoIcon
  PROVE  Stays'
<1> USE DEF params, walk, history
<1>1. CASE TakeEntry
  <2>1. UNCHANGED <<job, todo, stack, src, dst, declined>>
        /\ pc = "next" /\ pc' \in {"deldir", "delfile", "name", "move"}
    BY <1>1 DEF TakeEntry
  <2> QED
    BY <2>1, StaysSame
<1>2. CASE ListEnds
  <2>1. UNCHANGED <<job, todo, stack, src, dst, declined>> /\ pc' = "done"
    BY <1>2 DEF ListEnds
  <2> QED
    BY <2>1, StaysSame
<1>3. CASE AskName
  <2>1. /\ UNCHANGED <<job, todo, stack, src, dst, declined>> /\ pc' \in {"move", "judge"}
        /\ ~Deleting
    BY <1>3 DEF AskName, Inv, Placed
  <2> QED
    BY <2>1, StaysSame
<1>4. CASE NoIcon
  <2>1. UNCHANGED <<job, todo, stack, src, dst, declined>> /\ pc' = "judge" /\ ~Deleting
    BY <1>4 DEF NoIcon, Inv, Placed
  <2> QED
    BY <2>1, StaysSame
<1>5. CASE Judge
  <2>1. /\ ~Deleting /\ todo # <<>> /\ stack = <<>> /\ pc = "judge"
        /\ UNCHANGED <<job, stack, src, dst, declined>>
        /\ \/ pc' \in {"next", "done"} /\ todo' = todo
           \/ pc' = "next" /\ todo' = Tail(todo)
    BY <1>5 DEF Judge, NextEntry, Inv, TypeOK, Placed, Stays, Asks
  <2>2. CASE todo' = todo
    BY <2>1, <2>2, StaysSame
  <2>3. CASE todo' = Tail(todo) /\ todo' # todo
    <3>1. Refused' = Refused
      BY <2>1, RefusedNext DEF Refused
    <3>2. Ahead' /\ (todo' # <<>> => Untouched(Path)')
      BY <2>1, <2>3, <3>1, AheadKept DEF Stays
    <3>3. Levels'
      BY <2>1, NoLevels
    <3>4. Deleting' = Deleting
      BY <2>1 DEF Deleting
    <3>5. PutThere'
      <4>1. InWay'
        BY <2>1 DEF Stays, PutThere, InWay, Holds, Entries, Icons
      <4> QED
        BY <2>1, <2>3, <3>1, <3>2, <3>4, <4>1 DEF Stays, PutThere, Untouched
    <3>6. Asks'
      BY <2>1, <3>4 DEF Asks
    <3> QED
      BY <2>1, <3>1, <3>2, <3>3, <3>5, <3>6 DEF Stays
  <2> QED
    BY <2>1, <2>2, <2>3
<1> QED
  BY <1>1, <1>2, <1>3, <1>4, <1>5

LEMMA MoveByRenameStays ==
  ASSUME Inv, Stays, MoveByRename
  PROVE  Stays' /\ ThereKept
<1>1. /\ ~Deleting /\ todo # <<>> /\ pc = "move" /\ pc' = "icon" /\ ByRename(Path)
      /\ Path \in Paths /\ Path \in Entries /\ dst \in [Paths -> Target]
      /\ UNCHANGED <<job, todo, stack>>
  BY PathTypes DEF MoveByRename, Inv, Placed, TypeOK, params
<1>2. /\ Refused \subseteq src /\ \A p \in Refused : dst[p] # "none"
      /\ InWay
      /\ Path \in Dirs /\ dst[Path] # "dir" => Under[Path] \cap Refused \subseteq {Path}
  BY <1>1 DEF Stays, PutThere
<1>3. /\ Path \in Under[Path] /\ (Path \in Files => Under[Path] = {Path})
      /\ Path \in Files \cup Dirs
  BY <1>1, TreeAssumption DEF Tree, Paths
<1>4. PICK r \in Renamed(Path) :
        IF r.rc = "ok"
          THEN /\ src' = src \ Under[Path]
               /\ dst' = [p \in Paths |->
                            IF p \in Under[Path] \cap src
                              THEN IF p \in Dirs THEN "dir" ELSE "copy"
                              ELSE dst[p]]
               /\ declined' = declined \ {Path}
          ELSE Take(Path, r) /\ UNCHANGED src
  BY DEF MoveByRename
<1>5. /\ r.say \in {"skip", "cancel"} => dst[Path] # "none" /\ r.dst = dst[Path]
      /\ r.say \in {"skip", "cancel", "proceed"}
      /\ r.rc # "ok" => r.dst \in {dst[Path], "none"}
      /\ dst[Path] = "dir" => r.dst = "dir" /\ r.rc # "ok"
      /\ r.rc = "ok" => Path \in src
  BY <1>1, RenameRefused, RenamedResult DEF Inv
<1>6. CASE r.rc = "ok"
  <2>1. Under[Path] \cap Refused \subseteq {Path}
    <3>1. Path \in Dirs => dst[Path] # "dir"
      BY <1>1, <1>5, <1>6 DEF ByRename
    <3> QED
      BY <1>2, <1>3, <3>1
  <2>2. Refused' = Refused \ {Path}
    BY <1>4, <1>6, RefusedNext DEF Refused
  <2>3. Refused' \subseteq src'
    BY <1>2, <1>4, <1>6, <2>1, <2>2
  <2>4. ASSUME NEW p \in Paths
        PROVE  dst'[p] \in {"dir", "copy", dst[p]} /\ (p \in Dirs => dst'[p] \in {"dir", dst[p]})
    BY <1>4, <1>6
  <2>5. \A p \in Refused' : dst'[p] # "none"
    <3>1. Refused \subseteq Paths
      BY DEF Refused, Inv, TypeOK
    <3> QED
      BY <1>2, <2>2, <2>4, <3>1
  <2>6. Path \in Dirs => dst'[Path] = "dir"
    BY <1>1, <1>3, <1>4, <1>5, <1>6
  <2>8. ThereKept
    <3>1. Refused \subseteq Paths
      BY DEF Refused, Inv, TypeOK
    <3> QED
      BY <1>3, <1>4, <1>6, <2>1, <2>2, <3>1 DEF ThereKept
  <2>7. InWay'
    <3>1. \A d \in Entries \cap Dirs : dst'[d] \in There => dst[d] \in There
      BY <2>4 DEF There, Paths
    <3>2. src' \subseteq src /\ src \ src' \subseteq Under[Path]
      BY <1>4, <1>6
    <3> QED
      BY <1>1, <1>2, <2>6, <3>1, <3>2, InWayKept DEF There
  <2> QED
    BY <1>1, <2>2, <2>3, <2>5, <2>6, <2>7, <2>8, StaysAtPath
<1>7. CASE r.rc # "ok"
  <2>1. /\ dst' = [dst EXCEPT ![Path] = r.dst] /\ src' = src
        /\ declined' = IF r.say \in {"skip", "cancel"} THEN declined \cup ({Path} \cap src)
                       ELSE declined \ {Path}
    BY <1>4, <1>5, <1>7 DEF Take
  <2>2. /\ Refused' \subseteq Refused \cup ({Path} \cap src)
        /\ r.say = "proceed" => Path \notin Refused'
    BY <2>1, RefusedNext DEF Refused
  <2>3. Refused \subseteq Paths
    BY DEF Refused, Inv, TypeOK
  <2>4. \A p \in Refused' : dst'[p] # "none"
    BY <1>1, <1>2, <1>5, <2>1, <2>2, <2>3
  <2>5. InWay'
    <3>1. \A d \in Entries \cap Dirs : dst'[d] \in There => dst[d] \in There
      BY <1>1, <1>5, <1>7, <2>1 DEF There, Paths
    <3> QED
      BY <1>1, <1>2, <2>1, <3>1, InWayKept
  <2>6. Path \in Dirs /\ dst'[Path] # "dir" => Under[Path] \cap Refused' \subseteq {Path}
    BY <1>1, <1>2, <1>5, <2>1, <2>2
  <2>7. ThereKept
    BY <1>1, <1>5, <2>1, <2>2, <2>3 DEF ThereKept
  <2> QED
    BY <1>1, <1>2, <2>1, <2>2, <2>4, <2>5, <2>6, <2>7, StaysAtPath
<1> QED
  BY <1>6, <1>7

LEMMA CopyFileStays ==
  ASSUME Inv, Stays, CopyFile
  PROVE  Stays' /\ ThereKept
<1>1. /\ ~Deleting /\ todo # <<>> /\ pc = "move" /\ pc' = "icon"
      /\ Path \notin Dirs \cap src /\ Path \in Paths /\ dst \in [Paths -> Target]
      /\ UNCHANGED <<job, todo, stack>>
  BY PathTypes DEF CopyFile, Inv, Placed, TypeOK, params
<1>2. /\ Refused \subseteq src /\ \A p \in Refused : dst[p] # "none"
      /\ InWay
      /\ Path \in Dirs /\ dst[Path] # "dir" => Under[Path] \cap Refused \subseteq {Path}
  BY <1>1 DEF Stays, PutThere
<1>3. PICK r \in FastCopy(Path) :
        /\ Take(Path, r)
        /\ \/ src' = src
           \/ r.rc = "ok" /\ \E a : Deletes(Path, a)
  BY DEF CopyFile, SourceGoes
<1>4. /\ r.say \in {"skip", "cancel"} => dst[Path] # "none"
      /\ r.say \in {"none", "skip", "cancel"} => r.dst = dst[Path]
      /\ r.say \in {"none", "skip", "cancel", "proceed"}
      /\ r.rc = "ok" => r.say = "proceed"
      /\ Path \notin src => r.dst = dst[Path]
  BY <1>1, CopyRefused, FastCopyResult DEF Inv
<1>5. /\ dst' = [dst EXCEPT ![Path] = r.dst]
      /\ declined' = IF r.say \in {"skip", "cancel"} THEN declined \cup ({Path} \cap src)
                     ELSE IF r.say = "proceed" THEN declined \ {Path} ELSE declined
  BY <1>3 DEF Take
<1>6. /\ Refused' \subseteq Refused \cup ({Path} \cap src)
      /\ r.say = "proceed" => Path \notin Refused'
      /\ Refused \subseteq Paths
  BY <1>5, RefusedNext DEF Refused, Inv, TypeOK
<1>7. Refused' \subseteq src'
  <2>1. src' = src \/ (src' = src \ {Path} /\ r.say = "proceed")
    BY <1>3, <1>4 DEF Deletes
  <2> QED
    BY <1>2, <1>6, <2>1
<1>8. \A p \in Refused' : dst'[p] # "none"
  <2>1. dst'[Path] = r.dst /\ \A p \in Paths : p # Path => dst'[p] = dst[p]
    BY <1>1, <1>5
  <2>2. Path \in Refused' => r.dst # "none"
    <3>1. CASE r.say \in {"skip", "cancel"}
      BY <1>4, <3>1
    <3>2. CASE r.say = "none"
      <4>1. Refused' = Refused /\ r.dst = dst[Path]
        BY <1>4, <1>5, <3>2, RefusedNext DEF Refused
      <4> QED
        BY <1>2, <4>1
    <3> QED
      BY <1>4, <1>6, <3>1, <3>2
  <2> QED
    BY <1>2, <1>6, <2>1, <2>2
<1>9. Path \in Dirs => dst' = dst /\ Refused' \subseteq Refused
  BY <1>1, <1>4, <1>5, <1>6
<1>10. InWay'
  <2>1. src' \in {src, src \ {Path}}
    BY <1>3 DEF Deletes
  <2>2. \A d \in Entries \cap Dirs : dst'[d] \in There => dst[d] \in There
    BY <1>1, <1>5, <1>9 DEF Paths
  <2>3. Path \in Under[Path]
    BY <1>1, TreeAssumption DEF Tree
  <2> QED
    BY <1>1, <1>2, <2>1, <2>2, <2>3, InWayKept
<1>11. ThereKept
  BY <1>1, <1>4, <1>5, <1>6 DEF ThereKept
<1> QED
  BY <1>1, <1>2, <1>6, <1>7, <1>8, <1>9, <1>10, <1>11, StaysAtPath

\* What happens to an icon is no refusal, and touches no other path.
LEMMA IconStays ==
  ASSUME Inv, Stays, IconByRename \/ IconByCopy
  PROVE  Stays' /\ ThereKept
<1>1. /\ ~Deleting /\ todo # <<>> /\ pc = "icon" /\ pc' = "judge"
      /\ Icon \in Icons /\ Icon \in Files /\ dst \in [Paths -> Target]
      /\ UNCHANGED <<job, todo, stack>>
  <2>1. ~Deleting /\ todo # <<>>
    BY DEF IconByRename, IconByCopy, Inv, Placed
  <2>2. Icon \in Icons /\ Icon \in Files
    BY <2>1, PathTypes DEF IconByRename, IconByCopy, IconFollows, Inv
  <2> QED
    BY <2>1, <2>2 DEF IconByRename, IconByCopy, params, walk, Inv, TypeOK
<1>2. /\ Refused \subseteq src /\ \A p \in Refused : dst[p] # "none"
      /\ InWay
      /\ Path \in Dirs /\ dst[Path] # "dir" => Under[Path] \cap Refused \subseteq {Path}
  BY <1>1 DEF Stays, PutThere
<1>3. \E r : Take(Icon, r)
  BY DEF IconByRename, IconByCopy
<1>4. src' \in {src, src \ {Icon}}
  <2>1. \A a : Deletes(Icon, a) => src' \in {src, src \ {Icon}}
    BY DEF Deletes
  <2> QED
    BY <2>1 DEF IconByRename, IconByCopy
<1>5. /\ \A p \in Paths : p # Icon => dst'[p] = dst[p]
      /\ Refused' = Refused
  <2>1. PICK r : Take(Icon, r)
    BY <1>3
  <2>2. Refused' = Refused
    BY <1>1, <2>1, RefusedNext DEF Take, Refused
  <2> QED
    BY <1>1, <2>1, <2>2 DEF Take
<1>6. /\ Icon \notin Refused /\ Icon \notin Dirs /\ Refused \subseteq Paths
      /\ Dirs \subseteq Paths
  BY <1>1, ConstantsAssumption DEF Refused, Inv, TypeOK, Paths
<1>7. Refused' \subseteq src'
  BY <1>2, <1>4, <1>5, <1>6
<1>8. \A p \in Refused' : dst'[p] # "none"
  BY <1>2, <1>5, <1>6
<1>9. \A d \in Dirs : dst'[d] = dst[d]
  BY <1>5, <1>6
<1>10. InWay'
  BY <1>1, <1>2, <1>4, <1>9, InWayKept
<1>11. Path \in Dirs /\ dst'[Path] # "dir" => Under[Path] \cap Refused' \subseteq {Path}
  BY <1>2, <1>5, <1>9
<1>12. ThereKept
  BY <1>5, <1>6 DEF ThereKept
<1> QED
  BY <1>1, <1>5, <1>7, <1>8, <1>10, <1>11, <1>12, StaysAtPath

\* createdir: where a file in the way is to stay, the walk ends before it has
\* taken anything of the directory.
LEMMA EnterStays ==
  ASSUME Inv, Stays, ~Deleting, todo # <<>>, Path \in Dirs, NEW d, NEW below,
         Enter(d, below),
         \/ d = Path /\ d \in src /\ pc = "move" /\ below = <<>>
         \/ d \in Top.rest \cap Dirs /\ pc = "walk" /\ below = Rest(d)
  PROVE  Stays' /\ ThereKept
<1>1. /\ UNCHANGED <<job, todo, src>> /\ d \in Dirs /\ Path \in Paths /\ Path \in Entries
      /\ dst \in [Paths -> Target] /\ Dirs \subseteq Paths
  BY PathTypes DEF Enter, Inv, TypeOK, params, Paths
<1>2. /\ Refused \subseteq src /\ \A p \in Refused : dst[p] # "none"
      /\ InWay
      /\ dst[Path] # "dir" => Under[Path] \cap Refused \subseteq {Path}
      /\ pc = "walk" => Path \notin declined /\ dst[Path] = "dir"
      /\ Ahead /\ Levels
  BY DEF Stays, PutThere
<1>3. PICK made \in MadeDir(d) :
        /\ dst' = [dst EXCEPT ![d] = made]
        /\ declined' = IF made \in There THEN declined \cup {d} ELSE declined \ {d}
        /\ IF made = "dir" THEN Scan(d, below, FALSE)
           ELSE StopWalk /\ trouble' = TRUE /\ UNCHANGED abort
  BY DEF Enter
<1>4. /\ made \in There => dst[d] \in There /\ made = dst[d]
      /\ made \in There \cup {"dir", "none"}
      /\ dst[d] = "dir" => made = "dir"
  BY <1>3 DEF MadeDir, There
<1>5. dst'[d] = made /\ \A p \in Paths : p # d => dst'[p] = dst[p]
  BY <1>1, <1>3
<1>6. pc = "walk" => d \in Under[Path] /\ d \in src
  <2> SUFFICES ASSUME pc = "walk"
               PROVE  d \in Under[Path] /\ d \in src
    OBVIOUS
  <2>1. Top.dir \in Dirs /\ 1 \in DOMAIN stack /\ Top = stack[1]
    BY StackTypes, RestParts DEF Inv
  <2>2. LevelOK(Top)
    BY <1>2, <2>1 DEF Levels
  <2> QED
    BY <1>1, <2>1, <2>2, TreeAssumption DEF LevelOK, Tree
<1>7. /\ Refused' \subseteq Refused \cup {d}
      /\ made \notin There => Refused' = Refused \ {d} /\ declined' = declined \ {d}
      /\ d \in Under[Path] /\ d \in src
      /\ d # Path => pc = "walk"
      /\ Refused \subseteq Paths
  <2>1. d \in Under[Path] /\ d \in src /\ (d # Path => pc = "walk")
    BY <1>1, <1>6, TreeAssumption DEF Tree
  <2> QED
    BY <1>3, <2>1, RefusedNext DEF Refused, Inv, TypeOK
<1>8. Refused' \subseteq src'
  BY <1>1, <1>2, <1>7
<1>9. Ahead'
  BY <1>1, <1>2, <1>7, AheadKept
\* The walk goes on with d, or it has ended.
<1>10. \/ /\ made = "dir" /\ pc' = "walk"
          /\ stack' = <<[dir |-> d, rest |-> Listed(d)]>> \o below
       \/ pc' = "walked" /\ stack' = <<>>
  BY <1>3 DEF Scan, StopWalk
<1>11. Levels'
  <2>1. CASE stack' = <<>>
    BY <2>1, NoLevels
  <2>2. CASE made = "dir" /\ stack' = <<[dir |-> d, rest |-> Listed(d)]>> \o below
    <3>1. d \notin declined' /\ declined' \subseteq declined /\ Refused' \subseteq Refused
      BY <1>7, <2>2 DEF There
    <3>2. CASE d = Path /\ below = <<>>
      BY <1>1, <2>2, <3>1, <3>2, LevelsTop
    <3>3. CASE d \in Top.rest \cap Dirs /\ pc = "walk" /\ below = Rest(d)
      BY <1>1, <1>2, <2>2, <3>1, <3>3, LevelsPush
    <3> QED
      BY <3>2, <3>3
  <2> QED
    BY <1>10, <2>1, <2>2
<1>12. Deleting' = Deleting /\ Path' = Path
  BY <1>1 DEF Deleting, Path
<1>13. PutThere'
  <2>1. \A p \in Refused' : dst'[p] # "none"
    <3>1. made = "none" => d \notin Refused'
      BY <1>7 DEF There
    <3> QED
      BY <1>1, <1>2, <1>5, <1>7, <3>1
  <2>2. InWay'
    <3>1. \A e \in Entries \cap Dirs : dst'[e] \in There => dst[e] \in There
      BY <1>1, <1>4, <1>5
    <3> QED
      BY <1>1, <1>2, <3>1, InWayKept
  <2>3. CASE d = Path
    <3>1. pc' = "walk" => Path \notin declined' /\ dst'[Path] = "dir"
      BY <1>5, <1>7, <1>10, <2>3 DEF There
    <3>2. Path \notin declined' \/ dst'[Path] \in There
      BY <1>5, <1>7, <2>3
    <3>3. dst'[Path] # "dir" => Under[Path] \cap Refused' \subseteq {Path}
      BY <1>2, <1>4, <1>5, <1>7, <2>3
    <3> QED
      BY <1>12, <2>1, <2>2, <3>1, <3>2, <3>3 DEF PutThere
  <2>4. CASE d # Path
    <3>1. dst'[Path] = "dir" /\ Path \notin declined'
      BY <1>1, <1>2, <1>3, <1>5, <1>7, <2>4
    <3> QED
      BY <1>12, <2>1, <2>2, <3>1 DEF PutThere
  <2> QED
    BY <2>3, <2>4
<1>14. Asks'
  BY <1>12 DEF Asks
<1>15. ThereKept
  <2>1. d \in Refused' => made = dst[d]
    BY <1>4, <1>7
  <2> QED
    BY <1>1, <1>5, <1>7, <2>1 DEF ThereKept
<1> QED
  BY <1>8, <1>9, <1>11, <1>13, <1>14, <1>15 DEF Stays

LEMMA EnterStepsStay ==
  ASSUME Inv, Stays, ~Deleting, EnterTop \/ EnterSub
  PROVE  Stays' /\ ThereKept
<1>1. CASE EnterTop
  <2>1. pc = "move" /\ todo # <<>> /\ Path \in Dirs /\ Path \in src /\ stack = <<>>
    BY <1>1 DEF EnterTop, Inv, Placed, TypeOK
  <2>2. CASE Enter(Path, <<>>)
    BY <2>1, <2>2, EnterStays
  <2>3. CASE pc' = "judge" /\ UNCHANGED <<params, todo, stack, src, dst, declined>>
    BY <2>3, StaysSame DEF params, ThereKept
  <2> QED
    BY <1>1, <2>2, <2>3 DEF EnterTop
<1>2. CASE EnterSub
  <2>1. PICK d \in Top.rest \cap Dirs : Enter(d, Rest(d))
    BY <1>2 DEF EnterSub
  <2>2. pc = "walk" /\ todo # <<>> /\ Path \in Dirs
    BY <1>2 DEF EnterSub, Inv, Placed
  <2> QED
    BY <2>1, <2>2, EnterStays
<1> QED
  BY <1>1, <1>2

\* A file of the walk that is refused lies below the path, and is no
\* directory.
LEMMA WalkFileStays ==
  ASSUME Inv, Stays, WalkFile
  PROVE  Stays' /\ ThereKept
<1>1. /\ ~Deleting /\ todo # <<>> /\ pc = "walk" /\ Path \in Dirs
      /\ UNCHANGED <<job, todo>> /\ Path \in Paths
      /\ dst \in [Paths -> Target] /\ stack \in Seq(Level) /\ stack # <<>>
  BY PathTypes DEF WalkFile, Inv, Placed, TypeOK, params
<1>2. /\ Refused \subseteq src /\ \A p \in Refused : dst[p] # "none"
      /\ InWay
      /\ Path \notin declined /\ dst[Path] = "dir"
      /\ Ahead /\ Levels
  BY <1>1 DEF Stays, PutThere
<1>3. PICK p \in Top.rest \ Dirs : \E r \in FastCopy(p) :
        /\ Take(p, r)
        /\ \/ /\ \E gone \in IF SourceGoes(r) THEN Unlinks(p) ELSE {FALSE} :
                   src' = IF gone THEN src \ {p} ELSE src
              /\ stack' = Rest(p) /\ pc' = pc
           \/ StopWalk /\ src' = src
           \/ /\ src' = src /\ pc' = pc
              /\ stack' = stack \/ stack' = Rest(p)
  BY DEF WalkFile
<1>4. PICK r \in FastCopy(p) :
        /\ Take(p, r)
        /\ \/ /\ \E gone \in IF SourceGoes(r) THEN Unlinks(p) ELSE {FALSE} :
                   src' = IF gone THEN src \ {p} ELSE src
              /\ stack' = Rest(p) /\ pc' = pc
           \/ StopWalk /\ src' = src
           \/ /\ src' = src /\ pc' = pc
              /\ stack' = stack \/ stack' = Rest(p)
  BY <1>3
<1>5. p \in Paths /\ p \notin Dirs /\ p \in Top.rest
  BY <1>1, StackTypes DEF Inv
<1>6. /\ r.say \in {"skip", "cancel"} => dst[p] # "none"
      /\ r.say \in {"none", "skip", "cancel"} => r.dst = dst[p]
      /\ r.say \in {"none", "skip", "cancel", "proceed"}
      /\ r.rc = "ok" => r.say = "proceed"
  BY <1>5, CopyRefused DEF Inv
<1>7. /\ dst' = [dst EXCEPT ![p] = r.dst]
      /\ declined' = IF r.say \in {"skip", "cancel"} THEN declined \cup ({p} \cap src)
                     ELSE IF r.say = "proceed" THEN declined \ {p} ELSE declined
  BY <1>4 DEF Take
<1>8. /\ Refused' \subseteq Refused \cup ({p} \cap src)
      /\ r.say = "proceed" => p \notin Refused'
      /\ Refused \subseteq Paths
      /\ declined' \subseteq declined \cup {p}
  BY <1>7, RefusedNext DEF Refused, Inv, TypeOK
<1>9. /\ src' = src \/ (src' = src \ {p} /\ r.say = "proceed")
      /\ \/ pc' = "walk" /\ stack' \in {stack, Rest(p)}
         \/ pc' = "walked" /\ stack' = <<>>
  <2>1. SourceGoes(r) => r.say = "proceed"
    BY <1>6 DEF SourceGoes
  <2>2. src' = src \/ (src' = src \ {p} /\ r.say = "proceed")
    BY <1>4, <2>1
  <2> QED
    BY <1>1, <1>4, <2>2 DEF StopWalk
<1>10. Refused' \subseteq src'
  BY <1>2, <1>8, <1>9
<1>11. /\ dst'[p] = r.dst /\ \A q \in Paths : q # p => dst'[q] = dst[q]
  BY <1>1, <1>5, <1>7
<1>12. \A q \in Refused' : dst'[q] # "none"
  <2>1. p \in Refused' => r.dst # "none"
    <3>1. CASE r.say \in {"skip", "cancel"}
      BY <1>6, <3>1
    <3>2. CASE r.say = "none"
      <4>1. Refused' = Refused /\ r.dst = dst[p]
        BY <1>6, <1>7, <3>2, RefusedNext DEF Refused
      <4> QED
        BY <1>2, <4>1
    <3> QED
      BY <1>6, <1>8, <3>1, <3>2
  <2> QED
    BY <1>2, <1>8, <1>11, <2>1
<1>13. p \in Under[Path]
  <2>1. Top.dir \in Dirs /\ 1 \in DOMAIN stack /\ Top = stack[1]
    BY <1>1, StackTypes, RestParts DEF Inv
  <2>2. LevelOK(Top)
    BY <1>2, <2>1 DEF Levels
  <2> QED
    BY <1>1, <1>5, <2>1, <2>2, TreeAssumption DEF LevelOK, Tree
<1>14. Ahead'
  BY <1>1, <1>2, <1>8, <1>13, AheadKept
<1>15. Levels'
  <2>1. CASE stack' = <<>>
    BY <2>1, NoLevels
  <2>2. CASE stack' \in {stack, Rest(p)}
    <3>1. /\ 1 \in DOMAIN stack /\ Top = stack[1] /\ DOMAIN Rest(p) = DOMAIN stack
          /\ Rest(p)[1].dir = Top.dir /\ Rest(p)[1].rest = Top.rest \ {p}
          /\ \A i \in DOMAIN stack : i # 1 => Rest(p)[i] = stack[i]
      BY <1>1, RestParts DEF Inv
    <3>2. DOMAIN stack' = DOMAIN stack
      BY <2>2, <3>1
    <3>3. ASSUME NEW i \in DOMAIN stack
          PROVE  stack'[i].dir = stack[i].dir /\ stack'[i].rest \subseteq stack[i].rest
      BY <2>2, <3>1
    <3>4. ASSUME NEW i \in DOMAIN stack
          PROVE  /\ stack[i].dir \notin Refused'
                 /\ stack[i].rest \cap Dirs \subseteq src'
      <4>1. LevelOK(stack[i]) /\ stack[i] \in Level
        BY <1>1, <1>2 DEF Levels
      <4>2. stack[i].dir \in Dirs
        BY <4>1 DEF Level
      <4> QED
        BY <1>1, <1>5, <1>8, <1>9, <4>1, <4>2 DEF LevelOK
    <3>5. \A i \in DOMAIN stack' : i \in Nat /\ i + 0 = i /\ i + 0 \in DOMAIN stack
      BY <1>1, <3>2
    <3> QED
      BY <1>1, <1>2, <3>2, <3>3, <3>4, <3>5, LevelsShrink
  <2> QED
    BY <1>9, <2>1, <2>2
<1>16. Deleting' = Deleting /\ Path' = Path
  BY <1>1 DEF Deleting, Path
<1>17. PutThere'
  <2>1. \A e \in Dirs : dst'[e] = dst[e]
    BY <1>5, <1>11 DEF Paths
  <2>2. Path \notin declined'
    BY <1>1, <1>2, <1>5, <1>8
  <2>3. InWay'
    BY <1>1, <1>2, <1>9, <1>13, <2>1, InWayKept DEF There
  <2> QED
    BY <1>1, <1>2, <1>12, <1>16, <2>1, <2>2, <2>3 DEF PutThere
<1>18. Asks'
  BY <1>1, <1>16 DEF Asks
<1>19. ThereKept
  BY <1>5, <1>6, <1>8, <1>11 DEF ThereKept
<1> QED
  BY <1>10, <1>14, <1>15, <1>17, <1>18, <1>19 DEF Stays

\* What a directory leaves behind when it goes: nothing that was refused, and
\* nothing the walk will come to.
LEMMA WalkEndsStay ==
  ASSUME Inv, Stays, Leave \/ EndWalk \/ Walked
  PROVE  Stays'
<1> USE DEF params, walk, history
<1>1. CASE EndWalk
  <2>1. /\ UNCHANGED <<job, todo, src, dst, declined>> /\ pc = "walk" /\ pc' = "walked"
        /\ stack' = <<>>
    BY <1>1 DEF EndWalk
  <2> QED
    BY <2>1, StaysSame
<1>2. CASE Walked
  <2>1. /\ ~Deleting /\ todo # <<>> /\ pc = "walked" /\ pc' = "icon"
        /\ UNCHANGED <<job, todo, stack, dst, declined>>
        /\ src' = src \/ (src' = src \ {Path} /\ Empty(Path))
    BY <1>2 DEF Walked, Inv, Placed
  <2>2. /\ Refused \subseteq src /\ \A p \in Refused : dst[p] # "none"
        /\ InWay
        /\ Path \in Dirs /\ dst[Path] # "dir" => Under[Path] \cap Refused \subseteq {Path}
        /\ Path \notin declined \/ dst[Path] \in There
    BY <2>1 DEF Stays, PutThere
  <2>3. Refused' = Refused
    BY <2>1, RefusedNext DEF Refused
  <2>4. Path \in Paths /\ Path \in Entries \cap Dirs /\ Path \in Under[Path]
    BY <2>1, PathTypes, TreeAssumption DEF Inv, Placed, Tree
\* A directory that was refused is not empty.
  <2>5. Empty(Path) /\ Path \in src => Path \notin Refused
    BY <2>2, <2>4 DEF Empty, InWay, Holds, Refused
  <2>6. Refused' \subseteq src'
    BY <2>1, <2>2, <2>3, <2>5
  <2>7. InWay'
    BY <2>1, <2>2, <2>4, InWayKept
  <2> QED
    BY <2>1, <2>2, <2>3, <2>6, <2>7, StaysAtPath
<1>3. CASE Leave
  <2>1. /\ ~Deleting /\ todo # <<>> /\ pc = "walk" /\ pc' = "walk"
        /\ UNCHANGED <<job, todo, dst, declined>> /\ src' \in {src, src \ {Top.dir}}
        /\ stack' = Tail(stack) /\ Len(stack) > 1
        /\ stack \in Seq(Level) /\ stack # <<>>
    BY <1>3 DEF Leave, Inv, Placed, TypeOK
  <2>2. Top = stack[1] /\ 1 \in DOMAIN stack /\ Top.dir \in Dirs
    BY <2>1, StackTypes, RestParts DEF Inv
  <2>3. /\ Refused \subseteq src /\ Ahead /\ Levels /\ PutThere
        /\ Refused' = Refused
    BY <2>1, RefusedNext DEF Stays, Refused
  <2>4. Top.dir \notin Refused
    BY <2>1, <2>2, <2>3 DEF Levels, LevelOK, Refused
  <2>5. Ahead'
    BY <2>1, <2>3, AheadKept
  <2>6. Levels'
    <3>1. ASSUME NEW i \in DOMAIN stack'
          PROVE  /\ i \in Nat /\ i + 1 \in DOMAIN stack /\ 1 < i + 1
                 /\ stack'[i] = stack[i + 1]
      BY <2>1, <3>1
    <3>2. ASSUME NEW i \in DOMAIN stack'
          PROVE  /\ stack[i + 1].dir \notin Refused'
                 /\ stack[i + 1].rest \cap Dirs \subseteq src'
      <4>1. LevelOK(stack[i + 1]) /\ stack[i + 1] \in Level
        BY <2>1, <2>3, <3>1 DEF Levels
      <4>2. Top.dir \notin stack[i + 1].rest
        <5>1. Top.dir \in stack[i + 1].rest => Under[Top.dir] \cap Under[Top.dir] = {}
          BY <2>2, <2>3, <3>1 DEF Levels, Around
        <5>2. Top.dir \in Under[Top.dir]
          BY <2>2, TreeAssumption DEF Tree, Paths
        <5> QED
          BY <5>1, <5>2
      <4> QED
        BY <2>1, <2>3, <4>1, <4>2 DEF LevelOK
    <3> QED
      BY <2>1, <2>3, <3>1, <3>2, LevelsShrink
  <2>7. Deleting' = Deleting /\ Path' = Path
    BY <2>1 DEF Deleting, Path
  <2>8. InWay'
    <3>1. LevelOK(Top) /\ InWay /\ dst[Path] = "dir"
      BY <2>1, <2>2, <2>3 DEF Levels, PutThere
    <3> QED
      BY <2>1, <3>1, InWayKept DEF LevelOK, There
  <2>9. PutThere'
    BY <2>1, <2>3, <2>7, <2>8 DEF PutThere
  <2>10. Asks'
    BY <2>1, <2>7 DEF Asks
  <2> QED
    BY <2>1, <2>3, <2>4, <2>5, <2>6, <2>9, <2>10 DEF Stays
<1> QED
  BY <1>1, <1>2, <1>3

\* A job that deletes takes one path away, or is told not to.
LEMMA DeletesStays ==
  ASSUME Stays, Deleting, prot \cap Dirs \cap Entries = {}, NEW p \in Paths, NEW flags,
         NEW a \in Removed(p, flags), Deletes(p, a),
         declined' = (IF Refuses(a) THEN declined \cup {p} ELSE declined),
         p \in src, p \notin Refused
  PROVE  /\ Refused' \subseteq src' /\ Refused' \cap Dirs \cap Entries = {}
         /\ Refused' \subseteq Refused \cup {p}
<1>1. /\ Refuses(a) => a.say # "proceed"
      /\ Refuses(a) => p \in prot
  BY RemovedAsks DEF Refuses
<1>2. src' = src \/ (src' = src \ {p} /\ ~Refuses(a))
  BY <1>1 DEF Deletes
<1>3. Refused \subseteq src /\ Refused \cap Dirs \cap Entries = {}
  BY DEF Stays, Asks
<1>4. /\ Refused' \subseteq Refused \cup {p}
      /\ ~Refuses(a) => Refused' = Refused
  BY RefusedNext DEF Refused
<1>5. Refused' \subseteq src'
  <2>1. CASE src' = src
    BY <1>3, <1>4, <2>1
  <2>2. CASE src' = src \ {p} /\ ~Refuses(a)
    BY <1>3, <1>4, <2>2
  <2> QED
    BY <1>2, <2>1, <2>2
<1>6. Refused' \cap Dirs \cap Entries = {}
  <2>1. CASE Refuses(a)
    BY <1>1, <1>3, <1>4, <2>1
  <2>2. CASE ~Refuses(a)
    BY <1>3, <1>4, <2>2
  <2> QED
    BY <2>1, <2>2
<1> QED
  BY <1>4, <1>5, <1>6

LEMMA DelFileStays ==
  ASSUME Inv, Stays, prot \cap Dirs \cap Entries = {}, DelFile
  PROVE  Stays'
<1>1. /\ Deleting /\ todo # <<>> /\ pc = "delfile" /\ stack = <<>> /\ stack' = <<>>
      /\ job' = job /\ Path \in Paths
  BY PathTypes DEF DelFile, Inv, Placed, TypeOK, params
<1>2. PICK a \in IF Path \in src THEN Removed(Path, reqflags)
                               ELSE {Answer("proceed", reqflags)} :
        /\ Deletes(Path, a)
        /\ declined' = IF Refuses(a) THEN declined \cup {Path} ELSE declined
        /\ \/ pc' \in {"delicon", "done"} /\ todo' = todo
           \/ pc' = "next" /\ todo' = Tail(todo)
  BY DEF DelFile, NextEntry
<1>3. Path \in Under[Path] /\ Under[Path] \cap Refused = {} /\ Ahead
      /\ Refused \subseteq src /\ Refused \cap Dirs \cap Entries = {}
  BY <1>1, TreeAssumption DEF Tree, Stays, Asks, Untouched
<1>4. /\ Refused' \subseteq src' /\ Refused' \cap Dirs \cap Entries = {}
      /\ Refused' \subseteq Refused \cup {Path}
  <2>1. CASE Path \in src
    BY <1>1, <1>2, <1>3, <2>1, DeletesStays
  <2>2. CASE Path \notin src
    <3>1. a.say = "proceed"
      BY <1>2, <2>2 DEF Answer
    <3>2. src' = src /\ Refused' = Refused
      BY <1>2, <2>2, <3>1, RefusedNext DEF Deletes, Refuses, Refused
    <3> QED
      BY <1>3, <3>2
  <2> QED
    BY <2>1, <2>2
<1>5. Ahead' /\ (todo' = Tail(todo) /\ todo' # <<>> => Untouched(Path)')
  BY <1>1, <1>2, <1>3, <1>4, AheadKept
<1>6. Deleting'
  BY <1>1 DEF Deleting
<1>7. Levels' /\ PutThere'
  BY <1>1, <1>6, NoLevels DEF PutThere
<1>8. Asks'
  BY <1>2, <1>4, <1>5 DEF Asks
<1> QED
  BY <1>4, <1>5, <1>7, <1>8 DEF Stays

LEMMA DelIconStays ==
  ASSUME Inv, Stays, DelIcon
  PROVE  Stays'
<1> USE DEF params, history
<1>1. /\ Deleting /\ todo # <<>> /\ pc = "delicon" /\ stack = <<>> /\ stack' = <<>>
      /\ job' = job
      /\ \/ pc' = "done" /\ todo' = todo
         \/ pc' = "next" /\ todo' = Tail(todo)
  BY DEF DelIcon, NextEntry, Inv, Placed, TypeOK
<1>2. Refused \subseteq src /\ Refused \cap Dirs \cap Entries = {} /\ Ahead
  BY <1>1 DEF Stays, Asks
<1>3. Icon # NULL => Icon \in Icons
  BY <1>1, PathTypes DEF Inv
<1>4. Refused' = Refused /\ Refused' \subseteq src'
  <2>1. CASE UNCHANGED <<src, declined>>
    BY <1>2, <2>1, RefusedNext DEF Refused
  <2>2. CASE /\ Icon # NULL
             /\ \E a : /\ Deletes(Icon, a)
                       /\ declined' = IF Refuses(a) THEN declined \cup {Icon} ELSE declined
    <3>1. Icon \notin Refused /\ Refused' = Refused
      BY <1>3, <2>2, RefusedNext DEF Refused
    <3>2. src' \in {src, src \ {Icon}}
      BY <2>2 DEF Deletes
    <3> QED
      BY <1>2, <3>1, <3>2
  <2> QED
    BY <2>1, <2>2 DEF DelIcon
<1>5. Ahead' /\ (todo' = Tail(todo) /\ todo' # <<>> => Untouched(Path)')
  BY <1>1, <1>2, <1>4, AheadKept
<1>6. Deleting'
  BY <1>1 DEF Deleting
<1>7. Levels' /\ PutThere'
  BY <1>1, <1>6, NoLevels DEF PutThere
<1>8. Asks'
  BY <1>1, <1>2, <1>4, <1>5 DEF Asks
<1> QED
  BY <1>4, <1>5, <1>7, <1>8 DEF Stays

LEMMA DelDirStays ==
  ASSUME Inv, Stays, prot \cap Dirs \cap Entries = {}, DelDir
  PROVE  Stays'
<1>1. /\ Deleting /\ todo # <<>> /\ pc = "deldir" /\ stack = <<>>
      /\ UNCHANGED <<job, todo, src, dst>> /\ Path \in Dirs \cap Paths
      /\ Path \in Entries /\ Path \notin prot
  BY PathTypes DEF DelDir, Inv, Placed, TypeOK, params
<1>2. Under[Path] \cap Refused = {} /\ Refused \subseteq src /\ Refused \cap Dirs \cap Entries = {} /\ Ahead
  BY <1>1 DEF Stays, Asks, Untouched
\* The directory is not protected, nobody is asked.
<1>3. /\ declined' = declined
      /\ \/ pc' = "walk" /\ stack' = <<[dir |-> Path, rest |-> Listed(Path)]>> \o <<>>
         \/ pc' \in {"delicon", "walked", "done"} /\ stack' = <<>>
  <2>1. CASE pc' = "delicon" /\ UNCHANGED <<stack, declined>>
    BY <1>1, <2>1
  <2>2. CASE \E a \in {Answer("proceed", reqflags)} :
               /\ declined' = (IF Refuses(a) THEN declined \cup (Under[Path] \cap src)
                               ELSE declined)
               /\ \/ a.say = "skip"
                  \/ Scan(Path, <<>>, Refuses(a))
                  \/ StopWalk
    <3>1. /\ declined' = declined
          /\ (\E bad : Scan(Path, <<>>, bad)) \/ StopWalk
      BY <2>2 DEF Answer, Refuses
    <3> QED
      BY <1>1, <3>1 DEF Scan, StopWalk
  <2> QED
    BY <1>1, <2>1, <2>2 DEF DelDir
<1>4. Refused' = Refused
  BY <1>3, RefusedNext DEF Refused
<1>5. CASE stack' = <<>> /\ pc' \in {"delicon", "walked", "done"}
  BY <1>1, <1>3, <1>5, StaysSame
<1>6. CASE pc' = "walk" /\ stack' = <<[dir |-> Path, rest |-> Listed(Path)]>> \o <<>>
  <2>1. Levels'
    BY <1>1, <1>2, <1>4, <1>6, LevelsTop
  <2>2. Ahead'
    BY <1>1, <1>2, <1>4, AheadKept
  <2>3. Deleting'
    BY <1>1 DEF Deleting
  <2>4. PutThere' /\ Asks'
    BY <1>2, <1>4, <1>6, <2>3 DEF PutThere, Asks
  <2> QED
    BY <1>1, <1>2, <1>4, <2>1, <2>2, <2>4 DEF Stays
<1> QED
  BY <1>3, <1>5, <1>6

LEMMA ScanSubStays ==
  ASSUME Inv, Stays, Deleting, EnterSub
  PROVE  Stays'
<1>1. PICK d \in Top.rest \cap Dirs :
        /\ Scan(d, Rest(d), FALSE)
        /\ UNCHANGED <<params, todo, src, dst, declined>>
  BY DEF EnterSub
<1>2. /\ pc = "walk" /\ todo # <<>> /\ job' = job /\ Levels /\ Ahead
      /\ Refused \subseteq src /\ Refused \cap Dirs \cap Entries = {} /\ Refused' = Refused
  BY <1>1, RefusedNext DEF EnterSub, Inv, Placed, Stays, Asks, params, Refused
<1>3. \/ pc' = "walk" /\ stack' = <<[dir |-> d, rest |-> Listed(d)]>> \o Rest(d)
      \/ pc' \in {"walked", "done"} /\ stack' = <<>>
  BY <1>1 DEF Scan, StopWalk
<1>4. CASE pc' \in {"walked", "done"} /\ stack' = <<>>
  BY <1>1, <1>2, <1>4, StaysSame
<1>5. CASE pc' = "walk" /\ stack' = <<[dir |-> d, rest |-> Listed(d)]>> \o Rest(d)
  <2>1. Levels'
    BY <1>1, <1>2, <1>5, LevelsPush
  <2>2. Ahead'
    BY <1>1, <1>2, AheadKept
  <2>3. Deleting'
    BY <1>2 DEF Deleting
  <2>4. PutThere' /\ Asks'
    BY <1>2, <1>5, <2>3 DEF PutThere, Asks
  <2> QED
    BY <1>1, <1>2, <2>1, <2>2, <2>4 DEF Stays
<1> QED
  BY <1>3, <1>4, <1>5

\* What the walk deletes, or leaves, it does not come to again: it lies beside
\* everything that is still listed.
LEMMA DelItemStays ==
  ASSUME Inv, Stays, prot \cap Dirs \cap Entries = {}, DelItem
  PROVE  Stays'
<1>1. /\ Deleting /\ todo # <<>> /\ pc = "walk" /\ UNCHANGED <<job, todo>>
      /\ stack \in Seq(Level) /\ stack # <<>> /\ Path \in Paths
  BY PathTypes DEF DelItem, Inv, Placed, TypeOK, params
<1>2. Levels /\ Ahead /\ Refused \subseteq src /\ Refused \cap Dirs \cap Entries = {}
  BY <1>1 DEF Stays, Asks
<1>3. PICK p \in IF Top.rest = {} THEN {Top.dir} ELSE Top.rest \ Dirs :
        \/ /\ stack' = (IF Top.rest = {} THEN Tail(stack) ELSE Rest(p)) /\ pc' = pc
           /\ UNCHANGED <<src, declined>>
        \/ \E a \in Removed(p, reqflags) :
             /\ p \in Dirs => Empty(p)
             /\ Deletes(p, a)
             /\ declined' = IF Refuses(a) THEN declined \cup {p} ELSE declined
             /\ \/ /\ stack' = (IF Top.rest = {} THEN Tail(stack) ELSE Rest(p))
                   /\ pc' = pc
                \/ StopWalk
  BY DEF DelItem, history
<1>4. /\ 1 \in DOMAIN stack /\ Top = stack[1] /\ DOMAIN Rest(p) = DOMAIN stack
      /\ Rest(p)[1].dir = Top.dir /\ Rest(p)[1].rest = Top.rest \ {p}
      /\ \A i \in DOMAIN stack : i # 1 => Rest(p)[i] = stack[i]
      /\ Top.dir \in Dirs /\ Top.rest \subseteq Paths
  BY <1>1, StackTypes, RestParts DEF Inv
<1>5. LevelOK(Top)
  BY <1>2, <1>4 DEF Levels
<1>6. /\ p \in Paths /\ (p \in Dirs \/ p \in src) /\ p \in Under[p] /\ p \notin Refused
      /\ p \in Under[Top.dir] /\ p \in Under[Path]
  <2>1. CASE p = Top.dir
    BY <1>1, <1>2, <1>4, <1>5, <2>1, TreeAssumption DEF Tree, LevelOK, Paths
  <2>2. CASE p \in Top.rest
    <3>1. p \in Inside[Top.dir] /\ p \in src /\ Untouched(p) /\ Top.dir \in Under[Path]
      BY <1>1, <1>5, <2>2 DEF LevelOK
    <3>2. p \in Under[p] /\ Under[p] \subseteq Under[Top.dir] /\ p \in Under[Path]
      BY <1>1, <1>4, <2>2, <3>1, TreeAssumption DEF Tree
    <3> QED
      BY <1>4, <2>2, <3>1, <3>2 DEF Untouched
  <2> QED
    BY <1>3, <2>1, <2>2
<1>7. /\ src' \in {src, src \ {p}}
      /\ Refused' \subseteq src' /\ Refused' \cap Dirs \cap Entries = {}
      /\ Refused' \subseteq Refused \cup {p}
  <2>1. CASE UNCHANGED <<src, declined>>
    BY <1>2, <2>1, RefusedNext DEF Refused
  <2>2. ASSUME NEW a \in Removed(p, reqflags), p \in Dirs => Empty(p), Deletes(p, a),
               declined' = IF Refuses(a) THEN declined \cup {p} ELSE declined
        PROVE  /\ src' \in {src, src \ {p}}
               /\ Refused' \subseteq src' /\ Refused' \cap Dirs \cap Entries = {}
               /\ Refused' \subseteq Refused \cup {p}
    <3>1. p \in src
      BY <1>6, <2>2 DEF Empty
    <3> QED
      BY <1>1, <1>6, <2>2, <3>1, DeletesStays DEF Deletes
  <2> QED
    BY <1>3, <2>1, <2>2
<1>8. \/ pc' = "walk" /\ stack' = (IF Top.rest = {} THEN Tail(stack) ELSE Rest(p))
      \/ pc' = "done" /\ stack' = <<>>
  BY <1>1, <1>3 DEF StopWalk
<1>9. ASSUME NEW i \in DOMAIN stack, i # 1, NEW e \in stack[i].rest
      PROVE  p \notin Under[e] /\ p # e
  <2>1. 1 < i
    BY <1>1, <1>9
  <2>2. Under[Top.dir] \cap Under[e] = {}
    BY <1>2, <1>4, <2>1 DEF Levels, Around
  <2>3. e \in Paths
    <3>1. stack[i] \in Level
      BY <1>1
    <3> QED
      BY <3>1 DEF Level
  <2> QED
    BY <1>6, <2>2, <2>3, TreeAssumption DEF Tree
\* The directories of the outer levels are not what was just looked at.
<1>10. ASSUME NEW i \in DOMAIN stack, i # 1
       PROVE  stack[i].dir \notin Refused'
  <2>1. LevelOK(stack[i]) /\ Around(stack[i], Top)
    <3>1. 1 < i
      BY <1>1, <1>10
    <3> QED
      BY <1>2, <1>4, <3>1 DEF Levels
  <2> QED
    BY <1>6, <1>7, <2>1 DEF LevelOK, Around
<1>11. Levels'
  <2>1. CASE stack' = <<>>
    BY <2>1, NoLevels
  <2>2. CASE Top.rest = {} /\ stack' = Tail(stack)
    <3>1. ASSUME NEW i \in DOMAIN stack'
          PROVE  /\ i \in Nat /\ i + 1 \in DOMAIN stack /\ i + 1 # 1
                 /\ stack'[i] = stack[i + 1]
      BY <1>1, <2>2, <3>1
    <3>2. ASSUME NEW i \in DOMAIN stack'
          PROVE  /\ stack[i + 1].rest \subseteq src'
                 /\ \A e \in stack[i + 1].rest : Under[e] \cap Refused' = {}
      <4>1. LevelOK(stack[i + 1])
        BY <1>2, <3>1 DEF Levels
      <4>2. \A e \in stack[i + 1].rest : p \notin Under[e] /\ p # e
        BY <1>9, <3>1
      <4> QED
        BY <1>1, <1>7, <4>1, <4>2 DEF LevelOK, Untouched
    <3> QED
      BY <1>1, <1>2, <1>10, <3>1, <3>2, LevelsShrink
  <2>3. CASE Top.rest # {} /\ stack' = Rest(p)
    <3>1. p \in Top.rest /\ p \notin Dirs
      BY <1>3, <2>3
    <3>2. ASSUME NEW i \in DOMAIN stack
          PROVE  /\ stack'[i].dir = stack[i].dir /\ stack'[i].rest \subseteq stack[i].rest
                 /\ \A e \in stack'[i].rest : p \notin Under[e] /\ p # e
      <4>1. CASE i = 1
        <5>1. \A e \in Top.rest \ {p} : Under[p] \cap Under[e] = {}
          BY <1>4, <1>5, <3>1, TreeAssumption DEF Tree, LevelOK
        <5> QED
          BY <1>4, <1>6, <2>3, <4>1, <5>1
      <4>2. CASE i # 1
        BY <1>4, <1>9, <2>3, <4>2
      <4> QED
        BY <4>1, <4>2
    <3>3. ASSUME NEW i \in DOMAIN stack
          PROVE  /\ stack'[i].rest \subseteq src'
                 /\ \A e \in stack'[i].rest : Under[e] \cap Refused' = {}
      <4>1. LevelOK(stack[i])
        BY <1>2 DEF Levels
      <4> QED
        BY <1>1, <1>7, <3>2, <4>1 DEF LevelOK, Untouched
    <3>4. DOMAIN stack' = DOMAIN stack
      BY <1>4, <2>3
    <3>5. \A i \in DOMAIN stack' : i \in Nat /\ i + 0 = i /\ i + 0 \in DOMAIN stack
      BY <1>1, <3>4
    <3>6. ASSUME NEW i \in DOMAIN stack
          PROVE  stack[i].dir \notin Refused'
      <4>1. CASE i = 1
        BY <1>4, <1>5, <1>7, <3>1, <4>1 DEF LevelOK
      <4> QED
        BY <1>10, <4>1
    <3> QED
      BY <1>1, <1>2, <3>2, <3>3, <3>4, <3>5, <3>6, LevelsShrink
  <2> QED
    BY <1>8, <2>1, <2>2, <2>3
<1>12. Ahead'
  BY <1>1, <1>2, <1>6, <1>7, AheadKept
<1>13. Deleting'
  BY <1>1 DEF Deleting
<1>14. PutThere' /\ Asks'
  BY <1>7, <1>8, <1>13 DEF PutThere, Asks
<1> QED
  BY <1>7, <1>11, <1>12, <1>14 DEF Stays

LEMMA DelWalkedStays ==
  ASSUME Inv, Stays, DelWalked
  PROVE  Stays'
<1>1. /\ Deleting /\ todo # <<>> /\ pc = "walked" /\ pc' \in {"delicon", "done"}
      /\ stack = <<>> /\ stack' = <<>> /\ Path \in Dirs \cap Entries
      /\ UNCHANGED <<job, todo, declined>> /\ src' \in {src, src \ {Path}}
  BY PathTypes DEF DelWalked, Inv, Placed, TypeOK, params, walk
<1>2. Refused \subseteq src /\ Refused \cap Dirs \cap Entries = {} /\ Ahead /\ Refused' = Refused
  BY <1>1, RefusedNext DEF Stays, Asks, Refused
<1>3. Ahead' /\ Levels'
  BY <1>1, <1>2, AheadKept, NoLevels
<1>4. Deleting'
  BY <1>1 DEF Deleting
<1> QED
  BY <1>1, <1>2, <1>3, <1>4 DEF Stays, PutThere, Asks

LEMMA InitStays ==
  ASSUME NoEmptyDirInWay, Init
  PROVE  Stays
<1>1. /\ declined = {} /\ stack = <<>> /\ pc = "next" /\ todo = Selected /\ dst \in Targets
      /\ src \in Sources
  BY DEF Init
<1>2. Refused = {}
  BY <1>1 DEF Refused
<1>3. Ahead
  BY <1>1, <1>2, TreeAssumption DEF Ahead, Untouched, Tree
<1>4. Levels
  BY <1>1 DEF Levels
<1>5. PutThere
  BY <1>1, <1>2 DEF PutThere, NoEmptyDirInWay, InWay, Holds
<1>6. Asks
  BY <1>1, <1>2 DEF Asks, Untouched
<1> QED
  BY <1>2, <1>3, <1>4, <1>5, <1>6 DEF Stays

\* The steps that write to the destination.
LEMMA NextKeepsThere ==
  ASSUME Inv, Stays, Next, ~Deleting
  PROVE  ThereKept
<1>1. CASE MoveByRename \/ CopyFile \/ IconByRename \/ IconByCopy
  BY <1>1, MoveByRenameStays, CopyFileStays, IconStays
<1>2. CASE EnterTop \/ EnterSub \/ WalkFile
  BY <1>2, EnterStepsStay, WalkFileStays
<1>3. CASE ~(MoveByRename \/ CopyFile \/ IconByRename \/ IconByCopy
              \/ EnterTop \/ EnterSub \/ WalkFile)
  <2>1. dst' = dst
    BY <1>3 DEF Next, Work, Ended, Abort, vars, params, walk, history, TakeEntry,
                ListEnds, AskName, Judge, NoIcon, Leave, EndWalk, Walked, DelFile,
                DelDir, DelItem, DelWalked, DelIcon
  <2> QED
    BY <2>1 DEF ThereKept
<1> QED
  BY <1>1, <1>2, <1>3

\* A file or a directory whose replacement or unprotection the user has refused,
\* and that is no icon, is not taken from the source, and what a copy or a move
\* found in its way at the destination is not touched, until the user agrees to
\* it: provided that no directory on the list itself is protected, and none is
\* empty while a file has its name at the destination. (Then it may be; see
\* README.md.)
THEOREM RefusalsKept ==
  ASSUME NoDirProtected, NoEmptyDirInWay
  PROVE  Spec => RefusedStays
<1>1. Init => Stays /\ CancelEnds
  BY InitStays DEF Init, CancelEnds, NoDirProtected
<1>2. Inv /\ CancelEnds /\ [Next]_vars => CancelEnds'
  BY CancelEndsKept
<1>3. Inv /\ CancelEnds /\ Stays /\ [Next]_vars => Stays'
  <2> SUFFICES ASSUME Inv, CancelEnds, Stays, [Next]_vars
               PROVE  Stays'
    OBVIOUS
  <2>1. prot \cap Dirs \cap Entries = {}
    BY DEF CancelEnds
  <2>2. CASE TakeEntry \/ ListEnds \/ AskName \/ Judge \/ NoIcon
    BY <2>2, ListStays
  <2>3. CASE MoveByRename \/ CopyFile \/ IconByRename \/ IconByCopy
    BY <2>3, MoveByRenameStays, CopyFileStays, IconStays
  <2>4. CASE EnterTop \/ EnterSub
    <3>1. EnterTop => ~Deleting
      BY DEF EnterTop, Inv, Placed
    <3> QED
      BY <2>4, <3>1, EnterStepsStay, ScanSubStays
  <2>5. CASE WalkFile \/ Leave \/ EndWalk \/ Walked
    BY <2>5, WalkFileStays, WalkEndsStay
  <2>6. CASE DelFile \/ DelDir \/ DelItem \/ DelWalked \/ DelIcon
    BY <2>1, <2>6, DelFileStays, DelDirStays, DelItemStays, DelWalkedStays, DelIconStays
  <2>7. CASE Abort
    <3>1. UNCHANGED <<job, todo, src, dst, declined, stack, pc>>
      BY <2>7 DEF Abort, params, walk, history
    <3> QED
      BY <3>1, StaysSame DEF Stays, Asks
  <2>8. CASE UNCHANGED vars
    <3>1. UNCHANGED <<job, todo, src, dst, declined, stack, pc>>
      BY <2>8 DEF vars, params, walk, history
    <3> QED
      BY <3>1, StaysSame DEF Stays, Asks
  <2> QED
    BY <2>2, <2>3, <2>4, <2>5, <2>6, <2>7, <2>8 DEF Next, Work, Ended
<1>4. Inv /\ Stays /\ Stays' /\ [Next]_vars =>
        [\A p \in (declined' \ Icons) \cap given :
           p \in src' /\ (~Deleting => dst'[p] = dst[p])]_vars
  <2> SUFFICES ASSUME Inv, Stays, Stays', Next, NEW p \in (declined' \ Icons) \cap given
               PROVE  p \in src' /\ (~Deleting => dst'[p] = dst[p])
    OBVIOUS
  <2>1. p \in Refused'
    BY RefusedNext
  <2> QED
    BY <2>1, NextKeepsThere DEF Stays, ThereKept
<1> QED
  BY <1>1, <1>2, <1>3, <1>4, AlwaysInv, PTL DEF Spec, RefusedStays

-----------------------------------------------------------------------------
(* Completeness: a job in which nothing fails, and nobody refuses or       *)
(* aborts anything, does all that it was asked to do, for any tree, any    *)
(* list and whatever lies at the destination.                              *)
(*                                                                         *)
(* That is so when the job ends, so the invariant says of each state what  *)
(* must be done by then: everything the list has left behind, everything   *)
(* the walk has left behind in each directory it is in, and everything     *)
(* that has gone from the source.                                          *)

\* Nothing lies in a directory that is not there.
Rooted == \A S \in Sources : \A d \in Dirs \ S : Under[d] \cap S = {}

Wholly(p) == IF p \in Dirs THEN "dir" ELSE "copy"

\* The job has done with p: what it moves or deletes has gone, what it copies
\* or moves is there.
Fine(p) ==
  /\ Copying \/ p \notin src
  /\ ~Deleting /\ p \in given => dst[p] = Wholly(p)

AllFine(p) == \A q \in Under[p] : Fine(q)

IconFine(p) == job.noicon \/ IconOf[p] = NULL \/ Fine(IconOf[p])

GoneFine ==
  /\ \A d \in Dirs \ src : Under[d] \cap src = {}
  /\ \A p \in Paths \ src : Fine(p)

OnList(e) == \E i \in DOMAIN todo : todo[i] = e

LeftFine == \A e \in Entries : OnList(e) \/ (AllFine(e) /\ IconFine(e))

\* The path at work
HereFine ==
  /\ ~aborted
  /\ pc = "done" => todo = <<>>
  /\ pc \in {"icon", "judge"} => rc = "ok"
  /\ pc \in {"icon", "judge", "delicon"} => AllFine(Path)
  /\ pc = "judge" => IconFine(Path)
  /\ pc = "delfile" => Path \notin Dirs \cap src
  /\ pc = "walked" => /\ \A e \in Inside[Path] : AllFine(e)
                      /\ ~Deleting => dst[Path] = "dir"

\* The directories the walk is in: what is no more on the list of one is
\* done, or is the next inner one.
WalkFine ==
  \A i \in DOMAIN stack :
    /\ ~Deleting => dst[stack[i].dir] = "dir"
    /\ \A e \in Inside[stack[i].dir] \ stack[i].rest :
         AllFine(e) \/ (i # 1 /\ e = stack[i - 1].dir)
    /\ i + 1 \notin DOMAIN stack => stack[i].dir = Path

Done == ~trouble => GoneFine /\ LeftFine /\ HereFine /\ WalkFine

-----------------------------------------------------------------------------
(* What the parts of a step keep of Done, as long as there is no trouble.  *)

\* A step without trouble: what goes is at the destination, and a directory
\* goes with all that was in it.
Forward ==
  /\ job' = job /\ given' = given /\ src' \subseteq src
  /\ \A p \in Paths : dst'[p] \in {dst[p], Wholly(p)}
  /\ \A p \in src \ src' : Deleting \/ dst'[p] = Wholly(p)
  /\ \A d \in Dirs \cap (src \ src') : Under[d] \cap src' = {}

\* Fine and AllFine of the next state, spelled out.
FineNext(p) ==
  /\ Copying \/ p \notin src'
  /\ ~Deleting /\ p \in given => dst'[p] = Wholly(p)

AllFineNext(p) == \A q \in Under[p] : FineNext(q)

IconFineNext(p) == job.noicon \/ IconOf[p] = NULL \/ FineNext(IconOf[p])

LEMMA FinePrimed ==
  ASSUME Forward
  PROVE  /\ \A p : Fine(p)' <=> FineNext(p)
         /\ \A p : AllFine(p)' <=> AllFineNext(p)
         /\ \A p : IconFine(p)' <=> IconFineNext(p)
<1>1. job' = job /\ given' = given
  BY DEF Forward
<1>2. \A p : Fine(p)' <=> FineNext(p)
  BY <1>1 DEF Fine, FineNext, Copying, Deleting, Wholly
<1>3. \A p : AllFine(p)' <=> AllFineNext(p)
  BY <1>2 DEF AllFine, AllFineNext
<1>4. \A p : IconFine(p)' <=> IconFineNext(p)
  BY <1>1, <1>2 DEF IconFine, IconFineNext
<1> QED
  BY <1>2, <1>3, <1>4

\* What is done stays done.
LEMMA FineKept ==
  ASSUME Inv, Forward
  PROVE  /\ \A p \in Paths : Fine(p) => FineNext(p)
         /\ \A p \in Paths : AllFine(p) => AllFineNext(p)
         /\ \A e \in Entries : IconFine(e) => IconFineNext(e)
<1>1. \A p \in Paths : Fine(p) => FineNext(p)
  BY DEF Fine, FineNext, Forward
<1>2. \A p \in Paths : AllFine(p) => AllFineNext(p)
  <2>1. \A p \in Paths : \A q \in Under[p] : q \in Paths
    BY TreeAssumption DEF Tree
  <2> QED
    BY <1>1, <2>1 DEF AllFine, AllFineNext
<1>3. \A e \in Entries : IconOf[e] \in Files \cup {NULL}
  BY ConstantsAssumption
<1>4. \A e \in Entries : IconFine(e) => IconFineNext(e)
  BY <1>1, <1>3 DEF IconFine, IconFineNext, Paths
<1> QED
  BY <1>1, <1>2, <1>4

LEMMA GoneKept ==
  ASSUME Inv, GoneFine, Forward
  PROVE  /\ GoneFine'
         /\ \A p \in Paths \ src' : FineNext(p)
         /\ \A d \in Dirs \ src' : Under[d] \cap src' = {}
<1>1. \A p \in Paths \ src' : FineNext(p)
  <2> SUFFICES ASSUME NEW p \in Paths \ src'
               PROVE  FineNext(p)
    OBVIOUS
  <2>1. CASE p \notin src
    BY <2>1, FineKept DEF GoneFine
  <2>2. CASE p \in src
    BY <2>2 DEF FineNext, Forward
  <2> QED
    BY <2>1, <2>2
<1>2. \A d \in Dirs \ src' : Under[d] \cap src' = {}
  BY DEF GoneFine, Forward
<1> QED
  BY <1>1, <1>2, FinePrimed DEF GoneFine

\* What is not at the source needs no more work.
LEMMA NotThereFine ==
  ASSUME GoneFine, NEW p \in Paths \ src
  PROVE  AllFine(p)
<1> SUFFICES ASSUME NEW q \in Under[p]
             PROVE  Fine(q)
  BY DEF AllFine
<1>1. q \in Paths
  BY TreeAssumption DEF Tree
<1>2. q \notin src
  <2>1. CASE p \in Dirs
    BY <2>1 DEF GoneFine
  <2>2. CASE p \notin Dirs
    <3>1. Under[p] = {p}
      BY <2>2, TreeAssumption DEF Tree, Paths
    <3> QED
      BY <3>1
  <2> QED
    BY <2>1, <2>2
<1> QED
  BY <1>1, <1>2 DEF GoneFine

\* The list, while the path at work is handled, and when it is left.
LEMMA LeftKept ==
  ASSUME Inv, LeftFine, Forward, todo' = todo
  PROVE  LeftFine'
<1>1. \A e \in Entries : e \in Paths
  BY ConstantsAssumption DEF Entries
<1>2. \A e : OnList(e)' <=> OnList(e)
  BY DEF OnList
<1> QED
  BY <1>1, <1>2, FineKept, FinePrimed DEF LeftFine, Entries

LEMMA LeftNext ==
  ASSUME Inv, LeftFine, Forward, todo # <<>>, todo' = Tail(todo),
         AllFineNext(Path), IconFineNext(Path)
  PROVE  LeftFine'
<1>1. \A e \in Entries : e \in Paths
  BY ConstantsAssumption DEF Entries
<1>2. ASSUME NEW e, OnList(e), e # Path
      PROVE  OnList(e)'
  <2>1. PICK i \in DOMAIN todo : todo[i] = e
    BY <1>2 DEF OnList
  <2>2. todo \in Seq(Paths)
    BY DEF Inv, TypeOK
  <2>3. i # 1
    BY <1>2, <2>1, <2>2 DEF Path
  <2>4. i - 1 \in DOMAIN todo' /\ todo'[i - 1] = e
    BY <2>1, <2>2, <2>3
  <2> QED
    BY <2>4 DEF OnList
<1>3. ASSUME NEW e \in Entries
      PROVE  OnList(e)' \/ (AllFineNext(e) /\ IconFineNext(e))
  <2>1. CASE e = Path
    BY <2>1
  <2>2. CASE e # Path /\ OnList(e)
    BY <1>2, <2>2
  <2>3. CASE e # Path /\ ~OnList(e)
    BY <1>1, <2>3, FineKept DEF LeftFine
  <2> QED
    BY <2>1, <2>2, <2>3
<1> QED
  BY <1>3, FinePrimed DEF LeftFine, Entries

\* The path at work, while it is handled, and when it is left.
LEMMA HereKept ==
  ASSUME Forward, todo' = todo, ~aborted', pc' = "done" => todo = <<>>,
         pc' \in {"icon", "judge"} => rc' = "ok",
         pc' \in {"icon", "judge", "delicon"} => AllFineNext(Path),
         pc' = "judge" => IconFineNext(Path),
         pc' = "delfile" => Path \notin Dirs \cap src',
         pc' = "walked" => /\ \A e \in Inside[Path] : AllFineNext(e)
                           /\ ~Deleting => dst'[Path] = "dir"
  PROVE  HereFine'
<1>1. Path' = Path /\ Deleting' = Deleting
  BY DEF Path, Deleting, Forward
<1>2. /\ AllFine(Path)' <=> AllFineNext(Path)
      /\ IconFine(Path)' <=> IconFineNext(Path)
  BY <1>1, FinePrimed DEF AllFine, IconFine
<1>3. \A e : AllFine(e)' <=> AllFineNext(e)
  BY FinePrimed
<1> QED
  BY <1>1, <1>2, <1>3 DEF HereFine

LEMMA HereNext ==
  ASSUME ~aborted', pc' = "next"
  PROVE  HereFine'
BY DEF HereFine

\* A level of the next state, spelled out.
LevelFineNext(i) ==
  /\ ~Deleting => dst'[stack'[i].dir] = "dir"
  /\ \A e \in Inside[stack'[i].dir] \ stack'[i].rest :
       AllFineNext(e) \/ (i # 1 /\ e = stack'[i - 1].dir)
  /\ i + 1 \notin DOMAIN stack' => stack'[i].dir = Path

LEMMA WalkNext ==
  ASSUME Forward, todo' = todo, \A i \in DOMAIN stack' : LevelFineNext(i)
  PROVE  WalkFine'
<1>1. Path' = Path /\ Deleting' = Deleting
  BY DEF Path, Deleting, Forward
<1>2. \A e : AllFine(e)' <=> AllFineNext(e)
  BY FinePrimed
<1> QED
  BY <1>1, <1>2 DEF WalkFine, LevelFineNext

LEMMA NoWalk ==
  ASSUME stack' = <<>>
  PROVE  WalkFine'
BY DEF WalkFine

\* What is not yet done in a directory is on its list.
LEMMA LevelTypes ==
  ASSUME Inv, NEW i \in DOMAIN stack
  PROVE  /\ stack[i].dir \in Dirs /\ stack[i].rest \subseteq Paths /\ i \in Nat
         /\ Inside[stack[i].dir] \subseteq Paths /\ stack[i].dir \in Paths
<1>1. stack \in Seq(Level)
  BY DEF Inv, TypeOK
<1>2. stack[i] \in Level /\ i \in Nat
  BY <1>1
<1> QED
  BY <1>2, ConstantsAssumption DEF Level, Paths

\* The walk goes down to the directory of the list.
LEMMA WalkTop ==
  ASSUME Inv, GoneFine, Forward, src' = src, todo' = todo, Path \in Dirs,
         stack' = <<[dir |-> Path, rest |-> Listed(Path)]>> \o <<>>,
         ~Deleting => dst'[Path] = "dir"
  PROVE  WalkFine'
<1> DEFINE l == [dir |-> Path, rest |-> Listed(Path)]
<1>1. stack' = <<l>> /\ l.dir = Path /\ l.rest = Inside[Path] \cap src
  BY DEF Listed
<1>2. \A e \in Inside[Path] \ l.rest : AllFineNext(e)
  <2>1. \A e \in Inside[Path] \ l.rest : e \in Paths \ src
    BY <1>1, ConstantsAssumption
  <2> QED
    BY <2>1, NotThereFine, FineKept
<1> HIDE DEF l
<1>3. DOMAIN stack' = {1} /\ stack'[1] = l
  BY <1>1
<1>4. LevelFineNext(1)
  BY <1>1, <1>2, <1>3 DEF LevelFineNext
<1> QED
  BY <1>3, <1>4, WalkNext

\* It goes down to a directory it has found.
LEMMA WalkPush ==
  ASSUME Inv, GoneFine, WalkFine, Forward, pc = "walk", src' = src, todo' = todo,
         NEW d \in Top.rest \cap Dirs,
         stack' = <<[dir |-> d, rest |-> Listed(d)]>> \o Rest(d),
         ~Deleting => dst'[d] = "dir"
  PROVE  WalkFine'
<1> DEFINE l == [dir |-> d, rest |-> Listed(d)]
<1>1. l.dir = d /\ l.rest = Inside[d] \cap src /\ stack' = <<l>> \o Rest(d)
  BY DEF Listed
<1>2. \A e \in Inside[d] \ l.rest : AllFineNext(e)
  <2>1. \A e \in Inside[d] \ l.rest : e \in Paths \ src
    BY <1>1, ConstantsAssumption
  <2> QED
    BY <2>1, NotThereFine, FineKept
<1> HIDE DEF l
<1>3. /\ 1 \in DOMAIN stack /\ Top = stack[1] /\ DOMAIN Rest(d) = DOMAIN stack
      /\ Rest(d)[1].dir = Top.dir /\ Rest(d)[1].rest = Top.rest \ {d}
      /\ \A i \in DOMAIN stack : i # 1 => Rest(d)[i] = stack[i]
      /\ Rest(d) \in Seq(Level) /\ stack \in Seq(Level)
  BY RestParts DEF Inv, TypeOK
<1>4. /\ 1 \in DOMAIN stack' /\ stack'[1] = l
      /\ \A i \in DOMAIN stack' :
           i \in Nat /\ (i # 1 => i - 1 \in DOMAIN Rest(d) /\ i > 1 /\ stack'[i] = Rest(d)[i - 1])
  BY <1>1, <1>3, PushParts
<1>5. /\ \A i \in DOMAIN stack : i + 1 \in DOMAIN stack'
      /\ 2 \in DOMAIN stack'
  BY <1>1, <1>3
<1>6. LevelFineNext(1)
  BY <1>1, <1>2, <1>4, <1>5 DEF LevelFineNext
<1>7. LevelFineNext(2)
  <2>1. stack'[2].dir = stack[1].dir /\ stack'[2].rest = stack[1].rest \ {d}
    BY <1>3, <1>4, <1>5
  <2>2. \A e \in Inside[stack[1].dir] \ stack[1].rest : AllFineNext(e)
    <3>1. \A e \in Inside[stack[1].dir] \ stack[1].rest : AllFine(e) /\ e \in Paths
      BY <1>3, LevelTypes DEF WalkFine
    <3> QED
      BY <3>1, FineKept
  <2>3. ~Deleting => dst'[stack[1].dir] = "dir"
    <3>1. stack[1].dir \in Paths \cap Dirs
      BY <1>3, LevelTypes
    <3> QED
      BY <1>3, <3>1 DEF WalkFine, Forward, Wholly
  <2>4. 3 \notin DOMAIN stack' => stack[1].dir = Path
    <3>1. 2 \in DOMAIN stack => 3 \in DOMAIN stack'
      BY <1>5
    <3> QED
      BY <1>3, <3>1 DEF WalkFine
  <2>5. \A e \in Inside[stack'[2].dir] \ stack'[2].rest :
          AllFineNext(e) \/ e = stack'[1].dir
    <3>1. stack'[1].dir = d
      BY <1>1, <1>4
    <3> QED
      BY <2>1, <2>2, <3>1
  <2>6. 2 - 1 = 1 /\ 2 + 1 = 3 /\ 2 # 1
    OBVIOUS
  <2>7. /\ ~Deleting => dst'[stack'[2].dir] = "dir"
        /\ 3 \notin DOMAIN stack' => stack'[2].dir = Path
    BY <2>1, <2>3, <2>4
  <2> QED
    BY <2>5, <2>6, <2>7 DEF LevelFineNext
<1>8. ASSUME NEW i \in DOMAIN stack', i # 1, i # 2
      PROVE  LevelFineNext(i)
  <2>1. i \in Nat /\ i > 2 /\ i - 1 \in DOMAIN stack /\ i - 1 # 1 /\ stack'[i] = stack[i - 1]
    BY <1>3, <1>4, <1>8
  <2>2. i - 1 \in DOMAIN stack' /\ stack'[i - 1].dir = stack[(i - 1) - 1].dir
    <3>1. i - 1 \in DOMAIN stack'
      BY <1>1, <1>3, <2>1
    <3>2. stack'[i - 1] = Rest(d)[(i - 1) - 1] /\ (i - 1) - 1 \in DOMAIN Rest(d)
      BY <1>4, <2>1, <3>1
    <3> QED
      BY <1>3, <3>1, <3>2
  <2>3. (i - 1) + 1 \in DOMAIN stack => i + 1 \in DOMAIN stack'
    <3>1. (i - 1) + 1 = i
      BY <2>1
    <3> QED
      BY <1>5, <3>1
  <2>4. \A e \in Inside[stack[i - 1].dir] : e \in Paths
    BY <2>1, LevelTypes
  <2>5. stack[i - 1].dir \in Paths \cap Dirs
    BY <2>1, LevelTypes
  <2>6. /\ ~Deleting => dst'[stack[i - 1].dir] = "dir"
        /\ \A e \in Inside[stack[i - 1].dir] \ stack[i - 1].rest :
             AllFineNext(e) \/ e = stack[(i - 1) - 1].dir
        /\ i + 1 \notin DOMAIN stack' => stack[i - 1].dir = Path
    BY <2>1, <2>3, <2>4, <2>5, FineKept DEF WalkFine, Forward, Wholly
  <2> QED
    BY <1>8, <2>1, <2>2, <2>6 DEF LevelFineNext
<1> QED
  BY <1>6, <1>7, <1>8, WalkNext

\* An entry of the innermost directory is done.
LEMMA WalkRest ==
  ASSUME Inv, WalkFine, Forward, pc = "walk", todo' = todo,
         NEW p \in Top.rest, stack' = Rest(p), AllFineNext(p)
  PROVE  WalkFine'
<1>1. /\ 1 \in DOMAIN stack /\ Top = stack[1] /\ DOMAIN Rest(p) = DOMAIN stack
      /\ Rest(p)[1].dir = Top.dir /\ Rest(p)[1].rest = Top.rest \ {p}
      /\ \A i \in DOMAIN stack : i # 1 => Rest(p)[i] = stack[i]
      /\ stack \in Seq(Level)
  BY RestParts DEF Inv, TypeOK
<1>2. ASSUME NEW i \in DOMAIN stack'
      PROVE  LevelFineNext(i)
  <2>1. i \in DOMAIN stack /\ i \in Nat
    BY <1>1
  <2>2. /\ stack'[i].dir = stack[i].dir
        /\ \A e \in Inside[stack'[i].dir] \ stack'[i].rest :
             e \in Inside[stack[i].dir] \ stack[i].rest \/ e = p
    BY <1>1, <2>1
  <2>3. stack[i].dir \in Paths \cap Dirs /\ \A e \in Inside[stack[i].dir] : e \in Paths
    BY <2>1, LevelTypes
  <2>4. /\ ~Deleting => dst'[stack[i].dir] = "dir"
        /\ \A e \in Inside[stack[i].dir] \ stack[i].rest :
             AllFineNext(e) \/ (i # 1 /\ e = stack[i - 1].dir)
        /\ i + 1 \notin DOMAIN stack => stack[i].dir = Path
    BY <2>1, <2>3, FineKept DEF WalkFine, Forward, Wholly
  <2>5. i # 1 => stack'[i - 1].dir = stack[i - 1].dir
    <3>1. i # 1 => i - 1 \in DOMAIN stack
      BY <1>1, <2>1
    <3> QED
      BY <1>1, <3>1
  <2> QED
    BY <1>1, <2>2, <2>4, <2>5 DEF LevelFineNext
<1> QED
  BY <1>2, WalkNext

\* The innermost directory is done.
LEMMA WalkPop ==
  ASSUME Inv, WalkFine, Forward, todo' = todo, stack # <<>>,
         stack' = Tail(stack), AllFineNext(Top.dir)
  PROVE  WalkFine'
<1>1. stack \in Seq(Level) /\ 1 \in DOMAIN stack /\ Top = stack[1]
  BY DEF Inv, TypeOK, Top
<1>2. ASSUME NEW i \in DOMAIN stack'
      PROVE  LevelFineNext(i)
  <2>1. i \in Nat /\ i + 1 \in DOMAIN stack /\ i + 1 # 1 /\ stack'[i] = stack[i + 1]
        /\ (i + 1) - 1 = i
    BY <1>1
  <2>2. stack[i + 1].dir \in Paths \cap Dirs /\ \A e \in Inside[stack[i + 1].dir] : e \in Paths
    BY <2>1, LevelTypes
  <2>3. /\ ~Deleting => dst'[stack[i + 1].dir] = "dir"
        /\ \A e \in Inside[stack[i + 1].dir] \ stack[i + 1].rest :
             AllFineNext(e) \/ e = stack[i].dir
        /\ (i + 1) + 1 \notin DOMAIN stack => stack[i + 1].dir = Path
    BY <2>1, <2>2, FineKept DEF WalkFine, Forward, Wholly
  <2>4. (i + 1) + 1 \in DOMAIN stack => i + 1 \in DOMAIN stack'
    BY <1>1, <2>1
  <2>5. i = 1 => stack[i].dir = Top.dir
    BY <1>1
  <2>6. i # 1 => stack'[i - 1].dir = stack[i].dir
    BY <1>1, <2>1
  <2> QED
    BY <2>1, <2>3, <2>4, <2>5, <2>6 DEF LevelFineNext
<1> QED
  BY <1>2, WalkNext

\* A directory whose entries are done is done when it is.
LEMMA DirFine ==
  ASSUME NEW d \in Dirs, \A e \in Inside[d] : AllFineNext(e), FineNext(d)
  PROVE  AllFineNext(d)
<1> SUFFICES ASSUME NEW q \in Under[d]
             PROVE  FineNext(q)
  BY DEF AllFineNext
<1>1. q = d \/ \E e \in Inside[d] : q \in Under[e]
  BY TreeAssumption DEF Tree
<1> QED
  BY <1>1 DEF AllFineNext

\* When all entries of a directory are done that should go, nothing is left
\* but itself.
LEMMA DirEmpty ==
  ASSUME NEW d \in Dirs, ~Copying, \A e \in Inside[d] : AllFine(e), GoneFine, ~Empty(d)
  PROVE  AllFine(d)
<1>1. \A e \in Inside[d] : Under[e] \cap src = {}
  BY DEF AllFine, Fine
<1>2. Under[d] \cap src \subseteq {d}
  BY <1>1, TreeAssumption DEF Tree
<1>3. d \notin src
  <2>1. d \in Under[d]
    BY TreeAssumption DEF Tree, Paths
  <2> QED
    BY <1>2, <2>1 DEF Empty
<1> QED
  BY <1>3, NotThereFine DEF Paths

\* A copy that went well: nobody has cancelled it.
LEMMA AskedCancels ==
  ASSUME NEW all, NEW skip, NEW flags, all # "cancel", "cancel" \notin flags,
         NEW a \in Unprotected(all, skip, flags) \cup Asked(all, skip, flags),
         a.say = "proceed"
  PROVE  "cancel" \notin a.flags
<1>1. a \in Asked(all, skip, flags)
  BY DEF Unprotected, Answer
<1> QED
  BY <1>1 DEF Asked, Answer

LEMMA CopyDone ==
  ASSUME TypeOK, "close" \notin Faults, NEW p \in Paths, NEW r \in FastCopy(p), r.rc = "ok"
  PROVE  p \in src /\ r.dst = "copy" /\ "cancel" \notin r.flags
<1>1. p \in src /\ r.dst = "copy"
  BY FastCopyResult
<1>2. ~Cancelled /\ dst[p] # "dir"
  BY DEF FastCopy, Proceeds, Result
<1>3. PICK a \in MayOverwrite(p) :
        r \in (IF a.say = "proceed"
                 THEN Written(a) \cup (IF Fails("delete") /\ dst[p] \in There
                                         THEN {Result("failed", dst[p], a)} ELSE {})
                 ELSE {Result("nosource", dst[p], a)})
  BY <1>1, <1>2 DEF FastCopy, Proceeds, Result
<1>4. a.say = "proceed" /\ r.flags = a.flags
  <2>1. a.say = "proceed" /\ r \in Written(a)
    BY <1>3 DEF Result
  <2> QED
    BY <2>1 DEF Written, Results, Result
<1>5. "cancel" \notin a.flags
  <2>1. "cancel" \notin reqflags
    BY <1>2 DEF Cancelled
  <2>2. CASE dst[p] \notin There
    BY <2>1, <2>2 DEF MayOverwrite, Answer
  <2>3. CASE dst[p] \in There
    <3>1. PICK b \in Asked("repl_all", "repl_skip", reqflags) :
            a \in (IF b.say = "proceed" /\ dst[p] = "otherprot"
                     THEN Unprotected("over_all", "over_skip", b.flags) ELSE {b})
      BY <2>3 DEF MayOverwrite
    <3>2. CASE b.say = "proceed"
      <4>1. "cancel" \notin b.flags
        BY <2>1, <3>1, <3>2, AskedCancels
      <4> QED
        BY <1>4, <3>1, <4>1, AskedCancels
    <3>3. CASE b.say # "proceed"
      BY <1>4, <3>1, <3>3
    <3> QED
      BY <3>2, <3>3
  <2> QED
    BY <2>2, <2>3
<1> QED
  BY <1>1, <1>4, <1>5

\* The steps that go forward: on a file, on a directory that is made or has
\* become empty, on something that is deleted, on nothing.
LEMMA ForwardFile ==
  ASSUME TypeOK, job' = job, given' = given, NEW p \in Files, NEW r, Take(p, r),
         r.dst = "copy", src' \in {src, src \ {p}}
  PROVE  Forward /\ dst'[p] = "copy"
<1>1. p \in Paths /\ p \notin Dirs
  BY ConstantsAssumption DEF Paths
<1>2. dst' = [dst EXCEPT ![p] = "copy"] /\ dst \in [Paths -> Target]
  BY DEF Take, TypeOK
<1>3. \A q \in Paths : dst'[q] = IF q = p THEN "copy" ELSE dst[q]
  BY <1>2
<1> QED
  BY <1>1, <1>3 DEF Forward, Wholly

LEMMA ForwardMade ==
  ASSUME TypeOK, job' = job, given' = given, NEW d \in Dirs,
         dst' = [dst EXCEPT ![d] = "dir"], src' = src
  PROVE  Forward /\ dst'[d] = "dir"
<1>1. d \in Paths /\ dst \in [Paths -> Target]
  BY DEF Paths, TypeOK
<1>2. \A q \in Paths : dst'[q] = IF q = d THEN "dir" ELSE dst[q]
  BY <1>1
<1> QED
  BY <1>1, <1>2 DEF Forward, Wholly

LEMMA ForwardGone ==
  ASSUME TypeOK, job' = job, given' = given, dst' = dst, NEW p,
         src' \in {src, src \ {p}}, p \in Dirs => Empty(p),
         Deleting \/ (p \in Dirs /\ dst[p] = "dir")
  PROVE  Forward
<1>1. \A d \in Dirs \cap (src \ src') : Under[d] \cap src' = {}
  BY DEF Empty
<1> QED
  BY <1>1 DEF Forward, Wholly

LEMMA ForwardSame ==
  ASSUME job' = job, given' = given, dst' = dst, src' = src
  PROVE  Forward
BY DEF Forward

Fines == GoneFine /\ LeftFine /\ HereFine /\ WalkFine

-----------------------------------------------------------------------------
(* The list, and one path of it, when there is no trouble.                 *)

LEMMA ListFine ==
  ASSUME Inv, Fines, ~trouble', TakeEntry \/ ListEnds \/ AskName \/ Judge \/ NoIcon \/ Abort
  PROVE  Fines'
<1> USE DEF params, walk, history
<1>1. /\ UNCHANGED <<job, given, src, dst, stack>>
      /\ Forward
  BY ForwardSame DEF TakeEntry, ListEnds, AskName, Judge, NoIcon, Abort
<1>2. GoneFine'
  BY <1>1, GoneKept DEF Fines
<1>3. CASE TakeEntry
  <2>1. /\ pc' \in {"deldir", "delfile", "name", "move"} /\ todo' = todo /\ ~aborted'
        /\ pc' = "delfile" => Path \notin Dirs \cap src
        /\ stack = <<>>
    BY <1>3 DEF TakeEntry, Inv, TypeOK
  <2> QED
    BY <1>1, <1>2, <2>1, LeftKept, HereKept, NoWalk DEF Fines
<1>4. CASE ListEnds
  <2>1. pc' = "done" /\ todo' = todo /\ todo = <<>> /\ aborted' = aborted /\ stack = <<>>
    BY <1>4 DEF ListEnds, Inv, TypeOK
  <2> QED
    BY <1>1, <1>2, <2>1, LeftKept, HereKept, NoWalk DEF Fines, HereFine
<1>5. CASE AskName
  <2>1. pc' = "move" /\ todo' = todo /\ aborted' = aborted /\ stack = <<>>
    BY <1>5 DEF AskName, Inv, TypeOK
  <2> QED
    BY <1>1, <1>2, <2>1, LeftKept, HereKept, NoWalk DEF Fines, HereFine
<1>6. CASE Judge
  <2>1. /\ pc = "judge" /\ rc = "ok" /\ AllFine(Path) /\ IconFine(Path) /\ todo # <<>>
        /\ Path \in Paths /\ Path \in Entries
    BY <1>6, PathTypes DEF Judge, Inv, Placed, Fines, HereFine
  <2>2. pc' = "next" /\ todo' = Tail(todo) /\ aborted' = aborted /\ stack = <<>>
    BY <1>6, <2>1 DEF Judge, NextEntry, Inv, TypeOK
  <2>3. AllFineNext(Path) /\ IconFineNext(Path)
    BY <1>1, <2>1, FineKept
  <2>4. LeftFine'
    BY <1>1, <2>1, <2>2, <2>3, LeftNext DEF Fines
  <2> QED
    BY <1>1, <1>2, <2>2, <2>4, HereNext, NoWalk DEF Fines, HereFine
<1>7. CASE NoIcon
  <2>1. /\ pc = "icon" /\ rc = "ok" /\ AllFine(Path) /\ todo # <<>>
        /\ pc' = "judge" /\ rc' = rc /\ todo' = todo /\ aborted' = aborted /\ stack = <<>>
        /\ Path \in Paths /\ Path \in Entries /\ Icon \in Files \cup {NULL}
    BY <1>7, PathTypes DEF NoIcon, Inv, TypeOK, Placed, Fines, HereFine
  <2>2. job.noicon \/ Icon = NULL \/ Icon \notin src
    BY <1>7, <2>1 DEF NoIcon, IconFollows
  <2>3. IconFine(Path)
    BY <2>1, <2>2 DEF Fines, GoneFine, IconFine, Icon, Paths
  <2>4. AllFineNext(Path) /\ IconFineNext(Path)
    BY <1>1, <2>1, <2>3, FineKept
  <2> QED
    BY <1>1, <1>2, <2>1, <2>4, LeftKept, HereKept, NoWalk DEF Fines, HereFine
<1>8. CASE Abort
  <2>1. UNCHANGED <<todo, aborted, pc, rc, stack>> /\ pc # "done"
    BY <1>8 DEF Abort
  <2>2. HereFine'
    <3>1. Path' = Path
      BY <2>1 DEF Path
    <3>2. \A p : (AllFine(p)' <=> AllFine(p)) /\ (IconFine(p)' <=> IconFine(p))
      BY <1>1 DEF AllFine, IconFine, Fine, Copying, Deleting
    <3> QED
      BY <1>1, <2>1, <3>1, <3>2 DEF Fines, HereFine, AllFine, IconFine, Fine, Copying, Deleting, Path
  <2>3. WalkFine'
    BY <1>1, <2>1 DEF Fines, WalkFine, AllFine, Fine, Copying, Deleting, Path
  <2> QED
    BY <1>1, <1>2, <2>1, <2>2, <2>3, LeftKept DEF Fines
<1> QED
  BY <1>3, <1>4, <1>5, <1>6, <1>7, <1>8

LEMMA Kinds ==
  ASSUME TypeOK
  PROVE  Copying \/ Moving \/ Deleting
<1>1. Job = [kind: {"copy", "move", "delete"},
             samevol: BOOLEAN, noicon: BOOLEAN, rename: BOOLEAN]
  BY DEF Job
<1>2. job.kind \in {"copy", "move", "delete"}
  BY <1>1, ConstantsAssumption DEF TypeOK
<1> QED
  BY <1>2 DEF Copying, Moving, Deleting

\* The path has been handled, its icon is next.
LEMMA ToIcon ==
  ASSUME Inv, Fines, Forward, todo' = todo, aborted' = aborted, stack' = <<>>,
         pc' = "icon", rc' = "ok", AllFineNext(Path)
  PROVE  Fines'
BY GoneKept, LeftKept, HereKept, NoWalk DEF Fines, HereFine

\* So has the icon.
LEMMA ToJudge ==
  ASSUME Inv, Fines, Forward, todo' = todo, todo # <<>>, aborted' = aborted, stack' = <<>>,
         pc = "icon", pc' = "judge", rc' = "ok", IconFineNext(Path)
  PROVE  Fines'
<1>1. AllFine(Path) /\ Path \in Paths
  BY PathTypes DEF Fines, HereFine, Inv
<1>2. AllFineNext(Path)
  BY <1>1, FineKept
<1> QED
  BY <1>2, GoneKept, LeftKept, HereKept, NoWalk DEF Fines, HereFine

LEMMA MoveByRenameFine ==
  ASSUME Inv, Fines, ~trouble', MoveByRename
  PROVE  Fines'
<1> USE DEF params, walk, history
<1>1. /\ pc = "move" /\ todo # <<>> /\ Moving /\ pc' = "icon" /\ stack = <<>>
      /\ UNCHANGED <<job, given, todo, stack, aborted>> /\ Path \in Paths
  BY PathTypes DEF MoveByRename, ByRename, Inv, Placed, TypeOK
<1>2. /\ rc' = "ok" /\ src' = src \ Under[Path]
      /\ dst' = [p \in Paths |->
                   IF p \in Under[Path] \cap src
                     THEN IF p \in Dirs THEN "dir" ELSE "copy"
                     ELSE dst[p]]
  BY DEF MoveByRename
<1>3. ~Deleting /\ ~Copying
  BY <1>1 DEF Moving, Deleting, Copying
<1>4. \A q \in Paths : dst'[q] = IF q \in Under[Path] \cap src THEN Wholly(q) ELSE dst[q]
  BY <1>2 DEF Wholly
<1>5. \A q \in Under[Path] : q \in Paths /\ Under[q] \subseteq Under[Path]
  BY <1>1, TreeAssumption DEF Tree
<1>6. Forward
  <2>1. src \subseteq Paths
    <3>1. given \subseteq Paths
      BY ConstantsAssumption DEF Inv, TypeOK
    <3> QED
      BY <3>1 DEF Inv, TypeOK
  <2>2. \A d \in Dirs \cap (src \ src') : Under[d] \cap src' = {}
    BY <1>2, <1>5
  <2> QED
    BY <1>1, <1>2, <1>4, <2>1, <2>2 DEF Forward
<1>7. AllFineNext(Path)
  <2> SUFFICES ASSUME NEW q \in Under[Path]
               PROVE  FineNext(q)
    BY DEF AllFineNext
  <2>1. q \in Paths \ src'
    BY <1>2, <1>5
  <2> QED
    BY <1>6, <2>1, GoneKept DEF Fines
<1> QED
  BY <1>1, <1>2, <1>6, <1>7, ToIcon

\* What r and the deletion after it leave of a file.
LEMMA FileDone ==
  ASSUME TypeOK, ~Deleting, job' = job, given' = given, NEW p \in Files, NEW r, Take(p, r),
         r.dst = "copy", src' \in {src, src \ {p}}, Copying \/ src' = src \ {p}
  PROVE  Forward /\ FineNext(p)
<1>1. Forward /\ dst'[p] = "copy"
  BY ForwardFile
<1>2. Wholly(p) = "copy"
  BY ConstantsAssumption DEF Wholly
<1> QED
  BY <1>1, <1>2 DEF FineNext

LEMMA CopyFileFine ==
  ASSUME Inv, Fines, "close" \notin Faults, ~trouble', CopyFile
  PROVE  Fines'
<1> USE DEF params, walk, history
<1>1. /\ pc = "move" /\ todo # <<>> /\ ~Deleting /\ pc' = "icon" /\ stack = <<>>
      /\ UNCHANGED <<job, given, todo, stack, aborted>> /\ Path \in Paths
      /\ Path \notin Dirs \cap src
  BY PathTypes DEF CopyFile, Inv, Placed, TypeOK
<1>2. PICK r \in FastCopy(Path) :
        /\ rc' = r.rc /\ Take(Path, r) /\ r.rc = "ok"
        /\ \/ ~SourceGoes(r) /\ UNCHANGED src
           \/ /\ SourceGoes(r)
              /\ \E a \in Removed(Path, r.flags) : Deletes(Path, a) /\ a.say = "proceed"
  BY DEF CopyFile
<1>3. Path \in src /\ r.dst = "copy"
  BY <1>1, <1>2, CopyDone DEF Inv
<1>4. Path \in Files
  BY <1>1, <1>3 DEF Paths
<1>5. src' \in {src, src \ {Path}} /\ (Copying \/ src' = src \ {Path})
  <2>1. ~Copying => Moving
    BY <1>1, Kinds DEF Inv
  <2> QED
    BY <1>2, <2>1 DEF SourceGoes, Deletes
<1>6. Forward /\ FineNext(Path)
  BY <1>1, <1>2, <1>3, <1>4, <1>5, FileDone DEF Inv
<1>7. AllFineNext(Path)
  BY <1>4, <1>6, TreeAssumption DEF AllFineNext, Tree
<1> QED
  BY <1>1, <1>2, <1>6, <1>7, ToIcon

LEMMA IconFineStep ==
  ASSUME Inv, Fines, "close" \notin Faults, ~trouble', IconByRename \/ IconByCopy
  PROVE  Fines'
<1> USE DEF params, walk, history
<1>1. /\ pc = "icon" /\ todo # <<>> /\ ~Deleting /\ pc' = "judge" /\ stack = <<>>
      /\ UNCHANGED <<job, given, todo, stack, aborted>>
      /\ Icon \in src /\ Icon \in Files /\ Icon \in Paths /\ Path \in Entries
  BY PathTypes DEF IconByRename, IconByCopy, IconFollows, Inv, Placed, TypeOK, Paths
<1>2. CASE IconByRename
  <2>1. PICK r \in Renamed(Icon) :
          /\ rc' = r.rc /\ Take(Icon, r) /\ r.rc = "ok"
          /\ src' = src \ {Icon}
    BY <1>2 DEF IconByRename
  <2>2. r.dst = "copy"
    BY <1>1, <2>1, RenamedResult DEF Inv
  <2>3. Forward /\ FineNext(Icon)
    BY <1>1, <2>1, <2>2, FileDone DEF Inv
  <2>4. IconFineNext(Path)
    BY <2>3 DEF IconFineNext, Icon
  <2> QED
    BY <1>1, <2>1, <2>3, <2>4, ToJudge
<1>3. CASE IconByCopy
  <2>1. PICK r \in FastCopy(Icon) :
          /\ rc' = IF r.rc = "failed" THEN "failed" ELSE "ok"
          /\ Take(Icon, r) /\ r.rc = "ok"
          /\ \/ (Copying \/ r.flags = {"cancel"}) /\ UNCHANGED src
             \/ Moving /\ src' = src \ {Icon}
    <3>1. PICK r \in FastCopy(Icon) :
            /\ rc' = IF r.rc = "failed" THEN "failed" ELSE "ok"
            /\ Take(Icon, r)
            /\ \/ /\ Copying \/ r.rc = "failed" \/ (how = "walk" /\ r.flags = {"cancel"})
                  /\ UNCHANGED src
                  /\ trouble' = (trouble \/ r.rc # "ok")
               \/ /\ Moving
                  /\ \E gone \in BOOLEAN :
                       /\ src' = IF gone THEN src \ {Icon} ELSE src
                       /\ trouble' = (trouble \/ r.rc # "ok" \/ ~gone)
               \/ /\ Moving
                  /\ \E a \in Removed(Icon, r.flags) :
                       /\ Deletes(Icon, a)
                       /\ trouble' = (trouble \/ r.rc # "ok" \/ a.say # "proceed")
      BY <1>3 DEF IconByCopy, Unlinks
    <3> QED
      BY <3>1 DEF Deletes
  <2>2. r.dst = "copy" /\ "cancel" \notin r.flags
    BY <1>1, <2>1, CopyDone DEF Inv
  <2>3. Forward /\ FineNext(Icon)
    BY <1>1, <2>1, <2>2, FileDone DEF Inv
  <2>4. IconFineNext(Path)
    BY <2>3 DEF IconFineNext, Icon
  <2> QED
    BY <1>1, <2>1, <2>3, <2>4, ToJudge
<1> QED
  BY <1>2, <1>3

-----------------------------------------------------------------------------
(* A directory, when there is no trouble.                                  *)

\* The walk goes on.
LEMMA WalksOn ==
  ASSUME Inv, Fines, Forward, todo' = todo, aborted' = aborted, pc' = "walk", WalkFine'
  PROVE  Fines'
BY GoneKept, LeftKept, HereKept DEF Fines, HereFine

LEMMA ScanFine ==
  ASSUME NEW d, NEW below, NEW bad \in BOOLEAN, Scan(d, below, bad), ~trouble'
  PROVE  /\ pc' = "walk" /\ stack' = <<[dir |-> d, rest |-> Listed(d)]>> \o below
         /\ ~bad
BY DEF Scan

LEMMA EnterFine ==
  ASSUME Inv, Fines, ~trouble', EnterTop \/ EnterSub
  PROVE  Fines'
<1> USE DEF params, walk, history
<1>1. CASE EnterTop
  <2>1. /\ pc = "move" /\ ~Deleting /\ todo # <<>> /\ Path \in Dirs
    BY <1>1 DEF EnterTop, Inv, Placed
  <2>2. Enter(Path, <<>>)
    BY <1>1 DEF EnterTop
  <2>3. /\ UNCHANGED <<job, given, todo, aborted, src>>
        /\ dst' = [dst EXCEPT ![Path] = "dir"] /\ Scan(Path, <<>>, FALSE)
    BY <2>2 DEF Enter
  <2>4. Forward /\ dst'[Path] = "dir"
    BY <2>1, <2>3, ForwardMade DEF Inv
  <2>5. pc' = "walk" /\ stack' = <<[dir |-> Path, rest |-> Listed(Path)]>> \o <<>>
    BY <2>3, ScanFine
  <2>6. WalkFine'
    BY <2>1, <2>3, <2>4, <2>5, WalkTop DEF Fines
  <2> QED
    BY <2>3, <2>4, <2>5, <2>6, WalksOn
<1>2. CASE EnterSub
  <2>1. PICK d \in Top.rest \cap Dirs :
          /\ UNCHANGED <<job, given, todo, aborted, src>>
          /\ \/ ~Deleting /\ dst' = [dst EXCEPT ![d] = "dir"]
             \/ Deleting /\ dst' = dst
          /\ Scan(d, Rest(d), FALSE)
    <3>1. CASE ~Deleting /\ \E d \in Top.rest \cap Dirs : Enter(d, Rest(d))
      BY <3>1 DEF Enter
    <3>2. CASE ~(~Deleting /\ \E d \in Top.rest \cap Dirs : Enter(d, Rest(d)))
      BY <1>2, <3>2 DEF EnterSub
    <3> QED
      BY <3>1, <3>2
  <2>2. Forward /\ (~Deleting => dst'[d] = "dir")
    BY <2>1, ForwardMade, ForwardSame DEF Inv
  <2>3. pc' = "walk" /\ stack' = <<[dir |-> d, rest |-> Listed(d)]>> \o Rest(d)
    BY <2>1, ScanFine
  <2>4. pc = "walk"
    BY <1>2 DEF EnterSub
  <2>5. WalkFine'
    BY <2>1, <2>2, <2>3, <2>4, WalkPush DEF Fines
  <2> QED
    BY <2>1, <2>2, <2>3, <2>5, WalksOn
<1> QED
  BY <1>1, <1>2

LEMMA WalkFileFine ==
  ASSUME Inv, Fines, "close" \notin Faults, ~trouble', WalkFile
  PROVE  Fines'
<1> USE DEF params, walk, history
<1>1. /\ pc = "walk" /\ ~Deleting /\ UNCHANGED <<job, given, todo>>
  BY DEF WalkFile
<1>2. PICK p \in Top.rest \ Dirs : \E r \in FastCopy(p) :
        /\ Take(p, r) /\ r.rc = "ok" /\ stack' = Rest(p)
        /\ src' \in {src, src \ {p}} /\ (Moving => src' = src \ {p})
        /\ UNCHANGED <<pc, aborted>>
  BY DEF WalkFile
<1>3. PICK r \in FastCopy(p) :
        /\ Take(p, r) /\ r.rc = "ok" /\ stack' = Rest(p)
        /\ src' \in {src, src \ {p}} /\ (Moving => src' = src \ {p})
        /\ UNCHANGED <<pc, aborted>>
  BY <1>2
<1>4. p \in Files /\ p \in Paths
  BY <1>1, StackTypes DEF Inv, Paths
<1>5. Copying \/ Moving
  BY <1>1, Kinds DEF Inv
<1>6. r.dst = "copy"
  BY <1>3, <1>4, CopyDone DEF Inv
<1>7. Forward /\ FineNext(p)
  BY <1>1, <1>3, <1>4, <1>5, <1>6, FileDone DEF Inv
<1>8. AllFineNext(p)
  BY <1>4, <1>7, TreeAssumption DEF AllFineNext, Tree
<1>9. WalkFine'
  BY <1>1, <1>3, <1>7, <1>8, WalkRest DEF Fines
<1> QED
  BY <1>1, <1>3, <1>7, <1>9, WalksOn

\* Where the list of the innermost directory is empty, all in it is done.
LEMMA TopFine ==
  ASSUME Inv, Fines, pc = "walk", Top.rest = {}
  PROVE  /\ \A e \in Inside[Top.dir] : AllFine(e)
         /\ ~Deleting => dst[Top.dir] = "dir"
         /\ Top.dir \in Dirs /\ Top.dir \in Paths
         /\ \A e \in Inside[Top.dir] : e \in Paths
         /\ Len(stack) = 1 => Top.dir = Path
<1>1. 1 \in DOMAIN stack /\ Top = stack[1] /\ stack \in Seq(Level)
  BY DEF Top, Inv, TypeOK
<1>2. /\ \A e \in Inside[Top.dir] : AllFine(e)
      /\ ~Deleting => dst[Top.dir] = "dir"
      /\ 2 \notin DOMAIN stack => Top.dir = Path
  BY <1>1 DEF Fines, WalkFine
<1>3. Len(stack) = 1 => 2 \notin DOMAIN stack
  BY <1>1
<1> QED
  BY <1>1, <1>2, <1>3, LevelTypes

\* A directory that is left, and is deleted when it is moved.
LEMMA DirLeft ==
  ASSUME Inv, Fines, ~Deleting, job' = job, given' = given, dst' = dst, NEW d \in Dirs,
         dst[d] = "dir", \A e \in Inside[d] : AllFine(e),
         src' \in {src, src \ {d}}, src' # src => Empty(d),
         Moving => src' = src \ {d}
  PROVE  Forward /\ AllFineNext(d)
<1>1. Forward
  <2>1. CASE src' = src
    BY <2>1, ForwardSame
  <2>2. CASE src' # src
    BY <2>2, ForwardGone DEF Inv
  <2> QED
    BY <2>1, <2>2
<1>2. \A e \in Inside[d] : AllFineNext(e)
  <2>1. \A e \in Inside[d] : e \in Paths
    BY ConstantsAssumption
  <2> QED
    BY <1>1, <2>1, FineKept
<1>3. Copying \/ Moving
  BY Kinds DEF Inv
<1>4. FineNext(d)
  BY <1>3 DEF FineNext, Wholly
<1> QED
  BY <1>1, <1>2, <1>4, DirFine

LEMMA WalkEndsFine ==
  ASSUME Inv, Fines, ~trouble', Leave \/ EndWalk \/ Walked
  PROVE  Fines'
<1> USE DEF params, walk, history
<1>1. UNCHANGED <<job, given, todo, aborted, dst>> /\ ~aborted
  BY DEF Leave, EndWalk, Walked, Fines, HereFine
<1>2. CASE Leave
  <2>1. /\ pc = "walk" /\ ~Deleting /\ Top.rest = {} /\ stack' = Tail(stack) /\ pc' = pc
        /\ src' \in {src, src \ {Top.dir}} /\ (src' # src => Empty(Top.dir))
        /\ Moving => src' = src \ {Top.dir}
    BY <1>2 DEF Leave
  <2>2. Forward /\ AllFineNext(Top.dir)
    BY <1>1, <2>1, TopFine, DirLeft
  <2>3. stack # <<>>
    BY <2>1 DEF Inv, TypeOK
  <2>4. WalkFine'
    BY <1>1, <2>1, <2>2, <2>3, WalkPop DEF Fines
  <2> QED
    BY <1>1, <2>1, <2>2, <2>4, WalksOn
<1>3. CASE EndWalk
  <2>1. /\ pc = "walk" /\ Top.rest = {} /\ Len(stack) = 1 /\ pc' = "walked"
        /\ stack' = <<>> /\ src' = src
    BY <1>3 DEF EndWalk
  <2>2. Forward
    BY <1>1, <2>1, ForwardSame
  <2>3. /\ \A e \in Inside[Path] : AllFineNext(e)
        /\ ~Deleting => dst'[Path] = "dir"
    BY <1>1, <2>1, <2>2, TopFine, FineKept
  <2> QED
    BY <1>1, <2>1, <2>2, <2>3, GoneKept, LeftKept, HereKept, NoWalk DEF Fines
<1>4. CASE Walked
  <2>1. /\ pc = "walked" /\ ~Deleting /\ rc' = "ok" /\ pc' = "icon" /\ stack' = <<>>
        /\ src' \in {src, src \ {Path}} /\ (src' # src => Empty(Path))
        /\ Moving => src' = src \ {Path}
    BY <1>1, <1>4 DEF Walked, Inv, TypeOK
  <2>2. Path \in Dirs /\ dst[Path] = "dir" /\ \A e \in Inside[Path] : AllFine(e)
    BY <2>1 DEF Inv, Placed, Fines, HereFine
  <2>3. Forward /\ AllFineNext(Path)
    BY <1>1, <2>1, <2>2, DirLeft
  <2> QED
    BY <1>1, <2>1, <2>3, ToIcon
<1> QED
  BY <1>2, <1>3, <1>4

-----------------------------------------------------------------------------
(* Deleting, when there is no trouble.                                     *)

\* What is deleted without a question, or with the consent of the user.
LEMMA DeletedFine ==
  ASSUME Inv, Fines, Deleting, UNCHANGED <<job, given, dst>>, NEW p \in Paths,
         src' \in {src, src \ {p}}, p \notin src', p \in Dirs => Empty(p)
  PROVE  /\ Forward /\ FineNext(p)
         /\ p \in Files => AllFineNext(p)
         /\ (p \in Dirs /\ \A e \in Inside[p] : AllFine(e)) => AllFineNext(p)
<1>1. Forward
  BY ForwardGone DEF Inv
<1>2. FineNext(p)
  BY DEF FineNext
<1>3. p \in Files => AllFineNext(p)
  BY <1>2, TreeAssumption DEF AllFineNext, Tree
<1>4. ASSUME p \in Dirs, \A e \in Inside[p] : AllFine(e)
      PROVE  AllFineNext(p)
  <2>1. \A e \in Inside[p] : e \in Paths
    BY <1>4, ConstantsAssumption
  <2> QED
    BY <1>1, <1>2, <1>4, <2>1, FineKept, DirFine
<1> QED
  BY <1>1, <1>2, <1>3, <1>4

\* The path has been handled, its icon is next.
LEMMA ToDelIcon ==
  ASSUME Inv, Fines, Forward, todo' = todo, aborted' = aborted, stack' = <<>>,
         pc' = "delicon", AllFineNext(Path)
  PROVE  Fines'
BY GoneKept, LeftKept, HereKept, NoWalk DEF Fines, HereFine

LEMMA DelFileFine ==
  ASSUME Inv, Fines, ~trouble', DelFile
  PROVE  Fines'
<1> USE DEF params, walk, history
<1>1. /\ pc = "delfile" /\ Deleting /\ todo # <<>> /\ stack = <<>> /\ stack' = <<>>
      /\ UNCHANGED <<job, given, dst, aborted>> /\ Path \in Paths
      /\ Path \notin Dirs \cap src
  BY PathTypes DEF DelFile, Inv, Placed, TypeOK, Fines, HereFine
<1>2. PICK a \in IF Path \in src THEN Removed(Path, reqflags)
                               ELSE {Answer("proceed", reqflags)} :
        Deletes(Path, a) /\ a.say = "proceed" /\ pc' = "delicon" /\ todo' = todo
  BY DEF DelFile
<1>3. src' = src \ {Path}
  BY <1>2 DEF Deletes
<1>4. CASE Path \in src
  <2>1. Path \in Files
    BY <1>1, <1>4 DEF Paths
  <2>2. Path \notin Dirs
    BY <2>1, ConstantsAssumption
  <2>3. Forward /\ AllFineNext(Path)
    BY <1>1, <1>3, <2>1, <2>2, DeletedFine
  <2> QED
    BY <1>1, <1>2, <2>3, ToDelIcon
<1>5. CASE Path \notin src
  <2>1. src' = src
    BY <1>3, <1>5
  <2>2. Forward
    BY <1>1, <2>1, ForwardSame
  <2>3. AllFine(Path)
    BY <1>1, <1>5, NotThereFine DEF Fines
  <2>4. AllFineNext(Path)
    BY <1>1, <2>2, <2>3, FineKept
  <2> QED
    BY <1>1, <1>2, <2>2, <2>4, ToDelIcon
<1> QED
  BY <1>4, <1>5

LEMMA DelDirFine ==
  ASSUME Inv, Fines, ~trouble', DelDir
  PROVE  Fines'
<1> USE DEF params, walk, history
<1>1. /\ pc = "deldir" /\ Deleting /\ Path \in Dirs
      /\ UNCHANGED <<job, given, dst, src, todo, aborted>>
  BY DEF DelDir, Inv, Placed
<1>2. PICK a : Scan(Path, <<>>, Refuses(a))
  BY DEF DelDir
<1>3. pc' = "walk" /\ stack' = <<[dir |-> Path, rest |-> Listed(Path)]>> \o <<>>
  <2>1. Refuses(a) \in BOOLEAN
    BY DEF Refuses
  <2> QED
    BY <1>2, <2>1, ScanFine
<1>4. Forward
  BY <1>1, ForwardSame
<1>5. WalkFine'
  BY <1>1, <1>3, <1>4, WalkTop DEF Fines
<1> QED
  BY <1>1, <1>3, <1>4, <1>5, WalksOn

LEMMA DelItemFine ==
  ASSUME Inv, Fines, ~trouble', DelItem
  PROVE  Fines'
<1> USE DEF params, walk, history
<1>1. /\ pc = "walk" /\ Deleting /\ ~Copying /\ UNCHANGED <<job, given, dst, todo, aborted>>
      /\ stack # <<>>
  BY DEF DelItem, Deleting, Copying, Inv, TypeOK
<1>2. PICK p \in IF Top.rest = {} THEN {Top.dir} ELSE Top.rest \ Dirs :
        /\ stack' = (IF Top.rest = {} THEN Tail(stack) ELSE Rest(p)) /\ pc' = pc
        /\ \/ p \in Dirs /\ ~Empty(p) /\ src' = src
           \/ (p \in Dirs => Empty(p)) /\ src' = src \ {p}
  <2>1. PICK p \in IF Top.rest = {} THEN {Top.dir} ELSE Top.rest \ Dirs :
          LET GoOn == stack' = (IF Top.rest = {} THEN Tail(stack) ELSE Rest(p)) /\ pc' = pc
          IN \/ p \in Dirs /\ ~Empty(p) /\ GoOn /\ src' = src
             \/ /\ p \in Dirs => Empty(p)
                /\ \E a : /\ Deletes(p, a) /\ a.say = "proceed"
                          /\ \/ a.say \in {"proceed", "skip"} /\ GoOn
                             \/ a.say \in {"error", "cancel"}
    BY DEF DelItem
  <2>2. CASE p \in Dirs /\ ~Empty(p) /\ src' = src
             /\ stack' = (IF Top.rest = {} THEN Tail(stack) ELSE Rest(p)) /\ pc' = pc
    BY <2>2
  <2>3. ASSUME p \in Dirs => Empty(p), NEW a, Deletes(p, a), a.say = "proceed",
               stack' = (IF Top.rest = {} THEN Tail(stack) ELSE Rest(p)), pc' = pc
        PROVE  /\ stack' = (IF Top.rest = {} THEN Tail(stack) ELSE Rest(p)) /\ pc' = pc
               /\ p \in Dirs => Empty(p)
               /\ src' = src \ {p}
    BY <2>3 DEF Deletes
  <2> QED
    BY <2>1, <2>2, <2>3
<1>3. CASE Top.rest = {}
  <2>1. p = Top.dir /\ stack' = Tail(stack)
    BY <1>2, <1>3
  <2>2. /\ p \in Dirs /\ p \in Paths /\ \A e \in Inside[p] : AllFine(e) /\ e \in Paths
    BY <1>1, <1>3, <2>1, TopFine
  <2>3. Forward /\ AllFineNext(p)
    <3>1. CASE ~Empty(p) /\ src' = src
      <4>1. Forward
        BY <1>1, <3>1, ForwardSame
      <4>2. AllFine(p)
        BY <1>1, <2>2, <3>1, DirEmpty DEF Fines
      <4> QED
        BY <2>2, <4>1, <4>2, FineKept
    <3>2. CASE Empty(p) /\ src' = src \ {p}
      BY <1>1, <2>2, <3>2, DeletedFine
    <3> QED
      BY <1>2, <2>2, <3>1, <3>2
  <2>4. WalkFine'
    BY <1>1, <2>1, <2>3, WalkPop DEF Fines
  <2> QED
    BY <1>1, <1>2, <2>3, <2>4, WalksOn
<1>4. CASE Top.rest # {}
  <2>1. p \in Top.rest /\ p \notin Dirs /\ stack' = Rest(p) /\ src' = src \ {p}
    BY <1>2, <1>4
  <2>2. p \in Files /\ p \in Paths
    BY <1>1, <2>1, StackTypes DEF Inv, Paths
  <2>3. Forward /\ AllFineNext(p)
    BY <1>1, <2>1, <2>2, DeletedFine
  <2>4. WalkFine'
    BY <1>1, <2>1, <2>3, WalkRest DEF Fines
  <2> QED
    BY <1>1, <1>2, <2>3, <2>4, WalksOn
<1> QED
  BY <1>3, <1>4

LEMMA DelWalkedFine ==
  ASSUME Inv, Fines, ~trouble', DelWalked
  PROVE  Fines'
<1> USE DEF params, walk, history
<1>1. /\ pc = "walked" /\ Deleting /\ ~Copying /\ stack' = <<>> /\ pc' = "delicon"
      /\ UNCHANGED <<job, given, dst, todo, aborted>>
      /\ Path \in Dirs /\ Path \in Paths /\ todo # <<>>
      /\ \A e \in Inside[Path] : AllFine(e)
  BY PathTypes DEF DelWalked, Deleting, Copying, Inv, TypeOK, Placed, Fines, HereFine
<1>2. \/ ~Empty(Path) /\ src' = src
      \/ Empty(Path) /\ src' = src \ {Path}
  BY DEF DelWalked
<1>3. Forward /\ AllFineNext(Path)
  <2>1. CASE ~Empty(Path) /\ src' = src
    <3>1. Forward
      BY <1>1, <2>1, ForwardSame
    <3>2. AllFine(Path)
      BY <1>1, <2>1, DirEmpty DEF Fines
    <3> QED
      BY <1>1, <3>1, <3>2, FineKept
  <2>2. CASE Empty(Path) /\ src' = src \ {Path}
    BY <1>1, <2>2, DeletedFine
  <2> QED
    BY <1>2, <2>1, <2>2
<1> QED
  BY <1>1, <1>3, ToDelIcon

LEMMA DelIconFine ==
  ASSUME Inv, Fines, ~trouble', DelIcon
  PROVE  Fines'
<1> USE DEF params, walk, history
<1>1. /\ pc = "delicon" /\ Deleting /\ todo # <<>> /\ stack = <<>> /\ stack' = <<>>
      /\ UNCHANGED <<job, given, dst, aborted>> /\ AllFine(Path)
      /\ Path \in Entries /\ Path \in Paths /\ Icon \in Files \cup {NULL}
  BY PathTypes DEF DelIcon, Inv, TypeOK, Placed, Fines, HereFine
<1>2. /\ pc' = "next" /\ todo' = Tail(todo)
      /\ \/ (job.noicon \/ Icon = NULL \/ Icon \notin src) /\ src' = src
         \/ Icon # NULL /\ src' = src \ {Icon}
  <2>1. CASE (job.noicon \/ Icon = NULL \/ Icon \notin src) /\ NextEntry /\ src' = src
    BY <2>1 DEF NextEntry
  <2>2. CASE Icon # NULL /\ \E a : Deletes(Icon, a) /\ a.say = "proceed" /\ NextEntry
    BY <2>2 DEF NextEntry, Deletes
  <2> QED
    BY <2>1, <2>2 DEF DelIcon
<1>3. Forward /\ IconFineNext(Path)
  <2>1. CASE (job.noicon \/ Icon = NULL \/ Icon \notin src) /\ src' = src
    <3>1. Forward
      BY <1>1, <2>1, ForwardSame
    <3>2. IconFine(Path)
      BY <1>1, <2>1 DEF Fines, GoneFine, IconFine, Icon, Paths
    <3> QED
      BY <1>1, <3>1, <3>2, FineKept
  <2>2. CASE Icon # NULL /\ src' = src \ {Icon}
    <3>1. Icon \in Paths /\ Icon \notin Dirs
      BY <1>1, <2>2, ConstantsAssumption DEF Paths
    <3>2. Forward /\ FineNext(Icon)
      BY <1>1, <2>2, <3>1, DeletedFine
    <3> QED
      BY <3>2 DEF IconFineNext, Icon
  <2> QED
    BY <1>2, <2>1, <2>2
<1>4. AllFineNext(Path)
  BY <1>1, <1>3, FineKept
<1>5. LeftFine'
  BY <1>1, <1>2, <1>3, <1>4, LeftNext DEF Fines
<1> QED
  BY <1>1, <1>2, <1>3, <1>5, GoneKept, HereNext, NoWalk DEF Fines, HereFine

LEMMA InitFine ==
  ASSUME Rooted, Init
  PROVE  Fines
<1>1. /\ todo = Selected /\ src = given /\ given \in Sources /\ pc = "next"
      /\ stack = <<>> /\ aborted = FALSE
  BY DEF Init
<1>2. GoneFine
  BY <1>1 DEF GoneFine, Rooted, Fine
<1>3. LeftFine
  BY <1>1 DEF LeftFine, OnList, Entries
<1> QED
  BY <1>1, <1>2, <1>3 DEF Fines, HereFine, WalkFine

\* When nothing fails and nobody refuses or aborts anything, the job has done
\* all of what it was asked to do when it ends, and left nothing half moved:
\* what it should move or delete has gone, what it should copy or move is
\* complete at the destination. An error of CloseAsync is one that nobody
\* hears of.
THEOREM JobComplete ==
  ASSUME "close" \notin Faults, Rooted
  PROVE  Spec => []Complete
<1>1. Init => Done
  BY InitFine DEF Done, Fines
<1>2. Inv /\ Done /\ [Next]_vars => Done'
  <2> SUFFICES ASSUME Inv, Done, [Next]_vars, ~trouble'
               PROVE  Fines'
    BY DEF Done, Fines
  <2> USE DEF params, walk, history
  <2>1. Fines
    <3>1. ~trouble
      BY DEF Next, Work, Ended, Abort, vars, TakeEntry, ListEnds, AskName, Judge,
             MoveByRename, CopyFile, NoIcon, IconByRename, IconByCopy, EnterTop, EnterSub,
             Enter, Scan, StopWalk, WalkFile, Leave, EndWalk, Walked, DelFile, DelDir,
             DelItem, DelWalked, DelIcon
    <3> QED
      BY <3>1 DEF Done, Fines
  <2>2. CASE TakeEntry \/ ListEnds \/ AskName \/ Judge \/ NoIcon \/ Abort
    BY <2>1, <2>2, ListFine
  <2>3. CASE MoveByRename \/ CopyFile \/ IconByRename \/ IconByCopy
    BY <2>1, <2>3, MoveByRenameFine, CopyFileFine, IconFineStep
  <2>4. CASE EnterTop \/ EnterSub \/ WalkFile \/ Leave \/ EndWalk \/ Walked
    BY <2>1, <2>4, EnterFine, WalkFileFine, WalkEndsFine
  <2>5. CASE DelFile \/ DelDir \/ DelItem \/ DelWalked \/ DelIcon
    BY <2>1, <2>5, DelFileFine, DelDirFine, DelItemFine, DelWalkedFine, DelIconFine
  <2>6. CASE UNCHANGED vars
    <3>1. UNCHANGED <<job, given, todo, stack, aborted, src, dst, pc, rc>>
      BY <2>6 DEF vars
    <3> QED
      BY <2>1, <3>1 DEF Fines, GoneFine, LeftFine, HereFine, WalkFine, OnList, AllFine, IconFine,
                        Fine, Copying, Deleting, Path
  <2> QED
    BY <2>2, <2>3, <2>4, <2>5, <2>6 DEF Next, Work, Ended
<1>3. Inv /\ Done => Complete
  <2> SUFFICES ASSUME Inv, Done, pc = "done", ~trouble
               PROVE  /\ Copying \/ src \cap Wanted = {}
                      /\ ~Deleting => \A p \in Wanted \cap given :
                                        dst[p] = IF p \in Dirs THEN "dir" ELSE "copy"
    BY DEF Complete
  <2>1. todo = <<>> /\ LeftFine
    BY DEF Done, HereFine
  <2>2. \A e \in Entries : AllFine(e) /\ IconFine(e)
    BY <2>1 DEF LeftFine, OnList
  <2>3. ASSUME NEW p \in Wanted
        PROVE  Fine(p)
    <3>1. CASE \E e \in Entries : p \in Under[e]
      BY <2>2, <3>1 DEF AllFine
    <3>2. CASE ~job.noicon /\ \E e \in Entries : p = IconOf[e] /\ p # NULL
      BY <2>2, <3>2 DEF IconFine
    <3> QED
      BY <2>3, <3>1, <3>2 DEF Wanted, Icons
  <2> QED
    BY <2>3 DEF Fine, Wholly
<1> QED
  BY <1>1, <1>2, <1>3, AlwaysInv, PTL DEF Spec
=============================================================================
