------------------------------ MODULE FileJobs ------------------------------
(***************************************************************************)
(* Copying, moving and deleting: one job of a thread (TA_File_Move,        *)
(* TA_File_Delete) from the selected paths to the last answer of the user. *)
(*                                                                         *)
(* src/movelist.c and src/deleteall.c go through the list of what was      *)
(* selected; src/movedir.c, src/movefile.c, src/deletedir.c and            *)
(* src/deletefile.c handle one path of it, and its icon; src/recurse.c     *)
(* walks through a directory; src/fastcopy.c and src/rename.c do the work  *)
(* on a single file; src/fileaction.c asks the user and keeps the answers  *)
(* that are meant for all files in the flags of the job.                   *)
(*                                                                         *)
(* The model has the files at the source and what lies under their names   *)
(* at the destination. An answer of the user, a failure of the DOS and the *)
(* moment of an abort are choices. Notifications and progress windows are  *)
(* left out.                                                               *)
(***************************************************************************)
EXTENDS Naturals, Sequences, FiniteSets

CONSTANTS
  Files,      \* the files of the source, the icons (.info) among them
  Dirs,       \* its directories
  Selected,   \* the list of paths the user has selected
  Inside,     \* Inside[d]: what lies in d; ExAll finds it in any order
  IconOf,     \* IconOf[p]: the icon of a selected path, or NULL
  NULL,
  Jobs,       \* the jobs that may be started
  Sources,    \* the sets of paths that may be there when it starts
  Targets,    \* what may lie at the destination then
  Protected,  \* the sets of paths that may be protected from deletion
  Faults,     \* what may go wrong, see FaultKinds
  CanAbort,   \* TRUE: the user may abort
  MaxRetries  \* bound: how often the user lets a path of the list be retried

Paths == Files \cup Dirs
Entries == {Selected[i] : i \in DOMAIN Selected}

\* OpenAsync of the source, of the destination, WriteAsync, CloseAsync,
\* DeleteFile, Rename, makedir, Lock or CreatePool in recurse, exdir,
\* dosprotection_set, the window that asks for a name.
FaultKinds == {"read", "open", "write", "close", "delete", "rename", "mkdir",
               "lock", "scan", "protection", "window"}

Job == [kind: {"copy", "move", "delete"},
        samevol: BOOLEAN, noicon: BOOLEAN, rename: BOOLEAN]

\* Nothing, a directory, a file of the user's that can or cannot be deleted,
\* a part of the source file, all of it.
There == {"other", "otherprot", "partial", "copy"}
Target == {"none", "dir"} \cup There

ASSUME ConstantsAssumption ==
  /\ Files \cap Dirs = {} /\ NULL \notin Paths
  /\ Selected \in Seq(Paths)
  /\ Inside \in [Dirs -> SUBSET Paths]
  /\ IconOf \in [Entries -> Files \cup {NULL}]
  /\ Jobs \subseteq Job
  /\ Sources \subseteq SUBSET Paths
  /\ Targets \subseteq [Paths -> Target]
  /\ Protected \subseteq SUBSET Paths
  /\ Faults \subseteq FaultKinds
  /\ CanAbort \in BOOLEAN
  /\ MaxRetries \in Nat

VARIABLES
  job,       \* the parameters of the action
  todo,      \* the rest of the list, the path being handled first
  pc,        \* where the thread is, see PC
  stack,     \* the directories recurse is in, the innermost first
  how,       \* how the path is moved: "copy", "rename", or a "walk" of a directory
  rc,        \* MOVE_OK, MOVE_FAILED, MOVE_NOSOURCE, MOVE_ABORTED
  aborted,   \* cs.aborted
  skipall,   \* of tr_movelist; for deletedir: the skiplist has an entry
  reqflags,  \* the answers meant for the rest of the job
  src,       \* the paths that are there at the source
  dst,       \* what lies at the destination
  prot,      \* the paths that cannot be deleted
  abort,     \* "told": threads_check_abort would say so; "heard": it has said so
  retries,   \* counter for the bound
  given,     \* history: src at the start
  declined,  \* history: what the user has refused to replace or unprotect
  trouble    \* history: something has failed, been declined or aborted

params == <<job, given>>
walk == <<todo, stack, how, aborted, skipall, retries>>
history == <<declined, trouble>>
vars == <<params, walk, pc, rc, reqflags, src, dst, prot, abort, history>>

PC == {"next", "name", "move", "walk", "walked", "icon", "judge",
       "delfile", "deldir", "delicon", "done"}
Code == {"ok", "failed", "nosource", "aborted"}
Flags == {"repl_all", "repl_skip", "over_all", "over_skip", "del_all",
          "del_skip", "cancel"}
Level == [dir: Dirs, rest: SUBSET Paths]

TypeOK ==
  /\ job \in Jobs /\ given \in Sources
  /\ todo \in Seq(Paths) /\ stack \in Seq(Level)
  /\ pc \in PC /\ rc \in Code /\ how \in {"copy", "rename", "walk"}
  /\ aborted \in BOOLEAN /\ skipall \in BOOLEAN /\ abort \in {"no", "told", "heard"}
  /\ reqflags \subseteq Flags
  /\ src \subseteq given /\ prot \subseteq Paths
  /\ dst \in [Paths -> Target]
  /\ pc = "walk" <=> stack # <<>>
  /\ retries \in 0..MaxRetries
  /\ declined \subseteq Paths /\ trouble \in BOOLEAN

Init ==
  /\ job \in Jobs
  /\ given \in Sources
  /\ src = given
  /\ dst \in Targets
  /\ prot \in Protected
  /\ todo = Selected
  /\ pc = "next" /\ rc = "ok" /\ how = "copy" /\ stack = <<>>
  /\ aborted = FALSE /\ skipall = FALSE /\ abort = "no"
  /\ reqflags = {} /\ retries = 0
  /\ declined = {} /\ trouble = FALSE

Fails(kind) == kind \in Faults
Copying == job.kind = "copy"
Moving == job.kind = "move"
Deleting == job.kind = "delete"
Path == Head(todo)
Icon == IconOf[Path]

\* threads_check_abort takes CTRL_D away when it says that it has come: who
\* looks next finds nothing. CTRL_C, which ends Ambient, stays.
Told == abort = "told"
Hear == abort' \in (IF Told THEN {"heard", "told"} ELSE {abort})

Under[p \in Paths] ==
  {p} \cup (IF p \in Dirs THEN UNION {Under[q] : q \in Inside[p]} ELSE {})
Empty(d) == Under[d] \cap src = {d}

\* A tree: below a path is what is inside of it, and nothing lies at two
\* places, or below two of the selected paths.
Tree ==
  /\ \A p \in Paths : p \in Under[p]
  /\ \A f \in Files : Under[f] = {f}
  /\ \A d \in Dirs : \A p \in Under[d] : p = d \/ \E e \in Inside[d] : p \in Under[e]
  /\ \A d \in Dirs : \A e \in Inside[d] : Under[e] \subseteq Under[d] /\ d \notin Under[e]
  /\ \A p \in Paths : \A q \in Under[p] : q \in Paths /\ Under[q] \subseteq Under[p]
  /\ \A p \in Paths : \A d \in Under[p] \cap Dirs : Inside[d] \subseteq Under[p]
  /\ \A d \in Dirs : \A e, f \in Inside[d] : e # f => Under[e] \cap Under[f] = {}
  /\ \A i, j \in DOMAIN Selected :
       i # j => Under[Selected[i]] \cap Under[Selected[j]] = {}

ASSUME TreeAssumption == Tree

-----------------------------------------------------------------------------
(* Asking the user: fileaction.c. The flags a question leaves go with it.  *)

Answer(say, flags) == [say |-> say, flags |-> flags]

Asked(all, skip, flags) ==
  IF all \in flags THEN {Answer("proceed", flags)}
  ELSE IF skip \in flags THEN {Answer("skip", flags)}
  ELSE {Answer("proceed", flags), Answer("proceed", flags \cup {all}),
        Answer("skip", flags), Answer("skip", flags \cup {skip}),
        Answer("cancel", flags \cup {"cancel"})}

\* fileaction_unprotect. When the protection cannot be changed the job is
\* cancelled.
Unprotected(all, skip, flags) ==
  Asked(all, skip, flags)
    \cup (IF Fails("protection")
            THEN {Answer("cancel", a.flags \cup {"cancel"}) :
                    a \in {b \in Asked(all, skip, flags) : b.say = "proceed"}}
            ELSE {})

\* The same two questions are asked before a file is copied and before it is
\* renamed.
MayOverwrite(p) ==
  IF dst[p] \notin There
    THEN {Answer("proceed", reqflags)}
    ELSE UNION {IF a.say = "proceed" /\ dst[p] = "otherprot"
                  THEN Unprotected("over_all", "over_skip", a.flags)
                  ELSE {a} : a \in Asked("repl_all", "repl_skip", reqflags)}

-----------------------------------------------------------------------------
(* One file: fastcopy.c, rename.c. A result has the code that is returned, *)
(* what lies at the destination, the flags, and what the user has said.    *)

Result(code, there, a) ==
  [rc |-> code, dst |-> there, flags |-> a.flags, say |-> a.say]

Results(codes, theres, a) == {Result(c, t, a) : c \in codes, t \in theres}

\* Once the old file is deleted. An incomplete file is deleted or kept, as
\* the user likes. An error of CloseAsync makes the file incomplete, and the
\* copy a success. A destination that cannot be opened counts as an abort.
Written(a) ==
  IF Told
    THEN Results({"aborted"}, {"none", "partial"}, a)
    ELSE UNION {
      {Result("ok", "copy", a)},
      IF Fails("close") THEN Results({"ok"}, {"none", "partial"}, a) ELSE {},
      IF Fails("write") THEN Results({"failed"}, {"none", "partial"}, a) ELSE {},
      IF Fails("open") THEN {Result("aborted", "none", a)} ELSE {}}

\* Mutant of Cancelled: a comparison instead of a test of the bit.
CancelledCompared == reqflags = {"cancel"}

Cancelled == "cancel" \in reqflags

\* Mutant of Proceeds: a file the user skips is replaced all the same.
ProceedsSkipped(a) == a.say \in {"proceed", "skip"}

\* COPY_PROCEED, after both questions
Proceeds(a) == a.say = "proceed"

FastCopy(p) ==
  IF Cancelled THEN {Result("nosource", dst[p], Answer("none", reqflags))}
  ELSE IF dst[p] = "dir" THEN {Result("nosource", dst[p], Answer("skip", reqflags))}
  ELSE IF p \notin src THEN {Result("nosource", dst[p], Answer("none", reqflags))}
  ELSE UNION {
    UNION {IF Proceeds(a)
             THEN Written(a) \cup (IF Fails("delete") /\ dst[p] \in There
                                     THEN {Result("failed", dst[p], a)} ELSE {})
             ELSE {Result("nosource", dst[p], a)} : a \in MayOverwrite(p)},
    IF Fails("read") THEN {Result("failed", dst[p], Answer("none", reqflags))} ELSE {}}

\* _rename, without the icon. The old file goes only when there is a source.
Renamed(p) ==
  IF dst[p] = "dir"
    THEN {Result("nosource", "dir", Answer("skip", reqflags)),
          Result("aborted", "dir", Answer("cancel", reqflags))}
    ELSE UNION {
      CASE a.say = "skip" -> {Result("nosource", dst[p], a)}
        [] a.say = "cancel" -> {Result("aborted", dst[p], a)}
        [] a.say = "proceed" /\ p \notin src -> {Result("nosource", dst[p], a)}
        [] OTHER ->
             {Result("ok", "copy", a)}
               \cup (IF Fails("rename") THEN {Result("failed", "none", a)} ELSE {})
               \cup (IF Fails("delete") /\ dst[p] \in There
                       THEN {Result("aborted", dst[p], a)} ELSE {})
      : a \in MayOverwrite(p)}

\* A copy that is aborted has looked.
HearsIn(r) == IF r.rc = "aborted" THEN Hear ELSE UNCHANGED abort

\* What r leaves behind at p, but for the source.
Take(p, r) ==
  /\ dst' = [dst EXCEPT ![p] = r.dst]
  /\ declined' = IF r.say \in {"skip", "cancel"} THEN declined \cup ({p} \cap src)
                 ELSE IF r.say = "proceed" THEN declined \ {p} ELSE declined

\* DeleteFile of a path nobody is asked about
Unlinks(p) ==
  IF p \in prot THEN {FALSE}
  ELSE IF Fails("delete") THEN BOOLEAN ELSE {TRUE}

\* DeleteFile with fileaction_unprotect, retried until it works or the user
\* gives up: the answers, "proceed" when the file is gone. "error" stands for
\* another error, after which the user does not want to retry.
Removed(p, flags) ==
  (IF p \in prot THEN Unprotected("del_all", "del_skip", flags)
                 ELSE {Answer("proceed", flags)})
    \cup (IF Fails("delete") THEN {Answer("error", flags)} ELSE {})

-----------------------------------------------------------------------------
(* The list: tr_movelist, tr_deleteall.                                    *)

TakeEntry ==
  /\ pc = "next" /\ todo # <<>>
  /\ pc' = CASE Deleting /\ Path \in Dirs \cap src -> "deldir"
             [] Deleting /\ Path \notin Dirs \cap src -> "delfile"
             [] OTHER -> IF job.rename THEN "name" ELSE "move"
  /\ skipall' = (skipall /\ ~Deleting)
  /\ aborted' = FALSE
  /\ UNCHANGED <<params, todo, stack, how, retries, rc, reqflags, src, dst, prot,
                 abort, history>>

ListEnds ==
  /\ pc = "next" /\ todo = <<>>
  /\ pc' = "done"
  /\ UNCHANGED <<params, walk, rc, reqflags, src, dst, prot, abort, history>>

\* The pattern rename window: no name means that the path is left out. An
\* abort wakes the thread as an answer does, and is no abort then.
AskName ==
  /\ pc = "name"
  /\ \/ pc' = "move" /\ Hear /\ UNCHANGED <<rc, trouble>>
     \/ pc' = "judge" /\ rc' = "nosource" /\ trouble' = TRUE /\ Hear
     \/ /\ Fails("window") /\ pc' = "judge" /\ rc' = "failed" /\ trouble' = TRUE
        /\ UNCHANGED abort
  /\ UNCHANGED <<params, walk, reqflags, src, dst, prot, declined>>

NextEntry == pc' = "next" /\ todo' = Tail(todo)

\* What tr_movelist makes of the code of one path
Judge ==
  /\ pc = "judge"
  /\ \/ rc = "aborted" /\ pc' = "done" /\ UNCHANGED <<todo, skipall, retries>>
     \/ /\ rc = "failed" /\ ~skipall
        /\ \/ retries < MaxRetries /\ retries' = retries + 1
              /\ pc' = "next" /\ UNCHANGED <<todo, skipall>>
           \/ NextEntry /\ skipall' \in BOOLEAN /\ UNCHANGED retries
           \/ pc' = "done" /\ UNCHANGED <<todo, skipall, retries>>
     \/ /\ rc # "aborted" /\ (rc = "failed" => skipall)
        /\ NextEntry /\ UNCHANGED <<skipall, retries>>
  /\ UNCHANGED <<params, stack, how, aborted, rc, reqflags, src, dst, prot, abort,
                 history>>

-----------------------------------------------------------------------------
(* One path: tr_movefile, tr_movedir.                                      *)

ByRename(p) == Moving /\ job.samevol /\ (p \in Dirs \cap src => dst[p] # "dir")

\* A file, or a whole directory, is renamed. tr_rename does not look at
\* the flag of a cancelled job.
MoveByRename ==
  /\ pc = "move" /\ ByRename(Path)
  /\ \E r \in Renamed(Path) :
       /\ rc' = r.rc /\ reqflags' = r.flags
       /\ IF r.rc = "ok"
            THEN /\ src' = src \ Under[Path]
                 /\ dst' = [p \in Paths |->
                              IF p \in Under[Path] \cap src
                                THEN IF p \in Dirs THEN "dir" ELSE "copy"
                                ELSE dst[p]]
                 /\ declined' = declined \ {Path}
            ELSE Take(Path, r) /\ UNCHANGED src
       /\ trouble' = (trouble \/ r.rc # "ok")
  /\ how' = "rename"
  /\ pc' = "icon"
  /\ UNCHANGED <<params, todo, stack, aborted, skipall, retries, prot, abort>>

\* The source goes only when there is a copy.
\* Mutant of SourceGoes: a file the user has skipped goes, too.
SourceGoesAlways(r) == Moving

SourceGoes(r) == Moving /\ r.rc = "ok"

\* deletefile, whose answer the code does not look at
Deletes(p, a) ==
  /\ src' = IF a.say = "proceed" THEN src \ {p} ELSE src
  /\ prot' = IF a.say = "proceed" THEN prot \ {p} ELSE prot
  /\ reqflags' = a.flags

CopyFile ==
  /\ pc = "move" /\ ~ByRename(Path) /\ Path \notin Dirs \cap src
  /\ \E r \in FastCopy(Path) :
       /\ rc' = r.rc
       /\ Take(Path, r) /\ HearsIn(r)
       /\ \/ /\ ~SourceGoes(r)
             /\ reqflags' = r.flags /\ UNCHANGED <<src, prot>>
             /\ trouble' = (trouble \/ r.rc # "ok")
          \/ /\ SourceGoes(r)
             /\ \E a \in Removed(Path, r.flags) :
                  /\ Deletes(Path, a)
                  /\ trouble' = (trouble \/ r.rc # "ok" \/ a.say # "proceed")
  /\ how' = "copy"
  /\ pc' = "icon"
  /\ UNCHANGED <<params, todo, stack, aborted, skipall, retries>>

\* The icon follows its file, even when the file was missing or skipped, and
\* follows its directory only when that went well.
IconFollows ==
  /\ ~job.noicon /\ Icon # NULL /\ Icon \in src
  /\ rc \in {"ok", "nosource"}
  /\ rc = "nosource" => Path \notin Dirs \cap src

NoIcon ==
  /\ pc = "icon" /\ ~IconFollows
  /\ pc' = "judge"
  /\ UNCHANGED <<params, walk, rc, reqflags, src, dst, prot, abort, history>>

IconByRename ==
  /\ pc = "icon" /\ IconFollows /\ how = "rename"
  /\ \E r \in Renamed(Icon) :
       /\ rc' = r.rc /\ reqflags' = r.flags /\ Take(Icon, r)
       /\ src' = IF r.rc = "ok" THEN src \ {Icon} ELSE src
       /\ trouble' = (trouble \/ r.rc # "ok")
  /\ pc' = "judge"
  /\ UNCHANGED <<params, walk, prot, abort>>

\* "an icon is optional": only a failure is one. Whatever else fastcopy has
\* said, a moved icon is then deleted: that of a file with deletefile, that
\* of a directory unless the flags say nothing but cancel.
IconByCopy ==
  /\ pc = "icon" /\ IconFollows /\ how # "rename"
  /\ \E r \in FastCopy(Icon) :
       /\ rc' = IF r.rc = "failed" THEN "failed" ELSE "ok"
       /\ Take(Icon, r) /\ HearsIn(r)
       /\ \/ /\ Copying \/ r.rc = "failed" \/ (how = "walk" /\ r.flags = {"cancel"})
             /\ reqflags' = r.flags /\ UNCHANGED <<src, prot>>
             /\ trouble' = (trouble \/ r.rc # "ok")
          \/ /\ Moving /\ r.rc # "failed" /\ how = "walk" /\ r.flags # {"cancel"}
             /\ \E gone \in Unlinks(Icon) :
                  /\ src' = IF gone THEN src \ {Icon} ELSE src
                  /\ trouble' = (trouble \/ r.rc # "ok" \/ ~gone)
             /\ reqflags' = r.flags /\ UNCHANGED prot
          \/ /\ Moving /\ r.rc # "failed" /\ how = "copy"
             /\ \E a \in Removed(Icon, r.flags) :
                  /\ Deletes(Icon, a)
                  /\ trouble' = (trouble \/ r.rc # "ok" \/ a.say # "proceed")
  /\ pc' = "judge"
  /\ UNCHANGED <<params, walk>>

-----------------------------------------------------------------------------
(* A directory: recurse.c, which goes down as soon as it finds one and     *)
(* comes back to the list of its parent. Its lock on the topmost directory *)
(* is kept, that one can only be deleted when it has returned.             *)

Top == Head(stack)

\* Mutant of Rest: the list is left after the entry.
RestDropped(p) == <<[Top EXCEPT !.rest = {}]>> \o Tail(stack)

Rest(p) == <<[Top EXCEPT !.rest = @ \ {p}]>> \o Tail(stack)

Listed(d) == Inside[d] \cap src

\* exitdir and the end of recurse say TRUE after a failure, too; only the
\* walk that deletes has no exitdir, and ends the job.
\* Mutant of StopWalk: the lists are kept.
StopWalkKeeps == pc' = (IF Deleting THEN "done" ELSE "walked") /\ stack' = stack

StopWalk == pc' = (IF Deleting THEN "done" ELSE "walked") /\ stack' = <<>>

\* exdir reads a directory, and looks for an abort at every entry. ABORTED
\* is not FALSE: recurse returns it, and who called it takes it for TRUE.
Scan(d, below, bad) ==
  \/ /\ ~(Told /\ Listed(d) # {})
     /\ pc' = "walk"
     /\ stack' = <<[dir |-> d, rest |-> Listed(d)]>> \o below
     /\ trouble' = (trouble \/ bad)
     /\ UNCHANGED abort
  \/ /\ Fails("scan")
     /\ StopWalk /\ trouble' = TRUE
     /\ UNCHANGED abort
  \/ /\ Told /\ Listed(d) # {}
     /\ pc' = "walked" /\ stack' = <<>> /\ trouble' = TRUE
     /\ Hear

\* createdir: a file in the way is deleted if the user likes.
MadeDir(d) ==
  (IF dst[d] \in There THEN {dst[d]} ELSE {})
    \cup (IF dst[d] # "otherprot" THEN {"dir"} ELSE {})
    \cup (IF Fails("mkdir") /\ dst[d] \notin {"dir", "otherprot"} THEN {"none"} ELSE {})

Enter(d, below) ==
  /\ \E made \in MadeDir(d) :
       /\ dst' = [dst EXCEPT ![d] = made]
       /\ declined' = IF made \in There THEN declined \cup {d} ELSE declined \ {d}
       /\ IF made = "dir" THEN Scan(d, below, FALSE)
          ELSE StopWalk /\ trouble' = TRUE /\ UNCHANGED abort
  /\ UNCHANGED <<params, todo, skipall, retries, aborted, rc, reqflags, src, prot>>

\* When recurse gets no lock or no memory it does nothing, and the path
\* counts as moved.
EnterTop ==
  /\ pc = "move" /\ ~ByRename(Path) /\ Path \in Dirs \cap src
  /\ how' = "walk"
  /\ \/ Enter(Path, <<>>)
     \/ /\ Fails("lock")
        /\ pc' = "judge" /\ rc' = "ok" /\ trouble' = TRUE
        /\ UNCHANGED <<params, todo, stack, skipall, retries, aborted, reqflags, src,
                       dst, prot, abort, declined>>

EnterSub ==
  /\ pc = "walk"
  /\ UNCHANGED how
  /\ \/ ~Deleting /\ \E d \in Top.rest \cap Dirs : Enter(d, Rest(d))
     \/ /\ Deleting /\ \E d \in Top.rest \cap Dirs : Scan(d, Rest(d), FALSE)
        /\ UNCHANGED <<params, todo, skipall, retries, aborted, rc, reqflags, src, dst,
                       prot, declined>>

\* movefunc. A moved file that cannot be deleted stays.
WalkFile ==
  /\ pc = "walk" /\ ~Deleting
  /\ \E p \in Top.rest \ Dirs : \E r \in FastCopy(p) :
       /\ Take(p, r) /\ reqflags' = r.flags /\ HearsIn(r)
       /\ \/ /\ r.rc \in {"ok", "nosource"}
             /\ \E gone \in IF SourceGoes(r) THEN Unlinks(p) ELSE {FALSE} :
                  /\ src' = IF gone THEN src \ {p} ELSE src
                  /\ trouble' = (trouble \/ r.rc # "ok" \/ (Moving /\ ~gone))
             /\ stack' = Rest(p)
             /\ UNCHANGED <<pc, aborted, retries>>
          \/ /\ r.rc = "aborted"
             /\ aborted' = TRUE /\ trouble' = TRUE
             /\ StopWalk /\ UNCHANGED <<src, retries>>
          \/ /\ r.rc = "failed" /\ trouble' = TRUE
             /\ \/ retries < MaxRetries /\ retries' = retries + 1
                   /\ UNCHANGED <<pc, stack>>
                \/ stack' = Rest(p) /\ UNCHANGED <<pc, retries>>
                \/ StopWalk /\ UNCHANGED retries
             /\ UNCHANGED <<src, aborted>>
  /\ UNCHANGED <<params, todo, how, skipall, rc, prot>>

\* leavedir. The job's flags are compared with the flag of a cancelled job.
Leave ==
  /\ pc = "walk" /\ ~Deleting /\ Top.rest = {} /\ Len(stack) > 1
  /\ \E gone \in IF Moving /\ reqflags # {"cancel"} /\ Empty(Top.dir)
                   THEN Unlinks(Top.dir) ELSE {FALSE} :
       /\ src' = IF gone THEN src \ {Top.dir} ELSE src
       /\ trouble' = (trouble \/ (Moving /\ ~gone))
  /\ stack' = Tail(stack)
  /\ UNCHANGED <<params, todo, how, aborted, skipall, retries, pc, rc, reqflags, dst,
                 prot, abort, declined>>

EndWalk ==
  /\ pc = "walk" /\ Top.rest = {} /\ Len(stack) = 1
  /\ pc' = "walked" /\ stack' = <<>>
  /\ UNCHANGED <<params, todo, how, aborted, skipall, retries, rc, reqflags, src, dst,
                 prot, abort, history>>

\* The rest of tr_movedir. It does not hear of a walk that was cut short,
\* unless by an abort.
Walked ==
  /\ pc = "walked" /\ ~Deleting
  /\ rc' = IF aborted THEN "aborted" ELSE "ok"
  /\ \E gone \in IF Moving /\ ~aborted /\ reqflags # {"cancel"} /\ Empty(Path)
                   THEN Unlinks(Path) ELSE {FALSE} :
       /\ src' = IF gone THEN src \ {Path} ELSE src
       /\ trouble' = (trouble \/ (Moving /\ ~gone))
  /\ pc' = "icon"
  /\ UNCHANGED <<params, walk, reqflags, dst, prot, abort, declined>>

-----------------------------------------------------------------------------
(* Deleting: deletefile.c, deletedir.c.                                    *)

Refuses(a) == a.say \in {"skip", "cancel"}

DelFile ==
  /\ pc = "delfile"
  /\ \E a \in IF Path \in src THEN Removed(Path, reqflags)
                              ELSE {Answer("proceed", reqflags)} :
       /\ Deletes(Path, a)
       /\ declined' = IF Refuses(a) THEN declined \cup {Path} ELSE declined
       /\ trouble' = (trouble \/ a.say # "proceed")
       /\ \/ a.say = "proceed" /\ pc' = "delicon" /\ UNCHANGED todo
          \/ a.say = "skip" /\ NextEntry
          \/ a.say \in {"cancel", "error"} /\ pc' = "done" /\ UNCHANGED todo
  /\ UNCHANGED <<params, stack, how, aborted, skipall, retries, rc, dst, abort>>

\* A directory that cannot be locked is taken for an icon without a file. To
\* refuse with Skip leaves the directory alone, to refuse with Cancel leaves
\* only its protection alone.
DelDir ==
  /\ pc = "deldir"
  /\ \/ /\ Fails("lock") /\ pc' = "delicon" /\ trouble' = TRUE
        /\ UNCHANGED <<stack, prot, reqflags, declined, abort>>
     \/ \E a \in IF Path \in prot THEN Unprotected("del_all", "del_skip", reqflags)
                                  ELSE {Answer("proceed", reqflags)} :
          /\ reqflags' = a.flags
          /\ prot' = IF a.say = "proceed" THEN prot \ {Path} ELSE prot
          /\ declined' = IF Refuses(a) THEN declined \cup (Under[Path] \cap src) ELSE declined
          /\ \/ /\ a.say = "skip"
                /\ pc' = "delicon" /\ trouble' = TRUE /\ UNCHANGED <<stack, abort>>
             \/ a.say # "skip" /\ Scan(Path, <<>>, Refuses(a))
             \/ /\ a.say # "skip" /\ Fails("lock")
                /\ StopWalk /\ trouble' = TRUE /\ UNCHANGED abort
  /\ UNCHANGED <<params, todo, how, aborted, skipall, retries, rc, src, dst>>

\* A file, or a directory once its content was gone through. A directory
\* that is not empty then stays without a question.
DelItem ==
  /\ pc = "walk" /\ Deleting
  /\ Top.rest = {} => Len(stack) > 1
  /\ \E p \in IF Top.rest = {} THEN {Top.dir} ELSE Top.rest \ Dirs :
       LET GoOn == stack' = (IF Top.rest = {} THEN Tail(stack) ELSE Rest(p)) /\ UNCHANGED pc
       IN \/ /\ p \in Dirs /\ ~Empty(p)
             /\ GoOn
             /\ UNCHANGED <<src, prot, reqflags, skipall, history>>
          \/ /\ p \in Dirs => Empty(p)
             /\ \E a \in Removed(p, reqflags) :
                  /\ Deletes(p, a)
                  /\ declined' = IF Refuses(a) THEN declined \cup {p} ELSE declined
                  /\ trouble' = (trouble \/ a.say # "proceed")
                  /\ \/ a.say \in {"proceed", "skip"} /\ GoOn /\ UNCHANGED skipall
                     \/ a.say = "error" /\ GoOn /\ (skipall' = skipall \/ skipall' = TRUE)
                     \/ a.say = "cancel" /\ StopWalk /\ UNCHANGED skipall
                     \/ a.say = "error" /\ ~skipall /\ StopWalk /\ UNCHANGED skipall
  /\ UNCHANGED <<params, todo, how, aborted, retries, rc, dst, abort>>

DelWalked ==
  /\ pc = "walked" /\ Deleting
  /\ \/ ~Empty(Path) /\ pc' = "delicon" /\ UNCHANGED <<src, trouble>>
     \/ /\ Empty(Path)
        /\ \E gone \in Unlinks(Path) :
             /\ src' = IF gone THEN src \ {Path} ELSE src
             /\ pc' = IF gone THEN "delicon" ELSE "done"
             /\ trouble' = (trouble \/ ~gone)
  /\ UNCHANGED <<params, walk, rc, reqflags, dst, prot, abort, declined>>

DelIcon ==
  /\ pc = "delicon"
  /\ \/ /\ job.noicon \/ Icon = NULL \/ Icon \notin src
        /\ NextEntry
        /\ UNCHANGED <<src, prot, reqflags, history>>
     \/ /\ ~job.noicon /\ Icon # NULL /\ Icon \in src
        /\ \E a \in Removed(Icon, reqflags) :
             /\ Deletes(Icon, a)
             /\ declined' = IF Refuses(a) THEN declined \cup {Icon} ELSE declined
             /\ trouble' = (trouble \/ a.say # "proceed")
             /\ \/ a.say # "cancel" /\ NextEntry
                \/ a.say \in {"cancel", "error"} /\ pc' = "done" /\ UNCHANGED todo
  /\ UNCHANGED <<params, stack, how, aborted, skipall, retries, rc, dst, abort>>

-----------------------------------------------------------------------------
\* Progresswin_Stop signals the job's thread.
Abort ==
  /\ CanAbort /\ ~Told /\ pc # "done"
  /\ abort' = "told"
  /\ UNCHANGED <<params, walk, pc, rc, reqflags, src, dst, prot, history>>

Work ==
  \/ TakeEntry \/ ListEnds \/ AskName \/ Judge
  \/ MoveByRename \/ CopyFile \/ NoIcon \/ IconByRename \/ IconByCopy
  \/ EnterTop \/ EnterSub \/ WalkFile \/ Leave \/ EndWalk \/ Walked
  \/ DelFile \/ DelDir \/ DelItem \/ DelWalked \/ DelIcon

\* The only state a job may stay in
Ended == pc = "done" /\ UNCHANGED vars

Next == Work \/ Abort \/ Ended

Spec == Init /\ [][Next]_vars

-----------------------------------------------------------------------------
Icons == {IconOf[p] : p \in Entries} \ {NULL}
Data == Files \ Icons

\* Whatever fails but closing a file, whatever the user answers and whenever
\* the job is aborted, a file that is no icon is still at the source or is
\* complete at the destination, and a copy takes nothing away. The source of a
\* moved file is deleted by four different functions, each after its own idea
\* of a success. (For icons, and CloseAsync, see README.md.)
NothingLost ==
  ~Deleting =>
    /\ \A f \in Data \cap given : f \in src \/ dst[f] = "copy"
    /\ Copying => src = given

\* What the user has refused to replace or to unprotect stays: at the source it
\* is not taken away, and at the destination it is what it was when the user
\* refused, from that answer on, however the job goes on: with the other files,
\* with the directory around it, or with a retry, until the user is asked again
\* and agrees. (Icons are another matter, see IconsKept. A selected directory
\* that is protected is not safe from Cancel, and one that is empty not from
\* what lies in its way; see README.md.)
RefusedStays ==
  [][\A p \in (declined' \ Icons) \cap given :
       p \in src' /\ (~Deleting => dst'[p] = dst[p])]_vars

\* Once the user has cancelled the job, no file but an icon is copied, replaced
\* or deleted any more, though the functions that walk through the directory
\* and the list do not hear of it and go on to the end. (They make directories
\* as they go, and delete the icons of files that are to be moved. A move within
\* a volume is left out: tr_rename does not look at the flag.)
CancelStops ==
  [][("cancel" \in reqflags /\ ~(Moving /\ job.samevol)) =>
       \A f \in Data : (f \in src' <=> f \in src) /\ dst'[f] = dst[f]]_vars

\* When nothing fails and nobody refuses or aborts anything, the job has done
\* all of what it was asked to do when it ends, and left nothing half moved.
Wanted == (UNION {Under[p] : p \in Entries})
            \cup (IF job.noicon THEN {} ELSE Icons)

Complete ==
  (pc = "done" /\ ~trouble) =>
    /\ Copying \/ src \cap Wanted = {}
    /\ ~Deleting => \A p \in Wanted \cap given :
                      dst[p] = IF p \in Dirs THEN "dir" ELSE "copy"

\* A deleting job that has seen that it was aborted ("ABORTED: aborted by
\* user", threads.h:581) deletes nothing more. (It does: the rest of the list.)
AbortStops ==
  [][(Deleting /\ abort = "heard") => src' = src]_vars

\* movefile.c:194 "an icon is optional", fastcopy.c:344 "user chose to
\* skip/cancel, it's not an error": to leave an icon out is no more than
\* that, it stays where it is. (It does not.)
IconsKept == ~Deleting => \A f \in Icons \cap given : f \in src \/ dst[f] = "copy"

=============================================================================
