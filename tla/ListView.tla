------------------------------ MODULE ListView ------------------------------
(***************************************************************************)
(* ListView: a window that lists a directory (src/listviewclass.c), with   *)
(* the threads that work for it (src/threads.c, src/scandir.c,             *)
(* src/exdir.c) and a file job that tells it of the files it makes and     *)
(* deletes (src/notify.c).                                                 *)
(*                                                                         *)
(* A list may only be cleared, and another directory scanned, when no      *)
(* thread works for it. So a request of the user marks all kinds of        *)
(* threads as busy, aborts them, and leaves the rest to MM_Thread_Finished *)
(* of the last one. Meanwhile jobs that were not stopped in time report    *)
(* what they have done, and the methods that threads push run in the       *)
(* middle of each other, wherever the main task pushes synchronously.      *)
(*                                                                         *)
(* "types" stands for four kinds of threads with the same code (MIME       *)
(* types, versions, MD5 sums, sizes); the list of volumes (ShowDevices)    *)
(* and the preview are left out.                                           *)
(***************************************************************************)
EXTENDS Naturals, FiniteSets, Sequences

CONSTANTS
  Places,      \* the directories
  Names,       \* the names of files
  Modes,       \* the view modes
  FirstMode,   \* that of a new window
  NULL,        \* no place, no mode (-1), no notification
  Contents,    \* [Places -> SUBSET Names], to begin with
  FileJobs,    \* what file jobs do: set of [place, steps]
  Columns,     \* the kinds of threads whose columns are displayed
  MaxLoads,    \* bound: requests of the user for a directory
  MaxModes,    \* bound: requests for a mode
  MaxFileJobs  \* bound: file jobs

\* The threads of a list, in the order they are aborted, and those that are
\* restarted when entries have been added or removed.
KindSeq == <<"scan", "icons", "types">>
RestartSeq == <<"icons", "types">>
Kinds == {"scan", "icons", "types"}

\* A file job turns the updates of lists off and on again, makes or deletes
\* a file and tells of it.
Step == [act : {"disable", "enable"}]
        \cup [act : {"make", "unmake", "create", "delete"}, name : Names]

\* notice while the view handles it: the file job still holds ct->sem.
Handled == [act |-> "handled"]

ASSUME ConstantsAssumption ==
  /\ NULL \notin Places \cup Modes
  /\ FirstMode \in Modes
  /\ Contents \in [Places -> SUBSET Names]
  /\ FileJobs \subseteq [place : Places, steps : Seq(Step)]
  /\ Columns \subseteq Kinds \ {"scan"}
  /\ MaxLoads \in Nat
  /\ MaxModes \in Nat
  /\ MaxFileJobs \in Nat

VARIABLES
  lv,          \* the view's struct Data
  jobs,        \* its jobs, until threads_handle has released them
  late,        \* how many idle threads have a CTRL_D of a job before pending
  todo,        \* what the main task has still to do, nested calls first
  registered,  \* the place whose changes the view is told of
  disk,        \* the files of each place
  fjob,        \* the file job at work: its place and what is left of it
  notice,      \* the notification a file job is waiting for; it holds ct->sem
  closing,     \* the window is to be closed
  aborted,     \* MM_Viewgroup_Aborted has been pushed
  gone,        \* the window has been disposed of
  loads, modes, fjobs \* counters for the bounds

vars == <<lv, jobs, late, todo, registered, disk, fjob, notice, closing,
          aborted, gone, loads, modes, fjobs>>

\* struct aline: where its file was found, by whom, and where it is listed.
Entry == [id : Nat, name : Names, from : Places, by : {"scan", "notify"},
          at : Places \cup {NULL}]

Data == [path : Places \cup {NULL},
         busy : SUBSET Kinds,             \* thread_*_busy
         startnewthread : SUBSET Kinds,   \* startnewthread_*
         showfiles : BOOLEAN,
         view_mode : Modes,
         viewmode_postpone : Modes \cup {NULL},
         update : BOOLEAN,                \* changes are to be displayed
         filecreate : BOOLEAN,            \* notify_filecreate
         filedelete : BOOLEAN,
         alist : SUBSET Entry,            \* all entries
         list : SUBSET Entry,             \* those the list gadget has
         newentry : SUBSET Entry,         \* flags of the entries
         removed : SUBSET Entry,
         rlist : SUBSET Entry]            \* the entries to be freed

Job == [id : Nat, kind : Kinds, place : Places \cup {NULL},
        at : {"start", "run", "push", "ok", "aborted"}, \* where the thread is
        names : SUBSET Names,    \* what the scan has read and not yet added
        name : Names \cup {NULL},       \* what it is adding
        abort : BOOLEAN,         \* CTRL_D
        late : BOOLEAN]          \* ... was pending when a scan was given its thread

Item == [op : {"abort", "restart", "answer"}, kind : Kinds \cup {"all"}]
        \cup [op : {"report", "release"}, job : Nat]
        \cup [op : {"dosnotify", "show", "notified"}]

TypeOK ==
  /\ lv \in Data
  /\ lv.newentry \cup lv.removed \cup lv.rlist \subseteq lv.alist
  /\ jobs \subseteq Job
  /\ late \in Nat
  /\ todo \in Seq(Item)
  /\ registered \in Places \cup {NULL}
  /\ disk \in [Places -> SUBSET Names]
  /\ fjob \in [place : Places \cup {NULL}, steps : Seq(Step)]
  /\ notice \in Step \cup {NULL, Handled}
  /\ closing \in BOOLEAN /\ aborted \in BOOLEAN /\ gone \in BOOLEAN
  /\ loads \in 0..MaxLoads
  /\ modes \in 0..MaxModes
  /\ fjobs \in 0..MaxFileJobs

Init ==
  /\ lv = [path |-> NULL, busy |-> {}, startnewthread |-> {}, showfiles |-> FALSE,
           view_mode |-> FirstMode, viewmode_postpone |-> NULL, update |-> TRUE,
           filecreate |-> FALSE, filedelete |-> FALSE, alist |-> {}, list |-> {},
           newentry |-> {}, removed |-> {}, rlist |-> {}]
  /\ jobs = {}
  /\ late = 0
  /\ todo = <<>>
  /\ registered = NULL
  /\ disk = Contents
  /\ fjob = [place |-> NULL, steps |-> <<>>]
  /\ notice = NULL
  /\ closing = FALSE
  /\ aborted = FALSE
  /\ gone = FALSE
  /\ loads = 0
  /\ modes = 0
  /\ fjobs = 0

JobsOf(kind) == {j \in jobs : j.kind = kind}

-----------------------------------------------------------------------------
(* The entries: functions of struct Data. Those with a choice give a set.  *)

\* An address at which there is none of these.
FreeId(objects) == CHOOSE i \in 1..(Cardinality(objects) + 1) : \A o \in objects : o.id # i

\* MM_Listview_RemoveByName, and the replacing of MM_Listview_AddFile: the
\* first entry of that name is marked.
RemoveByName(d, n) ==
  LET found == {e \in d.alist \ d.removed : e.name = n}
  IN  IF found = {} THEN {d}
      ELSE {[d EXCEPT !.removed = @ \cup {e}, !.rlist = @ \cup {e}] : e \in found}

\* MM_Listview_AddFile: the path of the entry is made with the current path
\* of the view.
Added(d, n, place, by) ==
  LET e == [id |-> FreeId(d.alist \cup d.list), name |-> n, from |-> place, by |-> by, at |-> d.path]
  IN  [d EXCEPT !.alist = @ \cup {e},
                !.newentry = IF by = "notify" THEN @ \cup {e} ELSE @]

\* MM_Listview_RemoveFiles, the list gadget: when exactly the selected
\* entries are marked these go; otherwise those of rlist, and the mark is
\* taken off entries that are not displayed.
Taken(d) ==
  {[d EXCEPT !.list = @ \ d.rlist, !.removed = @ \ (d.rlist \ d.list)]}
  \cup {[d EXCEPT !.list = @ \ s] : s \in {d.removed \cap d.list} \ {{}}}

\* Mutant of Freed: rlist is left when an entry is freed.
FreedKeepsNodes(d) ==
  IF "icons" \in d.busy THEN d
  ELSE LET dead == d.rlist \cap d.removed
       IN  [d EXCEPT !.alist = @ \ dead, !.newentry = @ \ dead, !.removed = @ \ dead]

\* MM_Listview_RemoveFiles, the memory: "threads busy, deferring entry
\* objects deletion...".
Freed(d) ==
  IF "icons" \in d.busy THEN d
  ELSE LET dead == d.rlist \cap d.removed
       IN  [d EXCEPT !.alist = @ \ dead, !.newentry = @ \ dead, !.removed = @ \ dead,
                     !.rlist = {}]

RemoveFiles(d) == {Freed(e) : e \in Taken(d)}

\* MM_Listview_AddFiles and MM_Listview_UpdateView of all entries
UpdateViewNormal(d) ==
  {[e EXCEPT !.list = d.alist] : e \in RemoveFiles([d EXCEPT !.list = {}])}

\* ... of the new ones
UpdateViewNew(d) ==
  {[e EXCEPT !.list = @ \cup d.newentry] :
     e \in RemoveFiles([d EXCEPT !.newentry = {}])}

\* Mutant of Clear: the entries stay in memory.
ClearGadget(d) == [d EXCEPT !.list = {}]

\* MM_Listview_Clear
Clear(d) == [d EXCEPT !.alist = {}, !.list = {}, !.newentry = {}, !.removed = {},
                      !.rlist = {}]

-----------------------------------------------------------------------------
(* The threads' ends: MM_Thread_Finished.                                  *)

\* do_action, for a kind whose thread, if it is in hit, has a CTRL_D pending.
NewJob(js, kind, place, hit) ==
  js \cup {[id |-> FreeId(js), kind |-> kind, place |-> place, at |-> "start",
            names |-> {}, name |-> NULL, abort |-> kind \in hit,
            late |-> kind = "scan" /\ kind \in hit]}

\* Any of the idle threads, or a new one, gets a job: those of hit take as many
\* that have a CTRL_D pending.
Given(js, hit) ==
  /\ hit \subseteq {j.kind : j \in js \ jobs}
  /\ Cardinality(hit) <= late
  /\ late' = late - Cardinality(hit)

\* MM_Listview_RunIconThread, and the ones like it for types: <<data, jobs>>
RunThread(s, kind, hit) ==
  IF kind \in Columns
    THEN <<[s[1] EXCEPT !.busy = @ \cup {kind}], NewJob(s[2], kind, NULL, hit)>>
    ELSE <<[s[1] EXCEPT !.busy = @ \ ({kind} \cap {"icons"})], s[2]>>

\* An aborted job of a kind that may be restarted
AbortedThread(s, kind, hit) ==
  LET d == [s[1] EXCEPT !.busy = @ \ {kind}, !.startnewthread = @ \ {kind}]
  IN  IF kind \in s[1].startnewthread THEN RunThread(<<d, s[2]>>, kind, hit)
      ELSE <<d, s[2]>>

\* An aborted scan: a mode that was put off is set.
AbortedScan(d) ==
  LET e == [d EXCEPT !.busy = @ \ {"scan"}]
  IN  IF d.viewmode_postpone \in {NULL, d.view_mode} THEN e
      ELSE [e EXCEPT !.view_mode = d.viewmode_postpone, !.showfiles = TRUE]

\* Mutant of FinishedScan: thread_scandir_busy stays TRUE.
FinishedScanBusy(s, hit) ==
  {RunThread(RunThread(<<d, s[2]>>, "icons", hit), "types", hit) :
     d \in UpdateViewNormal(s[1])}

\* A scan that has come to its end: its entries are displayed, and threads
\* look for icons and types.
FinishedScan(s, hit) ==
  LET Idle(t) == <<[t[1] EXCEPT !.busy = @ \ {"scan"}], t[2]>>
  IN  {Idle(RunThread(RunThread(<<d, s[2]>>, "icons", hit), "types", hit)) :
         d \in UpdateViewNormal(s[1])}

\* The switch over msg->action
Switch(kind, isabort, hit) ==
  LET s == <<lv, jobs>>
  IN  IF kind = "all" THEN {s}
      ELSE IF kind = "scan"
        THEN IF isabort THEN {<<AbortedScan(lv), jobs>>} ELSE FinishedScan(s, hit)
        ELSE {IF isabort THEN AbortedThread(s, kind, hit)
              ELSE <<[lv EXCEPT !.busy = @ \ {kind}], jobs>>}

\* Mutant of MayShow: only an aborted thread brings the next directory.
MayShowAborted(d, kind, isabort) ==
  isabort /\ d.busy = {} /\ d.showfiles /\ kind # "all"

MayShow(d, kind, isabort) == d.busy = {} /\ d.showfiles /\ kind # "all"

\* MM_Thread_Finished with what is left to do after it: MM_Listview_ShowFiles
\* begins by clearing the list, and runs the methods that threads have pushed
\* (listview_enable_dosnotify) before it goes on.
Finished(kind, isabort, rest) ==
  \E hit \in SUBSET Kinds : \E s \in Switch(kind, isabort, hit) :
    /\ jobs' = s[2]
    /\ Given(s[2], hit)
    /\ IF MayShow(s[1], kind, isabort)
         THEN /\ lv' = Clear([s[1] EXCEPT !.showfiles = FALSE])
              /\ todo' = <<[op |-> "dosnotify"], [op |-> "show"]>> \o rest
              /\ UNCHANGED aborted
         ELSE /\ lv' = s[1]
              /\ todo' = rest
              /\ aborted' = (aborted \/ (isabort /\ (s[1].busy = {} \/ kind = "all")))
    /\ UNCHANGED <<registered, disk, fjob, notice, closing, gone, loads,
                   modes, fjobs>>

-----------------------------------------------------------------------------
(* The main task.                                                          *)

AbortItems(op, kinds) == [i \in DOMAIN kinds |-> [op |-> op, kind |-> kinds[i]]]

Unstarted == UNCHANGED <<loads, modes, fjobs>>
Outside == UNCHANGED <<registered, disk, fjob, notice>>

\* doloop: nothing is left of the last event.
Idle == todo = <<>> /\ ~gone

\* Mutant of AbortThreads: the flag of the scan is forgotten.
AbortThreadsButScan(d) ==
  /\ lv' = [d EXCEPT !.busy = Kinds \ {"scan"}]
  /\ todo' = AbortItems("abort", KindSeq)

\* listview_abort_threads
AbortThreads(d) ==
  /\ lv' = [d EXCEPT !.busy = Kinds]
  /\ todo' = AbortItems("abort", KindSeq)

\* The user, or a change by another program (MM_Window_Reload), asks for a
\* directory: MM_View_LoadURI.
LoadURI(p) ==
  /\ Idle /\ ~closing
  /\ loads < MaxLoads
  /\ loads' = loads + 1
  /\ AbortThreads([lv EXCEPT !.path = p, !.showfiles = TRUE,
                             !.viewmode_postpone = NULL])
  /\ UNCHANGED <<jobs, late, modes, fjobs, closing, aborted, gone>>
  /\ Outside

\* MA_View_ModeIndex, which aborts the threads once files have been shown.
SetMode(m) ==
  /\ Idle /\ ~closing
  /\ modes < MaxModes
  /\ m # lv.view_mode
  /\ modes' = modes + 1
  /\ IF registered # NULL
       THEN AbortThreads([lv EXCEPT !.viewmode_postpone = m])
       ELSE lv' = [lv EXCEPT !.viewmode_postpone = m] /\ UNCHANGED todo
  /\ UNCHANGED <<jobs, late, loads, fjobs, closing, aborted, gone>>
  /\ Outside

\* MM_Window_Close: MM_View_Abort of all that the view has.
Close ==
  /\ Idle /\ ~closing
  /\ closing' = TRUE
  /\ todo' = <<[op |-> "abort", kind |-> "all"]>>
  /\ UNCHANGED <<lv, jobs, late, aborted, gone>>
  /\ Unstarted /\ Outside

\* MM_Viewgroup_Aborted, and MM_Window_Aborted when the window is closing
Aborted ==
  /\ Idle
  /\ aborted
  /\ aborted' = FALSE
  /\ gone' = closing
  /\ UNCHANGED <<lv, jobs, late, todo, closing>>
  /\ Unstarted /\ Outside

\* threads_handle gets the message of a job.
ThreadsHandle(j) ==
  /\ Idle
  /\ j.at \in {"ok", "aborted"}
  /\ todo' = <<[op |-> "report", job |-> j.id], [op |-> "release", job |-> j.id]>>
  /\ UNCHANGED <<lv, jobs, late, closing, aborted, gone>>
  /\ Unstarted /\ Outside

Doing(op) == todo # <<>> /\ Head(todo).op = op

\* threads_abort: the jobs of that kind are told, and their own ends will be
\* the answer; the thread of one that has replied already is still TS_BUSY and
\* gets a CTRL_D, too. Without any the answer is sent at once. (The signal node of the view
\* answers nothing: threads_handle removes it when a job of the view ends,
\* whichever it was, before it looks at these nodes.)
ThreadsAbort ==
  /\ Doing("abort") \/ Doing("restart")
  /\ LET kind == Head(todo).kind
         told == IF kind = "all" THEN jobs ELSE JobsOf(kind)
     IN  /\ lv' = IF Doing("restart")
                   THEN [lv EXCEPT !.startnewthread = @ \cup {kind}] ELSE lv
         /\ jobs' = (jobs \ told) \cup {[j EXCEPT !.abort = TRUE] : j \in told}
         /\ todo' = IF told = {}
                     THEN <<[op |-> "answer", kind |-> kind]>> \o Tail(todo)
                     ELSE Tail(todo)
  /\ UNCHANGED <<late, closing, aborted, gone>>
  /\ Unstarted /\ Outside

\* What threads have pushed for the main task
Pushed == {j \in jobs : j.at = "push"}
Drained == Pushed = {} /\ notice \in {NULL, Handled}

\* methodstack_push_sync(obj, MM_Thread_Finished, ...), on the main task: the
\* methods in the stack go first.
Answer ==
  /\ Doing("answer") /\ Drained
  /\ Finished(Head(todo).kind, TRUE, Tail(todo))

JobById(i) == CHOOSE j \in jobs : j.id = i

Report ==
  /\ Doing("report") /\ Drained
  /\ LET j == JobById(Head(todo).job)
     IN  Finished(j.kind, j.at = "aborted", Tail(todo))

\* A CTRL_D that the job has not heard is taken away when its thread begins to
\* wait ("in case one arrived too late"), and stays when it came later, or when
\* the thread has not got there before its next job.
Lingering(j) == IF j.abort THEN {late, late + 1} ELSE {late}

\* threads_handle sets the thread to TS_IDLE.
Release ==
  /\ Doing("release")
  /\ LET j == JobById(Head(todo).job)
     IN  /\ jobs' = jobs \ {j}
         /\ late' \in Lingering(j)
  /\ todo' = Tail(todo)
  /\ UNCHANGED <<lv, closing, aborted, gone>>
  /\ Unstarted /\ Outside

\* listview_enable_dosnotify
EnableDOSNotify ==
  /\ Doing("dosnotify") /\ Drained
  /\ todo' = Tail(todo)
  /\ UNCHANGED <<lv, jobs, late, closing, aborted, gone>>
  /\ Unstarted /\ Outside

\* The rest of MM_Listview_ShowFiles: notifications are asked for from the
\* new place on, under ct->sem, and a thread is told to scan it.
ShowFiles ==
  /\ Doing("show")
  /\ notice = NULL
  /\ registered' = lv.path
  /\ lv' = [lv EXCEPT !.view_mode = IF lv.viewmode_postpone = NULL THEN @
                                    ELSE lv.viewmode_postpone]
  /\ \E hit \in SUBSET {"scan"} :
       /\ jobs' = NewJob(jobs, "scan", lv.path, hit)
       /\ Given(jobs', hit)
  /\ todo' = Tail(todo)
  /\ UNCHANGED <<disk, fjob, notice, closing, aborted, gone>>
  /\ Unstarted

\* The main task runs pushed methods in doloop, and before it calls one
\* itself.
Draining == Idle \/ Doing("answer") \/ Doing("report") \/ Doing("dosnotify")

\* MM_Listview_AddFile of a scan
AddFile(j) ==
  /\ Draining
  /\ j \in Pushed
  /\ lv' = Added(lv, j.name, j.place, "scan")
  /\ jobs' = (jobs \ {j}) \cup {[j EXCEPT !.at = "run", !.name = NULL]}
  /\ UNCHANGED <<late, todo, closing, aborted, gone>>
  /\ Unstarted /\ Outside

\* MM_Notify_Change, the loop: entries are marked and added, in memory.
Noted ==
  CASE notice.act = "disable" -> {[lv EXCEPT !.update = FALSE]}
    [] notice.act = "enable" -> {[lv EXCEPT !.update = TRUE]}
    [] notice.act = "delete" ->
         RemoveByName([lv EXCEPT !.filedelete = TRUE], notice.name)
    [] notice.act = "create" ->
         LET d == [lv EXCEPT !.filecreate = TRUE]
         IN  IF notice.name \in disk[fjob.place] \* examine64
               THEN {Added(e, notice.name, fjob.place, "notify") :
                       e \in RemoveByName(d, notice.name)}
               ELSE {d}

\* ... what has changed is displayed
Displayed(d) ==
  LET created == IF d.filecreate THEN UpdateViewNew(d) ELSE {d}
      deleted == IF d.filedelete THEN UNION {RemoveFiles(e) : e \in created}
                 ELSE created
  IN  {[e EXCEPT !.filecreate = FALSE, !.filedelete = FALSE] : e \in deleted}

\* ... and the threads are started again, for the new entries too.
NotifyChange ==
  /\ Draining
  /\ notice \notin {NULL, Handled}
  /\ \E d \in Noted :
       IF d.update
         THEN /\ lv' \in Displayed(d)
              /\ todo' = AbortItems("restart", RestartSeq)
                         \o <<[op |-> "notified"]>> \o todo
              /\ notice' = Handled
         ELSE /\ lv' = d
              /\ notice' = NULL
              /\ UNCHANGED todo
  /\ UNCHANGED <<jobs, late, registered, disk, fjob, closing, aborted, gone>>
  /\ Unstarted

\* MM_Notify_Change returns to the file job.
Notified ==
  /\ Doing("notified")
  /\ notice' = NULL
  /\ todo' = Tail(todo)
  /\ UNCHANGED <<lv, jobs, late, registered, disk, fjob, closing, aborted, gone>>
  /\ Unstarted

MainNext ==
  \/ ThreadsAbort \/ Answer \/ Report \/ Release \/ EnableDOSNotify \/ ShowFiles
  \/ NotifyChange \/ Notified \/ Aborted
  \/ \E j \in jobs : AddFile(j) \/ ThreadsHandle(j)

-----------------------------------------------------------------------------
(* The threads of the view.                                                *)

\* Where it matters how far the others are: before events and drained stacks,
\* and before ct->sem is obtained. What the main task does elsewhere commutes
\* with their steps.
Awaiting == Draining \/ Doing("show")

MainKept == UNCHANGED <<lv, late, todo, closing, aborted, gone>>

Becomes(j, to) ==
  /\ jobs' = (jobs \ {j}) \cup {to}
  /\ MainKept /\ Unstarted /\ Outside

\* exdir: ExAll reads the names (one buffer of them).
ScanReads(j) ==
  /\ j.kind = "scan" /\ j.at = "start"
  /\ Becomes(j, [j EXCEPT !.at = "run", !.names = disk[j.place]])

\* ... an entry, unless the job is told to stop, is added: addffilefunc.
ScanAdds(j) ==
  /\ j.kind = "scan" /\ j.at = "run" /\ ~j.abort
  /\ \E n \in j.names :
       Becomes(j, [j EXCEPT !.at = "push", !.names = @ \ {n}, !.name = n])

\* A scan looks for CTRL_D before each entry, the other threads too, and takes
\* it away. What they do with an entry changes nothing else here.
JobAborts(j) ==
  /\ j.abort
  /\ IF j.kind = "scan" THEN j.at = "run" /\ j.names # {} ELSE j.at = "start"
  /\ Becomes(j, [j EXCEPT !.at = "aborted", !.names = {}, !.abort = FALSE])

\* At the end nobody looks for CTRL_D any more.
JobEnds(j) ==
  /\ IF j.kind = "scan" THEN j.at = "run" /\ j.names = {} ELSE j.at = "start"
  /\ Becomes(j, [j EXCEPT !.at = "ok"])

JobNext == ~gone /\ Awaiting /\ \E j \in jobs : ScanReads(j) \/ ScanAdds(j) \/ JobAborts(j) \/ JobEnds(j)

-----------------------------------------------------------------------------
(* File jobs.                                                              *)

\* One at a time; the last one has ended.
FileJobStarts ==
  /\ ~gone /\ Awaiting
  /\ fjob.steps = <<>> /\ notice = NULL
  /\ fjobs < MaxFileJobs
  /\ fjobs' = fjobs + 1
  /\ fjob' \in FileJobs
  /\ MainKept
  /\ UNCHANGED <<jobs, registered, disk, notice, loads, modes>>

FileJobAt(acts) == fjob.steps # <<>> /\ Head(fjob.steps).act \in acts

FileJobWorks ==
  /\ FileJobAt({"make", "unmake"})
  /\ notice = NULL
  /\ LET s == Head(fjob.steps)
     IN  disk' = [disk EXCEPT ![fjob.place] = IF s.act = "make" THEN @ \cup {s.name}
                                              ELSE @ \ {s.name}]
  /\ fjob' = [fjob EXCEPT !.steps = Tail(@)]
  /\ MainKept
  /\ UNCHANGED <<jobs, registered, notice>> /\ Unstarted

\* notify_action: a view that is registered for the place is told, and the
\* file job waits for it, ct->sem in its hands.
FileJobTells ==
  /\ FileJobAt({"disable", "enable", "create", "delete"})
  /\ notice = NULL
  /\ notice' = IF registered = fjob.place THEN Head(fjob.steps) ELSE NULL
  /\ fjob' = [fjob EXCEPT !.steps = Tail(@)]
  /\ MainKept
  /\ UNCHANGED <<jobs, registered, disk>> /\ Unstarted

FileJobNext == ~gone /\ Awaiting /\ (FileJobWorks \/ FileJobTells)

-----------------------------------------------------------------------------

Next ==
  \/ MainNext \/ JobNext \/ FileJobNext \/ FileJobStarts
  \/ Close
  \/ \E p \in Places : LoadURI(p)
  \/ \E m \in Modes : SetMode(m)

\* The main task and the threads are scheduled; what the user does is up to
\* the user.
Fairness == WF_vars(MainNext) /\ WF_vars(JobNext) /\ WF_vars(FileJobNext)

Spec == Init /\ [][Next]_vars /\ Fairness

-----------------------------------------------------------------------------
(* Properties.                                                             *)

\* Between two events a thread that is marked as busy is really there, and
\* so somebody will take the mark away: MM_Listview_ShowFiles, which needs
\* all marks gone, is never waited for in vain. (The converse does not hold:
\* a scan is not marked while it is only reading, and of two threads that
\* look for icons the first takes the mark away.)
BusyHasJob == Idle => \A k \in lv.busy : JobsOf(k) # {}

\* A directory is scanned once at a time: a list is not cleared for the next
\* one before the last scan has ended, aborted or not.
OneScan ==
  /\ Cardinality(JobsOf("scan")) <= 1 \/ Doing("release")
  /\ Doing("show") => JobsOf("scan") \subseteq {j \in jobs : j.at \in {"ok", "aborted"}}

\* When nothing more is to be shown, what scans have found comes from the
\* directory whose path the window has, and is listed under that path: a scan
\* the user did not wait for leaves no entry behind.
ListFresh ==
  Idle /\ ~lv.showfiles =>
    \A e \in lv.alist : e.by = "scan" => e.from = lv.path /\ e.at = lv.path

\* The names no file job touches
Touched == UNION {{f.steps[i].name : i \in {i \in DOMAIN f.steps :
                     f.steps[i].act \in {"make", "unmake"}}} : f \in FileJobs}

\* The list shows the files of p, each once.
Shown(p) ==
  /\ lv.path = p
  /\ \A n \in Names \ Touched :
       Cardinality({e \in lv.list : e.name = n}) = (IF n \in Contents[p] THEN 1 ELSE 0)

\* The main task waits for ct->sem, which a file job holds that waits for the
\* main task; see README.md.
Wedged == Doing("show") /\ notice # NULL

\* The scan of p was told to stop by a CTRL_D that was meant for a job before it.
LateAborted(p) == \E j \in JobsOf("scan") : j.place = p /\ j.late /\ j.at = "aborted"

\* A directory the user asked for is shown, however its request crosses the
\* ends of scans and other threads, changes of the mode and notifications,
\* unless the user goes somewhere else or closes the window. Two ways to lose
\* it are in the code, and excused here: the main task waits for ever for a
\* file job (NotWedged), or the thread that gets the new scan has a CTRL_D
\* pending that came too late for its last job (NotLateAborted).
ShowsRequested ==
  \A p \in Places :
    lv.path = p /\ lv.showfiles
      ~> Shown(p) \/ lv.path # p \/ closing \/ Wedged \/ LateAborted(p)

\* The code keeps none of the properties that follow; see README.md.

\* "beware of deadlocks.. that methodstack_push() at the end can be nasty"
\* (notify_action)
NotWedged == ~Wedged

\* "Clear it.. in case one arrived too late" (ambient_thread)
NotLateAborted == \A p \in Places : ~LateAborted(p)

\* Nothing is going on.
Quiet ==
  /\ Idle /\ jobs = {} /\ ~closing /\ ~lv.showfiles
  /\ fjob.steps = <<>> /\ notice = NULL

\* The list shows the files of its directory, each once, those a file job has
\* made or deleted meanwhile included.
ListTrue ==
  Quiet /\ registered # NULL =>
    \A n \in Names : Cardinality({e \in lv.list : e.name = n})
                       = (IF n \in disk[lv.path] THEN 1 ELSE 0)

\* Entries that come from notifications, too, are listed where their files are.
NotifiedFresh == Idle /\ ~lv.showfiles => \A e \in lv.alist : e.from = lv.path

\* A file job that has turned the updates of a list off turns them on again.
UpdatesOn == Quiet => lv.update

\* "scheduled viewmode" (MA_View_ModeIndex): it is set in the end.
ModeApplied ==
  \A m \in Modes :
    lv.viewmode_postpone = m ~> lv.view_mode = m \/ lv.viewmode_postpone # m \/ closing

\* "Defer til the (possible) process returns." (Window_Close): the window is
\* disposed of then.
CloseCompletes == closing ~> gone
=============================================================================
