----------------------------- MODULE ThreadPool -----------------------------
(***************************************************************************)
(* src/threads.c: the threads that do Ambient's work in the background.    *)
(*                                                                         *)
(* The main task keeps one thread_node per thread on threadlist and sends  *)
(* it jobs (v_do_action). A thread replies every job to threadport, where  *)
(* threads_handle reports it to its object with MM_Thread_Finished. Jobs   *)
(* are aborted with SIGBREAKF_CTRL_D (threads_abort), threads are ended    *)
(* with SIGBREAKF_CTRL_C (threads_reclaim, threads_finish). A job can put  *)
(* its thread to sleep (thread_wait) until thread_signal.                  *)
(*                                                                         *)
(* The methods the main task runs may call back into this component at any *)
(* time, so the main task's operations are also taken from within          *)
(* threads_handle, at the points where it runs MM_Thread_Finished.         *)
(***************************************************************************)
EXTENDS Integers, Sequences, FiniteSets

CONSTANTS
  Objs,         \* the objects jobs work for
  Actions,      \* the action IDs (TA_...)
  NULL,         \* no object
  All,          \* the action ID 0 of MM_Thread_Finished
  Garbage,      \* an action ID read from memory never written
  THREAD_MIN,   \* threads started by threads_init
  THREAD_MAX,   \* threads ever created
  LowMemory,    \* TRUE: malloc may fail in v_do_action
  MaxJobs,      \* bound: jobs accepted
  MaxAborts,    \* bound: calls of threads_abort
  MaxPrompts,   \* bound: calls of thread_wait
  MaxReclaims,  \* bound: calls of threads_reclaim
  CanQuit       \* TRUE: the user may quit

ASSUME ConstantsAssumption ==
  /\ THREAD_MIN \in Nat
  /\ THREAD_MAX \in Nat
  /\ THREAD_MIN <= THREAD_MAX
  /\ NULL \notin Objs
  /\ {All, Garbage} \cap Actions = {}
  /\ LowMemory \in BOOLEAN
  /\ CanQuit \in BOOLEAN
  /\ MaxJobs \in Nat
  /\ MaxAborts \in Nat
  /\ MaxPrompts \in Nat
  /\ MaxReclaims \in Nat

\* thread_num numbers the threads in the order of their creation.
Threads == 1..THREAD_MAX

VARIABLES
  threadlist,   \* the thread_nodes, in list order
  threadcnt,    \* threads created and not yet removed
  thread_num,   \* calls of create_thread so far
  state,        \* state[t]: TS_IDLE, TS_BUSY or TS_WAITING
  destobj,      \* destobj[t]: the object the current job reports to
  action,       \* action[t]: the action ID of the current job
  signalthreadlist, \* the aborts to be answered, oldest first
  threadport,   \* the messages replied to the main task
  cur,          \* the message threads_handle is at, and where it is
  pc,           \* pc[t]: where thread t is in ambient_thread
  inbox,        \* inbox[t]: a thread_msg is in t's port
  ctrlC, ctrlD, \* the break signals pending for each thread
  quitting,     \* MM_Application_Cleanup is called on every turn of doloop
  asked,        \* history: t's current job was told to abort or stop
  note,         \* history: the MM_Thread_Finished sent by the last step
  jobs, aborts, prompts, reclaims  \* counters for the bounds

list == <<threadlist, threadcnt, thread_num>>
node == <<state, destobj, action>>
signals == <<ctrlC, ctrlD>>
counters == <<jobs, aborts, prompts, reclaims>>
vars == <<list, node, signalthreadlist, threadport, cur, pc, inbox, signals,
          quitting, asked, note, counters>>

Status == {"done", "abort"}
Reply == [k: {"job"}, t: Threads, status: Status]
         \cup [k: {"start"}, t: Threads, status: {"done"}]
\* struct signal_node. The array of IDs is a set: their order is only that of
\* the answers. The empty set is the node that stands for every job.
SignalNode == [obj: Objs, abort: SUBSET Actions]

\* Where threads_handle is: not running; in MM_Thread_Finished of a job; at
\* the i-th signal_node; in the MM_Thread_Finished sent for that node; at
\* the end of a message.
NoMsg == [at |-> "none", msg |-> NULL, i |-> 0, last |-> FALSE]
Handling == {"none", "finished", "scan", "sent", "end"}

PC == {"new", "clear", "wait", "drain", "job", "asleep", "lastdrain",
       "leaving", "dead"}

Listed(t) == \E i \in DOMAIN threadlist : threadlist[i] = t

TypeOK ==
  /\ threadlist \in Seq(Threads)
  /\ threadcnt \in Int
  /\ thread_num \in 0..(THREAD_MAX + 1)
  /\ state \in [Threads -> {"idle", "busy", "waiting"}]
  /\ destobj \in [Threads -> Objs \cup {NULL}]
  /\ action \in [Threads -> Actions \cup {NULL}]
  /\ signalthreadlist \in Seq(SignalNode)
  /\ threadport \in Seq(Reply)
  /\ cur \in [at: Handling, msg: Reply \cup {NULL}, i: Nat, last: BOOLEAN]
  /\ pc \in [Threads -> PC]
  /\ inbox \in [Threads -> BOOLEAN]
  /\ ctrlC \in [Threads -> BOOLEAN]
  /\ ctrlD \in [Threads -> BOOLEAN]
  /\ quitting \in BOOLEAN
  /\ asked \in [Threads -> BOOLEAN]
  /\ note \in SUBSET [obj: Objs, id: Actions \cup {All, Garbage}]
  /\ jobs \in 0..MaxJobs
  /\ aborts \in 0..MaxAborts
  /\ prompts \in 0..MaxPrompts
  /\ reclaims \in 0..MaxReclaims

\* threads_init
Init ==
  /\ threadlist = [i \in 1..THREAD_MIN |-> i]
  /\ threadcnt = THREAD_MIN
  /\ thread_num = THREAD_MIN
  /\ state = [t \in Threads |-> "idle"]
  /\ destobj = [t \in Threads |-> NULL]
  /\ action = [t \in Threads |-> NULL]
  /\ signalthreadlist = <<>>
  /\ threadport = <<>>
  /\ cur = NoMsg
  /\ pc = [t \in Threads |-> IF t <= THREAD_MIN THEN "clear" ELSE "new"]
  /\ inbox = [t \in Threads |-> FALSE]
  /\ ctrlC = [t \in Threads |-> FALSE]
  /\ ctrlD = [t \in Threads |-> FALSE]
  /\ quitting = FALSE
  /\ asked = [t \in Threads |-> FALSE]
  /\ note = {}
  /\ jobs = 0
  /\ aborts = 0
  /\ prompts = 0
  /\ reclaims = 0

-----------------------------------------------------------------------------
(* The main task: operations methods call.                                 *)

\* The main task runs methods: in doloop, or nested in threads_handle.
InMethod ==
  \/ cur.at \in {"none", "sent"}
  \/ cur.at = "finished" /\ destobj[cur.msg.t] # NULL

\* Mutant of Take: the node is left as it is.
LeaveIdle(t) == UNCHANGED state

Take(t) == state' = [state EXCEPT ![t] = "busy"]

\* The job goes to thread t: the node is filled in, then PutMsg.
Assign(t, o, a) ==
  /\ jobs < MaxJobs
  /\ jobs' = jobs + 1
  /\ Take(t)
  /\ destobj' = [destobj EXCEPT ![t] = o]
  /\ action' = [action EXCEPT ![t] = a]
  /\ inbox' = [inbox EXCEPT ![t] = TRUE]
  /\ asked' = [asked EXCEPT ![t] = FALSE]
  /\ UNCHANGED <<aborts, prompts, reclaims>>

\* t is the first node in state TS_IDLE.
FirstIdle(t) ==
  \E i \in DOMAIN threadlist :
    /\ threadlist[i] = t
    /\ state[t] = "idle"
    /\ \A j \in 1..(i - 1) : state[threadlist[j]] # "idle"

NoneIdle == \A i \in DOMAIN threadlist : state[threadlist[i]] # "idle"

\* create_thread, when it succeeds
Create(t) ==
  /\ t = thread_num + 1
  /\ t <= THREAD_MAX
  /\ thread_num' = t
  /\ threadcnt' = threadcnt + 1
  /\ threadlist' = Append(threadlist, t)
  /\ pc' = [pc EXCEPT ![t] = "clear"]

\* v_do_action
DoAction(o, a) ==
  /\ InMethod
  /\ \E t \in Threads :
       /\ \/ FirstIdle(t) /\ UNCHANGED <<list, pc>>
          \/ NoneIdle /\ Create(t)
       /\ Assign(t, o, a)
  /\ note' = {}
  /\ UNCHANGED <<signalthreadlist, threadport, cur, signals, quitting>>

\* v_do_action returns FALSE: out of memory for the message or its tags, the
\* node found or made stays TS_BUSY; or THREAD_MAX threads have been made.
DoActionFails ==
  /\ InMethod
  /\ \/ /\ LowMemory
        /\ \E t \in Threads :
             /\ \/ FirstIdle(t) /\ UNCHANGED <<list, pc>>
                \/ NoneIdle /\ Create(t)
             /\ Take(t)
     \/ /\ NoneIdle
        /\ thread_num = THREAD_MAX
        /\ thread_num' = thread_num + 1
        /\ UNCHANGED <<threadlist, threadcnt, pc, state>>
  /\ note' = {}
  /\ UNCHANGED <<destobj, action, signalthreadlist, threadport, cur, inbox,
                 signals, quitting, asked, counters>>

\* The threads threads_abort(o, ids) signals; no ids stands for every job.
Hit(o, ids) ==
  {t \in Threads :
     /\ Listed(t)
     /\ destobj[t] = o
     /\ state[t] = "busy"
     /\ ids = {} \/ action[t] \in ids}

\* The first signal_node of o.
FirstNodeOf(o, i) ==
  /\ i \in DOMAIN signalthreadlist
  /\ signalthreadlist[i].obj = o
  /\ \A j \in 1..(i - 1) : signalthreadlist[j].obj # o

HasNode(o) == \E i \in DOMAIN signalthreadlist : signalthreadlist[i].obj = o

\* The IDs not already in the first signal_node of o.
NewIds(o, ids) ==
  {id \in ids : \A i \in DOMAIN signalthreadlist :
     FirstNodeOf(o, i) => id \notin signalthreadlist[i].abort}

\* A call without IDs is merged into the node there is, and adds nothing to
\* it; a call with IDs always gets a node of its own.
Schedule(o, ids) ==
  signalthreadlist' =
    IF ids = {} /\ HasNode(o)
      THEN signalthreadlist
      ELSE Append(signalthreadlist, [obj |-> o, abort |-> NewIds(o, ids)])

IdsOf(ids) == IF ids = {} THEN {All} ELSE ids

Finished(o, ids) == {[obj |-> o, id |-> id] : id \in ids}

\* threads_abort
Abort(o, ids) ==
  /\ InMethod
  /\ aborts < MaxAborts
  /\ aborts' = aborts + 1
  /\ LET hit == Hit(o, ids)
     IN  /\ ctrlD' = [t \in Threads |-> ctrlD[t] \/ t \in hit]
         /\ asked' = [t \in Threads |-> asked[t] \/ t \in hit]
         /\ IF hit # {}
              THEN Schedule(o, ids) /\ note' = {}
              ELSE /\ note' = Finished(o, IdsOf(ids))
                   /\ UNCHANGED signalthreadlist
  /\ UNCHANGED <<list, node, threadport, cur, pc, inbox, ctrlC, quitting, jobs,
                 prompts, reclaims>>

\* thread_signal(t, FALSE): the user has answered the window t waits for.
Wake(t) ==
  /\ InMethod
  /\ Listed(t)
  /\ state[t] = "waiting"
  /\ ctrlD' = [ctrlD EXCEPT ![t] = TRUE]
  /\ state' = [state EXCEPT ![t] = "busy"]
  /\ note' = {}
  /\ UNCHANGED <<list, destobj, action, signalthreadlist, threadport, cur, pc,
                 inbox, ctrlC, quitting, asked, counters>>

\* t's job is done and not yet reported.
Replied(t) ==
  \/ \E i \in DOMAIN threadport : threadport[i].t = t /\ threadport[i].k = "job"
  \/ cur.at = "finished" /\ cur.msg.t = t

\* thread_signal(t, TRUE): the stop button of a job's progress window.
Stop(t) ==
  /\ InMethod
  /\ Listed(t)
  /\ inbox[t] \/ pc[t] = "job" \/ pc[t] = "asleep" \/ Replied(t)
  /\ aborts < MaxAborts
  /\ aborts' = aborts + 1
  /\ ctrlD' = [ctrlD EXCEPT ![t] = TRUE]
  /\ state' = [state EXCEPT ![t] = "busy"]
  /\ asked' = [asked EXCEPT ![t] = TRUE]
  /\ note' = {}
  /\ UNCHANGED <<list, destobj, action, signalthreadlist, threadport, cur, pc,
                 inbox, ctrlC, quitting, jobs, prompts, reclaims>>

\* The idle threads threads_reclaim signals: in list order, until cnt has
\* come below THREAD_MIN.
Reclaimed ==
  {t \in Threads :
     \E i \in DOMAIN threadlist :
       /\ threadlist[i] = t
       /\ state[t] = "idle"
       /\ threadcnt - Cardinality({j \in 1..(i - 1) : state[threadlist[j]] = "idle"})
            >= THREAD_MIN}

\* threads_reclaim
Reclaim ==
  /\ InMethod
  /\ reclaims < MaxReclaims
  /\ reclaims' = reclaims + 1
  /\ ctrlC' = [t \in Threads |-> ctrlC[t] \/ t \in Reclaimed]
  /\ note' = {}
  /\ UNCHANGED <<list, node, signalthreadlist, threadport, cur, pc, inbox, ctrlD,
                 quitting, asked, jobs, aborts, prompts>>

\* Mutant of Quit: the threads are told once.
QuitOnce ==
  /\ CanQuit
  /\ cur.at = "none"
  /\ threadlist # <<>>
  /\ ~quitting
  /\ quitting' = TRUE
  /\ ctrlC' = [t \in Threads |-> ctrlC[t] \/ Listed(t)]
  /\ note' = {}
  /\ UNCHANGED <<list, node, signalthreadlist, threadport, cur, pc, inbox, ctrlD,
                 asked, counters>>

\* threads_finish(FALSE), from every turn of doloop once the user has quit.
\* It has nothing to signal when the list is empty, and doloop ends.
Quit ==
  /\ CanQuit
  /\ cur.at = "none"
  /\ threadlist # <<>>
  /\ quitting' = TRUE
  /\ ctrlC' = [t \in Threads |-> ctrlC[t] \/ Listed(t)]
  /\ note' = {}
  /\ UNCHANGED <<list, node, signalthreadlist, threadport, cur, pc, inbox, ctrlD,
                 asked, counters>>

-----------------------------------------------------------------------------
(* The main task: threads_handle.                                          *)

IndexOf(t) == CHOOSE i \in DOMAIN threadlist : threadlist[i] = t

Without(s, i) == [j \in 1..(Len(s) - 1) |-> IF j < i THEN s[j] ELSE s[j + 1]]

\* Mutant of Report: no look at destobj.
ReportAlways(msg) ==
  IF msg.k = "job" THEN Finished(destobj[msg.t], {action[msg.t]}) ELSE {}

\* MM_Thread_Finished, for a job that has an object to report to.
Report(msg) ==
  IF msg.k = "job" /\ destobj[msg.t] # NULL
    THEN Finished(destobj[msg.t], {action[msg.t]})
    ELSE {}

HandleGetMsg ==
  /\ cur.at = "none"
  /\ threadport # <<>>
  /\ threadport' = Tail(threadport)
  /\ LET msg == Head(threadport)
     IN  /\ cur' = [at |-> IF msg.k = "job" THEN "finished" ELSE "scan",
                    msg |-> msg, i |-> 1, last |-> FALSE]
         /\ note' = Report(msg)
  /\ UNCHANGED <<list, node, signalthreadlist, pc, inbox, signals, quitting,
                 asked, counters>>

\* Mutant of Free: inside the test of destobj.
FreeReported(t) ==
  state' = [state EXCEPT ![t] = IF destobj[t] = NULL THEN @ ELSE "idle"]

Free(t) == state' = [state EXCEPT ![t] = "idle"]

\* Mutant of Scan: only start messages have the aborts answered.
SkipScan == cur' = [cur EXCEPT !.at = "end"]

Scan == cur' = [cur EXCEPT !.at = "scan"]

\* MM_Thread_Finished has returned: the first signal_node of the object is
\* dropped, the node is free again.
HandleFinished ==
  /\ cur.at = "finished"
  /\ LET t == cur.msg.t
         o == destobj[t]
     IN  /\ signalthreadlist' =
              IF HasNode(o)
                THEN Without(signalthreadlist,
                             CHOOSE i \in DOMAIN signalthreadlist : FirstNodeOf(o, i))
                ELSE signalthreadlist
         /\ destobj' = [destobj EXCEPT ![t] = NULL]
         /\ Free(t)
  /\ Scan
  /\ note' = {}
  /\ UNCHANGED <<list, action, threadport, pc, inbox, signals, quitting, asked,
                 counters>>

StillBusy(o) ==
  \E i \in DOMAIN threadlist :
    destobj[threadlist[i]] = o /\ state[threadlist[i]] = "busy"

\* What MM_Thread_Finished is sent for a signal_node: every non-zero entry
\* of the array, those behind its terminator never written.
Answers(sn) ==
  IF sn.abort = {}
    THEN {{All}}
    ELSE {sn.abort \cup g : g \in {{}, {Garbage}}}

\* The next signal_node, while one is left.
HandleScan ==
  /\ cur.at = "scan"
  /\ cur.i \in DOMAIN signalthreadlist
  /\ LET sn == signalthreadlist[cur.i]
     IN  IF StillBusy(sn.obj)
           THEN /\ cur' = [cur EXCEPT !.i = @ + 1]
                /\ note' = {}
           ELSE /\ \E ids \in Answers(sn) : note' = Finished(sn.obj, ids)
                /\ cur' = [cur EXCEPT !.at = "sent",
                                      !.last = cur.i = Len(signalthreadlist)]
  /\ UNCHANGED <<list, node, signalthreadlist, threadport, pc, inbox, signals,
                 quitting, asked, counters>>

\* The node is removed. The loop took its successor before the methods ran,
\* so that nodes they added behind the last one wait for the next message.
HandleSent ==
  /\ cur.at = "sent"
  /\ signalthreadlist' = Without(signalthreadlist, cur.i)
  /\ cur' = [cur EXCEPT !.at = IF cur.last THEN "end" ELSE "scan"]
  /\ note' = {}
  /\ UNCHANGED <<list, node, threadport, pc, inbox, signals, quitting, asked,
                 counters>>

\* The end of one message. A start message comes back when its thread has
\* ended, and takes the node off the list.
HandleEnd ==
  /\ \/ cur.at = "end"
     \/ cur.at = "scan" /\ cur.i \notin DOMAIN signalthreadlist
  /\ IF cur.msg.k = "start"
       THEN /\ threadcnt' = threadcnt - 1
            /\ threadlist' = Without(threadlist, IndexOf(cur.msg.t))
       ELSE UNCHANGED <<threadcnt, threadlist>>
  /\ cur' = NoMsg
  /\ note' = {}
  /\ UNCHANGED <<thread_num, node, signalthreadlist, threadport, pc, inbox,
                 signals, quitting, asked, counters>>

Handle == HandleGetMsg \/ HandleFinished \/ HandleScan \/ HandleSent \/ HandleEnd

-----------------------------------------------------------------------------
(* The threads: ambient_thread and what jobs call.                         *)

Goto(t, from, to) == pc[t] = from /\ pc' = [pc EXCEPT ![t] = to]

\* SetSignal: breaks that came too late are cleared.
ThreadClears(t) ==
  /\ Goto(t, "clear", "wait")
  /\ ctrlC' = [ctrlC EXCEPT ![t] = FALSE]
  /\ ctrlD' = [ctrlD EXCEPT ![t] = FALSE]
  /\ UNCHANGED <<list, node, signalthreadlist, threadport, cur, inbox, quitting,
                 asked, note, counters>>

\* Wait returns for a message or CTRL_C; CTRL_D stays pending.
ThreadWakes(t) ==
  /\ \/ ctrlC[t] /\ Goto(t, "wait", "lastdrain")
     \/ ~ctrlC[t] /\ inbox[t] /\ Goto(t, "wait", "drain")
  /\ ctrlC' = [ctrlC EXCEPT ![t] = FALSE]
  /\ UNCHANGED <<list, node, signalthreadlist, threadport, cur, inbox, ctrlD,
                 quitting, asked, note, counters>>

ThreadGetsJob(t) ==
  /\ inbox[t]
  /\ Goto(t, "drain", "job")
  /\ inbox' = [inbox EXCEPT ![t] = FALSE]
  /\ UNCHANGED <<list, node, signalthreadlist, threadport, cur, signals, quitting,
                 asked, note, counters>>

ThreadHasNoJob(t) ==
  /\ ~inbox[t]
  /\ \/ Goto(t, "drain", "clear")
     \/ Goto(t, "lastdrain", "leaving")
  /\ UNCHANGED <<list, node, signalthreadlist, threadport, cur, inbox, signals,
                 quitting, asked, note, counters>>

\* Mutant of ReplyMsg: last in, first out.
ReplyFirst(t, k, status) ==
  threadport' = <<[k |-> k, t |-> t, status |-> status]>> \o threadport

ReplyMsg(t, k, status) ==
  threadport' = Append(threadport, [k |-> k, t |-> t, status |-> status])

\* thread_domsg has returned.
JobReturns(t) ==
  /\ Goto(t, "job", "drain")
  /\ ReplyMsg(t, "job", "done")
  /\ UNCHANGED <<list, node, signalthreadlist, cur, inbox, signals, quitting,
                 asked, note, counters>>

\* The job has found a break with threads_check_abort, which takes CTRL_D
\* and leaves CTRL_C.
JobAborts(t) ==
  /\ ctrlC[t] \/ ctrlD[t]
  /\ Goto(t, "job", "drain")
  /\ ctrlD' = [ctrlD EXCEPT ![t] = FALSE]
  /\ ReplyMsg(t, "job", "abort")
  /\ UNCHANGED <<list, node, signalthreadlist, cur, inbox, ctrlC, quitting, asked,
                 note, counters>>

\* After CTRL_C what is left in the port is replied without being done.
ThreadRefusesJob(t) ==
  /\ inbox[t]
  /\ pc[t] = "lastdrain"
  /\ inbox' = [inbox EXCEPT ![t] = FALSE]
  /\ ReplyMsg(t, "job", "abort")
  /\ UNCHANGED <<list, node, signalthreadlist, cur, pc, signals, quitting, asked,
                 note, counters>>

\* thread_wait, up to its Wait(): it sleeps on CTRL_D alone.
JobSleeps(t) ==
  /\ prompts < MaxPrompts
  /\ prompts' = prompts + 1
  /\ Goto(t, "job", "asleep")
  /\ state' = [state EXCEPT ![t] = "waiting"]
  /\ UNCHANGED <<list, destobj, action, signalthreadlist, threadport, cur, inbox,
                 signals, quitting, asked, note, jobs, aborts, reclaims>>

JobWakes(t) ==
  /\ ctrlD[t]
  /\ Goto(t, "asleep", "job")
  /\ ctrlD' = [ctrlD EXCEPT ![t] = FALSE]
  /\ UNCHANGED <<list, node, signalthreadlist, threadport, cur, inbox, ctrlC,
                 quitting, asked, note, counters>>

\* The process ends, and exec replies its start message.
ThreadEnds(t) ==
  /\ Goto(t, "leaving", "dead")
  /\ ReplyMsg(t, "start", "done")
  /\ UNCHANGED <<list, node, signalthreadlist, cur, inbox, signals, quitting,
                 asked, note, counters>>

ThreadNext(t) ==
  \/ ThreadClears(t) \/ ThreadWakes(t) \/ ThreadGetsJob(t) \/ ThreadHasNoJob(t)
  \/ ThreadRefusesJob(t) \/ JobReturns(t) \/ JobAborts(t) \/ JobSleeps(t)
  \/ JobWakes(t) \/ ThreadEnds(t)

AbortArgs == {{}} \cup {{a} : a \in Actions}

MethodNext ==
  \/ \E o \in Objs \cup {NULL}, a \in Actions : DoAction(o, a)
  \/ \E o \in Objs, ids \in AbortArgs : Abort(o, ids)
  \/ \E t \in Threads : Wake(t) \/ Stop(t)
  \/ DoActionFails
  \/ Reclaim
  \/ Quit

Next == Handle \/ MethodNext \/ \E t \in Threads : ThreadNext(t)

\* Threads and the handler of the main task are scheduled, jobs end, users
\* answer the windows jobs wait for, and quitting goes on on every tick.
Fairness ==
  /\ WF_vars(Handle)
  /\ \A t \in Threads : WF_vars(ThreadNext(t)) /\ WF_vars(Wake(t))
  /\ WF_vars(quitting /\ Quit)

Spec == Init /\ [][Next]_vars /\ Fairness

-----------------------------------------------------------------------------
(* Properties.                                                             *)

HasJob(t) == inbox[t] \/ pc[t] \in {"job", "asleep"} \/ Replied(t)

Told(t) == pc[t] \in {"lastdrain", "leaving", "dead"}

\* A node v_do_action may take is one whose thread has nothing left to do: no
\* second job is put in a port, and the fields of a node (destobj, action)
\* are not overwritten before the job they describe has been reported.
IdleHasNoJob ==
  \A t \in Threads : Listed(t) /\ state[t] = "idle" => ~HasJob(t)

\* threads_handle reaches the node of a message through msg->tn, and threads
\* and methods walk threadlist: a node is on the list, once, as long as its
\* process has not ended or a message that points to it is under way, and
\* threadcnt, by which threads_reclaim decides, counts these nodes.
NodesLive ==
  /\ \A i, j \in DOMAIN threadlist : threadlist[i] = threadlist[j] => i = j
  /\ \A t \in Threads : pc[t] \notin {"new", "dead"} => Listed(t)
  /\ \A i \in DOMAIN threadport : Listed(threadport[i].t)
  /\ cur.msg # NULL => Listed(cur.msg.t)
  /\ threadcnt = Len(threadlist)

\* A job is reported to its object and its thread can be used again, unless
\* the user quits.
JobsReported ==
  \A t \in Threads : state[t] # "idle" ~> state[t] = "idle" \/ quitting

\* An object that aborted its jobs is answered, unless the user quits.
AbortsAnswered == \A o \in Objs : HasNode(o) ~> ~HasNode(o) \/ quitting

\* Once the user has quit every thread ends, whatever it does, and doloop
\* can end: a CTRL_C that ambient_thread clears is sent again.
QuitEnds == quitting ~> threadlist = <<>>

\* "minimum number of threads in the pool" (THREAD_MIN). The code keeps
\* neither this nor the four properties that follow; see README.md.
MinimumKept ==
  ~quitting => Cardinality({t \in Threads : Listed(t) /\ ~Told(t)}) >= THREAD_MIN

\* "Remove the threads in IDLE state." (threads_reclaim): a thread that goes
\* away leaves no job behind.
OnlyIdleRemoved == \A t \in Threads : pc[t] = "dead" => ~inbox[t]

\* "Clear it.. in case one arrived too late" (ambient_thread): a CTRL_D meant
\* for an earlier job does not abort the next one.
LateAbortsCleared ==
  \A i \in DOMAIN threadport :
    threadport[i].status = "abort" => asked[threadport[i].t]

\* "terminate the array" (threads_abort): MM_Thread_Finished is sent for the
\* IDs the object gave.
ArrayTerminated == \A r \in note : r.id # Garbage

\* "MM_Thread_Finished with a msg->id of 0 is sent when they are aborted or if
\* there's nothing." (threads_abort): when it is sent at once, no job of the
\* object goes on.
InProgress(o, id) ==
  \E t \in Threads :
    /\ destobj[t] = o
    /\ id = All \/ id = action[t]
    /\ inbox[t] \/ pc[t] \in {"job", "asleep"}

NothingMeansNothing ==
  [][aborts' # aborts => \A r \in note' : ~InProgress(r.obj, r.id)]_vars
=============================================================================
