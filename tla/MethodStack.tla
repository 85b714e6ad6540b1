---------------------------- MODULE MethodStack ----------------------------
(***************************************************************************)
(* src/methodstack.c with the part of src/main.c that drives it.           *)
(*                                                                         *)
(* Only the main task may call BOOPSI/MUI methods. The other tasks push    *)
(* methods on methodlist; the main task takes them off in                  *)
(* methodstack_check, which it calls twice per turn of doloop and again,   *)
(* nested, whenever a method running on the main task pushes synchronously.*)
(*                                                                         *)
(* Each critical section under mssem is one step. What lies between two    *)
(* of them (OM_RETAIN, ADDTAIL, Signal, WaitPort in methodstack_push_sync) *)
(* are steps of their own, so that tasks interleave there.                 *)
(***************************************************************************)
EXTENDS Integers, FiniteSets, SequencesExt

CONSTANTS
  Threads,     \* the tasks other than the main task, one job each
  Aliens,      \* those that are not Ambient's: methodstack_push_sync_safe
  Main,        \* the main task (mstask)
  Objs,        \* the objects methods are pushed to
  App,         \* the application object
  NULL,        \* the NULL object pointer, and no message
  LowMemory,   \* TRUE: AllocTaskPooled may fail for the aliens
  Prompts,     \* TRUE: jobs ask the user and sleep until the answer
  MaxCalls,    \* bound: methods one task puts on methodlist
  MaxActs,     \* bound: steps of its own the code of methods takes on main
  MaxDepth     \* bound: frames on the main task's stack

ASSUME ConstantsAssumption ==
  /\ IsFiniteSet(Threads)
  /\ Aliens \subseteq Threads
  /\ Main \notin Threads
  /\ App \in Objs
  /\ NULL \notin Objs
  /\ LowMemory \in BOOLEAN
  /\ Prompts \in BOOLEAN
  /\ MaxCalls \in Nat
  /\ MaxActs \in Nat
  /\ MaxDepth \in Nat

VARIABLES
  methodlist,  \* the pushed methods, oldest first
  calls,       \* calls[c]: how many methods c has put on methodlist
  tpc,         \* where each thread is (see TPC)
  reply,       \* reply[t]: what ReplyMsg brought to t's replyport, or NULL
  jobobj,      \* jobobj[t]: the object t's job works for (thread_msg.obj)
  refs,        \* refs[o]: o's reference count (OM_RETAIN, OM_RELEASE)
  held,        \* held[o]: the reference of o's owner is still there
  mpc,         \* where doloop is (see MPC)
  stack,       \* the calls active on the main task, innermost last
  sigE, sigT,  \* SIGBREAKF_CTRL_E and threadsig of the main task
  port,        \* threadport: the threads whose thread_msg has been replied
  acts,        \* steps methods have taken on their own so far
  started,     \* history: the number of the last call of c taken up
  finished     \* history: the calls <<c, n>> carried out

vars == <<methodlist, calls, tpc, reply, jobobj, refs, held, mpc, stack,
          sigE, sigT, port, acts, started, finished>>
threadvars == <<tpc, reply, jobobj, port>>
mainvars == <<mpc, stack, acts>>
history == <<started, finished>>

Callers == Threads \cup {Main}
Pool == Threads \ Aliens

\* struct pushedmethod. n numbers the calls of one task.
Method == [from: Callers, n: 1..MaxCalls, obj: Objs \cup {NULL}, sync: BOOLEAN]

ASSUME NullAssumption == NULL \notin Method /\ NULL \notin {"result", "killed"}

\* A thread runs its job, has retained the object, has linked the method,
\* waits for the reply; sleeps in thread_wait; its job is over; main has
\* handled the end of it.
TPC == {"run", "link", "signal", "wait", "asleep", "over", "gone"}
MPC == {"input", "check", "checkbusy", "wait", "handle", "recheck", "exit"}

CheckFrame == [k: {"check"}, nobreak: BOOLEAN, pm: Method \cup {NULL}]
MethodFrame == [k: {"method"}, obj: Objs]
SyncFrame == [k: {"sync"}, obj: Objs]
FinishFrame == [k: {"finish"}, t: Pool]
Frame == CheckFrame \cup MethodFrame \cup SyncFrame \cup FinishFrame

Check(nobreak) == [k |-> "check", nobreak |-> nobreak, pm |-> NULL]
Body(o) == [k |-> "method", obj |-> o]
Sync(o) == [k |-> "sync", obj |-> o]
Finishing(t) == [k |-> "finish", t |-> t]

TypeOK ==
  /\ methodlist \in Seq(Method)
  /\ calls \in [Callers -> 0..MaxCalls]
  /\ tpc \in [Threads -> TPC]
  /\ reply \in [Threads -> {"result", "killed", NULL}]
  /\ jobobj \in [Threads -> Objs]
  /\ refs \in [Objs -> Int]
  /\ held \in [Objs -> BOOLEAN]
  /\ mpc \in MPC
  /\ stack \in Seq(Frame)
  /\ sigE \in BOOLEAN
  /\ sigT \in BOOLEAN
  /\ port \subseteq Pool
  /\ acts \in 0..MaxActs
  /\ started \in [Callers -> 0..MaxCalls]
  /\ finished \subseteq Callers \X (1..MaxCalls)

Init ==
  /\ methodlist = <<>>
  /\ calls = [c \in Callers |-> 0]
  /\ tpc = [t \in Threads |-> "run"]
  /\ reply = [t \in Threads |-> NULL]
  /\ jobobj \in [Threads -> Objs]
  /\ held = [o \in Objs |-> TRUE]
  /\ refs = [o \in Objs |-> 1 + Cardinality({t \in Pool : jobobj[t] = o})]
  /\ mpc = "input"
  /\ stack = <<>>
  /\ sigE = FALSE
  /\ sigT = FALSE
  /\ port = {}
  /\ acts = 0
  /\ started = [c \in Callers |-> 0]
  /\ finished = {}

Alive(o) == refs[o] > 0
Retain(o) == refs' = [refs EXCEPT ![o] = @ + 1]
Release(o) == refs' = IF o = NULL THEN refs ELSE [refs EXCEPT ![o] = @ - 1]

\* Mutant of AddTail: ADDHEAD.
AddHead(pm) == <<pm>> \o methodlist

AddTail(pm) == Append(methodlist, pm)

Enqueue(c, o, sync) ==
  /\ calls[c] < MaxCalls
  /\ methodlist' =
       AddTail([from |-> c, n |-> calls[c] + 1, obj |-> o, sync |-> sync])
  /\ calls' = [calls EXCEPT ![c] = @ + 1]

-----------------------------------------------------------------------------
(* The tasks that push.                                                    *)

\* methodstack_push: the retain is inside the critical section, and nobody
\* is signalled. A failed AllocPooled drops the method and changes nothing.
Push(t) ==
  /\ tpc[t] = "run"
  /\ Alive(jobobj[t])
  /\ Enqueue(t, jobobj[t], FALSE)
  /\ Retain(jobobj[t])
  /\ UNCHANGED <<threadvars, held, mainvars, sigE, sigT, history>>

SyncRetain(t) ==
  /\ tpc[t] = "run"
  /\ calls[t] < MaxCalls
  /\ Alive(jobobj[t])
  /\ tpc' = [tpc EXCEPT ![t] = "link"]
  /\ Retain(jobobj[t])
  /\ UNCHANGED <<methodlist, calls, reply, jobobj, held, mainvars, sigE, sigT,
                 port, history>>

SyncEnqueue(t) ==
  /\ tpc[t] = "link"
  /\ Enqueue(t, jobobj[t], TRUE)
  /\ tpc' = [tpc EXCEPT ![t] = "signal"]
  /\ UNCHANGED <<reply, jobobj, refs, held, mainvars, sigE, sigT, port, history>>

\* methodstack_push_sync_safe goes on to Signal and WaitPort when the
\* allocation has failed; methodstack_push_sync returns 0 there.
SyncNoMemory(t) ==
  /\ LowMemory
  /\ t \in Aliens
  /\ tpc[t] = "run"
  /\ tpc' = [tpc EXCEPT ![t] = "signal"]
  /\ UNCHANGED <<methodlist, calls, reply, jobobj, refs, held, mainvars, sigE,
                 sigT, port, history>>

SyncSignal(t) ==
  /\ tpc[t] = "signal"
  /\ tpc' = [tpc EXCEPT ![t] = "wait"]
  /\ sigE' = TRUE
  /\ UNCHANGED <<methodlist, calls, reply, jobobj, refs, held, mainvars, sigT,
                 port, history>>

SyncReturn(t) ==
  /\ tpc[t] = "wait"
  /\ reply[t] # NULL
  /\ tpc' = [tpc EXCEPT ![t] = "run"]
  /\ reply' = [reply EXCEPT ![t] = NULL]
  /\ UNCHANGED <<methodlist, calls, jobobj, refs, held, mainvars, sigE, sigT,
                 port, history>>

\* How jobs ask the user (move_file, rename): the last call pushed opens a
\* window, and the thread goes to sleep without signalling the main task.
JobSleeps(t) ==
  /\ Prompts
  /\ t \in Pool
  /\ tpc[t] = "run"
  /\ calls[t] > 0
  /\ tpc' = [tpc EXCEPT ![t] = "asleep"]
  /\ UNCHANGED <<methodlist, calls, reply, jobobj, refs, held, mainvars, sigE,
                 sigT, port, history>>

\* thread_signal, once the window has opened and the user has answered.
JobWakes(t) ==
  /\ tpc[t] = "asleep"
  /\ <<t, calls[t]>> \in finished
  /\ tpc' = [tpc EXCEPT ![t] = "run"]
  /\ UNCHANGED <<methodlist, calls, reply, jobobj, refs, held, mainvars, sigE,
                 sigT, port, history>>

\* The job is done: ambient_thread replies the thread_msg to threadport.
EndJob(t) ==
  /\ t \in Pool
  /\ tpc[t] = "run"
  /\ tpc' = [tpc EXCEPT ![t] = "over"]
  /\ port' = port \cup {t}
  /\ sigT' = TRUE
  /\ UNCHANGED <<methodlist, calls, reply, jobobj, refs, held, mainvars, sigE,
                 history>>

ThreadNext(t) ==
  \/ Push(t) \/ SyncRetain(t) \/ SyncEnqueue(t) \/ SyncNoMemory(t)
  \/ SyncSignal(t) \/ SyncReturn(t) \/ JobSleeps(t) \/ JobWakes(t) \/ EndJob(t)

-----------------------------------------------------------------------------
(* The main task: doloop.                                                  *)

Idle == stack = <<>>
Top == Last(stack)
Call(f) == stack' = Append(stack, f)
Replace(f) == stack' = Append(Front(stack), f)
Leave == stack' = Front(stack)
Act == acts < MaxActs /\ acts' = acts + 1

\* MUIM_Application_NewInput. It may run methods of the objects that got
\* input; it leaves sigs at 0 when there is more input to come.
NewInput ==
  /\ mpc = "input"
  /\ Idle
  /\ \/ mpc' = "check" /\ UNCHANGED <<stack, acts>>
     \/ /\ Act
        /\ mpc' \in {"check", "checkbusy"}
        /\ \E o \in Objs : Alive(o) /\ Call(Body(o))
  /\ UNCHANGED <<methodlist, calls, threadvars, refs, held, sigE, sigT, history>>

\* The two methodstack_check(FALSE) of doloop.
LoopCheck ==
  /\ Idle
  /\ \/ mpc = "check" /\ mpc' = "wait"
     \/ mpc = "checkbusy" /\ mpc' = "recheck"
     \/ mpc = "recheck" /\ mpc' = "input"
  /\ Call(Check(FALSE))
  /\ UNCHANGED <<methodlist, calls, threadvars, refs, held, sigE, sigT, acts,
                 history>>

\* Wait() returns with the signals it was sent, all cleared; input can wake
\* it as well.
WaitSignals ==
  /\ mpc = "wait"
  /\ Idle
  /\ \/ (sigE \/ sigT) /\ UNCHANGED acts
     \/ Act
  /\ mpc' = IF sigT THEN "handle" ELSE "recheck"
  /\ sigE' = FALSE
  /\ sigT' = FALSE
  /\ UNCHANGED <<methodlist, calls, threadvars, refs, held, stack, history>>

\* threads_handle: one message off threadport; MM_Thread_Finished is pushed
\* synchronously by the main task itself.
HandleThread(t) ==
  /\ mpc = "handle"
  /\ Idle
  /\ t \in port
  /\ port' = port \ {t}
  /\ stack' = <<Finishing(t), Sync(jobobj[t]), Check(TRUE)>>
  /\ UNCHANGED <<methodlist, calls, tpc, reply, jobobj, refs, held, mpc, sigE,
                 sigT, acts, history>>

HandleReleases ==
  /\ ~Idle
  /\ Top.k = "finish"
  /\ Release(jobobj[Top.t])
  /\ tpc' = [tpc EXCEPT ![Top.t] = "gone"]
  /\ Leave
  /\ UNCHANGED <<methodlist, calls, reply, jobobj, held, mpc, sigE, sigT, port,
                 acts, history>>

HandleEnds ==
  /\ mpc = "handle"
  /\ Idle
  /\ port = {}
  /\ mpc' = "recheck"
  /\ UNCHANGED <<methodlist, calls, threadvars, refs, held, stack, sigE, sigT,
                 acts, history>>

-----------------------------------------------------------------------------
(* methodstack_check and the methods it runs.                              *)

\* Mutant of Dispatch: the NULL object is called like any other.
DispatchAlways(pm) ==
  Append(Append(Front(stack), [Top EXCEPT !.pm = pm]), Body(pm.obj))

\* DoMethodA. When methodstack_kill_methods has taken the object out, a
\* synchronous method is skipped; an asynchronous one is sent to NULL, where
\* amiga.lib's DoMethodA returns 0 (as it does for OM_RELEASE).
Dispatch(pm) ==
  LET frames == Append(Front(stack), [Top EXCEPT !.pm = pm])
  IN  IF pm.obj = NULL THEN frames ELSE Append(frames, Body(pm.obj))

CheckPop ==
  /\ ~Idle
  /\ Top.k = "check"
  /\ Top.pm = NULL
  /\ methodlist # <<>>
  /\ LET pm == Head(methodlist)
     IN  /\ stack' = Dispatch(pm)
         /\ started' = [started EXCEPT ![pm.from] = pm.n]
  /\ methodlist' = Tail(methodlist)
  /\ UNCHANGED <<calls, threadvars, refs, held, mpc, sigE, sigT, acts, finished>>

\* REMHEAD found nothing: isempty is TRUE and no signal is sent.
CheckEmpty ==
  /\ ~Idle
  /\ Top.k = "check"
  /\ Top.pm = NULL
  /\ methodlist = <<>>
  /\ Leave
  /\ UNCHANGED <<methodlist, calls, threadvars, refs, held, mpc, sigE, sigT,
                 acts, history>>

\* Mutant of Answer: ReplyMsg whatever the flags say.
AnswerAll(pm) ==
  [reply EXCEPT ![pm.from] = IF pm.obj = NULL THEN "killed" ELSE "result"]

\* ReplyMsg to the caller of a synchronous method.
Answer(pm) ==
  IF pm.sync
    THEN [reply EXCEPT ![pm.from] = IF pm.obj = NULL THEN "killed" ELSE "result"]
    ELSE reply

\* Mutant of Continue: the break leaves the function before its last lines.
BreakSilently(nobreak) ==
  /\ IF nobreak THEN Replace(Check(TRUE)) ELSE Leave
  /\ UNCHANGED sigE

\* With nobreak the loop goes on. Without, it ends here, and CTRL_E makes
\* doloop come back for the rest.
Continue(nobreak) ==
  IF nobreak THEN Replace(Check(TRUE)) /\ UNCHANGED sigE
             ELSE Leave /\ sigE' = TRUE

\* The method has returned: the object is released, the caller answered.
CheckComplete ==
  /\ ~Idle
  /\ Top.k = "check"
  /\ Top.pm # NULL
  /\ Release(Top.pm.obj)
  /\ reply' = Answer(Top.pm)
  /\ finished' = finished \cup {<<Top.pm.from, Top.pm.n>>}
  /\ Continue(Top.nobreak)
  /\ UNCHANGED <<methodlist, calls, tpc, jobobj, port, held, mpc, sigT, acts,
                 started>>

\* methodstack_push_sync on the main task, after methodstack_check(TRUE):
\* DoMethodA on the object, which has not been retained.
SyncCall ==
  /\ ~Idle
  /\ Top.k = "sync"
  /\ Replace(Body(Top.obj))
  /\ UNCHANGED <<methodlist, calls, threadvars, refs, held, mpc, sigE, sigT,
                 acts, history>>

InMethod == ~Idle /\ Top.k = "method"

MethodReturns ==
  /\ InMethod
  /\ Leave
  /\ UNCHANGED <<methodlist, calls, threadvars, refs, held, mpc, sigE, sigT,
                 acts, history>>

MethodPushes(o) ==
  /\ InMethod
  /\ Act
  /\ Alive(o)
  /\ Enqueue(Main, o, FALSE)
  /\ Retain(o)
  /\ UNCHANGED <<threadvars, held, mpc, stack, sigE, sigT, history>>

MethodPushesSync(o) ==
  /\ InMethod
  /\ Act
  /\ Alive(o)
  /\ Len(stack) + 2 <= MaxDepth
  /\ stack' = stack \o <<Sync(o), Check(TRUE)>>
  /\ UNCHANGED <<methodlist, calls, threadvars, refs, held, mpc, sigE, sigT,
                 history>>

\* The owner gives up its reference (MUI_DisposeObject, OM_RELEASE).
MethodDisposes(o) ==
  /\ InMethod
  /\ Act
  /\ held[o]
  /\ held' = [held EXCEPT ![o] = FALSE]
  /\ Release(o)
  /\ UNCHANGED <<methodlist, calls, threadvars, mpc, stack, sigE, sigT, history>>

Pending(o) == {i \in DOMAIN methodlist : methodlist[i].obj = o}

Forget(o) == [i \in DOMAIN methodlist |->
                IF methodlist[i].obj = o
                  THEN [methodlist[i] EXCEPT !.obj = NULL]
                  ELSE methodlist[i]]

\* Mutant of Kill: no OM_RELEASE for the methods whose object it takes out.
KillKeepsReferences(o) ==
  /\ methodlist' = Forget(o)
  /\ UNCHANGED refs

\* methodstack_kill_methods
Kill(o) ==
  /\ methodlist' = Forget(o)
  /\ refs' = [refs EXCEPT ![o] = @ - Cardinality(Pending(o))]

MethodKills(o) ==
  /\ InMethod
  /\ Act
  /\ held[o]
  /\ Kill(o)
  /\ UNCHANGED <<calls, threadvars, held, mpc, stack, sigE, sigT, history>>

\* doloop ends once MM_Application_Cleanup finds the list of threads empty.
Quit ==
  /\ mpc = "wait"
  /\ Idle
  /\ \A t \in Pool : tpc[t] = "gone"
  /\ mpc' = "exit"
  /\ Kill(App)
  /\ UNCHANGED <<calls, threadvars, held, stack, sigE, sigT, acts, history>>

MainNext ==
  \/ NewInput \/ LoopCheck \/ WaitSignals \/ HandleReleases \/ HandleEnds
  \/ CheckPop \/ CheckEmpty \/ CheckComplete \/ SyncCall \/ MethodReturns
  \/ \E t \in Pool : HandleThread(t)

MethodNext ==
  \E o \in Objs :
    MethodPushes(o) \/ MethodPushesSync(o) \/ MethodDisposes(o) \/ MethodKills(o)

Next ==
  \/ \E t \in Threads : ThreadNext(t)
  \/ MainNext
  \/ MethodNext
  \/ Quit

\* The main task and the threads are never kept from running by others:
\* exec's scheduler runs every ready task, methods and jobs end.
Fairness == WF_vars(MainNext) /\ \A t \in Threads : WF_vars(ThreadNext(t))

Spec == Init /\ [][Next]_vars /\ Fairness

-----------------------------------------------------------------------------
(* Properties.                                                             *)

\* The calls methodstack_check has taken off the list and not completed.
InFlight == {i \in DOMAIN stack : stack[i].k = "check" /\ stack[i].pm # NULL}

Waiting(t) == tpc[t] \in {"signal", "wait"}

\* methodlist holds, of every caller, exactly the calls not yet taken up, in
\* the order the caller made them: no interleaving of the pushers, no nested
\* methodstack_check and no methodstack_kill_methods loses, repeats or
\* reorders a call.
InOrder ==
  /\ \A i, j \in DOMAIN methodlist :
       i < j /\ methodlist[i].from = methodlist[j].from
         => methodlist[i].n < methodlist[j].n
  /\ \A i \in DOMAIN methodlist :
       LET pm == methodlist[i]
       IN  started[pm.from] < pm.n /\ pm.n <= calls[pm.from]
  /\ \A c \in Callers : started[c] <= calls[c]
  /\ \A c \in Callers : \A n \in (started[c] + 1)..calls[c] :
       \E i \in DOMAIN methodlist :
         methodlist[i].from = c /\ methodlist[i].n = n

\* A thread of the pool in methodstack_push_sync has its call in exactly one place: on
\* the list, in a methodstack_check of the main task, or answered; every
\* other thread has none. So WaitPort never waits for a call that is gone,
\* and no reply arrives that nobody waits for.
OneReplyPerCall ==
  \A t \in Pool :
    Cardinality({i \in DOMAIN methodlist :
                   methodlist[i].from = t /\ methodlist[i].sync})
    + Cardinality({i \in InFlight : stack[i].pm.from = t /\ stack[i].pm.sync})
    + (IF reply[t] # NULL THEN 1 ELSE 0)
      = (IF Waiting(t) THEN 1 ELSE 0)

\* The references on an object are those of its owner, of the jobs that work
\* for it, of the methods pushed to it and of the pushes under way: a pushed
\* method keeps its object until it has run, and neither running it nor
\* methodstack_kill_methods releases the object twice or never.
RefBalance ==
  \A o \in Objs :
    refs[o] = (IF held[o] THEN 1 ELSE 0)
      + Cardinality({t \in Pool : jobobj[t] = o /\ tpc[t] # "gone"})
      + Cardinality({t \in Threads : jobobj[t] = o /\ tpc[t] = "link"})
      + Cardinality(Pending(o))
      + Cardinality({i \in InFlight : stack[i].pm.obj = o})

\* The main task does not go to sleep over work it was told of: while it is
\* in Wait() with no signal pending, what is on methodlist comes from
\* threads that will still signal it (CTRL_E, or the end of their job, which
\* a thread that sleeps may put off: see PromptsOpen).
NoWakeupLost ==
  mpc = "wait" /\ Idle /\ ~sigE /\ ~sigT =>
    \A i \in DOMAIN methodlist :
      LET pm == methodlist[i]
      IN  /\ pm.from # Main
          /\ tpc[pm.from] \in {"run", "link", "signal", "asleep"}
          /\ pm.sync => tpc[pm.from] = "signal"

\* An alien task that called methodstack_push_sync_safe ("Pushes a method
\* synchronously") gets its result, as a thread does, unless Ambient quits. (The code does
\* not keep this; see README.md.)
AlienCallsReturn ==
  \A t \in Aliens : Waiting(t) ~> tpc[t] = "run" \/ mpc = "exit"

\* "Pushes a method asynchronously just like MUI" (methodstack_push): it is
\* carried out whatever its caller does next, sleeping included. (The code
\* does not keep this; see README.md.)
PromptsOpen ==
  \A t \in Pool :
    tpc[t] = "asleep" ~> tpc[t] # "asleep" \/ mpc = "exit"

\* "Completes all the waiting methods in the stack before ourself. Can be
\* used to synchronise previous pushmethods" (methodstack_push_sync): when
\* the reply arrives, everything the thread pushed earlier has been done.
\* (The code does not keep this; see README.md.)
EarlierPushesDone ==
  \A t \in Threads : reply[t] = "result" =>
    \A n \in 1..calls[t] : <<t, n>> \in finished

\* The method stack is an implementation of the service it promises.
Service == INSTANCE CallService WITH
  issued <- calls,
  blocked <- [c \in Callers |->
                IF c # Main /\ c \in DOMAIN tpc
                  THEN IF Waiting(c) THEN calls[c] ELSE 0
                  ELSE 0],
  open <- mpc # "exit"

ServiceSpec == Service!Spec
=============================================================================
