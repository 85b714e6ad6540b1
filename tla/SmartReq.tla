------------------------------ MODULE SmartReq ------------------------------
(***************************************************************************)
(* The requesters: smartreq.c. There is one window for all of them. The    *)
(* threads ask and wait on a message port on their stack until the answer  *)
(* comes (smartreq_request_synca); the main task asks and is called back   *)
(* by a method (smartreq_request). The requests queue up in the window's   *)
(* object, which shows one at a time and answers it when a button is       *)
(* pressed. For a file that would be replaced the window has a thread      *)
(* compare the two files, and puts off the answer until that has ended.    *)
(*                                                                         *)
(* A request is known by who asks; a thread asks one at a time, and so     *)
(* does the main task here. The semaphore of the window's creation, the    *)
(* queue of the method stack and that of the pressed buttons, the blocking *)
(* PutMsg and WaitPort of an answer are all there, and so is the window    *)
(* that does not open, of which MM_SmartReq_Enqueue says that "there's     *)
(* little we can do, wait the next request".                               *)
(*                                                                         *)
(* Two variables only remember what has happened, for the properties:      *)
(* lost, and hasty.                                                        *)
(***************************************************************************)
EXTENDS Naturals, Sequences, FiniteSets

CONSTANTS
  Threads,     \* the threads that ask
  Replaces,    \* those whose request compares two files
  Main,        \* the main task, when it asks
  NULL,
  Failures,    \* what may fail: "create", "memory", "action", "open"
  MainEarly,   \* TRUE: the main task may ask while a thread waits for the window
  MaxAsks,     \* bound: requests of each
  MaxPresses   \* bound: presses on one requester that MUI has queued

Clients == Threads \cup {Main}

ASSUME ConstantsAssumption ==
  /\ Main \notin Threads /\ NULL \notin Clients
  /\ Replaces \subseteq Threads
  /\ Failures \subseteq {"create", "memory", "action", "open"}
  /\ MainEarly \in BOOLEAN
  /\ MaxAsks \in Nat /\ MaxPresses \in Nat

VARIABLES
  reqsem,     \* who holds the semaphore, or NULL
  reqobj,     \* the window's object has been created
  client,     \* where each client is, see States
  asks,       \* counter for the bound
  pushed,     \* the method stack: MM_Application_CreateSmartReq, MM_SmartReq_Enqueue
  reqlist,    \* data->reqlist
  shown,      \* the request in the open window, or NULL
  counter,    \* data->counter
  presses,    \* MM_SmartReq_Pressed, as MUI has queued them
  pressed,    \* counter for the bound: presses on the requester that is shown
  running,    \* data->thread_running
  examining,  \* the requests whose files are compared, each with its counter
  ended,      \* comparisons that have ended, whose MM_Thread_Finished is to come
  postponed,  \* data->eventpacket, or NULL; the window sleeps
  main,       \* what the main task is blocked in
  lost,       \* whose request was freed, and the window did not open for it
  hasty       \* a second press was made where the code does not cope with it

asking == <<reqsem, reqobj, asks>>
window == <<reqlist, shown, counter, pressed, lost, hasty>>
examiner == <<running, examining, ended>>
vars == <<asking, client, pushed, window, presses, examiner, postponed, main>>

\* Not asking; waiting for the window to be created; told that it is, or that
\* it is not; waiting for the answer; the answer is at the port.
States == {"idle", "creating", "created", "refused", "waiting", "answered"}
Packet == [of : Clients, counter : Nat]
Call == [do : {"create", "enqueue"}, of : Clients]

TypeOK ==
  /\ reqsem \in Clients \cup {NULL} /\ reqobj \in BOOLEAN
  /\ \A t \in Threads :
       reqsem = t <=> client[t] \in {"creating", "created", "refused"}
  /\ client \in [Clients -> States] /\ asks \in [Clients -> 0..MaxAsks]
  /\ pushed \in Seq(Call) /\ reqlist \in Seq(Clients)
  /\ shown \in Clients \cup {NULL} /\ counter \in Nat
  /\ presses \in Seq(Packet) /\ pressed \in 0..MaxPresses
  /\ running \in BOOLEAN /\ examining \subseteq Packet /\ ended \in Nat
  /\ postponed \in Packet \cup {NULL}
  /\ main \in {"free", "semaphore", "reply", "change", "dead"}
  /\ lost \subseteq Clients /\ hasty \in BOOLEAN

Init ==
  /\ reqsem = NULL /\ reqobj = FALSE
  /\ client = [c \in Clients |-> "idle"] /\ asks = [c \in Clients |-> 0]
  /\ pushed = <<>> /\ reqlist = <<>>
  /\ shown = NULL /\ counter = 0
  /\ presses = <<>> /\ pressed = 0
  /\ running = FALSE /\ examining = {} /\ ended = 0 /\ postponed = NULL
  /\ main = "free"
  /\ lost = {} /\ hasty = FALSE

Fails(what) == what \in Failures
Set(c, state) == client' = [client EXCEPT ![c] = state]

-----------------------------------------------------------------------------
(* Asking: smartreq_requesta.                                              *)

\* The request is built and pushed, or there is no memory for it.
PushRequest(c) ==
  \/ /\ pushed' = Append(pushed, [do |-> "enqueue", of |-> c])
     /\ Set(c, "waiting")
  \/ Fails("memory") /\ Set(c, "idle") /\ UNCHANGED pushed

Counted(c) == asks[c] < MaxAsks /\ asks' = [asks EXCEPT ![c] = @ + 1]

Ask(c) ==
  /\ client[c] = "idle" /\ Counted(c)
  /\ reqsem = NULL /\ reqobj
  /\ PushRequest(c)
  /\ UNCHANGED <<reqsem, reqobj, window, presses, examiner, postponed, main>>

\* The first one creates the window, through the main task, and keeps the
\* semaphore meanwhile.
AskFirst(t) ==
  /\ t \in Threads
  /\ client[t] = "idle" /\ Counted(t)
  /\ reqsem = NULL /\ ~reqobj
  /\ reqsem' = t
  /\ Set(t, "creating")
  /\ pushed' = Append(pushed, [do |-> "create", of |-> t])
  /\ UNCHANGED <<reqobj, window, presses, examiner, postponed, main>>

AskCreated(t) ==
  /\ client[t] = "created"
  /\ reqobj' = TRUE /\ reqsem' = NULL
  /\ PushRequest(t)
  /\ UNCHANGED <<asks, window, presses, examiner, postponed, main>>

\* Mutant of AskRefused: the semaphore is not released on the way out.
AskRefusedHolds(t) ==
  /\ client[t] = "refused"
  /\ reqsem' = reqsem
  /\ Set(t, "idle")
  /\ UNCHANGED <<asks, reqobj, pushed, window, presses, examiner, postponed, main>>

AskRefused(t) ==
  /\ client[t] = "refused"
  /\ reqsem' = NULL
  /\ Set(t, "idle")
  /\ UNCHANGED <<asks, reqobj, pushed, window, presses, examiner, postponed, main>>

\* On the main task the call that creates the window is a plain call. It
\* may find the semaphore taken.
MainAsks ==
  /\ main = "free" /\ (MainEarly \/ \A t \in Threads : client[t] \notin {"creating", "refused"})
  /\ \/ Ask(Main)
     \/ /\ client[Main] = "idle" /\ Counted(Main)
        /\ reqsem = NULL /\ ~reqobj
        /\ \/ reqobj' = TRUE /\ PushRequest(Main)
           \/ Fails("create") /\ UNCHANGED <<reqobj, client, pushed>>
        /\ UNCHANGED <<reqsem, window, presses, examiner, postponed, main>>
     \/ /\ client[Main] = "idle" /\ Counted(Main)
        /\ reqsem # NULL
        /\ main' = "semaphore"
        /\ UNCHANGED <<reqsem, reqobj, client, pushed, window, presses, examiner, postponed>>

MainGetsSemaphore ==
  /\ main = "semaphore" /\ reqsem = NULL
  /\ main' = "free"
  /\ \/ reqobj /\ PushRequest(Main) /\ UNCHANGED reqobj
     \/ ~reqobj /\ reqobj' = TRUE /\ PushRequest(Main)
     \/ ~reqobj /\ Fails("create") /\ UNCHANGED <<reqobj, client, pushed>>
  /\ UNCHANGED <<reqsem, asks, window, presses, examiner, postponed>>

-----------------------------------------------------------------------------
(* The window: methods on the main task.                                   *)

\* The thread that compares two files is started, when the request has any.
Examine(c) ==
  \/ /\ c \in Replaces
     /\ running' = TRUE
     /\ examining' = examining \cup {[of |-> c, counter |-> counter + 1]}
     /\ UNCHANGED ended
  \/ (c \in Replaces => Fails("action")) /\ UNCHANGED examiner

\* The window opens for the request, or it does not: the request is freed
\* already and nobody will answer it.
Open(c) ==
  \/ shown' = c /\ UNCHANGED <<lost, hasty>>
  \/ /\ Fails("open") /\ shown' = NULL
     /\ lost' = lost \cup {c}
     /\ hasty' = (hasty \/ presses # <<>>)

\* Mutant of Change: the first request stays in the list.
ChangeKeeps(list) ==
  IF list = <<>>
    THEN /\ shown' = NULL
         /\ UNCHANGED <<reqlist, counter, pressed, lost, hasty, examiner>>
    ELSE /\ reqlist' = list
         /\ counter' = counter + 1 /\ pressed' = 0
         /\ Examine(Head(list)) /\ Open(Head(list))

\* MM_SmartReq_Change: the next request, or a closed window. The request
\* counts as shown even when it was the last: it keeps the counter.
Change(list) ==
  IF list = <<>>
    THEN /\ shown' = NULL /\ reqlist' = <<>>
         /\ UNCHANGED <<counter, pressed, lost, hasty, examiner>>
    ELSE /\ reqlist' = Tail(list)
         /\ counter' = counter + 1 /\ pressed' = 0
         /\ Examine(Head(list)) /\ Open(Head(list))

Create ==
  /\ main = "free" /\ pushed # <<>> /\ Head(pushed).do = "create"
  /\ pushed' = Tail(pushed)
  /\ \/ Set(Head(pushed).of, "created")
     \/ Fails("create") /\ Set(Head(pushed).of, "refused")
  /\ UNCHANGED <<asking, window, presses, examiner, postponed, main>>

\* MM_SmartReq_Enqueue. When the window has not opened it is left like that.
Enqueue ==
  /\ main = "free" /\ pushed # <<>> /\ Head(pushed).do = "enqueue"
  /\ pushed' = Tail(pushed)
  /\ LET list == Append(reqlist, Head(pushed).of)
     IN \/ shown = NULL /\ Change(list)
        \/ shown # NULL /\ reqlist' = list
           /\ UNCHANGED <<shown, counter, pressed, lost, hasty, examiner>>
  /\ UNCHANGED <<asking, client, presses, postponed, main>>

\* One who presses twice does no harm when the next requester comes without
\* a comparison: the second press is dropped then, by its counter.
Harmless == reqlist # <<>> /\ Head(reqlist) \notin Replaces

\* The user presses a button; MUI queues the method. A window that sleeps
\* gets no input, and the main task reads none while it is blocked.
Press ==
  /\ main = "free" /\ shown # NULL /\ postponed = NULL /\ pressed < MaxPresses
  /\ pressed' = pressed + 1
  /\ presses' = Append(presses, [of |-> shown, counter |-> counter])
  /\ hasty' = (hasty \/ (pressed > 0 /\ ~Harmless))
  /\ UNCHANGED <<asking, client, pushed, reqlist, shown, counter, lost, examiner, postponed, main>>

\* execute_packet: the thread's port gets the answer, and the main task waits
\* for the thread to take it. At a port whose thread has gone nobody does.
\* The main task is called back and the window changes at once.
Execute(p) ==
  \/ /\ p.of \in Threads /\ client[p.of] = "waiting"
     /\ Set(p.of, "answered") /\ main' = "reply"
     /\ UNCHANGED window
  \/ /\ p.of \in Threads /\ client[p.of] # "waiting"
     /\ main' = "dead"
     /\ UNCHANGED <<client, window>>
  \/ /\ p.of = Main
     /\ Set(Main, "idle")
     /\ main' = "change"
     /\ UNCHANGED window

\* The rest of execute_packet
ChangeNext ==
  /\ main = "change"
  /\ main' = "free"
  /\ Change(reqlist)
  /\ UNCHANGED <<asking, client, pushed, presses, postponed>>

\* Mutant of Matches: a press on an earlier requester counts.
MatchesAny(p) == TRUE

Matches(p) == p.counter = counter

\* Mutant of MustWait: the answer does not wait for the thread.
NeverWaits == FALSE

MustWait == running

\* MM_SmartReq_Pressed. It has the thread aborted and waits for its end,
\* whatever requester was pressed.
Pressed ==
  /\ main = "free" /\ presses # <<>>
  /\ presses' = Tail(presses)
  /\ \/ /\ MustWait
        /\ postponed' = Head(presses)
        /\ UNCHANGED <<client, window, main>>
     \/ /\ ~MustWait /\ Matches(Head(presses))
        /\ Execute(Head(presses)) /\ UNCHANGED postponed
     \/ /\ ~MustWait /\ ~Matches(Head(presses))
        /\ UNCHANGED <<client, window, postponed, main>>
  /\ UNCHANGED <<asking, pushed, examiner>>

\* The thread has compared the files, or has seen that it is aborted.
ExamineEnds ==
  /\ \E e \in examining : examining' = examining \ {e}
  /\ ended' = ended + 1
  /\ UNCHANGED <<asking, client, pushed, window, presses, running, postponed, main>>

\* Mutant of Resumed: the packet that was put off is lost.
NotResumed == UNCHANGED <<client, window, main>>

Resumed ==
  IF postponed # NULL THEN Execute(postponed)
  ELSE UNCHANGED <<client, window, main>>

\* MM_Thread_Finished, of any comparison.
ThreadFinished ==
  /\ main = "free" /\ ended > 0
  /\ ended' = ended - 1
  /\ running' = FALSE
  /\ postponed' = NULL
  /\ Resumed
  /\ UNCHANGED <<asking, pushed, presses, examining>>

\* The thread takes its answer and replies, the main task goes on.
TakeAnswer(t) ==
  /\ client[t] = "answered"
  /\ Set(t, "idle")
  /\ main' = "change"
  /\ UNCHANGED <<asking, pushed, window, presses, examiner, postponed>>

-----------------------------------------------------------------------------
MainTask ==
  \/ Create \/ Enqueue \/ Pressed \/ ThreadFinished \/ ChangeNext \/ MainGetsSemaphore

Thread(t) == AskFirst(t) \/ AskCreated(t) \/ AskRefused(t) \/ TakeAnswer(t)

Next ==
  \/ MainTask \/ MainAsks \/ Press \/ ExamineEnds
  \/ \E t \in Threads : Thread(t) \/ Ask(t)

\* The main loop serves its queues, a thread goes on when it may, the user
\* presses a button of what he is asked, if only once.
Fairness ==
  /\ WF_vars(Create) /\ WF_vars(Enqueue) /\ WF_vars(Pressed) /\ WF_vars(ThreadFinished)
  /\ WF_vars(ChangeNext) /\ WF_vars(MainGetsSemaphore)
  /\ WF_vars(Press /\ pressed = 0) /\ WF_vars(ExamineEnds)
  /\ \A t \in Threads : WF_vars(AskCreated(t) \/ AskRefused(t) \/ TakeAnswer(t))

Spec == Init /\ [][Next]_vars /\ Fairness

-----------------------------------------------------------------------------
Calls == {pushed[i] : i \in DOMAIN pushed}

\* A request that waits is in one place, and only one: on its way to the
\* window, in its list, or on display; unless the window did not open for it,
\* and then it is nowhere. Each place takes it from the one before without a
\* lock, with methods that may be called while others are put off. A second
\* press that is taken for an answer (hasty) makes it wrong.
EachTracked ==
  ~hasty => \A c \in Clients : client[c] = "waiting" =>
    (IF \E k \in Calls : k.do = "enqueue" /\ k.of = c THEN 1 ELSE 0)
      + Cardinality({i \in DOMAIN reqlist : reqlist[i] = c})
      + (IF shown = c /\ main # "change" THEN 1 ELSE 0)
    = IF c \in lost THEN 0 ELSE 1

\* The answers that arrive are those of the requester on display: presses on
\* an earlier one that come late answer neither the next request nor a thread
\* that has gone. It holds when a requester is pressed again only while the
\* next one waits in the list and has no files to compare, and opens (~hasty):
\* the second press is queued behind the first and dropped by its counter.
\* Otherwise the code has no guard: the counter of the last requester stays
\* after it, and a press that is put off is not compared again.
AnswersShown ==
  ~hasty =>
    /\ main # "dead"
    /\ \A t \in Threads : client[t] = "answered" => t = shown

\* The thread that compares the files works on the paths and the texts of the
\* requester on display, and only as long as its thread waits: the window does
\* not change under it. It does when the window did not open for a request
\* with files, whose comparison goes on, and it may after a second press.
ExaminesShown ==
  ~hasty /\ lost \cap Replaces = {} =>
    \A e \in examining :
      e = [of |-> shown, counter |-> counter] /\ client[e.of] = "waiting"

\* The window is closed and the request waits in its list: it did not open
\* for the one before, and only another request makes it try again.
Stranded(c) == shown = NULL /\ \E i \in DOMAIN reqlist : reqlist[i] = c

\* Whoever asks gets an answer: his request gets to the window, is shown in
\* its turn, and its answer gets through though it may be put off until the
\* files are compared. Three things keep him waiting for ever: the window did
\* not open for his request, it did not open for the one before and nobody
\* asks any more, or a second press has gone wrong.
EachAnswered ==
  \A c \in Clients :
    \/ client[c] \in {"creating", "waiting"} ~> client[c] = "idle"
    \/ <>[](c \in lost \/ Stranded(c) \/ hasty)

\* smartreq.c:723 "We don't use a method so that we have the convenience of
\* varargs. [...] Can be called from another task." It can, if the main task
\* does not ask at the same time.
CallableFromTasks == EachAnswered

\* AnswersShown without its condition on second presses.
AnswersShownAlways ==
  main # "dead" /\ \A t \in Threads : client[t] = "answered" => t = shown

=============================================================================
