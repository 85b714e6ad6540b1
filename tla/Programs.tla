------------------------------ MODULE Programs ------------------------------
(***************************************************************************)
(* Starting programs (wbstart.c, wbstartlib.c) and the messages other      *)
(* programs send to Ambient for it (ipc.c, wblib/private.c,                *)
(* wblib/control.c).                                                       *)
(*                                                                         *)
(* A thread of Ambient, or another program through wbstart.opencnt, runs   *)
(* v_wbstart: it counts the start, asks for the properties of the icon,    *)
(* fills a struct wbrun with locks and names, and sends that to a new      *)
(* process as its startup message, which comes back to wbstartport when    *)
(* the program ends. Another program gets the properties by a message to   *)
(* the port "Ambient IPC", which Ambient has a thread answer. The counter  *)
(* is changed by all these tasks without a lock. When the user quits,      *)
(* Ambient looks at it, and at who has the library open, before it ends.   *)
(***************************************************************************)
EXTENDS Integers, Sequences, FiniteSets

CONSTANTS
  Threads,      \* threads of Ambient that carry out TA_WBStart
  Clients,      \* tasks of other programs
  Names,        \* how programs are named: "path", "plain" (without a path)
  Icons,        \* the icons there are: their type and default tool
  Failures,     \* what may fail: "memory", "name", "lock", "process", "thread"
  NULL,         \* no lock
  Garbage,      \* what malloc left in a field
  MaxStarts,    \* bound: starts and questions of each task
  MaxArgs,      \* bound: arguments of a start
  CanQuit       \* TRUE: the user may quit

Tasks == Threads \cup Clients
Starts == Tasks \X (1..MaxStarts)
Types == {"tool", "project", "cli", "rexx"}

ASSUME ConstantsAssumption ==
  /\ Threads \cap Clients = {}
  /\ Names \subseteq {"path", "plain"}
  /\ Icons \subseteq [type : Types, tool : {"none", "path", "plain"}]
  /\ Failures \subseteq {"memory", "name", "lock", "process", "thread"}
  /\ NULL \notin Nat /\ Garbage \notin Nat \cup {NULL}
  /\ IsFiniteSet(Clients)
  /\ MaxStarts \in Nat /\ MaxArgs \in Nat /\ CanQuit \in BOOLEAN

VARIABLES
  running_wbproc, \* ULONG, below zero where it has wrapped
  reg,          \* reg[t]: the value t is about to change it from, or 0
  pc,           \* pc[t]: where t is in v_wbstart
  starts,       \* starts[t]: how often t has started or asked so far
  icon,         \* icon[t]: what the question for the icon's properties gave
  run,          \* run[s]: the struct wbrun of the start s
  memory,       \* the starts whose struct wbrun is allocated
  programs,     \* the starts whose program runs
  wbstartport,  \* the startup messages that came back
  ipcport,      \* the messages to "Ambient IPC"
  propjobs,     \* the clients whose TA_Icon_GetProperties a thread has
  msgreply,     \* of ipc_handle, TRUE while the main task is not in it
  opencnt,      \* lib_OpenCnt of wbstart.library
  mpc,          \* where the main task is
  quitting,     \* threads_finish has been called
  stray         \* the port of an answer or of a startup message was gone

counter == <<running_wbproc, reg>>
wbruns == <<run, memory, programs, wbstartport>>
ipc == <<ipcport, propjobs, msgreply>>
main == <<mpc, quitting>>
vars == <<counter, pc, starts, icon, wbruns, ipc, opencnt, main, stray>>

\* Not in v_wbstart; a job given to the thread; counting up; allocating;
\* asking for the icon's properties (by a message: "put", "props"); filling
\* the struct; running a command ("count", "copy", "command"); making a
\* process; giving up
\* ("free"); counting down; returning. "plain" is the wait for an answer of
\* another kind, "lost" that for one that will never come.
Places == {"idle", "job", "up", "up2", "new", "icon", "put", "props", "load",
           "count", "count2", "copy", "command", "process", "free",
           "down", "down2", "return", "plain", "lost"}
\* In doloop; counting down in wbstart_handle; in ipc_handle; between the two
\* checks of init_preclose; in init_close.
MainPlaces == {"loop", "down", "down2", "ipc", "preclose",
               "closelib", "closeipc", "closestart", "gone"}

\* In v_wbstart with a struct wbrun.
Building == {"icon", "put", "props", "lost", "load", "count", "count2",
             "copy", "command", "process", "free"}

PortOpen == mpc \notin {"closestart", "gone"}       \* "Ambient IPC"
StartportOpen == mpc # "gone"

-----------------------------------------------------------------------------
(* The struct wbrun. arg are the elements of sm_ArgList written so far, by *)
(* their locks, num is numarg_copy; held are the locks taken for it.       *)

LockIds == 1..(MaxArgs + 5)
Wbrun == [arg : Seq(LockIds \cup {NULL, Garbage}), num : Nat,
          home : LockIds \cup {NULL, Garbage}, free : BOOLEAN,
          seg : BOOLEAN, type : {"WB", "TOOLCLI", "SCRIPT", "REXX"},
          held : SUBSET LockIds]

NewWbrun == [arg |-> <<>>, num |-> 0, home |-> Garbage, free |-> FALSE,
             seg |-> FALSE, type |-> "WB", held |-> {}]

\* A function that fills w returns a value and leaves some w: its results.
Ok(w) == [w |-> w, ok |-> TRUE]
Failed(w) == [w |-> w, ok |-> FALSE]
Then(results, Op(_)) ==
  UNION {IF r.ok THEN Op(r.w) ELSE {r} : r \in results}

Fresh(w) == Cardinality(w.held) + 1

\* w with one more argument, which is counted.
WithArg(w, lock) ==
  [w EXCEPT !.arg = Append(@, lock), !.num = @ + 1,
            !.held = @ \cup ({lock} \ {NULL})]

\* fill_current_arg_x. The element is used up, but not counted, when there is
\* no memory for the name; a lock that has no parent is kept, for a failure.
FillArg(w, name) ==
  {Ok(WithArg(w, Fresh(w)))}
  \cup {Failed(WithArg(w, l)) :
          l \in IF "lock" \in Failures
                  THEN {NULL} \cup (IF name = "path" THEN {Fresh(w)} ELSE {})
                  ELSE {}}
  \cup {Failed([w EXCEPT !.arg = Append(@, Garbage)]) :
          f \in Failures \cap {"name"}}

\* scanloadpath: the home directory in the path, when there is one.
ScanLoadPath(w) ==
  {[w |-> w, lock |-> NULL],
   [w |-> [w EXCEPT !.held = @ \cup {Fresh(w)}], lock |-> Fresh(w)]}

HomeIsFirst(w) == [w EXCEPT !.home = w.arg[1]]
WithHome(s) == [s.w EXCEPT !.home = s.lock, !.free = @ \/ s.lock # NULL]

\* Mutant of FillCli: the lock of the first argument is taken for one of its
\* own.
FillCliOwned(w, name) ==
  Then(FillArg(w, name),
       LAMBDA v : IF name = "path"
                    THEN {Ok([HomeIsFirst(v) EXCEPT !.free = TRUE])}
                    ELSE {Ok(WithHome(s)) : s \in ScanLoadPath(v)})

\* wbr_fillcli, wbr_fillscript
FillCli(w, name) ==
  Then(FillArg(w, name),
       LAMBDA v : IF name = "path"
                    THEN {Ok(HomeIsFirst(v))}
                    ELSE {Ok(WithHome(s)) : s \in ScanLoadPath(v)})

\* wbr_fillcli_tool, of a tool with a path, which may not exist.
FillCliTool(w) ==
  Then(FillArg(w, "path"),
       LAMBDA v : {Ok(WithHome([w |-> [v EXCEPT !.held = @ \cup {Fresh(v)}],
                                lock |-> Fresh(v)])),
                   Failed(v)})

\* The second argument is the tool, which has to be the first.
Swapped(w) == [w EXCEPT !.arg = [@ EXCEPT ![1] = w.arg[2], ![2] = w.arg[1]]]

\* The icon of a project, or of what it says is to be run in a shell, names a
\* tool with a path, one without, or none.
WithTool(w, name, i) ==
  CASE i.tool = "path" /\ i.type = "project" ->
         Then(Then(FillArg(w, "path"), LAMBDA v : FillArg(v, name)),
              LAMBDA v : {Ok([HomeIsFirst(v) EXCEPT !.type = "WB"])})
    [] i.tool = "path" /\ i.type = "cli" ->
         Then(FillCliTool([w EXCEPT !.type = "TOOLCLI"]),
              LAMBDA v : FillArg(v, name))
    [] i.tool = "plain" ->
         Then(Then(IF i.type = "project" THEN FillCli(w, name)
                                         ELSE FillArg(w, name),
                   LAMBDA v : FillArg(v, "plain")),
              LAMBDA v :
                {Ok([IF s.lock = NULL THEN HomeIsFirst(s.w) ELSE WithHome(s)
                     EXCEPT !.type = IF i.type = "project" THEN "WB"
                                                           ELSE "TOOLCLI"]) :
                   s \in ScanLoadPath(Swapped(v))})
    [] OTHER -> FillCli([w EXCEPT !.type = "TOOLCLI"], name)

\* By the icon, by what a file without one is.
ByIcon(w, name, i) ==
  CASE i.type = "tool" ->
         {[r EXCEPT !.w = [HomeIsFirst(r.w) EXCEPT !.type = t]] :
            r \in FillArg(w, name), t \in {"WB", "SCRIPT"}}
    [] i.type \in {"project", "cli"} -> WithTool(w, name, i)
    [] OTHER -> {Failed([w EXCEPT !.type = "REXX"])}

AsCommand(w, name) == FillCli([w EXCEPT !.type = "TOOLCLI"], name)
WithoutIcon(w, name) ==
  AsCommand(w, name)
  \cup (UNION {IF r.ok THEN {r} ELSE AsCommand(r.w, name) :
                 r \in FillCli([w EXCEPT !.type = "SCRIPT"], name)})

\* NewLoadSeg
LoadSeg(w) ==
  IF w.type = "WB" THEN {Ok([w EXCEPT !.seg = TRUE]), Failed(w)} ELSE {Ok(w)}

\* wbload_program
Loaded(name, known) ==
  Then(IF known THEN UNION {ByIcon(NewWbrun, name, i) : i \in Icons}
                ELSE WithoutIcon(NewWbrun, name),
       LoadSeg)

\* copy_arguments: k arguments are copied, and the locks of v of them are none,
\* as that of a volume, or as that of the last one, which could not be made.
Copied(w, k, v) ==
  [w EXCEPT !.arg = @ \o [i \in 1..k |-> IF i \in v THEN NULL ELSE Fresh(w) + i],
            !.num = @ + k,
            !.held = @ \cup {Fresh(w) + i : i \in (1..k) \ v}]

CopyGiven(w, n) ==
  {Ok(Copied(w, n, v)) : v \in SUBSET (1..n)}
  \cup (UNION {{Failed(Copied(w, k, v \cup {k})) : v \in SUBSET (1..k)} :
                 k \in IF "lock" \in Failures THEN 1..n ELSE {}})
  \cup (UNION {{Failed(Copied(w, k, v)) : v \in SUBSET (1..k)} :
                 k \in IF "memory" \in Failures THEN 0..(n - 1) ELSE {}})

CopyArguments(w) == UNION {CopyGiven(w, n) : n \in 0..MaxArgs}

\* What a struct wbrun can be, by whether the icon is known, when a process is
\* to be made or a command to be counted: wbload_program and, for a program
\* that gets a process, copy_arguments.
Prepared ==
  [known \in BOOLEAN |->
     UNION {Then(Loaded(name, known),
                 LAMBDA w : IF w.type = "WB" THEN CopyArguments(w) ELSE {Ok(w)}) :
              name \in Names}]

\* free_wbrun: what it unlocks, by where the lock is kept: in an argument, or
\* (0) in the home directory.
LockAt(w, i) ==
  IF i = 0 THEN w.home ELSE IF i \in DOMAIN w.arg THEN w.arg[i] ELSE Garbage
Unlocked(w) ==
  {i \in 0..w.num : IF i = 0 THEN w.free ELSE LockAt(w, i) # NULL}

-----------------------------------------------------------------------------
TypeOK ==
  /\ running_wbproc \in Int /\ reg \in [Tasks \cup {"main"} -> Int]
  /\ pc \in [Tasks -> Places] /\ starts \in [Tasks -> 0..MaxStarts]
  /\ icon \in [Tasks -> BOOLEAN]
  /\ run \in [Starts -> Wbrun] /\ memory \subseteq Starts
  /\ programs \subseteq Starts /\ wbstartport \in Seq(Starts)
  /\ ipcport \in Seq([of : Clients, type : {"wbstartlib", "path"}])
  /\ propjobs \subseteq Clients /\ msgreply \in BOOLEAN
  /\ opencnt \in 0..Cardinality({c \in Clients : pc[c] \notin {"idle", "plain"}})
  /\ mpc \in MainPlaces /\ quitting \in BOOLEAN /\ stray \in BOOLEAN

\* wbstart_init, ipc_init, wbstartlib_init
Init ==
  /\ running_wbproc = 0 /\ reg = [t \in Tasks \cup {"main"} |-> 0]
  /\ pc = [t \in Tasks |-> "idle"] /\ starts = [t \in Tasks |-> 0]
  /\ icon = [t \in Tasks |-> FALSE]
  /\ run = [s \in Starts |-> NewWbrun] /\ memory = {}
  /\ programs = {} /\ wbstartport = <<>>
  /\ ipcport = <<>> /\ propjobs = {} /\ msgreply = TRUE
  /\ opencnt = 0
  /\ mpc = "loop" /\ quitting = FALSE /\ stray = FALSE

Current(t) == <<t, starts[t]>>
Goto(t, from, to) == pc[t] = from /\ pc' = [pc EXCEPT ![t] = to]

-----------------------------------------------------------------------------
(* Who starts programs.                                                    *)

\* do_action of TA_WBStart
Job(t) ==
  /\ t \in Threads /\ mpc = "loop" /\ ~quitting
  /\ starts[t] < MaxStarts
  /\ Goto(t, "idle", "job")
  /\ starts' = [starts EXCEPT ![t] = @ + 1]
  /\ UNCHANGED <<counter, icon, wbruns, ipc, opencnt, main, stray>>

\* The thread takes its job, or sees first that it is to end.
JobBegins(t) ==
  /\ Goto(t, "job", "up")
  /\ UNCHANGED <<counter, starts, icon, wbruns, ipc, opencnt, main, stray>>

JobRefused(t) ==
  /\ quitting
  /\ Goto(t, "job", "idle")
  /\ UNCHANGED <<counter, starts, icon, wbruns, ipc, opencnt, main, stray>>

\* LIB_Open and LIB_WBStartTagList. What happens in a library whose code is
\* gone is not modelled.
LibCall(c) ==
  /\ c \in Clients
  /\ mpc \in {"loop", "down", "down2", "ipc", "preclose", "closelib"}
  /\ starts[c] < MaxStarts
  /\ Goto(c, "idle", "up")
  /\ starts' = [starts EXCEPT ![c] = @ + 1]
  /\ opencnt' = opencnt + 1
  /\ UNCHANGED <<counter, icon, wbruns, ipc, main, stray>>

\* StartWorkbench, WorkbenchControlA: the port is looked for and used in one
\* Forbid.
AskPath(c) ==
  /\ c \in Clients /\ PortOpen
  /\ starts[c] < MaxStarts
  /\ Goto(c, "idle", "plain")
  /\ starts' = [starts EXCEPT ![c] = @ + 1]
  /\ ipcport' = Append(ipcport, [of |-> c, type |-> "path"])
  /\ UNCHANGED <<counter, icon, wbruns, propjobs, msgreply, opencnt, main, stray>>

\* Mutant of LibClose: only a library that is to be expunged is counted down.
LibCloseLate(c) == IF quitting THEN opencnt - 1 ELSE opencnt

\* LIB_Close
LibClose(c) == IF c \in Clients THEN opencnt - 1 ELSE opencnt

Return(t) ==
  /\ Goto(t, "return", "idle")
  /\ opencnt' = LibClose(t)
  /\ UNCHANGED <<counter, starts, icon, wbruns, ipc, main, stray>>

-----------------------------------------------------------------------------
(* v_wbstart                                                               *)

\* running_wbproc++ and running_wbproc--: a task may lose the processor
\* between the two halves.
Read(t) ==
  /\ reg' = [reg EXCEPT ![t] = running_wbproc]
  /\ UNCHANGED <<running_wbproc, starts, icon, wbruns, ipc, opencnt, main, stray>>
Write(t, n) ==
  /\ running_wbproc' = reg[t] + n
  /\ reg' = [reg EXCEPT ![t] = 0]
  /\ UNCHANGED <<starts, icon, wbruns, ipc, opencnt, main, stray>>

CountUp(t) ==
  \/ Goto(t, "up", "up2") /\ Read(t)
  \/ Goto(t, "up2", "new") /\ Write(t, 1)
CountDown(t) ==
  \/ Goto(t, "down", "down2") /\ Read(t)
  \/ Goto(t, "down2", "return") /\ Write(t, -1)
CountCommandDown(t) ==
  \/ Goto(t, "count", "count2") /\ Read(t)
  \/ Goto(t, "count2", "copy") /\ Write(t, -1)

Allocate(t) ==
  /\ \/ /\ Goto(t, "new", "icon")
        /\ memory' = memory \cup {Current(t)}
     \/ /\ "memory" \in Failures
        /\ Goto(t, "new", "down")
        /\ UNCHANGED memory
  /\ UNCHANGED <<counter, starts, icon, run, programs, wbstartport, ipc,
                 opencnt, main, stray>>

\* There is no icon; or, for a thread, get_icon_properties; or a client does
\* not get to ask.
Properties(t) ==
  /\ Goto(t, "icon", "load")
  /\ \E known \in IF t \in Threads THEN BOOLEAN ELSE {FALSE} :
       icon' = [icon EXCEPT ![t] = known]
  /\ UNCHANGED <<counter, starts, wbruns, ipc, opencnt, main, stray>>

\* ipc_get_icon_properties: "no need to Forbid()" between the search for the
\* port and its use.
FindIpc(c) ==
  /\ c \in Clients /\ PortOpen
  /\ Goto(c, "icon", "put")
  /\ UNCHANGED <<counter, starts, icon, wbruns, ipc, opencnt, main, stray>>

PutIpc(c) ==
  /\ c \in Clients
  /\ \/ /\ PortOpen
        /\ Goto(c, "put", "props")
        /\ ipcport' = Append(ipcport, [of |-> c, type |-> "wbstartlib"])
        /\ UNCHANGED stray
     \/ /\ ~PortOpen
        /\ Goto(c, "put", "lost")
        /\ stray' = TRUE
        /\ UNCHANGED ipcport
  /\ UNCHANGED <<counter, starts, icon, wbruns, propjobs, msgreply, opencnt, main>>

Load(t) ==
  /\ \E r \in Prepared[icon[t]] :
       /\ Goto(t, "load", IF ~r.ok THEN "free"
                          ELSE IF r.w.type = "WB" THEN "process" ELSE "count")
       /\ run' = [run EXCEPT ![Current(t)] = r.w]
  /\ icon' = [icon EXCEPT ![t] = FALSE]
  /\ UNCHANGED <<counter, starts, memory, programs, wbstartport, ipc, opencnt,
                 main, stray>>

\* The arguments of a command; a script gets none.
CopyForCommand(t) ==
  /\ Goto(t, "copy", "command")
  /\ \E r \in IF run[Current(t)].type = "SCRIPT" THEN {Ok(run[Current(t)])}
              ELSE CopyArguments(run[Current(t)]) :
       run' = [run EXCEPT ![Current(t)] = r.w]
  /\ UNCHANGED <<counter, starts, icon, memory, programs, wbstartport, ipc,
                 opencnt, main, stray>>

\* The struct is freed, and with its memory goes what was in it.
Freed(s) ==
  /\ memory' = memory \ {s}
  /\ run' = [run EXCEPT ![s] = NewWbrun]

\* The command is run, or not; a shell has copied what it needs.
Command(t) ==
  /\ Goto(t, "command", "return")
  /\ Freed(Current(t))
  /\ UNCHANGED <<counter, starts, icon, programs, wbstartport, ipc, opencnt,
                 main, stray>>

\* Mutant of Launched: the start goes on as one that failed.
LaunchedFreed == "free"

\* goto done
Launched == "return"

CreateProcess(t) ==
  /\ \/ /\ Goto(t, "process", Launched)
        /\ programs' = programs \cup {Current(t)}
     \/ /\ "process" \in Failures
        /\ Goto(t, "process", "free")
        /\ UNCHANGED programs
  /\ UNCHANGED <<counter, starts, icon, run, memory, wbstartport, ipc, opencnt,
                 main, stray>>

GiveUp(t) ==
  /\ Goto(t, "free", "down")
  /\ Freed(Current(t))
  /\ UNCHANGED <<counter, starts, icon, programs, wbstartport, ipc, opencnt,
                 main, stray>>

\* A program ends: its startup message is replied.
ProgramEnds(s) ==
  /\ s \in programs
  /\ programs' = programs \ {s}
  /\ IF StartportOpen
       THEN wbstartport' = Append(wbstartport, s) /\ UNCHANGED stray
       ELSE stray' = TRUE /\ UNCHANGED wbstartport
  /\ UNCHANGED <<counter, pc, starts, icon, run, memory, ipc, opencnt, main>>

-----------------------------------------------------------------------------
(* The main task.                                                          *)

\* wbstart_handle
StartHandle ==
  \/ /\ mpc = "loop" /\ wbstartport # <<>>
     /\ Freed(Head(wbstartport))
     /\ wbstartport' = Tail(wbstartport)
     /\ mpc' = "down"
     /\ UNCHANGED <<counter, pc, starts, icon, programs, ipc, opencnt,
                    quitting, stray>>
  \/ /\ mpc = "down" /\ mpc' = "down2"
     /\ reg' = [reg EXCEPT !["main"] = running_wbproc]
     /\ UNCHANGED <<running_wbproc, pc, starts, icon, wbruns, ipc, opencnt,
                    quitting, stray>>
  \/ /\ mpc = "down2" /\ mpc' = "loop"
     /\ running_wbproc' = reg["main"] - 1
     /\ reg' = [reg EXCEPT !["main"] = 0]
     /\ UNCHANGED <<pc, starts, icon, wbruns, ipc, opencnt, quitting, stray>>

\* ipc_handle
IpcEnter ==
  /\ mpc = "loop" /\ ipcport # <<>>
  /\ mpc' = "ipc"
  /\ UNCHANGED <<counter, pc, starts, icon, wbruns, ipc, opencnt, quitting, stray>>

\* Replied(c, b): ReplyMsg, with the status b.
Replied(c, b) ==
  /\ pc' = [pc EXCEPT ![c] = IF @ = "plain" THEN "idle" ELSE "load"]
  /\ icon' = [icon EXCEPT ![c] = b /\ pc[c] = "props"]

IpcMessage ==
  /\ mpc = "ipc" /\ ipcport # <<>>
  /\ ipcport' = Tail(ipcport)
  /\ LET c == Head(ipcport).of
     IN \/ /\ Head(ipcport).type = "wbstartlib"
           /\ msgreply' = FALSE
           /\ \/ propjobs' = propjobs \cup {c}
              \/ "thread" \in Failures /\ UNCHANGED propjobs
           /\ UNCHANGED <<pc, icon>>
        \/ /\ Head(ipcport).type = "path"
           /\ IF msgreply THEN Replied(c, FALSE) ELSE UNCHANGED <<pc, icon>>
           /\ UNCHANGED <<propjobs, msgreply>>
  /\ UNCHANGED <<counter, starts, wbruns, opencnt, main, stray>>

IpcLeave ==
  /\ mpc = "ipc" /\ ipcport = <<>>
  /\ mpc' = "loop" /\ msgreply' = TRUE
  /\ UNCHANGED <<counter, pc, starts, icon, wbruns, ipcport, propjobs, opencnt,
                 quitting, stray>>

\* Mutant of PropsAnswer: no answer when the icon cannot be read.
PropsAnswerGood(c, b) ==
  IF b THEN Replied(c, b) ELSE UNCHANGED <<pc, icon>>

PropsAnswer(c, b) == Replied(c, b)

\* A thread carries out TA_Icon_GetProperties.
PropsJob(c) ==
  /\ c \in propjobs
  /\ propjobs' = propjobs \ {c}
  /\ \E b \in BOOLEAN : PropsAnswer(c, b)
  /\ UNCHANGED <<counter, starts, wbruns, ipcport, msgreply, opencnt, main, stray>>

\* The thread is told to end before it takes the job.
PropsRefused(c) ==
  /\ quitting /\ c \in propjobs
  /\ propjobs' = propjobs \ {c}
  /\ UNCHANGED <<counter, pc, starts, icon, wbruns, ipcport, msgreply, opencnt,
                 main, stray>>

\* init_preclose: the user quits, and preclose_wbstart finds no program;
\* preclose_wbstartlib nobody who has the library open. Then threads_finish.
Quit ==
  /\ CanQuit /\ ~quitting
  /\ mpc = "loop" /\ running_wbproc = 0
  /\ mpc' = "preclose"
  /\ UNCHANGED <<counter, pc, starts, icon, wbruns, ipc, opencnt, quitting, stray>>

Preclose ==
  /\ mpc = "preclose" /\ mpc' = "loop"
  /\ quitting' = (opencnt = 0)
  /\ UNCHANGED <<counter, pc, starts, icon, wbruns, ipc, opencnt, stray>>

\* threads_finish has found no thread left. init_close: wbstartlib_cleanup,
\* ipc_cleanup, wbstart_cleanup.
Cleanup ==
  /\ quitting /\ mpc = "loop"
  /\ \A t \in Threads : pc[t] = "idle"
  /\ propjobs = {}
  /\ mpc' = "closelib"
  /\ UNCHANGED <<counter, pc, starts, icon, wbruns, ipc, opencnt, quitting, stray>>

CloseLib ==
  /\ mpc = "closelib" /\ mpc' = "closeipc"
  /\ UNCHANGED <<counter, pc, starts, icon, wbruns, ipc, opencnt, quitting, stray>>

Asking == {ipcport[i].of : i \in DOMAIN ipcport}
CloseIpc ==
  /\ mpc = "closeipc" /\ mpc' = "closestart"
  /\ ipcport' = <<>>
  /\ pc' = [t \in Tasks |-> IF t \notin Asking THEN pc[t]
                            ELSE IF pc[t] = "plain" THEN "idle" ELSE "load"]
  /\ UNCHANGED <<counter, starts, icon, wbruns, propjobs, msgreply, opencnt,
                 quitting, stray>>

CloseStart ==
  /\ mpc = "closestart" /\ mpc' = "gone"
  /\ wbstartport' = <<>>
  /\ UNCHANGED <<counter, pc, starts, icon, run, memory, programs, ipc, opencnt,
                 quitting, stray>>

-----------------------------------------------------------------------------
MainNext == StartHandle \/ IpcEnter \/ IpcMessage \/ IpcLeave \/ Preclose

\* What t does in v_wbstart, when it need not wait.
TaskNext(t) ==
  \/ JobBegins(t) \/ JobRefused(t) \/ CountUp(t) \/ CountDown(t)
  \/ CountCommandDown(t) \/ Allocate(t) \/ Properties(t) \/ FindIpc(t)
  \/ PutIpc(t) \/ Load(t) \/ CopyForCommand(t) \/ Command(t)
  \/ CreateProcess(t) \/ GiveUp(t) \/ Return(t)

Next ==
  \/ MainNext
  \/ Quit \/ Cleanup \/ CloseLib \/ CloseIpc \/ CloseStart
  \/ \E t \in Tasks : TaskNext(t)
  \/ \E t \in Threads : Job(t)
  \/ \E c \in Clients : LibCall(c) \/ AskPath(c) \/ PropsJob(c) \/ PropsRefused(c)
  \/ \E s \in Starts : ProgramEnds(s)

\* The event loop looks at every signal on each turn, also when the user tries
\* to quit again and again.
Fairness ==
  /\ WF_vars(MainNext) /\ SF_vars(IpcEnter)
  /\ \A t \in Tasks : WF_vars(TaskNext(t))
  /\ \A c \in Clients : WF_vars(PropsJob(c))

Spec == Init /\ [][Next]_vars /\ Fairness

-----------------------------------------------------------------------------
(* Properties.                                                             *)

\* "Free the wbrun structure properly." (wbstart.c:917): wherever a start has
\* failed or succeeded so far, free_wbrun gives back every lock that was taken
\* for it, and each of them once. Two cases are left out, in which it does not:
\* a script whose name cannot be copied (the failure "name"), and a project and
\* a tool that both have a name without a path; see README.md.
GivenBack(w) ==
  /\ {LockAt(w, i) : i \in Unlocked(w)} = w.held
  /\ \A i, j \in Unlocked(w) : LockAt(w, i) = LockAt(w, j) => i = j

LocksOnce == \A s \in memory : GivenBack(run[s])

\* Each struct wbrun belongs to one of those who use and free it: the task
\* that fills it, the program it started, or the port it comes back to; and
\* none of them has one that was freed. A program's code stays loaded.
Owners(s) ==
  {o \in {"task", "program", "port"} :
     \/ o = "task" /\ \E t \in Tasks : s = Current(t) /\ pc[t] \in Building
     \/ o = "program" /\ s \in programs
     \/ o = "port" /\ \E i \in DOMAIN wbstartport : wbstartport[i] = s}

OneOwner ==
  /\ mpc # "gone" => \A s \in Starts :
       Cardinality(Owners(s)) = IF s \in memory THEN 1 ELSE 0
  /\ \A s \in programs : s \in memory /\ run[s].seg

\* A program that asked for the properties of an icon goes on, unless the user
\* quits.
PropsAnswered ==
  \A c \in Clients : pc[c] = "props" ~> pc[c] # "props" \/ quitting

\* What follows is what the code, or a comment in it, says; see README.md.

\* "You have %lu desktop processes running." (preclose_wbstart): the counter
\* tells how many programs run or are being started.
RunningCounted ==
  /\ \A t \in Tasks : pc[t] \notin {"up2", "down2", "count2"}
  /\ mpc \in {"loop", "ipc", "preclose"}
  => running_wbproc =
       Cardinality({s \in Starts : "program" \in Owners(s) \/ "port" \in Owners(s)})
       + Cardinality({t \in Tasks : pc[t] \in (Building \cup {"new", "down"})
                                              \ {"copy", "command"}})

\* "ASSERT(!running_wbproc)" (wbstart_cleanup), "should not happen (tm)"
\* (wbstartlib_cleanup): nobody uses Ambient's code, or runs a program it has
\* started, when it has ended.
NoneLeftBehind == mpc = "gone" => programs = {} /\ opencnt = 0

\* "no need to Forbid()" (ipc_get_icon_properties): no port is gone when it
\* is used.
PortThere == ~stray

\* "all of that should be checked and sent in the reply!" (ipc_handle): every
\* message is replied.
EachReplied == \A c \in Clients : pc[c] = "plain" ~> pc[c] # "plain"
=============================================================================
