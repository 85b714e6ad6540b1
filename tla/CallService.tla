---------------------------- MODULE CallService ----------------------------
(***************************************************************************)
(* What Ambient's method stack promises to the tasks that push methods on  *)
(* it, without its list, semaphore, signals and nested dispatch loops:     *)
(* every caller's calls are started one after the other in the order it    *)
(* made them, each is carried out once, and a caller that asked for a      *)
(* synchronous call goes on only when that call has been carried out.      *)
(* MethodStack implements this module.                                     *)
(***************************************************************************)
EXTENDS Naturals

CONSTANTS
  Callers,     \* every task that pushes methods, the main task included
  MaxCalls     \* bound on the calls of one caller

VARIABLES
  issued,      \* issued[c]: the number of calls c has made
  started,     \* started[c]: the number of calls of c taken up so far
  finished,    \* the calls <<c, n>> carried out
  blocked,     \* blocked[c]: the call c waits for, 0 when it runs
  open         \* FALSE once the service has ended with the program

vars == <<issued, started, finished, blocked, open>>

Init ==
  /\ issued = [c \in Callers |-> 0]
  /\ started = [c \in Callers |-> 0]
  /\ finished = {}
  /\ blocked = [c \in Callers |-> 0]
  /\ open = TRUE

Issue(c, sync) ==
  /\ blocked[c] = 0
  /\ issued[c] < MaxCalls
  /\ issued' = [issued EXCEPT ![c] = @ + 1]
  /\ blocked' = [blocked EXCEPT ![c] = IF sync THEN issued[c] + 1 ELSE 0]
  /\ UNCHANGED <<started, finished, open>>

Start(c) ==
  /\ open
  /\ started[c] < issued[c]
  /\ started' = [started EXCEPT ![c] = @ + 1]
  /\ UNCHANGED <<issued, finished, blocked, open>>

Finish(c, n) ==
  /\ open
  /\ n <= started[c]
  /\ <<c, n>> \notin finished
  /\ finished' = finished \cup {<<c, n>>}
  /\ UNCHANGED <<issued, started, blocked, open>>

Return(c) ==
  /\ <<c, blocked[c]>> \in finished
  /\ blocked' = [blocked EXCEPT ![c] = 0]
  /\ UNCHANGED <<issued, started, finished, open>>

\* The program ends. Calls nobody waits for may be dropped.
Stop ==
  /\ open
  /\ \A c \in Callers : blocked[c] = 0
  /\ open' = FALSE
  /\ UNCHANGED <<issued, started, finished, blocked>>

Next ==
  \/ \E c \in Callers, sync \in BOOLEAN : Issue(c, sync)
  \/ \E c \in Callers : Start(c) \/ Return(c)
  \/ \E c \in Callers, n \in 1..MaxCalls : Finish(c, n)
  \/ Stop

Fairness ==
  \A c \in Callers :
    /\ WF_vars(Start(c))
    /\ WF_vars(Return(c))
    /\ WF_vars(\E n \in 1..MaxCalls : Finish(c, n))

Spec == Init /\ [][Next]_vars /\ Fairness
=============================================================================
