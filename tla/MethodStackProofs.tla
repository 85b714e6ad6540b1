-------------------------- MODULE MethodStackProofs --------------------------
(***************************************************************************)
(* Proofs about MethodStack, for every set of threads and objects and      *)
(* every bound.                                                            *)
(***************************************************************************)
EXTENDS MethodStack, TLAPS, SequenceTheorems, FiniteSetTheorems

\* A frame taken off the main task's stack leaves a stack of frames.
LEMMA FrontProperties ==
  ASSUME NEW S, NEW s \in Seq(S), s # <<>>
  PROVE  /\ Front(s) \in Seq(S)
         /\ Last(s) \in S
         /\ Len(Front(s)) = Len(s) - 1
         /\ \A i \in 1..(Len(s) - 1) : Front(s)[i] = s[i]
<1>1. Len(s) \in Nat \ {0}
  BY EmptySeq
<1>2. \A i \in 1..Len(s) : s[i] \in S
  BY ElementOfSeq
<1>3. \A i \in 1..(Len(s) - 1) : s[i] \in S
  BY <1>1, <1>2
<1>4. /\ SubSeq(s, 1, Len(s) - 1) \in Seq(S)
      /\ Len(SubSeq(s, 1, Len(s) - 1)) = Len(s) - 1
      /\ \A i \in 1..(Len(s) - 1) : SubSeq(s, 1, Len(s) - 1)[i] = s[i]
  <2> DEFINE n == Len(s) - 1
  <2>1. n \in Nat /\ 1 \in Int /\ n \in Int
    BY <1>1
  <2>2. \A i \in 1..n : s[i] \in S
    BY <1>3
  <2> HIDE DEF n
  <2>3. /\ SubSeq(s, 1, n) \in Seq(S)
        /\ Len(SubSeq(s, 1, n)) = IF 1 <= n THEN n - 1 + 1 ELSE 0
        /\ \A i \in 1..(n - 1 + 1) : SubSeq(s, 1, n)[i] = s[1 + i - 1]
    BY <2>1, <2>2, SubSeqProperties
  <2>4. /\ SubSeq(s, 1, n) \in Seq(S)
        /\ Len(SubSeq(s, 1, n)) = n
        /\ \A i \in 1..n : SubSeq(s, 1, n)[i] = s[i]
    BY <2>1, <2>3
  <2>5. QED
    BY <2>4 DEF n
<1>5. Last(s) \in S
  BY <1>1, <1>2 DEF Last
<1> QED
  BY <1>4, <1>5 DEF Front

\* What the stack holds, and what pushing on it and leaving it give.
LEMMA FrameTypes ==
  /\ \A b \in BOOLEAN : Check(b) \in Frame
  /\ \A o \in Objs : Body(o) \in Frame /\ Sync(o) \in Frame
  /\ \A t \in Pool : Finishing(t) \in Frame
  BY DEF Frame, Check, Body, Sync, Finishing, CheckFrame, MethodFrame, SyncFrame,
         FinishFrame

LEMMA TopTypes ==
  ASSUME NEW f \in Frame
  PROVE  /\ f.k = "check" => f \in CheckFrame
         /\ f.k = "sync" => f \in SyncFrame
         /\ f.k = "finish" => f \in FinishFrame
  BY DEF Frame, CheckFrame, MethodFrame, SyncFrame, FinishFrame

LEMMA PendingFinite ==
  ASSUME NEW S, methodlist \in Seq(S), NEW o
  PROVE  Cardinality(Pending(o)) \in Nat
<1>1. DOMAIN methodlist = 1..Len(methodlist) /\ Len(methodlist) \in Nat
  BY LenProperties
<1>2. IsFiniteSet(DOMAIN methodlist)
  BY <1>1, FS_Interval
<1>3. Pending(o) \subseteq DOMAIN methodlist
  BY DEF Pending
<1> QED
  BY <1>2, <1>3, FS_Subset, FS_CardinalityType

LEMMA ForgetType ==
  ASSUME methodlist \in Seq(Method), NEW o
  PROVE  /\ Forget(o) \in Seq(Method)
         /\ Len(Forget(o)) = Len(methodlist)
<1>1. DOMAIN methodlist = 1..Len(methodlist) /\ Len(methodlist) \in Nat
  BY LenProperties
<1>2. \A i \in 1..Len(methodlist) : methodlist[i] \in Method
  BY ElementOfSeq
<1>3. \A m \in Method : [m EXCEPT !.obj = NULL] \in Method
  BY DEF Method
<1>4. Forget(o) \in [1..Len(methodlist) -> Method]
  BY <1>1, <1>2, <1>3 DEF Forget
<1> QED
  BY <1>1, <1>4, SeqDef

LEMMA TypeInit == Init => TypeOK
<1> SUFFICES ASSUME Init PROVE TypeOK
  OBVIOUS
<1>1. \A o \in Objs : Cardinality({t \in Pool : jobobj[t] = o}) \in Nat
  <2>1. IsFiniteSet(Pool)
    BY ConstantsAssumption, FS_Subset DEF Pool
  <2>2. TAKE o \in Objs
  <2>3. {t \in Pool : jobobj[t] = o} \subseteq Pool
    OBVIOUS
  <2> QED
    BY <2>1, <2>3, FS_Subset, FS_CardinalityType
<1>2. refs \in [Objs -> Int]
  BY <1>1 DEF Init
<1>3. methodlist \in Seq(Method) /\ stack \in Seq(Frame)
  BY EmptySeq DEF Init
<1>4. 0 \in 0..MaxCalls /\ 0 \in 0..MaxActs
  BY ConstantsAssumption
<1>5. calls \in [Callers -> 0..MaxCalls] /\ started \in [Callers -> 0..MaxCalls]
  BY <1>4 DEF Init
<1>6. /\ tpc \in [Threads -> TPC]
      /\ reply \in [Threads -> {"result", "killed", NULL}]
      /\ jobobj \in [Threads -> Objs]
      /\ held \in [Objs -> BOOLEAN]
      /\ mpc \in MPC
  BY DEF Init, TPC, MPC
<1> QED
  BY <1>2, <1>3, <1>4, <1>5, <1>6 DEF Init, TypeOK

LEMMA EnqueueType ==
  ASSUME TypeOK, NEW c \in Callers, NEW o \in Objs, NEW sync \in BOOLEAN,
         Enqueue(c, o, sync)
  PROVE  /\ methodlist' \in Seq(Method)
         /\ calls' \in [Callers -> 0..MaxCalls]
<1> DEFINE pm == [from |-> c, n |-> calls[c] + 1, obj |-> o, sync |-> sync]
<1>1. calls[c] \in 0..MaxCalls /\ calls[c] < MaxCalls
  BY DEF TypeOK, Enqueue
<1>2. calls[c] + 1 \in 1..MaxCalls /\ calls[c] + 1 \in 0..MaxCalls
  BY <1>1, ConstantsAssumption
<1>3. pm \in Method
  BY <1>2 DEF Method
<1>4. methodlist' = Append(methodlist, pm) /\ methodlist \in Seq(Method)
  BY DEF Enqueue, AddTail, TypeOK
<1>5. methodlist' \in Seq(Method)
  BY <1>3, <1>4, AppendProperties
<1>6. calls' \in [Callers -> 0..MaxCalls]
  BY <1>2 DEF Enqueue, TypeOK
<1> QED
  BY <1>5, <1>6

LEMMA RefsType ==
  ASSUME refs \in [Objs -> Int], NEW o
  PROVE  /\ Retain(o) => refs' \in [Objs -> Int]
         /\ Release(o) => refs' \in [Objs -> Int]
  BY DEF Retain, Release

LEMMA KillType ==
  ASSUME TypeOK, NEW o \in Objs, Kill(o)
  PROVE  methodlist' \in Seq(Method) /\ refs' \in [Objs -> Int]
<1>1. methodlist' \in Seq(Method)
  BY ForgetType DEF Kill, TypeOK
<1>2. Cardinality(Pending(o)) \in Nat
  BY PendingFinite DEF TypeOK
<1> QED
  BY <1>1, <1>2 DEF Kill, TypeOK

\* The steps of the tasks that push.
LEMMA TypeThreads ==
  ASSUME TypeOK, NEW t \in Threads, ThreadNext(t)
  PROVE  TypeOK'
<1> USE DEF TypeOK, mainvars, history, threadvars
<1>1. t \in Callers /\ jobobj[t] \in Objs
  BY DEF Callers
<1>2. \A x \in TPC : [tpc EXCEPT ![t] = x] \in [Threads -> TPC]
  OBVIOUS
<1>3. CASE Push(t)
  BY <1>1, <1>3, EnqueueType, RefsType DEF Push
<1>4. CASE SyncRetain(t)
  BY <1>1, <1>2, <1>4, RefsType DEF SyncRetain, TPC
<1>5. CASE SyncEnqueue(t)
  <2>1. methodlist' \in Seq(Method) /\ calls' \in [Callers -> 0..MaxCalls]
    BY <1>1, <1>5, EnqueueType DEF SyncEnqueue
  <2> QED
    BY <1>2, <1>5, <2>1 DEF SyncEnqueue, TPC
<1>6. CASE SyncNoMemory(t)
  BY <1>2, <1>6 DEF SyncNoMemory, TPC
<1>7. CASE SyncSignal(t)
  BY <1>2, <1>7 DEF SyncSignal, TPC
<1>8. CASE SyncReturn(t)
  BY <1>2, <1>8 DEF SyncReturn, TPC
<1>9. CASE JobSleeps(t)
  BY <1>2, <1>9 DEF JobSleeps, TPC
<1>10. CASE JobWakes(t)
  BY <1>2, <1>10 DEF JobWakes, TPC
<1>11. CASE EndJob(t)
  BY <1>2, <1>11 DEF EndJob, TPC
<1> QED
  BY <1>3, <1>4, <1>5, <1>6, <1>7, <1>8, <1>9, <1>10, <1>11 DEF ThreadNext

\* What the main task's stack becomes.
LEMMA StackTypes ==
  ASSUME TypeOK
  PROVE  /\ \A f \in Frame : Append(stack, f) \in Seq(Frame)
         /\ ~Idle => /\ Front(stack) \in Seq(Frame)
                     /\ Top \in Frame
                     /\ \A f \in Frame : Append(Front(stack), f) \in Seq(Frame)
<1>1. stack \in Seq(Frame)
  BY DEF TypeOK
<1>2. \A s \in Seq(Frame), f \in Frame : Append(s, f) \in Seq(Frame)
  BY AppendProperties
<1>3. ~Idle => Front(stack) \in Seq(Frame) /\ Last(stack) \in Frame
  BY <1>1, FrontProperties DEF Idle
<1> QED
  BY <1>1, <1>2, <1>3 DEF Top

\* A method taken off the list.
LEMMA PopType ==
  ASSUME TypeOK, CheckPop
  PROVE  TypeOK'
<1> DEFINE pm == Head(methodlist)
           frame == [Top EXCEPT !.pm = pm]
<1>1. methodlist \in Seq(Method) /\ methodlist # <<>>
  BY DEF CheckPop, TypeOK
<1>2. pm \in Method /\ methodlist' \in Seq(Method)
  BY <1>1, HeadTailProperties DEF CheckPop
<1>3. /\ pm.from \in Callers /\ pm.n \in 1..MaxCalls
      /\ pm.obj \in Objs \cup {NULL}
  BY <1>2 DEF Method
<1>4. started' \in [Callers -> 0..MaxCalls]
  <2>1. pm.n \in 0..MaxCalls
    BY <1>3, ConstantsAssumption
  <2> QED
    BY <1>3, <2>1 DEF CheckPop, TypeOK
<1>5. Top \in CheckFrame
  BY StackTypes, TopTypes DEF CheckPop
<1>6. frame \in Frame
  <2>1. frame \in CheckFrame
    BY <1>2, <1>5 DEF CheckFrame
  <2> QED
    BY <2>1 DEF Frame
<1>7. Append(Front(stack), frame) \in Seq(Frame)
  BY <1>6, StackTypes DEF CheckPop
<1>8. stack' \in Seq(Frame)
  <2>1. CASE pm.obj = NULL
    BY <1>7, <2>1 DEF CheckPop, Dispatch
  <2>2. CASE pm.obj # NULL
    <3>1. Body(pm.obj) \in Frame
      BY <1>3, <2>2, FrameTypes
    <3>2. Append(Append(Front(stack), frame), Body(pm.obj)) \in Seq(Frame)
      BY <1>7, <3>1, AppendProperties
    <3> QED
      BY <2>2, <3>2 DEF CheckPop, Dispatch
  <2> QED
    BY <2>1, <2>2
<1> QED
  BY <1>2, <1>4, <1>8 DEF CheckPop, TypeOK, threadvars

\* A method that has been carried out.
LEMMA CompleteType ==
  ASSUME TypeOK, CheckComplete
  PROVE  TypeOK'
<1> DEFINE pm == Top.pm
<1>1. pm \in Method
  BY StackTypes, TopTypes DEF CheckComplete, CheckFrame
<1>2. pm.from \in Callers /\ pm.n \in 1..MaxCalls
  BY <1>1 DEF Method
<1>3. refs' \in [Objs -> Int]
  BY RefsType DEF CheckComplete, TypeOK
<1>4. reply' \in [Threads -> {"result", "killed", NULL}]
  <2>1. reply' = Answer(pm)
    BY DEF CheckComplete
  <2> QED
    BY <2>1 DEF Answer, TypeOK
<1>5. finished' \subseteq Callers \X (1..MaxCalls)
  BY <1>2 DEF CheckComplete, TypeOK
<1>6. stack' \in Seq(Frame) /\ sigE' \in BOOLEAN
  BY StackTypes, FrameTypes DEF CheckComplete, Continue, Replace, Leave, TypeOK
<1> QED
  BY <1>3, <1>4, <1>5, <1>6 DEF CheckComplete, TypeOK

LEMMA SeveralFrames ==
  ASSUME NEW f \in Frame, NEW g \in Frame, NEW h \in Frame
  PROVE  <<f, g>> \in Seq(Frame) /\ <<f, g, h>> \in Seq(Frame)
  OBVIOUS

\* The other steps of the main task.
LEMMA TypeMain ==
  ASSUME TypeOK, MainNext
  PROVE  TypeOK'
<1>1. CASE NewInput
  <2>1. mpc' \in MPC
    BY <1>1 DEF NewInput, MPC
  <2>2. acts' \in 0..MaxActs
    BY <1>1, ConstantsAssumption DEF NewInput, Act, TypeOK
  <2>3. stack' \in Seq(Frame)
    BY <1>1, StackTypes, FrameTypes DEF NewInput, Call, TypeOK
  <2> QED
    BY <1>1, <2>1, <2>2, <2>3 DEF NewInput, TypeOK, threadvars, history
<1>2. CASE LoopCheck
  <2>1. mpc' \in MPC
    BY <1>2 DEF LoopCheck, MPC
  <2>2. stack' \in Seq(Frame)
    BY <1>2, StackTypes, FrameTypes DEF LoopCheck, Call
  <2> QED
    BY <1>2, <2>1, <2>2 DEF LoopCheck, TypeOK, threadvars, history
<1>3. CASE WaitSignals
  <2>1. mpc' \in MPC
    BY <1>3 DEF WaitSignals, MPC
  <2>2. acts' \in 0..MaxActs
    BY <1>3, ConstantsAssumption DEF WaitSignals, Act, TypeOK
  <2> QED
    BY <1>3, <2>1, <2>2 DEF WaitSignals, TypeOK, threadvars, history
<1>4. CASE HandleReleases
  <2>1. stack' \in Seq(Frame) /\ Top \in FinishFrame
    BY <1>4, StackTypes, TopTypes DEF HandleReleases, Leave
  <2>2. refs' \in [Objs -> Int]
    BY <1>4, RefsType DEF HandleReleases, TypeOK
  <2>3. tpc' \in [Threads -> TPC]
    BY <1>4 DEF HandleReleases, TypeOK, TPC
  <2> QED
    BY <1>4, <2>1, <2>2, <2>3 DEF HandleReleases, TypeOK, history
<1>5. CASE HandleEnds
  BY <1>5 DEF HandleEnds, TypeOK, MPC, threadvars, history
<1>6. CASE CheckPop
  BY <1>6, PopType
<1>7. CASE CheckEmpty
  BY <1>7, StackTypes DEF CheckEmpty, Leave, TypeOK, threadvars, history
<1>8. CASE CheckComplete
  BY <1>8, CompleteType
<1>9. CASE SyncCall
  <2>1. Top.obj \in Objs
    BY <1>9, StackTypes, TopTypes DEF SyncCall, SyncFrame
  <2>2. stack' \in Seq(Frame)
    BY <1>9, <2>1, StackTypes, FrameTypes DEF SyncCall, Replace
  <2> QED
    BY <1>9, <2>2 DEF SyncCall, TypeOK, threadvars, history
<1>10. CASE MethodReturns
  BY <1>10, StackTypes DEF MethodReturns, InMethod, Leave, TypeOK, threadvars,
                           history
<1>11. CASE \E t \in Pool : HandleThread(t)
  <2>1. PICK t \in Pool : HandleThread(t)
    BY <1>11
  <2>2. jobobj[t] \in Objs
    BY DEF TypeOK, Pool
  <2>3. stack' \in Seq(Frame)
    <3>1. Finishing(t) \in Frame /\ Sync(jobobj[t]) \in Frame /\ Check(TRUE) \in Frame
      BY <2>2, FrameTypes
    <3> QED
      BY <2>1, <3>1, SeveralFrames DEF HandleThread
  <2> QED
    BY <2>1, <2>3 DEF HandleThread, TypeOK, history
<1> QED
  BY <1>1, <1>2, <1>3, <1>4, <1>5, <1>6, <1>7, <1>8, <1>9, <1>10, <1>11
     DEF MainNext

\* What methods do, and the end of doloop.
LEMMA TypeMethods ==
  ASSUME TypeOK, MethodNext \/ Quit
  PROVE  TypeOK'
<1>1. ASSUME NEW o \in Objs, MethodPushes(o) PROVE TypeOK'
  <2>1. Main \in Callers
    BY DEF Callers
  <2>2. methodlist' \in Seq(Method) /\ calls' \in [Callers -> 0..MaxCalls]
    BY <1>1, <2>1, EnqueueType DEF MethodPushes
  <2>3. refs' \in [Objs -> Int] /\ acts' \in 0..MaxActs
    BY <1>1, RefsType, ConstantsAssumption DEF MethodPushes, Act, TypeOK
  <2> QED
    BY <1>1, <2>2, <2>3 DEF MethodPushes, TypeOK, threadvars, history
<1>2. ASSUME NEW o \in Objs, MethodPushesSync(o) PROVE TypeOK'
  <2>1. <<Sync(o), Check(TRUE)>> \in Seq(Frame)
    BY FrameTypes, SeveralFrames
  <2>2. stack' \in Seq(Frame)
    BY <1>2, <2>1, ConcatProperties DEF MethodPushesSync, TypeOK
  <2>3. acts' \in 0..MaxActs
    BY <1>2, ConstantsAssumption DEF MethodPushesSync, Act, TypeOK
  <2> QED
    BY <1>2, <2>2, <2>3 DEF MethodPushesSync, TypeOK, threadvars, history
<1>3. ASSUME NEW o \in Objs, MethodDisposes(o) PROVE TypeOK'
  <2>1. refs' \in [Objs -> Int] /\ acts' \in 0..MaxActs
    BY <1>3, RefsType, ConstantsAssumption DEF MethodDisposes, Act, TypeOK
  <2> QED
    BY <1>3, <2>1 DEF MethodDisposes, TypeOK, threadvars, history
<1>4. ASSUME NEW o \in Objs, MethodKills(o) PROVE TypeOK'
  <2>1. methodlist' \in Seq(Method) /\ refs' \in [Objs -> Int]
    BY <1>4, KillType DEF MethodKills
  <2>2. acts' \in 0..MaxActs
    BY <1>4, ConstantsAssumption DEF MethodKills, Act, TypeOK
  <2> QED
    BY <1>4, <2>1, <2>2 DEF MethodKills, TypeOK, threadvars, history
<1>5. CASE Quit
  <2>1. methodlist' \in Seq(Method) /\ refs' \in [Objs -> Int]
    BY <1>5, KillType, ConstantsAssumption DEF Quit
  <2> QED
    BY <1>5, <2>1 DEF Quit, TypeOK, MPC, threadvars, history
<1> QED
  BY <1>1, <1>2, <1>3, <1>4, <1>5 DEF MethodNext

\* Every variable keeps its type.
THEOREM TypeCorrect == Spec => []TypeOK
<1>1. Init => TypeOK
  BY TypeInit
<1>2. TypeOK /\ [Next]_vars => TypeOK'
  <2> SUFFICES ASSUME TypeOK, [Next]_vars PROVE TypeOK'
    OBVIOUS
  <2>1. CASE \E t \in Threads : ThreadNext(t)
    BY <2>1, TypeThreads
  <2>2. CASE MainNext
    BY <2>2, TypeMain
  <2>3. CASE MethodNext \/ Quit
    BY <2>3, TypeMethods
  <2>4. CASE UNCHANGED vars
    BY <2>4 DEF vars, TypeOK
  <2> QED
    BY <2>1, <2>2, <2>3, <2>4 DEF Next
<1> QED
  BY <1>1, <1>2, PTL DEF Spec

-----------------------------------------------------------------------------
(* Order. Three kinds of steps touch the list: ADDTAIL, REMHEAD and the    *)
(* replacement of objects; each keeps InOrder.                             *)

LEMMA ListTypes ==
  ASSUME TypeOK
  PROVE  /\ methodlist \in Seq(Method)
         /\ Len(methodlist) \in Nat
         /\ DOMAIN methodlist = 1..Len(methodlist)
         /\ \A i \in 1..Len(methodlist) :
              /\ methodlist[i] \in Method
              /\ methodlist[i].from \in Callers
              /\ methodlist[i].n \in 1..MaxCalls
         /\ \A c \in Callers : calls[c] \in Nat /\ started[c] \in Nat
<1>1. methodlist \in Seq(Method)
  BY DEF TypeOK
<1>2. Len(methodlist) \in Nat /\ DOMAIN methodlist = 1..Len(methodlist)
  BY <1>1, LenProperties
<1>3. \A i \in 1..Len(methodlist) : methodlist[i] \in Method
  BY <1>1, ElementOfSeq
<1>4. \A m \in Method : m.from \in Callers /\ m.n \in 1..MaxCalls
  BY DEF Method
<1>5. \A c \in Callers : calls[c] \in Nat /\ started[c] \in Nat
  BY DEF TypeOK
<1> QED
  BY <1>1, <1>2, <1>3, <1>4, <1>5

LEMMA OrderParts ==
  ASSUME TypeOK, InOrder
  PROVE  /\ \A i, j \in 1..Len(methodlist) :
              i < j /\ methodlist[i].from = methodlist[j].from
                => methodlist[i].n < methodlist[j].n
         /\ \A i \in 1..Len(methodlist) :
              /\ started[methodlist[i].from] < methodlist[i].n
              /\ methodlist[i].n <= calls[methodlist[i].from]
         /\ \A c \in Callers : started[c] <= calls[c]
         /\ \A c \in Callers : \A n \in (started[c] + 1)..calls[c] :
              \E i \in 1..Len(methodlist) :
                methodlist[i].from = c /\ methodlist[i].n = n
<1>1. DOMAIN methodlist = 1..Len(methodlist)
  BY ListTypes
<1> QED
  BY <1>1 DEF InOrder

LEMMA EnqueueKeepsOrder ==
  ASSUME TypeOK, InOrder, NEW c \in Callers, NEW o \in Objs, NEW sync \in BOOLEAN,
         Enqueue(c, o, sync), UNCHANGED started
  PROVE  InOrder'
<1> DEFINE k == Len(methodlist)
           pm == [from |-> c, n |-> calls[c] + 1, obj |-> o, sync |-> sync]
<1>1. /\ k \in Nat
      /\ DOMAIN methodlist = 1..k
      /\ \A i \in 1..k : methodlist[i].from \in Callers /\ methodlist[i].n \in Nat
      /\ \A d \in Callers : calls[d] \in Nat /\ started[d] \in Nat
  BY ListTypes
<1>2. calls' = [calls EXCEPT ![c] = calls[c] + 1] /\ DOMAIN calls = Callers
  BY DEF Enqueue, TypeOK
<1>3. /\ methodlist' \in Seq(Method)
      /\ Len(methodlist') = k + 1
      /\ \A i \in 1..k : methodlist'[i] = methodlist[i]
      /\ methodlist'[k + 1] = pm
  <2>1. methodlist' = Append(methodlist, pm) /\ methodlist \in Seq(Method)
    BY ListTypes DEF Enqueue, AddTail
  <2>2. pm \in Method
    BY <1>1, ConstantsAssumption DEF Enqueue, Method
  <2> QED
    BY <2>1, <2>2, AppendProperties
<1>4. DOMAIN methodlist' = 1..(k + 1)
  BY <1>3, LenProperties
<1>5. \A i \in 1..k : methodlist[i].n <= calls[methodlist[i].from]
  BY <1>1 DEF InOrder
<1>6. \A i, j \in DOMAIN methodlist' :
        i < j /\ methodlist'[i].from = methodlist'[j].from
          => methodlist'[i].n < methodlist'[j].n
  <2> SUFFICES ASSUME NEW i \in 1..(k + 1), NEW j \in 1..(k + 1), i < j,
                      methodlist'[i].from = methodlist'[j].from
               PROVE  methodlist'[i].n < methodlist'[j].n
    BY <1>4
  <2>1. i \in 1..k
    BY <1>1
  <2>2. CASE j \in 1..k
    BY <1>1, <1>3, <2>1, <2>2 DEF InOrder
  <2>3. CASE j = k + 1
    BY <1>1, <1>3, <1>5, <2>1, <2>3
  <2> QED
    BY <1>1, <2>2, <2>3
<1>7. \A i \in DOMAIN methodlist' :
        /\ started'[methodlist'[i].from] < methodlist'[i].n
        /\ methodlist'[i].n <= calls'[methodlist'[i].from]
  <2> SUFFICES ASSUME NEW i \in 1..(k + 1)
               PROVE  /\ started'[methodlist'[i].from] < methodlist'[i].n
                      /\ methodlist'[i].n <= calls'[methodlist'[i].from]
    BY <1>4
  <2>1. CASE i \in 1..k
    <3>1. /\ methodlist'[i] = methodlist[i]
          /\ started[methodlist[i].from] < methodlist[i].n
          /\ methodlist[i].n <= calls[methodlist[i].from]
      BY <1>3, <2>1, OrderParts
    <3>2. /\ methodlist[i].from \in Callers
          /\ methodlist[i].n \in Nat
          /\ calls[methodlist[i].from] \in Nat
          /\ calls[c] \in Nat
      BY <1>1, <2>1
    <3>3. calls'[methodlist[i].from] >= calls[methodlist[i].from]
      BY <1>2, <3>2
    <3>4. calls'[methodlist[i].from] \in Nat
      BY <1>2, <3>2
    <3> QED
      BY <3>1, <3>2, <3>3, <3>4
  <2>2. CASE i = k + 1
    <3>1. started[c] <= calls[c]
      BY DEF InOrder
    <3> QED
      BY <1>1, <1>2, <1>3, <2>2, <3>1
  <2> QED
    BY <1>1, <2>1, <2>2
<1>8. \A d \in Callers : \A n \in (started'[d] + 1)..calls'[d] :
        \E i \in DOMAIN methodlist' :
          methodlist'[i].from = d /\ methodlist'[i].n = n
  <2> SUFFICES ASSUME NEW d \in Callers, NEW n \in (started[d] + 1)..calls'[d]
               PROVE  \E i \in 1..(k + 1) :
                        methodlist'[i].from = d /\ methodlist'[i].n = n
    BY <1>4
  <2>1. CASE d = c /\ n = calls[c] + 1
    BY <1>1, <1>3, <2>1
  <2>2. CASE ~(d = c /\ n = calls[c] + 1)
    <3>1. n \in (started[d] + 1)..calls[d]
      BY <1>1, <1>2, <2>2
    <3>2. PICK i \in 1..k : methodlist[i].from = d /\ methodlist[i].n = n
      BY <3>1, OrderParts
    <3> QED
      BY <1>1, <1>3, <3>2
  <2> QED
    BY <2>1, <2>2
<1>9. \A d \in Callers : started'[d] <= calls'[d]
  BY <1>1, <1>2 DEF InOrder
<1> QED
  BY <1>6, <1>7, <1>8, <1>9 DEF InOrder

\* The method at the head of the list is its caller's next call.
LEMMA HeadNext ==
  ASSUME TypeOK, InOrder, CheckPop, NEW pm, pm = Head(methodlist)
  PROVE  /\ pm \in Method /\ pm.from \in Callers /\ pm.n \in 1..MaxCalls
         /\ pm.n = started[pm.from] + 1
         /\ started[pm.from] < calls[pm.from]
         /\ started' = [started EXCEPT ![pm.from] = @ + 1]
<1> DEFINE k == Len(methodlist)
<1>1. /\ methodlist \in Seq(Method) /\ methodlist # <<>>
      /\ started' = [started EXCEPT ![pm.from] = pm.n]
  BY DEF TypeOK, CheckPop
<1>2. pm = methodlist[1] /\ 1 \in 1..k /\ k \in Nat
  BY <1>1, EmptySeq, LenProperties
<1>3. pm \in Method /\ pm.from \in Callers /\ pm.n \in 1..MaxCalls
  BY <1>2, ListTypes
<1>4. started[pm.from] < pm.n /\ pm.n <= calls[pm.from]
  BY <1>2, OrderParts
<1>5. started[pm.from] \in Nat /\ calls[pm.from] \in Nat
  BY <1>3, ListTypes
<1>6. pm.n = started[pm.from] + 1
  <2> SUFFICES ASSUME pm.n # started[pm.from] + 1 PROVE FALSE
    OBVIOUS
  <2>1. started[pm.from] + 1 \in (started[pm.from] + 1)..calls[pm.from]
    BY <1>3, <1>4, <1>5
  <2>2. PICK j \in 1..k : methodlist[j].from = pm.from
                          /\ methodlist[j].n = started[pm.from] + 1
    BY <1>3, <2>1, OrderParts
  <2>3. j # 1
    BY <1>2, <2>2
  <2>4. 1 < j
    BY <1>2, <2>3
  <2>5. pm.n < started[pm.from] + 1
    BY <1>2, <2>2, <2>4, OrderParts
  <2> QED
    BY <1>3, <1>4, <1>5, <2>5
<1>7. started' = [started EXCEPT ![pm.from] = started[pm.from] + 1]
  BY <1>1, <1>6
<1>8. started[pm.from] < calls[pm.from]
  BY <1>3, <1>4, <1>5
<1> QED
  BY <1>3, <1>6, <1>7, <1>8

LEMMA PopKeepsOrder ==
  ASSUME TypeOK, InOrder, CheckPop
  PROVE  InOrder'
<1> DEFINE k == Len(methodlist)
           pm == Head(methodlist)
<1>1. /\ k \in Nat
      /\ DOMAIN methodlist = 1..k
      /\ \A i \in 1..k : methodlist[i].from \in Callers /\ methodlist[i].n \in Nat
      /\ \A d \in Callers : calls[d] \in Nat /\ started[d] \in Nat
  BY ListTypes
<1>2. methodlist \in Seq(Method) /\ methodlist # <<>>
  BY ListTypes DEF CheckPop
<1>3. /\ k >= 1
      /\ pm = methodlist[1]
      /\ methodlist' \in Seq(Method)
      /\ Len(methodlist') = k - 1
      /\ \A i \in 1..(k - 1) : methodlist'[i] = methodlist[i + 1]
  BY <1>2, EmptySeq, HeadTailProperties DEF CheckPop
<1>4. DOMAIN methodlist' = 1..(k - 1)
  BY <1>3, LenProperties
<1>5. /\ calls' = calls
      /\ started' = [started EXCEPT ![pm.from] = pm.n]
      /\ DOMAIN started = Callers
      /\ pm.from \in Callers
      /\ pm.n \in Nat
  BY <1>1, <1>3 DEF CheckPop, TypeOK
<1>6. pm.n = started[pm.from] + 1
  BY HeadNext
<1>7. \A i, j \in DOMAIN methodlist' :
        i < j /\ methodlist'[i].from = methodlist'[j].from
          => methodlist'[i].n < methodlist'[j].n
  <2> SUFFICES ASSUME NEW i \in 1..(k - 1), NEW j \in 1..(k - 1), i < j,
                      methodlist'[i].from = methodlist'[j].from
               PROVE  methodlist'[i].n < methodlist'[j].n
    BY <1>4
  <2>1. /\ i + 1 \in 1..k
        /\ j + 1 \in 1..k
        /\ i + 1 < j + 1
    BY <1>1
  <2>2. methodlist'[i] = methodlist[i + 1] /\ methodlist'[j] = methodlist[j + 1]
    BY <1>3
  <2> QED
    BY <2>1, <2>2, OrderParts
<1>8. \A i \in DOMAIN methodlist' :
        /\ started'[methodlist'[i].from] < methodlist'[i].n
        /\ methodlist'[i].n <= calls'[methodlist'[i].from]
  <2> SUFFICES ASSUME NEW i \in 2..k
               PROVE  /\ started'[methodlist[i].from] < methodlist[i].n
                      /\ methodlist[i].n <= calls[methodlist[i].from]
    BY <1>1, <1>3, <1>4, <1>5
  <2>1. methodlist[i].n <= calls[methodlist[i].from]
    BY <1>1 DEF InOrder
  <2>2. CASE methodlist[i].from = pm.from
    <3>1. methodlist[1].n < methodlist[i].n
      BY <1>1, <1>3, <2>2 DEF InOrder
    <3> QED
      BY <1>3, <1>5, <2>1, <2>2, <3>1
  <2>3. CASE methodlist[i].from # pm.from
    BY <1>1, <1>5, <2>1, <2>3 DEF InOrder
  <2> QED
    BY <2>2, <2>3
<1>9. \A d \in Callers : started'[d] <= calls'[d]
  BY <1>1, <1>3, <1>5 DEF InOrder
<1>10. \A d \in Callers : \A n \in (started'[d] + 1)..calls'[d] :
         \E i \in DOMAIN methodlist' :
           methodlist'[i].from = d /\ methodlist'[i].n = n
  <2> SUFFICES ASSUME NEW d \in Callers, NEW n \in (started'[d] + 1)..calls'[d]
               PROVE  \E i \in DOMAIN methodlist' :
                        methodlist'[i].from = d /\ methodlist'[i].n = n
    OBVIOUS
  <2>1. n \in (started[d] + 1)..calls[d] /\ ~(d = pm.from /\ n = pm.n)
    BY <1>1, <1>5, <1>6
  <2>2. PICK i \in 1..k : methodlist[i].from = d /\ methodlist[i].n = n
    BY <2>1, OrderParts
  <2>3. i # 1
    BY <1>3, <2>1, <2>2
  <2>4. i - 1 \in DOMAIN methodlist' /\ (i - 1) + 1 = i /\ i - 1 \in 1..(k - 1)
    BY <1>1, <1>4, <2>3
  <2>5. methodlist'[i - 1] = methodlist[i]
    BY <1>3, <2>4
  <2> QED
    BY <2>2, <2>4, <2>5
<1> QED
  BY <1>7, <1>8, <1>9, <1>10 DEF InOrder

LEMMA KillKeepsOrder ==
  ASSUME TypeOK, InOrder, NEW o \in Objs, Kill(o), UNCHANGED <<calls, started>>
  PROVE  InOrder'
<1>1. DOMAIN methodlist' = DOMAIN methodlist
  BY DEF Kill, Forget
<1>2. \A i \in DOMAIN methodlist :
        /\ methodlist'[i].from = methodlist[i].from
        /\ methodlist'[i].n = methodlist[i].n
  <2>1. \A m \in Method : /\ [m EXCEPT !.obj = NULL].from = m.from
                          /\ [m EXCEPT !.obj = NULL].n = m.n
    BY DEF Method
  <2> QED
    BY <2>1, ListTypes DEF Kill, Forget
<1> QED
  BY <1>1, <1>2 DEF InOrder

\* methodlist holds of every caller the calls not yet taken up, in order: the
\* calls of a task are dispatched one after the other as it made them.
THEOREM OrderKept == Spec => []InOrder
<1>1. Init => InOrder
  <2> SUFFICES ASSUME Init PROVE InOrder
    OBVIOUS
  <2>1. DOMAIN methodlist = {}
    BY EmptySeq DEF Init
  <2>2. \A c \in Callers : started[c] = 0 /\ calls[c] = 0
    BY DEF Init
  <2> QED
    BY <2>1, <2>2 DEF InOrder
<1>2. TypeOK /\ InOrder /\ [Next]_vars => InOrder'
  <2> SUFFICES ASSUME TypeOK, InOrder, [Next]_vars PROVE InOrder'
    OBVIOUS
  <2>1. CASE UNCHANGED <<methodlist, calls, started>>
    BY <2>1 DEF InOrder
  <2>2. ASSUME NEW t \in Threads, ThreadNext(t) PROVE InOrder'
    <3>1. t \in Callers /\ jobobj[t] \in Objs
      BY DEF Callers, TypeOK
    <3>2. CASE Push(t)
      BY <3>1, <3>2, EnqueueKeepsOrder DEF Push, history
    <3>3. CASE SyncEnqueue(t)
      BY <3>1, <3>3, EnqueueKeepsOrder DEF SyncEnqueue, history
    <3>4. CASE \/ SyncRetain(t) \/ SyncNoMemory(t) \/ SyncSignal(t)
               \/ SyncReturn(t) \/ JobSleeps(t) \/ JobWakes(t) \/ EndJob(t)
      BY <2>1, <3>4 DEF SyncRetain, SyncNoMemory, SyncSignal, SyncReturn,
                        JobSleeps, JobWakes, EndJob, history
    <3> QED
      BY <2>2, <3>2, <3>3, <3>4 DEF ThreadNext
  <2>3. CASE MainNext
    <3>1. CASE CheckPop
      BY <3>1, PopKeepsOrder
    <3>2. CASE ~CheckPop
      BY <2>1, <2>3, <3>2
         DEF MainNext, NewInput, LoopCheck, WaitSignals, HandleReleases,
             HandleEnds, CheckEmpty, CheckComplete, SyncCall, MethodReturns,
             HandleThread, history
    <3> QED
      BY <3>1, <3>2
  <2>4. CASE MethodNext
    <3>1. ASSUME NEW o \in Objs, MethodPushes(o) PROVE InOrder'
      BY <3>1, EnqueueKeepsOrder DEF MethodPushes, history, Callers
    <3>2. ASSUME NEW o \in Objs, MethodKills(o) PROVE InOrder'
      BY <3>2, KillKeepsOrder DEF MethodKills, history
    <3>3. ASSUME NEW o \in Objs, MethodPushesSync(o) \/ MethodDisposes(o)
          PROVE  InOrder'
      BY <2>1, <3>3 DEF MethodPushesSync, MethodDisposes, history
    <3> QED
      BY <2>4, <3>1, <3>2, <3>3 DEF MethodNext
  <2>5. CASE Quit
    BY <2>5, KillKeepsOrder, ConstantsAssumption DEF Quit, history
  <2>6. CASE UNCHANGED vars
    BY <2>1, <2>6 DEF vars
  <2> QED
    BY <2>2, <2>3, <2>4, <2>5, <2>6 DEF Next
<1> QED
  BY <1>1, <1>2, TypeCorrect, PTL DEF Spec

-----------------------------------------------------------------------------
(* The calls the main task is in: what each step does to them.             *)

\* A frame that carries a call methodstack_check has taken off the list.
Carrying(f) == f.k = "check" /\ f.pm # NULL

\* The calls the main task is in stay what they are.
SameFlight ==
  /\ InFlight' = InFlight
  /\ \A i \in InFlight : stack'[i] = stack[i]

LEMMA StackParts ==
  ASSUME TypeOK
  PROVE  /\ Len(stack) \in Nat /\ DOMAIN stack = 1..Len(stack)
         /\ \A i \in 1..Len(stack) : stack[i] \in Frame
         /\ Idle <=> Len(stack) = 0
         /\ ~Idle => /\ Len(stack) >= 1
                     /\ Top = stack[Len(stack)] /\ Top \in Frame
                     /\ Front(stack) \in Seq(Frame)
                     /\ DOMAIN Front(stack) = 1..(Len(stack) - 1)
                     /\ Len(Front(stack)) = Len(stack) - 1
                     /\ \A i \in 1..(Len(stack) - 1) : Front(stack)[i] = stack[i]
<1>1. stack \in Seq(Frame)
  BY DEF TypeOK
<1>2. Len(stack) \in Nat /\ DOMAIN stack = 1..Len(stack)
  BY <1>1, LenProperties
<1>3. \A i \in 1..Len(stack) : stack[i] \in Frame
  BY <1>1, ElementOfSeq
<1>4. Idle <=> Len(stack) = 0
  BY <1>1, EmptySeq DEF Idle
<1>5. ASSUME ~Idle
      PROVE  /\ Len(stack) >= 1
             /\ Top = stack[Len(stack)] /\ Top \in Frame
             /\ Front(stack) \in Seq(Frame)
             /\ DOMAIN Front(stack) = 1..(Len(stack) - 1)
             /\ Len(Front(stack)) = Len(stack) - 1
             /\ \A i \in 1..(Len(stack) - 1) : Front(stack)[i] = stack[i]
  <2>1. Len(stack) >= 1 /\ Top = stack[Len(stack)]
    BY <1>2, <1>4, <1>5 DEF Top, Last
  <2>2. /\ Front(stack) \in Seq(Frame) /\ Len(Front(stack)) = Len(stack) - 1
        /\ \A i \in 1..(Len(stack) - 1) : Front(stack)[i] = stack[i]
    BY <1>1, <1>5, FrontProperties DEF Idle
  <2>3. DOMAIN Front(stack) = 1..Len(Front(stack))
    BY <2>2, LenProperties
  <2> QED
    BY <1>2, <1>3, <2>1, <2>2, <2>3
<1> QED
  BY <1>2, <1>3, <1>4, <1>5

\* A frame is put on a stack of frames.
LEMMA FramePut ==
  ASSUME NEW s \in Seq(Frame), NEW f \in Frame
  PROVE  /\ Append(s, f) \in Seq(Frame)
         /\ Len(s) \in Nat /\ DOMAIN s = 1..Len(s)
         /\ Len(Append(s, f)) = Len(s) + 1
         /\ DOMAIN Append(s, f) = 1..(Len(s) + 1)
         /\ \A i \in 1..Len(s) : Append(s, f)[i] = s[i]
         /\ Append(s, f)[Len(s) + 1] = f
<1>1. Append(s, f) \in Seq(Frame) /\ Len(Append(s, f)) = Len(s) + 1
  BY AppendProperties
<1>2. DOMAIN Append(s, f) = 1..(Len(s) + 1)
  BY <1>1, LenProperties
<1> QED
  BY <1>1, <1>2, AppendProperties, LenProperties

\* Frames without a call come and go.
LEMMA FlightCall ==
  ASSUME TypeOK, NEW f \in Frame, ~Carrying(f), stack' = Append(stack, f)
  PROVE  SameFlight
<1>1. stack \in Seq(Frame)
  BY DEF TypeOK
<1>2. /\ DOMAIN stack = 1..Len(stack) /\ Len(stack) \in Nat
      /\ DOMAIN stack' = 1..(Len(stack) + 1)
      /\ \A i \in 1..Len(stack) : stack'[i] = stack[i]
      /\ stack'[Len(stack) + 1] = f
  BY <1>1, FramePut
<1> QED
  BY <1>2 DEF SameFlight, InFlight, Carrying

LEMMA FlightLeave ==
  ASSUME TypeOK, ~Idle, ~Carrying(Top), Leave
  PROVE  SameFlight
<1>1. /\ DOMAIN stack = 1..Len(stack) /\ Len(stack) \in Nat /\ Len(stack) >= 1
      /\ DOMAIN stack' = 1..(Len(stack) - 1)
      /\ \A i \in 1..(Len(stack) - 1) : stack'[i] = stack[i]
      /\ Top = stack[Len(stack)]
  BY StackParts DEF Leave
<1> QED
  BY <1>1 DEF SameFlight, InFlight, Carrying

LEMMA Replaced ==
  ASSUME TypeOK, ~Idle, NEW f \in Frame
  PROVE  /\ Append(Front(stack), f) \in Seq(Frame)
         /\ Len(Append(Front(stack), f)) = Len(stack)
         /\ DOMAIN Append(Front(stack), f) = 1..Len(stack)
         /\ \A i \in 1..(Len(stack) - 1) : Append(Front(stack), f)[i] = stack[i]
         /\ Append(Front(stack), f)[Len(stack)] = f
<1> DEFINE s == Front(stack)
<1>1. /\ s \in Seq(Frame) /\ Len(s) = Len(stack) - 1 /\ Len(stack) \in Nat
      /\ \A i \in 1..(Len(stack) - 1) : s[i] = stack[i]
  BY StackParts
<1> HIDE DEF s
<1>2. /\ Append(s, f) \in Seq(Frame)
      /\ Len(Append(s, f)) = Len(s) + 1
      /\ DOMAIN Append(s, f) = 1..(Len(s) + 1)
      /\ \A i \in 1..Len(s) : Append(s, f)[i] = s[i]
      /\ Append(s, f)[Len(s) + 1] = f
  BY <1>1, FramePut
<1>3. Len(s) + 1 = Len(stack)
  BY <1>1
<1> QED
  BY <1>1, <1>2, <1>3 DEF s

LEMMA FlightReplace ==
  ASSUME TypeOK, ~Idle, ~Carrying(Top), NEW f \in Frame, ~Carrying(f), Replace(f)
  PROVE  SameFlight
<1>1. /\ DOMAIN stack = 1..Len(stack) /\ Len(stack) \in Nat /\ Len(stack) >= 1
      /\ Top = stack[Len(stack)]
  BY StackParts
<1>2. /\ DOMAIN stack' = 1..Len(stack)
      /\ \A i \in 1..(Len(stack) - 1) : stack'[i] = stack[i]
      /\ stack'[Len(stack)] = f
  BY Replaced DEF Replace
<1> QED
  BY <1>1, <1>2 DEF SameFlight, InFlight, Carrying

\* methodstack_check takes a method off the list.
LEMMA FlightPop ==
  ASSUME TypeOK, CheckPop
  PROVE  /\ Len(stack) \in Nat /\ Len(stack) \notin InFlight
         /\ InFlight' = InFlight \cup {Len(stack)}
         /\ \A i \in InFlight : stack'[i] = stack[i]
         /\ stack'[Len(stack)].pm = Head(methodlist)
         /\ Head(methodlist) \in Method
<1> DEFINE pm == Head(methodlist)
           g == [Top EXCEPT !.pm = pm]
           n == Len(stack)
<1>1. /\ DOMAIN stack = 1..n /\ n \in Nat /\ n >= 1
      /\ Top = stack[n] /\ Top \in CheckFrame /\ Top.pm = NULL /\ ~Idle
  BY StackParts, TopTypes DEF CheckPop
<1>2. pm \in Method /\ pm # NULL
  BY HeadTailProperties, NullAssumption DEF CheckPop, TypeOK
<1>3. g \in Frame /\ g.k = "check" /\ g.pm = pm
  <2>1. g \in CheckFrame /\ g.k = "check" /\ g.pm = pm
    BY <1>1, <1>2 DEF CheckFrame
  <2> QED
    BY <2>1 DEF Frame
<1> HIDE DEF g, pm
<1> DEFINE s == Append(Front(stack), g)
<1>4. /\ s \in Seq(Frame) /\ Len(s) = n /\ DOMAIN s = 1..n
      /\ \A i \in 1..(n - 1) : s[i] = stack[i]
      /\ s[n] = g
  BY <1>1, <1>3, Replaced
<1>5. stack' = s \/ (pm.obj # NULL /\ stack' = Append(s, Body(pm.obj)))
  BY DEF CheckPop, Dispatch, g, pm
<1> HIDE DEF s
<1>6. /\ \A i \in 1..n : stack'[i] = s[i]
      /\ DOMAIN stack' = 1..n \/ (DOMAIN stack' = 1..(n + 1) /\ ~Carrying(stack'[n + 1]))
  <2>1. CASE stack' = s
    BY <1>4, <2>1
  <2>2. CASE pm.obj # NULL /\ stack' = Append(s, Body(pm.obj))
    <3> DEFINE b == Body(pm.obj)
    <3>1. b \in Frame /\ ~Carrying(b)
      <4>1. pm.obj \in Objs
        BY <1>2, <2>2 DEF Method
      <4> QED
        BY <4>1, FrameTypes DEF Body, Carrying
    <3>2. stack' = Append(s, b)
      BY <2>2
    <3> HIDE DEF b
    <3>3. /\ DOMAIN stack' = 1..(n + 1)
          /\ \A i \in 1..n : stack'[i] = s[i]
          /\ stack'[n + 1] = b
      BY <1>4, <3>1, <3>2, FramePut
    <3> QED
      BY <3>1, <3>3
  <2> QED
    BY <1>5, <2>1, <2>2
<1>7. n \notin InFlight
  BY <1>1 DEF InFlight
<1>8. InFlight' = InFlight \cup {n}
  BY <1>1, <1>2, <1>3, <1>4, <1>6 DEF InFlight, Carrying
<1>9. \A i \in InFlight : stack'[i] = stack[i]
  BY <1>1, <1>4, <1>6, <1>7 DEF InFlight
<1> QED
  BY <1>1, <1>2, <1>3, <1>4, <1>6, <1>7, <1>8, <1>9 DEF pm

\* The method has returned.
LEMMA FlightComplete ==
  ASSUME TypeOK, CheckComplete
  PROVE  /\ Len(stack) \in InFlight
         /\ InFlight' = InFlight \ {Len(stack)}
         /\ \A i \in InFlight' : stack'[i] = stack[i]
         /\ stack[Len(stack)].pm = Top.pm
         /\ Top.pm \in Method
<1> DEFINE n == Len(stack)
<1>1. /\ DOMAIN stack = 1..n /\ n \in Nat /\ n >= 1
      /\ Top = stack[n] /\ Top \in CheckFrame /\ Top.pm # NULL /\ ~Idle /\ Top.k = "check"
  BY StackParts, TopTypes DEF CheckComplete
<1>2. Top.pm \in Method
  BY <1>1 DEF CheckFrame
<1>3. n \in InFlight
  BY <1>1 DEF InFlight
<1>4. CASE stack' = Front(stack)
  <2>1. DOMAIN stack' = 1..(n - 1) /\ \A i \in 1..(n - 1) : stack'[i] = stack[i]
    BY <1>1, <1>4, StackParts
  <2> QED
    BY <1>1, <1>2, <1>3, <2>1 DEF InFlight
<1>5. CASE stack' = Append(Front(stack), Check(TRUE))
  <2>1. /\ DOMAIN stack' = 1..n /\ \A i \in 1..(n - 1) : stack'[i] = stack[i]
        /\ stack'[n] = Check(TRUE)
    BY <1>1, <1>5, FrameTypes, Replaced
  <2> QED
    BY <1>1, <1>2, <1>3, <2>1 DEF InFlight, Check
<1> QED
  BY <1>4, <1>5 DEF CheckComplete, Continue, Replace, Leave

\* Every other step leaves them alone.
LEMMA FlightKept ==
  ASSUME TypeOK, [Next]_vars, ~CheckPop, ~CheckComplete
  PROVE  SameFlight
<1>0. CASE stack' = stack
  BY <1>0 DEF SameFlight, InFlight
<1>1. ASSUME NEW t \in Threads, ThreadNext(t)
      PROVE  SameFlight
  BY <1>0, <1>1 DEF ThreadNext, Push, SyncRetain, SyncEnqueue, SyncNoMemory, SyncSignal,
     SyncReturn, JobSleeps, JobWakes, EndJob, mainvars
<1>2. CASE NewInput
  <2>1. \A o \in Objs : Body(o) \in Frame /\ ~Carrying(Body(o))
    BY FrameTypes DEF Body, Carrying
  <2> QED
    BY <1>0, <1>2, <2>1, FlightCall DEF NewInput, Call
<1>3. CASE LoopCheck
  <2>1. Check(FALSE) \in Frame /\ ~Carrying(Check(FALSE))
    BY FrameTypes DEF Check, Carrying
  <2> QED
    BY <1>3, <2>1, FlightCall DEF LoopCheck, Call
<1>4. CASE WaitSignals \/ HandleEnds \/ Quit
  BY <1>0, <1>4 DEF WaitSignals, HandleEnds, Quit
<1>5. CASE HandleReleases
  BY <1>5, FlightLeave DEF HandleReleases, Carrying
<1>6. CASE CheckEmpty
  BY <1>6, FlightLeave DEF CheckEmpty, Carrying
<1>7. CASE SyncCall
  <2>1. Top \in SyncFrame
    BY <1>7, StackParts, TopTypes DEF SyncCall
  <2>2. Top.obj \in Objs
    BY <2>1 DEF SyncFrame
  <2>3. Body(Top.obj) \in Frame /\ ~Carrying(Body(Top.obj)) /\ ~Carrying(Top)
    BY <1>7, <2>2, FrameTypes DEF SyncCall, Body, Carrying
  <2> QED
    BY <1>7, <2>3, FlightReplace DEF SyncCall
<1>8. CASE MethodReturns
  BY <1>8, FlightLeave DEF MethodReturns, InMethod, Carrying
<1>9. ASSUME NEW t \in Pool, HandleThread(t)
      PROVE  SameFlight
  <2> DEFINE f == Finishing(t)
             g == Sync(jobobj[t])
             h == Check(TRUE)
  <2>1. ~Carrying(f) /\ ~Carrying(g) /\ ~Carrying(h)
    BY DEF Carrying, Finishing, Sync, Check
  <2>2. stack = <<>> /\ stack' = <<f, g, h>>
    BY <1>9 DEF HandleThread, Idle
  <2> HIDE DEF f, g, h
  <2>3. InFlight = {} /\ InFlight' = {}
    BY <2>1, <2>2 DEF InFlight, Carrying
  <2> QED
    BY <2>3 DEF SameFlight
<1>10. ASSUME NEW o \in Objs,
              MethodPushes(o) \/ MethodDisposes(o) \/ MethodKills(o)
       PROVE  SameFlight
  BY <1>0, <1>10 DEF MethodPushes, MethodDisposes, MethodKills
<1>11. ASSUME NEW o \in Objs, MethodPushesSync(o)
       PROVE  SameFlight
  <2> DEFINE f == Sync(o)
             h == Check(TRUE)
             n == Len(stack)
  <2>1. f \in Frame /\ h \in Frame /\ ~Carrying(f) /\ ~Carrying(h)
    BY FrameTypes DEF Carrying, Sync, Check
  <2>2. stack' = stack \o <<f, h>> /\ stack \in Seq(Frame)
    BY <1>11 DEF MethodPushesSync, TypeOK
  <2> HIDE DEF f, h
  <2>3. n \in Nat /\ DOMAIN stack = 1..n
    BY <2>2, LenProperties
  <2>4. <<f, h>> \in Seq(Frame) /\ Len(<<f, h>>) = 2
    BY <2>1
  <2>5. /\ Len(stack') = n + 2
        /\ stack' \in Seq(Frame)
        /\ \A i \in 1..(n + 2) : stack'[i] = IF i <= n THEN stack[i] ELSE <<f, h>>[i - n]
    BY <2>2, <2>4, ConcatProperties
  <2>6. DOMAIN stack' = 1..(n + 2)
    BY <2>5, LenProperties
  <2>7. \A i \in 1..n : stack'[i] = stack[i]
    BY <2>3, <2>5
  <2>8. stack'[n + 1] = f /\ stack'[n + 2] = h
    <3>1. n + 1 \in 1..(n + 2) /\ n + 2 \in 1..(n + 2) /\ ~(n + 1 <= n) /\ ~(n + 2 <= n)
          /\ (n + 1) - n = 1 /\ (n + 2) - n = 2
      BY <2>3
    <3> QED
      BY <2>5, <3>1
  <2>9. \A i \in 1..(n + 2) : i \in 1..n \/ i = n + 1 \/ i = n + 2
    BY <2>3
  <2> QED
    BY <2>1, <2>3, <2>6, <2>7, <2>8, <2>9 DEF SameFlight, InFlight, Carrying
<1>12. CASE UNCHANGED vars
  BY <1>0, <1>12 DEF vars
<1> QED
  BY <1>1, <1>2, <1>3, <1>4, <1>5, <1>6, <1>7, <1>8, <1>9, <1>10, <1>11, <1>12
     DEF Next, MainNext, MethodNext

\* A step leaves the frames below the innermost one alone; what becomes of
\* the innermost one.
LEMMA StackStep ==
  ASSUME TypeOK, [Next]_vars, ~Idle
  PROVE  /\ \A i \in 1..(Len(stack) - 1) : i \in DOMAIN stack' /\ stack'[i] = stack[i]
         /\ Len(stack) \in DOMAIN stack' =>
              \/ stack'[Len(stack)] = Top
              \/ /\ CheckPop
                 /\ stack'[Len(stack)] = [Top EXCEPT !.pm = Head(methodlist)]
              \/ /\ CheckComplete /\ Top.nobreak
                 /\ stack'[Len(stack)] = Check(TRUE)
              \/ SyncCall /\ stack'[Len(stack)].k = "method"
         /\ \A i \in DOMAIN stack' : i > Len(stack) => stack'[i].k # "finish"
         /\ stack' = <<>> => HandleReleases \/ CheckEmpty \/ MethodReturns \/ CheckComplete
<1> DEFINE n == Len(stack)
<1>1. /\ DOMAIN stack = 1..n /\ n \in Nat /\ n >= 1 /\ Top = stack[n] /\ Top \in Frame
      /\ stack \in Seq(Frame)
  BY StackParts DEF TypeOK
<1>2. CASE stack' = stack
  BY <1>1, <1>2 DEF Idle
<1>3. CASE Leave /\ (HandleReleases \/ CheckEmpty \/ MethodReturns \/ CheckComplete)
  <2>1. DOMAIN stack' = 1..(n - 1) /\ \A i \in 1..(n - 1) : stack'[i] = stack[i]
    BY <1>3, StackParts DEF Leave
  <2>2. \A i \in 1..(n - 1) : i \in DOMAIN stack' /\ stack'[i] = stack[i]
    BY <2>1
  <2>3. n \notin DOMAIN stack' /\ \A i \in DOMAIN stack' : ~(i > n)
    BY <1>1, <2>1
  <2> QED
    BY <1>3, <2>2, <2>3
<1>4. ASSUME NEW f \in Frame, Replace(f)
      PROVE  /\ DOMAIN stack' = 1..n /\ \A i \in 1..(n - 1) : stack'[i] = stack[i]
             /\ stack'[n] = f /\ stack' # <<>>
  <2> DEFINE s == Append(Front(stack), f)
  <2>1. /\ s \in Seq(Frame) /\ Len(s) = n /\ DOMAIN s = 1..n
        /\ \A i \in 1..(n - 1) : s[i] = stack[i]
        /\ s[n] = f
    BY <1>4, Replaced
  <2>2. stack' = s
    BY <1>4 DEF Replace
  <2> HIDE DEF s
  <2>3. s # <<>>
    BY <1>1, <2>1, EmptySeq
  <2> QED
    BY <2>1, <2>2, <2>3
<1>5. CASE CheckPop
  <2> DEFINE pm == Head(methodlist)
             g == [Top EXCEPT !.pm = pm]
             s == Append(Front(stack), g)
  <2>1. pm \in Method
    BY <1>5, HeadTailProperties DEF CheckPop, TypeOK
  <2>2. g \in Frame
    <3>1. g \in CheckFrame
      BY <1>1, <1>5, <2>1, TopTypes DEF CheckPop, CheckFrame
    <3> QED
      BY <3>1 DEF Frame
  <2>3. stack' = s \/ (pm.obj # NULL /\ stack' = Append(s, Body(pm.obj)))
    BY <1>5 DEF CheckPop, Dispatch
  <2> HIDE DEF g, pm
  <2>4. /\ s \in Seq(Frame) /\ Len(s) = n /\ DOMAIN s = 1..n
        /\ \A i \in 1..(n - 1) : s[i] = stack[i]
        /\ s[n] = g
    BY <2>2, Replaced
  <2> HIDE DEF s
  <2>5. CASE stack' = s
    <3>1. /\ \A i \in 1..(n - 1) : i \in DOMAIN stack' /\ stack'[i] = stack[i]
          /\ stack'[n] = g
          /\ \A i \in DOMAIN stack' : ~(i > n)
      BY <1>1, <2>4, <2>5
    <3>2. stack' # <<>>
      BY <1>1, <2>4, <2>5, EmptySeq
    <3> QED
      BY <1>5, <3>1, <3>2 DEF g, pm
  <2>6. CASE pm.obj # NULL /\ stack' = Append(s, Body(pm.obj))
    <3> DEFINE b == Body(pm.obj)
    <3>1. b \in Frame /\ b.k = "method"
      <4>1. pm.obj \in Objs
        BY <2>1, <2>6 DEF Method
      <4> QED
        BY <4>1, FrameTypes DEF Body
    <3>2. stack' = Append(s, b)
      BY <2>6
    <3> HIDE DEF b
    <3>3. /\ DOMAIN stack' = 1..(n + 1)
          /\ \A i \in 1..n : stack'[i] = s[i]
          /\ stack'[n + 1] = b
      BY <2>4, <3>1, <3>2, FramePut
    <3>4. /\ \A i \in 1..(n - 1) : i \in DOMAIN stack' /\ stack'[i] = stack[i]
          /\ stack'[n] = g
          /\ \A i \in DOMAIN stack' : i > n => stack'[i].k # "finish"
      BY <1>1, <2>4, <3>1, <3>3
    <3>5. stack' # <<>>
      BY <1>1, <3>3
    <3> QED
      BY <1>5, <3>4, <3>5 DEF g, pm
  <2> QED
    BY <2>3, <2>5, <2>6
<1>6. CASE CheckComplete
  <2>1. CASE Top.nobreak
    <3>1. Replace(Check(TRUE))
      BY <1>6, <2>1 DEF CheckComplete, Continue
    <3>2. Check(TRUE) \in Frame
      BY FrameTypes
    <3>3. /\ DOMAIN stack' = 1..n /\ \A i \in 1..(n - 1) : stack'[i] = stack[i]
          /\ stack'[n] = Check(TRUE) /\ stack' # <<>>
      BY <1>4, <3>1, <3>2
    <3>4. /\ \A i \in 1..(n - 1) : i \in DOMAIN stack' /\ stack'[i] = stack[i]
          /\ \A i \in DOMAIN stack' : ~(i > n)
      BY <1>1, <3>3
    <3> QED
      BY <1>6, <2>1, <3>3, <3>4
  <2>2. CASE ~Top.nobreak
    BY <1>3, <1>6, <2>2 DEF CheckComplete, Continue
  <2> QED
    BY <2>1, <2>2
<1>7. CASE SyncCall
  <2>1. Top.obj \in Objs
    BY <1>1, <1>7, TopTypes DEF SyncCall, SyncFrame
  <2>2. Body(Top.obj) \in Frame /\ Body(Top.obj).k = "method"
    BY <2>1, FrameTypes DEF Body
  <2>3. Replace(Body(Top.obj))
    BY <1>7 DEF SyncCall
  <2>4. /\ DOMAIN stack' = 1..n /\ \A i \in 1..(n - 1) : stack'[i] = stack[i]
        /\ stack'[n] = Body(Top.obj) /\ stack' # <<>>
    BY <1>4, <2>2, <2>3
  <2>5. /\ \A i \in 1..(n - 1) : i \in DOMAIN stack' /\ stack'[i] = stack[i]
        /\ \A i \in DOMAIN stack' : ~(i > n)
    BY <1>1, <2>4
  <2>6. stack'[n].k = "method"
    BY <2>2, <2>4
  <2> QED
    BY <1>7, <2>4, <2>5, <2>6
<1>8. ASSUME NEW o \in Objs, MethodPushesSync(o)
      PROVE  /\ DOMAIN stack' = 1..(n + 2)
             /\ \A i \in 1..n : stack'[i] = stack[i]
             /\ stack'[n + 1].k = "sync" /\ stack'[n + 2].k = "check"
  <2> DEFINE f == Sync(o)
             h == Check(TRUE)
  <2>1. f \in Frame /\ h \in Frame /\ f.k = "sync" /\ h.k = "check"
    BY FrameTypes DEF Sync, Check
  <2>2. stack' = stack \o <<f, h>>
    BY <1>8 DEF MethodPushesSync
  <2> HIDE DEF f, h
  <2>3. <<f, h>> \in Seq(Frame) /\ Len(<<f, h>>) = 2
    BY <2>1
  <2>4. /\ Len(stack') = n + 2
        /\ stack' \in Seq(Frame)
        /\ \A i \in 1..(n + 2) : stack'[i] = IF i <= n THEN stack[i] ELSE <<f, h>>[i - n]
    BY <1>1, <2>2, <2>3, ConcatProperties
  <2>5. DOMAIN stack' = 1..(n + 2)
    BY <2>4, LenProperties
  <2>6. n + 1 \in 1..(n + 2) /\ n + 2 \in 1..(n + 2) /\ ~(n + 1 <= n) /\ ~(n + 2 <= n)
        /\ (n + 1) - n = 1 /\ (n + 2) - n = 2
    BY <1>1
  <2>7. stack'[n + 1] = f /\ stack'[n + 2] = h
    BY <2>4, <2>6
  <2>8. \A i \in 1..n : stack'[i] = stack[i]
    BY <1>1, <2>4
  <2> QED
    BY <2>1, <2>5, <2>7, <2>8
<1>9. CASE \E o \in Objs : MethodPushesSync(o)
  <2>1. /\ DOMAIN stack' = 1..(n + 2)
        /\ \A i \in 1..n : stack'[i] = stack[i]
        /\ stack'[n + 1].k = "sync" /\ stack'[n + 2].k = "check"
    BY <1>8, <1>9
  <2>2. \A i \in 1..(n + 2) : i > n => i = n + 1 \/ i = n + 2
    BY <1>1
  <2>3. \A i \in DOMAIN stack' : i > n => stack'[i].k # "finish"
    <3>1. "sync" # "finish" /\ "check" # "finish"
      OBVIOUS
    <3> QED
      BY <2>1, <2>2, <3>1
  <2>4. /\ \A i \in 1..(n - 1) : i \in DOMAIN stack' /\ stack'[i] = stack[i]
        /\ stack'[n] = Top
    BY <1>1, <2>1
  <2>5. stack' # <<>>
    <3>1. 1 \in DOMAIN stack'
      BY <1>1, <2>1
    <3>2. DOMAIN <<>> = {}
      OBVIOUS
    <3> QED
      BY <3>1, <3>2
  <2> QED
    BY <2>3, <2>4, <2>5
<1>10. CASE HandleReleases \/ CheckEmpty \/ MethodReturns
  BY <1>3, <1>10 DEF HandleReleases, CheckEmpty, MethodReturns
<1>11. CASE \E t \in Threads : ThreadNext(t)
  BY <1>2, <1>11 DEF ThreadNext, Push, SyncRetain, SyncEnqueue, SyncNoMemory, SyncSignal,
     SyncReturn, JobSleeps, JobWakes, EndJob, mainvars
<1>12. CASE \E o \in Objs : MethodPushes(o) \/ MethodDisposes(o) \/ MethodKills(o)
  BY <1>2, <1>12 DEF MethodPushes, MethodDisposes, MethodKills
<1>13. CASE UNCHANGED vars
  BY <1>2, <1>13 DEF vars
<1> QED
  BY <1>5, <1>6, <1>7, <1>9, <1>10, <1>11, <1>12, <1>13
     DEF Next, MainNext, MethodNext, NewInput, LoopCheck, WaitSignals, HandleEnds,
         HandleThread, Quit

-----------------------------------------------------------------------------
(* Signals.                                                                *)

\* When doloop goes on to Wait(), the methodstack_check before it is the
\* outermost call of the main task.
Bottom ==
  mpc = "wait" /\ ~Idle => stack[1].k = "check" /\ ~stack[1].nobreak

LEMMA BottomKept ==
  ASSUME TypeOK, Bottom, [Next]_vars
  PROVE  Bottom'
<1> SUFFICES ASSUME mpc' = "wait", ~Idle'
             PROVE  stack'[1].k = "check" /\ ~stack'[1].nobreak
  BY DEF Bottom
<1>1. CASE Idle
  <2>1. CASE LoopCheck
    <3>1. stack' = <<Check(FALSE)>>
      BY <1>1, <2>1 DEF LoopCheck, Call, Idle
    <3> QED
      BY <3>1 DEF Check
  <2>2. CASE ~LoopCheck
    <3>1. stack' = stack
      BY <1>1, <2>2 DEF Next, vars, ThreadNext, MainNext, MethodNext, NewInput, WaitSignals,
         HandleReleases, HandleEnds, CheckPop, CheckEmpty, CheckComplete, SyncCall,
         MethodReturns, HandleThread, MethodPushes, MethodPushesSync, MethodDisposes,
         MethodKills, Quit, InMethod, Push, SyncRetain, SyncEnqueue, SyncNoMemory,
         SyncSignal, SyncReturn, JobSleeps, JobWakes, EndJob, mainvars
    <3> QED
      BY <1>1, <3>1 DEF Idle
  <2> QED
    BY <2>1, <2>2
<1>2. CASE ~Idle
  <2> DEFINE n == Len(stack)
  <2>1. mpc = "wait"
    BY <1>2 DEF Next, vars, ThreadNext, MainNext, MethodNext, NewInput, LoopCheck,
       WaitSignals, HandleReleases, HandleEnds, CheckPop, CheckEmpty, CheckComplete,
       SyncCall, MethodReturns, HandleThread, MethodPushes, MethodPushesSync,
       MethodDisposes, MethodKills, Quit, Push, SyncRetain, SyncEnqueue, SyncNoMemory,
       SyncSignal, SyncReturn, JobSleeps, JobWakes, EndJob, mainvars
  <2>2. stack[1].k = "check" /\ ~stack[1].nobreak
    BY <1>2, <2>1 DEF Bottom
  <2>3. /\ n \in Nat /\ n >= 1 /\ DOMAIN stack = 1..n /\ Top = stack[n] /\ Top \in Frame
    BY <1>2, StackParts
  <2>4. CASE n > 1
    <3>1. 1 \in 1..(n - 1)
      BY <2>3, <2>4
    <3>2. stack'[1] = stack[1]
      BY <1>2, <3>1, StackStep
    <3> QED
      BY <2>2, <3>2
  <2>5. CASE n = 1
    <3>1. 1 \in DOMAIN stack'
      <4>1. TypeOK'
        <5>1. CASE \E t \in Threads : ThreadNext(t)
          BY <5>1, TypeThreads
        <5>2. CASE UNCHANGED vars
          BY <5>2 DEF vars, TypeOK
        <5> QED
          BY <5>1, <5>2, TypeMain, TypeMethods DEF Next
      <4>2. stack' \in Seq(Frame) /\ stack' # <<>>
        BY <4>1 DEF TypeOK, Idle
      <4>3. Len(stack') \in Nat \ {0} /\ DOMAIN stack' = 1..Len(stack')
        BY <4>2, EmptySeq, LenProperties
      <4> QED
        BY <4>3
    <3>2. CASE stack'[1] = Top
      BY <2>2, <2>3, <2>5, <3>2
    <3>3. CASE CheckPop /\ stack'[1] = [Top EXCEPT !.pm = Head(methodlist)]
      <4>1. Top \in CheckFrame
        BY <2>2, <2>3, <2>5, TopTypes
      <4>2. [Top EXCEPT !.pm = Head(methodlist)].k = Top.k
            /\ [Top EXCEPT !.pm = Head(methodlist)].nobreak = Top.nobreak
        BY <4>1 DEF CheckFrame
      <4> QED
        BY <2>2, <2>3, <2>5, <3>3, <4>2
    <3>4. ~Top.nobreak /\ Top.k # "sync"
      BY <2>2, <2>3, <2>5
    <3> QED
      BY <1>2, <2>5, <3>1, <3>2, <3>3, <3>4, StackStep DEF SyncCall
  <2> QED
    BY <2>3, <2>4, <2>5
<1> QED
  BY <1>1, <1>2

LEMMA EnqueueParts ==
  ASSUME TypeOK, NEW c \in Callers, NEW o \in Objs, NEW sync \in BOOLEAN,
         Enqueue(c, o, sync)
  PROVE  /\ DOMAIN methodlist' = 1..(Len(methodlist) + 1)
         /\ \A j \in 1..Len(methodlist) : methodlist'[j] = methodlist[j]
         /\ methodlist'[Len(methodlist) + 1].from = c
         /\ methodlist'[Len(methodlist) + 1].n = calls[c] + 1
         /\ methodlist'[Len(methodlist) + 1].obj = o
         /\ methodlist'[Len(methodlist) + 1].sync = sync
<1> DEFINE pm == [from |-> c, n |-> calls[c] + 1, obj |-> o, sync |-> sync]
<1>1. pm \in Method
  <2>1. calls[c] + 1 \in 1..MaxCalls
    BY ConstantsAssumption DEF Enqueue, TypeOK
  <2> QED
    BY <2>1 DEF Method
<1>2. pm.from = c /\ pm.n = calls[c] + 1 /\ pm.obj = o /\ pm.sync = sync
  OBVIOUS
<1>3. methodlist' = Append(methodlist, pm) /\ methodlist \in Seq(Method)
  BY DEF Enqueue, AddTail, TypeOK
<1> HIDE DEF pm
<1> QED
  BY <1>1, <1>2, <1>3, AppendProperties, LenProperties

LEMMA NoWakeupLostKept ==
  ASSUME TypeOK, Bottom, NoWakeupLost, [Next]_vars
  PROVE  NoWakeupLost'
<1> DEFINE Signalled(pm, pc) ==
             /\ pm.from # Main
             /\ pc[pm.from] \in {"run", "link", "signal", "asleep"}
             /\ pm.sync => pc[pm.from] = "signal"
<1> SUFFICES ASSUME mpc' = "wait", Idle', ~sigE', ~sigT', NEW i \in DOMAIN methodlist'
             PROVE  Signalled(methodlist'[i], tpc')
  BY DEF NoWakeupLost
<1>1. CASE UNCHANGED <<methodlist, tpc, mpc, stack, sigE, sigT>>
  BY <1>1 DEF NoWakeupLost, Idle
<1>2. ASSUME mpc = "wait", Idle, ~sigE, ~sigT
      PROVE  \A j \in 1..Len(methodlist) : Signalled(methodlist[j], tpc)
  BY <1>2, ListTypes DEF NoWakeupLost
<1>3. ASSUME NEW t \in Threads, ThreadNext(t)
      PROVE  Signalled(methodlist'[i], tpc')
  <2>1. mpc = "wait" /\ Idle /\ ~sigE /\ ~sigT /\ ~SyncSignal(t) /\ ~EndJob(t)
    <3>1. mpc' = mpc /\ stack' = stack /\ (sigE' = sigE \/ sigE') /\ (sigT' = sigT \/ sigT')
      BY <1>3 DEF ThreadNext, Push, SyncRetain, SyncEnqueue, SyncNoMemory, SyncSignal,
         SyncReturn, JobSleeps, JobWakes, EndJob, mainvars
    <3>2. ~SyncSignal(t) /\ ~EndJob(t)
      BY DEF SyncSignal, EndJob
    <3> QED
      BY <3>1, <3>2 DEF Idle
  <2>2. \A j \in 1..Len(methodlist) : Signalled(methodlist[j], tpc)
    BY <1>2, <2>1
  <2>3. /\ DOMAIN methodlist = 1..Len(methodlist) /\ Len(methodlist) \in Nat
        /\ \A j \in 1..Len(methodlist) : methodlist[j].from \in Callers
    BY ListTypes
  <2>4. tpc \in [Threads -> TPC] /\ t # Main
    BY ConstantsAssumption DEF TypeOK
  <2> HIDE DEF Signalled
  <2>5. ASSUME NEW c \in Callers, NEW o \in Objs, NEW sync \in BOOLEAN,
               Enqueue(c, o, sync)
        PROVE  /\ DOMAIN methodlist' = 1..(Len(methodlist) + 1)
               /\ \A j \in 1..Len(methodlist) : methodlist'[j] = methodlist[j]
               /\ methodlist'[Len(methodlist) + 1].from = c
               /\ methodlist'[Len(methodlist) + 1].sync = sync
    BY <2>5, EnqueueParts
  <2>6. t \in Callers /\ jobobj[t] \in Objs
    BY DEF Callers, TypeOK
  <2>7. CASE Push(t)
    <3>1. Enqueue(t, jobobj[t], FALSE) /\ tpc' = tpc /\ tpc[t] = "run"
      BY <2>7 DEF Push, threadvars
    <3>2. i \in 1..Len(methodlist) \/ i = Len(methodlist) + 1
      <4>1. i \in 1..(Len(methodlist) + 1)
        BY <2>5, <2>6, <3>1
      <4> QED
        BY <2>3, <4>1
    <3>3. CASE i \in 1..Len(methodlist)
      <4>1. methodlist'[i] = methodlist[i]
        BY <2>5, <2>6, <3>1, <3>3
      <4> QED
        BY <2>2, <3>1, <3>3, <4>1
    <3>4. CASE i = Len(methodlist) + 1
      <4>1. methodlist'[i].from = t /\ methodlist'[i].sync = FALSE
        BY <2>5, <2>6, <3>1, <3>4
      <4> QED
        BY <2>4, <3>1, <4>1 DEF Signalled
    <3> QED
      BY <3>2, <3>3, <3>4
  <2>8. CASE SyncEnqueue(t)
    <3>1. Enqueue(t, jobobj[t], TRUE) /\ tpc' = [tpc EXCEPT ![t] = "signal"]
      BY <2>8 DEF SyncEnqueue
    <3>2. tpc'[t] = "signal" /\ \A u \in Threads : u # t => tpc'[u] = tpc[u]
      BY <2>4, <3>1
    <3>3. CASE i \in 1..Len(methodlist)
      <4>1. methodlist'[i] = methodlist[i] /\ Signalled(methodlist[i], tpc)
        BY <2>2, <2>5, <2>6, <3>1, <3>3
      <4>2. methodlist[i].from \in Threads
        BY <2>3, <3>3, <4>1 DEF Callers, Signalled
      <4> QED
        BY <3>2, <4>1, <4>2 DEF Signalled
    <3>4. CASE i = Len(methodlist) + 1
      <4>1. methodlist'[i].from = t /\ methodlist'[i].sync = TRUE
        BY <2>5, <2>6, <3>1, <3>4
      <4> QED
        BY <2>4, <3>2, <4>1 DEF Signalled
    <3>5. i \in 1..Len(methodlist) \/ i = Len(methodlist) + 1
      <4>1. i \in 1..(Len(methodlist) + 1)
        BY <2>5, <2>6, <3>1
      <4> QED
        BY <2>3, <4>1
    <3> QED
      BY <3>3, <3>4, <3>5
  <2>9. CASE SyncRetain(t) \/ SyncNoMemory(t) \/ SyncReturn(t) \/ JobSleeps(t) \/ JobWakes(t)
    <3>1. /\ methodlist' = methodlist
          /\ \/ tpc[t] \in {"run", "asleep"}
                /\ \E to \in {"link", "signal", "asleep", "run"} :
                     tpc' = [tpc EXCEPT ![t] = to]
             \/ tpc[t] = "wait" /\ tpc' = [tpc EXCEPT ![t] = "run"]
      BY <2>9 DEF SyncRetain, SyncNoMemory, SyncReturn, JobSleeps, JobWakes
    <3>2. Signalled(methodlist[i], tpc) /\ i \in 1..Len(methodlist)
      BY <2>2, <2>3, <3>1
    <3>3. methodlist[i].from \in Threads
      BY <2>3, <3>2 DEF Callers, Signalled
    <3> QED
      BY <2>4, <3>1, <3>2, <3>3 DEF Signalled
  <2> QED
    BY <1>3, <2>1, <2>7, <2>8, <2>9 DEF ThreadNext
\* No other step but CheckEmpty lets the main task wait.
<1>4. CASE MainNext /\ mpc = "wait" /\ ~Idle
  <2>1. HandleReleases \/ CheckEmpty \/ MethodReturns \/ CheckComplete
    BY <1>4, StackStep DEF Idle
  <2>2. Len(stack) \in Nat /\ Len(stack) >= 1 /\ Top = stack[Len(stack)]
        /\ Len(Front(stack)) = Len(stack) - 1
    BY <1>4, StackParts
  <2>3. CASE CheckEmpty
    BY <2>3 DEF CheckEmpty
  <2>4. CASE HandleReleases \/ MethodReturns
    <3>1. Len(stack) = 1
      BY <2>2, <2>4 DEF HandleReleases, MethodReturns, Leave, Idle
    <3> QED
      BY <1>4, <2>2, <2>4, <3>1 DEF Bottom, HandleReleases, MethodReturns, InMethod
  <2>5. CASE CheckComplete
    <3>1. ~Top.nobreak
      <4>1. SUFFICES ASSUME Top.nobreak PROVE FALSE
        OBVIOUS
      <4>2. stack' = Append(Front(stack), Check(TRUE)) /\ Check(TRUE) \in Frame
        BY <2>5, <4>1, FrameTypes DEF CheckComplete, Continue, Replace
      <4>3. Len(stack') = Len(stack)
        BY <1>4, <4>2, Replaced
      <4> QED
        BY <2>2, <4>3 DEF Idle
    <3> QED
      BY <2>5, <3>1 DEF CheckComplete, Continue
  <2> QED
    BY <2>1, <2>3, <2>4, <2>5
<1>5. CASE MainNext /\ ~(mpc = "wait" /\ ~Idle)
  <2>1. CASE LoopCheck
    <3>1. stack' = <<Check(FALSE)>>
      BY <2>1 DEF LoopCheck, Call, Idle
    <3> QED
      BY <3>1 DEF Idle
  <2> QED
    BY <1>5, <2>1 DEF MainNext, NewInput, WaitSignals, HandleReleases, HandleEnds, CheckPop,
       CheckEmpty, CheckComplete, SyncCall, MethodReturns, HandleThread, InMethod
<1>6. CASE MethodNext
  <2>1. ~Idle
    BY <1>6 DEF MethodNext, MethodPushes, MethodPushesSync, MethodDisposes, MethodKills,
       InMethod
  <2>2. stack' # stack
    BY <2>1 DEF Idle
  <2>3. PICK o \in Objs : MethodPushesSync(o)
    BY <1>6, <2>2 DEF MethodNext, MethodPushes, MethodDisposes, MethodKills
  <2>4. \/ HandleReleases \/ CheckEmpty \/ MethodReturns \/ CheckComplete
    BY <2>1, StackStep DEF Idle
  <2>5. acts' # acts /\ Top.k = "method"
    <3>1. acts \in Nat
      BY ConstantsAssumption DEF TypeOK
    <3> QED
      BY <2>3, <3>1 DEF MethodPushesSync, InMethod, Act
  <2> QED
    BY <2>4, <2>5 DEF HandleReleases, CheckEmpty, MethodReturns, CheckComplete, mainvars
<1>7. CASE Quit
  BY <1>7 DEF Quit
<1> QED
  BY <1>1, <1>3, <1>4, <1>5, <1>6, <1>7 DEF Next, vars

\* The main task never sleeps over work it was told of: whatever is on
\* methodlist while doloop is in Wait() comes from threads that have yet to
\* signal it, however the pushers interleave with the two methodstack_check
\* of a turn and the Wait() after them.
THEOREM WakeupsKept == Spec => []NoWakeupLost
<1>1. Init => Bottom /\ NoWakeupLost
  BY DEF Init, Bottom, NoWakeupLost
<1>2. TypeOK /\ Bottom /\ [Next]_vars => Bottom'
  BY BottomKept
<1>3. TypeOK /\ Bottom /\ NoWakeupLost /\ [Next]_vars => NoWakeupLost'
  BY NoWakeupLostKept
<1> QED
  BY <1>1, <1>2, <1>3, TypeCorrect, PTL DEF Spec

-----------------------------------------------------------------------------
(* Counting the calls in the places they can be in.                        *)

SyncListed(t) ==
  {i \in DOMAIN methodlist : methodlist[i].from = t /\ methodlist[i].sync}
SyncFlight(t) == {i \in InFlight : stack[i].pm.from = t /\ stack[i].pm.sync}
ObjFlight(o) == {i \in InFlight : stack[i].pm.obj = o}

One(p) == IF p THEN 1 ELSE 0

LEMMA CountsFinite ==
  ASSUME TypeOK
  PROVE  /\ \A t : IsFiniteSet(SyncListed(t)) /\ Cardinality(SyncListed(t)) \in Nat
         /\ \A t : IsFiniteSet(SyncFlight(t)) /\ Cardinality(SyncFlight(t)) \in Nat
         /\ \A o : IsFiniteSet(Pending(o)) /\ Cardinality(Pending(o)) \in Nat
         /\ \A o : IsFiniteSet(ObjFlight(o)) /\ Cardinality(ObjFlight(o)) \in Nat
<1>1. IsFiniteSet(DOMAIN methodlist)
  <2>1. DOMAIN methodlist = 1..Len(methodlist) /\ Len(methodlist) \in Nat
    BY ListTypes
  <2> QED
    BY <2>1, FS_Interval
<1>2. IsFiniteSet(DOMAIN stack)
  <2>1. DOMAIN stack = 1..Len(stack) /\ Len(stack) \in Nat
    BY StackParts
  <2> QED
    BY <2>1, FS_Interval
<1>3. \A S \in SUBSET DOMAIN methodlist : IsFiniteSet(S) /\ Cardinality(S) \in Nat
  BY <1>1, FS_Subset, FS_CardinalityType
<1>4. \A S \in SUBSET DOMAIN stack : IsFiniteSet(S) /\ Cardinality(S) \in Nat
  BY <1>2, FS_Subset, FS_CardinalityType
<1>5. \A t : SyncListed(t) \in SUBSET DOMAIN methodlist /\ SyncFlight(t) \in SUBSET DOMAIN stack
  BY DEF SyncListed, SyncFlight, InFlight
<1>6. \A o : Pending(o) \in SUBSET DOMAIN methodlist /\ ObjFlight(o) \in SUBSET DOMAIN stack
  BY DEF Pending, ObjFlight, InFlight
<1> QED
  BY <1>3, <1>4, <1>5, <1>6

\* A set of positions of a sequence, counted again when its head is gone.
LEMMA ShiftCount ==
  ASSUME NEW n \in Nat, n >= 1, NEW A \in SUBSET (1..n),
         NEW B, B = {j \in 1..(n - 1) : j + 1 \in A}
  PROVE  Cardinality(B) \in Nat /\ Cardinality(A) = Cardinality(B) + One(1 \in A)
<1> DEFINE C == A \ {1}
<1>1. IsFiniteSet(1..n) /\ IsFiniteSet(1..(n - 1))
  BY FS_Interval
<1>2. IsFiniteSet(A) /\ IsFiniteSet(B)
  BY <1>1, FS_Subset
<1>3. IsFiniteSet(C) /\ Cardinality(C) = (IF 1 \in A THEN Cardinality(A) - 1 ELSE Cardinality(A))
  BY <1>2, FS_RemoveElement
<1>4. ExistsBijection(B, C)
  <2> DEFINE f == [j \in B |-> j + 1]
  <2>1. f \in [B -> C]
    OBVIOUS
  <2>2. \A i, j \in B : i # j => f[i] # f[j]
    OBVIOUS
  <2>3. ASSUME NEW k \in C
        PROVE  \E j \in B : f[j] = k
    <3>1. k - 1 \in B /\ f[k - 1] = k
      OBVIOUS
    <3> QED
      BY <3>1
  <2>4. f \in Bijection(B, C)
    BY <2>1, <2>2, <2>3 DEF Bijection, Injection, Surjection, IsInjective
  <2> QED
    BY <2>4 DEF ExistsBijection
<1>5. Cardinality(C) = Cardinality(B)
  BY <1>2, <1>4, FS_Bijection
<1>6. Cardinality(A) \in Nat /\ Cardinality(B) \in Nat
  BY <1>2, FS_CardinalityType
<1> QED
  BY <1>3, <1>5, <1>6 DEF One

\* A method is pushed.
LEMMA CountEnqueue ==
  ASSUME TypeOK, NEW c \in Callers, NEW o \in Objs, NEW sync \in BOOLEAN,
         Enqueue(c, o, sync)
  PROVE  /\ sync = FALSE => \A t : Cardinality(SyncListed(t)') = Cardinality(SyncListed(t))
         /\ sync = TRUE =>
              \A t : Cardinality(SyncListed(t)') =
                      Cardinality(SyncListed(t)) + (IF c = t THEN 1 ELSE 0)
         /\ \A x : Cardinality(Pending(x)') = Cardinality(Pending(x)) + (IF o = x THEN 1 ELSE 0)
<1> DEFINE k == Len(methodlist)
<1>1. /\ k \in Nat /\ DOMAIN methodlist = 1..k
      /\ DOMAIN methodlist' = 1..(k + 1)
      /\ \A j \in 1..k : methodlist'[j] = methodlist[j]
      /\ methodlist'[k + 1].from = c
      /\ methodlist'[k + 1].obj = o
      /\ methodlist'[k + 1].sync = sync
  BY ListTypes, EnqueueParts
<1> HIDE DEF k
<1>2. ASSUME NEW t
      PROVE  /\ sync = FALSE => Cardinality(SyncListed(t)') = Cardinality(SyncListed(t))
             /\ sync = TRUE =>
                  Cardinality(SyncListed(t)') =
                    Cardinality(SyncListed(t)) + (IF c = t THEN 1 ELSE 0)
  <2>1. k + 1 \notin SyncListed(t)
    BY <1>1 DEF SyncListed
  <2>2. CASE c = t /\ sync = TRUE
    <3>1. k + 1 \in SyncListed(t)'
      <4>1. methodlist'[k + 1].sync /\ methodlist'[k + 1].from = t
        BY <1>1, <2>2, Zenon
      <4>2. k + 1 \in DOMAIN methodlist'
        BY <1>1
      <4> QED
        BY <4>1, <4>2 DEF SyncListed
    <3>2. \A i \in 1..k : i \in SyncListed(t)' <=> i \in SyncListed(t)
      BY <1>1 DEF SyncListed
    <3>3. SyncListed(t) \subseteq 1..k /\ SyncListed(t)' \subseteq 1..(k + 1)
      BY <1>1 DEF SyncListed
    <3>4. SyncListed(t)' = SyncListed(t) \cup {k + 1}
      BY <1>1, <3>1, <3>2, <3>3
    <3> QED
      BY <2>1, <2>2, <3>4, CountsFinite, FS_AddElement DEF One
  <2>3. CASE ~(c = t /\ sync = TRUE)
    <3>1. SyncListed(t)' = SyncListed(t)
      BY <1>1, <2>3 DEF SyncListed
    <3> QED
      BY <2>3, <3>1, CountsFinite DEF One
  <2> QED
    BY <2>2, <2>3
<1>3. ASSUME NEW x
      PROVE  Cardinality(Pending(x)') = Cardinality(Pending(x)) + (IF o = x THEN 1 ELSE 0)
  <2>1. k + 1 \notin Pending(x)
    BY <1>1 DEF Pending
  <2>2. CASE o = x
    <3>1. Pending(x)' = Pending(x) \cup {k + 1}
      BY <1>1, <2>2 DEF Pending
    <3> QED
      BY <2>1, <2>2, <3>1, CountsFinite, FS_AddElement DEF One
  <2>3. CASE o # x
    <3>1. Pending(x)' = Pending(x)
      BY <1>1, <2>3 DEF Pending
    <3> QED
      BY <2>3, <3>1, CountsFinite DEF One
  <2> QED
    BY <2>2, <2>3
<1> QED
  BY <1>2, <1>3

\* methodstack_check takes the head of the list up.
LEMMA CountPop ==
  ASSUME TypeOK, CheckPop, NEW pm, pm = Head(methodlist)
  PROVE  /\ \A t : /\ Cardinality(SyncListed(t)') \in Nat
                   /\ Cardinality(SyncListed(t)) =
                        Cardinality(SyncListed(t)') + One(pm.from = t /\ pm.sync)
                   /\ Cardinality(SyncFlight(t)') =
                        Cardinality(SyncFlight(t)) + One(pm.from = t /\ pm.sync)
         /\ \A o : /\ Cardinality(Pending(o)') \in Nat
                   /\ Cardinality(Pending(o)) = Cardinality(Pending(o)') + One(pm.obj = o)
                   /\ Cardinality(ObjFlight(o)') = Cardinality(ObjFlight(o)) + One(pm.obj = o)
<1> DEFINE k == Len(methodlist)
           n == Len(stack)
<1>1. /\ k \in Nat /\ DOMAIN methodlist = 1..k /\ k >= 1
      /\ pm = methodlist[1]
      /\ DOMAIN methodlist' = 1..(k - 1)
      /\ \A j \in 1..(k - 1) : methodlist'[j] = methodlist[j + 1]
  <2>1. methodlist \in Seq(Method) /\ methodlist # <<>> /\ methodlist' = Tail(methodlist)
    BY DEF TypeOK, CheckPop
  <2>2. /\ Tail(methodlist) \in Seq(Method) /\ Len(Tail(methodlist)) = k - 1
        /\ \A j \in 1..(k - 1) : Tail(methodlist)[j] = methodlist[j + 1]
    BY <2>1, HeadTailProperties
  <2>3. DOMAIN Tail(methodlist) = 1..(k - 1)
    BY <2>2, LenProperties
  <2>4. k \in Nat /\ k # 0
    BY <2>1, EmptySeq, LenProperties
  <2>5. Head(methodlist) = methodlist[1]
    BY <2>1
  <2> QED
    BY <2>1, <2>2, <2>3, <2>4, <2>5, ListTypes
<1>2. /\ n \notin InFlight /\ InFlight' = InFlight \cup {n}
      /\ \A i \in InFlight : stack'[i] = stack[i]
      /\ stack'[n].pm = pm
  BY FlightPop
<1> HIDE DEF k, n
<1>3. ASSUME NEW t
      PROVE  /\ Cardinality(SyncListed(t)') \in Nat
             /\ Cardinality(SyncListed(t)) =
                  Cardinality(SyncListed(t)') + One(pm.from = t /\ pm.sync)
             /\ Cardinality(SyncFlight(t)') =
                  Cardinality(SyncFlight(t)) + One(pm.from = t /\ pm.sync)
  <2>1. SyncListed(t)' = {j \in 1..(k - 1) : j + 1 \in SyncListed(t)}
    BY <1>1 DEF SyncListed
  <2>2. SyncListed(t) \in SUBSET (1..k) /\ (1 \in SyncListed(t) <=> (pm.from = t /\ pm.sync))
    BY <1>1 DEF SyncListed
  <2>3. /\ Cardinality(SyncListed(t)') \in Nat
        /\ Cardinality(SyncListed(t)) = Cardinality(SyncListed(t)') + One(1 \in SyncListed(t))
    BY <1>1, <2>1, <2>2, ShiftCount
  <2>4. SyncFlight(t)' = IF pm.from = t /\ pm.sync THEN SyncFlight(t) \cup {n} ELSE SyncFlight(t)
    BY <1>2 DEF SyncFlight
  <2>5. n \notin SyncFlight(t)
    BY <1>2 DEF SyncFlight
  <2>6. Cardinality(SyncFlight(t)') = Cardinality(SyncFlight(t)) + One(pm.from = t /\ pm.sync)
    BY <2>4, <2>5, CountsFinite, FS_AddElement DEF One
  <2> QED
    BY <2>2, <2>3, <2>6 DEF One
<1>4. ASSUME NEW o
      PROVE  /\ Cardinality(Pending(o)') \in Nat
             /\ Cardinality(Pending(o)) = Cardinality(Pending(o)') + One(pm.obj = o)
             /\ Cardinality(ObjFlight(o)') = Cardinality(ObjFlight(o)) + One(pm.obj = o)
  <2>1. Pending(o)' = {j \in 1..(k - 1) : j + 1 \in Pending(o)}
    BY <1>1 DEF Pending
  <2>2. Pending(o) \in SUBSET (1..k) /\ (1 \in Pending(o) <=> pm.obj = o)
    BY <1>1 DEF Pending
  <2>3. /\ Cardinality(Pending(o)') \in Nat
        /\ Cardinality(Pending(o)) = Cardinality(Pending(o)') + One(1 \in Pending(o))
    BY <1>1, <2>1, <2>2, ShiftCount
  <2>4. ObjFlight(o)' = IF pm.obj = o THEN ObjFlight(o) \cup {n} ELSE ObjFlight(o)
    BY <1>2 DEF ObjFlight
  <2>5. n \notin ObjFlight(o)
    BY <1>2 DEF ObjFlight
  <2>6. Cardinality(ObjFlight(o)') = Cardinality(ObjFlight(o)) + One(pm.obj = o)
    BY <2>4, <2>5, CountsFinite, FS_AddElement DEF One
  <2> QED
    BY <2>2, <2>3, <2>6 DEF One
<1> QED
  BY <1>3, <1>4

\* The method has returned.
LEMMA CountComplete ==
  ASSUME TypeOK, CheckComplete, NEW pm, pm = Top.pm
  PROVE  /\ \A t : /\ Cardinality(SyncFlight(t)') \in Nat
                   /\ Cardinality(SyncFlight(t)) =
                        Cardinality(SyncFlight(t)') + One(pm.from = t /\ pm.sync)
         /\ \A o : /\ Cardinality(ObjFlight(o)') \in Nat
                   /\ Cardinality(ObjFlight(o)) = Cardinality(ObjFlight(o)') + One(pm.obj = o)
<1> DEFINE n == Len(stack)
<1>1. /\ n \in InFlight /\ InFlight' = InFlight \ {n}
      /\ \A i \in InFlight' : stack'[i] = stack[i]
      /\ stack[n].pm = pm
  BY FlightComplete
<1> HIDE DEF n
<1>2. ASSUME NEW t
      PROVE  /\ Cardinality(SyncFlight(t)') \in Nat
             /\ Cardinality(SyncFlight(t)) = Cardinality(SyncFlight(t)') + One(pm.from = t /\ pm.sync)
  <2>1. SyncFlight(t)' = SyncFlight(t) \ {n}
    BY <1>1 DEF SyncFlight
  <2>2. n \in SyncFlight(t) <=> (pm.from = t /\ pm.sync)
    BY <1>1 DEF SyncFlight
  <2>3. IsFiniteSet(SyncFlight(t)) /\ Cardinality(SyncFlight(t)) \in Nat
    BY CountsFinite
  <2>4. /\ IsFiniteSet(SyncFlight(t) \ {n})
        /\ Cardinality(SyncFlight(t) \ {n}) = (IF n \in SyncFlight(t) THEN Cardinality(SyncFlight(t)) - 1 ELSE Cardinality(SyncFlight(t)))
    BY <2>3, FS_RemoveElement
  <2>5. Cardinality(SyncFlight(t) \ {n}) \in Nat
    BY <2>4, FS_CardinalityType
  <2> QED
    BY <2>1, <2>2, <2>3, <2>4, <2>5 DEF One
<1>3. ASSUME NEW o
      PROVE  /\ Cardinality(ObjFlight(o)') \in Nat
             /\ Cardinality(ObjFlight(o)) = Cardinality(ObjFlight(o)') + One(pm.obj = o)
  <2>1. ObjFlight(o)' = ObjFlight(o) \ {n}
    BY <1>1 DEF ObjFlight
  <2>2. n \in ObjFlight(o) <=> pm.obj = o
    BY <1>1 DEF ObjFlight
  <2>3. IsFiniteSet(ObjFlight(o)) /\ Cardinality(ObjFlight(o)) \in Nat
    BY CountsFinite
  <2>4. /\ IsFiniteSet(ObjFlight(o) \ {n})
        /\ Cardinality(ObjFlight(o) \ {n}) = (IF n \in ObjFlight(o) THEN Cardinality(ObjFlight(o)) - 1 ELSE Cardinality(ObjFlight(o)))
    BY <2>3, FS_RemoveElement
  <2>5. Cardinality(ObjFlight(o) \ {n}) \in Nat
    BY <2>4, FS_CardinalityType
  <2> QED
    BY <2>1, <2>2, <2>3, <2>4, <2>5 DEF One
<1> QED
  BY <1>2, <1>3

LEMMA CountSame ==
  ASSUME SameFlight
  PROVE  /\ \A t : SyncFlight(t)' = SyncFlight(t)
         /\ \A o : ObjFlight(o)' = ObjFlight(o)
  BY DEF SameFlight, SyncFlight, ObjFlight

\* methodstack_kill_methods
LEMMA CountKill ==
  ASSUME TypeOK, NEW o \in Objs, methodlist' = Forget(o)
  PROVE  /\ \A t : SyncListed(t)' = SyncListed(t)
         /\ Pending(o)' = {}
         /\ \A x \in Objs \ {o} : Pending(x)' = Pending(x)
<1>1. /\ DOMAIN methodlist' = DOMAIN methodlist
      /\ \A i \in DOMAIN methodlist :
           methodlist'[i] = IF methodlist[i].obj = o THEN [methodlist[i] EXCEPT !.obj = NULL]
                                                     ELSE methodlist[i]
  BY DEF Forget
<1>2. \A i \in DOMAIN methodlist : methodlist[i] \in Method
  BY ListTypes
<1>3. \A m \in Method : LET k == [m EXCEPT !.obj = NULL]
                        IN  k.from = m.from /\ k.sync = m.sync /\ k.obj = NULL
  BY DEF Method
<1>4. \A i \in DOMAIN methodlist :
        /\ methodlist'[i].from = methodlist[i].from
        /\ methodlist'[i].sync = methodlist[i].sync
        /\ methodlist'[i].obj = IF methodlist[i].obj = o THEN NULL ELSE methodlist[i].obj
  BY <1>1, <1>2, <1>3
<1>5. NULL \notin Objs
  BY ConstantsAssumption
<1> QED
  BY <1>1, <1>4, <1>5 DEF SyncListed, Pending

-----------------------------------------------------------------------------
(* The end of a job.                                                       *)

\* threads_handle is the outermost call of the main task, and the thread it
\* handles is over and no longer on threadport.
FinishOver ==
  /\ \A i \in DOMAIN stack :
       stack[i].k = "finish" =>
         i = 1 /\ stack[i].t \in Pool /\ tpc[stack[i].t] = "over" /\ stack[i].t \notin port
  /\ \A t \in port : tpc[t] = "over"

LEMMA FinishOverKept ==
  ASSUME TypeOK, FinishOver, [Next]_vars
  PROVE  FinishOver'
<1>1. /\ Len(stack) \in Nat /\ DOMAIN stack = 1..Len(stack)
      /\ tpc \in [Threads -> TPC] /\ port \subseteq Pool /\ Pool \subseteq Threads
  BY StackParts DEF TypeOK, Pool
<1>2. CASE \E u \in Threads : ThreadNext(u)
  <2>1. PICK u \in Threads : ThreadNext(u)
    BY <1>2
  <2>2. /\ stack' = stack /\ tpc[u] # "over"
        /\ \A t \in Threads \ {u} : tpc'[t] = tpc[t]
        /\ port' = port \/ (port' = port \cup {u} /\ tpc'[u] = "over")
    BY <1>1, <2>1 DEF ThreadNext, Push, SyncRetain, SyncEnqueue, SyncNoMemory, SyncSignal,
       SyncReturn, JobSleeps, JobWakes, EndJob, mainvars, threadvars
  <2> QED
    BY <1>1, <2>2 DEF FinishOver
<1>3. ASSUME NEW t \in Pool, HandleThread(t)
      PROVE  FinishOver'
  <2> DEFINE f == Finishing(t)
             g == Sync(jobobj[t])
             h == Check(TRUE)
  <2>1. f.k = "finish" /\ f.t = t /\ g.k = "sync" /\ h.k = "check"
    BY DEF Finishing, Sync, Check
  <2>2. /\ stack' = <<f, g, h>> /\ t \in port /\ port' = port \ {t} /\ tpc' = tpc
    BY <1>3 DEF HandleThread
  <2> HIDE DEF f, g, h
  <2>3. DOMAIN stack' = 1..3 /\ stack'[1] = f /\ stack'[2] = g /\ stack'[3] = h
    BY <2>2
  <2>4. \A i \in DOMAIN stack' : stack'[i].k = "finish" => i = 1 /\ stack'[i].t = t
    <3>1. \A i \in 1..3 : i = 1 \/ i = 2 \/ i = 3
      OBVIOUS
    <3>2. "sync" # "finish" /\ "check" # "finish"
      OBVIOUS
    <3> QED
      BY <2>1, <2>3, <3>1, <3>2
  <2> QED
    BY <2>2, <2>4 DEF FinishOver
<1>4. CASE HandleReleases
  <2>1. /\ ~Idle /\ Len(stack) >= 1 /\ Top = stack[Len(stack)] /\ Top.k = "finish"
        /\ DOMAIN stack' = 1..(Len(stack) - 1)
    BY <1>4, StackParts DEF HandleReleases, Leave
  <2>2. Len(stack) = 1
    BY <1>1, <2>1 DEF FinishOver
  <2>3. /\ Top.t \notin port /\ tpc' = [tpc EXCEPT ![Top.t] = "gone"] /\ port' = port
    BY <1>1, <1>4, <2>1 DEF FinishOver, HandleReleases
  <2>4. DOMAIN stack' = {}
    BY <2>1, <2>2
  <2> QED
    BY <1>1, <2>3, <2>4 DEF FinishOver
<1>5. ASSUME tpc' = tpc, port' = port,
             \A i \in DOMAIN stack' : stack'[i].k = "finish" =>
               i \in DOMAIN stack /\ stack'[i] = stack[i]
      PROVE  FinishOver'
  BY <1>5 DEF FinishOver
<1>6. CASE UNCHANGED vars
  BY <1>5, <1>6 DEF vars
<1>7. CASE ~HandleReleases /\ ~Idle /\ (MainNext \/ MethodNext \/ Quit)
  <2>1. ASSUME NEW i \in DOMAIN stack', stack'[i].k = "finish"
        PROVE  i \in DOMAIN stack /\ stack'[i] = stack[i]
    <3>1. Len(stack) >= 1 /\ Top = stack[Len(stack)]
      BY <1>7, StackParts
    <3>2. i \in Nat /\ i >= 1
      <4>1. TypeOK'
        BY <1>7, TypeMain, TypeMethods
      <4>2. stack' \in Seq(Frame)
        BY <4>1 DEF TypeOK
      <4> QED
        BY <4>2, <2>1, LenProperties
    <3>3. CASE i > Len(stack)
      BY <1>7, <2>1, <3>3, StackStep
    <3>4. CASE i < Len(stack)
      <4>1. i \in 1..(Len(stack) - 1)
        BY <1>1, <3>2, <3>4
      <4>2. i \in DOMAIN stack
        BY <1>1, <3>2, <3>4
      <4>3. stack'[i] = stack[i]
        BY <1>7, <4>1, StackStep
      <4> QED
        BY <4>2, <4>3
    <3>5. CASE i = Len(stack)
      <4>1. CASE stack'[i] = Top
        BY <1>1, <3>1, <3>5, <4>1
      <4>2. CASE CheckPop /\ stack'[i] = [Top EXCEPT !.pm = Head(methodlist)]
        <5>1. Top \in CheckFrame
          BY <1>7, <4>2, StackParts, TopTypes DEF CheckPop
        <5>2. stack'[i].k = "check"
          BY <4>2, <5>1 DEF CheckFrame
        <5> QED
          BY <2>1, <5>2
      <4>3. Check(TRUE).k # "finish"
        BY DEF Check
      <4> QED
        BY <1>7, <2>1, <3>5, <4>1, <4>2, <4>3, StackStep
    <3> QED
      BY <1>1, <3>2, <3>3, <3>4, <3>5
  <2>2. CASE \E t \in Pool : HandleThread(t)
    BY <1>7, <2>2 DEF HandleThread
  <2>3. CASE ~\E t \in Pool : HandleThread(t)
    <3>1. tpc' = tpc /\ port' = port
      BY <1>7, <2>3 DEF MainNext, MethodNext, NewInput, LoopCheck, WaitSignals, CheckPop,
         HandleEnds, CheckEmpty, CheckComplete, SyncCall, MethodReturns, MethodPushes,
         MethodPushesSync, MethodDisposes, MethodKills, Quit, threadvars
    <3> QED
      BY <1>5, <2>1, <3>1
  <2> QED
    BY <2>2, <2>3
<1>8. CASE Idle /\ (MainNext \/ MethodNext \/ Quit) /\ ~\E t \in Pool : HandleThread(t)
  <2>1. stack = <<>>
    BY <1>8 DEF Idle
  <2>2. tpc' = tpc /\ port' = port
    BY <1>8 DEF MainNext, MethodNext, NewInput, LoopCheck, WaitSignals, CheckPop,
       HandleReleases, HandleEnds, CheckEmpty, CheckComplete, SyncCall, MethodReturns,
       MethodPushes, MethodPushesSync, MethodDisposes, MethodKills, InMethod, Quit,
       threadvars
  <2>3. \/ stack' = stack
        \/ stack' = <<Check(FALSE)>>
        \/ \E o \in Objs : stack' = <<Body(o)>>
    <3>1. \A f : Append(stack, f) = <<f>>
      BY <2>1
    <3>2. CASE LoopCheck
      BY <3>1, <3>2 DEF LoopCheck, Call
    <3>3. CASE NewInput
      BY <3>1, <3>3 DEF NewInput, Call
    <3>4. CASE ~LoopCheck /\ ~NewInput
      BY <1>8, <3>4 DEF MainNext, MethodNext, WaitSignals, CheckPop, HandleReleases,
         HandleEnds, CheckEmpty, CheckComplete, SyncCall, MethodReturns, MethodPushes,
         MethodPushesSync, MethodDisposes, MethodKills, InMethod, Quit
    <3> QED
      BY <3>2, <3>3, <3>4
  <2>4. \A i \in DOMAIN stack' : stack' = stack \/ stack'[i].k # "finish"
    <3>1. ASSUME NEW f, f.k # "finish", stack' = <<f>>
          PROVE  \A i \in DOMAIN stack' : stack'[i].k # "finish"
      BY <3>1
    <3>2. Check(FALSE).k # "finish" /\ \A o \in Objs : Body(o).k # "finish"
      BY DEF Check, Body
    <3> QED
      BY <2>3, <3>1, <3>2
  <2> QED
    BY <1>5, <2>2, <2>4
<1> QED
  BY <1>2, <1>3, <1>4, <1>6, <1>7, <1>8 DEF Next, MainNext

-----------------------------------------------------------------------------
(* One reply per call.                                                     *)

OneFor(t) ==
  Cardinality(SyncListed(t)) + Cardinality(SyncFlight(t)) + One(reply[t] # NULL)
    = One(Waiting(t))

LEMMA OneForEach == OneReplyPerCall <=> \A t \in Pool : OneFor(t)
  BY DEF OneReplyPerCall, OneFor, SyncListed, SyncFlight, One

\* Nothing about the call of t changes.
LEMMA OneForSame ==
  ASSUME NEW t, OneFor(t),
         Cardinality(SyncListed(t)') = Cardinality(SyncListed(t)),
         Cardinality(SyncFlight(t)') = Cardinality(SyncFlight(t)),
         reply'[t] = reply[t], Waiting(t)' <=> Waiting(t)
  PROVE  OneFor(t)'
  BY DEF OneFor, One, Waiting

LEMMA OneForThread ==
  ASSUME TypeOK, NEW t \in Pool, OneFor(t), NEW u \in Threads, ThreadNext(u), SameFlight
  PROVE  OneFor(t)'
<1>1. Cardinality(SyncFlight(t)') = Cardinality(SyncFlight(t))
  BY CountSame
<1>2. /\ Cardinality(SyncListed(t)) \in Nat /\ Cardinality(SyncFlight(t)) \in Nat
  BY CountsFinite
<1>3. /\ tpc \in [Threads -> TPC] /\ reply \in [Threads -> {"result", "killed", NULL}]
      /\ t \in Threads /\ u \in Callers /\ jobobj[u] \in Objs
  BY DEF TypeOK, Pool, Callers
<1>4. CASE Push(u)
  <2>1. Enqueue(u, jobobj[u], FALSE) /\ tpc' = tpc /\ reply' = reply
    BY <1>4 DEF Push, threadvars
  <2>2. Cardinality(SyncListed(t)') = Cardinality(SyncListed(t))
    BY <1>3, <2>1, CountEnqueue
  <2> QED
    BY <1>1, <2>1, <2>2, OneForSame DEF Waiting
<1>5. CASE SyncEnqueue(u)
  <2>1. /\ Enqueue(u, jobobj[u], TRUE) /\ tpc[u] = "link"
        /\ tpc' = [tpc EXCEPT ![u] = "signal"] /\ reply' = reply
    BY <1>5 DEF SyncEnqueue
  <2>2. Cardinality(SyncListed(t)') = Cardinality(SyncListed(t)) + (IF u = t THEN 1 ELSE 0)
    BY <1>3, <2>1, CountEnqueue
  <2>3. CASE u = t
    <3>1. ~Waiting(t) /\ Waiting(t)'
      BY <1>3, <2>1, <2>3 DEF Waiting
    <3> QED
      BY <1>1, <1>2, <2>1, <2>2, <2>3, <3>1 DEF OneFor, One
  <2>4. CASE u # t
    <3>1. tpc'[t] = tpc[t]
      BY <1>3, <2>1, <2>4
    <3> QED
      BY <1>1, <1>2, <2>1, <2>2, <2>4, <3>1, OneForSame DEF Waiting, One
  <2> QED
    BY <2>3, <2>4
<1>6. ASSUME methodlist' = methodlist
      PROVE  Cardinality(SyncListed(t)') = Cardinality(SyncListed(t))
  BY <1>6 DEF SyncListed
<1>7. CASE SyncReturn(u)
  <2>1. /\ methodlist' = methodlist /\ tpc[u] = "wait" /\ reply[u] # NULL
        /\ tpc' = [tpc EXCEPT ![u] = "run"] /\ reply' = [reply EXCEPT ![u] = NULL]
    BY <1>7 DEF SyncReturn
  <2>2. CASE u = t
    <3>1. Waiting(t) /\ ~Waiting(t)' /\ reply'[t] = NULL
      BY <1>3, <2>1, <2>2 DEF Waiting
    <3> QED
      BY <1>1, <1>2, <1>6, <2>1, <2>2, <3>1 DEF OneFor, One
  <2>3. CASE u # t
    <3>1. tpc'[t] = tpc[t] /\ reply'[t] = reply[t]
      BY <1>3, <2>1, <2>3
    <3> QED
      BY <1>1, <1>6, <2>1, <3>1, OneForSame DEF Waiting
  <2> QED
    BY <2>2, <2>3
<1>8. CASE SyncRetain(u) \/ SyncSignal(u) \/ JobSleeps(u) \/ JobWakes(u) \/ EndJob(u)
  <2>1. /\ methodlist' = methodlist /\ reply' = reply
        /\ \/ /\ tpc[u] \in {"run", "asleep"}
              /\ \E to \in {"link", "asleep", "run", "over"} : tpc' = [tpc EXCEPT ![u] = to]
           \/ tpc[u] = "signal" /\ tpc' = [tpc EXCEPT ![u] = "wait"]
    BY <1>8 DEF SyncRetain, SyncSignal, JobSleeps, JobWakes, EndJob
  <2>2. Waiting(t)' <=> Waiting(t)
    BY <1>3, <2>1 DEF Waiting
  <2> QED
    BY <1>1, <1>6, <2>1, <2>2, OneForSame
<1>9. CASE SyncNoMemory(u)
  <2>1. methodlist' = methodlist /\ reply' = reply /\ tpc'[t] = tpc[t]
    BY <1>3, <1>9 DEF SyncNoMemory, Pool
  <2> QED
    BY <1>1, <1>6, <2>1, OneForSame DEF Waiting
<1> QED
  BY <1>4, <1>5, <1>7, <1>8, <1>9 DEF ThreadNext

LEMMA OneForMain ==
  ASSUME TypeOK, FinishOver, NEW t \in Pool, OneFor(t), MainNext \/ MethodNext \/ Quit,
         [Next]_vars
  PROVE  OneFor(t)'
<1>1. /\ Cardinality(SyncListed(t)) \in Nat /\ Cardinality(SyncFlight(t)) \in Nat
  BY CountsFinite
<1>2. /\ tpc \in [Threads -> TPC] /\ reply \in [Threads -> {"result", "killed", NULL}]
      /\ t \in Threads /\ t # Main /\ Main \in Callers
  BY ConstantsAssumption DEF TypeOK, Pool, Callers
<1>3. CASE CheckPop
  <2>1. PICK pm : pm = Head(methodlist)
    OBVIOUS
  <2>2. /\ Cardinality(SyncListed(t)') \in Nat
        /\ Cardinality(SyncListed(t)) = Cardinality(SyncListed(t)') + One(pm.from = t /\ pm.sync)
        /\ Cardinality(SyncFlight(t)') = Cardinality(SyncFlight(t)) + One(pm.from = t /\ pm.sync)
    BY <1>3, <2>1, CountPop
  <2>3. reply' = reply /\ tpc' = tpc
    BY <1>3 DEF CheckPop, threadvars
  <2> QED
    BY <1>1, <2>2, <2>3 DEF OneFor, Waiting, One
<1>4. CASE CheckComplete
  <2>1. PICK pm : pm = Top.pm
    OBVIOUS
  <2>2. /\ Cardinality(SyncFlight(t)') \in Nat
        /\ Cardinality(SyncFlight(t)) = Cardinality(SyncFlight(t)') + One(pm.from = t /\ pm.sync)
        /\ pm \in Method
    BY <1>4, <2>1, CountComplete, FlightComplete
  <2>3. /\ methodlist' = methodlist /\ tpc' = tpc /\ reply' = Answer(pm)
    BY <1>4, <2>1 DEF CheckComplete
  <2>4. SyncListed(t)' = SyncListed(t)
    BY <2>3 DEF SyncListed
  <2>5. CASE pm.from = t /\ pm.sync
    <3>1. reply'[t] # NULL
      BY <1>2, <2>3, <2>5, NullAssumption DEF Answer
    <3>2. Cardinality(SyncFlight(t)) = Cardinality(SyncFlight(t)') + 1
      BY <2>2, <2>5 DEF One
    <3> QED
      BY <1>1, <2>2, <2>3, <2>4, <3>1, <3>2 DEF OneFor, Waiting, One
  <2>6. CASE ~(pm.from = t /\ pm.sync)
    <3>1. reply'[t] = reply[t]
      BY <1>2, <2>3, <2>6 DEF Answer
    <3>2. Cardinality(SyncFlight(t)') = Cardinality(SyncFlight(t))
      BY <1>1, <2>2, <2>6 DEF One
    <3> QED
      BY <2>3, <2>4, <3>1, <3>2, OneForSame DEF Waiting
  <2> QED
    BY <2>5, <2>6
<1>5. CASE ~CheckPop /\ ~CheckComplete
  <2>1. SyncFlight(t)' = SyncFlight(t)
    BY <1>5, FlightKept, CountSame
  <2>2. reply' = reply
    BY <1>5 DEF MainNext, MethodNext, NewInput, LoopCheck, WaitSignals, HandleReleases,
       HandleEnds, CheckEmpty, SyncCall, MethodReturns, HandleThread, MethodPushes,
       MethodPushesSync, MethodDisposes, MethodKills, Quit, threadvars
  <2>3. Waiting(t)' <=> Waiting(t)
    <3>1. CASE HandleReleases
      <4>1. tpc[Top.t] = "over" /\ tpc' = [tpc EXCEPT ![Top.t] = "gone"]
        BY <3>1, StackParts DEF HandleReleases, FinishOver
      <4> QED
        BY <1>2, <4>1 DEF Waiting
    <3>2. CASE ~HandleReleases
      <4>1. tpc' = tpc
        BY <1>5, <3>2 DEF MainNext, MethodNext, NewInput, LoopCheck, WaitSignals,
           HandleEnds, CheckEmpty, SyncCall, MethodReturns, HandleThread, MethodPushes,
           MethodPushesSync, MethodDisposes, MethodKills, Quit, threadvars
      <4> QED
        BY <4>1 DEF Waiting
    <3> QED
      BY <3>1, <3>2
  <2>4. Cardinality(SyncListed(t)') = Cardinality(SyncListed(t))
    <3>1. CASE methodlist' = methodlist
      BY <3>1 DEF SyncListed
    <3>2. ASSUME NEW o \in Objs, MethodPushes(o)
          PROVE  Cardinality(SyncListed(t)') = Cardinality(SyncListed(t))
      <4>1. Enqueue(Main, o, FALSE)
        BY <3>2 DEF MethodPushes
      <4> QED
        BY <1>2, <3>2, <4>1, CountEnqueue
    <3>3. ASSUME NEW o \in Objs, methodlist' = Forget(o)
          PROVE  Cardinality(SyncListed(t)') = Cardinality(SyncListed(t))
      BY <3>3, CountKill
    <3>4. App \in Objs
      BY ConstantsAssumption
    <3> QED
      BY <1>5, <3>1, <3>2, <3>3, <3>4 DEF MainNext, MethodNext, NewInput, LoopCheck,
         WaitSignals, HandleReleases, HandleEnds, CheckEmpty, SyncCall, MethodReturns,
         HandleThread, MethodPushesSync, MethodDisposes, MethodKills, Quit, Kill
  <2> QED
    BY <2>1, <2>2, <2>3, <2>4, OneForSame
<1> QED
  BY <1>3, <1>4, <1>5

\* Of every call a thread of the pool makes with methodstack_push_sync there
\* is exactly one trace at any time: its entry of methodlist, the
\* methodstack_check that runs it, or the reply the thread has not taken yet.
THEOREM RepliesKept == Spec => []OneReplyPerCall
<1>1. Init => FinishOver /\ OneReplyPerCall
  <2> SUFFICES ASSUME Init PROVE FinishOver /\ OneReplyPerCall
    OBVIOUS
  <2>1. methodlist = <<>> /\ stack = <<>> /\ port = {}
    BY DEF Init
  <2>2. FinishOver
    BY <2>1 DEF FinishOver
  <2>3. ASSUME NEW t \in Pool
        PROVE  OneFor(t)
    <3>1. SyncListed(t) = {} /\ SyncFlight(t) = {}
      BY <2>1 DEF SyncListed, SyncFlight, InFlight
    <3>2. reply[t] = NULL /\ tpc[t] = "run"
      BY DEF Init, Pool
    <3> QED
      BY <3>1, <3>2, FS_EmptySet DEF OneFor, Waiting, One
  <2> QED
    BY <2>2, <2>3, OneForEach
<1>2. TypeOK /\ FinishOver /\ [Next]_vars => FinishOver'
  BY FinishOverKept
<1>3. TypeOK /\ FinishOver /\ OneReplyPerCall /\ [Next]_vars => OneReplyPerCall'
  <2> SUFFICES ASSUME TypeOK, FinishOver, OneReplyPerCall, [Next]_vars, NEW t \in Pool
               PROVE  OneFor(t)'
    BY DEF OneReplyPerCall, OneFor, SyncListed, SyncFlight, One
  <2>1. OneFor(t)
    BY OneForEach
  <2>2. CASE \E u \in Threads : ThreadNext(u)
    <3>1. PICK u \in Threads : ThreadNext(u)
      BY <2>2
    <3>2. stack' = stack
      BY <3>1 DEF ThreadNext, Push, SyncRetain, SyncEnqueue, SyncNoMemory, SyncSignal,
         SyncReturn, JobSleeps, JobWakes, EndJob, mainvars
    <3>3. SameFlight
      BY <3>2 DEF SameFlight, InFlight
    <3> QED
      BY <2>1, <3>1, <3>3, OneForThread
  <2>3. CASE MainNext \/ MethodNext \/ Quit
    BY <2>1, <2>3, OneForMain
  <2>4. CASE UNCHANGED vars
    <3>1. UNCHANGED <<methodlist, stack, reply, tpc>>
      BY <2>4 DEF vars
    <3>2. SyncListed(t)' = SyncListed(t) /\ SyncFlight(t)' = SyncFlight(t)
      BY <3>1 DEF SyncListed, SyncFlight, InFlight
    <3> QED
      BY <2>1, <3>1, <3>2, OneForSame DEF Waiting
  <2> QED
    BY <2>2, <2>3, <2>4 DEF Next
<1> QED
  BY <1>1, <1>2, <1>3, TypeCorrect, PTL DEF Spec

-----------------------------------------------------------------------------
(* The references on objects.                                              *)

Jobs(o) == {t \in Pool : jobobj[t] = o /\ tpc[t] # "gone"}
Links(o) == {t \in Threads : jobobj[t] = o /\ tpc[t] = "link"}

BalanceOf(o) ==
  refs[o] = One(held[o]) + Cardinality(Jobs(o)) + Cardinality(Links(o))
            + Cardinality(Pending(o)) + Cardinality(ObjFlight(o))

LEMMA BalanceOfEach == RefBalance <=> \A o \in Objs : BalanceOf(o)
  BY DEF RefBalance, BalanceOf, Jobs, Links, ObjFlight, One

LEMMA JobsFinite ==
  ASSUME NEW o
  PROVE  /\ IsFiniteSet(Jobs(o)) /\ Cardinality(Jobs(o)) \in Nat
         /\ IsFiniteSet(Links(o)) /\ Cardinality(Links(o)) \in Nat
<1>1. Jobs(o) \in SUBSET Threads /\ Links(o) \in SUBSET Threads
  BY DEF Jobs, Links, Pool
<1> QED
  BY <1>1, ConstantsAssumption, FS_Subset, FS_CardinalityType

\* What is on the object of a step's other parts stays.
LEMMA JobsSame ==
  ASSUME jobobj' = jobobj, tpc' = tpc, NEW o
  PROVE  Jobs(o)' = Jobs(o) /\ Links(o)' = Links(o)
  BY DEF Jobs, Links

LEMMA BalanceSame ==
  ASSUME NEW o, BalanceOf(o), refs'[o] = refs[o], held' = held,
         Jobs(o)' = Jobs(o), Links(o)' = Links(o),
         Cardinality(Pending(o)') = Cardinality(Pending(o)), ObjFlight(o)' = ObjFlight(o)
  PROVE  BalanceOf(o)'
  BY DEF BalanceOf, One

LEMMA BalanceThread ==
  ASSUME TypeOK, NEW o \in Objs, BalanceOf(o), NEW u \in Threads, ThreadNext(u), SameFlight
  PROVE  BalanceOf(o)'
<1>1. /\ Cardinality(Pending(o)) \in Nat /\ Cardinality(ObjFlight(o)) \in Nat
      /\ Cardinality(Jobs(o)) \in Nat /\ Cardinality(Links(o)) \in Nat
      /\ IsFiniteSet(Links(o)) /\ One(held[o]) \in Nat
  BY CountsFinite, JobsFinite DEF One
<1>2. /\ ObjFlight(o)' = ObjFlight(o) /\ jobobj' = jobobj /\ held' = held
  <2>1. jobobj' = jobobj /\ held' = held
    BY DEF ThreadNext, Push, SyncRetain, SyncEnqueue, SyncNoMemory, SyncSignal,
       SyncReturn, JobSleeps, JobWakes, EndJob, threadvars
  <2> QED
    BY <2>1, CountSame
<1>3. /\ tpc \in [Threads -> TPC] /\ refs \in [Objs -> Int]
      /\ u \in Callers /\ jobobj[u] \in Objs /\ Pool \subseteq Threads
  BY DEF TypeOK, Pool, Callers
<1>4. One(held'[o]) = One(held[o])
  BY <1>2 DEF One
<1>5. CASE Push(u)
  <2>1. Enqueue(u, jobobj[u], FALSE) /\ tpc' = tpc /\ Retain(jobobj[u])
    BY <1>5 DEF Push, threadvars
  <2>2. Cardinality(Pending(o)') =
          Cardinality(Pending(o)) + (IF jobobj[u] = o THEN 1 ELSE 0)
    BY <1>3, <2>1, CountEnqueue
  <2>3. refs'[o] = refs[o] + (IF jobobj[u] = o THEN 1 ELSE 0)
    BY <1>3, <2>1 DEF Retain
  <2>4. Jobs(o)' = Jobs(o) /\ Links(o)' = Links(o)
    BY <1>2, <2>1, JobsSame
  <2> QED
    BY <1>1, <1>2, <1>3, <1>4, <2>2, <2>3, <2>4 DEF BalanceOf
<1>6. CASE SyncRetain(u)
  <2>1. /\ methodlist' = methodlist /\ tpc[u] = "run" /\ tpc' = [tpc EXCEPT ![u] = "link"]
        /\ Retain(jobobj[u])
    BY <1>6 DEF SyncRetain
  <2>2. Pending(o)' = Pending(o)
    BY <2>1 DEF Pending
  <2>3. refs'[o] = refs[o] + (IF jobobj[u] = o THEN 1 ELSE 0)
    BY <1>3, <2>1 DEF Retain
  <2>4. Jobs(o)' = Jobs(o)
    BY <1>2, <1>3, <2>1 DEF Jobs
  <2>5. u \notin Links(o) /\ Links(o)' = IF jobobj[u] = o THEN Links(o) \cup {u} ELSE Links(o)
    BY <1>2, <1>3, <2>1 DEF Links
  <2>6. Cardinality(Links(o)') = Cardinality(Links(o)) + (IF jobobj[u] = o THEN 1 ELSE 0)
    <3>1. Cardinality(Links(o) \cup {u}) =
            IF u \in Links(o) THEN Cardinality(Links(o)) ELSE Cardinality(Links(o)) + 1
      BY <1>1, FS_AddElement
    <3> QED
      BY <1>1, <2>5, <3>1
  <2> QED
    BY <1>1, <1>2, <1>3, <1>4, <2>2, <2>3, <2>4, <2>6 DEF BalanceOf
<1>7. CASE SyncEnqueue(u)
  <2>1. /\ Enqueue(u, jobobj[u], TRUE) /\ tpc[u] = "link" /\ refs' = refs
        /\ tpc' = [tpc EXCEPT ![u] = "signal"]
    BY <1>7 DEF SyncEnqueue
  <2>2. Cardinality(Pending(o)') =
          Cardinality(Pending(o)) + (IF jobobj[u] = o THEN 1 ELSE 0)
    BY <1>3, <2>1, CountEnqueue
  <2>3. Jobs(o)' = Jobs(o)
    BY <1>2, <1>3, <2>1 DEF Jobs
  <2>4. (u \in Links(o) <=> jobobj[u] = o) /\ Links(o)' = Links(o) \ {u}
    BY <1>2, <1>3, <2>1 DEF Links
  <2>5. Cardinality(Links(o)') = Cardinality(Links(o)) - (IF jobobj[u] = o THEN 1 ELSE 0)
    <3>1. Cardinality(Links(o) \ {u}) =
            IF u \in Links(o) THEN Cardinality(Links(o)) - 1 ELSE Cardinality(Links(o))
      BY <1>1, FS_RemoveElement
    <3> QED
      BY <1>1, <2>4, <3>1
  <2> QED
    BY <1>1, <1>2, <1>3, <1>4, <2>1, <2>2, <2>3, <2>5 DEF BalanceOf
<1>8. CASE SyncNoMemory(u) \/ SyncSignal(u) \/ SyncReturn(u) \/ JobSleeps(u) \/ JobWakes(u)
           \/ EndJob(u)
  <2>1. /\ methodlist' = methodlist /\ refs' = refs
        /\ tpc[u] \in {"run", "signal", "wait", "asleep"}
        /\ \E to \in {"signal", "wait", "run", "asleep", "over"} : tpc' = [tpc EXCEPT ![u] = to]
    BY <1>8 DEF SyncNoMemory, SyncSignal, SyncReturn, JobSleeps, JobWakes, EndJob
  <2>2. Pending(o)' = Pending(o)
    BY <2>1 DEF Pending
  <2>3. Jobs(o)' = Jobs(o)
    BY <1>2, <1>3, <2>1 DEF Jobs
  <2>4. Links(o)' = Links(o)
    BY <1>2, <1>3, <2>1 DEF Links
  <2> QED
    BY <1>2, <2>1, <2>2, <2>3, <2>4, BalanceSame
<1> QED
  BY <1>5, <1>6, <1>7, <1>8 DEF ThreadNext

LEMMA BalanceMain ==
  ASSUME TypeOK, FinishOver, NEW o \in Objs, BalanceOf(o), MainNext \/ MethodNext \/ Quit,
         [Next]_vars
  PROVE  BalanceOf(o)'
<1>1. /\ Cardinality(Pending(o)) \in Nat /\ Cardinality(ObjFlight(o)) \in Nat
      /\ Cardinality(Jobs(o)) \in Nat /\ Cardinality(Links(o)) \in Nat
      /\ IsFiniteSet(Jobs(o)) /\ One(held[o]) \in Nat
  BY CountsFinite, JobsFinite DEF One
<1>2. /\ tpc \in [Threads -> TPC] /\ refs \in [Objs -> Int] /\ held \in [Objs -> BOOLEAN]
      /\ Pool \subseteq Threads /\ Main \in Callers /\ NULL \notin Objs /\ App \in Objs
  BY ConstantsAssumption DEF TypeOK, Pool, Callers
<1>3. ASSUME held' = held
      PROVE  One(held'[o]) = One(held[o])
  BY <1>3 DEF One
<1>4. CASE CheckPop
  <2>1. PICK pm : pm = Head(methodlist)
    OBVIOUS
  <2>2. /\ Cardinality(Pending(o)') \in Nat
        /\ Cardinality(Pending(o)) = Cardinality(Pending(o)') + One(pm.obj = o)
        /\ Cardinality(ObjFlight(o)') = Cardinality(ObjFlight(o)) + One(pm.obj = o)
    BY <1>4, <2>1, CountPop
  <2>3. /\ held' = held /\ refs' = refs /\ tpc' = tpc /\ jobobj' = jobobj
    BY <1>4 DEF CheckPop, threadvars
  <2>4. Jobs(o)' = Jobs(o) /\ Links(o)' = Links(o)
    BY <2>3, JobsSame
  <2>5. One(pm.obj = o) \in Nat
    BY DEF One
  <2> QED
    BY <1>1, <1>2, <1>3, <2>2, <2>3, <2>4, <2>5 DEF BalanceOf
<1>5. CASE CheckComplete
  <2>1. PICK pm : pm = Top.pm
    OBVIOUS
  <2>2. /\ Cardinality(ObjFlight(o)') \in Nat
        /\ Cardinality(ObjFlight(o)) = Cardinality(ObjFlight(o)') + One(pm.obj = o)
        /\ pm \in Method
    BY <1>5, <2>1, CountComplete, FlightComplete
  <2>3. /\ held' = held /\ tpc' = tpc /\ jobobj' = jobobj /\ methodlist' = methodlist
        /\ Release(pm.obj)
    BY <1>5, <2>1 DEF CheckComplete
  <2>4. Jobs(o)' = Jobs(o) /\ Links(o)' = Links(o) /\ Pending(o)' = Pending(o)
    BY <2>3, JobsSame DEF Pending
  <2>5. refs'[o] = refs[o] - (IF pm.obj = o THEN 1 ELSE 0)
    BY <1>2, <2>3 DEF Release
  <2>6. One(pm.obj = o) = IF pm.obj = o THEN 1 ELSE 0
    BY DEF One
  <2> QED
    BY <1>1, <1>2, <1>3, <2>2, <2>3, <2>4, <2>5, <2>6 DEF BalanceOf
<1>6. CASE HandleReleases
  <2>1. /\ ~Idle /\ Top = stack[Len(stack)] /\ Len(stack) \in DOMAIN stack /\ Top.k = "finish"
    BY <1>6, StackParts DEF HandleReleases
  <2>2. Top.t \in Pool /\ tpc[Top.t] = "over"
    BY <2>1 DEF FinishOver
  <2>3. jobobj[Top.t] \in Objs
    BY <1>2, <2>2 DEF TypeOK
  <2>4. /\ held' = held /\ tpc' = [tpc EXCEPT ![Top.t] = "gone"] /\ jobobj' = jobobj
        /\ methodlist' = methodlist /\ Release(jobobj[Top.t])
    BY <1>6 DEF HandleReleases
  <2>5. Links(o)' = Links(o) /\ Pending(o)' = Pending(o)
    BY <1>2, <2>2, <2>4 DEF Links, Pending
  <2>6. /\ Jobs(o)' = Jobs(o) \ {Top.t} /\ (Top.t \in Jobs(o) <=> jobobj[Top.t] = o)
    BY <1>2, <2>2, <2>4 DEF Jobs
  <2>7. Cardinality(Jobs(o)') = Cardinality(Jobs(o)) - (IF jobobj[Top.t] = o THEN 1 ELSE 0)
    <3>1. Cardinality(Jobs(o) \ {Top.t}) =
            IF Top.t \in Jobs(o) THEN Cardinality(Jobs(o)) - 1 ELSE Cardinality(Jobs(o))
      BY <1>1, FS_RemoveElement
    <3> QED
      BY <1>1, <2>6, <3>1
  <2>8. refs'[o] = refs[o] - (IF jobobj[Top.t] = o THEN 1 ELSE 0)
    BY <1>2, <2>3, <2>4 DEF Release
  <2>9. ObjFlight(o)' = ObjFlight(o)
    <3>1. ~CheckPop /\ ~CheckComplete
      BY <2>1 DEF CheckPop, CheckComplete
    <3> QED
      BY <3>1, FlightKept, CountSame
  <2> QED
    BY <1>1, <1>2, <1>3, <2>4, <2>5, <2>7, <2>8, <2>9 DEF BalanceOf
<1>7. CASE ~CheckPop /\ ~CheckComplete /\ ~HandleReleases
  <2>1. ObjFlight(o)' = ObjFlight(o)
    BY <1>7, FlightKept, CountSame
  <2>2. tpc' = tpc /\ jobobj' = jobobj
    BY <1>7 DEF MainNext, MethodNext, NewInput, LoopCheck, WaitSignals,
       HandleEnds, CheckEmpty, SyncCall, MethodReturns, HandleThread, MethodPushes,
       MethodPushesSync, MethodDisposes, MethodKills, Quit, threadvars
  <2>3. Jobs(o)' = Jobs(o) /\ Links(o)' = Links(o)
    BY <2>2, JobsSame
  <2>4. ASSUME NEW x \in Objs, MethodPushes(x)
        PROVE  BalanceOf(o)'
    <3>1. Enqueue(Main, x, FALSE) /\ Retain(x) /\ held' = held
      BY <2>4 DEF MethodPushes
    <3>2. Cardinality(Pending(o)') = Cardinality(Pending(o)) + (IF x = o THEN 1 ELSE 0)
      BY <1>2, <2>4, <3>1, CountEnqueue
    <3>3. refs'[o] = refs[o] + (IF x = o THEN 1 ELSE 0)
      BY <1>2, <3>1 DEF Retain
    <3> QED
      BY <1>1, <1>2, <1>3, <2>1, <2>3, <3>1, <3>2, <3>3 DEF BalanceOf
  <2>5. ASSUME NEW x \in Objs, MethodDisposes(x)
        PROVE  BalanceOf(o)'
    <3>1. /\ held[x] /\ held' = [held EXCEPT ![x] = FALSE] /\ Release(x)
          /\ methodlist' = methodlist
      BY <2>5 DEF MethodDisposes
    <3>2. Pending(o)' = Pending(o)
      BY <3>1 DEF Pending
    <3>3. CASE x = o
      <4>1. refs'[o] = refs[o] - 1
        BY <1>2, <3>1, <3>3 DEF Release
      <4>2. One(held[o]) = 1 /\ One(held'[o]) = 0
        BY <1>2, <3>1, <3>3 DEF One
      <4> QED
        BY <1>1, <1>2, <2>1, <2>3, <3>2, <4>1, <4>2 DEF BalanceOf
    <3>4. CASE x # o
      <4>1. refs'[o] = refs[o]
        BY <1>2, <3>1, <3>4 DEF Release
      <4>2. One(held'[o]) = One(held[o])
        BY <1>2, <3>1, <3>4 DEF One
      <4> QED
        BY <1>1, <1>2, <2>1, <2>3, <3>2, <4>1, <4>2 DEF BalanceOf
    <3> QED
      BY <3>3, <3>4
  <2>6. ASSUME NEW x \in Objs, Kill(x), held' = held
        PROVE  BalanceOf(o)'
    <3>1. /\ methodlist' = Forget(x)
          /\ refs' = [refs EXCEPT ![x] = @ - Cardinality(Pending(x))]
      BY <2>6 DEF Kill
    <3>2. Pending(x)' = {} /\ \A y \in Objs \ {x} : Pending(y)' = Pending(y)
      BY <3>1, CountKill
    <3>3. CASE x = o
      <4>1. refs'[o] = refs[o] - Cardinality(Pending(o))
        BY <1>2, <3>1, <3>3
      <4>2. Cardinality(Pending(o)') = 0
        BY <3>2, <3>3, FS_EmptySet
      <4> QED
        BY <1>1, <1>2, <1>3, <2>1, <2>3, <2>6, <4>1, <4>2 DEF BalanceOf
    <3>4. CASE x # o
      <4>1. refs'[o] = refs[o]
        BY <1>2, <3>1, <3>4
      <4>2. Pending(o)' = Pending(o)
        BY <3>2, <3>4
      <4> QED
        BY <1>1, <1>2, <1>3, <2>1, <2>3, <2>6, <4>1, <4>2, BalanceSame
    <3> QED
      BY <3>3, <3>4
  <2>7. ASSUME methodlist' = methodlist, refs' = refs, held' = held
        PROVE  BalanceOf(o)'
    <3>1. Pending(o)' = Pending(o)
      BY <2>7 DEF Pending
    <3> QED
      BY <2>1, <2>3, <2>7, <3>1, BalanceSame
  <2>8. CASE Quit
    BY <1>2, <2>6, <2>8 DEF Quit
  <2>9. CASE \E x \in Objs : MethodKills(x)
    BY <2>6, <2>9 DEF MethodKills
  <2>10. CASE \E x \in Objs : MethodPushesSync(x)
    BY <2>7, <2>10 DEF MethodPushesSync
  <2>11. CASE MainNext
    BY <1>7, <2>7, <2>11 DEF MainNext, NewInput, LoopCheck, WaitSignals, HandleEnds,
       CheckEmpty, SyncCall, MethodReturns, HandleThread
  <2> QED
    BY <2>4, <2>5, <2>8, <2>9, <2>10, <2>11 DEF MethodNext
<1> QED
  BY <1>4, <1>5, <1>6, <1>7

\* Reference counts stay exact: of every object there are as many references
\* as its owner, the jobs that work for it, the methods pushed to it and the
\* pushes under way hold, so that methodstack_check and
\* methodstack_kill_methods release each reference once.
THEOREM RefsKept == Spec => []RefBalance
<1>1. Init => FinishOver /\ RefBalance
  <2> SUFFICES ASSUME Init PROVE FinishOver /\ RefBalance
    OBVIOUS
  <2>1. methodlist = <<>> /\ stack = <<>> /\ port = {}
    BY DEF Init
  <2>2. FinishOver
    BY <2>1 DEF FinishOver
  <2>3. ASSUME NEW o \in Objs
        PROVE  BalanceOf(o)
    <3>1. Pending(o) = {} /\ ObjFlight(o) = {}
      BY <2>1 DEF Pending, ObjFlight, InFlight
    <3>2. \A t \in Threads : tpc[t] = "run"
      BY DEF Init
    <3>3. Links(o) = {} /\ Jobs(o) = {t \in Pool : jobobj[t] = o}
      BY <3>2 DEF Links, Jobs, Pool
    <3>4. refs[o] = 1 + Cardinality({t \in Pool : jobobj[t] = o}) /\ held[o]
      BY DEF Init
    <3>5. Cardinality(Jobs(o)) \in Nat
      BY JobsFinite
    <3> QED
      BY <3>1, <3>3, <3>4, <3>5, FS_EmptySet DEF BalanceOf, One
  <2> QED
    BY <2>2, <2>3, BalanceOfEach
<1>2. TypeOK /\ FinishOver /\ [Next]_vars => FinishOver'
  BY FinishOverKept
<1>3. TypeOK /\ FinishOver /\ RefBalance /\ [Next]_vars => RefBalance'
  <2> SUFFICES ASSUME TypeOK, FinishOver, RefBalance, [Next]_vars, NEW o \in Objs
               PROVE  BalanceOf(o)'
    BY DEF RefBalance, BalanceOf, Jobs, Links, ObjFlight, One
  <2>1. BalanceOf(o)
    BY BalanceOfEach
  <2>2. CASE \E u \in Threads : ThreadNext(u)
    <3>1. PICK u \in Threads : ThreadNext(u)
      BY <2>2
    <3>2. stack' = stack
      BY <3>1 DEF ThreadNext, Push, SyncRetain, SyncEnqueue, SyncNoMemory, SyncSignal,
         SyncReturn, JobSleeps, JobWakes, EndJob, mainvars
    <3>3. SameFlight
      BY <3>2 DEF SameFlight, InFlight
    <3> QED
      BY <2>1, <3>1, <3>3, BalanceThread
  <2>3. CASE MainNext \/ MethodNext \/ Quit
    BY <2>1, <2>3, BalanceMain
  <2>4. CASE UNCHANGED vars
    <3>1. UNCHANGED <<methodlist, stack, refs, held, tpc, jobobj>>
      BY <2>4 DEF vars
    <3>2. Pending(o)' = Pending(o) /\ ObjFlight(o)' = ObjFlight(o)
      BY <3>1 DEF Pending, ObjFlight, InFlight
    <3> QED
      BY <2>1, <3>1, <3>2, BalanceSame, JobsSame
  <2> QED
    BY <2>2, <2>3, <2>4 DEF Next
<1> QED
  BY <1>1, <1>2, <1>3, TypeCorrect, PTL DEF Spec

-----------------------------------------------------------------------------
(* The method stack does what CallService promises; only fairness is left  *)
(* to TLC.                                                                 *)

\* A call that is taken up has not been before: it is in one
\* methodstack_check only, and not among those carried out.
TakenOnce ==
  /\ \A i \in InFlight :
       /\ stack[i].pm.n <= started[stack[i].pm.from]
       /\ <<stack[i].pm.from, stack[i].pm.n>> \notin finished
  /\ \A i, j \in InFlight :
       i # j => stack[i].pm.from # stack[j].pm.from \/ stack[i].pm.n # stack[j].pm.n
  /\ \A c \in Callers : \A n \in 1..MaxCalls :
       <<c, n>> \in finished => n <= started[c]

\* A thread in methodstack_push_sync waits for the last call it has made.
WaitsForLast(pm, made) == pm.sync => pm.from \in Threads /\ pm.n = made[pm.from]

LastAwaited ==
  /\ \A i \in DOMAIN methodlist : WaitsForLast(methodlist[i], calls)
  /\ \A i \in InFlight : WaitsForLast(stack[i].pm, calls)
  /\ \A t \in Threads : reply[t] # NULL => <<t, calls[t]>> \in finished

\* Calls are carried out before the end only.
EndsIdle == mpc = "exit" => Idle

LEMMA FlightTypes ==
  ASSUME TypeOK
  PROVE  \A i \in InFlight : /\ stack[i].pm \in Method
                             /\ stack[i].pm.from \in Callers
                             /\ stack[i].pm.n \in 1..MaxCalls
<1> SUFFICES ASSUME NEW i \in InFlight
             PROVE  /\ stack[i].pm \in Method
                    /\ stack[i].pm.from \in Callers
                    /\ stack[i].pm.n \in 1..MaxCalls
  OBVIOUS
<1>1. stack[i] \in Frame /\ stack[i].k = "check" /\ stack[i].pm # NULL
  BY StackParts DEF InFlight
<1>2. stack[i] \in CheckFrame
  BY <1>1, TopTypes
<1>3. stack[i].pm \in Method
  BY <1>1, <1>2 DEF CheckFrame
<1> QED
  BY <1>3 DEF Method

LEMMA TakenOnceKept ==
  ASSUME TypeOK, InOrder, TakenOnce, [Next]_vars
  PROVE  TakenOnce'
<1>1. CASE CheckPop
  <2> DEFINE m == Len(stack)
  <2>1. PICK pm : pm = Head(methodlist)
    OBVIOUS
  <2>2. /\ pm \in Method /\ pm.from \in Callers /\ pm.n \in 1..MaxCalls
        /\ pm.n = started[pm.from] + 1
        /\ started' = [started EXCEPT ![pm.from] = @ + 1]
    BY <1>1, <2>1, HeadNext
  <2>3. /\ m \notin InFlight /\ InFlight' = InFlight \cup {m}
        /\ \A i \in InFlight : stack'[i] = stack[i]
        /\ stack'[m].pm = pm
    BY <1>1, <2>1, FlightPop
  <2>4. finished' = finished
    BY <1>1 DEF CheckPop
  <2>5. /\ \A c \in Callers : started[c] \in Nat /\ started'[c] \in Nat
        /\ \A c \in Callers : started[c] <= started'[c]
        /\ started'[pm.from] = pm.n
        /\ started[pm.from] < pm.n
    BY <2>2 DEF TypeOK
  <2>6. \A i \in InFlight : stack[i].pm.from \in Callers /\ stack[i].pm.n \in 1..MaxCalls
    BY FlightTypes
  <2> HIDE DEF m
  <2>7. \A i \in InFlight' : /\ stack'[i].pm.n <= started'[stack'[i].pm.from]
                             /\ <<stack'[i].pm.from, stack'[i].pm.n>> \notin finished'
    <3>1. ASSUME NEW i \in InFlight
          PROVE  stack[i].pm.n <= started'[stack[i].pm.from]
      <4>1. stack[i].pm.n <= started[stack[i].pm.from]
        BY DEF TakenOnce
      <4> QED
        BY <2>5, <2>6, <4>1
    <3>2. \A i \in InFlight : <<stack[i].pm.from, stack[i].pm.n>> \notin finished
      BY DEF TakenOnce
    <3>3. <<pm.from, pm.n>> \notin finished
      <4>1. ~(pm.n <= started[pm.from])
        BY <2>2, <2>5
      <4> QED
        BY <2>2, <4>1 DEF TakenOnce
    <3>4. pm.n <= started'[pm.from]
      BY <2>2, <2>5
    <3> QED
      BY <2>3, <2>4, <3>1, <3>2, <3>3, <3>4
  <2>8. \A i, j \in InFlight' :
          i # j => \/ stack'[i].pm.from # stack'[j].pm.from
                   \/ stack'[i].pm.n # stack'[j].pm.n
    <3>1. ASSUME NEW i \in InFlight
          PROVE  stack[i].pm.from # pm.from \/ stack[i].pm.n # pm.n
      <4>1. stack[i].pm.n <= started[stack[i].pm.from]
        BY DEF TakenOnce
      <4> QED
        BY <2>2, <2>5, <2>6, <4>1
    <3>2. \A i, j \in InFlight : i # j => \/ stack[i].pm.from # stack[j].pm.from
                                          \/ stack[i].pm.n # stack[j].pm.n
      BY DEF TakenOnce
    <3> QED
      BY <2>3, <3>1, <3>2
  <2>9. \A c \in Callers : \A n \in 1..MaxCalls :
          <<c, n>> \in finished' => n <= started'[c]
    BY <2>4, <2>5 DEF TakenOnce
  <2> QED
    BY <2>7, <2>8, <2>9 DEF TakenOnce
<1>2. CASE CheckComplete
  <2> DEFINE m == Len(stack)
  <2>1. PICK pm : pm = Top.pm
    OBVIOUS
  <2>2. /\ m \in InFlight /\ InFlight' = InFlight \ {m}
        /\ \A i \in InFlight' : stack'[i] = stack[i]
        /\ stack[m].pm = pm
        /\ pm \in Method
    BY <1>2, <2>1, FlightComplete
  <2>3. started' = started /\ finished' = finished \cup {<<pm.from, pm.n>>}
    BY <1>2, <2>1 DEF CheckComplete
  <2> HIDE DEF m
  <2>4. pm.n <= started[pm.from]
    BY <2>2 DEF TakenOnce
  <2> QED
    BY <2>2, <2>3, <2>4 DEF TakenOnce
<1>3. CASE ~CheckPop /\ ~CheckComplete
  <2>1. SameFlight
    BY <1>3, FlightKept
  <2>2. started' = started /\ finished' = finished
    BY <1>3 DEF Next, vars, ThreadNext, MainNext, MethodNext, NewInput, LoopCheck, WaitSignals,
       HandleReleases, HandleEnds, CheckEmpty, SyncCall, MethodReturns, HandleThread,
       MethodPushes, MethodPushesSync, MethodDisposes, MethodKills, Quit, Push, SyncRetain,
       SyncEnqueue, SyncNoMemory, SyncSignal, SyncReturn, JobSleeps, JobWakes, EndJob, history
  <2> QED
    BY <2>1, <2>2 DEF TakenOnce, SameFlight
<1> QED
  BY <1>1, <1>2, <1>3

\* A thread that does not wait has no synchronous call anywhere.
LEMMA NoneAwaited ==
  ASSUME TypeOK, OneReplyPerCall, NEW t \in Pool, ~Waiting(t)
  PROVE  /\ \A i \in DOMAIN methodlist : ~(methodlist[i].from = t /\ methodlist[i].sync)
         /\ \A i \in InFlight : ~(stack[i].pm.from = t /\ stack[i].pm.sync)
         /\ reply[t] = NULL
<1>1. OneFor(t)
  BY OneForEach
<1>2. /\ IsFiniteSet(SyncListed(t)) /\ Cardinality(SyncListed(t)) \in Nat
      /\ IsFiniteSet(SyncFlight(t)) /\ Cardinality(SyncFlight(t)) \in Nat
  BY CountsFinite
<1>3. Cardinality(SyncListed(t)) + Cardinality(SyncFlight(t)) + One(reply[t] # NULL) = 0
  BY <1>1 DEF OneFor, One
<1>4. Cardinality(SyncListed(t)) = 0 /\ Cardinality(SyncFlight(t)) = 0 /\ reply[t] = NULL
  BY <1>2, <1>3 DEF One
<1>5. SyncListed(t) = {} /\ SyncFlight(t) = {}
  BY <1>2, <1>4, FS_EmptySet
<1> QED
  BY <1>4, <1>5 DEF SyncListed, SyncFlight

LEMMA AwaitedPush ==
  ASSUME TypeOK, LastAwaited, SameFlight, NEW c \in Callers, NEW o \in Objs,
         NEW sync \in BOOLEAN, Enqueue(c, o, sync),
         sync => c \in Threads,
         \A i \in DOMAIN methodlist : ~(methodlist[i].from = c /\ methodlist[i].sync),
         \A i \in InFlight : ~(stack[i].pm.from = c /\ stack[i].pm.sync),
         c \in Threads => reply[c] = NULL,
         reply' = reply, finished' = finished
  PROVE  LastAwaited'
<1> DEFINE k == Len(methodlist)
<1>1. /\ DOMAIN methodlist' = 1..(k + 1)
      /\ \A j \in 1..k : methodlist'[j] = methodlist[j]
      /\ methodlist'[k + 1].from = c
      /\ methodlist'[k + 1].n = calls[c] + 1
      /\ methodlist'[k + 1].sync = sync
  BY EnqueueParts
<1>2. k \in Nat /\ DOMAIN methodlist = 1..k /\ \A j \in 1..k : methodlist[j].from \in Callers
  BY ListTypes
<1>3. calls' = [calls EXCEPT ![c] = @ + 1] /\ calls \in [Callers -> 0..MaxCalls]
  BY DEF Enqueue, TypeOK
<1>4. calls'[c] = calls[c] + 1 /\ \A d \in Callers \ {c} : calls'[d] = calls[d]
  BY <1>3
<1> HIDE DEF k
<1>5. \A i \in DOMAIN methodlist' : WaitsForLast(methodlist'[i], calls')
  <2>1. ASSUME NEW j \in 1..k
        PROVE  WaitsForLast(methodlist'[j], calls')
    BY <1>1, <1>2, <1>4 DEF LastAwaited, WaitsForLast
  <2>2. WaitsForLast(methodlist'[k + 1], calls')
    BY <1>1, <1>4 DEF WaitsForLast
  <2>3. \A j \in 1..(k + 1) : j \in 1..k \/ j = k + 1
    BY <1>2
  <2> QED
    BY <1>1, <2>1, <2>2, <2>3
<1>6. \A i \in InFlight' : WaitsForLast(stack'[i].pm, calls')
  BY <1>4, FlightTypes DEF LastAwaited, WaitsForLast, SameFlight
<1>7. \A t \in Threads : reply'[t] # NULL => <<t, calls'[t]>> \in finished'
  BY <1>4 DEF LastAwaited, Callers
<1> QED
  BY <1>5, <1>6, <1>7 DEF LastAwaited

LEMMA LastAwaitedThread ==
  ASSUME Aliens = {}, TypeOK, OneReplyPerCall, LastAwaited,
         NEW u \in Threads, ThreadNext(u)
  PROVE  LastAwaited'
<1>1. stack' = stack /\ finished' = finished
  BY DEF ThreadNext, Push, SyncRetain, SyncEnqueue, SyncNoMemory, SyncSignal, SyncReturn,
     JobSleeps, JobWakes, EndJob, mainvars, history
<1>2. SameFlight
  BY <1>1 DEF SameFlight, InFlight
<1>3. u \in Pool /\ u \in Callers /\ jobobj[u] \in Objs
  BY DEF Pool, Callers, TypeOK
<1>4. CASE Push(u) \/ SyncEnqueue(u)
  <2>1. /\ ~Waiting(u) /\ reply' = reply
        /\ Enqueue(u, jobobj[u], FALSE) \/ Enqueue(u, jobobj[u], TRUE)
    BY <1>4 DEF Push, SyncEnqueue, Waiting, threadvars
  <2>2. /\ \A i \in DOMAIN methodlist : ~(methodlist[i].from = u /\ methodlist[i].sync)
        /\ \A i \in InFlight : ~(stack[i].pm.from = u /\ stack[i].pm.sync)
        /\ reply[u] = NULL
    BY <1>3, <2>1, NoneAwaited
  <2> QED
    BY <1>1, <1>2, <1>3, <2>1, <2>2, AwaitedPush
<1>5. CASE ~Push(u) /\ ~SyncEnqueue(u)
  <2>1. /\ methodlist' = methodlist /\ calls' = calls
        /\ reply' = reply \/ reply' = [reply EXCEPT ![u] = NULL]
    BY <1>5 DEF ThreadNext, SyncRetain, SyncNoMemory, SyncSignal, SyncReturn,
       JobSleeps, JobWakes, EndJob
  <2>2. \A t \in Threads : reply'[t] # NULL => reply[t] # NULL
    BY <2>1 DEF TypeOK
  <2> QED
    BY <1>1, <1>2, <2>1, <2>2 DEF LastAwaited, WaitsForLast, SameFlight
<1> QED
  BY <1>4, <1>5

LEMMA LastAwaitedMain ==
  ASSUME TypeOK, LastAwaited, MainNext \/ MethodNext \/ Quit, [Next]_vars
  PROVE  LastAwaited'
<1>1. CASE CheckPop
  <2> DEFINE m == Len(stack)
             k == Len(methodlist)
  <2>1. PICK pm : pm = Head(methodlist)
    OBVIOUS
  <2>2. /\ m \notin InFlight /\ InFlight' = InFlight \cup {m}
        /\ \A i \in InFlight : stack'[i] = stack[i]
        /\ stack'[m].pm = pm
    BY <1>1, <2>1, FlightPop
  <2>3. UNCHANGED <<finished, calls, reply>>
    BY <1>1 DEF CheckPop, threadvars
  <2>4. /\ k \in Nat /\ DOMAIN methodlist = 1..k /\ k >= 1
        /\ pm = methodlist[1]
        /\ DOMAIN methodlist' = 1..(k - 1)
        /\ \A j \in 1..(k - 1) : methodlist'[j] = methodlist[j + 1]
    <3>1. methodlist \in Seq(Method) /\ methodlist # <<>> /\ methodlist' = Tail(methodlist)
      BY <1>1 DEF TypeOK, CheckPop
    <3>2. /\ Tail(methodlist) \in Seq(Method) /\ Len(Tail(methodlist)) = k - 1
          /\ \A j \in 1..(k - 1) : Tail(methodlist)[j] = methodlist[j + 1]
      BY <3>1, HeadTailProperties
    <3>3. DOMAIN Tail(methodlist) = 1..(k - 1)
      BY <3>2, LenProperties
    <3>4. k \in Nat /\ k # 0
      BY <3>1, EmptySeq, LenProperties
    <3>5. Head(methodlist) = methodlist[1]
      BY <3>1
    <3> QED
      BY <2>1, <3>1, <3>2, <3>3, <3>4, <3>5, ListTypes
  <2> HIDE DEF m, k
  <2>5. \A j \in 1..(k - 1) : j + 1 \in 1..k
    BY <2>4
  <2>6. 1 \in 1..k
    BY <2>4
  <2>7. \A i \in DOMAIN methodlist' : WaitsForLast(methodlist'[i], calls')
    BY <2>3, <2>4, <2>5 DEF LastAwaited, WaitsForLast
  <2>8. \A i \in InFlight' : WaitsForLast(stack'[i].pm, calls')
    BY <2>2, <2>3, <2>4, <2>6 DEF LastAwaited, WaitsForLast
  <2> QED
    BY <2>3, <2>7, <2>8 DEF LastAwaited
<1>2. CASE CheckComplete
  <2> DEFINE m == Len(stack)
  <2>1. PICK pm : pm = Top.pm
    OBVIOUS
  <2>2. /\ m \in InFlight /\ InFlight' = InFlight \ {m}
        /\ \A i \in InFlight' : stack'[i] = stack[i]
        /\ stack[m].pm = pm
    BY <1>2, <2>1, FlightComplete
  <2>3. /\ UNCHANGED <<methodlist, calls>> /\ reply' = Answer(pm)
        /\ finished' = finished \cup {<<pm.from, pm.n>>}
    BY <1>2, <2>1 DEF CheckComplete
  <2> HIDE DEF m
  <2>4. WaitsForLast(pm, calls)
    BY <2>2 DEF LastAwaited
  <2>5. ASSUME NEW t \in Threads, reply'[t] # NULL
        PROVE  <<t, calls'[t]>> \in finished'
    <3>1. CASE pm.sync /\ pm.from = t
      BY <2>3, <2>4, <3>1 DEF WaitsForLast
    <3>2. CASE ~(pm.sync /\ pm.from = t)
      <4>1. reply'[t] = reply[t]
        BY <2>3, <3>2 DEF Answer, TypeOK
      <4> QED
        BY <2>3, <2>5, <4>1 DEF LastAwaited
    <3> QED
      BY <3>1, <3>2
  <2> QED
    BY <2>2, <2>3, <2>5 DEF LastAwaited, WaitsForLast
<1>3. ASSUME SameFlight, UNCHANGED <<methodlist, calls, reply, finished>>
      PROVE  LastAwaited'
  BY <1>3 DEF LastAwaited, WaitsForLast, SameFlight
<1>4. ASSUME SameFlight, NEW o \in Objs, methodlist' = Forget(o),
             UNCHANGED <<calls, reply, finished>>
      PROVE  LastAwaited'
  <2>1. /\ DOMAIN methodlist' = DOMAIN methodlist
        /\ \A i \in DOMAIN methodlist :
             \/ methodlist'[i] = methodlist[i]
             \/ methodlist'[i] = [methodlist[i] EXCEPT !.obj = NULL]
    BY <1>4 DEF Forget
  <2>2. \A i \in DOMAIN methodlist : methodlist[i] \in Method
    BY ListTypes
  <2>3. \A pm \in Method : LET g == [pm EXCEPT !.obj = NULL]
                           IN  g.from = pm.from /\ g.n = pm.n /\ g.sync = pm.sync
    BY DEF Method
  <2>4. \A i \in DOMAIN methodlist : /\ methodlist'[i].from = methodlist[i].from
                                     /\ methodlist'[i].n = methodlist[i].n
                                     /\ methodlist'[i].sync = methodlist[i].sync
    BY <2>1, <2>2, <2>3
  <2> QED
    BY <1>4, <2>1, <2>4 DEF LastAwaited, WaitsForLast, SameFlight
<1>5. ASSUME NEW o \in Objs, MethodPushes(o)
      PROVE  LastAwaited'
  <2>1. Main \in Callers /\ Main \notin Threads
    BY ConstantsAssumption DEF Callers
  <2>2. Enqueue(Main, o, FALSE) /\ UNCHANGED <<reply, finished, stack>>
    BY <1>5 DEF MethodPushes, threadvars, history
  <2>3. /\ \A i \in DOMAIN methodlist : ~(methodlist[i].from = Main /\ methodlist[i].sync)
        /\ \A i \in InFlight : ~(stack[i].pm.from = Main /\ stack[i].pm.sync)
    BY <2>1 DEF LastAwaited, WaitsForLast
  <2>4. SameFlight
    BY <2>2 DEF SameFlight, InFlight
  <2> QED
    BY <2>1, <2>2, <2>3, <2>4, AwaitedPush
<1>6. CASE /\ ~CheckPop /\ ~CheckComplete
           /\ ~\E o \in Objs : MethodPushes(o) \/ MethodKills(o)
           /\ ~Quit
  <2>1. SameFlight
    BY <1>6, FlightKept
  <2>2. UNCHANGED <<methodlist, calls, reply, finished>>
    BY <1>6 DEF MainNext, MethodNext, NewInput, LoopCheck, WaitSignals, HandleReleases,
       HandleEnds, CheckEmpty, SyncCall, MethodReturns, HandleThread, MethodPushesSync,
       MethodDisposes, threadvars, history
  <2> QED
    BY <1>3, <2>1, <2>2
<1>7. ASSUME NEW o \in Objs, MethodKills(o)
      PROVE  LastAwaited'
  <2>1. methodlist' = Forget(o) /\ UNCHANGED <<calls, reply, finished, stack>>
    BY <1>7 DEF MethodKills, Kill, threadvars, history
  <2>2. SameFlight
    BY <2>1 DEF SameFlight, InFlight
  <2> QED
    BY <1>4, <2>1, <2>2
<1>8. CASE Quit
  <2>1. methodlist' = Forget(App) /\ UNCHANGED <<calls, reply, finished, stack>>
    BY <1>8 DEF Quit, Kill, threadvars, history
  <2>2. SameFlight
    BY <2>1 DEF SameFlight, InFlight
  <2> QED
    BY <1>4, <2>1, <2>2, ConstantsAssumption
<1> QED
  BY <1>1, <1>2, <1>5, <1>6, <1>7, <1>8

LEMMA EndsIdleKept ==
  ASSUME EndsIdle, [Next]_vars
  PROVE  EndsIdle'
<1>1. CASE mpc = "exit"
  <2>1. stack = <<>>
    BY <1>1 DEF EndsIdle, Idle
  <2>2. stack' = stack
    BY <1>1, <2>1 DEF Next, vars, ThreadNext, MainNext, MethodNext, NewInput, LoopCheck,
       WaitSignals, HandleReleases, HandleEnds, CheckPop, CheckEmpty, CheckComplete, SyncCall,
       MethodReturns, HandleThread, MethodPushes, MethodPushesSync, MethodDisposes,
       MethodKills, Quit, InMethod, Idle, Push, SyncRetain, SyncEnqueue, SyncNoMemory,
       SyncSignal, SyncReturn, JobSleeps, JobWakes, EndJob, mainvars
  <2> QED
    BY <2>1, <2>2 DEF EndsIdle, Idle
<1>2. CASE mpc # "exit" /\ ~Quit
  <2>1. mpc' # "exit"
    BY <1>2 DEF Next, vars, ThreadNext, MainNext, MethodNext, NewInput, LoopCheck,
       WaitSignals, HandleReleases, HandleEnds, CheckPop, CheckEmpty, CheckComplete, SyncCall,
       MethodReturns, HandleThread, MethodPushes, MethodPushesSync, MethodDisposes,
       MethodKills, Push, SyncRetain, SyncEnqueue, SyncNoMemory,
       SyncSignal, SyncReturn, JobSleeps, JobWakes, EndJob, mainvars
  <2> QED
    BY <2>1 DEF EndsIdle
<1>3. CASE Quit
  BY <1>3 DEF Quit, EndsIdle, Idle
<1> QED
  BY <1>1, <1>2, <1>3

\* The call each caller waits for, as MethodStack maps it to CallService.
Blocked ==
  [c \in Callers |->
     IF c # Main /\ c \in DOMAIN tpc
       THEN IF Waiting(c) THEN calls[c] ELSE 0
       ELSE 0]

LEMMA BlockedThread ==
  ASSUME tpc \in [Threads -> TPC], NEW t \in Threads
  PROVE  t \in Callers /\ Blocked[t] = IF Waiting(t) THEN calls[t] ELSE 0
BY ConstantsAssumption DEF Blocked, Callers

LEMMA BlockedMain == Main \in Callers /\ Blocked[Main] = 0
BY DEF Blocked, Callers

\* Nobody begins or ends waiting.
LEMMA BlockedSame ==
  ASSUME TypeOK, tpc' \in [Threads -> TPC], NEW c \in Callers,
         Waiting(c)' <=> Waiting(c), calls'[c] = calls[c] \/ ~Waiting(c)
  PROVE  Blocked'[c] = Blocked[c]
<1>1. DOMAIN tpc' = DOMAIN tpc
  BY DEF TypeOK
<1> QED
  BY <1>1 DEF Blocked

\* Blocked is known by its values.
LEMMA BlockedKept ==
  ASSUME \A c \in Callers : Blocked'[c] = Blocked[c]
  PROVE  Blocked' = Blocked
<1>1. /\ Blocked = [c \in Callers |-> Blocked[c]]
      /\ Blocked' = [c \in Callers |-> Blocked'[c]]
  BY DEF Blocked
<1> QED
  BY <1>1

LEMMA BlockedBut ==
  ASSUME NEW t \in Callers, NEW v, Blocked'[t] = v,
         \A c \in Callers \ {t} : Blocked'[c] = Blocked[c]
  PROVE  Blocked' = [Blocked EXCEPT ![t] = v]
<1>1. /\ Blocked = [c \in Callers |-> Blocked[c]]
      /\ Blocked' = [c \in Callers |-> Blocked'[c]]
  BY DEF Blocked
<1>2. DOMAIN Blocked = Callers
  BY DEF Blocked
<1>3. [Blocked EXCEPT ![t] = v] = [c \in Callers |-> IF c = t THEN v ELSE Blocked[c]]
  BY <1>2
<1> QED
  BY <1>1, <1>3

LEMMA ServiceStutters ==
  ASSUME UNCHANGED <<calls, started, finished, mpc>>, Blocked' = Blocked
  PROVE  UNCHANGED Service!vars
BY DEF Service!vars, Blocked, Waiting

LEMMA ServiceStays ==
  ASSUME UNCHANGED <<calls, started, finished>>, Blocked' = Blocked,
         (mpc' # "exit") <=> (mpc # "exit")
  PROVE  UNCHANGED Service!vars
BY DEF Service!vars, Blocked, Waiting

LEMMA ServiceIssues ==
  ASSUME TypeOK, NEW c \in Callers, NEW o, NEW sync \in BOOLEAN, Enqueue(c, o, sync),
         Blocked[c] = 0,
         Blocked' = [Blocked EXCEPT ![c] = IF sync THEN calls[c] + 1 ELSE 0],
         UNCHANGED <<started, finished, mpc>>
  PROVE  Service!Issue(c, sync)
<1>1. calls[c] < MaxCalls /\ calls' = [calls EXCEPT ![c] = @ + 1]
  BY DEF Enqueue
<1> QED
  BY <1>1 DEF Service!Issue, Blocked, Waiting

LEMMA ThreadServes ==
  ASSUME Aliens = {}, TypeOK, LastAwaited, NEW t \in Threads, ThreadNext(t)
  PROVE  \/ UNCHANGED Service!vars
         \/ \E sync \in BOOLEAN : Service!Issue(t, sync)
         \/ Service!Return(t)
<1>1. /\ tpc \in [Threads -> TPC] /\ tpc' \in [Threads -> TPC]
      /\ calls \in [Callers -> 0..MaxCalls] /\ t \in Callers /\ Main \notin Threads
      /\ jobobj[t] \in Objs
  <2>1. TypeOK'
    BY TypeThreads
  <2> QED
    BY <2>1, ConstantsAssumption DEF TypeOK, Callers
<1>2. UNCHANGED <<mpc, started>>
  BY DEF ThreadNext, Push, SyncRetain, SyncEnqueue, SyncNoMemory, SyncSignal, SyncReturn,
     JobSleeps, JobWakes, EndJob, mainvars, history
<1>4. ASSUME NEW at \in TPC, tpc' = [tpc EXCEPT ![t] = at] \/ tpc' = tpc,
             calls' = calls \/ calls' = [calls EXCEPT ![t] = @ + 1]
      PROVE  \A c \in Callers \ {t} : Blocked'[c] = Blocked[c]
  <2> SUFFICES ASSUME NEW c \in Callers \ {t} PROVE Blocked'[c] = Blocked[c]
    OBVIOUS
  <2>1. CASE c = Main
    BY <1>1, <2>1 DEF Blocked
  <2>2. CASE c \in Threads
    <3>1. tpc'[c] = tpc[c] /\ calls'[c] = calls[c]
      BY <1>1, <1>4, <2>2
    <3> QED
      BY <1>1, <3>1, BlockedSame DEF Waiting
  <2> QED
    BY <2>1, <2>2 DEF Callers
<1>5. CASE Push(t)
  <2>1. /\ Enqueue(t, jobobj[t], FALSE) /\ tpc[t] = "run" /\ tpc' = tpc
        /\ UNCHANGED finished /\ calls' = [calls EXCEPT ![t] = @ + 1]
    BY <1>5 DEF Push, threadvars, history, Enqueue
  <2>2. Blocked[t] = 0 /\ Blocked'[t] = 0
    BY <1>1, <2>1, BlockedThread DEF Waiting, Blocked
  <2>3. "run" \in TPC
    BY DEF TPC
  <2>4. \A c \in Callers \ {t} : Blocked'[c] = Blocked[c]
    BY <1>4, <2>1, <2>3
  <2>5. Blocked' = [Blocked EXCEPT ![t] = IF FALSE THEN calls[t] + 1 ELSE 0]
    BY <1>1, <2>2, <2>4, BlockedBut
  <2>6. Service!Issue(t, FALSE)
    BY <1>1, <1>2, <2>1, <2>2, <2>5, ServiceIssues
  <2> QED
    BY <2>6
<1>6. CASE SyncEnqueue(t)
  <2>1. /\ Enqueue(t, jobobj[t], TRUE) /\ tpc[t] = "link"
        /\ tpc' = [tpc EXCEPT ![t] = "signal"]
        /\ UNCHANGED finished /\ calls' = [calls EXCEPT ![t] = @ + 1]
    BY <1>6 DEF SyncEnqueue, history, Enqueue
  <2>2. tpc'[t] = "signal" /\ calls'[t] = calls[t] + 1
    BY <1>1, <2>1
  <2>3. Blocked[t] = 0
    BY <1>1, <2>1, BlockedThread DEF Waiting
  <2>4. Blocked'[t] = calls[t] + 1
    BY <1>1, <2>2 DEF Blocked, Waiting
  <2>5. "signal" \in TPC
    BY DEF TPC
  <2>6. \A c \in Callers \ {t} : Blocked'[c] = Blocked[c]
    BY <1>4, <2>1, <2>5
  <2>7. Blocked' = [Blocked EXCEPT ![t] = IF TRUE THEN calls[t] + 1 ELSE 0]
    BY <1>1, <2>4, <2>6, BlockedBut
  <2>8. Service!Issue(t, TRUE)
    BY <1>1, <1>2, <2>1, <2>3, <2>7, ServiceIssues
  <2> QED
    BY <2>8
<1>7. CASE SyncReturn(t)
  <2>1. /\ tpc[t] = "wait" /\ reply[t] # NULL /\ tpc' = [tpc EXCEPT ![t] = "run"]
        /\ UNCHANGED <<calls, finished>>
    BY <1>7 DEF SyncReturn, history
  <2>2. Blocked[t] = calls[t] /\ <<t, calls[t]>> \in finished
    BY <1>1, <2>1, BlockedThread DEF Waiting, LastAwaited
  <2>3. tpc'[t] = "run"
    BY <1>1, <2>1
  <2>4. Blocked'[t] = 0
    BY <1>1, <2>3 DEF Blocked, Waiting
  <2>5. "run" \in TPC
    BY DEF TPC
  <2>6. \A c \in Callers \ {t} : Blocked'[c] = Blocked[c]
    BY <1>4, <2>1, <2>5
  <2>7. Blocked' = [Blocked EXCEPT ![t] = 0]
    BY <1>1, <2>4, <2>6, BlockedBut
  <2>8. <<t, Blocked[t]>> \in finished
    BY <2>2
  <2>9. Service!Return(t)
    BY <1>2, <2>1, <2>7, <2>8 DEF Service!Return, Blocked, Waiting
  <2> QED
    BY <2>9
<1>8. CASE SyncRetain(t) \/ SyncSignal(t) \/ JobSleeps(t) \/ JobWakes(t) \/ EndJob(t)
  <2>1. /\ UNCHANGED <<calls, finished>>
        /\ \/ /\ tpc[t] \in {"run", "asleep"}
              /\ \E to \in {"link", "asleep", "run", "over"} : tpc' = [tpc EXCEPT ![t] = to]
           \/ tpc[t] = "signal" /\ tpc' = [tpc EXCEPT ![t] = "wait"]
    BY <1>8 DEF SyncRetain, SyncSignal, JobSleeps, JobWakes, EndJob, history
  <2>2. \A c \in Threads : Waiting(c)' <=> Waiting(c)
    BY <1>1, <2>1 DEF Waiting
  <2>3. \A c \in Callers : Blocked'[c] = Blocked[c]
    <3> SUFFICES ASSUME NEW c \in Callers PROVE Blocked'[c] = Blocked[c]
      OBVIOUS
    <3>1. CASE c = Main
      BY <1>1, <3>1 DEF Blocked
    <3>2. CASE c \in Threads
      BY <1>1, <2>1, <2>2, <3>2, BlockedSame
    <3> QED
      BY <3>1, <3>2 DEF Callers
  <2>4. Blocked' = Blocked
    BY <2>3, BlockedKept
  <2> QED
    BY <1>2, <2>1, <2>4, ServiceStutters
<1>9. CASE SyncNoMemory(t)
  BY <1>9 DEF SyncNoMemory
<1> QED
  BY <1>5, <1>6, <1>7, <1>8, <1>9 DEF ThreadNext

LEMMA MainServes ==
  ASSUME Aliens = {}, TypeOK, InOrder, FinishOver, TakenOnce, EndsIdle,
         MainNext \/ MethodNext \/ Quit, [Next]_vars
  PROVE  \/ UNCHANGED Service!vars
         \/ Service!Issue(Main, FALSE)
         \/ \E c \in Callers : Service!Start(c)
         \/ \E c \in Callers, n \in 1..MaxCalls : Service!Finish(c, n)
         \/ Service!Stop
<1>1. /\ tpc \in [Threads -> TPC] /\ calls \in [Callers -> 0..MaxCalls]
      /\ Main \in Callers /\ Main \notin Threads
  BY ConstantsAssumption DEF TypeOK, Callers
<1>2. ASSUME UNCHANGED <<tpc, calls>>
      PROVE  Blocked' = Blocked
  BY <1>2 DEF Blocked, Waiting
<1>3. CASE CheckPop
  <2>1. PICK pm : pm = Head(methodlist)
    OBVIOUS
  <2>2. /\ pm.from \in Callers /\ started[pm.from] < calls[pm.from]
        /\ started' = [started EXCEPT ![pm.from] = @ + 1]
    BY <1>3, <2>1, HeadNext
  <2>3. mpc # "exit"
    BY <1>3 DEF CheckPop, EndsIdle
  <2>4. UNCHANGED <<tpc, calls, finished, mpc>>
    BY <1>3 DEF CheckPop, threadvars
  <2>5. Service!Start(pm.from)
    BY <1>2, <2>2, <2>3, <2>4 DEF Service!Start, Blocked, Waiting
  <2> QED
    BY <2>2, <2>5
<1>4. CASE CheckComplete
  <2>1. PICK pm : pm = Top.pm
    OBVIOUS
  <2>2. Len(stack) \in InFlight /\ stack[Len(stack)].pm = pm
    BY <1>4, <2>1, FlightComplete
  <2>3. /\ pm.from \in Callers /\ pm.n \in 1..MaxCalls
        /\ pm.n <= started[pm.from] /\ <<pm.from, pm.n>> \notin finished
    BY <2>2, FlightTypes DEF TakenOnce
  <2>4. mpc # "exit"
    BY <1>4 DEF CheckComplete, EndsIdle
  <2>5. /\ UNCHANGED <<tpc, calls, started, mpc>>
        /\ finished' = finished \cup {<<pm.from, pm.n>>}
    BY <1>4, <2>1 DEF CheckComplete
  <2>6. Service!Finish(pm.from, pm.n)
    BY <1>2, <2>3, <2>4, <2>5 DEF Service!Finish, Blocked, Waiting
  <2> QED
    BY <2>3, <2>6
<1>5. CASE HandleReleases
  <2> DEFINE u == Top.t
  <2>1. u \in Threads /\ tpc[u] = "over"
    <3>1. Len(stack) \in DOMAIN stack /\ Top = stack[Len(stack)] /\ Top.k = "finish"
      BY <1>5, StackParts DEF HandleReleases
    <3> QED
      BY <3>1 DEF FinishOver, Pool
  <2>2. tpc' = [tpc EXCEPT ![u] = "gone"] /\ UNCHANGED <<calls, mpc, started, finished>>
    BY <1>5 DEF HandleReleases, history
  <2> HIDE DEF u
  <2>3. tpc' \in [Threads -> TPC] /\ \A t \in Threads : Waiting(t)' <=> Waiting(t)
    BY <1>1, <2>1, <2>2 DEF Waiting, TPC
  <2>4. \A c \in Callers : Blocked'[c] = Blocked[c]
    <3> SUFFICES ASSUME NEW c \in Callers PROVE Blocked'[c] = Blocked[c]
      OBVIOUS
    <3>1. CASE c = Main
      BY <1>1, <3>1 DEF Blocked
    <3>2. CASE c \in Threads
      BY <1>1, <2>2, <2>3, <3>2, BlockedSame
    <3> QED
      BY <3>1, <3>2 DEF Callers
  <2>5. Blocked' = Blocked
    BY <2>4, BlockedKept
  <2> QED
    BY <2>2, <2>5, ServiceStutters
<1>6. ASSUME NEW o \in Objs, MethodPushes(o)
      PROVE  Service!Issue(Main, FALSE)
  <2>1. /\ Enqueue(Main, o, FALSE) /\ UNCHANGED <<tpc, mpc, started, finished>>
        /\ calls' = [calls EXCEPT ![Main] = @ + 1]
    BY <1>6 DEF MethodPushes, threadvars, history, Enqueue
  <2>2. Blocked[Main] = 0 /\ Blocked'[Main] = 0
    BY <1>1 DEF Blocked
  <2>3. \A c \in Callers \ {Main} : Blocked'[c] = Blocked[c]
    BY <1>1, <2>1 DEF Blocked, Waiting
  <2>4. Blocked' = [Blocked EXCEPT ![Main] = 0]
    BY <1>1, <2>2, <2>3, BlockedBut
  <2>5. Blocked' = [Blocked EXCEPT ![Main] = IF FALSE THEN calls[Main] + 1 ELSE 0]
    BY <2>4
  <2> QED
    BY <1>1, <2>1, <2>2, <2>5, ServiceIssues
<1>7. CASE Quit
  <2>1. \A t \in Threads : ~Waiting(t)
    BY <1>7 DEF Quit, Pool, Waiting
  <2>2. \A c \in Callers : Blocked[c] = 0
    BY <1>1, <2>1 DEF Blocked
  <2>3. /\ UNCHANGED <<tpc, calls, started, finished>>
        /\ mpc # "exit" /\ mpc' = "exit"
    BY <1>7 DEF Quit, threadvars, history
  <2>4. Service!Stop
    BY <1>2, <2>2, <2>3 DEF Service!Stop, Blocked, Waiting
  <2> QED
    BY <2>4
<1>8. CASE /\ ~CheckPop /\ ~CheckComplete /\ ~HandleReleases /\ ~Quit
           /\ ~\E o \in Objs : MethodPushes(o)
  <2>1. UNCHANGED <<tpc, calls, started, finished>>
    BY <1>8 DEF MainNext, MethodNext, NewInput, LoopCheck, WaitSignals,
       HandleEnds, CheckEmpty, SyncCall, MethodReturns, HandleThread, MethodPushesSync,
       MethodDisposes, MethodKills, threadvars, history
  <2>2. (mpc' # "exit") <=> (mpc # "exit")
    BY <1>8 DEF MainNext, MethodNext, NewInput, LoopCheck, WaitSignals,
       HandleEnds, CheckEmpty, SyncCall, MethodReturns, HandleThread, MethodPushesSync,
       MethodDisposes, MethodKills
  <2> QED
    BY <1>2, <2>1, <2>2, ServiceStays
<1> QED
  BY <1>3, <1>4, <1>5, <1>6, <1>7, <1>8

LEMMA StepServes ==
  ASSUME Aliens = {}, TypeOK, InOrder, FinishOver, TakenOnce, LastAwaited, EndsIdle,
         [Next]_vars
  PROVE  [Service!Next]_(Service!vars)
<1>1. CASE \E t \in Threads : ThreadNext(t)
  <2>1. PICK t \in Threads : ThreadNext(t)
    BY <1>1
  <2>2. \/ UNCHANGED Service!vars
        \/ \E sync \in BOOLEAN : Service!Issue(t, sync)
        \/ Service!Return(t)
    BY <2>1, ThreadServes
  <2>3. t \in Callers
    BY DEF Callers
  <2> QED
    BY <2>2, <2>3 DEF Service!Next
<1>2. CASE MainNext \/ MethodNext \/ Quit
  <2>1. \/ UNCHANGED Service!vars
        \/ Service!Issue(Main, FALSE)
        \/ \E c \in Callers : Service!Start(c)
        \/ \E c \in Callers, n \in 1..MaxCalls : Service!Finish(c, n)
        \/ Service!Stop
    BY <1>2, MainServes
  <2>2. Main \in Callers /\ FALSE \in BOOLEAN
    BY DEF Callers
  <2> QED
    BY <2>1, <2>2 DEF Service!Next
<1>3. CASE UNCHANGED vars
  <2>1. UNCHANGED <<calls, started, finished, mpc>> /\ Blocked' = Blocked
    BY <1>3 DEF vars, Blocked, Waiting
  <2> QED
    BY <2>1, ServiceStutters
<1> QED
  BY <1>1, <1>2, <1>3 DEF Next

\* What CallService promises but for its fairness.
ServiceSafety == Service!Init /\ [][Service!Next]_(Service!vars)

\* The method stack implements the service it promises (the part of
\* ServiceSpec that is not liveness): whatever the tasks, the nested
\* methodstack_checks and methodstack_kill_methods do, the calls of every
\* caller are taken up one by one in the order it made them, each is carried
\* out once, a synchronous call returns only when it has been carried out,
\* and doloop ends only when nobody waits. Alien tasks are left out: Quit
\* does not look after them (see AlienCallsReturn).
THEOREM ServiceImplemented == ASSUME Aliens = {} PROVE Spec => ServiceSafety
<1>1. Init => Service!Init
  <2> SUFFICES ASSUME Init PROVE Service!Init
    OBVIOUS
  <2>1. /\ calls = [c \in Callers |-> 0] /\ started = [c \in Callers |-> 0]
        /\ finished = {} /\ mpc = "input" /\ tpc = [t \in Threads |-> "run"]
    BY DEF Init
  <2>2. Blocked = [c \in Callers |-> 0]
    BY <2>1 DEF Blocked, Waiting
  <2> QED
    BY <2>1, <2>2 DEF Service!Init, Blocked, Waiting
<1>2. Init => FinishOver /\ TakenOnce /\ LastAwaited /\ EndsIdle
  <2> SUFFICES ASSUME Init PROVE FinishOver /\ TakenOnce /\ LastAwaited /\ EndsIdle
    OBVIOUS
  <2>1. /\ methodlist = <<>> /\ stack = <<>> /\ port = {} /\ finished = {}
        /\ reply = [t \in Threads |-> NULL] /\ mpc = "input"
    BY DEF Init
  <2>2. DOMAIN methodlist = {} /\ DOMAIN stack = {}
    BY <2>1
  <2>3. InFlight = {}
    BY <2>2 DEF InFlight
  <2>4. FinishOver
    BY <2>1, <2>2 DEF FinishOver
  <2>5. TakenOnce
    BY <2>1, <2>3 DEF TakenOnce
  <2>6. LastAwaited
    BY <2>1, <2>2, <2>3 DEF LastAwaited
  <2>7. EndsIdle
    BY <2>1 DEF EndsIdle
  <2> QED
    BY <2>4, <2>5, <2>6, <2>7
<1>3. TypeOK /\ FinishOver /\ [Next]_vars => FinishOver'
  BY FinishOverKept
<1>4. TypeOK /\ InOrder /\ TakenOnce /\ [Next]_vars => TakenOnce'
  BY TakenOnceKept
<1>5. EndsIdle /\ [Next]_vars => EndsIdle'
  BY EndsIdleKept
<1>6. TypeOK /\ OneReplyPerCall /\ LastAwaited /\ [Next]_vars => LastAwaited'
  <2> SUFFICES ASSUME TypeOK, OneReplyPerCall, LastAwaited, [Next]_vars
               PROVE  LastAwaited'
    OBVIOUS
  <2>1. ASSUME NEW u \in Threads, ThreadNext(u)
        PROVE  LastAwaited'
    BY <2>1, LastAwaitedThread
  <2>2. CASE MainNext \/ MethodNext \/ Quit
    BY <2>2, LastAwaitedMain
  <2>3. CASE UNCHANGED vars
    BY <2>3 DEF vars, LastAwaited, WaitsForLast, InFlight
  <2> QED
    BY <2>1, <2>2, <2>3 DEF Next
<1>7. /\ TypeOK /\ InOrder /\ FinishOver /\ TakenOnce /\ LastAwaited /\ EndsIdle
      /\ [Next]_vars
      => [Service!Next]_(Service!vars)
  BY StepServes
<1> QED
  BY <1>1, <1>2, <1>3, <1>4, <1>5, <1>6, <1>7, TypeCorrect, OrderKept, RepliesKept, PTL
     DEF Spec, ServiceSafety

=============================================================================
