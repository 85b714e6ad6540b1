--------------------------- MODULE SmartReqProofs ---------------------------
(***************************************************************************)
(* Proofs about SmartReq: what holds of the requesters for any number of   *)
(* threads, of requests and of failures.                                   *)
(***************************************************************************)
EXTENDS SmartReq, SequenceTheorems, FiniteSetTheorems, TLAPS

LEMMA AppendParts ==
  ASSUME NEW S, NEW s \in Seq(S), NEW x \in S
  PROVE  /\ Len(s) \in Nat /\ DOMAIN s = 1..Len(s)
         /\ \A i \in 1..Len(s) : s[i] \in S
         /\ Append(s, x) \in Seq(S)
         /\ DOMAIN Append(s, x) = 1..(Len(s) + 1)
         /\ \A i \in 1..Len(s) : Append(s, x)[i] = s[i]
         /\ Append(s, x)[Len(s) + 1] = x
<1>1. Append(s, x) \in Seq(S) /\ Len(Append(s, x)) = Len(s) + 1
  BY AppendProperties
<1>2. DOMAIN Append(s, x) = 1..(Len(s) + 1)
  BY <1>1, LenProperties
<1> QED
  BY <1>1, <1>2, AppendProperties, LenProperties, ElementOfSeq

LEMMA TailParts ==
  ASSUME NEW S, NEW s \in Seq(S), s # <<>>
  PROVE  /\ Len(s) \in Nat /\ Len(s) >= 1 /\ DOMAIN s = 1..Len(s)
         /\ Head(s) \in S /\ Head(s) = s[1]
         /\ Tail(s) \in Seq(S) /\ Len(Tail(s)) = Len(s) - 1
         /\ DOMAIN Tail(s) = 1..(Len(s) - 1)
         /\ \A i \in 1..(Len(s) - 1) : Tail(s)[i] = s[i + 1]
<1>1. /\ Tail(s) \in Seq(S) /\ Len(Tail(s)) = Len(s) - 1
      /\ \A i \in 1..(Len(s) - 1) : Tail(s)[i] = s[i + 1]
      /\ Head(s) \in S
  BY HeadTailProperties
<1>2. DOMAIN Tail(s) = 1..(Len(s) - 1)
  BY <1>1, LenProperties
<1>3. Len(s) \in Nat /\ Len(s) >= 1 /\ DOMAIN s = 1..Len(s)
  BY EmptySeq, LenProperties
<1>4. Head(s) = s[1]
  OBVIOUS
<1> QED
  BY <1>1, <1>2, <1>3, <1>4

LEMMA PushedParts ==
  ASSUME TypeOK
  PROVE  /\ Len(pushed) \in Nat /\ DOMAIN pushed = 1..Len(pushed)
         /\ \A i \in 1..Len(pushed) :
              /\ pushed[i].of \in Clients /\ pushed[i].do \in {"create", "enqueue"}
         /\ Len(reqlist) \in Nat /\ DOMAIN reqlist = 1..Len(reqlist)
         /\ \A i \in 1..Len(reqlist) : reqlist[i] \in Clients
<1>1. pushed \in Seq(Call) /\ reqlist \in Seq(Clients)
  BY DEF TypeOK
<1>2. \A i \in 1..Len(pushed) : pushed[i] \in Call
  BY <1>1, ElementOfSeq
<1>3. \A i \in 1..Len(reqlist) : reqlist[i] \in Clients
  BY <1>1, ElementOfSeq
<1>4. \A k \in Call : k.of \in Clients /\ k.do \in {"create", "enqueue"}
  BY DEF Call
<1> QED
  BY <1>1, <1>2, <1>3, <1>4, LenProperties

LEMMA CallTypes ==
  \A c \in Clients : /\ [do |-> "create", of |-> c] \in Call
                     /\ [do |-> "enqueue", of |-> c] \in Call
  BY DEF Call

LEMMA Apart == NULL \notin Clients /\ Threads \subseteq Clients /\ Main \in Clients
  BY ConstantsAssumption DEF Clients

-----------------------------------------------------------------------------
(* Types.                                                                  *)

\* A call that creates the window comes from the thread that waits for it.
CreateOnce ==
  /\ \A i \in DOMAIN pushed : pushed[i].do = "create" =>
       pushed[i].of \in Threads /\ client[pushed[i].of] = "creating"
  /\ \A i, j \in DOMAIN pushed :
       pushed[i].do = "create" /\ pushed[j].do = "create" /\ pushed[i].of = pushed[j].of
         => i = j

\* The main task does not ask again while its request waits, and does not
\* wait for the semaphore then.
MainFree ==
  /\ client[Main] \in {"idle", "waiting"}
  /\ main = "semaphore" => client[Main] = "idle"

LEMMA TypeInit == Init => TypeOK /\ CreateOnce
<1> SUFFICES ASSUME Init PROVE TypeOK /\ CreateOnce
  OBVIOUS
<1>1. TypeOK
  <2>1. /\ pushed \in Seq(Call) /\ reqlist \in Seq(Clients) /\ presses \in Seq(Packet)
    BY DEF Init
  <2>2. client \in [Clients -> States] /\ asks \in [Clients -> 0..MaxAsks]
    BY ConstantsAssumption DEF Init, States
  <2>3. \A t \in Threads :
          reqsem = t <=> client[t] \in {"creating", "created", "refused"}
    BY Apart DEF Init
  <2>4. 0 \in 0..MaxPresses /\ counter \in Nat
    BY ConstantsAssumption DEF Init
  <2> QED
    BY <2>1, <2>2, <2>3, <2>4 DEF Init, TypeOK
<1>2. CreateOnce
  BY DEF Init, CreateOnce
<1> QED
  BY <1>1, <1>2

\* A request is pushed, or not, by one who waits for nothing else.
LEMMA PushType ==
  ASSUME TypeOK, CreateOnce, NEW c \in Clients, PushRequest(c),
         client[c] \in {"idle", "created"}
  PROVE  /\ pushed' \in Seq(Call)
         /\ client' \in [Clients -> States]
         /\ client'[c] \in {"waiting", "idle"}
         /\ \A d \in Clients \ {c} : client'[d] = client[d]
         /\ CreateOnce'
<1>1. /\ client' \in [Clients -> States]
      /\ client'[c] \in {"waiting", "idle"}
      /\ \A d \in Clients \ {c} : client'[d] = client[d]
  BY DEF PushRequest, Set, TypeOK, States
<1>2. CASE pushed' = pushed
  <2>1. \A i \in DOMAIN pushed : pushed[i].of \in Clients
    BY PushedParts
  <2> QED
    BY <1>1, <1>2, <2>1 DEF CreateOnce, TypeOK
<1>3. CASE pushed' = Append(pushed, [do |-> "enqueue", of |-> c])
  <2> DEFINE x == [do |-> "enqueue", of |-> c]
  <2>1. x \in Call /\ x.do = "enqueue" /\ pushed \in Seq(Call)
    BY CallTypes DEF TypeOK
  <2> HIDE DEF x
  <2>2. pushed' = Append(pushed, x)
    BY <1>3 DEF x
  <2>3. /\ pushed' \in Seq(Call) /\ Len(pushed) \in Nat
        /\ DOMAIN pushed' = 1..(Len(pushed) + 1) /\ DOMAIN pushed = 1..Len(pushed)
        /\ \A i \in 1..Len(pushed) : pushed'[i] = pushed[i]
        /\ pushed'[Len(pushed) + 1] = x
    BY <2>1, <2>2, AppendParts
  <2>4. \A i \in 1..Len(pushed) : pushed[i].of \in Clients
    BY PushedParts
  <2>5. \A i \in DOMAIN pushed' : pushed'[i].do = "create" =>
          i \in 1..Len(pushed) /\ pushed'[i] = pushed[i]
    <3>1. \A i \in DOMAIN pushed' : i \in 1..Len(pushed) \/ i = Len(pushed) + 1
      BY <2>3
    <3>2. "create" # "enqueue"
      OBVIOUS
    <3> QED
      BY <2>1, <2>3, <3>1, <3>2
  <2> QED
    BY <1>1, <2>3, <2>4, <2>5 DEF CreateOnce
<1> QED
  BY <1>1, <1>2, <1>3 DEF PushRequest

LEMMA AskType ==
  ASSUME TypeOK, CreateOnce, NEW c \in Clients, Ask(c)
  PROVE  TypeOK' /\ CreateOnce'
<1>1. /\ PushRequest(c) /\ client[c] = "idle" /\ Counted(c)
      /\ UNCHANGED <<reqsem, reqobj, window, presses, examiner, postponed, main>>
  BY DEF Ask
<1>2. /\ pushed' \in Seq(Call) /\ client' \in [Clients -> States]
      /\ client'[c] \in {"waiting", "idle"}
      /\ \A d \in Clients \ {c} : client'[d] = client[d]
      /\ CreateOnce'
  BY <1>1, PushType
<1>3. asks' \in [Clients -> 0..MaxAsks]
  BY <1>1, ConstantsAssumption DEF Counted, TypeOK
<1>4. \A t \in Threads :
        reqsem' = t <=> client'[t] \in {"creating", "created", "refused"}
  BY <1>1, <1>2, Apart DEF TypeOK
<1> QED
  BY <1>1, <1>2, <1>3, <1>4 DEF TypeOK, window, examiner

LEMMA AskFirstType ==
  ASSUME TypeOK, CreateOnce, NEW t \in Threads, AskFirst(t)
  PROVE  TypeOK' /\ CreateOnce'
<1> DEFINE x == [do |-> "create", of |-> t]
<1>1. /\ client[t] = "idle" /\ Counted(t) /\ reqsem = NULL /\ reqsem' = t
      /\ client' = [client EXCEPT ![t] = "creating"]
      /\ pushed' = Append(pushed, x)
      /\ UNCHANGED <<reqobj, window, presses, examiner, postponed, main>>
  BY DEF AskFirst, Set
<1>2. t \in Clients /\ t # NULL
  BY Apart
<1>3. x \in Call /\ x.of = t /\ x.do = "create" /\ pushed \in Seq(Call)
  BY <1>2, CallTypes DEF TypeOK
<1> HIDE DEF x
<1>4. /\ pushed' \in Seq(Call) /\ Len(pushed) \in Nat
      /\ DOMAIN pushed' = 1..(Len(pushed) + 1) /\ DOMAIN pushed = 1..Len(pushed)
      /\ \A i \in 1..Len(pushed) : pushed'[i] = pushed[i]
      /\ pushed'[Len(pushed) + 1] = x
  BY <1>1, <1>3, AppendParts
<1>5. /\ client' \in [Clients -> States] /\ client'[t] = "creating"
      /\ \A d \in Clients \ {t} : client'[d] = client[d]
  BY <1>1, <1>2 DEF TypeOK, States
<1>6. asks' \in [Clients -> 0..MaxAsks]
  BY <1>1, <1>2, ConstantsAssumption DEF Counted, TypeOK
<1>7. \A u \in Threads :
        reqsem' = u <=> client'[u] \in {"creating", "created", "refused"}
  BY <1>1, <1>2, <1>5, Apart DEF TypeOK
<1>8. CreateOnce'
  <2>1. \A i \in 1..(Len(pushed) + 1) : i \in 1..Len(pushed) \/ i = Len(pushed) + 1
    BY <1>4
  <2>2. \A i \in 1..Len(pushed) : pushed[i].do = "create" =>
          pushed[i].of \in Threads \ {t} /\ client'[pushed[i].of] = "creating"
    BY <1>1, <1>4, <1>5, Apart DEF CreateOnce
  <2> QED
    BY <1>2, <1>3, <1>4, <1>5, <2>1, <2>2 DEF CreateOnce
<1> QED
  BY <1>1, <1>2, <1>4, <1>5, <1>6, <1>7, <1>8 DEF TypeOK, window, examiner

LEMMA AskedType ==
  ASSUME TypeOK, CreateOnce, NEW t \in Threads, AskCreated(t) \/ AskRefused(t)
  PROVE  TypeOK' /\ CreateOnce'
<1>1. t \in Clients /\ t # NULL
  BY Apart
<1>2. CASE AskCreated(t)
  <2>1. /\ PushRequest(t) /\ client[t] = "created" /\ reqobj' = TRUE /\ reqsem' = NULL
        /\ UNCHANGED <<asks, window, presses, examiner, postponed, main>>
    BY <1>2 DEF AskCreated
  <2>2. /\ pushed' \in Seq(Call) /\ client' \in [Clients -> States]
        /\ client'[t] \in {"waiting", "idle"}
        /\ \A d \in Clients \ {t} : client'[d] = client[d]
        /\ CreateOnce'
    BY <1>1, <2>1, PushType
  <2>3. \A u \in Threads :
          reqsem' = u <=> client'[u] \in {"creating", "created", "refused"}
    BY <1>1, <2>1, <2>2, Apart DEF TypeOK
  <2> QED
    BY <2>1, <2>2, <2>3 DEF TypeOK, window, examiner
<1>3. CASE AskRefused(t)
  <2>1. /\ client[t] = "refused" /\ client' = [client EXCEPT ![t] = "idle"] /\ reqsem' = NULL
        /\ UNCHANGED <<asks, reqobj, pushed, window, presses, examiner, postponed, main>>
    BY <1>3 DEF AskRefused, Set
  <2>2. /\ client' \in [Clients -> States] /\ client'[t] = "idle"
        /\ \A d \in Clients \ {t} : client'[d] = client[d]
    BY <1>1, <2>1 DEF TypeOK, States
  <2>3. \A u \in Threads :
          reqsem' = u <=> client'[u] \in {"creating", "created", "refused"}
    BY <1>1, <2>1, <2>2, Apart DEF TypeOK
  <2>4. CreateOnce'
    BY <2>1, <2>2, Apart DEF CreateOnce
  <2> QED
    BY <2>1, <2>2, <2>3, <2>4 DEF TypeOK, window, examiner
<1> QED
  BY <1>2, <1>3

LEMMA MainAsksType ==
  ASSUME TypeOK, CreateOnce, MainFree, MainAsks \/ MainGetsSemaphore
  PROVE  TypeOK' /\ CreateOnce'
<1>1. Main \in Clients /\ Main \notin Threads
  BY ConstantsAssumption, Apart
<1>2. CASE Ask(Main)
  BY <1>1, <1>2, AskType
<1>3. CASE /\ PushRequest(Main) /\ client[Main] = "idle"
           /\ reqobj' \in BOOLEAN /\ asks' \in [Clients -> 0..MaxAsks]
           /\ main' \in {main, "free"}
           /\ UNCHANGED <<reqsem, window, presses, examiner, postponed>>
  <2>1. /\ pushed' \in Seq(Call) /\ client' \in [Clients -> States]
        /\ \A d \in Clients \ {Main} : client'[d] = client[d]
        /\ CreateOnce'
    BY <1>1, <1>3, PushType
  <2>2. \A u \in Threads :
          reqsem' = u <=> client'[u] \in {"creating", "created", "refused"}
    BY <1>1, <1>3, <2>1, Apart DEF TypeOK
  <2> QED
    BY <1>3, <2>1, <2>2 DEF TypeOK, window, examiner
<1>4. CASE /\ UNCHANGED <<client, pushed, reqsem, reqobj, window, presses, examiner, postponed>>
           /\ asks' \in [Clients -> 0..MaxAsks] /\ main' \in {"free", "semaphore", main}
  BY <1>4 DEF TypeOK, CreateOnce, window, examiner
<1>5. Counted(Main) => asks' \in [Clients -> 0..MaxAsks]
  BY <1>1, ConstantsAssumption DEF Counted, TypeOK
<1>6. asks' = asks => asks' \in [Clients -> 0..MaxAsks]
  BY DEF TypeOK
<1>7. reqobj' = reqobj \/ reqobj' = TRUE => reqobj' \in BOOLEAN
  BY DEF TypeOK
<1> QED
  BY <1>2, <1>3, <1>4, <1>5, <1>6, <1>7 DEF MainAsks, MainGetsSemaphore, MainFree

\* The window goes on to the next request of a list.
LEMMA ChangeParts ==
  ASSUME NEW list, Change(list)
  PROVE  \/ /\ list = <<>> /\ reqlist' = <<>> /\ shown' = NULL
            /\ UNCHANGED <<counter, pressed, lost, hasty, running, examining, ended>>
         \/ /\ list # <<>> /\ reqlist' = Tail(list) /\ counter' = counter + 1 /\ pressed' = 0
            /\ Examine(Head(list)) /\ Open(Head(list))
  BY DEF Change, examiner

LEMMA ExamineType ==
  ASSUME TypeOK, NEW c \in Clients, Examine(c)
  PROVE  running' \in BOOLEAN /\ examining' \subseteq Packet /\ ended' \in Nat
<1>1. CASE UNCHANGED examiner
  BY <1>1 DEF TypeOK, examiner
<1>2. CASE running' = TRUE /\ examining' = examining \cup {[of |-> c, counter |-> counter + 1]}
           /\ UNCHANGED ended
  <2>1. [of |-> c, counter |-> counter + 1] \in Packet
    BY DEF TypeOK, Packet
  <2> QED
    BY <1>2, <2>1 DEF TypeOK
<1> QED
  BY <1>1, <1>2 DEF Examine

LEMMA OpenType ==
  ASSUME TypeOK, NEW c \in Clients, Open(c)
  PROVE  shown' \in Clients \cup {NULL} /\ lost' \subseteq Clients /\ hasty' \in BOOLEAN
<1>1. CASE shown' = c /\ UNCHANGED <<lost, hasty>>
  BY <1>1 DEF TypeOK
<1>2. CASE shown' = NULL /\ lost' = lost \cup {c} /\ hasty' = (hasty \/ presses # <<>>)
  <2>1. hasty' \in BOOLEAN
    BY <1>2
  <2>2. lost' \subseteq Clients
    BY <1>2 DEF TypeOK
  <2> QED
    BY <1>2, <2>1, <2>2
<1> QED
  BY <1>1, <1>2 DEF Open

LEMMA ChangeType ==
  ASSUME TypeOK, NEW list \in Seq(Clients), Change(list)
  PROVE  /\ reqlist' \in Seq(Clients) /\ shown' \in Clients \cup {NULL}
         /\ counter' \in Nat /\ pressed' \in 0..MaxPresses
         /\ running' \in BOOLEAN /\ examining' \subseteq Packet /\ ended' \in Nat
         /\ lost' \subseteq Clients /\ hasty' \in BOOLEAN
<1>1. CASE /\ list = <<>> /\ reqlist' = <<>> /\ shown' = NULL
           /\ UNCHANGED <<counter, pressed, lost, hasty, running, examining, ended>>
  BY <1>1 DEF TypeOK
<1>2. CASE /\ list # <<>> /\ reqlist' = Tail(list) /\ counter' = counter + 1 /\ pressed' = 0
           /\ Examine(Head(list)) /\ Open(Head(list))
  <2>1. Head(list) \in Clients /\ Tail(list) \in Seq(Clients)
    BY <1>2, TailParts
  <2>2. counter' \in Nat /\ 0 \in 0..MaxPresses
    BY <1>2, ConstantsAssumption DEF TypeOK
  <2> QED
    BY <1>2, <2>1, <2>2, ExamineType, OpenType
<1> QED
  BY <1>1, <1>2, ChangeParts

LEMMA CreateType ==
  ASSUME TypeOK, CreateOnce, Create
  PROVE  TypeOK' /\ CreateOnce'
<1> DEFINE t == Head(pushed).of
<1>1. /\ Len(pushed) \in Nat /\ DOMAIN pushed = 1..Len(pushed) /\ Len(pushed) >= 1
      /\ Head(pushed) = pushed[1] /\ pushed' = Tail(pushed)
      /\ pushed' \in Seq(Call) /\ DOMAIN pushed' = 1..(Len(pushed) - 1)
      /\ \A i \in 1..(Len(pushed) - 1) : pushed'[i] = pushed[i + 1]
  BY TailParts DEF Create, TypeOK
<1>2. t \in Threads /\ client[t] = "creating"
  BY <1>1 DEF Create, CreateOnce
<1>3. /\ UNCHANGED <<asking, window, presses, examiner, postponed, main>>
      /\ client' \in [Clients -> States] /\ client'[t] \in {"created", "refused"}
      /\ \A d \in Clients \ {t} : client'[d] = client[d]
  BY <1>2, Apart DEF Create, Set, TypeOK, States
<1>4. \A u \in Threads :
        reqsem' = u <=> client'[u] \in {"creating", "created", "refused"}
  BY <1>2, <1>3, Apart DEF TypeOK, asking
<1>5. CreateOnce'
  <2>1. ASSUME NEW i \in DOMAIN pushed', pushed'[i].do = "create"
        PROVE  pushed'[i].of \in Threads \ {t} /\ client[pushed'[i].of] = "creating"
    <3>1. i + 1 \in DOMAIN pushed /\ i + 1 # 1 /\ pushed'[i] = pushed[i + 1]
      BY <1>1, <2>1
    <3>2. Head(pushed).do = "create" /\ Head(pushed) = pushed[1] /\ 1 \in DOMAIN pushed
      BY <1>1 DEF Create
    <3> QED
      BY <2>1, <3>1, <3>2 DEF CreateOnce
  <2>2. ASSUME NEW i \in DOMAIN pushed', NEW j \in DOMAIN pushed',
               pushed'[i].do = "create", pushed'[j].do = "create",
               pushed'[i].of = pushed'[j].of
        PROVE  i = j
    <3>1. /\ i + 1 \in DOMAIN pushed /\ pushed'[i] = pushed[i + 1]
          /\ j + 1 \in DOMAIN pushed /\ pushed'[j] = pushed[j + 1]
      BY <1>1, <2>2
    <3>2. i + 1 = j + 1
      BY <2>2, <3>1 DEF CreateOnce
    <3> QED
      BY <1>1, <3>2
  <2> QED
    BY <1>3, <2>1, <2>2, Apart DEF CreateOnce
<1> QED
  BY <1>1, <1>3, <1>4, <1>5 DEF TypeOK, asking, window, examiner

LEMMA EnqueueType ==
  ASSUME TypeOK, CreateOnce, Enqueue
  PROVE  TypeOK' /\ CreateOnce'
<1>1. /\ Len(pushed) \in Nat /\ DOMAIN pushed = 1..Len(pushed) /\ Len(pushed) >= 1
      /\ Head(pushed) \in Call /\ pushed' = Tail(pushed)
      /\ pushed' \in Seq(Call) /\ DOMAIN pushed' = 1..(Len(pushed) - 1)
      /\ \A i \in 1..(Len(pushed) - 1) : pushed'[i] = pushed[i + 1]
  BY TailParts DEF Enqueue, TypeOK
<1>2. UNCHANGED <<asking, client, presses, postponed, main>>
  BY DEF Enqueue
<1> DEFINE list == Append(reqlist, Head(pushed).of)
<1>3. list \in Seq(Clients)
  <2>1. Head(pushed).of \in Clients
    BY <1>1 DEF Call
  <2> QED
    BY <2>1, AppendParts DEF TypeOK
<1>4. \/ Change(list)
      \/ reqlist' = list /\ UNCHANGED <<shown, counter, pressed, lost, hasty, examiner>>
  BY DEF Enqueue
<1> HIDE DEF list
<1>5. /\ reqlist' \in Seq(Clients) /\ shown' \in Clients \cup {NULL}
      /\ counter' \in Nat /\ pressed' \in 0..MaxPresses
      /\ running' \in BOOLEAN /\ examining' \subseteq Packet /\ ended' \in Nat
      /\ lost' \subseteq Clients /\ hasty' \in BOOLEAN
  <2>1. CASE Change(list)
    BY <1>3, <2>1, ChangeType
  <2>2. CASE reqlist' = list /\ UNCHANGED <<shown, counter, pressed, lost, hasty, examiner>>
    BY <1>3, <2>2 DEF TypeOK, examiner
  <2> QED
    BY <1>4, <2>1, <2>2
<1>6. CreateOnce'
  <2>1. \A i \in DOMAIN pushed' : i + 1 \in DOMAIN pushed /\ pushed'[i] = pushed[i + 1]
    BY <1>1
  <2>2. \A i, j \in DOMAIN pushed' : i + 1 = j + 1 => i = j
    BY <1>1
  <2> QED
    BY <1>2, <2>1, <2>2 DEF CreateOnce
<1> QED
  BY <1>1, <1>2, <1>5, <1>6 DEF TypeOK, asking

\* An answer goes to who asked.
LEMMA ExecuteType ==
  ASSUME TypeOK, CreateOnce, NEW p \in Packet, Execute(p), pushed' = pushed
  PROVE  /\ client' \in [Clients -> States] /\ main' \in {"reply", "dead", "change"}
         /\ UNCHANGED window
         /\ \A t \in Threads : client'[t] # client[t] =>
              client[t] = "waiting" /\ client'[t] = "answered"
         /\ client'[Main] \in {client[Main], "idle"}
         /\ CreateOnce'
<1>1. p.of \in Clients
  BY DEF Packet
<1>2. /\ client' \in [Clients -> States] /\ main' \in {"reply", "dead", "change"}
      /\ UNCHANGED window
      /\ \A t \in Threads : client'[t] # client[t] =>
           client[t] = "waiting" /\ client'[t] = "answered"
      /\ client'[Main] \in {client[Main], "idle"}
  BY <1>1, ConstantsAssumption, Apart DEF Execute, Set, TypeOK, States
<1>3. CreateOnce'
  BY <1>2 DEF CreateOnce
<1> QED
  BY <1>2, <1>3

LEMMA WindowType ==
  ASSUME TypeOK, CreateOnce,
         ChangeNext \/ Pressed \/ ThreadFinished \/ Press \/ ExamineEnds
         \/ \E t \in Threads : TakeAnswer(t)
  PROVE  TypeOK' /\ CreateOnce'
<1>1. CASE ChangeNext
  <2>1. Change(reqlist) /\ reqlist \in Seq(Clients)
    BY <1>1 DEF ChangeNext, TypeOK
  <2>2. UNCHANGED <<asking, client, pushed, presses, postponed>> /\ main' = "free"
    BY <1>1 DEF ChangeNext
  <2>3. CreateOnce'
    BY <2>2 DEF CreateOnce
  <2> QED
    BY <2>1, <2>2, <2>3, ChangeType DEF TypeOK, asking
<1>2. ASSUME NEW p \in Packet, Execute(p), UNCHANGED <<asking, pushed>>,
             postponed' \in Packet \cup {NULL}, presses' \in Seq(Packet),
             running' \in BOOLEAN, examining' \subseteq Packet, ended' \in Nat
      PROVE  TypeOK' /\ CreateOnce'
  <2>1. /\ client' \in [Clients -> States] /\ main' \in {"reply", "dead", "change"}
        /\ UNCHANGED window
        /\ \A t \in Threads : client'[t] # client[t] =>
             client[t] = "waiting" /\ client'[t] = "answered"
        /\ CreateOnce'
    BY <1>2, ExecuteType
  <2>2. \A u \in Threads :
          reqsem' = u <=> client'[u] \in {"creating", "created", "refused"}
    BY <1>2, <2>1 DEF TypeOK, asking
  <2> QED
    BY <1>2, <2>1, <2>2 DEF TypeOK, asking, window
<1>3. CASE Pressed
  <2>1. /\ Head(presses) \in Packet /\ presses' = Tail(presses) /\ presses' \in Seq(Packet)
        /\ UNCHANGED <<asking, pushed, examiner>>
    BY <1>3, TailParts DEF Pressed, TypeOK
  <2>2. CASE Execute(Head(presses)) /\ UNCHANGED postponed
    BY <1>2, <2>1, <2>2 DEF TypeOK, examiner
  <2>3. CASE postponed' = Head(presses) /\ UNCHANGED <<client, window, main>>
    BY <2>1, <2>3 DEF TypeOK, CreateOnce, asking, window, examiner
  <2>4. CASE UNCHANGED <<client, window, postponed, main>>
    BY <2>1, <2>4 DEF TypeOK, CreateOnce, asking, window, examiner
  <2> QED
    BY <1>3, <2>2, <2>3, <2>4 DEF Pressed
<1>4. CASE ThreadFinished
  <2>1. /\ running' = FALSE /\ postponed' = NULL /\ ended' \in Nat
        /\ UNCHANGED <<asking, pushed, presses, examining>>
    BY <1>4 DEF ThreadFinished, TypeOK
  <2>2. CASE postponed # NULL /\ Execute(postponed)
    BY <1>2, <2>1, <2>2 DEF TypeOK
  <2>3. CASE UNCHANGED <<client, window, main>>
    BY <2>1, <2>3 DEF TypeOK, CreateOnce, asking, window
  <2> QED
    BY <1>4, <2>2, <2>3 DEF ThreadFinished, Resumed
<1>5. CASE Press
  <2> DEFINE x == [of |-> shown, counter |-> counter]
  <2>1. x \in Packet /\ presses' = Append(presses, x)
    BY <1>5 DEF Press, TypeOK, Packet
  <2> HIDE DEF x
  <2>2. presses' \in Seq(Packet)
    BY <2>1, AppendParts DEF TypeOK
  <2>3. pressed' \in 0..MaxPresses
    BY <1>5, ConstantsAssumption DEF Press, TypeOK
  <2>4. /\ UNCHANGED <<asking, client, pushed, reqlist, shown, counter, lost, examiner,
                       postponed, main>>
    BY <1>5 DEF Press
  <2>5. hasty' \in BOOLEAN
    BY <1>5 DEF Press
  <2> QED
    BY <2>2, <2>3, <2>4, <2>5 DEF TypeOK, CreateOnce, asking, examiner
<1>6. CASE ExamineEnds
  <2>1. /\ examining' \subseteq examining /\ ended' = ended + 1
        /\ UNCHANGED <<asking, client, pushed, window, presses, running, postponed, main>>
    BY <1>6 DEF ExamineEnds
  <2>2. ended' \in Nat /\ examining' \subseteq Packet
    BY <2>1 DEF TypeOK
  <2> QED
    BY <2>1, <2>2 DEF TypeOK, CreateOnce, asking, window
<1>7. ASSUME NEW t \in Threads, TakeAnswer(t)
      PROVE  TypeOK' /\ CreateOnce'
  <2>1. /\ client[t] = "answered" /\ client' = [client EXCEPT ![t] = "idle"] /\ main' = "change"
        /\ UNCHANGED <<asking, pushed, window, presses, examiner, postponed>>
    BY <1>7 DEF TakeAnswer, Set
  <2>2. /\ client' \in [Clients -> States] /\ client'[t] = "idle"
        /\ \A d \in Clients \ {t} : client'[d] = client[d]
    BY <2>1, Apart DEF TypeOK, States
  <2>3. \A u \in Threads :
          reqsem' = u <=> client'[u] \in {"creating", "created", "refused"}
    BY <2>1, <2>2, Apart DEF TypeOK, asking
  <2>4. CreateOnce'
    BY <2>1, <2>2, Apart DEF CreateOnce
  <2> QED
    BY <2>1, <2>2, <2>3, <2>4 DEF TypeOK, asking, window, examiner
<1> QED
  BY <1>1, <1>3, <1>4, <1>5, <1>6, <1>7

LEMMA MainFreeKept ==
  ASSUME TypeOK, CreateOnce, MainFree, [Next]_vars
  PROVE  MainFree'
<1>1. Main \in Clients /\ Main \notin Threads /\ client \in [Clients -> States]
  BY ConstantsAssumption, Apart DEF TypeOK
<1>2. CASE client'[Main] = client[Main] /\ (main' = main \/ main' # "semaphore")
  BY <1>2 DEF MainFree
<1>3. ASSUME NEW p \in Packet, Execute(p), pushed' = pushed
      PROVE  MainFree'
  BY <1>3, ExecuteType DEF MainFree
<1>4. CASE MainAsks \/ MainGetsSemaphore
  <2>1. PushRequest(Main) => client'[Main] \in {"waiting", "idle"}
    BY <1>1 DEF PushRequest, Set
  <2> QED
    BY <1>4, <2>1 DEF MainAsks, MainGetsSemaphore, Ask, MainFree
<1>5. CASE \E t \in Threads : Thread(t) \/ Ask(t)
  BY <1>1, <1>2, <1>5 DEF Thread, Ask, AskFirst, AskCreated, AskRefused, TakeAnswer,
     PushRequest, Set
<1>6. CASE Create
  <2>1. Head(pushed).of \in Threads
    BY <1>6, TailParts DEF Create, CreateOnce, TypeOK
  <2> QED
    BY <1>1, <1>2, <1>6, <2>1 DEF Create, Set
<1>7. CASE Pressed
  <2>1. Head(presses) \in Packet
    BY <1>7, TailParts DEF Pressed, TypeOK
  <2> QED
    BY <1>2, <1>3, <1>7, <2>1 DEF Pressed
<1>8. CASE ThreadFinished
  BY <1>2, <1>3, <1>8 DEF ThreadFinished, Resumed, TypeOK
<1>9. CASE Enqueue \/ ChangeNext \/ Press \/ ExamineEnds \/ UNCHANGED vars
  BY <1>2, <1>9 DEF Enqueue, ChangeNext, Press, ExamineEnds, vars
<1> QED
  BY <1>4, <1>5, <1>6, <1>7, <1>8, <1>9 DEF Next, MainTask

LEMMA TypeStep ==
  ASSUME TypeOK, CreateOnce, MainFree, [Next]_vars
  PROVE  TypeOK' /\ CreateOnce'
<1>1. CASE \E t \in Threads : Thread(t) \/ Ask(t)
  <2>1. PICK t \in Threads : Thread(t) \/ Ask(t)
    BY <1>1
  <2> QED
    BY <2>1, Apart, AskType, AskFirstType, AskedType, WindowType DEF Thread
<1>2. CASE UNCHANGED vars
  BY <1>2 DEF vars, asking, window, examiner, TypeOK, CreateOnce
<1> QED
  BY <1>1, <1>2, MainAsksType, CreateType, EnqueueType, WindowType DEF Next, MainTask

\* The variables keep their types; in particular the thread that holds
\* the semaphore of the window is the one that has it created (smartreq_requesta).
THEOREM TypeCorrect == Spec => []TypeOK
<1>1. Init => TypeOK /\ CreateOnce
  BY TypeInit
<1>2. Init => MainFree
  BY Apart DEF Init, MainFree
<1>3. TypeOK /\ CreateOnce /\ MainFree /\ [Next]_vars => TypeOK' /\ CreateOnce'
  BY TypeStep
<1>4. TypeOK /\ CreateOnce /\ MainFree /\ [Next]_vars => MainFree'
  BY MainFreeKept
<1> QED
  BY <1>1, <1>2, <1>3, <1>4, PTL DEF Spec

-----------------------------------------------------------------------------
(* Where a request is.                                                     *)

\* The request on display: MM_SmartReq_Change has yet to be called when the
\* one that is shown has been answered.
Current == IF main = "change" THEN NULL ELSE shown

\* With the calls p on the method stack, the requests l in the list and s on
\* display: every request that waits is in one of them, once, and whose call
\* or request is in one of the first two waits.
Places(p, l, s, cl) ==
  /\ \A i \in DOMAIN p : cl[p[i].of] = IF p[i].do = "create" THEN "creating" ELSE "waiting"
  /\ \A i, j \in DOMAIN p : p[i].of = p[j].of => i = j
  /\ \A i \in DOMAIN l : cl[l[i]] = "waiting" /\ l[i] # s
  /\ \A i \in DOMAIN l : \A j \in DOMAIN p : p[j].of # l[i]
  /\ \A i, j \in DOMAIN l : l[i] = l[j] => i = j
  /\ \A j \in DOMAIN p : p[j].of # s
  /\ \A c \in Clients : cl[c] = "waiting" =>
       (\E i \in DOMAIN p : p[i].of = c) \/ (\E i \in DOMAIN l : l[i] = c) \/ s = c

\* Nobody waits any more for a request that was lost: so it is in no place.
Seen == [c \in Clients |-> IF c \in lost THEN "lost" ELSE client[c]]

Tracked ==
  /\ Places(pushed, reqlist, Current, Seen)
  /\ \A c \in lost : client[c] = "waiting"

LEMMA CallParts ==
  ASSUME NEW p \in Seq(Call), NEW l \in Seq(Clients)
  PROVE  /\ Len(p) \in Nat /\ DOMAIN p = 1..Len(p)
         /\ \A i \in 1..Len(p) : p[i].of \in Clients /\ p[i].do \in {"create", "enqueue"}
         /\ Len(l) \in Nat /\ DOMAIN l = 1..Len(l)
         /\ \A i \in 1..Len(l) : l[i] \in Clients
<1>1. \A i \in 1..Len(p) : p[i] \in Call
  BY ElementOfSeq
<1>2. \A k \in Call : k.of \in Clients /\ k.do \in {"create", "enqueue"}
  BY DEF Call
<1> QED
  BY <1>1, <1>2, LenProperties, ElementOfSeq

\* Who waits for nothing pushes a call.
LEMMA PlacesPush ==
  ASSUME NEW p \in Seq(Call), NEW l \in Seq(Clients), NEW s, NEW cl, NEW cm,
         Places(p, l, s, cl),
         NEW x \in Call, cl[x.of] \notin {"waiting", "creating"}, s # x.of,
         cm[x.of] = IF x.do = "create" THEN "creating" ELSE "waiting",
         \A d \in Clients \ {x.of} : cm[d] = cl[d]
  PROVE  Places(Append(p, x), l, s, cm)
<1> DEFINE q == Append(p, x)
           k == Len(p)
<1>1. /\ k \in Nat /\ DOMAIN p = 1..k /\ DOMAIN q = 1..(k + 1)
      /\ \A i \in 1..k : q[i] = p[i]
      /\ q[k + 1] = x
      /\ \A i \in 1..k : p[i].of \in Clients
      /\ DOMAIN l = 1..Len(l) /\ \A i \in 1..Len(l) : l[i] \in Clients
  BY CallParts, AppendParts
<1> HIDE DEF q, k
<1>2. x.of \in Clients
  BY DEF Call
<1>3. \A i \in 1..k : p[i].of # x.of
  BY <1>1 DEF Places
<1>4. \A i \in DOMAIN l : l[i] # x.of
  BY DEF Places
<1>5. \A i \in DOMAIN q : i \in 1..k \/ i = k + 1
  BY <1>1
<1>6. \A i \in DOMAIN q : cm[q[i].of] = IF q[i].do = "create" THEN "creating" ELSE "waiting"
  BY <1>1, <1>3, <1>5 DEF Places
<1>7. \A i, j \in DOMAIN q : q[i].of = q[j].of => i = j
  BY <1>1, <1>3, <1>5 DEF Places
<1>8. \A i \in DOMAIN l : cm[l[i]] = "waiting" /\ l[i] # s
  BY <1>1, <1>4 DEF Places
<1>9. \A i \in DOMAIN l : \A j \in DOMAIN q : q[j].of # l[i]
  BY <1>1, <1>4, <1>5 DEF Places
<1>10. \A j \in DOMAIN q : q[j].of # s
  BY <1>1, <1>5 DEF Places
<1>11. ASSUME NEW c \in Clients, cm[c] = "waiting"
       PROVE  (\E i \in DOMAIN q : q[i].of = c) \/ (\E i \in DOMAIN l : l[i] = c) \/ s = c
  <2>1. CASE c = x.of
    BY <1>1, <2>1
  <2>2. CASE c # x.of
    <3>1. cl[c] = "waiting"
      BY <1>11, <2>2
    <3>2. \A i \in DOMAIN p : i \in DOMAIN q /\ q[i] = p[i]
      BY <1>1
    <3> QED
      BY <3>1, <3>2 DEF Places
  <2> QED
    BY <2>1, <2>2
<1>12. \A i, j \in DOMAIN l : l[i] = l[j] => i = j
  BY DEF Places
<1> QED
  BY <1>6, <1>7, <1>8, <1>9, <1>10, <1>11, <1>12 DEF Places, q

\* A client whose request is in none of the places changes.
LEMMA PlacesClient ==
  ASSUME NEW p \in Seq(Call), NEW l \in Seq(Clients), NEW s, NEW cl, NEW cm,
         Places(p, l, s, cl), NEW c \in Clients,
         cl[c] \notin {"waiting", "creating"} \/ c = s, cm[c] # "waiting",
         \A d \in Clients \ {c} : cm[d] = cl[d]
  PROVE  Places(p, l, s, cm)
<1>1. /\ \A i \in DOMAIN p : p[i].of \in Clients
      /\ \A i \in DOMAIN l : l[i] \in Clients
  BY CallParts
<1>2. (\A i \in DOMAIN p : p[i].of # c) /\ (\A i \in DOMAIN l : l[i] # c)
  BY DEF Places
<1> QED
  BY <1>1, <1>2 DEF Places

\* Who is on display and waits no more leaves it.
LEMMA PlacesLeave ==
  ASSUME NEW p \in Seq(Call), NEW l \in Seq(Clients), NEW s, NEW cl,
         Places(p, l, s, cl), \A c \in Clients : s = c => cl[c] # "waiting"
  PROVE  Places(p, l, NULL, cl)
<1>1. /\ \A i \in DOMAIN p : p[i].of \in Clients
      /\ \A i \in DOMAIN l : l[i] \in Clients
  BY CallParts
<1> QED
  BY <1>1, Apart DEF Places

\* MM_Application_CreateSmartReq has been taken off the method stack.
LEMMA PlacesCreated ==
  ASSUME NEW p \in Seq(Call), NEW l \in Seq(Clients), NEW s, NEW cl, NEW cm,
         Places(p, l, s, cl), p # <<>>, Head(p).do = "create",
         cm[Head(p).of] \in {"created", "refused"},
         \A d \in Clients \ {Head(p).of} : cm[d] = cl[d]
  PROVE  Places(Tail(p), l, s, cm)
<1> DEFINE q == Tail(p)
           k == Len(p)
           h == Head(p)
<1>1. /\ k \in Nat /\ k >= 1 /\ DOMAIN p = 1..k /\ DOMAIN q = 1..(k - 1) /\ h = p[1]
      /\ \A i \in 1..(k - 1) : q[i] = p[i + 1]
      /\ \A i \in 1..k : p[i].of \in Clients
      /\ DOMAIN l = 1..Len(l) /\ \A i \in 1..Len(l) : l[i] \in Clients
  BY CallParts, TailParts
<1>2. h.do = "create" /\ cm[h.of] \in {"created", "refused"}
      /\ \A d \in Clients \ {h.of} : cm[d] = cl[d]
  OBVIOUS
<1> HIDE DEF q, k, h
<1>3. \A i \in DOMAIN q : i + 1 \in DOMAIN p /\ q[i] = p[i + 1] /\ i + 1 # 1 /\ i \in Nat
  BY <1>1
<1>4. h.of \in Clients /\ cl[h.of] = "creating" /\ 1 \in DOMAIN p
  BY <1>1, <1>2 DEF Places
<1>5. \A i \in DOMAIN q : q[i].of # h.of /\ q[i].of \in Clients
  BY <1>1, <1>3, <1>4 DEF Places
<1>6. \A i \in DOMAIN q : cm[q[i].of] = IF q[i].do = "create" THEN "creating" ELSE "waiting"
  BY <1>2, <1>3, <1>5 DEF Places
<1>7. \A i, j \in DOMAIN q : q[i].of = q[j].of => i = j
  <2> SUFFICES ASSUME NEW i \in DOMAIN q, NEW j \in DOMAIN q, q[i].of = q[j].of
               PROVE  i = j
    OBVIOUS
  <2>1. i + 1 = j + 1
    BY <1>3 DEF Places
  <2> QED
    BY <1>3, <2>1
<1>8. \A i \in DOMAIN l : cm[l[i]] = "waiting" /\ l[i] # s
  BY <1>1, <1>2, <1>4 DEF Places
<1>9. \A i \in DOMAIN l : \A j \in DOMAIN q : q[j].of # l[i]
  BY <1>3 DEF Places
<1>10. \A j \in DOMAIN q : q[j].of # s
  BY <1>3 DEF Places
<1>11. ASSUME NEW c \in Clients, cm[c] = "waiting"
       PROVE  (\E i \in DOMAIN q : q[i].of = c) \/ (\E i \in DOMAIN l : l[i] = c) \/ s = c
  <2>1. c # h.of /\ cl[c] = "waiting"
    BY <1>2, <1>4, <1>11
  <2>2. ASSUME NEW i \in DOMAIN p, p[i].of = c
        PROVE  \E j \in DOMAIN q : q[j].of = c
    <3>1. i # 1
      BY <1>1, <2>1, <2>2
    <3>2. i - 1 \in DOMAIN q /\ q[i - 1] = p[i]
      BY <1>1, <3>1
    <3> QED
      BY <2>2, <3>2
  <2> QED
    BY <2>1, <2>2 DEF Places
<1>12. \A i, j \in DOMAIN l : l[i] = l[j] => i = j
  BY DEF Places
<1> QED
  BY <1>6, <1>7, <1>8, <1>9, <1>10, <1>11, <1>12 DEF Places, q

\* MM_SmartReq_Enqueue takes the request over to the list.
LEMMA PlacesMove ==
  ASSUME NEW p \in Seq(Call), NEW l \in Seq(Clients), NEW s, NEW cl,
         Places(p, l, s, cl), p # <<>>, Head(p).do = "enqueue"
  PROVE  Places(Tail(p), Append(l, Head(p).of), s, cl) /\ Head(p).of \in Clients
<1> DEFINE q == Tail(p)
           k == Len(p)
           h == Head(p).of
           m == Append(l, h)
           n == Len(l)
<1>1. /\ k \in Nat /\ k >= 1 /\ DOMAIN p = 1..k /\ DOMAIN q = 1..(k - 1) /\ h = p[1].of
      /\ p[1].do = "enqueue"
      /\ \A i \in 1..(k - 1) : q[i] = p[i + 1]
      /\ \A i \in 1..k : p[i].of \in Clients
  BY CallParts, TailParts
<1>2. h \in Clients
  BY <1>1
<1>3. /\ n \in Nat /\ DOMAIN l = 1..n /\ DOMAIN m = 1..(n + 1)
      /\ \A i \in 1..n : m[i] = l[i]
      /\ m[n + 1] = h
  BY <1>2, AppendParts
<1> HIDE DEF q, k, h, m, n
<1>4. \A i \in DOMAIN q : i + 1 \in DOMAIN p /\ q[i] = p[i + 1] /\ i + 1 # 1 /\ i \in Nat
  BY <1>1
<1>5. cl[h] = "waiting" /\ h # s /\ 1 \in DOMAIN p
  BY <1>1 DEF Places
<1>6. \A i \in DOMAIN q : q[i].of # h
  BY <1>1, <1>4, <1>5 DEF Places
<1>7. \A i \in DOMAIN l : l[i] # h
  BY <1>1, <1>5 DEF Places
<1>8. \A i \in DOMAIN m : i \in DOMAIN l \/ i = n + 1
  BY <1>3
<1>9. \A i, j \in DOMAIN q : q[i].of = q[j].of => i = j
  <2> SUFFICES ASSUME NEW i \in DOMAIN q, NEW j \in DOMAIN q, q[i].of = q[j].of
               PROVE  i = j
    OBVIOUS
  <2>1. i + 1 = j + 1
    BY <1>4 DEF Places
  <2> QED
    BY <1>4, <2>1
<1>10. \A i \in DOMAIN m : cl[m[i]] = "waiting" /\ m[i] # s
  BY <1>3, <1>5, <1>8 DEF Places
<1>11. \A i \in DOMAIN m : \A j \in DOMAIN q : q[j].of # m[i]
  BY <1>3, <1>4, <1>6, <1>8 DEF Places
<1>12. \A i, j \in DOMAIN m : m[i] = m[j] => i = j
  BY <1>3, <1>7, <1>8 DEF Places
<1>13. ASSUME NEW c \in Clients, cl[c] = "waiting"
       PROVE  (\E i \in DOMAIN q : q[i].of = c) \/ (\E i \in DOMAIN m : m[i] = c) \/ s = c
  <2>1. ASSUME NEW i \in DOMAIN p, p[i].of = c, c # h
        PROVE  \E j \in DOMAIN q : q[j].of = c
    <3>1. i # 1
      BY <1>1, <2>1
    <3>2. i - 1 \in DOMAIN q /\ q[i - 1] = p[i]
      BY <1>1, <3>1
    <3> QED
      BY <2>1, <3>2
  <2>2. \A i \in DOMAIN l : i \in DOMAIN m /\ m[i] = l[i]
    BY <1>3
  <2>3. n + 1 \in DOMAIN m /\ m[n + 1] = h
    BY <1>3
  <2> QED
    BY <1>13, <2>1, <2>2, <2>3 DEF Places
<1>14. /\ \A i \in DOMAIN q : cl[q[i].of] = IF q[i].do = "create" THEN "creating" ELSE "waiting"
       /\ \A j \in DOMAIN q : q[j].of # s
  BY <1>4 DEF Places
<1> QED
  BY <1>2, <1>9, <1>10, <1>11, <1>12, <1>13, <1>14 DEF Places, q, m, h

\* MM_SmartReq_Change shows the first of the list.
LEMMA PlacesShow ==
  ASSUME NEW p \in Seq(Call), NEW l \in Seq(Clients), NEW cl,
         Places(p, l, NULL, cl), l # <<>>
  PROVE  Places(p, Tail(l), Head(l), cl) /\ Head(l) \in Clients /\ cl[Head(l)] = "waiting"
<1> DEFINE m == Tail(l)
           n == Len(l)
           h == Head(l)
<1>1. /\ n \in Nat /\ n >= 1 /\ DOMAIN l = 1..n /\ DOMAIN m = 1..(n - 1) /\ h = l[1]
      /\ \A i \in 1..(n - 1) : m[i] = l[i + 1]
      /\ \A i \in 1..n : l[i] \in Clients
  BY CallParts, TailParts
<1> HIDE DEF m, n, h
<1>2. h \in Clients /\ cl[h] = "waiting" /\ 1 \in DOMAIN l /\ h # NULL
  BY <1>1, Apart DEF Places
<1>3. \A i \in DOMAIN m : i + 1 \in DOMAIN l /\ m[i] = l[i + 1] /\ i + 1 # 1 /\ i \in Nat
  BY <1>1
<1>4. \A i \in DOMAIN m : cl[m[i]] = "waiting" /\ m[i] # h
  BY <1>1, <1>2, <1>3 DEF Places
<1>5. \A i, j \in DOMAIN m : m[i] = m[j] => i = j
  <2> SUFFICES ASSUME NEW i \in DOMAIN m, NEW j \in DOMAIN m, m[i] = m[j]
               PROVE  i = j
    OBVIOUS
  <2>1. i + 1 = j + 1
    BY <1>3 DEF Places
  <2> QED
    BY <1>3, <2>1
<1>6. /\ \A i \in DOMAIN m : \A j \in DOMAIN p : p[j].of # m[i]
      /\ \A j \in DOMAIN p : p[j].of # h
  BY <1>1, <1>2, <1>3 DEF Places
<1>7. ASSUME NEW c \in Clients, cl[c] = "waiting"
      PROVE  (\E i \in DOMAIN p : p[i].of = c) \/ (\E i \in DOMAIN m : m[i] = c) \/ h = c
  <2>1. ASSUME NEW i \in DOMAIN l, l[i] = c, c # h
        PROVE  \E j \in DOMAIN m : m[j] = c
    <3>1. i # 1
      BY <1>1, <2>1
    <3>2. i - 1 \in DOMAIN m /\ m[i - 1] = l[i]
      BY <1>1, <3>1
    <3> QED
      BY <2>1, <3>2
  <2> QED
    BY <1>7, <2>1, Apart DEF Places
<1> QED
  BY <1>2, <1>4, <1>5, <1>6, <1>7 DEF Places, m, h

-----------------------------------------------------------------------------
(* Presses.                                                                *)

\* The press is one on the requester that is on display, or on one before it.
Own(p) == shown # NULL /\ p.of = shown /\ p.counter = counter /\ pressed >= 1
Late(p) == p.counter < counter

\* The main task goes from the press to the reply and on to the next
\* requester; who is on display waits until then.
OnDisplay ==
  /\ main # "dead"
  /\ \A c \in Clients : client[c] = "answered" <=> main = "reply" /\ c = shown
  /\ main = "reply" => shown \in Threads
  /\ main \in {"reply", "change"} =>
       shown # NULL /\ pressed >= 1 /\ postponed = NULL /\ ~running
  /\ main \in {"free", "semaphore"} /\ shown # NULL => client[shown] = "waiting"
  /\ shown = NULL => presses = <<>> /\ postponed = NULL
  /\ shown # NULL => shown \notin lost

\* The late presses are the first in the queue, and none is put off; there is
\* a second one of the requester on display only if the next one may come.
Queued ==
  /\ postponed # NULL => Own(postponed) /\ running
  /\ \A i \in DOMAIN presses : Own(presses[i]) \/ (Late(presses[i]) /\ ~running)
  /\ \A i, j \in DOMAIN presses : i < j /\ Own(presses[i]) => Own(presses[j]) /\ pressed >= 2
  /\ main \in {"reply", "change"} \/ postponed # NULL =>
       \A i \in DOMAIN presses : Own(presses[i]) /\ pressed >= 2
  /\ pressed >= 2 /\ shown # NULL => Harmless

\* The requester on display is compared, or has been.
Comparing ==
  /\ shown # NULL
  /\ \/ examining = {[of |-> shown, counter |-> counter]} /\ ended = 0
     \/ examining = {} /\ ended = 1

\* While no window has failed to open for a request with files, the one
\* comparison is that of the requester on display.
Compared ==
  lost \cap Replaces = {} =>
    IF running THEN Comparing ELSE examining = {} /\ ended = 0

InOrder == Tracked /\ OnDisplay /\ Queued /\ Compared

Inv == TypeOK /\ CreateOnce /\ MainFree /\ (~hasty => InOrder)

LEMMA InvParts ==
  ASSUME Inv
  PROVE  /\ pushed \in Seq(Call) /\ reqlist \in Seq(Clients) /\ client \in [Clients -> States]
         /\ shown \in Clients \cup {NULL} /\ NULL \notin Clients
         /\ pressed \in Nat /\ counter \in Nat /\ ended \in Nat
         /\ main \in {"free", "semaphore", "reply", "change", "dead"}
         /\ presses \in Seq(Packet) /\ Len(presses) \in Nat
         /\ DOMAIN presses = 1..Len(presses)
         /\ \A i \in DOMAIN presses : presses[i] \in Packet /\ presses[i].counter \in Nat
         /\ lost \subseteq Clients
<1>1. presses \in Seq(Packet)
  BY DEF Inv, TypeOK
<1>2. /\ Len(presses) \in Nat /\ DOMAIN presses = 1..Len(presses)
      /\ \A i \in DOMAIN presses : presses[i] \in Packet
  BY <1>1, LenProperties, ElementOfSeq
<1>3. \A q \in Packet : q.counter \in Nat
  BY DEF Packet
<1> QED
  BY <1>1, <1>2, <1>3, Apart DEF Inv, TypeOK

LEMMA SeenParts ==
  ASSUME Inv, ~hasty, InOrder
  PROVE  /\ \A c \in Clients : Seen[c] = IF c \in lost THEN "lost" ELSE client[c]
         /\ \A c \in lost : client[c] = "waiting"
         /\ main # "change" /\ shown # NULL => client[shown] \in {"waiting", "answered"}
<1>1. main # "change" /\ shown # NULL => client[shown] \in {"waiting", "answered"}
  BY InvParts DEF InOrder, OnDisplay
<1> QED
  BY <1>1 DEF InOrder, Tracked, Seen

\* Nobody but a client that is not on display changes, and no request is lost.
LEMMA SeenChanges ==
  ASSUME Inv, ~hasty, InOrder, NEW c \in Clients, client[c] # "waiting",
         \A d \in Clients \ {c} : client'[d] = client[d], UNCHANGED lost
  PROVE  /\ Seen[c] = client[c] /\ Seen'[c] = client'[c]
         /\ \A d \in Clients \ {c} : Seen'[d] = Seen[d]
         /\ \A d \in lost' : client'[d] = "waiting"
<1>1. c \notin lost /\ lost \subseteq Clients
  BY SeenParts, InvParts
<1> QED
  BY <1>1, SeenParts DEF Seen

LEMMA DisplaySame ==
  ASSUME Inv, ~hasty, InOrder, NEW c \in Clients, client[c] \notin {"waiting", "answered"},
         client'[c] # "answered", \A d \in Clients \ {c} : client'[d] = client[d],
         UNCHANGED <<window, presses, postponed, examiner>>,
         main' = main \/ (main \in {"free", "semaphore"} /\ main' \in {"free", "semaphore"})
  PROVE  OnDisplay' /\ Queued' /\ Compared' /\ ~hasty'
<1>1. UNCHANGED <<reqlist, shown, counter, pressed, presses, postponed, running, lost, hasty,
                  examining, ended>>
  BY DEF window, examiner
<1>2. shown # NULL /\ main # "change" => shown \in Clients /\ shown # c
  BY InvParts, SeenParts
<1>3. OnDisplay'
  <2>1. \A d \in Clients : client'[d] = "answered" <=> main' = "reply" /\ d = shown'
    BY <1>1, <1>2 DEF InOrder, OnDisplay
  <2>2. main' \in {"free", "semaphore"} /\ shown' # NULL => client'[shown'] = "waiting"
    BY <1>1, <1>2 DEF InOrder, OnDisplay
  <2> QED
    BY <1>1, <2>1, <2>2 DEF InOrder, OnDisplay
<1>4. Queued'
  BY <1>1 DEF InOrder, Queued, Own, Late, Harmless
<1>5. Compared'
  BY <1>1 DEF InOrder, Compared, Comparing
<1> QED
  BY <1>1, <1>3, <1>4, <1>5

LEMMA PushKept ==
  ASSUME Inv, ~hasty, InOrder, NEW c \in Clients, PushRequest(c), client[c] \in {"idle", "created"},
         UNCHANGED <<window, presses, examiner, postponed>>,
         main' = main \/ (main = "semaphore" /\ main' = "free")
  PROVE  InOrder'
<1>1. /\ client'[c] \in {"idle", "waiting"}
      /\ \A d \in Clients \ {c} : client'[d] = client[d]
  BY InvParts DEF PushRequest, Set
<1>2. OnDisplay' /\ Queued' /\ Compared'
  BY <1>1, DisplaySame
<1>3. UNCHANGED <<reqlist, shown, lost>> /\ Current' = Current /\ Current # c
  BY InvParts, SeenParts DEF Current, window
<1>4. /\ pushed \in Seq(Call) /\ reqlist \in Seq(Clients)
      /\ Places(pushed, reqlist, Current, Seen)
  BY InvParts DEF InOrder, Tracked
<1>5. /\ Seen[c] = client[c] /\ Seen'[c] = client'[c]
      /\ \A d \in Clients \ {c} : Seen'[d] = Seen[d]
      /\ \A d \in lost' : client'[d] = "waiting"
  BY <1>1, <1>3, SeenChanges
<1>6. CASE pushed' = Append(pushed, [do |-> "enqueue", of |-> c]) /\ client'[c] = "waiting"
  <2> DEFINE x == [do |-> "enqueue", of |-> c]
  <2>1. x \in Call /\ x.of = c /\ x.do = "enqueue"
    BY CallTypes
  <2>2. pushed' = Append(pushed, x)
    BY <1>6
  <2> HIDE DEF x
  <2>3. Seen'[x.of] = IF x.do = "create" THEN "creating" ELSE "waiting"
    BY <1>5, <1>6, <2>1
  <2>4. Places(Append(pushed, x), reqlist, Current, Seen')
    BY <1>3, <1>4, <1>5, <2>1, <2>3, PlacesPush
  <2> QED
    BY <1>2, <1>3, <1>5, <2>2, <2>4 DEF Tracked, InOrder
<1>7. CASE pushed' = pushed /\ client'[c] = "idle"
  <2>1. Places(pushed, reqlist, Current, Seen')
    BY <1>4, <1>5, <1>7, PlacesClient
  <2> QED
    BY <1>2, <1>3, <1>5, <1>7, <2>1 DEF Tracked, InOrder
<1> QED
  BY <1>6, <1>7, InvParts DEF PushRequest, Set

LEMMA ThreadKept ==
  ASSUME Inv, ~hasty, InOrder,
         NEW t \in Threads, AskFirst(t) \/ AskCreated(t) \/ AskRefused(t) \/ Ask(t)
  PROVE  InOrder'
<1>0. t \in Clients
  BY Apart
<1>1. CASE Ask(t)
  BY <1>0, <1>1, PushKept DEF Ask
<1>2. CASE AskCreated(t)
  BY <1>0, <1>2, PushKept DEF AskCreated
<1>3. CASE AskFirst(t) \/ AskRefused(t)
  <2>1. /\ UNCHANGED <<window, presses, examiner, postponed, main>>
        /\ client[t] \in {"idle", "refused"} /\ client'[t] \in {"creating", "idle"}
        /\ \A d \in Clients \ {t} : client'[d] = client[d]
    BY <1>0, <1>3, InvParts DEF AskFirst, AskRefused, Set
  <2>2. OnDisplay' /\ Queued' /\ Compared'
    BY <1>0, <2>1, DisplaySame
  <2>3. UNCHANGED <<reqlist, shown, lost>> /\ Current' = Current /\ Current # t
    BY <1>0, <2>1, InvParts, SeenParts DEF Current, window
  <2>4. /\ pushed \in Seq(Call) /\ reqlist \in Seq(Clients)
        /\ Places(pushed, reqlist, Current, Seen)
    BY InvParts DEF InOrder, Tracked
  <2>5. /\ Seen[t] = client[t] /\ Seen'[t] = client'[t]
        /\ \A d \in Clients \ {t} : Seen'[d] = Seen[d]
        /\ \A d \in lost' : client'[d] = "waiting"
    BY <1>0, <2>1, <2>3, SeenChanges
  <2>6. CASE AskRefused(t)
    <3>1. pushed' = pushed
      BY <2>6 DEF AskRefused
    <3>2. Places(pushed, reqlist, Current, Seen')
      BY <1>0, <2>1, <2>4, <2>5, PlacesClient
    <3> QED
      BY <2>2, <2>3, <2>5, <3>1, <3>2 DEF Tracked, InOrder
  <2>7. CASE AskFirst(t)
    <3> DEFINE x == [do |-> "create", of |-> t]
    <3>1. x \in Call /\ x.of = t /\ x.do = "create"
      BY <1>0, CallTypes
    <3>2. pushed' = Append(pushed, x) /\ client'[t] = "creating"
      BY <1>0, <2>7, InvParts DEF AskFirst, Set
    <3> HIDE DEF x
    <3>3. Seen'[x.of] = IF x.do = "create" THEN "creating" ELSE "waiting"
      BY <2>5, <3>1, <3>2
    <3>4. Places(Append(pushed, x), reqlist, Current, Seen')
      BY <2>1, <2>3, <2>4, <2>5, <3>1, <3>3, PlacesPush
    <3> QED
      BY <2>2, <2>3, <2>5, <3>2, <3>4 DEF Tracked, InOrder
  <2> QED
    BY <1>3, <2>6, <2>7
<1> QED
  BY <1>1, <1>2, <1>3

LEMMA MainAsksKept ==
  ASSUME Inv, ~hasty, InOrder, MainAsks \/ MainGetsSemaphore
  PROVE  InOrder'
<1>1. Main \in Clients
  BY Apart
<1>2. CASE /\ PushRequest(Main) /\ client[Main] = "idle"
           /\ UNCHANGED <<window, presses, examiner, postponed>>
           /\ main' = main \/ (main = "semaphore" /\ main' = "free")
  BY <1>1, <1>2, PushKept
<1>3. CASE /\ UNCHANGED <<client, pushed, window, presses, examiner, postponed>>
           /\ client[Main] = "idle"
           /\ main \in {"free", "semaphore"} /\ main' \in {"free", "semaphore"}
  <2>1. OnDisplay' /\ Queued' /\ Compared'
    BY <1>1, <1>3, DisplaySame
  <2>2. Current' = Current /\ reqlist' = reqlist /\ Seen' = Seen /\ lost' = lost
    BY <1>3 DEF Current, window, Seen
  <2> QED
    BY <1>3, <2>1, <2>2 DEF InOrder, Tracked
<1> QED
  BY <1>2, <1>3 DEF MainAsks, MainGetsSemaphore, Ask, Inv, MainFree

LEMMA CreateKept ==
  ASSUME Inv, ~hasty, InOrder, Create
  PROVE  InOrder'
<1> DEFINE t == Head(pushed).of
<1>1. /\ pushed # <<>> /\ Head(pushed).do = "create" /\ pushed' = Tail(pushed)
      /\ UNCHANGED <<asking, window, presses, examiner, postponed, main>>
      /\ client' = [client EXCEPT ![t] = "created"] \/ client' = [client EXCEPT ![t] = "refused"]
  BY DEF Create, Set
<1>2. t \in Clients /\ client[t] = "creating"
  <2>1. Head(pushed) = pushed[1] /\ 1 \in DOMAIN pushed
    BY <1>1, InvParts, TailParts
  <2> QED
    BY <1>1, <2>1, Apart DEF Inv, CreateOnce
<1>3. client'[t] \in {"created", "refused"} /\ \A d \in Clients \ {t} : client'[d] = client[d]
  BY <1>1, <1>2, InvParts
<1>4. OnDisplay' /\ Queued' /\ Compared'
  BY <1>1, <1>2, <1>3, DisplaySame
<1>5. /\ Seen'[t] = client'[t] /\ \A d \in Clients \ {t} : Seen'[d] = Seen[d]
      /\ \A d \in lost' : client'[d] = "waiting"
  BY <1>1, <1>2, <1>3, SeenChanges DEF window
<1>6. Places(Tail(pushed), reqlist, Current, Seen')
  <2>1. Places(pushed, reqlist, Current, Seen)
    BY DEF InOrder, Tracked
  <2>2. Seen'[Head(pushed).of] \in {"created", "refused"}
    BY <1>3, <1>5
  <2> QED
    BY <1>1, <1>5, <2>1, <2>2, InvParts, PlacesCreated
<1>7. Current' = Current /\ reqlist' = reqlist
  BY <1>1 DEF Current, window
<1> QED
  BY <1>1, <1>4, <1>5, <1>6, <1>7 DEF Tracked, InOrder

\* The window goes on to the next request, or does not open for it. What is
\* left in the queue are presses on the requester that was on display.
LEMMA ChangeKept ==
  ASSUME Inv, ~hasty, InOrder, ~hasty', NEW p \in Seq(Call), NEW list \in Seq(Clients),
         Places(p, list, NULL, Seen), Change(list), pushed' = p,
         UNCHANGED <<client, presses, postponed>>, main' = "free",
         postponed = NULL, \A c \in Clients : client[c] # "answered",
         \A i \in DOMAIN presses : presses[i].counter = counter,
         presses # <<>> => ~running /\ list # <<>> /\ Head(list) \notin Replaces,
         lost \cap Replaces = {} => ~running
  PROVE  InOrder'
<1>1. CASE /\ list = <<>> /\ reqlist' = <<>> /\ shown' = NULL
           /\ UNCHANGED <<counter, pressed, lost, hasty, running, examining, ended>>
  <2>1. Current' = NULL /\ Seen' = Seen /\ presses = <<>>
    BY <1>1 DEF Current, Seen
  <2>2. Tracked'
    BY <1>1, <2>1, SeenParts DEF Tracked
  <2>3. OnDisplay'
    BY <1>1, <2>1, Apart DEF OnDisplay
  <2>4. Queued'
    BY <1>1, <2>1 DEF Queued
  <2>5. Compared'
    BY <1>1 DEF InOrder, Compared
  <2> QED
    BY <2>2, <2>3, <2>4, <2>5 DEF InOrder
<1>2. CASE /\ list # <<>> /\ reqlist' = Tail(list) /\ counter' = counter + 1 /\ pressed' = 0
           /\ Examine(Head(list)) /\ Open(Head(list))
  <2> DEFINE h == Head(list)
  <2>1. Places(p, Tail(list), h, Seen) /\ h \in Clients /\ Seen[h] = "waiting"
    BY <1>2, PlacesShow
  <2>2. h # NULL /\ h \notin lost /\ client[h] = "waiting"
    BY <2>1, SeenParts, Apart
  <2>3. Tail(list) \in Seq(Clients)
    BY <1>2, TailParts
  <2>4. /\ running' \in {TRUE, running}
        /\ \/ /\ h \in Replaces /\ running' = TRUE /\ ended' = ended
              /\ examining' = examining \cup {[of |-> h, counter |-> counter']}
           \/ running' = running /\ examining' = examining /\ ended' = ended
    BY <1>2 DEF Examine, examiner, Inv, TypeOK
  <2>5. \/ shown' = h /\ UNCHANGED <<lost, hasty>>
        \/ shown' = NULL /\ lost' = lost \cup {h} /\ presses = <<>>
    BY <1>2 DEF Open
  <2> HIDE DEF h
  <2>6. \A i \in DOMAIN presses' : Late(presses[i])' /\ ~running'
    <3> SUFFICES ASSUME NEW i \in DOMAIN presses'
                 PROVE  presses'[i].counter < counter' /\ ~running'
      BY DEF Late
    <3>1. i \in DOMAIN presses /\ presses'[i] = presses[i] /\ presses # <<>>
      <4>1. presses' = presses
        OBVIOUS
      <4>2. DOMAIN <<>> = {}
        OBVIOUS
      <4> QED
        BY <4>1, <4>2
    <3>2. presses[i].counter = counter /\ counter \in Nat
      BY <3>1, InvParts
    <3>3. presses[i].counter < counter'
      BY <1>2, <3>2
    <3>4. ~running'
      BY <2>4, <3>1 DEF h
    <3> QED
      BY <3>1, <3>3, <3>4
  <2>7. \A i, j \in DOMAIN presses' : ~Own(presses[i])'
    <3> SUFFICES ASSUME NEW i \in DOMAIN presses' PROVE ~Own(presses[i])'
      OBVIOUS
    <3>1. pressed' = 0 /\ ~(0 >= 1)
      BY <1>2
    <3> QED
      BY <3>1 DEF Own
  <2>8. Queued'
    <3>1. pressed' = 0 /\ ~(0 >= 2)
      BY <1>2
    <3> QED
      BY <2>6, <2>7, <3>1 DEF Queued
  <2>9. Compared'
    <3> SUFFICES ASSUME lost' \cap Replaces = {}
                 PROVE  IF running' THEN Comparing' ELSE examining' = {} /\ ended' = 0
      BY DEF Compared
    <3>1. lost \cap Replaces = {}
      BY <2>5
    <3>2. ~running /\ examining = {} /\ ended = 0
      BY <3>1 DEF InOrder, Compared
    <3>3. CASE /\ h \in Replaces /\ running' = TRUE /\ ended' = ended
               /\ examining' = examining \cup {[of |-> h, counter |-> counter']}
      <4>1. shown' = h
        BY <2>5, <3>3
      <4>2. examining' = {[of |-> shown', counter |-> counter']}
        BY <3>2, <3>3, <4>1
      <4> QED
        BY <2>2, <3>2, <3>3, <4>1, <4>2 DEF Comparing
    <3>4. CASE running' = running /\ examining' = examining /\ ended' = ended
      BY <3>2, <3>4
    <3> QED
      BY <2>4, <3>3, <3>4
  <2>10. CASE shown' = h /\ UNCHANGED <<lost, hasty>>
    <3>1. Current' = h /\ Seen' = Seen
      BY <2>10 DEF Current, Seen
    <3>2. Tracked'
      BY <1>2, <2>1, <2>10, <3>1, SeenParts DEF Tracked
    <3>3. OnDisplay'
      BY <2>2, <2>10, Apart DEF OnDisplay
    <3> QED
      BY <2>8, <2>9, <3>2, <3>3 DEF InOrder
  <2>11. CASE shown' = NULL /\ lost' = lost \cup {h} /\ presses = <<>>
    <3>1. Current' = NULL
      BY <2>11 DEF Current
    <3>2. Seen'[h] = "lost" /\ \A d \in Clients \ {h} : Seen'[d] = Seen[d]
      BY <2>1, <2>11 DEF Seen
    <3>3. Places(p, Tail(list), h, Seen')
      BY <2>1, <2>3, <3>2, PlacesClient
    <3>4. Places(p, Tail(list), NULL, Seen')
      BY <2>3, <3>2, <3>3, PlacesLeave
    <3>5. Tracked'
      BY <1>2, <2>2, <2>11, <3>1, <3>4, SeenParts DEF Tracked
    <3>6. OnDisplay'
      BY <2>11, Apart DEF OnDisplay
    <3> QED
      BY <2>8, <2>9, <3>5, <3>6 DEF InOrder
  <2> QED
    BY <2>5, <2>10, <2>11
<1> QED
  BY <1>1, <1>2, ChangeParts

LEMMA EnqueueKept ==
  ASSUME Inv, ~hasty, InOrder, ~hasty', Enqueue
  PROVE  InOrder'
<1> DEFINE list == Append(reqlist, Head(pushed).of)
<1>1. /\ pushed # <<>> /\ Head(pushed).do = "enqueue" /\ pushed' = Tail(pushed) /\ main = "free"
      /\ UNCHANGED <<asking, client, presses, postponed, main>>
      /\ \/ shown = NULL /\ Change(list)
         \/ /\ shown # NULL /\ reqlist' = list
            /\ UNCHANGED <<shown, counter, pressed, lost, hasty, examiner>>
  BY DEF Enqueue
<1>2. Places(Tail(pushed), list, Current, Seen) /\ Head(pushed).of \in Clients
  BY <1>1, InvParts, PlacesMove DEF InOrder, Tracked
<1>3. Tail(pushed) \in Seq(Call) /\ list \in Seq(Clients)
  BY <1>1, <1>2, InvParts, AppendParts, TailParts
<1>4. Harmless => list # <<>> /\ Head(list) = Head(reqlist)
  <2>1. /\ Len(reqlist) \in Nat /\ list[Len(reqlist) + 1] = Head(pushed).of
        /\ \A i \in 1..Len(reqlist) : list[i] = reqlist[i]
        /\ DOMAIN list = 1..(Len(reqlist) + 1)
    BY <1>2, InvParts, AppendParts
  <2>2. list # <<>>
    <3>1. DOMAIN list = 1..(Len(reqlist) + 1) /\ Len(reqlist) \in Nat
      BY <2>1
    <3> HIDE DEF list
    <3>2. 1 \in DOMAIN list
      BY <3>1
    <3> QED
      BY <3>2
  <2>3. reqlist # <<>> => Len(reqlist) >= 1 /\ Head(reqlist) = reqlist[1]
    BY InvParts, TailParts
  <2>4. Head(list) = list[1]
    BY <1>3, <2>2, TailParts
  <2> HIDE DEF list
  <2>5. reqlist # <<>> => list[1] = reqlist[1]
    BY <2>1, <2>3
  <2> QED
    BY <2>2, <2>3, <2>4, <2>5 DEF Harmless
<1> HIDE DEF list
<1>5. Current = shown
  BY <1>1 DEF Current
<1>6. CASE shown = NULL /\ Change(list)
  <2>1. presses = <<>> /\ postponed = NULL /\ \A c \in Clients : client[c] # "answered"
    BY <1>1, <1>6 DEF InOrder, OnDisplay
  <2>2. lost \cap Replaces = {} => ~running
    BY <1>6 DEF InOrder, Compared, Comparing
  <2>3. \A i \in DOMAIN presses : presses[i].counter = counter
    BY <2>1
  <2> QED
    BY <1>1, <1>2, <1>3, <1>5, <1>6, <2>1, <2>2, <2>3, ChangeKept
<1>7. CASE /\ shown # NULL /\ reqlist' = list
           /\ UNCHANGED <<shown, counter, pressed, lost, hasty, examiner>>
  <2>1. Current' = Current /\ Seen' = Seen
    BY <1>1, <1>7 DEF Current, Seen
  <2>2. OnDisplay'
    BY <1>1, <1>7 DEF InOrder, OnDisplay, examiner
  <2>3. Harmless => Harmless'
    BY <1>4, <1>7 DEF Harmless
  <2>4. Queued'
    BY <1>1, <1>7, <2>3 DEF InOrder, Queued, Own, Late, examiner
  <2>5. Compared'
    BY <1>7 DEF InOrder, Compared, Comparing, examiner
  <2>6. Tracked'
    BY <1>1, <1>2, <1>7, <2>1 DEF InOrder, Tracked
  <2> QED
    BY <2>2, <2>4, <2>5, <2>6 DEF InOrder
<1> QED
  BY <1>1, <1>6, <1>7

LEMMA ChangeNextKept ==
  ASSUME Inv, ~hasty, InOrder, ~hasty', ChangeNext
  PROVE  InOrder'
<1>1. /\ main = "change" /\ main' = "free" /\ Change(reqlist)
      /\ UNCHANGED <<asking, client, pushed, presses, postponed>>
  BY DEF ChangeNext
<1>2. Places(pushed, reqlist, NULL, Seen)
  BY <1>1 DEF InOrder, Tracked, Current
<1>3. postponed = NULL /\ ~running /\ \A c \in Clients : client[c] # "answered"
  BY <1>1 DEF InOrder, OnDisplay
<1>4. \A i \in DOMAIN presses : presses[i].counter = counter
  BY <1>1 DEF InOrder, Queued, Own
<1>5. presses # <<>> => ~running /\ reqlist # <<>> /\ Head(reqlist) \notin Replaces
  <2>1. presses # <<>> => 1 \in DOMAIN presses
    BY InvParts, TailParts
  <2>2. presses # <<>> => pressed >= 2 /\ shown # NULL
    BY <1>1, <2>1 DEF InOrder, Queued, OnDisplay
  <2> QED
    BY <1>3, <2>2 DEF InOrder, Queued, Harmless
<1> QED
  BY <1>1, <1>2, <1>3, <1>4, <1>5, InvParts, ChangeKept

\* The press on the requester on display is carried out. Those that are still
\* queued are on the same one.
LEMMA ExecuteKept ==
  ASSUME Inv, ~hasty, InOrder, NEW p, Own(p), Execute(p), main = "free",
         UNCHANGED pushed, postponed' = NULL, ~running',
         \A i \in DOMAIN presses' : Own(presses'[i]) /\ pressed >= 2,
         Compared'
  PROVE  InOrder'
<1>1. /\ shown \in Clients /\ shown # NULL /\ p.of = shown /\ pressed >= 1
      /\ client[shown] = "waiting" /\ Current = shown /\ shown \notin lost
  BY InvParts DEF Own, InOrder, OnDisplay, Current
<1>2. UNCHANGED <<reqlist, shown, counter, pressed, lost, hasty>>
  BY DEF Execute, window
<1>3. /\ \A c \in Clients : client[c] # "answered"
      /\ Places(pushed, reqlist, shown, Seen)
  BY <1>1 DEF InOrder, OnDisplay, Tracked
<1>4. ASSUME main' \in {"reply", "change"}
      PROVE  Queued'
  <2>1. \A i \in DOMAIN presses' : Own(presses[i])' /\ pressed' >= 2
    BY <1>2 DEF Own
  <2>2. pressed' >= 2 /\ shown' # NULL => Harmless'
    BY <1>2 DEF InOrder, Queued, Harmless
  <2> QED
    BY <2>1, <2>2 DEF Queued
<1>5. ASSUME NEW st \in {"answered", "idle"}, client' = [client EXCEPT ![shown] = st]
      PROVE  /\ client'[shown] = st /\ \A d \in Clients \ {shown} : client'[d] = client[d]
             /\ Places(pushed, reqlist, shown, Seen')
             /\ \A c \in lost' : client'[c] = "waiting"
             /\ Seen'[shown] = st
  <2>1. client'[shown] = st /\ \A d \in Clients \ {shown} : client'[d] = client[d]
    BY <1>1, <1>5, InvParts
  <2>2. Seen'[shown] = st /\ \A d \in Clients \ {shown} : Seen'[d] = Seen[d]
    BY <1>1, <1>2, <2>1 DEF Seen
  <2>3. Places(pushed, reqlist, shown, Seen')
    BY <1>1, <1>3, <2>2, InvParts, PlacesClient
  <2>4. \A c \in lost' : client'[c] = "waiting"
    BY <1>1, <1>2, <2>1, InvParts, SeenParts
  <2> QED
    BY <2>1, <2>2, <2>3, <2>4
<1>6. CASE shown \in Threads /\ client' = [client EXCEPT ![shown] = "answered"] /\ main' = "reply"
  <2>1. Current' = shown
    BY <1>2, <1>6 DEF Current
  <2>2. OnDisplay'
    BY <1>1, <1>2, <1>3, <1>5, <1>6 DEF OnDisplay
  <2>3. Tracked'
    BY <1>2, <1>5, <1>6, <2>1 DEF Tracked
  <2> QED
    BY <1>4, <1>6, <2>2, <2>3 DEF InOrder
<1>7. CASE shown = Main /\ client' = [client EXCEPT ![Main] = "idle"] /\ main' = "change"
  <2>1. client' = [client EXCEPT ![shown] = "idle"]
    BY <1>7
  <2>2. /\ client'[shown] = "idle" /\ \A d \in Clients \ {shown} : client'[d] = client[d]
        /\ Places(pushed, reqlist, shown, Seen') /\ Seen'[shown] = "idle"
        /\ \A c \in lost' : client'[c] = "waiting"
    BY <1>5, <2>1
  <2>3. Places(pushed, reqlist, NULL, Seen')
    BY <1>1, <2>2, InvParts, PlacesLeave
  <2>4. Current' = NULL
    BY <1>7 DEF Current
  <2>5. OnDisplay'
    BY <1>1, <1>2, <1>3, <1>7, <2>2 DEF OnDisplay
  <2>6. Tracked'
    BY <1>2, <2>2, <2>3, <2>4 DEF Tracked
  <2> QED
    BY <1>4, <1>7, <2>5, <2>6 DEF InOrder
<1> QED
  BY <1>1, <1>6, <1>7 DEF Execute, Set

\* What is left of the queue after its first press.
LEMMA TailQueued ==
  ASSUME Inv, ~hasty, InOrder, presses # <<>>
  PROVE  /\ Head(presses) = presses[1] /\ 1 \in DOMAIN presses
         /\ \A i \in DOMAIN Tail(presses) :
              i + 1 \in DOMAIN presses /\ Tail(presses)[i] = presses[i + 1] /\ 1 < i + 1
         /\ \A i, j \in DOMAIN Tail(presses) : i < j => i + 1 < j + 1
<1>1. /\ Len(presses) \in Nat /\ Len(presses) >= 1 /\ DOMAIN presses = 1..Len(presses)
      /\ Head(presses) = presses[1]
      /\ DOMAIN Tail(presses) = 1..(Len(presses) - 1)
      /\ \A i \in 1..(Len(presses) - 1) : Tail(presses)[i] = presses[i + 1]
  BY InvParts, TailParts
<1> QED
  BY <1>1

LEMMA PressedKept ==
  ASSUME Inv, ~hasty, InOrder, Pressed
  PROVE  InOrder'
<1> DEFINE p == Head(presses)
<1>1. /\ main = "free" /\ presses # <<>> /\ presses' = Tail(presses)
      /\ UNCHANGED <<asking, pushed, running, examining, ended>>
  BY DEF Pressed, examiner
<1>2. /\ p = presses[1] /\ 1 \in DOMAIN presses
      /\ \A i \in DOMAIN presses' :
           i + 1 \in DOMAIN presses /\ presses'[i] = presses[i + 1] /\ 1 < i + 1
      /\ \A i, j \in DOMAIN presses' : i < j => i + 1 < j + 1
  BY <1>1, TailQueued
<1> HIDE DEF p
<1>3. Own(p) => \A i \in DOMAIN presses' : Own(presses'[i]) /\ pressed >= 2
  BY <1>2 DEF InOrder, Queued
<1>4. Own(p) \/ (Late(p) /\ ~running)
  BY <1>2 DEF InOrder, Queued
<1>5. \A i \in DOMAIN presses' : Own(presses'[i]) \/ (Late(presses'[i]) /\ ~running)
  BY <1>2 DEF InOrder, Queued
<1>6. \A i, j \in DOMAIN presses' : i < j /\ Own(presses'[i]) => Own(presses'[j]) /\ pressed >= 2
  <2> SUFFICES ASSUME NEW i \in DOMAIN presses', NEW j \in DOMAIN presses', i < j,
                      Own(presses'[i])
               PROVE  Own(presses'[j]) /\ pressed >= 2
    OBVIOUS
  <2>1. i + 1 \in DOMAIN presses /\ j + 1 \in DOMAIN presses /\ i + 1 < j + 1
        /\ presses'[i] = presses[i + 1] /\ presses'[j] = presses[j + 1]
    BY <1>2
  <2> QED
    BY <2>1 DEF InOrder, Queued
<1>7. CASE UNCHANGED <<client, window, main>> /\ (postponed' = postponed \/ (MustWait /\ postponed' = p))
  <2>1. UNCHANGED <<reqlist, shown, counter, pressed, lost, hasty>>
    BY <1>7 DEF window
  <2>2. \A i \in DOMAIN presses' : Own(presses[i])' <=> Own(presses'[i])
    BY <2>1 DEF Own
  <2>3. \A i \in DOMAIN presses' : Late(presses[i])' <=> Late(presses'[i])
    BY <2>1 DEF Late
  <2>4. postponed' # NULL => Own(postponed') /\ running
                             /\ \A i \in DOMAIN presses' : Own(presses'[i]) /\ pressed >= 2
    <3>1. CASE postponed' = postponed
      BY <1>2, <3>1 DEF InOrder, Queued
    <3>2. CASE MustWait /\ postponed' = p
      BY <1>3, <1>4, <3>2 DEF MustWait
    <3> QED
      BY <1>7, <3>1, <3>2
  <2>5. Queued'
    <3>1. \A i \in DOMAIN presses' : Own(presses[i])' \/ (Late(presses[i])' /\ ~running')
      BY <1>1, <1>5, <2>2, <2>3
    <3>2. \A i, j \in DOMAIN presses' :
            i < j /\ Own(presses[i])' => Own(presses[j])' /\ pressed' >= 2
      BY <1>6, <2>1, <2>2
    <3>3. postponed' # NULL => Own(postponed)' /\ running'
      BY <1>1, <2>1, <2>4 DEF Own
    <3>4. main' \in {"reply", "change"} \/ postponed' # NULL =>
            \A i \in DOMAIN presses' : Own(presses[i])' /\ pressed' >= 2
      BY <1>1, <1>7, <2>1, <2>2, <2>4
    <3>5. pressed' >= 2 /\ shown' # NULL => Harmless'
      BY <2>1 DEF InOrder, Queued, Harmless
    <3> QED
      BY <3>1, <3>2, <3>3, <3>4, <3>5 DEF Queued
  <2>6. shown # NULL
    BY <1>1 DEF InOrder, OnDisplay
  <2>7. OnDisplay'
    BY <1>1, <1>7, <2>1, <2>6 DEF InOrder, OnDisplay
  <2>8. Current' = Current /\ Seen' = Seen
    BY <1>7, <2>1 DEF Current, Seen
  <2>9. Compared'
    BY <1>1, <2>1 DEF InOrder, Compared, Comparing
  <2>10. Tracked'
    BY <1>1, <1>7, <2>1, <2>8 DEF InOrder, Tracked
  <2> QED
    BY <2>5, <2>7, <2>9, <2>10 DEF InOrder
<1>8. CASE ~MustWait /\ Matches(p) /\ Execute(p) /\ UNCHANGED postponed
  <2>1. ~running /\ pushed' = pushed /\ ~running'
    BY <1>1, <1>8 DEF MustWait
  <2>2. Own(p)
    <3>1. p.counter = counter /\ counter \in Nat
      BY <1>8, InvParts DEF Matches
    <3>2. ~Late(p)
      BY <3>1 DEF Late
    <3> QED
      BY <1>4, <3>2
  <2>3. postponed' = NULL
    BY <1>8, <2>1 DEF InOrder, Queued
  <2>4. Compared'
    BY <1>1, <1>8, <2>1 DEF InOrder, Compared, Execute, window
  <2> QED
    BY <1>1, <1>3, <1>8, <2>1, <2>2, <2>3, <2>4, ExecuteKept
<1> QED
  BY <1>7, <1>8 DEF Pressed, p

LEMMA ThreadFinishedKept ==
  ASSUME Inv, ~hasty, InOrder, ThreadFinished
  PROVE  InOrder'
<1>1. /\ main = "free" /\ ended > 0 /\ ended' = ended - 1 /\ running' = FALSE /\ postponed' = NULL
      /\ UNCHANGED <<asking, pushed, presses, examining>>
  BY DEF ThreadFinished
<1>2. UNCHANGED <<reqlist, shown, counter, pressed, lost, hasty>>
  BY DEF ThreadFinished, Resumed, Execute, window
<1>3. Compared'
  <2> SUFFICES ASSUME lost' \cap Replaces = {}
               PROVE  examining' = {} /\ ended' = 0
    BY <1>1 DEF Compared
  <2>1. IF running THEN Comparing ELSE examining = {} /\ ended = 0
    BY <1>2 DEF InOrder, Compared
  <2>2. ~(0 > 0) /\ 1 - 1 = 0
    OBVIOUS
  <2>3. examining = {} /\ ended = 1
    BY <1>1, <2>1, <2>2 DEF Comparing
  <2> QED
    BY <1>1, <2>2, <2>3
<1>4. CASE postponed # NULL
  <2>1. Own(postponed) /\ Execute(postponed)
    BY <1>4 DEF InOrder, Queued, ThreadFinished, Resumed
  <2>2. \A i \in DOMAIN presses' : Own(presses'[i]) /\ pressed >= 2
    BY <1>1, <1>4 DEF InOrder, Queued
  <2> QED
    BY <1>1, <1>3, <2>1, <2>2, ExecuteKept
<1>5. CASE postponed = NULL
  <2>1. UNCHANGED <<client, main>>
    BY <1>5 DEF ThreadFinished, Resumed
  <2>2. OnDisplay'
    BY <1>1, <1>2, <1>5, <2>1 DEF InOrder, OnDisplay
  <2>3. Queued'
    BY <1>1, <1>2, <1>5, <2>1 DEF InOrder, Queued, Own, Late, Harmless
  <2>4. Current' = Current /\ Seen' = Seen
    BY <1>2, <2>1 DEF Current, Seen
  <2>5. Tracked'
    BY <1>1, <1>2, <2>1, <2>4 DEF InOrder, Tracked
  <2> QED
    BY <1>3, <2>2, <2>3, <2>5 DEF InOrder
<1> QED
  BY <1>4, <1>5

\* The user presses a button, for the first time or while the next requester
\* may come.
LEMMA PressKept ==
  ASSUME Inv, ~hasty, InOrder, ~hasty', Press
  PROVE  InOrder'
<1> DEFINE x == [of |-> shown, counter |-> counter]
           n == Len(presses)
<1>1. /\ main = "free" /\ shown # NULL /\ postponed = NULL /\ pressed' = pressed + 1
      /\ presses' = Append(presses, x)
      /\ (pressed > 0 => Harmless)
      /\ UNCHANGED <<asking, client, pushed, reqlist, shown, counter, lost, examiner, postponed,
                     main>>
  BY DEF Press
<1>2. x.of = shown /\ x.counter = counter
  OBVIOUS
<1>3. x \in Packet
  BY <1>1, InvParts DEF Packet
<1> HIDE DEF x
<1>4. /\ n \in Nat /\ DOMAIN presses = 1..n /\ DOMAIN presses' = 1..(n + 1)
      /\ \A i \in 1..n : presses'[i] = presses[i]
      /\ presses'[n + 1] = x
  BY <1>1, <1>3, InvParts, AppendParts
<1> HIDE DEF n
<1>5. pressed \in Nat /\ pressed' >= 1 /\ (pressed >= 1 => pressed' >= 2)
      /\ (pressed' >= 2 => pressed > 0)
  BY <1>1, InvParts
<1>6. \A i \in 1..n : Own(presses[i]) => Own(presses[i])' /\ pressed' >= 2
  BY <1>1, <1>4, <1>5 DEF Own
<1>7. \A i \in DOMAIN presses' : i = n + 1 => Own(presses[i])'
  BY <1>1, <1>2, <1>4, <1>5 DEF Own
<1>8. \A i \in 1..n : Late(presses[i]) => Late(presses[i])'
  BY <1>1, <1>4 DEF Late
<1>9. \A i \in 1..n : Own(presses[i])' /\ Late(presses[i]) => FALSE
  <2> SUFFICES ASSUME NEW i \in 1..n, presses[i].counter = counter, presses[i].counter < counter
               PROVE  FALSE
    BY <1>1, <1>4 DEF Own, Late
  <2> QED
    BY <1>4, InvParts
<1>10. UNCHANGED <<running, examining, ended>>
  BY <1>1 DEF examiner
<1>11. Queued'
  <2>1. \A i \in DOMAIN presses' : i \in 1..n \/ i = n + 1
    BY <1>4
  <2>2. \A i \in DOMAIN presses' : Own(presses[i])' \/ (Late(presses[i])' /\ ~running')
    BY <1>4, <1>6, <1>7, <1>8, <1>10, <2>1 DEF InOrder, Queued
  <2>3. ASSUME NEW i \in DOMAIN presses', NEW j \in DOMAIN presses', i < j, Own(presses[i])'
        PROVE  Own(presses[j])' /\ pressed' >= 2
    <3>1. i \in 1..n
      BY <1>4, <2>3
    <3>2. presses'[i] = presses[i] /\ presses[i] \in Packet
      BY <1>4, <3>1, InvParts
    <3>3. Own(presses[i])
      BY <1>4, <1>9, <2>3, <3>1, <3>2 DEF InOrder, Queued
    <3>4. CASE j \in 1..n
      <4>1. i \in DOMAIN presses /\ j \in DOMAIN presses
        BY <1>4, <3>1, <3>4
      <4>2. Own(presses[j])
        BY <2>3, <3>3, <4>1 DEF InOrder, Queued
      <4> QED
        BY <1>6, <3>4, <4>2
    <3>5. CASE j = n + 1
      <4>1. Own(presses[j])'
        BY <1>7, <3>5
      <4>2. pressed' >= 2
        BY <1>6, <3>1, <3>3
      <4> QED
        BY <4>1, <4>2
    <3> QED
      BY <2>1, <3>4, <3>5
  <2>4. pressed' >= 2 /\ shown' # NULL => Harmless'
    BY <1>1, <1>5 DEF Harmless
  <2> QED
    BY <1>1, <2>2, <2>3, <2>4 DEF Queued
<1>12. OnDisplay'
  BY <1>1, <1>10 DEF InOrder, OnDisplay
<1>13. Compared'
  BY <1>1, <1>10 DEF InOrder, Compared, Comparing
<1>14. Current' = Current /\ Seen' = Seen
  BY <1>1 DEF Current, Seen
<1>15. Tracked'
  BY <1>1, <1>14 DEF InOrder, Tracked
<1> QED
  BY <1>11, <1>12, <1>13, <1>15 DEF InOrder

LEMMA TakeAnswerKept ==
  ASSUME Inv, ~hasty, InOrder, NEW t \in Threads, TakeAnswer(t)
  PROVE  InOrder'
<1>1. /\ client[t] = "answered" /\ client' = [client EXCEPT ![t] = "idle"] /\ main' = "change"
      /\ UNCHANGED <<asking, pushed, reqlist, shown, counter, pressed, presses, running,
                     examining, ended, postponed, lost, hasty>>
  BY DEF TakeAnswer, Set, window, examiner
<1>2. /\ t \in Clients /\ main = "reply" /\ t = shown /\ Current = shown /\ shown # NULL
      /\ t \notin lost
  BY <1>1, Apart DEF InOrder, OnDisplay, Current
<1>3. client'[t] = "idle" /\ \A d \in Clients \ {t} : client'[d] = client[d]
  BY <1>1, <1>2, InvParts
<1>4. /\ Seen'[t] = "idle" /\ \A d \in Clients \ {t} : Seen'[d] = Seen[d]
      /\ \A d \in lost' : client'[d] = "waiting"
  BY <1>1, <1>2, <1>3, SeenChanges
<1>5. Places(pushed, reqlist, shown, Seen')
  BY <1>2, <1>4, InvParts, PlacesClient DEF InOrder, Tracked
<1>6. Places(pushed, reqlist, NULL, Seen')
  BY <1>2, <1>4, <1>5, InvParts, PlacesLeave
<1>7. Current' = NULL
  BY <1>1 DEF Current
<1>8. Tracked'
  BY <1>1, <1>4, <1>6, <1>7 DEF Tracked
<1>9. OnDisplay'
  BY <1>1, <1>2, <1>3 DEF InOrder, OnDisplay
<1>10. Queued'
  BY <1>1, <1>2 DEF InOrder, Queued, Own, Late, Harmless
<1>11. Compared'
  BY <1>1 DEF InOrder, Compared, Comparing
<1> QED
  BY <1>8, <1>9, <1>10, <1>11 DEF InOrder

LEMMA ExamineEndsKept ==
  ASSUME Inv, ~hasty, InOrder, ExamineEnds \/ UNCHANGED vars
  PROVE  InOrder'
<1>1. /\ UNCHANGED <<client, pushed, reqlist, shown, counter, pressed, presses, running,
                     postponed, main, lost, hasty>>
  BY DEF ExamineEnds, vars, window, examiner
<1>2. Current' = Current /\ Seen' = Seen
  BY <1>1 DEF Current, Seen
<1>3. OnDisplay' /\ Tracked'
  BY <1>1, <1>2 DEF InOrder, OnDisplay, Tracked
<1>4. Queued'
  BY <1>1 DEF InOrder, Queued, Own, Late, Harmless
<1>5. Compared'
  <2>1. CASE UNCHANGED <<examining, ended>>
    BY <1>1, <2>1 DEF InOrder, Compared, Comparing
  <2>2. ASSUME NEW e \in examining, examining' = examining \ {e}, ended' = ended + 1,
               lost' \cap Replaces = {}
        PROVE  IF running' THEN Comparing' ELSE examining' = {} /\ ended' = 0
    <3>1. running /\ shown # NULL /\ examining = {[of |-> shown, counter |-> counter]} /\ ended = 0
      BY <1>1, <2>2 DEF InOrder, Compared, Comparing
    <3>2. examining' = {} /\ ended' = 1
      BY <2>2, <3>1
    <3> QED
      BY <1>1, <3>1, <3>2 DEF Comparing
  <2> QED
    BY <2>1, <2>2 DEF ExamineEnds, vars, examiner, Compared
<1> QED
  BY <1>3, <1>4, <1>5 DEF InOrder

\* Once a second press has gone wrong, it has.
LEMMA HastyStays ==
  ASSUME [Next]_vars, hasty
  PROVE  hasty'
<1>1. CASE UNCHANGED window
  BY <1>1 DEF window
<1>2. ASSUME NEW list, Change(list)
      PROVE  hasty'
  BY <1>2 DEF Change, Open
<1>3. CASE Press
  BY <1>3 DEF Press
<1>4. CASE Enqueue \/ ChangeNext
  BY <1>2, <1>4 DEF Enqueue, ChangeNext
<1>5. CASE \E t \in Threads : Thread(t) \/ Ask(t)
  BY <1>1, <1>5 DEF Thread, AskFirst, AskCreated, AskRefused, TakeAnswer, Ask
<1>6. CASE MainAsks \/ MainGetsSemaphore \/ Create \/ ExamineEnds \/ UNCHANGED vars
  BY <1>1, <1>6 DEF MainAsks, MainGetsSemaphore, Create, ExamineEnds, vars, Ask
<1>7. CASE Pressed \/ ThreadFinished
  BY <1>1, <1>7 DEF Pressed, ThreadFinished, Resumed, Execute
<1> QED
  BY <1>3, <1>4, <1>5, <1>6, <1>7 DEF Next, MainTask

LEMMA InvKept ==
  ASSUME Inv, [Next]_vars
  PROVE  Inv'
<1>1. TypeOK' /\ CreateOnce' /\ MainFree'
  BY TypeStep, MainFreeKept DEF Inv
<1>2. SUFFICES ASSUME ~hasty' PROVE InOrder'
  BY <1>1 DEF Inv
<1>3. ~hasty /\ InOrder
  BY <1>2, HastyStays DEF Inv
<1>4. CASE \E t \in Threads : Thread(t) \/ Ask(t)
  <2>1. PICK t \in Threads : Thread(t) \/ Ask(t)
    BY <1>4
  <2> QED
    BY <1>3, <2>1, ThreadKept, TakeAnswerKept DEF Thread
<1> QED
  BY <1>2, <1>3, <1>4, MainAsksKept, CreateKept, EnqueueKept, ChangeNextKept, PressedKept,
     ThreadFinishedKept, PressKept, ExamineEndsKept DEF Next, MainTask

LEMMA InvInit == Init => Inv
<1> SUFFICES ASSUME Init PROVE Inv
  OBVIOUS
<1>1. TypeOK /\ CreateOnce
  BY TypeInit
<1>2. MainFree
  BY Apart DEF Init, MainFree
<1>3. Tracked
  BY Apart DEF Init, Tracked, Places, Current, Seen
<1>4. OnDisplay /\ Compared
  BY Apart DEF Init, OnDisplay, Compared
<1>5. Queued
  BY DEF Init, Queued
<1> QED
  BY <1>1, <1>2, <1>3, <1>4, <1>5 DEF Inv, InOrder

\* The relations between the requests, the window, the presses and the threads
\* that ask hold until a second press has gone wrong.
THEOREM InvHolds == Spec => []Inv
<1>1. Init => Inv
  BY InvInit
<1>2. Inv /\ [Next]_vars => Inv'
  BY InvKept
<1> QED
  BY <1>1, <1>2, PTL DEF Spec

-----------------------------------------------------------------------------
(* The theorems.                                                           *)

LEMMA InvTracked == Inv => EachTracked
<1> SUFFICES ASSUME Inv, ~hasty, NEW c \in Clients, client[c] = "waiting"
             PROVE  (IF \E k \in Calls : k.do = "enqueue" /\ k.of = c THEN 1 ELSE 0)
                      + Cardinality({i \in DOMAIN reqlist : reqlist[i] = c})
                      + (IF shown = c /\ main # "change" THEN 1 ELSE 0)
                    = IF c \in lost THEN 0 ELSE 1
  BY DEF EachTracked
<1> DEFINE L == {i \in DOMAIN reqlist : reqlist[i] = c}
           InCalls == \E k \in Calls : k.do = "enqueue" /\ k.of = c
<1>0. /\ c # NULL /\ Places(pushed, reqlist, Current, Seen)
      /\ (shown = c /\ main # "change" <=> Current = c)
      /\ Seen[c] = IF c \in lost THEN "lost" ELSE "waiting"
      /\ c \in lost => Current # c
  BY Apart DEF Inv, InOrder, Tracked, Current, Seen, OnDisplay
<1>1. InCalls <=> \E i \in DOMAIN pushed : pushed[i].of = c
  <2>1. \A i \in DOMAIN pushed : pushed[i].of = c => pushed[i].do = "enqueue"
    <3>1. \A i \in DOMAIN pushed : pushed[i].do \in {"create", "enqueue"}
      BY PushedParts DEF Inv
    <3> QED
      BY <1>0, <3>1 DEF Places
  <2> QED
    BY <2>1 DEF Calls
<1>2. (\A i \in DOMAIN reqlist : reqlist[i] # c) => Cardinality(L) = 0
  <2>1. (\A i \in DOMAIN reqlist : reqlist[i] # c) => L = {}
    OBVIOUS
  <2> QED
    BY <2>1, FS_EmptySet
<1>3. ASSUME NEW i \in DOMAIN reqlist, reqlist[i] = c
      PROVE  Cardinality(L) = 1
  <2>1. L = {i}
    BY <1>0, <1>3 DEF Places
  <2> QED
    BY <2>1, FS_Singleton
<1>4. CASE \E i \in DOMAIN reqlist : reqlist[i] = c
  <2>1. ~InCalls /\ Current # c /\ c \notin lost
    BY <1>0, <1>1, <1>4 DEF Places
  <2> QED
    BY <1>0, <1>3, <1>4, <2>1
<1>5. CASE (\A i \in DOMAIN reqlist : reqlist[i] # c) /\ Current = c
  <2>1. ~InCalls /\ c \notin lost
    BY <1>0, <1>1, <1>5 DEF Places
  <2> QED
    BY <1>0, <1>2, <1>5, <2>1
<1>6. CASE (\A i \in DOMAIN reqlist : reqlist[i] # c) /\ Current # c
  <2>1. InCalls <=> c \notin lost
    BY <1>0, <1>1, <1>6 DEF Places
  <2> QED
    BY <1>0, <1>2, <1>6, <2>1
<1> QED
  BY <1>4, <1>5, <1>6

\* A request that waits is on its way to the window, in its list, or on
\* display, and only once, unless the window has not opened for it: no step of
\* smartreq_requesta, MM_SmartReq_Enqueue and MM_SmartReq_Change loses or doubles
\* it otherwise, however many ask and whatever else fails, until a second press
\* is made while the next requester may not come (hasty).
THEOREM RequestsTracked == Spec => []EachTracked
  BY InvTracked, InvHolds, PTL

\* The main task does not block for ever in the reply to a thread that has
\* gone, and a thread that gets an answer is the one whose requester is on
\* display: however often the requesters are pressed, as long as a second press
\* is made only while the next one waits and has no files to compare, and opens.
THEOREM AnswersAreShown == Spec => []AnswersShown
<1>1. Inv => AnswersShown
  BY Apart DEF Inv, InOrder, OnDisplay, AnswersShown
<1> QED
  BY <1>1, InvHolds, PTL

\* The thread that compares two files is about the requester on display, whose
\* thread still waits, under the same condition and unless the window has not
\* opened for a request with files.
THEOREM ExaminesAreShown == Spec => []ExaminesShown
<1>1. Inv => ExaminesShown
  <2> SUFFICES ASSUME Inv, ~hasty, lost \cap Replaces = {}, NEW e \in examining
               PROVE  e = [of |-> shown, counter |-> counter] /\ client[e.of] = "waiting"
    BY DEF ExaminesShown
  <2>1. running /\ shown # NULL /\ e = [of |-> shown, counter |-> counter]
    BY DEF Inv, InOrder, Compared, Comparing
  <2>2. e.of = shown /\ main \in {"free", "semaphore"}
    BY <2>1, InvParts DEF Inv, InOrder, OnDisplay
  <2> QED
    BY <2>1, <2>2 DEF Inv, InOrder, OnDisplay
<1> QED
  BY <1>1, InvHolds, PTL
=============================================================================
