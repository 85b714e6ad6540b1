-------------------------- MODULE ThreadPoolProofs --------------------------
(***************************************************************************)
(* Theorems about ThreadPool, for any number of threads, objects, actions  *)
(* and any bounds.                                                         *)
(***************************************************************************)
EXTENDS ThreadPool, TLAPS

\* A job that reports to an object has an action ID.
Acted == \A t \in Threads : destobj[t] # NULL => action[t] \in Actions

\* Threads are made in the order of their numbers; one that is not made yet
\* has neither a node nor a message.
Numbered ==
  /\ \A t \in Threads : pc[t] = "new" <=> t > thread_num
  /\ \A t \in Threads : pc[t] = "new" => ~Listed(t) /\ ~inbox[t]

\* The message threads_handle is at.
Handled ==
  /\ cur.at = "none" => cur.msg = NULL
  /\ cur.at # "none" => cur.msg \in Reply /\ Listed(cur.msg.t)
  /\ cur.at = "finished" => cur.msg.k = "job"

\* The start message is the last one of its thread.
StartsLast ==
  /\ \A i \in DOMAIN threadport : threadport[i].k = "start" =>
       /\ pc[threadport[i].t] = "dead"
       /\ \A j \in DOMAIN threadport : j > i => threadport[j].t # threadport[i].t
  /\ cur.at # "none" /\ cur.msg.k = "start" =>
       /\ pc[cur.msg.t] = "dead"
       /\ \A i \in DOMAIN threadport : threadport[i].t # cur.msg.t

\* A node has one job: in the port of its thread, at work, or replied.
Working(t) == pc[t] \in {"job", "asleep"}
OneJob ==
  /\ \A i, j \in DOMAIN threadport :
       threadport[i].k = "job" /\ threadport[j].k = "job"
         /\ threadport[i].t = threadport[j].t => i = j
  /\ cur.at = "finished" =>
       \A i \in DOMAIN threadport :
         threadport[i].k = "job" => threadport[i].t # cur.msg.t
  /\ \A t \in Threads : inbox[t] => ~Working(t) /\ ~Replied(t)
  /\ \A t \in Threads : Working(t) => ~Replied(t)

Pool == Numbered /\ Handled /\ NodesLive /\ StartsLast /\ OneJob /\ IdleHasNoJob
IInv == TypeOK /\ Acted /\ Pool

-----------------------------------------------------------------------------
(* Sequences: a node or a message is added or taken away.                  *)

LEMMA AppendEntries ==
  ASSUME NEW S, NEW s \in Seq(S), NEW e \in S
  PROVE  /\ Append(s, e) \in Seq(S)
         /\ Len(s) \in Nat /\ DOMAIN s = 1..Len(s)
         /\ DOMAIN Append(s, e) = 1..(Len(s) + 1)
         /\ \A i \in DOMAIN s : Append(s, e)[i] = s[i]
         /\ Append(s, e)[Len(s) + 1] = e
  OBVIOUS

LEMMA TailEntries ==
  ASSUME NEW S, NEW s \in Seq(S), s # <<>>
  PROVE  /\ Tail(s) \in Seq(S) /\ Head(s) \in S
         /\ Len(s) \in Nat /\ Len(s) >= 1 /\ DOMAIN s = 1..Len(s)
         /\ DOMAIN Tail(s) = 1..(Len(s) - 1)
         /\ \A i \in DOMAIN Tail(s) : i + 1 \in DOMAIN s /\ Tail(s)[i] = s[i + 1]
         /\ Head(s) = s[1] /\ 1 \in DOMAIN s
  OBVIOUS

LEMMA WithoutType ==
  ASSUME NEW S, NEW s \in Seq(S), NEW i
  PROVE  Without(s, i) \in Seq(S)
<1>1. Len(s) \in Nat /\ \A j \in 1..Len(s) : s[j] \in S
  OBVIOUS
<1>2. CASE Len(s) = 0
  <2>1. 1..(Len(s) - 1) = 1..0
    BY <1>2
  <2>2. Without(s, i) \in [1..0 -> S]
    BY <1>2, <2>1 DEF Without
  <2> QED
    BY <2>2
<1>3. CASE Len(s) >= 1
  <2>1. Len(s) - 1 \in Nat
    BY <1>1, <1>3
  <2>2. \A j \in 1..(Len(s) - 1) : j \in 1..Len(s) /\ j + 1 \in 1..Len(s)
    BY <1>1
  <2>3. Without(s, i) \in [1..(Len(s) - 1) -> S]
    BY <1>1, <2>2 DEF Without
  <2> QED
    BY <2>1, <2>3
<1> QED
  BY <1>1, <1>2, <1>3

\* The entry at i is taken out, the others keep their order.
LEMMA WithoutEntries ==
  ASSUME NEW S, NEW s \in Seq(S), NEW i \in DOMAIN s
  PROVE  /\ Len(Without(s, i)) = Len(s) - 1
         /\ DOMAIN Without(s, i) = 1..(Len(s) - 1)
         /\ \A j \in DOMAIN Without(s, i) :
              \/ j < i /\ j \in DOMAIN s /\ Without(s, i)[j] = s[j]
              \/ j >= i /\ j + 1 \in DOMAIN s /\ Without(s, i)[j] = s[j + 1]
         /\ \A j \in DOMAIN s : j < i => j \in DOMAIN Without(s, i)
         /\ \A j \in DOMAIN s : j > i => j - 1 \in DOMAIN Without(s, i)
<1>1. Len(s) \in Nat /\ DOMAIN s = 1..Len(s) /\ Len(s) >= 1 /\ i \in 1..Len(s)
  OBVIOUS
<1>2. DOMAIN Without(s, i) = 1..(Len(s) - 1)
  BY DEF Without
<1>3. Len(Without(s, i)) = Len(s) - 1
  <2> DEFINE q == Without(s, i)
  <2>1. q \in Seq(S)
    BY WithoutType
  <2>2. DOMAIN q = 1..(Len(s) - 1)
    BY <1>2
  <2> HIDE DEF q
  <2>3. Len(q) \in Nat /\ DOMAIN q = 1..Len(q)
    BY <2>1
  <2>4. ASSUME NEW a \in Nat, NEW b \in Nat, 1..a = 1..b
        PROVE  a = b
    <3>1. a <= b
      <4>1. a = 0 \/ a \in 1..b
        BY <2>4
      <4> QED
        BY <4>1
    <3>2. b <= a
      <4>1. b = 0 \/ b \in 1..a
        BY <2>4
      <4> QED
        BY <4>1
    <3> QED
      BY <3>1, <3>2
  <2>5. Len(q) = Len(s) - 1
    <3> DEFINE k == Len(s) - 1
    <3>1. k \in Nat
      BY <1>1
    <3>2. 1..Len(q) = 1..k
      BY <2>2, <2>3
    <3> HIDE DEF k
    <3>3. Len(q) = k
      BY <2>3, <2>4, <3>1, <3>2
    <3> QED
      BY <3>3 DEF k
  <2> QED
    BY <2>5 DEF q
<1>4. ASSUME NEW j \in DOMAIN Without(s, i)
      PROVE  \/ j < i /\ j \in DOMAIN s /\ Without(s, i)[j] = s[j]
             \/ j >= i /\ j + 1 \in DOMAIN s /\ Without(s, i)[j] = s[j + 1]
  BY <1>1, <1>2 DEF Without
<1> QED
  BY <1>1, <1>2, <1>3, <1>4

LEMMA ReplyFields ==
  ASSUME NEW m \in Reply
  PROVE  m.t \in Threads /\ m.k \in {"job", "start"}
  BY DEF Reply

LEMMA MessageFields ==
  ASSUME TypeOK, NEW i \in DOMAIN threadport
  PROVE  threadport[i] \in Reply /\ threadport[i].t \in Threads
         /\ threadport[i].k \in {"job", "start"}
<1>1. threadport \in Seq(Reply)
  BY DEF TypeOK
<1>2. threadport[i] \in Reply
  BY <1>1
<1> QED
  BY <1>2, ReplyFields

LEMMA ReplyMade ==
  ASSUME NEW t \in Threads, NEW status \in Status
  PROVE  /\ [k |-> "job", t |-> t, status |-> status] \in Reply
         /\ [k |-> "start", t |-> t, status |-> "done"] \in Reply
  BY DEF Reply

LEMMA ListedThread ==
  ASSUME TypeOK, NEW i \in DOMAIN threadlist
  PROVE  threadlist[i] \in Threads
<1>1. threadlist \in Seq(Threads)
  BY DEF TypeOK
<1> QED
  BY <1>1

-----------------------------------------------------------------------------
(* The steps, by what they do to nodes and messages.                       *)

\* Nothing of it changes; threads_abort, threads_reclaim, threads_finish.
LEMMA PoolUnchanged ==
  ASSUME Pool, UNCHANGED <<threadlist, threadcnt, thread_num, state, threadport,
                           cur, pc, inbox>>
  PROVE  Pool'
  BY DEF Pool, Numbered, Handled, NodesLive, StartsLast, OneJob, IdleHasNoJob,
         Listed, Working, HasJob, Replied

\* A thread goes on with the job it has, or without one.
LEMMA ThreadMoves ==
  ASSUME TypeOK, Pool, NEW t \in Threads, NEW to, pc' = [pc EXCEPT ![t] = to],
         pc[t] \notin {"new", "dead"}, to \notin {"new", "dead"},
         pc[t] \in {"job", "asleep"} <=> to \in {"job", "asleep"},
         \A u \in Threads : state'[u] = "idle" => state[u] = "idle",
         UNCHANGED <<threadlist, threadcnt, thread_num, threadport, cur, inbox>>
  PROVE  Pool'
<1>1. \A u \in Threads : /\ pc'[u] = "new" <=> pc[u] = "new"
                         /\ pc'[u] = "dead" <=> pc[u] = "dead"
                         /\ Working(u)' <=> Working(u)
  BY DEF TypeOK, Working
<1>2. /\ \A u : Listed(u)' <=> Listed(u)
      /\ \A u : Replied(u)' <=> Replied(u)
  BY DEF Listed, Replied
<1>3. \A u \in Threads : HasJob(u)' <=> HasJob(u)
  BY <1>1, <1>2 DEF HasJob, Working
<1>4. Numbered' /\ Handled'
  BY <1>1, <1>2 DEF Pool, Numbered, Handled
<1>5. NodesLive'
  BY <1>1, <1>2 DEF Pool, NodesLive
<1>6. StartsLast'
  <2>1. cur.at # "none" => cur.msg.t \in Threads
    BY ReplyFields DEF Pool, Handled
  <2> QED
    BY <1>1, <2>1, MessageFields DEF Pool, StartsLast
<1>7. OneJob' /\ IdleHasNoJob'
  BY <1>1, <1>2, <1>3 DEF Pool, OneJob, IdleHasNoJob
<1> QED
  BY <1>4, <1>5, <1>6, <1>7 DEF Pool

\* A node that is not free becomes busy: thread_signal.
LEMMA BusyAgain ==
  ASSUME TypeOK, Pool, \A u \in Threads : state'[u] = "idle" => state[u] = "idle",
         UNCHANGED <<threadlist, threadcnt, thread_num, threadport, cur, pc, inbox>>
  PROVE  Pool'
<1>1. \A u : /\ Listed(u)' <=> Listed(u)
             /\ HasJob(u)' <=> HasJob(u)
             /\ Replied(u)' <=> Replied(u)
             /\ Working(u)' <=> Working(u)
  BY DEF Listed, HasJob, Replied, Working
<1> QED
  BY <1>1 DEF Pool, Numbered, Handled, NodesLive, StartsLast, OneJob, IdleHasNoJob

\* The thread takes the job out of its port.
LEMMA JobTaken ==
  ASSUME TypeOK, Pool, NEW t \in Threads, ThreadGetsJob(t)
  PROVE  Pool'
<1>1. /\ inbox[t] /\ pc[t] = "drain" /\ pc'[t] = "job" /\ ~inbox'[t]
      /\ \A u \in Threads : u # t => pc'[u] = pc[u] /\ inbox'[u] = inbox[u]
      /\ UNCHANGED <<threadlist, threadcnt, thread_num, state, threadport, cur>>
  BY DEF ThreadGetsJob, Goto, TypeOK, list, node
<1>2. /\ \A u : Listed(u)' <=> Listed(u)
      /\ \A u : Replied(u)' <=> Replied(u)
  BY <1>1 DEF Listed, Replied
<1>3. \A u \in Threads : /\ pc'[u] = "new" <=> pc[u] = "new"
                         /\ pc'[u] = "dead" <=> pc[u] = "dead"
                         /\ inbox'[u] => inbox[u]
                         /\ u # t => (Working(u)' <=> Working(u))
  BY <1>1 DEF Working
<1>4. \A u \in Threads : HasJob(u)' => HasJob(u)
  BY <1>1, <1>2, <1>3 DEF HasJob, Working
<1>5. Numbered' /\ Handled'
  BY <1>1, <1>2, <1>3 DEF Pool, Numbered, Handled
<1>6. NodesLive'
  BY <1>1, <1>2, <1>3 DEF Pool, NodesLive
<1>7. StartsLast'
  <2>1. cur.at # "none" => cur.msg.t \in Threads
    BY ReplyFields DEF Pool, Handled
  <2> QED
    BY <1>1, <1>3, <2>1, MessageFields DEF Pool, StartsLast
<1>8. OneJob'
  BY <1>1, <1>2, <1>3 DEF Pool, OneJob
<1>9. IdleHasNoJob'
  BY <1>1, <1>2, <1>4 DEF Pool, IdleHasNoJob
<1> QED
  BY <1>5, <1>6, <1>7, <1>8, <1>9 DEF Pool

\* The job is replied, done or not.
LEMMA JobReplied ==
  ASSUME TypeOK, Pool, NEW t \in Threads, NEW status \in Status,
         ReplyMsg(t, "job", status), pc[t] \notin {"new", "dead"},
         \/ /\ Working(t) /\ pc' = [pc EXCEPT ![t] = "drain"]
            /\ UNCHANGED inbox
         \/ /\ inbox[t] /\ inbox' = [inbox EXCEPT ![t] = FALSE]
            /\ UNCHANGED pc,
         UNCHANGED <<threadlist, threadcnt, thread_num, state, cur>>
  PROVE  Pool'
<1> DEFINE m == [k |-> "job", t |-> t, status |-> status]
           n == Len(threadport) + 1
<1>1. m \in Reply /\ threadport \in Seq(Reply) /\ m.k = "job" /\ m.t = t
  BY ReplyMade DEF TypeOK
<1>2. threadport' = Append(threadport, m)
  BY DEF ReplyMsg
<1> HIDE DEF m
<1>3. /\ Len(threadport) \in Nat /\ DOMAIN threadport = 1..Len(threadport)
      /\ DOMAIN threadport' = 1..n
      /\ \A i \in DOMAIN threadport : threadport'[i] = threadport[i]
      /\ threadport'[n] = m
  BY <1>1, <1>2, AppendEntries
<1>4. /\ ~Working(t)' /\ ~inbox'[t] /\ (pc'[t] \notin {"new", "dead"})
      /\ \A u \in Threads : u # t => pc'[u] = pc[u] /\ inbox'[u] = inbox[u]
  BY DEF TypeOK, Working, Pool, OneJob
<1>5. Listed(t) /\ ~Replied(t)
  BY DEF Pool, NodesLive, OneJob
<1>6. \A u : Listed(u)' <=> Listed(u)
  BY DEF Listed
<1>7. \A u : u # t => (Replied(u)' <=> Replied(u))
  BY <1>1, <1>3 DEF Replied
<1>8. \A u \in Threads : /\ pc'[u] = "new" <=> pc[u] = "new"
                         /\ pc'[u] = "dead" <=> pc[u] = "dead"
                         /\ u # t => (Working(u)' <=> Working(u))
  BY <1>4 DEF Working
<1>9. Numbered' /\ Handled'
  BY <1>4, <1>6, <1>8 DEF Pool, Numbered, Handled
<1>10. NodesLive'
  <2>1. \A i \in DOMAIN threadport' : Listed(threadport'[i].t)
    <3>1. ASSUME NEW i \in DOMAIN threadport'
          PROVE  Listed(threadport'[i].t)
      <4>1. CASE i \in DOMAIN threadport
        BY <1>3, <4>1 DEF Pool, NodesLive
      <4>2. CASE i = n
        BY <1>1, <1>3, <1>5, <4>2
      <4> QED
        BY <1>3, <4>1, <4>2
    <3> QED
      BY <3>1
  <2>2. (\A i \in DOMAIN threadport : Listed(threadport[i].t))'
    BY <2>1 DEF Listed
  <2> QED
    BY <1>6, <1>8, <2>2 DEF Pool, NodesLive
<1>11. StartsLast'
  <2>1. cur.at # "none" => cur.msg.t \in Threads
    BY ReplyFields DEF Pool, Handled
  <2>2. \A i \in DOMAIN threadport : threadport[i].k = "start" => threadport[i].t # t
    BY DEF Pool, StartsLast
  <2>3. ASSUME NEW i \in DOMAIN threadport', threadport'[i].k = "start"
        PROVE  /\ pc'[threadport'[i].t] = "dead"
               /\ \A j \in DOMAIN threadport' : j > i => threadport'[j].t # threadport'[i].t
    <3>1. i \in DOMAIN threadport
      BY <1>1, <1>3, <2>3
    <3>2. pc'[threadport[i].t] = "dead"
      BY <1>3, <1>8, <2>3, <3>1, MessageFields DEF Pool, StartsLast
    <3>3. ASSUME NEW j \in DOMAIN threadport', j > i
          PROVE  threadport'[j].t # threadport[i].t
      BY <1>1, <1>3, <2>2, <2>3, <3>1, <3>3 DEF Pool, StartsLast
    <3> QED
      BY <1>3, <3>1, <3>2, <3>3
  <2>4. ASSUME cur.at # "none", cur.msg.k = "start"
        PROVE  /\ pc'[cur.msg.t] = "dead"
               /\ \A i \in DOMAIN threadport' : threadport'[i].t # cur.msg.t
    <3>1. pc[cur.msg.t] = "dead" /\ cur.msg.t # t
      BY <2>4 DEF Pool, StartsLast
    <3> QED
      BY <1>1, <1>3, <1>8, <2>1, <2>4, <3>1 DEF Pool, StartsLast
  <2> QED
    BY <2>3, <2>4 DEF StartsLast
<1>12. OneJob'
  <2>1. \A i \in DOMAIN threadport : threadport[i].k = "job" => threadport[i].t # t
    BY <1>5 DEF Replied
  <2>2. ASSUME NEW i \in DOMAIN threadport', NEW j \in DOMAIN threadport',
               threadport'[i].k = "job", threadport'[j].k = "job",
               threadport'[i].t = threadport'[j].t
        PROVE  i = j
    BY <1>1, <1>3, <2>1, <2>2 DEF Pool, OneJob
  <2>3. cur.at = "finished" => cur.msg.t # t
    BY <1>5 DEF Replied
  <2>4. cur.at = "finished" =>
          \A i \in DOMAIN threadport' :
            threadport'[i].k = "job" => threadport'[i].t # cur.msg.t
    BY <1>1, <1>3, <2>3 DEF Pool, OneJob
  <2>5. \A u \in Threads : /\ inbox'[u] => ~Working(u)' /\ ~Replied(u)'
                           /\ Working(u)' => ~Replied(u)'
    BY <1>4, <1>7, <1>8 DEF Pool, OneJob
  <2> QED
    BY <2>2, <2>4, <2>5 DEF OneJob
<1>13. IdleHasNoJob'
  <2>1. state[t] # "idle"
    BY <1>5 DEF Pool, IdleHasNoJob, HasJob, Working
  <2>2. \A u \in Threads : u # t => (HasJob(u)' <=> HasJob(u))
    BY <1>4, <1>7, <1>8 DEF HasJob, Working
  <2> QED
    BY <1>6, <2>1, <2>2 DEF Pool, IdleHasNoJob
<1> QED
  BY <1>9, <1>10, <1>11, <1>12, <1>13 DEF Pool

\* The process of a thread has ended.
LEMMA ThreadEnded ==
  ASSUME TypeOK, Pool, NEW t \in Threads, ThreadEnds(t)
  PROVE  Pool'
<1> DEFINE m == [k |-> "start", t |-> t, status |-> "done"]
           n == Len(threadport) + 1
<1>1. m \in Reply /\ threadport \in Seq(Reply) /\ m.k = "start" /\ m.t = t
  BY ReplyMade DEF TypeOK, Status
<1>2. /\ threadport' = Append(threadport, m) /\ pc[t] = "leaving"
      /\ pc' = [pc EXCEPT ![t] = "dead"]
      /\ UNCHANGED <<threadlist, threadcnt, thread_num, state, cur, inbox>>
  BY DEF ThreadEnds, ReplyMsg, Goto, list, node
<1> HIDE DEF m
<1>3. /\ Len(threadport) \in Nat /\ DOMAIN threadport = 1..Len(threadport)
      /\ DOMAIN threadport' = 1..n
      /\ \A i \in DOMAIN threadport : threadport'[i] = threadport[i]
      /\ threadport'[n] = m
  BY <1>1, <1>2, AppendEntries
<1>4. pc'[t] = "dead" /\ \A u \in Threads : u # t => pc'[u] = pc[u]
  BY <1>2 DEF TypeOK
<1>5. /\ \A u : Listed(u)' <=> Listed(u)
      /\ \A u : Replied(u)' <=> Replied(u)
  BY <1>1, <1>2, <1>3 DEF Listed, Replied
<1>6. \A u \in Threads : /\ pc'[u] = "new" <=> pc[u] = "new"
                         /\ pc[u] = "dead" => pc'[u] = "dead"
                         /\ Working(u)' <=> Working(u)
                         /\ HasJob(u)' <=> HasJob(u)
  BY <1>2, <1>4, <1>5 DEF Working, HasJob
<1>7. Listed(t)
  BY <1>2 DEF Pool, NodesLive
<1>8. Numbered' /\ Handled'
  BY <1>2, <1>5, <1>6 DEF Pool, Numbered, Handled
<1>9. NodesLive'
  <2>1. ASSUME NEW i \in DOMAIN threadport'
        PROVE  Listed(threadport'[i].t)
    <3>1. CASE i \in DOMAIN threadport
      BY <1>3, <3>1 DEF Pool, NodesLive
    <3>2. CASE i = n
      BY <1>1, <1>3, <1>7, <3>2
    <3> QED
      BY <1>3, <3>1, <3>2
  <2>2. (\A i \in DOMAIN threadport : Listed(threadport[i].t))'
    BY <1>2, <2>1 DEF Listed
  <2>3. \A u \in Threads : pc'[u] \notin {"new", "dead"} => Listed(u)
    BY <1>4 DEF Pool, NodesLive
  <2> QED
    BY <1>2, <1>5, <2>2, <2>3 DEF Pool, NodesLive
<1>10. StartsLast'
  <2>1. cur.at # "none" => cur.msg.t \in Threads
    BY ReplyFields DEF Pool, Handled
  <2>2. \A i \in DOMAIN threadport : threadport[i].k = "start" => threadport[i].t # t
    BY <1>2 DEF Pool, StartsLast
  <2>3. ASSUME NEW i \in DOMAIN threadport', threadport'[i].k = "start"
        PROVE  /\ pc'[threadport'[i].t] = "dead"
               /\ \A j \in DOMAIN threadport' : j > i => threadport'[j].t # threadport'[i].t
    <3>1. CASE i \in DOMAIN threadport
      <4>1. pc'[threadport[i].t] = "dead"
        BY <1>3, <1>6, <2>3, <3>1, MessageFields DEF Pool, StartsLast
      <4>2. ASSUME NEW j \in DOMAIN threadport', j > i
            PROVE  threadport'[j].t # threadport[i].t
        BY <1>1, <1>3, <2>2, <2>3, <3>1, <4>2 DEF Pool, StartsLast
      <4> QED
        BY <1>3, <3>1, <4>1, <4>2
    <3>2. CASE i = n
      BY <1>1, <1>3, <1>4, <3>2
    <3> QED
      BY <1>3, <3>1, <3>2
  <2>4. ASSUME cur.at # "none", cur.msg.k = "start"
        PROVE  /\ pc'[cur.msg.t] = "dead"
               /\ \A i \in DOMAIN threadport' : threadport'[i].t # cur.msg.t
    <3>1. pc[cur.msg.t] = "dead" /\ cur.msg.t # t
      BY <1>2, <2>4 DEF Pool, StartsLast
    <3> QED
      BY <1>1, <1>3, <1>6, <2>1, <2>4, <3>1 DEF Pool, StartsLast
  <2> QED
    BY <1>2, <2>3, <2>4 DEF StartsLast
<1>11. OneJob'
  <2>1. ASSUME NEW i \in DOMAIN threadport', NEW j \in DOMAIN threadport',
               threadport'[i].k = "job", threadport'[j].k = "job",
               threadport'[i].t = threadport'[j].t
        PROVE  i = j
    BY <1>1, <1>3, <2>1 DEF Pool, OneJob
  <2>2. cur.at = "finished" =>
          \A i \in DOMAIN threadport' :
            threadport'[i].k = "job" => threadport'[i].t # cur.msg.t
    BY <1>1, <1>3 DEF Pool, OneJob
  <2> QED
    BY <1>2, <1>5, <1>6, <2>1, <2>2 DEF Pool, OneJob
<1>12. IdleHasNoJob'
  BY <1>2, <1>5, <1>6 DEF Pool, IdleHasNoJob
<1> QED
  BY <1>8, <1>9, <1>10, <1>11, <1>12 DEF Pool

\* A job, or in want of memory nothing, goes to a free node.
LEMMA NodeTaken ==
  ASSUME TypeOK, Pool, NEW t \in Threads, FirstIdle(t), Take(t),
         inbox' = inbox \/ inbox' = [inbox EXCEPT ![t] = TRUE],
         UNCHANGED <<threadlist, threadcnt, thread_num, threadport, cur, pc>>
  PROVE  Pool'
<1>1. Listed(t) /\ state[t] = "idle" /\ ~HasJob(t)
  BY DEF FirstIdle, Listed, Pool, IdleHasNoJob
<1>2. /\ state'[t] = "busy" /\ \A u \in Threads : u # t => state'[u] = state[u]
      /\ \A u \in Threads : u # t => inbox'[u] = inbox[u]
  BY DEF TypeOK, Take
<1>3. \A u : /\ Listed(u)' <=> Listed(u)
             /\ Replied(u)' <=> Replied(u)
             /\ Working(u)' <=> Working(u)
  BY DEF Listed, Replied, Working
<1>4. Numbered' /\ Handled' /\ NodesLive' /\ StartsLast'
  BY <1>1, <1>2, <1>3 DEF Pool, Numbered, Handled, NodesLive, StartsLast
<1>5. OneJob'
  BY <1>1, <1>2, <1>3 DEF Pool, OneJob, HasJob, Working
<1>6. IdleHasNoJob'
  BY <1>2, <1>3 DEF Pool, IdleHasNoJob, HasJob
<1> QED
  BY <1>4, <1>5, <1>6 DEF Pool

\* It goes to a new one: create_thread.
LEMMA NodeMade ==
  ASSUME TypeOK, Pool, NEW t \in Threads, Create(t), Take(t),
         inbox' = inbox \/ inbox' = [inbox EXCEPT ![t] = TRUE],
         UNCHANGED <<threadport, cur>>
  PROVE  Pool'
<1>1. /\ t = thread_num + 1 /\ thread_num' = t /\ thread_num \in Int
      /\ threadlist \in Seq(Threads)
      /\ threadlist' = Append(threadlist, t) /\ threadcnt' = threadcnt + 1
  BY DEF Create, TypeOK
<1>2. /\ Len(threadlist) \in Nat /\ DOMAIN threadlist = 1..Len(threadlist)
      /\ threadlist' \in Seq(Threads)
      /\ DOMAIN threadlist' = 1..(Len(threadlist) + 1)
      /\ \A i \in DOMAIN threadlist : threadlist'[i] = threadlist[i]
      /\ threadlist'[Len(threadlist) + 1] = t
      /\ Len(threadlist') = Len(threadlist) + 1
  BY <1>1, AppendEntries
<1>3. t > thread_num
  BY <1>1
<1>4. pc[t] = "new" /\ ~Listed(t) /\ ~inbox[t]
  BY <1>3 DEF Pool, Numbered
<1>5. ~Replied(t) /\ (cur.at # "none" => cur.msg.t # t)
      /\ \A i \in DOMAIN threadport : threadport[i].t # t
  BY <1>4 DEF Pool, NodesLive, Handled, Replied
<1>6. /\ pc'[t] = "clear" /\ \A u \in Threads : u # t => pc'[u] = pc[u]
      /\ \A u \in Threads : u # t => inbox'[u] = inbox[u]
      /\ state'[t] = "busy" /\ \A u \in Threads : u # t => state'[u] = state[u]
  BY DEF Create, Take, TypeOK
<1>7. \A u : /\ Listed(u)' <=> Listed(u) \/ u = t
             /\ Replied(u)' <=> Replied(u)
  <2>1. \A u : Replied(u)' <=> Replied(u)
    BY DEF Replied
  <2>2. ASSUME NEW u, Listed(u)'
        PROVE  Listed(u) \/ u = t
    BY <1>2, <2>2 DEF Listed
  <2>3. ASSUME NEW u, Listed(u)
        PROVE  Listed(u)'
    BY <1>2, <2>3 DEF Listed
  <2>4. Len(threadlist) + 1 \in DOMAIN threadlist'
    BY <1>2
  <2>5. ASSUME NEW u, u = t
        PROVE  Listed(u)'
    BY <1>2, <2>4, <2>5 DEF Listed
  <2> QED
    BY <2>1, <2>2, <2>3, <2>5
<1>8. Numbered'
  <2>1. ASSUME NEW u \in Threads
        PROVE  /\ pc'[u] = "new" <=> u > thread_num'
               /\ pc'[u] = "new" => ~Listed(u)' /\ ~inbox'[u]
    <3>1. CASE u = t
      BY <1>1, <1>6, <3>1
    <3>2. CASE u # t
      BY <1>1, <1>6, <1>7, <3>2 DEF Pool, Numbered, Threads
    <3> QED
      BY <3>1, <3>2
  <2> QED
    BY <2>1 DEF Numbered
<1>9. Handled'
  BY <1>7 DEF Pool, Handled
<1>10. NodesLive'
  <2>1. ASSUME NEW i \in DOMAIN threadlist', NEW j \in DOMAIN threadlist',
               threadlist'[i] = threadlist'[j]
        PROVE  i = j
    BY <1>2, <1>4, <2>1 DEF Pool, NodesLive, Listed
  <2> QED
    BY <1>1, <1>2, <1>6, <1>7, <2>1 DEF Pool, NodesLive
<1>11. StartsLast'
  <2>1. cur.at # "none" => cur.msg.t \in Threads
    BY ReplyFields DEF Pool, Handled
  <2> QED
    BY <1>5, <1>6, <2>1, MessageFields DEF Pool, StartsLast
<1>12. \A u \in Threads : Working(u)' <=> Working(u)
  BY <1>4, <1>6 DEF Working
<1>13. OneJob'
  BY <1>4, <1>5, <1>6, <1>7, <1>12 DEF Pool, OneJob, Working
<1>14. IdleHasNoJob'
  <2>1. \A u \in Threads : u # t => (HasJob(u)' <=> HasJob(u))
    BY <1>6, <1>7 DEF HasJob
  <2> QED
    BY <1>6, <1>7, <2>1 DEF Pool, IdleHasNoJob
<1> QED
  BY <1>8, <1>9, <1>10, <1>11, <1>13, <1>14 DEF Pool

\* THREAD_MAX threads have been made.
LEMMA NoneMade ==
  ASSUME TypeOK, Pool, thread_num = THREAD_MAX, thread_num' = thread_num + 1,
         UNCHANGED <<threadlist, threadcnt, state, threadport, cur, pc, inbox>>
  PROVE  Pool'
<1>1. Numbered'
  BY ConstantsAssumption DEF Pool, Numbered, Threads, Listed
<1>2. (Handled /\ NodesLive /\ StartsLast /\ OneJob /\ IdleHasNoJob)'
  BY DEF Pool, Handled, NodesLive, StartsLast, OneJob, IdleHasNoJob, Listed,
         Working, HasJob, Replied
<1> QED
  BY <1>1, <1>2 DEF Pool

\* threads_handle gets a message.
LEMMA MessageGot ==
  ASSUME TypeOK, Pool, HandleGetMsg
  PROVE  Pool'
<1> DEFINE m == Head(threadport)
<1>1. /\ threadport \in Seq(Reply) /\ threadport # <<>>
      /\ threadport' = Tail(threadport) /\ cur.at = "none"
      /\ cur' = [at |-> IF m.k = "job" THEN "finished" ELSE "scan",
                 msg |-> m, i |-> 1, last |-> FALSE]
      /\ UNCHANGED <<threadlist, threadcnt, thread_num, state, pc, inbox>>
  BY DEF HandleGetMsg, TypeOK, list, node
<1>2. /\ m \in Reply
      /\ Len(threadport) \in Nat /\ Len(threadport) >= 1
      /\ DOMAIN threadport = 1..Len(threadport)
      /\ DOMAIN threadport' = 1..(Len(threadport) - 1)
      /\ \A i \in DOMAIN threadport' :
           i + 1 \in DOMAIN threadport /\ threadport'[i] = threadport[i + 1]
      /\ m = threadport[1] /\ 1 \in DOMAIN threadport
  BY <1>1, TailEntries
<1> HIDE DEF m
<1>3. cur'.at # "none" /\ cur'.msg = m /\ (cur'.at = "finished" <=> m.k = "job")
  BY <1>1
<1>4. m.t \in Threads /\ m.k \in {"job", "start"} /\ Listed(m.t)
  BY <1>2, ReplyFields DEF Pool, NodesLive
<1>5. \A u : /\ Listed(u)' <=> Listed(u)
             /\ Working(u)' <=> Working(u)
  BY <1>1 DEF Listed, Working
<1>6. \A u : Replied(u)' => Replied(u)
  BY <1>1, <1>2, <1>3 DEF Replied
<1>7. Numbered' /\ Handled'
  <2>1. Listed(cur.msg.t)'
    BY <1>1, <1>3, <1>4 DEF Listed
  <2> QED
    BY <1>1, <1>2, <1>3, <1>5, <2>1 DEF Pool, Numbered, Handled
<1>8. NodesLive'
  <2>1. \A i \in DOMAIN threadport' : Listed(threadport'[i].t)
    BY <1>2 DEF Pool, NodesLive
  <2>2. (\A i \in DOMAIN threadport : Listed(threadport[i].t))'
    BY <1>1, <2>1 DEF Listed
  <2>3. Listed(cur.msg.t)'
    BY <1>1, <1>3, <1>4 DEF Listed
  <2> QED
    BY <1>1, <1>5, <2>2, <2>3 DEF Pool, NodesLive
<1>9. StartsLast'
  <2>1. ASSUME NEW i \in DOMAIN threadport', threadport'[i].k = "start"
        PROVE  /\ pc[threadport'[i].t] = "dead"
               /\ \A j \in DOMAIN threadport' : j > i => threadport'[j].t # threadport'[i].t
    <3>1. pc[threadport'[i].t] = "dead"
      BY <1>2, <2>1 DEF Pool, StartsLast
    <3>2. ASSUME NEW j \in DOMAIN threadport', j > i
          PROVE  threadport'[j].t # threadport'[i].t
      <4>1. j + 1 > i + 1
        BY <1>2, <3>2
      <4> QED
        BY <1>2, <2>1, <4>1 DEF Pool, StartsLast
    <3> QED
      BY <3>1, <3>2
  <2>2. ASSUME m.k = "start"
        PROVE  pc[m.t] = "dead" /\ \A i \in DOMAIN threadport' : threadport'[i].t # m.t
    <3>1. \A i \in DOMAIN threadport' : i + 1 > 1
      BY <1>2
    <3> QED
      BY <1>2, <2>2, <3>1 DEF Pool, StartsLast
  <2> QED
    BY <1>1, <1>3, <2>1, <2>2 DEF StartsLast
<1>10. OneJob'
  <2>1. ASSUME NEW i \in DOMAIN threadport', NEW j \in DOMAIN threadport',
               threadport'[i].k = "job", threadport'[j].k = "job",
               threadport'[i].t = threadport'[j].t
        PROVE  i = j
    <3>1. i + 1 = j + 1
      BY <1>2, <2>1 DEF Pool, OneJob
    <3> QED
      BY <1>2, <3>1
  <2>2. ASSUME m.k = "job", NEW i \in DOMAIN threadport', threadport'[i].k = "job"
        PROVE  threadport'[i].t # m.t
    <3>1. i + 1 # 1
      BY <1>2
    <3> QED
      BY <1>2, <2>2, <3>1 DEF Pool, OneJob
  <2> QED
    BY <1>1, <1>3, <1>5, <1>6, <2>1, <2>2 DEF Pool, OneJob
<1>11. IdleHasNoJob'
  BY <1>1, <1>5, <1>6 DEF Pool, IdleHasNoJob, HasJob
<1> QED
  BY <1>7, <1>8, <1>9, <1>10, <1>11 DEF Pool

\* MM_Thread_Finished has returned, and the node is free.
LEMMA NodeFreed ==
  ASSUME TypeOK, Pool, HandleFinished
  PROVE  Pool'
<1> DEFINE t == cur.msg.t
<1>1. /\ cur.at = "finished" /\ state' = [state EXCEPT ![t] = "idle"]
      /\ cur' = [cur EXCEPT !.at = "scan"]
      /\ UNCHANGED <<threadlist, threadcnt, thread_num, threadport, pc, inbox>>
  BY DEF HandleFinished, Free, Scan, list
<1>2. cur'.at = "scan" /\ cur'.msg = cur.msg
  BY <1>1 DEF TypeOK
<1>3. cur.msg.k = "job" /\ t \in Threads /\ Replied(t)
  BY <1>1, ReplyFields DEF Pool, Handled, Replied
<1>4. \A u : /\ Listed(u)' <=> Listed(u)
             /\ Working(u)' <=> Working(u)
             /\ Replied(u)' => Replied(u)
  BY <1>1, <1>2 DEF Listed, Working, Replied
<1>5. ~Replied(t)' /\ ~inbox[t] /\ ~Working(t)
  <2>1. ~Replied(t)'
    BY <1>1, <1>2, <1>3 DEF Pool, OneJob, Replied
  <2> QED
    BY <1>3, <2>1 DEF Pool, OneJob
<1>6. \A u \in Threads : u # t => state'[u] = state[u]
  BY <1>1 DEF TypeOK
<1>7. Numbered' /\ NodesLive'
  BY <1>1, <1>2, <1>4 DEF Pool, Numbered, NodesLive
<1>8. Handled'
  <2>1. Listed(cur.msg.t)'
    BY <1>1, <1>2, <1>4 DEF Pool, Handled, Listed
  <2> QED
    BY <1>1, <1>2, <1>4, <2>1 DEF Pool, Handled
<1>9. StartsLast' /\ OneJob'
  BY <1>1, <1>2, <1>3, <1>4 DEF Pool, StartsLast, OneJob
<1>10. IdleHasNoJob'
  <2>1. ASSUME NEW u \in Threads, Listed(u)', state'[u] = "idle"
        PROVE  ~HasJob(u)'
    <3>1. CASE u = t
      <4>1. pc[u] \notin {"job", "asleep"}
        BY <1>5, <3>1 DEF Working
      <4> HIDE DEF t
      <4>2. ~Replied(u)'
        BY <1>1, <1>2, <1>3, <3>1 DEF Pool, OneJob, Replied, t
      <4> QED
        BY <1>1, <1>5, <3>1, <4>1, <4>2 DEF HasJob
    <3>2. CASE u # t
      BY <1>1, <1>4, <1>6, <2>1, <3>2 DEF Pool, IdleHasNoJob, HasJob, Working
    <3> QED
      BY <3>1, <3>2
  <2> QED
    BY <2>1 DEF IdleHasNoJob
<1> QED
  BY <1>7, <1>8, <1>9, <1>10 DEF Pool

\* The signal_nodes are gone through.
LEMMA ScanGoesOn ==
  ASSUME TypeOK, Pool, HandleScan \/ HandleSent
  PROVE  Pool'
<1>1. /\ cur.at \in {"scan", "sent"} /\ cur'.at \in {"scan", "sent", "end"}
      /\ cur'.msg = cur.msg
  BY DEF HandleScan, HandleSent, TypeOK
<1>2. UNCHANGED <<threadlist, threadcnt, thread_num, state, threadport, pc, inbox>>
  BY DEF HandleScan, HandleSent, list, node
<1>3. \A u : /\ Listed(u)' <=> Listed(u)
             /\ Working(u)' <=> Working(u)
             /\ Replied(u)' <=> Replied(u)
  BY <1>1, <1>2 DEF Listed, Working, Replied
<1>4. Listed(cur.msg.t)'
  BY <1>1, <1>2 DEF Pool, Handled, Listed
<1> QED
  BY <1>1, <1>2, <1>3, <1>4
     DEF Pool, Numbered, Handled, NodesLive, StartsLast, OneJob, IdleHasNoJob, HasJob,
         Working

\* The node of a thread that has ended is taken off the list.
LEMMA NodeRemoved ==
  ASSUME TypeOK, Pool, HandleEnd
  PROVE  Pool'
<1> DEFINE t == cur.msg.t
<1>1. /\ cur.at \in {"end", "scan"} /\ cur' = NoMsg
      /\ UNCHANGED <<thread_num, state, threadport, pc, inbox>>
  BY DEF HandleEnd, node
<1>2. cur'.at = "none" /\ cur'.msg = NULL
  BY <1>1 DEF NoMsg
<1>3. \A u : /\ Working(u)' <=> Working(u)
             /\ Replied(u)' <=> Replied(u)
  BY <1>1, <1>2 DEF Working, Replied
<1>4. CASE cur.msg.k # "start"
  <2>1. UNCHANGED <<threadlist, threadcnt>>
    BY <1>4 DEF HandleEnd
  <2>2. \A u : Listed(u)' <=> Listed(u)
    BY <2>1 DEF Listed
  <2> QED
    BY <1>1, <1>2, <1>3, <2>1, <2>2
       DEF Pool, Numbered, Handled, NodesLive, StartsLast, OneJob, IdleHasNoJob, HasJob,
           Working
<1>5. CASE cur.msg.k = "start"
  <2> DEFINE x == IndexOf(t)
  <2>1. /\ threadlist' = Without(threadlist, x) /\ threadcnt' = threadcnt - 1
        /\ threadlist \in Seq(Threads)
    BY <1>5 DEF HandleEnd, TypeOK
  <2>2. x \in DOMAIN threadlist /\ threadlist[x] = t
    BY <1>1 DEF Pool, Handled, Listed, IndexOf
  <2> HIDE DEF x
  <2>3. /\ Len(threadlist') = Len(threadlist) - 1
        /\ DOMAIN threadlist' = 1..(Len(threadlist) - 1)
        /\ \A j \in DOMAIN threadlist' :
             \/ j < x /\ j \in DOMAIN threadlist /\ threadlist'[j] = threadlist[j]
             \/ j >= x /\ j + 1 \in DOMAIN threadlist /\ threadlist'[j] = threadlist[j + 1]
        /\ \A j \in DOMAIN threadlist : j < x => j \in DOMAIN threadlist'
        /\ \A j \in DOMAIN threadlist : j > x => j - 1 \in DOMAIN threadlist'
    BY <2>1, <2>2, WithoutEntries
  <2>4. /\ Len(threadlist) \in Nat /\ DOMAIN threadlist = 1..Len(threadlist)
        /\ x \in Int
    BY <2>1, <2>2
  <2>5. pc[t] = "dead" /\ \A i \in DOMAIN threadport : threadport[i].t # t
    BY <1>1, <1>5 DEF Pool, StartsLast
  <2> HIDE DEF t
  <2>6. ASSUME NEW u, Listed(u)'
        PROVE  Listed(u)
    BY <2>3, <2>6 DEF Listed
  <2>7. ASSUME NEW u, Listed(u), u # t
        PROVE  Listed(u)'
    <3>1. PICK j \in DOMAIN threadlist : threadlist[j] = u
      BY <2>7 DEF Listed
    <3>2. j # x /\ j \in Int
      BY <2>2, <2>4, <2>7, <3>1
    <3>3. CASE j < x
      BY <2>3, <3>1, <3>3, <2>4 DEF Listed
    <3>4. CASE j > x
      <4>1. j - 1 \in DOMAIN threadlist' /\ ~(j - 1 < x)
        BY <2>3, <2>4, <3>1, <3>2, <3>4
      <4>2. threadlist'[j - 1] = threadlist[j]
        BY <2>3, <2>4, <3>2, <4>1
      <4> QED
        BY <3>1, <4>1, <4>2 DEF Listed
    <3> QED
      BY <2>4, <3>2, <3>3, <3>4
  <2>8. Numbered' /\ Handled'
    BY <1>1, <1>2, <2>6 DEF Pool, Numbered, Handled
  <2>9. NodesLive'
    <3>1. ASSUME NEW i \in DOMAIN threadlist', NEW j \in DOMAIN threadlist',
                 threadlist'[i] = threadlist'[j]
          PROVE  i = j
      <4>1. PICK k \in {i, i + 1} : /\ k \in DOMAIN threadlist
                                    /\ threadlist'[i] = threadlist[k]
                                    /\ k = i <=> i < x
        BY <2>3, <2>4
      <4>2. PICK l \in {j, j + 1} : /\ l \in DOMAIN threadlist
                                    /\ threadlist'[j] = threadlist[l]
                                    /\ l = j <=> j < x
        BY <2>3, <2>4
      <4>3. k = l
        BY <3>1, <4>1, <4>2 DEF Pool, NodesLive
      <4> QED
        BY <2>3, <2>4, <4>1, <4>2, <4>3
    <3>2. \A u \in Threads : pc[u] \notin {"new", "dead"} => Listed(u)'
      BY <2>5, <2>7 DEF Pool, NodesLive
    <3>3. ASSUME NEW i \in DOMAIN threadport
          PROVE  Listed(threadport[i].t) /\ threadport[i].t # t
      BY <2>5 DEF Pool, NodesLive
    <3>4. (\A i \in DOMAIN threadport : Listed(threadport[i].t))'
      <4>1. \A i \in DOMAIN threadport : \E j \in DOMAIN threadlist' : threadlist'[j] = threadport[i].t
        BY <2>7, <3>3 DEF Listed
      <4> QED
        BY <1>1, <4>1 DEF Listed
    <3>5. threadcnt' = Len(threadlist')
      BY <2>1, <2>3 DEF Pool, NodesLive
    <3> QED
      BY <1>1, <1>2, <3>1, <3>2, <3>4, <3>5 DEF NodesLive
  <2>10. StartsLast' /\ OneJob'
    BY <1>1, <1>2, <1>3 DEF Pool, StartsLast, OneJob
  <2>11. IdleHasNoJob'
    BY <1>1, <1>3, <2>6 DEF Pool, IdleHasNoJob, HasJob
  <2> QED
    BY <2>8, <2>9, <2>10, <2>11 DEF Pool
<1> QED
  BY <1>4, <1>5

-----------------------------------------------------------------------------
(* The invariant.                                                          *)

LEMMA PoolKept ==
  ASSUME IInv, [Next]_vars
  PROVE  Pool'
<1> USE DEF IInv
<1>1. CASE UNCHANGED vars
  BY <1>1, PoolUnchanged DEF vars, list, node
<1>2. ASSUME Handle
      PROVE  Pool'
  BY <1>2, MessageGot, NodeFreed, ScanGoesOn, NodeRemoved DEF Handle
<1>3. ASSUME NEW o \in Objs \cup {NULL}, NEW a \in Actions, DoAction(o, a)
      PROVE  Pool'
  <2>1. PICK t \in Threads : /\ \/ FirstIdle(t) /\ UNCHANGED <<list, pc>>
                                \/ NoneIdle /\ Create(t)
                             /\ Assign(t, o, a)
    BY <1>3 DEF DoAction
  <2>2. Take(t) /\ inbox' = [inbox EXCEPT ![t] = TRUE] /\ UNCHANGED <<threadport, cur>>
    BY <1>3, <2>1 DEF DoAction, Assign
  <2>3. CASE FirstIdle(t) /\ UNCHANGED <<list, pc>>
    BY <2>2, <2>3, NodeTaken DEF list
  <2>4. CASE Create(t)
    BY <2>2, <2>4, NodeMade
  <2> QED
    BY <2>1, <2>3, <2>4
<1>4. ASSUME DoActionFails
      PROVE  Pool'
  <2>1. UNCHANGED <<threadport, cur, inbox>>
    BY <1>4 DEF DoActionFails
  <2>2. CASE thread_num = THREAD_MAX /\ thread_num' = thread_num + 1
             /\ UNCHANGED <<threadlist, threadcnt, pc, state>>
    BY <2>1, <2>2, NoneMade
  <2>3. ASSUME NEW t \in Threads, FirstIdle(t), UNCHANGED <<list, pc>>, Take(t)
        PROVE  Pool'
    BY <2>1, <2>3, NodeTaken DEF list
  <2>4. ASSUME NEW t \in Threads, Create(t), Take(t)
        PROVE  Pool'
    BY <2>1, <2>4, NodeMade
  <2> QED
    BY <1>4, <2>2, <2>3, <2>4 DEF DoActionFails
<1>5. ASSUME NEW o \in Objs, NEW ids \in AbortArgs, Abort(o, ids)
      PROVE  Pool'
  BY <1>5, PoolUnchanged DEF Abort, list, node
<1>6. ASSUME NEW t \in Threads, Wake(t) \/ Stop(t)
      PROVE  Pool'
  <2>1. /\ \A u \in Threads : state'[u] = "idle" => state[u] = "idle"
        /\ UNCHANGED <<threadlist, threadcnt, thread_num, threadport, cur, pc, inbox>>
    BY <1>6 DEF Wake, Stop, TypeOK, list
  <2> QED
    BY <2>1, BusyAgain
<1>7. ASSUME Reclaim \/ Quit
      PROVE  Pool'
  BY <1>7, PoolUnchanged DEF Reclaim, Quit, list, node
<1>8. ASSUME NEW t \in Threads, ThreadNext(t)
      PROVE  Pool'
  <2>1. CASE ThreadClears(t)
    <3>1. /\ pc[t] = "clear" /\ pc' = [pc EXCEPT ![t] = "wait"]
          /\ UNCHANGED <<threadlist, threadcnt, thread_num, state, threadport, cur, inbox>>
      BY <2>1 DEF ThreadClears, Goto, list, node
    <3> QED
      BY <3>1, ThreadMoves
  <2>2. CASE ThreadWakes(t)
    <3>1. PICK to \in {"drain", "lastdrain"} :
            /\ pc[t] = "wait" /\ pc' = [pc EXCEPT ![t] = to]
            /\ UNCHANGED <<threadlist, threadcnt, thread_num, state, threadport, cur,
                           inbox>>
      BY <2>2 DEF ThreadWakes, Goto, list, node
    <3> QED
      BY <3>1, ThreadMoves
  <2>3. CASE ThreadGetsJob(t)
    BY <2>3, JobTaken
  <2>4. CASE ThreadHasNoJob(t)
    <3>1. PICK to \in {"clear", "leaving"} :
            /\ pc[t] \in {"drain", "lastdrain"} /\ pc' = [pc EXCEPT ![t] = to]
            /\ UNCHANGED <<threadlist, threadcnt, thread_num, state, threadport, cur,
                           inbox>>
      BY <2>4 DEF ThreadHasNoJob, Goto, list, node
    <3> QED
      BY <3>1, ThreadMoves
  <2>5. CASE ThreadRefusesJob(t)
    BY <2>5, JobReplied DEF ThreadRefusesJob, Status, list, node
  <2>6. CASE JobReturns(t)
    BY <2>6, JobReplied DEF JobReturns, Goto, Working, Status, list, node
  <2>7. CASE JobAborts(t)
    BY <2>7, JobReplied DEF JobAborts, Goto, Working, Status, list, node
  <2>8. CASE JobSleeps(t)
    <3>1. /\ pc[t] = "job" /\ pc' = [pc EXCEPT ![t] = "asleep"]
          /\ \A u \in Threads : state'[u] = "idle" => state[u] = "idle"
          /\ UNCHANGED <<threadlist, threadcnt, thread_num, threadport, cur, inbox>>
      BY <2>8 DEF JobSleeps, Goto, TypeOK, list
    <3> QED
      BY <3>1, ThreadMoves
  <2>9. CASE JobWakes(t)
    <3>1. /\ pc[t] = "asleep" /\ pc' = [pc EXCEPT ![t] = "job"]
          /\ UNCHANGED <<threadlist, threadcnt, thread_num, state, threadport, cur, inbox>>
      BY <2>9 DEF JobWakes, Goto, list, node
    <3> QED
      BY <3>1, ThreadMoves
  <2>10. CASE ThreadEnds(t)
    BY <2>10, ThreadEnded
  <2> QED
    BY <1>8, <2>1, <2>2, <2>3, <2>4, <2>5, <2>6, <2>7, <2>8, <2>9, <2>10 DEF ThreadNext
<1> QED
  BY <1>1, <1>2, <1>3, <1>4, <1>5, <1>6, <1>7, <1>8 DEF Next, MethodNext

LEMMA RepliesTyped ==
  ASSUME TypeOK, NEW t \in Threads, NEW k, NEW status,
         [k |-> k, t |-> t, status |-> status] \in Reply, ReplyMsg(t, k, status)
  PROVE  threadport' \in Seq(Reply)
<1> DEFINE m == [k |-> k, t |-> t, status |-> status]
           R == Reply
<1>1. threadport' = Append(threadport, m) /\ m \in R /\ threadport \in Seq(R)
  BY DEF ReplyMsg, TypeOK
<1> HIDE DEF m, R
<1>2. threadport' \in Seq(R)
  BY <1>1
<1> QED
  BY <1>2 DEF R

LEMMA FinishedTyped ==
  ASSUME NEW o \in Objs, NEW ids \in SUBSET (Actions \cup {All, Garbage})
  PROVE  Finished(o, ids) \in SUBSET [obj: Objs, id: Actions \cup {All, Garbage}]
  BY DEF Finished

LEMMA HandleTyped ==
  ASSUME IInv, Handle
  PROVE  TypeOK' /\ Acted'
<1> USE DEF IInv
<1>1. CASE HandleGetMsg
  <2> DEFINE m == Head(threadport)
             R == Reply
  <2>1. /\ threadport \in Seq(R) /\ threadport # <<>>
        /\ threadport' = Tail(threadport) /\ note' = Report(m)
        /\ cur' = [at |-> IF m.k = "job" THEN "finished" ELSE "scan",
                   msg |-> m, i |-> 1, last |-> FALSE]
    BY <1>1 DEF HandleGetMsg, TypeOK
  <2> HIDE DEF R
  <2>2. m \in R /\ threadport' \in Seq(R)
    BY <2>1
  <2> USE DEF R
  <2> HIDE DEF m
  <2>3. note' \in SUBSET [obj: Objs, id: Actions \cup {All, Garbage}]
    <3>1. m.t \in Threads
      BY <2>2, ReplyFields
    <3>2. CASE destobj[m.t] = NULL
      BY <2>1, <3>2 DEF Report
    <3>3. CASE destobj[m.t] # NULL
      <4>1. destobj[m.t] \in Objs /\ action[m.t] \in Actions
        BY <3>1, <3>3 DEF TypeOK, Acted
      <4> QED
        BY <2>1, <4>1, FinishedTyped DEF Report
    <3> QED
      BY <3>2, <3>3
  <2>4. cur' \in [at: Handling, msg: R \cup {NULL}, i: Nat, last: BOOLEAN]
    BY <2>1, <2>2 DEF Handling
  <2> QED
    BY <1>1, <2>2, <2>3, <2>4 DEF HandleGetMsg, TypeOK, Acted, list, node, signals, counters
<1>2. CASE HandleFinished
  <2> DEFINE t == cur.msg.t
  <2>1. signalthreadlist' \in Seq(SignalNode)
    <3>1. signalthreadlist \in Seq(SignalNode)
      BY DEF TypeOK
    <3>2. PICK i : signalthreadlist' \in {Without(signalthreadlist, i), signalthreadlist}
      BY <1>2 DEF HandleFinished
    <3> QED
      BY <3>1, <3>2, WithoutType
  <2>2. t \in Threads
    BY <1>2, ReplyFields DEF HandleFinished, Pool, Handled
  <2>3. /\ destobj' = [destobj EXCEPT ![t] = NULL] /\ action' = action
        /\ state' = [state EXCEPT ![t] = "idle"]
        /\ cur' = [cur EXCEPT !.at = "scan"]
        /\ note' = {}
        /\ UNCHANGED <<list, threadport, pc, inbox, signals, quitting, asked, counters>>
    BY <1>2 DEF HandleFinished, Free, Scan
  <2> HIDE DEF t
  <2>4. Acted'
    BY <2>2, <2>3 DEF TypeOK, Acted
  <2>5. cur' \in [at: Handling, msg: Reply \cup {NULL}, i: Nat, last: BOOLEAN]
    <3> DEFINE M == Reply \cup {NULL}
    <3>1. cur \in [at: Handling, msg: M, i: Nat, last: BOOLEAN]
      BY DEF TypeOK
    <3> HIDE DEF M
    <3>2. cur' \in [at: Handling, msg: M, i: Nat, last: BOOLEAN]
      BY <2>3, <3>1 DEF Handling
    <3> QED
      BY <3>2 DEF M
  <2> QED
    BY <2>1, <2>2, <2>3, <2>4, <2>5 DEF TypeOK, list, signals, counters
<1>3. CASE HandleScan
  <2> DEFINE M == Reply \cup {NULL}
             sn == signalthreadlist[cur.i]
  <2>1. cur \in [at: Handling, msg: M, i: Nat, last: BOOLEAN]
    BY DEF TypeOK
  <2>2. sn \in SignalNode
    BY <1>3 DEF HandleScan, TypeOK
  <2>3. sn.obj \in Objs /\ sn.abort \in SUBSET Actions
    BY <2>2 DEF SignalNode
  <2> HIDE DEF M
  <2>4. cur' \in [at: Handling, msg: M, i: Nat, last: BOOLEAN]
    <3> DEFINE l == (cur.i = Len(signalthreadlist))
    <3>1. l \in BOOLEAN
      OBVIOUS
    <3>2. \/ cur' = [cur EXCEPT !.i = @ + 1]
          \/ cur' = [cur EXCEPT !.at = "sent", !.last = l]
      BY <1>3 DEF HandleScan
    <3> HIDE DEF l
    <3>3. CASE cur' = [cur EXCEPT !.i = @ + 1]
      BY <2>1, <3>3
    <3>4. CASE cur' = [cur EXCEPT !.at = "sent", !.last = l]
      <4> DEFINE c == [cur EXCEPT !.at = "sent"]
      <4>1. c \in [at: Handling, msg: M, i: Nat, last: BOOLEAN]
        BY <2>1 DEF Handling
      <4> HIDE DEF c
      <4>2. [c EXCEPT !.last = l] \in [at: Handling, msg: M, i: Nat, last: BOOLEAN]
        BY <3>1, <4>1, Zenon
      <4> QED
        BY <3>4, <4>2 DEF c
    <3> QED
      BY <3>2, <3>3, <3>4
  <2>5. note' \in SUBSET [obj: Objs, id: Actions \cup {All, Garbage}]
    <3>1. \A ids \in Answers(sn) : ids \in SUBSET (Actions \cup {All, Garbage})
      BY <2>3 DEF Answers
    <3>2. note' = {} \/ \E ids \in Answers(sn) : note' = Finished(sn.obj, ids)
      BY <1>3 DEF HandleScan
    <3> HIDE DEF sn
    <3> QED
      BY <2>3, <3>1, <3>2, FinishedTyped
  <2> QED
    BY <1>3, <2>4, <2>5 DEF HandleScan, TypeOK, Acted, list, node, signals, counters, M
<1>4. CASE HandleSent
  <2> DEFINE M == Reply \cup {NULL}
  <2>1. cur \in [at: Handling, msg: M, i: Nat, last: BOOLEAN]
    BY DEF TypeOK
  <2> HIDE DEF M
  <2>2. cur' \in [at: Handling, msg: M, i: Nat, last: BOOLEAN]
    BY <1>4, <2>1 DEF HandleSent, Handling
  <2>3. signalthreadlist' \in Seq(SignalNode)
    BY <1>4, WithoutType DEF HandleSent, TypeOK
  <2> QED
    BY <1>4, <2>2, <2>3 DEF HandleSent, TypeOK, Acted, list, node, signals, counters, M
<1>5. CASE HandleEnd
  <2>1. threadlist' \in Seq(Threads) /\ threadcnt' \in Int
    BY <1>5, WithoutType DEF HandleEnd, TypeOK
  <2>2. cur' \in [at: Handling, msg: Reply \cup {NULL}, i: Nat, last: BOOLEAN]
    BY <1>5 DEF HandleEnd, NoMsg, Handling
  <2> QED
    BY <1>5, <2>1, <2>2 DEF HandleEnd, TypeOK, Acted, node, signals, counters
<1> QED
  BY <1>1, <1>2, <1>3, <1>4, <1>5 DEF Handle

LEMMA JobTyped ==
  ASSUME IInv, NEW o \in Objs \cup {NULL}, NEW a \in Actions, DoAction(o, a)
  PROVE  TypeOK' /\ Acted'
<1> USE DEF IInv
<1>1. PICK t \in Threads : /\ \/ UNCHANGED <<list, pc>>
                              \/ Create(t)
                           /\ Assign(t, o, a)
  BY DEF DoAction
<1>2. /\ threadlist' \in Seq(Threads) /\ threadcnt' \in Int
      /\ thread_num' \in 0..(THREAD_MAX + 1) /\ pc' \in [Threads -> PC]
  <2>1. CASE UNCHANGED <<list, pc>>
    BY <2>1 DEF TypeOK, list
  <2>2. CASE Create(t)
    BY <2>2, ConstantsAssumption DEF Create, TypeOK, PC, Threads
  <2> QED
    BY <1>1, <2>1, <2>2
<1>3. /\ state' \in [Threads -> {"idle", "busy", "waiting"}]
      /\ destobj' \in [Threads -> Objs \cup {NULL}]
      /\ action' \in [Threads -> Actions \cup {NULL}]
      /\ inbox' \in [Threads -> BOOLEAN] /\ asked' \in [Threads -> BOOLEAN]
      /\ jobs' \in 0..MaxJobs /\ UNCHANGED <<aborts, prompts, reclaims>>
  BY <1>1, ConstantsAssumption DEF Assign, Take, TypeOK
<1>4. Acted'
  BY <1>1 DEF Assign, TypeOK, Acted
<1> QED
  BY <1>2, <1>3, <1>4 DEF DoAction, TypeOK, signals

LEMMA NoJobTyped ==
  ASSUME IInv, DoActionFails
  PROVE  TypeOK' /\ Acted'
<1> USE DEF IInv
<1>1. UNCHANGED <<destobj, action, signalthreadlist, threadport, cur, inbox, signals,
                  quitting, asked, counters>>
      /\ note' = {}
  BY DEF DoActionFails
<1>2. ASSUME NEW t \in Threads, UNCHANGED <<list, pc>> \/ Create(t), Take(t)
      PROVE  /\ threadlist' \in Seq(Threads) /\ threadcnt' \in Int
             /\ thread_num' \in 0..(THREAD_MAX + 1) /\ pc' \in [Threads -> PC]
             /\ state' \in [Threads -> {"idle", "busy", "waiting"}]
  <2>1. state' \in [Threads -> {"idle", "busy", "waiting"}]
    BY <1>2 DEF Take, TypeOK
  <2>2. CASE UNCHANGED <<list, pc>>
    BY <2>1, <2>2 DEF TypeOK, list
  <2>3. CASE Create(t)
    BY <2>1, <2>3, ConstantsAssumption DEF Create, TypeOK, PC, Threads
  <2> QED
    BY <1>2, <2>2, <2>3
<1>3. CASE /\ thread_num = THREAD_MAX /\ thread_num' = thread_num + 1
           /\ UNCHANGED <<threadlist, threadcnt, pc, state>>
  <2>1. thread_num' \in 0..(THREAD_MAX + 1)
    BY <1>3, ConstantsAssumption
  <2> QED
    BY <1>1, <1>3, <2>1 DEF TypeOK, Acted, signals, counters
<1>4. CASE \E t \in Threads : (UNCHANGED <<list, pc>> \/ Create(t)) /\ Take(t)
  BY <1>1, <1>2, <1>4 DEF TypeOK, Acted, signals, counters
<1> QED
  BY <1>3, <1>4 DEF DoActionFails

LEMMA AbortTyped ==
  ASSUME IInv, NEW o \in Objs, NEW ids \in AbortArgs, Abort(o, ids)
  PROVE  TypeOK' /\ Acted'
<1> USE DEF IInv
<1>1. ids \in SUBSET Actions
  BY DEF AbortArgs
<1>2. signalthreadlist' \in Seq(SignalNode)
  <2> DEFINE sn == [obj |-> o, abort |-> NewIds(o, ids)]
             S == SignalNode
  <2>1. sn \in S /\ signalthreadlist \in Seq(S)
    BY <1>1 DEF NewIds, SignalNode, TypeOK
  <2>2. signalthreadlist' \in {signalthreadlist, Append(signalthreadlist, sn)}
    BY DEF Abort, Schedule
  <2> HIDE DEF sn, S
  <2>3. signalthreadlist' \in Seq(S)
    BY <2>1, <2>2
  <2> QED
    BY <2>3 DEF S
<1>3. note' \in SUBSET [obj: Objs, id: Actions \cup {All, Garbage}]
  <2>1. IdsOf(ids) \in SUBSET (Actions \cup {All, Garbage})
    BY <1>1 DEF IdsOf
  <2>2. note' \in {{}, Finished(o, IdsOf(ids))}
    BY DEF Abort
  <2> QED
    BY <2>1, <2>2, FinishedTyped
<1>4. /\ ctrlD' \in [Threads -> BOOLEAN] /\ asked' \in [Threads -> BOOLEAN]
      /\ aborts' \in 0..MaxAborts
  BY ConstantsAssumption DEF Abort, TypeOK
<1> QED
  BY <1>2, <1>3, <1>4 DEF Abort, TypeOK, Acted, list, node

LEMMA MethodTyped ==
  ASSUME IInv, MethodNext
  PROVE  TypeOK' /\ Acted'
<1> USE DEF IInv
<1>1. ASSUME NEW t \in Threads, Wake(t)
      PROVE  TypeOK' /\ Acted'
  BY <1>1 DEF Wake, TypeOK, Acted, list, counters
<1>2. ASSUME NEW t \in Threads, Stop(t)
      PROVE  TypeOK' /\ Acted'
  BY <1>2, ConstantsAssumption DEF Stop, TypeOK, Acted, list
<1>3. CASE Reclaim
  BY <1>3, ConstantsAssumption DEF Reclaim, TypeOK, Acted, list, node
<1>4. CASE Quit
  BY <1>4 DEF Quit, TypeOK, Acted, list, node, counters
<1> QED
  BY <1>1, <1>2, <1>3, <1>4, JobTyped, NoJobTyped, AbortTyped DEF MethodNext

LEMMA ThreadTyped ==
  ASSUME IInv, NEW t \in Threads, ThreadNext(t)
  PROVE  TypeOK' /\ Acted'
<1> USE DEF IInv
<1> USE DEF list, node, signals, counters, Goto, Acted
<1>1. CASE ThreadClears(t)
  BY <1>1 DEF ThreadClears, TypeOK, PC
<1>2. CASE ThreadWakes(t)
  BY <1>2 DEF ThreadWakes, TypeOK, PC
<1>3. CASE ThreadGetsJob(t)
  BY <1>3 DEF ThreadGetsJob, TypeOK, PC
<1>4. CASE ThreadHasNoJob(t)
  BY <1>4 DEF ThreadHasNoJob, TypeOK, PC
<1>5. CASE ThreadRefusesJob(t)
  <2>1. threadport' \in Seq(Reply)
    BY <1>5, RepliesTyped, ReplyMade DEF ThreadRefusesJob, Status
  <2> QED
    BY <1>5, <2>1 DEF ThreadRefusesJob, TypeOK
<1>6. CASE JobReturns(t)
  <2>1. threadport' \in Seq(Reply)
    BY <1>6, RepliesTyped, ReplyMade DEF JobReturns, Status
  <2> QED
    BY <1>6, <2>1 DEF JobReturns, TypeOK, PC
<1>7. CASE JobAborts(t)
  <2>1. threadport' \in Seq(Reply)
    BY <1>7, RepliesTyped, ReplyMade DEF JobAborts, Status
  <2> QED
    BY <1>7, <2>1 DEF JobAborts, TypeOK, PC
<1>8. CASE JobSleeps(t)
  BY <1>8, ConstantsAssumption DEF JobSleeps, TypeOK, PC
<1>9. CASE JobWakes(t)
  BY <1>9 DEF JobWakes, TypeOK, PC
<1>10. CASE ThreadEnds(t)
  <2>1. threadport' \in Seq(Reply)
    BY <1>10, RepliesTyped, ReplyMade DEF ThreadEnds, Status
  <2> QED
    BY <1>10, <2>1 DEF ThreadEnds, TypeOK, PC
<1> QED
  BY <1>1, <1>2, <1>3, <1>4, <1>5, <1>6, <1>7, <1>8, <1>9, <1>10 DEF ThreadNext

LEMMA InitIInv == Init => IInv
<1> SUFFICES ASSUME Init PROVE IInv
  OBVIOUS
<1>1. /\ THREAD_MIN \in Nat /\ DOMAIN threadlist = 1..THREAD_MIN
      /\ \A i \in 1..THREAD_MIN : threadlist[i] = i
      /\ threadlist \in Seq(Threads) /\ Len(threadlist) = THREAD_MIN
  BY ConstantsAssumption DEF Init, Threads
<1>2. \A t \in Threads : /\ pc[t] = "new" <=> t > THREAD_MIN
                         /\ pc[t] \in {"new", "clear"}
                         /\ Listed(t) <=> t <= THREAD_MIN
  BY <1>1 DEF Init, Threads, Listed
<1>3. /\ cur.at = "none" /\ cur.msg = NULL /\ threadport = <<>>
      /\ cur \in [at: Handling, msg: Reply \cup {NULL}, i: Nat, last: BOOLEAN]
      /\ DOMAIN threadport = {}
  BY DEF Init, NoMsg, Handling
<1>4. TypeOK
  <2>1. threadcnt \in Int /\ thread_num \in 0..(THREAD_MAX + 1)
    BY <1>1, ConstantsAssumption DEF Init
  <2>2. signalthreadlist \in Seq(SignalNode) /\ threadport \in Seq(Reply)
    BY <1>3 DEF Init
  <2>3. /\ state \in [Threads -> {"idle", "busy", "waiting"}]
        /\ destobj \in [Threads -> Objs \cup {NULL}]
        /\ action \in [Threads -> Actions \cup {NULL}]
        /\ pc \in [Threads -> PC]
        /\ inbox \in [Threads -> BOOLEAN] /\ ctrlC \in [Threads -> BOOLEAN]
        /\ ctrlD \in [Threads -> BOOLEAN] /\ asked \in [Threads -> BOOLEAN]
    BY DEF Init, PC
  <2>4. /\ jobs \in 0..MaxJobs /\ aborts \in 0..MaxAborts
        /\ prompts \in 0..MaxPrompts /\ reclaims \in 0..MaxReclaims
    <3>1. jobs = 0 /\ aborts = 0 /\ prompts = 0 /\ reclaims = 0
      BY DEF Init
    <3> QED
      BY <3>1, ConstantsAssumption
  <2>5. quitting \in BOOLEAN /\ note \in SUBSET [obj: Objs, id: Actions \cup {All, Garbage}]
    <3>1. quitting = FALSE /\ note = {}
      BY DEF Init
    <3> QED
      BY <3>1
  <2> QED
    BY <1>1, <1>3, <2>1, <2>2, <2>3, <2>4, <2>5 DEF TypeOK
<1>5. Acted
  BY DEF Init, Acted
<1>6. Numbered /\ Handled /\ StartsLast
  BY <1>2, <1>3 DEF Init, Numbered, Handled, StartsLast
<1>7. \A t \in Threads : ~HasJob(t) /\ ~Working(t) /\ ~Replied(t)
  BY <1>2, <1>3 DEF Init, HasJob, Working, Replied
<1>8. OneJob /\ IdleHasNoJob
  BY <1>3, <1>7 DEF OneJob, IdleHasNoJob
<1>9. NodesLive
  BY <1>1, <1>2, <1>3 DEF Init, NodesLive, Threads
<1> QED
  BY <1>4, <1>5, <1>6, <1>8, <1>9 DEF IInv, Pool

LEMMA NextIInv == IInv /\ [Next]_vars => IInv'
<1> SUFFICES ASSUME IInv, [Next]_vars PROVE IInv'
  OBVIOUS
<1>1. CASE UNCHANGED vars
  BY <1>1, PoolKept DEF IInv, TypeOK, Acted, vars, list, node, signals, counters
<1>2. CASE Next
  BY <1>2, PoolKept, HandleTyped, MethodTyped, ThreadTyped DEF Next, IInv
<1> QED
  BY <1>1, <1>2

LEMMA Invariant == Spec => []IInv
  BY InitIInv, NextIInv, PTL DEF Spec

\* Nodes, messages, aborts and what threads_handle is at keep their types;
\* in particular MM_Thread_Finished is sent to objects, never to a node whose
\* destobj has been cleared.
THEOREM TypeCorrect == Spec => []TypeOK
<1>1. IInv => TypeOK
  BY DEF IInv
<1> QED
  BY <1>1, Invariant, PTL

\* threads_handle, threads_abort, threads_reclaim and threads_finish only
\* meet thread_nodes of threads whose process or messages still need them,
\* and threadcnt counts them: the start message, with which a node goes, is
\* the last message of its thread.
THEOREM NodesSafe == Spec => []NodesLive
<1>1. IInv => NodesLive
  BY DEF IInv, Pool
<1> QED
  BY <1>1, Invariant, PTL

\* v_do_action gives a job only to a thread that has none, in its port, at
\* work or not yet reported: destobj and action of a node are those of its
\* one job.
THEOREM OneJobAtATime == Spec => []IdleHasNoJob
<1>1. IInv => IdleHasNoJob
  BY DEF IInv, Pool
<1> QED
  BY <1>1, Invariant, PTL
=============================================================================
