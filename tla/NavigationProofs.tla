-------------------------- MODULE NavigationProofs --------------------------
(* Proofs about Navigation: the history of a window keeps its shape for     *)
(* every set of places, every MAX_NODES and every number of jobs, whatever  *)
(* order they end in and whether they fail or not.                          *)
EXTENDS Navigation, TLAPS, SequenceTheorems

\* What history.c relies on, of any struct history.
Shape(h) ==
  /\ h \in History
  /\ h.size = Len(h.list)
  /\ h.position < h.size
  /\ h.size <= MAX_NODES

LEMMA ShapeFields ==
  ASSUME NEW h, Shape(h)
  PROVE  /\ h.list \in Seq(Places)
         /\ h.position \in Nat
         /\ h.size \in Nat
         /\ h.lock \in BOOLEAN
         /\ h.size = Len(h.list)
         /\ h.position < h.size
         /\ h.size <= MAX_NODES
         /\ MAX_NODES \in Nat
         /\ MAX_NODES > 0
         /\ h = [list |-> h.list, position |-> h.position, size |-> h.size,
                 lock |-> h.lock]
BY ConstantsAssumption DEF Shape, History

LEMMA ShapeOf ==
  ASSUME NEW l \in Seq(Places), NEW n \in Nat, NEW k \in BOOLEAN,
         n < Len(l), Len(l) <= MAX_NODES
  PROVE  Shape([list |-> l, position |-> n, size |-> Len(l), lock |-> k])
<1>1. Len(l) \in Nat
  BY LenProperties
<1> QED
  BY <1>1 DEF Shape, History

LEMMA UpdateKeepsShape ==
  ASSUME NEW h, Shape(h), NEW p \in Places
  PROVE  /\ Shape(UpdateURI(h, p))
         /\ UpdateURI(h, p).position = h.position
         /\ UpdateURI(h, p).size = h.size
<1> DEFINE l == [h.list EXCEPT ![h.position + 1] = p]
<1>1. l \in Seq(Places) /\ Len(l) = Len(h.list)
  BY ShapeFields, ExceptSeq
<1>2. UpdateURI(h, p) =
        [list |-> l, position |-> h.position, size |-> h.size, lock |-> h.lock]
  BY ShapeFields DEF UpdateURI, Current
<1> HIDE DEF l
<1>3. Shape([list |-> l, position |-> h.position, size |-> Len(l), lock |-> h.lock])
  BY <1>1, ShapeFields, ShapeOf
<1> QED
  BY <1>1, <1>2, <1>3, ShapeFields

\* What AppendNode leaves: the nodes up to the current one, the oldest dropped
\* when there are too many, and the new one behind them.
Kept(h) ==
  LET upto == SubSeq(h.list, 1, h.position + 1)
  IN  IF h.position + 1 = MAX_NODES THEN Tail(upto) ELSE upto

KeptAt(h) == IF h.position + 1 = MAX_NODES THEN h.position ELSE h.position + 1

LEMMA KeptNodes ==
  ASSUME NEW h, Shape(h)
  PROVE  /\ Kept(h) \in Seq(Places)
         /\ Len(Kept(h)) = KeptAt(h)
         /\ KeptAt(h) \in Nat
         /\ KeptAt(h) < MAX_NODES
<1> DEFINE l == SubSeq(h.list, 1, h.position + 1)
<1>1. l \in Seq(Places) /\ Len(l) = h.position + 1
  BY ShapeFields, SubSeqProperties
<1> HIDE DEF l
<1>2. l # <<>> /\ Tail(l) \in Seq(Places) /\ Len(Tail(l)) = h.position
  BY <1>1, ShapeFields, EmptySeq, HeadTailProperties
<1>3. Kept(h) = IF h.position + 1 = MAX_NODES THEN Tail(l) ELSE l
  BY DEF Kept, l
<1> QED
  BY <1>1, <1>2, <1>3, ShapeFields DEF KeptAt

LEMMA AppendedNode ==
  ASSUME NEW h, Shape(h), NEW p
  PROVE  AppendNode(h, p) =
           [list |-> Append(Kept(h), p), position |-> KeptAt(h),
            size |-> KeptAt(h) + 1, lock |-> h.lock]
<1> DEFINE l == SubSeq(h.list, 1, h.position + 1)
           next == [list |-> l, position |-> h.position + 1,
                    size |-> h.position + 1, lock |-> h.lock]
<1>1. [Truncate(h) EXCEPT !.position = @ + 1] = next
  <2>1. Truncate(h) = [list |-> l, position |-> h.position,
                       size |-> h.position + 1, lock |-> h.lock]
    <3> HIDE DEF l
    <3>1. Truncate(h) = [h EXCEPT !.list = l, !.size = h.position + 1]
      BY DEF Truncate, Current, l
    <3> QED
      BY <3>1, ShapeFields
  <2> HIDE DEF l
  <2> QED
    BY <2>1
<1>2. Kept(h) = IF h.position + 1 = MAX_NODES THEN Tail(l) ELSE l
  BY DEF Kept
<1> HIDE DEF l
<1>3. AppendNode(h, p) =
        [DropOldest(next) EXCEPT !.list = Append(DropOldest(next).list, p),
                                 !.size = @ + 1]
  BY <1>1 DEF AppendNode
<1> DEFINE room == [list |-> Kept(h), position |-> KeptAt(h), size |-> KeptAt(h),
                    lock |-> h.lock]
<1>4. DropOldest(next) = room
  <2>1. CASE h.position + 1 = MAX_NODES
    <3>1. DropOldest(next) = [next EXCEPT !.list = Tail(l),
                              !.size = (h.position + 1) - 1,
                              !.position = (h.position + 1) - 1]
      BY <2>1 DEF DropOldest
    <3>2. (h.position + 1) - 1 = h.position
      BY ShapeFields
    <3> QED
      BY <1>2, <2>1, <3>1, <3>2 DEF KeptAt
  <2>2. CASE h.position + 1 # MAX_NODES
    BY <1>2, <2>2 DEF DropOldest, KeptAt
  <2> QED
    BY <2>1, <2>2
<1>5. AppendNode(h, p) =
        [room EXCEPT !.list = Append(room.list, p), !.size = room.size + 1]
  <2> HIDE DEF room, next
  <2> QED
    BY <1>3, <1>4
<1> QED
  BY <1>5

\* AppendNode is the only operation that adds to the list.
LEMMA AppendKeepsShape ==
  ASSUME NEW h, Shape(h), NEW p \in Places
  PROVE  Shape(AppendNode(h, p))
<1> DEFINE r == Append(Kept(h), p)
<1>1. r \in Seq(Places) /\ Len(r) = KeptAt(h) + 1
  BY KeptNodes, AppendProperties
<1>2. AppendNode(h, p) = [list |-> r, position |-> KeptAt(h),
                          size |-> KeptAt(h) + 1, lock |-> h.lock]
  BY AppendedNode
<1> HIDE DEF r
<1>3. KeptAt(h) \in Nat /\ KeptAt(h) < Len(r) /\ Len(r) <= MAX_NODES
  BY <1>1, KeptNodes, ShapeFields
<1>4. Shape([list |-> r, position |-> KeptAt(h), size |-> Len(r), lock |-> h.lock])
  BY <1>1, <1>3, ShapeFields, ShapeOf
<1> QED
  BY <1>1, <1>2, <1>4

LEMMA MovedKeepsShape ==
  ASSUME NEW h, Shape(h), NEW n \in Nat, n < h.size
  PROVE  Shape([h EXCEPT !.position = n])
BY ShapeFields, ShapeOf

LEMMA LockKeepsShape ==
  ASSUME NEW h, Shape(h), NEW k \in BOOLEAN
  PROVE  Shape([h EXCEPT !.lock = k])
BY ShapeFields, ShapeOf

LEMMA AddNodeKeepsShape ==
  ASSUME NEW h, Shape(h), NEW p \in Places
  PROVE  Shape(AddNode(h, p))
<1>1. CASE h.position > 0 /\ h.list[h.position] = p
  <2>1. h.position - 1 \in Nat /\ h.position - 1 < h.size
    BY <1>1, ShapeFields
  <2> QED
    BY <1>1, <2>1, MovedKeepsShape DEF AddNode
<1>2. CASE /\ ~(h.position > 0 /\ h.list[h.position] = p)
           /\ h.position < h.size - 1 /\ h.list[h.position + 2] = p
  <2>1. h.position + 1 \in Nat /\ h.position + 1 < h.size
    BY <1>2, ShapeFields
  <2> QED
    BY <1>2, <2>1, MovedKeepsShape DEF AddNode
<1>3. CASE /\ ~(h.position > 0 /\ h.list[h.position] = p)
           /\ ~(h.position < h.size - 1 /\ h.list[h.position + 2] = p)
  BY <1>3, AppendKeepsShape DEF AddNode
<1> QED
  BY <1>1, <1>2, <1>3

LEMMA AddKeepsShape ==
  ASSUME NEW h, Shape(h), NEW p \in Places
  PROVE  Shape(AddURI(h, p))
<1>1. Shape(AddNode(h, p))
  BY AddNodeKeepsShape
<1> DEFINE g == IF h.lock THEN h ELSE AddNode(h, p)
<1>2. Shape(g)
  BY <1>1
<1> HIDE DEF g
<1>3. Shape([g EXCEPT !.lock = FALSE])
  BY <1>2, LockKeepsShape
<1> QED
  BY <1>3 DEF AddURI, g

\* MM_Toolbar_HistoryMove stays within the nodes.
LEMMA TargetInRange ==
  ASSUME NEW h, Shape(h), NEW steps \in Steps
  PROVE  Target(h, steps) \in Nat /\ Target(h, steps) < h.size
BY ShapeFields DEF Target, Steps

-----------------------------------------------------------------------------

Inv ==
  /\ Shape(hist)
  /\ viewing \in Places
  /\ loads \in Seq(Load)

LEMMA RemoveLoad ==
  ASSUME Inv, NEW i \in DOMAIN loads
  PROVE  /\ loads[i].place \in Places
         /\ RemoveAt(loads, i) \in Seq(Load)
<1>1. loads \in Seq(Load) /\ i \in 1..Len(loads) /\ Len(loads) \in Nat
  BY LenProperties DEF Inv
<1>2. loads[i] \in Load
  BY <1>1, ElementOfSeq
<1>3. /\ SubSeq(loads, 1, i - 1) \in Seq(Load)
      /\ SubSeq(loads, i + 1, Len(loads)) \in Seq(Load)
  BY <1>1, SubSeqProperties
<1> QED
  BY <1>2, <1>3, ConcatProperties DEF RemoveAt, Load

LEMMA StepKeepsInv ==
  ASSUME Inv, [Next]_vars
  PROVE  Inv'
<1>1. ASSUME NEW p \in Places, NEW by \in {"history", "view"}, LoadURI(p, by)
      PROVE  loads' \in Seq(Load)
  <2>1. [place |-> p, by |-> by] \in Load
    BY DEF Load
  <2> QED
    BY <1>1, <2>1, AppendProperties DEF LoadURI, Inv
<1>2. ASSUME NEW p \in Places, Open(p)
      PROVE  Inv'
  BY <1>1, <1>2 DEF Open, Inv
<1>3. ASSUME NEW p \in Places, NewPath(p)
      PROVE  Inv'
  <2>1. Shape(hist')
    BY <1>3, UpdateKeepsShape, LockKeepsShape DEF NewPath, Inv
  <2>2. loads' \in Seq(Load) /\ viewing' = viewing
    BY <1>1, <1>3 DEF NewPath
  <2> QED
    BY <2>1, <2>2 DEF Inv
<1>4. ASSUME NEW steps \in Steps, Move(steps)
      PROVE  Inv'
  <2> DEFINE updated == UpdateURI(hist, viewing)
             to == Target(hist, steps)
  <2>1. Shape(updated) /\ updated.size = hist.size
    BY UpdateKeepsShape DEF Inv
  <2>2. to \in Nat /\ to < hist.size
    BY TargetInRange DEF Inv
  <2>3. /\ hist' = [updated EXCEPT !.position = to, !.lock = TRUE]
        /\ LoadURI(updated.list[to + 1], "history")
        /\ viewing' = viewing
    BY <1>4 DEF Move
  <2> HIDE DEF updated, to
  <2>4. Shape(hist')
    <3>1. Shape([updated EXCEPT !.position = to])
      BY <2>1, <2>2, MovedKeepsShape
    <3>2. Shape([[updated EXCEPT !.position = to] EXCEPT !.lock = TRUE])
      BY <3>1, LockKeepsShape
    <3> QED
      BY <2>3, <3>2
  <2>5. updated.list[to + 1] \in Places
    BY <2>1, <2>2, ShapeFields, ElementOfSeq
  <2>6. loads' \in Seq(Load)
    BY <1>1, <2>3, <2>5
  <2> QED
    BY <2>3, <2>4, <2>6 DEF Inv
<1>5. ASSUME NEW i \in DOMAIN loads, Loaded(i)
      PROVE  Inv'
  <2>1. loads[i].place \in Places /\ loads' \in Seq(Load)
    BY <1>5, RemoveLoad DEF Loaded
  <2>2. Shape(UpdateURI(hist, viewing))
    BY UpdateKeepsShape DEF Inv
  <2>3. Shape(Shown(loads[i].place))
    BY <2>1, <2>2, AddKeepsShape, UpdateKeepsShape DEF Shown
  <2> QED
    BY <1>5, <2>1, <2>3 DEF Loaded, Inv
<1>6. ASSUME NEW i \in DOMAIN loads, LoadFails(i)
      PROVE  Inv'
  BY <1>6, RemoveLoad DEF LoadFails, Inv
<1>7. CASE UNCHANGED vars
  BY <1>7 DEF vars, Inv
<1> QED
  BY <1>2, <1>3, <1>4, <1>5, <1>6, <1>7 DEF Next

LEMMA InitInv == Init => Inv
<1> SUFFICES ASSUME Init PROVE Inv
  OBVIOUS
<1>1. viewing \in Places /\ <<viewing>> \in Seq(Places) /\ Len(<<viewing>>) = 1
  BY DEF Init
<1> DEFINE l == <<viewing>>
<1>2. hist = [list |-> l, position |-> 0, size |-> Len(l), lock |-> FALSE]
  BY <1>1 DEF Init
<1>3. l \in Seq(Places) /\ 0 < Len(l) /\ Len(l) <= MAX_NODES
  BY <1>1, ConstantsAssumption
<1> HIDE DEF l
<1>4. Shape(hist)
  BY <1>2, <1>3, ShapeOf
<1> QED
  BY <1>1, <1>4 DEF Init, Inv

\* Every reachable state of a window's history is well typed.
THEOREM TypeCorrect == Spec => []TypeOK
<1>1. Init => Inv
  BY InitInv
<1>2. Inv /\ [Next]_vars => Inv'
  BY StepKeepsInv
<1>3. Inv => TypeOK
  BY DEF Inv, Shape, TypeOK
<1> QED
  BY <1>1, <1>2, <1>3, PTL DEF Spec

\* The current node of a window's history exists and MAX_NODES is kept,
\* whatever the user clicks and however the jobs that load places end.
THEOREM ShapeKept == Spec => [](TypeOK /\ HistoryShape)
<1>1. Init => Inv
  BY InitInv
<1>2. Inv /\ [Next]_vars => Inv'
  BY StepKeepsInv
<1>3. Inv => TypeOK /\ HistoryShape
  BY DEF Inv, Shape, TypeOK, HistoryShape
<1> QED
  BY <1>1, <1>2, <1>3, PTL DEF Spec

-----------------------------------------------------------------------------
(* The current node is where the window is.                                *)

\* An updated history has the place for its current node.
LEMMA UpdatedCurrent ==
  ASSUME NEW h, Shape(h), NEW p \in Places
  PROVE  /\ UpdateURI(h, p).list[Current(UpdateURI(h, p))] = p
         /\ UpdateURI(h, p).lock = h.lock
<1>1. /\ h.position + 1 \in 1..Len(h.list) /\ h.list \in Seq(Places)
      /\ h = [list |-> h.list, position |-> h.position, size |-> h.size, lock |-> h.lock]
  BY ShapeFields
<1> DEFINE l == [h.list EXCEPT ![h.position + 1] = p]
<1>2. UpdateURI(h, p) =
        [list |-> l, position |-> h.position, size |-> h.size, lock |-> h.lock]
  BY <1>1 DEF UpdateURI, Current
<1>3. l[h.position + 1] = p
  BY <1>1
<1> HIDE DEF l
<1> QED
  BY <1>2, <1>3 DEF Current

LEMMA StepShows ==
  ASSUME Inv, ShowsCurrent, [Next]_vars
  PROVE  ShowsCurrent'
<1>1. ASSUME NEW p \in Places, Open(p)
      PROVE  ShowsCurrent'
  BY <1>1 DEF Open, ShowsCurrent, Current
<1>2. ASSUME NEW p \in Places, NewPath(p)
      PROVE  hist'.lock
  <2>1. hist' = [UpdateURI(hist, p) EXCEPT !.lock = TRUE]
    BY <1>2 DEF NewPath
  <2>2. Shape(UpdateURI(hist, p))
    BY UpdateKeepsShape DEF Inv
  <2> QED
    BY <2>1, <2>2, ShapeFields
<1>3. ASSUME NEW steps \in Steps, Move(steps)
      PROVE  hist'.lock
  <2>1. hist' = [UpdateURI(hist, viewing) EXCEPT !.position = Target(hist, steps),
                                                 !.lock = TRUE]
    BY <1>3 DEF Move
  <2>2. Shape(UpdateURI(hist, viewing))
    BY UpdateKeepsShape DEF Inv
  <2> QED
    BY <2>1, <2>2, ShapeFields
<1>4. ASSUME NEW i \in DOMAIN loads, Loaded(i)
      PROVE  ShowsCurrent'
  <2> DEFINE p == loads[i].place
             h == AddURI(UpdateURI(hist, viewing), p)
  <2>1. p \in Places
    BY RemoveLoad
  <2>2. Shape(h)
    BY <2>1, UpdateKeepsShape, AddKeepsShape DEF Inv
  <2>3. hist' = UpdateURI(h, p) /\ viewing' = p
    BY <1>4 DEF Loaded, Shown
  <2> HIDE DEF h, p
  <2> QED
    BY <2>1, <2>2, <2>3, UpdatedCurrent DEF ShowsCurrent, Current
<1>5. ASSUME NEW i \in DOMAIN loads, LoadFails(i)
      PROVE  ShowsCurrent'
  BY <1>5 DEF LoadFails, ShowsCurrent, Current
<1>6. CASE UNCHANGED vars
  BY <1>6 DEF vars, ShowsCurrent, Current
<1> QED
  BY <1>1, <1>2, <1>3, <1>4, <1>5, <1>6 DEF Next, ShowsCurrent

\* Unless the history is locked the current node is the place shown.
THEOREM CurrentShown == Spec => []ShowsCurrent
<1>1. Init => Inv /\ ShowsCurrent
  <2>1. Init => Inv
    BY InitInv
  <2>2. Init => ShowsCurrent
    BY DEF Init, ShowsCurrent, Current
  <2> QED
    BY <2>1, <2>2
<1>2. Inv /\ [Next]_vars => Inv'
  BY StepKeepsInv
<1>3. Inv /\ ShowsCurrent /\ [Next]_vars => ShowsCurrent'
  BY StepShows
<1> QED
  BY <1>1, <1>2, <1>3, PTL DEF Spec

-----------------------------------------------------------------------------
(* With one place loaded at a time, and no load that fails, the history    *)
(* gives the user who browses the trails of Browsing.                      *)

Behind(h) == SubSeq(h.list, 1, h.position)
Here(h) == h.list[Current(h)]
Ahead(h) == SubSeq(h.list, Current(h) + 1, Len(h.list))

LEMMA TrailTypes ==
  ASSUME NEW h, Shape(h)
  PROVE  /\ Behind(h) \in Seq(Places)
         /\ Len(Behind(h)) = h.position
         /\ \A i \in 1..h.position : Behind(h)[i] = h.list[i]
         /\ Here(h) \in Places
         /\ Ahead(h) \in Seq(Places)
<1>1. /\ h.list \in Seq(Places) /\ h.position \in Nat
      /\ Len(h.list) \in Nat /\ h.position < Len(h.list)
  BY ShapeFields
<1>2. \A i \in 1..Len(h.list) : h.list[i] \in Places
  BY <1>1, ElementOfSeq
<1>3. /\ Behind(h) \in Seq(Places)
      /\ Len(Behind(h)) = IF 1 <= h.position THEN h.position - 1 + 1 ELSE 0
      /\ \A i \in 1..(h.position - 1 + 1) : Behind(h)[i] = h.list[1 + i - 1]
  BY <1>1, <1>2, SubSeqProperties DEF Behind
<1>4. Ahead(h) \in Seq(Places)
  BY <1>1, <1>2, SubSeqProperties DEF Ahead, Current
<1> QED
  BY <1>1, <1>2, <1>3, <1>4 DEF Here, Current

\* The three parts make up the list.
LEMMA TrailsAreTheList ==
  ASSUME NEW h, Shape(h)
  PROVE  Behind(h) \o <<Here(h)>> \o Ahead(h) = h.list
<1> DEFINE l == h.list
           n == h.position
<1>1. l \in Seq(Places) /\ n \in Nat /\ Len(l) \in Nat /\ n < Len(l)
  BY ShapeFields
<1>2. SubSeq(l, 1, n + 1) = SubSeq(l, 1, n) \o <<l[n + 1]>>
  <2>1. 1 \in 1..Len(l) /\ n + 1 \in 1..Len(l) /\ (n + 1) - 1 = n
    BY <1>1
  <2> HIDE DEF l, n
  <2> QED
    BY <1>1, <2>1, SubSeqRecursiveSecond
<1>3. SubSeq(l, 1, n + 1) \o SubSeq(l, (n + 1) + 1, Len(l)) = SubSeq(l, 1, Len(l))
  <2>1. 1 \in 1..(Len(l) + 1) /\ n + 1 \in (1 - 1)..Len(l) /\ Len(l) \in (n + 1)..Len(l)
    BY <1>1
  <2> HIDE DEF l, n
  <2> QED
    BY <1>1, <2>1, ConcatAdjacentSubSeq
<1>4. SubSeq(l, 1, Len(l)) = l
  BY <1>1, SubSeqFull
<1> QED
  BY <1>2, <1>3, <1>4 DEF Behind, Here, Ahead, Current

\* The history as a record, in terms of the two fields the trails are made of.
LEMMA TrailsOf ==
  ASSUME NEW h, NEW g, g.list = h.list, g.position = h.position
  PROVE  Behind(g) = Behind(h) /\ Here(g) = Here(h) /\ Ahead(g) = Ahead(h)
BY DEF Behind, Here, Ahead, Current

LEMMA UpdatedTrails ==
  ASSUME NEW h, Shape(h), NEW p \in Places
  PROVE  /\ Behind(UpdateURI(h, p)) = Behind(h)
         /\ Here(UpdateURI(h, p)) = p
         /\ Ahead(UpdateURI(h, p)) = Ahead(h)
<1> DEFINE l == [h.list EXCEPT ![h.position + 1] = p]
           n == h.position
           s == h.list
           z == Len(s)
<1>1. /\ s \in Seq(Places) /\ n \in Nat /\ z \in Nat /\ n < z
  BY ShapeFields
<1>2. /\ l \in Seq(Places) /\ Len(l) = z
      /\ \A j \in 1..z : l[j] = IF j = n + 1 THEN p ELSE s[j]
  <2>1. n + 1 \in 1..z
    BY <1>1
  <2> QED
    BY <1>1, <2>1, ExceptSeq
<1>3. UpdateURI(h, p).list = l /\ UpdateURI(h, p).position = n
  <2>1. UpdateURI(h, p) =
          [list |-> l, position |-> h.position, size |-> h.size, lock |-> h.lock]
    BY ShapeFields DEF UpdateURI, Current
  <2> HIDE DEF l
  <2> QED
    BY <2>1
<1> HIDE DEF l, n, s, z
<1>4. Len(s) = z /\ h.list = s /\ h.position = n
  BY DEF s, z, n
<1>5. \A i \in 1..z : l[i] \in Places /\ s[i] \in Places
  BY <1>1, <1>2, <1>4, ElementOfSeq
<1>6. SubSeq(l, 1, n) = SubSeq(s, 1, n)
  <2>1. /\ SubSeq(l, 1, n) \in Seq(Places)
        /\ Len(SubSeq(l, 1, n)) = IF 1 <= n THEN n - 1 + 1 ELSE 0
        /\ \A i \in 1..(n - 1 + 1) : SubSeq(l, 1, n)[i] = l[1 + i - 1]
    BY <1>1, <1>5, SubSeqProperties
  <2>2. /\ SubSeq(s, 1, n) \in Seq(Places)
        /\ Len(SubSeq(s, 1, n)) = IF 1 <= n THEN n - 1 + 1 ELSE 0
        /\ \A i \in 1..(n - 1 + 1) : SubSeq(s, 1, n)[i] = s[1 + i - 1]
    BY <1>1, <1>5, SubSeqProperties
  <2>3. \A i \in 1..n : l[1 + i - 1] = s[1 + i - 1]
    BY <1>1, <1>2
  <2>4. Len(SubSeq(l, 1, n)) = n /\ Len(SubSeq(s, 1, n)) = n
    BY <1>1, <2>1, <2>2
  <2>5. \A i \in 1..n : SubSeq(l, 1, n)[i] = SubSeq(s, 1, n)[i]
    BY <1>1, <2>1, <2>2, <2>3
  <2> QED
    BY <2>1, <2>2, <2>4, <2>5, SeqEqual
<1>7. SubSeq(l, (n + 1) + 1, z) = SubSeq(s, (n + 1) + 1, z)
  <2> DEFINE m == (n + 1) + 1
  <2>0. m \in Int /\ m > n + 1
    BY <1>1
  <2> HIDE DEF m
  <2>1. /\ SubSeq(l, m, z) \in Seq(Places)
        /\ Len(SubSeq(l, m, z)) = IF m <= z THEN z - m + 1 ELSE 0
        /\ \A i \in 1..(z - m + 1) : SubSeq(l, m, z)[i] = l[m + i - 1]
    <3>1. \A i \in m..z : l[i] \in Places
      BY <1>1, <1>5, <2>0
    <3> QED
      BY <1>1, <2>0, <3>1, SubSeqProperties
  <2>2. /\ SubSeq(s, m, z) \in Seq(Places)
        /\ Len(SubSeq(s, m, z)) = IF m <= z THEN z - m + 1 ELSE 0
        /\ \A i \in 1..(z - m + 1) : SubSeq(s, m, z)[i] = s[m + i - 1]
    <3>1. \A i \in m..z : s[i] \in Places
      BY <1>1, <1>5, <2>0
    <3> QED
      BY <1>1, <2>0, <3>1, SubSeqProperties
  <2>3. \A i \in 1..(z - m + 1) : l[m + i - 1] = s[m + i - 1]
    <3> SUFFICES ASSUME NEW i \in 1..(z - m + 1)
                 PROVE  l[m + i - 1] = s[m + i - 1]
      OBVIOUS
    <3>1. m + i - 1 \in 1..z /\ m + i - 1 # n + 1
      BY <1>1, <2>0
    <3> QED
      BY <1>2, <3>1
  <2> DEFINE k == Len(SubSeq(l, m, z))
  <2>4. k = Len(SubSeq(s, m, z)) /\ 1..k \subseteq 1..(z - m + 1)
    BY <1>1, <2>0, <2>1, <2>2
  <2>5. \A i \in 1..k : SubSeq(l, m, z)[i] = SubSeq(s, m, z)[i]
    BY <2>1, <2>2, <2>3, <2>4
  <2> QED
    BY <2>1, <2>2, <2>4, <2>5, SeqEqual DEF m
<1>8. Here(UpdateURI(h, p)) = p
  <2>1. n + 1 \in 1..z
    BY <1>1
  <2> QED
    BY <1>2, <1>3, <2>1 DEF Here, Current
<1> QED
  BY <1>2, <1>3, <1>4, <1>6, <1>7, <1>8 DEF Behind, Ahead, Current

\* A place back, a place on: the list is the same.
LEMMA BackTrails ==
  ASSUME NEW h, Shape(h), NEW g, g.list = h.list, g.position = h.position - 1,
         h.position > 0
  PROVE  /\ Behind(h) # <<>>
         /\ Last(Behind(h)) = h.list[h.position]
         /\ Behind(g) = Front(Behind(h))
         /\ Here(g) = Last(Behind(h))
         /\ Ahead(g) = <<Here(h)>> \o Ahead(h)
<1> DEFINE n == h.position
           s == h.list
           b == Behind(h)
<1>1. s \in Seq(Places) /\ n \in Nat /\ Len(s) \in Nat /\ n < Len(s) /\ n > 0
  BY ShapeFields
<1>2. b \in Seq(Places) /\ Len(b) = n /\ \A i \in 1..n : b[i] = s[i]
  BY TrailTypes
<1>3. Behind(g) = SubSeq(s, 1, n - 1)
  BY DEF Behind
<1>4. Here(g) = s[n]
  BY <1>1 DEF Here, Current
<1>5. Ahead(g) = SubSeq(s, n + 1, Len(s))
  <2>1. Current(g) + 1 = n + 1
    BY <1>1 DEF Current
  <2>2. Ahead(g) = SubSeq(g.list, Current(g) + 1, Len(g.list))
    BY DEF Ahead
  <2>3. g.list = s
    OBVIOUS
  <2> HIDE DEF n, s
  <2> QED
    BY <2>1, <2>2, <2>3
<1>6. Here(h) = s[n + 1] /\ Ahead(h) = SubSeq(s, (n + 1) + 1, Len(s))
  BY DEF Here, Ahead, Current
<1> HIDE DEF n, s, b
<1>7. b # <<>> /\ Last(b) = s[n]
  BY <1>1, <1>2, EmptySeq DEF Last
<1>8. SubSeq(s, 1, n - 1) = SubSeq(b, 1, n - 1)
  <2>1. \A i \in 1..(n - 1) : s[i] \in Places /\ b[i] \in Places
    BY <1>1, <1>2, ElementOfSeq
  <2>2. n - 1 \in Nat /\ (n - 1) - 1 + 1 = n - 1
    BY <1>1
  <2>3. /\ SubSeq(s, 1, n - 1) \in Seq(Places)
        /\ Len(SubSeq(s, 1, n - 1)) = n - 1
        /\ \A i \in 1..(n - 1) : SubSeq(s, 1, n - 1)[i] = s[1 + i - 1]
    BY <2>1, <2>2, SubSeqProperties
  <2>4. /\ SubSeq(b, 1, n - 1) \in Seq(Places)
        /\ Len(SubSeq(b, 1, n - 1)) = n - 1
        /\ \A i \in 1..(n - 1) : SubSeq(b, 1, n - 1)[i] = b[1 + i - 1]
    BY <2>1, <2>2, SubSeqProperties
  <2>5. \A i \in 1..(n - 1) : b[1 + i - 1] = s[1 + i - 1]
    BY <1>1, <1>2
  <2>6. \A i \in 1..(n - 1) : SubSeq(s, 1, n - 1)[i] = SubSeq(b, 1, n - 1)[i]
    BY <2>3, <2>4, <2>5
  <2> QED
    BY <2>3, <2>4, <2>6, SeqEqual
<1>9. SubSeq(s, n + 1, Len(s)) = <<s[n + 1]>> \o SubSeq(s, (n + 1) + 1, Len(s))
  <2>1. n + 1 \in 1..Len(s) /\ Len(s) \in (n + 1)..Len(s)
    BY <1>1
  <2> QED
    BY <1>1, <2>1, SubSeqRecursiveFirst
<1>10. Front(b) = SubSeq(b, 1, n - 1)
  BY <1>2 DEF Front
<1> QED
  BY <1>3, <1>4, <1>5, <1>6, <1>7, <1>8, <1>9, <1>10 DEF b, s, n

LEMMA ForwardTrails ==
  ASSUME NEW h, Shape(h), NEW g, g.list = h.list, g.position = h.position + 1,
         h.position < h.size - 1
  PROVE  /\ Ahead(h) # <<>>
         /\ Head(Ahead(h)) = h.list[h.position + 2]
         /\ Behind(g) = Append(Behind(h), Here(h))
         /\ Here(g) = Head(Ahead(h))
         /\ Ahead(g) = Tail(Ahead(h))
<1> DEFINE n == h.position
           s == h.list
           m == (n + 1) + 1
<1>1. /\ s \in Seq(Places) /\ n \in Nat /\ Len(s) \in Nat
      /\ m \in 1..Len(s) /\ m = n + 2 /\ n + 1 \in 1..Len(s)
  BY ShapeFields
<1>2. Behind(h) \in Seq(Places) /\ Here(h) \in Places
  BY TrailTypes
<1>3. /\ Behind(h) = SubSeq(s, 1, n) /\ Here(h) = s[n + 1]
      /\ Ahead(h) = SubSeq(s, m, Len(s))
  BY DEF Behind, Here, Ahead, Current
<1>4. /\ Behind(g) = SubSeq(s, 1, n + 1) /\ Here(g) = s[m]
      /\ Ahead(g) = SubSeq(s, m + 1, Len(s))
  BY DEF Behind, Here, Ahead, Current
<1> HIDE DEF m, s, n
<1>5. SubSeq(s, 1, n + 1) = Append(SubSeq(s, 1, n), s[n + 1])
  <2>1. 1 \in 1..Len(s) /\ n + 1 \in 1..Len(s) /\ (n + 1) - 1 = n
    BY <1>1
  <2>2. SubSeq(s, 1, n + 1) = SubSeq(s, 1, n) \o <<s[n + 1]>>
    BY <1>1, <2>1, SubSeqRecursiveSecond
  <2> QED
    BY <1>2, <1>3, <2>2, AppendIsConcat
<1>6. /\ Head(SubSeq(s, m, Len(s))) = s[m]
      /\ Tail(SubSeq(s, m, Len(s))) = SubSeq(s, m + 1, Len(s))
  <2>1. Len(s) \in m..Len(s)
    BY <1>1
  <2> QED
    BY <1>1, <2>1, HeadTailOfSubSeq
<1>7. SubSeq(s, m, Len(s)) # <<>>
  <2>1. \A i \in m..Len(s) : s[i] \in Places
    BY <1>1, ElementOfSeq
  <2>2. Len(SubSeq(s, m, Len(s))) = Len(s) - m + 1
    BY <1>1, <2>1, SubSeqProperties
  <2>3. Len(s) - m + 1 > 0
    BY <1>1
  <2> DEFINE a == SubSeq(s, m, Len(s))
  <2>4. Len(a) = Len(s) - m + 1
    BY <2>2
  <2> HIDE DEF a
  <2>5. Len(<<>>) = 0
    OBVIOUS
  <2>6. a # <<>>
    BY <2>3, <2>4, <2>5
  <2> QED
    BY <2>6 DEF a
<1>8. s[m] = h.list[h.position + 2]
  BY <1>1 DEF s, n
<1> QED
  BY <1>3, <1>4, <1>5, <1>6, <1>7, <1>8

\* A new node: the trail behind is what Remember leaves of it.
LEMMA AppendedTrails ==
  ASSUME NEW h, Shape(h), NEW p \in Places
  PROVE  /\ Behind(AppendNode(h, p)) = Trails!Remember(Append(Behind(h), Here(h)))
         /\ Here(AppendNode(h, p)) = p
         /\ Ahead(AppendNode(h, p)) = <<>>
<1> DEFINE k == Kept(h)
           n == KeptAt(h)
           l == Append(k, p)
           g == AppendNode(h, p)
<1>1. k \in Seq(Places) /\ Len(k) = n /\ n \in Nat
  BY KeptNodes
<1>2. g.list = l /\ g.position = n
  BY AppendedNode
<1> HIDE DEF k, n
<1>3. /\ l \in Seq(Places) /\ Len(l) = n + 1
      /\ \A i \in 1..n : l[i] = k[i]
      /\ l[n + 1] = p
  BY <1>1, AppendProperties
<1> HIDE DEF l, g
<1>4. SubSeq(l, 1, n) = k
  <2>1. \A i \in 1..n : l[i] \in Places
    BY <1>1, <1>3, ElementOfSeq
  <2>2. /\ SubSeq(l, 1, n) \in Seq(Places)
        /\ Len(SubSeq(l, 1, n)) = IF 1 <= n THEN n - 1 + 1 ELSE 0
        /\ \A i \in 1..(n - 1 + 1) : SubSeq(l, 1, n)[i] = l[1 + i - 1]
    BY <1>1, <2>1, SubSeqProperties
  <2>3. Len(SubSeq(l, 1, n)) = n
    BY <1>1, <2>2
  <2>4. \A i \in 1..n : SubSeq(l, 1, n)[i] = k[i]
    BY <1>1, <1>3, <2>2
  <2> QED
    BY <1>1, <2>2, <2>3, <2>4, SeqEqual
<1>5. k = Trails!Remember(Append(Behind(h), Here(h)))
  <2> DEFINE s == h.list
             c == h.position + 1
             t == SubSeq(s, 1, c)
  <2>1. /\ s \in Seq(Places) /\ h.position \in Nat /\ c \in 1..Len(s)
        /\ Len(s) \in Nat /\ c <= MAX_NODES /\ MAX_NODES \in Nat
        /\ 1 \in 1..Len(s) /\ c - 1 = h.position
    BY ShapeFields
  <2>2. k = IF c = MAX_NODES THEN Tail(t) ELSE t
    BY DEF k, Kept
  <2>3. Behind(h) = SubSeq(s, 1, h.position) /\ Here(h) = s[c]
    BY DEF Behind, Here, Current
  <2>4. Behind(h) \in Seq(Places) /\ Here(h) \in Places /\ Len(Behind(h)) = h.position
    BY TrailTypes
  <2> HIDE DEF s, c
  <2>5. t = SubSeq(s, 1, c - 1) \o <<s[c]>>
    BY <2>1, SubSeqRecursiveSecond
  <2>6. t = Append(Behind(h), Here(h))
    <3>1. t = Behind(h) \o <<Here(h)>>
      <4>1. SubSeq(s, 1, c - 1) = SubSeq(s, 1, h.position)
        BY <2>1
      <4> QED
        BY <2>3, <2>5, <4>1
    <3> QED
      BY <2>4, <3>1, AppendIsConcat
  <2> HIDE DEF t
  <2>7. Len(t) = c
    BY <2>4, <2>6, AppendProperties DEF c
  <2>8. Trails!Remember(t) = IF Len(t) < MAX_NODES THEN t ELSE Tail(t)
    BY DEF Trails!Remember
  <2>9. Len(t) < MAX_NODES <=> c # MAX_NODES
    BY <2>1, <2>7
  <2> QED
    BY <2>2, <2>6, <2>8, <2>9
<1>6. SubSeq(l, (n + 1) + 1, Len(l)) = <<>>
  <2>1. Len(l) \in Int /\ (n + 1) + 1 \in Int /\ Len(l) < (n + 1) + 1
    BY <1>1, <1>3
  <2> QED
    BY <2>1, SubSeqEmpty
<1> QED
  BY <1>2, <1>3, <1>4, <1>5, <1>6 DEF Behind, Here, Ahead, Current, g

\* One place at a time: the history is locked while it loads a place itself,
\* which is then the place of its current node.
OneAtATime ==
  /\ Len(loads) <= 1
  /\ hist.lock => loads # <<>> /\ loads[1].place = Here(hist)
  /\ ShowsCurrent

\* What there is before somebody asks for a place.
LEMMA NothingLoads ==
  ASSUME MaxLoads <= 1, Inv, OneAtATime,
         NEW p \in Places, NEW by \in {"history", "view"}, LoadURI(p, by)
  PROVE  /\ ~hist.lock
         /\ Here(hist) = viewing
         /\ Len(loads') <= 1 /\ loads' # <<>> /\ loads'[1].place = p
<1>1. Len(loads) < MaxLoads /\ loads' = Append(loads, [place |-> p, by |-> by])
  BY DEF LoadURI
<1>2. loads \in Seq(Load) /\ Len(loads) \in Nat
  BY LenProperties DEF Inv
<1>3. Len(loads) = 0
  BY <1>1, <1>2, ConstantsAssumption
<1>4. loads = <<>>
  BY <1>2, <1>3, EmptySeq
<1>5. loads' = <<[place |-> p, by |-> by]>>
  BY <1>1, <1>4
<1>6. Len(loads') <= 1 /\ loads' # <<>> /\ loads'[1].place = p
  BY <1>5
<1>7. ~hist.lock
  BY <1>4, ShapeFields DEF OneAtATime, Inv
<1> QED
  BY <1>6, <1>7 DEF OneAtATime, ShowsCurrent, Here

LEMMA LoadedAlone ==
  ASSUME Inv, OneAtATime, NEW i \in DOMAIN loads, Loaded(i)
  PROVE  /\ i = 1
         /\ loads' = <<>>
<1>1. loads \in Seq(Load) /\ Len(loads) \in Nat /\ i \in 1..Len(loads)
  BY LenProperties DEF Inv
<1>2. i = 1 /\ Len(loads) = 1
  BY <1>1 DEF OneAtATime
<1>3. loads' = SubSeq(loads, 1, 0) \o SubSeq(loads, 2, 1)
  BY <1>2 DEF Loaded, RemoveAt
<1>4. SubSeq(loads, 1, 0) = <<>> /\ SubSeq(loads, 2, 1) = <<>>
  BY SubSeqEmpty
<1>5. <<>> \o <<>> = <<>>
  BY EmptySeq, ConcatEmptySeq
<1> QED
  BY <1>2, <1>3, <1>4, <1>5

\* The lock after a place has been shown.
LEMMA ShownUnlocks ==
  ASSUME Inv, NEW p \in Places
  PROVE  ~Shown(p).lock
<1>1. Shape(UpdateURI(hist, viewing))
  BY UpdateKeepsShape DEF Inv
<1> DEFINE g == AddURI(UpdateURI(hist, viewing), p)
<1>2. Shape(g)
  BY <1>1, AddKeepsShape
<1>3. ~g.lock
  <2> DEFINE u == UpdateURI(hist, viewing)
             a == IF u.lock THEN u ELSE AddNode(u, p)
  <2>1. g = [a EXCEPT !.lock = FALSE]
    BY DEF AddURI
  <2> HIDE DEF a, u
  <2>2. g.lock \in BOOLEAN
    BY <1>2, ShapeFields
  <2> QED
    BY <1>2, <2>1, ShapeFields
<1> HIDE DEF g
<1>4. UpdateURI(g, p).lock = g.lock
  BY <1>2, UpdatedCurrent
<1> QED
  BY <1>3, <1>4 DEF Shown, g

LEMMA StepKeepsOne ==
  ASSUME MaxLoads <= 1, ~CanFail, Inv, OneAtATime, [Next]_vars
  PROVE  OneAtATime'
<1>1. ShowsCurrent'
  BY StepShows DEF OneAtATime
<1>2. ASSUME NEW p \in Places, Open(p)
      PROVE  OneAtATime'
  <2>1. LoadURI(p, "view") /\ hist' = hist
    BY <1>2 DEF Open
  <2>2. ~hist.lock /\ Len(loads') <= 1
    BY <2>1, NothingLoads
  <2> QED
    BY <1>1, <2>1, <2>2 DEF OneAtATime
<1>3. ASSUME NEW p \in Places, NewPath(p)
      PROVE  OneAtATime'
  <2>1. hist' = [UpdateURI(hist, p) EXCEPT !.lock = TRUE] /\ LoadURI(p, "history")
    BY <1>3 DEF NewPath
  <2>2. Here(hist') = p
    <3>1. Shape(UpdateURI(hist, p)) /\ Here(UpdateURI(hist, p)) = p
      BY UpdateKeepsShape, UpdatedTrails DEF Inv
    <3>2. hist'.list = UpdateURI(hist, p).list
          /\ hist'.position = UpdateURI(hist, p).position
      BY <2>1, <3>1, ShapeFields
    <3> QED
      BY <3>1, <3>2 DEF Here, Current
  <2>3. Len(loads') <= 1 /\ loads' # <<>> /\ loads'[1].place = p
    BY <2>1, NothingLoads
  <2> QED
    BY <1>1, <2>2, <2>3 DEF OneAtATime
<1>4. ASSUME NEW steps \in Steps, Move(steps)
      PROVE  OneAtATime'
  <2> DEFINE updated == UpdateURI(hist, viewing)
             to == Target(hist, steps)
             p == updated.list[to + 1]
  <2>1. /\ hist' = [updated EXCEPT !.position = to, !.lock = TRUE]
        /\ LoadURI(p, "history")
    BY <1>4 DEF Move
  <2>2. Shape(updated) /\ updated.size = hist.size
    BY UpdateKeepsShape DEF Inv
  <2>3. to \in Nat /\ to < hist.size
    BY TargetInRange DEF Inv
  <2>4. p \in Places
    <3> HIDE DEF updated, to
    <3> QED
      BY <2>2, <2>3, ShapeFields, ElementOfSeq
  <2>5. Here(hist') = p
    <3> HIDE DEF updated, to
    <3>1. hist'.list = updated.list /\ hist'.position = to
      BY <2>1, <2>2, ShapeFields
    <3> QED
      BY <3>1 DEF Here, Current
  <2> HIDE DEF p
  <2>6. Len(loads') <= 1 /\ loads' # <<>> /\ loads'[1].place = p
    BY <2>1, <2>4, NothingLoads
  <2> QED
    BY <1>1, <2>5, <2>6 DEF OneAtATime
<1>5. ASSUME NEW i \in DOMAIN loads, Loaded(i)
      PROVE  OneAtATime'
  <2>1. loads' = <<>>
    BY <1>5, LoadedAlone
  <2>2. Len(loads') <= 1
    BY <2>1
  <2>3. loads[i].place \in Places /\ hist' = Shown(loads[i].place)
    BY <1>5, RemoveLoad DEF Loaded
  <2>4. ~hist'.lock
    BY <2>3, ShownUnlocks
  <2> QED
    BY <1>1, <2>2, <2>4 DEF OneAtATime
<1>6. ASSUME NEW i \in DOMAIN loads, LoadFails(i)
      PROVE  OneAtATime'
  BY <1>6 DEF LoadFails
<1>7. CASE UNCHANGED vars
  BY <1>1, <1>7 DEF vars, OneAtATime, Here, Current
<1> QED
  BY <1>2, <1>3, <1>4, <1>5, <1>6, <1>7 DEF Next

\* A place loaded by somebody else than the history is a visit.
LEMMA AddedIsVisit ==
  ASSUME NEW p \in Places, Shape(hist),
         Behind(hist') = Behind(AddNode(hist, p)),
         Here(hist') = p,
         Ahead(hist') = Ahead(AddNode(hist, p))
  PROVE  Trails!Visit(p)
<1>0. /\ hist.list \in Seq(Places) /\ hist.position \in Nat /\ hist.size \in Nat
      /\ hist.size = Len(hist.list)
      /\ hist = [list |-> hist.list, position |-> hist.position,
                 size |-> hist.size, lock |-> hist.lock]
  BY ShapeFields
<1>a. hist.position > 0 =>
        Behind(hist) # <<>> /\ Last(Behind(hist)) = hist.list[hist.position]
  <2>1. ASSUME hist.position > 0
        PROVE  Behind(hist) # <<>> /\ Last(Behind(hist)) = hist.list[hist.position]
    <3> DEFINE g == [hist EXCEPT !.position = @ - 1]
    <3>1. g.list = hist.list /\ g.position = hist.position - 1
      BY <1>0
    <3> HIDE DEF g
    <3> QED
      BY <2>1, <3>1, BackTrails
  <2> QED
    BY <2>1
<1>b. hist.position < hist.size - 1 =>
        Ahead(hist) # <<>> /\ Head(Ahead(hist)) = hist.list[hist.position + 2]
  <2>1. ASSUME hist.position < hist.size - 1
        PROVE  Ahead(hist) # <<>> /\ Head(Ahead(hist)) = hist.list[hist.position + 2]
    <3> DEFINE g == [hist EXCEPT !.position = @ + 1]
    <3>1. g.list = hist.list /\ g.position = hist.position + 1
      BY <1>0
    <3> HIDE DEF g
    <3> QED
      BY <2>1, <3>1, ForwardTrails
  <2> QED
    BY <2>1
<1>c. ~(hist.position > 0) => Behind(hist) = <<>>
  <2>1. ~(hist.position > 0) => hist.position = 0
    BY <1>0
  <2> QED
    BY <1>0, <2>1, SubSeqEmpty DEF Behind
<1>d. ~(hist.position < hist.size - 1) => Ahead(hist) = <<>>
  <2>1. ASSUME ~(hist.position < hist.size - 1)
        PROVE  Len(hist.list) < Current(hist) + 1 /\ Current(hist) + 1 \in Int
               /\ Len(hist.list) \in Int
    BY <1>0, <2>1 DEF Current
  <2> QED
    BY <2>1, SubSeqEmpty DEF Ahead
<1>1. CASE hist.position > 0 /\ hist.list[hist.position] = p
  <2> DEFINE g == [hist EXCEPT !.position = @ - 1]
  <2>1. g.list = hist.list /\ g.position = hist.position - 1
    BY <1>0
  <2>2. AddNode(hist, p) = g
    BY <1>1 DEF AddNode
  <2> HIDE DEF g
  <2>3. /\ Behind(g) = Front(Behind(hist))
        /\ Ahead(g) = <<Here(hist)>> \o Ahead(hist)
    BY <1>1, <2>1, BackTrails
  <2>4. /\ Behind(hist) # <<>>
        /\ Last(Behind(hist)) = p
        /\ Behind(hist') = Front(Behind(hist))
        /\ Here(hist') = Last(Behind(hist))
        /\ Ahead(hist') = <<Here(hist)>> \o Ahead(hist)
    BY <1>1, <1>a, <2>2, <2>3
  <2> QED
    BY <2>4 DEF Trails!Visit, Trails!Back, Trails!Last, Last, Trails!Front, Front,
                Behind, Here, Ahead, Current
<1>2. CASE /\ ~(hist.position > 0 /\ hist.list[hist.position] = p)
           /\ hist.position < hist.size - 1 /\ hist.list[hist.position + 2] = p
  <2> DEFINE g == [hist EXCEPT !.position = @ + 1]
  <2>1. g.list = hist.list /\ g.position = hist.position + 1
    BY <1>0
  <2>2. AddNode(hist, p) = g
    BY <1>2 DEF AddNode
  <2> HIDE DEF g
  <2>3. /\ Behind(g) = Append(Behind(hist), Here(hist))
        /\ Ahead(g) = Tail(Ahead(hist))
    BY <1>2, <2>1, ForwardTrails
  <2>4. /\ ~(Behind(hist) # <<>> /\ Last(Behind(hist)) = p)
        /\ Ahead(hist) # <<>>
        /\ Head(Ahead(hist)) = p
        /\ Behind(hist') = Append(Behind(hist), Here(hist))
        /\ Here(hist') = Head(Ahead(hist))
        /\ Ahead(hist') = Tail(Ahead(hist))
    BY <1>2, <1>a, <1>b, <1>c, <2>2, <2>3
  <2> QED
    BY <2>4 DEF Trails!Visit, Trails!Forward, Trails!Last, Last,
                Behind, Here, Ahead, Current
<1>3. CASE /\ ~(hist.position > 0 /\ hist.list[hist.position] = p)
           /\ ~(hist.position < hist.size - 1 /\ hist.list[hist.position + 2] = p)
  <2>1. AddNode(hist, p) = AppendNode(hist, p)
    BY <1>3 DEF AddNode
  <2>2. /\ ~(Behind(hist) # <<>> /\ Last(Behind(hist)) = p)
        /\ ~(Ahead(hist) # <<>> /\ Head(Ahead(hist)) = p)
        /\ Behind(hist') = Trails!Remember(Append(Behind(hist), Here(hist)))
        /\ Here(hist') = p
        /\ Ahead(hist') = <<>>
    BY <1>3, <1>a, <1>b, <1>c, <1>d, <2>1, AppendedTrails
  <2> QED
    BY <2>2 DEF Trails!Visit, Trails!Last, Last, Behind, Here, Ahead, Current
<1> QED
  BY <1>1, <1>2, <1>3

\* The history is not changed by the place its current node has already.
LEMMA UpdatedInVain ==
  ASSUME NEW h, Shape(h)
  PROVE  UpdateURI(h, Here(h)) = h
<1> DEFINE s == h.list
           n == h.position + 1
           l == [s EXCEPT ![n] = s[n]]
<1>1. s \in Seq(Places) /\ n \in 1..Len(s)
      /\ h = [list |-> s, position |-> h.position, size |-> h.size, lock |-> h.lock]
  BY ShapeFields
<1>2. UpdateURI(h, Here(h)) = [h EXCEPT !.list = l]
  BY DEF UpdateURI, Here, Current
<1>3. l = s
  <2>1. s \in [1..Len(s) -> Places]
    BY <1>1, LenProperties
  <2> HIDE DEF s, n
  <2> QED
    BY <2>1
<1> HIDE DEF l, s, n
<1> QED
  BY <1>1, <1>2, <1>3 DEF s

LEMMA StepIsBrowsing ==
  ASSUME MaxLoads <= 1, ~CanFail, Inv, OneAtATime, [Next]_vars
  PROVE  [Trails!Next]_(Trails!vars)
<1>1. ASSUME Behind(hist') = Behind(hist), Here(hist') = Here(hist),
             Ahead(hist') = Ahead(hist)
      PROVE  UNCHANGED Trails!vars
  BY <1>1 DEF Trails!vars, Behind, Here, Ahead, Current
<1>2. ASSUME NEW p \in Places, Open(p)
      PROVE  UNCHANGED Trails!vars
  BY <1>1, <1>2 DEF Open
<1>3. ASSUME NEW p \in Places, NewPath(p)
      PROVE  Trails!Replace(p)
  <2> DEFINE u == UpdateURI(hist, p)
  <2>1. hist' = [u EXCEPT !.lock = TRUE]
    BY <1>3 DEF NewPath
  <2>2. Shape(u) /\ Behind(u) = Behind(hist) /\ Here(u) = p /\ Ahead(u) = Ahead(hist)
    BY UpdateKeepsShape, UpdatedTrails DEF Inv
  <2> HIDE DEF u
  <2>3. hist'.list = u.list /\ hist'.position = u.position
    BY <2>1, <2>2, ShapeFields
  <2>4. Behind(hist') = Behind(hist) /\ Here(hist') = p /\ Ahead(hist') = Ahead(hist)
    BY <2>2, <2>3, TrailsOf
  <2> QED
    BY <2>4 DEF Trails!Replace, Behind, Here, Ahead, Current
<1>4. ASSUME NEW steps \in Steps, Move(steps)
      PROVE  \E n \in 1..MAX_NODES : Trails!Jump(n)
  <2> DEFINE u == UpdateURI(hist, viewing)
             to == Target(hist, steps)
             n == to + 1
             all == Behind(hist) \o <<Here(hist)>> \o Ahead(hist)
  <2>1. /\ hist' = [u EXCEPT !.position = to, !.lock = TRUE]
        /\ LoadURI(u.list[to + 1], "history")
    BY <1>4 DEF Move
  <2>2. Shape(hist) /\ Shape(u) /\ u.size = hist.size
    BY UpdateKeepsShape DEF Inv
  <2>3. to \in Nat /\ to < hist.size
    BY TargetInRange DEF Inv
  <2>4. u.list[to + 1] \in Places
    <3> HIDE DEF u, to
    <3> QED
      BY <2>2, <2>3, ShapeFields, ElementOfSeq
  <2>5. Here(hist) = viewing
    BY <2>1, <2>4, NothingLoads
  <2>6. u = hist
    BY <2>2, <2>5, UpdatedInVain
  <2>7. all = hist.list
    BY <2>2, TrailsAreTheList
  <2> HIDE DEF u, to
  <2>8. hist'.list = hist.list /\ hist'.position = to
    BY <2>1, <2>2, <2>6, ShapeFields
  <2>9. n \in 1..MAX_NODES /\ n \in DOMAIN hist.list /\ n - 1 = to
    <3>1. /\ hist.list \in Seq(Places) /\ Len(hist.list) = hist.size
          /\ hist.size \in Nat /\ hist.size <= MAX_NODES /\ MAX_NODES \in Nat
      BY <2>2, ShapeFields
    <3>2. DOMAIN hist.list = 1..hist.size
      BY <3>1, LenProperties
    <3> QED
      BY <2>3, <3>1, <3>2
  <2>10. /\ Behind(hist') = SubSeq(all, 1, n - 1)
         /\ Here(hist') = all[n]
         /\ Ahead(hist') = SubSeq(all, n + 1, Len(all))
    <3> HIDE DEF all
    <3> QED
      BY <2>7, <2>8, <2>9 DEF Behind, Here, Ahead, Current
  <2>11. Trails!Jump(n)
    <3>1. n \in DOMAIN all
      BY <2>7, <2>9
    <3> HIDE DEF n
    <3> QED
      BY <2>10, <3>1 DEF Trails!Jump, Behind, Here, Ahead, Current
  <2> HIDE DEF n
  <2> QED
    BY <2>9, <2>11
<1>5. ASSUME NEW i \in DOMAIN loads, Loaded(i)
      PROVE  \/ UNCHANGED Trails!vars
             \/ Trails!Visit(loads[1].place)
  <2> DEFINE p == loads[1].place
             u == UpdateURI(hist, viewing)
             g == AddURI(u, p)
  <2>1. i = 1
    BY <1>5, LoadedAlone
  <2>2. p \in Places /\ hist' = UpdateURI(g, p) /\ Shape(hist) /\ viewing \in Places
    BY <1>5, <2>1, RemoveLoad DEF Loaded, Shown, Inv
  <2>3. Shape(u) /\ Behind(u) = Behind(hist) /\ Ahead(u) = Ahead(hist)
        /\ u.lock = hist.lock
    BY <2>2, UpdateKeepsShape, UpdatedTrails, UpdatedCurrent
  <2> HIDE DEF p, u
  <2>4. Shape(g)
    BY <2>2, <2>3, AddKeepsShape
  <2>5. g = [IF u.lock THEN u ELSE AddNode(u, p) EXCEPT !.lock = FALSE]
    BY DEF AddURI
  <2> HIDE DEF g
  <2>6. Behind(hist') = Behind(g) /\ Here(hist') = p /\ Ahead(hist') = Ahead(g)
    BY <2>2, <2>4, UpdatedTrails
  <2>7. CASE hist.lock
    <3>1. g.list = u.list /\ g.position = u.position
      BY <2>3, <2>5, <2>7, ShapeFields
    <3>2. Behind(g) = Behind(u) /\ Ahead(g) = Ahead(u)
      BY <3>1, TrailsOf
    <3>3. Here(hist) = p
      BY <2>7 DEF OneAtATime, p
    <3> QED
      BY <1>1, <2>3, <2>6, <3>2, <3>3
  <2>8. CASE ~hist.lock
    <3>1. Here(hist) = viewing
      BY <2>8 DEF OneAtATime, ShowsCurrent, Here
    <3>2. u = hist
      BY <2>2, <3>1, UpdatedInVain DEF u
    <3>3. g = [AddNode(hist, p) EXCEPT !.lock = FALSE]
      BY <2>5, <2>8, <3>2
    <3>4. Shape(AddNode(hist, p))
      BY <2>2, AddNodeKeepsShape
    <3>5. g.list = AddNode(hist, p).list /\ g.position = AddNode(hist, p).position
      BY <3>3, <3>4, ShapeFields
    <3>6. Behind(g) = Behind(AddNode(hist, p)) /\ Ahead(g) = Ahead(AddNode(hist, p))
      BY <3>5, TrailsOf
    <3>7. Trails!Visit(p)
      BY <2>2, <2>6, <3>6, AddedIsVisit
    <3> QED
      BY <3>7 DEF p
  <2> QED
    BY <2>7, <2>8
<1>6. ASSUME NEW i \in DOMAIN loads, LoadFails(i)
      PROVE  FALSE
  BY <1>6 DEF LoadFails
<1>7. CASE UNCHANGED vars
  BY <1>1, <1>7 DEF vars
<1>8. ASSUME NEW i \in DOMAIN loads, Loaded(i)
      PROVE  loads[1].place \in Places
  BY <1>8, LoadedAlone, RemoveLoad
<1> QED
  BY <1>2, <1>3, <1>4, <1>5, <1>6, <1>7, <1>8 DEF Next, Trails!Next

\* With one place loaded at a time, which can be loaded, the history of a
\* window keeps the trails behind and ahead of it as the user has made them:
\* it implements Browsing.
THEOREM BrowsingImplemented ==
  ASSUME MaxLoads <= 1, ~CanFail
  PROVE  Spec => BrowsingSpec
<1>1. Init => Inv /\ OneAtATime
  <2> SUFFICES ASSUME Init PROVE Inv /\ OneAtATime
    OBVIOUS
  <2>1. Len(loads) <= 1 /\ ~hist.lock
    BY DEF Init
  <2>2. ShowsCurrent
    BY DEF Init, ShowsCurrent, Current
  <2> QED
    BY <2>1, <2>2, InitInv DEF OneAtATime
<1>2. Init => Trails!Init
  <2> SUFFICES ASSUME Init PROVE Trails!Init
    OBVIOUS
  <2>1. viewing \in Places /\ hist.list = <<viewing>> /\ hist.position = 0
    BY DEF Init
  <2>2. SubSeq(hist.list, 1, 0) = <<>> /\ SubSeq(hist.list, 2, 1) = <<>>
    BY SubSeqEmpty
  <2>3. Len(hist.list) = 1 /\ hist.list[1] = viewing
    BY <2>1
  <2>4. Current(hist) = 1
    BY <2>1 DEF Current
  <2> QED
    BY <2>1, <2>2, <2>3, <2>4 DEF Trails!Init
<1>3. Inv /\ OneAtATime /\ [Next]_vars => (Inv /\ OneAtATime)'
  BY StepKeepsInv, StepKeepsOne
<1>4. Inv /\ OneAtATime /\ [Next]_vars => [Trails!Next]_(Trails!vars)
  BY StepIsBrowsing
<1> QED
  BY <1>1, <1>2, <1>3, <1>4, PTL DEF Spec, BrowsingSpec, Trails!Spec
=============================================================================
