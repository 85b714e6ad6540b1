--------------------------- MODULE ProgramsProofs ---------------------------
(***************************************************************************)
(* Theorems about Programs, for every set of threads, programs, icons and  *)
(* failures: the variables keep their types, a struct wbrun has one owner, *)
(* and is not freed while it has; and, but for two slips of the code, each *)
(* lock that is taken for a start is given back once.                      *)
(***************************************************************************)
EXTENDS Programs, FiniteSetTheorems, TLAPS

-----------------------------------------------------------------------------
(* What wbload_program leaves in a struct wbrun: the locks taken for it    *)
(* are the first few, up to four, and each is kept at one place.           *)

\* No memory for a name leaves a hole in the list of arguments; a project
\* without a path, whose tool has none either, has two home directories, but
\* room for one. See README.md for what comes of that.
NoSlips ==
  /\ "name" \notin Failures
  /\ "plain" \in Names => \A i \in Icons : ~(i.type = "project" /\ i.tool = "plain")

Kinds == {"WB", "TOOLCLI", "SCRIPT", "REXX"}
LocksOf(n) == 1..n \cup {NULL, Garbage}

\* A struct with no other locks than the first n.
Within(n) ==
  [arg : Seq(LocksOf(n)), num : Nat, home : LocksOf(n), free : BOOLEAN,
   seg : BOOLEAN, type : Kinds, held : SUBSET (1..n)]

Size(w) == Cardinality(w.held)

Filled(w) ==
  /\ Size(w) \in Nat /\ w \in Within(Size(w)) /\ w.held = 1..Size(w)
  /\ NoSlips => GivenBack(w) /\ w.num = Len(w.arg)

\* What a function has made of w: one argument more, up to n locks more.
Grown(r, w, n) ==
  /\ r = Ok(r.w) \/ r = Failed(r.w)
  /\ Filled(r.w) /\ Size(r.w) <= Size(w) + n
  /\ r.w.seg = w.seg /\ r.w.type = w.type /\ Len(r.w.arg) = Len(w.arg) + 1

LEMMA SizeOfHeld ==
  ASSUME NEW w, NEW n \in Nat, w.held = 1..n
  PROVE  Size(w) = n
<1>1. Cardinality(1..n) = n
  BY FS_Interval
<1> QED
  BY <1>1 DEF Size

LEMMA WithinGrows ==
  ASSUME NEW m \in Nat, NEW n \in Nat, m <= n, NEW w \in Within(m)
  PROVE  w \in Within(n)
<1>1. LocksOf(m) \subseteq LocksOf(n) /\ 1..m \subseteq 1..n
  BY DEF LocksOf
<1> DEFINE A == LocksOf(m)
           B == LocksOf(n)
<1>2. \A s \in Seq(A) : s \in Seq(B)
  <2> HIDE DEF A, B
  <2>1. A \subseteq B
    BY <1>1 DEF A, B
  <2> QED
    BY <2>1
<1> HIDE DEF A, B
<1>3. Seq(A) \subseteq Seq(B) /\ A \subseteq B
  BY <1>1, <1>2 DEF A, B
<1> QED
  BY <1>1, <1>3 DEF Within, A, B

LEMMA NewFilled ==
  /\ Filled(NewWbrun) /\ Size(NewWbrun) = 0 /\ ~NewWbrun.seg /\ ~NewWbrun.free
  /\ NewWbrun.arg = <<>>
<1> DEFINE w == NewWbrun
<1>1. /\ w.held = {} /\ w.arg = <<>> /\ w.num = 0 /\ w.home = Garbage /\ w.free = FALSE
      /\ w.seg = FALSE /\ w.type = "WB"
  BY DEF NewWbrun
<1>2. Size(w) = 0 /\ w.held = 1..0
  <2>1. w.held = 1..0 /\ 0 \in Nat
    BY <1>1
  <2> QED
    BY <2>1, SizeOfHeld
<1>3. w \in Within(0)
  BY DEF NewWbrun, Within, LocksOf, Kinds
<1>4. GivenBack(w) /\ w.num = Len(w.arg)
  <2>1. Unlocked(w) = {}
    BY <1>1 DEF Unlocked
  <2> QED
    BY <1>1, <2>1 DEF GivenBack
<1> QED
  BY <1>1, <1>2, <1>3, <1>4 DEF Filled

LEMMA FilledParts ==
  ASSUME NEW w, Filled(w)
  PROVE  /\ Size(w) \in Nat /\ Fresh(w) = Size(w) + 1 /\ w.held = 1..Size(w)
         /\ w.arg \in Seq(LocksOf(Size(w))) /\ w.num \in Nat /\ w.home \in LocksOf(Size(w))
         /\ w.free \in BOOLEAN /\ w.seg \in BOOLEAN /\ w.type \in Kinds
         /\ NULL \notin w.held /\ Garbage \notin w.held
         /\ NULL \in LocksOf(Size(w)) /\ Garbage \in LocksOf(Size(w))
  BY ConstantsAssumption DEF Filled, Within, Fresh, Size, LocksOf

\* One more place, with one more lock; or places that have not changed.
LEMMA GivenBackMore ==
  ASSUME NEW w, NEW u, GivenBack(w), NEW k, k \notin Unlocked(w),
         Unlocked(u) = Unlocked(w) \cup {k},
         \A i \in Unlocked(w) : LockAt(u, i) = LockAt(w, i),
         LockAt(u, k) \notin w.held, u.held = w.held \cup {LockAt(u, k)}
  PROVE  GivenBack(u)
<1>1. \A i \in Unlocked(w) : LockAt(w, i) \in w.held
  BY DEF GivenBack
<1>2. {LockAt(u, i) : i \in Unlocked(u)} = u.held
  BY DEF GivenBack
<1>3. \A i, j \in Unlocked(u) : LockAt(u, i) = LockAt(u, j) => i = j
  BY <1>1 DEF GivenBack
<1> QED
  BY <1>2, <1>3 DEF GivenBack

LEMMA GivenBackSame ==
  ASSUME NEW w, NEW u, GivenBack(w), Unlocked(u) = Unlocked(w),
         \A i \in Unlocked(w) : LockAt(u, i) = LockAt(w, i), u.held = w.held
  PROVE  GivenBack(u)
BY DEF GivenBack

\* What a change of fields does to a struct.
LEMMA FilledBy ==
  ASSUME NEW w, Filled(w), NEW u, NEW n \in Nat, n \in {Size(w), Size(w) + 1},
         u \in Within(n), u.held = 1..n,
         NoSlips => GivenBack(u) /\ u.num = Len(u.arg)
  PROVE  Filled(u) /\ Size(u) = n
BY SizeOfHeld DEF Filled

LEMMA WithArgFilled ==
  ASSUME NEW w, Filled(w), NEW l \in {NULL, Fresh(w)}
  PROVE  LET u == WithArg(w, l)
         IN /\ Filled(u) /\ Size(u) <= Size(w) + 1
            /\ u.free = w.free /\ u.seg = w.seg /\ u.type = w.type /\ u.home = w.home
            /\ Len(u.arg) = Len(w.arg) + 1
<1> DEFINE u == WithArg(w, l)
           n == IF l = NULL THEN Size(w) ELSE Size(w) + 1
<1>1. /\ w.arg \in Seq(LocksOf(Size(w))) /\ Size(w) \in Nat /\ w.held = 1..Size(w)
      /\ w.num \in Nat /\ Fresh(w) = Size(w) + 1 /\ Fresh(w) \notin w.held
      /\ NULL \notin w.held /\ NULL # Fresh(w)
  <2>1. NULL \notin Nat
    BY ConstantsAssumption
  <2> QED
    BY <2>1, FilledParts
<1>2. w \in Within(Size(w))
  BY DEF Filled
<1>3. /\ u = [w EXCEPT !.arg = Append(w.arg, l), !.num = w.num + 1,
                       !.held = w.held \cup ({l} \ {NULL})]
      /\ u.arg = Append(w.arg, l) /\ u.num = w.num + 1 /\ u.held = w.held \cup ({l} \ {NULL})
      /\ u.home = w.home /\ u.free = w.free /\ u.seg = w.seg /\ u.type = w.type
  BY <1>2 DEF WithArg, Within
<1>4. n \in Nat /\ Size(w) <= n /\ n <= Size(w) + 1 /\ u.held = 1..n /\ l \in LocksOf(n)
  BY <1>1, <1>3 DEF LocksOf
<1>5. w \in Within(n)
  BY <1>1, <1>2, <1>4, WithinGrows
<1>6. Append(w.arg, l) \in Seq(LocksOf(n))
  <2>1. w.arg \in Seq(LocksOf(n))
    BY <1>5 DEF Within
  <2> HIDE DEF n
  <2> QED
    BY <1>4, <2>1
<1>7. u \in Within(n)
  <2> DEFINE A == Append(w.arg, l)
             S == LocksOf(n)
             Q == Seq(S)
  <2>1. A \in Q /\ w.num + 1 \in Nat /\ w.held \cup ({l} \ {NULL}) \in SUBSET (1..n)
    BY <1>1, <1>3, <1>4, <1>6
  <2>2. u = [w EXCEPT !.arg = A, !.num = w.num + 1, !.held = w.held \cup ({l} \ {NULL})]
    BY <1>3
  <2> HIDE DEF A, u, n, S, Q
  <2> QED
    BY <1>5, <2>1, <2>2 DEF Within, Q, S
<1>8. ASSUME NoSlips
      PROVE  GivenBack(u) /\ u.num = Len(u.arg)
  <2>1. GivenBack(w) /\ w.num = Len(w.arg)
    BY <1>8 DEF Filled
  <2>2. u.num = Len(u.arg)
    BY <1>1, <1>3, <2>1
  <2>3. /\ DOMAIN w.arg = 1..w.num /\ DOMAIN u.arg = 1..(w.num + 1)
        /\ \A i \in 1..w.num : u.arg[i] = w.arg[i]
        /\ u.arg[w.num + 1] = l
    BY <1>1, <1>3, <2>1
  <2> HIDE DEF u
  <2>4. \A i \in 0..w.num : LockAt(u, i) = LockAt(w, i)
    BY <1>1, <1>3, <2>3 DEF LockAt
  <2>5. LockAt(u, w.num + 1) = l
    BY <1>1, <2>3 DEF LockAt
  <2>6. 0..u.num = 0..w.num \cup {w.num + 1} /\ w.num + 1 \notin 0..w.num /\ w.num + 1 # 0
    BY <1>1, <1>3
  <2>7. CASE l = NULL
    <3>1. Unlocked(u) = Unlocked(w)
      BY <1>3, <2>4, <2>5, <2>6, <2>7 DEF Unlocked
    <3>2. \A i \in Unlocked(w) : LockAt(u, i) = LockAt(w, i)
      BY <2>4 DEF Unlocked
    <3>3. u.held = w.held
      BY <1>3, <2>7
    <3> QED
      BY <2>1, <2>2, <3>1, <3>2, <3>3, GivenBackSame
  <2>8. CASE l # NULL
    <3>1. Unlocked(u) = Unlocked(w) \cup {w.num + 1} /\ w.num + 1 \notin Unlocked(w)
      BY <1>3, <2>4, <2>5, <2>6, <2>8 DEF Unlocked
    <3>2. \A i \in Unlocked(w) : LockAt(u, i) = LockAt(w, i)
      BY <2>4 DEF Unlocked
    <3>3. l \notin w.held /\ u.held = w.held \cup {l}
      BY <1>1, <1>3, <2>8
    <3> QED
      BY <2>1, <2>2, <2>5, <3>1, <3>2, <3>3, GivenBackMore
  <2> QED
    BY <2>7, <2>8
<1>9. Len(u.arg) = Len(w.arg) + 1
  BY <1>1, <1>3
<1>10. Filled(u) /\ Size(u) = n
  <2>1. n \in {Size(w), Size(w) + 1}
    OBVIOUS
  <2> HIDE DEF u, n
  <2> QED
    BY <1>4, <1>7, <1>8, <2>1, FilledBy
<1> QED
  BY <1>3, <1>4, <1>9, <1>10

\* A change of the fields that have nothing to do with locks.
LEMMA TypedFilled ==
  ASSUME NEW w, Filled(w), NEW t \in Kinds
  PROVE  LET u == [w EXCEPT !.type = t]
         IN /\ Filled(u) /\ Size(u) = Size(w) /\ u.free = w.free /\ u.seg = w.seg
            /\ u.arg = w.arg /\ u.type = t
<1> DEFINE u == [w EXCEPT !.type = t]
<1>1. w \in Within(Size(w)) /\ Size(w) \in Nat /\ w.held = 1..Size(w)
  BY DEF Filled
<1>2. /\ u \in Within(Size(w)) /\ u.held = w.held /\ u.free = w.free /\ u.seg = w.seg
      /\ u.arg = w.arg /\ u.type = t /\ u.num = w.num /\ u.home = w.home
  BY <1>1 DEF Within
<1> HIDE DEF u
<1>3. \A i : LockAt(u, i) = LockAt(w, i)
  BY <1>2 DEF LockAt
<1>4. Unlocked(u) = Unlocked(w)
  BY <1>2, <1>3 DEF Unlocked
<1>5. NoSlips => GivenBack(u) /\ u.num = Len(u.arg)
  BY <1>2, <1>3, <1>4, GivenBackSame DEF Filled
<1>6. Filled(u) /\ Size(u) = Size(w)
  BY <1>1, <1>2, <1>5, FilledBy
<1> QED
  BY <1>2, <1>6 DEF u

LEMMA SegFilled ==
  ASSUME NEW w, Filled(w)
  PROVE  LET u == [w EXCEPT !.seg = TRUE]
         IN Filled(u) /\ Size(u) = Size(w) /\ u.seg /\ u.type = w.type
<1> DEFINE u == [w EXCEPT !.seg = TRUE]
<1>1. w \in Within(Size(w)) /\ Size(w) \in Nat /\ w.held = 1..Size(w)
  BY DEF Filled
<1>2. /\ u \in Within(Size(w)) /\ u.held = w.held /\ u.free = w.free /\ u.seg = TRUE
      /\ u.arg = w.arg /\ u.type = w.type /\ u.num = w.num /\ u.home = w.home
  BY <1>1 DEF Within
<1> HIDE DEF u
<1>3. \A i : LockAt(u, i) = LockAt(w, i)
  BY <1>2 DEF LockAt
<1>4. Unlocked(u) = Unlocked(w)
  BY <1>2, <1>3 DEF Unlocked
<1>5. NoSlips => GivenBack(u) /\ u.num = Len(u.arg)
  BY <1>2, <1>3, <1>4, GivenBackSame DEF Filled
<1>6. Filled(u) /\ Size(u) = Size(w)
  BY <1>1, <1>2, <1>5, FilledBy
<1> QED
  BY <1>2, <1>6 DEF u

\* The home directory is where the first argument is.
LEMMA HomeFilled ==
  ASSUME NEW w, Filled(w), Len(w.arg) >= 1, NoSlips => ~w.free
  PROVE  LET u == HomeIsFirst(w)
         IN /\ Filled(u) /\ Size(u) = Size(w) /\ u.free = w.free /\ u.seg = w.seg
            /\ u.arg = w.arg /\ u.type = w.type
<1> DEFINE u == HomeIsFirst(w)
           h == w.arg[1]
<1>1. w \in Within(Size(w)) /\ Size(w) \in Nat /\ w.held = 1..Size(w)
  BY DEF Filled
<1>2. h \in LocksOf(Size(w))
  <2>1. w.arg \in Seq(LocksOf(Size(w)))
    BY <1>1 DEF Within
  <2> QED
    BY <2>1
<1>3. u = [w EXCEPT !.home = h]
  BY DEF HomeIsFirst
<1> HIDE DEF h, u
<1>4. /\ u \in Within(Size(w)) /\ u.held = w.held /\ u.free = w.free /\ u.seg = w.seg
      /\ u.arg = w.arg /\ u.type = w.type /\ u.num = w.num
  BY <1>1, <1>2, <1>3 DEF Within
<1>5. \A i : i # 0 => LockAt(u, i) = LockAt(w, i)
  BY <1>4 DEF LockAt
<1>6. Unlocked(u) = Unlocked(w)
  BY <1>4, <1>5 DEF Unlocked
<1>7. ASSUME NoSlips
      PROVE  GivenBack(u) /\ u.num = Len(u.arg)
  <2>1. 0 \notin Unlocked(w)
    BY <1>7 DEF Unlocked
  <2> QED
    BY <1>4, <1>5, <1>6, <1>7, <2>1, GivenBackSame DEF Filled
<1>8. Filled(u) /\ Size(u) = Size(w)
  BY <1>1, <1>4, <1>7, FilledBy
<1> QED
  BY <1>4, <1>8 DEF u

LEMMA OkFields ==
  ASSUME NEW w
  PROVE  Ok(w).w = w /\ Ok(w).ok = TRUE /\ Failed(w).w = w /\ Failed(w).ok = FALSE
  BY DEF Ok, Failed

LEMMA FillArgGrown ==
  ASSUME NEW w, Filled(w), NEW name, NEW r \in FillArg(w, name)
  PROVE  Grown(r, w, 1) /\ r.w.free = w.free
<1>1. \/ r = Ok(WithArg(w, Fresh(w)))
      \/ r = Failed(WithArg(w, NULL)) \/ r = Failed(WithArg(w, Fresh(w)))
      \/ "name" \in Failures /\ r = Failed([w EXCEPT !.arg = Append(@, Garbage)])
  BY DEF FillArg
<1>2. ASSUME NEW l \in {NULL, Fresh(w)}, r = Ok(WithArg(w, l)) \/ r = Failed(WithArg(w, l))
      PROVE  Grown(r, w, 1) /\ r.w.free = w.free
  <2>1. r.w = WithArg(w, l)
    BY <1>2, OkFields
  <2>2. /\ Filled(r.w) /\ Size(r.w) <= Size(w) + 1
        /\ r.w.free = w.free /\ r.w.seg = w.seg /\ r.w.type = w.type
        /\ Len(r.w.arg) = Len(w.arg) + 1
    BY <2>1, WithArgFilled
  <2> QED
    BY <1>2, <2>1, <2>2 DEF Grown
<1>3. ASSUME "name" \in Failures, r = Failed([w EXCEPT !.arg = Append(@, Garbage)])
      PROVE  Grown(r, w, 1) /\ r.w.free = w.free
  <2> DEFINE a == Append(w.arg, Garbage)
             u == [w EXCEPT !.arg = a]
  <2>1. r = Failed(u) /\ r.w = u
    BY <1>3, OkFields
  <2>2. w \in Within(Size(w)) /\ Size(w) \in Nat /\ w.held = 1..Size(w)
    BY DEF Filled
  <2>3. a \in Seq(LocksOf(Size(w))) /\ Len(a) = Len(w.arg) + 1
    <3>1. w.arg \in Seq(LocksOf(Size(w))) /\ Garbage \in LocksOf(Size(w))
      BY FilledParts
    <3> QED
      BY <3>1
  <2> HIDE DEF a
  <2>4. /\ u \in Within(Size(w)) /\ u.held = w.held /\ u.free = w.free /\ u.seg = w.seg
        /\ u.arg = a /\ u.type = w.type
    BY <2>2, <2>3 DEF Within
  <2> HIDE DEF u
  <2>5. ~NoSlips
    BY <1>3 DEF NoSlips
  <2>6. Filled(u) /\ Size(u) = Size(w)
    BY <2>2, <2>4, <2>5, FilledBy
  <2> QED
    BY <2>1, <2>2, <2>3, <2>4, <2>6 DEF Grown
<1> QED
  BY <1>1, <1>2, <1>3

\* The home directory is locked, or has been found to be that of the first
\* argument.
LEMMA HomeLocked ==
  ASSUME NEW w, Filled(w), NoSlips => ~w.free
  PROVE  LET u == WithHome([w |-> [w EXCEPT !.held = @ \cup {Fresh(w)}], lock |-> Fresh(w)])
         IN /\ Filled(u) /\ Size(u) = Size(w) + 1 /\ u.seg = w.seg
            /\ u.arg = w.arg /\ u.type = w.type
<1> DEFINE f == Fresh(w)
           n == Size(w) + 1
           u == [w EXCEPT !.held = w.held \cup {f}, !.home = f, !.free = TRUE]
<1>1. /\ w \in Within(Size(w)) /\ Size(w) \in Nat /\ w.held = 1..Size(w) /\ n \in Nat
      /\ f = n /\ Size(w) <= n /\ f # NULL /\ f \notin w.held
  <2>1. NULL \notin Nat /\ Fresh(w) = Size(w) + 1 /\ Size(w) \in Nat /\ w.held = 1..Size(w)
    BY FilledParts, ConstantsAssumption
  <2> QED
    BY <2>1 DEF Filled
<1>2. w \in Within(n)
  BY <1>1, WithinGrows
<1>3. WithHome([w |-> [w EXCEPT !.held = @ \cup {f}], lock |-> f]) = u
  <2>1. f # NULL
    BY <1>1
  <2> HIDE DEF f, n
  <2> QED
    BY <1>2, <2>1 DEF WithHome, Within
<1>4. f \in LocksOf(n) /\ w.held \cup {f} = 1..n
  BY <1>1 DEF LocksOf
<1>5. /\ u \in Within(n) /\ u.held = w.held \cup {f} /\ u.free = TRUE /\ u.seg = w.seg
      /\ u.arg = w.arg /\ u.type = w.type /\ u.num = w.num /\ u.home = f
  <2> HIDE DEF f, n
  <2> QED
    BY <1>2, <1>4 DEF Within
<1> HIDE DEF f, u, n
<1>6. \A i : i # 0 => LockAt(u, i) = LockAt(w, i)
  BY <1>5 DEF LockAt
<1>7. ASSUME NoSlips
      PROVE  GivenBack(u) /\ u.num = Len(u.arg)
  <2>1. w.num \in Nat
    BY FilledParts
  <2>2. Unlocked(u) = Unlocked(w) \cup {0} /\ 0 \notin Unlocked(w)
    BY <1>5, <1>6, <1>7, <2>1 DEF Unlocked
  <2>3. LockAt(u, 0) = f
    BY <1>5 DEF LockAt
  <2>4. \A i \in Unlocked(w) : LockAt(u, i) = LockAt(w, i)
    BY <1>6, <2>2
  <2>5. GivenBack(w) /\ w.num = Len(w.arg)
    BY <1>7 DEF Filled
  <2> QED
    BY <1>1, <1>5, <2>2, <2>3, <2>4, <2>5, GivenBackMore
<1>8. Filled(u) /\ Size(u) = n
  <2>1. n \in {Size(w), Size(w) + 1}
    BY DEF n
  <2> QED
    BY <1>1, <1>4, <1>5, <1>7, <2>1, FilledBy
<1> QED
  BY <1>3, <1>5, <1>8 DEF n, f

\* There is none, or none is found.
LEMMA HomeNone ==
  ASSUME NEW w, Filled(w), NoSlips => ~w.free
  PROVE  LET u == WithHome([w |-> w, lock |-> NULL])
         IN Filled(u) /\ Size(u) = Size(w) /\ u.seg = w.seg /\ u.arg = w.arg /\ u.type = w.type
<1> DEFINE u == WithHome([w |-> w, lock |-> NULL])
<1>1. w \in Within(Size(w)) /\ Size(w) \in Nat /\ w.held = 1..Size(w)
  BY DEF Filled
<1>2. NULL \in LocksOf(Size(w))
  BY DEF LocksOf
<1>3. u = [w EXCEPT !.home = NULL, !.free = w.free]
  BY <1>1 DEF WithHome, Within
<1> HIDE DEF u
<1>4. /\ u \in Within(Size(w)) /\ u.held = w.held /\ u.free = w.free /\ u.seg = w.seg
      /\ u.arg = w.arg /\ u.type = w.type /\ u.num = w.num
  BY <1>1, <1>2, <1>3 DEF Within
<1>5. \A i : i # 0 => LockAt(u, i) = LockAt(w, i)
  BY <1>4 DEF LockAt
<1>6. Unlocked(u) = Unlocked(w)
  BY <1>4, <1>5 DEF Unlocked
<1>7. ASSUME NoSlips
      PROVE  GivenBack(u) /\ u.num = Len(u.arg)
  <2>1. 0 \notin Unlocked(w)
    BY <1>7 DEF Unlocked
  <2> QED
    BY <1>4, <1>5, <1>6, <1>7, <2>1, GivenBackSame DEF Filled
<1>8. Filled(u) /\ Size(u) = Size(w)
  BY <1>1, <1>4, <1>7, FilledBy
<1> QED
  BY <1>4, <1>8 DEF u

LEMMA ScanFilled ==
  ASSUME NEW w, Filled(w), NoSlips => ~w.free, NEW s \in ScanLoadPath(w)
  PROVE  LET u == WithHome(s)
         IN Filled(u) /\ Size(u) <= Size(w) + 1 /\ u.seg = w.seg /\ u.arg = w.arg /\ u.type = w.type
<1>1. Size(w) \in Nat
  BY DEF Filled
<1>2. CASE s = [w |-> w, lock |-> NULL]
  BY <1>1, <1>2, HomeNone
<1>3. CASE s = [w |-> [w EXCEPT !.held = @ \cup {Fresh(w)}], lock |-> Fresh(w)]
  <2>1. LET u == WithHome(s)
        IN Filled(u) /\ Size(u) = Size(w) + 1 /\ u.seg = w.seg /\ u.arg = w.arg /\ u.type = w.type
    BY <1>3, HomeLocked
  <2> QED
    BY <1>1, <2>1
<1> QED
  BY <1>2, <1>3 DEF ScanLoadPath

LEMMA FillCliGrown ==
  ASSUME NEW w, Filled(w), NoSlips => ~w.free, NEW name, NEW r \in FillCli(w, name)
  PROVE  Grown(r, w, 2) /\ (NoSlips /\ r.w.free => r.ok /\ name # "path")
<1>1. PICK f \in FillArg(w, name) :
        \/ ~f.ok /\ r = f
        \/ f.ok /\ name = "path" /\ r = Ok(HomeIsFirst(f.w))
        \/ f.ok /\ name # "path" /\ \E s \in ScanLoadPath(f.w) : r = Ok(WithHome(s))
  BY DEF FillCli, Then
<1>2. /\ Grown(f, w, 1) /\ f.w.free = w.free
      /\ Filled(f.w) /\ Size(f.w) <= Size(w) + 1
      /\ f.w.seg = w.seg /\ f.w.type = w.type /\ Len(f.w.arg) = Len(w.arg) + 1
  BY FillArgGrown DEF Grown
<1>3. Size(w) \in Nat /\ Size(f.w) \in Nat /\ Len(w.arg) \in Nat
  <2>1. w.arg \in Seq(LocksOf(Size(w)))
    BY FilledParts
  <2> QED
    BY <1>2, <2>1 DEF Filled
<1>4. CASE ~f.ok /\ r = f
  BY <1>2, <1>3, <1>4 DEF Grown
<1>5. CASE name = "path" /\ r = Ok(HomeIsFirst(f.w))
  <2>1. r.w = HomeIsFirst(f.w)
    BY <1>5, OkFields
  <2>2. Len(f.w.arg) >= 1
    BY <1>2, <1>3
  <2>3. /\ Filled(r.w) /\ Size(r.w) = Size(f.w) /\ r.w.free = f.w.free
        /\ r.w.seg = f.w.seg /\ r.w.arg = f.w.arg /\ r.w.type = f.w.type
    BY <1>2, <2>1, <2>2, HomeFilled
  <2> QED
    BY <1>2, <1>3, <1>5, <2>1, <2>3 DEF Grown
<1>6. ASSUME NEW s \in ScanLoadPath(f.w), name # "path", r = Ok(WithHome(s))
      PROVE  Grown(r, w, 2) /\ r.ok
  <2>1. r.w = WithHome(s) /\ r.ok
    BY <1>6, OkFields
  <2>2. /\ Filled(r.w) /\ Size(r.w) <= Size(f.w) + 1
        /\ r.w.seg = f.w.seg /\ r.w.arg = f.w.arg /\ r.w.type = f.w.type
    BY <1>2, <2>1, ScanFilled
  <2>3. Size(r.w) <= Size(w) + 2
    BY <1>2, <1>3, <2>2 DEF Filled
  <2> QED
    BY <1>2, <1>6, <2>1, <2>2, <2>3 DEF Grown
<1> QED
  BY <1>1, <1>4, <1>5, <1>6

LEMMA FillCliToolGrown ==
  ASSUME NEW w, Filled(w), NoSlips => ~w.free, NEW r \in FillCliTool(w)
  PROVE  Grown(r, w, 2)
<1> DEFINE Parent(v) == [w |-> [v EXCEPT !.held = @ \cup {Fresh(v)}], lock |-> Fresh(v)]
<1>1. PICK f \in FillArg(w, "path") :
        \/ ~f.ok /\ r = f
        \/ r = Ok(WithHome(Parent(f.w)))
        \/ r = Failed(f.w)
  BY DEF FillCliTool, Then
<1>2. /\ Grown(f, w, 1) /\ f.w.free = w.free
      /\ Filled(f.w) /\ Size(f.w) <= Size(w) + 1
      /\ f.w.seg = w.seg /\ f.w.type = w.type /\ Len(f.w.arg) = Len(w.arg) + 1
  BY FillArgGrown DEF Grown
<1>3. Size(w) \in Nat /\ Size(f.w) \in Nat
  BY <1>2 DEF Filled
<1>4. CASE ~f.ok /\ r = f
  BY <1>2, <1>3, <1>4 DEF Grown
<1>6. CASE r = Failed(f.w)
  <2>1. r.w = f.w
    BY <1>6, OkFields
  <2> QED
    BY <1>2, <1>3, <1>6, <2>1 DEF Grown
<1>5. CASE r = Ok(WithHome(Parent(f.w)))
  <2>1. r.w = WithHome(Parent(f.w))
    <3> HIDE DEF Parent
    <3> QED
      BY <1>5, OkFields
  <2>2. /\ Filled(r.w) /\ Size(r.w) = Size(f.w) + 1
        /\ r.w.seg = f.w.seg /\ r.w.arg = f.w.arg /\ r.w.type = f.w.type
    BY <1>2, <2>1, HomeLocked
  <2> HIDE DEF Parent
  <2>3. r = Ok(r.w)
    BY <1>5, <2>1
  <2> QED
    BY <1>2, <1>3, <2>2, <2>3 DEF Grown
<1> QED
  BY <1>1, <1>4, <1>5, <1>6

\* Two arguments change places.
LEMMA SwappedFilled ==
  ASSUME NEW w, Filled(w), Len(w.arg) >= 2
  PROVE  LET u == Swapped(w)
         IN /\ Filled(u) /\ Size(u) = Size(w) /\ u.free = w.free
            /\ Len(u.arg) = Len(w.arg)
<1> DEFINE L == LocksOf(Size(w))
           a == [w.arg EXCEPT ![1] = w.arg[2], ![2] = w.arg[1]]
           u == [w EXCEPT !.arg = a]
           P(i) == IF i = 1 THEN 2 ELSE IF i = 2 THEN 1 ELSE i
<1>1. w \in Within(Size(w)) /\ Size(w) \in Nat /\ w.held = 1..Size(w)
  BY DEF Filled
<1>2. w.arg \in Seq(L) /\ w.num \in Nat
  BY <1>1 DEF Within
<1>3. Swapped(w) = u
  BY <1>1 DEF Swapped, Within
<1>4. /\ a \in Seq(L) /\ Len(a) = Len(w.arg) /\ DOMAIN a = DOMAIN w.arg
      /\ a[1] = w.arg[2] /\ a[2] = w.arg[1]
      /\ \A i \in DOMAIN w.arg : i \notin {1, 2} => a[i] = w.arg[i]
      /\ 1 \in DOMAIN w.arg /\ 2 \in DOMAIN w.arg
      /\ DOMAIN w.arg = 1..Len(w.arg)
  <2> HIDE DEF L
  <2> QED
    BY <1>2
<1> HIDE DEF a
<1>5. /\ u \in Within(Size(w)) /\ u.held = w.held /\ u.free = w.free /\ u.arg = a
      /\ u.num = w.num /\ u.home = w.home
  BY <1>1, <1>4 DEF Within
<1> HIDE DEF u
<1>6. \A i : LockAt(u, i) = LockAt(w, P(i))
  BY <1>4, <1>5 DEF LockAt
<1>7. ASSUME NoSlips
      PROVE  GivenBack(u) /\ u.num = Len(u.arg)
  <2>1. GivenBack(w) /\ w.num = Len(w.arg) /\ Len(w.arg) >= 2
    BY <1>7 DEF Filled
  <2>2. \A i \in 0..w.num : P(i) \in 0..w.num /\ P(P(i)) = i /\ (P(i) = 0 <=> i = 0)
    BY <1>2, <2>1
  <2>3. \A i \in 0..w.num : i \in Unlocked(u) <=> P(i) \in Unlocked(w)
    BY <1>5, <1>6, <2>2 DEF Unlocked
  <2>4. Unlocked(u) \subseteq 0..w.num /\ Unlocked(w) \subseteq 0..w.num
    BY <1>5 DEF Unlocked
  <2> HIDE DEF P
  <2>5. \A i \in Unlocked(w) : P(i) \in Unlocked(u) /\ LockAt(u, P(i)) = LockAt(w, i)
    BY <1>6, <2>2, <2>3, <2>4
  <2>6. {LockAt(u, i) : i \in Unlocked(u)} = {LockAt(w, i) : i \in Unlocked(w)}
    BY <1>6, <2>3, <2>4, <2>5
  <2>7. ASSUME NEW i \in Unlocked(u), NEW j \in Unlocked(u), LockAt(u, i) = LockAt(u, j)
        PROVE  i = j
    <3>1. P(i) = P(j)
      BY <1>6, <2>1, <2>3, <2>4, <2>7 DEF GivenBack
    <3> QED
      BY <2>2, <2>4, <3>1
  <2>8. GivenBack(u)
    BY <1>5, <2>1, <2>6, <2>7 DEF GivenBack
  <2> QED
    BY <1>4, <1>5, <2>1, <2>8
<1>8. Filled(u) /\ Size(u) = Size(w)
  BY <1>1, <1>5, <1>7, FilledBy
<1> QED
  BY <1>3, <1>4, <1>5, <1>8

\* What a function leaves that may take n locks in all.
Made(r, n) == (r = Ok(r.w) \/ r = Failed(r.w)) /\ Filled(r.w) /\ Size(r.w) <= n

LEMMA GrownMade ==
  ASSUME NEW w, Filled(w), NEW n \in Nat, NEW r, Grown(r, w, n),
         NEW m \in Nat, Size(w) + n <= m
  PROVE  Made(r, m)
<1>1. Size(w) \in Nat /\ Size(r.w) \in Nat
  BY DEF Filled, Grown
<1> QED
  BY <1>1 DEF Grown, Made

LEMMA OkMade ==
  ASSUME NEW w, Filled(w), NEW n, Size(w) <= n
  PROVE  Made(Ok(w), n) /\ Made(Failed(w), n)
  BY OkFields DEF Made

LEMMA ResultIs ==
  ASSUME NEW u, NEW b, NEW g \in [w : {u}, ok : {b}]
  PROVE  g = [w |-> u, ok |-> b]
OBVIOUS

LEMMA OkChanged ==
  ASSUME NEW v, NEW u, NEW f
  PROVE  /\ f = Ok(v) => [f EXCEPT !.w = u] = Ok(u)
         /\ f = Failed(v) => [f EXCEPT !.w = u] = Failed(u)
<1>1. ASSUME f = Ok(v)
      PROVE  [f EXCEPT !.w = u] = Ok(u)
  <2>1. f \in [w : {v}, ok : {TRUE}]
    BY <1>1 DEF Ok
  <2>2. [f EXCEPT !.w = u] \in [w : {u}, ok : {TRUE}]
    BY <2>1
  <2> QED
    BY <2>2, ResultIs DEF Ok
<1>2. ASSUME f = Failed(v)
      PROVE  [f EXCEPT !.w = u] = Failed(u)
  <2>1. f \in [w : {v}, ok : {FALSE}]
    BY <1>2 DEF Failed
  <2>2. [f EXCEPT !.w = u] \in [w : {u}, ok : {FALSE}]
    BY <2>1
  <2> QED
    BY <2>2, ResultIs DEF Failed
<1> QED
  BY <1>1, <1>2

LEMMA SomeArgs ==
  ASSUME NEW w, Filled(w)
  PROVE  Len(w.arg) \in Nat
<1>1. w.arg \in Seq(LocksOf(Size(w)))
  BY FilledParts
<1> QED
  BY <1>1

\* A project, or a command, whose icon names a tool with a path.
LEMMA ToolPathMade ==
  ASSUME NEW w, Filled(w), Size(w) = 0, NoSlips => ~w.free, NEW name, NEW i,
         i.tool = "path", i.type \in {"project", "cli"}, NEW r \in WithTool(w, name, i)
  PROVE  Made(r, 4)
<1>1. CASE i.type = "project"
  <2> DEFINE R == Then(FillArg(w, "path"), LAMBDA v : FillArg(v, name))
  <2>1. PICK f \in R : \/ ~f.ok /\ r = f
                       \/ r = Ok([HomeIsFirst(f.w) EXCEPT !.type = "WB"])
    BY <1>1 DEF WithTool, Then
  <2>2. PICK g \in FillArg(w, "path") : f = g \/ f \in FillArg(g.w, name)
    BY DEF Then
  <2>3. Grown(g, w, 1) /\ g.w.free = w.free
    BY FillArgGrown
  <2>4. f = g \/ (Grown(f, g.w, 1) /\ f.w.free = g.w.free)
    BY <2>2, <2>3, FillArgGrown DEF Grown
  <2>5. /\ f = Ok(f.w) \/ f = Failed(f.w)
        /\ Filled(f.w) /\ Size(f.w) <= 2 /\ f.w.free = w.free /\ Len(f.w.arg) >= 1
    <3>1. Len(w.arg) \in Nat /\ Size(g.w) \in Nat /\ Filled(g.w) /\ Size(f.w) \in Nat
      BY <2>3, <2>4, SomeArgs DEF Grown, Filled
    <3>2. Len(g.w.arg) = Len(w.arg) + 1 /\ Size(g.w) <= 1
      BY <2>3 DEF Grown
    <3> QED
      BY <2>3, <2>4, <3>1, <3>2 DEF Grown
  <2>6. CASE r = f
    BY <2>5, <2>6 DEF Made, Filled
  <2>7. CASE r = Ok([HomeIsFirst(f.w) EXCEPT !.type = "WB"])
    <3> DEFINE h == HomeIsFirst(f.w)
               u == [h EXCEPT !.type = "WB"]
    <3>1. Filled(h) /\ Size(h) = Size(f.w)
      BY <2>5, HomeFilled
    <3> HIDE DEF h
    <3>2. Filled(u) /\ Size(u) = Size(h)
      BY <3>1, TypedFilled DEF Kinds
    <3> HIDE DEF u
    <3>3. r = Ok(u)
      BY <2>7 DEF u, h
    <3>4. Size(u) <= 4
      BY <2>5, <3>1, <3>2 DEF Filled
    <3> QED
      BY <3>2, <3>3, <3>4, OkMade
  <2> QED
    BY <2>1, <2>6, <2>7
<1>2. CASE i.type = "cli"
  <2> DEFINE t == [w EXCEPT !.type = "TOOLCLI"]
  <2>1. PICK f \in FillCliTool(t) : r = f \/ r \in FillArg(f.w, name)
    BY <1>2 DEF WithTool, Then
  <2>2. Filled(t) /\ Size(t) = 0 /\ t.free = w.free
    BY TypedFilled DEF Kinds
  <2> HIDE DEF t
  <2>3. Grown(f, t, 2)
    BY <2>2, FillCliToolGrown
  <2>4. Filled(f.w) /\ Size(f.w) <= 2 /\ Size(f.w) \in Nat
    BY <2>2, <2>3 DEF Grown, Filled
  <2>5. CASE r = f
    BY <2>2, <2>3, <2>5, GrownMade
  <2>6. CASE r \in FillArg(f.w, name)
    <3>1. Grown(r, f.w, 1)
      BY <2>4, <2>6, FillArgGrown
    <3>2. Size(f.w) + 1 <= 4
      BY <2>4
    <3> QED
      BY <2>4, <3>1, <3>2, GrownMade
  <2> QED
    BY <2>1, <2>5, <2>6
<1> QED
  BY <1>1, <1>2

\* A tool without a path comes in front of the project, or of what it says.
LEMMA ToolPlainMade ==
  ASSUME NEW w, Filled(w), Size(w) = 0, NoSlips => ~w.free, NEW name \in Names,
         NEW i \in Icons, i.tool = "plain", i.type \in {"project", "cli"},
         NEW r \in WithTool(w, name, i)
  PROVE  Made(r, 4)
<1> DEFINE R1 == IF i.type = "project" THEN FillCli(w, name) ELSE FillArg(w, name)
           R2 == Then(R1, LAMBDA v : FillArg(v, "plain"))
           kind == IF i.type = "project" THEN "WB" ELSE "TOOLCLI"
           Home(s) == IF s.lock = NULL THEN HomeIsFirst(s.w) ELSE WithHome(s)
<1>1. PICK f \in R2 :
        \/ ~f.ok /\ r = f
        \/ f.ok /\ \E s \in ScanLoadPath(Swapped(f.w)) : r = Ok([Home(s) EXCEPT !.type = kind])
  BY DEF WithTool, Then
<1>2. PICK g \in R1 : (~g.ok /\ f = g) \/ (g.ok /\ f \in FillArg(g.w, "plain"))
  BY DEF Then
<1>3. Grown(g, w, 2) /\ (NoSlips /\ g.w.free => g.ok /\ name # "path" /\ i.type = "project")
  <2>1. CASE i.type = "project"
    BY <2>1, FillCliGrown
  <2>2. CASE i.type # "project"
    <3>1. Grown(g, w, 1) /\ g.w.free = w.free
      BY <2>2, FillArgGrown
    <3> QED
      BY <3>1 DEF Grown, Filled
  <2> QED
    BY <2>1, <2>2
<1>4. NoSlips => ~g.w.free
  BY <1>3, ConstantsAssumption DEF NoSlips
<1>5. /\ Filled(g.w) /\ Size(g.w) \in Nat /\ Size(g.w) <= 2
      /\ Len(g.w.arg) \in Nat /\ Len(g.w.arg) >= 1
  <2>1. Len(w.arg) \in Nat /\ Len(g.w.arg) = Len(w.arg) + 1
    BY <1>3, SomeArgs DEF Grown
  <2> QED
    BY <1>3, <2>1 DEF Grown, Filled
<1>6. CASE f = g /\ ~f.ok
  <2>1. r = g
    BY <1>1, <1>6
  <2> QED
    BY <1>3, <2>1, GrownMade
<1>7. ASSUME g.ok, f \in FillArg(g.w, "plain")
      PROVE  Made(r, 4)
  <2>1. Grown(f, g.w, 1) /\ f.w.free = g.w.free
    BY <1>5, <1>7, FillArgGrown
  <2>2. /\ Filled(f.w) /\ Size(f.w) \in Nat /\ Size(f.w) <= 3 /\ Len(f.w.arg) >= 2
        /\ NoSlips => ~f.w.free
    BY <1>4, <1>5, <2>1 DEF Grown, Filled
  <2>3. CASE r = f
    <3>1. Size(g.w) + 1 <= 4
      BY <1>5
    <3> QED
      BY <1>5, <2>1, <2>3, <3>1, GrownMade
  <2>4. ASSUME NEW s \in ScanLoadPath(Swapped(f.w)), r = Ok([Home(s) EXCEPT !.type = kind])
        PROVE  Made(r, 4)
    <3> DEFINE v == Swapped(f.w)
               h == Home(s)
               u == [h EXCEPT !.type = kind]
    <3>1. Filled(v) /\ Size(v) = Size(f.w) /\ v.free = f.w.free /\ Len(v.arg) >= 1
      <4>1. Filled(v) /\ Size(v) = Size(f.w) /\ v.free = f.w.free /\ Len(v.arg) = Len(f.w.arg)
        BY <2>2, SwappedFilled
      <4> QED
        BY <2>2, <4>1
    <3> HIDE DEF v
    <3>2. Filled(h) /\ Size(h) <= Size(v) + 1
      <4>1. CASE s.lock = NULL
        <5>1. s = [w |-> v, lock |-> NULL]
          <6>1. Fresh(v) # NULL
            BY <3>1, FilledParts, ConstantsAssumption
          <6> QED
            BY <4>1, <6>1 DEF ScanLoadPath, v
        <5>2. Filled(HomeIsFirst(v)) /\ Size(HomeIsFirst(v)) = Size(v)
          BY <2>2, <3>1, HomeFilled
        <5>3. h = HomeIsFirst(v)
          BY <4>1, <5>1
        <5> QED
          BY <2>2, <3>1, <5>2, <5>3
      <4>2. CASE s.lock # NULL
        <5>1. h = WithHome(s) /\ s \in ScanLoadPath(v)
          BY <4>2 DEF v
        <5> QED
          BY <2>2, <3>1, <5>1, ScanFilled
      <4> QED
        BY <4>1, <4>2
    <3>3. kind \in Kinds
      BY DEF Kinds
    <3> HIDE DEF h, kind
    <3>4. Filled(u) /\ Size(u) = Size(h)
      BY <3>2, <3>3, TypedFilled
    <3> HIDE DEF u
    <3>5. r = Ok(u)
      BY <2>4 DEF u, h
    <3>6. Size(u) <= 4
      BY <2>2, <3>1, <3>2, <3>4 DEF Filled
    <3> QED
      BY <3>4, <3>5, <3>6, OkMade
  <2> QED
    BY <1>1, <2>3, <2>4
<1> QED
  BY <1>2, <1>6, <1>7

LEMMA AsCommandMade ==
  ASSUME NEW w, Filled(w), Size(w) <= 2, NoSlips => ~w.free, NEW name, NEW t \in Kinds,
         NEW u, u = [w EXCEPT !.type = t], NEW r \in FillCli(u, name)
  PROVE  /\ Made(r, 4) /\ (NoSlips /\ r.w.free => r.ok)
         /\ Size(w) = 0 => Size(r.w) <= 2
<1>1. Filled(u) /\ Size(u) = Size(w) /\ u.free = w.free /\ Size(w) \in Nat
  BY TypedFilled DEF Filled
<1>2. Grown(r, u, 2) /\ (NoSlips /\ r.w.free => r.ok)
  BY <1>1, FillCliGrown
<1>3. Size(u) + 2 <= 4
  BY <1>1
<1>4. Made(r, 4)
  BY <1>1, <1>2, <1>3, GrownMade
<1> QED
  BY <1>1, <1>2, <1>4 DEF Grown

\* wbload_program, before it loads.
LEMMA ByIconMade ==
  ASSUME NEW name \in Names, NEW i \in Icons, NEW r \in ByIcon(NewWbrun, name, i)
  PROVE  Made(r, 4)
<1> DEFINE w == NewWbrun
<1>1. Filled(w) /\ Size(w) = 0 /\ (NoSlips => ~w.free)
  BY NewFilled
<1> HIDE DEF w
<1>2. CASE i.type = "tool"
  <2>1. PICK f \in FillArg(w, name), t \in {"WB", "SCRIPT"} :
          r = [f EXCEPT !.w = [HomeIsFirst(f.w) EXCEPT !.type = t]]
    BY <1>2 DEF ByIcon, w
  <2>2. Grown(f, w, 1) /\ f.w.free = w.free
    BY <1>1, FillArgGrown
  <2>3. /\ Filled(f.w) /\ Len(f.w.arg) >= 1 /\ Size(f.w) <= 1 /\ Size(f.w) \in Nat
        /\ f = Ok(f.w) \/ f = Failed(f.w)
    BY <1>1, <2>2, SomeArgs DEF Grown, Filled
  <2> DEFINE h == HomeIsFirst(f.w)
             u == [h EXCEPT !.type = t]
  <2>4. Filled(h) /\ Size(h) = Size(f.w)
    BY <1>1, <2>2, <2>3, HomeFilled
  <2> HIDE DEF h
  <2>5. Filled(u) /\ Size(u) = Size(h)
    BY <2>4, TypedFilled DEF Kinds
  <2> HIDE DEF u
  <2>6. r = Ok(u) \/ r = Failed(u)
    <3>1. r = [f EXCEPT !.w = u]
      BY <2>1 DEF u, h
    <3> QED
      BY <2>3, <3>1, OkChanged
  <2>7. Size(u) <= 4
    BY <2>3, <2>4, <2>5
  <2> QED
    BY <2>5, <2>6, <2>7, OkMade
<1>3. CASE i.type \in {"project", "cli"}
  <2>1. r \in WithTool(w, name, i)
    BY <1>3 DEF ByIcon, w
  <2>2. CASE i.tool = "path"
    BY <1>1, <1>3, <2>1, <2>2, ToolPathMade
  <2>3. CASE i.tool = "plain"
    BY <1>1, <1>3, <2>1, <2>3, ToolPlainMade
  <2>4. CASE i.tool \notin {"path", "plain"}
    <3> DEFINE u == [w EXCEPT !.type = "TOOLCLI"]
    <3>1. r \in FillCli(u, name)
      BY <2>1, <2>4 DEF WithTool
    <3>2. "TOOLCLI" \in Kinds /\ Size(w) <= 2
      BY <1>1 DEF Kinds
    <3> QED
      BY <1>1, <3>1, <3>2, AsCommandMade
  <2> QED
    BY <2>2, <2>3, <2>4
<1>4. CASE i.type \notin {"tool", "project", "cli"}
  <2> DEFINE u == [w EXCEPT !.type = "REXX"]
  <2>1. Filled(u) /\ Size(u) = 0
    BY <1>1, TypedFilled DEF Kinds
  <2> HIDE DEF u
  <2>2. r = Failed(u)
    BY <1>4 DEF ByIcon, w, u
  <2> QED
    BY <2>1, <2>2, OkMade
<1> QED
  BY <1>2, <1>3, <1>4

LEMMA WithoutIconMade ==
  ASSUME NEW name, NEW r \in WithoutIcon(NewWbrun, name)
  PROVE  Made(r, 4)
<1> DEFINE w == NewWbrun
<1>1. Filled(w) /\ Size(w) = 0 /\ (NoSlips => ~w.free)
  BY NewFilled
<1> HIDE DEF w
<1>0. Size(w) <= 2 /\ "TOOLCLI" \in Kinds /\ "SCRIPT" \in Kinds
  BY <1>1 DEF Kinds
<1>2. CASE r \in AsCommand(w, name)
  BY <1>0, <1>1, <1>2, AsCommandMade DEF AsCommand
<1>3. ASSUME NEW f \in FillCli([w EXCEPT !.type = "SCRIPT"], name),
             (f.ok /\ r = f) \/ (~f.ok /\ r \in AsCommand(f.w, name))
      PROVE  Made(r, 4)
  <2>1. Made(f, 4) /\ (NoSlips /\ f.w.free => f.ok) /\ Size(f.w) <= 2
    BY <1>0, <1>1, AsCommandMade
  <2>2. CASE r = f
    BY <2>1, <2>2
  <2>3. CASE ~f.ok /\ r \in AsCommand(f.w, name)
    BY <1>0, <2>1, <2>3, AsCommandMade DEF AsCommand, Made
  <2> QED
    BY <1>3, <2>2, <2>3
<1> QED
  BY <1>2, <1>3 DEF WithoutIcon, w

\* What is loaded, and has to be for what gets a process.
LEMMA LoadedMade ==
  ASSUME NEW known \in BOOLEAN, NEW name \in Names, NEW r \in Loaded(name, known)
  PROVE  Made(r, 4) /\ (r.ok /\ r.w.type = "WB" => r.w.seg)
<1> DEFINE R == IF known THEN UNION {ByIcon(NewWbrun, name, i) : i \in Icons}
                         ELSE WithoutIcon(NewWbrun, name)
<1>1. PICK g \in R : (~g.ok /\ r = g) \/ (g.ok /\ r \in LoadSeg(g.w))
  BY DEF Loaded, Then
<1>2. Made(g, 4)
  BY ByIconMade, WithoutIconMade
<1>3. CASE r = g /\ ~g.ok
  BY <1>2, <1>3
<1>4. CASE r \in LoadSeg(g.w)
  <2> DEFINE u == [g.w EXCEPT !.seg = TRUE]
  <2>1. /\ Filled(u) /\ Size(u) = Size(g.w) /\ u.seg
        /\ Filled(g.w) /\ Size(g.w) <= 4
    BY <1>2, SegFilled DEF Made
  <2> HIDE DEF u
  <2>2. \/ r = Ok(u) \/ r = Failed(g.w)
        \/ g.w.type # "WB" /\ r = Ok(g.w)
    BY <1>4 DEF LoadSeg, u
  <2>3. Made(r, 4)
    BY <2>1, <2>2, OkMade
  <2> QED
    BY <2>1, <2>2, <2>3, OkFields
<1> QED
  BY <1>1, <1>3, <1>4

\* Many more places, with as many locks.
LEMMA GivenBackAdd ==
  ASSUME NEW w, NEW u, GivenBack(w), NEW N, N \cap Unlocked(w) = {},
         Unlocked(u) = Unlocked(w) \cup N,
         \A i \in Unlocked(w) : LockAt(u, i) = LockAt(w, i),
         \A i \in N : LockAt(u, i) \notin w.held,
         \A i, j \in N : LockAt(u, i) = LockAt(u, j) => i = j,
         u.held = w.held \cup {LockAt(u, i) : i \in N}
  PROVE  GivenBack(u)
<1>1. \A i \in Unlocked(w) : LockAt(w, i) \in w.held
  BY DEF GivenBack
<1>2. {LockAt(u, i) : i \in Unlocked(u)} = u.held
  BY DEF GivenBack
<1>3. \A i, j \in Unlocked(u) : LockAt(u, i) = LockAt(u, j) => i = j
  BY <1>1 DEF GivenBack
<1> QED
  BY <1>2, <1>3 DEF GivenBack

LEMMA Appended ==
  ASSUME NEW A, NEW s \in Seq(A), NEW c \in Seq(A)
  PROVE  LET a == s \o c
         IN /\ a \in Seq(A) /\ Len(s) \in Nat /\ Len(a) = Len(s) + Len(c)
            /\ DOMAIN s = 1..Len(s) /\ DOMAIN a = 1..(Len(s) + Len(c))
            /\ \A i \in 1..Len(s) : a[i] = s[i]
            /\ \A i \in 1..Len(c) : a[Len(s) + i] = c[i]
<1>1. /\ s \o c \in Seq(A) /\ Len(s) \in Nat /\ Len(s \o c) = Len(s) + Len(c)
      /\ DOMAIN s = 1..Len(s) /\ DOMAIN (s \o c) = 1..(Len(s) + Len(c))
  OBVIOUS
<1>2. \A i \in 1..Len(s) : (s \o c)[i] = s[i]
  OBVIOUS
<1>3. \A i \in 1..Len(c) : (s \o c)[Len(s) + i] = c[i]
  OBVIOUS
<1> QED
  BY <1>1, <1>2, <1>3

\* The arguments of the caller follow, with locks of their own.
LEMMA CopiedRight ==
  ASSUME NEW w, Filled(w), Size(w) <= 4, NEW k \in 0..MaxArgs, NEW v \in SUBSET (1..k)
  PROVE  LET u == Copied(w, k, v)
         IN u \in Wbrun /\ u.seg = w.seg /\ u.type = w.type /\ (NoSlips => GivenBack(u))
<1> DEFINE f == Fresh(w)
           c == [i \in 1..k |-> IF i \in v THEN NULL ELSE f + i]
           more == {f + i : i \in (1..k) \ v}
           A == LockIds \cup {NULL, Garbage}
           a == w.arg \o c
           u == [w EXCEPT !.arg = a, !.num = w.num + k, !.held = w.held \cup more]
<1>1. /\ Size(w) \in Nat /\ f = Size(w) + 1 /\ f \in Nat /\ w.held = 1..Size(w)
      /\ k \in Nat /\ k <= MaxArgs /\ MaxArgs \in Nat /\ w.num \in Nat
      /\ NULL \notin Nat
  BY ConstantsAssumption, FilledParts
<1>2. w \in Within(Size(w))
  BY DEF Filled
<1>3. 1..Size(w) \subseteq LockIds /\ more \subseteq LockIds
  <2> HIDE DEF f
  <2> QED
    BY <1>1 DEF LockIds
<1>4. LocksOf(Size(w)) \subseteq A
  BY <1>3 DEF LocksOf
<1>5. Copied(w, k, v) = u
  BY <1>2 DEF Copied, Within
<1>6. w.arg \in Seq(LocksOf(Size(w))) /\ w.home \in A
  BY <1>2, <1>4 DEF Within
<1>7. c \in Seq(A) /\ Len(c) = k
  <2>1. \A i \in 1..k : c[i] \in A
    BY <1>3
  <2> HIDE DEF A, f
  <2> QED
    BY <1>1, <2>1
<1>8. /\ a \in Seq(A) /\ Len(w.arg) \in Nat /\ Len(a) = Len(w.arg) + k
      /\ DOMAIN w.arg = 1..Len(w.arg) /\ DOMAIN a = 1..(Len(w.arg) + k)
      /\ \A i \in 1..Len(w.arg) : a[i] = w.arg[i]
      /\ \A i \in 1..k : a[Len(w.arg) + i] = c[i]
  <2> HIDE DEF A, c
  <2>1. w.arg \in Seq(A)
    <3> DEFINE B == LocksOf(Size(w))
    <3>1. B \subseteq A /\ w.arg \in Seq(B)
      BY <1>4, <1>6
    <3> HIDE DEF B
    <3> QED
      BY <3>1
  <2> DEFINE s == w.arg
  <2> HIDE DEF s
  <2>2. s \in Seq(A) /\ c \in Seq(A) /\ a = s \o c
    BY <1>7, <2>1 DEF s
  <2> HIDE DEF a
  <2>3. /\ a \in Seq(A) /\ Len(s) \in Nat /\ Len(a) = Len(s) + Len(c)
        /\ DOMAIN s = 1..Len(s) /\ DOMAIN a = 1..(Len(s) + Len(c))
        /\ \A i \in 1..Len(s) : a[i] = s[i]
        /\ \A i \in 1..Len(c) : a[Len(s) + i] = c[i]
    BY <2>2, Appended
  <2> QED
    BY <1>7, <2>3 DEF s
<1> HIDE DEF a
<1>9. /\ u.arg = a /\ u.num = w.num + k /\ u.held = w.held \cup more
      /\ u.home = w.home /\ u.free = w.free /\ u.seg = w.seg /\ u.type = w.type
  BY <1>2 DEF Within
<1>10. u \in Wbrun
  <2>1. w.num + k \in Nat /\ w.held \cup more \in SUBSET LockIds
    BY <1>1, <1>3
  <2> DEFINE Q == Seq(A)
             L == LockIds
  <2>2. a \in Q
    BY <1>8
  <2>3. w \in [arg : Seq(LocksOf(Size(w))), num : Nat, home : A, free : BOOLEAN,
               seg : BOOLEAN, type : Kinds, held : SUBSET (1..Size(w))]
    BY <1>2, <1>6 DEF Within
  <2> HIDE DEF more, Q, A, L
  <2>4. u \in [arg : Q, num : Nat, home : A, free : BOOLEAN,
               seg : BOOLEAN, type : Kinds, held : SUBSET L]
    BY <2>1, <2>2, <2>3 DEF L
  <2> QED
    BY <2>4 DEF Wbrun, Kinds, Q, A, L
<1>11. ASSUME NoSlips
       PROVE  GivenBack(u)
  <2> DEFINE m == w.num
             N == {m + i : i \in (1..k) \ v}
  <2>1. GivenBack(w) /\ m = Len(w.arg)
    BY <1>11 DEF Filled
  <2> HIDE DEF u
  <2>2. \A i \in 0..m : LockAt(u, i) = LockAt(w, i)
    BY <1>1, <1>8, <1>9, <2>1 DEF LockAt
  <2>3. \A i \in 1..k : LockAt(u, m + i) = IF i \in v THEN NULL ELSE f + i
    <3>1. \A i \in 1..k : m + i \in DOMAIN a /\ m + i # 0 /\ a[m + i] = c[i]
      BY <1>1, <1>8, <2>1
    <3> HIDE DEF f
    <3> QED
      BY <1>9, <3>1 DEF LockAt
  <2>4. \A i \in 1..k : f + i # NULL /\ f + i \notin w.held
    BY <1>1
  <2>5. /\ \A i \in 0..u.num : i \in 0..m \/ \E j \in 1..k : i = m + j
        /\ \A j \in 1..k : m + j \in 0..u.num /\ m + j \notin 0..m /\ m + j # 0
        /\ 0..m \subseteq 0..u.num
    <3>1. \A i \in 0..(m + k) : i \in 0..m \/ (i - m \in 1..k /\ i = m + (i - m))
      BY <1>1
    <3>2. \A i \in 0..u.num : i \in 0..m \/ \E j \in 1..k : i = m + j
      BY <1>9, <3>1
    <3>3. /\ \A j \in 1..k : m + j \in 0..u.num /\ m + j \notin 0..m /\ m + j # 0
          /\ 0..m \subseteq 0..u.num
      BY <1>1, <1>9
    <3> QED
      BY <3>2, <3>3
  <2>6. Unlocked(w) \subseteq 0..m
    BY DEF Unlocked
  <2> HIDE DEF f
  <2>7. Unlocked(u) = Unlocked(w) \cup N
    <3>1. \A i \in 0..m : i \in Unlocked(u) <=> i \in Unlocked(w)
      BY <1>9, <2>2, <2>5 DEF Unlocked
    <3>2. \A j \in 1..k : m + j \in Unlocked(u) <=> j \notin v
      BY <2>3, <2>4, <2>5 DEF Unlocked
    <3>3. Unlocked(u) \subseteq 0..u.num
      BY DEF Unlocked
    <3> HIDE DEF m
    <3>4. ASSUME NEW i \in Unlocked(u)
          PROVE  i \in Unlocked(w) \cup N
      BY <2>5, <3>1, <3>2, <3>3
    <3> QED
      BY <2>6, <3>1, <3>2, <3>4
  <2>8. N \cap Unlocked(w) = {}
    BY <2>5, <2>6
  <2>9. \A i \in N : LockAt(u, i) \notin w.held
    BY <2>3, <2>4
  <2>10. \A i, j \in N : LockAt(u, i) = LockAt(u, j) => i = j
    <3>1. \A i, j \in 1..k : f + i = f + j => i = j
      BY <1>1
    <3> HIDE DEF m
    <3>2. \A i, j \in (1..k) \ v : LockAt(u, m + i) = LockAt(u, m + j) => i = j
      BY <2>3, <3>1
    <3> QED
      BY <3>2
  <2>11. {LockAt(u, i) : i \in N} = more
    BY <2>3
  <2>12. \A i \in Unlocked(w) : LockAt(u, i) = LockAt(w, i)
    BY <2>2, <2>6
  <2> HIDE DEF N, more
  <2> QED
    BY <1>9, <2>1, <2>7, <2>8, <2>9, <2>10, <2>11, <2>12, GivenBackAdd
<1> HIDE DEF u
<1> QED
  BY <1>5, <1>9, <1>10, <1>11

\* What a struct is when it is not filled any more.
Right(w) == w \in Wbrun /\ (NoSlips => GivenBack(w))

LEMMA ArgumentsRight ==
  ASSUME NEW w, Filled(w), Size(w) <= 4, NEW r \in CopyArguments(w)
  PROVE  Right(r.w) /\ r.w.seg = w.seg /\ r.w.type = w.type
<1>1. PICK n \in 0..MaxArgs : r \in CopyGiven(w, n)
  BY DEF CopyArguments
<1> DEFINE A == {Ok(Copied(w, n, v)) : v \in SUBSET (1..n)}
           B(k) == {Failed(Copied(w, k, v \cup {k})) : v \in SUBSET (1..k)}
           C(k) == {Failed(Copied(w, k, v)) : v \in SUBSET (1..k)}
           Goal == Right(r.w) /\ r.w.seg = w.seg /\ r.w.type = w.type
<1>2. r \in A \/ (\E k \in 1..n : r \in B(k)) \/ (\E k \in 0..(n - 1) : r \in C(k))
  <2> HIDE DEF A
  <2>1. \/ r \in A
        \/ r \in UNION {B(k) : k \in IF "lock" \in Failures THEN 1..n ELSE {}}
        \/ r \in UNION {C(k) : k \in IF "memory" \in Failures THEN 0..(n - 1) ELSE {}}
    BY <1>1 DEF CopyGiven, A
  <2> HIDE DEF B, C
  <2> QED
    BY <2>1
<1>3. ASSUME NEW k \in 0..MaxArgs, NEW v \in SUBSET (1..k), r.w = Copied(w, k, v)
      PROVE  Goal
  BY <1>3, CopiedRight DEF Right
<1>4. n \in Nat /\ n <= MaxArgs /\ MaxArgs \in Nat
  BY ConstantsAssumption
<1> HIDE DEF Goal
<1>5. ASSUME r \in A
      PROVE  Goal
  <2>1. PICK v \in SUBSET (1..n) : r = Ok(Copied(w, n, v))
    BY <1>5
  <2> QED
    BY <1>3, <2>1, OkFields
<1>6. ASSUME NEW k \in 1..n, r \in B(k)
      PROVE  Goal
  <2>1. PICK v \in SUBSET (1..k) : r = Failed(Copied(w, k, v \cup {k}))
    BY <1>6
  <2>2. v \cup {k} \in SUBSET (1..k) /\ k \in 0..MaxArgs
    BY <1>4
  <2> QED
    BY <1>3, <2>1, <2>2, OkFields
<1>7. ASSUME NEW k \in 0..(n - 1), r \in C(k)
      PROVE  Goal
  <2>1. PICK v \in SUBSET (1..k) : r = Failed(Copied(w, k, v))
    BY <1>7
  <2>2. k \in 0..MaxArgs
    BY <1>4
  <2> QED
    BY <1>3, <2>1, <2>2, OkFields
<1> HIDE DEF A, B, C
<1>8. Goal
  BY <1>2, <1>5, <1>6, <1>7
<1> QED
  BY <1>8 DEF Goal

LEMMA FilledRight ==
  ASSUME NEW w, Filled(w), Size(w) <= 4
  PROVE  Right(w)
<1>1. /\ Size(w) \in Nat /\ w \in Within(Size(w)) /\ MaxArgs \in Nat
      /\ NoSlips => GivenBack(w)
  BY ConstantsAssumption DEF Filled
<1>2. 1..Size(w) \subseteq LockIds
  BY <1>1 DEF LockIds
<1> DEFINE A == LockIds \cup {NULL, Garbage}
           B == LocksOf(Size(w))
<1>3. B \subseteq A
  BY <1>2 DEF LocksOf
<1>4. \A s \in Seq(B) : s \in Seq(A)
  <2> HIDE DEF A, B
  <2> QED
    BY <1>3
<1>5. w \in [arg : Seq(B), num : Nat, home : B, free : BOOLEAN,
             seg : BOOLEAN, type : Kinds, held : SUBSET (1..Size(w))]
  BY <1>1 DEF Within
<1> DEFINE QA == Seq(A)
           QB == Seq(B)
<1>6. w \in [arg : QA, num : Nat, home : A, free : BOOLEAN,
             seg : BOOLEAN, type : Kinds, held : SUBSET LockIds]
  <2>1. QB \subseteq QA
    BY <1>4
  <2>2. w \in [arg : QB, num : Nat, home : B, free : BOOLEAN,
               seg : BOOLEAN, type : Kinds, held : SUBSET (1..Size(w))]
    BY <1>5
  <2> HIDE DEF A, B, QA, QB
  <2> QED
    BY <1>2, <1>3, <2>1, <2>2
<1> QED
  BY <1>1, <1>6 DEF Right, Wbrun, Kinds

\* When v_wbstart makes a process, counts down for a command or gives up.
LEMMA PreparedRight ==
  ASSUME NEW known \in BOOLEAN, NEW r \in Prepared[known]
  PROVE  /\ Right(r.w)
         /\ r.ok /\ r.w.type = "WB" => r.w.seg
         /\ r.ok /\ r.w.type # "WB" => Filled(r.w) /\ Size(r.w) <= 4
<1>1. PICK name \in Names :
        r \in Then(Loaded(name, known),
                  LAMBDA w : IF w.type = "WB" THEN CopyArguments(w) ELSE {Ok(w)})
  BY DEF Prepared
<1>2. PICK f \in Loaded(name, known) :
        \/ ~f.ok /\ r = f
        \/ f.ok /\ f.w.type = "WB" /\ r \in CopyArguments(f.w)
        \/ f.ok /\ f.w.type # "WB" /\ r = Ok(f.w)
  BY <1>1 DEF Then
<1>3. Filled(f.w) /\ Size(f.w) <= 4 /\ (f.ok /\ f.w.type = "WB" => f.w.seg)
  BY LoadedMade DEF Made
<1>4. CASE ~f.ok /\ r = f
  BY <1>3, <1>4, FilledRight
<1>5. CASE f.ok /\ f.w.type = "WB" /\ r \in CopyArguments(f.w)
  BY <1>3, <1>5, ArgumentsRight
<1>6. CASE f.ok /\ f.w.type # "WB" /\ r = Ok(f.w)
  BY <1>3, <1>6, FilledRight, OkFields
<1> QED
  BY <1>2, <1>4, <1>5, <1>6

-----------------------------------------------------------------------------
(* The invariant: what keeps a struct wbrun in the hands of one.           *)

Before == {"job", "up", "up2", "new"}
AtPort(s) == \E i \in DOMAIN wbstartport : wbstartport[i] = s
Used(s) == \E t \in Tasks : s = Current(t) /\ pc[t] \in Building

Typed ==
  /\ pc \in [Tasks -> Places] /\ starts \in [Tasks -> 0..MaxStarts]
  /\ icon \in [Tasks -> BOOLEAN] /\ DOMAIN run = Starts
  /\ memory \subseteq Starts /\ programs \subseteq Starts
  /\ wbstartport \in Seq(Starts)
  /\ ipcport \in Seq([of : Clients, type : {"wbstartlib", "path"}])
  /\ propjobs \subseteq Clients

\* Who is in v_wbstart has been counted.
Begun == \A t \in Tasks : pc[t] \notin {"idle", "plain"} => starts[t] >= 1

\* Who is answered waits for it, for one answer only.
Asked ==
  /\ \A i \in DOMAIN ipcport :
       pc[ipcport[i].of] = IF ipcport[i].type = "path" THEN "plain" ELSE "props"
  /\ \A i, j \in DOMAIN ipcport : ipcport[i].of = ipcport[j].of => i = j
  /\ \A c \in propjobs : pc[c] = "props" /\ c \notin Asking

\* Nothing has been allocated for a start that is to come.
NotYet ==
  /\ \A s \in memory : s[2] <= starts[s[1]]
  /\ \A t \in Tasks : pc[t] \in Before => Current(t) \notin memory

\* A task has its struct for itself, and a program loaded when it makes a
\* process for it.
Mine ==
  \A t \in Tasks : pc[t] \in Building =>
    /\ Current(t) \in memory /\ Current(t) \notin programs
    /\ ~AtPort(Current(t))
Ready == \A t \in Tasks : pc[t] = "process" => run[Current(t)].seg

\* So has a program; and the port, each message once.
Running == \A s \in programs : s \in memory /\ run[s].seg /\ ~AtPort(s)
Back ==
  /\ \A i \in DOMAIN wbstartport : wbstartport[i] \in memory
  /\ \A i, j \in DOMAIN wbstartport : wbstartport[i] = wbstartport[j] => i = j

\* Nothing is lost as long as Ambient runs.
Kept ==
  mpc # "gone" => \A s \in memory : Used(s) \/ s \in programs \/ AtPort(s)

Placed == Typed /\ Begun /\ Asked
Owned == NotYet /\ Mine /\ Ready /\ Running /\ Back /\ Kept
IInv == Placed /\ Owned

LEMMA CurrentInStarts ==
  ASSUME Typed, Begun, NEW t \in Tasks, pc[t] \notin {"idle", "plain"}
  PROVE  Current(t) \in Starts
  BY ConstantsAssumption DEF Typed, Begun, Current, Starts

LEMMA TasksDiffer ==
  ASSUME NEW t \in Tasks, NEW u \in Tasks, Current(t) = Current(u)
  PROVE  t = u
  BY DEF Current

\* The invariant says what OneOwner does.
LEMMA OwnedOnce == IInv => OneOwner
<1> SUFFICES ASSUME IInv PROVE OneOwner
  OBVIOUS
<1> USE DEF IInv, Owned, Placed
<1>1. ASSUME mpc # "gone", NEW s \in Starts
      PROVE  Cardinality(Owners(s)) = IF s \in memory THEN 1 ELSE 0
  <2>1. /\ "task" \in Owners(s) <=> Used(s)
        /\ "program" \in Owners(s) <=> s \in programs
        /\ "port" \in Owners(s) <=> AtPort(s)
        /\ Owners(s) \subseteq {"task", "program", "port"}
    BY DEF Owners, Used, AtPort
  <2>2. CASE s \notin memory
    <3>1. ~Used(s) /\ s \notin programs /\ ~AtPort(s)
      BY <2>2 DEF Mine, Used, Running, Back, AtPort
    <3>2. Owners(s) = {}
      BY <2>1, <3>1
    <3> QED
      BY <2>2, <3>2, FS_EmptySet
  <2>3. CASE s \in memory
    <3>1. Used(s) => s \notin programs /\ ~AtPort(s)
      BY DEF Mine, Used
    <3>2. s \in programs => ~AtPort(s)
      BY DEF Running
    <3>3. Used(s) \/ s \in programs \/ AtPort(s)
      BY <1>1, <2>3 DEF Kept
    <3>4. \E o : Owners(s) = {o}
      <4>1. CASE Used(s)
        BY <2>1, <3>1, <4>1
      <4>2. CASE s \in programs
        BY <2>1, <3>1, <3>2, <4>2
      <4>3. CASE AtPort(s)
        BY <2>1, <3>1, <3>2, <4>3
      <4> QED
        BY <3>3, <4>1, <4>2, <4>3
    <3> QED
      BY <2>3, <3>4, FS_Singleton
  <2> QED
    BY <2>2, <2>3
<1> QED
  BY <1>1 DEF OneOwner, Running

LEMMA InitIInv == Init => IInv
<1> SUFFICES ASSUME Init PROVE IInv
  OBVIOUS
<1>1. Typed
  BY ConstantsAssumption DEF Init, Typed, Places
<1>2. Begun /\ Asked
  BY DEF Init, Begun, Asked
<1>3. Owned
  BY DEF Init, Owned, NotYet, Mine, Ready, Running, Back, Kept, Before, Building
<1> QED
  BY <1>1, <1>2, <1>3 DEF IInv, Placed

-----------------------------------------------------------------------------
(* Who waits for an answer, and what the variables hold.                   *)

TypedWbruns ==
  /\ DOMAIN run = Starts /\ memory \subseteq Starts /\ programs \subseteq Starts
  /\ wbstartport \in Seq(Starts)

LEMMA WbrunsTyped ==
  ASSUME IInv, [Next]_vars
  PROVE  TypedWbruns'
<1> USE DEF IInv, Placed, Typed, TypedWbruns
<1>1. CASE UNCHANGED wbruns
  BY <1>1 DEF wbruns
<1>2. ASSUME NEW t \in Tasks, Allocate(t)
      PROVE  TypedWbruns'
  BY <1>2, CurrentInStarts DEF Allocate, Goto
<1>3. ASSUME NEW t \in Tasks, Load(t) \/ CopyForCommand(t) \/ Command(t) \/ GiveUp(t)
      PROVE  TypedWbruns'
  BY <1>3 DEF Load, CopyForCommand, Command, GiveUp, Freed
<1>4. ASSUME NEW t \in Tasks, CreateProcess(t)
      PROVE  TypedWbruns'
  BY <1>4, CurrentInStarts DEF CreateProcess, Goto
<1>5. ASSUME NEW s \in Starts, ProgramEnds(s)
      PROVE  TypedWbruns'
  <2>1. TypedWbruns
    OBVIOUS
  <2>2. Append(wbstartport, s) \in Seq(Starts)
    OBVIOUS
  <2>3. wbstartport' \in Seq(Starts)
    BY <1>5, <2>2 DEF ProgramEnds
  <2> HIDE DEF IInv, Placed, Typed
  <2> QED
    BY <1>5, <2>1, <2>3 DEF ProgramEnds
<1>6. CASE StartHandle
  <2>1. CASE wbstartport # <<>> /\ Freed(Head(wbstartport))
             /\ wbstartport' = Tail(wbstartport) /\ UNCHANGED programs
    <3>1. Tail(wbstartport) \in Seq(Starts)
      BY <2>1
    <3>2. DOMAIN run' = Starts /\ memory' \subseteq Starts
      BY <2>1 DEF Freed
    <3> QED
      BY <2>1, <3>1, <3>2
  <2> QED
    BY <1>1, <1>6, <2>1 DEF StartHandle, wbruns
<1>7. CASE CloseStart
  BY <1>7 DEF CloseStart
<1>8. ASSUME NEW t \in Tasks,
             JobBegins(t) \/ JobRefused(t) \/ CountUp(t) \/ CountDown(t)
               \/ CountCommandDown(t) \/ Properties(t) \/ FindIpc(t)
               \/ PutIpc(t) \/ Return(t)
      PROVE  UNCHANGED wbruns
  BY <1>8 DEF JobBegins, JobRefused, CountUp, CountDown, CountCommandDown, Read,
              Write, Properties, FindIpc, PutIpc, Return
<1>9. CASE IpcEnter \/ IpcMessage \/ IpcLeave \/ Preclose \/ Quit \/ Cleanup
             \/ CloseLib \/ CloseIpc
  BY <1>1, <1>9 DEF IpcEnter, IpcMessage, IpcLeave, Preclose, Quit, Cleanup,
                    CloseLib, CloseIpc
<1>10. ASSUME NEW t, Job(t) \/ LibCall(t) \/ AskPath(t) \/ PropsJob(t)
                      \/ PropsRefused(t)
       PROVE  UNCHANGED wbruns
  BY <1>10 DEF Job, LibCall, AskPath, PropsJob, PropsRefused
<1>11. CASE UNCHANGED vars
  BY <1>1, <1>11 DEF vars
<1> HIDE DEF IInv, Placed, Typed, TypedWbruns
<1> QED
  BY <1>1, <1>2, <1>3, <1>4, <1>5, <1>6, <1>7, <1>8, <1>9, <1>10, <1>11
     DEF Next, MainNext, TaskNext

TypedTasks ==
  /\ pc \in [Tasks -> Places] /\ starts \in [Tasks -> 0..MaxStarts]
  /\ icon \in [Tasks -> BOOLEAN]
  /\ ipcport \in Seq([of : Clients, type : {"wbstartlib", "path"}])
  /\ propjobs \subseteq Clients
Waiting == TypedTasks /\ Begun /\ Asked

LEMMA ClientOfMessage ==
  ASSUME TypedTasks, NEW i \in DOMAIN ipcport
  PROVE  ipcport[i].of \in Clients /\ ipcport[i].type \in {"wbstartlib", "path"}
<1> DEFINE Messages == [of : Clients, type : {"wbstartlib", "path"}]
<1>1. ipcport \in Seq(Messages)
  BY DEF TypedTasks
<1> HIDE DEF Messages
<1>2. ipcport[i] \in Messages
  BY <1>1
<1> QED
  BY <1>2 DEF Messages

\* A task that waits for nothing goes on.
LEMMA TaskWaiting ==
  ASSUME Waiting, NEW t \in Tasks, NEW to \in Places,
         pc[t] \notin {"idle", "plain", "props"}, pc' = [pc EXCEPT ![t] = to],
         icon' \in [Tasks -> BOOLEAN], UNCHANGED <<starts, ipcport, propjobs>>
  PROVE  Waiting'
<1> USE DEF Waiting
<1>1. TypedTasks'
  BY DEF TypedTasks
<1>2. Begun'
  BY DEF Begun, TypedTasks
<1>3. Asked'
  <2>1. ASSUME NEW i \in DOMAIN ipcport
        PROVE  pc'[ipcport[i].of] = pc[ipcport[i].of]
    BY DEF Asked, TypedTasks
  <2>2. ASSUME NEW c \in propjobs
        PROVE  pc'[c] = "props"
    BY DEF Asked, TypedTasks, Tasks
  <2> QED
    BY <2>1, <2>2 DEF Asked, Asking
<1> QED
  BY <1>1, <1>2, <1>3

\* A task begins.
LEMMA BeginWaiting ==
  ASSUME Waiting, NEW t \in Tasks, NEW to \in Places, pc[t] = "idle",
         starts[t] < MaxStarts, pc' = [pc EXCEPT ![t] = to],
         starts' = [starts EXCEPT ![t] = @ + 1],
         UNCHANGED <<icon, ipcport, propjobs>>
  PROVE  Waiting'
<1> USE DEF Waiting
<1>1. TypedTasks'
  BY ConstantsAssumption DEF TypedTasks
<1>2. Begun'
  BY ConstantsAssumption DEF Begun, TypedTasks
<1>3. Asked'
  <2>1. ASSUME NEW i \in DOMAIN ipcport
        PROVE  pc'[ipcport[i].of] = pc[ipcport[i].of]
    BY DEF Asked, TypedTasks
  <2>2. ASSUME NEW c \in propjobs
        PROVE  pc'[c] = "props"
    BY DEF Asked, TypedTasks, Tasks
  <2> QED
    BY <2>1, <2>2 DEF Asked, Asking
<1> QED
  BY <1>1, <1>2, <1>3

\* A client puts a message into the port.
LEMMA PutWaiting ==
  ASSUME Waiting, NEW c \in Clients, NEW kind \in {"wbstartlib", "path"},
         pc[c] \notin {"plain", "props"},
         pc' = [pc EXCEPT ![c] = IF kind = "path" THEN "plain" ELSE "props"],
         starts' \in [Tasks -> 0..MaxStarts],
         \A t \in Tasks : t # c => starts'[t] = starts[t],
         kind = "path" \/ starts'[c] = starts[c],
         kind = "path" \/ pc[c] # "idle",
         ipcport' = Append(ipcport, [of |-> c, type |-> kind]),
         UNCHANGED <<icon, propjobs>>
  PROVE  Waiting'
<1> USE DEF Waiting
<1>1. TypedTasks'
  <2>1. [of |-> c, type |-> kind] \in [of : Clients, type : {"wbstartlib", "path"}]
    OBVIOUS
  <2>2. ipcport' \in Seq([of : Clients, type : {"wbstartlib", "path"}])
    BY <2>1 DEF TypedTasks
  <2>3. pc' \in [Tasks -> Places]
    BY DEF TypedTasks, Places
  <2> QED
    BY <2>2, <2>3 DEF TypedTasks
<1>2. Begun'
  BY DEF Begun, TypedTasks, Tasks
<1>3. /\ DOMAIN ipcport' = 1..(Len(ipcport) + 1)
      /\ DOMAIN ipcport = 1..Len(ipcport) /\ Len(ipcport) \in Nat
      /\ \A i \in DOMAIN ipcport : ipcport'[i] = ipcport[i]
      /\ ipcport'[Len(ipcport) + 1] = [of |-> c, type |-> kind]
  BY DEF TypedTasks
<1>4. ASSUME NEW i \in DOMAIN ipcport
      PROVE  ipcport[i].of # c /\ ipcport[i].of \in Tasks
  BY ClientOfMessage DEF Asked, Tasks
<1>5. ASSUME NEW i \in DOMAIN ipcport'
      PROVE  pc'[ipcport'[i].of] = IF ipcport'[i].type = "path" THEN "plain" ELSE "props"
  <2>1. CASE i \in DOMAIN ipcport
    BY <1>3, <1>4, <2>1 DEF Asked, TypedTasks
  <2>2. CASE i = Len(ipcport) + 1
    BY <1>3, <2>2 DEF TypedTasks, Tasks
  <2> QED
    BY <1>3, <2>1, <2>2
<1>6. ASSUME NEW i \in DOMAIN ipcport', NEW j \in DOMAIN ipcport',
             ipcport'[i].of = ipcport'[j].of
      PROVE  i = j
  BY <1>3, <1>4, <1>6 DEF Asked
<1>7. ASSUME NEW d \in propjobs'
      PROVE  pc'[d] = "props" /\ d \notin Asking'
  <2>1. pc[d] = "props" /\ d \notin Asking /\ d # c
    BY DEF Asked
  <2>2. d \notin Asking'
    BY <1>3, <2>1 DEF Asking
  <2> QED
    BY <2>1, <2>2 DEF TypedTasks, Tasks
<1>8. Asked'
  BY <1>5, <1>6, <1>7 DEF Asked
<1> QED
  BY <1>1, <1>2, <1>8

\* A client that has a message answered, or a thread work for it, and is in
\* neither any more, goes on.
LEMMA RepliedWaiting ==
  ASSUME Waiting, NEW c \in Clients, NEW b \in BOOLEAN, Replied(c, b),
         pc[c] \in {"plain", "props"},
         \/ /\ ipcport # <<>> /\ c = Head(ipcport).of
            /\ ipcport' = Tail(ipcport) /\ propjobs' = propjobs
         \/ /\ c \in propjobs /\ propjobs' = propjobs \ {c}
            /\ ipcport' = ipcport,
         UNCHANGED starts
  PROVE  Waiting'
<1> USE DEF Waiting
<1>1. TypedTasks'
  <2>1. ipcport' \in Seq([of : Clients, type : {"wbstartlib", "path"}])
    <3> DEFINE Messages == [of : Clients, type : {"wbstartlib", "path"}]
    <3>1. ipcport \in Seq(Messages)
      BY DEF TypedTasks
    <3> HIDE DEF Messages
    <3>2. ipcport' = ipcport \/ (ipcport # <<>> /\ ipcport' = Tail(ipcport))
      OBVIOUS
    <3>3. ipcport' \in Seq(Messages)
      BY <3>1, <3>2
    <3> QED
      BY <3>3 DEF Messages
  <2>2. pc' \in [Tasks -> Places] /\ icon' \in [Tasks -> BOOLEAN]
    <3>1. (b /\ pc[c] = "props") \in BOOLEAN
      OBVIOUS
    <3> QED
      BY <3>1 DEF TypedTasks, Places, Replied
  <2>3. propjobs' \subseteq Clients
    BY DEF TypedTasks
  <2> QED
    BY <2>1, <2>2, <2>3 DEF TypedTasks
<1>2. Begun'
  BY DEF Begun, TypedTasks, Tasks, Replied
<1>3. \A t \in Tasks : t # c => pc'[t] = pc[t]
  BY DEF TypedTasks, Replied
<1>4. CASE ipcport # <<>> /\ c = Head(ipcport).of /\ ipcport' = Tail(ipcport)
           /\ propjobs' = propjobs
  <2>1. /\ Len(ipcport) \in Nat /\ DOMAIN ipcport = 1..Len(ipcport)
        /\ Len(ipcport) >= 1 /\ DOMAIN ipcport' = 1..(Len(ipcport) - 1)
        /\ \A i \in DOMAIN ipcport' : i + 1 \in DOMAIN ipcport /\ ipcport'[i] = ipcport[i + 1]
        /\ c = ipcport[1].of /\ 1 \in DOMAIN ipcport
    BY <1>4 DEF TypedTasks
  <2>2. \A i \in DOMAIN ipcport' : ipcport'[i].of # c /\ ipcport'[i].of \in Tasks
    <3>1. \A i \in DOMAIN ipcport : ipcport[i].of \in Clients
      BY ClientOfMessage
    <3> QED
      BY <2>1, <3>1 DEF Asked, Tasks
  <2>3. \A i \in DOMAIN ipcport' :
          pc'[ipcport'[i].of] = IF ipcport'[i].type = "path" THEN "plain" ELSE "props"
    BY <1>3, <2>1, <2>2 DEF Asked
  <2>4. ASSUME NEW i \in DOMAIN ipcport', NEW j \in DOMAIN ipcport',
               ipcport'[i].of = ipcport'[j].of
        PROVE  i = j
    <3>1. i + 1 = j + 1
      BY <2>1, <2>4 DEF Asked
    <3> QED
      BY <2>1, <3>1
  <2>5. c \in Asking /\ Asking' \subseteq Asking
    BY <2>1 DEF Asking
  <2>6. \A d \in propjobs' : pc'[d] = "props" /\ d \notin Asking'
    BY <1>3, <1>4, <2>5 DEF Asked, TypedTasks, Tasks
  <2>7. Asked'
    BY <2>3, <2>4, <2>6 DEF Asked
  <2> QED
    BY <1>1, <1>2, <2>7
<1>5. CASE c \in propjobs /\ propjobs' = propjobs \ {c} /\ ipcport' = ipcport
  <2>1. \A i \in DOMAIN ipcport : ipcport[i].of # c /\ ipcport[i].of \in Tasks
    BY <1>5, ClientOfMessage DEF Asked, Asking, Tasks
  <2>2. Asking' = Asking
    BY <1>5 DEF Asking
  <2>3. \A d \in propjobs' : pc'[d] = "props" /\ d \notin Asking'
    BY <1>3, <1>5, <2>2 DEF Asked, TypedTasks, Tasks
  <2>4. Asked'
    BY <1>3, <1>5, <2>1, <2>3 DEF Asked
  <2> QED
    BY <1>1, <1>2, <2>4
<1> QED
  BY <1>4, <1>5

\* ipc_handle takes a message and does not answer it yet, or never.
LEMMA MessageTaken ==
  ASSUME Waiting, ipcport # <<>>, ipcport' = Tail(ipcport),
         UNCHANGED <<pc, starts, icon>>,
         \/ propjobs' = propjobs
         \/ /\ propjobs' = propjobs \cup {Head(ipcport).of}
            /\ Head(ipcport).type # "path"
  PROVE  Waiting'
<1> USE DEF Waiting
<1> DEFINE Messages == [of : Clients, type : {"wbstartlib", "path"}]
           c == Head(ipcport).of
<1>1. ipcport \in Seq(Messages)
  BY DEF TypedTasks
<1> HIDE DEF Messages
<1>2. ipcport' \in Seq(Messages)
  BY <1>1
<1>3. /\ Len(ipcport) \in Nat /\ DOMAIN ipcport = 1..Len(ipcport)
      /\ DOMAIN ipcport' = 1..(Len(ipcport) - 1)
      /\ \A i \in DOMAIN ipcport' : i + 1 \in DOMAIN ipcport /\ ipcport'[i] = ipcport[i + 1]
      /\ 1 \in DOMAIN ipcport /\ ipcport[1] = Head(ipcport)
  BY <1>1
<1>4. c \in Clients
  BY <1>3, ClientOfMessage
<1>5. TypedTasks'
  BY <1>2, <1>4 DEF TypedTasks, Messages
<1>6. Begun'
  BY DEF Begun
<1>7. \A i \in DOMAIN ipcport' : ipcport'[i].of # c
  BY <1>3 DEF Asked
<1>8. Asking' \subseteq Asking /\ c \notin Asking'
  BY <1>3, <1>7 DEF Asking
<1>9. \A d \in propjobs' : pc'[d] = "props" /\ d \notin Asking'
  BY <1>3, <1>8 DEF Asked
<1>10. \A i \in DOMAIN ipcport' :
         pc'[ipcport'[i].of] = IF ipcport'[i].type = "path" THEN "plain" ELSE "props"
  BY <1>3 DEF Asked
<1>11. ASSUME NEW i \in DOMAIN ipcport', NEW j \in DOMAIN ipcport',
              ipcport'[i].of = ipcport'[j].of
       PROVE  i = j
  <2>1. i + 1 = j + 1
    BY <1>3, <1>11 DEF Asked
  <2> QED
    BY <1>3, <2>1
<1>12. Asked'
  BY <1>9, <1>10, <1>11 DEF Asked
<1> QED
  BY <1>5, <1>6, <1>12

LEMMA Waits == IInv => Waiting
  BY DEF IInv, Placed, Typed, TypedTasks, Waiting

\* Every step of a task.
LEMMA TaskSteps ==
  ASSUME IInv, NEW t \in Tasks, TaskNext(t)
  PROVE  Waiting'
<1>1. Waiting /\ pc \in [Tasks -> Places] /\ icon \in [Tasks -> BOOLEAN]
  BY Waits DEF Waiting, TypedTasks
<1>2. CASE JobBegins(t) \/ JobRefused(t) \/ CountUp(t) \/ CountDown(t)
             \/ CountCommandDown(t) \/ Allocate(t) \/ FindIpc(t)
             \/ CopyForCommand(t) \/ Command(t) \/ CreateProcess(t)
             \/ GiveUp(t) \/ Return(t)
  <2>1. PICK to \in Places : /\ pc[t] \notin {"idle", "plain", "props"}
                             /\ pc' = [pc EXCEPT ![t] = to]
    BY <1>2 DEF JobBegins, JobRefused, CountUp, CountDown, CountCommandDown,
                Allocate, FindIpc, CopyForCommand, Command, CreateProcess,
                Launched, GiveUp, Return, Goto, Places
  <2>2. UNCHANGED <<starts, icon, ipcport, propjobs>>
    BY <1>2 DEF JobBegins, JobRefused, CountUp, CountDown, CountCommandDown, Read,
                Write, Allocate, FindIpc, CopyForCommand, Command, CreateProcess,
                GiveUp, Return, ipc
  <2> QED
    BY <1>1, <2>1, <2>2, TaskWaiting
<1>3. CASE Properties(t)
  <2>1. icon' \in [Tasks -> BOOLEAN]
    BY <1>1, <1>3 DEF Properties
  <2> QED
    BY <1>1, <1>3, <2>1, TaskWaiting DEF Properties, Goto, ipc, Places
<1>4. CASE Load(t)
  <2>1. icon' \in [Tasks -> BOOLEAN]
    BY <1>1, <1>4 DEF Load
  <2>2. PICK to \in {"free", "process", "count"} : Goto(t, "load", to)
    BY <1>4 DEF Load
  <2> QED
    BY <1>1, <1>4, <2>1, <2>2, TaskWaiting DEF Load, Goto, ipc, Places
<1>5. CASE PutIpc(t)
  <2>1. CASE Goto(t, "put", "lost") /\ UNCHANGED ipcport
    BY <1>1, <1>5, <2>1, TaskWaiting DEF PutIpc, Goto, Places
  <2>2. CASE /\ Goto(t, "put", "props")
             /\ ipcport' = Append(ipcport, [of |-> t, type |-> "wbstartlib"])
    <3>1. t \in Clients /\ starts' = starts /\ icon' = icon /\ propjobs' = propjobs
      BY <1>5 DEF PutIpc
    <3> QED
      BY <1>1, <2>2, <3>1, PutWaiting DEF Goto, Waiting, TypedTasks
  <2> QED
    BY <1>5, <2>1, <2>2 DEF PutIpc
<1> QED
  BY <1>2, <1>3, <1>4, <1>5 DEF TaskNext

LEMMA WaitingKept ==
  ASSUME IInv, [Next]_vars
  PROVE  Waiting'
<1>1. Waiting
  BY Waits
<1>2. pc \in [Tasks -> Places] /\ icon \in [Tasks -> BOOLEAN]
      /\ starts \in [Tasks -> 0..MaxStarts] /\ propjobs \subseteq Clients
  BY <1>1 DEF Waiting, TypedTasks
<1>3. CASE UNCHANGED <<pc, starts, icon, ipcport, propjobs>>
  BY <1>1, <1>3 DEF Waiting, TypedTasks, Begun, Asked, Asking
<1>4. ASSUME NEW t \in Tasks, TaskNext(t)
      PROVE  Waiting'
  BY <1>4, TaskSteps
<1>5. ASSUME NEW t \in Tasks, Job(t) \/ LibCall(t)
      PROVE  Waiting'
  BY <1>1, <1>5, BeginWaiting DEF Job, LibCall, Goto, ipc, Places
<1>6. ASSUME NEW c \in Clients, AskPath(c)
      PROVE  Waiting'
  <2>1. /\ c \in Tasks /\ starts' \in [Tasks -> 0..MaxStarts]
        /\ \A t \in Tasks : t # c => starts'[t] = starts[t]
    BY <1>2, <1>6, ConstantsAssumption DEF AskPath, Tasks
  <2>2. /\ pc[c] \notin {"plain", "props"} /\ pc' = [pc EXCEPT ![c] = "plain"]
        /\ ipcport' = Append(ipcport, [of |-> c, type |-> "path"])
        /\ UNCHANGED <<icon, propjobs>>
    BY <1>6 DEF AskPath, Goto
  <2> QED
    BY <1>1, <2>1, <2>2, PutWaiting
<1>7. ASSUME NEW c \in Clients, PropsJob(c)
      PROVE  Waiting'
  <2>1. PICK b \in BOOLEAN : Replied(c, b)
    BY <1>7 DEF PropsJob, PropsAnswer
  <2>2. pc[c] = "props" /\ c \in propjobs /\ propjobs' = propjobs \ {c}
        /\ UNCHANGED <<starts, ipcport>>
    BY <1>1, <1>7 DEF PropsJob, Waiting, Asked
  <2> QED
    BY <1>1, <2>1, <2>2, RepliedWaiting
<1>8. ASSUME NEW c \in Clients, PropsRefused(c)
      PROVE  Waiting'
  <2>1. UNCHANGED <<pc, starts, icon, ipcport>> /\ propjobs' = propjobs \ {c}
    BY <1>8 DEF PropsRefused
  <2> QED
    BY <1>1, <2>1 DEF Waiting, TypedTasks, Begun, Asked, Asking
<1>9. CASE IpcMessage
  <2> DEFINE c == Head(ipcport).of
  <2>1. ipcport # <<>> /\ ipcport' = Tail(ipcport) /\ starts' = starts
    BY <1>9 DEF IpcMessage
  <2>2. 1 \in DOMAIN ipcport /\ ipcport[1] = Head(ipcport)
    BY <1>1, <2>1 DEF Waiting, TypedTasks
  <2>3. c \in Clients /\ pc[c] \in {"plain", "props"}
    BY <1>1, <2>2, ClientOfMessage DEF Waiting, Asked
  <2>4. CASE Replied(c, FALSE) /\ propjobs' = propjobs
    BY <1>1, <2>1, <2>3, <2>4, RepliedWaiting
  <2>5. CASE /\ UNCHANGED <<pc, icon>>
             /\ \/ propjobs' = propjobs
                \/ propjobs' = propjobs \cup {c} /\ Head(ipcport).type # "path"
    BY <1>1, <2>1, <2>2, <2>3, <2>5, MessageTaken
  <2> QED
    BY <1>9, <2>4, <2>5 DEF IpcMessage
<1>10. CASE CloseIpc
  <2>1. ASSUME NEW t \in Tasks
        PROVE  /\ pc'[t] = IF t \notin Asking THEN pc[t]
                           ELSE IF pc[t] = "plain" THEN "idle" ELSE "load"
               /\ t \in Asking => pc[t] \in {"plain", "props"}
    BY <1>1, <1>10 DEF CloseIpc, Waiting, Asked, Asking
  <2>2. /\ pc' \in [Tasks -> Places] /\ ipcport' = <<>>
        /\ UNCHANGED <<starts, icon, propjobs>>
    BY <1>2, <1>10 DEF CloseIpc, Places
  <2>3. TypedTasks'
    BY <1>1, <2>2 DEF Waiting, TypedTasks
  <2>4. Begun'
    BY <1>1, <2>1, <2>2 DEF Waiting, Begun
  <2>5. Asked'
    BY <1>1, <1>2, <2>1, <2>2 DEF Waiting, Asked, Asking, Tasks
  <2> QED
    BY <2>3, <2>4, <2>5 DEF Waiting
<1>11. CASE StartHandle \/ IpcEnter \/ IpcLeave \/ Preclose \/ Quit \/ Cleanup
              \/ CloseLib \/ CloseStart
  BY <1>3, <1>11 DEF StartHandle, IpcEnter, IpcLeave, Preclose, Quit, Cleanup,
                     CloseLib, CloseStart, ipc
<1>12. ASSUME NEW s \in Starts, ProgramEnds(s)
       PROVE  Waiting'
  BY <1>3, <1>12 DEF ProgramEnds, ipc
<1>13. CASE UNCHANGED vars
  BY <1>3, <1>13 DEF vars, ipc
<1> QED
  BY <1>4, <1>5, <1>6, <1>7, <1>8, <1>9, <1>10, <1>11, <1>12, <1>13
     DEF Next, MainNext, Tasks

LEMMA PlacedKept ==
  ASSUME IInv, [Next]_vars
  PROVE  Placed'
  BY WaitingKept, WbrunsTyped DEF Waiting, TypedTasks, TypedWbruns, Placed, Typed

-----------------------------------------------------------------------------
(* Who has the structs.                                                    *)

LEMMA OwnedUnchanged ==
  ASSUME Owned, UNCHANGED <<pc, starts, wbruns>>, mpc' # "gone" => mpc # "gone"
  PROVE  Owned'
  BY DEF Owned, NotYet, Mine, Ready, Running, Back, Kept, Used, AtPort, Current,
         wbruns

\* A task goes on with the struct it has, or without one; what it has is
\* filled.
LEMMA TaskOwned ==
  ASSUME IInv, NEW t \in Tasks, NEW to \in Places,
         pc' = [pc EXCEPT ![t] = to],
         pc[t] \in Building <=> to \in Building,
         to \in Before => pc[t] \in Before,
         UNCHANGED <<starts, memory, programs, wbstartport, mpc>>,
         \A s \in Starts : \/ run'[s] = run[s]
                           \/ s = Current(t) /\ pc[t] \in Building,
         to = "process" => run'[Current(t)].seg
  PROVE  Owned'
<1> USE DEF IInv, Placed, Owned
<1>1. /\ pc'[t] = to /\ \A u \in Tasks : u # t => pc'[u] = pc[u]
      /\ \A u \in Tasks : Current(u)' = Current(u)
  BY DEF Typed, Current
<1>2. \A s : AtPort(s)' <=> AtPort(s)
  BY DEF AtPort
<1>3. NotYet'
  BY <1>1 DEF NotYet
<1>4. Mine'
  BY <1>1, <1>2 DEF Mine
<1>5. Ready'
  <2>1. ASSUME NEW u \in Tasks, u # t, pc[u] = "process"
        PROVE  run'[Current(u)] = run[Current(u)]
    BY <2>1, CurrentInStarts, TasksDiffer
  <2> QED
    BY <1>1, <2>1 DEF Ready
<1>6. Running'
  <2>1. ASSUME NEW s \in programs
        PROVE  run'[s] = run[s]
    BY DEF Mine, Typed
  <2> QED
    BY <1>2, <2>1 DEF Running
<1>7. Back'
  BY DEF Back
<1>8. Kept'
  <2>1. ASSUME NEW s, Used(s)
        PROVE  Used(s)'
    <3>1. PICK u \in Tasks : s = Current(u) /\ pc[u] \in Building
      BY <2>1 DEF Used
    <3>2. s = Current(u)' /\ pc'[u] \in Building
      BY <1>1, <3>1
    <3> QED
      BY <3>2 DEF Used
  <2> QED
    BY <1>2, <2>1 DEF Kept
<1> QED
  BY <1>3, <1>4, <1>5, <1>6, <1>7, <1>8

\* A task begins: its next start has no struct.
LEMMA BeginOwned ==
  ASSUME IInv, NEW t \in Tasks, NEW to \in Before \cup {"plain"}, pc[t] = "idle",
         pc' = [pc EXCEPT ![t] = to], starts' = [starts EXCEPT ![t] = @ + 1],
         UNCHANGED <<wbruns, mpc>>
  PROVE  Owned'
<1> USE DEF IInv, Placed, Owned
<1>1. /\ pc'[t] = to /\ to \notin Building
      /\ starts[t] \in Int /\ starts'[t] = starts[t] + 1
      /\ \A u \in Tasks : u # t => pc'[u] = pc[u] /\ starts'[u] = starts[u]
      /\ \A u \in Tasks : u # t => Current(u)' = Current(u)
  BY ConstantsAssumption DEF Typed, Current, Before, Building
<1>2. UNCHANGED <<run, memory, programs, wbstartport>>
      /\ \A s : AtPort(s)' <=> AtPort(s)
  BY DEF wbruns, AtPort
<1>3. \A s \in memory : s[1] \in Tasks /\ s[2] \in Int
  BY ConstantsAssumption DEF Typed, Starts
<1>4. ASSUME NEW s \in memory
      PROVE  s[2] <= starts'[s[1]] /\ s # Current(t)'
  <2>1. s[2] <= starts[s[1]]
    BY DEF NotYet
  <2>2. CASE s[1] = t
    <3>1. s[2] <= starts[t] /\ s[2] < starts'[t]
      BY <1>1, <1>3, <2>1, <2>2
    <3>2. s[2] # starts'[t]
      BY <1>1, <1>3, <3>1
    <3> QED
      BY <1>1, <1>3, <2>2, <3>1, <3>2 DEF Current
  <2>3. CASE s[1] # t
    BY <1>1, <1>3, <2>1, <2>3 DEF Current
  <2> QED
    BY <2>2, <2>3
<1>5. NotYet'
  BY <1>1, <1>2, <1>4 DEF NotYet
<1>6. Mine' /\ Ready'
  <2>1. \A u \in Tasks : pc'[u] \in Building => u # t
    BY <1>1
  <2>2. "process" \in Building
    BY DEF Building
  <2> QED
    BY <1>1, <1>2, <2>1, <2>2 DEF Mine, Ready
<1>7. Running' /\ Back'
  BY <1>2 DEF Running, Back
<1>8. Kept'
  <2>1. ASSUME NEW s, Used(s)
        PROVE  Used(s)'
    <3>1. PICK u \in Tasks : s = Current(u) /\ pc[u] \in Building
      BY <2>1 DEF Used
    <3>2. u # t
      BY <3>1 DEF Building
    <3> QED
      BY <1>1, <3>1, <3>2 DEF Used
  <2> QED
    BY <1>2, <2>1 DEF Kept
<1> QED
  BY <1>5, <1>6, <1>7, <1>8

\* The struct is allocated.
LEMMA NewOwned ==
  ASSUME IInv, NEW t \in Tasks, Goto(t, "new", "icon"),
         memory' = memory \cup {Current(t)},
         UNCHANGED <<starts, run, programs, wbstartport, mpc>>
  PROVE  Owned'
<1> USE DEF IInv, Placed, Owned
<1>1. /\ pc[t] = "new" /\ pc'[t] = "icon"
      /\ \A u \in Tasks : u # t => pc'[u] = pc[u]
      /\ \A u \in Tasks : Current(u)' = Current(u)
  BY DEF Typed, Current, Goto
<1>2. \A s : AtPort(s)' <=> AtPort(s)
  BY DEF AtPort
<1>3. Current(t) \notin memory /\ starts[t] \in Int
  BY <1>1, ConstantsAssumption DEF NotYet, Before, Typed
<1>4. Current(t) \notin programs /\ ~AtPort(Current(t))
  BY <1>3 DEF Running, Back, AtPort
<1>5. NotYet'
  <2>1. ASSUME NEW u \in Tasks, pc'[u] \in Before
        PROVE  Current(u) \notin memory /\ Current(u) # Current(t)
    BY <1>1, <2>1, TasksDiffer DEF NotYet, Before
  <2>2. \A s \in memory' : s[2] <= starts[s[1]]
    BY <1>3 DEF NotYet, Current
  <2> QED
    BY <1>1, <2>1, <2>2 DEF NotYet
<1>6. Mine'
  <2>1. ASSUME NEW u \in Tasks, pc'[u] \in Building
        PROVE  Current(u) \in memory' /\ Current(u) \notin programs
               /\ ~AtPort(Current(u))
    BY <1>1, <1>4, <2>1 DEF Mine
  <2> QED
    BY <1>1, <1>2, <2>1 DEF Mine
<1>7. Ready'
  <2>1. \A u \in Tasks : pc'[u] = "process" => pc[u] = "process"
    BY <1>1
  <2> QED
    BY <1>1, <2>1 DEF Ready
<1>8. Running' /\ Back'
  BY <1>2 DEF Running, Back
<1>9. Kept'
  <2>1. ASSUME NEW s, Used(s)
        PROVE  Used(s)'
    <3>1. PICK u \in Tasks : s = Current(u) /\ pc[u] \in Building
      BY <2>1 DEF Used
    <3>2. u # t
      BY <1>1, <3>1 DEF Building
    <3> QED
      BY <1>1, <3>1, <3>2 DEF Used
  <2>2. ASSUME NEW s, s = Current(t)
        PROVE  Used(s)'
    BY <1>1, <2>2 DEF Used, Building
  <2> QED
    BY <1>2, <2>1, <2>2 DEF Kept
<1> QED
  BY <1>5, <1>6, <1>7, <1>8, <1>9

\* A task frees its struct.
LEMMA FreeOwned ==
  ASSUME IInv, NEW t \in Tasks, NEW to \in Places \ (Building \cup Before),
         pc[t] \in Building, pc' = [pc EXCEPT ![t] = to], Freed(Current(t)),
         UNCHANGED <<starts, programs, wbstartport, mpc>>
  PROVE  Owned'
<1> USE DEF IInv, Placed, Owned
<1>1. /\ pc'[t] = to
      /\ \A u \in Tasks : u # t => pc'[u] = pc[u]
      /\ \A u \in Tasks : Current(u)' = Current(u)
  BY DEF Typed, Current
<1>2. \A s : AtPort(s)' <=> AtPort(s)
  BY DEF AtPort
<1>3. Current(t) \notin programs /\ ~AtPort(Current(t))
  BY DEF Mine
<1>4. /\ memory' = memory \ {Current(t)}
      /\ \A s \in Starts : s # Current(t) => run'[s] = run[s]
  BY DEF Freed, Typed
<1>5. NotYet'
  BY <1>1, <1>4 DEF NotYet
<1>6. Mine'
  <2>1. ASSUME NEW u \in Tasks, pc'[u] \in Building
        PROVE  u # t /\ pc[u] \in Building /\ Current(u) # Current(t)
    BY <1>1, <2>1, TasksDiffer
  <2> QED
    BY <1>1, <1>2, <1>4, <2>1 DEF Mine
<1>7. Ready'
  <2>1. ASSUME NEW u \in Tasks, pc'[u] = "process"
        PROVE  pc[u] = "process" /\ run'[Current(u)] = run[Current(u)]
    <3>1. u # t
      BY <1>1, <2>1 DEF Building
    <3>2. pc[u] = "process" /\ Current(u) # Current(t)
      BY <1>1, <2>1, <3>1, TasksDiffer
    <3> QED
      BY <1>4, <3>2, CurrentInStarts
  <2> QED
    BY <1>1, <2>1 DEF Ready
<1>8. Running'
  <2>1. \A s \in programs : s # Current(t) /\ run'[s] = run[s]
    BY <1>3, <1>4 DEF Typed
  <2> QED
    BY <1>2, <1>4, <2>1 DEF Running
<1>9. Back'
  BY <1>3, <1>4 DEF Back, AtPort
<1>10. Kept'
  <2>1. ASSUME NEW s, Used(s), s # Current(t)
        PROVE  Used(s)'
    <3>1. PICK u \in Tasks : s = Current(u) /\ pc[u] \in Building
      BY <2>1 DEF Used
    <3> QED
      BY <1>1, <2>1, <3>1 DEF Used
  <2> QED
    BY <1>2, <1>4, <2>1 DEF Kept
<1> QED
  BY <1>5, <1>6, <1>7, <1>8, <1>9, <1>10

\* The struct goes to the program.
LEMMA LaunchOwned ==
  ASSUME IInv, NEW t \in Tasks, Goto(t, "process", "return"),
         programs' = programs \cup {Current(t)},
         UNCHANGED <<starts, run, memory, wbstartport, mpc>>
  PROVE  Owned'
<1> USE DEF IInv, Placed, Owned
<1>1. /\ pc[t] = "process" /\ pc'[t] = "return"
      /\ \A u \in Tasks : u # t => pc'[u] = pc[u]
      /\ \A u \in Tasks : Current(u)' = Current(u)
  BY DEF Typed, Current, Goto
<1>2. \A s : AtPort(s)' <=> AtPort(s)
  BY DEF AtPort
<1>3. /\ Current(t) \in memory /\ ~AtPort(Current(t))
      /\ run[Current(t)].seg
  BY <1>1 DEF Mine, Ready, Building
<1>4. NotYet' /\ Back'
  BY <1>1 DEF NotYet, Back, Before
<1>5. Mine'
  <2>1. ASSUME NEW u \in Tasks, pc'[u] \in Building
        PROVE  pc[u] \in Building /\ Current(u) # Current(t)
    <3>1. u # t
      BY <1>1, <2>1 DEF Building
    <3> QED
      BY <1>1, <2>1, <3>1, TasksDiffer
  <2> QED
    BY <1>1, <1>2, <2>1 DEF Mine
<1>6. Ready' /\ Running'
  <2>1. \A u \in Tasks : pc'[u] = "process" => pc[u] = "process"
    BY <1>1
  <2> QED
    BY <1>1, <1>2, <1>3, <2>1 DEF Ready, Running
<1>7. Kept'
  <2>1. ASSUME NEW s, Used(s), s # Current(t)
        PROVE  Used(s)'
    <3>1. PICK u \in Tasks : s = Current(u) /\ pc[u] \in Building
      BY <2>1 DEF Used
    <3> QED
      BY <1>1, <2>1, <3>1 DEF Used
  <2> QED
    BY <1>2, <2>1 DEF Kept
<1> QED
  BY <1>4, <1>5, <1>6, <1>7

\* The message goes back to the port.
LEMMA EndOwned ==
  ASSUME IInv, NEW s \in Starts, ProgramEnds(s)
  PROVE  Owned'
<1> USE DEF IInv, Placed, Owned
<1>1. /\ s \in programs /\ s \in memory /\ ~AtPort(s)
      /\ programs' = programs \ {s}
      /\ UNCHANGED <<pc, starts, run, memory, mpc>>
  BY DEF ProgramEnds, Running, main
<1>2. \/ wbstartport' = Append(wbstartport, s)
      \/ wbstartport' = wbstartport /\ mpc = "gone"
  BY DEF ProgramEnds, StartportOpen
<1>3. \A u : AtPort(u)' => AtPort(u) \/ u = s
  <2>1. CASE wbstartport' = Append(wbstartport, s)
    <3>1. \A i \in DOMAIN wbstartport' :
            \/ i \in DOMAIN wbstartport /\ wbstartport'[i] = wbstartport[i]
            \/ wbstartport'[i] = s
      BY <2>1 DEF Typed
    <3> QED
      BY <3>1 DEF AtPort
  <2>2. CASE wbstartport' = wbstartport
    BY <2>2 DEF AtPort
  <2> QED
    BY <1>2, <2>1, <2>2
<1>4. \A u \in Tasks : pc[u] \in Building => Current(u) # s
  BY <1>1 DEF Mine
<1>5. NotYet' /\ Ready'
  BY <1>1 DEF NotYet, Ready, Current
<1>6. Mine'
  BY <1>1, <1>3, <1>4 DEF Mine, Current
<1>7. Running'
  BY <1>1, <1>3 DEF Running
<1>8. Back'
  <2>1. CASE wbstartport' = Append(wbstartport, s)
    <3>1. /\ Len(wbstartport) \in Nat /\ DOMAIN wbstartport = 1..Len(wbstartport)
          /\ DOMAIN wbstartport' = 1..(Len(wbstartport) + 1)
          /\ \A i \in DOMAIN wbstartport : wbstartport'[i] = wbstartport[i]
          /\ wbstartport'[Len(wbstartport) + 1] = s
      BY <2>1 DEF Typed
    <3>2. \A i \in DOMAIN wbstartport : wbstartport[i] # s
      BY <1>1 DEF AtPort
    <3>3. \A i \in DOMAIN wbstartport' : wbstartport'[i] \in memory
      BY <1>1, <3>1 DEF Back
    <3>4. ASSUME NEW i \in DOMAIN wbstartport', NEW j \in DOMAIN wbstartport',
                 wbstartport'[i] = wbstartport'[j]
          PROVE  i = j
      BY <3>1, <3>2, <3>4 DEF Back
    <3> QED
      BY <1>1, <3>3, <3>4 DEF Back
  <2>2. CASE wbstartport' = wbstartport
    BY <1>1, <2>2 DEF Back
  <2> QED
    BY <1>2, <2>1, <2>2
<1>9. Kept'
  <2>1. CASE wbstartport' = Append(wbstartport, s)
    <3>1. /\ \A u : AtPort(u) => AtPort(u)'
          /\ AtPort(s)'
      <4>1. /\ Len(wbstartport) \in Nat /\ DOMAIN wbstartport = 1..Len(wbstartport)
            /\ DOMAIN wbstartport' = 1..(Len(wbstartport) + 1)
            /\ \A i \in DOMAIN wbstartport : wbstartport'[i] = wbstartport[i]
            /\ wbstartport'[Len(wbstartport) + 1] = s
        BY <2>1 DEF Typed
      <4>2. \A u : AtPort(u) => AtPort(u)'
        BY <4>1 DEF AtPort
      <4>3. Len(wbstartport) + 1 \in DOMAIN wbstartport'
        BY <4>1
      <4> QED
        BY <4>1, <4>2, <4>3 DEF AtPort
    <3>2. \A u : Used(u)' <=> Used(u)
      BY <1>1 DEF Used, Current
    <3> QED
      BY <1>1, <3>1, <3>2 DEF Kept
  <2>2. CASE mpc = "gone"
    BY <1>1, <2>2 DEF Kept
  <2> QED
    BY <1>2, <2>1, <2>2
<1> QED
  BY <1>5, <1>6, <1>7, <1>8, <1>9

\* wbstart_handle frees the struct of a message.
LEMMA HandleOwned ==
  ASSUME IInv, wbstartport # <<>>, Freed(Head(wbstartport)),
         wbstartport' = Tail(wbstartport), UNCHANGED <<pc, starts, programs>>,
         mpc # "gone"
  PROVE  Owned'
<1> USE DEF IInv, Placed, Owned
<1> DEFINE h == Head(wbstartport)
<1>1. /\ Len(wbstartport) \in Nat /\ DOMAIN wbstartport = 1..Len(wbstartport)
      /\ Len(wbstartport) >= 1 /\ DOMAIN wbstartport' = 1..(Len(wbstartport) - 1)
      /\ \A i \in DOMAIN wbstartport' :
           i + 1 \in DOMAIN wbstartport /\ wbstartport'[i] = wbstartport[i + 1]
      /\ h = wbstartport[1] /\ 1 \in DOMAIN wbstartport
  BY DEF Typed
<1>2. /\ memory' = memory \ {h}
      /\ \A s \in Starts : s # h => run'[s] = run[s]
  BY DEF Freed, Typed
<1> HIDE DEF h
<1>3. \A i \in DOMAIN wbstartport' : wbstartport'[i] # h
  BY <1>1 DEF Back
<1>4. /\ AtPort(h)
      /\ \A s : AtPort(s)' => AtPort(s) /\ s # h
      /\ \A s : AtPort(s) => AtPort(s)' \/ s = h
  <2>1. AtPort(h) /\ \A s : AtPort(s)' => AtPort(s) /\ s # h
    BY <1>1, <1>3 DEF AtPort
  <2>2. ASSUME NEW i \in DOMAIN wbstartport, i # 1
        PROVE  i - 1 \in DOMAIN wbstartport' /\ wbstartport'[i - 1] = wbstartport[i]
    BY <1>1, <2>2
  <2>3. \A s : AtPort(s) => AtPort(s)' \/ s = h
    BY <1>1, <2>2 DEF AtPort
  <2> QED
    BY <2>1, <2>3
<1>5. NotYet'
  BY <1>2 DEF NotYet, Current
<1>6. Mine'
  BY <1>2, <1>4 DEF Mine, Current
<1>7. Ready'
  <2>1. ASSUME NEW u \in Tasks, pc[u] = "process"
        PROVE  run'[Current(u)] = run[Current(u)]
    BY <1>2, <1>4, <2>1, CurrentInStarts DEF Mine, Building
  <2> QED
    BY <2>1 DEF Ready, Current
<1>8. Running'
  <2>1. \A s \in programs : s # h /\ run'[s] = run[s]
    BY <1>2, <1>4 DEF Running, Typed
  <2> QED
    BY <1>2, <1>4, <2>1 DEF Running
<1>9. Back'
  <2>1. \A i \in DOMAIN wbstartport' : wbstartport'[i] \in memory'
    BY <1>1, <1>2, <1>3 DEF Back
  <2>2. ASSUME NEW i \in DOMAIN wbstartport', NEW j \in DOMAIN wbstartport',
               wbstartport'[i] = wbstartport'[j]
        PROVE  i = j
    <3>1. i + 1 = j + 1
      BY <1>1, <2>2 DEF Back
    <3> QED
      BY <1>1, <3>1
  <2> QED
    BY <2>1, <2>2 DEF Back
<1>10. Kept'
  <2>1. \A s : Used(s)' <=> Used(s)
    BY DEF Used, Current
  <2> QED
    BY <1>2, <1>4, <2>1 DEF Kept
<1> QED
  BY <1>5, <1>6, <1>7, <1>8, <1>9, <1>10

\* ipc_cleanup answers all who wait.
LEMMA CloseIpcOwned ==
  ASSUME IInv, CloseIpc
  PROVE  Owned'
<1> USE DEF IInv, Placed, Owned
<1>1. ASSUME NEW t \in Tasks
      PROVE  /\ pc'[t] \in Building <=> pc[t] \in Building
             /\ pc'[t] \in Before => pc[t] \in Before
             /\ pc'[t] = "process" => pc[t] = "process"
             /\ Current(t)' = Current(t)
  <2>1. Current(t)' = Current(t)
    BY DEF CloseIpc, Current
  <2>2. t \in Asking => pc[t] \in {"plain", "props"}
    BY DEF Asked, Asking
  <2>3. pc'[t] = IF t \notin Asking THEN pc[t]
                 ELSE IF pc[t] = "plain" THEN "idle" ELSE "load"
    BY DEF CloseIpc
  <2> QED
    BY <2>1, <2>2, <2>3 DEF Building, Before
<1>2. UNCHANGED <<starts, run, memory, programs, wbstartport>>
      /\ mpc # "gone" /\ \A s : AtPort(s)' <=> AtPort(s)
  BY DEF CloseIpc, wbruns, AtPort
<1>3. \A s : Used(s)' <=> Used(s)
  BY <1>1 DEF Used
<1> QED
  BY <1>1, <1>2, <1>3 DEF NotYet, Mine, Ready, Running, Back, Kept

LEMMA CloseStartOwned ==
  ASSUME IInv, CloseStart
  PROVE  Owned'
<1> USE DEF IInv, Placed, Owned
<1>1. /\ UNCHANGED <<pc, starts, run, memory, programs>> /\ mpc' = "gone"
      /\ \A s : ~AtPort(s)'
  BY DEF CloseStart, AtPort
<1> QED
  BY <1>1 DEF CloseStart, NotYet, Mine, Ready, Running, Back, Kept, Current

LEMMA TaskStepsOwned ==
  ASSUME IInv, NEW t \in Tasks, TaskNext(t)
  PROVE  Owned'
<1>1. IInv /\ icon \in [Tasks -> BOOLEAN] /\ DOMAIN run = Starts
  BY DEF IInv, Placed, Typed
<1>2. CASE JobBegins(t) \/ JobRefused(t) \/ CountUp(t) \/ CountDown(t)
             \/ CountCommandDown(t) \/ Properties(t) \/ FindIpc(t) \/ PutIpc(t)
             \/ Return(t)
  <2>1. PICK to \in Places : /\ pc' = [pc EXCEPT ![t] = to] /\ to # "process"
                             /\ pc[t] \in Building <=> to \in Building
                             /\ to \in Before => pc[t] \in Before
    BY <1>2 DEF JobBegins, JobRefused, CountUp, CountDown, CountCommandDown,
                Properties, FindIpc, PutIpc, Return, Goto, Places, Building, Before
  <2>2. UNCHANGED <<starts, run, memory, programs, wbstartport, mpc>>
    BY <1>2 DEF JobBegins, JobRefused, CountUp, CountDown, CountCommandDown, Read,
                Write, Properties, FindIpc, PutIpc, Return, wbruns, main
  <2> QED
    BY <1>1, <2>1, <2>2, TaskOwned
<1>3. CASE Allocate(t)
  <2>1. UNCHANGED <<starts, run, programs, wbstartport, mpc>>
    BY <1>3 DEF Allocate, main
  <2>2. CASE Goto(t, "new", "icon") /\ memory' = memory \cup {Current(t)}
    BY <1>1, <2>1, <2>2, NewOwned
  <2>3. CASE Goto(t, "new", "down") /\ UNCHANGED memory
    BY <1>1, <2>1, <2>3, TaskOwned DEF Goto, Places, Building, Before
  <2> QED
    BY <1>3, <2>2, <2>3 DEF Allocate
<1>4. CASE Load(t)
  <2>1. PICK r \in Prepared[icon[t]] :
          /\ Goto(t, "load", IF ~r.ok THEN "free"
                             ELSE IF r.w.type = "WB" THEN "process" ELSE "count")
          /\ run' = [run EXCEPT ![Current(t)] = r.w]
    BY <1>4 DEF Load
  <2> DEFINE to == IF ~r.ok THEN "free"
                   ELSE IF r.w.type = "WB" THEN "process" ELSE "count"
  <2>2. pc[t] \in Building /\ to \in Building /\ to \in Places /\ to \notin Before
    BY <2>1 DEF Goto, Places, Building, Before
  <2>3. Current(t) \in Starts
    BY <2>1, CurrentInStarts DEF Goto, IInv, Placed
  <2>4. /\ run'[Current(t)] = r.w
        /\ \A s \in Starts : run'[s] = run[s] \/ s = Current(t)
    BY <1>1, <2>1, <2>3
  <2>5. to = "process" => r.w.seg
    BY <1>1, PreparedRight
  <2>6. UNCHANGED <<starts, memory, programs, wbstartport, mpc>>
    BY <1>4 DEF Load, main
  <2>7. pc' = [pc EXCEPT ![t] = to]
    BY <2>1 DEF Goto
  <2> HIDE DEF to
  <2> QED
    BY <1>1, <2>2, <2>4, <2>5, <2>6, <2>7, TaskOwned
<1>5. CASE CopyForCommand(t)
  <2>1. PICK w : run' = [run EXCEPT ![Current(t)] = w]
    BY <1>5 DEF CopyForCommand
  <2>2. /\ pc[t] = "copy" /\ pc' = [pc EXCEPT ![t] = "command"]
        /\ UNCHANGED <<starts, memory, programs, wbstartport, mpc>>
    BY <1>5 DEF CopyForCommand, Goto, main
  <2>3. /\ pc[t] \in Building /\ "command" \in Building /\ "command" \in Places
        /\ "command" \notin Before
    BY <2>2 DEF Building, Places, Before
  <2>4. \A s \in Starts : run'[s] = run[s] \/ s = Current(t)
    BY <1>1, <2>1
  <2> QED
    BY <1>1, <2>2, <2>3, <2>4, TaskOwned
<1>6. CASE Command(t) \/ GiveUp(t)
  <2>1. PICK to \in {"return", "down"} :
          pc' = [pc EXCEPT ![t] = to] /\ pc[t] \in {"command", "free"}
    BY <1>6 DEF Command, GiveUp, Goto
  <2>2. to \in Places \ (Building \cup Before) /\ pc[t] \in Building
    BY <2>1 DEF Places, Building, Before
  <2>3. Freed(Current(t)) /\ UNCHANGED <<starts, programs, wbstartport, mpc>>
    BY <1>6 DEF Command, GiveUp, main
  <2> QED
    BY <1>1, <2>1, <2>2, <2>3, FreeOwned
<1>7. CASE CreateProcess(t)
  <2>1. UNCHANGED <<starts, run, memory, wbstartport, mpc>>
    BY <1>7 DEF CreateProcess, main
  <2>2. CASE Goto(t, "process", "return") /\ programs' = programs \cup {Current(t)}
    BY <1>1, <2>1, <2>2, LaunchOwned
  <2>3. CASE Goto(t, "process", "free") /\ UNCHANGED programs
    BY <1>1, <2>1, <2>3, TaskOwned DEF Goto, Places, Building, Before
  <2> QED
    BY <1>7, <2>2, <2>3 DEF CreateProcess, Launched
<1> QED
  BY <1>2, <1>3, <1>4, <1>5, <1>6, <1>7 DEF TaskNext

\* An answer.
LEMMA RepliedOwned ==
  ASSUME IInv, NEW c \in Clients, NEW b, Replied(c, b), pc[c] \in {"plain", "props"},
         UNCHANGED <<starts, wbruns, mpc>>
  PROVE  Owned'
<1> DEFINE to == IF pc[c] = "plain" THEN "idle" ELSE "load"
<1>1. /\ c \in Tasks /\ to \in Places /\ to \notin Before /\ to # "process"
      /\ pc[c] \in Building <=> to \in Building
  BY DEF Tasks, Places, Before, Building
<1>2. pc' = [pc EXCEPT ![c] = to]
  BY DEF Replied
<1>3. UNCHANGED <<run, memory, programs, wbstartport>>
  BY DEF wbruns
<1> HIDE DEF to
<1> QED
  BY <1>1, <1>2, <1>3, TaskOwned

LEMMA OwnedKept ==
  ASSUME IInv, [Next]_vars
  PROVE  Owned'
<1>1. Owned /\ Waiting
  BY Waits DEF IInv
<1>2. CASE UNCHANGED <<pc, starts, wbruns>> /\ (mpc' # "gone" => mpc # "gone")
  BY <1>1, <1>2, OwnedUnchanged
<1>3. ASSUME NEW t \in Tasks, TaskNext(t)
      PROVE  Owned'
  BY <1>3, TaskStepsOwned
<1>4. ASSUME NEW t \in Tasks, Job(t) \/ LibCall(t) \/ AskPath(t)
      PROVE  Owned'
  <2>1. PICK to \in Before \cup {"plain"} : Goto(t, "idle", to)
    BY <1>4 DEF Job, LibCall, AskPath, Before
  <2>2. starts' = [starts EXCEPT ![t] = @ + 1] /\ UNCHANGED <<wbruns, mpc>>
    BY <1>4 DEF Job, LibCall, AskPath, main
  <2> QED
    BY <2>1, <2>2, BeginOwned DEF Goto
<1>5. ASSUME NEW c \in Clients, PropsJob(c)
      PROVE  Owned'
  <2>1. PICK b \in BOOLEAN : Replied(c, b)
    BY <1>5 DEF PropsJob, PropsAnswer
  <2>2. pc[c] = "props" /\ UNCHANGED <<starts, wbruns, mpc>>
    BY <1>1, <1>5 DEF PropsJob, Waiting, Asked, main
  <2> QED
    BY <2>1, <2>2, RepliedOwned
<1>6. ASSUME NEW c \in Clients, PropsRefused(c)
      PROVE  Owned'
  BY <1>2, <1>6 DEF PropsRefused, main
<1>7. CASE IpcMessage
  <2> DEFINE c == Head(ipcport).of
  <2>1. UNCHANGED <<starts, wbruns, mpc>> /\ ipcport # <<>>
    BY <1>7 DEF IpcMessage, main
  <2>2. 1 \in DOMAIN ipcport /\ ipcport[1] = Head(ipcport)
    BY <1>1, <2>1 DEF Waiting, TypedTasks
  <2>3. c \in Clients /\ pc[c] \in {"plain", "props"}
    BY <1>1, <2>2, ClientOfMessage DEF Waiting, Asked
  <2>4. CASE Replied(c, FALSE)
    BY <2>1, <2>3, <2>4, RepliedOwned
  <2>5. CASE UNCHANGED pc
    BY <1>2, <2>1, <2>5
  <2> QED
    BY <1>7, <2>4, <2>5 DEF IpcMessage
<1>8. CASE CloseIpc
  BY <1>8, CloseIpcOwned
<1>9. CASE CloseStart
  BY <1>9, CloseStartOwned
<1>10. CASE StartHandle
  <2>1. CASE /\ wbstartport # <<>> /\ Freed(Head(wbstartport)) /\ mpc = "loop"
             /\ wbstartport' = Tail(wbstartport) /\ UNCHANGED <<pc, starts, programs>>
    BY <2>1, HandleOwned
  <2>2. CASE mpc \in {"down", "down2"} /\ UNCHANGED <<pc, starts, wbruns>>
    BY <1>2, <2>2
  <2> QED
    BY <1>10, <2>1, <2>2 DEF StartHandle
<1>11. CASE IpcEnter \/ IpcLeave \/ Preclose \/ Quit \/ Cleanup \/ CloseLib
  BY <1>2, <1>11 DEF IpcEnter, IpcLeave, Preclose, Quit, Cleanup, CloseLib
<1>12. ASSUME NEW s \in Starts, ProgramEnds(s)
       PROVE  Owned'
  BY <1>12, EndOwned
<1>13. CASE UNCHANGED vars
  BY <1>2, <1>13 DEF vars, main
<1> QED
  BY <1>3, <1>4, <1>5, <1>6, <1>7, <1>8, <1>9, <1>10, <1>11, <1>12, <1>13
     DEF Next, MainNext, Tasks

-----------------------------------------------------------------------------
(* What the structs hold: whatever a step leaves in one can be freed, and  *)
(* that of a command which is still to get its arguments is as it was      *)
(* filled.                                                                 *)

Counting == {"count", "count2", "copy"}
Full(w) == Filled(w) /\ Size(w) <= 4

Contents ==
  /\ run \in [Starts -> Wbrun]
  /\ NoSlips => \A s \in Starts : GivenBack(run[s])
  /\ \A t \in Tasks : pc[t] \in Counting => Full(run[Current(t)])

LEMMA ContentsSame ==
  ASSUME Contents, UNCHANGED run,
         \A t \in Tasks : pc'[t] \in Counting =>
           pc[t] \in Counting /\ starts'[t] = starts[t]
  PROVE  Contents'
  BY DEF Contents, Current

LEMMA ContentsStep ==
  ASSUME IInv, Contents, NEW s \in Starts, NEW w, run' = [run EXCEPT ![s] = w],
         Right(w), UNCHANGED starts,
         \A t \in Tasks : pc'[t] \in Counting =>
           IF Current(t) = s THEN Full(w) ELSE pc[t] \in Counting
  PROVE  Contents'
<1>1. run' \in [Starts -> Wbrun]
  BY DEF Contents, Right
<1>2. run'[s] = w /\ \A u \in Starts : u # s => run'[u] = run[u]
  BY DEF Contents
<1>3. NoSlips => \A u \in Starts : GivenBack(run'[u])
  BY <1>2 DEF Contents, Right
<1>4. ASSUME NEW t \in Tasks, pc'[t] \in Counting
      PROVE  Full(run'[Current(t)])
  <2>1. CASE Current(t) = s
    BY <1>2, <1>4, <2>1
  <2>2. CASE Current(t) # s
    <3>1. pc[t] \in Counting /\ pc[t] \notin {"idle", "plain"}
      BY <1>4, <2>2 DEF Counting
    <3>2. Current(t) \in Starts
      BY <3>1, CurrentInStarts DEF IInv, Placed
    <3> QED
      BY <1>2, <2>2, <3>1, <3>2 DEF Contents
  <2> QED
    BY <2>1, <2>2
<1>5. \A t \in Tasks : Current(t)' = Current(t)
  BY DEF Current
<1> QED
  BY <1>1, <1>3, <1>4, <1>5 DEF Contents

\* A struct that is freed is as a new one.
LEMMA ContentsFreed ==
  ASSUME IInv, Contents, NEW s \in Starts, Freed(s), UNCHANGED starts,
         \A t \in Tasks : pc'[t] \in Counting => pc[t] \in Counting
  PROVE  Contents'
<1>1. Full(NewWbrun) /\ Right(NewWbrun)
  BY NewFilled, FilledRight DEF Full
<1>2. run' = [run EXCEPT ![s] = NewWbrun]
  BY DEF Freed
<1> QED
  BY <1>1, <1>2, ContentsStep

LEMMA TaskContents ==
  ASSUME IInv, Contents, NEW t \in Tasks, TaskNext(t)
  PROVE  Contents'
<1>1. pc \in [Tasks -> Places] /\ icon \in [Tasks -> BOOLEAN]
  BY DEF IInv, Placed, Typed
<1>2. ASSUME pc[t] \notin {"idle", "plain"}
      PROVE  Current(t) \in Starts
  BY <1>2, CurrentInStarts DEF IInv, Placed
<1>3. CASE JobBegins(t) \/ JobRefused(t) \/ CountUp(t) \/ CountDown(t)
             \/ CountCommandDown(t) \/ Allocate(t) \/ Properties(t) \/ FindIpc(t)
             \/ PutIpc(t) \/ CreateProcess(t) \/ Return(t)
  <2>1. PICK to : /\ pc' = [pc EXCEPT ![t] = to]
                  /\ to \in Counting => pc[t] \in Counting
    BY <1>3 DEF JobBegins, JobRefused, CountUp, CountDown, CountCommandDown,
                Allocate, Properties, FindIpc, PutIpc, CreateProcess, Launched,
                Return, Goto, Counting
  <2>2. UNCHANGED <<starts, run>>
    BY <1>3 DEF JobBegins, JobRefused, CountUp, CountDown, CountCommandDown, Read,
                Write, Allocate, Properties, FindIpc, PutIpc, CreateProcess,
                Return, wbruns
  <2> QED
    BY <1>1, <2>1, <2>2, ContentsSame
<1>4. CASE Load(t)
  <2>1. PICK r \in Prepared[icon[t]] :
          /\ Goto(t, "load", IF ~r.ok THEN "free"
                             ELSE IF r.w.type = "WB" THEN "process" ELSE "count")
          /\ run' = [run EXCEPT ![Current(t)] = r.w]
    BY <1>4 DEF Load
  <2> DEFINE to == IF ~r.ok THEN "free"
                   ELSE IF r.w.type = "WB" THEN "process" ELSE "count"
  <2>2. pc[t] = "load" /\ pc' = [pc EXCEPT ![t] = to]
    BY <2>1 DEF Goto
  <2>3. /\ Right(r.w)
        /\ r.ok /\ r.w.type # "WB" => Full(r.w)
    BY <1>1, PreparedRight DEF Full
  <2>4. to \in Counting => Full(r.w)
    BY <2>3 DEF Counting
  <2> HIDE DEF to
  <2>5. Current(t) \in Starts /\ starts' = starts
    BY <1>2, <1>4, <2>2 DEF Load
  <2>6. ASSUME NEW u \in Tasks, pc'[u] \in Counting
        PROVE  IF Current(u) = Current(t) THEN Full(r.w) ELSE pc[u] \in Counting
    <3>1. CASE u = t
      BY <1>1, <2>2, <2>4, <2>6, <3>1
    <3>2. CASE u # t
      BY <1>1, <2>2, <2>6, <3>2, TasksDiffer
    <3> QED
      BY <3>1, <3>2
  <2> QED
    BY <2>1, <2>3, <2>5, <2>6, ContentsStep
<1>5. CASE CopyForCommand(t)
  <2> DEFINE v == run[Current(t)]
  <2>1. PICK r \in IF v.type = "SCRIPT" THEN {Ok(v)} ELSE CopyArguments(v) :
          run' = [run EXCEPT ![Current(t)] = r.w]
    BY <1>5 DEF CopyForCommand
  <2>2. pc[t] = "copy" /\ pc' = [pc EXCEPT ![t] = "command"] /\ starts' = starts
    BY <1>5 DEF CopyForCommand, Goto
  <2>3. Current(t) \in Starts
    BY <1>2, <2>2
  <2>4. Full(v)
    BY <2>2 DEF Contents, Counting
  <2> HIDE DEF v
  <2>5. Right(r.w)
    BY <2>1, <2>4, ArgumentsRight, FilledRight, OkFields DEF Full
  <2>6. ASSUME NEW u \in Tasks, pc'[u] \in Counting
        PROVE  IF Current(u) = Current(t) THEN Full(r.w) ELSE pc[u] \in Counting
    <3>1. u # t /\ pc[u] \in Counting
      BY <1>1, <2>2, <2>6 DEF Counting
    <3> QED
      BY <3>1, TasksDiffer
  <2> QED
    BY <2>1, <2>2, <2>3, <2>5, <2>6, ContentsStep
<1>6. CASE Command(t) \/ GiveUp(t)
  <2>1. PICK to \in {"return", "down"} :
          pc' = [pc EXCEPT ![t] = to] /\ pc[t] \in {"command", "free"}
    BY <1>6 DEF Command, GiveUp, Goto
  <2>2. Freed(Current(t)) /\ UNCHANGED starts
    BY <1>6 DEF Command, GiveUp
  <2>3. \A u \in Tasks : pc'[u] \in Counting => pc[u] \in Counting
    BY <1>1, <2>1 DEF Counting
  <2>4. Current(t) \in Starts
    BY <1>2, <2>1
  <2> QED
    BY <2>2, <2>3, <2>4, ContentsFreed
<1> QED
  BY <1>3, <1>4, <1>5, <1>6 DEF TaskNext

LEMMA ContentsKept ==
  ASSUME IInv, Contents, [Next]_vars
  PROVE  Contents'
<1>1. pc \in [Tasks -> Places] /\ starts \in [Tasks -> 0..MaxStarts] /\ Waiting
  BY Waits DEF Waiting, TypedTasks
<1>2. CASE UNCHANGED <<pc, starts, run>>
  BY <1>2, ContentsSame
<1>3. ASSUME NEW t \in Tasks, TaskNext(t)
      PROVE  Contents'
  BY <1>3, TaskContents
<1>4. ASSUME NEW t \in Tasks, Job(t) \/ LibCall(t) \/ AskPath(t)
      PROVE  Contents'
  <2>1. PICK to \in {"job", "up", "plain"} : pc[t] = "idle" /\ pc' = [pc EXCEPT ![t] = to]
    BY <1>4 DEF Job, LibCall, AskPath, Goto
  <2>2. starts' = [starts EXCEPT ![t] = @ + 1] /\ UNCHANGED run
    BY <1>4 DEF Job, LibCall, AskPath, wbruns
  <2>3. \A u \in Tasks : pc'[u] \in Counting => pc[u] \in Counting /\ starts'[u] = starts[u]
    BY <1>1, <2>1, <2>2 DEF Counting
  <2> QED
    BY <2>2, <2>3, ContentsSame
<1>5. ASSUME NEW c \in Clients, NEW b, Replied(c, b), UNCHANGED <<starts, run>>
      PROVE  Contents'
  <2>1. \A u \in Tasks : pc'[u] \in Counting => pc[u] \in Counting
    BY <1>1, <1>5 DEF Replied, Counting
  <2> QED
    BY <1>5, <2>1, ContentsSame
<1>6. ASSUME NEW c \in Clients, PropsJob(c) \/ PropsRefused(c)
      PROVE  Contents'
  <2>1. UNCHANGED <<starts, run>>
        /\ (UNCHANGED pc \/ \E b \in BOOLEAN : Replied(c, b))
    BY <1>6 DEF PropsJob, PropsRefused, PropsAnswer, wbruns
  <2> QED
    BY <1>2, <1>5, <2>1
<1>7. CASE IpcMessage
  <2> DEFINE c == Head(ipcport).of
  <2>1. UNCHANGED <<starts, run>> /\ ipcport # <<>>
    BY <1>7 DEF IpcMessage, wbruns
  <2>2. c \in Clients
    <3>1. 1 \in DOMAIN ipcport /\ ipcport[1] = Head(ipcport)
      BY <1>1, <2>1 DEF Waiting, TypedTasks
    <3> QED
      BY <1>1, <3>1, ClientOfMessage DEF Waiting
  <2>3. UNCHANGED pc \/ Replied(c, FALSE)
    BY <1>7 DEF IpcMessage
  <2> QED
    BY <1>2, <1>5, <2>1, <2>2, <2>3
<1>8. CASE CloseIpc
  <2>1. \A u \in Tasks : pc'[u] \in Counting => pc[u] \in Counting
    BY <1>8 DEF CloseIpc, Counting
  <2>2. UNCHANGED <<starts, run>>
    BY <1>8 DEF CloseIpc, wbruns
  <2> QED
    BY <2>1, <2>2, ContentsSame
<1>9. CASE StartHandle
  <2>1. CASE wbstartport # <<>> /\ Freed(Head(wbstartport)) /\ UNCHANGED <<pc, starts>>
    <3>1. Head(wbstartport) \in Starts
      BY <2>1 DEF IInv, Placed, Typed
    <3> QED
      BY <2>1, <3>1, ContentsFreed
  <2>2. CASE UNCHANGED <<pc, starts, wbruns>>
    BY <1>2, <2>2 DEF wbruns
  <2> QED
    BY <1>9, <2>1, <2>2 DEF StartHandle
<1>10. CASE IpcEnter \/ IpcLeave \/ Preclose \/ Quit \/ Cleanup \/ CloseLib \/ CloseStart
  BY <1>2, <1>10 DEF IpcEnter, IpcLeave, Preclose, Quit, Cleanup, CloseLib, CloseStart, wbruns
<1>11. ASSUME NEW s \in Starts, ProgramEnds(s)
       PROVE  Contents'
  BY <1>2, <1>11 DEF ProgramEnds
<1>12. CASE UNCHANGED vars
  BY <1>2, <1>12 DEF vars, wbruns
<1> QED
  BY <1>3, <1>4, <1>6, <1>7, <1>8, <1>9, <1>10, <1>11, <1>12 DEF Next, MainNext, Tasks

-----------------------------------------------------------------------------
(* Who has the library open, and the other variables.                      *)

Inside == {c \in Clients : pc[c] \notin {"idle", "plain"}}
Opened ==
  /\ opencnt = Cardinality(Inside)
  /\ \A c \in Clients : pc[c] # "job"

Others ==
  /\ running_wbproc \in Int /\ reg \in [Tasks \cup {"main"} -> Int]
  /\ msgreply \in BOOLEAN /\ mpc \in MainPlaces
  /\ quitting \in BOOLEAN /\ stray \in BOOLEAN

LEMMA OthersKept ==
  ASSUME Others, [Next]_vars
  PROVE  Others'
<1> USE DEF Others
<1>1. CASE UNCHANGED <<counter, msgreply, main, stray>>
  BY <1>1 DEF counter, main
<1>2. ASSUME NEW t \in Tasks,
             JobBegins(t) \/ JobRefused(t) \/ Allocate(t) \/ Properties(t)
               \/ FindIpc(t) \/ Load(t) \/ CopyForCommand(t) \/ Command(t)
               \/ CreateProcess(t) \/ GiveUp(t) \/ Return(t)
      PROVE  Others'
  BY <1>1, <1>2 DEF JobBegins, JobRefused, Allocate, Properties, FindIpc, Load,
                    CopyForCommand, Command, CreateProcess, GiveUp, Return, ipc
<1>3. ASSUME NEW t \in Tasks, Read(t)
      PROVE  Others'
  BY <1>3 DEF Read, ipc, main
<1>4. ASSUME NEW t \in Tasks, NEW n \in {-1, 1}, Write(t, n)
      PROVE  Others'
  <2>1. reg[t] \in Int
    OBVIOUS
  <2> QED
    BY <1>4, <2>1 DEF Write, ipc, main
<1>5. ASSUME NEW t \in Tasks, CountUp(t) \/ CountDown(t) \/ CountCommandDown(t)
      PROVE  Others'
  BY <1>3, <1>4, <1>5 DEF CountUp, CountDown, CountCommandDown
<1>6. ASSUME NEW t \in Tasks, PutIpc(t)
      PROVE  Others'
  BY <1>6 DEF PutIpc, counter, main
<1>7. ASSUME NEW t, Job(t) \/ LibCall(t) \/ AskPath(t) \/ PropsJob(t) \/ PropsRefused(t)
      PROVE  Others'
  BY <1>1, <1>7 DEF Job, LibCall, AskPath, PropsJob, PropsRefused, ipc
<1>8. ASSUME NEW s, ProgramEnds(s)
      PROVE  Others'
  BY <1>8 DEF ProgramEnds, counter, ipc, main
<1>9. CASE StartHandle
  <2>1. reg["main"] \in Int
    OBVIOUS
  <2> QED
    BY <1>9, <2>1 DEF StartHandle, MainPlaces, counter, ipc
<1>10. CASE IpcEnter \/ IpcLeave \/ Preclose \/ Quit \/ Cleanup
              \/ CloseLib \/ CloseIpc \/ CloseStart
  BY <1>10 DEF IpcEnter, IpcLeave, Preclose, Quit, Cleanup, CloseLib, CloseIpc,
               CloseStart, MainPlaces, counter, ipc
<1>11. CASE IpcMessage
  BY <1>11 DEF IpcMessage, counter, main
<1>12. CASE UNCHANGED vars
  BY <1>1, <1>12 DEF vars, ipc
<1> HIDE DEF Others
<1> QED
  BY <1>2, <1>5, <1>6, <1>7, <1>8, <1>9, <1>10, <1>11, <1>12 DEF Next, MainNext, TaskNext

LEMMA InsideFinite == IsFiniteSet(Inside)
<1>1. Inside \subseteq Clients
  BY DEF Inside
<1> QED
  BY <1>1, ConstantsAssumption, FS_Subset

\* The same clients are inside.
LEMMA OpenedSame ==
  ASSUME Opened, UNCHANGED opencnt,
         \A c \in Clients :
           /\ pc'[c] \in {"idle", "plain"} <=> pc[c] \in {"idle", "plain"}
           /\ pc'[c] = "job" => pc[c] = "job"
  PROVE  Opened'
<1>1. Inside' = Inside
  BY DEF Inside
<1> QED
  BY <1>1 DEF Opened

LEMMA TaskOpened ==
  ASSUME IInv, Opened, NEW t \in Tasks, TaskNext(t)
  PROVE  Opened'
<1>1. pc \in [Tasks -> Places] /\ Clients \subseteq Tasks
  BY DEF IInv, Placed, Typed, Tasks
<1>2. ASSUME NEW to, pc' = [pc EXCEPT ![t] = to], UNCHANGED opencnt,
             to \notin {"idle", "plain", "job"}, pc[t] \notin {"idle", "plain"}
      PROVE  Opened'
  BY <1>1, <1>2, OpenedSame
<1>3. CASE JobBegins(t) \/ CountUp(t) \/ CountDown(t) \/ CountCommandDown(t)
             \/ Allocate(t) \/ Properties(t) \/ FindIpc(t) \/ PutIpc(t)
             \/ Load(t) \/ CopyForCommand(t) \/ Command(t) \/ CreateProcess(t)
             \/ GiveUp(t)
  <2>1. UNCHANGED opencnt
    BY <1>3 DEF JobBegins, CountUp, CountDown, CountCommandDown, Read, Write,
                Allocate, Properties, FindIpc, PutIpc, Load, CopyForCommand,
                Command, CreateProcess, GiveUp
  <2>2. CASE Load(t)
    <3>1. PICK to \in {"free", "process", "count"} : Goto(t, "load", to)
      BY <2>2 DEF Load
    <3> QED
      BY <1>2, <2>1, <3>1 DEF Goto
  <2>3. CASE ~Load(t)
    <3>1. PICK to : /\ pc' = [pc EXCEPT ![t] = to] /\ pc[t] \notin {"idle", "plain"}
                    /\ to \notin {"idle", "plain", "job"}
      BY <1>3, <2>3 DEF JobBegins, CountUp, CountDown, CountCommandDown, Allocate,
                  Properties, FindIpc, PutIpc, CopyForCommand, Command,
                  CreateProcess, Launched, GiveUp, Goto
    <3> QED
      BY <1>2, <2>1, <3>1
  <2> QED
    BY <2>2, <2>3
<1>4. CASE JobRefused(t)
  <2>1. t \notin Clients /\ pc' = [pc EXCEPT ![t] = "idle"] /\ UNCHANGED opencnt
    BY <1>4 DEF JobRefused, Goto, Opened
  <2> QED
    BY <1>1, <2>1, OpenedSame
<1>5. CASE Return(t)
  <2>1. pc[t] = "return" /\ pc' = [pc EXCEPT ![t] = "idle"]
        /\ opencnt' = IF t \in Clients THEN opencnt - 1 ELSE opencnt
    BY <1>5 DEF Return, Goto, LibClose
  <2>2. CASE t \in Clients
    <3>1. Inside' = Inside \ {t} /\ t \in Inside
      BY <1>1, <2>1, <2>2 DEF Inside
    <3>2. Cardinality(Inside \ {t}) = Cardinality(Inside) - 1
      BY <3>1, InsideFinite, FS_RemoveElement
    <3> QED
      BY <1>1, <2>1, <2>2, <3>1, <3>2 DEF Opened
  <2>3. CASE t \notin Clients
    BY <1>1, <2>1, <2>3, OpenedSame
  <2> QED
    BY <2>2, <2>3
<1> QED
  BY <1>3, <1>4, <1>5 DEF TaskNext

LEMMA OpenedKept ==
  ASSUME IInv, Opened, [Next]_vars
  PROVE  Opened'
<1>1. pc \in [Tasks -> Places] /\ Waiting /\ Clients \subseteq Tasks
  BY Waits DEF Waiting, TypedTasks, Tasks
<1>2. CASE UNCHANGED <<pc, opencnt>>
  BY <1>2, OpenedSame
<1>3. ASSUME NEW t \in Tasks, TaskNext(t)
      PROVE  Opened'
  BY <1>3, TaskOpened
<1>4. ASSUME NEW t \in Threads, Job(t)
      PROVE  Opened'
  <2>1. t \notin Clients /\ pc' = [pc EXCEPT ![t] = "job"] /\ UNCHANGED opencnt
    BY <1>4, ConstantsAssumption DEF Job, Goto
  <2> QED
    BY <1>1, <2>1, OpenedSame
<1>5. ASSUME NEW c \in Clients, LibCall(c)
      PROVE  Opened'
  <2>1. pc[c] = "idle" /\ pc' = [pc EXCEPT ![c] = "up"] /\ opencnt' = opencnt + 1
    BY <1>5 DEF LibCall, Goto
  <2>2. Inside' = Inside \cup {c} /\ c \notin Inside
    BY <1>1, <2>1 DEF Inside
  <2>3. Cardinality(Inside \cup {c}) = Cardinality(Inside) + 1
    BY <2>2, InsideFinite, FS_AddElement
  <2> QED
    BY <1>1, <2>1, <2>2, <2>3 DEF Opened
<1>6. ASSUME NEW c \in Clients, AskPath(c)
      PROVE  Opened'
  <2>1. pc[c] = "idle" /\ pc' = [pc EXCEPT ![c] = "plain"] /\ UNCHANGED opencnt
    BY <1>6 DEF AskPath, Goto
  <2> QED
    BY <1>1, <2>1, OpenedSame
<1>7. ASSUME NEW c \in Clients, NEW b, Replied(c, b), pc[c] \in {"plain", "props"},
             UNCHANGED opencnt
      PROVE  Opened'
  <2>1. pc' = [pc EXCEPT ![c] = IF pc[c] = "plain" THEN "idle" ELSE "load"]
    BY <1>7 DEF Replied
  <2> QED
    BY <1>1, <1>7, <2>1, OpenedSame
<1>8. ASSUME NEW c \in Clients, PropsJob(c) \/ PropsRefused(c)
      PROVE  Opened'
  <2>1. UNCHANGED opencnt /\ c \in propjobs
        /\ (UNCHANGED pc \/ \E b \in BOOLEAN : Replied(c, b))
    BY <1>8 DEF PropsJob, PropsRefused, PropsAnswer
  <2>2. pc[c] = "props"
    BY <1>1, <2>1 DEF Waiting, Asked
  <2> QED
    BY <1>2, <1>7, <2>1, <2>2
<1>9. CASE IpcMessage
  <2> DEFINE c == Head(ipcport).of
  <2>1. UNCHANGED opencnt /\ ipcport # <<>>
    BY <1>9 DEF IpcMessage
  <2>2. 1 \in DOMAIN ipcport /\ ipcport[1] = Head(ipcport)
    BY <1>1, <2>1 DEF Waiting, TypedTasks
  <2>3. c \in Clients /\ pc[c] \in {"plain", "props"}
    BY <1>1, <2>2, ClientOfMessage DEF Waiting, Asked
  <2>4. UNCHANGED pc \/ Replied(c, FALSE)
    BY <1>9 DEF IpcMessage
  <2> QED
    BY <1>2, <1>7, <2>1, <2>3, <2>4
<1>10. CASE CloseIpc
  <2>1. ASSUME NEW c \in Clients
        PROVE  /\ pc'[c] \in {"idle", "plain"} <=> pc[c] \in {"idle", "plain"}
               /\ pc'[c] = "job" => pc[c] = "job"
    <3>1. c \in Asking => pc[c] \in {"plain", "props"}
      BY <1>1 DEF Waiting, Asked, Asking
    <3>2. pc'[c] = IF c \notin Asking THEN pc[c]
                   ELSE IF pc[c] = "plain" THEN "idle" ELSE "load"
      BY <1>1, <1>10 DEF CloseIpc
    <3> QED
      BY <3>1, <3>2
  <2>2. UNCHANGED opencnt
    BY <1>10 DEF CloseIpc
  <2> QED
    BY <2>1, <2>2, OpenedSame
<1>11. CASE StartHandle \/ IpcEnter \/ IpcLeave \/ Preclose \/ Quit \/ Cleanup
              \/ CloseLib \/ CloseStart
  BY <1>2, <1>11 DEF StartHandle, IpcEnter, IpcLeave, Preclose, Quit, Cleanup,
                     CloseLib, CloseStart
<1>12. ASSUME NEW s \in Starts, ProgramEnds(s)
       PROVE  Opened'
  BY <1>2, <1>12 DEF ProgramEnds
<1>13. CASE UNCHANGED vars
  BY <1>2, <1>13 DEF vars
<1> QED
  BY <1>3, <1>4, <1>5, <1>6, <1>8, <1>9, <1>10, <1>11, <1>12, <1>13 DEF Next, MainNext

Whole == IInv /\ Contents /\ Opened /\ Others

LEMMA InitWhole == Init => Whole
<1> SUFFICES ASSUME Init PROVE Whole
  OBVIOUS
<1>1. Contents
  <2>1. Full(NewWbrun) /\ Right(NewWbrun)
    BY NewFilled, FilledRight DEF Full
  <2>2. run = [s \in Starts |-> NewWbrun] /\ \A t \in Tasks : pc[t] = "idle"
    BY DEF Init
  <2> QED
    BY <2>1, <2>2 DEF Contents, Right, Counting
<1>2. Opened
  <2>1. Inside = {} /\ opencnt = 0 /\ \A c \in Clients : pc[c] # "job"
    BY DEF Init, Inside, Tasks
  <2> QED
    BY <2>1, FS_EmptySet DEF Opened
<1>3. Others
  <2>1. running_wbproc \in Int /\ reg \in [Tasks \cup {"main"} -> Int]
    BY DEF Init
  <2>2. msgreply \in BOOLEAN /\ quitting \in BOOLEAN /\ stray \in BOOLEAN
    BY DEF Init
  <2>3. mpc \in MainPlaces
    BY DEF Init, MainPlaces
  <2> QED
    BY <2>1, <2>2, <2>3 DEF Others
<1> QED
  BY <1>1, <1>2, <1>3, InitIInv DEF Whole

LEMMA WholeKept == Whole /\ [Next]_vars => Whole'
<1> SUFFICES ASSUME Whole, [Next]_vars PROVE Whole'
  OBVIOUS
<1>1. IInv /\ Contents /\ Opened /\ Others
  BY DEF Whole
<1>2. IInv'
  BY <1>1, PlacedKept, OwnedKept DEF IInv
<1> QED
  BY <1>1, <1>2, ContentsKept, OpenedKept, OthersKept DEF Whole

LEMMA WholeTyped == Whole => TypeOK
<1> SUFFICES ASSUME Whole PROVE TypeOK
  OBVIOUS
<1>1. Typed /\ Contents /\ Opened /\ Others
  BY DEF Whole, IInv, Placed
<1>2. opencnt \in 0..Cardinality(Inside)
  <2>1. Cardinality(Inside) \in Nat
    BY InsideFinite, FS_CardinalityType
  <2> QED
    BY <1>1, <2>1 DEF Opened
<1> QED
  BY <1>1, <1>2 DEF Typed, Contents, Others, Inside, TypeOK

-----------------------------------------------------------------------------
\* Each struct wbrun belongs to one of those who use and free it, none of them
\* has one that was freed, and the code of a program stays loaded: v_wbstart,
\* wbstart_handle and free_wbrun, whatever fails, for every set of icons and
\* of tasks.
THEOREM OwnerUnique == Spec => []OneOwner
<1>1. Init => IInv
  BY InitIInv
<1>2. IInv /\ [Next]_vars => IInv'
  BY PlacedKept, OwnedKept DEF IInv
<1>3. IInv => OneOwner
  BY OwnedOnce
<1> QED
  BY <1>1, <1>2, <1>3, PTL DEF Spec

\* The variables have their types, in every reachable state and whatever the
\* threads, icons and failures: a struct wbrun is never asked for a lock that
\* was not made for it, and opencnt of the library, which init_preclose asks,
\* is at most the number of its users.
THEOREM TypeCorrect == Spec => []TypeOK
<1>1. Init => Whole
  BY InitWhole
<1>2. Whole /\ [Next]_vars => Whole'
  BY WholeKept
<1>3. Whole => TypeOK
  BY WholeTyped
<1> QED
  BY <1>1, <1>2, <1>3, PTL DEF Spec

\* Where no name is refused for want of memory, and a project started without
\* a path does not have a tool without one, free_wbrun gives back each lock that
\* fill_current_arg_x, scanloadpath and copy_arguments took, and each once,
\* whatever else has failed before.
THEOREM LocksGivenBack ==
  ASSUME NoSlips
  PROVE  Spec => []LocksOnce
<1>1. Init => Whole
  BY InitWhole
<1>2. Whole /\ [Next]_vars => Whole'
  BY WholeKept
<1>3. Whole => LocksOnce
  BY DEF Whole, IInv, Placed, Typed, Contents, LocksOnce
<1> QED
  BY <1>1, <1>2, <1>3, PTL DEF Spec
=============================================================================
