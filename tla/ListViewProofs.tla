--------------------------- MODULE ListViewProofs ---------------------------
(***************************************************************************)
(* Proofs about ListView: what holds of a window that lists a directory,   *)
(* for any number of directories, files, requests, modes and file jobs.    *)
(***************************************************************************)
EXTENDS ListView, SequenceTheorems, FiniteSetTheorems, TLAPS

\* Among one more addresses than there are objects one is free.
LEMMA FreeIdNew ==
  ASSUME NEW S, IsFiniteSet(S)
  PROVE  FreeId(S) \in Nat /\ \A x \in S : x.id # FreeId(S)
<1> DEFINE n == Cardinality(S)
           I == 1..(n + 1)
           f == [i \in I |-> CHOOSE x \in S : x.id = i]
<1>1. n \in Nat
  BY FS_CardinalityType
<1>2. IsFiniteSet(I) /\ Cardinality(I) = n + 1
  BY <1>1, FS_Interval
<1>3. \E i \in I : \A x \in S : x.id # i
  <2> SUFFICES ASSUME \A i \in I : \E x \in S : x.id = i
               PROVE  FALSE
    OBVIOUS
  <2>1. \A i \in I : f[i] \in S /\ f[i].id = i
    OBVIOUS
  <2>2. f \in [I -> S]
    BY <2>1
  <2>3. n < Cardinality(I)
    BY <1>1, <1>2
  <2> HIDE DEF f, I
  <2>4. \E i, k \in I : i # k /\ f[i] = f[k]
    BY <1>2, <2>2, <2>3, FS_PigeonHole
  <2> QED
    BY <2>1, <2>4
<1>4. FreeId(S) \in I /\ \A x \in S : x.id # FreeId(S)
  BY <1>3 DEF FreeId
<1> QED
  BY <1>1, <1>4

-----------------------------------------------------------------------------
(* Sequences.                                                              *)

LEMMA SeqParts ==
  ASSUME NEW S, NEW s \in Seq(S)
  PROVE  /\ Len(s) \in Nat /\ DOMAIN s = 1..Len(s)
         /\ \A i \in 1..Len(s) : s[i] \in S
         /\ s = <<>> <=> Len(s) = 0
  BY EmptySeq, LenProperties, ElementOfSeq

LEMMA TailParts ==
  ASSUME NEW S, NEW s \in Seq(S), s # <<>>
  PROVE  /\ Head(s) \in S /\ Head(s) = s[1]
         /\ Tail(s) \in Seq(S) /\ Len(Tail(s)) = Len(s) - 1
         /\ DOMAIN Tail(s) = 1..(Len(s) - 1)
         /\ \A i \in 1..(Len(s) - 1) : Tail(s)[i] = s[i + 1]
<1>1. /\ Tail(s) \in Seq(S) /\ Len(Tail(s)) = Len(s) - 1
      /\ \A i \in 1..(Len(s) - 1) : Tail(s)[i] = s[i + 1]
      /\ Head(s) \in S
  BY HeadTailProperties
<1>2. DOMAIN Tail(s) = 1..(Len(s) - 1)
  BY <1>1, LenProperties
<1>3. Head(s) = s[1]
  OBVIOUS
<1> QED
  BY <1>1, <1>2, <1>3

LEMMA ConcatParts ==
  ASSUME NEW S, NEW p \in Seq(S), NEW s \in Seq(S)
  PROVE  /\ p \o s \in Seq(S) /\ Len(p \o s) = Len(p) + Len(s)
         /\ DOMAIN (p \o s) = 1..(Len(p) + Len(s))
         /\ \A i \in 1..Len(p) : (p \o s)[i] = p[i]
         /\ \A i \in (Len(p) + 1)..(Len(p) + Len(s)) : (p \o s)[i] = s[i - Len(p)]
<1>1. /\ p \o s \in Seq(S) /\ Len(p \o s) = Len(p) + Len(s)
      /\ \A i \in 1 .. Len(p) + Len(s) :
           (p \o s)[i] = IF i <= Len(p) THEN p[i] ELSE s[i - Len(p)]
  BY ConcatProperties
<1>2. Len(p) \in Nat /\ Len(s) \in Nat
  BY LenProperties
<1>3. DOMAIN (p \o s) = 1..(Len(p) + Len(s))
  BY <1>1, LenProperties
<1> QED
  BY <1>1, <1>2, <1>3

-----------------------------------------------------------------------------
(* The entries.                                                            *)

DataOK(d) ==
  /\ d \in Data
  /\ d.newentry \cup d.removed \cup d.rlist \subseteq d.alist
  /\ IsFiniteSet(d.alist) /\ IsFiniteSet(d.list)

\* What the functions that change the lists leave alone.
SameState(d, e) ==
  /\ e.path = d.path /\ e.busy = d.busy /\ e.showfiles = d.showfiles
  /\ e.view_mode = d.view_mode /\ e.viewmode_postpone = d.viewmode_postpone

ScanEntries(d) == {e \in d.alist : e.by = "scan"}

\* e comes of d, with no entry of a scan that was not there before.
Comes(d, e) == DataOK(e) /\ SameState(d, e) /\ ScanEntries(e) \subseteq ScanEntries(d)

LEMMA ComesTrans ==
  ASSUME NEW a, NEW b, NEW c, Comes(a, b), Comes(b, c)
  PROVE  Comes(a, c)
  BY DEF Comes, SameState

LEMMA ComesSame == ASSUME NEW d, DataOK(d) PROVE Comes(d, d)
  BY DEF Comes, SameState

LEMMA DataParts ==
  ASSUME NEW d, DataOK(d)
  PROVE  /\ d.alist \subseteq Entry /\ d.list \subseteq Entry
         /\ d.newentry \subseteq d.alist /\ d.removed \subseteq d.alist
         /\ d.rlist \subseteq d.alist
         /\ IsFiniteSet(d.alist) /\ IsFiniteSet(d.list)
  BY DEF DataOK, Data

Lists(d, al, li, ne, re, rl) ==
  [d EXCEPT !.alist = al, !.list = li, !.newentry = ne, !.removed = re, !.rlist = rl]

\* Sets of entries that are not larger may take the place of others.
LEMMA Smaller ==
  ASSUME NEW d, DataOK(d), NEW al \in SUBSET d.alist, NEW li \in SUBSET Entry, IsFiniteSet(li),
         NEW ne \in SUBSET al, NEW re \in SUBSET al, NEW rl \in SUBSET al
  PROVE  Comes(d, Lists(d, al, li, ne, re, rl))
<1> DEFINE E == Entry
           e == Lists(d, al, li, ne, re, rl)
<1>1. d.alist \subseteq E /\ IsFiniteSet(d.alist)
  BY DataParts
<1>2. d \in [path : Places \cup {NULL}, busy : SUBSET Kinds, startnewthread : SUBSET Kinds,
             showfiles : BOOLEAN, view_mode : Modes, viewmode_postpone : Modes \cup {NULL},
             update : BOOLEAN, filecreate : BOOLEAN, filedelete : BOOLEAN,
             alist : SUBSET E, list : SUBSET E, newentry : SUBSET E,
             removed : SUBSET E, rlist : SUBSET E]
  BY DEF DataOK, Data
<1>3. al \subseteq E /\ li \subseteq E /\ ne \subseteq E /\ re \subseteq E /\ rl \subseteq E
  BY <1>1
<1>4. IsFiniteSet(al)
  BY <1>1, FS_Subset
<1> HIDE DEF E
<1>5. e \in [path : Places \cup {NULL}, busy : SUBSET Kinds, startnewthread : SUBSET Kinds,
             showfiles : BOOLEAN, view_mode : Modes, viewmode_postpone : Modes \cup {NULL},
             update : BOOLEAN, filecreate : BOOLEAN, filedelete : BOOLEAN,
             alist : SUBSET E, list : SUBSET E, newentry : SUBSET E,
             removed : SUBSET E, rlist : SUBSET E]
  BY <1>2, <1>3 DEF Lists
<1>6. /\ e.alist = al /\ e.list = li /\ e.newentry = ne /\ e.removed = re /\ e.rlist = rl
      /\ SameState(d, e)
  BY <1>2 DEF SameState, Lists
<1> HIDE DEF e
<1>7. e \in Data
  BY <1>5 DEF Data, E
<1>8. ScanEntries(e) \subseteq ScanEntries(d)
  BY <1>6 DEF ScanEntries
<1> QED
  BY <1>4, <1>6, <1>7, <1>8 DEF Comes, DataOK, e

LEMMA RemoveFilesComes ==
  ASSUME NEW d, DataOK(d), NEW e \in RemoveFiles(d)
  PROVE  Comes(d, e)
<1>1. /\ d.alist \subseteq Entry /\ d.list \subseteq Entry
      /\ d.newentry \subseteq d.alist /\ d.removed \subseteq d.alist
      /\ d.rlist \subseteq d.alist
      /\ IsFiniteSet(d.alist) /\ IsFiniteSet(d.list)
  BY DataParts
<1>2. PICK t \in Taken(d) : e = Freed(t)
  BY DEF RemoveFiles
<1>3. Comes(d, t)
  <2>1. CASE t = [d EXCEPT !.list = @ \ d.rlist, !.removed = @ \ (d.rlist \ d.list)]
    <3> DEFINE li == d.list \ d.rlist
               re == d.removed \ (d.rlist \ d.list)
    <3>1. IsFiniteSet(li) /\ li \in SUBSET Entry /\ re \in SUBSET d.alist
      BY <1>1, FS_Subset
    <3>2. t = Lists(d, d.alist, li, d.newentry, re, d.rlist)
      BY <2>1 DEF Lists, DataOK, Data
    <3> HIDE DEF li, re
    <3> QED
      BY <1>1, <3>1, <3>2, Smaller
  <2>2. CASE \E s \in {d.removed \cap d.list} \ {{}} : t = [d EXCEPT !.list = @ \ s]
    <3>1. PICK s : t = [d EXCEPT !.list = @ \ s]
      BY <2>2
    <3> DEFINE li == d.list \ s
    <3>2. IsFiniteSet(li) /\ li \in SUBSET Entry
      BY <1>1, FS_Subset
    <3>3. t = Lists(d, d.alist, li, d.newentry, d.removed, d.rlist)
      BY <3>1 DEF Lists, DataOK, Data
    <3> HIDE DEF li
    <3> QED
      BY <1>1, <3>2, <3>3, Smaller
  <2> QED
    BY <1>2, <2>1, <2>2 DEF Taken
<1>4. Comes(t, e)
  <2>0. DataOK(t)
    BY <1>3 DEF Comes
  <2>1. CASE "icons" \in t.busy
    BY <1>2, <2>0, <2>1, ComesSame DEF Freed
  <2>2. CASE "icons" \notin t.busy
    <3> DEFINE dead == t.rlist \cap t.removed
    <3>1. e = [t EXCEPT !.alist = @ \ dead, !.newentry = @ \ dead, !.removed = @ \ dead,
                        !.rlist = {}]
      BY <1>2, <2>2 DEF Freed
    <3>2. /\ t.list \subseteq Entry /\ IsFiniteSet(t.list)
          /\ t.newentry \subseteq t.alist /\ t.removed \subseteq t.alist
      BY <2>0, DataParts
    <3> HIDE DEF dead
    <3>3. e = Lists(t, t.alist \ dead, t.list, t.newentry \ dead, t.removed \ dead, {})
      BY <2>0, <3>1 DEF Lists, DataOK, Data
    <3> QED
      BY <2>0, <3>2, <3>3, Smaller
  <2> QED
    BY <2>1, <2>2
<1> QED
  BY <1>3, <1>4, ComesTrans

LEMMA UpdateComes ==
  ASSUME NEW d, DataOK(d), NEW e \in UpdateViewNormal(d) \cup UpdateViewNew(d)
  PROVE  Comes(d, e)
<1>1. /\ d.alist \subseteq Entry /\ d.list \subseteq Entry
      /\ d.newentry \subseteq d.alist /\ d.removed \subseteq d.alist
      /\ d.rlist \subseteq d.alist
      /\ IsFiniteSet(d.alist) /\ IsFiniteSet(d.list)
  BY DataParts
<1>2. ASSUME NEW c, Comes(d, c), NEW r \in RemoveFiles(c), NEW li \in SUBSET Entry,
             IsFiniteSet(li), e = [r EXCEPT !.list = li]
      PROVE  Comes(d, e)
  <2>1. Comes(d, r) /\ DataOK(r)
    BY <1>2, RemoveFilesComes, ComesTrans DEF Comes
  <2>2. e = Lists(r, r.alist, li, r.newentry, r.removed, r.rlist)
    BY <1>2, <2>1 DEF Lists, DataOK, Data
  <2>3. Comes(r, e)
    BY <1>2, <2>1, <2>2, DataParts, Smaller
  <2> QED
    BY <2>1, <2>3, ComesTrans
<1>3. CASE e \in UpdateViewNormal(d)
  <2> DEFINE c == [d EXCEPT !.list = {}]
  <2>1. Comes(d, c)
    <3>1. c = Lists(d, d.alist, {}, d.newentry, d.removed, d.rlist)
      BY DEF Lists, DataOK, Data
    <3> QED
      BY <1>1, <3>1, Smaller, FS_EmptySet
  <2>2. \E r \in RemoveFiles(c) : e = [r EXCEPT !.list = d.alist]
    BY <1>3 DEF UpdateViewNormal
  <2> QED
    BY <1>1, <1>2, <2>1, <2>2
<1>4. CASE e \in UpdateViewNew(d)
  <2> DEFINE c == [d EXCEPT !.newentry = {}]
  <2>1. Comes(d, c)
    <3>1. c = Lists(d, d.alist, d.list, {}, d.removed, d.rlist)
      BY DEF Lists, DataOK, Data
    <3> QED
      BY <1>1, <3>1, Smaller
  <2>2. PICK r \in RemoveFiles(c) : e = [r EXCEPT !.list = @ \cup d.newentry]
    BY <1>4 DEF UpdateViewNew
  <2>3. DataOK(r)
    BY <2>1, <2>2, RemoveFilesComes DEF Comes
  <2> DEFINE li == r.list \cup d.newentry
  <2>4. IsFiniteSet(li) /\ li \in SUBSET Entry
    BY <1>1, <2>3, DataParts, FS_Union, FS_Subset
  <2>5. e = [r EXCEPT !.list = li]
    BY <2>2, <2>3 DEF DataOK, Data
  <2> HIDE DEF li, c
  <2> QED
    BY <1>2, <2>1, <2>2, <2>4, <2>5
<1> QED
  BY <1>3, <1>4

\* A flag of the data is set.
LEMMA FlagComes ==
  ASSUME NEW d, DataOK(d), NEW b \in BOOLEAN
  PROVE  /\ Comes(d, [d EXCEPT !.update = b])
         /\ Comes(d, [d EXCEPT !.filecreate = b])
         /\ Comes(d, [d EXCEPT !.filedelete = b])
         /\ Comes(d, [d EXCEPT !.filecreate = FALSE, !.filedelete = FALSE])
<1> DEFINE E == SUBSET Entry
           D == [path : Places \cup {NULL}, busy : SUBSET Kinds, startnewthread : SUBSET Kinds,
                 showfiles : BOOLEAN, view_mode : Modes, viewmode_postpone : Modes \cup {NULL},
                 update : BOOLEAN, filecreate : BOOLEAN, filedelete : BOOLEAN,
                 alist : E, list : E, newentry : E, removed : E, rlist : E]
<1>1. d \in D /\ Data = D
  BY DEF DataOK, Data
<1>2. ASSUME NEW e \in D, SameState(d, e), e.alist = d.alist, e.list = d.list,
             e.newentry = d.newentry, e.removed = d.removed, e.rlist = d.rlist
      PROVE  Comes(d, e)
  BY <1>1, <1>2 DEF Comes, DataOK, ScanEntries
<1> HIDE DEF E
<1>3. /\ [d EXCEPT !.update = b] \in D
      /\ [d EXCEPT !.filecreate = b] \in D
      /\ [d EXCEPT !.filedelete = b] \in D
      /\ [d EXCEPT !.filecreate = FALSE, !.filedelete = FALSE] \in D
  BY <1>1
<1>4. Comes(d, [d EXCEPT !.update = b])
  BY <1>1, <1>2, <1>3 DEF SameState
<1>5. Comes(d, [d EXCEPT !.filecreate = b])
  BY <1>1, <1>2, <1>3 DEF SameState
<1>6. Comes(d, [d EXCEPT !.filedelete = b])
  BY <1>1, <1>2, <1>3 DEF SameState
<1>7. Comes(d, [d EXCEPT !.filecreate = FALSE, !.filedelete = FALSE])
  <2> DEFINE e == [d EXCEPT !.filecreate = FALSE, !.filedelete = FALSE]
  <2>1. /\ e \in D /\ e.alist = d.alist /\ e.list = d.list
        /\ e.newentry = d.newentry /\ e.removed = d.removed /\ e.rlist = d.rlist
        /\ SameState(d, e)
    BY <1>1, <1>3 DEF SameState
  <2> HIDE DEF e, D
  <2>2. Comes(d, e)
    BY <1>2, <2>1
  <2> QED
    BY <2>2 DEF e
<1> QED
  BY <1>4, <1>5, <1>6, <1>7

LEMMA AddedData ==
  ASSUME NEW d, DataOK(d), NEW n \in Names, NEW place \in Places,
         NEW by \in {"scan", "notify"}
  PROVE  /\ DataOK(Added(d, n, place, by)) /\ SameState(d, Added(d, n, place, by))
         /\ \A x \in Added(d, n, place, by).alist \ d.alist :
              x.by = by /\ x.from = place /\ x.at = d.path
<1> DEFINE i == FreeId(d.alist \cup d.list)
           x == [id |-> i, name |-> n, from |-> place, by |-> by, at |-> d.path]
           r == Added(d, n, place, by)
           ne == IF by = "notify" THEN d.newentry \cup {x} ELSE d.newentry
           D == [path : Places \cup {NULL}, busy : SUBSET Kinds, startnewthread : SUBSET Kinds,
                 showfiles : BOOLEAN, view_mode : Modes, viewmode_postpone : Modes \cup {NULL},
                 update : BOOLEAN, filecreate : BOOLEAN, filedelete : BOOLEAN,
                 alist : SUBSET Entry, list : SUBSET Entry, newentry : SUBSET Entry,
                 removed : SUBSET Entry, rlist : SUBSET Entry]
<1>1. /\ d.alist \subseteq Entry /\ d.newentry \subseteq d.alist
      /\ IsFiniteSet(d.alist) /\ IsFiniteSet(d.list)
  BY DataParts
<1>2. i \in Nat
  BY <1>1, FS_Union, FreeIdNew
<1>3. d \in D /\ Data = D
  BY DEF DataOK, Data
<1>4. r = [d EXCEPT !.alist = @ \cup {x}, !.newentry = ne]
  BY <1>3 DEF Added
<1> HIDE DEF i, r
<1>5. x \in Entry
  BY <1>2, <1>3 DEF Entry
<1>6. x.by = by /\ x.from = place /\ x.at = d.path
  OBVIOUS
<1> HIDE DEF x, D
<1>7. ne \subseteq d.alist \cup {x} /\ d.alist \cup {x} \in SUBSET Entry /\ ne \in SUBSET Entry
  BY <1>1, <1>5
<1> HIDE DEF ne
<1>8. /\ r.alist = d.alist \cup {x} /\ r.newentry = ne /\ r.list = d.list
      /\ r.removed = d.removed /\ r.rlist = d.rlist /\ SameState(d, r)
  BY <1>3, <1>4 DEF SameState, D
<1>9. r \in Data
  BY <1>3, <1>4, <1>7 DEF D
<1>10. IsFiniteSet(r.alist)
  BY <1>1, <1>8, FS_AddElement
<1>11. DataOK(r)
  BY <1>7, <1>8, <1>9, <1>10 DEF DataOK
<1> QED
  BY <1>6, <1>8, <1>11 DEF r

LEMMA RemoveByNameComes ==
  ASSUME NEW d, DataOK(d), NEW n, NEW e \in RemoveByName(d, n)
  PROVE  Comes(d, e)
<1>1. CASE e = d
  BY <1>1, ComesSame
<1>2. CASE \E x \in d.alist : e = [d EXCEPT !.removed = @ \cup {x}, !.rlist = @ \cup {x}]
  <2>1. PICK x \in d.alist : e = [d EXCEPT !.removed = @ \cup {x}, !.rlist = @ \cup {x}]
    BY <1>2
  <2> DEFINE re == d.removed \cup {x}
             rl == d.rlist \cup {x}
  <2>2. e = Lists(d, d.alist, d.list, d.newentry, re, rl)
    BY <2>1 DEF Lists, DataOK, Data
  <2>3. /\ re \in SUBSET d.alist /\ rl \in SUBSET d.alist /\ d.newentry \in SUBSET d.alist
        /\ d.list \in SUBSET Entry /\ IsFiniteSet(d.list)
    BY DataParts
  <2> HIDE DEF re, rl
  <2> QED
    BY <2>2, <2>3, Smaller
<1> QED
  BY <1>1, <1>2 DEF RemoveByName

LEMMA ClearData ==
  ASSUME NEW d, DataOK(d)
  PROVE  /\ DataOK(Clear([d EXCEPT !.showfiles = FALSE]))
         /\ Clear([d EXCEPT !.showfiles = FALSE]).alist = {}
         /\ Clear([d EXCEPT !.showfiles = FALSE]).busy = d.busy
         /\ Clear([d EXCEPT !.showfiles = FALSE]).path = d.path
         /\ Clear([d EXCEPT !.showfiles = FALSE]).showfiles = FALSE
<1> DEFINE e == Clear([d EXCEPT !.showfiles = FALSE])
<1>1. /\ e.alist = {} /\ e.list = {} /\ e.newentry = {} /\ e.removed = {} /\ e.rlist = {}
      /\ e.busy = d.busy /\ e.path = d.path /\ e.showfiles = FALSE /\ e \in Data
  BY DEF Clear, DataOK, Data
<1> QED
  BY <1>1, FS_EmptySet DEF DataOK

\* What is made of notifications comes of the data, but for entries of its own.
LEMMA DisplayedComes ==
  ASSUME NEW d, DataOK(d), NEW e \in Displayed(d)
  PROVE  Comes(d, e)
<1> DEFINE created == IF d.filecreate THEN UpdateViewNew(d) ELSE {d}
           deleted == IF d.filedelete THEN UNION {RemoveFiles(c) : c \in created}
                      ELSE created
<1>1. PICK r \in deleted : e = [r EXCEPT !.filecreate = FALSE, !.filedelete = FALSE]
  BY DEF Displayed
<1>2. PICK c \in created : r \in (IF d.filedelete THEN RemoveFiles(c) ELSE {c})
  OBVIOUS
<1>3. Comes(d, c) /\ DataOK(c)
  BY <1>2, UpdateComes, ComesSame DEF Comes
<1>4. Comes(c, r) /\ DataOK(r)
  BY <1>2, <1>3, RemoveFilesComes, ComesSame DEF Comes
<1>5. Comes(r, e)
  BY <1>1, <1>4, FlagComes
<1> QED
  BY <1>3, <1>4, <1>5, ComesTrans

\* A notification has a name, if it is of a file.
LEMMA StepName ==
  ASSUME NEW x \in Step
  PROVE  /\ x.act \in {"disable", "enable", "make", "unmake", "create", "delete"}
         /\ x.act \in {"make", "unmake", "create", "delete"} => x.name \in Names
  BY DEF Step

LEMMA NotedComes ==
  ASSUME DataOK(lv), notice \in Step, fjob.place \in Places, NEW d \in Noted
  PROVE  Comes(lv, d) \/ notice.act \in {"make", "unmake"}
<1>1. CASE notice.act \in {"disable", "enable"}
  BY <1>1, FlagComes DEF Noted
<1>2. CASE notice.act = "delete"
  <2> DEFINE c == [lv EXCEPT !.filedelete = TRUE]
  <2>1. Comes(lv, c) /\ DataOK(c)
    BY FlagComes DEF Comes
  <2>2. d \in RemoveByName(c, notice.name)
    BY <1>2 DEF Noted
  <2> QED
    BY <2>1, <2>2, RemoveByNameComes, ComesTrans
<1>3. CASE notice.act = "create"
  <2> DEFINE c == [lv EXCEPT !.filecreate = TRUE]
  <2>1. Comes(lv, c) /\ DataOK(c)
    BY FlagComes DEF Comes
  <2>2. d = c \/ \E e \in RemoveByName(c, notice.name) :
                   d = Added(e, notice.name, fjob.place, "notify")
    BY <1>3 DEF Noted
  <2>3. ASSUME NEW e \in RemoveByName(c, notice.name),
               d = Added(e, notice.name, fjob.place, "notify")
        PROVE  Comes(lv, d)
    <3>1. Comes(c, e) /\ DataOK(e)
      BY <2>1, <2>3, RemoveByNameComes DEF Comes
    <3>2. /\ DataOK(d) /\ SameState(e, d)
          /\ \A x \in d.alist \ e.alist : x.by = "notify"
      BY <1>3, <2>3, <3>1, StepName, AddedData
    <3>3. Comes(e, d)
      BY <3>2 DEF Comes, ScanEntries
    <3> QED
      BY <2>1, <3>1, <3>3, ComesTrans
  <2> QED
    BY <2>1, <2>2, <2>3
<1> QED
  BY <1>1, <1>2, <1>3, StepName

-----------------------------------------------------------------------------
(* The jobs.                                                               *)

JobsOK(js) ==
  /\ js \subseteq Job /\ IsFiniteSet(js)
  /\ \A i, j \in js : i.id = j.id => i = j
  /\ \A j \in js : j.at = "push" => j.kind = "scan" /\ j.name \in Names
  /\ \A j \in js : j.kind = "scan" => j.place \in Places

\* ks is js with jobs of other kinds that have just been given to a thread.
Grown(js, ks) ==
  /\ JobsOK(ks) /\ js \subseteq ks
  /\ \A j \in ks \ js : j.kind # "scan" /\ \A i \in js : i.id # j.id

\* The job NewJob adds, and what is to be known of it.
NewestJob(js, kind, place, hit) ==
  [id |-> FreeId(js), kind |-> kind, place |-> place, at |-> "start",
   names |-> {}, name |-> NULL, abort |-> kind \in hit,
   late |-> kind = "scan" /\ kind \in hit]

IsNew(js, kind, place, hit, x) ==
  /\ x \in Job
  /\ NewJob(js, kind, place, hit) = js \cup {x} /\ JobsOK(js \cup {x})
  /\ x.kind = kind /\ x.place = place /\ x.at = "start"
  /\ \A i \in js : i.id # x.id

LEMMA NewJobData ==
  ASSUME NEW js, JobsOK(js), NEW kind, kind \in Kinds, NEW hit,
         NEW place, place \in Places \/ (place = NULL /\ kind # "scan")
  PROVE  IsNew(js, kind, place, hit, NewestJob(js, kind, place, hit))
<1> DEFINE x == NewestJob(js, kind, place, hit)
<1>1. FreeId(js) \in Nat /\ \A i \in js : i.id # FreeId(js)
  BY FreeIdNew DEF JobsOK
<1>2. NewJob(js, kind, place, hit) = js \cup {x}
  BY DEF NewJob, NewestJob
<1>3. x \in Job
  <2> DEFINE told == kind \in hit
             late1 == kind = "scan" /\ kind \in hit
  <2>1. told \in BOOLEAN /\ late1 \in BOOLEAN
    OBVIOUS
  <2>2. x = [id |-> FreeId(js), kind |-> kind, place |-> place, at |-> "start",
             names |-> {}, name |-> NULL, abort |-> told, late |-> late1]
    BY DEF NewestJob
  <2> HIDE DEF told, late1, x
  <2> QED
    BY <1>1, <2>1, <2>2 DEF Job
<1>4. x.kind = kind /\ x.place = place /\ x.at = "start" /\ \A i \in js : i.id # x.id
  BY <1>1 DEF NewestJob
<1> HIDE DEF x
<1>5. IsFiniteSet(js \cup {x})
  BY FS_AddElement DEF JobsOK
<1>6. JobsOK(js \cup {x})
  BY <1>3, <1>4, <1>5 DEF JobsOK
<1>7. IsNew(js, kind, place, hit, x)
  BY <1>2, <1>3, <1>4, <1>6 DEF IsNew
<1> QED
  BY <1>7 DEF x

\* The idle threads that have a CTRL_D pending, of which some are given jobs.
LEMMA GivenLeft ==
  ASSUME late \in Nat, NEW hit \in SUBSET Kinds, NEW js, Given(js, hit)
  PROVE  late' \in Nat
<1>1. IsFiniteSet(Kinds)
  <2>1. IsFiniteSet({"scan"})
    BY FS_Singleton
  <2>2. IsFiniteSet({"scan"} \cup {"icons"})
    BY <2>1, FS_AddElement
  <2>3. IsFiniteSet(({"scan"} \cup {"icons"}) \cup {"types"})
    BY <2>2, FS_AddElement
  <2>4. Kinds = ({"scan"} \cup {"icons"}) \cup {"types"}
    BY DEF Kinds
  <2> QED
    BY <2>3, <2>4
<1>2. Cardinality(hit) \in Nat
  BY <1>1, FS_Subset, FS_CardinalityType
<1> QED
  BY <1>2 DEF Given

LEMMA GrownTrans ==
  ASSUME NEW a, NEW b, NEW c, Grown(a, b), Grown(b, c)
  PROVE  Grown(a, c)
  BY DEF Grown

LEMMA GrownSame == ASSUME NEW a, JobsOK(a) PROVE Grown(a, a)
  BY DEF Grown

\* The data after the end of a thread of some kind: the marks of others that
\* are set are old ones, or those of new jobs.
After(d, js, e, ks, kind) ==
  /\ DataOK(e) /\ Grown(js, ks)
  /\ e.path = d.path /\ ScanEntries(e) \subseteq ScanEntries(d)
  /\ \A k \in e.busy : (k \in d.busy /\ k # kind) \/ \E j \in ks \ js : j.kind = k
  /\ "scan" \in d.busy /\ kind # "scan" => "scan" \in e.busy
  /\ d.showfiles => e.showfiles

Marked(d, b, sn) == [d EXCEPT !.busy = b, !.startnewthread = sn]

LEMMA BusyData ==
  ASSUME NEW d, DataOK(d), NEW b \in SUBSET Kinds, NEW sn \in SUBSET Kinds
  PROVE  LET e == Marked(d, b, sn)
         IN  /\ DataOK(e) /\ e.busy = b /\ e.startnewthread = sn
             /\ e.path = d.path /\ e.showfiles = d.showfiles
             /\ e.viewmode_postpone = d.viewmode_postpone
             /\ ScanEntries(e) = ScanEntries(d)
<1> DEFINE e == Marked(d, b, sn)
           E == SUBSET Entry
           K == SUBSET Kinds
           D == [path : Places \cup {NULL}, busy : K, startnewthread : K,
                 showfiles : BOOLEAN, view_mode : Modes, viewmode_postpone : Modes \cup {NULL},
                 update : BOOLEAN, filecreate : BOOLEAN, filedelete : BOOLEAN,
                 alist : E, list : E, newentry : E, removed : E, rlist : E]
<1>1. d \in D /\ Data = D
  BY DEF DataOK, Data
<1> HIDE DEF E, K
<1>2. /\ e.busy = b /\ e.startnewthread = sn /\ e.path = d.path
      /\ e.showfiles = d.showfiles /\ e.viewmode_postpone = d.viewmode_postpone
      /\ e.alist = d.alist /\ e.list = d.list
      /\ e.newentry = d.newentry /\ e.removed = d.removed /\ e.rlist = d.rlist
  BY <1>1 DEF Marked
<1>3. e \in D
  <2>1. b \in K /\ sn \in K
    BY DEF K
  <2> QED
    BY <1>1, <2>1 DEF Marked
<1> HIDE DEF D, e
<1> QED
  BY <1>1, <1>2, <1>3 DEF DataOK, ScanEntries, e

LEMMA KindsIn == /\ Columns \subseteq {"icons", "types"} /\ "all" \notin Kinds
                 /\ Kinds = {"scan", "icons", "types"}
  BY ConstantsAssumption DEF Kinds

\* A thread of some other kind than a scan is run, where its column is.
LEMMA RunThreadData ==
  ASSUME NEW d, NEW js, DataOK(d), JobsOK(js), NEW kind \in {"icons", "types"},
         NEW hit
  PROVE  LET r == RunThread(<<d, js>>, kind, hit)
         IN  /\ DataOK(r[1]) /\ Grown(js, r[2])
             /\ r[1].path = d.path /\ r[1].showfiles = d.showfiles
             /\ ScanEntries(r[1]) = ScanEntries(d)
             /\ \A k \in r[1].busy : k \in d.busy \/ \E j \in r[2] \ js : j.kind = k
             /\ "scan" \in r[1].busy <=> "scan" \in d.busy
<1> DEFINE r == RunThread(<<d, js>>, kind, hit)
<1>1. CASE kind \in Columns
  <2>1. r[1] = [d EXCEPT !.busy = @ \cup {kind}] /\ r[2] = NewJob(js, kind, NULL, hit)
    BY <1>1 DEF RunThread
  <2> HIDE DEF r
  <2> DEFINE b == d.busy \cup {kind}
  <2>2. r[1] = Marked(d, b, d.startnewthread)
    BY <2>1 DEF Marked, DataOK, Data
  <2>3. b \in SUBSET Kinds /\ d.startnewthread \in SUBSET Kinds
    BY KindsIn DEF DataOK, Data
  <2> HIDE DEF b
  <2>4. /\ DataOK(r[1]) /\ r[1].busy = b /\ r[1].path = d.path
        /\ r[1].showfiles = d.showfiles /\ ScanEntries(r[1]) = ScanEntries(d)
    BY <2>2, <2>3, BusyData
  <2>5. PICK x \in Job : /\ r[2] = js \cup {x} /\ JobsOK(js \cup {x})
                         /\ x.kind = kind /\ \A i \in js : i.id # x.id
    <3>1. kind \in Kinds /\ kind # "scan" /\ NULL \in Places \cup {NULL}
      BY KindsIn
    <3> DEFINE z == NewestJob(js, kind, NULL, hit)
    <3>2. IsNew(js, kind, NULL, hit, z)
      BY <3>1, NewJobData
    <3> HIDE DEF z
    <3> QED
      BY <2>1, <3>2 DEF IsNew
  <2>6. Grown(js, r[2]) /\ x \in r[2] \ js
    BY <2>5 DEF Grown
  <2> QED
    BY <2>1, <2>4, <2>5, <2>6 DEF b, r
<1>2. CASE kind \notin Columns
  <2>1. r[1] = [d EXCEPT !.busy = @ \ ({kind} \cap {"icons"})] /\ r[2] = js
    BY <1>2 DEF RunThread
  <2> HIDE DEF r
  <2> DEFINE b == d.busy \ ({kind} \cap {"icons"})
  <2>2. r[1] = Marked(d, b, d.startnewthread)
    BY <2>1 DEF Marked, DataOK, Data
  <2>3. b \in SUBSET Kinds /\ d.startnewthread \in SUBSET Kinds
    BY DEF DataOK, Data
  <2> HIDE DEF b
  <2>4. /\ DataOK(r[1]) /\ r[1].busy = b /\ r[1].path = d.path
        /\ r[1].showfiles = d.showfiles /\ ScanEntries(r[1]) = ScanEntries(d)
    BY <2>2, <2>3, BusyData
  <2> QED
    BY <2>1, <2>4, GrownSame DEF b, r
<1> QED
  BY <1>1, <1>2

LEMMA AbortedThreadAfter ==
  ASSUME DataOK(lv), JobsOK(jobs), NEW kind \in {"icons", "types"}, NEW hit,
         NEW r, r = AbortedThread(<<lv, jobs>>, kind, hit)
  PROVE  After(lv, jobs, r[1], r[2], kind) /\ r[1].showfiles = lv.showfiles
<1> DEFINE d == [lv EXCEPT !.busy = @ \ {kind}, !.startnewthread = @ \ {kind}]
           b == lv.busy \ {kind}
           sn == lv.startnewthread \ {kind}
<1>1. r = RunThread(<<d, jobs>>, kind, hit) \/ r = <<d, jobs>>
  BY DEF AbortedThread
<1>2. b \in SUBSET Kinds /\ sn \in SUBSET Kinds
  BY DEF DataOK, Data
<1>3. d = Marked(lv, b, sn)
  BY DEF Marked, DataOK, Data
<1> HIDE DEF d, b, sn
<1>4. /\ DataOK(d) /\ d.busy = b /\ d.path = lv.path /\ d.showfiles = lv.showfiles
      /\ ScanEntries(d) = ScanEntries(lv)
  BY <1>2, <1>3, BusyData
<1>5. CASE r = RunThread(<<d, jobs>>, kind, hit)
  <2> DEFINE q == RunThread(<<d, jobs>>, kind, hit)
  <2>0. /\ DataOK(q[1]) /\ Grown(jobs, q[2])
        /\ q[1].path = d.path /\ q[1].showfiles = d.showfiles
        /\ ScanEntries(q[1]) = ScanEntries(d)
        /\ \A k \in q[1].busy : k \in d.busy \/ \E j \in q[2] \ jobs : j.kind = k
        /\ "scan" \in q[1].busy <=> "scan" \in d.busy
    BY <1>4, RunThreadData
  <2>1. /\ DataOK(r[1]) /\ Grown(jobs, r[2])
        /\ r[1].path = d.path /\ r[1].showfiles = d.showfiles
        /\ ScanEntries(r[1]) = ScanEntries(d)
        /\ \A k \in r[1].busy : k \in d.busy \/ \E j \in r[2] \ jobs : j.kind = k
        /\ "scan" \in r[1].busy <=> "scan" \in d.busy
    BY <1>5, <2>0
  <2> HIDE DEF q
  <2> QED
    BY <1>4, <2>1 DEF After, b
<1>6. CASE r = <<d, jobs>>
  BY <1>4, <1>6, GrownSame DEF After, b
<1> QED
  BY <1>1, <1>5, <1>6

LEMMA AbortedScanAfter ==
  ASSUME DataOK(lv), JobsOK(jobs), NEW e, e = AbortedScan(lv)
  PROVE  After(lv, jobs, e, jobs, "scan")
<1> DEFINE b == lv.busy \ {"scan"}
           d == [lv EXCEPT !.busy = @ \ {"scan"}]
<1>1. \/ e = d
      \/ /\ lv.viewmode_postpone \in Modes
         /\ e = [d EXCEPT !.view_mode = lv.viewmode_postpone, !.showfiles = TRUE]
  BY DEF AbortedScan, DataOK, Data
<1>2. b \in SUBSET Kinds /\ lv.startnewthread \in SUBSET Kinds
  BY DEF DataOK, Data
<1>3. d = Marked(lv, b, lv.startnewthread)
  BY DEF Marked, DataOK, Data
<1> HIDE DEF d, b
<1>4. /\ DataOK(d) /\ d.busy = b /\ d.path = lv.path /\ d.showfiles = lv.showfiles
      /\ ScanEntries(d) = ScanEntries(lv)
  BY <1>2, <1>3, BusyData
<1>5. CASE e = d
  BY <1>4, <1>5, GrownSame DEF After, b
<1>6. CASE /\ lv.viewmode_postpone \in Modes
           /\ e = [d EXCEPT !.view_mode = lv.viewmode_postpone, !.showfiles = TRUE]
  <2>1. /\ e \in Data /\ e.alist = d.alist /\ e.list = d.list
        /\ e.newentry = d.newentry /\ e.removed = d.removed /\ e.rlist = d.rlist
        /\ e.busy = b /\ e.path = lv.path /\ e.showfiles = TRUE
    BY <1>4, <1>6 DEF DataOK, Data
  <2>2. DataOK(e) /\ ScanEntries(e) = ScanEntries(lv)
    BY <1>4, <2>1 DEF DataOK, ScanEntries
  <2> QED
    BY <2>1, <2>2, GrownSame DEF After, b
<1> QED
  BY <1>1, <1>5, <1>6

LEMMA FinishedScanAfter ==
  ASSUME DataOK(lv), JobsOK(jobs), NEW hit, NEW r \in FinishedScan(<<lv, jobs>>, hit)
  PROVE  After(lv, jobs, r[1], r[2], "scan") /\ r[1].showfiles = lv.showfiles
<1>1. PICK d \in UpdateViewNormal(lv) :
        LET t == RunThread(RunThread(<<d, jobs>>, "icons", hit), "types", hit)
        IN  r = <<[t[1] EXCEPT !.busy = @ \ {"scan"}], t[2]>>
  BY DEF FinishedScan
<1> DEFINE s == RunThread(<<d, jobs>>, "icons", hit)
           t == RunThread(s, "types", hit)
<1>2. DataOK(d) /\ SameState(lv, d) /\ ScanEntries(d) \subseteq ScanEntries(lv)
  BY UpdateComes DEF Comes
<1>3. /\ DataOK(s[1]) /\ Grown(jobs, s[2])
      /\ s[1].path = d.path /\ s[1].showfiles = d.showfiles
      /\ ScanEntries(s[1]) = ScanEntries(d)
      /\ \A k \in s[1].busy : k \in d.busy \/ \E j \in s[2] \ jobs : j.kind = k
  BY <1>2, RunThreadData
<1>4. s = <<s[1], s[2]>>
  BY DEF RunThread
<1>5. JobsOK(s[2])
  BY <1>3 DEF Grown
<1> HIDE DEF s
<1>6. /\ DataOK(t[1]) /\ Grown(s[2], t[2])
      /\ t[1].path = s[1].path /\ t[1].showfiles = s[1].showfiles
      /\ ScanEntries(t[1]) = ScanEntries(s[1])
      /\ \A k \in t[1].busy : k \in s[1].busy \/ \E j \in t[2] \ s[2] : j.kind = k
  BY <1>3, <1>4, <1>5, RunThreadData
<1>7. r[1] = [t[1] EXCEPT !.busy = @ \ {"scan"}] /\ r[2] = t[2]
  BY <1>1 DEF s
<1> HIDE DEF t
<1> DEFINE b == t[1].busy \ {"scan"}
<1>8. b \in SUBSET Kinds /\ t[1].startnewthread \in SUBSET Kinds
  BY <1>6 DEF DataOK, Data
<1>9. r[1] = Marked(t[1], b, t[1].startnewthread)
  BY <1>6, <1>7 DEF Marked, DataOK, Data
<1> HIDE DEF b
<1>10. /\ DataOK(r[1]) /\ r[1].busy = b /\ r[1].path = t[1].path
       /\ r[1].showfiles = t[1].showfiles /\ ScanEntries(r[1]) = ScanEntries(t[1])
  BY <1>6, <1>8, <1>9, BusyData
<1>11. Grown(jobs, r[2])
  BY <1>3, <1>6, <1>7, GrownTrans
<1>12. \A k \in r[1].busy : (k \in lv.busy /\ k # "scan") \/ \E j \in r[2] \ jobs : j.kind = k
  <2> SUFFICES ASSUME NEW k \in r[1].busy
               PROVE  (k \in lv.busy /\ k # "scan") \/ \E j \in r[2] \ jobs : j.kind = k
    OBVIOUS
  <2>1. k \in t[1].busy /\ k # "scan"
    BY <1>10 DEF b
  <2>2. jobs \subseteq s[2] /\ s[2] \subseteq t[2]
    BY <1>3, <1>6 DEF Grown
  <2> QED
    BY <1>2, <1>3, <1>6, <1>7, <2>1, <2>2 DEF SameState
<1> QED
  BY <1>2, <1>3, <1>6, <1>10, <1>11, <1>12 DEF After, SameState

LEMMA SwitchAfter ==
  ASSUME DataOK(lv), JobsOK(jobs), NEW kind \in Kinds \cup {"all"}, NEW isabort \in BOOLEAN,
         NEW hit, NEW s \in Switch(kind, isabort, hit)
  PROVE  /\ After(lv, jobs, s[1], s[2], kind)
         /\ kind # "scan" => s[1].showfiles = lv.showfiles
         /\ ~isabort => s[1].showfiles = lv.showfiles
<1>1. CASE kind = "all"
  <2>1. s[1] = lv /\ s[2] = jobs
    BY <1>1 DEF Switch
  <2>2. lv.busy \subseteq Kinds
    BY DEF DataOK, Data
  <2> QED
    BY <1>1, <2>1, <2>2, KindsIn, GrownSame DEF After
<1>2. CASE kind = "scan" /\ isabort
  <2>1. s[1] = AbortedScan(lv) /\ s[2] = jobs
    BY <1>2 DEF Switch
  <2> QED
    BY <1>2, <2>1, AbortedScanAfter
<1>3. CASE kind = "scan" /\ ~isabort
  <2>1. s \in FinishedScan(<<lv, jobs>>, hit)
    BY <1>3 DEF Switch
  <2> QED
    BY <1>3, <2>1, FinishedScanAfter
<1>4. CASE kind \in {"icons", "types"} /\ isabort
  <2>1. s = AbortedThread(<<lv, jobs>>, kind, hit)
    BY <1>4 DEF Switch
  <2> QED
    BY <1>4, <2>1, AbortedThreadAfter
<1>5. CASE kind \in {"icons", "types"} /\ ~isabort
  <2> DEFINE b == lv.busy \ {kind}
  <2>1. s[1] = [lv EXCEPT !.busy = @ \ {kind}] /\ s[2] = jobs
    BY <1>5 DEF Switch
  <2>2. s[1] = Marked(lv, b, lv.startnewthread)
    BY <2>1 DEF Marked, DataOK, Data
  <2>3. b \in SUBSET Kinds /\ lv.startnewthread \in SUBSET Kinds
    BY DEF DataOK, Data
  <2> HIDE DEF b
  <2>4. /\ DataOK(s[1]) /\ s[1].busy = b /\ s[1].path = lv.path
        /\ s[1].showfiles = lv.showfiles /\ ScanEntries(s[1]) = ScanEntries(lv)
    BY <2>2, <2>3, BusyData
  <2> QED
    BY <2>1, <2>4, GrownSame DEF After, b
<1> QED
  BY <1>1, <1>2, <1>3, <1>4, <1>5, KindsIn

-----------------------------------------------------------------------------
(* What there is left to do: an invariant that relates the calls of the    *)
(* main task to the jobs and the marks of the view.                        *)

Ended == {"ok", "aborted"}

Has(op) == \E i \in DOMAIN todo : todo[i].op = op

\* The scan is going to be aborted, or its end to be told.
EndsScan(i) == todo[i].op \in {"abort", "answer"} /\ todo[i].kind = "scan"

\* The end of the job has been told, and it is about to be released.
Releases(id) == \E i \in DOMAIN todo : todo[i].op = "release" /\ todo[i].job = id
Leaving(j) == Releases(j.id) /\ ~Has("report")

Scans == JobsOf("scan")

\* What has been begun for an event that a thread has sent ends with the
\* release of its job.
Bottom ==
  \A i \in DOMAIN todo :
    /\ todo[i].op = "release" => i = Len(todo)
    /\ todo[i].op = "report" =>
         /\ i = Len(todo) - 1
         /\ todo[i + 1].op = "release" /\ todo[i + 1].job = todo[i].job
    /\ todo[i].op \in {"report", "release"} =>
         \E j \in jobs : j.id = todo[i].job /\ j.at \in Ended

\* Threads are aborted for events of the user alone; the scan once, and it is
\* meanwhile marked as busy; when its end is told at once there is none.
AbortsScan ==
  \A i \in DOMAIN todo :
    /\ todo[i].op = "restart" => todo[i].kind \in {"icons", "types"}
    /\ todo[i].op = "abort" => ~Has("release")
    /\ EndsScan(i) =>
         /\ "scan" \in lv.busy
         /\ ~Has("release")
         /\ \A k \in DOMAIN todo : EndsScan(k) => i = k
         /\ todo[i].op = "answer" => Scans = {}

\* The list is shown once, when all scans have ended.
Shows ==
  \A i \in DOMAIN todo : todo[i].op = "show" =>
    /\ ~lv.showfiles /\ "scan" \notin lv.busy
    /\ \A k \in DOMAIN todo : todo[k].op = "show" => i = k
    /\ \A j \in Scans : Leaving(j)

ShowsLater ==
  /\ lv.showfiles /\ "scan" \notin lv.busy => \A j \in Scans : Leaving(j)
  /\ \A j \in Scans : Leaving(j) =>
       Len(todo) = 1 \/ (Len(todo) >= 2 /\ todo[Len(todo) - 1].op = "show")
  /\ \A i, j \in Scans : ~Leaving(i) /\ ~Leaving(j) => i = j

\* The end of whoever is marked as busy will be told.
Busy ==
  \A k \in lv.busy :
    \/ \E j \in jobs : j.kind = k /\ ~Leaving(j)
    \/ \E i \in DOMAIN todo : todo[i].op \in {"abort", "answer"} /\ todo[i].kind = k

\* What a scan has found, and what it will find, is of the path of the window,
\* unless that is to change.
Fresh ==
  ~lv.showfiles =>
    /\ \A e \in ScanEntries(lv) : e.from = lv.path /\ e.at = lv.path
    /\ \A j \in Scans : j.at \notin Ended => j.place = lv.path

\* A window without a path has not asked for one.
Loaded ==
  lv.path = NULL =>
    /\ registered = NULL /\ ~lv.showfiles
    /\ Scans = {}
    /\ \A i \in DOMAIN todo : todo[i].op # "show" /\ ~EndsScan(i)

Control == Bottom /\ AbortsScan /\ Shows /\ ShowsLater /\ Busy /\ Fresh /\ Loaded

\* A file job that notifies knows where.
Noticed ==
  /\ fjob.steps # <<>> => fjob.place \in Places
  /\ notice \notin {NULL, Handled} =>
       fjob.place \in Places /\ notice.act \in {"disable", "enable", "create", "delete"}

Types == TypeOK /\ DataOK(lv) /\ JobsOK(jobs) /\ Noticed

Inv == Types /\ Control

LEMMA InvParts ==
  ASSUME Types
  PROVE  /\ todo \in Seq(Item) /\ Len(todo) \in Nat /\ DOMAIN todo = 1..Len(todo)
         /\ \A i \in 1..Len(todo) : todo[i] \in Item
         /\ (todo = <<>> <=> Len(todo) = 0)
         /\ DataOK(lv) /\ JobsOK(jobs)
         /\ lv.busy \subseteq Kinds /\ lv.path \in Places \cup {NULL} /\ NULL \notin Places
         /\ lv.showfiles \in BOOLEAN
<1>1. todo \in Seq(Item) /\ DataOK(lv) /\ JobsOK(jobs)
  BY DEF Types, TypeOK
<1>2. lv.busy \subseteq Kinds /\ lv.path \in Places \cup {NULL} /\ lv.showfiles \in BOOLEAN
  BY <1>1 DEF DataOK, Data
<1> QED
  BY <1>1, <1>2, SeqParts, ConstantsAssumption

\* The same jobs, perhaps further on.
Moved(js, ks) ==
  /\ \A j \in ks : \E i \in js :
       i.id = j.id /\ i.kind = j.kind /\ i.place = j.place /\ (i.at \in Ended => j.at \in Ended)
  /\ \A i \in js : \E j \in ks :
       i.id = j.id /\ i.kind = j.kind /\ i.place = j.place /\ (i.at \in Ended => j.at \in Ended)

\* Calls are dropped from the front and others put there.
Shift(m, n) ==
  /\ m \in Nat /\ n \in {m, m - 1} /\ (n = m - 1 => Len(todo) >= 1)
  /\ todo' \in Seq(Item) /\ Len(todo') = Len(todo) + n
  /\ \A i \in (m + 1)..(Len(todo) + n) : todo'[i] = todo[i - n]

LEMMA ShiftParts ==
  ASSUME Types, NEW m, NEW n, Shift(m, n)
  PROVE  /\ m \in Nat /\ n \in Int /\ m - 1 <= n /\ n <= m
         /\ Len(todo) \in Nat /\ Len(todo') \in Nat
         /\ Len(todo') = Len(todo) + n /\ m <= Len(todo')
         /\ DOMAIN todo = 1..Len(todo) /\ DOMAIN todo' = 1..Len(todo')
         /\ \A i \in DOMAIN todo' : i <= m \/ (i > m /\ i - n \in DOMAIN todo /\ todo'[i] = todo[i - n])
         /\ \A i \in DOMAIN todo : (n = m - 1 /\ i = 1) \/ (i + n > m /\ i + n \in DOMAIN todo' /\ todo'[i + n] = todo[i])
<1>1. Len(todo) \in Nat /\ DOMAIN todo = 1..Len(todo)
  BY InvParts
<1>2. Len(todo') \in Nat /\ DOMAIN todo' = 1..Len(todo')
  BY SeqParts DEF Shift
<1> QED
  BY <1>1, <1>2 DEF Shift

LEMMA ShiftReleases ==
  ASSUME Types, NEW m, NEW n, Shift(m, n),
         \A i \in 1..m : todo'[i].op \notin {"report", "release"},
         n = m - 1 => todo[1].op \notin {"report", "release"}
  PROVE  /\ \A id : Releases(id)' <=> Releases(id)
         /\ Has("report")' <=> Has("report")
         /\ Has("release")' <=> Has("release")
         /\ \A j : Leaving(j)' <=> Leaving(j)
<1>1. /\ m \in Nat /\ n \in Int /\ DOMAIN todo = 1..Len(todo) /\ DOMAIN todo' = 1..Len(todo')
      /\ \A i \in DOMAIN todo' : i <= m \/ (i > m /\ i - n \in DOMAIN todo /\ todo'[i] = todo[i - n])
      /\ \A i \in DOMAIN todo : (n = m - 1 /\ i = 1) \/ (i + n > m /\ i + n \in DOMAIN todo' /\ todo'[i + n] = todo[i])
      /\ Len(todo) \in Nat /\ Len(todo') \in Nat
  BY ShiftParts
<1>2. ASSUME NEW i \in DOMAIN todo', todo'[i].op \in {"report", "release"}
      PROVE  \E k \in DOMAIN todo : todo[k] = todo'[i]
  BY <1>1, <1>2
<1>3. ASSUME NEW i \in DOMAIN todo, todo[i].op \in {"report", "release"}
      PROVE  \E k \in DOMAIN todo' : todo'[k] = todo[i]
  BY <1>1, <1>3
<1>4. \A id : Releases(id)' <=> Releases(id)
  BY <1>2, <1>3 DEF Releases
<1>5. (Has("report")' <=> Has("report")) /\ (Has("release")' <=> Has("release"))
  BY <1>2, <1>3 DEF Has
<1> QED
  BY <1>4, <1>5 DEF Leaving

\* The jobs of the calls are there still.
LEMMA ShiftBottom ==
  ASSUME Inv, NEW m, NEW n, Shift(m, n),
         \A i \in 1..m : todo'[i].op \notin {"report", "release"},
         \A j \in jobs : j.at \in Ended =>
           \E k \in jobs' : k.id = j.id /\ k.at \in Ended
  PROVE  Bottom'
<1>1. /\ m \in Nat /\ n \in Int /\ DOMAIN todo = 1..Len(todo) /\ DOMAIN todo' = 1..Len(todo')
      /\ \A i \in DOMAIN todo' : i <= m \/ (i > m /\ i - n \in DOMAIN todo /\ todo'[i] = todo[i - n])
      /\ Len(todo) \in Nat /\ Len(todo') \in Nat /\ Len(todo') = Len(todo) + n
  BY ShiftParts DEF Inv
<1> SUFFICES ASSUME NEW i \in DOMAIN todo', todo'[i].op \in {"report", "release"}
             PROVE  /\ todo'[i].op = "release" => i = Len(todo')
                    /\ todo'[i].op = "report" =>
                         /\ i = Len(todo') - 1
                         /\ todo'[i + 1].op = "release" /\ todo'[i + 1].job = todo'[i].job
                    /\ \E j \in jobs' : j.id = todo'[i].job /\ j.at \in Ended
  BY DEF Bottom
<1>2. i > m /\ i - n \in DOMAIN todo /\ todo'[i] = todo[i - n]
  BY <1>1
<1>3. /\ todo[i - n].op = "release" => i - n = Len(todo)
      /\ todo[i - n].op = "report" =>
           /\ i - n = Len(todo) - 1
           /\ todo[(i - n) + 1].op = "release" /\ todo[(i - n) + 1].job = todo[i - n].job
      /\ \E j \in jobs : j.id = todo[i - n].job /\ j.at \in Ended
  BY <1>2 DEF Inv, Control, Bottom
<1>4. ASSUME todo'[i].op = "report"
      PROVE  i = Len(todo') - 1 /\ todo'[i + 1] = todo[(i - n) + 1]
  <2>1. i - n = Len(todo) - 1
    BY <1>2, <1>3, <1>4
  <2>2. i \in Int /\ i = Len(todo') - 1
    <3>1. /\ n \in Int /\ i \in 1..Len(todo') /\ Len(todo) \in Nat /\ Len(todo') \in Nat
          /\ Len(todo') = Len(todo) + n
      BY <1>1
    <3> QED
      BY <2>1, <3>1
  <2>3. i + 1 \in DOMAIN todo' /\ i + 1 > m /\ (i + 1) - n = (i - n) + 1
    BY <1>1, <1>2, <2>2
  <2>4. todo'[i + 1] = todo[(i + 1) - n]
    BY <1>1, <2>3
  <2> QED
    BY <2>2, <2>3, <2>4
<1>5. \E j \in jobs' : j.id = todo'[i].job /\ j.at \in Ended
  BY <1>2, <1>3
<1>6. todo'[i].op = "release" => i = Len(todo')
  BY <1>1, <1>2, <1>3
<1>7. todo'[i].op = "report" =>
        todo'[i + 1].op = "release" /\ todo'[i + 1].job = todo'[i].job
  BY <1>2, <1>3, <1>4
<1> QED
  BY <1>4, <1>5, <1>6, <1>7

\* Calls that neither tell of a job's end nor abort anything, or that tell at
\* once of the end of what was to be aborted when there is nothing.
Minor(m, n) ==
  /\ \A i \in 1..m :
       \/ /\ todo'[i].op \in {"restart", "notified"}
          /\ (todo'[i].op = "restart" => todo'[i].kind \in {"icons", "types"})
       \/ /\ m = 1 /\ n = 0 /\ todo'[1].op = "answer" /\ todo[1].op \in {"abort", "restart"}
          /\ todo'[1].kind = todo[1].kind
          /\ todo[1].kind = "scan" => Scans = {}
  /\ n = m - 1 =>
       /\ todo[1].op \in {"abort", "restart", "dosnotify", "notified"}
       /\ todo[1].op = "abort" =>
            (m = 1 /\ todo'[1].op = "answer") \/ todo[1].kind = "all" \/ \E j \in jobs : j.kind = todo[1].kind
  /\ m > 0 => todo = <<>> \/ todo[1].op # "release"

\* What matters of the data is as before.
SameData ==
  /\ lv'.busy = lv.busy /\ lv'.path = lv.path /\ lv'.showfiles = lv.showfiles
  /\ registered' = registered
  /\ ~lv.showfiles => \A e \in ScanEntries(lv') \ ScanEntries(lv) :
                        e.from = lv.path /\ e.at = lv.path

LEMMA MovedScans ==
  ASSUME Moved(jobs, jobs')
  PROVE  /\ \A j \in Scans' : \E i \in Scans : i.id = j.id /\ i.place = j.place
                                               /\ (i.at \in Ended => j.at \in Ended)
         /\ Scans = {} => Scans' = {}
  BY DEF Moved, Scans, JobsOf

LEMMA ShiftKept ==
  ASSUME Inv, NEW m, NEW n, Shift(m, n), Minor(m, n), SameData,
         Moved(jobs, jobs'), JobsOK(jobs')
  PROVE  Control'
<1>1. /\ m \in Nat /\ n \in Int /\ m - 1 <= n /\ n <= m
      /\ DOMAIN todo = 1..Len(todo) /\ DOMAIN todo' = 1..Len(todo')
      /\ \A i \in DOMAIN todo' : i <= m \/ (i > m /\ i - n \in DOMAIN todo /\ todo'[i] = todo[i - n])
      /\ \A i \in DOMAIN todo : (n = m - 1 /\ i = 1) \/ (i + n > m /\ i + n \in DOMAIN todo' /\ todo'[i + n] = todo[i])
      /\ Len(todo) \in Nat /\ Len(todo') \in Nat /\ Len(todo') = Len(todo) + n
  BY ShiftParts DEF Inv
<1>2. /\ \A i \in 1..m : todo'[i].op \in {"restart", "notified", "answer"}
      /\ n = m - 1 => todo[1].op \notin {"report", "release", "show", "answer"}
  BY DEF Minor
<1>3. /\ \A id : Releases(id)' <=> Releases(id)
      /\ Has("report")' <=> Has("report")
      /\ Has("release")' <=> Has("release")
      /\ \A j : Leaving(j)' <=> Leaving(j)
  BY <1>2, ShiftReleases DEF Inv
<1>4. /\ \A j \in Scans' : \E i \in Scans : i.id = j.id /\ i.place = j.place
                                            /\ (i.at \in Ended => j.at \in Ended)
      /\ Scans = {} => Scans' = {}
  BY MovedScans
<1>5. \A i, j : i.id = j.id => (Leaving(i) <=> Leaving(j))
  BY DEF Leaving
<1>6. Bottom'
  <2>1. \A j \in jobs : j.at \in Ended => \E k \in jobs' : k.id = j.id /\ k.at \in Ended
    BY DEF Moved
  <2> QED
    BY <1>2, <2>1, ShiftBottom
\* An index of a scan's abort or answer comes from one before.
<1>7. ASSUME NEW i \in DOMAIN todo', EndsScan(i)'
      PROVE  /\ i > m => i - n \in DOMAIN todo /\ EndsScan(i - n) /\ todo'[i] = todo[i - n]
             /\ i <= m => /\ i = 1 /\ m = 1 /\ n = 0 /\ 1 \in DOMAIN todo /\ EndsScan(1)
                          /\ Scans = {}
  <2>1. CASE i > m
    BY <1>1, <1>7, <2>1 DEF EndsScan
  <2>2. CASE i <= m
    <3>1. i \in 1..m
      BY <1>1, <2>2
    <3>2. /\ m = 1 /\ n = 0 /\ todo'[1].op = "answer" /\ todo[1].op \in {"abort", "restart"}
          /\ todo'[1].kind = todo[1].kind
          /\ todo[1].kind = "scan" => Scans = {}
      BY <1>7, <3>1 DEF Minor, EndsScan
    <3>3. i = 1 /\ 1 \in DOMAIN todo /\ todo[1].kind = "scan" /\ todo[1].op # "restart"
      BY <1>1, <1>7, <3>1, <3>2 DEF EndsScan, Inv, Control, AbortsScan
    <3> QED
      BY <3>2, <3>3 DEF EndsScan
  <2> QED
    BY <1>1, <2>1, <2>2
<1>8. AbortsScan'
  <2> SUFFICES ASSUME NEW i \in DOMAIN todo'
               PROVE  /\ todo'[i].op = "restart" => todo'[i].kind \in {"icons", "types"}
                      /\ todo'[i].op = "abort" => ~Has("release")'
                      /\ EndsScan(i)' =>
                           /\ "scan" \in lv'.busy
                           /\ ~Has("release")'
                           /\ \A k \in DOMAIN todo' : EndsScan(k)' => i = k
                           /\ todo'[i].op = "answer" => Scans' = {}
    BY DEF AbortsScan
  <2>1. todo'[i].op = "restart" => todo'[i].kind \in {"icons", "types"}
    <3>1. CASE i <= m
      BY <1>1, <3>1 DEF Minor
    <3>2. CASE i > m
      BY <1>1, <3>2 DEF Inv, Control, AbortsScan
    <3> QED
      BY <1>1, <3>1, <3>2
  <2>0. todo'[i].op = "abort" => ~Has("release")'
    BY <1>1, <1>2, <1>3 DEF Inv, Control, AbortsScan
  <2>2. ASSUME EndsScan(i)'
        PROVE  /\ "scan" \in lv'.busy /\ ~Has("release")'
               /\ todo'[i].op = "answer" => Scans' = {}
    BY <1>1, <1>3, <1>4, <1>7, <2>2 DEF Inv, Control, AbortsScan, SameData
  <2>3. ASSUME EndsScan(i)', NEW k \in DOMAIN todo', EndsScan(k)'
        PROVE  i = k
    <3>1. \A a, b \in DOMAIN todo : EndsScan(a) /\ EndsScan(b) => a = b
      BY DEF Inv, Control, AbortsScan
    <3>2. CASE i > m /\ k > m
      BY <1>1, <1>7, <2>3, <3>1, <3>2
    <3>3. CASE i <= m \/ k <= m
      BY <1>1, <1>7, <2>3, <3>1, <3>3
    <3> QED
      BY <1>1, <3>2, <3>3
  <2> QED
    BY <2>0, <2>1, <2>2, <2>3
<1>9. Shows'
  <2> SUFFICES ASSUME NEW i \in DOMAIN todo', todo'[i].op = "show"
               PROVE  /\ ~lv'.showfiles /\ "scan" \notin lv'.busy
                      /\ \A k \in DOMAIN todo' : todo'[k].op = "show" => i = k
                      /\ \A j \in Scans' : Leaving(j)'
    BY DEF Shows
  <2>1. i > m /\ i - n \in DOMAIN todo /\ todo[i - n].op = "show"
    BY <1>1, <1>2
  <2>2. ~lv'.showfiles /\ "scan" \notin lv'.busy /\ \A j \in Scans : Leaving(j)
    BY <2>1 DEF Inv, Control, Shows, SameData
  <2>3. \A j \in Scans' : Leaving(j)'
    BY <1>3, <1>4, <1>5, <2>2
  <2>4. ASSUME NEW k \in DOMAIN todo', todo'[k].op = "show"
        PROVE  i = k
    <3>1. k > m /\ k - n \in DOMAIN todo /\ todo[k - n].op = "show"
      BY <1>1, <1>2, <2>4
    <3>2. i - n = k - n
      BY <2>1, <3>1 DEF Inv, Control, Shows
    <3> QED
      BY <1>1, <3>2
  <2> QED
    BY <2>2, <2>3, <2>4
<1>10. ShowsLater'
  <2>1. lv'.showfiles /\ "scan" \notin lv'.busy => \A j \in Scans' : Leaving(j)'
    BY <1>3, <1>4, <1>5 DEF Inv, Control, ShowsLater, SameData
  <2>2. ASSUME NEW i \in Scans', NEW j \in Scans', ~Leaving(i)', ~Leaving(j)'
        PROVE  i = j
    <3>1. PICK a \in Scans : a.id = i.id
      BY <1>4
    <3>2. PICK b \in Scans : b.id = j.id
      BY <1>4
    <3>3. ~Leaving(a) /\ ~Leaving(b)
      BY <1>3, <1>5, <2>2, <3>1, <3>2
    <3>4. i.id = j.id
      BY <3>1, <3>2, <3>3 DEF Inv, Control, ShowsLater
    <3> QED
      BY <3>4 DEF JobsOK, Scans, JobsOf
  <2>3. ASSUME NEW j \in Scans', Leaving(j)'
        PROVE  Len(todo') = 1 \/ (Len(todo') >= 2 /\ todo'[Len(todo') - 1].op = "show")
    <3>1. PICK a \in Scans : Leaving(a)
      BY <1>3, <1>4, <1>5, <2>3
    <3>2. Len(todo) = 1 \/ (Len(todo) >= 2 /\ todo[Len(todo) - 1].op = "show")
      BY <3>1 DEF Inv, Control, ShowsLater
    <3>3. PICK r \in DOMAIN todo : todo[r].op = "release" /\ r = Len(todo)
      BY <3>1 DEF Leaving, Releases, Inv, Control, Bottom
    <3>4. CASE Len(todo) = 1
      <4>1. todo[1].op = "release" /\ todo # <<>>
        BY <1>1, <3>3, <3>4, InvParts DEF Inv
      <4>2. m = 0 /\ n = 0
        BY <1>1, <1>2, <4>1 DEF Minor
      <4> QED
        BY <1>1, <3>4, <4>2
    <3>5. CASE Len(todo) >= 2 /\ todo[Len(todo) - 1].op = "show"
      <4> DEFINE s == Len(todo) - 1
      <4>1. s \in DOMAIN todo /\ ~(n = m - 1 /\ s = 1)
        BY <1>1, <1>2, <3>5
      <4>2. s + n \in DOMAIN todo' /\ s + n > m /\ todo'[s + n] = todo[s]
        BY <1>1, <4>1
      <4>3. s + n = Len(todo') - 1 /\ Len(todo') - 1 >= 1
        BY <1>1, <4>2
      <4> QED
        BY <1>1, <3>5, <4>2, <4>3
    <3> QED
      BY <3>2, <3>4, <3>5
  <2> QED
    BY <2>1, <2>2, <2>3 DEF ShowsLater
<1>11. Busy'
  <2> SUFFICES ASSUME NEW k \in lv'.busy
               PROVE  \/ \E j \in jobs' : j.kind = k /\ ~Leaving(j)'
                      \/ \E i \in DOMAIN todo' :
                           todo'[i].op \in {"abort", "answer"} /\ todo'[i].kind = k
    BY DEF Busy
  <2>1. k \in lv.busy /\ k # "all"
    BY InvParts, KindsIn DEF SameData, Inv
  <2>2. ASSUME NEW j \in jobs, j.kind = k, ~Leaving(j)
        PROVE  \E i \in jobs' : i.kind = k /\ ~Leaving(i)'
    BY <1>3, <1>5, <2>2 DEF Moved
  <2>3. ASSUME NEW i \in DOMAIN todo, todo[i].op \in {"abort", "answer"}, todo[i].kind = k,
               ~(n = m - 1 /\ i = 1)
        PROVE  \E l \in DOMAIN todo' : todo'[l].op \in {"abort", "answer"} /\ todo'[l].kind = k
    BY <1>1, <2>3
  <2>4. CASE n = m - 1 /\ 1 \in DOMAIN todo /\ todo[1].op = "abort" /\ todo[1].kind = k
    <3>1. CASE m = 1 /\ todo'[1].op = "answer"
      <4>1. 1 \in DOMAIN todo' /\ 1 \in 1..m
        BY <1>1, <2>4, <3>1
      <4>2. todo'[1].kind = todo[1].kind
        BY <3>1, <4>1 DEF Minor
      <4> QED
        BY <2>4, <3>1, <4>1, <4>2
    <3>2. CASE \E j \in jobs : j.kind = k
      <4>1. PICK j \in jobs : j.kind = k
        BY <3>2
      <4>2. ~Has("release")
        BY <2>4 DEF Inv, Control, AbortsScan
      <4>3. ~Leaving(j)
        BY <4>2 DEF Leaving, Releases, Has
      <4> QED
        BY <2>2, <4>1, <4>3
    <3> QED
      BY <2>1, <2>4, <3>1, <3>2 DEF Minor
  <2> QED
    BY <1>2, <2>1, <2>2, <2>3, <2>4 DEF Inv, Control, Busy
<1>12. Fresh'
  BY <1>4 DEF Inv, Control, Fresh, SameData
<1>13. Loaded'
  <2> SUFFICES ASSUME lv'.path = NULL
               PROVE  /\ registered' = NULL /\ ~lv'.showfiles /\ Scans' = {}
                      /\ \A i \in DOMAIN todo' : todo'[i].op # "show" /\ ~EndsScan(i)'
    BY DEF Loaded
  <2>1. /\ registered' = NULL /\ ~lv'.showfiles /\ Scans' = {}
        /\ \A i \in DOMAIN todo : todo[i].op # "show" /\ ~EndsScan(i)
    BY <1>4 DEF Inv, Control, Loaded, SameData
  <2> QED
    BY <1>1, <1>2, <1>7, <2>1
<1> QED
  BY <1>6, <1>8, <1>9, <1>10, <1>11, <1>12, <1>13 DEF Control

-----------------------------------------------------------------------------
(* The threads and the file jobs.                                          *)

LEMMA MovedSame == ASSUME jobs' = jobs PROVE Moved(jobs, jobs')
  BY DEF Moved

LEMMA QuietKept ==
  ASSUME Inv, todo' = todo, SameData, Moved(jobs, jobs'), JobsOK(jobs')
  PROVE  Control'
<1>1. Shift(0, 0)
  BY InvParts DEF Inv, Shift
<1>2. Minor(0, 0)
  BY DEF Minor
<1> QED
  BY <1>1, <1>2, ShiftKept

\* A job goes on.
LEMMA Replaced ==
  ASSUME JobsOK(jobs), NEW j \in jobs, NEW to \in Job,
         to.id = j.id, to.kind = j.kind, to.place = j.place, j.at \notin Ended,
         to.at = "push" => j.kind = "scan" /\ to.name \in Names,
         jobs' = (jobs \ {j}) \cup {to}
  PROVE  Moved(jobs, jobs') /\ JobsOK(jobs')
<1>1. Moved(jobs, jobs')
  <2>1. \A k \in jobs' : k \in jobs \/ k = to
    OBVIOUS
  <2>2. \A k \in jobs : k \in jobs' \/ k = j
    OBVIOUS
  <2>3. to \in jobs'
    OBVIOUS
  <2> QED
    BY <2>1, <2>2, <2>3 DEF Moved
<1>2. IsFiniteSet(jobs')
  <2>1. IsFiniteSet(jobs \ {j})
    BY FS_Subset DEF JobsOK
  <2> QED
    BY <2>1, FS_AddElement
<1>3. /\ jobs' \subseteq Job
      /\ \A a, b \in jobs' : a.id = b.id => a = b
  BY DEF JobsOK
<1>4. /\ \A a \in jobs' : a.at = "push" => a.kind = "scan" /\ a.name \in Names
      /\ \A a \in jobs' : a.kind = "scan" => a.place \in Places
  BY DEF JobsOK
<1> QED
  BY <1>1, <1>2, <1>3, <1>4 DEF JobsOK

Further(j, at, names, name, abort) ==
  [j EXCEPT !.at = at, !.names = names, !.name = name, !.abort = abort]

LEMMA JobFields ==
  ASSUME NEW j \in Job, NEW at \in {"start", "run", "push", "ok", "aborted"},
         NEW names \in SUBSET Names, NEW name \in Names \cup {NULL}, NEW abort \in BOOLEAN
  PROVE  LET to == Further(j, at, names, name, abort)
         IN  /\ to \in Job /\ to.id = j.id /\ to.kind = j.kind /\ to.place = j.place
             /\ to.at = at /\ to.name = name
  BY DEF Job, Further

LEMMA JobKept ==
  ASSUME Inv, JobNext
  PROVE  Inv'
<1>1. PICK j \in jobs : ScanReads(j) \/ ScanAdds(j) \/ JobAborts(j) \/ JobEnds(j)
  BY DEF JobNext
<1>2. /\ UNCHANGED <<late, lv, todo, closing, aborted, gone, loads, modes, fjobs, registered,
                     disk, fjob, notice>>
      /\ \E to : jobs' = (jobs \ {j}) \cup {to}
  BY <1>1 DEF ScanReads, ScanAdds, JobAborts, JobEnds, Becomes, MainKept, Unstarted, Outside
<1>3. /\ JobsOK(jobs) /\ j \in Job /\ disk \in [Places -> SUBSET Names]
      /\ j.kind = "scan" => j.place \in Places
  BY InvParts DEF Inv, Types, TypeOK, JobsOK
<1>4. /\ j.names \subseteq Names /\ j.name \in Names \cup {NULL} /\ j.abort \in BOOLEAN
      /\ j.at \in {"start", "run", "push", "ok", "aborted"}
  BY <1>3 DEF Job
<1>5. ASSUME NEW at \in {"run", "push", "ok", "aborted"},
             NEW names \in SUBSET Names, NEW name \in Names \cup {NULL},
             NEW abort \in BOOLEAN, NEW to, to = Further(j, at, names, name, abort),
             at = "push" => j.kind = "scan" /\ name \in Names, j.at \notin Ended,
             jobs' = (jobs \ {j}) \cup {to}
      PROVE  Moved(jobs, jobs') /\ JobsOK(jobs')
  <2>1. to \in Job /\ to.id = j.id /\ to.kind = j.kind /\ to.place = j.place
        /\ to.at = at /\ to.name = name
    <3>1. at \in {"start", "run", "push", "ok", "aborted"}
      BY <1>5
    <3> QED
      BY <1>3, <1>4, <1>5, <3>1, JobFields
  <2> QED
    BY <1>3, <1>5, <2>1, Replaced
<1>6. Moved(jobs, jobs') /\ JobsOK(jobs')
  <2>1. CASE ScanReads(j)
    <3> DEFINE to == [j EXCEPT !.at = "run", !.names = disk[j.place]]
    <3>1. /\ jobs' = (jobs \ {j}) \cup {to} /\ j.at \notin Ended /\ disk[j.place] \in SUBSET Names
      BY <1>3, <2>1 DEF ScanReads, Becomes, Ended
    <3>2. to = Further(j, "run", disk[j.place], j.name, j.abort)
      BY <1>3 DEF Further, Job
    <3> HIDE DEF to
    <3> QED
      BY <1>4, <1>5, <3>1, <3>2
  <2>2. CASE ScanAdds(j)
    <3>1. PICK n \in j.names :
            jobs' = (jobs \ {j}) \cup {[j EXCEPT !.at = "push", !.names = @ \ {n}, !.name = n]}
      BY <2>2 DEF ScanAdds, Becomes
    <3> DEFINE to == [j EXCEPT !.at = "push", !.names = @ \ {n}, !.name = n]
               names == j.names \ {n}
    <3>2. j.at \notin Ended /\ j.kind = "scan" /\ names \in SUBSET Names /\ n \in Names
      BY <1>4, <2>2 DEF ScanAdds, Ended
    <3>3. to = Further(j, "push", names, n, j.abort)
      BY <1>3 DEF Further, Job
    <3>4. jobs' = (jobs \ {j}) \cup {to}
      BY <3>1
    <3> HIDE DEF to, names
    <3> QED
      BY <1>4, <1>5, <3>2, <3>3, <3>4
  <2>3. CASE JobAborts(j)
    <3> DEFINE to == [j EXCEPT !.at = "aborted", !.names = {}, !.abort = FALSE]
    <3>1. jobs' = (jobs \ {j}) \cup {to} /\ j.at \notin Ended
      BY <2>3 DEF JobAborts, Becomes, Ended
    <3>2. to = Further(j, "aborted", {}, j.name, FALSE)
      BY <1>3 DEF Further, Job
    <3> HIDE DEF to
    <3> QED
      BY <1>4, <1>5, <3>1, <3>2
  <2>4. CASE JobEnds(j)
    <3> DEFINE to == [j EXCEPT !.at = "ok"]
    <3>1. jobs' = (jobs \ {j}) \cup {to} /\ j.at \notin Ended
      BY <2>4 DEF JobEnds, Becomes, Ended
    <3>2. to = Further(j, "ok", j.names, j.name, j.abort)
      BY <1>3 DEF Further, Job
    <3> HIDE DEF to
    <3> QED
      BY <1>4, <1>5, <3>1, <3>2
  <2> QED
    BY <1>1, <2>1, <2>2, <2>3, <2>4
<1>7. Types'
  BY <1>2, <1>6 DEF Inv, Types, TypeOK, JobsOK, Noticed
<1>8. SameData
  BY <1>2 DEF SameData
<1> QED
  BY <1>2, <1>6, <1>7, <1>8, QuietKept DEF Inv

LEMMA FileJobKept ==
  ASSUME Inv, FileJobNext \/ FileJobStarts
  PROVE  Inv'
<1>1. /\ UNCHANGED <<late, lv, todo, closing, aborted, gone, jobs, registered, loads, modes>>
      /\ fjobs' = fjobs \/ (fjobs' = fjobs + 1 /\ fjobs < MaxFileJobs)
  BY DEF FileJobNext, FileJobStarts, FileJobWorks, FileJobTells, MainKept, Unstarted
<1>2. /\ fjobs \in 0..MaxFileJobs /\ MaxFileJobs \in Nat
      /\ disk \in [Places -> SUBSET Names]
      /\ fjob \in [place : Places \cup {NULL}, steps : Seq(Step)]
      /\ notice \in Step \cup {NULL, Handled}
      /\ FileJobs \subseteq [place : Places, steps : Seq(Step)]
  BY ConstantsAssumption DEF Inv, Types, TypeOK
<1>3. fjobs' \in 0..MaxFileJobs
  BY <1>1, <1>2
<1>4. /\ disk' \in [Places -> SUBSET Names]
      /\ fjob' \in [place : Places \cup {NULL}, steps : Seq(Step)]
      /\ notice' \in Step \cup {NULL, Handled}
      /\ Noticed'
  <2>0. Noticed
    BY DEF Inv, Types
  <2>1. CASE FileJobStarts
    <3>1. UNCHANGED <<disk, notice>> /\ notice = NULL /\ fjob' \in FileJobs
      BY <2>1 DEF FileJobStarts
    <3> QED
      BY <1>2, <2>0, <3>1 DEF Noticed
  <2>2. ASSUME fjob.steps # <<>>, fjob' = [fjob EXCEPT !.steps = Tail(@)]
        PROVE  /\ fjob' \in [place : Places \cup {NULL}, steps : Seq(Step)]
               /\ fjob'.place = fjob.place /\ fjob.place \in Places
               /\ Head(fjob.steps) \in Step
    <3>1. fjob.steps \in Seq(Step)
      BY <1>2
    <3>2. Tail(fjob.steps) \in Seq(Step) /\ Head(fjob.steps) \in Step
      BY <2>2, <3>1, TailParts
    <3> DEFINE t == Tail(fjob.steps)
               S == Seq(Step)
    <3>3. t \in S /\ fjob' = [fjob EXCEPT !.steps = t]
          /\ fjob \in [place : Places \cup {NULL}, steps : S]
      BY <1>2, <2>2, <3>2
    <3> HIDE DEF t, S
    <3>4. fjob' \in [place : Places \cup {NULL}, steps : S] /\ fjob'.place = fjob.place
      BY <3>3
    <3> QED
      BY <2>0, <2>2, <3>2, <3>4 DEF Noticed, S
  <2>3. CASE FileJobWorks
    <3>1. /\ fjob.steps # <<>> /\ fjob' = [fjob EXCEPT !.steps = Tail(@)] /\ notice' = notice
          /\ Head(fjob.steps).act \in {"make", "unmake"}
      BY <2>3 DEF FileJobWorks, FileJobAt
    <3>2. Head(fjob.steps) \in Step /\ fjob.place \in Places /\ fjob'.place = fjob.place
          /\ fjob' \in [place : Places \cup {NULL}, steps : Seq(Step)]
      BY <2>2, <3>1
    <3>3. Head(fjob.steps).name \in Names
      BY <3>1, <3>2, StepName
    <3>4. disk' \in [Places -> SUBSET Names]
      BY <1>2, <2>3, <3>2, <3>3 DEF FileJobWorks
    <3> QED
      BY <1>2, <2>0, <3>1, <3>2, <3>4 DEF Noticed
  <2>4. CASE FileJobTells
    <3>1. /\ fjob.steps # <<>> /\ fjob' = [fjob EXCEPT !.steps = Tail(@)] /\ disk' = disk
          /\ Head(fjob.steps).act \in {"disable", "enable", "create", "delete"}
          /\ notice' \in {Head(fjob.steps), NULL}
      BY <2>4 DEF FileJobTells, FileJobAt
    <3>2. Head(fjob.steps) \in Step /\ fjob.place \in Places /\ fjob'.place = fjob.place
          /\ fjob' \in [place : Places \cup {NULL}, steps : Seq(Step)]
      BY <2>2, <3>1
    <3> QED
      BY <1>2, <3>1, <3>2 DEF Noticed
  <2> QED
    BY <2>1, <2>3, <2>4 DEF FileJobNext
<1>5. Types'
  BY <1>1, <1>3, <1>4 DEF Inv, Types, TypeOK
<1>6. SameData /\ Moved(jobs, jobs') /\ JobsOK(jobs')
  BY <1>1, MovedSame, InvParts DEF SameData, Inv
<1> QED
  BY <1>1, <1>5, <1>6, QuietKept DEF Inv

-----------------------------------------------------------------------------
(* What the main task does in passing.                                     *)

LEMMA AddFileKept ==
  ASSUME Inv, NEW j \in jobs, AddFile(j)
  PROVE  Inv'
<1>1. /\ j.at = "push" /\ lv' = Added(lv, j.name, j.place, "scan")
      /\ jobs' = (jobs \ {j}) \cup {[j EXCEPT !.at = "run", !.name = NULL]}
      /\ UNCHANGED <<late, todo, closing, aborted, gone, loads, modes, fjobs, registered, disk,
                     fjob, notice>>
  BY DEF AddFile, Pushed, Unstarted, Outside
<1>2. /\ JobsOK(jobs) /\ DataOK(lv) /\ j \in Job /\ j.kind = "scan"
      /\ j.name \in Names /\ j.place \in Places
  BY <1>1, InvParts DEF Inv, JobsOK
<1>3. /\ DataOK(lv') /\ SameState(lv, lv')
      /\ \A x \in lv'.alist \ lv.alist : x.by = "scan" /\ x.from = j.place /\ x.at = lv.path
  BY <1>1, <1>2, AddedData
<1> DEFINE to == [j EXCEPT !.at = "run", !.name = NULL]
<1>4. /\ to \in Job /\ to.id = j.id /\ to.kind = j.kind /\ to.place = j.place /\ to.at = "run"
  BY <1>2 DEF Job
<1>5. jobs' = (jobs \ {j}) \cup {to}
  BY <1>1
<1> HIDE DEF to
<1>6. Moved(jobs, jobs') /\ JobsOK(jobs')
  BY <1>1, <1>2, <1>4, <1>5, Replaced DEF Ended
<1>7. ~lv.showfiles => j.place = lv.path
  BY <1>1, <1>2 DEF Inv, Control, Fresh, Scans, JobsOf, Ended
<1>8. SameData
  BY <1>1, <1>3, <1>7 DEF SameData, SameState, ScanEntries
<1>9. Types'
  BY <1>1, <1>3, <1>6 DEF Inv, Types, TypeOK, JobsOK, DataOK, Noticed
<1> QED
  BY <1>1, <1>6, <1>8, <1>9, QuietKept DEF Inv

LEMMA AbortedKept ==
  ASSUME Inv, Aborted \/ UNCHANGED vars
  PROVE  Inv'
<1>1. /\ UNCHANGED <<late, lv, jobs, todo, registered, disk, fjob, notice, closing, loads, modes, fjobs>>
      /\ aborted' \in {aborted, FALSE} /\ gone' \in {gone, closing}
  BY DEF Aborted, Unstarted, Outside, vars
<1>2. SameData /\ Moved(jobs, jobs') /\ JobsOK(jobs')
  BY <1>1, MovedSame, InvParts DEF SameData, Inv
<1>3. aborted' \in BOOLEAN /\ gone' \in BOOLEAN
  BY <1>1 DEF Inv, Types, TypeOK
<1>4. Types'
  BY <1>1, <1>3 DEF Inv, Types, TypeOK, Noticed
<1> QED
  BY <1>1, <1>2, <1>4, QuietKept DEF Inv

LEMMA ItemTypes ==
  /\ \A k \in Kinds \cup {"all"} : /\ [op |-> "answer", kind |-> k] \in Item
                                   /\ [op |-> "abort", kind |-> k] \in Item
                                   /\ [op |-> "restart", kind |-> k] \in Item
  /\ \A i \in Nat : [op |-> "report", job |-> i] \in Item /\ [op |-> "release", job |-> i] \in Item
  /\ [op |-> "dosnotify"] \in Item /\ [op |-> "show"] \in Item /\ [op |-> "notified"] \in Item
  /\ \A x \in Item : /\ x.op \in {"abort", "restart", "answer"} => x.kind \in Kinds \cup {"all"}
                     /\ x.op \in {"report", "release"} => x.job \in Nat
  BY DEF Item

LEMMA DoingParts ==
  ASSUME Types, NEW op, Doing(op)
  PROVE  /\ todo # <<>> /\ Head(todo) = todo[1] /\ todo[1].op = op
         /\ 1 \in DOMAIN todo /\ Len(todo) >= 1 /\ todo[1] \in Item
         /\ Tail(todo) \in Seq(Item) /\ Len(Tail(todo)) = Len(todo) - 1
         /\ \A i \in 1..(Len(todo) - 1) : Tail(todo)[i] = todo[i + 1]
<1>1. todo # <<>> /\ Head(todo).op = op
  BY DEF Doing
<1> QED
  BY <1>1, InvParts, TailParts

LEMMA PopShift ==
  ASSUME Types, NEW op, Doing(op), todo' = Tail(todo)
  PROVE  Shift(0, -1)
<1>1. /\ Tail(todo) \in Seq(Item) /\ Len(Tail(todo)) = Len(todo) - 1
      /\ \A i \in 1..(Len(todo) - 1) : Tail(todo)[i] = todo[i + 1]
      /\ Len(todo) >= 1
  BY DoingParts
<1>2. Len(todo) \in Nat
  BY InvParts
<1>3. \A i \in (0 + 1)..(Len(todo) + (-1)) : todo'[i] = todo[i - (-1)]
  BY <1>1, <1>2
<1> QED
  BY <1>1, <1>2, <1>3 DEF Shift

LEMMA HeadShift ==
  ASSUME Types, NEW op, Doing(op), NEW x \in Item, todo' = <<x>> \o Tail(todo)
  PROVE  Shift(1, 0) /\ todo'[1] = x
<1>1. /\ Tail(todo) \in Seq(Item) /\ Len(Tail(todo)) = Len(todo) - 1
      /\ \A i \in 1..(Len(todo) - 1) : Tail(todo)[i] = todo[i + 1]
      /\ Len(todo) >= 1
  BY DoingParts
<1>2. Len(todo) \in Nat
  BY InvParts
<1> DEFINE t == Tail(todo)
           p == <<x>>
<1>3. p \in Seq(Item) /\ Len(p) = 1 /\ p[1] = x
  OBVIOUS
<1>4. t \in Seq(Item) /\ todo' = p \o t
  BY <1>1
<1> HIDE DEF p, t
<1>5. /\ todo' \in Seq(Item) /\ Len(todo') = Len(p) + Len(t)
      /\ \A i \in 1..Len(p) : todo'[i] = p[i]
      /\ \A i \in (Len(p) + 1)..(Len(p) + Len(t)) : todo'[i] = t[i - Len(p)]
  <2>1. /\ p \o t \in Seq(Item) /\ Len(p \o t) = Len(p) + Len(t)
        /\ \A i \in 1..Len(p) : (p \o t)[i] = p[i]
        /\ \A i \in (Len(p) + 1)..(Len(p) + Len(t)) : (p \o t)[i] = t[i - Len(p)]
    BY <1>3, <1>4, ConcatParts
  <2> QED
    BY <1>4, <2>1
<1>6. Len(t) = Len(todo) - 1 /\ \A i \in 1..(Len(todo) - 1) : t[i] = todo[i + 1]
  BY <1>1 DEF t
<1>7. Len(todo') = Len(todo) + 0 /\ todo'[1] = x
  BY <1>2, <1>3, <1>5, <1>6
<1>8. ASSUME NEW i \in (1 + 1)..(Len(todo) + 0)
      PROVE  todo'[i] = todo[i - 0]
  <2>1. todo'[i] = t[i - 1] /\ i - 1 \in 1..(Len(todo) - 1)
    BY <1>2, <1>3, <1>5, <1>6
  <2>2. t[i - 1] = todo[(i - 1) + 1]
    BY <1>6, <2>1
  <2> QED
    BY <1>2, <2>1, <2>2
<1> QED
  BY <1>1, <1>5, <1>7, <1>8 DEF Shift

LEMMA FrontShift ==
  ASSUME Types, NEW p \in Seq(Item), todo' = p \o todo
  PROVE  Shift(Len(p), Len(p)) /\ \A i \in 1..Len(p) : todo'[i] = p[i]
<1>1. /\ todo' \in Seq(Item) /\ Len(todo') = Len(p) + Len(todo)
      /\ \A i \in 1..Len(p) : todo'[i] = p[i]
      /\ \A i \in (Len(p) + 1)..(Len(p) + Len(todo)) : todo'[i] = todo[i - Len(p)]
  BY InvParts, ConcatParts
<1>2. Len(p) \in Nat /\ Len(todo) \in Nat
  BY SeqParts, InvParts
<1> QED
  BY <1>1, <1>2 DEF Shift

LEMMA PopKept ==
  ASSUME Inv, NEW op \in {"dosnotify", "notified"}, Doing(op), todo' = Tail(todo),
         UNCHANGED <<lv, jobs, registered>>
  PROVE  Control'
<1>1. Shift(0, -1) /\ todo[1].op = op
  BY PopShift, DoingParts DEF Inv
<1>2. Minor(0, -1)
  BY <1>1 DEF Minor
<1>3. SameData /\ Moved(jobs, jobs') /\ JobsOK(jobs')
  BY MovedSame, InvParts DEF SameData, Inv
<1> QED
  BY <1>1, <1>2, <1>3, ShiftKept

LEMMA NotifiedKept ==
  ASSUME Inv, Notified \/ EnableDOSNotify
  PROVE  Inv'
<1>1. /\ UNCHANGED <<late, lv, jobs, registered, disk, fjob, closing, aborted, gone, loads, modes, fjobs>>
      /\ notice' \in {notice, NULL} /\ todo' = Tail(todo)
      /\ \E op \in {"dosnotify", "notified"} : Doing(op)
  BY DEF Notified, EnableDOSNotify, Unstarted, Outside
<1>2. Control'
  BY <1>1, PopKept
<1>3. todo' \in Seq(Item)
  BY <1>1, DoingParts DEF Inv
<1>4. Types'
  BY <1>1, <1>3 DEF Inv, Types, TypeOK, Noticed
<1> QED
  BY <1>2, <1>4 DEF Inv

\* The jobs are told to stop.
LEMMA Told ==
  ASSUME JobsOK(jobs), NEW told \in SUBSET jobs,
         jobs' = (jobs \ told) \cup {[j EXCEPT !.abort = TRUE] : j \in told}
  PROVE  Moved(jobs, jobs') /\ JobsOK(jobs')
<1> DEFINE f == [j \in told |-> [j EXCEPT !.abort = TRUE]]
           T == {f[j] : j \in told}
<1>1. \A j \in told : /\ f[j] \in Job /\ f[j].id = j.id /\ f[j].kind = j.kind /\ f[j].at = j.at
                      /\ f[j].place = j.place /\ f[j].name = j.name
  <2> SUFFICES ASSUME NEW j \in told
               PROVE  /\ f[j] \in Job /\ f[j].id = j.id /\ f[j].kind = j.kind
                      /\ f[j].at = j.at /\ f[j].place = j.place /\ f[j].name = j.name
    OBVIOUS
  <2>1. j \in Job /\ f[j] = [j EXCEPT !.abort = TRUE]
    BY DEF JobsOK
  <2> HIDE DEF f
  <2> QED
    BY <2>1 DEF Job
<1>2. jobs' = (jobs \ told) \cup T
  OBVIOUS
<1>3. f \in Surjection(told, T)
  BY DEF Surjection
<1> HIDE DEF f
<1>4. IsFiniteSet(told) /\ IsFiniteSet(jobs \ told)
  BY FS_Subset DEF JobsOK
<1>5. IsFiniteSet(T)
  BY <1>3, <1>4, FS_Surjection
<1>6. IsFiniteSet(jobs')
  <2> DEFINE R == jobs \ told
  <2>1. jobs' = R \cup T /\ IsFiniteSet(R) /\ IsFiniteSet(T)
    BY <1>2, <1>4, <1>5
  <2> HIDE DEF R, T
  <2>2. IsFiniteSet(R \cup T)
    BY <2>1, FS_Union
  <2> QED
    BY <2>1, <2>2
<1>7. \A k \in jobs' : k \in jobs \/ \E j \in told : k = f[j]
  BY <1>2
<1>8. \A j \in jobs : j \in jobs' \/ (j \in told /\ f[j] \in jobs')
  BY <1>2
<1>9. \A j \in told : j \in jobs
  OBVIOUS
<1>10. Moved(jobs, jobs')
  BY <1>1, <1>7, <1>8, <1>9 DEF Moved
<1>11. \A a, b \in jobs' : a.id = b.id => a = b
  <2> SUFFICES ASSUME NEW a \in jobs', NEW b \in jobs', a.id = b.id
               PROVE  a = b
    OBVIOUS
  <2>1. PICK c \in jobs : c.id = a.id /\ ((a = c /\ c \notin told) \/ (c \in told /\ a = f[c]))
    BY <1>1, <1>2, <1>9
  <2>2. PICK d \in jobs : d.id = b.id /\ ((b = d /\ d \notin told) \/ (d \in told /\ b = f[d]))
    BY <1>1, <1>2, <1>9
  <2>3. c = d
    BY <2>1, <2>2 DEF JobsOK
  <2> QED
    BY <2>1, <2>2, <2>3
<1>12. /\ jobs' \subseteq Job
       /\ \A j \in jobs' : j.at = "push" => j.kind = "scan" /\ j.name \in Names
       /\ \A j \in jobs' : j.kind = "scan" => j.place \in Places
  BY <1>1, <1>7, <1>9 DEF JobsOK
<1> QED
  BY <1>6, <1>10, <1>11, <1>12 DEF JobsOK

LEMMA ThreadsAbortKept ==
  ASSUME Inv, ThreadsAbort
  PROVE  Inv'
<1> DEFINE kind == Head(todo).kind
           told == IF kind = "all" THEN jobs ELSE JobsOf(kind)
           x == [op |-> "answer", kind |-> kind]
<1>1. /\ Doing("abort") \/ Doing("restart")
      /\ lv' = IF Doing("restart")
                 THEN [lv EXCEPT !.startnewthread = @ \cup {kind}] ELSE lv
      /\ jobs' = (jobs \ told) \cup {[j EXCEPT !.abort = TRUE] : j \in told}
      /\ todo' = IF told = {} THEN <<x>> \o Tail(todo) ELSE Tail(todo)
      /\ UNCHANGED <<late, closing, aborted, gone, loads, modes, fjobs, registered, disk, fjob, notice>>
  BY DEF ThreadsAbort, Unstarted, Outside
<1>2. PICK op \in {"abort", "restart"} : Doing(op)
  BY <1>1
<1>3. /\ todo # <<>> /\ kind = todo[1].kind /\ todo[1].op = op
      /\ 1 \in DOMAIN todo /\ kind \in Kinds \cup {"all"}
  BY <1>2, DoingParts, ItemTypes DEF Inv
<1>4. told \subseteq jobs
  BY DEF JobsOf
<1>5. Moved(jobs, jobs') /\ JobsOK(jobs')
  BY <1>1, <1>4, Told, InvParts DEF Inv
<1>6. /\ DataOK(lv') /\ lv'.busy = lv.busy /\ lv'.path = lv.path
      /\ lv'.showfiles = lv.showfiles /\ ScanEntries(lv') = ScanEntries(lv)
  <2>1. CASE Doing("restart")
    <3>1. kind \in {"icons", "types"} /\ DataOK(lv)
      <4>1. todo[1].op = "restart"
        BY <2>1, DoingParts DEF Inv
      <4> QED
        BY <1>3, <4>1, InvParts DEF Inv, Control, AbortsScan
    <3> DEFINE sn == lv.startnewthread \cup {kind}
    <3>2. lv' = [lv EXCEPT !.startnewthread = @ \cup {kind}]
      BY <1>1, <2>1
    <3>3. lv' = Marked(lv, lv.busy, sn)
      BY <3>1, <3>2 DEF Marked, DataOK, Data
    <3>4. sn \in SUBSET Kinds /\ lv.busy \in SUBSET Kinds
      BY <3>1, KindsIn DEF DataOK, Data
    <3> HIDE DEF sn
    <3> QED
      BY <3>1, <3>3, <3>4, BusyData
  <2>2. CASE ~Doing("restart")
    BY <1>1, <2>2, InvParts DEF Inv
  <2> QED
    BY <2>1, <2>2
<1>7. SameData
  BY <1>1, <1>6 DEF SameData
<1>8. /\ \E m, n : Shift(m, n) /\ Minor(m, n)
      /\ todo' \in Seq(Item)
  <2>1. CASE told = {}
    <3>1. todo' = <<x>> \o Tail(todo) /\ x \in Item
      BY <1>1, <1>3, <2>1, ItemTypes
    <3>2. Shift(1, 0) /\ todo'[1] = x
      BY <1>2, <3>1, HeadShift DEF Inv
    <3>3. todo[1].kind = "scan" => Scans = {}
      BY <1>3, <2>1 DEF Scans
    <3>4. x.op = "answer" /\ x.kind = kind
      OBVIOUS
    <3>5. Minor(1, 0)
      BY <1>3, <3>2, <3>3, <3>4 DEF Minor
    <3> QED
      BY <3>2, <3>5 DEF Shift
  <2>2. CASE told # {}
    <3>1. Shift(0, -1)
      BY <1>1, <1>2, <2>2, PopShift DEF Inv
    <3>2. kind = "all" \/ \E j \in jobs : j.kind = kind
      BY <2>2 DEF JobsOf
    <3>3. Minor(0, -1)
      BY <1>3, <3>2 DEF Minor
    <3> QED
      BY <3>1, <3>3 DEF Shift
  <2> QED
    BY <2>1, <2>2
<1>9. Control'
  BY <1>5, <1>7, <1>8, ShiftKept
<1>10. Types'
  BY <1>1, <1>5, <1>6, <1>8 DEF Inv, Types, TypeOK, JobsOK, DataOK, Noticed
<1> QED
  BY <1>9, <1>10 DEF Inv

LEMMA NotifyChangeKept ==
  ASSUME Inv, NotifyChange
  PROVE  Inv'
<1>1. /\ Draining /\ notice \notin {NULL, Handled}
      /\ UNCHANGED <<late, jobs, registered, disk, fjob, closing, aborted, gone, loads, modes, fjobs>>
  BY DEF NotifyChange, Unstarted
<1>2. PICK d \in Noted :
        IF d.update
          THEN /\ lv' \in Displayed(d)
               /\ todo' = AbortItems("restart", RestartSeq) \o <<[op |-> "notified"]>> \o todo
               /\ notice' = Handled
          ELSE lv' = d /\ notice' = NULL /\ UNCHANGED todo
  BY DEF NotifyChange
<1>3. notice \in Step /\ fjob.place \in Places
      /\ notice.act \in {"disable", "enable", "create", "delete"}
  BY <1>1 DEF Inv, Types, TypeOK, Noticed
<1>4. Comes(lv, d)
  BY <1>3, NotedComes, InvParts DEF Inv
<1>5. Comes(lv, lv')
  <2>1. CASE d.update
    BY <1>2, <1>4, <2>1, DisplayedComes, ComesTrans DEF Comes
  <2>2. CASE ~d.update
    BY <1>2, <1>4, <2>2
  <2> QED
    BY <2>1, <2>2
<1>6. SameData /\ DataOK(lv')
  BY <1>1, <1>5 DEF SameData, Comes, SameState
<1>7. Moved(jobs, jobs') /\ JobsOK(jobs')
  BY <1>1, MovedSame, InvParts DEF Inv
<1>8. Control' /\ todo' \in Seq(Item)
  <2>1. CASE UNCHANGED todo
    BY <1>6, <1>7, <2>1, QuietKept, InvParts DEF Inv
  <2>2. CASE todo' = AbortItems("restart", RestartSeq) \o <<[op |-> "notified"]>> \o todo
    <3> DEFINE a == AbortItems("restart", RestartSeq)
               b == <<[op |-> "notified"]>>
               q == a \o b
    <3>1. a = <<[op |-> "restart", kind |-> "icons"], [op |-> "restart", kind |-> "types"]>>
      BY DEF AbortItems, RestartSeq
    <3>2. /\ a \in Seq(Item) /\ b \in Seq(Item) /\ Len(a) = 2 /\ Len(b) = 1
          /\ a[1].op = "restart" /\ a[1].kind = "icons" /\ a[2].op = "restart"
          /\ a[2].kind = "types" /\ b[1].op = "notified"
      <4> DEFINE x == [op |-> "restart", kind |-> "icons"]
                 y == [op |-> "restart", kind |-> "types"]
                 z == [op |-> "notified"]
      <4>1. x \in Item /\ y \in Item /\ z \in Item
        BY ItemTypes, KindsIn
      <4>2. /\ x.op = "restart" /\ x.kind = "icons" /\ y.op = "restart"
            /\ y.kind = "types" /\ z.op = "notified"
        OBVIOUS
      <4>3. a = <<x, y>> /\ b = <<z>>
        BY <3>1
      <4> HIDE DEF a, b, x, y, z
      <4> QED
        BY <4>1, <4>2, <4>3
    <3>3. todo' = q \o todo
      BY <2>2
    <3> HIDE DEF a, b
    <3>4. /\ q \in Seq(Item) /\ Len(q) = Len(a) + Len(b)
          /\ \A i \in 1..Len(a) : q[i] = a[i]
          /\ \A i \in (Len(a) + 1)..(Len(a) + Len(b)) : q[i] = b[i - Len(a)]
      BY <3>2, ConcatParts, ZenonT(60)
    <3>5. Len(q) = 3 /\ q[1] = a[1] /\ q[2] = a[2] /\ q[3] = b[1]
      BY <3>2, <3>4
    <3>6. /\ q[1].op = "restart" /\ q[1].kind = "icons" /\ q[2].op = "restart"
          /\ q[2].kind = "types" /\ q[3].op = "notified"
      BY <3>2, <3>5
    <3> HIDE DEF q
    <3>7. Shift(3, 3) /\ \A i \in 1..3 : todo'[i] = q[i]
      BY <3>3, <3>4, <3>5, FrontShift DEF Inv
    <3>8. todo = <<>> \/ todo[1].op # "release"
      BY <1>1, DoingParts DEF Draining, Idle, Inv
    <3>9. \A i \in 1..3 : i = 1 \/ i = 2 \/ i = 3
      OBVIOUS
    <3>10. Minor(3, 3)
      BY <3>6, <3>7, <3>8, <3>9 DEF Minor
    <3> QED
      BY <1>6, <1>7, <3>7, <3>10, ShiftKept DEF Shift
  <2> QED
    BY <1>2, <2>1, <2>2
<1>9. notice' \in {NULL, Handled}
  BY <1>2
<1>10. Types'
  BY <1>1, <1>6, <1>7, <1>8, <1>9 DEF Inv, Types, TypeOK, DataOK, Noticed
<1> QED
  BY <1>8, <1>10 DEF Inv

-----------------------------------------------------------------------------
(* The events.                                                             *)

LEMMA IdleParts ==
  ASSUME Inv, Idle
  PROVE  /\ todo = <<>> /\ DOMAIN todo = {}
         /\ \A j : ~Leaving(j)
         /\ lv.showfiles /\ "scan" \notin lv.busy => Scans = {}
         /\ \A i, j \in Scans : i = j
         /\ \A k \in lv.busy : \E j \in jobs : j.kind = k
<1>1. todo = <<>> /\ DOMAIN todo = {}
  BY DEF Idle
<1>2. \A j : ~Leaving(j)
  BY <1>1 DEF Leaving, Releases
<1> QED
  BY <1>1, <1>2 DEF Inv, Control, ShowsLater, Busy

\* An event that begins with calls that abort jobs.
LEMMA BeginKept ==
  ASSUME Inv, Idle, jobs' = jobs, todo' \in Seq(Item),
         \A i \in DOMAIN todo' : todo'[i].op = "abort",
         \A i, k \in DOMAIN todo' : todo'[i].kind = "scan" /\ todo'[k].kind = "scan" => i = k,
         \A i \in DOMAIN todo' : todo'[i].kind = "scan" => "scan" \in lv'.busy /\ lv'.path # NULL,
         lv'.showfiles => lv.showfiles \/ "scan" \in lv'.busy,
         lv.showfiles => lv'.showfiles,
         "scan" \in lv.busy => "scan" \in lv'.busy,
         ~lv'.showfiles => lv'.path = lv.path /\ ScanEntries(lv') = ScanEntries(lv),
         lv'.path = NULL => lv.path = NULL /\ lv'.showfiles = lv.showfiles,
         registered' = registered,
         \A k \in lv'.busy : k \in lv.busy \/
            \E i \in DOMAIN todo' : todo'[i].op = "abort" /\ todo'[i].kind = k
  PROVE  Control'
<1>1. Scans' = Scans
  BY DEF Scans, JobsOf
<1>2. \A j : ~Leaving(j)'
  BY DEF Leaving, Releases
<1>3. ~Has("release")' /\ \A i \in DOMAIN todo' : EndsScan(i)' <=> todo'[i].kind = "scan"
  BY DEF Has, EndsScan
<1>4. Bottom' /\ Shows'
  BY DEF Bottom, Shows
<1>5. AbortsScan'
  BY <1>3 DEF AbortsScan
<1>6. ShowsLater'
  BY <1>1, <1>2, IdleParts DEF ShowsLater
<1>7. Busy'
  BY <1>2, IdleParts DEF Busy
<1>8. Fresh'
  BY <1>1 DEF Inv, Control, Fresh
<1>9. Loaded'
  BY <1>1, <1>3 DEF Inv, Control, Loaded
<1> QED
  BY <1>4, <1>5, <1>6, <1>7, <1>8, <1>9 DEF Control

LEMMA TripleSeq ==
  ASSUME NEW S, NEW x \in S, NEW y \in S, NEW z \in S
  PROVE  <<x, y, z>> \in Seq(S)
  OBVIOUS

LEMMA AbortItemsParts ==
  ASSUME todo' = AbortItems("abort", KindSeq)
  PROVE  /\ todo' \in Seq(Item)
         /\ \A i \in DOMAIN todo' : todo'[i].op = "abort"
         /\ \A i, k \in DOMAIN todo' : todo'[i].kind = "scan" /\ todo'[k].kind = "scan" => i = k
         /\ \A k \in Kinds : \E i \in DOMAIN todo' : todo'[i].op = "abort" /\ todo'[i].kind = k
<1> DEFINE x == [op |-> "abort", kind |-> "scan"]
           y == [op |-> "abort", kind |-> "icons"]
           z == [op |-> "abort", kind |-> "types"]
<1>1. todo' = <<x, y, z>>
  BY DEF AbortItems, KindSeq
<1>2. x \in Item /\ y \in Item /\ z \in Item
  BY ItemTypes, KindsIn
<1>3. /\ x.op = "abort" /\ x.kind = "scan" /\ y.op = "abort" /\ y.kind = "icons"
      /\ z.op = "abort" /\ z.kind = "types"
  OBVIOUS
<1> HIDE DEF x, y, z
<1>4. /\ todo' \in Seq(Item) /\ DOMAIN todo' = {1, 2, 3}
      /\ todo'[1] = x /\ todo'[2] = y /\ todo'[3] = z
  <2>1. todo' \in Seq(Item)
    BY <1>1, <1>2, TripleSeq
  <2>2. Len(todo') = 3 /\ todo'[1] = x /\ todo'[2] = y /\ todo'[3] = z
    BY <1>1
  <2>3. DOMAIN todo' = 1..3
    BY <2>1, <2>2, LenProperties
  <2>4. 1..3 = {1, 2, 3}
    OBVIOUS
  <2> QED
    BY <2>1, <2>2, <2>3, <2>4
<1> QED
  BY <1>3, <1>4, KindsIn

LEMMA LoadKept ==
  ASSUME Inv, NEW p \in Places, LoadURI(p)
  PROVE  Inv'
<1> DEFINE d == [lv EXCEPT !.path = p, !.showfiles = TRUE, !.viewmode_postpone = NULL]
<1>1. /\ Idle /\ lv' = [d EXCEPT !.busy = Kinds] /\ todo' = AbortItems("abort", KindSeq)
      /\ UNCHANGED <<late, jobs, modes, fjobs, closing, aborted, gone, registered, disk, fjob, notice>>
      /\ loads < MaxLoads /\ loads' = loads + 1
  BY DEF LoadURI, AbortThreads, Outside
<1>2. /\ lv' \in Data /\ lv'.path = p /\ lv'.showfiles = TRUE /\ lv'.busy = Kinds
      /\ lv'.alist = lv.alist /\ lv'.list = lv.list
      /\ lv'.newentry = lv.newentry /\ lv'.removed = lv.removed /\ lv'.rlist = lv.rlist
  BY <1>1, InvParts DEF Inv, DataOK, Data
<1>3. DataOK(lv') /\ NULL \notin Places
  BY <1>2, InvParts DEF DataOK, Inv
<1>4. Control' /\ todo' \in Seq(Item)
  <2>1. lv'.path # NULL /\ "scan" \in lv'.busy
    BY <1>2, <1>3, KindsIn
  <2> QED
    BY <1>1, <1>2, <2>1, AbortItemsParts, BeginKept
<1>5. loads' \in 0..MaxLoads
  BY <1>1, ConstantsAssumption DEF Inv, Types, TypeOK
<1>6. Types'
  BY <1>1, <1>3, <1>4, <1>5 DEF Inv, Types, TypeOK, DataOK, JobsOK, Noticed
<1> QED
  BY <1>4, <1>6 DEF Inv

LEMMA SetModeKept ==
  ASSUME Inv, NEW m \in Modes, SetMode(m)
  PROVE  Inv'
<1> DEFINE d == [lv EXCEPT !.viewmode_postpone = m]
<1>1. /\ Idle
      /\ \/ registered # NULL /\ lv' = [d EXCEPT !.busy = Kinds] /\ todo' = AbortItems("abort", KindSeq)
         \/ lv' = d /\ todo' = todo
      /\ UNCHANGED <<late, jobs, loads, fjobs, closing, aborted, gone, registered, disk, fjob, notice>>
      /\ modes < MaxModes /\ modes' = modes + 1
  BY DEF SetMode, AbortThreads, Outside
<1>2. /\ lv' \in Data /\ lv'.path = lv.path /\ lv'.showfiles = lv.showfiles
      /\ lv'.alist = lv.alist /\ lv'.list = lv.list
      /\ lv'.newentry = lv.newentry /\ lv'.removed = lv.removed /\ lv'.rlist = lv.rlist
      /\ \/ lv'.busy = lv.busy /\ todo' = todo
         \/ registered # NULL /\ lv'.busy = Kinds /\ todo' = AbortItems("abort", KindSeq)
  BY <1>1, InvParts DEF Inv, DataOK, Data
<1>3. DataOK(lv') /\ ScanEntries(lv') = ScanEntries(lv)
  BY <1>2, InvParts DEF DataOK, Inv, ScanEntries
<1>4. Control' /\ todo' \in Seq(Item)
  <2>1. CASE lv'.busy = lv.busy /\ todo' = todo
    <3>1. SameData /\ Moved(jobs, jobs') /\ JobsOK(jobs')
      BY <1>1, <1>2, <1>3, <2>1, MovedSame, InvParts DEF SameData, Inv
    <3> QED
      BY <2>1, <3>1, QuietKept, InvParts DEF Inv
  <2>2. CASE registered # NULL /\ lv'.busy = Kinds /\ todo' = AbortItems("abort", KindSeq)
    <3>1. lv.path # NULL
      BY <2>2 DEF Inv, Control, Loaded
    <3>2. "scan" \in lv'.busy
      BY <2>2, KindsIn
    <3> QED
      BY <1>1, <1>2, <1>3, <2>2, <3>1, <3>2, AbortItemsParts, BeginKept
  <2> QED
    BY <1>2, <2>1, <2>2
<1>5. modes' \in 0..MaxModes
  BY <1>1, ConstantsAssumption DEF Inv, Types, TypeOK
<1>6. Types'
  BY <1>1, <1>3, <1>4, <1>5 DEF Inv, Types, TypeOK, DataOK, JobsOK, Noticed
<1> QED
  BY <1>4, <1>6 DEF Inv

LEMMA CloseKept ==
  ASSUME Inv, Close
  PROVE  Inv'
<1> DEFINE x == [op |-> "abort", kind |-> "all"]
<1>1. /\ Idle /\ todo' = <<x>> /\ closing' = TRUE
      /\ UNCHANGED <<late, lv, jobs, aborted, gone, loads, modes, fjobs, registered, disk, fjob, notice>>
  BY DEF Close, Unstarted, Outside
<1>2. x \in Item /\ x.op = "abort" /\ x.kind = "all"
  BY ItemTypes
<1> HIDE DEF x
<1>3. todo' \in Seq(Item) /\ DOMAIN todo' = {1} /\ todo'[1] = x
  BY <1>1, <1>2
<1>4. Control'
  BY <1>1, <1>2, <1>3, BeginKept
<1>5. Types'
  BY <1>1, <1>3 DEF Inv, Types, TypeOK, Noticed
<1> QED
  BY <1>4, <1>5 DEF Inv

\* A thread's job has ended, which has not been told yet.
LEMMA ThreadsHandleKept ==
  ASSUME Inv, NEW j \in jobs, ThreadsHandle(j)
  PROVE  Inv'
<1> DEFINE x == [op |-> "report", job |-> j.id]
           y == [op |-> "release", job |-> j.id]
<1>1. /\ Idle /\ j.at \in Ended /\ todo' = <<x, y>>
      /\ UNCHANGED <<late, lv, jobs, closing, aborted, gone, loads, modes, fjobs, registered, disk,
                     fjob, notice>>
  BY DEF ThreadsHandle, Unstarted, Outside, Ended
<1>2. j.id \in Nat
  BY InvParts DEF Inv, JobsOK, Job
<1>3. /\ x \in Item /\ y \in Item /\ x.op = "report" /\ y.op = "release"
      /\ x.job = j.id /\ y.job = j.id
  BY <1>2, ItemTypes
<1> HIDE DEF x, y
<1>4. /\ todo' \in Seq(Item) /\ DOMAIN todo' = {1, 2} /\ Len(todo') = 2
      /\ todo'[1] = x /\ todo'[2] = y
  BY <1>1, <1>3
<1>5. Has("report")' /\ \A i : ~Leaving(i)'
  BY <1>3, <1>4 DEF Has, Leaving
<1>6. Scans' = Scans
  BY <1>1 DEF Scans, JobsOf
<1>7. Bottom'
  BY <1>1, <1>3, <1>4 DEF Bottom
<1>8. AbortsScan' /\ Shows' /\ \A i \in DOMAIN todo' : todo'[i].op # "show" /\ ~EndsScan(i)'
  BY <1>3, <1>4 DEF AbortsScan, Shows, EndsScan
<1>9. ShowsLater'
  BY <1>1, <1>5, <1>6, IdleParts DEF ShowsLater
<1>10. Busy'
  BY <1>1, <1>5, IdleParts DEF Busy
<1>11. Fresh' /\ Loaded'
  BY <1>1, <1>6, <1>8 DEF Inv, Control, Fresh, Loaded
<1>12. Types'
  BY <1>1, <1>4 DEF Inv, Types, TypeOK, Noticed
<1> QED
  BY <1>7, <1>8, <1>9, <1>10, <1>11, <1>12 DEF Inv, Control

-----------------------------------------------------------------------------
(* The ends of jobs.                                                       *)

LEMMA JobByIdIs ==
  ASSUME JobsOK(jobs), NEW j \in jobs
  PROVE  JobById(j.id) = j
<1>1. JobById(j.id) \in jobs /\ JobById(j.id).id = j.id
  BY DEF JobById
<1> QED
  BY <1>1 DEF JobsOK

LEMMA ReleaseKept ==
  ASSUME Inv, Release
  PROVE  Inv'
<1>1. /\ Doing("release") /\ todo' = Tail(todo)
      /\ jobs' = jobs \ {JobById(Head(todo).job)}
      /\ late' \in {late, late + 1}
      /\ UNCHANGED <<lv, closing, aborted, gone, loads, modes, fjobs, registered, disk, fjob,
                     notice>>
  BY DEF Release, Lingering, Unstarted, Outside
<1>2. /\ todo[1].op = "release" /\ 1 \in DOMAIN todo /\ Head(todo) = todo[1]
      /\ DOMAIN todo = 1..Len(todo) /\ Len(todo) \in Nat /\ JobsOK(jobs)
      /\ Tail(todo) \in Seq(Item) /\ Len(Tail(todo)) = Len(todo) - 1
  BY <1>1, DoingParts, InvParts DEF Inv
<1>3. Len(todo) = 1 /\ \E j \in jobs : j.id = todo[1].job
  BY <1>2 DEF Inv, Control, Bottom
<1>4. PICK j \in jobs : j.id = todo[1].job
  BY <1>3
<1>5. jobs' = jobs \ {j}
  BY <1>1, <1>2, <1>4, JobByIdIs
<1>6. todo' \in Seq(Item) /\ DOMAIN todo' = {} /\ DOMAIN todo = {1}
  <2>1. todo' \in Seq(Item) /\ Len(todo') = 0
    BY <1>1, <1>2, <1>3
  <2>2. DOMAIN todo' = 1..0
    BY <2>1, SeqParts
  <2> QED
    BY <1>2, <1>3, <2>1, <2>2
<1>7. /\ \A i : Leaving(i) <=> i.id = j.id
      /\ \A i : ~Leaving(i)'
  BY <1>2, <1>4, <1>6 DEF Leaving, Releases, Has
<1>8. \A i \in jobs : i \in jobs' <=> ~Leaving(i)
  BY <1>2, <1>5, <1>7 DEF JobsOK
<1>9. jobs' \subseteq jobs /\ Scans' \subseteq Scans /\ JobsOK(jobs')
  BY <1>2, <1>5, FS_Subset DEF JobsOK, Scans, JobsOf
<1>10. \A i \in Scans' : i \in Scans /\ ~Leaving(i)
  BY <1>8, <1>9 DEF Scans, JobsOf
<1>11. Bottom' /\ AbortsScan' /\ Shows'
  BY <1>6 DEF Bottom, AbortsScan, Shows
<1>12. ShowsLater'
  BY <1>1, <1>7, <1>10 DEF ShowsLater, Inv, Control
<1>13. Busy'
  BY <1>1, <1>2, <1>6, <1>7, <1>8 DEF Busy, Inv, Control
<1>14. Fresh' /\ Loaded'
  BY <1>1, <1>6, <1>9 DEF Fresh, Loaded, Inv, Control
<1>15. Types'
  <2>1. late' \in Nat
    BY <1>1 DEF Inv, Types, TypeOK
  <2> QED
    BY <1>1, <1>6, <1>9, <2>1 DEF Inv, Types, TypeOK, JobsOK, Noticed
<1> QED
  BY <1>11, <1>12, <1>13, <1>14, <1>15 DEF Inv, Control

\* A job whose address no other has is not about to be released.
LEMMA NewStays ==
  ASSUME Bottom, NEW x, \A i \in jobs : i.id # x.id
  PROVE  ~Leaving(x)
  BY DEF Bottom, Leaving, Releases

LEMMA ShowFilesKept ==
  ASSUME Inv, ShowFiles
  PROVE  Inv'
<1>0. PICK hit \in SUBSET {"scan"} :
        jobs' = NewJob(jobs, "scan", lv.path, hit) /\ Given(jobs', hit)
  BY DEF ShowFiles
<1>1. /\ Doing("show") /\ todo' = Tail(todo) /\ registered' = lv.path
      /\ lv' = [lv EXCEPT !.view_mode = IF lv.viewmode_postpone = NULL THEN @
                                        ELSE lv.viewmode_postpone]
      /\ jobs' = NewJob(jobs, "scan", lv.path, hit)
      /\ UNCHANGED <<closing, aborted, gone, loads, modes, fjobs, disk, fjob, notice>>
  BY <1>0 DEF ShowFiles, Unstarted
<1>2. /\ todo[1].op = "show" /\ 1 \in DOMAIN todo
      /\ DOMAIN todo = 1..Len(todo) /\ Len(todo) \in Nat /\ JobsOK(jobs) /\ DataOK(lv)
      /\ Tail(todo) \in Seq(Item)
  BY <1>1, DoingParts, InvParts DEF Inv
<1>3. /\ ~lv.showfiles /\ "scan" \notin lv.busy
      /\ \A k \in DOMAIN todo : todo[k].op = "show" => k = 1
      /\ \A j \in Scans : Leaving(j)
  BY <1>2 DEF Inv, Control, Shows
<1>4. lv.path \in Places
  BY <1>2, InvParts DEF Inv, Control, Loaded
<1>5. PICK x \in Job : /\ jobs' = jobs \cup {x} /\ JobsOK(jobs')
                       /\ x.kind = "scan" /\ x.place = lv.path /\ \A i \in jobs : i.id # x.id
  <2>1. \E x \in Job :
          /\ NewJob(jobs, "scan", lv.path, hit) = jobs \cup {x} /\ JobsOK(jobs \cup {x})
          /\ x.kind = "scan" /\ x.place = lv.path /\ x.at = "start"
          /\ \A i \in jobs : i.id # x.id
    <3> DEFINE z == NewestJob(jobs, "scan", lv.path, hit)
    <3>1. "scan" \in Kinds
      BY KindsIn
    <3>2. IsNew(jobs, "scan", lv.path, hit, z)
      BY <1>2, <1>4, <3>1, NewJobData
    <3> HIDE DEF z
    <3> QED
      BY <3>2 DEF IsNew
  <2> QED
    BY <1>1, <2>1
<1>6. /\ DataOK(lv') /\ lv'.path = lv.path /\ lv'.busy = lv.busy
      /\ lv'.showfiles = lv.showfiles /\ ScanEntries(lv') = ScanEntries(lv)
  <2> DEFINE m == IF lv.viewmode_postpone = NULL THEN lv.view_mode ELSE lv.viewmode_postpone
  <2>1. m \in Modes /\ lv' = [lv EXCEPT !.view_mode = m]
    BY <1>1, <1>2 DEF DataOK, Data
  <2> HIDE DEF m
  <2>2. /\ lv' \in Data /\ lv'.path = lv.path /\ lv'.busy = lv.busy
        /\ lv'.showfiles = lv.showfiles /\ lv'.alist = lv.alist /\ lv'.list = lv.list
        /\ lv'.newentry = lv.newentry /\ lv'.removed = lv.removed /\ lv'.rlist = lv.rlist
    BY <1>2, <2>1 DEF DataOK, Data
  <2> QED
    BY <1>2, <2>2 DEF DataOK, ScanEntries
<1>7. Shift(0, -1)
  BY <1>1, PopShift DEF Inv
<1>8. /\ \A i \in DOMAIN todo' : i + 1 \in DOMAIN todo /\ todo'[i] = todo[i + 1] /\ i + 1 # 1
      /\ \A i \in DOMAIN todo : i = 1 \/ (i - 1 \in DOMAIN todo' /\ todo'[i - 1] = todo[i])
      /\ Len(todo') = Len(todo) - 1
  <2>1. /\ Len(todo) \in Nat /\ Len(todo') = Len(todo) + (-1)
        /\ DOMAIN todo = 1..Len(todo) /\ DOMAIN todo' = 1..Len(todo')
    BY <1>7, ShiftParts DEF Inv
  <2>2. \A i \in DOMAIN todo' : todo'[i] = todo[i + 1]
    BY <1>1, <2>1, DoingParts DEF Inv
  <2> QED
    BY <2>1, <2>2
<1>9. /\ Has("release")' <=> Has("release")
      /\ \A j : Leaving(j)' <=> Leaving(j)
  BY <1>2, <1>7, ShiftReleases DEF Inv
<1>10. ~Leaving(x)
  BY <1>5, NewStays DEF Inv, Control
<1>11. Scans' = Scans \cup {x}
  BY <1>5 DEF Scans, JobsOf
<1>12. Bottom'
  BY <1>5, <1>7, ShiftBottom
<1>13. \A i \in DOMAIN todo' : todo'[i].op # "show" /\ ~EndsScan(i)'
  <2> SUFFICES ASSUME NEW i \in DOMAIN todo'
               PROVE  todo'[i].op # "show" /\ ~EndsScan(i)'
    OBVIOUS
  <2>1. i + 1 \in DOMAIN todo /\ todo'[i] = todo[i + 1] /\ i + 1 # 1
    BY <1>8
  <2>2. ~EndsScan(i + 1)
    BY <1>3, <2>1 DEF Inv, Control, AbortsScan
  <2> QED
    BY <1>3, <2>1, <2>2 DEF EndsScan
<1>14. AbortsScan' /\ Shows'
  BY <1>8, <1>9, <1>13 DEF AbortsScan, Shows, Inv, Control
<1>15. ShowsLater'
  <2>1. ASSUME NEW j \in Scans', Leaving(j)'
        PROVE  Len(todo') = 1
    <3>1. j \in Scans /\ Leaving(j)
      BY <1>9, <1>10, <1>11, <2>1
    <3>2. Len(todo) = 1 \/ (Len(todo) >= 2 /\ todo[Len(todo) - 1].op = "show")
      BY <3>1 DEF Inv, Control, ShowsLater
    <3>3. PICK r \in DOMAIN todo : todo[r].op = "release" /\ r = Len(todo)
      BY <3>1 DEF Leaving, Releases, Inv, Control, Bottom
    <3>4. Len(todo) # 1
      BY <1>2, <3>3
    <3>5. Len(todo) - 1 \in DOMAIN todo
      BY <1>2, <3>2, <3>4
    <3>6. Len(todo) - 1 = 1
      BY <1>3, <3>2, <3>4, <3>5
    <3> QED
      BY <1>8, <3>6
  <2>2. \A j \in Scans' : ~Leaving(j)' => j = x
    BY <1>3, <1>9, <1>11
  <2> QED
    BY <1>3, <1>6, <2>1, <2>2 DEF ShowsLater
<1>16. Busy'
  BY <1>2, <1>5, <1>6, <1>8, <1>9 DEF Busy, Inv, Control
<1>17. Fresh'
  BY <1>3, <1>5, <1>6, <1>11 DEF Fresh, Inv, Control
<1>18. Loaded'
  BY <1>4, <1>6, InvParts DEF Loaded, Inv
<1>19. Types'
  <2>1. late' \in Nat
    BY <1>0, GivenLeft DEF Kinds, Inv, Types, TypeOK
  <2> QED
    BY <1>1, <1>2, <1>4, <1>5, <1>6, <2>1 DEF Inv, Types, TypeOK, JobsOK, DataOK, Noticed
<1> QED
  BY <1>12, <1>14, <1>15, <1>16, <1>17, <1>18, <1>19 DEF Inv, Control

\* What MM_Thread_Finished does: either the list is cleared for a directory
\* to be shown, or the calls that were left go on.
Continues(kind, isabort, rest) ==
  /\ todo' = rest
  /\ ScanEntries(lv') \subseteq ScanEntries(lv)
  /\ lv.showfiles => lv'.showfiles
  /\ kind # "scan" => lv'.showfiles = lv.showfiles

ShowsNow(kind, rest) ==
  /\ todo' = <<[op |-> "dosnotify"], [op |-> "show"]>> \o rest
  /\ lv'.busy = {} /\ ~lv'.showfiles /\ lv'.alist = {}
  /\ kind # "all"
  /\ kind # "scan" => lv.showfiles

LEMMA FinishedParts ==
  ASSUME Types, NEW kind \in Kinds \cup {"all"}, NEW isabort \in BOOLEAN,
         NEW rest \in Seq(Item), Finished(kind, isabort, rest)
  PROVE  /\ Types' /\ Grown(jobs, jobs') /\ registered' = registered /\ lv'.path = lv.path
         /\ \A k \in lv'.busy : (k \in lv.busy /\ k # kind) \/ \E j \in jobs' \ jobs : j.kind = k
         /\ "scan" \in lv.busy /\ kind # "scan" => "scan" \in lv'.busy
         /\ Continues(kind, isabort, rest) \/ ShowsNow(kind, rest)
<1> DEFINE front == <<[op |-> "dosnotify"], [op |-> "show"]>>
           d(s) == [s[1] EXCEPT !.showfiles = FALSE]
<1>0. PICK hit \in SUBSET Kinds : \E s \in Switch(kind, isabort, hit) :
        /\ jobs' = s[2]
        /\ Given(s[2], hit)
        /\ IF MayShow(s[1], kind, isabort)
             THEN lv' = Clear(d(s)) /\ todo' = front \o rest /\ UNCHANGED aborted
             ELSE /\ lv' = s[1] /\ todo' = rest
                  /\ aborted' = (aborted \/ (isabort /\ (s[1].busy = {} \/ kind = "all")))
        /\ UNCHANGED <<registered, disk, fjob, notice, closing, gone, loads, modes, fjobs>>
  BY DEF Finished
<1>1. PICK s \in Switch(kind, isabort, hit) :
        /\ jobs' = s[2]
        /\ Given(s[2], hit)
        /\ IF MayShow(s[1], kind, isabort)
             THEN lv' = Clear(d(s)) /\ todo' = front \o rest /\ UNCHANGED aborted
             ELSE /\ lv' = s[1] /\ todo' = rest
                  /\ aborted' = (aborted \/ (isabort /\ (s[1].busy = {} \/ kind = "all")))
        /\ UNCHANGED <<registered, disk, fjob, notice, closing, gone, loads, modes, fjobs>>
  BY <1>0
<1>2. /\ DataOK(lv) /\ JobsOK(jobs)
  BY InvParts
<1>3. /\ After(lv, jobs, s[1], s[2], kind)
      /\ kind # "scan" => s[1].showfiles = lv.showfiles
  BY <1>2, SwitchAfter
<1>4. /\ DataOK(s[1]) /\ Grown(jobs, s[2])
      /\ s[1].path = lv.path /\ ScanEntries(s[1]) \subseteq ScanEntries(lv)
      /\ \A k \in s[1].busy : (k \in lv.busy /\ k # kind) \/ \E j \in s[2] \ jobs : j.kind = k
      /\ "scan" \in lv.busy /\ kind # "scan" => "scan" \in s[1].busy
      /\ lv.showfiles => s[1].showfiles
  BY <1>3 DEF After
<1>5. /\ aborted' \in BOOLEAN /\ JobsOK(jobs') /\ Grown(jobs, jobs')
      /\ late' \in Nat
  <2>1. late' \in Nat
    BY <1>1, GivenLeft DEF Types, TypeOK
  <2> QED
    BY <1>1, <1>4, <2>1 DEF Types, TypeOK, Grown
<1>6. front \in Seq(Item)
  BY ItemTypes
<1>7. ASSUME DataOK(lv'), todo' \in Seq(Item)
      PROVE  Types'
  BY <1>1, <1>5, <1>7 DEF Types, TypeOK, JobsOK, DataOK, Noticed
<1>8. CASE MayShow(s[1], kind, isabort)
  <2>1. lv' = Clear(d(s)) /\ todo' = front \o rest
    BY <1>1, <1>8
  <2>2. /\ DataOK(lv') /\ lv'.alist = {} /\ lv'.busy = s[1].busy /\ lv'.path = s[1].path
        /\ lv'.showfiles = FALSE
    BY <1>4, <2>1, ClearData
  <2>3. todo' \in Seq(Item)
    <3> HIDE DEF front
    <3> QED
      BY <1>6, <2>1, ConcatParts
  <2>4. s[1].busy = {} /\ s[1].showfiles /\ kind # "all"
    BY <1>8 DEF MayShow
  <2>5. ShowsNow(kind, rest)
    BY <1>3, <2>1, <2>2, <2>4 DEF ShowsNow
  <2> QED
    BY <1>1, <1>4, <1>5, <1>7, <2>2, <2>3, <2>5
<1>9. CASE ~MayShow(s[1], kind, isabort)
  <2>1. lv' = s[1] /\ todo' = rest
    BY <1>1, <1>9
  <2>2. Continues(kind, isabort, rest)
    BY <1>3, <1>4, <2>1 DEF Continues
  <2> QED
    BY <1>1, <1>4, <1>5, <1>7, <2>1, <2>2
<1> QED
  BY <1>8, <1>9

LEMMA GrownParts ==
  ASSUME Grown(jobs, jobs')
  PROVE  /\ Scans' = Scans /\ JobsOK(jobs') /\ jobs \subseteq jobs'
         /\ \A j \in jobs' \ jobs : \A i \in jobs : i.id # j.id
  BY DEF Grown, Scans, JobsOf

\* The calls after those of a show
LEMMA TwoShift ==
  ASSUME Types, NEW op, Doing(op),
         todo' = <<[op |-> "dosnotify"], [op |-> "show"]>> \o Tail(todo)
  PROVE  Shift(2, 1) /\ todo'[1].op = "dosnotify" /\ todo'[2].op = "show"
<1>1. /\ Tail(todo) \in Seq(Item) /\ Len(Tail(todo)) = Len(todo) - 1
      /\ \A i \in 1..(Len(todo) - 1) : Tail(todo)[i] = todo[i + 1]
      /\ Len(todo) >= 1 /\ Len(todo) \in Nat
  BY DoingParts, InvParts
<1> DEFINE t == Tail(todo)
           x == [op |-> "dosnotify"]
           y == [op |-> "show"]
           p == <<x, y>>
<1>2. x \in Item /\ y \in Item /\ x.op = "dosnotify" /\ y.op = "show"
  BY ItemTypes
<1>3. t \in Seq(Item) /\ todo' = p \o t
  BY <1>1
<1> HIDE DEF x, y
<1>4. p \in Seq(Item) /\ Len(p) = 2 /\ p[1] = x /\ p[2] = y
  BY <1>2
<1> HIDE DEF p, t
<1>5. /\ p \o t \in Seq(Item) /\ Len(p \o t) = Len(p) + Len(t)
      /\ \A i \in 1..Len(p) : (p \o t)[i] = p[i]
      /\ \A i \in (Len(p) + 1)..(Len(p) + Len(t)) : (p \o t)[i] = t[i - Len(p)]
  BY <1>3, <1>4, ConcatParts
<1>6. /\ todo' \in Seq(Item) /\ Len(todo') = 2 + Len(t)
      /\ todo'[1] = x /\ todo'[2] = y
      /\ \A i \in 3..(2 + Len(t)) : todo'[i] = t[i - 2]
  <2>1. \A i \in 1..2 : todo'[i] = p[i]
    BY <1>3, <1>4, <1>5
  <2>2. \A i \in (2 + 1)..(2 + Len(t)) : todo'[i] = t[i - 2]
    BY <1>3, <1>4, <1>5
  <2>3. todo' \in Seq(Item) /\ Len(todo') = 2 + Len(t)
    BY <1>3, <1>4, <1>5
  <2> QED
    BY <1>4, <2>1, <2>2, <2>3
<1>7. Len(t) = Len(todo) - 1 /\ \A i \in 1..(Len(todo) - 1) : t[i] = todo[i + 1]
  BY <1>1 DEF t
<1>8. ASSUME NEW i \in (2 + 1)..(Len(todo) + 1)
      PROVE  todo'[i] = todo[i - 1]
  <2>1. todo'[i] = t[i - 2] /\ i - 2 \in 1..(Len(todo) - 1)
    BY <1>1, <1>6, <1>7
  <2>2. t[i - 2] = todo[(i - 2) + 1]
    BY <1>7, <2>1
  <2> QED
    BY <1>1, <2>1, <2>2
<1> QED
  BY <1>1, <1>2, <1>6, <1>7, <1>8 DEF Shift

LEMMA AnswerKept ==
  ASSUME Inv, Answer
  PROVE  Inv'
<1> DEFINE kind == Head(todo).kind
<1>1. Doing("answer") /\ Finished(kind, TRUE, Tail(todo))
  BY DEF Answer
<1>2. /\ kind = todo[1].kind /\ todo[1].op = "answer" /\ 1 \in DOMAIN todo
      /\ kind \in Kinds \cup {"all"} /\ Tail(todo) \in Seq(Item)
      /\ DOMAIN todo = 1..Len(todo) /\ Len(todo) \in Nat
      /\ \A i \in 1..(Len(todo) - 1) : Tail(todo)[i] = todo[i + 1]
  BY <1>1, DoingParts, InvParts, ItemTypes DEF Inv
<1> HIDE DEF kind
<1>3. /\ Types' /\ Grown(jobs, jobs') /\ registered' = registered /\ lv'.path = lv.path
      /\ \A k \in lv'.busy : (k \in lv.busy /\ k # kind) \/ \E j \in jobs' \ jobs : j.kind = k
      /\ "scan" \in lv.busy /\ kind # "scan" => "scan" \in lv'.busy
      /\ Continues(kind, TRUE, Tail(todo)) \/ ShowsNow(kind, Tail(todo))
  BY <1>1, <1>2, FinishedParts DEF Inv
<1>4. /\ Scans' = Scans /\ jobs \subseteq jobs'
      /\ \A j \in jobs' \ jobs : j.kind # "scan" /\ ~Leaving(j)
  BY <1>3, GrownParts, NewStays DEF Grown, Inv, Control
<1>5. kind = "scan" => EndsScan(1) /\ Scans = {} /\ "scan" \in lv.busy
  BY <1>2 DEF EndsScan, Inv, Control, AbortsScan
<1>6. \A j \in Scans : Leaving(j) =>
        Len(todo) >= 2 /\ todo[Len(todo) - 1].op = "show" /\ Len(todo) - 1 \in DOMAIN todo
              /\ Len(todo) - 1 # 1
  <2> SUFFICES ASSUME NEW j \in Scans, Leaving(j)
               PROVE  Len(todo) >= 2 /\ todo[Len(todo) - 1].op = "show"
                      /\ Len(todo) - 1 \in DOMAIN todo /\ Len(todo) - 1 # 1
    OBVIOUS
  <2>1. Len(todo) = 1 \/ (Len(todo) >= 2 /\ todo[Len(todo) - 1].op = "show")
    BY DEF Inv, Control, ShowsLater
  <2>2. PICK r \in DOMAIN todo : todo[r].op = "release" /\ r = Len(todo)
    BY DEF Leaving, Releases, Inv, Control, Bottom
  <2>3. Len(todo) # 1
    BY <1>2, <2>2
  <2> QED
    BY <1>2, <2>1, <2>3
<1>7. \A i, j \in Scans : ~Leaving(i) /\ ~Leaving(j) => i = j
  BY DEF Inv, Control, ShowsLater
<1>8. "scan" \notin lv'.busy => "scan" \notin lv.busy \/ kind = "scan"
  BY <1>3
<1>9. "scan" \in lv'.busy => "scan" \in lv.busy /\ kind # "scan"
  BY <1>3, <1>4
<1>10. CASE Continues(kind, TRUE, Tail(todo))
  <2>1. /\ todo' = Tail(todo) /\ ScanEntries(lv') \subseteq ScanEntries(lv)
        /\ lv.showfiles => lv'.showfiles
        /\ kind # "scan" => lv'.showfiles = lv.showfiles
    BY <1>10 DEF Continues
  <2>2. Shift(0, -1)
    BY <1>1, <2>1, PopShift DEF Inv
  <2>3. /\ Len(todo') = Len(todo) - 1 /\ DOMAIN todo' = 1..(Len(todo) - 1)
        /\ \A i \in DOMAIN todo' : i + 1 \in DOMAIN todo /\ todo'[i] = todo[i + 1] /\ i + 1 # 1
        /\ \A i \in DOMAIN todo : i = 1 \/ (i - 1 \in DOMAIN todo' /\ todo'[i - 1] = todo[i])
    <3>1. Len(todo') = Len(todo) + (-1) /\ DOMAIN todo' = 1..Len(todo')
      BY <2>2, ShiftParts DEF Inv
    <3> QED
      BY <1>2, <2>1, <3>1
  <2>4. /\ Has("release")' <=> Has("release")
        /\ \A j : Leaving(j)' <=> Leaving(j)
    BY <1>2, <2>2, ShiftReleases DEF Inv
  <2>5. Bottom'
    BY <1>4, <2>2, ShiftBottom
  <2>6. \A i \in DOMAIN todo' : EndsScan(i)' => EndsScan(i + 1) /\ kind # "scan"
    BY <1>5, <1>2, <2>3 DEF EndsScan, Inv, Control, AbortsScan
  <2>7. AbortsScan'
    BY <1>3, <1>4, <2>3, <2>4, <2>6 DEF AbortsScan, Inv, Control
  <2>8. Shows'
    <3> SUFFICES ASSUME NEW i \in DOMAIN todo', todo'[i].op = "show"
                 PROVE  /\ ~lv'.showfiles /\ "scan" \notin lv'.busy
                        /\ \A k \in DOMAIN todo' : todo'[k].op = "show" => i = k
                        /\ \A j \in Scans' : Leaving(j)'
      BY DEF Shows
    <3>1. i + 1 \in DOMAIN todo /\ todo[i + 1].op = "show"
      BY <2>3
    <3>2. /\ ~lv.showfiles /\ "scan" \notin lv.busy
          /\ \A k \in DOMAIN todo : todo[k].op = "show" => i + 1 = k
          /\ \A j \in Scans : Leaving(j)
      BY <3>1 DEF Inv, Control, Shows
    <3>3. ~lv'.showfiles /\ "scan" \notin lv'.busy
      BY <1>5, <1>9, <2>1, <3>2
    <3>4. \A k \in DOMAIN todo' : todo'[k].op = "show" => i + 1 = k + 1
      BY <2>3, <3>2
    <3> QED
      BY <1>2, <1>4, <2>3, <2>4, <3>2, <3>3, <3>4
  <2>9. ShowsLater'
    <3>1. lv'.showfiles /\ "scan" \notin lv'.busy => \A j \in Scans' : Leaving(j)'
      BY <1>4, <1>5, <1>8, <2>1, <2>4 DEF Inv, Control, ShowsLater
    <3>2. ASSUME NEW j \in Scans', Leaving(j)'
          PROVE  \/ Len(todo') >= 2 /\ todo'[Len(todo') - 1].op = "show"
                 \/ Len(todo') = 1
      <4>1. /\ Len(todo) >= 2 /\ todo[Len(todo) - 1].op = "show"
            /\ Len(todo) - 1 \in DOMAIN todo /\ Len(todo) - 1 # 1
        BY <1>4, <1>6, <2>4, <3>2
      <4>2. todo'[(Len(todo) - 1) - 1] = todo[Len(todo) - 1]
        BY <2>3, <4>1
      <4> QED
        BY <1>2, <2>3, <4>1, <4>2
    <3> QED
      BY <1>4, <1>7, <2>4, <3>1, <3>2 DEF ShowsLater
  <2>10. Busy'
    <3> SUFFICES ASSUME NEW k \in lv'.busy
                 PROVE  \/ \E j \in jobs' : j.kind = k /\ ~Leaving(j)'
                        \/ \E i \in DOMAIN todo' :
                             todo'[i].op \in {"abort", "answer"} /\ todo'[i].kind = k
      BY DEF Busy
    <3>1. CASE \E j \in jobs' \ jobs : j.kind = k
      BY <1>4, <2>4, <3>1
    <3>2. CASE k \in lv.busy /\ k # kind
      <4>1. CASE \E j \in jobs : j.kind = k /\ ~Leaving(j)
        BY <1>4, <2>4, <4>1
      <4>2. ASSUME NEW i \in DOMAIN todo, todo[i].op \in {"abort", "answer"}, todo[i].kind = k
            PROVE  \E l \in DOMAIN todo' :
                     todo'[l].op \in {"abort", "answer"} /\ todo'[l].kind = k
        <5>1. i # 1
          BY <1>2, <3>2, <4>2
        <5>2. i - 1 \in DOMAIN todo' /\ todo'[i - 1] = todo[i]
          BY <2>3, <5>1
        <5> QED
          BY <4>2, <5>2
      <4> QED
        BY <3>2, <4>1, <4>2 DEF Inv, Control, Busy
    <3> QED
      BY <1>3, <3>1, <3>2
  <2>11. Fresh'
    BY <1>3, <1>4, <2>1 DEF Inv, Control, Fresh
  <2>12. Loaded'
    <3> SUFFICES ASSUME lv'.path = NULL
                 PROVE  /\ registered' = NULL /\ ~lv'.showfiles /\ Scans' = {}
                        /\ \A i \in DOMAIN todo' : todo'[i].op # "show" /\ ~EndsScan(i)'
      BY DEF Loaded
    <3>1. /\ registered = NULL /\ ~lv.showfiles /\ Scans = {}
          /\ \A i \in DOMAIN todo : todo[i].op # "show" /\ ~EndsScan(i)
      BY <1>3 DEF Inv, Control, Loaded
    <3>2. kind # "scan"
      BY <1>2, <1>5, <3>1
    <3>3. \A i \in DOMAIN todo' : todo'[i].op # "show" /\ ~EndsScan(i)'
      BY <2>3, <2>6, <3>1
    <3> QED
      BY <1>3, <1>4, <2>1, <3>1, <3>2, <3>3
  <2> QED
    BY <1>3, <2>5, <2>7, <2>8, <2>9, <2>10, <2>11, <2>12 DEF Inv, Control
<1>11. CASE ShowsNow(kind, Tail(todo))
  <2>1. /\ todo' = <<[op |-> "dosnotify"], [op |-> "show"]>> \o Tail(todo)
        /\ lv'.busy = {} /\ ~lv'.showfiles /\ lv'.alist = {}
        /\ kind # "all" /\ (kind # "scan" => lv.showfiles)
    BY <1>11 DEF ShowsNow
  <2>2. Shift(2, 1) /\ todo'[1].op = "dosnotify" /\ todo'[2].op = "show"
    BY <1>1, <2>1, TwoShift DEF Inv
  <2>3. /\ DOMAIN todo' = 1..Len(todo') /\ Len(todo') = Len(todo) + 1
        /\ \A i \in DOMAIN todo' :
             i = 1 \/ i = 2 \/ (i - 1 \in DOMAIN todo /\ i - 1 # 1 /\ todo'[i] = todo[i - 1])
    <3>1. /\ DOMAIN todo' = 1..Len(todo') /\ Len(todo') = Len(todo) + 1
          /\ \A i \in DOMAIN todo' :
               i <= 2 \/ (i > 2 /\ i - 1 \in DOMAIN todo /\ todo'[i] = todo[i - 1])
      BY <2>2, ShiftParts DEF Inv
    <3> QED
      BY <1>2, <3>1
  <2>4. /\ Has("release")' <=> Has("release")
        /\ \A j : Leaving(j)' <=> Leaving(j)
    <3>1. \A i \in 1..2 : todo'[i].op \notin {"report", "release"}
      <4>1. \A i \in 1..2 : i = 1 \/ i = 2
        OBVIOUS
      <4> QED
        BY <2>2, <4>1
    <3> QED
      BY <1>2, <2>2, <3>1, ShiftReleases DEF Inv
  <2>5. Bottom'
    <3>1. \A i \in 1..2 : todo'[i].op \notin {"report", "release"}
      <4>1. \A i \in 1..2 : i = 1 \/ i = 2
        OBVIOUS
      <4> QED
        BY <2>2, <4>1
    <3> QED
      BY <1>4, <2>2, <3>1, ShiftBottom
  <2>6. "scan" \notin lv.busy \/ kind = "scan"
    BY <1>8, <2>1
  <2>7. \A i \in DOMAIN todo : todo[i].op # "show"
    BY <1>5, <2>1, <2>6 DEF Inv, Control, Shows
  <2>8. Scans = {}
    <3>1. \A j \in Scans : ~Leaving(j)
      BY <1>6, <2>7
    <3> QED
      BY <1>5, <2>1, <2>6, <3>1 DEF Inv, Control, ShowsLater
  <2>9. \A i \in DOMAIN todo : i # 1 => ~EndsScan(i)
    BY <1>2, <1>5, <2>6 DEF Inv, Control, AbortsScan
  <2>10. \A i \in DOMAIN todo' : ~EndsScan(i)' /\ (todo'[i].op = "show" => i = 2)
    BY <2>2, <2>3, <2>7, <2>9 DEF EndsScan
  <2>11. AbortsScan'
    BY <2>2, <2>3, <2>4, <2>10 DEF AbortsScan, Inv, Control
  <2>12. Shows'
    BY <1>4, <2>1, <2>8, <2>10 DEF Shows
  <2>13. ShowsLater' /\ Busy'
    BY <1>4, <2>1, <2>8 DEF ShowsLater, Busy
  <2>14. Fresh'
    BY <1>4, <2>1, <2>8 DEF Fresh, ScanEntries
  <2>15. lv.path # NULL
    BY <1>2, <1>5, <2>1 DEF Inv, Control, Loaded
  <2> QED
    BY <1>3, <2>5, <2>11, <2>12, <2>13, <2>14, <2>15 DEF Inv, Control, Loaded
<1> QED
  BY <1>3, <1>10, <1>11

LEMMA SingleSeq ==
  ASSUME NEW S, NEW s \in Seq(S), Len(s) = 1
  PROVE  s = <<s[1]>>
<1>1. s \in [1..1 -> S]
  BY SeqParts
<1> QED
  BY <1>1

LEMMA ReportKept ==
  ASSUME Inv, Report
  PROVE  Inv'
<1> DEFINE h == Head(todo)
<1>1. /\ Doing("report")
      /\ Finished(JobById(h.job).kind, JobById(h.job).at = "aborted", Tail(todo))
  BY DEF Report
<1>2. /\ h = todo[1] /\ todo[1].op = "report" /\ 1 \in DOMAIN todo
      /\ Tail(todo) \in Seq(Item) /\ JobsOK(jobs)
      /\ DOMAIN todo = 1..Len(todo) /\ Len(todo) \in Nat
      /\ Len(Tail(todo)) = Len(todo) - 1
      /\ \A i \in 1..(Len(todo) - 1) : Tail(todo)[i] = todo[i + 1]
  BY <1>1, DoingParts, InvParts DEF Inv
<1>3. /\ 1 = Len(todo) - 1 /\ todo[1 + 1].op = "release" /\ todo[1 + 1].job = todo[1].job
      /\ \E j \in jobs : j.id = todo[1].job /\ j.at \in Ended
  BY <1>2 DEF Inv, Control, Bottom
<1>4. PICK j \in jobs : j.id = todo[1].job /\ j.at \in Ended
  BY <1>3
<1>5. Len(todo) = 2 /\ todo[2].op = "release" /\ todo[2].job = j.id /\ DOMAIN todo = {1, 2}
  <2>1. 1 + 1 = 2 /\ 1..2 = {1, 2}
    OBVIOUS
  <2>2. Len(todo) = 2
    <3> DEFINE l == Len(todo)
    <3>1. l \in Nat /\ 1 = l - 1
      BY <1>2, <1>3
    <3> HIDE DEF l
    <3>2. l = 2
      BY <3>1
    <3> QED
      BY <3>2 DEF l
  <2>3. todo[2].op = "release" /\ todo[2].job = j.id
    BY <1>3, <1>4, <2>1
  <2> QED
    BY <1>2, <2>1, <2>2, <2>3
<1>6. JobById(h.job) = j /\ j.kind \in Kinds
  BY <1>2, <1>4, JobByIdIs DEF JobsOK, Job
<1> DEFINE r == todo[2]
           isabort == j.at = "aborted"
<1>7. r \in Item /\ Tail(todo) = <<r>>
  <2>1. Len(Tail(todo)) = 1 /\ 1 \in 1..(Len(todo) - 1)
    BY <1>2, <1>5
  <2>2. Tail(todo)[1] = todo[1 + 1]
    BY <1>2, <2>1
  <2>3. r \in Item
    BY <1>2, <1>5, InvParts DEF Inv
  <2>4. Tail(todo) = <<Tail(todo)[1]>>
    BY <1>2, <2>1, SingleSeq
  <2> QED
    BY <2>2, <2>3, <2>4
<1> HIDE DEF h
<1>8. /\ Types' /\ Grown(jobs, jobs') /\ registered' = registered /\ lv'.path = lv.path
      /\ \A k \in lv'.busy : (k \in lv.busy /\ k # j.kind) \/ \E i \in jobs' \ jobs : i.kind = k
      /\ "scan" \in lv.busy /\ j.kind # "scan" => "scan" \in lv'.busy
      /\ Continues(j.kind, isabort, Tail(todo)) \/ ShowsNow(j.kind, Tail(todo))
  <2>1. isabort \in BOOLEAN /\ Finished(j.kind, isabort, Tail(todo))
    BY <1>1, <1>6
  <2> HIDE DEF isabort
  <2> QED
    BY <1>2, <1>6, <2>1, FinishedParts DEF Inv
<1>9. /\ Scans' = Scans /\ jobs \subseteq jobs' /\ JobsOK(jobs')
      /\ \A i \in jobs' \ jobs : i.kind # "scan" /\ i.id # j.id
  BY <1>8, GrownParts DEF Grown
\* Before, no scan is about to be released, and there is at most one.
<1>10. \A i : ~Leaving(i)
  BY <1>2 DEF Leaving, Has
<1>11. \A i, k \in Scans : i = k
  BY <1>10 DEF Inv, Control, ShowsLater
<1>12. \A i \in DOMAIN todo : ~EndsScan(i) /\ todo[i].op \notin {"show", "abort", "answer"}
  BY <1>2, <1>5 DEF EndsScan
<1>13. "scan" \notin lv'.busy => "scan" \notin lv.busy \/ j.kind = "scan"
  BY <1>8
<1>14. j.kind = "scan" => \A i \in Scans : i = j
  BY <1>11 DEF Scans, JobsOf
\* When the last mark goes, and the list is to be shown, the job that has
\* ended is the only scan there may be.
<1>15. (lv.showfiles \/ j.kind = "scan") /\ "scan" \notin lv'.busy =>
         \A i \in Scans : i = j
  BY <1>10, <1>13, <1>14 DEF Inv, Control, ShowsLater
<1>16. ASSUME NEW n \in {1, 3}, Len(todo') = n, DOMAIN todo' = 1..n,
              todo'[n] = r,
              n = 3 => todo'[1].op = "dosnotify" /\ todo'[2].op = "show"
                       /\ ~lv'.showfiles /\ lv'.busy = {} /\ \A i \in Scans : i = j,
              lv'.showfiles => lv.showfiles \/ j.kind = "scan",
              n = 1 => (lv.showfiles => lv'.showfiles)
                       /\ ScanEntries(lv') \subseteq ScanEntries(lv),
              n = 3 => ScanEntries(lv') = {} /\ lv.path # NULL,
              lv.path = NULL => ~lv'.showfiles
       PROVE  Control'
  <2>1. \A i \in DOMAIN todo' : i = n \/ (n = 3 /\ i \in {1, 2})
    BY <1>16
  <2>2. n \in DOMAIN todo' /\ todo'[n].op = "release" /\ todo'[n].job = j.id
    BY <1>5, <1>16
  <2>3. /\ \A i : Leaving(i)' <=> i.id = j.id
        /\ \A i \in DOMAIN todo' :
             todo'[i].op \notin {"abort", "answer", "report", "restart"} /\ ~EndsScan(i)'
    <3>1. \A i \in DOMAIN todo' : i # n => todo'[i].op \in {"dosnotify", "show"}
      BY <1>16, <2>1
    <3> QED
      BY <1>16, <2>2, <3>1 DEF Leaving, Releases, Has, EndsScan
  <2>4. Bottom'
    <3>1. \A i \in DOMAIN todo' : i # n => todo'[i].op \in {"dosnotify", "show"}
      BY <1>16, <2>1
    <3> QED
      BY <1>4, <1>9, <1>16, <2>2, <3>1 DEF Bottom
  <2>5. AbortsScan'
    BY <2>3 DEF AbortsScan
  <2>6. Shows'
    <3> SUFFICES ASSUME NEW i \in DOMAIN todo', todo'[i].op = "show"
                 PROVE  /\ ~lv'.showfiles /\ "scan" \notin lv'.busy
                        /\ \A k \in DOMAIN todo' : todo'[k].op = "show" => i = k
                        /\ \A k \in Scans' : Leaving(k)'
      BY DEF Shows
    <3>1. n = 3
      BY <2>1, <2>2
    <3>2. \A k \in DOMAIN todo' : todo'[k].op = "show" => k = 2
      BY <1>16, <2>1, <2>2, <3>1
    <3> QED
      BY <1>9, <1>16, <2>3, <3>1, <3>2
  <2>7. ShowsLater'
    <3>1. lv'.showfiles /\ "scan" \notin lv'.busy => \A i \in Scans' : Leaving(i)'
      BY <1>9, <1>15, <1>16, <2>3
    <3>2. Len(todo') = 1 \/ (Len(todo') >= 2 /\ todo'[Len(todo') - 1].op = "show")
      BY <1>16
    <3> QED
      BY <1>9, <1>11, <3>1, <3>2 DEF ShowsLater
  <2>8. Busy'
    <3> SUFFICES ASSUME NEW k \in lv'.busy
                 PROVE  \E i \in jobs' : i.kind = k /\ ~Leaving(i)'
      BY DEF Busy
    <3>1. CASE \E i \in jobs' \ jobs : i.kind = k
      BY <1>9, <2>3, <3>1
    <3>2. CASE k \in lv.busy /\ k # j.kind
      <4>1. PICK i \in jobs : i.kind = k
        BY <1>12, <3>2 DEF Inv, Control, Busy
      <4>2. i.id # j.id
        BY <1>2, <3>2, <4>1 DEF JobsOK
      <4> QED
        BY <1>9, <2>3, <4>1, <4>2
    <3> QED
      BY <1>8, <3>1, <3>2
  <2>9. Fresh'
    <3>1. CASE n = 1
      BY <1>8, <1>9, <1>16, <3>1 DEF Inv, Control, Fresh
    <3>2. CASE n = 3
      BY <1>4, <1>9, <1>16, <3>2 DEF Fresh
    <3> QED
      BY <3>1, <3>2
  <2>10. Loaded'
    <3> SUFFICES ASSUME lv'.path = NULL
                 PROVE  /\ registered' = NULL /\ ~lv'.showfiles /\ Scans' = {}
                        /\ \A i \in DOMAIN todo' : todo'[i].op # "show" /\ ~EndsScan(i)'
      BY DEF Loaded
    <3>1. registered = NULL /\ Scans = {} /\ n = 1
      BY <1>8, <1>16 DEF Inv, Control, Loaded
    <3> QED
      BY <1>8, <1>9, <1>16, <2>1, <2>2, <2>3, <3>1
  <2> QED
    BY <2>4, <2>5, <2>6, <2>7, <2>8, <2>9, <2>10 DEF Control
<1>17. CASE Continues(j.kind, isabort, Tail(todo))
  <2>1. /\ todo' = <<r>> /\ ScanEntries(lv') \subseteq ScanEntries(lv)
        /\ lv.showfiles => lv'.showfiles
        /\ j.kind # "scan" => lv'.showfiles = lv.showfiles
    BY <1>7, <1>17 DEF Continues
  <2>2. lv.path = NULL => j.kind # "scan" /\ ~lv.showfiles
    BY DEF Inv, Control, Loaded, Scans, JobsOf
  <2> HIDE DEF r
  <2>3. Len(todo') = 1 /\ DOMAIN todo' = 1..1 /\ todo'[1] = r
    BY <1>7, <2>1
  <2>4. Control'
    BY <1>16, <2>1, <2>2, <2>3
  <2> QED
    BY <1>8, <2>4 DEF Inv
<1>18. CASE ShowsNow(j.kind, Tail(todo))
  <2>1. /\ todo' = <<[op |-> "dosnotify"], [op |-> "show"]>> \o Tail(todo)
        /\ lv'.busy = {} /\ ~lv'.showfiles /\ lv'.alist = {}
        /\ j.kind # "scan" => lv.showfiles
    BY <1>18 DEF ShowsNow
  <2>2. Shift(2, 1) /\ todo'[1].op = "dosnotify" /\ todo'[2].op = "show"
    BY <1>1, <2>1, TwoShift DEF Inv
  <2>3. Len(todo') = 3 /\ DOMAIN todo' = 1..3 /\ todo'[3] = r
    <3>1. /\ Len(todo') = Len(todo) + 1 /\ DOMAIN todo' = 1..Len(todo')
          /\ \A i \in (2 + 1)..(Len(todo) + 1) : todo'[i] = todo[i - 1]
      BY <2>2, ShiftParts DEF Shift, Inv
    <3>2. 3 \in (2 + 1)..(Len(todo) + 1)
      BY <1>5
    <3>3. todo'[3] = todo[3 - 1]
      BY <3>1, <3>2
    <3> QED
      BY <1>5, <3>1, <3>3
  <2>4. \A i \in Scans : i = j
    BY <1>15, <2>1
  <2>5. lv.path # NULL
    BY <2>1 DEF Inv, Control, Loaded, Scans, JobsOf
  <2>6. ScanEntries(lv') = {}
    BY <2>1 DEF ScanEntries
  <2> HIDE DEF r
  <2>7. Control'
    BY <1>16, <2>1, <2>2, <2>3, <2>4, <2>5, <2>6
  <2> QED
    BY <1>8, <2>7 DEF Inv
<1> QED
  BY <1>8, <1>17, <1>18

-----------------------------------------------------------------------------
(* The specification.                                                      *)

LEMMA InvInit == Init => Inv
<1> SUFFICES ASSUME Init
             PROVE  Inv
  OBVIOUS
<1>1. /\ lv \in Data /\ DataOK(lv) /\ ~lv.showfiles /\ lv.path = NULL /\ lv.busy = {}
      /\ ScanEntries(lv) = {}
  BY ConstantsAssumption, FS_EmptySet DEF Init, Data, DataOK, ScanEntries
<1>2. jobs = {} /\ late \in Nat /\ todo = <<>> /\ todo \in Seq(Item) /\ DOMAIN todo = {} /\ registered = NULL
  BY DEF Init
<1>3. fjob \in [place : Places \cup {NULL}, steps : Seq(Step)] /\ fjob.steps = <<>>
      /\ notice = NULL
  BY DEF Init
<1>4. JobsOK(jobs) /\ Scans = {}
  BY <1>2, FS_EmptySet DEF JobsOK, Scans, JobsOf
<1>5. Types
  <2>1. /\ disk \in [Places -> SUBSET Names] /\ closing \in BOOLEAN /\ aborted \in BOOLEAN
        /\ gone \in BOOLEAN /\ loads \in 0..MaxLoads /\ modes \in 0..MaxModes
        /\ fjobs \in 0..MaxFileJobs
    <3>1. /\ disk = Contents /\ closing = FALSE /\ aborted = FALSE /\ gone = FALSE
          /\ loads = 0 /\ modes = 0 /\ fjobs = 0
      BY DEF Init
    <3>2. /\ Contents \in [Places -> SUBSET Names]
          /\ MaxLoads \in Nat /\ MaxModes \in Nat /\ MaxFileJobs \in Nat
      BY ConstantsAssumption
    <3>3. 0 \in 0..MaxLoads /\ 0 \in 0..MaxModes /\ 0 \in 0..MaxFileJobs
      BY <3>2
    <3> QED
      BY <3>1, <3>2, <3>3
  <2> QED
    BY <1>1, <1>2, <1>3, <1>4, <2>1 DEF Types, TypeOK, Noticed, DataOK
<1>6. Control
  BY <1>1, <1>2, <1>4 DEF Control, Bottom, AbortsScan, Shows, ShowsLater, Busy, Fresh, Loaded
<1> QED
  BY <1>5, <1>6 DEF Inv

LEMMA InvStep == Inv /\ [Next]_vars => Inv'
<1> SUFFICES ASSUME Inv, [Next]_vars
             PROVE  Inv'
  OBVIOUS
<1>1. CASE MainNext
  BY <1>1, ThreadsAbortKept, AnswerKept, ReportKept, ReleaseKept, NotifiedKept, ShowFilesKept,
     NotifyChangeKept, AbortedKept, AddFileKept, ThreadsHandleKept DEF MainNext
<1>2. CASE JobNext
  BY <1>2, JobKept
<1>3. CASE FileJobNext \/ FileJobStarts
  BY <1>3, FileJobKept
<1>4. CASE Close
  BY <1>4, CloseKept
<1>5. CASE \E p \in Places : LoadURI(p)
  BY <1>5, LoadKept
<1>6. CASE \E m \in Modes : SetMode(m)
  BY <1>6, SetModeKept
<1>7. CASE UNCHANGED vars
  BY <1>7, AbortedKept
<1> QED
  BY <1>1, <1>2, <1>3, <1>4, <1>5, <1>6, <1>7 DEF Next

\* The relations between the calls of the main task, its jobs and the marks
\* of the view hold throughout.
THEOREM InvHolds == Spec => []Inv
  BY InvInit, InvStep, PTL DEF Spec

\* The view, its jobs and the calls of the main task have their types, and the
\* flags of entries are of entries that are in memory (struct Data).
THEOREM TypeCorrect == Spec => []TypeOK
<1>1. Inv => TypeOK
  BY DEF Inv, Types
<1> QED
  BY <1>1, InvHolds, PTL

\* Between two events, a thread that is marked as busy is there
\* (MM_Listview_ShowFiles waits for all marks to go).
THEOREM BusyHaveJobs == Spec => []BusyHasJob
<1>1. Inv => BusyHasJob
  BY IdleParts DEF BusyHasJob, JobsOf
<1> QED
  BY <1>1, InvHolds, PTL

\* A directory is scanned once at a time, and none is cleared before the last
\* scan has ended (MM_Thread_Finished and MM_Listview_ShowFiles).
THEOREM ScansOnce == Spec => []OneScan
<1>1. Inv => OneScan
  <2> SUFFICES ASSUME Inv
               PROVE  OneScan
    OBVIOUS
  <2>1. DOMAIN todo = 1..Len(todo) /\ Len(todo) \in Nat /\ (todo = <<>> <=> Len(todo) = 0)
        /\ JobsOK(jobs)
    BY InvParts DEF Inv
  <2>2. \A i, j \in Scans : Leaving(i) /\ Leaving(j) => i = j
    <3> SUFFICES ASSUME NEW i \in Scans, NEW j \in Scans, Leaving(i), Leaving(j)
                 PROVE  i = j
      OBVIOUS
    <3>1. todo[Len(todo)].job = i.id /\ todo[Len(todo)].job = j.id
      BY DEF Leaving, Releases, Inv, Control, Bottom
    <3> QED
      BY <2>1, <3>1 DEF Scans, JobsOf, JobsOK
  <2>3. ASSUME NEW i \in Scans, NEW j \in Scans, i # j
        PROVE  Doing("release")
    <3>1. PICK k \in Scans : Leaving(k)
      BY <2>3 DEF Inv, Control, ShowsLater
    <3>2. PICK r \in DOMAIN todo : todo[r].op = "release" /\ r = Len(todo)
      BY <3>1 DEF Leaving, Releases, Inv, Control, Bottom
    <3>3. ASSUME todo[Len(todo) - 1].op = "show", Len(todo) >= 2
          PROVE  FALSE
      <4>1. Len(todo) - 1 \in DOMAIN todo
        BY <2>1, <3>3
      <4>2. \A l \in Scans : Leaving(l)
        BY <3>3, <4>1 DEF Inv, Control, Shows
      <4> QED
        BY <2>2, <2>3, <4>2
    <3>4. Len(todo) = 1
      BY <3>1, <3>3 DEF Inv, Control, ShowsLater
    <3> QED
      BY <2>1, <3>2, <3>4, InvParts DEF Doing, Inv
  <2>4. CASE Doing("release")
    BY <2>4 DEF OneScan, Doing
  <2>5. CASE ~Doing("release")
    <3>1. Cardinality(Scans) <= 1
      <4>1. CASE Scans = {}
        BY <4>1, FS_EmptySet
      <4>2. CASE Scans # {}
        <5>0. PICK j : j \in Scans
          BY <4>2
        <5>1. Scans = {j}
          BY <2>3, <2>5, <5>0
        <5>2. Cardinality({j}) = 1
          BY FS_Singleton
        <5> QED
          BY <5>1, <5>2
      <4> QED
        BY <4>1, <4>2
    <3>2. ASSUME Doing("show"), NEW j \in Scans
          PROVE  j.at \in Ended
      <4>1. 1 \in DOMAIN todo /\ todo[1].op = "show"
        BY <3>2, DoingParts DEF Inv
      <4>2. Leaving(j)
        BY <4>1 DEF Inv, Control, Shows
      <4>3. PICK i \in jobs : i.id = j.id /\ i.at \in Ended
        BY <4>2 DEF Leaving, Releases, Inv, Control, Bottom
      <4> QED
        BY <2>1, <4>3 DEF JobsOK, Scans, JobsOf
    <3> QED
      BY <3>1, <3>2 DEF OneScan, Scans, JobsOf, Ended
  <2> QED
    BY <2>4, <2>5
<1> QED
  BY <1>1, InvHolds, PTL

\* What scans have found is of the directory whose path the window has, unless
\* that is still to be shown (MM_Listview_AddFile makes entries with the path
\* of the window, whichever directory the job has read).
THEOREM ListsFresh == Spec => []ListFresh
<1>1. Inv => ListFresh
  BY DEF Inv, Control, Fresh, ListFresh, ScanEntries
<1> QED
  BY <1>1, InvHolds, PTL
=============================================================================
