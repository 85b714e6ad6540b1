--------------------------- MODULE AppIconsProofs ---------------------------
(***************************************************************************)
(* AppIcons never frees the memory of an entry somebody still uses, for    *)
(* any number of programs and whatever goes wrong.                         *)
(*                                                                         *)
(* MemoryKept is not inductive. Inv adds what the flags mean: who may use  *)
(* an entry in which state of its flags, so that the two places that free  *)
(* one (RemoveAppIcon and appicon_synchronize) find nobody using it.       *)
(***************************************************************************)
EXTENDS AppIcons, TLAPS

\* The shape of the state the invariant speaks of.
Shape ==
  /\ appicon_list \subseteq Icons
  /\ newentry \in [Icons -> BOOLEAN]
  /\ loadedentry \in [Icons -> BOOLEAN]
  /\ pool \in [Icons -> {"none", "live", "freed"}]
  /\ apc \in [Icons -> APC]
  /\ job \in [Icons -> Job]
  /\ mpc = "nested" <=> creating # NULL
  /\ creating \in Icons \cup {NULL}

\* A listed entry has its memory.
ListedLive == \A i \in Icons : i \in appicon_list => pool[i] = "live"

\* Nothing has been done yet for an icon its program has not added.
NotYet ==
  \A i \in Icons :
    apc[i] = "none" => i \notin appicon_list /\ job[i] = "none" /\ ~loadedentry[i]

\* The thread that reads an icon file works for a listed entry Ambient has
\* seen and not marked as loaded.
ReaderListed ==
  \A i \in Icons :
    Reading(i) => i \in appicon_list /\ ~newentry[i] /\ ~loadedentry[i]

\* Only icons with a file have a thread.
ReadersOwn == \A i \in Icons : job[i] # "none" => i \in Own

\* appicon_create works for a listed entry that is not new any more and has
\* no file.
CreatingListed ==
  \A i \in Icons :
    creating = i => i \in appicon_list /\ ~newentry[i] /\ i \notin Own

\* An icon on the desktop has its entry, and Ambient has seen it.
ViewListed ==
  \A i \in Icons : i \in view => i \in appicon_list /\ ~newentry[i]

\* A new entry has not been given to a thread, nor marked as loaded.
NewUntouched ==
  \A i \in appicon_list : newentry[i] => job[i] = "none" /\ ~loadedentry[i]

Inv ==
  Shape /\ ListedLive /\ NotYet /\ ReaderListed /\ ReadersOwn
  /\ CreatingListed /\ ViewListed /\ NewUntouched

\* The actions that touch neither the entries nor who uses them.
LEMMA Untouched ==
  ASSUME Inv,
         UNCHANGED <<appicon_list, flags, pool, job, view, creating>>,
         mpc' = "nested" <=> mpc = "nested",
         apc' \in [Icons -> APC],
         \A i \in Icons : apc'[i] = "none" => apc[i] = "none"
  PROVE  Inv'
BY DEF Inv, Shape, ListedLive, NotYet, ReaderListed, ReadersOwn, CreatingListed,
       ViewListed, NewUntouched, Reading, flags

\* appicon_synchronize frees entries no thread reads and no icon shows.
LEMMA SynchronizeKeepsInv ==
  ASSUME Inv, mpc \in {"idle", "marked"}, Synchronize,
         UNCHANGED <<flags, apc, creating, job>>
  PROVE  Inv'
<1>1. creating = NULL
  BY DEF Inv, Shape
<1>2. /\ appicon_list' = appicon_list \ Removable
      /\ view' = view \ Removable
      /\ pool' = [i \in Icons |-> IF i \in Removable THEN "freed" ELSE pool[i]]
      /\ mpc' = "sync"
  BY DEF Synchronize
<1>3. \A i \in Removable : ~Reading(i)
  BY DEF Removable, Inv, ReaderListed, Shape
<1>4. UNCHANGED <<newentry, loadedentry, apc, creating, job>>
  BY DEF flags
<1>5. Shape' /\ ListedLive' /\ NotYet'
  BY <1>1, <1>2, <1>4 DEF Inv, Shape, ListedLive, NotYet
<1>6. ReaderListed' /\ ReadersOwn' /\ NewUntouched'
  BY <1>2, <1>3, <1>4 DEF Inv, ReaderListed, ReadersOwn, NewUntouched, Reading
<1>7. CreatingListed' /\ ViewListed'
  BY <1>1, <1>2, <1>4, ConstantsAssumption DEF Inv, CreatingListed, ViewListed
<1> QED
  BY <1>5, <1>6, <1>7 DEF Inv

LEMMA StepKeepsInv ==
  ASSUME Inv, [Next]_vars
  PROVE  Inv'
<1> USE DEF Inv, Shape, ListedLive, NotYet, ReaderListed, ReadersOwn,
            CreatingListed, ViewListed, NewUntouched, Reading, flags, messages, Step, APC, Job
<1>1. ASSUME NEW i \in Icons, AddLink(i)
      PROVE  Inv'
  <2>1. /\ apc[i] = "none"
        /\ apc' = [apc EXCEPT ![i] = "linked"]
        /\ pool' = [pool EXCEPT ![i] = "live"]
        /\ UNCHANGED <<loadedentry, mpc, creating, view, job>>
    BY <1>1 DEF AddLink
  <2>2. CASE /\ appicon_list' = appicon_list \cup {i}
             /\ newentry' = [newentry EXCEPT ![i] = TRUE]
    <3>1. /\ i \notin appicon_list /\ ~loadedentry[i] /\ job[i] = "none"
          /\ creating # i /\ i \notin view
      BY <2>1
    <3> QED
      BY <2>1, <2>2, <3>1
  <2>3. CASE UNCHANGED <<appicon_list, newentry>>
    BY <2>1, <2>3
  <2> QED
    BY <1>1, <2>2, <2>3 DEF AddLink
<1>2. ASSUME NEW i \in Icons, AddSignal(i)
      PROVE  Inv'
  BY <1>2, Untouched DEF AddSignal
<1>3. ASSUME NEW i \in Icons, RemoveUnlink(i)
      PROVE  Inv'
  BY <1>3, ConstantsAssumption DEF RemoveUnlink, Unlink, Free, Running
<1>4. ASSUME NEW i \in Icons, RemoveSignal(i)
      PROVE  Inv'
  BY <1>4, Untouched DEF RemoveSignal
<1>5. ASSUME NEW i \in Icons, RemoveLate(i)
      PROVE  Inv'
  BY <1>5, Untouched DEF RemoveLate
<1>6. ASSUME NEW i \in Icons, Serve(i)
      PROVE  Inv'
  BY <1>6, Untouched DEF Serve
<1>7. ASSUME NEW i \in Icons, ClosePort(i)
      PROVE  Inv'
  BY <1>7, Untouched DEF ClosePort
<1>8. ASSUME NEW i \in Icons, CreateAsync(i)
      PROVE  Inv'
  <2>1. CASE job' = [job EXCEPT ![i] = "queued"] /\ UNCHANGED loadedentry
    <3>1. /\ UNCHANGED <<appicon_list, pool, apc, mpc, creating, view, loadedentry>>
          /\ newentry' = [newentry EXCEPT ![i] = FALSE]
          /\ i \in appicon_list \cap Own
      BY <1>8, <2>1 DEF CreateAsync
    <3>2. newentry[i] /\ apc[i] # "none" /\ ~loadedentry[i]
      BY <1>8, <3>1 DEF CreateAsync
    <3> QED
      BY <2>1, <3>1, <3>2
  <2>2. CASE loadedentry' = [loadedentry EXCEPT ![i] = TRUE] /\ UNCHANGED job
    BY <1>8, <2>2 DEF CreateAsync
  <2> QED
    BY <1>8, <2>1, <2>2 DEF CreateAsync
<1>9. ASSUME NEW i \in Icons, CreateStarts(i)
      PROVE  Inv'
  BY <1>9, ConstantsAssumption DEF CreateStarts
<1>10. ASSUME NEW i \in Icons, ReadFinished(i)
      PROVE  Inv'
  BY <1>10, ConstantsAssumption DEF ReadFinished
<1>11. ASSUME NEW i \in Icons, ReadAborted(i)
      PROVE  Inv'
  BY <1>11, ConstantsAssumption DEF ReadAborted
<1>12. ASSUME NEW i \in Icons, ReadFailed(i)
      PROVE  Inv'
  BY <1>12, ConstantsAssumption DEF ReadFailed
<1>13. ASSUME NEW i \in Icons, ReadIcon(i)
      PROVE  Inv'
  BY <1>13, ConstantsAssumption DEF ReadIcon
<1>14. ASSUME NEW i \in Icons, SetAttrs(i)
      PROVE  Inv'
  BY <1>14, ConstantsAssumption DEF SetAttrs
<1>15. ASSUME NEW i \in Icons, SendAppMessage(i)
      PROVE  Inv'
  BY <1>15, Untouched DEF SendAppMessage
<1>16. ASSUME NEW i \in Icons, Click(i)
      PROVE  Inv'
  BY <1>16, Untouched DEF Click
<1>17. CASE IpcHandle
  BY <1>17, SynchronizeKeepsInv DEF IpcHandle
<1>18. CASE CreateEnds
  BY <1>18, ConstantsAssumption DEF CreateEnds
<1>19. CASE SynchronizeEnds
  BY <1>19, Untouched DEF SynchronizeEnds
<1>20. CASE MarkedSynchronize
  BY <1>20, SynchronizeKeepsInv DEF MarkedSynchronize
<1>21. CASE Quit
  BY <1>21, ConstantsAssumption DEF Quit
<1>22. CASE UNCHANGED vars
  BY <1>22, Untouched DEF vars
<1> QED
  BY <1>1, <1>2, <1>3, <1>4, <1>5, <1>6, <1>7, <1>8, <1>9, <1>10, <1>11, <1>12, <1>13, <1>14, <1>15, <1>16, <1>17, <1>18, <1>19, <1>20, <1>21, <1>22
     DEF Next, MainNext, ProgramNext, ThreadNext

\* An entry's memory is there as long as anybody uses it.
THEOREM MemorySafe == Spec => []MemoryKept
<1>1. Init => Inv
  BY ConstantsAssumption DEF Init, Inv, Shape, ListedLive, NotYet, ReaderListed, ReadersOwn,
         CreatingListed, ViewListed, NewUntouched, Reading, APC, Job
<1>2. Inv /\ [Next]_vars => Inv'
  BY StepKeepsInv
<1>3. Inv => MemoryKept
  BY DEF Inv, ListedLive, ReaderListed, CreatingListed, ViewListed, MemoryKept
<1> QED
  BY <1>1, <1>2, <1>3, PTL DEF Spec

-----------------------------------------------------------------------------
(* Nothing is overlooked: what Ambient still has to do for an entry is      *)
(* announced by a signal that is pending or about to come, or the main task *)
(* is on its way to the loop that does it.                                  *)

\* A program removes an entry only after Ambient has seen it, and not while
\* its icon is being created.
NotYetRemoved ==
  \A i \in Icons :
    apc[i] = "none" \/ newentry[i] \/ creating = i => ~removedentry[i]

\* A new entry waits for its signal, or for the second loop.
NewAnnounced ==
  \A i \in appicon_list :
    newentry[i] => apc[i] = "linked" \/ ipcsig \/ mpc \in {"sync", "nested"}

\* An entry that may go waits for its signal, or for the first loop.
RemovalAnnounced ==
  \A i \in appicon_list :
    removedentry[i] /\ loadedentry[i] => apc[i] = "unlinked" \/ ipcsig \/ mpc = "marked"

Announced ==
  TypeOK /\ (mpc = "nested" <=> creating # NULL)
  /\ NotYetRemoved /\ NewAnnounced /\ RemovalAnnounced

\* The first loop leaves no entry that may go.
LEMMA SynchronizeAnnounced ==
  ASSUME Announced, mpc \in {"idle", "marked"}, Synchronize, ipcsig' \in BOOLEAN,
         UNCHANGED <<flags, apc, creating, job, messages>>
  PROVE  Announced'
<1>1. /\ appicon_list' = appicon_list \ Removable
      /\ view' = view \ Removable
      /\ pool' = [i \in Icons |-> IF i \in Removable THEN "freed" ELSE pool[i]]
      /\ mpc' = "sync"
  BY DEF Synchronize
<1>2. UNCHANGED <<newentry, removedentry, loadedentry, apc, creating, job,
                  sending, inport, strays, clicks>>
  BY DEF flags, messages
<1>3. TypeOK'
  BY <1>1, <1>2 DEF Announced, TypeOK, MPC
<1>4. mpc' # "nested" /\ creating' = NULL
  BY <1>1, <1>2 DEF Announced
<1>5. NotYetRemoved' /\ NewAnnounced'
  BY <1>1, <1>2 DEF Announced, NotYetRemoved, NewAnnounced
<1>6. RemovalAnnounced'
  BY <1>1, <1>2 DEF Removable, RemovalAnnounced
<1> QED
  BY <1>3, <1>4, <1>5, <1>6 DEF Announced

LEMMA StepAnnounced ==
  ASSUME Announced, [Next]_vars
  PROVE  Announced'
<1> USE ConstantsAssumption
    DEF Announced, TypeOK, NotYetRemoved, NewAnnounced, RemovalAnnounced, flags, messages,
        Step, APC, MPC, Job
<1>1. ASSUME NEW i \in Icons, AddLink(i)
      PROVE  Announced'
  <2>1. /\ apc' = [apc EXCEPT ![i] = "linked"]
        /\ pool' = [pool EXCEPT ![i] = "live"]
        /\ UNCHANGED <<removedentry, loadedentry, ipcsig, mpc, creating, view, job,
                       sending, inport, strays, clicks>>
        /\ apc[i] = "none" /\ mpc \notin {"sync", "nested"}
    BY <1>1 DEF AddLink, Free
  <2>2. CASE /\ appicon_list' = appicon_list \cup {i}
             /\ newentry' = [newentry EXCEPT ![i] = TRUE]
    <3>1. TypeOK'
      BY <2>1, <2>2
    <3>2. ~removedentry[i]
      BY <2>1
    <3>3. NotYetRemoved' /\ NewAnnounced' /\ RemovalAnnounced'
      BY <2>1, <2>2, <3>2
    <3> QED
      BY <2>1, <3>1, <3>3
  <2>3. CASE UNCHANGED <<appicon_list, newentry>>
    BY <2>1, <2>3
  <2> QED
    BY <1>1, <2>2, <2>3 DEF AddLink
<1>2. ASSUME NEW i \in Icons, AddSignal(i)
      PROVE  Announced'
  BY <1>2 DEF AddSignal
<1>3. ASSUME NEW i \in Icons, RemoveUnlink(i)
      PROVE  Announced'
  BY <1>3 DEF RemoveUnlink, Unlink, Free
<1>4. ASSUME NEW i \in Icons, RemoveSignal(i)
      PROVE  Announced'
  BY <1>4 DEF RemoveSignal
<1>5. ASSUME NEW i \in Icons, RemoveLate(i)
      PROVE  Announced'
  BY <1>5 DEF RemoveLate
<1>6. ASSUME NEW i \in Icons, Serve(i)
      PROVE  Announced'
  BY <1>6 DEF Serve
<1>7. ASSUME NEW i \in Icons, ClosePort(i)
      PROVE  Announced'
  BY <1>7 DEF ClosePort
<1>8. ASSUME NEW i \in Icons, CreateAsync(i)
      PROVE  Announced'
  <2>1. /\ newentry' = [newentry EXCEPT ![i] = FALSE]
        /\ i \in Icons /\ newentry[i]
        /\ UNCHANGED <<appicon_list, removedentry, pool, apc, ipcsig, mpc, creating,
                       view, sending, inport, strays, clicks>>
    BY <1>8 DEF CreateAsync
  <2>2. CASE job' = [job EXCEPT ![i] = "queued"] /\ UNCHANGED loadedentry
    BY <2>1, <2>2
  <2>3. CASE loadedentry' = [loadedentry EXCEPT ![i] = TRUE] /\ UNCHANGED job
    <3>1. ~removedentry[i]
      BY <2>1
    <3> QED
      BY <2>1, <2>3, <3>1
  <2> QED
    BY <1>8, <2>2, <2>3 DEF CreateAsync
<1>9. ASSUME NEW i \in Icons, CreateStarts(i)
      PROVE  Announced'
  BY <1>9 DEF CreateStarts
<1>10. ASSUME NEW i \in Icons, ReadFinished(i)
       PROVE  Announced'
  BY <1>10 DEF ReadFinished
<1>11. ASSUME NEW i \in Icons, ReadAborted(i)
       PROVE  Announced'
  BY <1>11 DEF ReadAborted
<1>12. ASSUME NEW i \in Icons, ReadFailed(i)
       PROVE  Announced'
  BY <1>12 DEF ReadFailed
<1>13. ASSUME NEW i \in Icons, ReadIcon(i)
       PROVE  Announced'
  BY <1>13 DEF ReadIcon
<1>14. ASSUME NEW i \in Icons, SetAttrs(i)
       PROVE  Announced'
  BY <1>14 DEF SetAttrs
<1>15. ASSUME NEW i \in Icons, SendAppMessage(i)
       PROVE  Announced'
  BY <1>15 DEF SendAppMessage
<1>16. ASSUME NEW i \in Icons, Click(i)
       PROVE  Announced'
  BY <1>16 DEF Click
<1>17. CASE IpcHandle
  BY <1>17, SynchronizeAnnounced DEF IpcHandle
<1>18. CASE CreateEnds
  BY <1>18 DEF CreateEnds
<1>19. CASE SynchronizeEnds
  BY <1>19 DEF SynchronizeEnds
<1>20. CASE MarkedSynchronize
  BY <1>20, SynchronizeAnnounced DEF MarkedSynchronize
<1>21. CASE Quit
  BY <1>21 DEF Quit
<1>22. CASE UNCHANGED vars
  BY <1>22 DEF vars
<1> QED
  BY <1>1, <1>2, <1>3, <1>4, <1>5, <1>6, <1>7, <1>8, <1>9, <1>10, <1>11, <1>12, <1>13, <1>14, <1>15, <1>16, <1>17, <1>18, <1>19, <1>20, <1>21, <1>22
     DEF Next, MainNext, ProgramNext, ThreadNext

LEMMA AlwaysAnnounced == Spec => []Announced
<1>1. Init => Announced
  <2>1. 0 \in Nat /\ 0 \in 0..MaxClicks
    BY ConstantsAssumption
  <2>2. Init => /\ sending \in [Icons -> Nat] /\ inport \in [Icons -> Nat]
                /\ strays \in [Icons -> Nat] /\ clicks \in [Icons -> 0..MaxClicks]
    BY <2>1 DEF Init
  <2>3. Init => /\ newentry \in [Icons -> BOOLEAN] /\ removedentry \in [Icons -> BOOLEAN]
                /\ loadedentry \in [Icons -> BOOLEAN]
                /\ pool \in [Icons -> {"none", "live", "freed"}]
                /\ apc \in [Icons -> APC] /\ job \in [Icons -> Job]
    BY DEF Init, APC, Job
  <2>4. Init => TypeOK
    BY <2>2, <2>3 DEF Init, TypeOK, MPC
  <2> QED
    BY <2>4, ConstantsAssumption
       DEF Init, Announced, NotYetRemoved, NewAnnounced, RemovalAnnounced
<1>2. Announced /\ [Next]_vars => Announced'
  BY StepAnnounced
<1> QED
  BY <1>1, <1>2, PTL DEF Spec

\* The type invariant.
THEOREM TypeCorrect == Spec => []TypeOK
<1>1. Announced => TypeOK
  BY DEF Announced
<1> QED
  BY <1>1, AlwaysAnnounced, PTL

\* A main task that sleeps with no signal pending owes nothing to any entry.
THEOREM OverlooksNothing == Spec => []NothingOverlooked
<1>1. Announced => NothingOverlooked
  BY DEF Announced, NewAnnounced, RemovalAnnounced, NothingOverlooked
<1> QED
  BY <1>1, AlwaysAnnounced, PTL
=============================================================================
