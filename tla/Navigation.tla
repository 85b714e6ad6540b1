----------------------------- MODULE Navigation -----------------------------
(***************************************************************************)
(* The history of a drawer window: src/history.c, the methods of the       *)
(* toolbar that drive it (src/toolbarclass.c), and the window that loads   *)
(* what it is told to and reports where it is (src/windowclass.c).         *)
(*                                                                         *)
(* Loading is a job of a thread (TA_URI_Load). Until it ends, the window   *)
(* shows what it showed before, and the user goes on clicking. When it     *)
(* ends the window gets MA_Window_MIMEctx, or nothing when the place could *)
(* not be loaded or is shown by another window.                            *)
(*                                                                         *)
(* A place stands for the path and the view mode of a history node.        *)
(***************************************************************************)
EXTENDS Integers, SequencesExt

CONSTANTS
  Places,    \* the paths, each with its view mode
  MAX_NODES, \* nodes a history keeps
  CanFail,   \* TRUE: jobs may end without MA_Window_MIMEctx for the window
  MaxLoads   \* bound: jobs that load at the same time

ASSUME ConstantsAssumption ==
  /\ MAX_NODES \in Nat \ {0}
  /\ CanFail \in BOOLEAN
  /\ MaxLoads \in Nat

VARIABLES
  hist,      \* struct history
  viewing,   \* the place the view object shows (MA_View_Path)
  loads      \* the TA_URI_Load jobs under way, oldest first

vars == <<hist, viewing, loads>>

\* position counts from 0, list from 1.
History == [list: Seq(Places), position: Nat, size: Nat, lock: BOOLEAN]

\* by says who asked for the place: the history, or something else (the view,
\* the location string, a reload).
Load == [place: Places, by: {"history", "view"}]

TypeOK ==
  /\ hist \in History
  /\ viewing \in Places
  /\ loads \in Seq(Load)

\* The window has been created with a place, which is the first node.
Init ==
  /\ viewing \in Places
  /\ hist = [list |-> <<viewing>>, position |-> 0, size |-> 1, lock |-> FALSE]
  /\ loads = <<>>

-----------------------------------------------------------------------------
(* history.c                                                               *)

Current(h) == h.position + 1

\* Mutant of Truncate: one node too few goes.
TruncateOneLess(h) ==
  IF h.position + 2 < h.size
    THEN [h EXCEPT !.list = SubSeq(h.list, 1, Current(h) + 1),
                   !.size = Current(h) + 1]
    ELSE h

\* The nodes behind the current one are removed.
Truncate(h) ==
  [h EXCEPT !.list = SubSeq(h.list, 1, Current(h)), !.size = Current(h)]

\* Mutant of DropOldest: position is left alone.
DropNodeOnly(h) ==
  IF h.size = MAX_NODES
    THEN [h EXCEPT !.list = Tail(h.list), !.size = @ - 1]
    ELSE h

DropOldest(h) ==
  IF h.size = MAX_NODES
    THEN [h EXCEPT !.list = Tail(h.list), !.size = @ - 1, !.position = @ - 1]
    ELSE h

\* The new node goes behind the current one.
AppendNode(h, p) ==
  LET room == DropOldest([Truncate(h) EXCEPT !.position = @ + 1])
  IN  [room EXCEPT !.list = Append(room.list, p), !.size = @ + 1]

\* Mutant of AddNode: compares with the current node, not the one before.
AddNodeOffByOne(h, p) ==
  IF h.list[Current(h)] = p
    THEN [h EXCEPT !.position = @ - 1]
    ELSE AppendNode(h, p)

\* history_addnode. A new node equal to a neighbour of the current one takes
\* its place. At the last node the neighbour compared with is the end of the
\* list, whose path is read from the lock, which is 0: it is never equal.
AddNode(h, p) ==
  IF h.position > 0 /\ h.list[h.position] = p
    THEN [h EXCEPT !.position = @ - 1]
    ELSE IF h.position < h.size - 1 /\ h.list[h.position + 2] = p
           THEN [h EXCEPT !.position = @ + 1]
           ELSE AppendNode(h, p)

-----------------------------------------------------------------------------
(* toolbarclass.c                                                          *)

\* MM_Toolbar_HistoryUpdateURI, called by MM_Window_UpdateURI
UpdateURI(h, p) == [h EXCEPT !.list[Current(h)] = p]

\* MM_Toolbar_HistoryAddURI
AddURI(h, p) ==
  [IF h.lock THEN h ELSE AddNode(h, p) EXCEPT !.lock = FALSE]

\* MM_Window_LoadURI: the command ends up in do_action(TA_URI_Load).
LoadURI(p, by) ==
  /\ Len(loads) < MaxLoads
  /\ loads' = Append(loads, [place |-> p, by |-> by])

Steps == (-MAX_NODES..MAX_NODES) \ {0}

\* The new position of MM_Toolbar_HistoryMove
Target(h, steps) ==
  IF steps < 0
    THEN IF h.position + steps < 0 THEN 0 ELSE h.position + steps
    ELSE IF h.position + steps > h.size - 1 THEN h.size - 1 ELSE h.position + steps

\* MM_Toolbar_HistoryMove: the buttons (1 and -1) and the history menu.
Move(steps) ==
  LET updated == UpdateURI(hist, viewing)
      to == Target(hist, steps)
  IN  /\ to # hist.position
      /\ hist' = [updated EXCEPT !.position = to, !.lock = TRUE]
      /\ LoadURI(updated.list[to + 1], "history")
      /\ UNCHANGED viewing

\* MM_Toolbar_NewPath: a button of the click path.
NewPath(p) ==
  /\ hist' = [UpdateURI(hist, p) EXCEPT !.lock = TRUE]
  /\ LoadURI(p, "history")
  /\ UNCHANGED viewing

-----------------------------------------------------------------------------
(* windowclass.c                                                           *)

\* The view, the location string and MM_Window_Reload (viewing again) load a
\* place without asking the history.
Open(p) ==
  /\ LoadURI(p, "view")
  /\ UNCHANGED <<hist, viewing>>

\* Mutant of Shown: no second update of the node.
ShownUpdatedOnce(p) == AddURI(UpdateURI(hist, viewing), p)

\* MA_Window_MIMEctx: the node is updated with the place the window is about
\* to leave, and again with the one it has gone to.
Shown(p) == UpdateURI(AddURI(UpdateURI(hist, viewing), p), p)

Loaded(i) ==
  /\ hist' = Shown(loads[i].place)
  /\ viewing' = loads[i].place
  /\ loads' = RemoveAt(loads, i)

\* MM_Thread_Finished does not find the place, or the window.
LoadFails(i) ==
  /\ CanFail
  /\ loads' = RemoveAt(loads, i)
  /\ UNCHANGED <<hist, viewing>>

Next ==
  \/ \E p \in Places : Open(p) \/ NewPath(p)
  \/ \E steps \in Steps : Move(steps)
  \/ \E i \in DOMAIN loads : Loaded(i) \/ LoadFails(i)

Spec == Init /\ [][Next]_vars

-----------------------------------------------------------------------------
(* Properties.                                                             *)

\* size and position, which history.c keeps apart from the list, describe it:
\* the current node exists whatever the user does and however jobs end, and
\* the limit of MAX_NODES is kept.
HistoryShape ==
  /\ hist.size = Len(hist.list)
  /\ hist.position < hist.size
  /\ hist.size <= MAX_NODES

\* Unless the history is locked the current node is the place the window
\* shows, while other places are being loaded, too, and when jobs have ended
\* in another order than they were asked for, or failed. (Locked, it may be a
\* place the window never went to: only AddURI takes the lock back, and a job
\* that fails does not call it.)
ShowsCurrent == ~hist.lock => hist.list[Current(hist)] = viewing

\* "lock history for the time of loading new URI" (MM_Toolbar_HistoryMove): it
\* is locked only while a job is loading. (The code keeps neither this nor the
\* next property; see README.md.)
LockedWhileLoading == hist.lock => loads # <<>>

\* "lock history for the time of loading new URI to not create new node"
\* (MM_Toolbar_NewPath): a place the history loads does not make a new node,
\* nor drop one.
HistoryAddsNothing ==
  [][\A i \in DOMAIN loads :
       loads[i].by = "history" /\ Loaded(i) => hist'.size = hist.size]_vars

\* The trails behind and ahead, when the window goes where it is told one
\* place at a time.
Trails == INSTANCE Browsing WITH
  behind <- SubSeq(hist.list, 1, hist.position),
  here <- hist.list[Current(hist)],
  ahead <- SubSeq(hist.list, Current(hist) + 1, Len(hist.list))

BrowsingSpec == Trails!Spec
=============================================================================
