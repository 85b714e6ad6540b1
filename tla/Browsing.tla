------------------------------ MODULE Browsing ------------------------------
(***************************************************************************)
(* What the history of a drawer window promises to the user who browses:   *)
(* a trail of places behind the one shown and a trail of places ahead of   *)
(* it. Going somewhere moves the place shown to the trail behind and drops *)
(* the trail ahead, unless the place is the next one of either trail; the  *)
(* buttons "Previous in history." and "Next in history." walk the trails.  *)
(* Navigation implements this module.                                      *)
(***************************************************************************)
EXTENDS Sequences, Naturals, SequencesExt

CONSTANTS
  Places,    \* the directories a window shows
  MAX_NODES  \* how many places the history remembers

VARIABLES
  behind,    \* the places left by going on, oldest first
  here,      \* the place of the history the window is at
  ahead      \* the places left by going back, the next one first

vars == <<behind, here, ahead>>

Init ==
  /\ behind = <<>>
  /\ here \in Places
  /\ ahead = <<>>

\* The youngest places only.
Remember(trail) ==
  IF Len(trail) < MAX_NODES THEN trail ELSE Tail(trail)

Back ==
  /\ behind # <<>>
  /\ behind' = Front(behind)
  /\ here' = Last(behind)
  /\ ahead' = <<here>> \o ahead

Forward ==
  /\ ahead # <<>>
  /\ behind' = Append(behind, here)
  /\ here' = Head(ahead)
  /\ ahead' = Tail(ahead)

\* The window has gone to a place by itself.
Visit(p) ==
  IF behind # <<>> /\ Last(behind) = p THEN Back
  ELSE IF ahead # <<>> /\ Head(ahead) = p THEN Forward
  ELSE /\ behind' = Remember(Append(behind, here))
       /\ here' = p
       /\ ahead' = <<>>

\* The window goes up to a drawer that contains the place shown.
Replace(p) ==
  /\ here' = p
  /\ UNCHANGED <<behind, ahead>>

\* An entry of the history menu; the buttons jump by one.
Jump(n) ==
  LET all == behind \o <<here>> \o ahead
  IN  /\ n \in DOMAIN all
      /\ behind' = SubSeq(all, 1, n - 1)
      /\ here' = all[n]
      /\ ahead' = SubSeq(all, n + 1, Len(all))

Next ==
  \/ \E p \in Places : Visit(p) \/ Replace(p)
  \/ \E n \in 1..MAX_NODES : Jump(n)

Spec == Init /\ [][Next]_vars
=============================================================================
