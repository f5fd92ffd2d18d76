---------------------------- MODULE RoomRotation ----------------------------
(***************************************************************************)
(* The judge's seat goes round the table.  The room keeps it as a position *)
(* in order and corrects the position when someone leaves (room.go,        *)
(* removePlayerLocked).  Here two history variables remember the table as  *)
(* it was when the round began, so that the properties can say who ought   *)
(* to be the next judge without looking at that position.                  *)
(***************************************************************************)
EXTENDS Room

VARIABLES starters,   \* the seats when the current round began
          lastJudge   \* the judge it began with

rotationVars == <<vars, starters, lastJudge>>

\* A round begins exactly when roundNumber grows.
Remember ==
  IF roundNumber' > roundNumber
  THEN starters' = order' /\ lastJudge' = judgeID'
  ELSE UNCHANGED <<starters, lastJudge>>

RotationInit == Init /\ starters = <<>> /\ lastJudge = NoPlayer
RotationSpec == RotationInit /\ [][Next /\ Remember]_rotationVars

-----------------------------------------------------------------------------

Newcomers == Roster \ Range(starters)

\* Walking round the old table from the judge, with the seats still taken: the
\* distance to each, and the player at the shortest.
JudgeSlot == CHOOSE i \in DOMAIN starters : starters[i] = lastJudge
SeatAt(d) == starters[((JudgeSlot - 1 + d) % Len(starters)) + 1]
Distances == {d \in 1..Len(starters) : SeatAt(d) \in Roster}
NextDistance == CHOOSE d \in Distances : \A e \in Distances : d <= e
NextInLine == SeatAt(NextDistance)

\* The next in line sits behind the judge, before the end of the table.
NoWrap == JudgeSlot + NextDistance <= Len(starters)

RoundFollows == phase = "scoring" /\ phase' = "submitting"

\* From one round to the next the judge's seat goes to the next player in line
\* who is still there; only at the end of the table may newcomers, who sit at the
\* end, come first.  (NextRound, removePlayerLocked and addPlayerLocked together.)
\* The one case left out is SlotOfJudgeIsNext's.
RotationInOrder ==
  [][RoundFollows /\ (lastJudge \in Roster \/ Newcomers = {}) =>
       \/ judgeID' = NextInLine
       \/ ~NoWrap /\ judgeID' \in Newcomers]_rotationVars

\* room.go: stepping back by one keeps the next rotation on the player who slid
\* into the vacated slot instead of skipping them.
SlotOfJudgeIsNext ==
  [][RoundFollows /\ lastJudge \notin Roster /\ Distances # {} /\ NoWrap =>
       judgeID' = NextInLine]_rotationVars
=============================================================================
