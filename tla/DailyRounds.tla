----------------------------- MODULE DailyRounds -----------------------------
(***************************************************************************)
(* What the daily game promises about each of its rounds, whoever acts on  *)
(* it: docs/DAILY_ENGINE.md, State machine.  A round is open, then in      *)
(* voting, then final.  Answers come only while it is open, votes only     *)
(* while it is in voting, for the answer of another member that is there.  *)
(* Whatever has been revealed stays, except that an answer can be removed, *)
(* and the votes for it with it, and that a round can be deleted with all  *)
(* it has.                                                                 *)
(***************************************************************************)
CONSTANTS Round, People, Nothing

VARIABLES stage,   \* of each round: "none", "open", "voting" or "final"
          entry,   \* the answer of each member, or Nothing
          ballot   \* whose answer each member votes for, or Nothing

roundVars == <<stage, entry, ballot>>

Nobody == [p \in People |-> Nothing]

Same(r) == entry'[r] = entry[r] /\ ballot'[r] = ballot[r]
Empty(r) == entry'[r] = Nobody /\ ballot'[r] = Nobody

Opened(r) == stage[r] = "none" /\ stage'[r] = "open" /\ Empty(r)
Answered(r) ==
  /\ stage[r] = "open" /\ stage'[r] = "open"
  /\ \E p \in People : \A o \in People \ {p} : entry'[r][o] = entry[r][o]
  /\ ballot'[r] = ballot[r]
Revealed(r) == stage[r] = "open" /\ stage'[r] = "voting" /\ Same(r)
Voted(r) ==
  /\ stage[r] = "voting" /\ stage'[r] = "voting"
  /\ entry'[r] = entry[r]
  /\ \E p \in People :
       /\ \A o \in People \ {p} : ballot'[r][o] = ballot[r][o]
       /\ ballot'[r][p] \in {a \in People \ {p} : entry[r][a] # Nothing}
Finished(r) == stage[r] = "voting" /\ stage'[r] = "final" /\ Same(r)
Removed(r) ==
  /\ stage'[r] = stage[r]
  /\ \E p \in People :
       /\ entry'[r] = [entry[r] EXCEPT ![p] = Nothing]
       /\ ballot'[r] = [v \in People |-> IF ballot[r][v] = p THEN Nothing ELSE ballot[r][v]]
Deleted(r) == stage'[r] = "none" /\ Empty(r)
Untouched(r) == stage'[r] = stage[r] /\ Same(r)

\* A history may be taken up in the middle, where these rules have led.
RoundsInit ==
  /\ stage \in [Round -> {"none", "open", "voting", "final"}]
  /\ \A r \in Round :
       /\ stage[r] = "none" => Nobody = entry[r]
       /\ stage[r] \in {"none", "open"} => Nobody = ballot[r]
       /\ \A p \in People : ballot[r][p] # Nothing =>
            ballot[r][p] # p /\ entry[r][ballot[r][p]] # Nothing

RoundStep(r) ==
  \/ Opened(r) \/ Answered(r) \/ Revealed(r) \/ Voted(r) \/ Finished(r)
  \/ Removed(r) \/ Deleted(r) \/ Untouched(r)

RoundsSpec == RoundsInit /\ [][\A r \in Round : RoundStep(r)]_roundVars
=============================================================================
