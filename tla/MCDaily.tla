------------------------------ MODULE MCDaily ------------------------------
(***************************************************************************)
(* Instances of Daily for TLC.  A walk starts in the first hour of a day   *)
(* in which a group has finished the round of the day before, so that the  *)
(* bounds are spent on what comes next, or, with fewer events to come,     *)
(* before any group is made.                                               *)
(***************************************************************************)
EXTENDS Daily

CONSTANTS Start, MaxEvents, Early,
          Creates, Deletes, Joins, Edits, Submits, Ballots, Looks, Faults, Removals, Reviews,
          g1, p1, p2, joke, wit, utc, east, dots, pun, quip

Bounds == [k \in Events |->
  CASE k = "any" -> MaxEvents [] k = "create" -> Creates [] k = "delete" -> Deletes
    [] k = "join" -> Joins [] k = "edit" -> Edits [] k = "submit" -> Submits
    [] k = "vote" -> Ballots [] k = "view" -> Looks [] k = "fault" -> Faults
    [] k = "remove" -> Removals [] k = "review" -> Reviews]

\* The second zone is a third of a day ahead.
Clocks == [z \in Zones |-> IF z = east THEN Day \div 3 ELSE 0]

\* An answer without a letter; an answer of its own.
Normal == [t \in Texts |-> IF t = dots THEN Nothing ELSE IF t = joke THEN pun ELSE quip]

\* Two members have made the same joke, and one has voted for the other.
FirstDay == NewRound(1, 0, utc, DefaultHour)
EstablishedInit ==
  /\ clock = Start /\ ClosesAt(FirstDay) <= Start
  /\ group = [g \in Groups |->
       IF g = g1 THEN [state |-> "live", zone |-> utc, hour |-> DefaultHour] ELSE Unborn]
  /\ members = [g \in Groups |-> IF g = g1 THEN {p1, p2} ELSE {}]
  /\ round = [g \in Groups |-> [d \in Dates |->
       CASE g = g1 /\ d = 0 -> [FirstDay EXCEPT !.state = "final"]
         [] g = g1 /\ d = 1 -> NewRound(2, 1, utc, DefaultHour)
         [] OTHER -> NoRound]]
  /\ answer = [g \in Groups |-> [d \in Dates |-> [p \in People |->
       IF g = g1 /\ d = 0 /\ p \in {p1, p2} THEN joke ELSE Nothing]]]
  /\ vote = [g \in Groups |-> [d \in Dates |-> [p \in People |->
       IF g = g1 /\ d = 0 /\ p = p2 THEN p1 ELSE Nothing]]]
  /\ candidate = [k \in Keys |->
       IF k = pun THEN [status |-> "pending", votes |-> 1, source |-> <<g1, 0>>]
       ELSE NoCandidate]
  /\ job = [w \in Jobs |-> IdleJob] /\ req = [q \in Requests |-> IdleReq]
  /\ used = [k \in Events |-> IF k = "create" THEN Creates ELSE 0]

EmptyInit ==
  /\ Empty
  /\ used = [k \in Events |-> IF k = "any" THEN MaxEvents - Early ELSE 0]

CheckedSpec == (EstablishedInit \/ EmptyInit) /\ [][Next]_vars /\ Fairness
=============================================================================
