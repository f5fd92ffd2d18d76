----------------------------- MODULE GameRules -----------------------------
(***************************************************************************)
(* What a live room promises about the game, with the table, the timers    *)
(* and the network left out: rounds move through the phases in order, a    *)
(* point is won only by closing the judging of a round, one per round, and *)
(* the game is over at the first score that reaches the limit.             *)
(*                                                                         *)
(* Room implements this specification with the identity on the shared      *)
(* variables.                                                              *)
(***************************************************************************)
EXTENDS Integers

CONSTANTS Player,     \* every player id the room may ever issue
          Limits      \* the score limits a host may choose

VARIABLES phase,        \* "lobby", "submitting", "judging", "scoring", "finished"
          roundNumber,  \* rounds begun in this game
          score,        \* points of each player
          scoreLimit    \* points that win the game

vars == <<phase, roundNumber, score, scoreLimit>>

Init ==
  /\ phase = "lobby"
  /\ roundNumber = 0
  /\ score = [p \in Player |-> 0]
  /\ scoreLimit \in Limits

Configure ==
  /\ phase = "lobby"
  /\ scoreLimit' \in Limits
  /\ UNCHANGED <<phase, roundNumber, score>>

BeginRound ==
  /\ phase \in {"lobby", "scoring"}
  /\ phase' = "submitting"
  /\ roundNumber' = roundNumber + 1
  /\ UNCHANGED <<score, scoreLimit>>

\* The answers are in, or time is up: judge them, or move on if there are none.
CloseAnswers ==
  /\ phase = "submitting"
  /\ phase' \in {"judging", "scoring"}
  /\ UNCHANGED <<roundNumber, score, scoreLimit>>

\* One answer of the round wins one point.
Award(p) ==
  /\ phase = "judging"
  /\ score' = [score EXCEPT ![p] = @ + 1]
  /\ phase' = IF score'[p] >= scoreLimit THEN "finished" ELSE "scoring"
  /\ UNCHANGED <<roundNumber, scoreLimit>>

\* A player goes for good, and what that leaves of the round.
PhasesAfterLoss ==
  {phase} \cup IF phase = "submitting" THEN {"judging", "scoring", "finished"}
               ELSE IF phase = "judging" THEN {"scoring", "finished"}
               ELSE IF phase = "scoring" THEN {"finished"} ELSE {}

Depart(p) ==
  /\ score' = [score EXCEPT ![p] = 0]
  /\ phase' \in PhasesAfterLoss
  /\ UNCHANGED <<roundNumber, scoreLimit>>

EndGame ==
  /\ phase # "lobby"
  /\ phase' = "finished"
  /\ UNCHANGED <<roundNumber, score, scoreLimit>>

PlayAgain ==
  /\ phase = "finished"
  /\ phase' = "lobby"
  /\ roundNumber' = 0
  /\ score' = [p \in Player |-> 0]
  /\ UNCHANGED scoreLimit

Next ==
  \/ Configure \/ BeginRound \/ CloseAnswers \/ EndGame \/ PlayAgain
  \/ \E p \in Player : Award(p) \/ Depart(p)

Spec == Init /\ [][Next]_vars
=============================================================================
