-------------------------- MODULE RoomConductProofs ---------------------------
(***************************************************************************)
(* How the room conducts a game, for every value of its constants: it      *)
(* implements GameRules, it has a host as soon as anyone is connected, it  *)
(* schedules whatever it waits for a computer player to do, it waits for   *)
(* answers only while one is owed, and it cuts nobody off.                 *)
(*                                                                         *)
(* Each proof carries one more invariant beside IInv through the actions.  *)
(***************************************************************************)
EXTENDS RoomProofs, FiniteSetTheorems

-----------------------------------------------------------------------------
(* The abstract rules: every step is a rule of the game, or a stutter.     *)

\* A step the rules do not see.
LEMMA RulesFrame ==
  ASSUME UNCHANGED <<phase, roundNumber, score, scoreLimit>>
  PROVE  UNCHANGED Rules!vars
BY DEF Rules!vars

\* beginRoundLocked begins a round.
LEMMA BeginRoundIsARule ==
  ASSUME NEW idx, BeginRound(idx), phase \in {"lobby", "scoring"}, score' = score
  PROVE  Rules!Next
<1>1. Rules!BeginRound
  BY DEF Rules!BeginRound, BeginRound, SetPhase, settings
<1> QED
  BY <1>1 DEF Rules!Next

\* awardLocked, with a submission to choose, awards a point.
LEMMA AwardIsARule ==
  ASSUME IInv, phase = "judging", NEW a \in subs, Award(a)
  PROVE  Rules!Next
<1>1. a \in Roster /\ a \in Player
  BY RosterIsPlayers DEF IInv, TypeOK, CardsInv
<1>2. /\ score' = [score EXCEPT ![a] = @ + 1]
      /\ phase' = IF score'[a] >= scoreLimit THEN "finished" ELSE "scoring"
      /\ UNCHANGED <<roundNumber, scoreLimit>>
  BY <1>1 DEF Award, SetPhase, settings
<1>3. Rules!Award(a)
  BY <1>2 DEF Rules!Award
<1> QED
  BY <1>1, <1>3 DEF Rules!Next

\* The last card played may close the answers.
LEMMA PlayAnswerIsARule ==
  ASSUME IInv, NEW p \in Player, PlayAnswer(p)
  PROVE  [Rules!Next]_(Rules!vars)
<1>1. /\ phase = "submitting" /\ phase' \in {"submitting", "judging", "scoring"}
      /\ UNCHANGED <<roundNumber, score, scoreLimit>>
  BY AnswersMayClose DEF PlayAnswer, MayAnswer, IInv, TypeOK, settings
<1>2. CASE phase' = "submitting"
  BY <1>1, <1>2, RulesFrame
<1>3. CASE phase' # "submitting"
  BY <1>1, <1>3 DEF Rules!Next, Rules!CloseAnswers
<1> QED
  BY <1>2, <1>3

\* Leaving is a departure.
LEMMA LeaveIsARule ==
  ASSUME IInv, NEW p \in Humans, Leave(p)
  PROVE  Rules!Next
<1>0. /\ p \in Player /\ phase \in Phases /\ score' = [score EXCEPT ![p] = 0]
      /\ UNCHANGED <<roundNumber, scoreLimit>>
  BY DEF Leave, RemovePlayer, Player, IInv, TypeOK, ClockTypes, settings
<1>1. phase' \in Rules!PhasesAfterLoss
  <2>1. /\ phase' \in Phases
        /\ phase' = "lobby" => phase = "lobby"
        /\ phase' = "submitting" => phase = "submitting"
        /\ phase' # "finished" => phase # "finished"
        /\ \/ LoseSeat(p) /\ (Open' => Open /\ p \notin isJudge)
           \/ VoidRound(p) /\ Open /\ phase' = "scoring"
    BY <1>0, LossOutcomes DEF Leave
  <2>2. CASE phase \in {"lobby", "finished"}
    <3>1. KeepPhase
      BY <2>2 DEF Leave, RosterLoss
    <3> QED
      BY <2>2, <3>1 DEF Rules!PhasesAfterLoss, KeepPhase, clock
  <2>3. CASE phase = "submitting"
    BY <2>1, <2>3 DEF Rules!PhasesAfterLoss, Phases
  <2>4. CASE phase = "judging"
    BY <2>1, <2>4 DEF Rules!PhasesAfterLoss, Phases
  <2>5. CASE phase = "scoring"
    BY <2>1, <2>5 DEF Rules!PhasesAfterLoss, Phases, Open
  <2> QED
    BY <1>0, <2>2, <2>3, <2>4, <2>5 DEF Phases
<1>2. Rules!Depart(p)
  BY <1>0, <1>1 DEF Rules!Depart
<1> QED
  BY <1>0, <1>2 DEF Rules!Next

\* Joining and connecting do not touch the game.
LEMMA JoinsAndConnectionsStutter ==
  ASSUME Joins \/ Connections
  PROVE  UNCHANGED <<phase, roundNumber, score, scoreLimit>>
<1>1. ASSUME NEW h \in Humans, TryJoin(h) \/ JoinSaved(h) \/ UndoJoin(h)
      PROVE  UNCHANGED <<phase, roundNumber, score, scoreLimit>>
  BY <1>1 DEF TryJoin, JoinSaved, UndoJoin, game, clock, table, settings
<1>2. ASSUME NEW h \in Humans, Attach(h) \/ Detach(h)
      PROVE  UNCHANGED <<phase, roundNumber, score, scoreLimit>>
  BY <1>2 DEF Attach, Detach, clock, table, settings
<1> QED
  BY <1>1, <1>2 DEF Joins, Connections

\* Every command is a rule of the game, or invisible to it.
LEMMA CommandIsARule ==
  ASSUME IInv, Commands
  PROVE  [Rules!Next]_(Rules!vars)
<1>1. PICK p \in Humans :
        \/ \E limit \in ScoreLimits \cup {scoreLimit}, seats \in PlayerLimits \cup {maxPlayers},
              retier \in BOOLEAN : UpdateSettings(p, limit, seats, retier)
        \/ StartGame(p) \/ StartComputerGame(p) \/ SubmitAnswer(p)
        \/ \E a \in subs : PickWinner(p, a)
        \/ NextRound(p) \/ EndGame(p) \/ SkipPrompt(p) \/ PlayAgain(p) \/ Leave(p)
  BY DEF Commands
<1>2. ASSUME NEW limit \in ScoreLimits \cup {scoreLimit},
             NEW seats \in PlayerLimits \cup {maxPlayers}, NEW retier \in BOOLEAN,
             UpdateSettings(p, limit, seats, retier)
      PROVE  Rules!Next
  <2>1. Rules!Configure
    BY <1>2 DEF UpdateSettings, Rules!Configure, clock, IInv, TypeOK, GameTypes
  <2> QED
    BY <2>1 DEF Rules!Next
<1>3. CASE StartGame(p)
  BY <1>3, BeginRoundIsARule DEF StartGame
<1>4. CASE StartComputerGame(p)
  <2>1. \E idx : BeginRound(idx)
    BY <1>4 DEF StartComputerGame
  <2> QED
    BY <1>4, <2>1, BeginRoundIsARule DEF StartComputerGame
<1>5. CASE SubmitAnswer(p)
  BY <1>5, PlayAnswerIsARule DEF SubmitAnswer, Player
<1>6. ASSUME NEW a \in subs, PickWinner(p, a)
      PROVE  Rules!Next
  BY <1>6, AwardIsARule DEF PickWinner, MayPick
<1>7. CASE NextRound(p)
  BY <1>7, BeginRoundIsARule DEF NextRound
<1>8. CASE EndGame(p)
  <2>1. Rules!EndGame
    BY <1>8 DEF EndGame, Rules!EndGame, SetPhase, table, settings
  <2> QED
    BY <2>1 DEF Rules!Next
<1>9. CASE SkipPrompt(p)
  <2>1. UNCHANGED <<phase, roundNumber, score, scoreLimit>>
    BY <1>9 DEF SkipPrompt, SetPhase, settings
  <2> QED
    BY <2>1, RulesFrame
<1>10. CASE PlayAgain(p)
  <2>1. Rules!PlayAgain
    BY <1>10 DEF PlayAgain, Rules!PlayAgain, SetPhase, ScoreInRematch, settings
  <2> QED
    BY <2>1 DEF Rules!Next
<1>11. CASE Leave(p)
  BY <1>11, LeaveIsARule
<1> QED
  BY <1>1, <1>2, <1>3, <1>4, <1>5, <1>6, <1>7, <1>8, <1>9, <1>10, <1>11

\* So is every callback.
LEMMA CallbackIsARule ==
  ASSUME IInv, Callbacks
  PROVE  [Rules!Next]_(Rules!vars)
<1>1. ASSUME UNCHANGED game PROVE [Rules!Next]_(Rules!vars)
  BY <1>1, RulesFrame DEF game, clock, table, settings
<1>2. CASE TimerFires
  BY <1>2, RulesFrame DEF TimerFires, table, settings
<1>3. ASSUME NEW seq \in late, OnDeadline(seq)
      PROVE  [Rules!Next]_(Rules!vars)
  <2>1. CASE DeadlineIsStale(seq)
    BY <1>1, <1>3, <2>1 DEF OnDeadline
  <2>2. CASE ~ DeadlineIsStale(seq) /\ phase = "submitting"
    <3>1. BeginJudging /\ UNCHANGED <<roundNumber, score, scoreLimit>>
      BY <1>3, <2>2 DEF OnDeadline, table, settings
    <3>2. phase' \in {"judging", "scoring"}
      BY <3>1 DEF BeginJudging, SetPhase
    <3>3. Rules!CloseAnswers
      BY <2>2, <3>1, <3>2 DEF Rules!CloseAnswers
    <3> QED
      BY <3>3 DEF Rules!Next
  <2>3. CASE ~ DeadlineIsStale(seq) /\ phase # "submitting"
    <3>1. phase = "judging" /\ subs # {}
      BY <2>3 DEF DeadlineIsStale, IInv, RoundInv
    <3>2. PICK a \in subs : Award(a)
      BY <1>3, <2>3, <3>1 DEF OnDeadline
    <3> QED
      BY <3>1, <3>2, AwardIsARule
  <2> QED
    BY <2>1, <2>2, <2>3
<1>4. ASSUME NEW t \in turns, SubmitComputerAnswer(t)
      PROVE  [Rules!Next]_(Rules!vars)
  <2>1. t.by \in Player
    BY DEF IInv, TypeOK, ClockTypes, Turn, Player
  <2> QED
    BY <1>1, <1>4, <2>1, PlayAnswerIsARule DEF SubmitComputerAnswer
<1>5. ASSUME NEW t \in turns, PickComputerWinner(t)
      PROVE  [Rules!Next]_(Rules!vars)
  <2>1. UNCHANGED game \/ (phase = "judging" /\ \E a \in subs : Award(a))
    BY <1>5 DEF PickComputerWinner
  <2> QED
    BY <1>1, <2>1, AwardIsARule
<1> QED
  BY <1>2, <1>3, <1>4, <1>5 DEF Callbacks

\* A restart is invisible.
LEMMA RestartStutters ==
  ASSUME IInv, Restart
  PROVE  UNCHANGED <<phase, roundNumber, score, scoreLimit>>
<1>1. published = StateAt(published.phaseSeq)
  BY DEF IInv, SnapshotInv, SnapshotIsCurrent
<1>2. /\ published.phase = phase /\ published.roundNumber = roundNumber
      /\ published.score = score /\ published.scoreLimit = scoreLimit
  BY <1>1 DEF StateAt
<1> QED
  BY <1>2 DEF Restart

\* The room implements GameRules: its phases, rounds and points, seen without the
\* table, the timers, the sockets and the restarts, are those of the rules.
THEOREM RoomPlaysByTheRules == Spec => PlaysByTheRules
<1>1. Init => Rules!Init
  BY SizesAssumption DEF Init, Rules!Init
<1>2. ASSUME IInv, [Next]_vars PROVE [Rules!Next]_(Rules!vars)
  <2>1. CASE UNCHANGED vars
    BY <2>1, RulesFrame DEF vars, clock, table, settings
  <2>2. CASE Next
    <3>1. CASE Joins \/ Connections
      BY <3>1, RulesFrame, JoinsAndConnectionsStutter
    <3>2. CASE Commands
      BY <1>2, <3>2, CommandIsARule
    <3>3. CASE Callbacks
      BY <1>2, <3>3, CallbackIsARule
    <3>4. CASE Restart
      BY <1>2, <3>4, RulesFrame, RestartStutters
    <3> QED
      BY <2>2, <3>1, <3>2, <3>3, <3>4 DEF Next
  <2> QED
    BY <1>2, <2>1, <2>2
<1> QED
  BY <1>1, <1>2, InvariantHolds, PTL DEF Spec, PlaysByTheRules, Rules!Spec

-----------------------------------------------------------------------------
(* The host.                                                               *)

\* Connected people have seats; with that, the host among them can be found.
HostInv == HostIsPresent /\ LiveHumans \subseteq Roster

\* A step that connects and unseats nobody, and keeps the host.
LEMMA HostStands ==
  ASSUME HostInv, UNCHANGED <<hostID, clients>>, Roster \subseteq Roster'
  PROVE  HostInv'
BY DEF HostInv, HostIsPresent, LiveHumans

\* A step after which the host has been looked for.
LEMMA HostFound ==
  ASSUME order' \in Seq(Player), ReassignHost, LiveHumans' \subseteq Roster'
  PROVE  HostInv'
<1>1. Roster' = Range(order') /\ hostID' = FirstOf(order', LiveHumans')
  BY DEF Roster, ReassignHost
<1>2. LiveHumans' \subseteq Humans
  BY DEF LiveHumans
<1>3. CASE LiveHumans' = {}
  BY <1>1, <1>2, <1>3, FirstOfIsSeated DEF HostInv, HostIsPresent
<1>4. CASE LiveHumans' # {}
  BY <1>1, <1>2, <1>4, FirstOfFinds DEF HostInv, HostIsPresent
<1> QED
  BY <1>3, <1>4

\* A person takes a seat, or has to give it back.
LEMMA JoinsKeepHost ==
  ASSUME IInv, HostInv, Joins
  PROVE  HostInv'
<1> USE DEF HostInv
<1>1. PICK h \in Humans : TryJoin(h) \/ JoinSaved(h) \/ UndoJoin(h)
  BY DEF Joins
<1>2. order \in Seq(Player) /\ h \in Player
  BY DEF IInv, TypeOK, TableTypes, Player
<1>3. CASE TryJoin(h)
  <2>1. order' = Append(order, h) /\ LiveHumans' = LiveHumans
    BY <1>3 DEF TryJoin, links, LiveHumans
  <2>2. Roster' = Roster \cup {h}
    <3>1. /\ Len(order') = Len(order) + 1 /\ order'[Len(order) + 1] = h
          /\ \A i \in 1..Len(order) : order'[i] = order[i]
          /\ order' \in Seq(Player)
      BY <1>2, <2>1
    <3> QED
      BY <1>2, <3>1 DEF Roster, Range
  <2>3. CASE hostID = NoPlayer
    <3>1. LiveHumans = {} /\ hostID' = h
      BY <1>3, <2>3, PlayersAssumption DEF HostIsPresent, LiveHumans, Player, TryJoin
    <3> QED
      BY <2>1, <2>2, <3>1 DEF HostIsPresent
  <2>4. CASE hostID # NoPlayer
    BY <1>3, <2>1, <2>2, <2>4 DEF TryJoin, HostIsPresent
  <2> QED
    BY <2>3, <2>4
<1>4. CASE JoinSaved(h)
  BY <1>4, HostStands DEF JoinSaved, game, links, Roster
<1>5. CASE UndoJoin(h)
  <2>1. CASE Connected(h) \/ phase # "lobby"
    BY <1>5, <2>1, HostStands DEF UndoJoin, game, links, Roster
  <2>2. CASE ~ (Connected(h) \/ phase # "lobby")
    <3>1. /\ h \in Roster /\ h \notin LiveHumans /\ LiveHumans' = LiveHumans
          /\ order' = RemoveAt(order, SlotOf(h))
      BY <1>5, <2>2 DEF UndoJoin, IInv, JoinsInv, links, LiveHumans, Connected
    <3>2. order' \in Seq(Player) /\ Roster' = Roster \ {h}
      BY <1>2, <3>1, SeatVacated DEF IInv
    <3>3. LiveHumans' \subseteq Roster'
      BY <3>1, <3>2
    <3>4. CASE hostID = h
      BY <1>5, <2>2, <3>2, <3>3, <3>4, HostFound DEF UndoJoin
    <3>5. CASE hostID # h
      BY <1>5, <2>2, <3>1, <3>2, <3>3, <3>5 DEF UndoJoin, HostIsPresent
    <3> QED
      BY <3>4, <3>5
  <2> QED
    BY <2>1, <2>2
<1> QED
  BY <1>1, <1>3, <1>4, <1>5

\* A socket opens or closes.
LEMMA ConnectionsKeepHost ==
  ASSUME IInv, HostInv, Connections
  PROVE  HostInv'
<1> USE DEF HostInv
<1>1. PICK h \in Humans : Attach(h) \/ Detach(h)
  BY DEF Connections
<1>2. /\ order \in Seq(Player) /\ order' = order /\ Roster' = Roster
      /\ clients \in [Humans -> Nat]
  BY <1>1 DEF IInv, TypeOK, TableTypes, LinkTypes, Attach, Detach, Roster
<1>3. CASE Attach(h)
  <2>1. LiveHumans' = LiveHumans \cup {h} /\ h \in Roster
    BY <1>2, <1>3 DEF Attach, LiveHumans
  <2>2. CASE hostID \in LiveHumans'
    BY <1>2, <1>3, <2>1, <2>2 DEF Attach, HostAfterAttach, HostIsPresent
  <2>3. CASE hostID \notin LiveHumans'
    BY <1>2, <1>3, <2>1, <2>3, HostFound DEF Attach, HostAfterAttach
  <2> QED
    BY <2>2, <2>3
<1>4. CASE Detach(h)
  <2>1. /\ LiveHumans' \subseteq LiveHumans
        /\ \A g \in LiveHumans \ LiveHumans' : g = h /\ clients[h] > 0 /\ clients'[h] = 0
    BY <1>2, <1>4 DEF Detach, LiveHumans
  <2>2. CASE clients[h] > 0 /\ clients'[h] = 0 /\ hostID = h
    BY <1>2, <1>4, <2>1, <2>2, HostFound DEF Detach
  <2>3. CASE ~ (clients[h] > 0 /\ clients'[h] = 0 /\ hostID = h)
    BY <1>2, <1>4, <2>1, <2>3 DEF Detach, HostIsPresent
  <2> QED
    BY <2>2, <2>3
<1> QED
  BY <1>1, <1>3, <1>4

\* The host may be the one who leaves.
LEMMA LeaveKeepsHost ==
  ASSUME IInv, HostInv, NEW p \in Humans, Leave(p)
  PROVE  HostInv'
<1> USE DEF HostInv
<1>1. order' \in Seq(Player) /\ Roster' = Roster \ {p}
  BY SeatVacated DEF Leave, RemovePlayer, IInv, TypeOK, TableTypes
<1>2. LiveHumans' = LiveHumans \ {p}
  BY DEF Leave, RemovePlayer, LiveHumans, IInv, TypeOK, LinkTypes
<1>3. CASE hostID # p
  BY <1>1, <1>2, <1>3 DEF Leave, RemovePlayer, HostIsPresent
<1>4. CASE hostID = p
  <2> DEFINE live == FirstOf(order', LiveHumans')
  <2>1. /\ Roster' = Range(order')
        /\ hostID' = IF live # NoPlayer THEN live ELSE FirstOf(order', Humans)
    BY <1>4 DEF Leave, RemovePlayer, Roster
  <2>2. live \in (Range(order') \cap LiveHumans') \cup {NoPlayer}
    BY <1>1, FirstOfIsSeated
  <2>3. FirstOf(order', Humans) \in (Range(order') \cap Humans) \cup {NoPlayer}
    BY <1>1, FirstOfIsSeated
  <2>4. LiveHumans' # {} => live \in LiveHumans'
    BY <1>1, <1>2, <2>1, FirstOfFinds
  <2>5. LiveHumans' \subseteq Humans /\ NoPlayer \notin Humans
    BY PlayersAssumption DEF LiveHumans, Player
  <2> HIDE DEF live
  <2> QED
    BY <1>1, <1>2, <2>1, <2>2, <2>3, <2>4, <2>5 DEF HostIsPresent
<1> QED
  BY <1>3, <1>4

\* A person commands.
LEMMA CommandsKeepHost ==
  ASSUME IInv, HostInv, Commands
  PROVE  HostInv'
<1>1. PICK p \in Humans :
        \/ \E limit \in ScoreLimits \cup {scoreLimit}, seats \in PlayerLimits \cup {maxPlayers},
              retier \in BOOLEAN : UpdateSettings(p, limit, seats, retier)
        \/ StartGame(p) \/ StartComputerGame(p) \/ SubmitAnswer(p)
        \/ \E a \in subs : PickWinner(p, a)
        \/ NextRound(p) \/ EndGame(p) \/ SkipPrompt(p) \/ PlayAgain(p) \/ Leave(p)
  BY DEF Commands
<1>2. CASE StartComputerGame(p)
  <2>1. PICK seats \in [1..(MinPlayers - Len(order)) -> Computers \ issued] :
           /\ \A i, j \in DOMAIN seats : seats[i] = seats[j] => i = j
           /\ order' = order \o seats
    BY <1>2 DEF StartComputerGame
  <2>2. MinPlayers - Len(order) \in Int
    BY SizesAssumption DEF IInv, TypeOK, TableTypes
  <2>3. Roster \subseteq Roster'
    BY <2>1, <2>2, SeatsAdded DEF IInv, TypeOK, TableTypes, LinkTypes
  <2> QED
    BY <1>2, <2>3, HostStands DEF StartComputerGame, links
<1>3. CASE Leave(p)
  BY <1>3, LeaveKeepsHost
<1>4. CASE ~ StartComputerGame(p) /\ ~ Leave(p)
  <2>1. UNCHANGED <<hostID, clients, order>>
    BY <1>1, <1>4 DEF UpdateSettings, StartGame, SubmitAnswer, PlayAnswer, PickWinner,
       Award, NextRound, EndGame, SkipPrompt, PlayAgain, links
  <2> QED
    BY <2>1, HostStands DEF Roster
<1> QED
  BY <1>2, <1>3, <1>4

\* A callback runs, or the process is restarted.
LEMMA CallbacksAndRestartKeepHost ==
  ASSUME IInv, HostInv, Callbacks \/ Restart
  PROVE  HostInv'
<1>1. CASE Callbacks
  <2>1. UNCHANGED <<hostID, clients, order>>
    BY <1>1 DEF Callbacks, TimerFires, OnDeadline, SubmitComputerAnswer,
       PickComputerWinner, PlayAnswer, Award, game, links
  <2> QED
    BY <2>1, HostStands DEF Roster
<1>2. CASE Restart
  <2>1. hostID' = hostID /\ Roster' = Roster
    BY <1>2 DEF Restart, IInv, SnapshotInv, SnapshotIsCurrent, StateAt, Roster
  <2>2. LiveHumans' = {}
    BY <1>2 DEF Restart, LiveHumans
  <2> QED
    BY <2>1, <2>2 DEF HostInv, HostIsPresent
<1> QED
  BY <1>1, <1>2

\* The host is a person with a seat, and a connected one as soon as anyone is: no
\* failed join, closed tab, departure or restart leaves the room to nobody.
THEOREM HostIsAlwaysPresent == Spec => []HostIsPresent
<1>1. Init => HostInv
  BY DEF Init, HostInv, HostIsPresent, LiveHumans
<1>2. IInv /\ HostInv /\ [Next]_vars => HostInv'
  <2> SUFFICES ASSUME IInv, HostInv, [Next]_vars PROVE HostInv'
    OBVIOUS
  <2>1. CASE UNCHANGED vars
    BY <2>1, HostStands DEF vars, links, Roster
  <2> QED
    BY <2>1, JoinsKeepHost, ConnectionsKeepHost, CommandsKeepHost,
       CallbacksAndRestartKeepHost DEF Next
<1>3. HostInv => HostIsPresent
  BY DEF HostInv
<1> QED
  BY <1>1, <1>2, <1>3, InvariantHolds, PTL DEF Spec

-----------------------------------------------------------------------------
(* The turns of computer players.                                          *)

\* scheduleComputerTurnsLocked leaves no turn out.
LEMMA SchedulingSuffices ==
  ASSUME NEW pending, ScheduleTurns(pending)
  PROVE  NoComputerStalls'
BY DEF ScheduleTurns, NoComputerStalls

\* A step into a phase without turns.
LEMMA QuietPhaseHasNoTurns ==
  ASSUME phase' \notin {"submitting", "judging"}
  PROVE  NoComputerStalls'
BY DEF NoComputerStalls, TurnsDue, AnswersDue, PicksDue

\* A step that gives no computer player anything to do.
LEMMA TurnsStand ==
  ASSUME NoComputerStalls, TurnsDue' \subseteq TurnsDue, turns' = turns
  PROVE  NoComputerStalls'
BY DEF NoComputerStalls

\* A step that computer players do not notice.
LEMMA TurnsUnchanged ==
  ASSUME UNCHANGED <<phase, phaseSeq, judgeID, subs>>,
         Computers \cap Roster' \subseteq Roster,
         \A c \in Computers \cap Roster' : hand'[c] = hand[c]
  PROVE  TurnsDue' \subseteq TurnsDue
BY DEF TurnsDue, AnswersDue, PicksDue

\* A person comes or goes.
LEMMA JoinsAndConnectionsKeepTurns ==
  ASSUME IInv, NoComputerStalls, Joins \/ Connections
  PROVE  NoComputerStalls'
<1>1. ASSUME NEW h \in Humans, TryJoin(h)
      PROVE  NoComputerStalls'
  <2>1. h \notin Computers /\ h \in Player /\ order \in Seq(Player) /\ hand \in [Player -> Nat]
    BY PlayersAssumption DEF IInv, TypeOK, TableTypes, Player
  <2>2. order' = Append(order, h) /\ Roster' \subseteq Roster \cup {h}
    BY <1>1, <2>1 DEF TryJoin, Roster, Range
  <2>3. \A c \in Computers : hand'[c] = hand[c]
    BY <1>1, <2>1 DEF TryJoin, Player
  <2>4. UNCHANGED <<phase, phaseSeq, judgeID, subs, turns>>
    BY <1>1 DEF TryJoin, clock, judging
  <2> QED
    BY <2>1, <2>2, <2>3, <2>4, TurnsUnchanged, TurnsStand
<1>2. ASSUME NEW h \in Humans, JoinSaved(h) \/ Attach(h) \/ Detach(h)
      PROVE  NoComputerStalls'
  <2>1. UNCHANGED <<phase, phaseSeq, judgeID, subs, turns, order, hand>>
    BY <1>2 DEF JoinSaved, Attach, Detach, game, clock, judging, table
  <2> QED
    BY <2>1, TurnsUnchanged, TurnsStand DEF Roster
<1>3. ASSUME NEW h \in Humans, UndoJoin(h)
      PROVE  NoComputerStalls'
  <2>1. CASE Connected(h) \/ phase # "lobby"
    <3>1. UNCHANGED <<phase, phaseSeq, judgeID, subs, turns, order, hand>>
      BY <1>3, <2>1 DEF UndoJoin, game, clock, judging, table
    <3> QED
      BY <3>1, TurnsUnchanged, TurnsStand DEF Roster
  <2>2. CASE ~ (Connected(h) \/ phase # "lobby")
    <3>1. phase' = "lobby"
      BY <1>3, <2>2 DEF UndoJoin, clock
    <3> QED
      BY <3>1, QuietPhaseHasNoTurns
  <2> QED
    BY <2>1, <2>2
<1> QED
  BY <1>1, <1>2, <1>3 DEF Joins, Connections

\* A seat is given up.
LEMMA LeaveKeepsTurns ==
  ASSUME IInv, NoComputerStalls, NEW p \in Humans, Leave(p)
  PROVE  NoComputerStalls'
<1> DEFINE wasJudge == p \in isJudge /\ phase \in {"submitting", "judging"}
<1>0. /\ p \in Roster /\ p \notin Computers /\ RosterLoss(p, wasJudge)
      /\ order' = RemoveAt(order, SlotOf(p))
      /\ order \in Seq(Player) /\ hand \in [Player -> Nat] /\ phase \in Phases
  BY PlayersAssumption DEF Leave, RemovePlayer, IInv, TypeOK, TableTypes, ClockTypes
<1>1. Roster' = Roster \ {p}
  BY <1>0, SeatVacated DEF IInv
<1>2. CASE phase \in {"lobby", "finished"}
  BY <1>0, <1>2, QuietPhaseHasNoTurns DEF RosterLoss, KeepPhase, clock
<1>3. CASE phase \notin {"lobby", "finished"} /\ TooFew(Len(order'))
  BY <1>0, <1>3, QuietPhaseHasNoTurns DEF RosterLoss, SetPhase
<1>4. CASE phase \notin {"lobby", "finished"} /\ ~ TooFew(Len(order')) /\ wasJudge
  BY <1>0, <1>4, QuietPhaseHasNoTurns DEF RosterLoss, VoidRound, SetPhase
<1>5. CASE phase \notin {"lobby", "finished"} /\ ~ TooFew(Len(order')) /\ ~ wasJudge
  <2>1. /\ LoseSeat(p)
        /\ \/ phase = "submitting" /\ LossWhileSubmitting
           \/ phase = "judging" /\ LossWhileJudging
           \/ phase = "scoring" /\ KeepPhase /\ UNCHANGED turns
    BY <1>0, <1>5 DEF RosterLoss
  <2>2. ASSUME KeepPhase, turns' = turns
        PROVE  NoComputerStalls'
    <3>1. \A c \in Computers \cap Roster' :
            c \in Roster /\ hand'[c] = hand[c] /\ (c \in subs' <=> c \in subs)
      BY <1>0, <1>1, <2>1 DEF LoseSeat, Player
    <3>2. UNCHANGED <<phase, phaseSeq, judgeID>> /\ subs' \subseteq subs
      BY <2>1, <2>2 DEF LoseSeat, KeepPhase, clock
    <3>3. AnswersDue' \subseteq AnswersDue
      BY <3>1, <3>2 DEF AnswersDue
    <3>4. PicksDue' \subseteq PicksDue
      BY <3>1, <3>2 DEF PicksDue
    <3>5. TurnsDue' \subseteq TurnsDue
      BY <3>3, <3>4 DEF TurnsDue
    <3> QED
      BY <2>2, <3>5, TurnsStand
  <2>3. CASE LossWhileSubmitting
    BY <2>2, <2>3, SchedulingSuffices DEF LossWhileSubmitting, CloseIfComplete
  <2>4. CASE LossWhileJudging
    BY <2>2, <2>4, QuietPhaseHasNoTurns DEF LossWhileJudging, SetPhase
  <2> QED
    BY <2>1, <2>2, <2>3, <2>4
<1> QED
  BY <1>2, <1>3, <1>4, <1>5

\* Award ends the judging.
LEMMA AwardLeavesNoTurns ==
  ASSUME NEW a, Award(a)
  PROVE  NoComputerStalls'
<1>1. phase' \in {"finished", "scoring"}
  BY DEF Award, SetPhase
<1> QED
  BY <1>1, QuietPhaseHasNoTurns

\* A person commands.
LEMMA CommandsKeepTurns ==
  ASSUME IInv, NoComputerStalls, Commands
  PROVE  NoComputerStalls'
<1>1. PICK p \in Humans :
        \/ \E limit \in ScoreLimits \cup {scoreLimit}, seats \in PlayerLimits \cup {maxPlayers},
              retier \in BOOLEAN : UpdateSettings(p, limit, seats, retier)
        \/ StartGame(p) \/ StartComputerGame(p) \/ SubmitAnswer(p)
        \/ \E a \in subs : PickWinner(p, a)
        \/ NextRound(p) \/ EndGame(p) \/ SkipPrompt(p) \/ PlayAgain(p) \/ Leave(p)
  BY DEF Commands
<1>2. CASE StartGame(p) \/ StartComputerGame(p) \/ NextRound(p)
  <2>1. ScheduleTurns(turns)
    BY <1>2 DEF StartGame, StartComputerGame, NextRound, BeginRound
  <2> QED
    BY <2>1, SchedulingSuffices
<1>3. CASE SubmitAnswer(p) \/ SkipPrompt(p)
  BY <1>3, SchedulingSuffices DEF SubmitAnswer, SkipPrompt
<1>4. ASSUME NEW a \in subs, PickWinner(p, a)
      PROVE  NoComputerStalls'
  BY <1>4, AwardLeavesNoTurns DEF PickWinner
<1>5. CASE EndGame(p) \/ PlayAgain(p)
  <2>1. phase' \in {"finished", "lobby"}
    BY <1>5 DEF EndGame, PlayAgain, SetPhase
  <2> QED
    BY <2>1, QuietPhaseHasNoTurns
<1>6. ASSUME NEW limit \in ScoreLimits \cup {scoreLimit},
             NEW seats \in PlayerLimits \cup {maxPlayers}, NEW retier \in BOOLEAN,
             UpdateSettings(p, limit, seats, retier)
      PROVE  NoComputerStalls'
  BY <1>6, QuietPhaseHasNoTurns DEF UpdateSettings, clock
<1>7. CASE Leave(p)
  BY <1>7, LeaveKeepsTurns
<1> QED
  BY <1>1, <1>2, <1>3, <1>4, <1>5, <1>6, <1>7

\* A turn that its callback finds gone was not due.
LEMMA StaleTurnsAreNotDue ==
  ASSUME NoComputerStalls, NEW t \in turns, t \notin TurnsDue, turns' = turns \ {t},
         UNCHANGED game
  PROVE  NoComputerStalls'
<1>1. TurnsDue' \subseteq TurnsDue
  BY TurnsUnchanged DEF game, clock, judging, table, Roster
<1> QED
  BY <1>1 DEF NoComputerStalls

\* A callback runs.
LEMMA CallbacksKeepTurns ==
  ASSUME IInv, NoComputerStalls, Callbacks
  PROVE  NoComputerStalls'
<1>1. CASE TimerFires
  <2>1. TurnsDue' \subseteq TurnsDue
    BY <1>1, TurnsUnchanged DEF TimerFires, judging, table, Roster
  <2> QED
    BY <1>1, <2>1, TurnsStand DEF TimerFires
<1>2. ASSUME NEW seq \in late, OnDeadline(seq)
      PROVE  NoComputerStalls'
  <2>1. CASE DeadlineIsStale(seq)
    <3>1. TurnsDue' \subseteq TurnsDue
      BY <1>2, <2>1, TurnsUnchanged DEF OnDeadline, game, clock, judging, table, Roster
    <3> QED
      BY <1>2, <2>1, <3>1, TurnsStand DEF OnDeadline
  <2>2. CASE ~ DeadlineIsStale(seq)
    BY <1>2, <2>2, SchedulingSuffices DEF OnDeadline
  <2> QED
    BY <2>1, <2>2
<1>3. ASSUME NEW t \in turns, SubmitComputerAnswer(t)
      PROVE  NoComputerStalls'
  <2>1. CASE t.seq = phaseSeq /\ MayAnswer(t.by)
    BY <1>3, <2>1, SchedulingSuffices DEF SubmitComputerAnswer
  <2>2. CASE ~ (t.seq = phaseSeq /\ MayAnswer(t.by))
    <3>1. t \notin TurnsDue
      BY <1>3, <2>2 DEF SubmitComputerAnswer, TurnsDue, AnswersDue, PicksDue, MayAnswer
    <3> QED
      BY <1>3, <2>2, <3>1, StaleTurnsAreNotDue DEF SubmitComputerAnswer
  <2> QED
    BY <2>1, <2>2
<1>4. ASSUME NEW t \in turns, PickComputerWinner(t)
      PROVE  NoComputerStalls'
  <2> DEFINE timely == /\ t.seq = phaseSeq /\ phase = "judging" /\ t.by = judgeID
                       /\ t.by \in Roster /\ subs # {}
  <2>1. CASE timely
    BY <1>4, <2>1, AwardLeavesNoTurns DEF PickComputerWinner
  <2>2. CASE ~ timely
    <3>1. t \notin TurnsDue
      BY <1>4, <2>2 DEF PickComputerWinner, TurnsDue, AnswersDue, PicksDue
    <3> QED
      BY <1>4, <2>2, <3>1, StaleTurnsAreNotDue DEF PickComputerWinner
  <2> QED
    BY <2>1, <2>2
<1> QED
  BY <1>1, <1>2, <1>3, <1>4 DEF Callbacks

\* Whatever the room waits for a computer player to do is scheduled: no transition
\* forgets it, and no callback that comes too late takes another's place.
THEOREM ComputersNeverStall == Spec => []NoComputerStalls
<1>1. Init => NoComputerStalls
  BY DEF Init, NoComputerStalls, TurnsDue, AnswersDue, PicksDue
<1>2. IInv /\ NoComputerStalls /\ [Next]_vars => NoComputerStalls'
  <2> SUFFICES ASSUME IInv, NoComputerStalls, [Next]_vars PROVE NoComputerStalls'
    OBVIOUS
  <2>1. CASE UNCHANGED vars
    <3>1. TurnsDue' \subseteq TurnsDue
      BY <2>1, TurnsUnchanged DEF vars, clock, judging, table, Roster
    <3> QED
      BY <2>1, <3>1, TurnsStand DEF vars
  <2>2. CASE Restart
    BY <2>2, SchedulingSuffices DEF Restart
  <2> QED
    BY <2>1, <2>2, JoinsAndConnectionsKeepTurns, CommandsKeepTurns, CallbacksKeepTurns DEF Next
<1> QED
  BY <1>1, <1>2, InvariantHolds, PTL DEF Spec

-----------------------------------------------------------------------------
(* The end of the answer phase.                                            *)

\* The answers are open only while somebody has not answered.
WaitInv == phase = "submitting" => ~ AllAnswerersSubmitted

\* As many submissions as there are on the table can be counted.
LEMMA SubmissionsAreFinite ==
  ASSUME IInv
  PROVE  IsFiniteSet(subs) /\ Cardinality(subs) \in Nat
<1>1. subs \subseteq Player
  BY RosterIsPlayers DEF IInv, TypeOK, CardsInv
<1>2. IsFiniteSet(subs)
  BY <1>1, PlayersAssumption, FS_Subset
<1> QED
  BY <1>2, FS_CardinalityType

\* With fewer submissions than seats but the judge's, some seat owes an answer.
LEMMA SomebodyOwesAnAnswer ==
  ASSUME IInv, WaitInv
  PROVE  WaitsForSomeone
<1> SUFFICES ASSUME phase = "submitting" PROVE \E p \in Roster : MayAnswer(p)
  BY DEF WaitsForSomeone
<1>1. /\ order \in Seq(Player) /\ Len(order) \in Nat /\ Len(order) > 1
      /\ DOMAIN order = 1..Len(order)
      /\ \A i, j \in 1..Len(order) : order[i] = order[j] => i = j
      /\ IsFiniteSet(subs) /\ Cardinality(subs) \in Nat
  BY SizesAssumption, SubmissionsAreFinite DEF IInv, TypeOK, TableTypes, SeatsInv, RoundInv
<1>2. Cardinality(subs) < Len(order) - 1
  BY <1>1 DEF WaitInv, AllAnswerersSubmitted
<1> DEFINE done == subs \cup {judgeID}
<1>3. IsFiniteSet(done) /\ Cardinality(done) <= Cardinality(subs) + 1 /\ Cardinality(done) \in Nat
  <2> HIDE DEF done
  <2>1. /\ IsFiniteSet(subs \cup {judgeID})
        /\ Cardinality(subs \cup {judgeID}) =
             IF judgeID \in subs THEN Cardinality(subs) ELSE Cardinality(subs) + 1
    BY <1>1, FS_AddElement
  <2>2. Cardinality(subs \cup {judgeID}) \in Nat
    BY <2>1, FS_CardinalityType
  <2> QED
    BY <1>1, <2>1, <2>2 DEF done
<1>4. IsFiniteSet(1..Len(order)) /\ Cardinality(1..Len(order)) = Len(order)
  BY <1>1, FS_Interval
<1>5. PICK p \in Roster : p \notin done
  <2> SUFFICES ASSUME Roster \subseteq done PROVE FALSE
    OBVIOUS
  <2> HIDE DEF done
  <2>1. order \in [1..Len(order) -> done]
    BY <1>1 DEF Roster, Range
  <2>2. Cardinality(done) < Cardinality(1..Len(order))
    BY <1>1, <1>2, <1>3, <1>4
  <2>3. \E i, j \in 1..Len(order) : i # j /\ order[i] = order[j]
    BY <1>3, <1>4, <2>1, <2>2, FS_PigeonHole
  <2> QED
    BY <1>1, <2>3
<1>6. hand[p] = HandSize
  BY <1>5, SizesAssumption, RosterIsPlayers DEF IInv, TypeOK, TableTypes, CardsInv
<1> QED
  BY <1>5, <1>6, SizesAssumption DEF MayAnswer

\* A step after which the answers are not open.
LEMMA ClosedWaitsForNobody ==
  ASSUME phase' # "submitting"
  PROVE  WaitInv'
BY DEF WaitInv

\* A step that fills no seat and takes nothing off the table, or fills one more.
LEMMA WaitStands ==
  ASSUME IInv, WaitInv, phase' = phase, subs' = subs, Len(order') >= Len(order),
         Len(order') \in Nat
  PROVE  WaitInv'
<1>1. Cardinality(subs) \in Nat /\ Len(order) \in Nat
  BY SubmissionsAreFinite DEF IInv, TypeOK, TableTypes
<1>2. phase = "submitting" => Len(order) > 1
  BY <1>1, SizesAssumption DEF IInv, RoundInv
<1> QED
  BY <1>1, <1>2 DEF WaitInv, AllAnswerersSubmitted

\* An empty table in a room with enough players.
LEMMA NobodyHasAnswered ==
  ASSUME subs' = {}, Len(order') \in Nat, Len(order') >= MinPlayers
  PROVE  ~ AllAnswerersSubmitted'
BY SizesAssumption, FS_EmptySet DEF AllAnswerersSubmitted

\* Whoever looks whether all have answered closes the answers if they have.
LEMMA LookingSuffices ==
  ASSUME CloseIfComplete
  PROVE  WaitInv'
BY DEF CloseIfComplete, BeginJudging, SetPhase, WaitInv

\* A person joins, connects, or gives up.
LEMMA JoinsAndConnectionsKeepWaiting ==
  ASSUME IInv, WaitInv, Joins \/ Connections
  PROVE  WaitInv'
<1>0. order \in Seq(Player)
  BY DEF IInv, TypeOK, TableTypes
<1>1. ASSUME NEW h \in Humans, TryJoin(h)
      PROVE  WaitInv'
  <2>1. Len(order') = Len(order) + 1 /\ Len(order) \in Nat
    BY <1>0, <1>1 DEF TryJoin, Player
  <2> QED
    BY <1>1, <2>1, WaitStands DEF TryJoin, clock
<1>2. ASSUME NEW h \in Humans, JoinSaved(h) \/ Attach(h) \/ Detach(h)
      PROVE  WaitInv'
  BY <1>0, <1>2, WaitStands DEF JoinSaved, Attach, Detach, game, clock, table
<1>3. ASSUME NEW h \in Humans, UndoJoin(h)
      PROVE  WaitInv'
  <2>1. CASE phase # "lobby"
    BY <1>0, <1>3, <2>1, WaitStands DEF UndoJoin, game, clock, table
  <2>2. CASE phase = "lobby"
    BY <1>3, <2>2, ClosedWaitsForNobody DEF UndoJoin, game, clock
  <2> QED
    BY <2>1, <2>2
<1> QED
  BY <1>1, <1>2, <1>3 DEF Joins, Connections

\* A seat is given up.
LEMMA LeaveKeepsWaiting ==
  ASSUME IInv, WaitInv, NEW p \in Humans, Leave(p)
  PROVE  WaitInv'
<1>1. CASE phase # "submitting"
  BY <1>1, ClosedWaitsForNobody DEF Leave, RosterLoss, KeepPhase, SetPhase, VoidRound,
     LossWhileJudging, clock
<1>2. CASE phase = "submitting"
  <2>1. \/ SetPhase("finished", FALSE)
        \/ SetPhase("scoring", FALSE)
        \/ CloseIfComplete
    BY <1>2 DEF Leave, RosterLoss, VoidRound, LossWhileSubmitting
  <2> QED
    BY <2>1, ClosedWaitsForNobody, LookingSuffices DEF SetPhase
<1> QED
  BY <1>1, <1>2

\* A round begins.
LEMMA BeginRoundWaits ==
  ASSUME IInv, IInv', NEW idx, BeginRound(idx)
  PROVE  WaitInv'
<1>1. phase' = "submitting" /\ subs' = {}
  BY DEF BeginRound, SetPhase
<1>2. Len(order') >= MinPlayers /\ Len(order') \in Nat
  BY <1>1 DEF IInv, RoundInv, TypeOK, TableTypes
<1> QED
  BY <1>1, <1>2, NobodyHasAnswered DEF WaitInv

\* A person commands.
LEMMA CommandsKeepWaiting ==
  ASSUME IInv, IInv', WaitInv, Commands
  PROVE  WaitInv'
<1>1. PICK p \in Humans :
        \/ \E limit \in ScoreLimits \cup {scoreLimit}, seats \in PlayerLimits \cup {maxPlayers},
              retier \in BOOLEAN : UpdateSettings(p, limit, seats, retier)
        \/ StartGame(p) \/ StartComputerGame(p) \/ SubmitAnswer(p)
        \/ \E a \in subs : PickWinner(p, a)
        \/ NextRound(p) \/ EndGame(p) \/ SkipPrompt(p) \/ PlayAgain(p) \/ Leave(p)
  BY DEF Commands
<1>2. CASE StartGame(p) \/ StartComputerGame(p) \/ NextRound(p)
  <2>1. PICK idx : BeginRound(idx)
    BY <1>2 DEF StartGame, StartComputerGame, NextRound
  <2> QED
    BY <2>1, BeginRoundWaits
<1>3. CASE SubmitAnswer(p)
  BY <1>3, LookingSuffices DEF SubmitAnswer, PlayAnswer
<1>4. CASE SkipPrompt(p)
  <2>1. Len(order') >= MinPlayers /\ Len(order') \in Nat /\ subs' = {}
    BY <1>4 DEF SkipPrompt, IInv, RoundInv, TypeOK, TableTypes
  <2> QED
    BY <2>1, NobodyHasAnswered DEF WaitInv
<1>5. ASSUME NEW a \in subs, PickWinner(p, a)
      PROVE  WaitInv'
  BY <1>5, ClosedWaitsForNobody DEF PickWinner, Award, SetPhase
<1>6. CASE EndGame(p) \/ PlayAgain(p)
  BY <1>6, ClosedWaitsForNobody DEF EndGame, PlayAgain, SetPhase
<1>7. ASSUME NEW limit \in ScoreLimits \cup {scoreLimit},
             NEW seats \in PlayerLimits \cup {maxPlayers}, NEW retier \in BOOLEAN,
             UpdateSettings(p, limit, seats, retier)
      PROVE  WaitInv'
  BY <1>7, ClosedWaitsForNobody DEF UpdateSettings, clock
<1>8. CASE Leave(p)
  BY <1>8, LeaveKeepsWaiting
<1> QED
  BY <1>1, <1>2, <1>3, <1>4, <1>5, <1>6, <1>7, <1>8

\* A callback runs, or the process is restarted.
LEMMA CallbacksAndRestartKeepWaiting ==
  ASSUME IInv, WaitInv, Callbacks \/ Restart
  PROVE  WaitInv'
<1>0. order \in Seq(Player)
  BY DEF IInv, TypeOK, TableTypes
<1>1. ASSUME UNCHANGED game PROVE WaitInv'
  BY <1>0, <1>1, WaitStands DEF game, clock, table
<1>2. ASSUME NEW a, Award(a) PROVE WaitInv'
  BY <1>2, ClosedWaitsForNobody DEF Award, SetPhase
<1>3. CASE TimerFires
  BY <1>0, <1>3, WaitStands DEF TimerFires, table
<1>4. ASSUME NEW seq \in late, OnDeadline(seq)
      PROVE  WaitInv'
  <2>1. UNCHANGED game \/ BeginJudging \/ \E a : Award(a)
    BY <1>4 DEF OnDeadline
  <2> QED
    BY <1>1, <1>2, <2>1, ClosedWaitsForNobody DEF BeginJudging, SetPhase
<1>5. ASSUME NEW t \in turns, SubmitComputerAnswer(t)
      PROVE  WaitInv'
  BY <1>1, <1>5, LookingSuffices DEF SubmitComputerAnswer, PlayAnswer
<1>6. ASSUME NEW t \in turns, PickComputerWinner(t)
      PROVE  WaitInv'
  BY <1>1, <1>2, <1>6 DEF PickComputerWinner
<1>7. CASE Restart
  <2>1. UNCHANGED <<phase, subs, order>>
    BY <1>7 DEF Restart, IInv, SnapshotInv, SnapshotIsCurrent, StateAt
  <2> QED
    BY <1>0, <2>1, WaitStands
<1> QED
  BY <1>3, <1>4, <1>5, <1>6, <1>7 DEF Callbacks

\* While the answers are open somebody with a card and a seat still owes one, so
\* the phase is never left for its deadline to close with everyone done.
THEOREM AnswersAlwaysAwaited == Spec => []WaitsForSomeone
<1>1. Init => WaitInv
  BY DEF Init, WaitInv
<1>2. IInv /\ IInv' /\ WaitInv /\ [Next]_vars => WaitInv'
  <2> SUFFICES ASSUME IInv, IInv', WaitInv, [Next]_vars PROVE WaitInv'
    OBVIOUS
  <2>1. CASE UNCHANGED vars
    <3>1. order \in Seq(Player)
      BY DEF IInv, TypeOK, TableTypes
    <3> QED
      BY <2>1, <3>1, WaitStands DEF vars, clock, table
  <2> QED
    BY <2>1, JoinsAndConnectionsKeepWaiting, CommandsKeepWaiting,
       CallbacksAndRestartKeepWaiting DEF Next
<1>3. IInv /\ WaitInv => WaitsForSomeone
  BY SomebodyOwesAnAnswer
<1> QED
  BY <1>1, <1>2, <1>3, InvariantHolds, PTL DEF Spec

\* A submission closes the answers when it is the last one.
LEMMA AnsweringCutsNobodyOff ==
  ASSUME NEW p, PlayAnswer(p)
  PROVE  CutsNobodyOff
<1>1. subs' # {}
  BY DEF PlayAnswer
<1> QED
  BY <1>1 DEF PlayAnswer, CloseIfComplete, BeginJudging, SetPhase, KeepPhase, clock, CutsNobodyOff

\* A departure ends the answers when the others have all answered, or with the judge.
LEMMA LeavingCutsNobodyOff ==
  ASSUME IInv, NEW p \in Humans, Leave(p)
  PROVE  CutsNobodyOff
<1> SUFFICES ASSUME phase = "submitting" PROVE CutsNobodyOff
  BY DEF CutsNobodyOff
<1>1. /\ p \in Roster /\ order \in Seq(Player) /\ order' = RemoveAt(order, SlotOf(p))
      /\ isJudge = {judgeID}
      /\ RosterLoss(p, p \in isJudge)
  BY DEF Leave, RemovePlayer, IInv, TypeOK, TableTypes, RoundInv, Open
<1>2. Roster' = Roster \ {p} /\ Len(order') \in Nat
  BY <1>1, SeatVacated DEF IInv
<1>3. CASE TooFew(Len(order'))
  BY <1>1, <1>3 DEF RosterLoss, SetPhase, CutsNobodyOff
<1>4. CASE ~ TooFew(Len(order')) /\ p \in isJudge
  <2>1. phase' = "scoring" /\ p = judgeID
    BY <1>1, <1>4 DEF RosterLoss, VoidRound, SetPhase
  <2> QED
    BY <1>2, <2>1 DEF CutsNobodyOff
<1>5. CASE ~ TooFew(Len(order')) /\ p \notin isJudge
  <2>1. CloseIfComplete /\ Len(order') >= MinPlayers
    BY <1>1, <1>2, <1>5, SizesAssumption DEF RosterLoss, LossWhileSubmitting, TooFew
  <2>2. AllAnswerersSubmitted' => subs' # {}
    BY <1>2, <2>1, NobodyHasAnswered
  <2> QED
    BY <2>1, <2>2 DEF CloseIfComplete, BeginJudging, SetPhase, KeepPhase, clock, CutsNobodyOff
<1> QED
  BY <1>3, <1>4, <1>5

\* A step that leaves the answers open, or ends the game.
LEMMA OtherPhasesCutNobodyOff ==
  ASSUME phase # "submitting" \/ phase' \notin {"judging", "scoring"}
  PROVE  CutsNobodyOff
BY DEF CutsNobodyOff

\* A callback of the phase timer is heard only in its own phase.
LEMMA DeadlineCutsNobodyOff ==
  ASSUME NEW seq \in late, OnDeadline(seq)
  PROVE  CutsNobodyOff
<1>1. CASE DeadlineIsStale(seq)
  BY <1>1, OtherPhasesCutNobodyOff DEF OnDeadline, game, clock
<1>2. CASE ~ DeadlineIsStale(seq) /\ phase = "submitting"
  <2>1. phaseSeq \in late /\ BeginJudging /\ subs' = subs
    BY <1>2 DEF OnDeadline, DeadlineIsStale, table
  <2> QED
    BY <2>1 DEF BeginJudging, SetPhase, CutsNobodyOff
<1>3. CASE phase # "submitting"
  BY <1>3, OtherPhasesCutNobodyOff
<1> QED
  BY <1>1, <1>2, <1>3

\* A command other than answering and leaving.
LEMMA CommandsCutNobodyOff ==
  ASSUME IInv, Commands
  PROVE  CutsNobodyOff
<1>1. PICK p \in Humans :
        \/ \E limit \in ScoreLimits \cup {scoreLimit}, seats \in PlayerLimits \cup {maxPlayers},
              retier \in BOOLEAN : UpdateSettings(p, limit, seats, retier)
        \/ StartGame(p) \/ StartComputerGame(p) \/ SubmitAnswer(p)
        \/ \E a \in subs : PickWinner(p, a)
        \/ NextRound(p) \/ EndGame(p) \/ SkipPrompt(p) \/ PlayAgain(p) \/ Leave(p)
  BY DEF Commands
<1>2. CASE SubmitAnswer(p)
  BY <1>2, AnsweringCutsNobodyOff DEF SubmitAnswer
<1>3. CASE Leave(p)
  BY <1>3, LeavingCutsNobodyOff
<1>4. CASE ~ SubmitAnswer(p) /\ ~ Leave(p)
  <2>1. phase # "submitting" \/ phase' \notin {"judging", "scoring"}
    BY <1>1, <1>4 DEF UpdateSettings, StartGame, StartComputerGame, PickWinner, MayPick,
       NextRound, EndGame, SkipPrompt, PlayAgain, SetPhase
  <2> QED
    BY <2>1, OtherPhasesCutNobodyOff
<1> QED
  BY <1>2, <1>3, <1>4

\* The answers are closed by the last of them, by the departure of the judge or by
\* the deadline of this very phase.
THEOREM NobodyIsEverCutOff == Spec => NobodyIsCutOff
<1>1. ASSUME IInv, [Next]_vars PROVE [CutsNobodyOff]_vars
  <2>1. CASE Joins \/ Connections
    BY <2>1, OtherPhasesCutNobodyOff DEF Joins, Connections, TryJoin, JoinSaved, UndoJoin,
       Attach, Detach, game, clock
  <2>2. CASE Commands
    BY <1>1, <2>2, CommandsCutNobodyOff
  <2>3. CASE Callbacks
    <3>1. CASE TimerFires
      BY <3>1, OtherPhasesCutNobodyOff DEF TimerFires
    <3>2. ASSUME NEW t \in turns, SubmitComputerAnswer(t)
          PROVE  CutsNobodyOff
      BY <3>2, AnsweringCutsNobodyOff, OtherPhasesCutNobodyOff
         DEF SubmitComputerAnswer, game, clock
    <3>3. ASSUME NEW t \in turns, PickComputerWinner(t)
          PROVE  CutsNobodyOff
      BY <3>3, OtherPhasesCutNobodyOff DEF PickComputerWinner, game, clock
    <3> QED
      BY <2>3, <3>1, <3>2, <3>3, DeadlineCutsNobodyOff DEF Callbacks
  <2>4. CASE Restart
    <3>1. phase' = phase
      BY <1>1, <2>4 DEF Restart, IInv, SnapshotInv, SnapshotIsCurrent, StateAt
    <3> QED
      BY <3>1, OtherPhasesCutNobodyOff
  <2> QED
    BY <1>1, <2>1, <2>2, <2>3, <2>4 DEF Next
<1> QED
  BY <1>1, InvariantHolds, PTL DEF Spec, NobodyIsCutOff
=============================================================================
