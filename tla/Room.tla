-------------------------------- MODULE Room --------------------------------
(***************************************************************************)
(* One live room of the game server: backend/internal/realtime/room.go,    *)
(* with the HTTP and websocket handlers that call it.                      *)
(*                                                                         *)
(* Every method of the room runs under its mutex, so each is one action.   *)
(* What runs concurrently is everything around the lock: a join whose      *)
(* snapshot is still being saved, sockets opening and closing, the phase   *)
(* timer, whose callback may already be waiting for the lock when the      *)
(* phase it belongs to is over, the delayed turns of computer players, and *)
(* a restart of the process between any two steps.                         *)
(*                                                                         *)
(* Cards are counted, not named.  A submission is known by its author: the *)
(* room accepts at most one from each player.                              *)
(***************************************************************************)
EXTENDS Integers, Sequences, FiniteSets, SequencesExt

CONSTANTS Humans,          \* ids newID may issue to people who join
          Computers,       \* ids newID may issue to computer players
          NoPlayer,        \* the empty id: no host, no judge, no author
          HandSize,        \* handSize: cards a player holds at the start of a round
          MinPlayers,      \* minPlayersToStart
          MaxPlayersCeiling,
          DefaultScoreLimit,
          DefaultMaxPlayers,
          ScoreLimits,     \* the values a host may choose for the score limit
          PlayerLimits,    \* the values a host may ask for as the room size
          MaxSockets,      \* bound: open sockets of one player (browser tabs)
          MaxSeq,          \* bound: phases after which no client starts another
          MaxLate,         \* bound: timer callbacks waiting for the lock
          StaleSpan,       \* bound: phases a computer's delay may outlast
          MaxRestarts      \* bound: restarts of the process

Player == Humans \cup Computers

ASSUME PlayersAssumption ==
  /\ Humans \cap Computers = {}
  /\ NoPlayer \notin Player
  /\ IsFiniteSet(Player)
ASSUME SizesAssumption ==
  /\ HandSize \in Nat \ {0}
  /\ MinPlayers \in Nat /\ MinPlayers >= 2
  /\ MaxPlayersCeiling \in Nat /\ MaxPlayersCeiling >= MinPlayers
  /\ DefaultMaxPlayers \in MinPlayers..MaxPlayersCeiling
  /\ DefaultScoreLimit \in ScoreLimits
  /\ ScoreLimits \subseteq Nat \ {0}
  /\ PlayerLimits \subseteq Nat
ASSUME BoundsAssumption ==
  {MaxSockets, MaxSeq, MaxLate, StaleSpan, MaxRestarts} \subseteq Nat

VARIABLES
  \* The clock of the round.
  phase,        \* "lobby", "submitting", "judging", "scoring" or "finished"
  phaseSeq,     \* bumped by every phase change; callbacks remember its value
  deadline,     \* phaseDeadline is set
  timer,        \* phaseSeq of the armed timer that has not fired, or 0
  late,         \* phaseSeq of the timer callbacks that wait for the lock
  turns,        \* the computer callbacks still to run
  \* The game.
  roundNumber, scoreLimit, maxPlayers,
  hostID, judgeID,
  judgeIndex,   \* position of the judge in order, from 0
  isJudge,      \* players whose IsJudge flag is set
  order,        \* the seats, oldest first
  hand,         \* number of cards each player holds
  score,
  subs,         \* authors of this round's submissions
  winners,      \* authors whose submission is marked as the winner
  \* Connections and credentials.
  clients,      \* registered connections of each player (r.clients)
  sockets,      \* open read loops of each player (wsRoom)
  joining,      \* players whose join request has not been answered yet
  holders,      \* players whose client has learned its guest token
  issued,       \* ids issued so far
  restarts,     \* restarts so far
  published     \* what the state observer was last given

clock == <<phase, phaseSeq, deadline, timer>>
judging == <<judgeID, judgeIndex, isJudge>>
table == <<hand, score, subs, winners>>
settings == <<scoreLimit, maxPlayers>>
links == <<clients, sockets>>
joins == <<joining, holders, issued>>
vars == <<clock, late, turns, roundNumber, hostID, judging, order, table,
          settings, links, joins, restarts, published>>

-----------------------------------------------------------------------------
(* The roster.                                                             *)

\* A delayed turn of a computer player, and the phase it was scheduled in.
Turn == [kind : {"answer", "pick"}, by : Computers, seq : Nat]

Phases == {"lobby", "submitting", "judging", "scoring", "finished"}

Roster == Range(order)
SlotOf(p) == CHOOSE i \in DOMAIN order : order[i] = p

\* The first seat of s that belongs to one of the players in Q.
FirstOf(s, Q) ==
  LET mine == {i \in DOMAIN s : s[i] \in Q}
  IN IF mine = {} THEN NoPlayer ELSE s[CHOOSE i \in mine : \A j \in mine : i <= j]

LiveHumans == {h \in Humans : clients[h] > 0}

\* Computer players are connected from the moment they are seated.
Connected(p) == p \in Computers \/ p \in LiveHumans

\* reassignHostLocked: the first connected person, else nobody.
ReassignHost == hostID' = FirstOf(order', LiveHumans')

Clamp(v, lo, hi) == IF v < lo THEN lo ELSE IF v > hi THEN hi ELSE v

-----------------------------------------------------------------------------
(* Snapshots.                                                              *)

StateAt(seq) ==
  [phase |-> phase, phaseSeq |-> seq, deadline |-> deadline,
   roundNumber |-> roundNumber, hostID |-> hostID, judgeID |-> judgeID,
   judgeIndex |-> judgeIndex, isJudge |-> isJudge, order |-> order,
   hand |-> hand, score |-> score, subs |-> subs, winners |-> winners,
   scoreLimit |-> scoreLimit, maxPlayers |-> maxPlayers]

PersistedState == StateAt(phaseSeq)

\* Mutated form of Touch: only phase changes are saved.
TouchOnPhaseChange == published' = IF phaseSeq' = phaseSeq THEN published ELSE PersistedState'
\* touch hands the observer a copy of the room as it is at that moment.
Touch == published' = PersistedState'

\* The checks RestoreRoom makes before it rebuilds a room.
RestoreAccepts(s) ==
  /\ \A i, j \in DOMAIN s.order : s.order[i] = s.order[j] => i = j
  /\ Len(s.order) <= s.maxPlayers
  /\ s.hostID \in Range(s.order) \cup {NoPlayer}
  /\ s.judgeID \in Range(s.order) \cup {NoPlayer}
  /\ s.subs \subseteq Range(s.order)

RestoredSeq(n) == IF n < 1 THEN 1 ELSE n

-----------------------------------------------------------------------------
(* Phases, and the callbacks they arm.                                     *)

\* setPhaseLocked: stop the timer of the old phase, arm one for a timed phase.
SetPhase(p, timed) ==
  /\ phase' = p
  /\ phaseSeq' = phaseSeq + 1
  /\ deadline' = timed
  /\ timer' = IF timed THEN phaseSeq + 1 ELSE 0

KeepPhase == UNCHANGED clock

\* scheduleComputerTurnsLocked, for the state it finds.  Scheduling the same
\* turn twice adds nothing: the second callback finds the turn played.
AnswersDue ==
  {[kind |-> "answer", by |-> c, seq |-> phaseSeq] : c \in
     {c \in Computers \cap Roster :
        phase = "submitting" /\ c # judgeID /\ c \notin subs /\ hand[c] > 0}}
PicksDue ==
  {[kind |-> "pick", by |-> c, seq |-> phaseSeq] : c \in
     {c \in Computers \cap Roster : phase = "judging" /\ c = judgeID /\ subs # {}}}
TurnsDue == AnswersDue \cup PicksDue

ScheduleTurns(pending) == turns' = pending \cup TurnsDue'

AllAnswerersSubmitted ==
  /\ Len(order) > 1
  /\ Cardinality(subs) >= Len(order) - 1

BeginJudging == IF subs' = {} THEN SetPhase("scoring", FALSE)
                              ELSE SetPhase("judging", TRUE)

CloseIfComplete == IF AllAnswerersSubmitted' THEN BeginJudging ELSE KeepPhase

Refill(n) == IF n >= HandSize THEN n ELSE HandSize

\* Mutated form of Returned: played cards are burned.
ReturnedNone(q) == 0
\* The cards a player gets back when a round is skipped or void.
Returned(q) == IF q \in subs THEN 1 ELSE 0

\* beginRoundLocked, with the judge in position idx of the roster.
BeginRound(idx) ==
  /\ roundNumber' = roundNumber + 1
  /\ subs' = {} /\ winners' = {}
  /\ judgeIndex' = idx
  /\ judgeID' = order'[(idx % Len(order')) + 1]
  /\ isJudge' = {judgeID'}
  /\ hand' = [p \in Player |-> IF p \in Roster' THEN Refill(hand[p]) ELSE hand[p]]
  /\ SetPhase("submitting", TRUE)
  /\ ScheduleTurns(turns)
  /\ UNCHANGED settings
  /\ Touch

\* awardLocked.  With no submission to choose, the code would mark one with an
\* empty id and no author.
Award(a) ==
  /\ subs' = subs \cup {a}
  /\ winners' = winners \cup {a}
  /\ score' = IF a \in Roster THEN [score EXCEPT ![a] = @ + 1] ELSE score
  /\ SetPhase(IF a \in Roster /\ score'[a] >= scoreLimit THEN "finished" ELSE "scoring",
              FALSE)
  /\ UNCHANGED <<roundNumber, hostID, judging, order, hand, settings>>
  /\ Touch

\* Everything the observer is told of.
game == <<clock, roundNumber, hostID, judging, order, table, settings>>

-----------------------------------------------------------------------------
(* Joining.                                                                *)

Init ==
  /\ phase = "lobby" /\ phaseSeq = 0 /\ deadline = FALSE /\ timer = 0
  /\ late = {} /\ turns = {}
  /\ roundNumber = 0
  /\ scoreLimit = DefaultScoreLimit /\ maxPlayers = DefaultMaxPlayers
  /\ hostID = NoPlayer /\ judgeID = NoPlayer /\ judgeIndex = 0 /\ isJudge = {}
  /\ order = <<>>
  /\ hand = [p \in Player |-> 0] /\ score = [p \in Player |-> 0]
  /\ subs = {} /\ winners = {}
  /\ clients = [h \in Humans |-> 0] /\ sockets = [h \in Humans |-> 0]
  /\ joining = {} /\ holders = {} /\ issued = {}
  /\ restarts = 0
  /\ published = PersistedState

\* TryJoin: admit a person in any phase while there is a seat.  The handler
\* answers only after the snapshot is saved (JoinSaved) or not (UndoJoin).
TryJoin(h) ==
  /\ h \notin issued
  /\ Len(order) < maxPlayers
  /\ order' = Append(order, h)
  /\ hand' = [hand EXCEPT ![h] = HandSize]
  /\ hostID' = IF hostID = NoPlayer THEN h ELSE hostID
  /\ issued' = issued \cup {h}
  /\ joining' = joining \cup {h}
  /\ UNCHANGED <<clock, late, turns, roundNumber, judging, score, subs, winners,
                 settings, links, holders, restarts>>
  /\ Touch

\* PersistRoom succeeded: the client is given its id and token.
JoinSaved(h) ==
  /\ h \in joining
  /\ joining' = joining \ {h}
  /\ holders' = holders \cup {h}
  /\ UNCHANGED <<game, late, turns, links, issued, restarts, published>>

\* PersistRoom failed: take the seat back, if the room is still in the lobby.
UndoJoin(h) ==
  /\ h \in joining
  /\ joining' = joining \ {h}
  /\ UNCHANGED <<late, turns, links, holders, issued, restarts>>
  /\ IF Connected(h) \/ phase # "lobby"
     THEN UNCHANGED <<game, published>>
     ELSE /\ order' = RemoveAt(order, SlotOf(h))
          /\ hand' = [hand EXCEPT ![h] = 0]
          /\ IF hostID = h THEN ReassignHost ELSE UNCHANGED hostID
          /\ UNCHANGED <<clock, roundNumber, judging, score, subs, winners, settings>>
          /\ Touch

\* Mutated form of HostAfterAttach: an absent host stays host.
HostAfterAttachKept == UNCHANGED hostID
HostAfterAttach == IF hostID \in LiveHumans' THEN UNCHANGED hostID ELSE ReassignHost

\* A websocket arrives with the id and the token of a seated player.
Attach(h) ==
  /\ h \in holders \cap Roster
  /\ sockets[h] < MaxSockets
  /\ sockets' = [sockets EXCEPT ![h] = @ + 1]
  /\ clients' = [clients EXCEPT ![h] = @ + 1]
  /\ UNCHANGED <<clock, late, turns, roundNumber, judging, order, table, settings,
                 joins, restarts>>
  /\ HostAfterAttach
  /\ Touch

\* A read loop ends.  The socket of a player who has left is registered no more.
Detach(h) ==
  /\ sockets[h] > 0
  /\ sockets' = [sockets EXCEPT ![h] = @ - 1]
  /\ clients' = [clients EXCEPT ![h] = IF @ > 0 THEN @ - 1 ELSE 0]
  /\ UNCHANGED <<clock, late, turns, roundNumber, judging, order, table, settings,
                 joins, restarts>>
  /\ IF clients[h] > 0 /\ clients'[h] = 0 /\ hostID = h
     THEN ReassignHost ELSE UNCHANGED hostID
  /\ Touch

-----------------------------------------------------------------------------
(* Commands of a connected client.                                         *)

\* The dispatch loop of wsRoom acts for the player of the socket.
Speaks(p) == p \in Humans /\ sockets[p] > 0

\* computerRoom acts for the person it has just put in a room nobody else knows.
CreatesComputerRoom(p) == p \in joining /\ issued = {p} /\ phase = "lobby"

\* Bound: which clients may still start a phase.
MayStartPhase ==
  /\ phaseSeq < MaxSeq
  /\ \A t \in turns : t.seq + StaleSpan >= phaseSeq

\* A zero field keeps its value; another content tier deals every hand anew.
UpdateSettings(p, limit, seats, retier) ==
  /\ Speaks(p) \/ CreatesComputerRoom(p)
  /\ p = hostID
  /\ phase = "lobby"
  /\ scoreLimit' = limit
  /\ LET floor == IF Len(order) < MinPlayers THEN MinPlayers ELSE Len(order)
     IN maxPlayers' = Clamp(seats, floor, MaxPlayersCeiling)
  /\ hand' = IF retier THEN [q \in Player |-> IF q \in Roster THEN HandSize ELSE hand[q]]
                       ELSE hand
  /\ UNCHANGED <<clock, late, turns, roundNumber, hostID, judging, order, score, subs,
                 winners, links, joins, restarts>>
  /\ Touch

StartGame(p) ==
  /\ Speaks(p)
  /\ p = hostID
  /\ phase = "lobby"
  /\ Len(order) >= MinPlayers
  /\ MayStartPhase
  /\ UNCHANGED <<order, hostID, score>>
  /\ BeginRound(0)
  /\ UNCHANGED <<late, links, joins, restarts>>

\* Fill the lobby to the floor with computer players; the first of them judges.
StartComputerGame(p) ==
  /\ Speaks(p) \/ CreatesComputerRoom(p)
  /\ p = hostID
  /\ phase = "lobby"
  /\ MayStartPhase
  /\ \E seats \in [1..(MinPlayers - Len(order)) -> Computers \ issued] :
       /\ \A i, j \in DOMAIN seats : seats[i] = seats[j] => i = j
       /\ order' = order \o seats
       /\ issued' = issued \cup Range(seats)
  /\ UNCHANGED <<hostID, score>>
  /\ LET cpu == {i \in DOMAIN order' : order'[i] \in Computers}
     IN BeginRound(IF cpu = {} THEN 0 ELSE (CHOOSE i \in cpu : \A j \in cpu : i <= j) - 1)
  /\ UNCHANGED <<late, links, joining, holders, restarts>>

\* submitAnswerLocked: who may play a card, and what playing it does.
MayAnswer(p) ==
  /\ phase = "submitting"
  /\ p # judgeID
  /\ p \in Roster
  /\ p \notin subs
  /\ hand[p] > 0

PlayAnswer(p) ==
  /\ MayAnswer(p)
  /\ hand' = [hand EXCEPT ![p] = @ - 1]
  /\ subs' = subs \cup {p}
  /\ UNCHANGED <<order, roundNumber, hostID, judging, score, winners, settings>>
  /\ CloseIfComplete

SubmitAnswer(p) ==
  /\ Speaks(p)
  /\ PlayAnswer(p)
  /\ ScheduleTurns(turns)
  /\ UNCHANGED <<late, links, joins, restarts>>
  /\ Touch

\* Mutated form of MayPick: without the phase.
MayPickAnyTime(p, a) == p = judgeID /\ a \in subs
MayPick(p, a) ==
  /\ phase = "judging"
  /\ p = judgeID
  /\ a \in subs

PickWinner(p, a) ==
  /\ Speaks(p)
  /\ MayPick(p, a)
  /\ Award(a)
  /\ UNCHANGED <<late, turns, links, joins, restarts>>

NextRound(p) ==
  /\ Speaks(p)
  /\ p = hostID
  /\ phase = "scoring"
  /\ MayStartPhase
  /\ UNCHANGED <<order, hostID, score>>
  /\ BeginRound((judgeIndex + 1) % Len(order))
  /\ UNCHANGED <<late, links, joins, restarts>>

EndGame(p) ==
  /\ Speaks(p)
  /\ p = hostID
  /\ phase # "lobby"
  /\ MayStartPhase
  /\ SetPhase("finished", FALSE)
  /\ UNCHANGED <<late, turns, roundNumber, hostID, judging, order, table, settings,
                 links, joins, restarts>>
  /\ Touch

\* A new prompt: played cards go back to their owners and the clock restarts.
SkipPrompt(p) ==
  /\ Speaks(p)
  /\ p = hostID
  /\ phase = "submitting"
  /\ MayStartPhase
  /\ hand' = [q \in Player |-> hand[q] + Returned(q)]
  /\ subs' = {} /\ winners' = {}
  /\ SetPhase("submitting", TRUE)
  /\ UNCHANGED <<order, judging>>
  /\ ScheduleTurns(turns)
  /\ UNCHANGED <<late, roundNumber, hostID, score, settings, links, joins, restarts>>
  /\ Touch

\* Mutated form of ScoreInRematch: scores carry over.
ScoreInRematchKept(q) == score[q]
ScoreInRematch(q) == 0

PlayAgain(p) ==
  /\ Speaks(p)
  /\ p = hostID
  /\ phase = "finished"
  /\ MayStartPhase
  /\ roundNumber' = 0
  /\ judgeIndex' = 0 /\ judgeID' = NoPlayer /\ isJudge' = {}
  /\ subs' = {} /\ winners' = {}
  /\ score' = [q \in Player |-> ScoreInRematch(q)]
  /\ hand' = [q \in Player |-> IF q \in Roster THEN Refill(hand[q]) ELSE hand[q]]
  /\ SetPhase("lobby", FALSE)
  /\ UNCHANGED <<late, turns, hostID, order, settings, links, joins, restarts>>
  /\ Touch

-----------------------------------------------------------------------------
(* Leaving.                                                                *)

\* Mutated forms of JudgeIndexAfter: without the wrap, and without the step back.
JudgeIndexUnwrapped(gone, n) == IF gone <= judgeIndex THEN judgeIndex - 1 ELSE judgeIndex
JudgeIndexStaying(gone, n) ==
  LET back == IF gone < judgeIndex THEN judgeIndex - 1 ELSE judgeIndex
  IN IF n > 0 THEN back % n ELSE 0
\* Where judgeIndex points when the player in position gone (from 0) has left and
\* n players remain: a seat at or before the judge's shifts it by one.
JudgeIndexAfter(gone, n) ==
  LET back == IF gone <= judgeIndex THEN judgeIndex - 1 ELSE judgeIndex
  IN IF n > 0 THEN back % n ELSE 0

\* removePlayerLocked: give up the seat and everything held in it.
RemovePlayer(p) ==
  LET slot == SlotOf(p)
  IN /\ order' = RemoveAt(order, slot)
     /\ judgeIndex' = JudgeIndexAfter(slot - 1, Len(order'))
     /\ clients' = [clients EXCEPT ![p] = 0]
     /\ score' = [score EXCEPT ![p] = 0]
     /\ winners' = winners \ {p}
     /\ IF hostID # p THEN UNCHANGED hostID
        ELSE LET live == FirstOf(order', LiveHumans')
             IN hostID' = IF live # NoPlayer THEN live ELSE FirstOf(order', Humans)

\* Mutated form of LoseSeat: the card stays on the table.
LoseSeatLeavingAnswer(p) ==
  /\ hand' = [hand EXCEPT ![p] = 0]
  /\ subs' = subs
  /\ isJudge' = isJudge \ {p}
  /\ UNCHANGED judgeID
\* Nothing but the seat changes.
LoseSeat(p) ==
  /\ hand' = [hand EXCEPT ![p] = 0]
  /\ subs' = subs \ {p}
  /\ isJudge' = isJudge \ {p}
  /\ UNCHANGED judgeID

\* The judge of an open round has gone: void it, and give the cards back.
VoidRound(p) ==
  /\ hand' = [q \in Player |-> IF q = p THEN 0 ELSE hand[q] + Returned(q)]
  /\ subs' = {}
  /\ isJudge' = {}
  /\ judgeID' = NoPlayer
  /\ SetPhase("scoring", FALSE)

\* Mutated forms of LossWhileSubmitting: nobody looks whether all have answered, or
\* schedules the computer judge.
LossWhileSubmittingKeepsWaiting == KeepPhase /\ UNCHANGED turns
LossWhileSubmittingForgetsTurns == CloseIfComplete /\ UNCHANGED turns
\* The room may have been waiting only for the player who left.
LossWhileSubmitting ==
  /\ CloseIfComplete
  /\ IF AllAnswerersSubmitted' THEN ScheduleTurns(turns) ELSE UNCHANGED turns

\* Mutated form of LossWhileJudging: the judging of nothing goes on.
LossWhileJudgingKeepsJudging == KeepPhase /\ UNCHANGED turns
\* Their card may have been the only one left to judge.
LossWhileJudging ==
  /\ IF subs' = {} THEN SetPhase("scoring", FALSE) ELSE KeepPhase
  /\ UNCHANGED turns

\* Mutated form of TooFew: off by one.
TooFewTolerant(n) == n < MinPlayers - 1
\* Below the floor there is no game left to play.
TooFew(n) == n < MinPlayers

\* applyRosterLossLocked: what the loss of the seat does to the round.
RosterLoss(p, wasJudge) ==
  IF phase \in {"lobby", "finished"}
  THEN LoseSeat(p) /\ KeepPhase /\ UNCHANGED turns
  ELSE IF TooFew(Len(order'))
  THEN LoseSeat(p) /\ SetPhase("finished", FALSE) /\ UNCHANGED turns
  ELSE IF wasJudge
  THEN VoidRound(p) /\ UNCHANGED turns
  ELSE /\ LoseSeat(p)
       /\ \/ phase = "submitting" /\ LossWhileSubmitting
          \/ phase = "judging" /\ LossWhileJudging
          \/ phase = "scoring" /\ KeepPhase /\ UNCHANGED turns

Leave(p) ==
  /\ Speaks(p)
  /\ p \in Roster
  /\ RemovePlayer(p)
  /\ RosterLoss(p, p \in isJudge /\ phase \in {"submitting", "judging"})
  /\ UNCHANGED <<late, roundNumber, settings, sockets, joins, restarts>>
  /\ Touch

-----------------------------------------------------------------------------
(* Callbacks.                                                              *)

\* The runtime starts the timer's callback; it has yet to take the lock.
TimerFires ==
  /\ timer # 0
  /\ Cardinality(late) < MaxLate
  /\ late' = late \cup {timer}
  /\ timer' = 0
  /\ UNCHANGED <<phase, phaseSeq, deadline, turns, roundNumber, hostID, judging, order,
                 table, settings, links, joins, restarts, published>>

\* Mutated form of DeadlineIsStale: any callback in a timed phase counts.
DeadlineIsStaleNever(seq) == phase \notin {"submitting", "judging"}
\* A callback acts only on the phase it was armed for.
DeadlineIsStale(seq) == seq # phaseSeq \/ phase \notin {"submitting", "judging"}

\* onDeadline.
OnDeadline(seq) ==
  /\ seq \in late
  /\ late' = late \ {seq}
  /\ IF DeadlineIsStale(seq)
     THEN UNCHANGED <<game, turns, published>>
     ELSE /\ IF phase = "submitting"
             THEN /\ UNCHANGED <<roundNumber, hostID, judging, order, table, settings>>
                  /\ BeginJudging
                  /\ Touch
             ELSE \E a \in IF subs = {} THEN {NoPlayer} ELSE subs : Award(a)
          /\ ScheduleTurns(turns)
  /\ UNCHANGED <<links, joins, restarts>>

\* submitComputerAnswer.
SubmitComputerAnswer(t) ==
  /\ t \in turns /\ t.kind = "answer"
  /\ IF t.seq = phaseSeq /\ MayAnswer(t.by)
     THEN /\ PlayAnswer(t.by)
          /\ ScheduleTurns(turns \ {t})
          /\ Touch
     ELSE turns' = turns \ {t} /\ UNCHANGED <<game, published>>
  /\ UNCHANGED <<late, links, joins, restarts>>

\* pickComputerWinner.
PickComputerWinner(t) ==
  /\ t \in turns /\ t.kind = "pick"
  /\ turns' = turns \ {t}
  /\ IF t.seq = phaseSeq /\ phase = "judging" /\ t.by = judgeID /\ t.by \in Roster
        /\ subs # {}
     THEN \E a \in subs : Award(a)
     ELSE UNCHANGED <<game, published>>
  /\ UNCHANGED <<late, links, joins, restarts>>

-----------------------------------------------------------------------------
(* Restarts.                                                               *)

\* Mutated form of ResumedTimer: the deadline is kept but not armed.
ResumedTimerForgotten(due, seq) == 0
\* Resume arms the deadline a snapshot was taken with.
ResumedTimer(due, seq) == IF due THEN seq ELSE 0

\* The process ends, and a successor rebuilds the room: RestoreRoom and Resume.
\* Sockets, unanswered joins and pending callbacks are gone; a deadline is armed
\* again, and one already past fires at once (TimerFires).
Restart ==
  /\ restarts < MaxRestarts
  /\ RestoreAccepts(published)
  /\ restarts' = restarts + 1
  /\ phase' = published.phase /\ phaseSeq' = RestoredSeq(published.phaseSeq)
  /\ deadline' = published.deadline
  /\ timer' = ResumedTimer(published.deadline, RestoredSeq(published.phaseSeq))
  /\ roundNumber' = published.roundNumber
  /\ hostID' = published.hostID
  /\ judgeID' = published.judgeID /\ judgeIndex' = published.judgeIndex
  /\ isJudge' = published.isJudge
  /\ order' = published.order /\ hand' = published.hand /\ score' = published.score
  /\ subs' = published.subs /\ winners' = published.winners
  /\ scoreLimit' = published.scoreLimit /\ maxPlayers' = published.maxPlayers
  /\ clients' = [h \in Humans |-> 0] /\ sockets' = [h \in Humans |-> 0]
  /\ joining' = {}
  /\ late' = {}
  /\ ScheduleTurns({})
  /\ UNCHANGED <<holders, issued, published>>

-----------------------------------------------------------------------------

Joins == \E h \in Humans : TryJoin(h) \/ JoinSaved(h) \/ UndoJoin(h)
Connections == \E h \in Humans : Attach(h) \/ Detach(h)
Commands ==
  \E p \in Humans :
    \/ \E limit \in ScoreLimits \cup {scoreLimit}, seats \in PlayerLimits \cup {maxPlayers},
          retier \in BOOLEAN : UpdateSettings(p, limit, seats, retier)
    \/ StartGame(p) \/ StartComputerGame(p) \/ SubmitAnswer(p)
    \/ \E a \in subs : PickWinner(p, a)
    \/ NextRound(p) \/ EndGame(p) \/ SkipPrompt(p) \/ PlayAgain(p) \/ Leave(p)
Callbacks ==
  \/ TimerFires
  \/ \E seq \in late : OnDeadline(seq)
  \/ \E t \in turns : SubmitComputerAnswer(t) \/ PickComputerWinner(t)

Next == Joins \/ Connections \/ Commands \/ Callbacks \/ Restart

Spec == Init /\ [][Next]_vars

\* time.AfterFunc starts a callback whose time has come, and a callback that
\* waits for the room's mutex is given it.
Fairness ==
  /\ WF_vars(TimerFires)
  /\ WF_vars(\E seq \in late : OnDeadline(seq))
  /\ WF_vars(\E t \in turns : SubmitComputerAnswer(t) \/ PickComputerWinner(t))

FairSpec == Spec /\ Fairness
-----------------------------------------------------------------------------
(* Properties.                                                             *)

ClockTypes ==
  /\ phase \in Phases /\ phaseSeq \in Nat /\ deadline \in BOOLEAN
  /\ timer \in Nat /\ late \subseteq Nat /\ turns \subseteq Turn
GameTypes ==
  /\ roundNumber \in Nat
  /\ scoreLimit \in ScoreLimits /\ maxPlayers \in MinPlayers..MaxPlayersCeiling
  /\ hostID \in Player \cup {NoPlayer} /\ judgeID \in Player \cup {NoPlayer}
  /\ judgeIndex \in Nat /\ isJudge \subseteq Player
TableTypes ==
  /\ order \in Seq(Player)
  /\ hand \in [Player -> Nat] /\ score \in [Player -> Nat]
  /\ subs \subseteq Player \cup {NoPlayer} /\ winners \subseteq subs
LinkTypes ==
  /\ clients \in [Humans -> Nat] /\ sockets \in [Humans -> Nat]
  /\ joining \subseteq Humans /\ holders \subseteq Humans /\ issued \subseteq Player
  /\ restarts \in Nat

\* The type invariant.  Two conjuncts are more than types: the judge's position
\* never goes below the first seat, and only a submission on the table can win.
TypeOK == ClockTypes /\ GameTypes /\ TableTypes /\ LinkTypes

\* While a round is open the room has enough players, one of them is the judge,
\* in the seat judgeIndex points at and the only one so marked, and the judge has
\* not answered; a round on show still has enough players for the next one.
RoundIsPlayable ==
  /\ phase \in {"submitting", "judging", "scoring"} => Len(order) >= MinPlayers
  /\ phase \in {"submitting", "judging"} =>
       /\ judgeIndex < Len(order) /\ judgeID = order[judgeIndex + 1]
       /\ isJudge = {judgeID}
       /\ judgeID \notin subs

\* Judging never goes on over an empty table, where the deadline would award the
\* point to a submission that does not exist.
AnswersToJudge == phase = "judging" => subs # {}

\* The answer phase always waits for a seated player who can still answer: no
\* submission, departure or late arrival leaves it open with everyone done.
WaitsForSomeone ==
  phase = "submitting" => \E p \in Roster : MayAnswer(p)

\* The host is a person with a seat, and a connected one as soon as anyone is.
HostIsPresent ==
  /\ hostID \in (Roster \cap Humans) \cup {NoPlayer}
  /\ LiveHumans # {} => hostID \in LiveHumans

\* A card leaves a hand only by being on the table, whatever skips, departures,
\* void rounds, rematches and restarts do to the round.
HandsConserved ==
  /\ subs \subseteq Roster
  /\ \A p \in Roster : hand[p] + (IF p \in subs THEN 1 ELSE 0) = HandSize

\* No game goes on after a player has reached the score limit, not even when the
\* limit is lowered between games.
NobodyPastTheLimit == phase # "finished" => \A p \in Player : score[p] < scoreLimit

\* Whenever the room waits for a computer player its turn is on the way: no
\* transition forgets to schedule it, no stale callback swallows it.
NoComputerStalls == TurnsDue \subseteq turns

\* The last state handed to the observer is the state of the room: no
\* transition is left out of the snapshots.  (A restart of a room that has not
\* begun moves its sequence number from 0 to 1.)
SnapshotIsCurrent ==
  /\ published = StateAt(published.phaseSeq)
  /\ RestoredSeq(published.phaseSeq) = RestoredSeq(phaseSeq)

\* A snapshot of a lobby or of an open round is one that RestoreRoom accepts.
OpenRoundIsRestorable ==
  phase \in {"lobby", "submitting", "judging"} => RestoreAccepts(published)

\* state.go: a snapshot is the authoritative, recoverable state of an active room.
AlwaysRestorable == RestoreAccepts(published)

\* The answer phase closes early only when everyone has answered, or without its
\* judge; otherwise its own deadline has passed.  A callback of an earlier phase
\* never cuts anyone off, not even after a skip has restarted the clock.
CutsNobodyOff ==
  /\ phase = "submitting" /\ phase' = "judging" =>
       AllAnswerersSubmitted' \/ phaseSeq \in late
  /\ phase = "submitting" /\ phase' = "scoring" =>
       judgeID \notin Roster' \/ (subs = {} /\ phaseSeq \in late)

\* No step of the room cuts anyone off (onDeadline, submitAnswerLocked and
\* applyRosterLossLocked are the ones that end the answer phase).
NobodyIsCutOff == [][CutsNobodyOff]_vars

Rules == INSTANCE GameRules WITH Limits <- ScoreLimits

\* The room plays by the abstract rules: phases in order, a point only for the
\* one winner of a judged round, the game over at the first score at the limit.
PlaysByTheRules == Rules!Spec

\* A phase with a deadline comes to its end, whoever has gone, whatever callbacks
\* are still about and even over a restart.
TimedPhaseEnds ==
  \A s \in 1..(MaxSeq + 3) : (deadline /\ phaseSeq = s) ~> (phaseSeq # s)

=============================================================================
