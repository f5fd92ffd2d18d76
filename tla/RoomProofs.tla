------------------------------ MODULE RoomProofs ------------------------------
(***************************************************************************)
(* Safety of Room for every value of its constants. IInv is the inductive  *)
(* invariant: the properties the runs check, strengthened by what it takes *)
(* to carry them through a departure (no seat is taken twice), through a   *)
(* restart (the snapshot is the room), through the end of a round (nobody  *)
(* wins before it is judged) and through a rematch (a lobby has no scores  *)
(* and no cards on the table).                                             *)
(***************************************************************************)
EXTENDS Room, SequencesExt, SequenceTheorems, WellFoundedInduction, TLAPS

-----------------------------------------------------------------------------
(* Sequences and naturals.                                                 *)

\* Taking out the element in position i, position by position.
LEMMA RemoveAtProperties ==
  ASSUME NEW S, NEW s \in Seq(S), NEW i \in 1..Len(s)
  PROVE  /\ RemoveAt(s, i) \in Seq(S)
         /\ Len(RemoveAt(s, i)) = Len(s) - 1
         /\ \A j \in 1..(Len(s) - 1) :
              RemoveAt(s, i)[j] = IF j < i THEN s[j] ELSE s[j + 1]
<1> DEFINE front == SubSeq(s, 1, i - 1)
           back  == SubSeq(s, i + 1, Len(s))
<1>0. Len(s) \in Nat /\ \A j \in 1..Len(s) : s[j] \in S
  OBVIOUS
<1>1. /\ front \in Seq(S) /\ Len(front) = i - 1
      /\ \A j \in 1..(i - 1) : front[j] = s[j]
  <2>1. \A j \in 1..(i - 1) : s[j] \in S
    BY <1>0
  <2> QED
    BY <2>1, SubSeqProperties
<1>2. /\ back \in Seq(S) /\ Len(back) = Len(s) - i
      /\ \A j \in 1..(Len(s) - i) : back[j] = s[j + i]
  <2>1. \A j \in (i + 1)..Len(s) : s[j] \in S
    BY <1>0
  <2>2. /\ back \in Seq(S)
        /\ Len(back) = IF i + 1 <= Len(s) THEN Len(s) - (i + 1) + 1 ELSE 0
        /\ \A j \in 1..(Len(s) - (i + 1) + 1) : back[j] = s[(i + 1) + j - 1]
    BY <2>1, <1>0, SubSeqProperties
  <2> QED
    BY <2>2, <1>0
<1>3. RemoveAt(s, i) = front \o back
  BY DEF RemoveAt
<1> HIDE DEF front, back
<1>4. /\ front \o back \in Seq(S)
      /\ Len(front \o back) = Len(front) + Len(back)
      /\ \A j \in 1..(Len(front) + Len(back)) :
           (front \o back)[j] = IF j <= Len(front) THEN front[j] ELSE back[j - Len(front)]
  BY <1>1, <1>2, ConcatProperties
<1>5. ASSUME NEW j \in 1..(Len(s) - 1)
      PROVE  (front \o back)[j] = IF j < i THEN s[j] ELSE s[j + 1]
  <2>1. CASE j < i
    BY <2>1, <1>0, <1>1, <1>2, <1>4
  <2>2. CASE ~ (j < i)
    <3>1. j - (i - 1) \in 1..(Len(s) - i) /\ (j - (i - 1)) + i = j + 1
      BY <2>2, <1>0
    <3>2. back[j - (i - 1)] = s[j + 1]
      BY <3>1, <1>2
    <3> QED
      BY <2>2, <3>1, <3>2, <1>0, <1>1, <1>2, <1>4
  <2> QED
    BY <2>1, <2>2
<1> QED
  BY <1>0, <1>1, <1>2, <1>3, <1>4, <1>5

\* Any nonempty set of naturals has a least element.
LEMMA NaturalsHaveMinimum ==
  ASSUME NEW T \in SUBSET Nat, T # {}
  PROVE  \E x \in T : \A y \in T : x <= y
<1> DEFINE Less == {ss \in Nat \X Nat : ss[1] < ss[2]}
<1>1. IsWellFoundedOn(Less, Nat)
  BY NatLessThanWellFounded DEF OpToRel
<1>2. PICK x \in T : \A y \in T : <<y, x>> \notin Less
  <2> HIDE DEF Less
  <2> QED
    BY <1>1, WFMin
<1>3. ASSUME NEW y \in T PROVE x <= y
  BY <1>2, <<y, x>> \in Nat \X Nat, <<y, x>>[1] = y, <<y, x>>[2] = x
<1> QED
  BY <1>3

\* Without repetitions, taking out an element leaves all the others, still without
\* repetitions.
LEMMA RangeAfterRemoveAt ==
  ASSUME NEW S, NEW s \in Seq(S), NEW i \in 1..Len(s),
         \A j, k \in 1..Len(s) : s[j] = s[k] => j = k
  PROVE  /\ Range(RemoveAt(s, i)) = Range(s) \ {s[i]}
         /\ \A j, k \in 1..Len(RemoveAt(s, i)) :
              RemoveAt(s, i)[j] = RemoveAt(s, i)[k] => j = k
<1> DEFINE t == RemoveAt(s, i)
<1>1. /\ t \in Seq(S) /\ Len(t) = Len(s) - 1 /\ Len(s) \in Nat
      /\ \A j \in 1..(Len(s) - 1) : t[j] = IF j < i THEN s[j] ELSE s[j + 1]
  BY RemoveAtProperties
<1> HIDE DEF t
<1>2. DOMAIN s = 1..Len(s) /\ DOMAIN t = 1..Len(t)
  BY <1>1
<1>3. ASSUME NEW j \in 1..Len(t), NEW k \in 1..Len(t), t[j] = t[k]
      PROVE  j = k
  BY <1>1, <1>3
<1>4. ASSUME NEW j \in 1..Len(t)
      PROVE  \E k \in 1..Len(s) : k # i /\ t[j] = s[k]
  BY <1>1, <1>4
<1>5. ASSUME NEW j \in 1..Len(s), j # i
      PROVE  \E k \in 1..Len(t) : t[k] = s[j]
  <2>1. CASE j < i
    BY <1>1, <2>1
  <2>2. CASE j > i
    <3>1. j - 1 \in 1..Len(t) /\ t[j - 1] = s[j]
      BY <1>1, <2>2
    <3> QED
      BY <3>1
  <2> QED
    BY <1>5, <2>1, <2>2
<1>6. Range(t) = Range(s) \ {s[i]}
  <2>1. Range(s) = {s[k] : k \in 1..Len(s)} /\ Range(t) = {t[k] : k \in 1..Len(t)}
    BY <1>2, Zenon DEF Range
  <2>2. ASSUME NEW x \in Range(t) PROVE x \in Range(s) \ {s[i]}
    <3>1. PICK j \in 1..Len(t) : x = t[j]
      BY <2>1, <2>2
    <3>2. PICK k \in 1..Len(s) : k # i /\ x = s[k]
      BY <3>1, <1>4
    <3> QED
      BY <2>1, <3>2
  <2>3. ASSUME NEW x \in Range(s) \ {s[i]} PROVE x \in Range(t)
    <3>1. PICK k \in 1..Len(s) : x = s[k] /\ k # i
      BY <2>1, <2>3
    <3> QED
      BY <3>1, <2>1, <1>5
  <2> QED
    BY <2>2, <2>3
<1> QED
  BY <1>3, <1>6 DEF t

-----------------------------------------------------------------------------
(* The roster.                                                             *)

\* reassignHostLocked finds somebody it was asked to look for, if there is one.
LEMMA FirstOfFinds ==
  ASSUME NEW s \in Seq(Player), NEW Q, Range(s) \cap Q # {}
  PROVE  FirstOf(s, Q) \in Range(s) \cap Q
<1> DEFINE mine == {i \in DOMAIN s : s[i] \in Q}
<1>1. mine # {} /\ mine \in SUBSET Nat
  BY DEF Range
<1>2. \E x \in mine : \A y \in mine : x <= y
  <2> HIDE DEF mine
  <2> QED
    BY <1>1, NaturalsHaveMinimum
<1>3. (CHOOSE x \in mine : \A y \in mine : x <= y) \in mine
  <2> HIDE DEF mine
  <2> QED
    BY <1>2
<1> QED
  BY <1>1, <1>3 DEF FirstOf, Range

\* It names nobody else.
LEMMA FirstOfIsSeated ==
  ASSUME NEW s \in Seq(Player), NEW Q
  PROVE  FirstOf(s, Q) \in (Range(s) \cap Q) \cup {NoPlayer}
<1>1. CASE Range(s) \cap Q = {}
  BY <1>1 DEF FirstOf, Range
<1> QED
  BY <1>1, FirstOfFinds

\* Every seated player has a slot.
LEMMA SlotIsSeat ==
  ASSUME order \in Seq(Player), NEW p \in Roster
  PROVE  SlotOf(p) \in 1..Len(order) /\ order[SlotOf(p)] = p
BY DEF Roster, SlotOf, Range

-----------------------------------------------------------------------------
(* The inductive invariant, in parts.                                      *)

Open == phase \in {"submitting", "judging"}

\* Nobody sits twice, ids are not issued again, the table is never overfull, and
\* the host, if there is one, has a seat.
SeatsInv ==
  /\ \A i, j \in 1..Len(order) : order[i] = order[j] => i = j
  /\ Roster \subseteq issued
  /\ Len(order) <= maxPlayers
  /\ hostID \in Roster \cup {NoPlayer}

\* A join under way holds a seat, and nobody speaks before it is answered.
JoinsInv ==
  /\ joining \subseteq Roster
  /\ joining \cap holders = {}
  /\ holders \subseteq issued
  /\ \A h \in Humans : sockets[h] > 0 => h \in holders

RoundInv ==
  /\ phase \in {"submitting", "judging", "scoring"} => Len(order) >= MinPlayers
  /\ Open => /\ judgeIndex < Len(order)
             /\ judgeID = order[judgeIndex + 1]
             /\ isJudge = {judgeID}
             /\ judgeID \notin subs
             /\ winners = {}
  /\ phase = "judging" => subs # {}
  /\ phase = "lobby" => judgeID = NoPlayer

CardsInv ==
  /\ subs \subseteq Roster
  /\ \A p \in Player : hand[p] <= HandSize
  /\ \A p \in Roster : hand[p] + (IF p \in subs THEN 1 ELSE 0) = HandSize
  /\ phase = "lobby" => subs = {}

ScoresInv ==
  /\ phase = "lobby" => \A p \in Player : score[p] = 0
  /\ phase # "finished" => \A p \in Player : score[p] < scoreLimit

\* Only the sequence number of the first phase after a restart runs ahead.
SnapshotInv == published.phaseSeq \in Nat /\ SnapshotIsCurrent

IInv == TypeOK /\ SeatsInv /\ JoinsInv /\ RoundInv /\ CardsInv /\ ScoresInv /\ SnapshotInv

-----------------------------------------------------------------------------
(* What the shared parts of the actions preserve.                          *)

\* A step that ends with touch.
LEMMA TouchKeepsSnapshot ==
  ASSUME phaseSeq' \in Nat, Touch
  PROVE  SnapshotInv'
BY DEF Touch, SnapshotInv, SnapshotIsCurrent, PersistedState, StateAt

\* A step that publishes nothing, and changes nothing that is published.
LEMMA QuietKeepsSnapshot ==
  ASSUME SnapshotInv, published' = published, PersistedState' = PersistedState
  PROVE  SnapshotInv'
BY DEF SnapshotInv, SnapshotIsCurrent, PersistedState, StateAt

\* A step that leaves the table alone.
LEMMA TableStands ==
  ASSUME RoundInv, CardsInv, ScoresInv,
         UNCHANGED <<phase, judging, order, table, settings>>
  PROVE  RoundInv' /\ CardsInv' /\ ScoresInv'
BY DEF RoundInv, CardsInv, ScoresInv, Open, Roster, judging, table, settings

\* What scheduleComputerTurnsLocked adds is a turn.
LEMMA TurnsTyped ==
  ASSUME phaseSeq' \in Nat, NEW pending \in SUBSET Turn, ScheduleTurns(pending)
  PROVE  turns' \subseteq Turn
BY DEF ScheduleTurns, TurnsDue, AnswersDue, PicksDue, Turn

\* A new room.
LEMMA InitInvariant ==
  ASSUME Init
  PROVE  IInv
<1> USE DEF Init
<1>1. TypeOK
  <2>1. ClockTypes
    BY DEF ClockTypes, Phases
  <2>2. GameTypes
    BY PlayersAssumption, SizesAssumption DEF GameTypes, Player
  <2>3. TableTypes
    BY DEF TableTypes
  <2>4. LinkTypes
    BY DEF LinkTypes
  <2> QED
    BY <2>1, <2>2, <2>3, <2>4 DEF TypeOK
<1>2. SeatsInv
  BY SizesAssumption DEF SeatsInv, Roster, Range
<1>3. JoinsInv
  BY DEF JoinsInv
<1>4. RoundInv
  BY DEF RoundInv, Open
<1>5. CardsInv
  BY SizesAssumption DEF CardsInv, Roster, Range
<1>6. ScoresInv
  BY SizesAssumption DEF ScoresInv
<1>7. SnapshotInv
  BY DEF SnapshotInv, SnapshotIsCurrent, PersistedState, StateAt
<1> QED
  BY <1>1, <1>2, <1>3, <1>4, <1>5, <1>6, <1>7 DEF IInv

\* One lemma for each action follows, in the order of the module.
LEMMA TryJoinKeeps ==
  ASSUME IInv, NEW h \in Humans, TryJoin(h)
  PROVE  IInv'
<1> USE DEF IInv, TypeOK, TryJoin, clock, judging, settings, links
<1>0. h \in Player /\ h # NoPlayer /\ h \notin Roster
  BY PlayersAssumption DEF Player, SeatsInv
<1>1. TypeOK'
  <2>1. ClockTypes'
    BY DEF ClockTypes
  <2>2. GameTypes'
    BY <1>0, SizesAssumption DEF GameTypes
  <2>3. TableTypes'
    BY <1>0, SizesAssumption DEF TableTypes
  <2>4. LinkTypes'
    BY <1>0, SizesAssumption DEF LinkTypes
  <2> QED
    BY <2>1, <2>2, <2>3, <2>4
<1>2. /\ order' \in Seq(Player) /\ Len(order') = Len(order) + 1
      /\ \A i \in 1..Len(order) : order'[i] = order[i]
      /\ order'[Len(order) + 1] = h
      /\ order \in Seq(Player)
  BY <1>0 DEF TableTypes
<1>3. Roster' = Roster \cup {h}
  BY <1>2 DEF Roster, Range
<1>4. SeatsInv'
  <2>1. ASSUME NEW i \in 1..Len(order'), NEW j \in 1..Len(order'), order'[i] = order'[j]
        PROVE  i = j
    <3>1. \A k \in 1..Len(order) : order[k] # h
      BY <1>0, <1>2 DEF Roster, Range
    <3> QED
      BY <1>2, <2>1, <3>1 DEF SeatsInv
  <2>2. Roster' \subseteq issued' /\ hostID' \in Roster' \cup {NoPlayer}
    BY <1>3 DEF SeatsInv
  <2>3. Len(order') <= maxPlayers'
    BY <1>2, SizesAssumption DEF GameTypes
  <2> QED
    BY <2>1, <2>2, <2>3 DEF SeatsInv
<1>5. JoinsInv'
  BY <1>3, PlayersAssumption DEF JoinsInv
<1>6. RoundInv'
  BY <1>2, SizesAssumption DEF RoundInv, Open, GameTypes
<1>7. CardsInv'
  BY <1>0, <1>3, SizesAssumption DEF CardsInv, TableTypes
<1>8. ScoresInv'
  BY DEF ScoresInv
<1>9. SnapshotInv'
  BY TouchKeepsSnapshot DEF ClockTypes
<1> QED
  BY <1>1, <1>4, <1>5, <1>6, <1>7, <1>8, <1>9

\* A step that leaves the game as it is.
LEMMA GameStands ==
  ASSUME IInv, issued \subseteq issued',
         UNCHANGED <<phase, roundNumber, hostID, judging, order, table, settings>>
  PROVE  /\ GameTypes' /\ TableTypes'
         /\ SeatsInv' /\ RoundInv' /\ CardsInv' /\ ScoresInv'
<1>1. GameTypes' /\ TableTypes'
  BY DEF IInv, TypeOK, GameTypes, TableTypes, judging, table, settings
<1>2. SeatsInv'
  BY DEF IInv, SeatsInv, Roster, settings
<1> QED
  BY <1>1, <1>2, TableStands DEF IInv

\* Only players have seats.
LEMMA RosterIsPlayers ==
  ASSUME TableTypes
  PROVE  Roster \subseteq Player
BY DEF TableTypes, Roster, Range

\* What a seat less makes of the table.
LEMMA SeatVacated ==
  ASSUME order \in Seq(Player), NEW p \in Roster, SeatsInv,
         order' = RemoveAt(order, SlotOf(p))
  PROVE  /\ SlotOf(p) \in 1..Len(order) /\ order[SlotOf(p)] = p
         /\ order' \in Seq(Player) /\ Len(order') = Len(order) - 1
         /\ \A j \in 1..Len(order') :
              order'[j] = IF j < SlotOf(p) THEN order[j] ELSE order[j + 1]
         /\ Roster' = Roster \ {p}
         /\ \A i, j \in 1..Len(order') : order'[i] = order'[j] => i = j
<1>1. SlotOf(p) \in 1..Len(order) /\ order[SlotOf(p)] = p
  BY SlotIsSeat
<1>2. \A i, j \in 1..Len(order) : order[i] = order[j] => i = j
  BY DEF SeatsInv
<1>3. /\ order' \in Seq(Player) /\ Len(order') = Len(order) - 1
      /\ \A j \in 1..(Len(order) - 1) :
           order'[j] = IF j < SlotOf(p) THEN order[j] ELSE order[j + 1]
  BY <1>1, RemoveAtProperties
<1>4. /\ Range(order') = Range(order) \ {p}
      /\ \A i, j \in 1..Len(order') : order'[i] = order'[j] => i = j
  BY <1>1, <1>2, RangeAfterRemoveAt
<1> QED
  BY <1>1, <1>3, <1>4 DEF Roster

\* PersistRoom succeeds.
LEMMA JoinSavedKeeps ==
  ASSUME IInv, NEW h \in Humans, JoinSaved(h)
  PROVE  IInv'
<1> USE DEF IInv, TypeOK, JoinSaved, game, clock, links
<1>1. ClockTypes' /\ LinkTypes'
  BY DEF ClockTypes, LinkTypes
<1>2. /\ GameTypes' /\ TableTypes'
      /\ SeatsInv' /\ RoundInv' /\ CardsInv' /\ ScoresInv'
  BY GameStands
<1>3. JoinsInv'
  BY DEF JoinsInv, SeatsInv, Roster
<1>4. SnapshotInv'
  BY QuietKeepsSnapshot DEF PersistedState, StateAt, judging, table, settings
<1> QED
  BY <1>1, <1>2, <1>3, <1>4

\* PersistRoom fails.
LEMMA UndoJoinKeeps ==
  ASSUME IInv, NEW h \in Humans, UndoJoin(h)
  PROVE  IInv'
<1> USE DEF IInv, TypeOK, UndoJoin, links
<1>1. LinkTypes'
  BY DEF LinkTypes
<1>2. CASE Connected(h) \/ phase # "lobby"
  <2> USE <1>2 DEF game, clock
  <2>1. ClockTypes'
    BY DEF ClockTypes
  <2>2. /\ GameTypes' /\ TableTypes'
        /\ SeatsInv' /\ RoundInv' /\ CardsInv' /\ ScoresInv'
    BY GameStands
  <2>3. JoinsInv'
    BY DEF JoinsInv, SeatsInv, Roster
  <2>4. SnapshotInv'
    BY QuietKeepsSnapshot DEF PersistedState, StateAt, judging, table, settings
  <2> QED
    BY <1>1, <2>1, <2>2, <2>3, <2>4
<1>3. CASE ~ (Connected(h) \/ phase # "lobby")
  <2> USE <1>3 DEF clock, judging, settings
  <2>0. /\ h \in Player /\ h # NoPlayer /\ h \in Roster
        /\ order \in Seq(Player) /\ Roster \subseteq Player
        /\ phase = "lobby" /\ phase' = "lobby"
    BY PlayersAssumption, RosterIsPlayers DEF Player, JoinsInv, TableTypes
  <2>1. /\ order' \in Seq(Player) /\ Len(order') = Len(order) - 1
        /\ Roster' = Roster \ {h}
        /\ \A i, j \in 1..Len(order') : order'[i] = order'[j] => i = j
    BY <2>0, SeatVacated
  <2>2. hostID' \in Roster' \cup {NoPlayer}
    BY <2>1, FirstOfIsSeated DEF SeatsInv, ReassignHost, Roster
  <2>3. ClockTypes'
    BY DEF ClockTypes
  <2>4. GameTypes'
    BY <2>0, <2>1, <2>2 DEF GameTypes, TableTypes, Roster, Range
  <2>5. TableTypes'
    BY <2>1 DEF TableTypes
  <2>6. SeatsInv'
    BY <2>0, <2>1, <2>2, SizesAssumption DEF SeatsInv, GameTypes
  <2>7. JoinsInv'
    BY <2>1 DEF JoinsInv
  <2>8. RoundInv'
    BY <2>0 DEF RoundInv, Open
  <2>9. CardsInv'
    <3>1. subs' = {} /\ subs = {}
      BY <2>0 DEF CardsInv
    <3>2. \A q \in Player : hand'[q] = IF q = h THEN 0 ELSE hand[q]
      BY DEF TableTypes
    <3>3. \A q \in Player : hand[q] <= HandSize
      BY DEF CardsInv
    <3>4. \A q \in Roster : hand[q] = HandSize
      BY <2>0, <3>1, SizesAssumption DEF CardsInv, TableTypes
    <3> HIDE DEF IInv, TypeOK, UndoJoin
    <3>5. \A q \in Player : hand'[q] <= HandSize
      BY <3>2, <3>3, SizesAssumption
    <3>6. \A q \in Roster' : hand'[q] + (IF q \in subs' THEN 1 ELSE 0) = HandSize
      BY <2>0, <2>1, <3>1, <3>2, <3>4, SizesAssumption
    <3> QED
      BY <3>1, <3>5, <3>6 DEF CardsInv
  <2>10. ScoresInv'
    BY DEF ScoresInv
  <2>11. SnapshotInv'
    BY TouchKeepsSnapshot DEF ClockTypes
  <2> QED
    BY <1>1, <2>3, <2>4, <2>5, <2>6, <2>7, <2>8, <2>9, <2>10, <2>11
<1> QED
  BY <1>2, <1>3

\* A websocket arrives.
LEMMA AttachKeeps ==
  ASSUME IInv, NEW h \in Humans, Attach(h)
  PROVE  IInv'
<1> USE DEF IInv, TypeOK, Attach, clock, joins
<1>0. h \in holders /\ order \in Seq(Player) /\ Roster' = Roster
  BY DEF TableTypes, Roster
<1>1. hostID' \in Roster' \cup {NoPlayer}
  BY <1>0, FirstOfIsSeated DEF SeatsInv, HostAfterAttach, ReassignHost, Roster
<1>2. ClockTypes'
  BY DEF ClockTypes
<1>3. GameTypes'
  BY <1>0, <1>1 DEF GameTypes, TableTypes, Roster, Range, judging, settings
<1>4. TableTypes' /\ LinkTypes'
  BY BoundsAssumption, SMTT(30) DEF TableTypes, LinkTypes, table
<1>5. SeatsInv'
  BY <1>0, <1>1 DEF SeatsInv, settings
<1>6. JoinsInv'
  BY <1>0 DEF JoinsInv, LinkTypes
<1>7. RoundInv' /\ CardsInv' /\ ScoresInv'
  BY TableStands
<1>8. SnapshotInv'
  BY TouchKeepsSnapshot DEF ClockTypes
<1> QED
  BY <1>2, <1>3, <1>4, <1>5, <1>6, <1>7, <1>8

\* A read loop ends.
LEMMA DetachKeeps ==
  ASSUME IInv, NEW h \in Humans, Detach(h)
  PROVE  IInv'
<1> USE DEF IInv, TypeOK, Detach, clock, joins
<1>0. h \in holders /\ order \in Seq(Player) /\ Roster' = Roster
  BY DEF TableTypes, Roster, JoinsInv
<1>1. hostID' \in Roster' \cup {NoPlayer}
  BY <1>0, FirstOfIsSeated DEF SeatsInv, ReassignHost, Roster
<1>2. ClockTypes'
  BY DEF ClockTypes
<1>3. GameTypes'
  BY <1>0, <1>1 DEF GameTypes, TableTypes, Roster, Range, judging, settings
<1>4. TableTypes' /\ LinkTypes'
  BY DEF TableTypes, LinkTypes, table
<1>5. SeatsInv'
  BY <1>0, <1>1 DEF SeatsInv, settings
<1>6. JoinsInv'
  BY <1>0 DEF JoinsInv, LinkTypes
<1>7. RoundInv' /\ CardsInv' /\ ScoresInv'
  BY TableStands
<1>8. SnapshotInv'
  BY TouchKeepsSnapshot DEF ClockTypes
<1> QED
  BY <1>2, <1>3, <1>4, <1>5, <1>6, <1>7, <1>8

\* The host changes the settings.
LEMMA UpdateSettingsKeeps ==
  ASSUME IInv, NEW p \in Humans, NEW limit \in ScoreLimits \cup {scoreLimit},
         NEW seats \in PlayerLimits \cup {maxPlayers}, NEW retier \in BOOLEAN,
         UpdateSettings(p, limit, seats, retier)
  PROVE  IInv'
<1> USE DEF IInv, TypeOK, UpdateSettings, clock, judging, links, joins
<1>0. /\ phase = "lobby" /\ phase' = "lobby" /\ order' = order /\ Roster' = Roster
      /\ order \in Seq(Player) /\ seats \in Nat /\ limit \in ScoreLimits
  BY SizesAssumption DEF TableTypes, GameTypes, Roster
<1>1. Len(order) <= maxPlayers' /\ maxPlayers' \in MinPlayers..MaxPlayersCeiling
  BY <1>0, SizesAssumption DEF SeatsInv, GameTypes, Clamp
<1>2. ClockTypes' /\ LinkTypes'
  BY DEF ClockTypes, LinkTypes
<1>3. GameTypes'
  BY <1>0, <1>1 DEF GameTypes
<1>4. \A q \in Player : hand'[q] \in {HandSize, hand[q]}
  BY DEF TableTypes
<1>5. hand' \in [Player -> Nat]
  BY SizesAssumption DEF TableTypes
<1>6. TableTypes'
  BY <1>5 DEF TableTypes
<1>7. SeatsInv' /\ JoinsInv'
  BY <1>0, <1>1 DEF SeatsInv, JoinsInv
<1>8. RoundInv'
  BY <1>0 DEF RoundInv, Open
<1>9. CardsInv'
  <2>1. \A q \in Roster : hand[q] = HandSize
    BY <1>0, SizesAssumption, RosterIsPlayers DEF CardsInv, TableTypes
  <2>2. \A q \in Roster : hand'[q] = HandSize
    BY <1>4, <2>1, RosterIsPlayers
  <2>3. subs = {} /\ subs' = {} /\ \A q \in Player : hand[q] <= HandSize
    BY <1>0 DEF CardsInv
  <2> HIDE DEF IInv, TypeOK, UpdateSettings
  <2> QED
    BY <1>0, <1>4, <2>2, <2>3, SizesAssumption DEF CardsInv
<1>10. ScoresInv'
  BY <1>0, SizesAssumption DEF ScoresInv
<1>11. SnapshotInv'
  BY TouchKeepsSnapshot DEF ClockTypes
<1> QED
  BY <1>2, <1>3, <1>6, <1>7, <1>8, <1>9, <1>10, <1>11

\* A round begun over a table that is large enough.
LEMMA BeginRoundKeeps ==
  ASSUME IInv, NEW idx \in Nat, BeginRound(idx),
         order' \in Seq(Player), Len(order') >= MinPlayers, idx < Len(order'),
         UNCHANGED <<score, hostID, late>>, phase # "finished"
  PROVE  /\ ClockTypes' /\ GameTypes' /\ TableTypes'
         /\ RoundInv' /\ CardsInv' /\ ScoresInv' /\ SnapshotInv'
<1> USE DEF IInv, TypeOK
<1>0. /\ Len(order') \in Nat /\ idx % Len(order') = idx
      /\ order'[idx + 1] \in Player
  BY SizesAssumption
<1>1. /\ judgeID' = order'[idx + 1] /\ judgeIndex' = idx /\ isJudge' = {judgeID'}
      /\ subs' = {} /\ winners' = {} /\ phase' = "submitting"
      /\ roundNumber' = roundNumber + 1
      /\ phaseSeq' = phaseSeq + 1 /\ deadline' = TRUE /\ timer' = phaseSeq + 1
      /\ UNCHANGED <<scoreLimit, maxPlayers>>
  BY <1>0 DEF BeginRound, SetPhase, settings
<1>2. \A q \in Player : hand'[q] = IF q \in Roster' THEN Refill(hand[q]) ELSE hand[q]
  BY DEF BeginRound
<1>3. hand' \in [Player -> Nat]
  BY SizesAssumption DEF BeginRound, Refill, TableTypes
<1>4. \A q \in Player : /\ hand'[q] <= HandSize
                        /\ q \in Roster' => hand'[q] = HandSize
  BY <1>2, SizesAssumption DEF CardsInv, TableTypes, Refill
<1>5. ClockTypes'
  <2>1. turns' \subseteq Turn
    BY <1>1, TurnsTyped DEF ClockTypes, BeginRound
  <2> QED
    BY <1>1, <2>1 DEF ClockTypes, Phases
<1>6. GameTypes'
  BY <1>0, <1>1 DEF GameTypes
<1>7. TableTypes'
  BY <1>1, <1>3 DEF TableTypes
<1>8. RoundInv'
  BY <1>0, <1>1 DEF RoundInv, Open
<1>9. CardsInv'
  <2>1. Roster' \subseteq Player
    BY DEF Roster, Range
  <2> HIDE DEF IInv, TypeOK
  <2> QED
    BY <1>1, <1>3, <1>4, <2>1, SizesAssumption DEF CardsInv
<1>10. ScoresInv'
  BY <1>1 DEF ScoresInv
<1>11. SnapshotInv'
  BY <1>1, TouchKeepsSnapshot DEF BeginRound, ClockTypes
<1> QED
  BY <1>5, <1>6, <1>7, <1>8, <1>9, <1>10, <1>11

\* The first round.
LEMMA StartGameKeeps ==
  ASSUME IInv, NEW p \in Humans, StartGame(p)
  PROVE  IInv'
<1> USE DEF IInv, TypeOK, StartGame
<1>1. /\ ClockTypes' /\ GameTypes' /\ TableTypes'
      /\ RoundInv' /\ CardsInv' /\ ScoresInv' /\ SnapshotInv'
  BY BeginRoundKeeps, SizesAssumption DEF TableTypes
<1>2. LinkTypes'
  BY DEF LinkTypes, links, joins
<1>3. SeatsInv' /\ JoinsInv'
  BY DEF SeatsInv, JoinsInv, Roster, BeginRound, settings, links, joins
<1> QED
  BY <1>1, <1>2, <1>3

\* The next round, with the next judge.
LEMMA NextRoundKeeps ==
  ASSUME IInv, NEW p \in Humans, NextRound(p)
  PROVE  IInv'
<1> USE DEF IInv, TypeOK, NextRound
<1>0. /\ order \in Seq(Player) /\ Len(order) >= MinPlayers /\ Len(order) \in Nat \ {0}
      /\ judgeIndex \in Nat
  BY SizesAssumption DEF RoundInv, TableTypes, GameTypes
<1>1. (judgeIndex + 1) % Len(order) \in 0..(Len(order) - 1)
  BY <1>0
<1>2. /\ ClockTypes' /\ GameTypes' /\ TableTypes'
      /\ RoundInv' /\ CardsInv' /\ ScoresInv' /\ SnapshotInv'
  BY <1>0, <1>1, BeginRoundKeeps
<1>3. LinkTypes'
  BY DEF LinkTypes, links, joins
<1>4. SeatsInv' /\ JoinsInv'
  BY DEF SeatsInv, JoinsInv, Roster, BeginRound, settings, links, joins
<1> QED
  BY <1>2, <1>3, <1>4

\* New players seated at the end of the table.
LEMMA SeatsAdded ==
  ASSUME order \in Seq(Player), issued \subseteq Player, SeatsInv,
         NEW k \in Int, NEW seats \in [1..k -> Computers \ issued],
         \A i, j \in DOMAIN seats : seats[i] = seats[j] => i = j,
         order' = order \o seats
  PROVE  /\ order' \in Seq(Player)
         /\ Len(order') = Len(order) + (IF k > 0 THEN k ELSE 0)
         /\ Roster' = Roster \cup Range(seats)
         /\ Range(seats) \subseteq Player
         /\ \A i, j \in 1..Len(order') : order'[i] = order'[j] => i = j
<1> DEFINE n == IF k > 0 THEN k ELSE 0
<1>1. /\ n \in Nat /\ seats \in [1..n -> Computers \ issued] /\ DOMAIN seats = 1..n
      /\ Computers \ issued \subseteq Player
  BY DEF Player
<1> HIDE DEF n
<1>2. seats \in Seq(Player) /\ Len(seats) = n
  BY <1>1
<1>3. /\ order' \in Seq(Player) /\ Len(order') = Len(order) + n
      /\ \A i \in 1..(Len(order) + n) :
           order'[i] = IF i <= Len(order) THEN order[i] ELSE seats[i - Len(order)]
  <2>1. PICK t \in Seq(Player) : t = seats
    BY <1>2
  <2>2. /\ order \o t \in Seq(Player) /\ Len(order \o t) = Len(order) + Len(t)
        /\ \A i \in 1..(Len(order) + Len(t)) :
             (order \o t)[i] = IF i <= Len(order) THEN order[i] ELSE t[i - Len(order)]
    BY ConcatProperties
  <2> QED
    BY <1>2, <2>1, <2>2
<1>4. Range(seats) \subseteq Player \ issued
  BY <1>1 DEF Range
<1>5. ASSUME NEW x \in Roster' PROVE x \in Roster \cup Range(seats)
  BY <1>1, <1>3, <1>5 DEF Roster, Range
<1>6. ASSUME NEW x \in Roster PROVE x \in Roster'
  <2>1. PICK i \in 1..Len(order) : x = order[i]
    BY <1>6 DEF Roster, Range
  <2>2. i \in DOMAIN order' /\ order'[i] = x
    BY <1>1, <1>3, <2>1
  <2> QED
    BY <2>2 DEF Roster, Range
<1>7. ASSUME NEW x \in Range(seats) PROVE x \in Roster'
  <2>1. PICK i \in 1..n : x = seats[i]
    BY <1>1, <1>7 DEF Range
  <2>2. Len(order) + i \in DOMAIN order' /\ order'[Len(order) + i] = x
    BY <1>1, <1>3, <2>1
  <2> QED
    BY <2>2 DEF Roster, Range
<1>8. ASSUME NEW i \in 1..Len(order'), NEW j \in 1..Len(order'), order'[i] = order'[j]
      PROVE  i = j
  <2>1. \A m \in 1..Len(order) : order[m] \in issued
    BY DEF SeatsInv, Roster, Range
  <2>2. \A m \in 1..n : seats[m] \notin issued
    BY <1>1
  <2> QED
    BY <1>1, <1>3, <1>8, <2>1, <2>2 DEF SeatsInv
<1> QED
  BY <1>3, <1>4, <1>5, <1>6, <1>7, <1>8 DEF n

\* The first round with computer players at the table.
LEMMA StartComputerGameKeeps ==
  ASSUME IInv, NEW p \in Humans, StartComputerGame(p)
  PROVE  IInv'
<1> USE DEF IInv, TypeOK
<1>0. /\ order \in Seq(Player) /\ issued \subseteq Player /\ phase = "lobby"
      /\ UNCHANGED <<hostID, score, late, links, joining, holders, restarts>>
  BY DEF StartComputerGame, TableTypes, LinkTypes
<1>1. PICK seats \in [1..(MinPlayers - Len(order)) -> Computers \ issued] :
        /\ \A i, j \in DOMAIN seats : seats[i] = seats[j] => i = j
        /\ order' = order \o seats
        /\ issued' = issued \cup Range(seats)
  BY DEF StartComputerGame
<1> DEFINE k == MinPlayers - Len(order)
<1>2. k \in Int
  BY <1>0, SizesAssumption
<1>3. /\ order' \in Seq(Player)
      /\ Len(order') = Len(order) + (IF k > 0 THEN k ELSE 0)
      /\ Roster' = Roster \cup Range(seats)
      /\ Range(seats) \subseteq Player
      /\ \A i, j \in 1..Len(order') : order'[i] = order'[j] => i = j
  BY <1>0, <1>1, <1>2, SeatsAdded, Zenon
<1>4. Len(order') \in Nat /\ Len(order') >= MinPlayers /\ Len(order') <= maxPlayers
  BY <1>0, <1>3, SizesAssumption DEF SeatsInv, GameTypes
<1>5. \E idx \in 0..(Len(order') - 1) : BeginRound(idx)
  <2> DEFINE cpu == {i \in DOMAIN order' : order'[i] \in Computers}
             first == CHOOSE i \in cpu : \A j \in cpu : i <= j
  <2>1. BeginRound(IF cpu = {} THEN 0 ELSE first - 1)
    BY DEF StartComputerGame
  <2>2. CASE cpu = {}
    BY <1>4, <2>1, <2>2, SizesAssumption
  <2>3. CASE cpu # {}
    <3>1. cpu \subseteq 1..Len(order')
      BY <1>3
    <3>2. first \in cpu
      <4> HIDE DEF cpu
      <4>1. cpu \in SUBSET Nat
        BY <3>1
      <4>2. \E x \in cpu : \A y \in cpu : x <= y
        BY <2>3, <4>1, NaturalsHaveMinimum
      <4> QED
        BY <4>2
    <3> HIDE DEF cpu, first
    <3> QED
      BY <1>4, <2>1, <2>3, <3>1, <3>2
  <2> QED
    BY <2>2, <2>3
<1>6. /\ ClockTypes' /\ GameTypes' /\ TableTypes'
      /\ RoundInv' /\ CardsInv' /\ ScoresInv' /\ SnapshotInv'
  <2>1. PICK idx \in 0..(Len(order') - 1) : BeginRound(idx)
    BY <1>5
  <2>2. idx \in Nat /\ idx < Len(order')
    BY <1>4
  <2> QED
    BY <1>0, <1>3, <1>4, <2>1, <2>2, BeginRoundKeeps
<1>7. LinkTypes'
  BY <1>0, <1>1, <1>3 DEF LinkTypes, links
<1>8. maxPlayers' = maxPlayers
  BY <1>5 DEF BeginRound, settings
<1>9. SeatsInv' /\ JoinsInv'
  BY <1>0, <1>1, <1>3, <1>4, <1>8 DEF SeatsInv, JoinsInv, links
<1> QED
  BY <1>6, <1>7, <1>9

\* setPhaseLocked.
LEMMA PhaseSet ==
  ASSUME phaseSeq \in Nat, NEW p \in Phases, NEW timed \in BOOLEAN, SetPhase(p, timed)
  PROVE  /\ phase' = p /\ phase' \in Phases
         /\ phaseSeq' \in Nat /\ deadline' \in BOOLEAN /\ timer' \in Nat
<1>1. phaseSeq' \in Nat /\ timer' \in Nat
  BY DEF SetPhase
<1>2. phase' = p /\ deadline' \in BOOLEAN
  BY Zenon DEF SetPhase
<1> QED
  BY <1>1, <1>2

\* Closing the answers, or not yet.
LEMMA AnswersMayClose ==
  ASSUME ClockTypes, BeginJudging \/ CloseIfComplete, phase = "submitting"
  PROVE  /\ phaseSeq' \in Nat /\ deadline' \in BOOLEAN /\ timer' \in Nat
         /\ phase' \in {"submitting", "judging", "scoring"}
         /\ phase' = "judging" => subs' # {}
<1>1. CASE BeginJudging
  <2>1. CASE subs' = {} /\ SetPhase("scoring", FALSE)
    BY <2>1, PhaseSet DEF Phases, ClockTypes
  <2>2. CASE subs' # {} /\ SetPhase("judging", TRUE)
    BY <2>2, PhaseSet DEF Phases, ClockTypes
  <2> QED
    BY <1>1, <2>1, <2>2 DEF BeginJudging
<1>2. CASE KeepPhase
  BY <1>2 DEF KeepPhase, clock, ClockTypes
<1> QED
  BY <1>1, <1>2 DEF CloseIfComplete

\* A card is played, by a person or by a computer player.
LEMMA PlayAnswerKeeps ==
  ASSUME IInv, NEW p \in Player, PlayAnswer(p),
         NEW pending \in SUBSET Turn, ScheduleTurns(pending),
         UNCHANGED <<late, links, joins, restarts>>, Touch
  PROVE  IInv'
<1> USE DEF IInv, TypeOK
<1>0. /\ phase = "submitting" /\ p # judgeID /\ p \in Roster /\ p \notin subs /\ hand[p] > 0
      /\ hand' = [hand EXCEPT ![p] = @ - 1]
      /\ subs' = subs \cup {p}
      /\ order' = order /\ Roster' = Roster
      /\ UNCHANGED <<roundNumber, hostID, judgeID, judgeIndex, isJudge, score, winners,
                     scoreLimit, maxPlayers>>
  BY DEF PlayAnswer, MayAnswer, Roster, judging, settings
<1>1. /\ phaseSeq' \in Nat /\ deadline' \in BOOLEAN /\ timer' \in Nat
      /\ phase' \in {"submitting", "judging", "scoring"}
      /\ phase' = "judging" => subs' # {}
  BY <1>0, AnswersMayClose DEF PlayAnswer
<1>2. ClockTypes'
  <2>1. turns' \subseteq Turn
    BY <1>1, TurnsTyped
  <2> QED
    BY <1>1, <2>1 DEF ClockTypes, Phases
<1>3. GameTypes' /\ LinkTypes'
  BY <1>0 DEF GameTypes, LinkTypes, links, joins
<1>4. hand' \in [Player -> Nat]
  BY <1>0 DEF TableTypes
<1>5. TableTypes'
  BY <1>0, <1>4 DEF TableTypes
<1>6. SeatsInv' /\ JoinsInv'
  BY <1>0 DEF SeatsInv, JoinsInv, links, joins
<1>7. RoundInv'
  BY <1>0, <1>1 DEF RoundInv, Open
<1>8. CardsInv'
  <2>1. \A q \in Player : hand'[q] = IF q = p THEN hand[p] - 1 ELSE hand[q]
    BY <1>0 DEF TableTypes
  <2>2. /\ \A q \in Player : hand[q] <= HandSize /\ hand[q] \in Nat
        /\ \A q \in Roster : hand[q] + (IF q \in subs THEN 1 ELSE 0) = HandSize
        /\ subs \subseteq Roster /\ Roster \subseteq Player
    BY RosterIsPlayers DEF CardsInv, TableTypes
  <2> HIDE DEF IInv, TypeOK
  <2>3. \A q \in Player : hand'[q] <= HandSize
    BY <2>1, <2>2, SizesAssumption
  <2>4. \A q \in Roster' : hand'[q] + (IF q \in subs' THEN 1 ELSE 0) = HandSize
    BY <1>0, <2>1, <2>2, SizesAssumption
  <2> QED
    BY <1>0, <1>1, <2>2, <2>3, <2>4 DEF CardsInv
<1>9. ScoresInv'
  BY <1>0, <1>1 DEF ScoresInv
<1>10. SnapshotInv'
  BY <1>1, TouchKeepsSnapshot
<1> QED
  BY <1>2, <1>3, <1>5, <1>6, <1>7, <1>8, <1>9, <1>10

\* A person plays a card.
LEMMA SubmitAnswerKeeps ==
  ASSUME IInv, NEW p \in Humans, SubmitAnswer(p)
  PROVE  IInv'
BY PlayAnswerKeeps DEF SubmitAnswer, IInv, TypeOK, ClockTypes, Player

\* A submission on the table wins.
LEMMA AwardKeeps ==
  ASSUME IInv, phase = "judging", NEW a \in subs, Award(a),
         turns' \subseteq Turn, late' \subseteq Nat, UNCHANGED <<links, joins, restarts>>
  PROVE  IInv'
<1> USE DEF IInv, TypeOK
<1>0. /\ a \in Roster /\ a \in Player
      /\ subs' = subs /\ winners' = winners \cup {a}
      /\ score' = [score EXCEPT ![a] = @ + 1]
      /\ phase' = IF score'[a] >= scoreLimit THEN "finished" ELSE "scoring"
      /\ order' = order /\ Roster' = Roster
      /\ UNCHANGED <<roundNumber, hostID, judgeID, judgeIndex, isJudge, hand,
                     scoreLimit, maxPlayers>>
  BY RosterIsPlayers DEF Award, CardsInv, SetPhase, Roster, judging, settings
<1>1. ClockTypes'
  <2>1. PICK next \in Phases : SetPhase(next, FALSE)
    BY DEF Award, Phases
  <2> QED
    BY <2>1, PhaseSet DEF ClockTypes
<1>2. GameTypes' /\ LinkTypes'
  BY <1>0 DEF GameTypes, LinkTypes, links, joins
<1>3. TableTypes'
  BY <1>0 DEF TableTypes
<1>4. SeatsInv' /\ JoinsInv'
  BY <1>0 DEF SeatsInv, JoinsInv, links, joins
<1>5. RoundInv' /\ CardsInv'
  BY <1>0 DEF RoundInv, CardsInv, Open
<1>6. ScoresInv'
  <2>1. \A q \in Player : score'[q] = IF q = a THEN score[a] + 1 ELSE score[q]
    BY <1>0 DEF TableTypes
  <2>2. scoreLimit \in Nat /\ score \in [Player -> Nat]
    BY SizesAssumption DEF GameTypes, TableTypes
  <2> QED
    BY <1>0, <2>1, <2>2 DEF ScoresInv
<1>7. SnapshotInv'
  BY <1>1, TouchKeepsSnapshot DEF Award, ClockTypes
<1> QED
  BY <1>1, <1>2, <1>3, <1>4, <1>5, <1>6, <1>7

\* The judge picks a winner.
LEMMA PickWinnerKeeps ==
  ASSUME IInv, NEW p \in Humans, NEW a \in subs, PickWinner(p, a)
  PROVE  IInv'
BY AwardKeeps DEF PickWinner, MayPick, IInv, TypeOK, ClockTypes

\* The host ends the game.
LEMMA EndGameKeeps ==
  ASSUME IInv, NEW p \in Humans, EndGame(p)
  PROVE  IInv'
<1> USE DEF IInv, TypeOK, EndGame
<1>0. phase' = "finished"
  BY DEF SetPhase
<1>1. ClockTypes'
  BY PhaseSet DEF ClockTypes, Phases
<1>2. GameTypes' /\ TableTypes' /\ LinkTypes'
  BY DEF GameTypes, TableTypes, LinkTypes, judging, table, settings, links, joins
<1>3. SeatsInv' /\ JoinsInv'
  BY DEF SeatsInv, JoinsInv, Roster, settings, links, joins
<1>4. RoundInv' /\ CardsInv' /\ ScoresInv'
  BY <1>0 DEF RoundInv, CardsInv, ScoresInv, Open, Roster, table
<1>5. SnapshotInv'
  BY <1>1, TouchKeepsSnapshot DEF ClockTypes
<1> QED
  BY <1>1, <1>2, <1>3, <1>4, <1>5

\* The host skips the prompt.
LEMMA SkipPromptKeeps ==
  ASSUME IInv, NEW p \in Humans, SkipPrompt(p)
  PROVE  IInv'
<1> USE DEF IInv, TypeOK
<1>0. /\ phase = "submitting" /\ phase' = "submitting"
      /\ phaseSeq' = phaseSeq + 1 /\ deadline' = TRUE /\ timer' = phaseSeq + 1
      /\ subs' = {} /\ winners' = {}
      /\ hand' = [q \in Player |-> hand[q] + Returned(q)]
      /\ ScheduleTurns(turns) /\ Touch /\ order' = order /\ Roster' = Roster
      /\ UNCHANGED <<late, roundNumber, hostID, judgeID, judgeIndex, isJudge, score,
                     scoreLimit, maxPlayers, links, joins, restarts>>
  BY DEF SkipPrompt, SetPhase, Roster, judging, settings
<1>1. ClockTypes'
  <2>1. turns' \subseteq Turn
    BY <1>0, TurnsTyped DEF ClockTypes
  <2> QED
    BY <1>0, <2>1 DEF ClockTypes
<1>2. GameTypes' /\ LinkTypes'
  BY <1>0 DEF GameTypes, LinkTypes, links, joins
<1>3. \A q \in Player : /\ hand[q] \in Nat /\ hand'[q] \in Nat
                        /\ hand'[q] = hand[q] + (IF q \in subs THEN 1 ELSE 0)
  BY <1>0 DEF TableTypes, Returned
<1>4. TableTypes'
  BY <1>0, <1>3 DEF TableTypes
<1>5. SeatsInv' /\ JoinsInv'
  BY <1>0 DEF SeatsInv, JoinsInv, links, joins
<1>6. RoundInv' /\ ScoresInv'
  BY <1>0 DEF RoundInv, ScoresInv, Open
<1>7. CardsInv'
  <2>1. Roster \subseteq Player
    BY RosterIsPlayers
  <2>2. /\ subs \subseteq Roster
        /\ \A q \in Player : hand[q] <= HandSize
        /\ \A q \in Roster : hand[q] + (IF q \in subs THEN 1 ELSE 0) = HandSize
    BY DEF CardsInv
  <2> HIDE DEF IInv, TypeOK
  <2>3. \A q \in Roster' : hand'[q] = HandSize
    BY <1>0, <1>3, <2>1, <2>2
  <2>4. \A q \in Player : hand'[q] <= HandSize
    BY <1>3, <2>2, SizesAssumption
  <2> QED
    BY <1>0, <2>3, <2>4, SizesAssumption DEF CardsInv
<1>8. SnapshotInv'
  BY <1>0, TouchKeepsSnapshot DEF ClockTypes
<1> QED
  BY <1>1, <1>2, <1>4, <1>5, <1>6, <1>7, <1>8

\* The host takes everybody back to the lobby.
LEMMA PlayAgainKeeps ==
  ASSUME IInv, NEW p \in Humans, PlayAgain(p)
  PROVE  IInv'
<1> USE DEF IInv, TypeOK
<1>0. /\ phase' = "lobby" /\ roundNumber' = 0
      /\ judgeIndex' = 0 /\ judgeID' = NoPlayer /\ isJudge' = {}
      /\ subs' = {} /\ winners' = {}
      /\ score' = [q \in Player |-> 0]
      /\ hand' = [q \in Player |-> IF q \in Roster THEN Refill(hand[q]) ELSE hand[q]]
      /\ SetPhase("lobby", FALSE) /\ Touch /\ Roster' = Roster
      /\ UNCHANGED <<late, turns, hostID, order, scoreLimit, maxPlayers, links, joins,
                     restarts>>
  BY DEF PlayAgain, SetPhase, Roster, settings, ScoreInRematch
<1>1. ClockTypes'
  BY <1>0, PhaseSet DEF ClockTypes, Phases
<1>2. GameTypes' /\ LinkTypes'
  BY <1>0 DEF GameTypes, LinkTypes, links, joins
<1>3. \A q \in Player : /\ hand'[q] \in Nat /\ hand'[q] <= HandSize
                        /\ q \in Roster => hand'[q] = HandSize
  BY <1>0, SizesAssumption DEF CardsInv, TableTypes, Refill
<1>4. TableTypes'
  BY <1>0, <1>3 DEF TableTypes
<1>5. SeatsInv' /\ JoinsInv'
  BY <1>0 DEF SeatsInv, JoinsInv, links, joins
<1>6. RoundInv'
  BY <1>0 DEF RoundInv, Open
<1>7. CardsInv'
  <2>1. Roster \subseteq Player
    BY RosterIsPlayers
  <2> HIDE DEF IInv, TypeOK
  <2> QED
    BY <1>0, <1>3, <2>1, SizesAssumption DEF CardsInv
<1>8. ScoresInv'
  BY <1>0, SizesAssumption DEF ScoresInv, GameTypes
<1>9. SnapshotInv'
  BY <1>0, <1>1, TouchKeepsSnapshot DEF ClockTypes
<1> QED
  BY <1>1, <1>2, <1>4, <1>5, <1>6, <1>7, <1>8, <1>9

\* The outcomes of a departure: the round goes on without the player, who was not
\* its judge, or is void, or over.
LEMMA LossOutcomes ==
  ASSUME IInv, NEW p \in Player,
         RosterLoss(p, p \in isJudge /\ phase \in {"submitting", "judging"})
  PROVE  /\ phase' \in Phases
         /\ phaseSeq' \in Nat /\ deadline' \in BOOLEAN /\ timer' \in Nat
         /\ turns' \subseteq Turn
         /\ phase' = "lobby" => phase = "lobby"
         /\ phase' = "submitting" => phase = "submitting"
         /\ phase' # "finished" => phase # "finished"
         /\ phase' \in {"submitting", "judging", "scoring"} => ~ TooFew(Len(order'))
         /\ phase' = "judging" => subs' # {}
         /\ \/ LoseSeat(p) /\ (Open' => Open /\ p \notin isJudge)
            \/ VoidRound(p) /\ Open /\ phase' = "scoring"
<1> USE DEF IInv, TypeOK
<1>0. phaseSeq \in Nat /\ turns \subseteq Turn /\ phase \in Phases
  BY DEF ClockTypes
<1>1. CASE phase \in {"lobby", "finished"}
  <2>1. LoseSeat(p) /\ KeepPhase /\ UNCHANGED turns
    BY <1>1 DEF RosterLoss
  <2> QED
    BY <1>1, <2>1 DEF KeepPhase, clock, ClockTypes, Open
<1>2. CASE phase \notin {"lobby", "finished"} /\ TooFew(Len(order'))
  <2>1. LoseSeat(p) /\ SetPhase("finished", FALSE) /\ UNCHANGED turns
    BY <1>2 DEF RosterLoss
  <2> QED
    BY <1>0, <2>1, PhaseSet DEF Phases, Open
<1>3. CASE Open /\ ~ TooFew(Len(order')) /\ p \in isJudge
  <2>1. VoidRound(p) /\ UNCHANGED turns
    BY <1>3 DEF RosterLoss, Open
  <2>2. SetPhase("scoring", FALSE)
    BY <2>1 DEF VoidRound
  <2> QED
    BY <1>0, <1>3, <2>1, <2>2, PhaseSet DEF Phases, Open
<1>4. CASE phase = "submitting" /\ ~ TooFew(Len(order')) /\ p \notin isJudge
  <2>1. LoseSeat(p) /\ LossWhileSubmitting
    BY <1>4 DEF RosterLoss
  <2>2. /\ phaseSeq' \in Nat /\ deadline' \in BOOLEAN /\ timer' \in Nat
        /\ phase' \in {"submitting", "judging", "scoring"}
        /\ phase' = "judging" => subs' # {}
    BY <1>4, <2>1, AnswersMayClose DEF LossWhileSubmitting
  <2>3. turns' \subseteq Turn
    BY <1>0, <2>1, <2>2, TurnsTyped DEF LossWhileSubmitting
  <2> QED
    BY <1>4, <2>1, <2>2, <2>3 DEF Phases, Open
<1>5. CASE phase = "judging" /\ ~ TooFew(Len(order')) /\ p \notin isJudge
  <2>1. LoseSeat(p) /\ LossWhileJudging
    BY <1>5 DEF RosterLoss
  <2>2. CASE subs' = {}
    <3>1. SetPhase("scoring", FALSE) /\ UNCHANGED turns
      BY <2>1, <2>2 DEF LossWhileJudging
    <3> QED
      BY <1>0, <1>5, <2>1, <3>1, PhaseSet DEF Phases, Open
  <2>3. CASE subs' # {}
    <3>1. KeepPhase /\ UNCHANGED turns
      BY <2>1, <2>3 DEF LossWhileJudging
    <3> QED
      BY <1>0, <1>5, <2>1, <2>3, <3>1 DEF KeepPhase, clock, ClockTypes, Open
  <2> QED
    BY <2>2, <2>3
<1>6. CASE phase = "scoring" /\ ~ TooFew(Len(order'))
  <2>1. LoseSeat(p) /\ KeepPhase /\ UNCHANGED turns
    BY <1>6 DEF RosterLoss
  <2> QED
    BY <1>6, <2>1 DEF KeepPhase, clock, ClockTypes, Open
<1> QED
  BY <1>0, <1>1, <1>2, <1>3, <1>4, <1>5, <1>6 DEF Phases, Open

\* The judge's position follows the judge when somebody else leaves.
LEMMA JudgeStaysInPlace ==
  ASSUME NEW n \in Nat, NEW gone \in 0..n, judgeIndex \in 0..n, gone # judgeIndex
  PROVE  /\ JudgeIndexAfter(gone, n) \in 0..(n - 1)
         /\ JudgeIndexAfter(gone, n) = IF gone < judgeIndex THEN judgeIndex - 1 ELSE judgeIndex
<1>1. n > 0
  OBVIOUS
<1>2. \A i \in 0..(n - 1) : i % n = i
  BY <1>1
<1> QED
  BY <1>1, <1>2 DEF JudgeIndexAfter

\* A player leaves for good: every part of the invariant is at stake.
LEMMA LeaveKeeps ==
  ASSUME IInv, NEW p \in Humans, Leave(p)
  PROVE  IInv'
<1> USE DEF IInv, TypeOK
<1>0. /\ p \in Player /\ p \in Roster /\ Roster \subseteq Player
      /\ RemovePlayer(p) /\ Touch
      /\ UNCHANGED <<late, roundNumber, scoreLimit, maxPlayers, sockets, joins, restarts>>
  BY RosterIsPlayers DEF Leave, Player, settings
<1>1. /\ SlotOf(p) \in 1..Len(order) /\ order[SlotOf(p)] = p
      /\ order' \in Seq(Player) /\ Len(order') = Len(order) - 1
      /\ \A j \in 1..Len(order') :
           order'[j] = IF j < SlotOf(p) THEN order[j] ELSE order[j + 1]
      /\ Roster' = Roster \ {p}
      /\ \A i, j \in 1..Len(order') : order'[i] = order'[j] => i = j
  BY <1>0, SeatVacated DEF RemovePlayer, TableTypes
<1>2. /\ judgeIndex' = JudgeIndexAfter(SlotOf(p) - 1, Len(order'))
      /\ score' = [score EXCEPT ![p] = 0]
      /\ winners' = winners \ {p}
      /\ clients' = [clients EXCEPT ![p] = 0]
  BY <1>0 DEF RemovePlayer
<1>3. /\ phase' \in Phases
      /\ phaseSeq' \in Nat /\ deadline' \in BOOLEAN /\ timer' \in Nat
      /\ turns' \subseteq Turn
      /\ phase' = "lobby" => phase = "lobby"
      /\ phase' # "finished" => phase # "finished"
      /\ phase' \in {"submitting", "judging", "scoring"} => ~ TooFew(Len(order'))
      /\ phase' = "judging" => subs' # {}
      /\ \/ LoseSeat(p) /\ (Open' => Open /\ p \notin isJudge)
         \/ VoidRound(p) /\ Open /\ phase' = "scoring"
  BY <1>0, LossOutcomes DEF Leave
<1>4. hostID' \in Roster' \cup {NoPlayer}
  BY <1>0, <1>1, FirstOfIsSeated DEF RemovePlayer, SeatsInv, Roster
<1>5. judgeIndex' \in Nat
  <2>1. Len(order') \in Nat /\ judgeIndex \in Int /\ SlotOf(p) \in Int
    BY <1>1 DEF GameTypes
  <2>2. CASE Len(order') = 0
    BY <1>2, <2>2 DEF JudgeIndexAfter
  <2>3. CASE Len(order') > 0
    <3>1. \A i \in Int : i % Len(order') \in Nat
      BY <2>1, <2>3
    <3> QED
      BY <1>2, <2>1, <2>3, <3>1 DEF JudgeIndexAfter
  <2> QED
    BY <2>1, <2>2, <2>3
<1>6. /\ judgeID' \in {judgeID, NoPlayer}
      /\ isJudge' \subseteq isJudge
      /\ subs' \subseteq subs \ {p}
      /\ winners' \subseteq subs'
      /\ phase = "lobby" => judgeID' = judgeID
  BY <1>2, <1>3 DEF LoseSeat, VoidRound, RoundInv, TableTypes, Open
<1>7. \A q \in Player :
        /\ hand'[q] \in Nat
        /\ hand'[q] = IF q = p THEN 0
                      ELSE IF LoseSeat(p) THEN hand[q]
                      ELSE hand[q] + (IF q \in subs THEN 1 ELSE 0)
  <2>1. hand \in [Player -> Nat]
    BY DEF TableTypes
  <2>2. CASE LoseSeat(p)
    BY <1>0, <2>1, <2>2 DEF LoseSeat
  <2>3. CASE ~ LoseSeat(p)
    <3>1. hand' = [q \in Player |-> IF q = p THEN 0 ELSE hand[q] + Returned(q)]
      BY <1>3, <2>3 DEF VoidRound
    <3> HIDE DEF IInv, TypeOK
    <3> QED
      BY <2>1, <2>3, <3>1 DEF Returned
  <2> QED
    BY <2>2, <2>3
<1>8. hand' \in [Player -> Nat]
  <2>1. hand' = [q \in Player |-> hand'[q]]
    BY <1>3 DEF LoseSeat, VoidRound, TableTypes
  <2> QED
    BY <1>7, <2>1
<1>9. ClockTypes'
  BY <1>0, <1>3 DEF ClockTypes
<1>10. GameTypes'
  BY <1>0, <1>1, <1>4, <1>5, <1>6 DEF GameTypes
<1>11. TableTypes'
  BY <1>0, <1>1, <1>2, <1>6, <1>8 DEF TableTypes
<1>12. LinkTypes'
  BY <1>0, <1>2 DEF LinkTypes, joins
<1>13. SeatsInv'
  BY <1>0, <1>1, <1>4 DEF SeatsInv, GameTypes, joins
<1>14. JoinsInv'
  <2>1. p \in holders
    BY DEF JoinsInv, Leave, Speaks
  <2> QED
    BY <1>0, <1>1, <2>1 DEF JoinsInv, joins
<1>15. RoundInv'
  <2>1. phase' \in {"submitting", "judging", "scoring"} => Len(order') >= MinPlayers
    BY <1>1, <1>3, SizesAssumption DEF TooFew
  <2>2. phase' = "lobby" => judgeID' = NoPlayer
    BY <1>3, <1>6 DEF RoundInv
  <2>3. ASSUME Open'
        PROVE  /\ judgeIndex' < Len(order')
               /\ judgeID' = order'[judgeIndex' + 1]
               /\ isJudge' = {judgeID'}
               /\ judgeID' \notin subs'
               /\ winners' = {}
    <3>1. LoseSeat(p) /\ Open /\ p \notin isJudge
      BY <1>3, <2>3 DEF Open
    <3>2. /\ judgeIndex < Len(order) /\ judgeID = order[judgeIndex + 1]
          /\ isJudge = {judgeID} /\ judgeID \notin subs /\ winners = {}
      BY <3>1 DEF RoundInv
    <3>3. /\ judgeID' = judgeID /\ isJudge' = {judgeID} /\ subs' = subs \ {p}
          /\ winners' = {}
      BY <1>2, <3>1, <3>2 DEF LoseSeat
    <3>4. judgeIndex # SlotOf(p) - 1
      BY <1>1, <3>1, <3>2
    <3>5. /\ Len(order') \in Nat /\ SlotOf(p) - 1 \in 0..Len(order')
          /\ judgeIndex \in 0..Len(order')
      BY <1>1, <3>2 DEF GameTypes
    <3>6. /\ judgeIndex' \in 0..(Len(order') - 1)
          /\ judgeIndex' = IF SlotOf(p) - 1 < judgeIndex THEN judgeIndex - 1 ELSE judgeIndex
      BY <1>2, <3>4, <3>5, JudgeStaysInPlace
    <3>7. order'[judgeIndex' + 1] = order[judgeIndex + 1]
      BY <1>1, <3>4, <3>5, <3>6, SMTT(30)
    <3> QED
      BY <3>2, <3>3, <3>5, <3>6, <3>7
  <2> QED
    BY <1>3, <2>1, <2>2, <2>3 DEF RoundInv, Open
<1>16. CardsInv'
  <2>1. /\ subs \subseteq Roster
        /\ \A q \in Player : hand[q] <= HandSize /\ hand[q] \in Nat
        /\ \A q \in Roster : hand[q] + (IF q \in subs THEN 1 ELSE 0) = HandSize
        /\ phase = "lobby" => subs = {}
    BY DEF CardsInv, TableTypes
  <2>2. LoseSeat(p) => subs' = subs \ {p}
    BY DEF LoseSeat
  <2>3. ~ LoseSeat(p) => subs' = {}
    BY <1>3 DEF VoidRound
  <2> HIDE DEF IInv, TypeOK
  <2>4. \A q \in Player : hand'[q] <= HandSize
    BY <1>0, <1>7, <2>1, SizesAssumption
  <2>5. \A q \in Roster' : hand'[q] + (IF q \in subs' THEN 1 ELSE 0) = HandSize
    BY <1>0, <1>1, <1>7, <2>1, <2>2, <2>3, SizesAssumption
  <2> QED
    BY <1>1, <1>3, <1>6, <2>1, <2>4, <2>5 DEF CardsInv
<1>17. ScoresInv'
  <2>1. scoreLimit \in Nat \ {0} /\ \A q \in Player : score'[q] \in {0, score[q]}
    BY <1>2, SizesAssumption DEF GameTypes, TableTypes
  <2> QED
    BY <1>0, <1>3, <2>1 DEF ScoresInv
<1>18. SnapshotInv'
  BY <1>0, <1>3, TouchKeepsSnapshot
<1> QED
  BY <1>9, <1>10, <1>11, <1>12, <1>13, <1>14, <1>15, <1>16, <1>17, <1>18

\* The runtime starts the callback of the phase timer.
LEMMA TimerFiresKeeps ==
  ASSUME IInv, TimerFires
  PROVE  IInv'
<1> USE DEF IInv, TypeOK, TimerFires, links, joins
<1>1. ClockTypes' /\ LinkTypes'
  BY DEF ClockTypes, LinkTypes
<1>2. /\ GameTypes' /\ TableTypes'
      /\ SeatsInv' /\ RoundInv' /\ CardsInv' /\ ScoresInv'
  BY GameStands
<1>3. JoinsInv'
  BY DEF JoinsInv, SeatsInv, Roster
<1>4. SnapshotInv'
  BY QuietKeepsSnapshot DEF PersistedState, StateAt, judging, table, settings
<1> QED
  BY <1>1, <1>2, <1>3, <1>4

\* A callback that finds its moment gone.
LEMMA StaleCallbackKeeps ==
  ASSUME IInv, late' \subseteq late, turns' \subseteq turns,
         UNCHANGED <<game, published, links, joins, restarts>>
  PROVE  IInv'
<1> USE DEF IInv, TypeOK, game, clock, links, joins
<1>1. ClockTypes' /\ LinkTypes'
  BY DEF ClockTypes, LinkTypes
<1>2. /\ GameTypes' /\ TableTypes'
      /\ SeatsInv' /\ RoundInv' /\ CardsInv' /\ ScoresInv'
  BY GameStands
<1>3. JoinsInv'
  BY DEF JoinsInv, SeatsInv, Roster
<1>4. SnapshotInv'
  BY QuietKeepsSnapshot DEF PersistedState, StateAt, judging, table, settings
<1> QED
  BY <1>1, <1>2, <1>3, <1>4

\* The callback of the phase timer takes the lock.
LEMMA OnDeadlineKeeps ==
  ASSUME IInv, NEW seq \in late, OnDeadline(seq)
  PROVE  IInv'
<1> USE DEF IInv, TypeOK
<1>0. late' \subseteq late /\ UNCHANGED <<links, joins, restarts>>
  BY DEF OnDeadline
<1>1. CASE DeadlineIsStale(seq)
  BY <1>0, <1>1, StaleCallbackKeeps DEF OnDeadline
<1>2. CASE ~ DeadlineIsStale(seq) /\ phase = "submitting"
  <2>1. /\ BeginJudging /\ Touch /\ ScheduleTurns(turns)
        /\ UNCHANGED <<roundNumber, hostID, judging, order, table, settings>>
    BY <1>2 DEF OnDeadline
  <2>2. /\ phaseSeq' \in Nat /\ deadline' \in BOOLEAN /\ timer' \in Nat
        /\ phase' \in {"submitting", "judging", "scoring"}
        /\ phase' = "judging" => subs' # {}
    BY <1>2, <2>1, AnswersMayClose
  <2>3. ClockTypes'
    <3>1. turns' \subseteq Turn
      BY <2>1, <2>2, TurnsTyped DEF ClockTypes
    <3> QED
      BY <1>0, <2>2, <3>1 DEF ClockTypes, Phases
  <2>4. GameTypes' /\ TableTypes' /\ LinkTypes'
    BY <1>0, <2>1 DEF GameTypes, TableTypes, LinkTypes, judging, table, settings, links, joins
  <2>5. SeatsInv' /\ JoinsInv'
    BY <1>0, <2>1 DEF SeatsInv, JoinsInv, Roster, settings, links, joins
  <2>6. RoundInv'
    BY <1>2, <2>1, <2>2 DEF RoundInv, Open, judging, table
  <2>7. CardsInv' /\ ScoresInv'
    BY <1>2, <2>1, <2>2 DEF CardsInv, ScoresInv, Roster, table, settings
  <2>8. SnapshotInv'
    BY <2>1, <2>2, TouchKeepsSnapshot
  <2> QED
    BY <2>3, <2>4, <2>5, <2>6, <2>7, <2>8
<1>3. CASE ~ DeadlineIsStale(seq) /\ phase # "submitting"
  <2>1. phase = "judging" /\ subs # {}
    BY <1>3 DEF DeadlineIsStale, RoundInv
  <2>2. ScheduleTurns(turns) /\ \E a \in subs : Award(a)
    BY <1>3, <2>1 DEF OnDeadline
  <2>3. PICK a \in subs : Award(a)
    BY <2>2
  <2>4. phaseSeq' \in Nat
    BY <2>3 DEF Award, SetPhase, ClockTypes
  <2>5. turns' \subseteq Turn
    BY <2>2, <2>4, TurnsTyped DEF ClockTypes
  <2>6. late' \subseteq Nat
    BY <1>0 DEF ClockTypes
  <2> QED
    BY <1>0, <2>1, <2>3, <2>5, <2>6, AwardKeeps
<1> QED
  BY <1>1, <1>2, <1>3

\* A computer player plays a card.
LEMMA SubmitComputerAnswerKeeps ==
  ASSUME IInv, NEW t \in turns, SubmitComputerAnswer(t)
  PROVE  IInv'
<1> USE DEF IInv, TypeOK
<1>0. turns \subseteq Turn /\ t.by \in Player /\ UNCHANGED <<late, links, joins, restarts>>
  BY DEF ClockTypes, Turn, Player, SubmitComputerAnswer
<1>1. CASE t.seq = phaseSeq /\ MayAnswer(t.by)
  <2>1. PlayAnswer(t.by) /\ ScheduleTurns(turns \ {t}) /\ Touch
    BY <1>1 DEF SubmitComputerAnswer
  <2>2. turns \ {t} \in SUBSET Turn
    BY <1>0
  <2> QED
    BY <1>0, <2>1, <2>2, PlayAnswerKeeps
<1>2. CASE ~ (t.seq = phaseSeq /\ MayAnswer(t.by))
  <2>1. turns' \subseteq turns /\ late' \subseteq late /\ UNCHANGED <<game, published>>
    BY <1>0, <1>2 DEF SubmitComputerAnswer
  <2> QED
    BY <1>0, <2>1, StaleCallbackKeeps
<1> QED
  BY <1>1, <1>2

\* A computer player judges.
LEMMA PickComputerWinnerKeeps ==
  ASSUME IInv, NEW t \in turns, PickComputerWinner(t)
  PROVE  IInv'
<1> USE DEF IInv, TypeOK
<1>0. /\ turns' \subseteq turns /\ turns \subseteq Turn /\ late' = late /\ late \subseteq Nat
      /\ UNCHANGED <<links, joins, restarts>>
  BY DEF ClockTypes, PickComputerWinner
<1> DEFINE timely == /\ t.seq = phaseSeq /\ phase = "judging" /\ t.by = judgeID
                     /\ t.by \in Roster /\ subs # {}
<1>1. CASE timely
  <2>1. PICK a \in subs : Award(a)
    BY <1>1 DEF PickComputerWinner
  <2> QED
    BY <1>0, <1>1, <2>1, AwardKeeps
<1>2. CASE ~ timely
  <2>1. UNCHANGED <<game, published>>
    BY <1>2 DEF PickComputerWinner
  <2> QED
    BY <1>0, <2>1, StaleCallbackKeeps
<1> QED
  BY <1>1, <1>2

\* The successor process finds in the snapshot the room as it was.
LEMMA RestartKeeps ==
  ASSUME IInv, Restart
  PROVE  IInv'
<1> USE DEF IInv, TypeOK
<1>0. published = StateAt(published.phaseSeq) /\ published.phaseSeq \in Nat
  BY DEF SnapshotInv, SnapshotIsCurrent
<1>1. /\ published.phase = phase /\ published.deadline = deadline
      /\ published.roundNumber = roundNumber /\ published.hostID = hostID
      /\ published.judgeID = judgeID /\ published.judgeIndex = judgeIndex
      /\ published.isJudge = isJudge /\ published.order = order
      /\ published.hand = hand /\ published.score = score
      /\ published.subs = subs /\ published.winners = winners
      /\ published.scoreLimit = scoreLimit /\ published.maxPlayers = maxPlayers
  BY <1>0 DEF StateAt
<1>2. /\ UNCHANGED <<phase, roundNumber, hostID, judging, order, table, settings>>
      /\ deadline' = deadline /\ issued' = issued /\ holders' = holders
      /\ published' = published /\ late' = {} /\ joining' = {} /\ restarts' = restarts + 1
      /\ clients' = [h \in Humans |-> 0] /\ sockets' = [h \in Humans |-> 0]
      /\ ScheduleTurns({})
      /\ phaseSeq' = RestoredSeq(published.phaseSeq)
      /\ timer' = ResumedTimer(deadline, phaseSeq')
  BY <1>1 DEF Restart, judging, table, settings
<1>3. phaseSeq' \in Nat /\ timer' \in Nat
  BY <1>0, <1>2 DEF RestoredSeq, ResumedTimer
<1>4. ClockTypes'
  <2>1. turns' \subseteq Turn
    BY <1>2, <1>3, TurnsTyped
  <2> QED
    BY <1>2, <1>3, <2>1 DEF ClockTypes
<1>5. /\ GameTypes' /\ TableTypes'
      /\ SeatsInv' /\ RoundInv' /\ CardsInv' /\ ScoresInv'
  BY <1>2, GameStands
<1>6. LinkTypes' /\ JoinsInv'
  BY <1>2 DEF LinkTypes, JoinsInv
<1>7. SnapshotInv'
  <2>1. published = StateAt(published.phaseSeq)'
    BY <1>0, <1>2 DEF StateAt, judging, table, settings
  <2>2. RestoredSeq(published.phaseSeq) = RestoredSeq(phaseSeq')
    BY <1>0, <1>2 DEF RestoredSeq
  <2> QED
    BY <1>0, <1>2, <2>1, <2>2 DEF SnapshotInv, SnapshotIsCurrent, RestoredSeq
<1> QED
  BY <1>4, <1>5, <1>6, <1>7

-----------------------------------------------------------------------------
(* The invariant holds throughout.                                         *)

\* A step of something else.
LEMMA StutterKeeps ==
  ASSUME IInv, UNCHANGED vars
  PROVE  IInv'
<1>1. late' \subseteq late /\ turns' \subseteq turns
      /\ UNCHANGED <<game, published, links, joins, restarts>>
  BY DEF vars, game
<1> QED
  BY <1>1, StaleCallbackKeeps

\* Every step of the room.
LEMMA NextKeeps ==
  ASSUME IInv, Next
  PROVE  IInv'
<1>1. CASE Joins
  BY <1>1, TryJoinKeeps, JoinSavedKeeps, UndoJoinKeeps DEF Joins
<1>2. CASE Connections
  BY <1>2, AttachKeeps, DetachKeeps DEF Connections
<1>3. CASE Commands
  <2>1. PICK p \in Humans :
          \/ \E limit \in ScoreLimits \cup {scoreLimit}, seats \in PlayerLimits \cup {maxPlayers},
                retier \in BOOLEAN : UpdateSettings(p, limit, seats, retier)
          \/ StartGame(p) \/ StartComputerGame(p) \/ SubmitAnswer(p)
          \/ \E a \in subs : PickWinner(p, a)
          \/ NextRound(p) \/ EndGame(p) \/ SkipPrompt(p) \/ PlayAgain(p) \/ Leave(p)
    BY <1>3 DEF Commands
  <2> QED
    BY <2>1, UpdateSettingsKeeps, StartGameKeeps, StartComputerGameKeeps, SubmitAnswerKeeps,
       PickWinnerKeeps, NextRoundKeeps, EndGameKeeps, SkipPromptKeeps, PlayAgainKeeps,
       LeaveKeeps
<1>4. CASE Callbacks
  BY <1>4, TimerFiresKeeps, OnDeadlineKeeps, SubmitComputerAnswerKeeps,
     PickComputerWinnerKeeps DEF Callbacks
<1>5. CASE Restart
  BY <1>5, RestartKeeps
<1> QED
  BY <1>1, <1>2, <1>3, <1>4, <1>5 DEF Next

\* The invariant of the proof holds in every reachable state of the room, for any
\* number of players, cards, phases and restarts.
THEOREM InvariantHolds == Spec => []IInv
<1>1. Init => IInv
  BY InitInvariant
<1>2. IInv /\ [Next]_vars => IInv'
  BY NextKeeps, StutterKeeps
<1> QED
  BY <1>1, <1>2, PTL DEF Spec

\* Every variable keeps its type, judgeIndex is never negative, and only a
\* submission on the table can be marked as the winner.
THEOREM TypesHold == Spec => []TypeOK
<1>1. IInv => TypeOK
  BY DEF IInv
<1> QED
  BY <1>1, InvariantHolds, PTL

\* An open round has enough players, and its judge sits where judgeIndex points,
\* whoever joins, leaves or comes back after a restart.
THEOREM RoundsArePlayable == Spec => []RoundIsPlayable
<1>1. IInv => RoundIsPlayable
  BY DEF IInv, RoundInv, RoundIsPlayable, Open
<1> QED
  BY <1>1, InvariantHolds, PTL

\* There is always an answer to judge: onDeadline never awards the point to a
\* submission that does not exist.
THEOREM JudgingHasAnswers == Spec => []AnswersToJudge
<1>1. IInv => AnswersToJudge
  BY DEF IInv, RoundInv, AnswersToJudge
<1> QED
  BY <1>1, InvariantHolds, PTL

\* Every seated player has a full hand, counting the card on the table.
THEOREM CardsAreConserved == Spec => []HandsConserved
<1>1. IInv => HandsConserved
  BY DEF IInv, CardsInv, HandsConserved
<1> QED
  BY <1>1, InvariantHolds, PTL

\* Only a finished game has a player at the score limit.
THEOREM LimitEndsTheGame == Spec => []NobodyPastTheLimit
<1>1. IInv => NobodyPastTheLimit
  BY DEF IInv, ScoresInv, NobodyPastTheLimit
<1> QED
  BY <1>1, InvariantHolds, PTL

\* No transition is left out of the snapshots.
THEOREM SnapshotsAreCurrent == Spec => []SnapshotIsCurrent
<1>1. IInv => SnapshotIsCurrent
  BY DEF IInv, SnapshotInv
<1> QED
  BY <1>1, InvariantHolds, PTL

\* RestoreRoom accepts every snapshot of a lobby or of an open round.
THEOREM OpenRoundsAreRestorable == Spec => []OpenRoundIsRestorable
<1>1. ASSUME IInv, phase \in {"lobby", "submitting", "judging"}
      PROVE  RestoreAccepts(published)
  <2>1. published = StateAt(published.phaseSeq)
    BY <1>1 DEF IInv, SnapshotInv, SnapshotIsCurrent
  <2>2. /\ published.order = order /\ published.maxPlayers = maxPlayers
        /\ published.hostID = hostID /\ published.judgeID = judgeID
        /\ published.subs = subs
    BY <2>1 DEF StateAt
  <2>3. /\ order \in Seq(Player)
        /\ \A i, j \in 1..Len(order) : order[i] = order[j] => i = j
        /\ Len(order) <= maxPlayers
        /\ hostID \in Roster \cup {NoPlayer} /\ subs \subseteq Roster
    BY <1>1 DEF IInv, TypeOK, TableTypes, SeatsInv, CardsInv
  <2>4. judgeID \in Roster \cup {NoPlayer}
    <3>1. CASE phase = "lobby"
      BY <1>1, <3>1 DEF IInv, RoundInv
    <3>2. CASE Open
      <4>1. judgeIndex \in Nat /\ judgeIndex < Len(order) /\ judgeID = order[judgeIndex + 1]
        BY <1>1, <3>2 DEF IInv, RoundInv, TypeOK, GameTypes
      <4> QED
        BY <2>3, <4>1 DEF Roster, Range
    <3> QED
      BY <1>1, <3>1, <3>2 DEF Open
  <2> QED
    BY <2>2, <2>3, <2>4 DEF RestoreAccepts, Roster
<1>2. IInv => OpenRoundIsRestorable
  BY <1>1 DEF OpenRoundIsRestorable
<1> QED
  BY <1>2, InvariantHolds, PTL
=============================================================================
