-------------------------- MODULE RoomRotationProofs --------------------------
(***************************************************************************)
(* The judge's seat goes round the table: RotationInOrder for every number *)
(* of players, joins, departures and restarts.                             *)
(*                                                                         *)
(* The room knows the judge of a round only as a position in order, which  *)
(* a departure shifts.  The proof relates that position to the table as it *)
(* was when the round began: the players still seated keep the order they  *)
(* had then, newcomers sit behind them, and the position is that of the    *)
(* last player who sat at or before the judge (FrontBehind) or, once these *)
(* have all gone, is behind everyone who was there (FrontGone).            *)
(***************************************************************************)
EXTENDS RoomRotation, RoomProofs

-----------------------------------------------------------------------------
(* Seats in two tables.  s is the table as the round began, k the judge's  *)
(* slot in it, o the table now, and i the position the room keeps, from 0. *)

Distinct(s) == \A u, v \in 1..Len(s) : s[u] = s[v] => u = v

\* The players of s still in o sit there in the same order, and nobody new
\* before them.
SameOrder(o, s) ==
  \A a, b \in 1..Len(o), v \in 1..Len(s) :
    a < b /\ o[b] = s[v] => \E u \in 1..(v - 1) : o[a] = s[u]

UpTo(s, k) == {s[u] : u \in 1..k}

FrontBehind(o, s, k, i) == \A a \in 1..Len(o) : a <= i + 1 <=> o[a] \in UpTo(s, k)
FrontGone(o, s, k, i) ==
  /\ \A a \in 1..Len(o) : o[a] \notin UpTo(s, k)
  /\ \A a \in 1..Len(o) : o[a] \in Range(s) => a <= i + 1

InStep(o, s, k, i) ==
  /\ i < Len(o)
  /\ SameOrder(o, s)
  /\ FrontBehind(o, s, k, i) \/ FrontGone(o, s, k, i)

\* The elements of a sequence by position.
LEMMA RangeByPosition ==
  ASSUME NEW S, NEW s \in Seq(S)
  PROVE  Range(s) = {s[v] : v \in 1..Len(s)}
BY DOMAIN s = 1..Len(s), Zenon DEF Range

\* Who sits at or before slot k has a slot at or before it.
LEMMA UpToBySlot ==
  ASSUME NEW s \in Seq(Player), Distinct(s), NEW k \in 1..Len(s),
         NEW u \in 1..Len(s), s[u] \in UpTo(s, k)
  PROVE  u <= k
<1>1. PICK w \in 1..k : s[u] = s[w]
  BY DEF UpTo
<1>2. w \in 1..Len(s)
  OBVIOUS
<1> QED
  BY <1>1, <1>2 DEF Distinct

\* A round begins with the two tables the same.
LEMMA InStepAtFirst ==
  ASSUME NEW s \in Seq(Player), Distinct(s), NEW i \in 0..(Len(s) - 1)
  PROVE  InStep(s, s, i + 1, i)
<1>1. SameOrder(s, s)
  BY DEF Distinct, SameOrder
<1>2. ASSUME NEW a \in 1..Len(s) PROVE a <= i + 1 <=> s[a] \in UpTo(s, i + 1)
  <2>1. \A u \in 1..(i + 1) : u \in 1..Len(s)
    OBVIOUS
  <2>2. s[a] \in UpTo(s, i + 1) <=> \E u \in 1..(i + 1) : s[a] = s[u]
    BY DEF UpTo
  <2>3. (\E u \in 1..(i + 1) : s[a] = s[u]) <=> a \in 1..(i + 1)
    BY <2>1 DEF Distinct
  <2> QED
    BY <2>2, <2>3
<1> QED
  BY <1>1, <1>2 DEF InStep, FrontBehind

\* Someone who was not there sits down at the end.
LEMMA InStepAfterJoin ==
  ASSUME NEW o \in Seq(Player), NEW s \in Seq(Player), NEW k \in 1..Len(s), NEW i \in Nat,
         InStep(o, s, k, i), NEW h \in Player, h \notin Range(s)
  PROVE  InStep(Append(o, h), s, k, i)
<1> DEFINE t == Append(o, h)
<1>1. /\ Len(t) = Len(o) + 1 /\ Len(o) \in Nat
      /\ \A a \in 1..Len(o) : t[a] = o[a]
      /\ t[Len(o) + 1] = h
  OBVIOUS
<1>2. \A v \in 1..Len(s) : h # s[v]
  BY RangeByPosition
<1>3. h \notin UpTo(s, k)
  BY <1>2 DEF UpTo
<1> HIDE DEF t
<1>4. \A a \in 1..Len(t) : a \in 1..Len(o) \/ a = Len(o) + 1
  BY <1>1
<1>5. SameOrder(t, s)
  <2> SUFFICES ASSUME NEW a \in 1..Len(t), NEW b \in 1..Len(t), NEW v \in 1..Len(s),
                      a < b, t[b] = s[v]
               PROVE  \E u \in 1..(v - 1) : t[a] = s[u]
    BY DEF SameOrder
  <2>1. b \in 1..Len(o) /\ a \in 1..Len(o)
    BY <1>1, <1>2, <1>4
  <2> QED
    BY <1>1, <2>1 DEF InStep, SameOrder
<1>6. i < Len(t) /\ Len(o) + 1 > i + 1
  BY <1>1 DEF InStep
<1>7. CASE FrontBehind(o, s, k, i)
  <2>1. FrontBehind(t, s, k, i)
    BY <1>1, <1>3, <1>4, <1>6, <1>7 DEF FrontBehind
  <2> QED
    BY <1>5, <1>6, <2>1 DEF InStep, t
<1>8. CASE FrontGone(o, s, k, i)
  <2>1. FrontGone(t, s, k, i)
    BY <1>1, <1>3, <1>4, <1>6, <1>8 DEF FrontGone
  <2> QED
    BY <1>5, <1>6, <2>1 DEF InStep, t
<1> QED
  BY <1>7, <1>8 DEF InStep

\* Where judgeIndex goes when someone leaves: along with the seat it points at, one
\* back when that seat is taken out, and to the end from the first.
LEMMA StepBack ==
  ASSUME judgeIndex \in Nat, NEW n \in Nat \ {0}, judgeIndex < n + 1, NEW g \in 0..n
  PROVE  JudgeIndexAfter(g, n) =
           IF g > judgeIndex THEN judgeIndex
           ELSE IF judgeIndex > 0 THEN judgeIndex - 1 ELSE n - 1
<1>1. \A x \in 0..(n - 1) : x % n = x
  OBVIOUS
<1>2. (-1) % n = n - 1
  OBVIOUS
<1> QED
  BY <1>1, <1>2 DEF JudgeIndexAfter

\* Someone leaves.
LEMMA InStepAfterLoss ==
  ASSUME NEW o \in Seq(Player), NEW s \in Seq(Player), NEW k \in 1..Len(s),
         judgeIndex \in Nat, InStep(o, s, k, judgeIndex),
         NEW g \in 1..Len(o), Len(o) > 1
  PROVE  InStep(RemoveAt(o, g), s, k, JudgeIndexAfter(g - 1, Len(o) - 1))
<1> DEFINE t == RemoveAt(o, g)
           i == JudgeIndexAfter(g - 1, Len(o) - 1)
           was(a) == IF a < g THEN a ELSE a + 1
<1>1. /\ t \in Seq(Player) /\ Len(t) = Len(o) - 1 /\ Len(o) \in Nat
      /\ \A a \in 1..Len(t) : t[a] = o[was(a)]
  <2>1. /\ t \in Seq(Player) /\ Len(t) = Len(o) - 1 /\ Len(o) \in Nat
        /\ \A a \in 1..(Len(o) - 1) : t[a] = IF a < g THEN o[a] ELSE o[a + 1]
    <3>1. Len(o) \in Nat
      OBVIOUS
    <3>2. /\ RemoveAt(o, g) \in Seq(Player)
          /\ Len(RemoveAt(o, g)) = Len(o) - 1
          /\ \A a \in 1..(Len(o) - 1) :
               RemoveAt(o, g)[a] = IF a < g THEN o[a] ELSE o[a + 1]
      BY RemoveAtProperties, Zenon
    <3> QED
      BY <3>1, <3>2, Zenon
  <2> HIDE DEF t
  <2> QED
    BY <2>1
<1>2. i = IF g - 1 > judgeIndex THEN judgeIndex
          ELSE IF judgeIndex > 0 THEN judgeIndex - 1 ELSE Len(o) - 2
  <2>1. Len(o) - 1 \in Nat \ {0} /\ judgeIndex < (Len(o) - 1) + 1 /\ g - 1 \in 0..(Len(o) - 1)
    BY <1>1 DEF InStep
  <2> QED
    BY <2>1, StepBack
<1> HIDE DEF t, i
<1>3. i < Len(t)
  BY <1>1, <1>2 DEF InStep
<1>4. \A a \in 1..Len(t) : was(a) \in 1..Len(o)
  BY <1>1
<1>5. SameOrder(t, s)
  <2> SUFFICES ASSUME NEW a \in 1..Len(t), NEW b \in 1..Len(t), NEW v \in 1..Len(s),
                      a < b, t[b] = s[v]
               PROVE  \E u \in 1..(v - 1) : t[a] = s[u]
    BY DEF SameOrder
  <2>1. was(a) < was(b) /\ was(a) \in 1..Len(o) /\ was(b) \in 1..Len(o)
    BY <1>1, <1>4
  <2>2. t[a] = o[was(a)] /\ t[b] = o[was(b)]
    BY <1>1
  <2> HIDE DEF was
  <2>3. \E u \in 1..(v - 1) : o[was(a)] = s[u]
    BY <2>1, <2>2 DEF InStep, SameOrder
  <2> QED
    BY <2>2, <2>3
<1>6. CASE g - 1 > judgeIndex \/ judgeIndex > 0
  <2>1. \A a \in 1..Len(t) : a <= i + 1 <=> was(a) <= judgeIndex + 1
    BY <1>1, <1>2, <1>6
  <2> HIDE DEF was
  <2>2. FrontBehind(o, s, k, judgeIndex) => FrontBehind(t, s, k, i)
    BY <1>1, <1>4, <2>1 DEF FrontBehind
  <2>3. FrontGone(o, s, k, judgeIndex) => FrontGone(t, s, k, i)
    BY <1>1, <1>4, <2>1 DEF FrontGone
  <2> QED
    BY <1>3, <1>5, <2>2, <2>3 DEF InStep, t, i
<1>7. CASE g = 1 /\ judgeIndex = 0
  <2>1. \A a \in 1..Len(t) : a <= i + 1 /\ was(a) > judgeIndex + 1
    BY <1>1, <1>2, <1>7
  <2>2. \A a \in 1..Len(t) : ~ (was(a) <= judgeIndex + 1)
    BY <2>1, <1>1, <1>7
  <2> HIDE DEF was
  <2>3. \A a \in 1..Len(t) : t[a] \notin UpTo(s, k)
    BY <1>1, <1>4, <2>2 DEF InStep, FrontBehind, FrontGone
  <2>4. FrontGone(t, s, k, i)
    BY <2>1, <2>3 DEF FrontGone
  <2> QED
    BY <1>3, <1>5, <2>4 DEF InStep, t, i
<1> QED
  BY <1>6, <1>7

-----------------------------------------------------------------------------
(* The invariant.                                                          *)

Active == phase \in {"submitting", "judging", "scoring"}

RotationInv ==
  /\ starters \in Seq(Player)
  /\ Range(starters) \subseteq issued
  /\ Active => /\ Distinct(starters)
               /\ JudgeSlot \in 1..Len(starters) /\ starters[JudgeSlot] = lastJudge
               /\ InStep(order, starters, JudgeSlot, judgeIndex)

-----------------------------------------------------------------------------
(* Who is next.                                                            *)

\* The seats met on the way round the old table from the judge.
LEMMA SeatsOnTheWay ==
  ASSUME starters \in Seq(Player), JudgeSlot \in 1..Len(starters),
         NEW d \in 1..Len(starters)
  PROVE  SeatAt(d) = IF JudgeSlot + d <= Len(starters) THEN starters[JudgeSlot + d]
                     ELSE starters[JudgeSlot + d - Len(starters)]
<1> DEFINE m == JudgeSlot - 1 + d
           n == Len(starters)
<1>1. m \in 0..(2 * n - 1) /\ n \in Nat \ {0}
  OBVIOUS
<1>2. m % n = IF m < n THEN m ELSE m - n
  <2> HIDE DEF m, n
  <2>1. CASE m < n
    BY <1>1, <2>1
  <2>2. CASE m >= n
    <3>1. m - n \in 0..(n - 1) /\ m = (m - n) + n
      BY <1>1, <2>2
    <3>2. \A x \in 0..(n - 1) : (x + n) % n = x
      BY <1>1
    <3>3. ((m - n) + n) % n = m - n
      BY <3>1, <3>2
    <3> QED
      BY <1>1, <2>2, <3>1, <3>3
  <2> QED
    BY <1>1, <2>1, <2>2
<1>3. SeatAt(d) = starters[(m % n) + 1]
  BY DEF SeatAt
<1>4. m + 1 = JudgeSlot + d /\ m - n + 1 = JudgeSlot + d - n
  OBVIOUS
<1>5. m < n <=> JudgeSlot + d <= Len(starters)
  OBVIOUS
<1> HIDE DEF m
<1> QED
  BY <1>2, <1>3, <1>4, <1>5

\* The first of them still taken is that of the next in line.
LEMMA NextIsFirstMet ==
  ASSUME NEW d \in 1..Len(starters), SeatAt(d) \in Roster,
         Len(starters) \in Nat,
         \A e \in 1..(d - 1) : SeatAt(e) \notin Roster
  PROVE  NextDistance = d /\ NextInLine = SeatAt(d)
<1>1. d \in Distances
  BY DEF Distances
<1>2. \A e \in Distances : e \in 1..Len(starters) /\ d <= e
  BY DEF Distances
<1>3. \A e \in Distances : (\A f \in Distances : e <= f) => e = d
  BY <1>1, <1>2
<1>4. NextDistance = d
  BY <1>1, <1>2, <1>3 DEF NextDistance
<1> QED
  BY <1>4 DEF NextInLine

\* The player at position a is the one in slot v of the old table, and the first one
\* there: in a seat in front of everyone who sat between the judge and slot v.
LEMMA NextBehindJudge ==
  ASSUME order \in Seq(Player), starters \in Seq(Player), Distinct(starters),
         JudgeSlot \in 1..Len(starters), SameOrder(order, starters),
         NEW a \in 1..Len(order), NEW v \in (JudgeSlot + 1)..Len(starters),
         order[a] = starters[v],
         \A b \in 1..(a - 1) : order[b] \in UpTo(starters, JudgeSlot)
  PROVE  NextInLine = order[a]
<1> DEFINE d == v - JudgeSlot
<1>1. d \in 1..Len(starters) /\ JudgeSlot + d = v
  OBVIOUS
<1>2. SeatAt(d) = starters[v]
  BY <1>1, SeatsOnTheWay
<1>3. Roster = {order[b] : b \in 1..Len(order)}
  BY RangeByPosition DEF Roster
<1>4. ASSUME NEW e \in 1..(d - 1), SeatAt(e) \in Roster PROVE FALSE
  <2>1. /\ e \in 1..Len(starters) /\ JudgeSlot + e \in 1..(v - 1)
        /\ JudgeSlot + e \in 1..Len(starters) /\ JudgeSlot + e > JudgeSlot
    BY <1>1
  <2>2. PICK b \in 1..Len(order) : order[b] = starters[JudgeSlot + e]
    <3>1. SeatAt(e) = starters[JudgeSlot + e]
      BY <2>1, SeatsOnTheWay
    <3> QED
      BY <1>3, <1>4, <3>1
  <2>3. CASE b < a
    <3>1. starters[JudgeSlot + e] \in UpTo(starters, JudgeSlot)
      BY <2>2, <2>3
    <3> QED
      BY <2>1, <3>1, UpToBySlot
  <2>4. CASE b = a
    BY <2>1, <2>2, <2>4 DEF Distinct
  <2>5. CASE a < b
    <3>1. PICK u \in 1..(JudgeSlot + e - 1) : order[a] = starters[u]
      BY <2>1, <2>2, <2>5 DEF SameOrder
    <3>2. u \in 1..Len(starters) /\ v \in 1..Len(starters) /\ u # v
      BY <2>1, SMTT(30)
    <3> QED
      BY <3>1, <3>2, starters[u] = starters[v] DEF Distinct
  <2> QED
    BY <2>3, <2>4, <2>5
<1>5. order[a] \in Roster
  BY <1>3
<1> HIDE DEF d
<1> QED
  BY <1>1, <1>2, <1>4, <1>5, NextIsFirstMet

\* Nobody behind the judge is left: the first seat goes to the first there is.
LEMMA NextFromTheTop ==
  ASSUME order \in Seq(Player), starters \in Seq(Player), Distinct(starters),
         JudgeSlot \in 1..Len(starters), SameOrder(order, starters), Len(order) > 0,
         NEW v \in 1..JudgeSlot, order[1] = starters[v],
         \A b \in 1..Len(order) : order[b] \in UpTo(starters, JudgeSlot)
  PROVE  NextInLine = order[1]
<1> DEFINE d == v - JudgeSlot + Len(starters)
<1>1. /\ d \in 1..Len(starters) /\ ~ (JudgeSlot + d <= Len(starters))
      /\ JudgeSlot + d - Len(starters) = v
  OBVIOUS
<1>2. SeatAt(d) = starters[v]
  BY <1>1, SeatsOnTheWay
<1>3. Roster = {order[b] : b \in 1..Len(order)} /\ 1 \in 1..Len(order)
  BY RangeByPosition DEF Roster
<1>4. ASSUME NEW e \in 1..(d - 1), SeatAt(e) \in Roster PROVE FALSE
  <2>1. e \in 1..Len(starters)
    BY <1>1
  <2>2. CASE JudgeSlot + e <= Len(starters)
    <3>1. JudgeSlot + e \in 1..Len(starters) /\ JudgeSlot + e > JudgeSlot
      BY <2>2
    <3>2. PICK b \in 1..Len(order) : order[b] = starters[JudgeSlot + e]
      BY <1>3, <1>4, <2>1, <2>2, SeatsOnTheWay
    <3>3. starters[JudgeSlot + e] \in UpTo(starters, JudgeSlot)
      BY <3>2
    <3> QED
      BY <3>1, <3>3, UpToBySlot
  <2>3. CASE JudgeSlot + e > Len(starters)
    <3> DEFINE w == JudgeSlot + e - Len(starters)
    <3>1. w \in 1..(v - 1) /\ w \in 1..Len(starters)
      BY <2>3, <1>1
    <3>2. PICK b \in 1..Len(order) : order[b] = starters[w]
      <4>1. SeatAt(e) = starters[w]
        BY <2>1, <2>3, SeatsOnTheWay
      <4> HIDE DEF w
      <4> QED
        BY <1>3, <1>4, <4>1
    <3> HIDE DEF w
    <3>3. CASE b = 1
      BY <3>1, <3>2, <3>3, SMTT(30) DEF Distinct
    <3>4. CASE 1 < b
      <4>1. PICK u \in 1..(w - 1) : order[1] = starters[u]
        BY <1>3, <3>1, <3>2, <3>4 DEF SameOrder
      <4>2. u \in 1..Len(starters) /\ v \in 1..Len(starters) /\ u # v
        BY <3>1
      <4> QED
        BY <4>1, <4>2, starters[u] = starters[v] DEF Distinct
    <3> QED
      BY <3>3, <3>4
  <2> QED
    BY <2>1, <2>2, <2>3
<1>5. order[1] \in Roster
  BY <1>3
<1> HIDE DEF d
<1> QED
  BY <1>1, <1>2, <1>4, <1>5, NextIsFirstMet

\* The seat right behind the judge is a newcomer's: the table has come to its end.
LEMMA NewcomerAtTheEnd ==
  ASSUME order \in Seq(Player), starters \in Seq(Player), Distinct(starters),
         JudgeSlot \in 1..Len(starters), SameOrder(order, starters),
         NEW a \in 1..Len(order), order[a] \notin Range(starters),
         \A b \in 1..(a - 1) : order[b] \in UpTo(starters, JudgeSlot),
         starters[JudgeSlot] \in Roster
  PROVE  ~ NoWrap
<1>1. Roster = {order[b] : b \in 1..Len(order)}
  BY RangeByPosition DEF Roster
<1>2. \A u \in 1..Len(starters) : order[a] # starters[u]
  BY RangeByPosition
<1>3. ASSUME NEW u \in (JudgeSlot + 1)..Len(starters), starters[u] \in Roster PROVE FALSE
  <2>1. PICK b \in 1..Len(order) : order[b] = starters[u]
    BY <1>1, <1>3
  <2>2. CASE b < a
    <3>1. u \in 1..Len(starters) /\ starters[u] \in UpTo(starters, JudgeSlot)
      BY <2>1, <2>2
    <3> QED
      BY <3>1, UpToBySlot
  <2>3. CASE b = a
    BY <1>2, <2>1, <2>3
  <2>4. CASE a < b
    <3>1. PICK w \in 1..(u - 1) : order[a] = starters[w]
      BY <2>1, <2>4 DEF SameOrder
    <3> QED
      BY <1>2, <3>1
  <2> QED
    BY <2>2, <2>3, <2>4
<1>4. Len(starters) \in Distances
  <2>1. /\ Len(starters) \in 1..Len(starters) /\ ~ (JudgeSlot + Len(starters) <= Len(starters))
        /\ JudgeSlot + Len(starters) - Len(starters) = JudgeSlot
    OBVIOUS
  <2> QED
    BY <2>1, SeatsOnTheWay DEF Distances
<1>5. NextDistance \in Distances
  <2>1. Distances \in SUBSET Nat
    BY DEF Distances
  <2> QED
    BY <1>4, <2>1, NaturalsHaveMinimum DEF NextDistance
<1>6. NextDistance \in 1..Len(starters) /\ SeatAt(NextDistance) \in Roster
  BY <1>5 DEF Distances
<1>7. ASSUME JudgeSlot + NextDistance <= Len(starters) PROVE FALSE
  <2>1. SeatAt(NextDistance) = starters[JudgeSlot + NextDistance]
    BY <1>6, <1>7, SeatsOnTheWay
  <2>2. JudgeSlot + NextDistance \in (JudgeSlot + 1)..Len(starters)
    BY <1>6, <1>7
  <2> QED
    BY <1>3, <1>6, <2>1, <2>2
<1> QED
  BY <1>7 DEF NoWrap

\* The seat after the room's position is the one the next round's judge is due to
\* come from.
LEMMA JudgeMovesOn ==
  ASSUME order \in Seq(Player), starters \in Seq(Player), judgeIndex \in Nat,
         Distinct(starters), JudgeSlot \in 1..Len(starters),
         starters[JudgeSlot] = lastJudge,
         InStep(order, starters, JudgeSlot, judgeIndex),
         lastJudge \in Roster \/ Newcomers = {},
         NEW next, next = order[((judgeIndex + 1) % Len(order)) + 1]
  PROVE  next = NextInLine \/ (~ NoWrap /\ next \in Newcomers)
<1>1. /\ judgeIndex < Len(order) /\ Len(order) \in Nat \ {0}
      /\ SameOrder(order, starters)
  BY DEF InStep
<1>2. /\ Roster = {order[b] : b \in 1..Len(order)}
      /\ Range(starters) = {starters[v] : v \in 1..Len(starters)}
  BY RangeByPosition DEF Roster
<1>3. judgeIndex + 1 < Len(order) => next = order[judgeIndex + 2]
  <2>1. \A n \in Nat \ {0} : \A x \in 0..(n - 1) : x % n = x
    OBVIOUS
  <2>2. judgeIndex + 1 < Len(order) => (judgeIndex + 1) % Len(order) = judgeIndex + 1
    BY <1>1, <2>1
  <2> QED
    BY <2>2
<1>4. judgeIndex + 1 = Len(order) => next = order[1]
  <2>1. \A x \in Nat \ {0} : x % x = 0
    OBVIOUS
  <2> QED
    BY <1>1, <2>1
<1>5. CASE FrontBehind(order, starters, JudgeSlot, judgeIndex) /\ judgeIndex + 1 < Len(order)
  <2> DEFINE a == judgeIndex + 2
  <2>1. /\ a \in 1..Len(order) /\ next = order[a] /\ ~ (a <= judgeIndex + 1)
        /\ \A b \in 1..(a - 1) : b \in 1..Len(order) /\ b <= judgeIndex + 1
    BY <1>1, <1>3, <1>5
  <2> HIDE DEF a
  <2>2. /\ order[a] \notin UpTo(starters, JudgeSlot)
        /\ \A b \in 1..(a - 1) : order[b] \in UpTo(starters, JudgeSlot)
    BY <1>5, <2>1 DEF FrontBehind
  <2>3. CASE order[a] \in Range(starters)
    <3>1. PICK v \in 1..Len(starters) : order[a] = starters[v]
      BY <1>2, <2>3
    <3>2. v \in (JudgeSlot + 1)..Len(starters)
      BY <2>2, <3>1 DEF UpTo
    <3> QED
      BY <1>1, <2>1, <2>2, <3>1, <3>2, NextBehindJudge
  <2>4. CASE order[a] \notin Range(starters)
    <3>1. order[a] \in Newcomers
      BY <1>2, <2>1, <2>4 DEF Newcomers
    <3>2. starters[JudgeSlot] \in Roster
      BY <3>1
    <3> QED
      BY <1>1, <2>1, <2>2, <2>4, <3>1, <3>2, NewcomerAtTheEnd
  <2> QED
    BY <2>3, <2>4
<1>6. CASE FrontBehind(order, starters, JudgeSlot, judgeIndex) /\ judgeIndex + 1 = Len(order)
  <2>1. \A b \in 1..Len(order) : order[b] \in UpTo(starters, JudgeSlot)
    BY <1>6 DEF FrontBehind
  <2>2. PICK v \in 1..JudgeSlot : order[1] = starters[v]
    BY <1>1, <2>1 DEF UpTo
  <2> QED
    BY <1>1, <1>4, <1>6, <2>1, <2>2, NextFromTheTop
<1>7. CASE FrontGone(order, starters, JudgeSlot, judgeIndex)
  <2>1. lastJudge \notin Roster
    <3>1. lastJudge \in UpTo(starters, JudgeSlot)
      BY DEF UpTo
    <3> QED
      BY <1>2, <1>7, <3>1 DEF FrontGone
  <2>2. \A b \in 1..Len(order) : order[b] \in Range(starters)
    BY <1>2, <2>1 DEF Newcomers
  <2>3. judgeIndex + 1 = Len(order)
    BY <1>1, <1>7, <2>2 DEF FrontGone
  <2>4. 1 \in 1..Len(order) /\ next = order[1]
    BY <1>1, <1>4, <2>3
  <2>5. PICK v \in 1..Len(starters) : order[1] = starters[v]
    BY <1>2, <2>2, <2>4
  <2>6. v \in (JudgeSlot + 1)..Len(starters)
    BY <1>7, <2>4, <2>5 DEF FrontGone, UpTo
  <2> QED
    BY <1>1, <2>4, <2>5, <2>6, NextBehindJudge
<1> QED
  BY <1>1, <1>5, <1>6, <1>7 DEF InStep

-----------------------------------------------------------------------------
(* What a step of the room does to the seats.                              *)

RoundBegins ==
  /\ roundNumber' = roundNumber + 1
  /\ judgeIndex' \in 0..(Len(order') - 1)
  /\ judgeID' = order'[judgeIndex' + 1]
  /\ phase = "scoring" => /\ order' = order
                          /\ judgeIndex' = (judgeIndex + 1) % Len(order)

SeatTaken == \E h \in Player \ issued : order' = Append(order, h) /\ judgeIndex' = judgeIndex
SeatLeft ==
  \E p \in Roster : /\ order' = RemoveAt(order, SlotOf(p))
                    /\ judgeIndex' = JudgeIndexAfter(SlotOf(p) - 1, Len(order'))
SeatsMove == UNCHANGED <<order, judgeIndex>> \/ SeatTaken \/ SeatLeft

\* No round begins; and if one is under way, it was before, and at most one seat
\* has been taken or left.
RoundGoesOn ==
  /\ roundNumber' <= roundNumber
  /\ ~ RoundFollows
  /\ Active' => Active /\ SeatsMove

\* beginRoundLocked.
LEMMA BeginRoundBegins ==
  ASSUME IInv, NEW idx \in Nat, BeginRound(idx), Len(order') \in Nat, idx < Len(order'),
         phase = "scoring" => order' = order /\ idx = (judgeIndex + 1) % Len(order)
  PROVE  RoundBegins
<1>1. \A x \in 0..(Len(order') - 1) : x % Len(order') = x
  OBVIOUS
<1> QED
  BY <1>1 DEF BeginRound, RoundBegins

\* startComputerGame seats its players before the round begins.
LEMMA ComputerGameBegins ==
  ASSUME IInv, NEW p \in Humans, StartComputerGame(p)
  PROVE  /\ Len(order') \in Nat
         /\ \E idx \in Nat : BeginRound(idx) /\ idx < Len(order')
<1> DEFINE cpu == {i \in DOMAIN order' : order'[i] \in Computers}
           first == CHOOSE i \in cpu : \A j \in cpu : i <= j
<1>1. BeginRound(IF cpu = {} THEN 0 ELSE first - 1)
  BY DEF StartComputerGame
<1>2. order' \in Seq(Player) /\ Len(order') >= MinPlayers
  <2>1. IInv'
    BY StartComputerGameKeeps
  <2>2. phase' = "submitting"
    BY <1>1 DEF BeginRound, SetPhase
  <2> QED
    BY <2>1, <2>2 DEF IInv, TypeOK, TableTypes, RoundInv
<1>3. CASE cpu = {}
  BY <1>1, <1>2, <1>3, SizesAssumption
<1>4. CASE cpu # {}
  <2>1. cpu \subseteq 1..Len(order') /\ cpu \in SUBSET Nat
    BY <1>2
  <2>2. first \in cpu
    <3> HIDE DEF cpu
    <3>1. \E x \in cpu : \A y \in cpu : x <= y
      BY <1>4, <2>1, NaturalsHaveMinimum
    <3> QED
      BY <3>1
  <2> HIDE DEF cpu, first
  <2> QED
    BY <1>1, <1>2, <1>4, <2>1, <2>2
<1> QED
  BY <1>2, <1>3, <1>4

\* Joins and connections.
LEMMA JoinsAndConnectionsGoOn ==
  ASSUME IInv, Joins \/ Connections
  PROVE  RoundGoesOn
<1> USE DEF RoundGoesOn, RoundFollows, Active
<1>0. roundNumber \in Nat
  BY DEF IInv, TypeOK, GameTypes
<1>1. ASSUME NEW h \in Humans, TryJoin(h) PROVE RoundGoesOn
  BY <1>0, <1>1 DEF TryJoin, SeatsMove, SeatTaken, judging, clock, Player
<1>2. ASSUME NEW h \in Humans, JoinSaved(h) PROVE RoundGoesOn
  BY <1>0, <1>2 DEF JoinSaved, game, SeatsMove, judging, clock
<1>3. ASSUME NEW h \in Humans, UndoJoin(h) PROVE RoundGoesOn
  BY <1>0, <1>3 DEF UndoJoin, game, SeatsMove, judging, clock
<1>4. ASSUME NEW h \in Humans, Attach(h) PROVE RoundGoesOn
  BY <1>0, <1>4 DEF Attach, SeatsMove, judging, clock
<1>5. ASSUME NEW h \in Humans, Detach(h) PROVE RoundGoesOn
  BY <1>0, <1>5 DEF Detach, SeatsMove, judging, clock
<1> QED
  BY <1>1, <1>2, <1>3, <1>4, <1>5 DEF Joins, Connections

\* A departure never starts a round, nor revives one.
LEMMA LeaveGoesOn ==
  ASSUME IInv, NEW p \in Humans, Leave(p)
  PROVE  RoundGoesOn
<1>1. /\ p \in Roster /\ p \in Player /\ RemovePlayer(p) /\ roundNumber' = roundNumber
      /\ RosterLoss(p, p \in isJudge /\ phase \in {"submitting", "judging"})
  BY DEF Leave, Player
<1>2. roundNumber \in Nat /\ phase \in Phases
  BY DEF IInv, TypeOK, GameTypes, ClockTypes
<1>3. SeatLeft
  BY <1>1 DEF SeatLeft, RemovePlayer
<1>4. ~ RoundFollows
  BY <1>1, LossOutcomes DEF RoundFollows
<1>5. Active' => Active
  BY <1>1, <1>2 DEF RosterLoss, KeepPhase, clock, Active, Phases
<1> QED
  BY <1>1, <1>2, <1>3, <1>4, <1>5 DEF RoundGoesOn, SeatsMove

\* The host's commands, an answer and a pick.
LEMMA CommandsMove ==
  ASSUME IInv, Commands
  PROVE  RoundBegins \/ RoundGoesOn
<1>0. /\ roundNumber \in Nat /\ order \in Seq(Player) /\ Len(order) \in Nat
      /\ judgeIndex \in Nat /\ phase \in Phases
  BY DEF IInv, TypeOK, GameTypes, TableTypes, ClockTypes
<1>1. PICK p \in Humans :
        \/ \E limit \in ScoreLimits \cup {scoreLimit}, seats \in PlayerLimits \cup {maxPlayers},
              retier \in BOOLEAN : UpdateSettings(p, limit, seats, retier)
        \/ StartGame(p) \/ StartComputerGame(p) \/ SubmitAnswer(p)
        \/ \E a \in subs : PickWinner(p, a)
        \/ NextRound(p) \/ EndGame(p) \/ SkipPrompt(p) \/ PlayAgain(p) \/ Leave(p)
  BY DEF Commands
<1>2. ASSUME NEW limit, NEW seats, NEW retier, UpdateSettings(p, limit, seats, retier)
      PROVE  RoundGoesOn
  BY <1>0, <1>2 DEF UpdateSettings, clock, RoundGoesOn, RoundFollows, Active
<1>3. CASE StartGame(p)
  <2>1. BeginRound(0) /\ order' = order /\ phase = "lobby" /\ Len(order) >= MinPlayers
    BY <1>3 DEF StartGame
  <2>2. 0 < Len(order') /\ Len(order') \in Nat
    BY <1>0, <2>1, SizesAssumption
  <2> QED
    BY <2>1, <2>2, BeginRoundBegins
<1>4. CASE StartComputerGame(p)
  <2>1. PICK idx \in Nat : BeginRound(idx) /\ idx < Len(order') /\ Len(order') \in Nat
    BY <1>4, ComputerGameBegins
  <2>2. phase = "lobby"
    BY <1>4 DEF StartComputerGame
  <2> QED
    BY <2>1, <2>2, BeginRoundBegins
<1>5. CASE SubmitAnswer(p)
  <2>1. phase = "submitting" /\ UNCHANGED <<order, judging, roundNumber>>
    BY <1>5 DEF SubmitAnswer, PlayAnswer, MayAnswer
  <2> QED
    BY <1>0, <2>1 DEF judging, RoundGoesOn, RoundFollows, Active, SeatsMove
<1>6. ASSUME NEW a \in subs, PickWinner(p, a) PROVE RoundGoesOn
  <2>1. phase = "judging" /\ UNCHANGED <<order, judging, roundNumber>>
    BY <1>6 DEF PickWinner, MayPick, Award
  <2> QED
    BY <1>0, <2>1 DEF judging, RoundGoesOn, RoundFollows, Active, SeatsMove
<1>7. CASE NextRound(p)
  <2>1. /\ BeginRound((judgeIndex + 1) % Len(order)) /\ order' = order /\ phase = "scoring"
    BY <1>7 DEF NextRound
  <2>2. Len(order) >= MinPlayers
    BY <2>1 DEF IInv, RoundInv
  <2>3. (judgeIndex + 1) % Len(order) \in 0..(Len(order) - 1)
    BY <1>0, <2>2, SizesAssumption
  <2> QED
    BY <1>0, <2>1, <2>3, BeginRoundBegins
<1>8. CASE EndGame(p)
  BY <1>0, <1>8 DEF EndGame, SetPhase, RoundGoesOn, RoundFollows, Active
<1>9. CASE SkipPrompt(p)
  BY <1>0, <1>9 DEF SkipPrompt, judging, RoundGoesOn, RoundFollows, Active, SeatsMove
<1>10. CASE PlayAgain(p)
  BY <1>0, <1>10 DEF PlayAgain, SetPhase, RoundGoesOn, RoundFollows, Active
<1>11. CASE Leave(p)
  BY <1>11, LeaveGoesOn
<1> QED
  BY <1>1, <1>2, <1>3, <1>4, <1>5, <1>6, <1>7, <1>8, <1>9, <1>10, <1>11

\* Timers, computer players and a restart.
LEMMA CallbacksAndRestartGoOn ==
  ASSUME IInv, Callbacks \/ Restart
  PROVE  RoundGoesOn
<1> USE DEF RoundGoesOn, RoundFollows, Active, SeatsMove
<1>0. roundNumber \in Nat
  BY DEF IInv, TypeOK, GameTypes
<1>1. ASSUME UNCHANGED <<order, judging, roundNumber, phase>> PROVE RoundGoesOn
  BY <1>0, <1>1 DEF judging
<1>2. ASSUME Open, UNCHANGED <<order, judging, roundNumber>> PROVE RoundGoesOn
  BY <1>0, <1>2 DEF judging, Open
<1>3. CASE TimerFires
  BY <1>1, <1>3 DEF TimerFires
<1>4. ASSUME NEW seq \in late, OnDeadline(seq) PROVE RoundGoesOn
  <2>1. CASE DeadlineIsStale(seq)
    BY <1>1, <1>4, <2>1 DEF OnDeadline, game, clock
  <2>2. CASE ~ DeadlineIsStale(seq)
    <3>1. UNCHANGED <<order, judging, roundNumber>>
      BY <1>4, <2>2 DEF OnDeadline, Award
    <3>2. Open
      BY <2>2 DEF DeadlineIsStale, Open
    <3> QED
      BY <1>2, <3>1, <3>2
  <2> QED
    BY <2>1, <2>2
<1>5. ASSUME NEW t \in turns, SubmitComputerAnswer(t) PROVE RoundGoesOn
  <2>1. CASE UNCHANGED game
    BY <1>1, <2>1 DEF game, clock
  <2>2. CASE PlayAnswer(t.by)
    BY <1>2, <2>2 DEF PlayAnswer, MayAnswer, Open
  <2> QED
    BY <1>5, <2>1, <2>2 DEF SubmitComputerAnswer
<1>6. ASSUME NEW t \in turns, PickComputerWinner(t) PROVE RoundGoesOn
  <2>1. CASE UNCHANGED game
    BY <1>1, <2>1 DEF game, clock
  <2>2. ASSUME phase = "judging", NEW a, Award(a) PROVE RoundGoesOn
    BY <1>2, <2>2 DEF Award, Open
  <2> QED
    BY <1>6, <2>1, <2>2 DEF PickComputerWinner
<1>7. CASE Restart
  <2>1. published = StateAt(published.phaseSeq)
    BY DEF IInv, SnapshotInv, SnapshotIsCurrent
  <2>2. /\ published.phase = phase /\ published.roundNumber = roundNumber
        /\ published.judgeID = judgeID /\ published.judgeIndex = judgeIndex
        /\ published.isJudge = isJudge /\ published.order = order
    BY <2>1 DEF StateAt
  <2> QED
    BY <1>1, <1>7, <2>2 DEF Restart, judging
<1> QED
  BY <1>3, <1>4, <1>5, <1>6, <1>7 DEF Callbacks

\* Every step.
LEMMA StepsMove ==
  ASSUME IInv, Next
  PROVE  RoundBegins \/ RoundGoesOn
BY JoinsAndConnectionsGoOn, CommandsMove, CallbacksAndRestartGoOn DEF Next

-----------------------------------------------------------------------------
(* The invariant holds throughout.                                         *)

\* Between rounds and as they go on.
LEMMA GoingOnKeepsRotation ==
  ASSUME IInv, IInv', RotationInv, issued \subseteq issued', RoundGoesOn,
         UNCHANGED <<starters, lastJudge>>
  PROVE  RotationInv'
<1>1. starters' \in Seq(Player) /\ Range(starters') \subseteq issued'
  BY DEF RotationInv
<1>2. ASSUME Active'
      PROVE  InStep(order, starters, JudgeSlot, judgeIndex)'
  <2>1. Active /\ SeatsMove
    BY <1>2 DEF RoundGoesOn
  <2>2. /\ starters \in Seq(Player) /\ Range(starters) \subseteq issued
        /\ JudgeSlot \in 1..Len(starters)
        /\ InStep(order, starters, JudgeSlot, judgeIndex)
    BY <2>1 DEF RotationInv
  <2>3. order \in Seq(Player) /\ judgeIndex \in Nat
    BY DEF IInv, TypeOK, TableTypes, GameTypes
  <2>4. JudgeSlot' = JudgeSlot
    BY DEF JudgeSlot
  <2>5. InStep(order', starters, JudgeSlot, judgeIndex')
    <3>1. CASE UNCHANGED <<order, judgeIndex>>
      BY <2>2, <3>1
    <3>2. CASE SeatTaken
      <4>1. PICK h \in Player \ issued : order' = Append(order, h) /\ judgeIndex' = judgeIndex
        BY <3>2 DEF SeatTaken
      <4>2. h \notin Range(starters)
        BY <2>2, <4>1
      <4>3. InStep(Append(order, h), starters, JudgeSlot, judgeIndex)
        BY <2>2, <2>3, <4>2, InStepAfterJoin
      <4> QED
        BY <4>1, <4>3
    <3>3. CASE SeatLeft
      <4>1. PICK p \in Roster : /\ order' = RemoveAt(order, SlotOf(p))
                                /\ judgeIndex' = JudgeIndexAfter(SlotOf(p) - 1, Len(order'))
        BY <3>3 DEF SeatLeft
      <4>2. /\ SlotOf(p) \in 1..Len(order) /\ Len(order') = Len(order) - 1
            /\ Len(order) \in Nat
        BY <2>3, <4>1, SeatVacated DEF IInv
      <4>3. Len(order') >= MinPlayers
        BY <1>2 DEF IInv, RoundInv, Active
      <4>4. Len(order) > 1
        BY <4>2, <4>3, SizesAssumption
      <4> DEFINE g == SlotOf(p)
      <4> HIDE DEF g
      <4>5. InStep(RemoveAt(order, g), starters, JudgeSlot,
                   JudgeIndexAfter(g - 1, Len(order) - 1))
        <5>1. g \in 1..Len(order)
          BY <4>2 DEF g
        <5> QED
          BY <2>2, <2>3, <4>4, <5>1, InStepAfterLoss
      <4> QED
        BY <4>1, <4>2, <4>5 DEF g
    <3> QED
      BY <2>1, <3>1, <3>2, <3>3 DEF SeatsMove
  <2> QED
    BY <2>4, <2>5
<1>3. ASSUME Active'
      PROVE  /\ Distinct(starters')
             /\ JudgeSlot' \in 1..Len(starters') /\ starters'[JudgeSlot'] = lastJudge'
  <2>1. Active
    BY <1>3 DEF RoundGoesOn
  <2>2. JudgeSlot' = JudgeSlot
    BY DEF JudgeSlot
  <2> QED
    BY <2>1, <2>2 DEF RotationInv
<1> QED
  BY <1>1, <1>2, <1>3 DEF RotationInv

\* As a round begins.
LEMMA BeginningKeepsRotation ==
  ASSUME IInv, IInv', RoundBegins, starters' = order', lastJudge' = judgeID'
  PROVE  RotationInv'
<1>1. /\ order' \in Seq(Player) /\ Range(order') \subseteq issued' /\ Distinct(order')
      /\ judgeIndex' \in 0..(Len(order') - 1) /\ judgeID' = order'[judgeIndex' + 1]
  BY DEF IInv, TypeOK, TableTypes, SeatsInv, Roster, Distinct, RoundBegins
<1>2. JudgeSlot' = judgeIndex' + 1
  <2>1. JudgeSlot' = CHOOSE u \in DOMAIN order' : order'[u] = judgeID'
    BY DEF JudgeSlot
  <2>2. /\ DOMAIN order' = 1..Len(order') /\ judgeIndex' + 1 \in DOMAIN order'
        /\ \A u \in DOMAIN order' : order'[u] = judgeID' => u = judgeIndex' + 1
    BY <1>1 DEF Distinct
  <2> QED
    BY <1>1, <2>1, <2>2
<1>3. InStep(order', order', judgeIndex' + 1, judgeIndex')
  BY <1>1, InStepAtFirst
<1>4. /\ JudgeSlot' \in 1..Len(starters') /\ starters'[JudgeSlot'] = lastJudge'
      /\ Distinct(starters')
  <2>1. judgeIndex' + 1 \in 1..Len(order') /\ order'[judgeIndex' + 1] = lastJudge'
    <3>1. Len(order') \in Nat /\ judgeIndex' \in 0..(Len(order') - 1)
      BY <1>1
    <3> DEFINE n == Len(order')
               j == judgeIndex'
    <3>2. j + 1 \in 1..n
      <4> HIDE DEF n, j
      <4>1. n \in Nat /\ j \in 0..(n - 1)
        BY <3>1 DEF n, j
      <4> QED
        BY <4>1
    <3>3. order'[judgeIndex' + 1] = lastJudge'
      BY <1>1, Zenon
    <3> QED
      BY <3>2, <3>3
  <2>2. Distinct(starters')
    BY <1>1
  <2> QED
    BY <1>2, <2>1, <2>2
<1>5. InStep(order', starters', JudgeSlot', judgeIndex')
  BY <1>2, <1>3
<1> QED
  BY <1>1, <1>4, <1>5 DEF RotationInv

\* Ids are never taken back.
LEMMA IdsStayIssued ==
  ASSUME Next
  PROVE  issued \subseteq issued'
<1>1. Joins => issued \subseteq issued'
  BY DEF Joins, TryJoin, JoinSaved, UndoJoin
<1>2. Connections => issued \subseteq issued'
  BY DEF Connections, Attach, Detach, joins
<1>3. Commands => issued \subseteq issued'
  BY DEF Commands, UpdateSettings, StartGame, StartComputerGame, SubmitAnswer, PickWinner,
     NextRound, EndGame, SkipPrompt, PlayAgain, Leave, joins
<1>4. Callbacks => issued \subseteq issued'
  BY DEF Callbacks, TimerFires, OnDeadline, SubmitComputerAnswer, PickComputerWinner, joins
<1>5. Restart => issued \subseteq issued'
  BY DEF Restart
<1> QED
  BY <1>1, <1>2, <1>3, <1>4, <1>5 DEF Next

\* A step, as the history variables remember it.
LEMMA RotationKeeps ==
  ASSUME IInv, RotationInv, Next /\ Remember
  PROVE  RotationInv'
<1>1. IInv' /\ issued \subseteq issued' /\ roundNumber \in Nat
  BY NextKeeps, IdsStayIssued DEF IInv, TypeOK, GameTypes
<1>2. CASE RoundBegins
  <2>1. starters' = order' /\ lastJudge' = judgeID'
    BY <1>1, <1>2 DEF Remember, RoundBegins
  <2> QED
    BY <1>1, <1>2, <2>1, BeginningKeepsRotation
<1>3. CASE RoundGoesOn
  <2>1. roundNumber' \in Nat
    BY <1>1 DEF IInv, TypeOK, GameTypes
  <2>2. UNCHANGED <<starters, lastJudge>>
    BY <1>1, <1>3, <2>1 DEF Remember, RoundGoesOn
  <2> QED
    BY <1>1, <1>3, <2>2, GoingOnKeepsRotation
<1> QED
  BY <1>2, <1>3, StepsMove

\* Both invariants, along the room that remembers.
LEMMA RotationInvariantHolds == RotationSpec => [](IInv /\ RotationInv)
<1>1. RotationInit => IInv /\ RotationInv
  <2> SUFFICES ASSUME RotationInit PROVE IInv /\ RotationInv
    OBVIOUS
  <2>1. IInv
    BY InitInvariant DEF RotationInit
  <2>2. starters = <<>> /\ phase = "lobby"
    BY DEF RotationInit, Init
  <2> QED
    BY <2>1, <2>2 DEF RotationInv, Active, Range
<1>2. IInv /\ RotationInv /\ [Next /\ Remember]_rotationVars => (IInv /\ RotationInv)'
  <2> SUFFICES ASSUME IInv, RotationInv, [Next /\ Remember]_rotationVars
               PROVE  IInv' /\ RotationInv'
    OBVIOUS
  <2>1. CASE Next /\ Remember
    BY <2>1, NextKeeps, RotationKeeps
  <2>2. CASE UNCHANGED rotationVars
    <3>1. UNCHANGED vars /\ UNCHANGED <<starters, lastJudge>>
      BY <2>2 DEF rotationVars
    <3>2. IInv'
      BY <3>1, StutterKeeps
    <3>3. UNCHANGED <<order, judgeIndex, phase, issued, starters, lastJudge>>
      BY <3>1 DEF vars, clock, judging, joins
    <3>4. JudgeSlot' = JudgeSlot
      BY <3>3 DEF JudgeSlot
    <3>5. RotationInv'
      BY <3>3, <3>4 DEF RotationInv, Active
    <3> QED
      BY <3>2, <3>5
  <2> QED
    BY <2>1, <2>2
<1> QED
  BY <1>1, <1>2, PTL DEF RotationSpec

\* From one round to the next the judge's seat goes to the next player in line who
\* is still there; only at the end of the table may newcomers come first.  Nobody is
\* skipped and nobody judges twice, whoever joins, leaves or is restarted in between,
\* except in the case of SlotOfJudgeIsNext, where the judge has gone and somebody new
\* has come.
THEOREM JudgeRotatesInOrder == RotationSpec => RotationInOrder
<1>1. ASSUME IInv, RotationInv, [Next /\ Remember]_rotationVars,
             RoundFollows, lastJudge \in Roster \/ Newcomers = {}
      PROVE  judgeID' = NextInLine \/ (~ NoWrap /\ judgeID' \in Newcomers)
  <2>1. Active
    BY <1>1 DEF RoundFollows, Active
  <2>2. Next
    BY <1>1 DEF RoundFollows, rotationVars, vars, clock
  <2>3. RoundBegins /\ phase = "scoring"
    BY <1>1, <2>2, StepsMove DEF RoundGoesOn, RoundFollows
  <2>4. judgeID' = order[((judgeIndex + 1) % Len(order)) + 1]
    BY <2>3 DEF RoundBegins
  <2>5. /\ order \in Seq(Player) /\ judgeIndex \in Nat /\ starters \in Seq(Player)
        /\ Distinct(starters) /\ JudgeSlot \in 1..Len(starters)
        /\ starters[JudgeSlot] = lastJudge
        /\ InStep(order, starters, JudgeSlot, judgeIndex)
    BY <1>1, <2>1 DEF IInv, TypeOK, TableTypes, GameTypes, RotationInv
  <2> QED
    BY <1>1, <2>4, <2>5, JudgeMovesOn
<1>2. IInv /\ RotationInv /\ [Next /\ Remember]_rotationVars =>
        [RoundFollows /\ (lastJudge \in Roster \/ Newcomers = {}) =>
           \/ judgeID' = NextInLine
           \/ ~NoWrap /\ judgeID' \in Newcomers]_rotationVars
  BY <1>1
<1> QED
  BY <1>2, RotationInvariantHolds, PTL DEF RotationSpec, RotationInOrder
=============================================================================
