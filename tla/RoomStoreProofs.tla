--------------------------- MODULE RoomStoreProofs ---------------------------
(***************************************************************************)
(* Safety of RoomStore for every value of its constants: types in any      *)
(* case, and, if operations are quick (Calm), that no saved update is lost *)
(* and that the row refines DurableRoom.                                   *)
(*                                                                         *)
(* IInv says, of each instance that leads (it has the lease, or had it     *)
(* last and does not know better): there is one room object that may still *)
(* change, and every state that may still be saved, and the one that is,   *)
(* is a prefix of it.  A step belongs to one instance: what it does to the *)
(* row (RowStep) keeps what is said of the others (OthersStay), so that    *)
(* each action is only looked at where it happens.                         *)
(***************************************************************************)
EXTENDS RoomStore, SequenceTheorems, TLAPS

-----------------------------------------------------------------------------
(* Prefixes.                                                               *)

\* A prefix is no longer and agrees position by position.
LEMMA PrefixMeans ==
  ASSUME NEW s \in Seq(Nat), NEW t \in Seq(Nat)
  PROVE  IsPrefix(s, t) <=> Len(s) <= Len(t) /\ \A k \in 1..Len(s) : s[k] = t[k]
<1>1. ASSUME Len(s) <= Len(t) PROVE /\ SubSeq(s, 1, Len(s)) = s
                                    /\ SubSeq(t, 1, Len(s)) \in Seq(Nat)
                                    /\ Len(SubSeq(t, 1, Len(s))) = Len(s)
                                    /\ \A k \in 1..Len(s) : SubSeq(t, 1, Len(s))[k] = t[k]
  BY <1>1
<1>2. ASSUME Len(s) <= Len(t), \A k \in 1..Len(s) : s[k] = t[k]
      PROVE  SubSeq(t, 1, Len(s)) = s
  <2> DEFINE u == SubSeq(t, 1, Len(s))
  <2>1. u \in Seq(Nat) /\ Len(u) = Len(s) /\ \A k \in 1..Len(s) : u[k] = s[k]
    BY <1>1, <1>2
  <2> HIDE DEF u
  <2>2. u = s BY <2>1, SeqEqual
  <2> QED BY <2>2 DEF u
<1> QED BY <1>1, <1>2 DEF IsPrefix

\* Being a prefix is an order with <<>> at its bottom,
LEMMA PrefixRefl == ASSUME NEW s \in Seq(Nat) PROVE IsPrefix(s, s) /\ IsPrefix(<<>>, s)
<1>1. <<>> \in Seq(Nat) /\ Len(<<>>) = 0 /\ Len(s) \in Nat BY EmptySeq
<1>2. IsPrefix(s, s) BY <1>1, PrefixMeans
<1>3. IsPrefix(<<>>, s)
  <2> DEFINE e == <<>>
  <2>1. e \in Seq(Nat) /\ Len(e) = 0 BY <1>1
  <2> HIDE DEF e
  <2>2. Len(e) <= Len(s) /\ \A k \in 1..Len(e) : e[k] = s[k] BY <2>1, <1>1
  <2>3. IsPrefix(e, s) <=> Len(e) <= Len(s) /\ \A k \in 1..Len(e) : e[k] = s[k]
    BY <2>1, PrefixMeans
  <2> QED BY <2>2, <2>3 DEF e
<1> QED BY <1>2, <1>3

\* transitive,
LEMMA PrefixTrans ==
  ASSUME NEW s \in Seq(Nat), NEW t \in Seq(Nat), NEW u \in Seq(Nat),
         IsPrefix(s, t), IsPrefix(t, u)
  PROVE  IsPrefix(s, u)
  BY PrefixMeans

\* kept when the longer one grows,
LEMMA PrefixAppend ==
  ASSUME NEW s \in Seq(Nat), NEW t \in Seq(Nat), NEW n \in Nat, IsPrefix(s, t)
  PROVE  IsPrefix(s, Append(t, n))
<1>1. Append(t, n) \in Seq(Nat) /\ Len(Append(t, n)) = Len(t) + 1
      /\ \A k \in 1..Len(t) : Append(t, n)[k] = t[k]
  OBVIOUS
<1>2. Len(s) \in Nat /\ Len(t) \in Nat OBVIOUS
<1>3. Len(s) <= Len(t) /\ \A k \in 1..Len(s) : s[k] = t[k] BY PrefixMeans
<1>4. \A k \in 1..Len(s) : Append(t, n)[k] = s[k] BY <1>1, <1>2, <1>3
<1> DEFINE u == Append(t, n)
<1>5. u \in Seq(Nat) /\ Len(u) = Len(t) + 1 /\ \A k \in 1..Len(s) : u[k] = s[k]
  BY <1>1, <1>4
<1> HIDE DEF u
<1>7. u \in Seq(Nat) /\ Len(s) <= Len(u) /\ \A k \in 1..Len(s) : s[k] = u[k]
  BY <1>2, <1>3, <1>5
<1>6. IsPrefix(s, u) BY <1>7, PrefixMeans
<1> QED BY <1>6 DEF u

\* and decided by length where it holds one way or the other.
LEMMA PrefixShorter ==
  ASSUME NEW s \in Seq(Nat), NEW t \in Seq(Nat), IsPrefix(s, t) \/ IsPrefix(t, s),
         Len(s) <= Len(t)
  PROVE  IsPrefix(s, t)
<1>1. CASE IsPrefix(s, t) BY <1>1
<1>2. CASE IsPrefix(t, s)
  <2>1. Len(s) = Len(t) /\ \A k \in 1..Len(s) : s[k] = t[k] BY <1>2, PrefixMeans
  <2> QED BY <2>1, PrefixMeans
<1> QED BY <1>1, <1>2

\* Two prefixes of one sequence are comparable.
LEMMA PrefixComparable ==
  ASSUME NEW s \in Seq(Nat), NEW t \in Seq(Nat), NEW u \in Seq(Nat),
         IsPrefix(s, u), IsPrefix(t, u)
  PROVE  IsPrefix(s, t) \/ IsPrefix(t, s)
<1>1. Len(s) \in Nat /\ Len(t) \in Nat OBVIOUS
<1>2. Len(s) <= Len(u) /\ (\A k \in 1..Len(s) : s[k] = u[k]) BY PrefixMeans
<1>3. Len(t) <= Len(u) /\ (\A k \in 1..Len(t) : t[k] = u[k]) BY PrefixMeans
<1>4. CASE Len(s) <= Len(t) BY <1>1, <1>2, <1>3, <1>4, PrefixMeans
<1>5. CASE Len(t) <= Len(s) BY <1>1, <1>2, <1>3, <1>5, PrefixMeans
<1> QED BY <1>1, <1>4, <1>5

LEMMA PrefixOfEmpty ==
  ASSUME NEW s \in Seq(Nat), IsPrefix(s, <<>>) PROVE s = <<>>
<1> DEFINE e == <<>>
<1>1. e \in Seq(Nat) /\ Len(e) = 0 /\ IsPrefix(s, e) BY EmptySeq
<1> HIDE DEF e
<1>2. IsPrefix(s, e) => Len(s) <= Len(e) BY <1>1, PrefixMeans
<1>3. Len(s) = 0 BY <1>1, <1>2
<1> QED BY <1>3, EmptySeq

\* What is in a prefix is in the whole; an appended update is there, too.
LEMMA PrefixToSet ==
  ASSUME NEW s \in Seq(Nat), NEW t \in Seq(Nat), IsPrefix(s, t)
  PROVE  ToSet(s) \subseteq ToSet(t)
<1>1. Len(s) <= Len(t) /\ \A k \in 1..Len(s) : s[k] = t[k] BY PrefixMeans
<1> QED BY <1>1 DEF ToSet

LEMMA ToSetAppend ==
  ASSUME NEW s \in Seq(Nat), NEW n \in Nat
  PROVE  n \in ToSet(Append(s, n)) /\ ToSet(s) \subseteq ToSet(Append(s, n))
<1>1. /\ Append(s, n) \in Seq(Nat) /\ Len(Append(s, n)) = Len(s) + 1
      /\ \A k \in 1..Len(s) : Append(s, n)[k] = s[k]
      /\ Append(s, n)[Len(s) + 1] = n
  OBVIOUS
<1>2. Len(s) + 1 \in DOMAIN Append(s, n) BY <1>1
<1> QED BY <1>1, <1>2 DEF ToSet

-----------------------------------------------------------------------------
(* Types, and what can happen to a request.                                *)

State == Seq(1..used["update"])
Open(i) == life[i] \in {"up", "draining"}

Pcs == {"idle", "reset", "insert", "remove", "giveup", "load", "claim", "resave",
        "install", "found", "touched", "save", "check"}
Tasks == {"none", "create", "use", "resume", "takeover"}
ReqType == [pc : Pcs, at : Instances \cup {Nobody}, task : Tasks, room : Nat, snap : State,
            due : Nat, since : Nat]

\* Request r goes to pc, with these fields; the other requests stay as they are.
Moves(r, pc, room, snap, due) ==
  /\ req' \in [Requests -> ReqType']
  /\ \A q \in Requests \ {r} : req'[q] = req[q]
  /\ req'[r].pc = pc /\ req'[r].room = room /\ req'[r].snap = snap /\ req'[r].due = due
  /\ req'[r].at = req[r].at /\ req'[r].task = req[r].task /\ req'[r].since = req[r].since

RowTypes ==
  /\ owner \in Instances \cup {Nobody} /\ leased \in BOOLEAN
  /\ stored \in State /\ epoch \in Nat /\ used \in [Events -> Nat]
HeapTypes ==
  /\ life \in [Instances -> {"up", "draining", "flushing", "emptying", "releasing", "closed"}]
  /\ heap \in [Instances -> Seq(State)]
  /\ here \in [Instances -> Nat] /\ observed \in [Instances -> SUBSET Nat]
  /\ \A i \in Instances : /\ here[i] \in 0..Len(heap[i]) /\ observed[i] \subseteq 1..Len(heap[i])
                          /\ ~Open(i) => here[i] = 0 /\ observed[i] = {}
QueueTypes ==
  /\ pend \in [Instances -> State] /\ work \in [Instances -> [state : State, since : Nat]]
  /\ sweep \in [Instances -> {"idle", "removed", "shut"}]
  /\ lost \in [Instances -> {"no", "told", "removed", "cleared"}]

\* What a request carries on its way through the statements.
Stage(pc, task, room, snap) ==
  \/ pc = "load" /\ task \in {"resume", "takeover"} /\ room = 0
  \/ pc \in {"claim", "resave"} /\ task = "takeover" /\ room = 0 /\ snap # <<>>
  \/ pc = "install" /\ task \in {"resume", "takeover"} /\ room = 0 /\ snap # <<>>
  \/ pc = "found" /\ task \in {"use", "resume", "takeover"} /\ room # 0
  \/ pc \in {"touched", "save"} /\ task # "none" /\ room # 0
  \/ pc = "check" /\ task \in {"create", "use", "resume"} /\ room # 0
  \/ pc = "check" /\ task = "takeover" /\ (room = 0 => snap # <<>>)
  \/ pc \in {"reset", "insert"} /\ task = "create" /\ room = 0
  \/ pc = "remove" /\ task = "create" /\ room # 0
  \/ pc = "giveup" /\ task \in {"create", "takeover"}
Staged(q) == q = Idle \/ (q.at \in Instances /\ Stage(q.pc, q.task, q.room, q.snap))
ReqTypes ==
  /\ req \in [Requests -> ReqType]
  /\ \A r \in Requests : /\ Staged(req[r])
                         /\ req[r].at \in Instances => req[r].room \in 0..Len(heap[req[r].at])

Types == RowTypes /\ HeapTypes /\ QueueTypes /\ ReqTypes

\* The forms in which the module changes a request are all moves.
LEMMA Going ==
  ASSUME req \in [Requests -> ReqType], State \subseteq State', NEW r \in Requests, NEW pc \in Pcs
  PROVE  /\ Goes(r, pc) => Moves(r, pc, req[r].room, req[r].snap, req[r].due)
         /\ \A n, m \in Nat :
              req' = [req EXCEPT ![r].pc = pc, ![r].room = n, ![r].due = m]
                => Moves(r, pc, n, req[r].snap, m)
         /\ \A n \in Nat :
              /\ req' = [req EXCEPT ![r].pc = pc, ![r].room = n]
                  => Moves(r, pc, n, req[r].snap, req[r].due)
              /\ req' = [req EXCEPT ![r].pc = pc, ![r].due = n]
                  => Moves(r, pc, req[r].room, req[r].snap, n)
         /\ \A s \in State :
              /\ req' = [req EXCEPT ![r].pc = pc, ![r].snap = s]
                  => Moves(r, pc, req[r].room, s, req[r].due)
              /\ req' = [req EXCEPT ![r].snap = s, ![r].pc = pc]
                  => Moves(r, pc, req[r].room, s, req[r].due)
<1> USE DEF ReqType
<1>1. req[r] \in ReqType /\ \A q \in Requests : req[q] \in ReqType' OBVIOUS
<1>2. ASSUME Goes(r, pc) PROVE Moves(r, pc, req[r].room, req[r].snap, req[r].due)
  BY <1>1, <1>2 DEF Goes, Moves
<1>3. ASSUME NEW n \in Nat, NEW m \in Nat, req' = [req EXCEPT ![r].pc = pc, ![r].room = n, ![r].due = m]
      PROVE  Moves(r, pc, n, req[r].snap, m)
  BY <1>1, <1>3 DEF Moves
<1>4. ASSUME NEW n \in Nat, req' = [req EXCEPT ![r].pc = pc, ![r].room = n]
      PROVE  Moves(r, pc, n, req[r].snap, req[r].due)
  BY <1>1, <1>4 DEF Moves
<1>5. ASSUME NEW n \in Nat, req' = [req EXCEPT ![r].pc = pc, ![r].due = n]
      PROVE  Moves(r, pc, req[r].room, req[r].snap, n)
  BY <1>1, <1>5 DEF Moves
<1>6. ASSUME NEW s \in State, req' = [req EXCEPT ![r].pc = pc, ![r].snap = s]
      PROVE  Moves(r, pc, req[r].room, s, req[r].due)
  BY <1>1, <1>6 DEF Moves
<1>7. ASSUME NEW s \in State, req' = [req EXCEPT ![r].snap = s, ![r].pc = pc]
      PROVE  Moves(r, pc, req[r].room, s, req[r].due)
  BY <1>1, <1>7 DEF Moves
<1> HIDE DEF ReqType
<1> QED BY <1>2, <1>3, <1>4, <1>5, <1>6, <1>7

\* States are sequences of updates.
LEMMA StateIsSeq == ASSUME RowTypes PROVE State \subseteq Seq(Nat)
  BY DEF RowTypes, State, Events

\* Only updates are counted in states, and no count ever falls.
LEMMA StatesGrow ==
  ASSUME RowTypes, UNCHANGED used \/ Updates \/ (\E k \in Events : Happens(k))
  PROVE  used' \in [Events -> Nat] /\ State \subseteq State'
<1>1. used["update"] \in Nat /\ used'["update"] \in Nat /\ used' \in [Events -> Nat]
      /\ used["update"] <= used'["update"]
  <2>1. CASE UNCHANGED used BY <2>1 DEF RowTypes, Events
  <2>2. CASE Updates BY <2>2 DEF RowTypes, Events, Updates
  <2>3. ASSUME NEW k \in Events, Happens(k)
        PROVE  used' \in [Events -> Nat] /\ used["update"] <= used'["update"]
    BY <2>3 DEF RowTypes, Events, Happens
  <2>4. used["update"] \in Nat BY DEF RowTypes, Events
  <2> QED BY <2>1, <2>2, <2>3, <2>4 DEF Events
<1>2. 1..used["update"] \subseteq 1..used'["update"] BY <1>1
<1> QED BY <1>1, <1>2, SeqMonotonic DEF State

\* What touch and CreateRoom write is a state of the next moment.
LEMMA FreshState ==
  ASSUME RowTypes, Updates, NEW s \in State
  PROVE  Append(s, Fresh) \in State' /\ <<Fresh>> \in State' /\ Fresh \in Nat
<1>1. used["update"] \in Nat /\ used'["update"] = used["update"] + 1
  BY DEF RowTypes, Events, Updates
<1>2. Fresh \in 1..used'["update"] /\ Fresh \in Nat
      /\ 1..used["update"] \subseteq 1..used'["update"]
  BY <1>1 DEF Fresh
<1>3. s \in Seq(1..used'["update"]) BY <1>2, SeqMonotonic DEF State
<1> QED BY <1>2, <1>3 DEF State

LEMMA NoState == ASSUME RowTypes PROVE <<>> \in State /\ Idle \in ReqType /\ NoWork \in [state : State, since : Nat]
<1>1. <<>> \in State BY DEF State
<1> QED BY <1>1 DEF Idle, ReqType, NoWork, Pcs, Tasks

\* Request r is over.
Ends(r) ==
  /\ req' \in [Requests -> ReqType']
  /\ \A q \in Requests \ {r} : req'[q] = req[q]
  /\ req'[r] = Idle

LEMMA Ending ==
  ASSUME req \in [Requests -> ReqType], RowTypes, State \subseteq State', NEW r \in Requests, Drops(r)
  PROVE  Ends(r)
<1>1. \A q \in Requests : req[q] \in ReqType' BY DEF ReqType
<1>2. Idle \in ReqType' BY NoState DEF ReqType
<1> QED BY <1>1, <1>2 DEF Drops, Ends

\* Request r begins.
Begins(r, i, pc, task, room) ==
  /\ req' \in [Requests -> ReqType']
  /\ \A q \in Requests \ {r} : req'[q] = req[q]
  /\ req'[r].pc = pc /\ req'[r].room = room /\ req'[r].snap = <<>> /\ req'[r].due = 0
  /\ req'[r].at = i /\ req'[r].task = task /\ req'[r].since = epoch

\* So are the forms in which one begins.
LEMMA Beginning ==
  ASSUME req \in [Requests -> ReqType], RowTypes, State \subseteq State', NEW r \in Requests,
         NEW i \in Instances, NEW pc \in Pcs, NEW task \in Tasks, NEW room \in Nat,
         \/ req' = [req EXCEPT ![r] = [Idle EXCEPT !.pc = pc, !.task = task, !.at = i,
                                               !.room = room, !.since = epoch]]
         \/ /\ room = 0
            /\ req' = [req EXCEPT ![r] = [Idle EXCEPT !.pc = pc, !.at = i, !.task = task,
                                                  !.since = epoch]]
  PROVE  Begins(r, i, pc, task, room)
<1> DEFINE b == [Idle EXCEPT !.pc = pc, !.task = task, !.at = i, !.room = room, !.since = epoch]
       c == [Idle EXCEPT !.pc = pc, !.at = i, !.task = task, !.since = epoch]
<1>1. \A q \in Requests : req[q] \in ReqType' BY DEF ReqType
<1>2. <<>> \in State' /\ epoch \in Nat BY NoState DEF RowTypes
<1>4. /\ b \in ReqType' /\ b.pc = pc /\ b.room = room /\ b.snap = <<>> /\ b.due = 0
      /\ b.at = i /\ b.task = task /\ b.since = epoch
  BY <1>2 DEF Idle, ReqType
<1>5. room = 0 =>
      /\ c \in ReqType' /\ c.pc = pc /\ c.room = room /\ c.snap = <<>> /\ c.due = 0
      /\ c.at = i /\ c.task = task /\ c.since = epoch
  BY <1>2 DEF Idle, ReqType
<1>3. req' = [req EXCEPT ![r] = b] \/ (room = 0 /\ req' = [req EXCEPT ![r] = c]) OBVIOUS
<1> HIDE DEF b, c
<1> QED BY <1>1, <1>3, <1>4, <1>5 DEF Begins

\* Parts of the state that a step leaves alone stay typed.
LEMMA QueueFrame ==
  ASSUME QueueTypes, State \subseteq State', UNCHANGED queue, UNCHANGED sweepers PROVE QueueTypes'
  BY DEF QueueTypes, queue, sweepers

LEMMA HeapFrame ==
  ASSUME HeapTypes, State \subseteq State', UNCHANGED process PROVE HeapTypes'
<1>1. Seq(State) \subseteq Seq(State') BY SeqMonotonic
<1> QED BY <1>1 DEF HeapTypes, process, Open

\* The types of requests are kept by a step of one of them, or of none.
LEMMA ReqFrame ==
  ASSUME ReqTypes, req' \in [Requests -> ReqType'],
         \A i \in Instances : Len(heap[i]) \in Nat /\ Len(heap'[i]) \in Nat /\ Len(heap[i]) <= Len(heap'[i]),
         NEW r \in Requests, \A q \in Requests \ {r} : req'[q] = req[q],
         Staged(req'[r]), req'[r].at \in Instances => req'[r].room \in 0..Len(heap'[req'[r].at])
  PROVE  ReqTypes'
<1>1. ASSUME NEW q \in Requests
      PROVE  /\ Staged(req'[q])
             /\ req'[q].at \in Instances => req'[q].room \in 0..Len(heap'[req'[q].at])
  <2>1. CASE q = r BY <2>1
  <2>2. CASE q # r
    <3>1. req'[q] = req[q] BY <2>2
    <3> QED BY <3>1 DEF ReqTypes
  <2> QED BY <2>1, <2>2
<1>2. ASSUME NEW q \in Requests, Staged(req'[q]) PROVE Staged(req[q])'
  BY <1>2 DEF Staged, Stage, Idle
<1> QED BY <1>1, <1>2 DEF ReqTypes

\* A request that is not idle is at some stage.
LEMMA AtStage ==
  ASSUME ReqTypes, NEW r \in Requests, req[r].pc # "idle"
  PROVE  /\ req[r].at \in Instances /\ Stage(req[r].pc, req[r].task, req[r].room, req[r].snap)
         /\ req[r].room \in 0..Len(heap[req[r].at])
  BY DEF ReqTypes, Staged, Idle

\* They are kept when no request changes.
LEMMA ReqSame ==
  ASSUME ReqTypes, State \subseteq State', UNCHANGED req,
         \A i \in Instances : Len(heap[i]) \in Nat /\ Len(heap'[i]) \in Nat /\ Len(heap[i]) <= Len(heap'[i])
  PROVE  ReqTypes'
<1>1. req' \in [Requests -> ReqType'] BY DEF ReqTypes, ReqType
<1>2. \A q \in Requests : Staged(req[q])' BY DEF ReqTypes, Staged, Stage, Idle
<1> QED BY <1>1, <1>2 DEF ReqTypes

\* What touch does to the objects.
LEMMA Touching ==
  ASSUME RowTypes, HeapTypes, QueueTypes, State \subseteq State',
         NEW i \in Instances, NEW o \in 1..Len(heap[i]), TouchRoom(i, o)
  PROVE  /\ HeapTypes'
         /\ \A j \in Instances : Len(heap'[j]) = Len(heap[j])
         /\ \A j \in Instances : \A p \in 1..Len(heap[j]) :
              (j # i \/ p # o) => heap'[j][p] = heap[j][p]
         /\ heap[i][o] \in State /\ Fresh \in Nat
         /\ heap'[i][o] = Append(heap[i][o], Fresh) /\ heap'[i][o] \in State'
<1> DEFINE s == Append(heap[i][o], Fresh)
<1>1. heap \in [Instances -> Seq(State)] /\ heap[i] \in Seq(State) /\ heap[i][o] \in State
  BY DEF HeapTypes
<1>2. s \in State' /\ Fresh \in Nat BY <1>1, FreshState DEF TouchRoom
<1>3. heap' = [heap EXCEPT ![i] = [heap[i] EXCEPT ![o] = s]] BY DEF TouchRoom
<1> HIDE DEF s
<1>4. heap[i] \in Seq(State') /\ \A j \in Instances : heap[j] \in Seq(State')
  BY <1>1, SeqMonotonic
<1>5. /\ [heap[i] EXCEPT ![o] = s] \in Seq(State')
      /\ Len([heap[i] EXCEPT ![o] = s]) = Len(heap[i])
      /\ \A p \in 1..Len(heap[i]) : [heap[i] EXCEPT ![o] = s][p] = IF p = o THEN s ELSE heap[i][p]
  BY <1>2, <1>4, ExceptSeq
<1>6. heap' \in [Instances -> Seq(State')] /\ (\A j \in Instances : Len(heap'[j]) = Len(heap[j]))
  BY <1>1, <1>3, <1>4, <1>5
<1>7. /\ \A j \in Instances : \A p \in 1..Len(heap[j]) :
            (j # i \/ p # o) => heap'[j][p] = heap[j][p]
      /\ heap'[i][o] = s
  BY <1>1, <1>3, <1>5
<1>8. HeapTypes' BY <1>6 DEF HeapTypes, TouchRoom, Open
<1> QED BY <1>1, <1>2, <1>6, <1>7, <1>8 DEF s

\* What a new object does to them.
LEMMA Adding ==
  ASSUME HeapTypes, State \subseteq State', NEW i \in Instances, NEW s \in State',
         AddRoom(i, s), Open(i)
  PROVE  /\ HeapTypes'
         /\ \A j \in Instances \ {i} : heap'[j] = heap[j] /\ here'[j] = here[j] /\ observed'[j] = observed[j]
         /\ here'[i] = Len(heap[i]) + 1 /\ Len(heap'[i]) = Len(heap[i]) + 1
         /\ \A p \in 1..Len(heap[i]) : heap'[i][p] = heap[i][p]
         /\ heap'[i][here'[i]] = s
         /\ observed'[i] = observed[i] \cup {here'[i]}
<1>1. heap \in [Instances -> Seq(State)] /\ heap[i] \in Seq(State) BY DEF HeapTypes
<1>2. heap[i] \in Seq(State') /\ \A j \in Instances : heap[j] \in Seq(State')
  BY <1>1, SeqMonotonic
<1>3. /\ Append(heap[i], s) \in Seq(State') /\ Len(Append(heap[i], s)) = Len(heap[i]) + 1
      /\ \A p \in 1..Len(heap[i]) : Append(heap[i], s)[p] = heap[i][p]
      /\ Append(heap[i], s)[Len(heap[i]) + 1] = s /\ Len(heap[i]) \in Nat
  BY <1>2, AppendProperties
<1>4. heap' \in [Instances -> Seq(State')] /\ heap'[i] = Append(heap[i], s)
      /\ \A j \in Instances \ {i} : heap'[j] = heap[j]
  BY <1>1, <1>2, <1>3 DEF AddRoom
<1>5. /\ here'[i] = Len(heap[i]) + 1 /\ observed'[i] = observed[i] \cup {here'[i]}
      /\ here' \in [Instances -> Nat] /\ observed' \in [Instances -> SUBSET Nat]
      /\ \A j \in Instances \ {i} : here'[j] = here[j] /\ observed'[j] = observed[j]
  BY <1>3, <1>4 DEF AddRoom, HeapTypes
<1>6. \A j \in Instances : /\ here'[j] \in 0..Len(heap'[j]) /\ observed'[j] \subseteq 1..Len(heap'[j])
                           /\ ~Open(j)' => here'[j] = 0 /\ observed'[j] = {}
  BY <1>1, <1>3, <1>4, <1>5 DEF AddRoom, HeapTypes, Open
<1>7. HeapTypes' BY <1>4, <1>5, <1>6 DEF AddRoom, HeapTypes
<1> QED BY <1>3, <1>4, <1>5, <1>7

HeapGrows ==
  \A i \in Instances : Len(heap[i]) \in Nat /\ Len(heap'[i]) \in Nat /\ Len(heap[i]) <= Len(heap'[i])

\* So the types of requests are kept by each kind of step of one of them.
LEMMA EndsTyped ==
  ASSUME ReqTypes, HeapGrows, NEW r \in Requests, Ends(r) PROVE ReqTypes'
<1>1. Idle.at = Nobody /\ Nobody \notin Instances BY InstancesAssumption DEF Idle
<1> QED BY <1>1, ReqFrame DEF Ends, Staged, HeapGrows

LEMMA MovesTyped ==
  ASSUME ReqTypes, HeapGrows, NEW r \in Requests, NEW pc, NEW room, NEW snap, NEW due,
         Moves(r, pc, room, snap, due), req[r].at \in Instances,
         Stage(pc, req[r].task, room, snap), room \in 0..Len(heap'[req[r].at])
  PROVE  ReqTypes'
  BY ReqFrame DEF Moves, Staged, HeapGrows

LEMMA BeginsTyped ==
  ASSUME ReqTypes, HeapGrows, NEW r \in Requests, NEW i \in Instances, NEW pc, NEW task, NEW room,
         Begins(r, i, pc, task, room), Stage(pc, task, room, <<>>), room \in 0..Len(heap'[i])
  PROVE  ReqTypes'
  BY ReqFrame DEF Begins, Staged, HeapGrows

LEMMA SameTyped ==
  ASSUME ReqTypes, State \subseteq State', HeapGrows, UNCHANGED req PROVE ReqTypes'
  BY ReqSame DEF HeapGrows

\* Actions that make no object and change none.
LEMMA HeapStays ==
  ASSUME HeapTypes, State \subseteq State', UNCHANGED heap
  PROVE  heap' \in [Instances -> Seq(State')] /\ HeapGrows
  BY SeqMonotonic DEF HeapTypes, HeapGrows

-----------------------------------------------------------------------------
(* What each action does to the types, and to the request it is about.     *)

LEMMA ReserveRoomTypes ==
  ASSUME Types, NEW r \in Requests, NEW i \in Instances, ReserveRoom(r, i)
  PROVE  Types' /\ State \subseteq State'
         /\ (\/ Begins(r, i, "reset", "create", 0)
             \/ UNCHANGED req)
<1>0. RowTypes /\ HeapTypes /\ QueueTypes /\ ReqTypes BY DEF Types
<1>1. used' \in [Events -> Nat] /\ State \subseteq State'
  BY <1>0, StatesGrow DEF ReserveRoom, Fault, Events
<1>2. RowTypes' BY <1>0, <1>1, NoState DEF ReserveRoom, TakeLease, RowTypes
<1>3. HeapTypes' /\ HeapGrows
  BY <1>0, <1>1, HeapFrame, HeapStays DEF ReserveRoom, process
<1>4. QueueTypes' BY <1>0, <1>1, QueueFrame DEF ReserveRoom, queue, sweepers
<1>5. \/ Begins(r, i, "reset", "create", 0)
      \/ UNCHANGED req
  BY <1>0, <1>1, <1>3, Beginning DEF ReserveRoom, Fault, Pcs, Tasks, ReqTypes, HeapTypes, RowTypes
<1>6. ReqTypes'
  <2>1. CASE Begins(r, i, "reset", "create", 0)
    BY <1>0, <1>3, <2>1, BeginsTyped DEF Stage, HeapGrows, HeapTypes
  <2>2. CASE UNCHANGED req BY <1>0, <1>1, <1>3, <2>2, SameTyped
  <2> QED BY <1>5, <2>1, <2>2
<1> QED BY <1>1, <1>2, <1>3, <1>4, <1>5, <1>6 DEF Types

LEMMA ResetRoomStateTypes ==
  ASSUME Types, NEW r \in Requests, ResetRoomState(r)
  PROVE  Types' /\ State \subseteq State'
         /\ (\/ Moves(r, "insert", req[r].room, req[r].snap, req[r].due)
             \/ Moves(r, "giveup", req[r].room, req[r].snap, req[r].due))
<1>0. RowTypes /\ HeapTypes /\ QueueTypes /\ ReqTypes BY DEF Types
<1>1. used' \in [Events -> Nat] /\ State \subseteq State'
  BY <1>0, StatesGrow DEF ResetRoomState, Fault, Events
<1>2. RowTypes' BY <1>0, <1>1, NoState DEF ResetRoomState, RowTypes
<1>3. HeapTypes' /\ HeapGrows
  BY <1>0, <1>1, HeapFrame, HeapStays DEF ResetRoomState, process
<1>4. QueueTypes' BY <1>0, <1>1, QueueFrame DEF ResetRoomState, queue, sweepers
<1>5. \/ Moves(r, "insert", req[r].room, req[r].snap, req[r].due)
      \/ Moves(r, "giveup", req[r].room, req[r].snap, req[r].due)
  BY <1>0, <1>1, <1>3, Going DEF ResetRoomState, Fault, Pcs, Tasks, ReqTypes, HeapTypes, RowTypes
<1>6. ReqTypes'
  <2>1. req[r].at \in Instances /\ req[r].room \in 0..Len(heap'[req[r].at])
      /\ Stage(req[r].pc, req[r].task, req[r].room, req[r].snap) /\ req[r].task \in Tasks
    BY <1>0, <1>3, AtStage DEF ResetRoomState, HeapGrows, ReqTypes, ReqType
  <2>2. CASE Moves(r, "insert", req[r].room, req[r].snap, req[r].due)
    BY <1>0, <1>3, <2>1, <2>2, MovesTyped DEF ResetRoomState, Stage, Tasks
  <2>3. CASE Moves(r, "giveup", req[r].room, req[r].snap, req[r].due)
    BY <1>0, <1>3, <2>1, <2>3, MovesTyped DEF ResetRoomState, Stage, Tasks
  <2> QED BY <1>5, <2>2, <2>3
<1> QED BY <1>1, <1>2, <1>3, <1>4, <1>5, <1>6 DEF Types

LEMMA RemoveRoomTypes ==
  ASSUME Types, NEW r \in Requests, RemoveRoom(r)
  PROVE  Types' /\ State \subseteq State'
         /\ Moves(r, "giveup", req[r].room, req[r].snap, req[r].due)
<1>0. RowTypes /\ HeapTypes /\ QueueTypes /\ ReqTypes BY DEF Types
<1>1. used' \in [Events -> Nat] /\ State \subseteq State'
  BY <1>0, StatesGrow DEF RemoveRoom, Events
<1>2. RowTypes' BY <1>0, <1>1 DEF RemoveRoom, row, RowTypes
<1>3. HeapTypes' /\ HeapGrows
  <2>1. heap' \in [Instances -> Seq(State')] /\ HeapGrows BY <1>0, <1>1, HeapStays DEF RemoveRoom
  <2>2. req[r].at \in Instances BY <1>0, AtStage DEF RemoveRoom
  <2>3. \A j \in Instances : here'[j] \in {0, here[j]} BY <1>0, <2>2 DEF RemoveRoom, HeapTypes
  <2>4. here' \in [Instances -> Nat] BY <1>0, <2>2 DEF RemoveRoom, HeapTypes
  <2> QED BY <1>0, <2>1, <2>3, <2>4 DEF RemoveRoom, HeapTypes, Open
<1>4. QueueTypes' BY <1>0, <1>1, NoState DEF RemoveRoom, QueueTypes, sweepers
<1>5. Moves(r, "giveup", req[r].room, req[r].snap, req[r].due)
  BY <1>0, <1>1, <1>3, Going DEF RemoveRoom, Pcs, Tasks, ReqTypes, HeapTypes, RowTypes
<1>6. ReqTypes'
  <2>1. req[r].at \in Instances /\ req[r].room \in 0..Len(heap'[req[r].at])
      /\ Stage(req[r].pc, req[r].task, req[r].room, req[r].snap) /\ req[r].task \in Tasks
    BY <1>0, <1>3, AtStage DEF RemoveRoom, HeapGrows, ReqTypes, ReqType
  <2>2. CASE Moves(r, "giveup", req[r].room, req[r].snap, req[r].due)
    BY <1>0, <1>3, <2>1, <2>2, MovesTyped DEF RemoveRoom, Stage, Tasks
  <2> QED BY <1>5, <2>2
<1> QED BY <1>1, <1>2, <1>3, <1>4, <1>5, <1>6 DEF Types

LEMMA GiveUpTypes ==
  ASSUME Types, NEW r \in Requests, GiveUp(r)
  PROVE  Types' /\ State \subseteq State'
         /\ Ends(r)
<1>0. RowTypes /\ HeapTypes /\ QueueTypes /\ ReqTypes BY DEF Types
<1>1. used' \in [Events -> Nat] /\ State \subseteq State'
  BY <1>0, StatesGrow DEF GiveUp, Fault, Events
<1>2. RowTypes' BY <1>0, <1>1 DEF GiveUp, ReleaseRoom, row, RowTypes
<1>3. HeapTypes' /\ HeapGrows
  BY <1>0, <1>1, HeapFrame, HeapStays DEF GiveUp, process
<1>4. QueueTypes' BY <1>0, <1>1, QueueFrame DEF GiveUp, queue, sweepers
<1>5. Ends(r)
  BY <1>0, <1>1, <1>3, Ending DEF GiveUp, Fault, Pcs, Tasks, ReqTypes, HeapTypes, RowTypes
<1>6. ReqTypes'
  <2>1. CASE Ends(r) BY <1>0, <1>3, <2>1, EndsTyped
  <2> QED BY <1>5, <2>1
<1> QED BY <1>1, <1>2, <1>3, <1>4, <1>5, <1>6 DEF Types

LEMMA GetRoomTypes ==
  ASSUME Types, NEW r \in Requests, NEW i \in Instances, GetRoom(r, i)
  PROVE  Types' /\ State \subseteq State'
         /\ (\/ (here[i] # 0 /\ Begins(r, i, "found", "use", here[i]))
             \/ (here[i] = 0 /\ Holds(i) /\ Begins(r, i, "load", "resume", 0))
             \/ (here[i] = 0 /\ ~leased /\ Begins(r, i, "load", "takeover", 0)))
<1>0. RowTypes /\ HeapTypes /\ QueueTypes /\ ReqTypes BY DEF Types
<1>1. used' \in [Events -> Nat] /\ State \subseteq State'
  BY <1>0, StatesGrow DEF GetRoom, Events
<1>2. RowTypes' BY <1>0, <1>1 DEF GetRoom, row, RowTypes
<1>3. HeapTypes' /\ HeapGrows
  BY <1>0, <1>1, HeapFrame, HeapStays DEF GetRoom, process
<1>4. QueueTypes' BY <1>0, <1>1, QueueFrame DEF GetRoom, queue, sweepers
<1>5. \/ (here[i] # 0 /\ Begins(r, i, "found", "use", here[i]))
      \/ (here[i] = 0 /\ Holds(i) /\ Begins(r, i, "load", "resume", 0))
      \/ (here[i] = 0 /\ ~leased /\ Begins(r, i, "load", "takeover", 0))
  <2> DEFINE new(pc, task) ==
        req' = [req EXCEPT ![r] = [Idle EXCEPT !.pc = pc, !.task = task, !.at = i,
                                               !.room = here[i], !.since = epoch]]
  <2>1. \/ here[i] # 0 /\ new("found", "use")
        \/ here[i] = 0 /\ Holds(i) /\ new("load", "resume")
        \/ here[i] = 0 /\ ~leased /\ new("load", "takeover")
    BY DEF GetRoom
  <2>2. req \in [Requests -> ReqType] /\ here[i] \in Nat BY <1>0 DEF ReqTypes, HeapTypes
  <2>3. ASSUME NEW pc \in Pcs, NEW task \in Tasks, new(pc, task)
        PROVE  Begins(r, i, pc, task, here[i])
    BY <1>0, <1>1, <2>2, <2>3, Beginning
  <2>4. {"found", "load"} \subseteq Pcs /\ {"use", "resume", "takeover"} \subseteq Tasks
    BY DEF Pcs, Tasks
  <2> HIDE DEF new
  <2> QED BY <2>1, <2>3, <2>4
<1>6. ReqTypes'
  <2>1. CASE here[i] # 0 /\ Begins(r, i, "found", "use", here[i])
    BY <1>0, <1>3, <2>1, BeginsTyped DEF Stage, HeapGrows, HeapTypes
  <2>2. CASE here[i] = 0 /\ Begins(r, i, "load", "resume", 0)
    BY <1>0, <1>3, <2>2, BeginsTyped DEF Stage, HeapGrows, HeapTypes
  <2>3. CASE here[i] = 0 /\ Begins(r, i, "load", "takeover", 0)
    BY <1>0, <1>3, <2>3, BeginsTyped DEF Stage, HeapGrows, HeapTypes
  <2> QED BY <1>5, <2>1, <2>2, <2>3
<1> QED BY <1>1, <1>2, <1>3, <1>4, <1>5, <1>6 DEF Types

LEMMA LoadRoomStateTypes ==
  ASSUME Types, NEW r \in Requests, LoadRoomState(r)
  PROVE  Types' /\ State \subseteq State'
         /\ (\/ Ends(r)
             \/ (stored # <<>> /\ req[r].task = "resume" /\ Moves(r, "install", req[r].room, stored, req[r].due))
             \/ (stored # <<>> /\ req[r].task # "resume" /\ Moves(r, "claim", req[r].room, stored, req[r].due)))
<1>0. RowTypes /\ HeapTypes /\ QueueTypes /\ ReqTypes BY DEF Types
<1>1. used' \in [Events -> Nat] /\ State \subseteq State'
  BY <1>0, StatesGrow DEF LoadRoomState, Events
<1>2. RowTypes' BY <1>0, <1>1 DEF LoadRoomState, row, RowTypes
<1>3. HeapTypes' /\ HeapGrows
  BY <1>0, <1>1, HeapFrame, HeapStays DEF LoadRoomState, process
<1>4. QueueTypes' BY <1>0, <1>1, QueueFrame DEF LoadRoomState, queue, sweepers
<1>5. \/ Ends(r)
      \/ (stored # <<>> /\ req[r].task = "resume" /\ Moves(r, "install", req[r].room, stored, req[r].due))
      \/ (stored # <<>> /\ req[r].task # "resume" /\ Moves(r, "claim", req[r].room, stored, req[r].due))
  BY <1>0, <1>1, <1>3, Going, Ending DEF LoadRoomState, Pcs, Tasks, ReqTypes, HeapTypes, RowTypes
<1>6. ReqTypes'
  <2>1. req[r].at \in Instances /\ req[r].room \in 0..Len(heap'[req[r].at])
      /\ Stage(req[r].pc, req[r].task, req[r].room, req[r].snap) /\ req[r].task \in Tasks
    BY <1>0, <1>3, AtStage DEF LoadRoomState, HeapGrows, ReqTypes, ReqType
  <2>2. CASE Ends(r) BY <1>0, <1>3, <2>2, EndsTyped
  <2>3. CASE stored # <<>> /\ req[r].task = "resume" /\ Moves(r, "install", req[r].room, stored, req[r].due)
    BY <1>0, <1>3, <2>1, <2>3, MovesTyped DEF LoadRoomState, Stage, Tasks
  <2>4. CASE stored # <<>> /\ req[r].task # "resume" /\ Moves(r, "claim", req[r].room, stored, req[r].due)
    BY <1>0, <1>3, <2>1, <2>4, MovesTyped DEF LoadRoomState, Stage, Tasks
  <2> QED BY <1>5, <2>2, <2>3, <2>4
<1> QED BY <1>1, <1>2, <1>3, <1>4, <1>5, <1>6 DEF Types

LEMMA ClaimRoomTypes ==
  ASSUME Types, NEW r \in Requests, ClaimRoom(r)
  PROVE  Types' /\ State \subseteq State'
         /\ (\/ Ends(r)
             \/ Moves(r, "resave", req[r].room, req[r].snap, req[r].due))
<1>0. RowTypes /\ HeapTypes /\ QueueTypes /\ ReqTypes BY DEF Types
<1>1. used' \in [Events -> Nat] /\ State \subseteq State'
  BY <1>0, StatesGrow DEF ClaimRoom, Fault, Events
<1>2. RowTypes' 
  <2>1. CASE UNCHANGED row BY <1>0, <1>1, <2>1 DEF row, RowTypes
  <2>2. CASE TakeLease(req[r].at) /\ UNCHANGED stored
    BY <1>0, <1>1, <2>2, AtStage DEF ClaimRoom, TakeLease, RowTypes
  <2> QED BY <2>1, <2>2 DEF ClaimRoom
<1>3. HeapTypes' /\ HeapGrows
  BY <1>0, <1>1, HeapFrame, HeapStays DEF ClaimRoom, process
<1>4. QueueTypes' BY <1>0, <1>1, QueueFrame DEF ClaimRoom, queue, sweepers
<1>5. \/ Ends(r)
      \/ Moves(r, "resave", req[r].room, req[r].snap, req[r].due)
  BY <1>0, <1>1, <1>3, Going, Ending DEF ClaimRoom, Fault, Pcs, Tasks, ReqTypes, HeapTypes, RowTypes
<1>6. ReqTypes'
  <2>1. req[r].at \in Instances /\ req[r].room \in 0..Len(heap'[req[r].at])
      /\ Stage(req[r].pc, req[r].task, req[r].room, req[r].snap) /\ req[r].task \in Tasks
    BY <1>0, <1>3, AtStage DEF ClaimRoom, HeapGrows, ReqTypes, ReqType
  <2>2. CASE Ends(r) BY <1>0, <1>3, <2>2, EndsTyped
  <2>3. CASE Moves(r, "resave", req[r].room, req[r].snap, req[r].due)
    BY <1>0, <1>3, <2>1, <2>3, MovesTyped DEF ClaimRoom, Stage, Tasks
  <2> QED BY <1>5, <2>2, <2>3
<1> QED BY <1>1, <1>2, <1>3, <1>4, <1>5, <1>6 DEF Types

LEMMA ActOnRoomTypes ==
  ASSUME Types, NEW r \in Requests, ActOnRoom(r)
  PROVE  Types' /\ State \subseteq State'
         /\ Moves(r, "touched", req[r].room, req[r].snap, Fresh)
<1>0. RowTypes /\ HeapTypes /\ QueueTypes /\ ReqTypes BY DEF Types
<1>1. used' \in [Events -> Nat] /\ State \subseteq State'
  BY <1>0, StatesGrow DEF ActOnRoom, TouchRoom, Events
<1>2. RowTypes' BY <1>0, <1>1 DEF ActOnRoom, row, RowTypes
<1>3. /\ HeapTypes' /\ HeapGrows /\ Fresh \in Nat
      /\ Append(heap[req[r].at][req[r].room], Fresh) \in State' 
  <2>0. req[r].at \in Instances /\ req[r].room \in 0..Len(heap[req[r].at]) /\ req[r].room # 0
    BY <1>0, AtStage DEF ActOnRoom, Stage
  <2>1. req[r].room \in 1..Len(heap[req[r].at]) BY <1>0, <2>0 DEF HeapTypes
  <2>2. /\ HeapTypes' /\ Fresh \in Nat /\ \A j \in Instances : Len(heap'[j]) = Len(heap[j])
        /\ heap'[req[r].at][req[r].room] = Append(heap[req[r].at][req[r].room], Fresh) /\ heap'[req[r].at][req[r].room] \in State'
    BY <1>0, <1>1, <2>0, <2>1, Touching DEF ActOnRoom
  <2>3. HeapGrows
    <3> SUFFICES ASSUME NEW j \in Instances
                 PROVE  /\ Len(heap[j]) \in Nat /\ Len(heap'[j]) \in Nat
                        /\ Len(heap[j]) <= Len(heap'[j])
      BY DEF HeapGrows
    <3>1. heap[j] \in Seq(State)
      BY <1>0 DEF HeapTypes
    <3>2. Len(heap[j]) \in Nat
      BY <3>1
    <3>3. Len(heap'[j]) = Len(heap[j])
      BY <2>2, Zenon
    <3> QED BY <3>2, <3>3
  <2> QED BY <2>2, <2>3
<1>4. QueueTypes' BY <1>0, <1>1, <1>3 DEF ActOnRoom, TouchRoom, Newer, QueueTypes, sweepers
<1>5. Moves(r, "touched", req[r].room, req[r].snap, Fresh)
  BY <1>0, <1>1, <1>3, Going DEF ActOnRoom, TouchRoom, Pcs, Tasks, ReqTypes, HeapTypes, RowTypes
<1>6. ReqTypes'
  <2>1. req[r].at \in Instances /\ req[r].room \in 0..Len(heap'[req[r].at])
      /\ Stage(req[r].pc, req[r].task, req[r].room, req[r].snap) /\ req[r].task \in Tasks
    BY <1>0, <1>3, AtStage DEF ActOnRoom, HeapGrows, ReqTypes, ReqType
  <2>2. CASE Moves(r, "touched", req[r].room, req[r].snap, Fresh)
    BY <1>0, <1>3, <2>1, <2>2, MovesTyped DEF ActOnRoom, Stage, Tasks
  <2> QED BY <1>5, <2>2
<1> QED BY <1>1, <1>2, <1>3, <1>4, <1>5, <1>6 DEF Types

LEMMA LookAtRoomTypes ==
  ASSUME Types, NEW r \in Requests, LookAtRoom(r)
  PROVE  Types' /\ State \subseteq State'
         /\ Ends(r)
<1>0. RowTypes /\ HeapTypes /\ QueueTypes /\ ReqTypes BY DEF Types
<1>1. used' \in [Events -> Nat] /\ State \subseteq State'
  BY <1>0, StatesGrow DEF LookAtRoom, Events
<1>2. RowTypes' BY <1>0, <1>1 DEF LookAtRoom, row, RowTypes
<1>3. HeapTypes' /\ HeapGrows
  BY <1>0, <1>1, HeapFrame, HeapStays DEF LookAtRoom, process
<1>4. QueueTypes' BY <1>0, <1>1, QueueFrame DEF LookAtRoom, queue, sweepers
<1>5. Ends(r)
  BY <1>0, <1>1, <1>3, Ending DEF LookAtRoom, Pcs, Tasks, ReqTypes, HeapTypes, RowTypes
<1>6. ReqTypes'
  <2>1. CASE Ends(r) BY <1>0, <1>3, <2>1, EndsTyped
  <2> QED BY <1>5, <2>1
<1> QED BY <1>1, <1>2, <1>3, <1>4, <1>5, <1>6 DEF Types

LEMMA PersistRoomTypes ==
  ASSUME Types, NEW r \in Requests, PersistRoom(r)
  PROVE  Types' /\ State \subseteq State'
         /\ Moves(r, "save", req[r].room, heap[req[r].at][req[r].room], req[r].due)
<1>0. RowTypes /\ HeapTypes /\ QueueTypes /\ ReqTypes BY DEF Types
<1>1. used' \in [Events -> Nat] /\ State \subseteq State'
  BY <1>0, StatesGrow DEF PersistRoom, Events
<1>2. RowTypes' BY <1>0, <1>1 DEF PersistRoom, row, RowTypes
<1>3. HeapTypes' /\ HeapGrows
  BY <1>0, <1>1, HeapFrame, HeapStays DEF PersistRoom, process
<1>4. QueueTypes' BY <1>0, <1>1, QueueFrame DEF PersistRoom, queue, sweepers
<1>5. Moves(r, "save", req[r].room, heap[req[r].at][req[r].room], req[r].due)
  <2>1. req[r].at \in Instances /\ req[r].room \in 0..Len(heap[req[r].at]) /\ req[r].room # 0
    BY <1>0, AtStage DEF PersistRoom, Stage
  <2>2. heap[req[r].at][req[r].room] \in State BY <1>0, <2>1 DEF HeapTypes
  <2> QED BY <1>0, <1>1, <2>2, Going DEF PersistRoom, Pcs, ReqTypes
<1>6. ReqTypes'
  <2>1. req[r].at \in Instances /\ req[r].room \in 0..Len(heap'[req[r].at])
      /\ Stage(req[r].pc, req[r].task, req[r].room, req[r].snap) /\ req[r].task \in Tasks
    BY <1>0, <1>3, AtStage DEF PersistRoom, HeapGrows, ReqTypes, ReqType
  <2>2. CASE Moves(r, "save", req[r].room, heap[req[r].at][req[r].room], req[r].due)
    BY <1>0, <1>3, <2>1, <2>2, MovesTyped DEF PersistRoom, Stage, Tasks
  <2> QED BY <1>5, <2>2
<1> QED BY <1>1, <1>2, <1>3, <1>4, <1>5, <1>6 DEF Types

LEMMA SaveRoomStateTypes ==
  ASSUME Types, NEW r \in Requests, SaveRoomState(r)
  PROVE  Types' /\ State \subseteq State'
         /\ (\/ Ends(r)
             \/ (req[r].task = "takeover" /\ req[r].room = 0 /\ Moves(r, "install", req[r].room, req[r].snap, req[r].due))
             \/ Moves(r, "check", req[r].room, req[r].snap, req[r].due)
             \/ (req[r].task = "takeover" /\ req[r].room = 0 /\ Moves(r, "giveup", req[r].room, req[r].snap, req[r].due))
             \/ (req[r].task = "create" /\ Moves(r, "remove", req[r].room, req[r].snap, req[r].due)))
<1>0. RowTypes /\ HeapTypes /\ QueueTypes /\ ReqTypes BY DEF Types
<1>1. used' \in [Events -> Nat] /\ State \subseteq State'
  BY <1>0, StatesGrow DEF SaveRoomState, Saved, NotSaved, Fault, Events
<1>2. RowTypes' 
  <2>1. stored' \in {stored, req[r].snap} BY DEF SaveRoomState
  <2>2. req[r].snap \in State BY <1>0 DEF ReqTypes, ReqType
  <2> QED BY <1>0, <1>1, <2>1, <2>2 DEF SaveRoomState, RowTypes
<1>3. HeapTypes' /\ HeapGrows
  BY <1>0, <1>1, HeapFrame, HeapStays DEF SaveRoomState, process
<1>4. QueueTypes' BY <1>0, <1>1, QueueFrame DEF SaveRoomState, queue, sweepers
<1>5. \/ Ends(r)
      \/ (req[r].task = "takeover" /\ req[r].room = 0 /\ Moves(r, "install", req[r].room, req[r].snap, req[r].due))
      \/ Moves(r, "check", req[r].room, req[r].snap, req[r].due)
      \/ (req[r].task = "takeover" /\ req[r].room = 0 /\ Moves(r, "giveup", req[r].room, req[r].snap, req[r].due))
      \/ (req[r].task = "create" /\ Moves(r, "remove", req[r].room, req[r].snap, req[r].due))
  BY <1>0, <1>1, <1>3, Going, Ending DEF SaveRoomState, Saved, NotSaved, Fault, Pcs, Tasks, ReqTypes, HeapTypes, RowTypes
<1>6. ReqTypes'
  <2>1. req[r].at \in Instances /\ req[r].room \in 0..Len(heap'[req[r].at])
      /\ Stage(req[r].pc, req[r].task, req[r].room, req[r].snap) /\ req[r].task \in Tasks
    BY <1>0, <1>3, AtStage DEF SaveRoomState, HeapGrows, ReqTypes, ReqType
  <2>2. CASE Ends(r) BY <1>0, <1>3, <2>2, EndsTyped
  <2>3. CASE req[r].task = "takeover" /\ req[r].room = 0 /\ Moves(r, "install", req[r].room, req[r].snap, req[r].due)
    BY <1>0, <1>3, <2>1, <2>3, MovesTyped DEF SaveRoomState, Stage, Tasks
  <2>4. CASE Moves(r, "check", req[r].room, req[r].snap, req[r].due)
    BY <1>0, <1>3, <2>1, <2>4, MovesTyped DEF SaveRoomState, Stage, Tasks
  <2>5. CASE req[r].task = "takeover" /\ req[r].room = 0 /\ Moves(r, "giveup", req[r].room, req[r].snap, req[r].due)
    BY <1>0, <1>3, <2>1, <2>5, MovesTyped DEF SaveRoomState, Stage, Tasks
  <2>6. CASE req[r].task = "create" /\ Moves(r, "remove", req[r].room, req[r].snap, req[r].due)
    BY <1>0, <1>3, <2>1, <2>6, MovesTyped DEF SaveRoomState, Stage, Tasks
  <2> QED BY <1>5, <2>2, <2>3, <2>4, <2>5, <2>6
<1> QED BY <1>1, <1>2, <1>3, <1>4, <1>5, <1>6 DEF Types

LEMMA CheckLeaseTypes ==
  ASSUME Types, NEW r \in Requests, CheckLease(r)
  PROVE  Types' /\ State \subseteq State'
         /\ (\/ Ends(r)
             \/ (req[r].task = "takeover" /\ req[r].room = 0 /\ Moves(r, "install", req[r].room, req[r].snap, req[r].due))
             \/ (req[r].task = "takeover" /\ req[r].room = 0 /\ Moves(r, "giveup", req[r].room, req[r].snap, req[r].due))
             \/ (req[r].task = "create" /\ Moves(r, "remove", req[r].room, req[r].snap, req[r].due)))
<1>0. RowTypes /\ HeapTypes /\ QueueTypes /\ ReqTypes BY DEF Types
<1>1. used' \in [Events -> Nat] /\ State \subseteq State'
  BY <1>0, StatesGrow DEF CheckLease, Saved, NotSaved, Events
<1>2. RowTypes' BY <1>0, <1>1 DEF CheckLease, row, RowTypes
<1>3. HeapTypes' /\ HeapGrows
  BY <1>0, <1>1, HeapFrame, HeapStays DEF CheckLease, process
<1>4. QueueTypes' BY <1>0, <1>1, QueueFrame DEF CheckLease, queue, sweepers
<1>5. \/ Ends(r)
      \/ (req[r].task = "takeover" /\ req[r].room = 0 /\ Moves(r, "install", req[r].room, req[r].snap, req[r].due))
      \/ (req[r].task = "takeover" /\ req[r].room = 0 /\ Moves(r, "giveup", req[r].room, req[r].snap, req[r].due))
      \/ (req[r].task = "create" /\ Moves(r, "remove", req[r].room, req[r].snap, req[r].due))
  BY <1>0, <1>1, <1>3, Going, Ending DEF CheckLease, Saved, NotSaved, Pcs, Tasks, ReqTypes, HeapTypes, RowTypes
<1>6. ReqTypes'
  <2>1. req[r].at \in Instances /\ req[r].room \in 0..Len(heap'[req[r].at])
      /\ Stage(req[r].pc, req[r].task, req[r].room, req[r].snap) /\ req[r].task \in Tasks
    BY <1>0, <1>3, AtStage DEF CheckLease, HeapGrows, ReqTypes, ReqType
  <2>2. CASE Ends(r) BY <1>0, <1>3, <2>2, EndsTyped
  <2>3. CASE req[r].task = "takeover" /\ req[r].room = 0 /\ Moves(r, "install", req[r].room, req[r].snap, req[r].due)
    BY <1>0, <1>3, <2>1, <2>3, MovesTyped DEF CheckLease, Stage, Tasks
  <2>4. CASE req[r].task = "takeover" /\ req[r].room = 0 /\ Moves(r, "giveup", req[r].room, req[r].snap, req[r].due)
    BY <1>0, <1>3, <2>1, <2>4, MovesTyped DEF CheckLease, Stage, Tasks
  <2>5. CASE req[r].task = "create" /\ Moves(r, "remove", req[r].room, req[r].snap, req[r].due)
    BY <1>0, <1>3, <2>1, <2>5, MovesTyped DEF CheckLease, Stage, Tasks
  <2> QED BY <1>5, <2>2, <2>3, <2>4, <2>5
<1> QED BY <1>1, <1>2, <1>3, <1>4, <1>5, <1>6 DEF Types

LEMMA TimerTouchesTypes ==
  ASSUME Types, NEW i \in Instances, NEW o \in observed[i], TimerTouches(i, o)
  PROVE  Types' /\ State \subseteq State'
<1>0. RowTypes /\ HeapTypes /\ QueueTypes /\ ReqTypes BY DEF Types
<1>1. used' \in [Events -> Nat] /\ State \subseteq State'
  BY <1>0, StatesGrow DEF TimerTouches, TouchRoom, Events
<1>2. RowTypes' BY <1>0, <1>1 DEF TimerTouches, row, RowTypes
<1>3. /\ HeapTypes' /\ HeapGrows /\ Fresh \in Nat
      /\ Append(heap[i][o], Fresh) \in State' 
  <2>1. o \in 1..Len(heap[i]) BY <1>0 DEF HeapTypes
  <2>2. /\ HeapTypes' /\ Fresh \in Nat /\ \A j \in Instances : Len(heap'[j]) = Len(heap[j])
        /\ heap'[i][o] = Append(heap[i][o], Fresh) /\ heap'[i][o] \in State'
    BY <1>0, <1>1, <2>1, Touching DEF TimerTouches
  <2>3. HeapGrows BY <1>0, <2>2 DEF HeapTypes, HeapGrows
  <2> QED BY <2>2, <2>3
<1>4. QueueTypes' BY <1>0, <1>1, <1>3 DEF TimerTouches, TouchRoom, Newer, QueueTypes, sweepers
<1>5. ReqTypes' BY <1>0, <1>1, <1>3, SameTyped DEF TimerTouches, TouchRoom
<1> QED BY <1>1, <1>2, <1>3, <1>4, <1>5 DEF Types

LEMMA NextPendingRoomStateTypes ==
  ASSUME Types, NEW i \in Instances, NextPendingRoomState(i)
  PROVE  Types' /\ State \subseteq State'
<1>0. RowTypes /\ HeapTypes /\ QueueTypes /\ ReqTypes BY DEF Types
<1>1. used' \in [Events -> Nat] /\ State \subseteq State'
  BY <1>0, StatesGrow DEF NextPendingRoomState, Events
<1>2. RowTypes' BY <1>0, <1>1 DEF NextPendingRoomState, row, RowTypes
<1>3. HeapTypes' /\ HeapGrows
  BY <1>0, <1>1, HeapFrame, HeapStays DEF NextPendingRoomState, process
<1>4. QueueTypes' BY <1>0, <1>1, NoState DEF NextPendingRoomState, QueueTypes, RowTypes, sweepers
<1>5. ReqTypes' BY <1>0, <1>1, <1>3, SameTyped DEF NextPendingRoomState, TouchRoom
<1> QED BY <1>1, <1>2, <1>3, <1>4, <1>5 DEF Types

LEMMA SaveInBackgroundTypes ==
  ASSUME Types, NEW i \in Instances, SaveInBackground(i)
  PROVE  Types' /\ State \subseteq State'
<1>0. RowTypes /\ HeapTypes /\ QueueTypes /\ ReqTypes BY DEF Types
<1>1. used' \in [Events -> Nat] /\ State \subseteq State'
  BY <1>0, StatesGrow DEF SaveInBackground, Fault, Events
<1>2. RowTypes' 
  <2>1. stored' \in {stored, work[i].state} /\ work[i].state \in State
    BY <1>0 DEF SaveInBackground, QueueTypes
  <2> QED BY <1>0, <1>1, <2>1 DEF SaveInBackground, RowTypes
<1>3. HeapTypes' /\ HeapGrows
  BY <1>0, <1>1, HeapFrame, HeapStays DEF SaveInBackground, process
<1>4. QueueTypes' BY <1>0, <1>1, NoState DEF SaveInBackground, Retried, Newer, QueueTypes, sweepers
<1>5. ReqTypes' BY <1>0, <1>1, <1>3, SameTyped DEF SaveInBackground, TouchRoom
<1> QED BY <1>1, <1>2, <1>3, <1>4, <1>5 DEF Types

LEMMA HeartbeatRoomTypes ==
  ASSUME Types, NEW i \in Instances, HeartbeatRoom(i)
  PROVE  Types' /\ State \subseteq State'
<1>0. RowTypes /\ HeapTypes /\ QueueTypes /\ ReqTypes BY DEF Types
<1>1. used' \in [Events -> Nat] /\ State \subseteq State'
  BY <1>0, StatesGrow DEF HeartbeatRoom, Events
<1>2. RowTypes' BY <1>0, <1>1 DEF HeartbeatRoom, row, RowTypes
<1>3. HeapTypes' /\ HeapGrows
  BY <1>0, <1>1, HeapFrame, HeapStays DEF HeartbeatRoom, process
<1>4. QueueTypes' BY <1>0, <1>1 DEF HeartbeatRoom, QueueTypes, queue
<1>5. ReqTypes' BY <1>0, <1>1, <1>3, SameTyped DEF HeartbeatRoom, TouchRoom
<1> QED BY <1>1, <1>2, <1>3, <1>4, <1>5 DEF Types

LEMMA RevokeRoomTypes ==
  ASSUME Types, NEW i \in Instances, RevokeRoom(i)
  PROVE  Types' /\ State \subseteq State'
<1>0. RowTypes /\ HeapTypes /\ QueueTypes /\ ReqTypes BY DEF Types
<1>1. used' \in [Events -> Nat] /\ State \subseteq State'
  BY <1>0, StatesGrow DEF RevokeRoom, Events
<1>2. RowTypes' BY <1>0, <1>1 DEF RevokeRoom, row, RowTypes
<1>3. HeapTypes' /\ HeapGrows /\ QueueTypes'
  <2>1. heap' \in [Instances -> Seq(State')] /\ HeapGrows BY <1>0, <1>1, HeapStays DEF RevokeRoom
  <2>2. lost' \in [Instances -> {"no", "told", "removed", "cleared"}] /\ pend' \in [Instances -> State']
    BY <1>0, <1>1, NoState DEF RevokeRoom, QueueTypes
  <2>3. here' \in [Instances -> Nat] /\ \A j \in Instances : here'[j] \in {0, here[j]}
    BY <1>0 DEF RevokeRoom, HeapTypes
  <2>4. UNCHANGED observed \/ observed' = [observed EXCEPT ![i] = observed[i] \cap {here[i]}]
    BY DEF RevokeRoom, Silence
  <2>5. observed' \in [Instances -> SUBSET Nat] /\ \A j \in Instances : observed'[j] \subseteq observed[j]
    <3>1. CASE UNCHANGED observed BY <1>0, <3>1 DEF HeapTypes
    <3>2. CASE observed' = [observed EXCEPT ![i] = observed[i] \cap {here[i]}]
      BY <1>0, <3>2 DEF HeapTypes
    <3> QED BY <2>4, <3>1, <3>2
  <2> QED BY <1>0, <1>1, <2>1, <2>2, <2>3, <2>5 DEF RevokeRoom, HeapTypes, QueueTypes, Open
<1>4. QueueTypes' BY <1>3
<1>5. ReqTypes' BY <1>0, <1>1, <1>3, SameTyped DEF RevokeRoom, TouchRoom
<1> QED BY <1>1, <1>2, <1>3, <1>4, <1>5 DEF Types

LEMMA EvictIdleRoomTypes ==
  ASSUME Types, NEW i \in Instances, EvictIdleRoom(i)
  PROVE  Types' /\ State \subseteq State'
<1>0. RowTypes /\ HeapTypes /\ QueueTypes /\ ReqTypes BY DEF Types
<1>1. used' \in [Events -> Nat] /\ State \subseteq State'
  BY <1>0, StatesGrow DEF EvictIdleRoom, Events
<1>2. RowTypes' BY <1>0, <1>1 DEF EvictIdleRoom, row, RowTypes
<1>3. HeapTypes' /\ HeapGrows
  <2>1. heap' \in [Instances -> Seq(State')] /\ HeapGrows BY <1>0, <1>1, HeapStays DEF EvictIdleRoom
  <2> QED BY <1>0, <2>1 DEF EvictIdleRoom, HeapTypes, Open
<1>4. QueueTypes' BY <1>0, <1>1 DEF EvictIdleRoom, QueueTypes, queue
<1>5. ReqTypes' BY <1>0, <1>1, <1>3, SameTyped DEF EvictIdleRoom, TouchRoom
<1> QED BY <1>1, <1>2, <1>3, <1>4, <1>5 DEF Types

LEMMA ShutdownEvictedTypes ==
  ASSUME Types, NEW i \in Instances, ShutdownEvicted(i)
  PROVE  Types' /\ State \subseteq State'
<1>0. RowTypes /\ HeapTypes /\ QueueTypes /\ ReqTypes BY DEF Types
<1>1. used' \in [Events -> Nat] /\ State \subseteq State'
  BY <1>0, StatesGrow DEF ShutdownEvicted, Events
<1>2. RowTypes' BY <1>0, <1>1 DEF ShutdownEvicted, row, RowTypes
<1>3. HeapTypes' /\ HeapGrows
  <2>1. heap' \in [Instances -> Seq(State')] /\ HeapGrows BY <1>0, <1>1, HeapStays DEF ShutdownEvicted
  <2> QED BY <1>0, <2>1 DEF ShutdownEvicted, Silence, HeapTypes, Open
<1>4. QueueTypes' BY <1>0, <1>1, NoState DEF ShutdownEvicted, QueueTypes
<1>5. ReqTypes' BY <1>0, <1>1, <1>3, SameTyped DEF ShutdownEvicted, TouchRoom
<1> QED BY <1>1, <1>2, <1>3, <1>4, <1>5 DEF Types

LEMMA DeleteRoomStateTypes ==
  ASSUME Types, NEW i \in Instances, DeleteRoomState(i)
  PROVE  Types' /\ State \subseteq State'
<1>0. RowTypes /\ HeapTypes /\ QueueTypes /\ ReqTypes BY DEF Types
<1>1. used' \in [Events -> Nat] /\ State \subseteq State'
  BY <1>0, StatesGrow DEF DeleteRoomState, Fault, Events
<1>2. RowTypes' BY <1>0, <1>1, NoState DEF DeleteRoomState, RowTypes
<1>3. HeapTypes' /\ HeapGrows
  BY <1>0, <1>1, HeapFrame, HeapStays DEF DeleteRoomState, process
<1>4. QueueTypes' BY <1>0, <1>1 DEF DeleteRoomState, QueueTypes, queue
<1>5. ReqTypes' BY <1>0, <1>1, <1>3, SameTyped DEF DeleteRoomState, TouchRoom
<1> QED BY <1>1, <1>2, <1>3, <1>4, <1>5 DEF Types

LEMMA LeaseExpiresTypes ==
  ASSUME Types, LeaseExpires
  PROVE  Types' /\ State \subseteq State'
<1>0. RowTypes /\ HeapTypes /\ QueueTypes /\ ReqTypes BY DEF Types
<1>1. used' \in [Events -> Nat] /\ State \subseteq State'
  BY <1>0, StatesGrow DEF LeaseExpires, Events
<1>2. RowTypes' BY <1>0, <1>1 DEF LeaseExpires, RowTypes
<1>3. HeapTypes' /\ HeapGrows
  BY <1>0, <1>1, HeapFrame, HeapStays DEF LeaseExpires, process
<1>4. QueueTypes' BY <1>0, <1>1, QueueFrame DEF LeaseExpires, queue, sweepers
<1>5. ReqTypes' BY <1>0, <1>1, <1>3, SameTyped DEF LeaseExpires, TouchRoom
<1> QED BY <1>1, <1>2, <1>3, <1>4, <1>5 DEF Types

LEMMA StartDrainingTypes ==
  ASSUME Types, NEW i \in Instances, StartDraining(i)
  PROVE  Types' /\ State \subseteq State'
<1>0. RowTypes /\ HeapTypes /\ QueueTypes /\ ReqTypes BY DEF Types
<1>1. used' \in [Events -> Nat] /\ State \subseteq State'
  BY <1>0, StatesGrow DEF StartDraining, Events
<1>2. RowTypes' BY <1>0, <1>1 DEF StartDraining, row, RowTypes
<1>3. HeapTypes' /\ HeapGrows
  <2>1. heap' \in [Instances -> Seq(State')] /\ HeapGrows BY <1>0, <1>1, HeapStays DEF StartDraining
  <2> QED BY <1>0, <2>1 DEF StartDraining, HeapTypes, Open
<1>4. QueueTypes' BY <1>0, <1>1, QueueFrame DEF StartDraining, queue, sweepers
<1>5. ReqTypes' BY <1>0, <1>1, <1>3, SameTyped DEF StartDraining, TouchRoom
<1> QED BY <1>1, <1>2, <1>3, <1>4, <1>5 DEF Types

LEMMA ShutdownRoomsTypes ==
  ASSUME Types, NEW i \in Instances, ShutdownRooms(i)
  PROVE  Types' /\ State \subseteq State'
<1>0. RowTypes /\ HeapTypes /\ QueueTypes /\ ReqTypes BY DEF Types
<1>1. used' \in [Events -> Nat] /\ State \subseteq State'
  BY <1>0, StatesGrow DEF ShutdownRooms, Events
<1>2. RowTypes' BY <1>0, <1>1 DEF ShutdownRooms, row, RowTypes
<1>3. HeapTypes' /\ HeapGrows
  <2>1. heap' \in [Instances -> Seq(State')] /\ HeapGrows BY <1>0, <1>1, HeapStays DEF ShutdownRooms
  <2> QED BY <1>0, <2>1 DEF ShutdownRooms, HeapTypes, Open
<1>4. QueueTypes' BY <1>0, <1>1, QueueFrame DEF ShutdownRooms, queue, sweepers
<1>5. ReqTypes' BY <1>0, <1>1, <1>3, SameTyped DEF ShutdownRooms, TouchRoom
<1> QED BY <1>1, <1>2, <1>3, <1>4, <1>5 DEF Types

LEMMA FlushPendingTypes ==
  ASSUME Types, NEW i \in Instances, FlushPending(i)
  PROVE  Types' /\ State \subseteq State'
<1>0. RowTypes /\ HeapTypes /\ QueueTypes /\ ReqTypes BY DEF Types
<1>1. used' \in [Events -> Nat] /\ State \subseteq State'
  BY <1>0, StatesGrow DEF FlushPending, Fault, Events
<1>2. RowTypes' 
  <2>1. stored' \in {stored, pend[i]} BY DEF FlushPending
  <2> QED BY <1>0, <1>1, <2>1 DEF FlushPending, RowTypes, QueueTypes
<1>3. HeapTypes' /\ HeapGrows
  <2>1. UNCHANGED heap BY DEF FlushPending
  <2>2. UNCHANGED life \/ life' = [life EXCEPT ![i] = IF @ = "flushing" THEN "releasing" ELSE "closed"]
    BY DEF FlushPending
  <2> QED BY <1>0, <1>1, <2>1, <2>2, HeapStays DEF FlushPending, HeapTypes, Open
<1>4. QueueTypes' 
  <2>1. UNCHANGED pend \/ pend' = [pend EXCEPT ![i] = <<>>] BY DEF FlushPending
  <2> QED BY <1>0, <1>1, <2>1, NoState DEF FlushPending, QueueTypes, sweepers
<1>5. ReqTypes' BY <1>0, <1>1, <1>3, SameTyped DEF FlushPending, TouchRoom
<1> QED BY <1>1, <1>2, <1>3, <1>4, <1>5 DEF Types

LEMMA ReleaseAfterFlushTypes ==
  ASSUME Types, NEW i \in Instances, ReleaseAfterFlush(i)
  PROVE  Types' /\ State \subseteq State'
<1>0. RowTypes /\ HeapTypes /\ QueueTypes /\ ReqTypes BY DEF Types
<1>1. used' \in [Events -> Nat] /\ State \subseteq State'
  BY <1>0, StatesGrow DEF ReleaseAfterFlush, Fault, Events
<1>2. RowTypes' BY <1>0, <1>1 DEF ReleaseAfterFlush, ReleaseRoom, row, RowTypes
<1>3. HeapTypes' /\ HeapGrows
  <2>1. heap' \in [Instances -> Seq(State')] /\ HeapGrows BY <1>0, <1>1, HeapStays DEF ReleaseAfterFlush
  <2> QED BY <1>0, <2>1 DEF ReleaseAfterFlush, HeapTypes, Open
<1>4. QueueTypes' BY <1>0, <1>1, NoState DEF ReleaseAfterFlush, QueueTypes, sweepers
<1>5. ReqTypes' BY <1>0, <1>1, <1>3, SameTyped DEF ReleaseAfterFlush, TouchRoom
<1> QED BY <1>1, <1>2, <1>3, <1>4, <1>5 DEF Types

LEMMA InsertRoomTypes ==
  ASSUME Types, NEW r \in Requests, InsertRoom(r)
  PROVE  Types' /\ State \subseteq State'
         /\ (\/ UNCHANGED process /\ Moves(r, "giveup", req[r].room, req[r].snap, req[r].due)
             \/ /\ MayInsert(req[r].at) /\ Updates /\ AddRoom(req[r].at, <<Fresh>>) /\ <<Fresh>> \in State'
                /\ Moves(r, "touched", here'[req[r].at], req[r].snap, Fresh))
<1>0. RowTypes /\ HeapTypes /\ QueueTypes /\ ReqTypes BY DEF Types
<1>1. used' \in [Events -> Nat] /\ State \subseteq State'
  BY <1>0, StatesGrow DEF InsertRoom, Fault, Events
<1>2. RowTypes' BY <1>0, <1>1 DEF InsertRoom, row, RowTypes
<1>3. QueueTypes' BY <1>0, <1>1, QueueFrame DEF InsertRoom, queue, sweepers
<1>4. /\ req[r].at \in Instances /\ Stage(req[r].pc, req[r].task, req[r].room, req[r].snap)
      /\ req[r].room \in 0..Len(heap[req[r].at])
  BY <1>0, AtStage DEF InsertRoom
<1>5. CASE UNCHANGED process /\ Goes(r, "giveup")
  <2>1. HeapTypes' /\ HeapGrows BY <1>0, <1>1, <1>5, HeapFrame, HeapStays DEF process
  <2>2. Moves(r, "giveup", req[r].room, req[r].snap, req[r].due)
    BY <1>0, <1>1, <1>5, Going DEF Pcs, ReqTypes
  <2>3. ReqTypes' BY <1>0, <1>4, <2>1, <2>2, MovesTyped DEF InsertRoom, Stage, HeapGrows
  <2> QED BY <1>1, <1>2, <1>3, <1>5, <2>1, <2>2, <2>3 DEF Types
<1>6. CASE /\ MayInsert(req[r].at) /\ Updates /\ AddRoom(req[r].at, <<Fresh>>)
           /\ req' = [req EXCEPT ![r].pc = "touched", ![r].room = here'[req[r].at],
                                 ![r].due = Fresh]
  <2>1. <<Fresh>> \in State' /\ Fresh \in Nat BY <1>0, <1>6, NoState, FreshState
  <2>0. Open(req[r].at) BY <1>6 DEF MayInsert, Open
  <2>2. /\ HeapTypes' /\ here'[req[r].at] = Len(heap[req[r].at]) + 1
        /\ Len(heap'[req[r].at]) = Len(heap[req[r].at]) + 1
        /\ \A j \in Instances \ {req[r].at} : heap'[j] = heap[j]
    <3>1. PICK i \in Instances : i = req[r].at BY <1>4
    <3>2. AddRoom(i, <<Fresh>>) /\ Open(i) BY <1>6, <2>0, <3>1
    <3>3. /\ HeapTypes' /\ here'[i] = Len(heap[i]) + 1 /\ Len(heap'[i]) = Len(heap[i]) + 1
          /\ \A j \in Instances \ {i} : heap'[j] = heap[j]
      BY <1>0, <1>1, <2>1, <3>2, Adding
    <3> QED BY <3>1, <3>3
  <2>3. HeapGrows
    <3>1. ASSUME NEW j \in Instances
          PROVE  Len(heap[j]) \in Nat /\ Len(heap'[j]) \in Nat /\ Len(heap[j]) <= Len(heap'[j])
      <4>1. heap[j] \in Seq(State) BY <1>0 DEF HeapTypes
      <4>2. heap'[j] \in Seq(State') BY <2>2 DEF HeapTypes
      <4> QED BY <2>2, <4>1, <4>2
    <3> QED BY <3>1 DEF HeapGrows
  <2>4. here'[req[r].at] \in Nat /\ here'[req[r].at] # 0 /\ here'[req[r].at] \in 0..Len(heap'[req[r].at])
    BY <1>0, <1>4, <2>2 DEF HeapTypes
  <2>5. Moves(r, "touched", here'[req[r].at], req[r].snap, Fresh)
    BY <1>0, <1>1, <1>6, <2>1, <2>4, Going DEF Pcs, ReqTypes
  <2>6. ReqTypes' BY <1>0, <1>4, <2>3, <2>4, <2>5, MovesTyped DEF InsertRoom, Stage
  <2> QED BY <1>1, <1>2, <1>3, <1>6, <2>1, <2>2, <2>5, <2>6 DEF Types
<1> QED BY <1>5, <1>6 DEF InsertRoom

LEMMA InstallRoomTypes ==
  ASSUME Types, NEW r \in Requests, InstallRoom(r)
  PROVE  Types' /\ State \subseteq State'
         /\ (\/ UNCHANGED process /\ req[r].task = "resume" /\ Ends(r)
             \/ UNCHANGED process /\ req[r].task = "takeover"
                /\ Moves(r, "giveup", req[r].room, req[r].snap, req[r].due)
             \/ UNCHANGED process /\ here[req[r].at] # 0
                /\ Moves(r, "found", here[req[r].at], req[r].snap, req[r].due)
             \/ /\ MayInsert(req[r].at) /\ AddRoom(req[r].at, req[r].snap) /\ req[r].snap \in State'
                /\ Moves(r, "found", here'[req[r].at], req[r].snap, req[r].due))
<1>0. RowTypes /\ HeapTypes /\ QueueTypes /\ ReqTypes BY DEF Types
<1>1. used' \in [Events -> Nat] /\ State \subseteq State'
  BY <1>0, StatesGrow DEF InstallRoom, Fault, Events
<1>2. RowTypes' BY <1>0, <1>1 DEF InstallRoom, row, RowTypes
<1>3. QueueTypes' BY <1>0, <1>1, QueueFrame DEF InstallRoom, queue, sweepers
<1>4. /\ req[r].at \in Instances /\ Stage(req[r].pc, req[r].task, req[r].room, req[r].snap)
      /\ req[r].room \in 0..Len(heap[req[r].at]) /\ req[r].pc = "install" /\ req[r].snap \in State
  BY <1>0, AtStage DEF InstallRoom, ReqTypes, ReqType
<1>5. CASE UNCHANGED process
  <2>1. HeapTypes' /\ HeapGrows BY <1>0, <1>1, <1>5, HeapFrame, HeapStays DEF process
  <2>2. here[req[r].at] \in 0..Len(heap'[req[r].at]) /\ here[req[r].at] \in Nat
    BY <1>0, <1>4, <1>5 DEF HeapTypes, process
  <2>3. CASE req[r].task = "resume" /\ Drops(r)
    <3>1. Ends(r) BY <1>0, <1>1, <2>3, Ending DEF ReqTypes
    <3>2. ReqTypes' BY <1>0, <2>1, <3>1, EndsTyped
    <3> QED BY <1>1, <1>2, <1>3, <1>5, <2>1, <2>3, <3>1, <3>2 DEF Types
  <2>4. CASE req[r].task # "resume" /\ Goes(r, "giveup")
    <3>1. Moves(r, "giveup", req[r].room, req[r].snap, req[r].due)
      BY <1>0, <1>1, <2>4, Going DEF Pcs, ReqTypes
    <3>2. req[r].task = "takeover" BY <1>4, <2>4 DEF Stage
    <3>3. ReqTypes' BY <1>0, <1>4, <2>1, <3>1, <3>2, MovesTyped DEF Stage, HeapGrows
    <3> QED BY <1>1, <1>2, <1>3, <1>5, <2>1, <2>4, <3>1, <3>2, <3>3 DEF Types
  <2>5. CASE here[req[r].at] # 0 /\ req' = [req EXCEPT ![r].pc = "found", ![r].room = here[req[r].at]]
    <3>1. Moves(r, "found", here[req[r].at], req[r].snap, req[r].due)
      BY <1>0, <1>1, <2>2, <2>5, Going DEF Pcs, ReqTypes
    <3>2. ReqTypes' BY <1>0, <1>4, <2>1, <2>2, <2>5, <3>1, MovesTyped DEF Stage
    <3> QED BY <1>1, <1>2, <1>3, <1>5, <2>1, <2>5, <3>1, <3>2 DEF Types
  <2>6. here' = here BY <1>5 DEF process
  <2>7. ~ AddRoom(req[r].at, req[r].snap)
    <3>1. SUFFICES ASSUME AddRoom(req[r].at, req[r].snap) PROVE FALSE OBVIOUS
    <3>2. heap' = [heap EXCEPT ![req[r].at] = Append(heap[req[r].at], req[r].snap)] /\ heap' = heap
      BY <1>5, <3>1 DEF AddRoom, process
    <3>3. heap[req[r].at] = Append(heap[req[r].at], req[r].snap) /\ heap[req[r].at] \in Seq(State)
      BY <1>0, <1>4, <3>2 DEF HeapTypes
    <3>4. Len(heap[req[r].at]) = Len(heap[req[r].at]) + 1 /\ Len(heap[req[r].at]) \in Nat
      BY <1>4, <3>3, AppendProperties
    <3> QED BY <3>4
  <2> QED BY <1>5, <2>3, <2>4, <2>5, <2>7 DEF InstallRoom
<1>6. CASE /\ MayInsert(req[r].at) /\ AddRoom(req[r].at, req[r].snap)
           /\ req' = [req EXCEPT ![r].pc = "found", ![r].room = here'[req[r].at]]
  <2>1. req[r].snap \in State' BY <1>1, <1>4
  <2>0. Open(req[r].at) BY <1>6 DEF MayInsert, Open
  <2>2. /\ HeapTypes' /\ here'[req[r].at] = Len(heap[req[r].at]) + 1
        /\ Len(heap'[req[r].at]) = Len(heap[req[r].at]) + 1
        /\ \A j \in Instances \ {req[r].at} : heap'[j] = heap[j]
    <3>1. PICK i \in Instances : i = req[r].at BY <1>4
    <3>2. AddRoom(i, req[r].snap) /\ Open(i) BY <1>6, <2>0, <3>1
    <3>3. /\ HeapTypes' /\ here'[i] = Len(heap[i]) + 1 /\ Len(heap'[i]) = Len(heap[i]) + 1
          /\ \A j \in Instances \ {i} : heap'[j] = heap[j]
      BY <1>0, <1>1, <2>1, <3>2, Adding
    <3> QED BY <3>1, <3>3
  <2>3. HeapGrows
    <3>1. ASSUME NEW j \in Instances
          PROVE  Len(heap[j]) \in Nat /\ Len(heap'[j]) \in Nat /\ Len(heap[j]) <= Len(heap'[j])
      <4>1. heap[j] \in Seq(State) BY <1>0 DEF HeapTypes
      <4>2. heap'[j] \in Seq(State') BY <2>2 DEF HeapTypes
      <4> QED BY <2>2, <4>1, <4>2
    <3> QED BY <3>1 DEF HeapGrows
  <2>4. here'[req[r].at] \in Nat /\ here'[req[r].at] # 0 /\ here'[req[r].at] \in 0..Len(heap'[req[r].at])
    BY <1>0, <1>4, <2>2 DEF HeapTypes
  <2>5. Moves(r, "found", here'[req[r].at], req[r].snap, req[r].due)
    BY <1>0, <1>1, <1>6, <2>1, <2>4, Going DEF Pcs, ReqTypes
  <2>6. ReqTypes' BY <1>0, <1>4, <2>3, <2>4, <2>5, MovesTyped DEF Stage
  <2> QED BY <1>1, <1>2, <1>3, <1>6, <2>1, <2>2, <2>5, <2>6 DEF Types
<1> QED BY <1>5, <1>6 DEF InstallRoom

\* What the next process with the name of instance i finds.
Restarted(i) ==
  /\ life'[i] = "up" /\ heap'[i] = <<>> /\ here'[i] = 0 /\ observed'[i] = {}
  /\ pend'[i] = <<>> /\ work'[i] = NoWork /\ sweep'[i] = "idle" /\ lost'[i] = "no"
  /\ \A j \in Instances \ {i} :
       /\ life'[j] = life[j] /\ heap'[j] = heap[j] /\ here'[j] = here[j] /\ observed'[j] = observed[j]
       /\ pend'[j] = pend[j] /\ work'[j] = work[j] /\ sweep'[j] = sweep[j] /\ lost'[j] = lost[j]
  /\ \A r \in Requests : req'[r] = IF req[r].at = i THEN Idle ELSE req[r]

LEMMA NewProcessTypes ==
  ASSUME Types, NEW i \in Instances, Redeploy(i) \/ Crash(i)
  PROVE  Types' /\ State \subseteq State' /\ Restarted(i) /\ UNCHANGED <<row, acked>>
<1>0. RowTypes /\ HeapTypes /\ QueueTypes /\ ReqTypes BY DEF Types
<1>1. used' \in [Events -> Nat] /\ State \subseteq State'
  BY <1>0, StatesGrow DEF Redeploy, Crash, Events
<1>2. NewProcess(i) /\ UNCHANGED <<row, acked>> BY DEF Redeploy, Crash, NewProcess
<1>3. RowTypes' BY <1>0, <1>1, <1>2 DEF row, RowTypes
<1>4. QueueTypes' BY <1>0, <1>1, <1>2, NoState DEF NewProcess, QueueTypes, NoWork, RowTypes
<1>5. /\ heap' \in [Instances -> Seq(State')] /\ heap'[i] = <<>>
      /\ \A j \in Instances \ {i} : heap'[j] = heap[j]
  BY <1>0, <1>1, <1>2, SeqMonotonic, EmptySeq DEF NewProcess, HeapTypes
<1>6. HeapTypes' BY <1>0, <1>2, <1>5 DEF NewProcess, HeapTypes, Open
<1>7. Restarted(i) BY <1>0, <1>2, <1>5 DEF NewProcess, Restarted, HeapTypes, QueueTypes
<1>8. ReqTypes'
  <2>1. req' \in [Requests -> ReqType']
    BY <1>0, <1>1, <1>2, NoState DEF NewProcess, ReqTypes, ReqType
  <2>2. ASSUME NEW q \in Requests
        PROVE  Staged(req[q])' /\ (req'[q].at \in Instances => req'[q].room \in 0..Len(heap'[req'[q].at]))
    <3>1. CASE req[q].at = i
      <4>1. req'[q] = Idle BY <1>7, <3>1 DEF Restarted
      <4>2. Idle.at = Nobody /\ Nobody \notin Instances BY InstancesAssumption DEF Idle
      <4>3. Staged(req'[q]) BY <4>1 DEF Staged
      <4> QED BY <4>1, <4>2, <4>3 DEF Staged, Stage, Idle
    <3>2. CASE req[q].at # i
      <4>1. req'[q] = req[q] BY <1>7, <3>2 DEF Restarted
      <4>2. Staged(req[q])' BY <1>0, <4>1 DEF Staged, Stage, ReqTypes, Idle
      <4> QED BY <1>0, <1>5, <3>2, <4>1, <4>2 DEF ReqTypes
    <3> QED BY <3>1, <3>2
  <2> QED BY <2>1, <2>2 DEF ReqTypes
<1> QED BY <1>1, <1>2, <1>3, <1>4, <1>6, <1>7, <1>8 DEF Types

-----------------------------------------------------------------------------
(* The inductive invariant, and steps seen from the other instances.       *)

\* The requests at instance i.
At(i) == {r \in Requests : req[r].at = i}

\* The row is for r's instance: r has reserved the code or claimed the room.
Claimed(r) ==
  \/ req[r].task = "create"
  \/ req[r].task = "takeover" /\ req[r].pc \notin {"load", "claim"}

\* When a request began, in ownerships.
Timely(r) ==
  req[r].pc # "idle" =>
    /\ req[r].since <= epoch
    /\ ~leased => req[r].since = epoch
    /\ req[r].task = "takeover" /\ leased => req[r].since < epoch
    /\ Claimed(r) => req[r].since < epoch /\ leased /\ owner = req[r].at
    /\ req[r].task = "resume" /\ req[r].since = epoch => owner = req[r].at

\* What holds while an instance takes a room down.
Cleaning(i) ==
  /\ sweep[i] # "idle" => here[i] = 0 /\ At(i) = {} /\ (owner = i => acked = {})
  /\ sweep[i] = "shut" => observed[i] = {}
  /\ lost[i] # "no" => ~Holds(i) /\ \A r \in At(i) : req[r].room # 0
  /\ lost[i] \in {"removed", "cleared"} => here[i] = 0
  /\ here[i] # 0 => here[i] \in observed[i]
  /\ \A o \in observed[i] :
       Len(heap[i][o]) > 1 \/ (\E r \in At(i) : req[r].task # "create" /\ req[r].room = o)
         => o = here[i] \/ sweep[i] = "removed" \/ lost[i] \in {"removed", "cleared"}

\* While a room is created, its instance has nothing else to do with the code.
Creating(i) ==
  \A r \in At(i) : req[r].task = "create" =>
    /\ At(i) = {r}
    /\ pend[i] = <<>> /\ work[i].state = <<>> /\ acked = {} /\ lost[i] = "no"
    /\ req[r].pc # "check"
    /\ req[r].pc \in {"reset", "insert", "giveup"} => here[i] = 0
    /\ req[r].pc \in {"reset", "insert", "touched", "save"} => stored = <<>>
    /\ req[r].pc \in {"touched", "save", "remove"} =>
         here[i] \in {0, req[r].room} /\ Len(heap[i][req[r].room]) = 1
    /\ req[r].pc = "save" => req[r].snap = heap[i][req[r].room]

\* The objects that may still change.
Touchable(i) ==
  ({here[i]} \ {0}) \cup {o \in observed[i] : Len(heap[i][o]) > 1}
    \cup {req[r].room : r \in {q \in At(i) : req[q].pc \in {"found", "touched"}}}

\* The states that may still be saved, and the one that is.
Saves(i) ==
  {<<>>, stored, pend[i], work[i].state}
    \cup {req[r].snap : r \in {q \in At(i) : req[q].pc \in {"save", "resave"}}}

\* Instance i has the lease, or had it last and does not know better.
Leads(i) ==
  /\ owner = i
  /\ \/ leased
     \/ here[i] # 0 /\ lost[i] = "no"
     \/ \E r \in At(i) : req[r].task = "resume" /\ req[r].room = 0

OneRoom(i) ==
  Leads(i) =>
    /\ \A o \in Touchable(i) : o = here[i] \/ ~Open(i) \/ sweep[i] = "removed"
    /\ \A o, p \in Touchable(i) : o = p

OneHistory(i) ==
  Leads(i) =>
    /\ \A s, t \in Saves(i) : IsPrefix(s, t) \/ IsPrefix(t, s)
    /\ \A o \in Touchable(i) : \A s \in Saves(i) : IsPrefix(s, heap[i][o])

\* An open instance that leads and has no room has nothing on its way but the room.
Vacant(i) ==
  Leads(i) /\ here[i] = 0 /\ life[i] = "up" =>
    /\ pend[i] = <<>> /\ work[i].state = <<>>
    /\ \A r \in At(i) :
         /\ req[r].room = 0 \/ req[r].task = "create"
         /\ req[r].pc = "install" => stored = req[r].snap
         /\ req[r].pc \in {"resave", "check"} => stored \in {req[r].snap, <<>>}

Takeovers(i) ==
  \A r \in At(i) : req[r].task = "takeover" =>
    /\ ~leased /\ here[i] # 0 => owner = i
    /\ ~leased /\ req[r].pc = "claim" =>
         stored = req[r].snap \/ (stored = <<>> /\ owner = Nobody)
    /\ Claimed(r) => \A q \in At(i) : req[q].task = "takeover" => q = r

Answers(i) ==
  \A r \in At(i) :
    /\ req[r].pc = "touched" => req[r].due \in ToSet(heap[i][req[r].room])
    /\ req[r].pc \in {"save", "check"} /\ req[r].room # 0 => req[r].due \in ToSet(req[r].snap)
    /\ req[r].pc = "check" /\ Holds(i) => IsPrefix(req[r].snap, stored)

Remembered(i) ==
  Leads(i) /\ here[i] # 0 =>
    \/ heap[i][here[i]] \in {stored, pend[i], work[i].state}
    \/ \E r \in At(i) : req[r].task = "create"

Local(i) ==
  /\ Cleaning(i) /\ Creating(i) /\ OneRoom(i) /\ OneHistory(i) /\ Vacant(i) /\ Takeovers(i)
  /\ Answers(i) /\ Remembered(i)

Kept == acked \subseteq ToSet(stored)

IInv ==
  /\ Calm /\ Types /\ Kept
  /\ \A r \in Requests : Timely(r)
  /\ \A i \in Instances : Local(i)

(* Steps of one instance, seen from the row and from the others.           *)

\* No request goes on that began in an earlier ownership.
Punctual ==
  \A r \in Requests : req'[r] = Idle \/ (req'[r] = req[r] /\ (req[r].pc # "idle" => req[r].since = epoch))

\* What a step of instance k may do to the row.
RowStep(k) ==
  \/ UNCHANGED row /\ (acked' = acked \/ acked' = {})
  \/ /\ Holds(k) /\ UNCHANGED <<owner, leased, epoch>> /\ IsPrefix(stored, stored')
     /\ acked \subseteq acked' /\ acked' \subseteq acked \cup ToSet(stored')
  \/ TakeLease(k) /\ (UNCHANGED <<stored, acked>> \/ (stored' = <<>> /\ acked' = {}))
  \/ Holds(k) /\ UNCHANGED <<owner, leased, epoch, acked>> /\ stored' = <<>> /\ acked = {}
  \/ leased /\ leased' = FALSE /\ UNCHANGED <<owner, stored, epoch, acked>> /\ Punctual
  \/ /\ owner = k /\ owner' = Nobody /\ leased' = FALSE /\ stored' = <<>>
     /\ UNCHANGED <<epoch, req, acked>> /\ acked = {} /\ At(k) = {} /\ (leased => Punctual)

\* Nothing happens at instance j.
SameAt(j) ==
  /\ life'[j] = life[j] /\ heap'[j] = heap[j] /\ here'[j] = here[j] /\ observed'[j] = observed[j]
  /\ pend'[j] = pend[j] /\ work'[j] = work[j] /\ sweep'[j] = sweep[j] /\ lost'[j] = lost[j]
  /\ \A r \in Requests : req[r].at = j \/ req'[r].at = j => req'[r] = req[r]

LEMMA NextStateIsSeq == ASSUME used' \in [Events -> Nat] PROVE State' \subseteq Seq(Nat)
  BY SeqMonotonic DEF State, Events

\* Whatever such a step does, what clients were told stays in the row.
LEMMA KeptByRow ==
  ASSUME IInv, Types', NEW k, RowStep(k)
  PROVE  Kept'
<1>1. stored \in Seq(Nat) /\ stored' \in Seq(Nat)
  <2>1. State \subseteq Seq(Nat) /\ State' \subseteq Seq(Nat)
    BY StateIsSeq, NextStateIsSeq DEF IInv, Types, RowTypes
  <2> QED BY <2>1 DEF IInv, Types, RowTypes
<1>2. CASE Holds(k) /\ IsPrefix(stored, stored') /\ acked' \subseteq acked \cup ToSet(stored')
  BY <1>1, <1>2, PrefixToSet DEF IInv, Kept
<1>3. CASE UNCHANGED stored /\ acked' \in {acked, {}} BY <1>3 DEF IInv, Kept
<1>4. CASE acked' = {} BY <1>4 DEF Kept
<1> QED BY <1>2, <1>3, <1>4 DEF RowStep, row

\* A request that does not move stays in time.
LEMMA TimelyByRow ==
  ASSUME IInv, NEW k, RowStep(k), NEW r \in Requests, req'[r] = req[r]
  PROVE  Timely(r)'
<1>1. Timely(r) /\ epoch \in Nat /\ req[r].since \in Nat
      /\ (req[r].pc # "idle" => req[r].at \in Instances)
  BY AtStage DEF IInv, Types, RowTypes, ReqTypes, ReqType
<1> SUFFICES ASSUME req[r].pc # "idle" PROVE Timely(r)' BY DEF Timely
<1> DEFINE at == req[r].at
           since == req[r].since
<1>2. Claimed(r)' <=> Claimed(r) BY DEF Claimed
<1>3. CASE UNCHANGED <<owner, leased, epoch>> BY <1>1, <1>2, <1>3 DEF Timely
<1>4. CASE TakeLease(k) BY <1>1, <1>2, <1>4 DEF Timely, TakeLease
<1>5. CASE leased /\ leased' = FALSE /\ UNCHANGED <<owner, epoch>> /\ Punctual
  BY <1>1, <1>2, <1>5 DEF Timely, Punctual, Idle
<1>6. CASE /\ owner = k /\ owner' = Nobody /\ leased' = FALSE /\ UNCHANGED epoch
           /\ At(k) = {} /\ (leased => Punctual)
  <2>1. req[r].at # k BY <1>6 DEF At
  <2> QED BY <1>1, <1>2, <1>6, <2>1 DEF Timely, Punctual, Idle
<1> QED BY <1>3, <1>4, <1>5, <1>6 DEF RowStep, row

\* A step of instance k, or of none, leaves what holds of another one.
LEMMA OthersStay ==
  ASSUME IInv, Types', NEW k, RowStep(k), NEW j \in Instances, j # k, SameAt(j)
  PROVE  Local(j)'
<1>1. j # Nobody BY InstancesAssumption
<1>2. /\ owner' = j => /\ owner = j /\ stored' = stored /\ acked' \subseteq acked
                       /\ leased' => leased
      /\ leased /\ leased' => owner' = owner
      /\ owner = j /\ ~leased' => owner' = j
      /\ ~leased /\ ~leased' => \/ UNCHANGED <<stored, owner>>
                                \/ stored' = <<>> /\ owner' = Nobody
  BY <1>1 DEF RowStep, TakeLease, row, Holds
<1>3. /\ At(j)' = At(j)
      /\ \A r \in At(j) : r \in Requests /\ req'[r] = req[r] /\ req[r].pc # "idle" /\ req[r].at = j
  BY <1>1 DEF SameAt, At, IInv, Types, ReqTypes, Staged, Stage, Idle
<1>4. leased /\ ~leased' => \A r \in At(j) : req[r].since = epoch
  <2>1. leased /\ ~leased' => Punctual BY DEF RowStep, TakeLease, row
  <2>2. \A r \in At(j) : req'[r] # Idle BY <1>1, <1>3 DEF Idle
  <2> QED BY <1>3, <2>1, <2>2 DEF Punctual
<1>5. \A r \in At(j) : Timely(r) /\ epoch \in Nat /\ req[r].since \in Nat
  BY <1>3 DEF IInv, Types, RowTypes, ReqTypes, ReqType
<1>6. Local(j) BY DEF IInv
<1>7. \A r \in At(j) : (Claimed(r)' <=> Claimed(r)) /\ (Claimed(r) => leased /\ leased' /\ owner = j /\ owner' = j)
  BY <1>2, <1>3, <1>4, <1>5 DEF Timely, Claimed
<1>8. Leads(j)' => Leads(j) /\ stored' = stored
  BY <1>2, <1>3 DEF Leads, SameAt
<1>9. /\ Touchable(j)' = Touchable(j) /\ \A o \in Touchable(j) : heap'[j][o] = heap[j][o]
      /\ Saves(j)' = IF stored' = stored THEN Saves(j) ELSE Saves(j)'
  <2>1. Touchable(j)' = Touchable(j) BY <1>3 DEF Touchable, SameAt
  <2>2. stored' = stored => Saves(j)' = Saves(j) BY <1>3 DEF Saves, SameAt
  <2> QED BY <2>1, <2>2 DEF SameAt
<1>10. Cleaning(j)' BY <1>2, <1>3, <1>6 DEF Local, Cleaning, SameAt, Holds
<1>11. Creating(j)'
  <2>1. ASSUME NEW r \in At(j), req[r].task = "create"
        PROVE  acked' = {} /\ stored' = stored /\ acked = {}
    BY <1>2, <1>6, <1>7, <2>1 DEF Claimed, Local, Creating
  <2> QED BY <1>3, <1>6, <2>1 DEF Local, Creating, SameAt
<1>12. OneRoom(j)' BY <1>6, <1>8, <1>9 DEF Local, OneRoom, SameAt, Open
<1>13. OneHistory(j)' BY <1>6, <1>8, <1>9 DEF Local, OneHistory
<1>14. Vacant(j)' BY <1>3, <1>6, <1>8 DEF Local, Vacant, SameAt
<1>15. Takeovers(j)'
  <2>1. ASSUME NEW r \in At(j), req[r].task = "takeover"
        PROVE  /\ ~leased' /\ here'[j] # 0 => owner' = j
               /\ ~leased' /\ req[r].pc = "claim" =>
                    stored' = req[r].snap \/ (stored' = <<>> /\ owner' = Nobody)
    <3>1. leased => leased' BY <1>3, <1>4, <1>5, <2>1 DEF Timely
    <3>2. here'[j] = here[j] BY DEF SameAt
    <3> QED BY <1>2, <1>6, <2>1, <3>1, <3>2 DEF Local, Takeovers
  <2> QED BY <1>3, <1>6, <1>7, <2>1 DEF Local, Takeovers
<1>16. Answers(j)' BY <1>2, <1>3, <1>6 DEF Local, Answers, SameAt, Holds
<1>17. Remembered(j)' BY <1>3, <1>6, <1>8 DEF Local, Remembered, SameAt
<1> QED BY <1>10, <1>11, <1>12, <1>13, <1>14, <1>15, <1>16, <1>17 DEF Local

\* What a step of instance i keeps; with OthersStay, that is everything.
Step(i) ==
  /\ RowStep(i)
  /\ \A j \in Instances \ {i} : SameAt(j)
  /\ Local(i)'
  /\ \A r \in Requests : req'[r] = req[r] \/ Timely(r)'

\* The invariant is kept, by a step the row may make.
Stays == IInv' /\ \E k : RowStep(k)

LEMMA StepKeeps ==
  ASSUME IInv, Types', NEW i \in Instances, Step(i) PROVE Stays
<1>1. Kept' BY KeptByRow DEF Step
<1>2. \A r \in Requests : Timely(r)' BY TimelyByRow DEF Step
<1>3. \A j \in Instances : Local(j)' BY OthersStay DEF Step
<1>4. RowStep(i) BY DEF Step
<1> QED BY <1>1, <1>2, <1>3, <1>4 DEF IInv, Stays

\* Instance i is as it was, but for its requests.
SameHere(i) ==
  /\ life'[i] = life[i] /\ heap'[i] = heap[i] /\ here'[i] = here[i] /\ observed'[i] = observed[i]
  /\ pend'[i] = pend[i] /\ work'[i] = work[i] /\ sweep'[i] = sweep[i] /\ lost'[i] = lost[i]

\* Frames: who is not touched is as before.
LEMMA AllSame ==
  ASSUME UNCHANGED process, UNCHANGED queue, UNCHANGED sweepers
  PROVE  \A j \in Instances : SameHere(j)
  BY DEF process, queue, sweepers, SameHere

LEMMA TypesUnfold ==
  ASSUME IInv
  PROVE  RowTypes /\ HeapTypes /\ QueueTypes /\ ReqTypes /\ Calm
  BY DEF IInv, Types

LEMMA IdleIsNowhere ==
  ASSUME NEW i \in Instances PROVE Idle.at # i /\ Idle.pc = "idle" /\ Idle.task = "none" /\ Idle.room = 0
  BY InstancesAssumption DEF Idle

\* A request of instance i is none of another.
LEMMA EndElsewhere ==
  ASSUME NEW r \in Requests, NEW i \in Instances, req[r].at = i, Ends(r),
         NEW j \in Instances, j # i, SameHere(j)
  PROVE  SameAt(j)
  BY IdleIsNowhere DEF Ends, SameAt, SameHere

LEMMA MoveElsewhere ==
  ASSUME NEW r \in Requests, NEW i \in Instances, req[r].at = i,
         NEW pc, NEW room, NEW snap, NEW due, Moves(r, pc, room, snap, due),
         NEW j \in Instances, j # i, SameHere(j)
  PROVE  SameAt(j)
  BY DEF Moves, SameAt, SameHere

LEMMA BeginElsewhere ==
  ASSUME NEW r \in Requests, NEW i \in Instances, req[r] = Idle,
         NEW pc, NEW task, NEW room, Begins(r, i, pc, task, room),
         NEW j \in Instances, j # i, SameHere(j)
  PROVE  SameAt(j)
  BY IdleIsNowhere DEF Begins, SameAt, SameHere

\* The states and the objects of an instance are sequences.
LEMMA SavesAreSeqs ==
  ASSUME RowTypes, QueueTypes, ReqTypes, NEW i \in Instances PROVE Saves(i) \subseteq Seq(Nat)
<1>1. State \subseteq Seq(Nat) /\ stored \in State /\ <<>> \in State BY StateIsSeq, NoState DEF RowTypes
<1>2. pend[i] \in State /\ work[i].state \in State BY DEF QueueTypes
<1>3. \A r \in Requests : req[r].snap \in State BY DEF ReqTypes, ReqType
<1> QED BY <1>1, <1>2, <1>3 DEF Saves, At

LEMMA ObjectsAreSeqs ==
  ASSUME RowTypes, HeapTypes, ReqTypes, NEW i \in Instances
  PROVE  \A o \in Touchable(i) : o \in 1..Len(heap[i]) /\ heap[i][o] \in Seq(Nat) /\ heap[i][o] \in State
<1>1. heap[i] \in Seq(State) /\ Len(heap[i]) \in Nat /\ State \subseteq Seq(Nat) BY StateIsSeq DEF HeapTypes
<1>2. ASSUME NEW o \in Touchable(i) PROVE o \in 1..Len(heap[i])
  <2>1. CASE o = here[i] /\ o # 0 BY <1>1, <2>1 DEF HeapTypes
  <2>2. CASE o \in observed[i] BY <2>2 DEF HeapTypes
  <2>3. CASE \E r \in At(i) : req[r].pc \in {"found", "touched"} /\ o = req[r].room
    <3>1. PICK r \in Requests : req[r].at = i /\ req[r].pc \in {"found", "touched"} /\ o = req[r].room
      BY <2>3 DEF At
    <3>2. req[r].room \in 0..Len(heap[i]) /\ req[r].room # 0 BY <3>1, AtStage DEF Stage
    <3> QED BY <1>1, <3>1, <3>2
  <2> QED BY <2>1, <2>2, <2>3 DEF Touchable
<1> QED BY <1>1, <1>2

\* A step that only shortens what an instance may still do keeps its one history.
LEMMA HistoryStays ==
  ASSUME IInv, NEW i \in Instances, Leads(i)' => Leads(i),
         Leads(i) => \A o \in Touchable(i)' : o \in Touchable(i) /\ heap'[i][o] = heap[i][o],
         Leads(i) => \A s \in Saves(i)' : s \in Saves(i) \/ \E o \in Touchable(i) : s = heap[i][o]
  PROVE  OneHistory(i)'
<1> SUFFICES ASSUME Leads(i) PROVE OneHistory(i)' BY DEF OneHistory
<1>1. RowTypes /\ HeapTypes /\ QueueTypes /\ ReqTypes BY TypesUnfold
<1>2. Saves(i) \subseteq Seq(Nat) /\ \A o \in Touchable(i) : heap[i][o] \in Seq(Nat)
  BY <1>1, SavesAreSeqs, ObjectsAreSeqs
<1>3. /\ \A s, t \in Saves(i) : IsPrefix(s, t) \/ IsPrefix(t, s)
      /\ \A o \in Touchable(i) : \A s \in Saves(i) : IsPrefix(s, heap[i][o])
      /\ \A o, p \in Touchable(i) : o = p
  BY DEF IInv, Local, OneHistory, OneRoom
<1>4. ASSUME NEW s \in Saves(i)', NEW t \in Saves(i)' PROVE IsPrefix(s, t) \/ IsPrefix(t, s)
  BY <1>2, <1>3, PrefixRefl
<1>5. ASSUME NEW o \in Touchable(i)', NEW s \in Saves(i)' PROVE IsPrefix(s, heap'[i][o])
  BY <1>2, <1>3, PrefixRefl
<1> QED BY <1>4, <1>5 DEF OneHistory

-----------------------------------------------------------------------------
(* Requests that end, or go on with nothing new in hand.                   *)

\* Two states that are prefixes of each other are one.
LEMMA PrefixAntisym ==
  ASSUME NEW s \in Seq(Nat), NEW t \in Seq(Nat), IsPrefix(s, t), IsPrefix(t, s) PROVE s = t
<1>1. /\ Len(s) <= Len(t) /\ Len(t) <= Len(s) /\ \A k \in 1..Len(s) : s[k] = t[k]
      /\ Len(s) \in Nat /\ Len(t) \in Nat
  BY PrefixMeans
<1> QED BY <1>1, SeqEqual

\* What a request of instance i that is not idle says of the instance.
LEMMA Present ==
  ASSUME IInv, NEW r \in Requests, NEW i \in Instances, req[r].at = i
  PROVE  /\ r \in At(i) /\ sweep[i] = "idle" /\ req[r].pc # "idle"
         /\ Stage(req[r].pc, req[r].task, req[r].room, req[r].snap)
         /\ req[r].room \in 0..Len(heap[i]) /\ req[r].snap \in State /\ req[r].snap \in Seq(Nat)
<1>1. r \in At(i) BY DEF At
<1>2. sweep[i] = "idle" BY <1>1 DEF IInv, Local, Cleaning
<1>3. req[r].pc # "idle" BY IdleIsNowhere DEF IInv, Types, ReqTypes, Staged, Stage
<1>4. req[r].snap \in State /\ State \subseteq Seq(Nat)
  BY StateIsSeq DEF IInv, Types, ReqTypes, ReqType
<1> QED BY <1>1, <1>2, <1>3, <1>4, AtStage DEF IInv, Types

\* A request of instance i ends, after its save or without one.
LEMMA EndLocal ==
  ASSUME IInv, NEW r \in Requests, NEW i \in Instances, req[r].at = i, Ends(r), SameHere(i),
         UNCHANGED <<owner, leased, epoch>>,
         \/ UNCHANGED stored
         \/ /\ Holds(i) /\ req[r].pc = "save" /\ stored' = req[r].snap /\ IsPrefix(stored, stored'),
         acked' = acked \/ Holds(i),
         req[r].task = "create" /\ here[i] # 0 =>
           req[r].pc = "save" /\ stored' = req[r].snap
  PROVE  Local(i)'
<1>1. Local(i) /\ Calm BY DEF IInv
<1>2. RowTypes /\ HeapTypes /\ QueueTypes /\ ReqTypes BY TypesUnfold
<1>3. /\ r \in At(i) /\ sweep[i] = "idle" /\ req[r].pc # "idle"
      /\ Stage(req[r].pc, req[r].task, req[r].room, req[r].snap)
      /\ req[r].snap \in Seq(Nat)
  BY Present
<1>4. /\ At(i)' = At(i) \ {r} /\ \A q \in At(i) \ {r} : q \in Requests /\ req'[q] = req[q]
  BY IdleIsNowhere DEF At, Ends
<1>5. Leads(i)' => Leads(i) BY <1>4 DEF Leads, SameHere
<1>6. \A o \in Touchable(i)' : o \in Touchable(i) /\ heap'[i][o] = heap[i][o]
  BY <1>4 DEF Touchable, SameHere
<1>7. \A s \in Saves(i)' : s \in Saves(i)
  BY <1>3, <1>4 DEF Saves, SameHere
<1>8. \A q \in At(i) : req[q].task = "create" => q = r /\ At(i)' = {}
  BY <1>1, <1>3, <1>4 DEF Local, Creating
<1>9. \A q \in At(i)' : Claimed(q)' <=> Claimed(q) BY <1>4 DEF Claimed
<1>10. Cleaning(i)' BY <1>1, <1>3, <1>4 DEF Local, Cleaning, SameHere, Holds
<1>11. Creating(i)' BY <1>4, <1>8 DEF Creating
<1>12. OneRoom(i)' BY <1>1, <1>5, <1>6 DEF Local, OneRoom, SameHere, Open
<1>13. OneHistory(i)' BY <1>5, <1>6, <1>7, HistoryStays
<1>14. Vacant(i)'
  <2>1. CASE UNCHANGED stored BY <1>1, <1>4, <1>5, <2>1 DEF Local, Vacant, SameHere
  <2>2. CASE req[r].pc = "save"
    <3>1. req[r].room # 0 BY <1>3, <2>2 DEF Stage
    <3>2. Leads(i) /\ here[i] = 0 /\ life[i] = "up" => At(i)' = {}
      BY <1>1, <1>3, <1>8, <3>1 DEF Local, Vacant
    <3> QED BY <1>1, <1>5, <3>2 DEF Local, Vacant, SameHere
  <2> QED BY <2>1, <2>2
<1>15. Takeovers(i)' BY <1>1, <1>4, <1>9 DEF Local, Takeovers, SameHere, Holds
<1>16. Answers(i)'
  <2>1. stored \in Seq(Nat) BY <1>2, StateIsSeq DEF RowTypes
  <2>2. stored' \in Seq(Nat) /\ IsPrefix(stored, stored') BY <1>3, <2>1, PrefixRefl
  <2>3. ASSUME NEW q \in At(i)', req[q].pc = "check", Holds(i) PROVE IsPrefix(req[q].snap, stored')
    <3>1. req[q].snap \in Seq(Nat) BY <1>2, <1>4, StateIsSeq DEF ReqTypes, ReqType
    <3>2. IsPrefix(req[q].snap, stored) BY <1>1, <1>4, <2>3 DEF Local, Answers
    <3> QED BY <2>1, <2>2, <3>1, <3>2, PrefixTrans
  <2> QED BY <1>1, <1>4, <2>3 DEF Local, Answers, SameHere, Holds
<1>17. Remembered(i)'
  <2> SUFFICES ASSUME Leads(i), here[i] # 0
               PROVE  heap[i][here[i]] \in {stored', pend[i], work[i].state}
    BY <1>5 DEF Remembered, SameHere
  <2>1. CASE req[r].task = "create"
    <3>1. req[r].pc = "save" /\ stored' = req[r].snap BY <2>1
    <3>2. here[i] = req[r].room /\ req[r].snap = heap[i][req[r].room]
      BY <1>1, <1>3, <2>1, <3>1 DEF Local, Creating
    <3> QED BY <3>1, <3>2
  <2>2. CASE req[r].task # "create"
    <3>1. heap[i][here[i]] \in {stored, pend[i], work[i].state}
      BY <1>1, <1>8, <2>2 DEF Local, Remembered
    <3>2. stored' = req[r].snap /\ IsPrefix(stored, stored') /\ heap[i][here[i]] = stored
            => heap[i][here[i]] = stored'
      <4>1. here[i] \in Touchable(i) BY DEF Touchable
      <4>2. req[r].pc = "save" => req[r].snap \in Saves(i) BY <1>3 DEF Saves
      <4>3. req[r].pc = "save" => IsPrefix(req[r].snap, heap[i][here[i]])
        BY <1>1, <4>1, <4>2 DEF Local, OneHistory
      <4>4. heap[i][here[i]] \in Seq(Nat) BY <1>2, <4>1, ObjectsAreSeqs
      <4> QED BY <1>3, <4>3, <4>4, PrefixAntisym
    <3> QED BY <3>1, <3>2
  <2> QED BY <2>1, <2>2
<1> QED BY <1>10, <1>11, <1>12, <1>13, <1>14, <1>15, <1>16, <1>17 DEF Local

\* A request of instance i goes on, after its save or without one.
LEMMA MoveLocal ==
  ASSUME IInv, NEW r \in Requests, NEW i \in Instances, req[r].at = i, SameHere(i),
         NEW pc, NEW room, NEW snap, NEW due, Moves(r, pc, room, snap, due), snap \in Seq(Nat),
         UNCHANGED <<owner, leased, epoch, acked>>,
         \/ UNCHANGED stored
         \/ /\ Holds(i) /\ req[r].pc \in {"save", "resave"}
            /\ stored' = req[r].snap /\ IsPrefix(stored, stored'),
         \* what it may still touch or save is nothing new
         pc \in {"found", "touched"} => room \in Touchable(i),
         pc \in {"save", "resave"} => snap \in Saves(i) \/ \E o \in Touchable(i) : snap = heap[i][o],
         room # req[r].room => room # 0 /\ room = here[i],
         \* what each part says of it
         req[r].task = "create" =>
           /\ room = req[r].room /\ pc # "check"
           /\ pc \in {"reset", "insert", "giveup"} => here[i] = 0
           /\ pc \in {"reset", "insert", "touched", "save"} => stored' = <<>>
           /\ pc \in {"touched", "save", "remove"} =>
                here[i] \in {0, room} /\ Len(heap[i][room]) = 1
           /\ pc = "save" => snap = heap[i][room],
         Leads(i) /\ here[i] = 0 /\ life[i] = "up" =>
           /\ pc = "install" => stored' = snap
           /\ pc \in {"resave", "check"} => stored' \in {snap, <<>>},
         req[r].task = "takeover" =>
           /\ ~leased /\ pc = "claim" => stored' = snap \/ (stored' = <<>> /\ owner = Nobody)
           /\ pc \notin {"load", "claim"} => req[r].pc \notin {"load", "claim"},
         pc = "touched" => due \in ToSet(heap[i][room]),
         pc \in {"save", "check"} /\ room # 0 => due \in ToSet(snap),
         pc = "check" /\ Holds(i) => IsPrefix(snap, stored')
  PROVE  Local(i)'
<1>1. Local(i) /\ Calm BY DEF IInv
<1>2. RowTypes /\ HeapTypes /\ QueueTypes /\ ReqTypes BY TypesUnfold
<1>3. /\ r \in At(i) /\ sweep[i] = "idle" /\ req[r].pc # "idle"
      /\ Stage(req[r].pc, req[r].task, req[r].room, req[r].snap)
      /\ req[r].snap \in Seq(Nat)
  BY Present
<1>4. /\ At(i)' = At(i) /\ \A q \in At(i) \ {r} : q \in Requests /\ req'[q] = req[q]
      /\ req'[r].pc = pc /\ req'[r].room = room /\ req'[r].snap = snap /\ req'[r].due = due
      /\ req'[r].at = i /\ req'[r].task = req[r].task
  BY DEF At, Moves
<1>5. Leads(i)' => Leads(i) BY <1>4 DEF Leads, SameHere
<1>6. \A o \in Touchable(i)' : o \in Touchable(i) /\ heap'[i][o] = heap[i][o]
  <2> SUFFICES ASSUME NEW o \in Touchable(i)' PROVE o \in Touchable(i) BY DEF SameHere
  <2>1. CASE o = room /\ pc \in {"found", "touched"} BY <2>1
  <2>2. CASE \E q \in At(i) \ {r} : req[q].pc \in {"found", "touched"} /\ o = req[q].room
    BY <2>2 DEF Touchable
  <2>3. CASE (o = here[i] /\ o # 0) \/ (o \in observed[i] /\ Len(heap[i][o]) > 1)
    BY <2>3 DEF Touchable
  <2> QED BY <1>4, <2>1, <2>2, <2>3 DEF Touchable, SameHere
<1>7. \A s \in Saves(i)' : s \in Saves(i) \/ \E o \in Touchable(i) : s = heap[i][o]
  <2> SUFFICES ASSUME NEW s \in Saves(i)'
               PROVE  s \in Saves(i) \/ \E o \in Touchable(i) : s = heap[i][o]
    OBVIOUS
  <2>1. CASE s = snap /\ pc \in {"save", "resave"} BY <2>1
  <2>2. CASE \E q \in At(i) \ {r} : req[q].pc \in {"save", "resave"} /\ s = req[q].snap
    BY <2>2 DEF Saves
  <2>3. CASE s \in {<<>>, stored, pend[i], work[i].state} BY <2>3 DEF Saves
  <2>4. CASE s = stored' BY <1>3, <2>4 DEF Saves
  <2> QED BY <1>4, <2>1, <2>2, <2>3, <2>4 DEF Saves, SameHere
<1>8. \A q \in At(i) : req[q].task = "create" => q = r /\ At(i) = {r}
  BY <1>1, <1>3 DEF Local, Creating
<1>9. \A q \in At(i) : Claimed(q)' => Claimed(q) BY <1>4 DEF Claimed
<1>10. Cleaning(i)'
  <2>1. lost[i] # "no" => \A q \in At(i) : req'[q].room # 0
    BY <1>1, <1>4 DEF Local, Cleaning
  <2>2. ASSUME NEW o \in observed[i],
               Len(heap[i][o]) > 1 \/ \E q \in At(i) : req'[q].task # "create" /\ req'[q].room = o
        PROVE  o = here[i] \/ sweep[i] = "removed" \/ lost[i] \in {"removed", "cleared"}
    BY <1>1, <1>3, <1>4, <2>2 DEF Local, Cleaning
  <2> QED BY <1>1, <1>3, <1>4, <2>1, <2>2 DEF Local, Cleaning, SameHere, Holds
<1>11. Creating(i)'
  <2> SUFFICES ASSUME req[r].task = "create" PROVE Creating(i)' BY <1>4, <1>8 DEF Creating
  <2> QED BY <1>1, <1>3, <1>4, <1>8 DEF Local, Creating, SameHere
<1>12. OneRoom(i)' BY <1>1, <1>5, <1>6 DEF Local, OneRoom, SameHere, Open
<1>13. OneHistory(i)' BY <1>5, <1>6, <1>7, HistoryStays
<1>14. Vacant(i)'
  <2> SUFFICES ASSUME Leads(i), here[i] = 0, life[i] = "up" PROVE Vacant(i)'
    BY <1>5 DEF Vacant, SameHere
  <2>1. req'[r].room = 0 \/ req'[r].task = "create" BY <1>1, <1>3, <1>4 DEF Local, Vacant
  <2>2. ASSUME NEW q \in At(i) \ {r}
        PROVE  /\ req[q].room = 0 \/ req[q].task = "create"
               /\ req[q].pc = "install" => stored' = req[q].snap
               /\ req[q].pc \in {"resave", "check"} => stored' \in {req[q].snap, <<>>}
    <3>1. CASE UNCHANGED stored BY <1>1, <3>1 DEF Local, Vacant
    <3>2. CASE req[r].pc \in {"save", "resave"} /\ stored' = req[r].snap
      <4>1. req[r].task # "create" BY <1>3, <1>8
      <4>2. req[r].pc = "resave" /\ req[r].task = "takeover"
        BY <1>1, <1>3, <3>2, <4>1 DEF Local, Vacant, Stage
      <4>3. stored \in {req[r].snap, <<>>} BY <1>1, <1>3, <4>2 DEF Local, Vacant
      <4>4. req[q].at = i /\ q \in Requests BY DEF At
      <4>5. Stage(req[q].pc, req[q].task, req[q].room, req[q].snap) BY <4>4, Present
      <4>6. req[q].room = 0 /\ req[q].task # "create" BY <1>1, <1>8 DEF Local, Vacant
      <4>7. req[q].pc \notin {"resave", "check"}
        BY <1>1, <1>3, <4>2, <4>5, <4>6 DEF Local, Takeovers, Claimed, Stage
      <4>8. req[q].pc = "install" => stored = req[q].snap /\ req[q].snap # <<>>
        BY <1>1, <4>5 DEF Local, Vacant, Stage
      <4> QED BY <3>2, <4>3, <4>6, <4>7, <4>8
    <3> QED BY <3>1, <3>2
  <2>3. /\ pc = "install" => stored' = snap
        /\ pc \in {"resave", "check"} => stored' \in {snap, <<>>}
        /\ pend[i] = <<>> /\ work[i].state = <<>>
    BY <1>1 DEF Local, Vacant
  <2>4. ASSUME NEW q \in At(i)
        PROVE  /\ req'[q].room = 0 \/ req'[q].task = "create"
               /\ req'[q].pc = "install" => stored' = req'[q].snap
               /\ req'[q].pc \in {"resave", "check"} => stored' \in {req'[q].snap, <<>>}
    <3>1. CASE q = r BY <1>4, <2>1, <2>3, <3>1
    <3>2. CASE q # r BY <1>4, <2>2, <3>2
    <3> QED BY <3>1, <3>2
  <2> QED BY <1>4, <2>3, <2>4 DEF Vacant, SameHere
<1>15. Takeovers(i)' BY <1>1, <1>3, <1>4, <1>9, SMTT(30) DEF Local, Takeovers, SameHere, Holds
<1>16. Answers(i)'
  <2>1. stored \in Seq(Nat) BY <1>2, StateIsSeq DEF RowTypes
  <2>2. stored' \in Seq(Nat) /\ IsPrefix(stored, stored') BY <1>3, <2>1, PrefixRefl
  <2>3. ASSUME NEW q \in At(i) \ {r}, req[q].pc = "check", Holds(i) PROVE IsPrefix(req[q].snap, stored')
    <3>1. req[q].snap \in Seq(Nat) BY <1>2, <1>4, StateIsSeq DEF ReqTypes, ReqType
    <3>2. IsPrefix(req[q].snap, stored) BY <1>1, <1>4, <2>3 DEF Local, Answers
    <3> QED BY <2>1, <2>2, <3>1, <3>2, PrefixTrans
  <2> QED BY <1>1, <1>4, <2>3 DEF Local, Answers, SameHere, Holds
<1>17. Remembered(i)'
  <2> SUFFICES ASSUME Leads(i), here[i] # 0, req[r].task # "create"
               PROVE  heap[i][here[i]] \in {stored', pend[i], work[i].state}
    BY <1>3, <1>4, <1>5 DEF Remembered, SameHere
  <2>1. heap[i][here[i]] \in {stored, pend[i], work[i].state}
    BY <1>1, <1>8 DEF Local, Remembered
  <2>2. stored' = req[r].snap /\ req[r].pc \in {"save", "resave"} /\ IsPrefix(stored, stored')
          /\ heap[i][here[i]] = stored => heap[i][here[i]] = stored'
    <3>1. here[i] \in Touchable(i) BY DEF Touchable
    <3>2. req[r].pc \in {"save", "resave"} => req[r].snap \in Saves(i) BY <1>3 DEF Saves
    <3>3. req[r].pc \in {"save", "resave"} => IsPrefix(req[r].snap, heap[i][here[i]])
      BY <1>1, <3>1, <3>2 DEF Local, OneHistory
    <3>4. heap[i][here[i]] \in Seq(Nat) BY <1>2, <3>1, ObjectsAreSeqs
    <3> QED BY <1>3, <3>3, <3>4, PrefixAntisym
  <2> QED BY <2>1, <2>2
<1> QED BY <1>10, <1>11, <1>12, <1>13, <1>14, <1>15, <1>16, <1>17 DEF Local

\* A request of instance i ends.
LEMMA EndStep ==
  ASSUME IInv, Types', NEW r \in Requests, NEW i \in Instances, req[r].at = i, Ends(r),
         RowStep(i), \A j \in Instances \ {i} : SameHere(j), Local(i)'
  PROVE  Stays
<1>1. \A j \in Instances \ {i} : SameAt(j) BY EndElsewhere
<1>2. Timely(r)' BY IdleIsNowhere DEF Timely, Ends
<1>3. \A q \in Requests : req'[q] = req[q] \/ Timely(q)' BY <1>2 DEF Ends
<1> QED BY <1>1, <1>3, StepKeeps DEF Step

\* A request of instance i goes on.
LEMMA MoveStep ==
  ASSUME IInv, Types', NEW r \in Requests, NEW i \in Instances, req[r].at = i,
         NEW pc, NEW room, NEW snap, NEW due, Moves(r, pc, room, snap, due),
         UNCHANGED <<owner, leased, epoch>>,
         req[r].task = "takeover" /\ pc \notin {"load", "claim"}
           => req[r].pc \notin {"load", "claim"},
         RowStep(i), \A j \in Instances \ {i} : SameHere(j), Local(i)'
  PROVE  Stays
<1>1. \A j \in Instances \ {i} : SameAt(j) BY MoveElsewhere
<1>2. Timely(r)'
  <2>1. Timely(r) /\ req[r].pc # "idle" BY Present DEF IInv
  <2> QED BY <2>1 DEF Timely, Moves, Claimed
<1>3. \A q \in Requests : req'[q] = req[q] \/ Timely(q)' BY <1>2 DEF Moves
<1> QED BY <1>1, <1>3, StepKeeps DEF Step

\* A save that lands extends what is stored.
LEMMA SaveExtends ==
  ASSUME IInv, NEW i \in Instances, NEW s \in Saves(i), Holds(i)
  PROVE  /\ s \in Seq(Nat) /\ stored \in Seq(Nat)
         /\ SaveLands(i, s) => IsPrefix(stored, s)
         /\ ~SaveLands(i, s) => IsPrefix(s, stored)
<1>1. RowTypes /\ HeapTypes /\ QueueTypes /\ ReqTypes BY TypesUnfold
<1>2. s \in Seq(Nat) /\ stored \in Seq(Nat) /\ stored \in Saves(i)
  BY <1>1, SavesAreSeqs DEF Saves
<1>3. Leads(i) BY DEF Leads, Holds
<1>4. IsPrefix(s, stored) \/ IsPrefix(stored, s) BY <1>2, <1>3 DEF IInv, Local, OneHistory
<1>5. Len(s) \in Nat /\ Len(stored) \in Nat BY <1>2
<1> QED BY <1>2, <1>4, <1>5, PrefixShorter DEF SaveLands

\* A request that only looks just ends.
LEMMA LookAtRoomKeeps ==
  ASSUME IInv, NEW r \in Requests, LookAtRoom(r) PROVE Stays
<1>1. Types' /\ Ends(r) BY LookAtRoomTypes DEF IInv
<1>2. req[r].pc = "found" /\ UNCHANGED <<row, process, queue, sweepers, acked>> BY DEF LookAtRoom
<1>3. req[r].at \in Instances BY <1>2, AtStage DEF IInv, Types
<1>4. PICK i \in Instances : req[r].at = i BY <1>3
<1>5. \A j \in Instances : SameHere(j) BY <1>2, AllSame
<1>6. req[r].task = "create" => here[i] = 0 \/ req[r].pc = "save"
  BY <1>2, <1>4, Present DEF Stage
<1>7. Local(i)' BY <1>1, <1>2, <1>4, <1>5, <1>6, EndLocal DEF row
<1>8. RowStep(i) BY <1>2 DEF RowStep
<1> QED BY <1>1, <1>4, <1>5, <1>7, <1>8, EndStep

\* What is loaded is what is stored, and stays so until it is claimed or installed:
\* a resuming instance leads, and a claim waits until nothing else is in flight.
LEMMA LoadRoomStateKeeps ==
  ASSUME IInv, NEW r \in Requests, LoadRoomState(r) PROVE Stays
<1>1. Types' BY LoadRoomStateTypes DEF IInv
<1>2. req[r].pc = "load" /\ UNCHANGED <<row, process, queue, sweepers, acked>> BY DEF LoadRoomState
<1>3. req[r].at \in Instances BY <1>2, AtStage DEF IInv, Types
<1>4. PICK i \in Instances : req[r].at = i BY <1>3
<1>5. \A j \in Instances : SameHere(j) BY <1>2, AllSame
<1>6. req[r].task \in {"resume", "takeover"} /\ req[r].room = 0
  BY <1>2, <1>4, Present DEF Stage
<1>7. UNCHANGED <<owner, leased, stored, epoch, acked>> BY <1>2 DEF row
<1>8. RowStep(i) BY <1>2 DEF RowStep
<1>9. stored \in Seq(Nat) BY StateIsSeq DEF IInv, Types, RowTypes
<1>10. CASE Ends(r)
  <2>1. Local(i)' BY <1>4, <1>5, <1>6, <1>7, <1>10, EndLocal
  <2> QED BY <1>1, <1>4, <1>5, <1>8, <1>10, <2>1, EndStep
<1>11. CASE req[r].task = "resume" /\ Moves(r, "install", req[r].room, stored, req[r].due)
  <2>1. Local(i)' BY <1>4, <1>5, <1>6, <1>7, <1>9, <1>11, MoveLocal
  <2> QED BY <1>1, <1>4, <1>5, <1>7, <1>8, <1>11, <2>1, MoveStep
<1>12. CASE req[r].task # "resume" /\ Moves(r, "claim", req[r].room, stored, req[r].due)
  <2>1. Local(i)' BY <1>4, <1>5, <1>6, <1>7, <1>9, <1>12, MoveLocal
  <2> QED BY <1>1, <1>4, <1>5, <1>7, <1>8, <1>12, <2>1, MoveStep
<1> QED BY <1>10, <1>11, <1>12, LoadRoomStateTypes DEF IInv

\* Nothing was saved between the reservation and the reset.
LEMMA ResetRoomStateKeeps ==
  ASSUME IInv, NEW r \in Requests, ResetRoomState(r) PROVE Stays
<1>1. Types' BY ResetRoomStateTypes DEF IInv
<1>2. req[r].pc = "reset" /\ UNCHANGED <<owner, leased, epoch, process, queue, sweepers, acked>>
      /\ stored' \in {<<>>, stored}
  BY DEF ResetRoomState
<1>3. req[r].at \in Instances BY <1>2, AtStage DEF IInv, Types
<1>4. PICK i \in Instances : req[r].at = i BY <1>3
<1>5. \A j \in Instances : SameHere(j) BY <1>2, AllSame
<1>6. r \in At(i) /\ req[r].task = "create" /\ req[r].room = 0 /\ req[r].snap \in Seq(Nat)
  BY <1>2, <1>4, Present DEF Stage
<1>7. stored = <<>> /\ here[i] = 0 BY <1>2, <1>6 DEF IInv, Local, Creating
<1>8. UNCHANGED <<owner, leased, stored, epoch, acked>> BY <1>2, <1>7
<1>9. RowStep(i) BY <1>8 DEF RowStep, row
<1>10. ASSUME NEW pc \in {"insert", "giveup"}, Moves(r, pc, req[r].room, req[r].snap, req[r].due)
       PROVE  Stays
  <2>1. Local(i)' BY <1>4, <1>5, <1>6, <1>7, <1>8, <1>10, MoveLocal
  <2> QED BY <1>1, <1>4, <1>5, <1>6, <1>8, <1>9, <1>10, <2>1, MoveStep
<1> QED BY <1>10, ResetRoomStateTypes DEF IInv

\* The state a request saves is that of the one object that may change.
LEMMA PersistRoomKeeps ==
  ASSUME IInv, NEW r \in Requests, PersistRoom(r) PROVE Stays
<1>1. Types' BY PersistRoomTypes DEF IInv
<1>2. req[r].pc = "touched" /\ UNCHANGED <<row, process, queue, sweepers, acked>> BY DEF PersistRoom
<1>3. req[r].at \in Instances BY <1>2, AtStage DEF IInv, Types
<1>4. PICK i \in Instances : req[r].at = i BY <1>3
<1>5. \A j \in Instances : SameHere(j) BY <1>2, AllSame
<1>6. r \in At(i) BY <1>4, Present
<1>7. UNCHANGED <<owner, leased, stored, epoch, acked>> BY <1>2 DEF row
<1>8. RowStep(i) BY <1>2 DEF RowStep
<1> DEFINE s == heap[i][req[r].room]
<1>9. Moves(r, "save", req[r].room, s, req[r].due) BY <1>4, PersistRoomTypes DEF IInv
<1>10. req[r].room \in Touchable(i) BY <1>2, <1>6 DEF Touchable
<1>11. s \in Seq(Nat) BY <1>10, TypesUnfold, ObjectsAreSeqs
<1>12. req[r].due \in ToSet(s) BY <1>2, <1>6 DEF IInv, Local, Answers
<1>13. req[r].task = "create" => stored = <<>> /\ here[i] \in {0, req[r].room} /\ Len(s) = 1
  BY <1>2, <1>6 DEF IInv, Local, Creating
<1>14. Local(i)'
  <2> HIDE DEF s
  <2>1. \E o \in Touchable(i) : s = heap[i][o] BY <1>10 DEF s
  <2>2. s = heap[i][req[r].room] BY DEF s
  <2> QED BY <1>2, <1>4, <1>5, <1>7, <1>9, <1>11, <1>12, <1>13, <2>1, <2>2, MoveLocal
<1> QED BY <1>1, <1>2, <1>4, <1>5, <1>7, <1>8, <1>9, <1>14, MoveStep

\* A save that lands extends the row, since all states of a leader are prefixes of its
\* room; one that does not while the lease is held is behind the row.
LEMMA SaveRoomStateKeeps ==
  ASSUME IInv, NEW r \in Requests, SaveRoomState(r) PROVE Stays
<1>1. Types' BY SaveRoomStateTypes DEF IInv
<1>2. req[r].pc \in {"save", "resave"} /\ UNCHANGED <<owner, leased, epoch, process, queue, sweepers>>
  BY DEF SaveRoomState
<1>3. req[r].at \in Instances BY <1>2, AtStage DEF IInv, Types
<1>4. PICK i \in Instances : req[r].at = i BY <1>3
<1>5. \A j \in Instances : SameHere(j) BY <1>2, AllSame
<1> DEFINE s == req[r].snap
<1>6. r \in At(i) /\ s \in Seq(Nat) /\ s \in Saves(i)
  BY <1>2, <1>4, Present DEF Saves
<1>7. /\ req[r].pc = "save" => req[r].room # 0
      /\ req[r].pc = "resave" => req[r].task = "takeover" /\ req[r].room = 0 /\ s # <<>>
  BY <1>4, Present DEF Stage
<1>8. Local(i) /\ Timely(r) BY DEF IInv
<1>9. Holds(i) /\ SaveLands(i, s) => IsPrefix(stored, s) BY <1>6, SaveExtends
<1>10. Holds(i) /\ ~SaveLands(i, s) => IsPrefix(s, stored) BY <1>6, SaveExtends
<1>11. req[r].pc = "save" => req[r].due \in ToSet(s) BY <1>6, <1>7, <1>8 DEF Local, Answers
<1>12. req[r].task = "create" =>
         req[r].pc = "save" /\ stored = <<>> /\ here[i] \in {0, req[r].room}
           /\ Len(heap[i][req[r].room]) = 1
  BY <1>2, <1>6, <1>7, <1>8 DEF Local, Creating
<1>13. req[r].task = "create" => SaveLands(i, s)
  <2>1. req[r].task = "create" => Holds(i) /\ stored = <<>>
    BY <1>2, <1>4, <1>8, <1>12 DEF Timely, Claimed, Holds
  <2> QED BY <1>6, <2>1 DEF SaveLands
<1>14. ASSUME SaveLands(i, s), stored' = s, Saved(r) PROVE Stays
  <2>1. Holds(i) /\ IsPrefix(stored, stored') BY <1>9, <1>14 DEF SaveLands
  <2>2. CASE req[r].task = "takeover" /\ req[r].room = 0
    <3>1. UNCHANGED acked /\ Goes(r, "install") BY <1>14, <2>2 DEF Saved
    <3>2. Moves(r, "install", req[r].room, s, req[r].due)
      <4>1. State \subseteq State' BY SaveRoomStateTypes DEF IInv
      <4> QED BY <3>1, <4>1, Going DEF IInv, Types, ReqTypes, Pcs
    <3>3. Local(i)' BY <1>2, <1>4, <1>5, <1>6, <1>14, <2>1, <2>2, <3>1, <3>2, MoveLocal
    <3>4. RowStep(i) BY <1>2, <2>1, <3>1 DEF RowStep
    <3> QED BY <1>1, <1>2, <1>4, <1>5, <3>2, <3>3, <3>4, MoveStep
  <2>3. CASE ~(req[r].task = "takeover" /\ req[r].room = 0)
    <3>1. acked' = acked \cup {req[r].due} /\ Drops(r) BY <1>14, <2>3 DEF Saved
    <3>2. Ends(r)
      <4>1. State \subseteq State' BY SaveRoomStateTypes DEF IInv
      <4> QED BY <3>1, <4>1, Ending DEF IInv, Types, ReqTypes
    <3>3. req[r].pc = "save" BY <1>2, <1>7, <2>3
    <3>4. Local(i)' BY <1>2, <1>4, <1>5, <1>14, <2>1, <3>2, <3>3, EndLocal
    <3>5. RowStep(i) BY <1>2, <1>11, <1>14, <2>1, <3>1, <3>3 DEF RowStep
    <3> QED BY <1>1, <1>4, <1>5, <3>2, <3>4, <3>5, EndStep
  <2> QED BY <2>2, <2>3
<1>15. ASSUME ~SaveLands(i, s), Goes(r, "check"), UNCHANGED <<stored, acked>> PROVE Stays
  <2>1. Moves(r, "check", req[r].room, s, req[r].due)
    <3>1. State \subseteq State' BY SaveRoomStateTypes DEF IInv
    <3> QED BY <1>15, <3>1, Going DEF IInv, Types, ReqTypes, Pcs
  <2>2. req[r].task # "create" BY <1>13, <1>15
  <2>3. Leads(i) /\ here[i] = 0 /\ life[i] = "up" => stored \in {s, <<>>}
    BY <1>2, <1>6, <1>7, <1>8, <2>2 DEF Local, Vacant
  <2>4. Local(i)' BY <1>2, <1>4, <1>5, <1>6, <1>7, <1>10, <1>11, <1>15, <2>1, <2>2, <2>3, MoveLocal
  <2>5. RowStep(i) BY <1>2, <1>15 DEF RowStep, row
  <2> QED BY <1>1, <1>2, <1>4, <1>5, <2>1, <2>4, <2>5, MoveStep
<1>16. ASSUME NotSaved(r), stored' \in {stored} \cup IF SaveLands(i, s) THEN {s} ELSE {} PROVE Stays
  <2>1. UNCHANGED acked /\ State \subseteq State'
    BY <1>16, SaveRoomStateTypes DEF NotSaved, IInv
  <2>2. \/ UNCHANGED stored
        \/ Holds(i) /\ stored' = s /\ IsPrefix(stored, stored')
    BY <1>9, <1>16 DEF SaveLands
  <2>3. RowStep(i) BY <1>2, <2>1, <2>2 DEF RowStep, row
  <2>4. CASE req[r].task = "takeover" /\ req[r].room = 0
    <3>1. Goes(r, "giveup") BY <1>16, <2>4 DEF NotSaved
    <3>2. Moves(r, "giveup", req[r].room, s, req[r].due)
      BY <2>1, <3>1, Going DEF IInv, Types, ReqTypes, Pcs
    <3>3. Local(i)' BY <1>2, <1>4, <1>5, <1>6, <2>1, <2>2, <2>4, <3>2, MoveLocal
    <3> QED BY <1>1, <1>2, <1>4, <1>5, <2>3, <3>2, <3>3, MoveStep
  <2>5. CASE req[r].task = "create"
    <3>1. Goes(r, "remove") BY <1>16, <2>5 DEF NotSaved
    <3>2. Moves(r, "remove", req[r].room, s, req[r].due)
      BY <2>1, <3>1, Going DEF IInv, Types, ReqTypes, Pcs
    <3>3. Local(i)' BY <1>2, <1>4, <1>5, <1>6, <1>12, <2>1, <2>2, <2>5, <3>2, MoveLocal
    <3> QED BY <1>1, <1>2, <1>4, <1>5, <2>3, <3>2, <3>3, MoveStep
  <2>6. CASE req[r].task # "create" /\ ~(req[r].task = "takeover" /\ req[r].room = 0)
    <3>1. Ends(r) BY <1>16, <2>1, <2>6, Ending DEF NotSaved, IInv, Types, ReqTypes
    <3>2. req[r].pc = "save" BY <1>2, <1>7, <2>6
    <3>3. Local(i)' BY <1>2, <1>4, <1>5, <2>1, <2>2, <2>6, <3>1, <3>2, EndLocal
    <3> QED BY <1>1, <1>4, <1>5, <2>3, <3>1, <3>3, EndStep
  <2> QED BY <2>4, <2>5, <2>6
<1> HIDE DEF s
<1> QED BY <1>4, <1>14, <1>15, <1>16 DEF SaveRoomState, s

\* Whoever still holds the lease has its state in the row.
LEMMA CheckLeaseKeeps ==
  ASSUME IInv, NEW r \in Requests, CheckLease(r) PROVE Stays
<1>1. Types' /\ State \subseteq State' BY CheckLeaseTypes DEF IInv
<1>2. req[r].pc = "check" /\ UNCHANGED <<row, process, queue, sweepers>> BY DEF CheckLease
<1>3. req[r].at \in Instances BY <1>2, AtStage DEF IInv, Types
<1>4. PICK i \in Instances : req[r].at = i BY <1>3
<1>5. \A j \in Instances : SameHere(j) BY <1>2, AllSame
<1> DEFINE s == req[r].snap
<1>6. /\ r \in At(i) /\ s \in Seq(Nat) /\ Local(i)
      /\ Stage("check", req[r].task, req[r].room, s)
  BY <1>2, <1>4, Present DEF IInv
<1>7. req[r].task # "create" BY <1>2, <1>6 DEF Local, Creating
<1>8. UNCHANGED <<owner, leased, stored, epoch>> BY <1>2 DEF row
<1>9. CASE Holds(i) /\ Saved(r)
  <2>1. IsPrefix(s, stored) BY <1>2, <1>6, <1>9 DEF Local, Answers
  <2>0. stored \in Seq(Nat) BY StateIsSeq DEF IInv, Types, RowTypes
  <2>2. CASE req[r].task = "takeover" /\ req[r].room = 0
    <3>1. UNCHANGED acked /\ Goes(r, "install") BY <1>9, <2>2 DEF Saved
    <3>2. Moves(r, "install", req[r].room, s, req[r].due)
      BY <1>1, <3>1, Going DEF IInv, Types, ReqTypes, Pcs
    <3>3. Leads(i) /\ here[i] = 0 /\ life[i] = "up" => stored = s
      <4>1. Leads(i) /\ here[i] = 0 /\ life[i] = "up" => stored \in {s, <<>>}
        BY <1>2, <1>6 DEF Local, Vacant
      <4>2. s # <<>> BY <1>6, <2>2 DEF Stage
      <4> QED BY <1>6, <2>1, <4>1, <4>2, PrefixOfEmpty
    <3>4. Local(i)' BY <1>2, <1>4, <1>5, <1>6, <1>8, <2>2, <3>1, <3>2, <3>3, MoveLocal
    <3>5. RowStep(i) BY <1>2, <3>1 DEF RowStep
    <3> QED BY <1>1, <1>2, <1>4, <1>5, <1>8, <3>2, <3>4, <3>5, MoveStep
  <2>3. CASE ~(req[r].task = "takeover" /\ req[r].room = 0)
    <3>1. acked' = acked \cup {req[r].due} /\ Ends(r)
      BY <1>1, <1>9, <2>3, Ending DEF Saved, IInv, Types, ReqTypes
    <3>2. req[r].room # 0 BY <1>6, <1>7, <2>3 DEF Stage
    <3>3. req[r].due \in ToSet(s) BY <1>2, <1>6, <3>2 DEF Local, Answers
    <3>4. req[r].due \in ToSet(stored) /\ IsPrefix(stored, stored)
      BY <1>6, <2>0, <2>1, <3>3, PrefixToSet, PrefixRefl
    <3>5. Local(i)' BY <1>4, <1>5, <1>7, <1>8, <1>9, <3>1, EndLocal
    <3>6. RowStep(i) BY <1>8, <1>9, <3>1, <3>4 DEF RowStep
    <3> QED BY <1>1, <1>4, <1>5, <3>1, <3>5, <3>6, EndStep
  <2> QED BY <2>2, <2>3
<1>10. CASE NotSaved(r)
  <2>1. UNCHANGED acked BY <1>10 DEF NotSaved
  <2>2. RowStep(i) BY <1>2, <2>1 DEF RowStep
  <2>3. CASE req[r].task = "takeover" /\ req[r].room = 0
    <3>1. Moves(r, "giveup", req[r].room, s, req[r].due)
      BY <1>1, <1>10, <2>3, Going DEF IInv, Types, ReqTypes, Pcs, NotSaved
    <3>2. Local(i)' BY <1>2, <1>4, <1>5, <1>6, <1>8, <2>1, <2>3, <3>1, MoveLocal
    <3> QED BY <1>1, <1>2, <1>4, <1>5, <1>8, <2>2, <3>1, <3>2, MoveStep
  <2>4. CASE ~(req[r].task = "takeover" /\ req[r].room = 0)
    <3>1. Ends(r) BY <1>1, <1>7, <1>10, <2>4, Ending DEF NotSaved, IInv, Types, ReqTypes
    <3>2. Local(i)' BY <1>4, <1>5, <1>7, <1>8, <2>1, <3>1, EndLocal
    <3> QED BY <1>1, <1>4, <1>5, <2>2, <3>1, <3>2, EndStep
  <2> QED BY <2>3, <2>4
<1> HIDE DEF s
<1> QED BY <1>4, <1>9, <1>10 DEF CheckLease

-----------------------------------------------------------------------------
(* New and vanished rooms.                                                 *)

\* A room whose first save failed had no other request and no timer.
LEMMA RemoveRoomKeeps ==
  ASSUME IInv, NEW r \in Requests, RemoveRoom(r) PROVE Stays
<1>1. Types' /\ Moves(r, "giveup", req[r].room, req[r].snap, req[r].due)
  BY RemoveRoomTypes DEF IInv
<1>2. req[r].pc = "remove" /\ UNCHANGED <<row, life, heap, observed, work, sweepers, acked>> BY DEF RemoveRoom
<1>3. req[r].at \in Instances BY <1>2, AtStage DEF IInv, Types
<1>4. PICK i \in Instances : req[r].at = i BY <1>3
<1>5. RowTypes /\ HeapTypes /\ QueueTypes /\ ReqTypes BY TypesUnfold
<1>6. r \in At(i) /\ req[r].task = "create" /\ sweep[i] = "idle" /\ Local(i)
      /\ req[r].room \in 0..Len(heap[i])
  BY <1>2, <1>4, Present DEF Stage, IInv
<1>7. /\ At(i) = {r} /\ pend[i] = <<>> /\ work[i].state = <<>> /\ acked = {} /\ lost[i] = "no"
      /\ here[i] \in {0, req[r].room} /\ Len(heap[i][req[r].room]) = 1
  BY <1>2, <1>6 DEF Local, Creating
<1>8. /\ \A j \in Instances \ {i} : SameHere(j)
      /\ here'[i] = 0 /\ pend'[i] = <<>> /\ life'[i] = life[i] /\ heap'[i] = heap[i]
      /\ observed'[i] = observed[i] /\ work'[i] = work[i] /\ sweep'[i] = "idle" /\ lost'[i] = "no"
  <2>1. here \in [Instances -> Nat] /\ pend \in [Instances -> State]
    BY <1>5 DEF HeapTypes, QueueTypes
  <2> QED BY <1>2, <1>4, <1>6, <1>7, <2>1 DEF RemoveRoom, SameHere, sweepers
<1>9. /\ At(i)' = {r} /\ req'[r].pc = "giveup" /\ req'[r].task = "create"
  BY <1>1, <1>4, <1>6, <1>7 DEF At, Moves
<1>10. \A o \in observed[i] : ~(Len(heap[i][o]) > 1)
  <2> SUFFICES ASSUME NEW o \in observed[i], Len(heap[i][o]) > 1 PROVE FALSE OBVIOUS
  <2>1. o # 0 BY <1>5 DEF HeapTypes
  <2>2. o = here[i] BY <1>6, <1>7 DEF Local, Cleaning
  <2>3. o = req[r].room BY <1>7, <2>1, <2>2
  <2>4. Len(heap[i][o]) = 1 BY <1>7, <2>3
  <2> QED BY <2>4
<1>11. UNCHANGED <<owner, leased, stored, epoch, acked>> BY <1>2 DEF row
<1>12. Leads(i)' => Leads(i) BY <1>8, <1>9, <1>11 DEF Leads
<1>13. Touchable(i)' = {} BY <1>8, <1>9, <1>10 DEF Touchable
<1>14. \A s \in Saves(i)' : s \in Saves(i)
  BY <1>8, <1>9, <1>11 DEF Saves
<1>15. Cleaning(i)' BY <1>8, <1>9, <1>10 DEF Cleaning
<1>16. Creating(i)' BY <1>7, <1>8, <1>9, <1>11 DEF Creating
<1>17. OneRoom(i)' BY <1>13 DEF OneRoom
<1>18. OneHistory(i)' BY <1>12, <1>13, <1>14, HistoryStays
<1>19. Vacant(i)' BY <1>7, <1>8, <1>9 DEF Vacant
<1>20. Takeovers(i)' BY <1>9 DEF Takeovers
<1>21. Answers(i)' BY <1>9 DEF Answers
<1>22. Remembered(i)' BY <1>8 DEF Remembered
<1>23. Local(i)' BY <1>15, <1>16, <1>17, <1>18, <1>19, <1>20, <1>21, <1>22 DEF Local
<1>24. RowStep(i) BY <1>2 DEF RowStep
<1> QED BY <1>1, <1>4, <1>6, <1>8, <1>11, <1>23, <1>24, MoveStep

\* A new room is the only object and nothing is saved or queued yet.
LEMMA InsertRoomKeeps ==
  ASSUME IInv, NEW r \in Requests, InsertRoom(r) PROVE Stays
<1>1. Types' BY InsertRoomTypes DEF IInv
<1>2. req[r].pc = "insert" /\ UNCHANGED <<row, queue, sweepers, acked>> BY DEF InsertRoom
<1>3. req[r].at \in Instances BY <1>2, AtStage DEF IInv, Types
<1>4. PICK i \in Instances : req[r].at = i BY <1>3
<1>5. RowTypes /\ HeapTypes /\ QueueTypes /\ ReqTypes BY TypesUnfold
<1>6. r \in At(i) /\ req[r].task = "create" /\ req[r].room = 0 /\ sweep[i] = "idle" /\ Local(i)
      /\ req[r].snap \in Seq(Nat)
  BY <1>2, <1>4, Present DEF Stage, IInv
<1>7. /\ At(i) = {r} /\ pend[i] = <<>> /\ work[i].state = <<>> /\ acked = {} /\ lost[i] = "no"
      /\ here[i] = 0 /\ stored = <<>>
  BY <1>2, <1>6 DEF Local, Creating
<1>8. UNCHANGED <<owner, leased, stored, epoch, acked>> BY <1>2 DEF row
<1>9. RowStep(i) BY <1>2 DEF RowStep
<1>10. CASE UNCHANGED process /\ Moves(r, "giveup", req[r].room, req[r].snap, req[r].due)
  <2>1. \A j \in Instances : SameHere(j) BY <1>2, <1>10, AllSame
  <2>2. Local(i)' BY <1>4, <1>6, <1>7, <1>8, <1>10, <2>1, MoveLocal
  <2> QED BY <1>1, <1>4, <1>6, <1>8, <1>9, <1>10, <2>1, <2>2, MoveStep
<1>11. CASE /\ MayInsert(i) /\ AddRoom(i, <<Fresh>>) /\ <<Fresh>> \in State' /\ Updates
            /\ Moves(r, "touched", here'[i], req[r].snap, Fresh)
  <2>1. State \subseteq State' BY InsertRoomTypes DEF IInv
  <2> DEFINE o == here'[i]
  <2>2. /\ \A j \in Instances \ {i} : heap'[j] = heap[j] /\ here'[j] = here[j] /\ observed'[j] = observed[j]
        /\ o = Len(heap[i]) + 1 /\ o # 0
        /\ \A p \in 1..Len(heap[i]) : heap'[i][p] = heap[i][p]
        /\ heap'[i][o] = <<Fresh>>
        /\ observed'[i] = observed[i] \cup {o}
        /\ observed[i] \subseteq 1..Len(heap[i])
    <3>1. Open(i) BY <1>11 DEF MayInsert, Open
    <3>2. Len(heap[i]) \in Nat BY <1>5 DEF HeapTypes
    <3> QED BY <1>5, <1>11, <2>1, <3>1, <3>2, Adding DEF HeapTypes
  <2>3. /\ \A j \in Instances : /\ life'[j] = life[j] /\ pend'[j] = pend[j] /\ work'[j] = work[j]
                                /\ sweep'[j] = sweep[j] /\ lost'[j] = lost[j]
    BY <1>2, <1>11 DEF AddRoom, queue, sweepers
  <2>4. \A j \in Instances \ {i} : SameHere(j) BY <2>2, <2>3 DEF SameHere
  <2>5. /\ At(i)' = {r} /\ req'[r].pc = "touched" /\ req'[r].task = "create" /\ req'[r].room = o
        /\ req'[r].due = Fresh
    BY <1>4, <1>6, <1>7, <1>11 DEF At, Moves
  <2>6. Fresh \in Nat /\ Len(<<Fresh>>) = 1 /\ Fresh \in ToSet(<<Fresh>>) /\ <<Fresh>> \in Seq(Nat)
    <3>1. Fresh \in Nat BY <1>5 DEF Fresh, RowTypes, Events
    <3> QED BY <3>1 DEF ToSet
  <2> HIDE DEF o
  <2>7. \A p \in observed'[i] : ~(Len(heap'[i][p]) > 1)
    <3>1. \A p \in observed[i] : p # 0 BY <2>2
    <3>2. \A p \in observed[i] : ~(Len(heap[i][p]) > 1)
      BY <1>6, <1>7, <3>1 DEF Local, Cleaning
    <3>3. \A p \in observed[i] : heap'[i][p] = heap[i][p] BY <2>2
    <3>4. ~(Len(heap'[i][o]) > 1) BY <2>2, <2>6
    <3> QED BY <2>2, <3>2, <3>3, <3>4
  <2>8. Touchable(i)' = {o} BY <2>2, <2>5, <2>7 DEF Touchable, o
  <2>9. Saves(i)' = {<<>>} BY <1>7, <1>8, <2>3, <2>5 DEF Saves
  <2>10. Cleaning(i)' BY <1>6, <1>7, <2>2, <2>3, <2>5, <2>7 DEF Cleaning, o
  <2>11. Creating(i)' BY <1>7, <1>8, <2>2, <2>3, <2>5, <2>6 DEF Creating, o
  <2>12. OneRoom(i)' BY <2>8 DEF OneRoom, o
  <2>13. OneHistory(i)'
    <3>1. IsPrefix(<<>>, <<>>)
      <4>1. <<>> \in Seq(Nat) OBVIOUS
      <4> QED BY <4>1, PrefixRefl
    <3>2. IsPrefix(<<>>, heap'[i][o]) BY <2>2, <2>6, PrefixRefl
    <3> QED BY <2>8, <2>9, <3>1, <3>2 DEF OneHistory
  <2>14. Vacant(i)' BY <2>2 DEF Vacant, o
  <2>15. Takeovers(i)' BY <2>5 DEF Takeovers
  <2>16. Answers(i)' BY <2>2, <2>5, <2>6 DEF Answers
  <2>17. Remembered(i)' BY <2>5 DEF Remembered
  <2>18. Local(i)' BY <2>10, <2>11, <2>12, <2>13, <2>14, <2>15, <2>16, <2>17 DEF Local
  <2> QED BY <1>1, <1>4, <1>6, <1>8, <1>9, <1>11, <2>4, <2>18, MoveStep DEF o
<1> QED BY <1>4, <1>10, <1>11, InsertRoomTypes DEF IInv

\* A room is installed only where there is none; then the row is what was loaded, and
\* all else that is queued or in flight is empty or the same.
LEMMA InstallRoomKeeps ==
  ASSUME IInv, NEW r \in Requests, InstallRoom(r) PROVE Stays
<1>1. Types' BY InstallRoomTypes DEF IInv
<1>2. req[r].pc = "install" /\ UNCHANGED <<row, queue, sweepers, acked>> BY DEF InstallRoom
<1>3. req[r].at \in Instances BY <1>2, AtStage DEF IInv, Types
<1>4. PICK i \in Instances : req[r].at = i BY <1>3
<1>5. RowTypes /\ HeapTypes /\ QueueTypes /\ ReqTypes BY TypesUnfold
<1> DEFINE s == req[r].snap
<1>6. /\ r \in At(i) /\ req[r].task \in {"resume", "takeover"} /\ req[r].room = 0 /\ sweep[i] = "idle"
      /\ Local(i) /\ s \in Seq(Nat) /\ s # <<>> /\ Timely(r)
  BY <1>2, <1>4, Present DEF Stage, IInv
<1>7. UNCHANGED <<owner, leased, stored, epoch, acked>> BY <1>2 DEF row
<1>8. RowStep(i) BY <1>2 DEF RowStep
<1>9. CASE UNCHANGED process /\ Ends(r)
  <2>1. \A j \in Instances : SameHere(j) BY <1>2, <1>9, AllSame
  <2>2. Local(i)' BY <1>4, <1>6, <1>7, <1>9, <2>1, EndLocal
  <2> QED BY <1>1, <1>4, <1>8, <1>9, <2>1, <2>2, EndStep
<1>10. CASE UNCHANGED process /\ Moves(r, "giveup", req[r].room, s, req[r].due)
  <2>1. \A j \in Instances : SameHere(j) BY <1>2, <1>10, AllSame
  <2>2. Local(i)' BY <1>2, <1>4, <1>6, <1>7, <1>10, <2>1, MoveLocal
  <2> QED BY <1>1, <1>2, <1>4, <1>7, <1>8, <1>10, <2>1, <2>2, MoveStep
<1>11. CASE UNCHANGED process /\ here[i] # 0 /\ Moves(r, "found", here[i], s, req[r].due)
  <2>1. \A j \in Instances : SameHere(j) BY <1>2, <1>11, AllSame
  <2>2. here[i] \in Touchable(i) BY <1>11 DEF Touchable
  <2>3. Local(i)' BY <1>2, <1>4, <1>6, <1>7, <1>11, <2>1, <2>2, MoveLocal
  <2> QED BY <1>1, <1>2, <1>4, <1>7, <1>8, <1>11, <2>1, <2>3, MoveStep
<1>12. CASE /\ MayInsert(i) /\ AddRoom(i, s) /\ s \in State'
            /\ Moves(r, "found", here'[i], s, req[r].due)
  <2>1. State \subseteq State' BY InstallRoomTypes DEF IInv
  <2> DEFINE o == here'[i]
  <2>2. /\ \A j \in Instances \ {i} : heap'[j] = heap[j] /\ here'[j] = here[j] /\ observed'[j] = observed[j]
        /\ o = Len(heap[i]) + 1 /\ o # 0
        /\ \A p \in 1..Len(heap[i]) : heap'[i][p] = heap[i][p]
        /\ heap'[i][o] = s
        /\ observed'[i] = observed[i] \cup {o}
        /\ observed[i] \subseteq 1..Len(heap[i])
    <3>1. Open(i) BY <1>12 DEF MayInsert, Open
    <3>2. Len(heap[i]) \in Nat BY <1>5 DEF HeapTypes
    <3> QED BY <1>5, <1>12, <2>1, <3>1, <3>2, Adding DEF HeapTypes
  <2>3. /\ \A j \in Instances : /\ life'[j] = life[j] /\ pend'[j] = pend[j] /\ work'[j] = work[j]
                                /\ sweep'[j] = sweep[j] /\ lost'[j] = lost[j]
    BY <1>2, <1>12 DEF AddRoom, queue, sweepers
  <2>4. \A j \in Instances \ {i} : SameHere(j) BY <2>2, <2>3 DEF SameHere
  <2>5. /\ At(i)' = At(i) /\ \A q \in At(i) \ {r} : q \in Requests /\ req'[q] = req[q]
        /\ req'[r].pc = "found" /\ req'[r].task = req[r].task /\ req'[r].room = o /\ req'[r].snap = s
    BY <1>4, <1>6, <1>12 DEF At, Moves
  <2> HIDE DEF o, s
  <2>6. here[i] = 0 /\ life[i] = "up" BY <1>12 DEF MayInsert
  <2>7. lost[i] = "no" BY <1>6 DEF Local, Cleaning
  <2>8. \A q \in At(i) : req[q].task # "create"
    BY <1>6 DEF Local, Creating
  <2>9. \A p \in observed[i] : /\ p # 0 /\ ~(Len(heap[i][p]) > 1)
                               /\ \A q \in At(i) : req[q].room # p
    BY <1>6, <2>2, <2>6, <2>7, <2>8 DEF Local, Cleaning
  <2>10. owner = i => Leads(i) BY <1>2, <1>4, <1>6 DEF Leads, Timely, Claimed
  <2>11. Leads(i)' => Leads(i) BY <1>7, <2>10 DEF Leads
  <2>12. Leads(i) => /\ pend[i] = <<>> /\ work[i].state = <<>> /\ stored = s
                     /\ \A q \in At(i) : /\ req[q].room = 0
                                         /\ req[q].pc = "resave" => stored \in {req[q].snap, <<>>}
    BY <1>2, <1>6, <2>6, <2>8 DEF Local, Vacant, s
  <2>13. \A q \in At(i) : /\ req[q].pc \in {"found", "touched", "save"} => req[q].room # 0
                          /\ req[q].room \in 0..Len(heap[i])
    <3>1. ASSUME NEW q \in At(i)
          PROVE  Stage(req[q].pc, req[q].task, req[q].room, req[q].snap) /\ req[q].room \in 0..Len(heap[i])
      BY Present DEF At
    <3> QED BY <3>1 DEF Stage
  <2>14. Leads(i) => Touchable(i)' = {o}
    BY <1>6, <2>2, <2>5, <2>9, <2>12, <2>13, SMTT(30) DEF Touchable, o
  <2>15. Leads(i) => \A t \in Saves(i)' : t \in {<<>>, s}
    <3>1. ASSUME Leads(i), NEW q \in At(i)', req'[q].pc \in {"save", "resave"}
          PROVE  req'[q].snap \in {<<>>, s}
      <4>1. q # r BY <2>5, <3>1
      <4>2. req'[q] = req[q] /\ q \in At(i) BY <2>5, <4>1
      <4>3. s # <<>> BY <1>6 DEF s
      <4> QED BY <2>12, <2>13, <3>1, <4>2, <4>3
    <3> QED BY <1>7, <2>3, <2>12, <3>1 DEF Saves
  <2>16. Cleaning(i)'
    <3>1. ASSUME NEW p \in observed'[i],
                 Len(heap'[i][p]) > 1 \/ \E q \in At(i)' : req'[q].room = p
          PROVE  p = o
      BY <2>2, <2>5, <2>9, <3>1
    <3> QED BY <1>6, <2>2, <2>3, <2>7, <3>1 DEF Cleaning, o
  <2>17. Creating(i)' BY <1>6, <2>5, <2>8 DEF Creating
  <2>18. OneRoom(i)' BY <2>11, <2>14 DEF OneRoom, o
  <2>19. OneHistory(i)'
    <3>1. /\ IsPrefix(<<>>, <<>>) /\ IsPrefix(<<>>, s) /\ IsPrefix(s, s)
      <4>1. s \in Seq(Nat) BY <1>6 DEF s
      <4>2. <<>> \in Seq(Nat) OBVIOUS
      <4> QED BY <4>1, <4>2, PrefixRefl
    <3> QED BY <2>2, <2>11, <2>14, <2>15, <3>1 DEF OneHistory
  <2>20. Vacant(i)' BY <2>2 DEF Vacant, o
  <2>21. Takeovers(i)'
    <3>1. ~leased => \A q \in At(i) : req[q].task = "takeover" => owner = i
      BY <1>4, <1>6, <2>10, <1>2 DEF Timely, Claimed
    <3>2. \A q \in At(i) : /\ req'[q].task = req[q].task
                           /\ Claimed(q)' => Claimed(q)
                           /\ req'[q].pc = "claim" => req'[q] = req[q]
      BY <1>2, <2>5 DEF Claimed
    <3>3. \A q \in At(i) : req[q].task = "takeover" =>
            /\ ~leased /\ req[q].pc = "claim" => stored = req[q].snap \/ (stored = <<>> /\ owner = Nobody)
            /\ Claimed(q) => \A p \in At(i) : req[p].task = "takeover" => p = q
      BY <1>6 DEF Local, Takeovers
    <3> QED BY <1>7, <2>5, <3>1, <3>2, <3>3 DEF Takeovers
  <2>22. Answers(i)'
    <3>1. ASSUME NEW q \in At(i), q # r
          PROVE  /\ req'[q].pc = "touched" => req'[q].due \in ToSet(heap'[i][req'[q].room])
                 /\ req'[q].pc \in {"save", "check"} /\ req'[q].room # 0 => req'[q].due \in ToSet(req'[q].snap)
                 /\ req'[q].pc = "check" /\ Holds(i)' => IsPrefix(req'[q].snap, stored')
      <4>1. req'[q] = req[q] BY <2>5, <3>1
      <4>2. req[q].pc = "touched" => heap'[i][req[q].room] = heap[i][req[q].room]
        BY <2>2, <2>13
      <4>3. Answers(i) BY <1>6 DEF Local
      <4> QED BY <1>7, <4>1, <4>2, <4>3 DEF Answers, Holds
    <3> QED BY <2>5, <3>1 DEF Answers
  <2>23. Remembered(i)' BY <1>7, <2>2, <2>11, <2>12 DEF Remembered, o
  <2>24. Local(i)' BY <2>16, <2>17, <2>18, <2>19, <2>20, <2>21, <2>22, <2>23 DEF Local
  <2> QED BY <1>1, <1>2, <1>4, <1>7, <1>8, <1>12, <2>4, <2>24, MoveStep DEF o, s
<1> QED BY <1>4, <1>9, <1>10, <1>11, <1>12, InstallRoomTypes DEF IInv

-----------------------------------------------------------------------------
(* Rooms that change.                                                      *)

\* An object that may change does, for a request of its instance or for none.
LEMMA TouchLocal ==
  ASSUME IInv, Types', State \subseteq State', NEW i \in Instances, NEW o \in Touchable(i), TouchRoom(i, o),
         UNCHANGED <<row, sweepers, acked>>, sweep[i] # "removed",
         o \in observed[i] => o = here[i] \/ lost[i] \in {"removed", "cleared"},
         \A q \in At(i) : req[q].task # "create",
         At(i)' = At(i),
         \A q \in At(i) :
           \/ req'[q] = req[q]
           \/ /\ req[q].pc = "found" /\ req'[q].pc = "touched"
              /\ req'[q].room = o /\ req[q].room = o /\ req'[q].due = Fresh
              /\ req'[q].task = req[q].task /\ req'[q].snap = req[q].snap
  PROVE  Local(i)' /\ \A j \in Instances \ {i} : SameHere(j)
<1>1. Local(i) BY DEF IInv
<1>2. RowTypes /\ HeapTypes /\ QueueTypes /\ ReqTypes BY TypesUnfold
<1>3. o \in 1..Len(heap[i]) /\ heap[i][o] \in Seq(Nat) BY <1>2, ObjectsAreSeqs
<1> DEFINE t == Append(heap[i][o], Fresh)
<1>4. /\ \A j \in Instances : \A p \in 1..Len(heap[j]) :
            (j # i \/ p # o) => heap'[j][p] = heap[j][p]
      /\ Fresh \in Nat /\ heap'[i][o] = t
  BY <1>2, <1>3, Touching
<1>5. t \in Seq(Nat) /\ Len(t) = Len(heap[i][o]) + 1 /\ Fresh \in ToSet(t) /\ Len(heap[i][o]) \in Nat
      /\ ToSet(heap[i][o]) \subseteq ToSet(t)
  BY <1>3, <1>4, ToSetAppend
<1>6. \A j \in Instances \ {i} : SameHere(j)
  <2>1. heap \in [Instances -> Seq(State)] /\ pend \in [Instances -> State]
    BY <1>2 DEF HeapTypes, QueueTypes
  <2> QED BY <2>1 DEF TouchRoom, SameHere, sweepers
<1>7. /\ life'[i] = life[i] /\ here'[i] = here[i] /\ observed'[i] = observed[i] /\ work'[i] = work[i]
      /\ sweep'[i] = sweep[i] /\ lost'[i] = lost[i]
      /\ UNCHANGED <<owner, leased, stored, epoch, acked>>
      /\ pend'[i] = IF o \in observed[i] THEN Newer(pend[i], t) ELSE pend[i]
  <2>1. pend \in [Instances -> State] BY <1>2 DEF QueueTypes
  <2> QED BY <2>1 DEF TouchRoom, sweepers, row
<1> HIDE DEF t
<1>8. observed[i] \subseteq 1..Len(heap[i]) BY <1>2 DEF HeapTypes
<1>9. \A q \in At(i) : /\ q \in Requests /\ req[q].room \in 0..Len(heap[i])
                       /\ req[q].pc \in {"found", "touched"} => req[q].room # 0
  <2>1. ASSUME NEW q \in At(i)
        PROVE  /\ q \in Requests /\ req[q].room \in 0..Len(heap[i])
               /\ Stage(req[q].pc, req[q].task, req[q].room, req[q].snap)
    BY Present DEF At
  <2> QED BY <2>1 DEF Stage
<1>10. \A q \in At(i) : req'[q].task = req[q].task /\ req'[q].room = req[q].room /\ req'[q].snap = req[q].snap
  OBVIOUS
<1>11. Leads(i)' => Leads(i) BY <1>7, <1>10 DEF Leads
<1>12. \A p \in Touchable(i)' : p \in Touchable(i)
  <2>1. ASSUME NEW p \in observed[i], Len(heap'[i][p]) > 1 PROVE p \in Touchable(i)
    <3>1. CASE p = o BY <3>1
    <3>2. CASE p # o
      <4>1. heap'[i][p] = heap[i][p] BY <1>4, <1>8, <3>2
      <4> QED BY <2>1, <4>1 DEF Touchable
    <3> QED BY <3>1, <3>2
  <2>2. ASSUME NEW q \in At(i), req'[q].pc \in {"found", "touched"} PROVE req'[q].room \in Touchable(i)
    BY <2>2 DEF Touchable
  <2>3. here[i] # 0 => here[i] \in Touchable(i) BY DEF Touchable
  <2> QED BY <1>7, <2>1, <2>2, <2>3 DEF Touchable
<1>13. Cleaning(i)'
  <2>1. ASSUME NEW p \in observed[i],
               Len(heap'[i][p]) > 1 \/ (\E q \in At(i) : req'[q].task # "create" /\ req'[q].room = p)
        PROVE  p = here[i] \/ lost[i] \in {"removed", "cleared"}
    <3>1. CASE p = o BY <3>1
    <3>2. CASE p # o
      <4>1. heap'[i][p] = heap[i][p] BY <1>4, <1>8, <3>2
      <4> QED BY <1>1, <1>10, <2>1, <4>1 DEF Local, Cleaning
    <3> QED BY <3>1, <3>2
  <2> QED BY <1>1, <1>7, <1>10, <2>1 DEF Local, Cleaning, Holds
<1>14. Creating(i)' BY <1>10 DEF Creating
<1>15. OneRoom(i)' BY <1>1, <1>7, <1>11, <1>12 DEF Local, OneRoom, Open
<1>16. ASSUME Leads(i)
       PROVE  /\ here[i] # 0 => here[i] = o
              /\ here[i] = 0 => life[i] # "up"
              /\ \A p \in Touchable(i)' : p = o
              /\ \A s \in Saves(i) : s \in Seq(Nat) /\ IsPrefix(s, t)
              /\ IsPrefix(t, t)
  <2>1. here[i] # 0 => here[i] \in Touchable(i) BY DEF Touchable
  <2>2. /\ \A p, q \in Touchable(i) : p = q
        /\ o = here[i] \/ ~Open(i)
    BY <1>1, <1>16 DEF Local, OneRoom
  <2>3. ASSUME NEW s \in Saves(i) PROVE s \in Seq(Nat) /\ IsPrefix(s, t)
    <3>1. s \in Seq(Nat) BY <1>2, SavesAreSeqs
    <3>2. IsPrefix(s, heap[i][o]) BY <1>1, <1>16 DEF Local, OneHistory
    <3> QED BY <1>3, <1>4, <3>1, <3>2, PrefixAppend DEF t
  <2>4. o # 0 BY <1>3
  <2> QED BY <1>5, <1>12, <2>1, <2>2, <2>3, <2>4, PrefixRefl DEF Open
<1>17. Leads(i) => \A s \in Saves(i)' : s \in Saves(i) \/ s = t
  <2>1. ASSUME NEW q \in At(i), req'[q].pc \in {"save", "resave"} PROVE req'[q].snap \in Saves(i)
    <3>1. req[q].pc \in {"save", "resave"} BY <2>1
    <3> QED BY <1>10, <3>1 DEF Saves
  <2>2. pend'[i] \in {pend[i], t} BY <1>7 DEF Newer
  <2> QED BY <1>7, <2>1, <2>2 DEF Saves
<1>18. OneHistory(i)'
  <2> SUFFICES ASSUME Leads(i) PROVE OneHistory(i)' BY <1>11 DEF OneHistory
  <2>1. \A s, u \in Saves(i) : IsPrefix(s, u) \/ IsPrefix(u, s) BY <1>1 DEF Local, OneHistory
  <2>2. \A s, u \in Saves(i)' : IsPrefix(s, u) \/ IsPrefix(u, s) BY <1>16, <1>17, <2>1
  <2>3. \A p \in Touchable(i)' : \A s \in Saves(i)' : IsPrefix(s, heap'[i][p]) BY <1>4, <1>16, <1>17
  <2> QED BY <2>2, <2>3 DEF OneHistory
<1>19. Vacant(i)' BY <1>7, <1>11, <1>16 DEF Vacant
<1>20. Takeovers(i)'
  <2>1. \A q \in At(i) : /\ Claimed(q)' => Claimed(q)
                         /\ req'[q].pc = "claim" => req[q].pc = "claim"
    BY <1>10 DEF Claimed
  <2> QED BY <1>1, <1>7, <1>10, <2>1 DEF Local, Takeovers
<1>21. Answers(i)'
  <2>1. ASSUME NEW q \in At(i)
        PROVE  /\ req'[q].pc = "touched" => req'[q].due \in ToSet(heap'[i][req'[q].room])
               /\ req'[q].pc \in {"save", "check"} => req'[q] = req[q]
    <3>1. CASE req'[q] = req[q]
      <4>1. req[q].pc = "touched" => req[q].due \in ToSet(heap[i][req[q].room])
        BY <1>1 DEF Local, Answers
      <4>2. CASE req[q].room = o BY <1>4, <1>5, <3>1, <4>1, <4>2
      <4>3. CASE req[q].room # o BY <1>4, <1>9, <3>1, <4>1, <4>3
      <4> QED BY <3>1, <4>2, <4>3
    <3>2. CASE req'[q].pc = "touched" /\ req'[q].room = o /\ req'[q].due = Fresh
      BY <1>4, <1>5, <3>2
    <3> QED BY <3>1, <3>2
  <2> QED BY <1>1, <1>7, <2>1 DEF Local, Answers, Holds
<1>22. Remembered(i)'
  <2> SUFFICES ASSUME Leads(i), here[i] # 0 PROVE heap'[i][here[i]] = pend'[i]
    BY <1>7, <1>11 DEF Remembered
  <2>1. here[i] = o BY <1>16
  <2>2. o \in observed[i] BY <1>1, <2>1 DEF Local, Cleaning
  <2>3. pend[i] \in Saves(i) BY DEF Saves
  <2>4. IsPrefix(pend[i], heap[i][o]) /\ pend[i] \in Seq(Nat)
    BY <1>1, <1>2, <2>3, SavesAreSeqs DEF Local, OneHistory
  <2>5. Len(pend[i]) <= Len(heap[i][o]) /\ Len(pend[i]) \in Nat BY <1>3, <2>4, PrefixMeans
  <2>6. Newer(pend[i], t) = t BY <1>5, <2>5 DEF Newer
  <2> QED BY <1>4, <1>7, <2>1, <2>2, <2>6
<1> QED BY <1>6, <1>13, <1>14, <1>15, <1>18, <1>19, <1>20, <1>21, <1>22 DEF Local

LEMMA ActOnRoomKeeps ==
  ASSUME IInv, NEW r \in Requests, ActOnRoom(r) PROVE Stays
<1>1. Types' /\ State \subseteq State' BY ActOnRoomTypes DEF IInv
<1>2. req[r].pc = "found" /\ UNCHANGED <<row, sweepers, acked>> BY DEF ActOnRoom
<1>3. req[r].at \in Instances BY <1>2, AtStage DEF IInv, Types
<1>4. PICK i \in Instances : req[r].at = i BY <1>3
<1>5. r \in At(i) /\ sweep[i] = "idle" /\ req[r].task # "create" /\ req[r].room # 0 /\ Local(i)
  BY <1>2, <1>4, Present DEF Stage, IInv
<1>6. PICK o \in Touchable(i) : o = req[r].room BY <1>2, <1>5 DEF Touchable
<1>7. TouchRoom(i, o) /\ Moves(r, "touched", o, req[r].snap, Fresh)
  BY <1>4, <1>6, ActOnRoomTypes DEF ActOnRoom, IInv
<1>8. o \in observed[i] => o = here[i] \/ lost[i] \in {"removed", "cleared"}
  BY <1>5, <1>6 DEF Local, Cleaning
<1>9. \A q \in At(i) : req[q].task # "create" BY <1>5 DEF Local, Creating
<1>10. At(i)' = At(i) BY <1>4, <1>7 DEF At, Moves
<1>11. \A q \in At(i) :
           \/ req'[q] = req[q]
           \/ /\ req[q].pc = "found" /\ req'[q].pc = "touched"
              /\ req'[q].room = o /\ req[q].room = o /\ req'[q].due = Fresh
              /\ req'[q].task = req[q].task /\ req'[q].snap = req[q].snap
  <2> SUFFICES ASSUME NEW q \in At(i), q # r PROVE req'[q] = req[q] BY <1>2, <1>6, <1>7 DEF Moves
  <2> QED BY <1>7 DEF Moves, At
<1>12. Local(i)' /\ \A j \in Instances \ {i} : SameHere(j)
  BY <1>1, <1>2, <1>5, <1>7, <1>8, <1>9, <1>10, <1>11, TouchLocal
<1>13. RowStep(i) BY <1>2 DEF RowStep
<1> QED BY <1>1, <1>2, <1>4, <1>7, <1>12, <1>13, MoveStep DEF row

\* A step of instance i that changes no request.
LEMMA QuietStep ==
  ASSUME IInv, Types', NEW i \in Instances, UNCHANGED req,
         RowStep(i), \A j \in Instances \ {i} : SameHere(j), Local(i)'
  PROVE  Stays
<1>1. \A j \in Instances \ {i} : SameAt(j) BY DEF SameHere, SameAt
<1> QED BY <1>1, StepKeeps DEF Step

\* A timer belongs to a room somebody has joined, and no room is being created.
LEMMA TimerTouchesKeeps ==
  ASSUME IInv, NEW i \in Instances, NEW o \in observed[i], TimerTouches(i, o) PROVE Stays
<1>1. Types' /\ State \subseteq State' BY TimerTouchesTypes DEF IInv
<1>2. Len(heap[i][o]) > 1 /\ sweep[i] # "removed" /\ TouchRoom(i, o) /\ UNCHANGED <<row, sweepers, req, acked>>
  BY DEF TimerTouches, IInv
<1>3. Local(i) BY DEF IInv
<1>4. o \in Touchable(i) BY <1>2 DEF Touchable
<1>5. o \in observed[i] => o = here[i] \/ lost[i] \in {"removed", "cleared"}
  BY <1>2, <1>3 DEF Local, Cleaning
<1>6. ASSUME NEW r \in At(i), req[r].task = "create" PROVE FALSE
  <2>1. r \in Requests /\ req[r].at = i BY DEF At
  <2>2. /\ lost[i] = "no"
        /\ req[r].pc \in {"reset", "insert", "giveup"} => here[i] = 0
        /\ req[r].pc # "check"
        /\ req[r].pc \in {"touched", "save", "remove"} =>
             here[i] \in {0, req[r].room} /\ Len(heap[i][req[r].room]) = 1
    BY <1>3, <1>6 DEF Local, Creating
  <2>3. req[r].pc \in {"reset", "insert", "giveup", "touched", "save", "remove"}
    BY <1>6, <2>1, <2>2, Present DEF Stage
  <2>4. o = here[i] /\ o # 0
    BY <1>5, <2>2, TypesUnfold DEF HeapTypes
  <2>5. Len(heap[i][o]) = 1 BY <2>2, <2>3, <2>4
  <2> QED BY <1>2, <2>5
<1>7. At(i)' = At(i) BY <1>2 DEF At
<1>8. Local(i)' /\ \A j \in Instances \ {i} : SameHere(j)
  BY <1>1, <1>2, <1>4, <1>5, <1>6, <1>7, TouchLocal
<1>9. RowStep(i) BY <1>2 DEF RowStep
<1> QED BY <1>1, <1>2, <1>8, <1>9, QuietStep

-----------------------------------------------------------------------------
(* Requests that begin, and new ownerships.                                *)

\* A request that begins finds the room, or none; it resumes only under the lease.
LEMMA GetRoomKeeps ==
  ASSUME IInv, NEW r \in Requests, NEW i \in Instances, GetRoom(r, i) PROVE Stays
<1>1. Types' BY GetRoomTypes DEF IInv
<1>2. /\ req[r].pc = "idle" /\ UNCHANGED <<row, process, queue, sweepers, acked>>
      /\ \A q \in Requests : req[q].task # "create"
      /\ sweep[i] = "idle" /\ lost[i] = "no"
  BY DEF GetRoom, IInv
<1>3. req[r] = Idle BY <1>2 DEF IInv, Types, ReqTypes, Staged, Stage
<1>4. UNCHANGED <<owner, leased, stored, epoch, acked>> BY <1>2 DEF row
<1>5. RowStep(i) BY <1>2 DEF RowStep
<1>6. \A j \in Instances : SameHere(j) BY <1>2, AllSame
<1>7. Local(i) /\ epoch \in Nat BY DEF IInv, Types, RowTypes
<1>8. ASSUME NEW pc, NEW task, NEW room, Begins(r, i, pc, task, room),
             \/ pc = "found" /\ task = "use" /\ room = here[i] /\ here[i] # 0
             \/ pc = "load" /\ task = "resume" /\ room = 0 /\ here[i] = 0 /\ Holds(i)
             \/ pc = "load" /\ task = "takeover" /\ room = 0 /\ here[i] = 0 /\ ~leased
      PROVE  Stays
  <2>1. /\ At(i)' = At(i) \cup {r} /\ r \notin At(i)
        /\ \A q \in At(i) : q \in Requests /\ req'[q] = req[q]
        /\ req'[r].pc = pc /\ req'[r].task = task /\ req'[r].room = room /\ req'[r].at = i
        /\ req'[r].since = epoch
    BY <1>3, <1>8, IdleIsNowhere DEF At, Begins
  <2>2. Leads(i)' => Leads(i) BY <1>4, <1>6, <1>8, <2>1 DEF Leads, SameHere, Holds
  <2>3. \A o \in Touchable(i)' : o \in Touchable(i) /\ heap'[i][o] = heap[i][o]
    BY <1>6, <1>8, <2>1 DEF Touchable, SameHere
  <2>4. \A s \in Saves(i)' : s \in Saves(i)
    BY <1>4, <1>6, <1>8, <2>1 DEF Saves, SameHere
  <2>5. Cleaning(i)'
    <3>1. here[i] \in 0..Len(heap[i]) /\ observed[i] \subseteq 1..Len(heap[i])
      BY TypesUnfold DEF HeapTypes
    <3>2. \A o \in observed[i] : room # o \/ o = here[i] BY <1>8, <3>1
    <3> QED BY <1>2, <1>4, <1>6, <1>7, <2>1, <3>2 DEF Local, Cleaning, SameHere, Holds
  <2>6. Creating(i)'
    <3>1. \A q \in At(i)' : req'[q].task # "create" BY <1>2, <1>8, <2>1
    <3> QED BY <3>1 DEF Creating
  <2>7. OneRoom(i)' BY <1>6, <1>7, <2>2, <2>3 DEF Local, OneRoom, SameHere, Open
  <2>8. OneHistory(i)' BY <2>2, <2>3, <2>4, HistoryStays
  <2>9. Vacant(i)' BY <1>4, <1>6, <1>7, <1>8, <2>1, <2>2 DEF Local, Vacant, SameHere
  <2>10. Takeovers(i)'
    <3>1. \A q \in At(i) : (Claimed(q)' <=> Claimed(q)) /\ (~leased => ~Claimed(q))
      <4>1. \A q \in At(i) : Timely(q) /\ req[q].pc # "idle" BY <2>1, Present DEF IInv, At
      <4> QED BY <2>1, <4>1 DEF Claimed, Timely
    <3>2. ~Claimed(r)' BY <1>8, <2>1 DEF Claimed
    <3> QED BY <1>4, <1>6, <1>7, <1>8, <2>1, <3>1, <3>2 DEF Local, Takeovers, SameHere
  <2>11. Answers(i)' BY <1>4, <1>6, <1>7, <1>8, <2>1 DEF Local, Answers, SameHere, Holds
  <2>12. Remembered(i)' BY <1>4, <1>6, <1>7, <1>8, <2>1, <2>2 DEF Local, Remembered, SameHere
  <2>13. Local(i)' BY <2>5, <2>6, <2>7, <2>8, <2>9, <2>10, <2>11, <2>12 DEF Local
  <2>14. Timely(r)' BY <1>4, <1>7, <1>8, <2>1 DEF Timely, Claimed, Holds
  <2>15. \A j \in Instances \ {i} : SameAt(j) BY <1>3, <1>6, <1>8, BeginElsewhere
  <2>16. \A q \in Requests : req'[q] = req[q] \/ Timely(q)' BY <1>8, <2>14 DEF Begins
  <2> QED BY <1>1, <1>5, <2>13, <2>15, <2>16, StepKeeps DEF Step
<1>9. \/ (here[i] # 0 /\ Begins(r, i, "found", "use", here[i]))
      \/ (here[i] = 0 /\ Holds(i) /\ Begins(r, i, "load", "resume", 0))
      \/ (here[i] = 0 /\ ~leased /\ Begins(r, i, "load", "takeover", 0))
  BY GetRoomTypes DEF IInv
<1> QED BY <1>8, <1>9

\* A reserved code has no history, and nothing of the old one is in flight here.
LEMMA ReserveRoomKeeps ==
  ASSUME IInv, NEW r \in Requests, NEW i \in Instances, ReserveRoom(r, i) PROVE Stays
<1>1. Types' BY ReserveRoomTypes DEF IInv
<1>2. /\ req[r].pc = "idle" /\ here[i] = 0 /\ TakeLease(i) /\ stored' = <<>> /\ acked' = {}
      /\ UNCHANGED <<process, queue, sweepers>>
      /\ \A q \in Requests \ {r} : req[q].at # i
      /\ work[i] = NoWork /\ pend[i] = <<>> /\ sweep[i] = "idle" /\ lost[i] = "no"
  BY DEF ReserveRoom, QuietHere, IInv
<1>3. req[r] = Idle BY <1>2 DEF IInv, Types, ReqTypes, Staged, Stage
<1>4. At(i) = {} BY <1>2, <1>3, IdleIsNowhere DEF At
<1>5. \A j \in Instances : SameHere(j) BY <1>2, AllSame
<1>6. Local(i) /\ epoch \in Nat BY DEF IInv, Types, RowTypes
<1>7. observed[i] \subseteq 1..Len(heap[i]) BY TypesUnfold DEF HeapTypes
<1>8. /\ life'[i] = life[i] /\ heap'[i] = heap[i] /\ here'[i] = 0 /\ observed'[i] = observed[i]
      /\ pend'[i] = <<>> /\ work'[i].state = <<>> /\ sweep'[i] = "idle" /\ lost'[i] = "no"
  BY <1>2, <1>5 DEF SameHere, NoWork
<1>9. UNCHANGED req \/ Begins(r, i, "reset", "create", 0) BY ReserveRoomTypes DEF IInv
<1>10. /\ \A q \in At(i)' : /\ q = r /\ req'[q].pc = "reset" /\ req'[q].task = "create"
                            /\ req'[q].room = 0
       /\ r \in At(i)' => At(i)' = {r}
  BY <1>4, <1>9 DEF At, Begins
<1>11. \A o \in observed[i] : o # 0 /\ ~(Len(heap[i][o]) > 1)
  BY <1>2, <1>6, <1>7 DEF Local, Cleaning
<1>12. Touchable(i)' = {} BY <1>8, <1>10, <1>11 DEF Touchable
<1>13. \A s \in Saves(i)' : s = <<>> BY <1>2, <1>8, <1>10 DEF Saves
<1>14. Cleaning(i)' BY <1>8, <1>10, <1>11 DEF Cleaning
<1>15. Creating(i)' BY <1>2, <1>8, <1>10 DEF Creating
<1>16. OneRoom(i)' BY <1>12 DEF OneRoom
<1>17. OneHistory(i)'
  <2>1. IsPrefix(<<>>, <<>>)
    <3>1. <<>> \in Seq(Nat) OBVIOUS
    <3> QED BY <3>1, PrefixRefl
  <2> QED BY <1>12, <1>13, <2>1 DEF OneHistory
<1>18. Vacant(i)' BY <1>8, <1>10 DEF Vacant
<1>19. Takeovers(i)' BY <1>10 DEF Takeovers
<1>20. Answers(i)' BY <1>10 DEF Answers
<1>21. Remembered(i)' BY <1>8 DEF Remembered
<1>22. Local(i)' BY <1>14, <1>15, <1>16, <1>17, <1>18, <1>19, <1>20, <1>21 DEF Local
<1>23. RowStep(i) BY <1>2 DEF RowStep
<1>24. CASE UNCHANGED req BY <1>1, <1>5, <1>22, <1>23, <1>24, QuietStep
<1>25. CASE Begins(r, i, "reset", "create", 0)
  <2>1. Timely(r)' BY <1>2, <1>6, <1>25 DEF Timely, Claimed, TakeLease, Begins
  <2>2. \A j \in Instances \ {i} : SameAt(j) BY <1>3, <1>5, <1>25, BeginElsewhere
  <2>3. \A q \in Requests : req'[q] = req[q] \/ Timely(q)' BY <1>25, <2>1 DEF Begins
  <2> QED BY <1>1, <1>22, <1>23, <2>2, <2>3, StepKeeps DEF Step
<1> QED BY <1>9, <1>24, <1>25

\* Whoever claims has the row in hand: it cannot have changed since it was loaded,
\* because nobody had the lease.
LEMMA ClaimRoomKeeps ==
  ASSUME IInv, NEW r \in Requests, ClaimRoom(r) PROVE Stays
<1>1. Types' BY ClaimRoomTypes DEF IInv
<1>2. req[r].pc = "claim" /\ UNCHANGED <<process, queue, sweepers, acked>>
  BY DEF ClaimRoom
<1>3. req[r].at \in Instances BY <1>2, AtStage DEF IInv, Types
<1>4. PICK i \in Instances : req[r].at = i BY <1>3
<1>5. \A j \in Instances : SameHere(j) BY <1>2, AllSame
<1> DEFINE s == req[r].snap
<1>6. r \in At(i) /\ req[r].task = "takeover" /\ req[r].room = 0 /\ s \in Seq(Nat) /\ Local(i) /\ Timely(r)
  BY <1>2, <1>4, Present DEF Stage, IInv
<1>7. RowTypes /\ HeapTypes /\ QueueTypes /\ ReqTypes BY TypesUnfold
<1>8. CASE leased /\ Drops(r) /\ UNCHANGED <<row, used>>
  <2>1. Ends(r)
    <3>1. State \subseteq State' BY ClaimRoomTypes DEF IInv
    <3> QED BY <1>7, <1>8, <3>1, Ending DEF ReqTypes
  <2>2. Local(i)' BY <1>2, <1>4, <1>5, <1>6, <1>8, <2>1, EndLocal DEF row
  <2>3. RowStep(i) BY <1>2, <1>8 DEF RowStep
  <2> QED BY <1>1, <1>4, <1>5, <2>1, <2>2, <2>3, EndStep
<1>9. CASE TakeLease(i) /\ UNCHANGED stored
  <2>1. Ends(r) \/ Moves(r, "resave", 0, s, req[r].due) BY <1>6, ClaimRoomTypes DEF IInv
  <2>2. /\ \A q \in Requests \ {r} : req[q].at # i
        /\ work[i] = NoWork /\ pend[i] = <<>> /\ sweep[i] = "idle" /\ lost[i] = "no"
    BY <1>4 DEF ClaimRoom, QuietHere, IInv
  <2>3. At(i) = {r} BY <1>6, <2>2 DEF At
  <2>4. /\ \A q \in At(i)' : /\ q = r /\ req'[q].pc = "resave" /\ req'[q].task = "takeover"
                             /\ req'[q].room = 0 /\ req'[q].snap = s
    BY <1>4, <1>6, <2>1, <2>2, IdleIsNowhere DEF At, Ends, Moves
  <2>5. /\ life'[i] = life[i] /\ heap'[i] = heap[i] /\ here'[i] = here[i] /\ observed'[i] = observed[i]
        /\ pend'[i] = <<>> /\ work'[i].state = <<>> /\ sweep'[i] = "idle" /\ lost'[i] = "no"
    BY <2>2, <1>5 DEF SameHere, NoWork
  <2>6. ~leased /\ owner' = i /\ leased' /\ epoch' = epoch + 1 /\ stored' = stored
    BY <1>9 DEF TakeLease
  <2>7. stored = s \/ (stored = <<>> /\ owner = Nobody) BY <1>2, <1>6, <2>6 DEF Local, Takeovers
  <2>8. i # Nobody BY InstancesAssumption
  <2>9. here[i] # 0 => /\ Leads(i) /\ owner = i /\ stored = s
                       /\ heap[i][here[i]] = stored
                       /\ IsPrefix(stored, stored) /\ IsPrefix(<<>>, stored)
    <3> SUFFICES ASSUME here[i] # 0
                 PROVE  /\ Leads(i) /\ owner = i /\ stored = s /\ heap[i][here[i]] = stored
                        /\ IsPrefix(stored, stored) /\ IsPrefix(<<>>, stored)
      OBVIOUS
    <3>1. owner = i BY <1>6, <2>6 DEF Local, Takeovers
    <3>2. Leads(i) BY <2>2, <3>1 DEF Leads
    <3>3. stored = s BY <2>7, <2>8, <3>1
    <3>4. \/ heap[i][here[i]] = stored
          \/ heap[i][here[i]] = <<>>
      BY <1>6, <2>2, <2>3, <3>2 DEF Local, Remembered, NoWork
    <3>5. IsPrefix(stored, heap[i][here[i]])
      <4>1. stored \in Saves(i) /\ here[i] \in Touchable(i) BY DEF Saves, Touchable
      <4> QED BY <1>6, <3>2, <4>1 DEF Local, OneHistory
    <3>6. stored \in Seq(Nat) BY <1>7, StateIsSeq DEF RowTypes
    <3> QED BY <3>1, <3>2, <3>3, <3>4, <3>5, <3>6, PrefixOfEmpty, PrefixRefl
  <2>10. \A o \in observed[i] : Len(heap[i][o]) > 1 => o = here[i]
    BY <1>6, <2>2 DEF Local, Cleaning
  <2>11. \A o \in Touchable(i)' : o = here[i] /\ o # 0
    <3>1. \A o \in observed[i] : o # 0 BY <1>7 DEF HeapTypes
    <3> QED BY <2>4, <2>5, <2>10, <3>1 DEF Touchable
  <2>12. \A t \in Saves(i)' : t \in {<<>>, s} BY <2>4, <2>5, <2>6, <2>7 DEF Saves
  <2> HIDE DEF s
  <2>13. Cleaning(i)'
    <3>1. \A o \in observed[i] : o # 0 BY <1>7 DEF HeapTypes
    <3> QED BY <1>6, <2>4, <2>5, <2>10, <3>1 DEF Local, Cleaning
  <2>14. Creating(i)' BY <2>4 DEF Creating
  <2>15. OneRoom(i)' BY <2>5, <2>11 DEF OneRoom
  <2>16. OneHistory(i)'
    <3>1. IsPrefix(<<>>, <<>>) /\ IsPrefix(<<>>, s) /\ IsPrefix(s, s)
      <4>1. <<>> \in Seq(Nat) /\ s \in Seq(Nat) BY <1>6 DEF s
      <4> QED BY <4>1, PrefixRefl
    <3>2. \A t, u \in Saves(i)' : IsPrefix(t, u) \/ IsPrefix(u, t) BY <2>12, <3>1
    <3>3. \A o \in Touchable(i)' : \A t \in Saves(i)' : IsPrefix(t, heap'[i][o])
      BY <2>5, <2>9, <2>11, <2>12
    <3> QED BY <3>2, <3>3 DEF OneHistory
  <2>17. Vacant(i)' BY <2>4, <2>5, <2>6, <2>7 DEF Vacant
  <2>18. Takeovers(i)' BY <2>4, <2>6 DEF Takeovers
  <2>19. Answers(i)' BY <2>4 DEF Answers
  <2>20. Remembered(i)' BY <2>5, <2>6, <2>9 DEF Remembered
  <2>21. Local(i)' BY <2>13, <2>14, <2>15, <2>16, <2>17, <2>18, <2>19, <2>20 DEF Local
  <2>22. RowStep(i) BY <1>2, <1>9 DEF RowStep
  <2>23. CASE Ends(r) BY <1>1, <1>4, <1>5, <2>21, <2>22, <2>23, EndStep
  <2>24. CASE Moves(r, "resave", 0, s, req[r].due)
    <3>1. epoch \in Nat /\ req[r].since \in Nat BY <1>7 DEF RowTypes, ReqTypes, ReqType
    <3>2. Timely(r)' BY <1>2, <1>4, <1>6, <2>6, <2>24, <3>1 DEF Timely, Claimed, Moves
    <3>3. \A j \in Instances \ {i} : SameAt(j) BY <1>4, <1>5, <2>24, MoveElsewhere
    <3>4. \A q \in Requests : req'[q] = req[q] \/ Timely(q)' BY <2>24, <3>2 DEF Moves
    <3> QED BY <1>1, <2>21, <2>22, <3>3, <3>4, StepKeeps DEF Step
  <2> QED BY <2>1, <2>23, <2>24 DEF s
<1> HIDE DEF s
<1> QED BY <1>4, <1>8, <1>9 DEF ClaimRoom

-----------------------------------------------------------------------------
(* Background work.                                                        *)

\* A step of instance i beside its requests, which makes no object and no state.
LEMMA QuietLocal ==
  ASSUME IInv, NEW i \in Instances, UNCHANGED <<owner, leased, epoch, req>>,
         heap'[i] = heap[i], observed'[i] \subseteq observed[i], here'[i] \in {0, here[i]},
         acked' \subseteq acked,
         \/ stored' = stored
         \/ Holds(i) /\ IsPrefix(stored, stored') /\ stored' \in {pend[i], work[i].state},
         pend'[i] \in {<<>>, pend[i], work[i].state},
         work'[i].state \in {<<>>, pend[i], work[i].state},
         lost'[i] = "no" => lost[i] = "no" \/ here'[i] = 0,
         lost[i] = "no" => lost'[i] = "no" \/ \A r \in At(i) : req[r].task # "create",
         \* what each part says of the step
         Cleaning(i)',
         Leads(i)' => \A o \in Touchable(i)' : o = here'[i] \/ ~Open(i)' \/ sweep'[i] = "removed",
         Leads(i)' /\ here'[i] = 0 /\ life'[i] = "up" =>
           (here[i] = 0 /\ life[i] = "up") \/ (At(i) = {} /\ pend'[i] = <<>> /\ work'[i].state = <<>>),
         Leads(i)' /\ here'[i] # 0 /\ heap[i][here[i]] \in {stored, pend[i], work[i].state} =>
           heap[i][here[i]] \in {stored', pend'[i], work'[i].state}
  PROVE  Local(i)'
<1>1. Local(i) BY DEF IInv
<1>2. RowTypes /\ HeapTypes /\ QueueTypes /\ ReqTypes BY TypesUnfold
<1>3. At(i)' = At(i) /\ \A q \in At(i) : q \in Requests /\ req'[q] = req[q] BY DEF At
<1>4. Leads(i)' => Leads(i) BY <1>3 DEF Leads
<1>5. \A o \in Touchable(i)' : o \in Touchable(i) /\ heap'[i][o] = heap[i][o]
  BY <1>3 DEF Touchable
<1>6. \A s \in Saves(i)' : s \in Saves(i) BY <1>3 DEF Saves
<1>7. \A q \in At(i) : Claimed(q)' <=> Claimed(q) BY <1>3 DEF Claimed
<1>8. stored \in Seq(Nat) /\ stored' \in Seq(Nat) /\ IsPrefix(stored, stored')
  <2>1. stored \in Seq(Nat) BY <1>2, StateIsSeq DEF RowTypes
  <2>2. pend[i] \in Seq(Nat) /\ work[i].state \in Seq(Nat)
    BY <1>2, StateIsSeq DEF QueueTypes
  <2> QED BY <2>1, <2>2, PrefixRefl
<1>9. Creating(i)' BY <1>1, <1>3 DEF Local, Creating
<1>10. OneRoom(i)' BY <1>1, <1>4, <1>5 DEF Local, OneRoom
<1>11. OneHistory(i)' BY <1>4, <1>5, <1>6, HistoryStays
<1>12. Vacant(i)'
  <2> SUFFICES ASSUME Leads(i)', here'[i] = 0, life'[i] = "up" PROVE Vacant(i)' BY DEF Vacant
  <2>1. CASE At(i) = {} /\ pend'[i] = <<>> /\ work'[i].state = <<>>
    BY <1>3, <2>1 DEF Vacant
  <2>2. CASE here[i] = 0 /\ life[i] = "up"
    <3>1. pend[i] = <<>> /\ work[i].state = <<>> BY <1>1, <1>4, <2>2 DEF Local, Vacant
    <3>2. stored' = stored BY <1>8, <3>1, PrefixOfEmpty
    <3> QED BY <1>1, <1>3, <1>4, <2>2, <3>1, <3>2 DEF Local, Vacant
  <2> QED BY <2>1, <2>2
<1>13. Takeovers(i)' BY <1>1, <1>3, <1>7 DEF Local, Takeovers, Holds
<1>14. Answers(i)'
  <2>1. ASSUME NEW q \in At(i), req[q].pc = "check", Holds(i) PROVE IsPrefix(req[q].snap, stored')
    <3>1. req[q].snap \in Seq(Nat) BY <1>2, <1>3, StateIsSeq DEF ReqTypes, ReqType
    <3>2. IsPrefix(req[q].snap, stored) BY <1>1, <2>1 DEF Local, Answers
    <3> QED BY <1>8, <3>1, <3>2, PrefixTrans
  <2> QED BY <1>1, <1>3, <2>1 DEF Local, Answers, Holds
<1>15. Remembered(i)' BY <1>1, <1>3, <1>4 DEF Local, Remembered
<1> QED BY <1>9, <1>10, <1>11, <1>12, <1>13, <1>14, <1>15 DEF Local

\* What the save worker and the queue hold is a prefix of the room of a leader.
LEMMA QueueBehind ==
  ASSUME IInv, NEW i \in Instances, Leads(i), here[i] # 0
  PROVE  /\ heap[i][here[i]] \in Seq(Nat)
         /\ \A s \in {stored, pend[i], work[i].state} :
              s \in Seq(Nat) /\ IsPrefix(s, heap[i][here[i]])
<1>1. RowTypes /\ HeapTypes /\ QueueTypes /\ ReqTypes BY TypesUnfold
<1>2. here[i] \in Touchable(i) /\ {stored, pend[i], work[i].state} \subseteq Saves(i)
  BY DEF Touchable, Saves
<1> QED BY <1>1, <1>2, SavesAreSeqs, ObjectsAreSeqs DEF IInv, Local, OneHistory

\* From the queue to the worker, nothing is lost.
LEMMA NextPendingRoomStateKeeps ==
  ASSUME IInv, NEW i \in Instances, NextPendingRoomState(i) PROVE Stays
<1>1. Types' BY NextPendingRoomStateTypes DEF IInv
<1>2. RowTypes /\ HeapTypes /\ QueueTypes /\ ReqTypes /\ Local(i) BY TypesUnfold DEF IInv
<1>3. /\ UNCHANGED <<row, process, sweepers, req, acked>> /\ pend[i] # <<>> /\ work[i].state = <<>>
      /\ pend'[i] = <<>> /\ work'[i].state = pend[i]
      /\ \A j \in Instances \ {i} : SameHere(j)
  BY <1>2 DEF NextPendingRoomState, NoWork, QueueTypes, SameHere, process, sweepers
<1>4. /\ UNCHANGED <<owner, leased, stored, epoch, req, acked>>
      /\ UNCHANGED <<life, heap, here, observed, sweep, lost>>
  BY <1>3 DEF row, process, sweepers
<1>5. Leads(i)' => Leads(i) BY <1>4 DEF Leads, At
<1>6. Cleaning(i)' BY <1>2, <1>4 DEF Local, Cleaning, At, Holds
<1>7. Leads(i)' => \A o \in Touchable(i)' : o = here'[i] \/ ~Open(i)' \/ sweep'[i] = "removed"
  <2>1. Touchable(i)' = Touchable(i) BY <1>3, <1>4 DEF Touchable, At
  <2> QED BY <1>2, <1>4, <1>5, <2>1 DEF Local, OneRoom, Open
<1>8. Leads(i) /\ here[i] # 0 => heap[i][here[i]] # work[i].state
  <2> SUFFICES ASSUME Leads(i), here[i] # 0, heap[i][here[i]] = <<>> PROVE FALSE BY <1>3
  <2>1. pend[i] \in Seq(Nat) /\ IsPrefix(pend[i], <<>>) BY QueueBehind
  <2> QED BY <1>3, <2>1, PrefixOfEmpty
<1>9. Local(i)' BY <1>3, <1>4, <1>5, <1>6, <1>7, <1>8, QuietLocal
<1>10. RowStep(i) BY <1>3 DEF RowStep
<1> QED BY <1>1, <1>3, <1>9, <1>10, QuietStep

\* The worker saves a prefix of the room, or queues it again.
LEMMA SaveInBackgroundKeeps ==
  ASSUME IInv, NEW i \in Instances, SaveInBackground(i) PROVE Stays
<1>1. Types' BY SaveInBackgroundTypes DEF IInv
<1>2. RowTypes /\ HeapTypes /\ QueueTypes /\ ReqTypes /\ Local(i) BY TypesUnfold DEF IInv
<1> DEFINE s == work[i].state
<1>3. /\ UNCHANGED <<owner, leased, epoch, process, sweepers, req, acked>> /\ s # <<>>
      /\ work' = [work EXCEPT ![i] = NoWork]
      /\ \/ SaveLands(i, s) /\ stored' = s /\ pend' = pend
         \/ ~SaveLands(i, s) /\ Holds(i) /\ stored' = stored /\ pend' = pend
         \/ pend' = [pend EXCEPT ![i] = Retried(i, s)]
            /\ stored' \in {stored} \cup IF SaveLands(i, s) THEN {s} ELSE {}
  BY DEF SaveInBackground
<1> HIDE DEF s
<1>4. /\ work'[i].state = <<>>
      /\ pend'[i] \in {pend[i], Retried(i, s)}
      /\ \A j \in Instances \ {i} : SameHere(j)
  <2>1. work \in [Instances -> [state : State, since : Nat]] /\ pend \in [Instances -> State]
    BY <1>2 DEF QueueTypes
  <2>2. \A j \in Instances \ {i} : pend'[j] = pend[j] /\ work'[j] = work[j] BY <1>3, <2>1
  <2> QED BY <1>3, <2>1, <2>2 DEF NoWork, SameHere, process, sweepers
<1>5. UNCHANGED <<life, heap, here, observed, sweep, lost>> BY <1>3 DEF process, sweepers
<1>6. s \in Saves(i) BY DEF Saves, s
<1>7. /\ SaveLands(i, s) => Holds(i) /\ IsPrefix(stored, s)
      /\ Holds(i) /\ ~SaveLands(i, s) => IsPrefix(s, stored)
  BY <1>6, SaveExtends DEF SaveLands
<1>8. stored' = stored \/ (Holds(i) /\ IsPrefix(stored, stored') /\ stored' = s)
  BY <1>3, <1>7
<1>9. Retried(i, s) \in {pend[i], s} BY DEF Retried, Newer
<1>16. req' = req BY <1>3
<1>10. Leads(i)' => Leads(i) BY <1>3, <1>5 DEF Leads, At
<1>11. Cleaning(i)' BY <1>2, <1>3, <1>5 DEF Local, Cleaning, At, Holds
<1>12. Leads(i)' => \A o \in Touchable(i)' : o = here'[i] \/ ~Open(i)' \/ sweep'[i] = "removed"
  <2>1. Touchable(i)' = Touchable(i) BY <1>5, <1>16 DEF Touchable, At
  <2> QED BY <1>2, <1>5, <1>10, <2>1 DEF Local, OneRoom, Open
<1>13. Leads(i)' /\ here'[i] # 0 /\ heap[i][here[i]] \in {stored, pend[i], s} =>
           heap[i][here[i]] \in {stored', pend'[i], work'[i].state}
  <2> DEFINE h == heap[i][here[i]]
  <2> SUFFICES ASSUME Leads(i), here[i] # 0, h \in {stored, pend[i], s}
               PROVE  h \in {stored', pend'[i]}
    BY <1>5, <1>10
  <2>1. /\ h \in Seq(Nat) /\ stored \in Seq(Nat) /\ pend[i] \in Seq(Nat) /\ s \in Seq(Nat)
        /\ IsPrefix(stored, h) /\ IsPrefix(pend[i], h) /\ IsPrefix(s, h)
    BY QueueBehind DEF s
  <2> HIDE DEF h
  <2>2. h = stored => h = stored' BY <1>8, <2>1, PrefixAntisym
  <2>3. CASE pend'[i] = pend[i] /\ Holds(i) /\ (stored' = s \/ (stored' = stored /\ IsPrefix(s, stored)))
    BY <2>1, <2>2, <2>3, PrefixAntisym
  <2>4. CASE pend'[i] = Retried(i, s)
    <3>1. Retried(i, s) = Newer(pend[i], s) BY DEF Retried
    <3>2. /\ Len(s) \in Nat /\ Len(pend[i]) \in Nat /\ Len(h) \in Nat
          /\ Len(s) <= Len(h) /\ Len(pend[i]) <= Len(h)
      BY <2>1, PrefixMeans
    <3>3. CASE h = pend[i]
      <4>1. ~(Len(pend[i]) < Len(s)) BY <3>2, <3>3
      <4> QED BY <2>4, <3>1, <3>3, <4>1 DEF Newer
    <3>4. CASE h = s
      <4>1. CASE Len(pend[i]) < Len(s) BY <2>4, <3>1, <3>4, <4>1 DEF Newer
      <4>2. CASE ~(Len(pend[i]) < Len(s))
        <5>1. IsPrefix(s, pend[i]) BY <2>1, <3>2, <3>4, <4>2, PrefixShorter
        <5>2. s = pend[i] BY <2>1, <3>4, <5>1, PrefixAntisym
        <5> QED BY <2>4, <3>1, <3>4, <4>2, <5>2 DEF Newer
      <4> QED BY <4>1, <4>2
    <3> QED BY <2>2, <3>3, <3>4
  <2>5. CASE /\ pend' = pend
           /\ \/ SaveLands(i, s) /\ stored' = s
              \/ ~SaveLands(i, s) /\ Holds(i) /\ stored' = stored
    BY <1>7, <2>3, <2>5
  <2>6. CASE pend' = [pend EXCEPT ![i] = Retried(i, s)]
    <3>1. pend \in [Instances -> State] BY <1>2 DEF QueueTypes
    <3>2. pend'[i] = Retried(i, s) BY <2>6, <3>1
    <3> QED BY <2>4, <3>2
  <2> QED BY <1>3, <2>5, <2>6
<1>14. Local(i)' BY <1>3, <1>4, <1>5, <1>8, <1>9, <1>10, <1>11, <1>12, <1>13, QuietLocal DEF s
<1>15. RowStep(i) BY <1>3, <1>8 DEF RowStep, row
<1> QED BY <1>1, <1>3, <1>4, <1>14, <1>15, QuietStep

\* Only an instance without the lease is told that it has lost it.
LEMMA HeartbeatRoomKeeps ==
  ASSUME IInv, NEW i \in Instances, HeartbeatRoom(i) PROVE Stays
<1>1. Types' BY HeartbeatRoomTypes DEF IInv
<1>2. RowTypes /\ HeapTypes /\ QueueTypes /\ ReqTypes /\ Local(i) BY TypesUnfold DEF IInv
<1>3. /\ UNCHANGED <<row, process, queue, sweep, req, acked>>
      /\ ~Holds(i) /\ lost[i] = "no" /\ lost'[i] = "told"
      /\ \A r \in At(i) : req[r].room # 0
      /\ \A j \in Instances \ {i} : SameHere(j)
  BY <1>2 DEF HeartbeatRoom, QueueTypes, SameHere, process, queue, At, IInv
<1>4. /\ UNCHANGED <<owner, leased, stored, epoch, req, acked>>
      /\ UNCHANGED <<life, heap, here, observed, sweep, pend, work>>
  BY <1>3 DEF row, process, queue
<1>5. Leads(i)' => Leads(i) BY <1>3, <1>4 DEF Leads, At
<1>6. Cleaning(i)' BY <1>2, <1>3, <1>4 DEF Local, Cleaning, At, Holds
<1>7. Leads(i)' => \A o \in Touchable(i)' : o = here'[i] \/ ~Open(i)' \/ sweep'[i] = "removed"
  <2>1. Touchable(i)' = Touchable(i) BY <1>3, <1>4 DEF Touchable, At
  <2> QED BY <1>2, <1>4, <1>5, <2>1 DEF Local, OneRoom, Open
<1>8. \A r \in At(i) : req[r].task # "create"
  <2>1. \A r \in At(i) : Timely(r) /\ req[r].at = i /\ req[r].pc # "idle" BY Present DEF At, IInv
  <2> QED BY <1>3, <2>1 DEF Timely, Claimed, Holds
<1>9. Local(i)' BY <1>3, <1>4, <1>5, <1>6, <1>7, <1>8, QuietLocal
<1>10. RowStep(i) BY <1>3 DEF RowStep
<1> QED BY <1>1, <1>3, <1>9, <1>10, QuietStep

\* An instance that revokes leads no more, and its room may go.
LEMMA RevokeRoomKeeps ==
  ASSUME IInv, NEW i \in Instances, RevokeRoom(i) PROVE Stays
<1>1. Types' BY RevokeRoomTypes DEF IInv
<1>2. RowTypes /\ HeapTypes /\ QueueTypes /\ ReqTypes /\ Local(i) BY TypesUnfold DEF IInv
<1>3. /\ UNCHANGED <<row, life, heap, work, sweep, req, acked>> /\ lost[i] # "no"
      /\ \A j \in Instances \ {i} : SameHere(j)
      /\ \/ here'[i] = 0 /\ lost'[i] = "removed" /\ observed'[i] = observed[i] /\ pend'[i] = pend[i]
         \/ lost[i] = "removed" /\ lost'[i] = "cleared" /\ pend'[i] = <<>>
            /\ observed'[i] = observed[i] /\ here'[i] = here[i]
         \/ lost[i] = "cleared" /\ lost'[i] = "no" /\ pend'[i] = pend[i]
            /\ observed'[i] = observed[i] \cap {here[i]} /\ here'[i] = here[i]
  BY <1>2 DEF RevokeRoom, Silence, QueueTypes, HeapTypes, SameHere
<1>4. UNCHANGED <<owner, leased, stored, epoch, req, acked>> BY <1>3 DEF row
<1>5. ~Holds(i) /\ here'[i] = 0 /\ \A r \in At(i) : req[r].room # 0
  BY <1>2, <1>3 DEF Local, Cleaning
<1>6. ~Leads(i)' BY <1>4, <1>5 DEF Leads, At, Holds
<1>7. lost'[i] = "no" => observed'[i] = {}
  <2>1. observed[i] \subseteq 1..Len(heap[i]) BY <1>2 DEF HeapTypes
  <2>2. lost[i] = "cleared" => here[i] = 0 BY <1>2 DEF Local, Cleaning
  <2> QED BY <1>3, <2>1, <2>2
<1>8. Cleaning(i)' BY <1>2, <1>3, <1>4, <1>5, <1>7 DEF Local, Cleaning, At, Holds
<1>9. Local(i)' BY <1>3, <1>4, <1>5, <1>6, <1>8, QuietLocal
<1>10. RowStep(i) BY <1>3 DEF RowStep
<1> QED BY <1>1, <1>3, <1>9, <1>10, QuietStep

\* An idle room is saved, and nobody asks for it.
LEMMA EvictIdleRoomKeeps ==
  ASSUME IInv, NEW i \in Instances, EvictIdleRoom(i) PROVE Stays
<1>1. Types' BY EvictIdleRoomTypes DEF IInv
<1>2. RowTypes /\ HeapTypes /\ QueueTypes /\ ReqTypes /\ Local(i) BY TypesUnfold DEF IInv
<1>3. /\ UNCHANGED <<row, life, heap, observed, queue, lost, req>>
      /\ At(i) = {} /\ pend[i] = <<>> /\ work[i].state = <<>>
      /\ here'[i] = 0 /\ sweep'[i] = "removed"
      /\ acked' = IF owner = i THEN {} ELSE acked
      /\ \A j \in Instances \ {i} : SameHere(j)
  BY <1>2 DEF EvictIdleRoom, NoWork, QueueTypes, HeapTypes, SameHere, queue, At, IInv
<1>4. /\ UNCHANGED <<owner, leased, stored, epoch, req>>
      /\ UNCHANGED <<life, heap, observed, pend, work, lost>>
  BY <1>3 DEF row, queue
<1>5. At(i)' = {} BY <1>3, <1>4 DEF At
<1>6. Cleaning(i)' BY <1>2, <1>3, <1>4, <1>5 DEF Local, Cleaning, Holds
<1>7. Local(i)' BY <1>3, <1>4, <1>6, QuietLocal
<1>8. RowStep(i) BY <1>3 DEF RowStep
<1> QED BY <1>1, <1>3, <1>7, <1>8, QuietStep

LEMMA ShutdownEvictedKeeps ==
  ASSUME IInv, NEW i \in Instances, ShutdownEvicted(i) PROVE Stays
<1>1. Types' BY ShutdownEvictedTypes DEF IInv
<1>2. RowTypes /\ HeapTypes /\ QueueTypes /\ ReqTypes /\ Local(i) BY TypesUnfold DEF IInv
<1>3. /\ UNCHANGED <<row, life, heap, here, work, lost, req, acked>>
      /\ sweep[i] = "removed" /\ pend'[i] = <<>> /\ sweep'[i] = "shut"
      /\ observed'[i] = observed[i] \cap {here[i]}
      /\ \A j \in Instances \ {i} : SameHere(j)
  BY <1>2 DEF ShutdownEvicted, Silence, QueueTypes, HeapTypes, SameHere
<1>4. UNCHANGED <<owner, leased, stored, epoch, req, acked>> BY <1>3 DEF row
<1>5. here[i] = 0 /\ At(i) = {} /\ (owner = i => acked = {}) BY <1>2, <1>3 DEF Local, Cleaning
<1>6. observed'[i] = {}
  <2>1. observed[i] \subseteq 1..Len(heap[i]) BY <1>2 DEF HeapTypes
  <2> QED BY <1>3, <1>5, <2>1
<1>7. At(i)' = {} BY <1>4, <1>5 DEF At
<1>8. Touchable(i)' = {} BY <1>3, <1>5, <1>6, <1>7 DEF Touchable
<1>9. Cleaning(i)' BY <1>2, <1>3, <1>4, <1>5, <1>6, <1>7 DEF Local, Cleaning, Holds
<1>10. Local(i)' BY <1>3, <1>4, <1>5, <1>8, <1>9, QuietLocal
<1>11. RowStep(i) BY <1>3 DEF RowStep
<1> QED BY <1>1, <1>3, <1>10, <1>11, QuietStep

\* The row of an evicted room may go: what clients were told went with the room.
LEMMA DeleteRoomStateKeeps ==
  ASSUME IInv, NEW i \in Instances, DeleteRoomState(i) PROVE Stays
<1>1. Types' BY DeleteRoomStateTypes DEF IInv
<1>2. RowTypes /\ HeapTypes /\ QueueTypes /\ ReqTypes /\ Local(i) BY TypesUnfold DEF IInv
<1>3. /\ UNCHANGED <<epoch, process, queue, lost, req, acked>>
      /\ sweep[i] = "shut" /\ sweep'[i] = "idle"
      /\ \A j \in Instances \ {i} : SameHere(j)
  BY <1>2 DEF DeleteRoomState, QueueTypes, SameHere, process, queue
<1>4. UNCHANGED <<life, heap, here, observed, pend, work, lost>> BY <1>3 DEF process, queue
<1>5. here[i] = 0 /\ At(i) = {} /\ observed[i] = {} /\ (owner = i => acked = {})
  BY <1>2, <1>3 DEF Local, Cleaning
<1>6. At(i)' = {} BY <1>3, <1>5 DEF At
<1>7. Touchable(i)' = {} BY <1>4, <1>5, <1>6 DEF Touchable
<1>8. CASE UNCHANGED <<owner, leased, stored>>
  <2>1. Cleaning(i)' BY <1>2, <1>3, <1>4, <1>5, <1>6, <1>8 DEF Local, Cleaning, Holds
  <2>2. Local(i)' BY <1>3, <1>4, <1>5, <1>7, <1>8, <2>1, QuietLocal
  <2>3. RowStep(i) BY <1>3, <1>8 DEF RowStep, row
  <2> QED BY <1>1, <1>3, <2>2, <2>3, QuietStep
<1>9. CASE /\ owner = i /\ (leased => QuickSoFar({}))
           /\ owner' = Nobody /\ leased' = FALSE /\ stored' = <<>>
  <2>1. ~Leads(i)' /\ ~Holds(i)' BY <1>9, InstancesAssumption DEF Leads, Holds
  <2>2. Cleaning(i)' BY <1>2, <1>3, <1>4, <1>5, <1>6, <2>1, <1>9, InstancesAssumption DEF Local, Cleaning
  <2>3. Local(i)' BY <1>6, <2>1, <2>2
    DEF Local, Creating, OneRoom, OneHistory, Vacant, Takeovers, Answers, Remembered
  <2>4. leased => Punctual BY <1>3, <1>9 DEF QuickSoFar, Punctual, IInv
  <2>5. RowStep(i) BY <1>3, <1>5, <1>9, <2>4 DEF RowStep
  <2> QED BY <1>1, <1>3, <2>3, <2>5, QuietStep
<1> QED BY <1>8, <1>9 DEF DeleteRoomState, OwnsRow

-----------------------------------------------------------------------------
(* Leases and processes end.                                               *)

\* Whoever gives up a room held its lease, and what else is in flight began under it.
LEMMA GiveUpKeeps ==
  ASSUME IInv, NEW r \in Requests, GiveUp(r) PROVE Stays
<1>1. Types' /\ Ends(r) BY GiveUpTypes DEF IInv
<1>2. req[r].pc = "giveup" /\ UNCHANGED <<process, queue, sweepers, acked>> BY DEF GiveUp
<1>3. req[r].at \in Instances BY <1>2, AtStage DEF IInv, Types
<1>4. PICK i \in Instances : req[r].at = i BY <1>3
<1>5. \A j \in Instances : SameHere(j) BY <1>2, AllSame
<1>6. r \in At(i) /\ req[r].task \in {"create", "takeover"} /\ Local(i) /\ Timely(r) /\ sweep[i] = "idle"
  BY <1>2, <1>4, Present DEF Stage, IInv
<1>7. Holds(i) /\ (req[r].task = "create" => here[i] = 0)
  BY <1>2, <1>4, <1>6 DEF Timely, Claimed, Holds, Local, Creating
<1>8. CASE UNCHANGED row
  <2>1. Local(i)' BY <1>1, <1>2, <1>4, <1>5, <1>7, <1>8, EndLocal DEF row
  <2>2. RowStep(i) BY <1>2, <1>8 DEF RowStep
  <2> QED BY <1>1, <1>4, <1>5, <2>1, <2>2, EndStep
<1>9. CASE ReleaseRoom(i, {r})
  <2>1. leased /\ owner = i /\ leased' = FALSE /\ UNCHANGED <<owner, stored, epoch>> BY <1>7, <1>9 DEF ReleaseRoom, Holds
  <2>2. \A q \in Requests \ {r} : req[q].pc # "idle" => req[q].since = epoch
    BY <1>7, <1>9 DEF ReleaseRoom, QuickSoFar, IInv
  <2>3. Punctual BY <1>1, <2>2 DEF Punctual, Ends
  <2>4. RowStep(i) BY <1>2, <2>1, <2>3 DEF RowStep
  <2>5. /\ At(i)' = At(i) \ {r} /\ \A q \in At(i) \ {r} : q \in Requests /\ req'[q] = req[q]
    BY <1>1, IdleIsNowhere DEF At, Ends
  <2>6. \A q \in At(i) \ {r} : req[q].task \notin {"takeover", "create"}
    <3>1. \A q \in At(i) \ {r} : /\ Timely(q) /\ req[q].pc # "idle" /\ req[q].since = epoch
                                 /\ epoch \in Nat
      BY <2>2, <2>5, Present DEF IInv, At, Types, RowTypes
    <3> QED BY <2>1, <3>1 DEF Timely, Claimed
  <2>7. Leads(i) BY <2>1 DEF Leads
  <2>8. \A o \in Touchable(i)' : o \in Touchable(i) /\ heap'[i][o] = heap[i][o]
    BY <1>5, <2>5 DEF Touchable, SameHere
  <2>9. \A s \in Saves(i)' : s \in Saves(i) BY <1>5, <2>1, <2>5 DEF Saves, SameHere
  <2>10. Cleaning(i)'
    <3>1. lost[i] = "no" BY <1>6, <1>7 DEF Local, Cleaning
    <3> QED BY <1>2, <1>5, <1>6, <2>5, <3>1 DEF Local, Cleaning, SameHere
  <2>11. Creating(i)' BY <2>5, <2>6 DEF Creating
  <2>12. OneRoom(i)' BY <1>5, <1>6, <2>7, <2>8 DEF Local, OneRoom, SameHere, Open
  <2>13. OneHistory(i)' BY <2>7, <2>8, <2>9, HistoryStays
  <2>14. Vacant(i)' BY <1>5, <1>6, <2>1, <2>5, <2>7 DEF Local, Vacant, SameHere
  <2>15. Takeovers(i)' BY <2>5, <2>6 DEF Takeovers
  <2>16. Answers(i)' BY <1>5, <1>6, <2>1, <2>5 DEF Local, Answers, SameHere, Holds
  <2>17. Remembered(i)'
    <3>1. here[i] # 0 => \A q \in At(i) : req[q].task # "create" BY <1>7, <2>6
    <3> QED BY <1>5, <1>6, <2>1, <2>7, <3>1 DEF Local, Remembered, SameHere
  <2>18. Local(i)'
    BY <2>10, <2>11, <2>12, <2>13, <2>14, <2>15, <2>16, <2>17 DEF Local
  <2> QED BY <1>1, <1>4, <1>5, <2>4, <2>18, EndStep
<1> QED BY <1>4, <1>8, <1>9 DEF GiveUp

\* A lease that expires ends nothing but the ownership.
LEMMA LeaseExpiresKeeps ==
  ASSUME IInv, LeaseExpires PROVE Stays
<1>1. Types' BY LeaseExpiresTypes DEF IInv
<1>2. /\ leased /\ leased' = FALSE /\ UNCHANGED <<owner, stored, epoch, acked>>
      /\ UNCHANGED <<process, queue, sweepers, req>>
      /\ \A q \in Requests : req[q].pc # "idle" => req[q].since = epoch
  BY DEF LeaseExpires, QuickSoFar, IInv
<1>3. RowStep(Nobody) BY <1>2 DEF RowStep, Punctual
<1>4. \A j \in Instances : SameAt(j)
  BY <1>2, AllSame DEF SameAt, SameHere
<1>5. Kept' BY <1>1, <1>3, KeptByRow
<1>6. \A r \in Requests : Timely(r)' BY <1>2, <1>3, TimelyByRow
<1>7. \A j \in Instances : Local(j)'
  BY <1>1, <1>3, <1>4, InstancesAssumption, OthersStay
<1> QED BY <1>1, <1>3, <1>5, <1>6, <1>7 DEF IInv, Stays

\* Draining keeps the room, shutting down drops it, flushing saves what is queued.
LEMMA StartDrainingKeeps ==
  ASSUME IInv, NEW i \in Instances, StartDraining(i) PROVE Stays
<1>1. Types' BY StartDrainingTypes DEF IInv
<1>2. RowTypes /\ HeapTypes /\ QueueTypes /\ ReqTypes /\ Local(i) BY TypesUnfold DEF IInv
<1>3. /\ UNCHANGED <<row, heap, here, observed, queue, sweepers, req, acked>>
      /\ life[i] = "up" /\ life'[i] = "draining"
      /\ \A j \in Instances \ {i} : SameHere(j)
  BY <1>2 DEF StartDraining, HeapTypes, SameHere, queue, sweepers
<1>4. /\ UNCHANGED <<owner, leased, stored, epoch, req, acked>>
      /\ UNCHANGED <<heap, here, observed, pend, work, sweep, lost>>
  BY <1>3 DEF row, queue, sweepers
<1>5. Leads(i)' => Leads(i) BY <1>4 DEF Leads, At
<1>6. Cleaning(i)' BY <1>2, <1>4 DEF Local, Cleaning, At, Holds
<1>7. Leads(i)' => \A o \in Touchable(i)' : o = here'[i] \/ ~Open(i)' \/ sweep'[i] = "removed"
  <2>1. Touchable(i)' = Touchable(i) BY <1>4 DEF Touchable, At
  <2> QED BY <1>2, <1>3, <1>4, <1>5, <2>1 DEF Local, OneRoom, Open
<1>8. Local(i)' BY <1>3, <1>4, <1>5, <1>6, <1>7, QuietLocal
<1>9. RowStep(i) BY <1>3 DEF RowStep
<1> QED BY <1>1, <1>3, <1>8, <1>9, QuietStep

LEMMA ShutdownRoomsKeeps ==
  ASSUME IInv, NEW i \in Instances, ShutdownRooms(i) PROVE Stays
<1>1. Types' BY ShutdownRoomsTypes DEF IInv
<1>2. RowTypes /\ HeapTypes /\ QueueTypes /\ ReqTypes /\ Local(i) BY TypesUnfold DEF IInv
<1>3. /\ UNCHANGED <<row, heap, queue, sweepers, req, acked>>
      /\ life'[i] \in {"flushing", "emptying"} /\ here'[i] = 0 /\ observed'[i] = {}
      /\ \A j \in Instances \ {i} : SameHere(j)
  BY <1>2 DEF ShutdownRooms, HeapTypes, SameHere, queue, sweepers
<1>4. /\ UNCHANGED <<owner, leased, stored, epoch, req, acked>>
      /\ UNCHANGED <<heap, pend, work, sweep, lost>>
  BY <1>3 DEF row, queue, sweepers
<1>5. Cleaning(i)' BY <1>2, <1>3, <1>4 DEF Local, Cleaning, At, Holds
<1>6. Local(i)' BY <1>3, <1>4, <1>5, QuietLocal DEF Open
<1>7. RowStep(i) BY <1>3 DEF RowStep
<1> QED BY <1>1, <1>3, <1>6, <1>7, QuietStep

LEMMA FlushPendingKeeps ==
  ASSUME IInv, NEW i \in Instances, FlushPending(i) PROVE Stays
<1>1. Types' BY FlushPendingTypes DEF IInv
<1>2. RowTypes /\ HeapTypes /\ QueueTypes /\ ReqTypes /\ Local(i) BY TypesUnfold DEF IInv
<1> DEFINE s == pend[i]
<1>3. /\ UNCHANGED <<owner, leased, epoch, heap, here, observed, work, sweepers, req, acked>>
      /\ life[i] \in {"flushing", "emptying"}
      /\ life'[i] \in {"flushing", "emptying", "releasing", "closed"}
      /\ pend'[i] \in {pend[i], <<>>}
      /\ \A j \in Instances \ {i} : SameHere(j)
      /\ stored' = stored \/ (SaveLands(i, s) /\ stored' = s)
  <2>1. /\ life' \in {life, [life EXCEPT ![i] = IF @ = "flushing" THEN "releasing" ELSE "closed"]}
        /\ pend' \in {pend, [pend EXCEPT ![i] = <<>>]}
        /\ stored' = stored \/ (SaveLands(i, s) /\ stored' = s)
    BY DEF FlushPending
  <2>2. /\ UNCHANGED <<owner, leased, epoch, heap, here, observed, work, sweepers, req, acked>>
        /\ life[i] \in {"flushing", "emptying"}
    BY DEF FlushPending
  <2> HIDE DEF s
  <2>3. life'[i] \in {"flushing", "emptying", "releasing", "closed"} BY <1>2, <2>1, <2>2 DEF HeapTypes
  <2>4. pend'[i] \in {pend[i], <<>>} BY <1>2, <2>1 DEF QueueTypes
  <2>5. \A j \in Instances \ {i} : life'[j] = life[j] /\ pend'[j] = pend[j]
    BY <1>2, <2>1 DEF HeapTypes, QueueTypes
  <2>6. \A j \in Instances \ {i} : SameHere(j) BY <2>2, <2>5 DEF SameHere, sweepers
  <2> QED BY <2>1, <2>2, <2>3, <2>4, <2>6
<1>4. UNCHANGED <<heap, here, observed, work, sweep, lost>> BY <1>3 DEF sweepers
<1>5. s \in Saves(i) BY DEF Saves
<1>6. SaveLands(i, s) => Holds(i) /\ IsPrefix(stored, s)
  BY <1>5, SaveExtends DEF SaveLands
<1>7. stored' = stored \/ (Holds(i) /\ IsPrefix(stored, stored') /\ stored' = s)
  BY <1>3, <1>6
<1>8. here[i] = 0 BY <1>2, <1>3 DEF HeapTypes, Open
<1>9. Cleaning(i)' BY <1>2, <1>3, <1>4 DEF Local, Cleaning, At, Holds
<1>10. Local(i)' BY <1>3, <1>4, <1>7, <1>8, <1>9, QuietLocal DEF Open
<1>11. RowStep(i) BY <1>3, <1>7 DEF RowStep, row
<1> QED BY <1>1, <1>3, <1>10, <1>11, QuietStep

\* An instance that releases after its flush has no room any more.
LEMMA ReleaseAfterFlushKeeps ==
  ASSUME IInv, NEW i \in Instances, ReleaseAfterFlush(i) PROVE Stays
<1>1. Types' BY ReleaseAfterFlushTypes DEF IInv
<1>2. RowTypes /\ HeapTypes /\ QueueTypes /\ ReqTypes /\ Local(i) BY TypesUnfold DEF IInv
<1>3. /\ UNCHANGED <<heap, here, observed, work, sweepers, req, acked>>
      /\ life[i] = "releasing" /\ life'[i] = "closed" /\ pend'[i] = <<>>
      /\ \A j \in Instances \ {i} : SameHere(j)
      /\ ReleaseRoom(i, {}) \/ UNCHANGED row
  BY <1>2 DEF ReleaseAfterFlush, HeapTypes, QueueTypes, SameHere, sweepers
<1>4. UNCHANGED <<sweep, lost>> BY <1>3 DEF sweepers
<1>5. here[i] = 0 /\ observed[i] = {} BY <1>2, <1>3 DEF HeapTypes, Open
<1>6. CASE UNCHANGED row
  <2>1. UNCHANGED <<owner, leased, stored, epoch>> BY <1>6 DEF row
  <2>2. Cleaning(i)' BY <1>2, <1>3, <1>4, <2>1 DEF Local, Cleaning, At, Holds
  <2>3. Local(i)' BY <1>3, <1>4, <1>5, <2>1, <2>2, QuietLocal DEF Open
  <2>4. RowStep(i) BY <1>3, <1>6 DEF RowStep
  <2> QED BY <1>1, <1>3, <2>3, <2>4, QuietStep
<1>7. CASE ReleaseRoom(i, {}) /\ ~Holds(i)
  <2>1. UNCHANGED row BY <1>2, <1>7 DEF ReleaseRoom, Holds, row, RowTypes
  <2> QED BY <1>6, <2>1
<1>8. CASE ReleaseRoom(i, {}) /\ Holds(i)
  <2>1. leased /\ owner = i /\ leased' = FALSE /\ UNCHANGED <<owner, stored, epoch>>
    BY <1>8 DEF ReleaseRoom, Holds
  <2>2. \A q \in Requests : req[q].pc # "idle" => req[q].since = epoch
    BY <1>8 DEF ReleaseRoom, QuickSoFar, IInv
  <2>3. RowStep(i) BY <1>3, <2>1, <2>2 DEF RowStep, Punctual
  <2>4. /\ At(i)' = At(i) /\ \A q \in At(i) : q \in Requests /\ req'[q] = req[q]
    BY <1>3 DEF At
  <2>5. \A q \in At(i) : req[q].task \notin {"takeover", "create"}
    <3>1. \A q \in At(i) : /\ Timely(q) /\ req[q].pc # "idle" /\ req[q].since = epoch
                           /\ epoch \in Nat
      BY <2>2, <2>4, Present DEF IInv, At, Types, RowTypes
    <3> QED BY <2>1, <3>1 DEF Timely, Claimed
  <2>6. Leads(i) BY <2>1 DEF Leads
  <2>7. \A o \in Touchable(i)' : o \in Touchable(i) /\ heap'[i][o] = heap[i][o]
    BY <1>3, <2>4 DEF Touchable
  <2>8. \A s \in Saves(i)' : s \in Saves(i) BY <1>3, <2>1, <2>4 DEF Saves
  <2>9. Cleaning(i)'
    <3>1. lost[i] = "no" BY <1>2, <1>8 DEF Local, Cleaning
    <3> QED BY <1>2, <1>3, <1>4, <1>5, <2>1, <2>4, <3>1 DEF Local, Cleaning
  <2>10. Creating(i)' BY <2>4, <2>5 DEF Creating
  <2>11. OneRoom(i)' BY <1>2, <1>3, <2>6, <2>7 DEF Local, OneRoom, Open
  <2>12. OneHistory(i)' BY <2>6, <2>7, <2>8, HistoryStays
  <2>13. Vacant(i)' BY <1>3 DEF Vacant
  <2>14. Takeovers(i)' BY <2>4, <2>5 DEF Takeovers
  <2>15. Answers(i)' BY <1>2, <1>3, <2>1, <2>4 DEF Local, Answers, Holds
  <2>16. Remembered(i)' BY <1>3, <1>5 DEF Remembered
  <2>17. Local(i)'
    BY <2>9, <2>10, <2>11, <2>12, <2>13, <2>14, <2>15, <2>16 DEF Local
  <2> QED BY <1>1, <1>3, <2>3, <2>17, QuietStep
<1> QED BY <1>3, <1>6, <1>7, <1>8

\* A new process has nothing in memory; the row stays.
LEMMA NewProcessKeeps ==
  ASSUME IInv, NEW i \in Instances, Redeploy(i) \/ Crash(i) PROVE Stays
<1>1. Types' /\ Restarted(i) /\ UNCHANGED <<row, acked>> BY NewProcessTypes DEF IInv
<1>2. \A j \in Instances \ {i} : SameAt(j)
  BY <1>1, IdleIsNowhere DEF Restarted, SameAt
<1>3. At(i)' = {} BY <1>1, IdleIsNowhere DEF Restarted, At
<1>4. UNCHANGED <<owner, leased, stored, epoch>> BY <1>1 DEF row
<1>5. /\ here'[i] = 0 /\ observed'[i] = {} /\ pend'[i] = <<>> /\ work'[i].state = <<>>
      /\ sweep'[i] = "idle" /\ lost'[i] = "no"
  BY <1>1 DEF Restarted, NoWork
<1>6. Touchable(i)' = {} BY <1>3, <1>5 DEF Touchable
<1>7. \A s \in Saves(i)' : s \in {<<>>, stored} BY <1>3, <1>4, <1>5 DEF Saves
<1>8. IsPrefix(<<>>, <<>>) /\ IsPrefix(<<>>, stored) /\ IsPrefix(stored, stored)
  <2>1. stored \in Seq(Nat) /\ <<>> \in Seq(Nat) BY StateIsSeq DEF IInv, Types, RowTypes
  <2> QED BY <2>1, PrefixRefl
<1>9. OneHistory(i)' BY <1>6, <1>7, <1>8 DEF OneHistory
<1>10. Local(i)'
  BY <1>3, <1>5, <1>6, <1>9
  DEF Local, Cleaning, Creating, OneRoom, Vacant, Takeovers, Answers, Remembered
<1>11. RowStep(i) BY <1>1 DEF RowStep
<1>12. \A r \in Requests : req'[r] = req[r] \/ Timely(r)'
  BY <1>1, IdleIsNowhere DEF Restarted, Timely
<1> QED BY <1>1, <1>2, <1>10, <1>11, <1>12, StepKeeps DEF Step

\* At first there is nothing.
LEMMA InitTyped ==
  ASSUME Init PROVE Types
<1>1. used \in [Events -> Nat] /\ owner = Nobody /\ leased = FALSE /\ stored = <<>> /\ epoch = 0
  BY DEF Init
<1>2. RowTypes
  <2>1. <<>> \in Seq(1..used["update"]) OBVIOUS
  <2> QED BY <1>1, <2>1 DEF RowTypes, State
<1>3. <<>> \in State /\ Idle \in ReqType /\ NoWork \in [state : State, since : Nat] BY <1>2, NoState
<1>4. <<>> \in Seq(State) /\ Len(<<>>) = 0 OBVIOUS
<1>5. HeapTypes BY <1>4 DEF Init, HeapTypes
<1>6. QueueTypes BY <1>3 DEF Init, QueueTypes
<1>7. ReqTypes
  <2>1. \A r \in Requests : req[r] = Idle BY DEF Init
  <2>2. req \in [Requests -> ReqType] BY <1>3 DEF Init
  <2> QED BY <2>1, <2>2, IdleIsNowhere DEF ReqTypes, Staged
<1> QED BY <1>2, <1>5, <1>6, <1>7 DEF Types

LEMMA InitHolds ==
  ASSUME Init, Calm PROVE IInv
<1>1. Types BY InitTyped
<1>2. Kept BY DEF Init, Kept
<1>3. \A r \in Requests : req[r] = Idle BY DEF Init
<1>4. \A r \in Requests : Timely(r) BY <1>3 DEF Timely, Idle
<1>5. ASSUME NEW i \in Instances PROVE Local(i)
  <2>1. At(i) = {} BY <1>3, IdleIsNowhere DEF At
  <2>2. /\ here[i] = 0 /\ observed[i] = {} /\ pend[i] = <<>> /\ work[i].state = <<>>
        /\ sweep[i] = "idle" /\ lost[i] = "no" /\ owner # i
    BY InstancesAssumption DEF Init, NoWork
  <2>3. ~Leads(i) BY <2>2 DEF Leads
  <2> QED BY <2>1, <2>2, <2>3
    DEF Local, Cleaning, Creating, OneRoom, OneHistory, Vacant, Takeovers, Answers, Remembered
<1> QED BY <1>1, <1>2, <1>4, <1>5 DEF IInv

LEMMA StutterKeeps ==
  ASSUME IInv, UNCHANGED vars PROVE Stays
<1>1. /\ UNCHANGED <<row, process, queue, sweepers, req, acked, used>>
      /\ UNCHANGED <<owner, leased, stored, epoch, life, heap, here, observed, pend, work, sweep, lost>>
  BY DEF vars, row, process, queue, sweepers
<1>2. Types'
  <2>1. State' = State BY <1>1 DEF State
  <2>2. ReqType' = ReqType BY <2>1 DEF ReqType
  <2>3. RowTypes' BY <1>1, <2>1 DEF IInv, Types, RowTypes
  <2>4. HeapTypes' BY <1>1, <2>1 DEF IInv, Types, HeapTypes, Open
  <2>5. QueueTypes' BY <1>1, <2>1 DEF IInv, Types, QueueTypes
  <2>6. ReqTypes' BY <1>1, <2>2 DEF IInv, Types, ReqTypes, Staged
  <2> QED BY <2>3, <2>4, <2>5, <2>6 DEF Types
<1>3. RowStep(Nobody) BY <1>1 DEF RowStep
<1>4. \A j \in Instances : SameAt(j) BY <1>1, AllSame DEF SameAt, SameHere
<1>5. Kept' BY <1>2, <1>3, KeptByRow
<1>6. \A r \in Requests : Timely(r)' BY <1>1, <1>3, TimelyByRow
<1>7. \A j \in Instances : Local(j)' BY <1>2, <1>3, <1>4, InstancesAssumption, OthersStay
<1> QED BY <1>2, <1>3, <1>5, <1>6, <1>7 DEF IInv, Stays

-----------------------------------------------------------------------------
(* Theorems.                                                               *)

\* Types are kept by every step, whatever the speed of operations.
LEMMA NextTyped ==
  ASSUME Types, [Next]_vars PROVE Types'
<1>1. CASE Creation
  BY <1>1, ReserveRoomTypes, ResetRoomStateTypes, InsertRoomTypes, RemoveRoomTypes, GiveUpTypes DEF Creation
<1>2. CASE Lookup
  BY <1>2, GetRoomTypes, LoadRoomStateTypes, ClaimRoomTypes, InstallRoomTypes DEF Lookup
<1>3. CASE Use
  BY <1>3, ActOnRoomTypes, LookAtRoomTypes, PersistRoomTypes, SaveRoomStateTypes, CheckLeaseTypes DEF Use
<1>4. CASE Background
  BY <1>4, TimerTouchesTypes, NextPendingRoomStateTypes, SaveInBackgroundTypes, HeartbeatRoomTypes,
     RevokeRoomTypes, EvictIdleRoomTypes, ShutdownEvictedTypes, DeleteRoomStateTypes DEF Background
<1>5. CASE Endings
  BY <1>5, LeaseExpiresTypes, StartDrainingTypes, ShutdownRoomsTypes, FlushPendingTypes,
     ReleaseAfterFlushTypes, NewProcessTypes DEF Endings
<1>6. CASE UNCHANGED vars
  <2>1. UNCHANGED <<owner, leased, stored, epoch, life, heap, here, observed, pend, work, sweep, lost, req, used>>
    BY <1>6 DEF vars, row, process, queue, sweepers
  <2>2. State' = State BY <2>1 DEF State
  <2>3. ReqType' = ReqType BY <2>2 DEF ReqType
  <2>4. RowTypes' BY <2>1, <2>2 DEF Types, RowTypes
  <2>5. HeapTypes' BY <2>1, <2>2 DEF Types, HeapTypes, Open
  <2>6. QueueTypes' BY <2>1, <2>2 DEF Types, QueueTypes
  <2>7. ReqTypes' BY <2>1, <2>3 DEF Types, ReqTypes, Staged
  <2> QED BY <2>4, <2>5, <2>6, <2>7 DEF Types
<1> QED BY <1>1, <1>2, <1>3, <1>4, <1>5, <1>6 DEF Next

\* The invariant is kept by every step, if operations are quick.
LEMMA NextKeeps ==
  ASSUME IInv, [Next]_vars PROVE Stays
<1>1. CASE Creation
  BY <1>1, ReserveRoomKeeps, ResetRoomStateKeeps, InsertRoomKeeps, RemoveRoomKeeps, GiveUpKeeps DEF Creation
<1>2. CASE Lookup
  BY <1>2, GetRoomKeeps, LoadRoomStateKeeps, ClaimRoomKeeps, InstallRoomKeeps DEF Lookup
<1>3. CASE Use
  BY <1>3, ActOnRoomKeeps, LookAtRoomKeeps, PersistRoomKeeps, SaveRoomStateKeeps, CheckLeaseKeeps DEF Use
<1>4. CASE Background
  BY <1>4, TimerTouchesKeeps, NextPendingRoomStateKeeps, SaveInBackgroundKeeps, HeartbeatRoomKeeps,
     RevokeRoomKeeps, EvictIdleRoomKeeps, ShutdownEvictedKeeps, DeleteRoomStateKeeps DEF Background
<1>5. CASE Endings
  BY <1>5, LeaseExpiresKeeps, StartDrainingKeeps, ShutdownRoomsKeeps, FlushPendingKeeps,
     ReleaseAfterFlushKeeps, NewProcessKeeps DEF Endings
<1>6. CASE UNCHANGED vars BY <1>6, StutterKeeps
<1> QED BY <1>1, <1>2, <1>3, <1>4, <1>5, <1>6 DEF Next

LEMMA TypesSuffice ==
  ASSUME Types PROVE TypeOK
<1>1. RowTypes /\ HeapTypes /\ QueueTypes /\ ReqTypes BY DEF Types
<1>2. \A i \in Instances :
       /\ here[i] \in 0..Len(heap[i]) /\ observed[i] \subseteq 1..Len(heap[i])
       /\ pend[i] \in Seq(1..used["update"]) /\ work[i].state \in Seq(1..used["update"])
       /\ life[i] \in {"releasing", "closed"} => here[i] = 0 /\ observed[i] = {}
  BY <1>1 DEF HeapTypes, QueueTypes, State, Open
<1>3. ASSUME NEW r \in Requests, req[r].room # 0 PROVE req[r].room \in DOMAIN heap[req[r].at]
  <2>1. req[r].pc # "idle" /\ req[r].at \in Instances BY <1>1, <1>3 DEF ReqTypes, Staged, Stage, Idle
  <2>2. req[r].room \in 0..Len(heap[req[r].at]) BY <1>1, <2>1 DEF ReqTypes
  <2>3. heap[req[r].at] \in Seq(State) BY <1>1, <2>1 DEF HeapTypes
  <2> QED BY <1>3, <2>2, <2>3
<1> QED BY <1>1, <1>2, <1>3 DEF TypeOK, RowTypes, State

\* The type invariant: every instance, however it is interleaved with others, drained, crashed or
\* restarted, refers to room objects of its own, queues states made of updates that happened, and
\* has no room once it is shut down.
THEOREM StoreIsTyped == Spec => []TypeOK
<1>1. Init => Types BY InitTyped
<1>2. Types /\ [Next]_vars => Types' BY NextTyped
<1>3. Types => TypeOK BY TypesSuffice
<1> QED BY <1>1, <1>2, <1>3, PTL DEF Spec

\* The inductive invariant.
LEMMA InvariantHolds == ASSUME Calm PROVE Spec => []IInv
<1>1. Init => IInv BY InitHolds
<1>2. IInv /\ [Next]_vars => IInv' BY NextKeeps DEF Stays
<1> QED BY <1>1, <1>2, PTL DEF Spec

\* No update whose client was told that it is saved is ever lost, whatever instance fails,
\* drains, expires or takes the room over (PersistRoom, manager.go).
THEOREM AckedStaysSaved == ASSUME Calm PROVE Spec => []AckedIsSaved
<1>1. IInv => AckedIsSaved BY DEF IInv, Kept, AckedIsSaved
<1> QED BY <1>1, InvariantHolds, PTL

\* The instance that has the room and its lease plays on with every update that is
\* saved (GetRoom, installRestoredRoom, SaveRoomState).
THEOREM HolderIsAhead == ASSUME Calm PROVE Spec => []HolderKnowsAll
<1>1. IInv => HolderKnowsAll
  <2> SUFFICES ASSUME IInv, NEW i \in Instances, Holds(i), here[i] # 0
               PROVE  IsPrefix(stored, heap[i][here[i]])
    BY DEF HolderKnowsAll
  <2>1. Leads(i) BY DEF Leads, Holds
  <2> QED BY <2>1, QueueBehind
<1> QED BY <1>1, InvariantHolds, PTL

\* A change nobody waits for is queued, being saved, or in the hands of a request that
\* will save it, as long as the lease is held (enqueueRoomState, nextPendingRoomState).
THEOREM ChangesAreOnTheirWay == ASSUME Calm PROVE Spec => []NothingForgotten
<1>1. IInv => NothingForgotten
  <2> SUFFICES ASSUME IInv, NEW i \in Instances, Holds(i), here[i] # 0, stored # heap[i][here[i]],
                      heap[i][here[i]] \notin {pend[i], work[i].state}
               PROVE  \E r \in Requests : /\ req[r].at = i
                                          /\ req[r].pc \in {"touched", "save", "check", "remove"}
    BY DEF NothingForgotten
  <2>1. Leads(i) BY DEF Leads, Holds
  <2>2. PICK r \in At(i) : req[r].task = "create" BY <2>1 DEF IInv, Local, Remembered
  <2>3. r \in Requests /\ req[r].at = i BY DEF At
  <2>4. Stage(req[r].pc, req[r].task, req[r].room, req[r].snap) BY <2>3, Present
  <2>5. req[r].pc \notin {"reset", "insert", "giveup"} BY <2>2 DEF IInv, Local, Creating
  <2> QED BY <2>2, <2>3, <2>4, <2>5 DEF Stage
<1> QED BY <1>1, InvariantHolds, PTL

\* The row behaves as the durable room promises: refinement of DurableRoom.
THEOREM RoomsAreKept == ASSUME Calm PROVE Spec => KeepsRooms
<1>1. Init => Record!Init BY DEF Init, Record!Init
<1>2. IInv /\ [Next]_vars => [Record!Next]_(Record!vars)
  <2> SUFFICES ASSUME IInv, [Next]_vars PROVE Record!Next \/ UNCHANGED Record!vars
    OBVIOUS
  <2>1. Stays BY NextKeeps
  <2>2. PICK k : RowStep(k) BY <2>1 DEF Stays
  <2>3. stored' \in Seq(Nat)
    <3>1. RowTypes' BY <2>1 DEF Stays, IInv, Types
    <3>2. State' \subseteq Seq(Nat) BY <3>1, NextStateIsSeq DEF RowTypes
    <3> QED BY <3>1, <3>2 DEF RowTypes
  <2>4. CASE UNCHANGED row /\ acked' = acked BY <2>4 DEF Record!vars, row
  <2>5. CASE UNCHANGED row /\ acked' = {} BY <2>5 DEF Record!Next, Record!Abandon, row
  <2>6. CASE /\ Holds(k) /\ UNCHANGED <<owner, leased, epoch>> /\ IsPrefix(stored, stored')
             /\ acked \subseteq acked' /\ acked' \subseteq acked \cup ToSet(stored')
    <3>1. ToSet(stored') = Record!Range(stored') BY DEF ToSet, Record!Range
    <3>2. Record!IsPrefix(stored, stored') BY <2>6 DEF IsPrefix, Record!IsPrefix
    <3> QED BY <2>3, <2>6, <3>1, <3>2 DEF Record!Next, Record!Save, Holds
  <2>7. CASE TakeLease(k) /\ UNCHANGED <<stored, acked>>
    BY <2>7 DEF Record!Next, Record!Take, TakeLease
  <2>8. CASE TakeLease(k) /\ stored' = <<>> /\ acked' = {}
    BY <2>8 DEF Record!Next, Record!Reserve, TakeLease
  <2>9. CASE leased /\ leased' = FALSE /\ UNCHANGED <<stored, acked>>
    BY <2>9 DEF Record!Next, Record!Lapse
  <2>10. CASE acked = {} /\ stored' = <<>> /\ leased' \in {leased, FALSE} /\ UNCHANGED acked
    BY <2>10 DEF Record!Next, Record!Delete
  <2> QED BY <2>2, <2>4, <2>5, <2>6, <2>7, <2>8, <2>9, <2>10 DEF RowStep
<1> QED BY <1>1, <1>2, InvariantHolds, PTL DEF Spec, KeepsRooms, Record!Spec
=============================================================================
