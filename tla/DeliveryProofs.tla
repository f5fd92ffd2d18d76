--------------------------- MODULE DeliveryProofs ---------------------------
(***************************************************************************)
(* A connection that is open has missed nothing, for any number of         *)
(* connections and callbacks and any length of the queue.                  *)
(***************************************************************************)
EXTENDS Delivery, SequenceTheorems, TLAPS

Steps == {"idle", "broadcast", "send", "read", "leave", "close", "shut"}
TaskInv ==
  /\ version \in Nat /\ clients \in SUBSET Conns
  /\ task \in [Tasks -> [pc : Steps, snap : Nat, to : SUBSET Conns, then : Steps]]

FramesInv ==
  /\ queue \in [Conns -> Seq(Nat)] /\ writing \in [Conns -> Seq(Nat)]
  /\ wire \in [Conns -> Seq(Nat)] /\ offered \in [Conns -> Seq(Nat)]
  /\ closed \in [Conns -> BOOLEAN]

Sent(c) == wire[c] \o writing[c] \o queue[c] = offered[c]
Complete == \A c \in Conns : ~closed[c] => Sent(c)

DInv == TaskInv /\ FramesInv /\ Complete

-----------------------------------------------------------------------------
(* Frames move from the queue to the wire.                                 *)

LEMMA TakenOver ==
  ASSUME NEW w \in Seq(Nat), NEW q \in Seq(Nat), q # <<>>
  PROVE  w \o <<Head(q)>> \o Tail(q) = w \o <<>> \o q
<1>1. Head(q) \in Nat /\ Tail(q) \in Seq(Nat) /\ q = <<Head(q)>> \o Tail(q)
  BY HeadTailProperties
<1>2. w \o <<Head(q)>> \o Tail(q) = w \o (<<Head(q)>> \o Tail(q))
  BY <1>1, ConcatAssociative
<1>3. w \o <<>> = w
  BY ConcatEmptySeq
<1> QED BY <1>1, <1>2, <1>3

LEMMA WrittenOut ==
  ASSUME NEW w \in Seq(Nat), NEW m \in Seq(Nat), NEW q \in Seq(Nat)
  PROVE  (w \o m) \o <<>> \o q = w \o m \o q
<1>1. w \o m \in Seq(Nat)
  BY ConcatProperties
<1> QED BY <1>1, ConcatEmptySeq

LEMMA QueuedAtTheEnd ==
  ASSUME NEW w \in Seq(Nat), NEW m \in Seq(Nat), NEW q \in Seq(Nat), NEW f \in Nat
  PROVE  w \o m \o Append(q, f) = Append(w \o m \o q, f)
<1>1. w \o m \in Seq(Nat) /\ (w \o m) \o q \in Seq(Nat) /\ <<f>> \in Seq(Nat)
  BY ConcatProperties
<1>2. Append(q, f) = q \o <<f>> /\ Append((w \o m) \o q, f) = ((w \o m) \o q) \o <<f>>
  BY <1>1, AppendIsConcat
<1> QED BY <1>1, <1>2, ConcatAssociative, SMTT(30)

-----------------------------------------------------------------------------
(* Steps that leave the frames alone.                                      *)

LEMMA TaskStep ==
  ASSUME DInv, UNCHANGED <<queue, writing, wire, closed, offered>>, TaskInv'
  PROVE  DInv'
BY DEF DInv, FramesInv, Complete, Sent

LEMMA SetsTyped ==
  ASSUME TaskInv, version' \in Nat, clients' \in SUBSET Conns, NEW t \in Tasks,
         NEW pc \in Steps, NEW snap \in Nat, NEW to \in SUBSET Conns, NEW then \in Steps,
         task' = [task EXCEPT ![t] = [pc |-> pc, snap |-> snap, to |-> to, then |-> then]]
  PROVE  TaskInv'
BY DEF TaskInv

LEMMA TaskFields ==
  ASSUME TaskInv, NEW t \in Tasks
  PROVE  /\ version \in Nat /\ clients \in SUBSET Conns
         /\ task[t].pc \in Steps /\ task[t].snap \in Nat
         /\ task[t].to \in SUBSET Conns /\ task[t].then \in Steps
BY DEF TaskInv

LEMMA DoneTyped ==
  ASSUME TaskInv, UNCHANGED <<version, clients>>, NEW t \in Tasks, NEW c \in Conns, Done(t, c)
  PROVE  TaskInv'
<1>1. \A rest \in SUBSET Conns, pc \in Steps :
        [[task[t] EXCEPT !.to = rest] EXCEPT !.pc = pc]
          \in [pc : Steps, snap : Nat, to : SUBSET Conns, then : Steps]
  BY DEF TaskInv
<1>2. task[t].to \ {c} \in SUBSET Conns /\ task[t].pc \in Steps /\ task[t].then \in Steps
  BY TaskFields
<1>3. task' \in [Tasks -> [pc : Steps, snap : Nat, to : SUBSET Conns, then : Steps]]
  BY <1>1, <1>2 DEF Done, TaskInv
<1> QED BY <1>3 DEF TaskInv

LEMMA AttachInv == ASSUME DInv, NEW c \in Conns, Attach(c) PROVE DInv'
<1>1. TaskInv'
  BY SetsTyped DEF Attach, Sets, DInv, TaskInv, Tasks, Steps
<1> QED BY <1>1, TaskStep DEF Attach

LEMMA ChangeInv == ASSUME DInv, NEW t \in Tasks, Change(t) PROVE DInv'
<1>1. version' \in Nat /\ clients' \in SUBSET Conns /\ task[t].pc \in Steps
  BY TaskFields DEF Change, DInv
<1>2. task' = [task EXCEPT ![t] = [pc |-> "broadcast", snap |-> version', to |-> {},
                                  then |-> task[t].pc]]
  BY DEF Change, AfterChange
<1>3. TaskInv'
  BY <1>1, <1>2, SetsTyped DEF DInv, Steps
<1> QED BY <1>3, TaskStep DEF Change, connVars

LEMMA LeaveRoomInv == ASSUME DInv, NEW c \in Conns, LeaveRoom(c) PROVE DInv'
<1>1. version' \in Nat /\ clients' \in SUBSET Conns /\ c \in Tasks
  BY DEF LeaveRoom, DInv, TaskInv, Tasks
<1>2. TaskInv'
  BY <1>1, SetsTyped DEF LeaveRoom, DInv, Steps
<1> QED BY <1>2, TaskStep DEF LeaveRoom, connVars

LEMMA RefuseInv ==
  ASSUME DInv, NEW c \in Conns, NEW then \in {"read", "leave"}, Refuse(c, then)
  PROVE  DInv'
<1>1. version' \in Nat /\ clients' \in SUBSET Conns /\ c \in Tasks /\ version \in Nat
  BY DEF Refuse, DInv, TaskInv, Tasks
<1>2. TaskInv'
  BY <1>1, SetsTyped, ZenonT(40) DEF Refuse, Sets, DInv, Steps
<1> QED BY <1>2, TaskStep DEF Refuse, connVars

LEMMA BroadcastInv == ASSUME DInv, NEW t \in Tasks, Broadcast(t) PROVE DInv'
<1>1. version' \in Nat /\ clients' \in SUBSET Conns /\ clients \in SUBSET Conns /\ version \in Nat
      /\ task[t].then \in Steps
  BY TaskFields DEF Broadcast, DInv
<1>2. task' = [task EXCEPT ![t] = [pc |-> "send", snap |-> version, to |-> clients,
                                  then |-> task[t].then]]
  BY DEF Broadcast, Sets
<1>3. TaskInv'
  BY <1>1, <1>2, SetsTyped DEF DInv, Steps
<1> QED BY <1>3, TaskStep DEF Broadcast, connVars

LEMMA NotifyInv == ASSUME DInv, NEW t \in Callbacks, NotifyDraining(t) PROVE DInv'
<1>1. version' \in Nat /\ clients' \in SUBSET Conns /\ clients \in SUBSET Conns /\ t \in Tasks
  BY DEF NotifyDraining, DInv, TaskInv, Tasks
<1>2. task' = [task EXCEPT ![t] = [pc |-> "send", snap |-> 0, to |-> clients, then |-> "idle"]]
  BY DEF NotifyDraining
<1>3. TaskInv'
  BY <1>1, <1>2, SetsTyped DEF DInv, Steps
<1> QED BY <1>3, TaskStep DEF NotifyDraining, connVars

LEMMA DetachInv == ASSUME DInv, NEW c \in Conns, Detach(c) PROVE DInv'
<1>1. version' \in Nat /\ version \in Nat /\ clients' \in SUBSET Conns /\ c \in Tasks
  BY DEF Detach, DInv, TaskInv, Tasks
<1>2. TaskInv'
  BY <1>1, SetsTyped DEF Detach, Sets, DInv, Steps
<1> QED BY <1>2, TaskStep DEF Detach, connVars

LEMMA ShutdownInv == ASSUME DInv, NEW t \in Callbacks, Shutdown(t) PROVE DInv'
<1>1. version' \in Nat /\ version \in Nat /\ clients' \in SUBSET Conns /\ clients \in SUBSET Conns
      /\ t \in Tasks
  BY DEF Shutdown, DInv, TaskInv, Tasks
<1>2. TaskInv'
  BY <1>1, SetsTyped DEF Shutdown, Sets, DInv, Steps
<1> QED BY <1>2, TaskStep DEF Shutdown, connVars

LEMMA SendNobodyInv == ASSUME DInv, NEW t \in Tasks, SendNobody(t) PROVE DInv'
<1>1. task[t].then \in Steps
  BY TaskFields DEF DInv
<1>2. TaskInv'
  BY <1>1 DEF SendNobody, DInv, TaskInv
<1> QED BY <1>2, TaskStep DEF SendNobody, connVars

-----------------------------------------------------------------------------
(* Steps of the queue and the pump.                                        *)

\* A connection that is closed need not be complete.
LEMMA CloseConnInv ==
  ASSUME DInv, NEW t \in Tasks, NEW c \in Conns, CloseConn(t, c)
  PROVE  DInv'
<1>1. CASE task[t].pc = "close" /\ t = c /\ task' = [task EXCEPT ![t] = Idle0]
  <2>1. TaskInv'
    BY <1>1, SetsTyped DEF CloseConn, Idle0, DInv, TaskInv, Steps
  <2> QED BY <2>1 DEF CloseConn, Close, DInv, FramesInv, Complete, Sent
<1>2. CASE task[t].pc = "shut" /\ c \in task[t].to /\ Done(t, c)
  <2>1. TaskInv'
    BY <1>2, DoneTyped DEF CloseConn, DInv
  <2> QED BY <2>1 DEF CloseConn, Close, DInv, FramesInv, Complete, Sent
<1> QED BY <1>1, <1>2 DEF CloseConn

LEMMA EnqueueInv ==
  ASSUME DInv, NEW t \in Tasks, NEW c \in Conns, Enqueue(t, c)
  PROVE  DInv'
<1>1. TaskInv'
  BY DoneTyped DEF Enqueue, DInv
<1>2. task[t].snap \in Nat
  BY TaskFields DEF DInv
<1> DEFINE f == task[t].snap
<1>3. CASE closed[c]
  BY <1>1, <1>3, TaskStep DEF Enqueue
<1>4. CASE ~closed[c] /\ Len(queue[c]) < sendQueue
  <2>1. /\ queue' = [queue EXCEPT ![c] = Append(queue[c], f)]
        /\ offered' = [offered EXCEPT ![c] = Append(offered[c], f)]
        /\ UNCHANGED <<closed, writing, wire>>
    BY <1>4 DEF Enqueue
  <2>2. FramesInv'
    BY <1>2, <2>1 DEF DInv, FramesInv
  <2>3. Sent(c)'
    <3>1. Sent(c) /\ wire[c] \in Seq(Nat) /\ writing[c] \in Seq(Nat) /\ queue[c] \in Seq(Nat)
      BY <1>4 DEF DInv, Complete, FramesInv
    <3>2. wire[c] \o writing[c] \o Append(queue[c], f) = Append(offered[c], f)
      <4>1. wire[c] \o writing[c] \o queue[c] = offered[c]
        BY <3>1 DEF Sent
      <4>2. wire[c] \o writing[c] \o Append(queue[c], f)
              = Append(wire[c] \o writing[c] \o queue[c], f)
        BY <1>2, <3>1, QueuedAtTheEnd
      <4> QED BY <4>1, <4>2
    <3>3. queue'[c] = Append(queue[c], f) /\ offered'[c] = Append(offered[c], f)
      BY <2>1 DEF DInv, FramesInv
    <3> QED BY <2>1, <3>2, <3>3 DEF Sent
  <2>4. \A d \in Conns \ {c} : Sent(d)' = Sent(d)
    BY <2>1 DEF Sent, DInv, FramesInv
  <2>5. Complete'
    BY <2>1, <2>3, <2>4 DEF DInv, Complete
  <2> QED BY <1>1, <2>2, <2>5 DEF DInv
<1>5. CASE ~closed[c] /\ ~(Len(queue[c]) < sendQueue)
  <2>1. /\ closed' = [closed EXCEPT ![c] = TRUE]
        /\ offered' = [offered EXCEPT ![c] = Append(offered[c], f)]
        /\ UNCHANGED <<queue, writing, wire>>
    BY <1>5 DEF Enqueue, TooSlow, Close
  <2>2. FramesInv'
    BY <1>2, <2>1 DEF DInv, FramesInv
  <2>3. Complete'
    BY <2>1 DEF DInv, FramesInv, Complete, Sent
  <2> QED BY <1>1, <2>2, <2>3 DEF DInv
<1> QED BY <1>3, <1>4, <1>5

LEMMA TakeInv == ASSUME DInv, NEW c \in Conns, Take(c) PROVE DInv'
<1>1. TaskInv'
  BY DEF Take, DInv, TaskInv
<1>2. /\ wire[c] \in Seq(Nat) /\ queue[c] \in Seq(Nat) /\ queue[c] # <<>> /\ writing[c] = <<>>
      /\ Head(queue[c]) \in Nat /\ Tail(queue[c]) \in Seq(Nat)
  BY HeadTailProperties DEF Take, DInv, FramesInv
<1>3. /\ writing' = [writing EXCEPT ![c] = <<Head(queue[c])>>]
      /\ queue' = [queue EXCEPT ![c] = Tail(queue[c])]
      /\ UNCHANGED <<wire, closed, offered>>
  BY DEF Take
<1>4. FramesInv'
  BY <1>2, <1>3 DEF DInv, FramesInv
<1>5. Sent(c) => Sent(c)'
  <2>1. wire[c] \o <<Head(queue[c])>> \o Tail(queue[c]) = wire[c] \o <<>> \o queue[c]
    BY <1>2, TakenOver
  <2> QED BY <1>2, <1>3, <2>1 DEF Sent, DInv, FramesInv
<1>6. \A d \in Conns \ {c} : Sent(d) => Sent(d)'
  BY <1>3 DEF Sent, DInv, FramesInv
<1> QED BY <1>1, <1>3, <1>4, <1>5, <1>6 DEF DInv, Complete

LEMMA WriteInv == ASSUME DInv, NEW c \in Conns, Write(c) PROVE DInv'
<1>1. TaskInv'
  BY DEF Write, DInv, TaskInv
<1>2. wire[c] \in Seq(Nat) /\ queue[c] \in Seq(Nat) /\ writing[c] \in Seq(Nat)
  BY DEF DInv, FramesInv
<1>3. /\ wire' = [wire EXCEPT ![c] = wire[c] \o writing[c]]
      /\ writing' = [writing EXCEPT ![c] = <<>>]
      /\ UNCHANGED <<queue, closed, offered>>
  BY DEF Write
<1>4. FramesInv'
  BY <1>2, <1>3, ConcatProperties DEF DInv, FramesInv
<1>5. Sent(c) => Sent(c)'
  <2>1. (wire[c] \o writing[c]) \o <<>> \o queue[c] = wire[c] \o writing[c] \o queue[c]
    BY <1>2, WrittenOut
  <2> QED BY <1>3, <2>1 DEF Sent, DInv, FramesInv
<1>6. \A d \in Conns \ {c} : Sent(d) => Sent(d)'
  BY <1>3 DEF Sent, DInv, FramesInv
<1> QED BY <1>1, <1>3, <1>4, <1>5, <1>6 DEF DInv, Complete

LEMMA PumpInv == ASSUME DInv, NEW c \in Conns, WriteFails(c) \/ PumpEnds(c) PROVE DInv'
<1>1. CASE WriteFails(c)
  BY <1>1 DEF WriteFails, Close, DInv, TaskInv, FramesInv, Complete, Sent
<1>2. CASE PumpEnds(c)
  BY <1>2 DEF PumpEnds, DInv, TaskInv, FramesInv, Complete, Sent
<1> QED BY <1>1, <1>2

-----------------------------------------------------------------------------

LEMMA RunsInv == ASSUME DInv, NEW t \in Tasks, Runs(t) PROVE DInv'
<1>1. CASE Broadcast(t) \/ SendNobody(t)
  BY <1>1, BroadcastInv, SendNobodyInv
<1>2. CASE \E c \in Conns : Enqueue(t, c) \/ CloseConn(t, c)
  BY <1>2, EnqueueInv, CloseConnInv
<1>3. CASE t \in Conns /\ (ReadEnds(t) \/ Leaves(t))
  BY <1>3, DetachInv DEF ReadEnds, ReadFails, Leaves
<1> QED BY <1>1, <1>2, <1>3 DEF Runs

LEMMA DInvInductive == DInv /\ [DeliveryNext]_deliveryVars => DInv'
<1> SUFFICES ASSUME DInv, [DeliveryNext]_deliveryVars PROVE DInv'
  OBVIOUS
<1>1. ASSUME NEW c \in Conns, Attach(c) \/ LeaveRoom(c) \/ ReadFails(c) PROVE DInv'
  BY <1>1, AttachInv, LeaveRoomInv, DetachInv DEF ReadFails
<1>2. ASSUME NEW c \in Conns, Pumps(c) \/ WriteFails(c) PROVE DInv'
  BY <1>2, TakeInv, WriteInv, PumpInv DEF Pumps
<1>3. ASSUME NEW c \in Conns, NEW then \in {"read", "leave"}, Refuse(c, then) PROVE DInv'
  BY <1>3, RefuseInv
<1>4. ASSUME NEW t \in Tasks, Change(t) \/ Runs(t) PROVE DInv'
  BY <1>4, ChangeInv, RunsInv
<1>5. ASSUME NEW t \in Callbacks, Shutdown(t) \/ NotifyDraining(t) PROVE DInv'
  BY <1>5, ShutdownInv, NotifyInv
<1>6. CASE UNCHANGED deliveryVars
  BY <1>6 DEF deliveryVars, connVars, DInv, TaskInv, FramesInv, Complete, Sent
<1> QED
  BY <1>1, <1>2, <1>3, <1>4, <1>5, <1>6 DEF DeliveryNext

LEMMA InitDInv == DeliveryInit => DInv
<1> SUFFICES ASSUME DeliveryInit PROVE DInv
  OBVIOUS
<1>1. <<>> \in Seq(Nat) /\ <<>> \o <<>> \o <<>> = <<>>
  BY EmptySeq, ConcatEmptySeq
<1>2. TaskInv
  BY DEF DeliveryInit, TaskInv, Idle0, Steps
<1>3. FramesInv
  BY <1>1 DEF DeliveryInit, FramesInv
<1>4. Complete
  BY <1>1 DEF DeliveryInit, Complete, Sent
<1> QED BY <1>2, <1>3, <1>4 DEF DInv

\* A connection is closed before it misses a frame: as long as it is open, what it
\* was given is on the wire, with the pump or in the queue, in order (enqueue,
\* writePump).
THEOREM OpenConnectionsMissNothing == DeliverySpec => []NothingMissedWhileOpen
<1>1. DInv => NothingMissedWhileOpen
  BY DEF DInv, Complete, Sent, NothingMissedWhileOpen
<1> QED BY <1>1, InitDInv, DInvInductive, PTL DEF DeliverySpec
=============================================================================
