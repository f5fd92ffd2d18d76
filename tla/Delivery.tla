------------------------------ MODULE Delivery ------------------------------
(***************************************************************************)
(* How the changes of a room reach its players: Broadcast, NotifyDraining  *)
(* and Shutdown (backend/internal/realtime/room.go), the socket handlers   *)
(* (backend/internal/httpapi/handler.go, wsRoom) and the send queue and    *)
(* write pump of a connection (backend/internal/ws/ws.go).                 *)
(*                                                                         *)
(* A snapshot is the number of changes it shows.  Broadcast takes it, and  *)
(* the connections, under the lock of the room, and sends it after that.   *)
(* Pings and pongs are left out.                                           *)
(***************************************************************************)
EXTENDS Integers, Sequences

CONSTANTS Conns,      \* each with its handler and its pump
          Callbacks,  \* timers and other requests that change the room
          sendQueue,  \* room in the queue of a connection
          MaxVersion, \* bound: changes of the room
          MaxFrames   \* bound: frames for a connection after which nobody adds
                      \* to those of the changes

ASSUME DeliveryAssumption ==
  /\ sendQueue \in Nat \ {0} /\ MaxVersion \in Nat /\ MaxFrames \in Nat
  /\ Conns \cap Callbacks = {}

VARIABLES
  version, \* changes of the room so far
  clients, \* connections of the room
  task,    \* handlers and callbacks
  queue,   \* of each connection: frames to send
  writing, \* the frame the pump has taken, as a sequence of at most one
  wire,    \* frames the client has got
  closed,  \* done is closed
  pump,    \* "new", "running" or "over"
  offered  \* all frames given to WriteJSON while the connection was open

connVars == <<queue, writing, wire, closed, pump, offered>>
deliveryVars == <<version, clients, task, connVars>>

Tasks == Conns \cup Callbacks
\* then: what a task does after it has sent its frames.
Idle0 == [pc |-> "idle", snap |-> 0, to |-> {}, then |-> "idle"]
Sets(t, pc, to, then) ==
  task' = [task EXCEPT ![t] = [pc |-> pc, snap |-> version, to |-> to, then |-> then]]

-----------------------------------------------------------------------------
(* The room.                                                               *)

\* Upgrade, Attach and the broadcast after them; a connection is used once.
Attach(c) ==
  /\ pump[c] = "new" /\ task[c].pc = "idle"
  /\ pump' = [pump EXCEPT ![c] = "running"]
  /\ clients' = clients \cup {c}
  /\ Sets(c, "broadcast", {}, "read")
  /\ UNCHANGED <<version, queue, writing, wire, closed, offered>>

\* Mutated form: a pump that leaves the socket open.
NeverClosed(c) == FALSE
SocketClosed(c) == pump[c] = "over"
\* A handler can read until the pump has closed the socket (readMessage sets the
\* deadline first, which then fails).
Reads(c) == task[c].pc = "read" /\ ~SocketClosed(c)

\* A command, a deadline or a request changes the room.  Mutated form: a change
\* that could not be saved is not shown.
AfterSavedChange == {"broadcast", "send"}
AfterChange == {"broadcast"}
Change(t) ==
  /\ IF t \in Conns THEN Reads(t) ELSE task[t].pc = "idle"
  /\ version < MaxVersion
  /\ version' = version + 1
  /\ \E pc \in AfterChange :
       task' = [task EXCEPT ![t] = [pc |-> pc, snap |-> version', to |-> {},
                                    then |-> task[t].pc]]
  /\ UNCHANGED <<clients, connVars>>

\* Leave takes the player's connections out of the room.
LeaveRoom(c) ==
  /\ Reads(c) /\ version < MaxVersion
  /\ version' = version + 1 /\ clients' = clients \ {c}
  /\ task' = [task EXCEPT ![c] = [pc |-> "broadcast", snap |-> version', to |-> {},
                                 then |-> "leave"]]
  /\ UNCHANGED connVars

\* A command that is refused, or one too many: the error goes to the player alone,
\* and a player who is draining, too fast or has left is then disconnected.
Refuse(c, then) ==
  /\ Reads(c) /\ Len(offered[c]) < MaxFrames
  /\ Sets(c, "send", {c}, then)
  /\ UNCHANGED <<version, clients, connVars>>

Broadcast(t) ==
  /\ task[t].pc = "broadcast"
  /\ Sets(t, "send", clients, task[t].then)
  /\ UNCHANGED <<version, clients, connVars>>

\* A frame to everybody, without a snapshot.
NotifyDraining(t) ==
  /\ t \in Callbacks /\ task[t].pc = "idle"
  /\ \A c \in clients : Len(offered[c]) < MaxFrames
  /\ task' = [task EXCEPT ![t] = [pc |-> "send", snap |-> 0, to |-> clients, then |-> "idle"]]
  /\ UNCHANGED <<version, clients, connVars>>

\* The client has gone, or the pump has closed the socket: the handler returns,
\* and what it deferred runs: Detach, a broadcast and Close.
Detach(c) ==
  /\ clients' = clients \ {c}
  /\ Sets(c, "broadcast", {}, "close")
  /\ UNCHANGED <<version, connVars>>
ReadFails(c) == task[c].pc = "read" /\ Detach(c)
ReadEnds(c) == SocketClosed(c) /\ ReadFails(c)
Leaves(c) == task[c].pc = "leave" /\ Detach(c)

\* Room.Shutdown: the connections, under the lock, then Close of each.
Shutdown(t) ==
  /\ t \in Callbacks /\ task[t].pc = "idle" /\ clients # {}
  /\ Sets(t, "shut", clients, "idle")
  /\ UNCHANGED <<version, clients, connVars>>

-----------------------------------------------------------------------------
(* A connection.                                                           *)

Close(c) == closed' = [closed EXCEPT ![c] = TRUE]
Done(t, c) ==
  LET rest == task[t].to \ {c}
  IN task' = [task EXCEPT ![t].to = rest, ![t].pc = IF rest = {} THEN task[t].then ELSE @]

\* Mutated form: a frame that finds no room is dropped, and the client kept.
DropFrame(c) == closed' = closed
TooSlow(c) == Close(c)
\* WriteJSON never blocks.
Enqueue(t, c) ==
  /\ task[t].pc = "send" /\ c \in task[t].to
  /\ IF closed[c] THEN UNCHANGED <<queue, closed, offered>>
     ELSE /\ offered' = [offered EXCEPT ![c] = Append(@, task[t].snap)]
          /\ IF Len(queue[c]) < sendQueue
             THEN queue' = [queue EXCEPT ![c] = Append(@, task[t].snap)] /\ closed' = closed
             ELSE queue' = queue /\ TooSlow(c)
  /\ Done(t, c)
  /\ UNCHANGED <<version, clients, writing, wire, pump>>

SendNobody(t) ==
  /\ task[t].pc = "send" /\ task[t].to = {}
  /\ task' = [task EXCEPT ![t].pc = task[t].then]
  /\ UNCHANGED <<version, clients, connVars>>

\* A handler that returns, or Shutdown.
CloseConn(t, c) ==
  /\ \/ task[t].pc = "close" /\ t = c /\ task' = [task EXCEPT ![t] = Idle0]
     \/ task[t].pc = "shut" /\ c \in task[t].to /\ Done(t, c)
  /\ Close(c)
  /\ UNCHANGED <<version, clients, queue, writing, wire, pump, offered>>

\* The pump takes a frame, also when done is closed: a select takes either.
Take(c) ==
  /\ pump[c] = "running" /\ writing[c] = <<>> /\ queue[c] # <<>>
  /\ writing' = [writing EXCEPT ![c] = <<Head(queue[c])>>]
  /\ queue' = [queue EXCEPT ![c] = Tail(@)]
  /\ UNCHANGED <<version, clients, task, wire, closed, pump, offered>>

Write(c) ==
  /\ pump[c] = "running" /\ writing[c] # <<>>
  /\ wire' = [wire EXCEPT ![c] = @ \o writing[c]]
  /\ writing' = [writing EXCEPT ![c] = <<>>]
  /\ UNCHANGED <<version, clients, task, queue, closed, pump, offered>>

\* A frame or a ping cannot be written, or not before its deadline.
WriteFails(c) ==
  /\ pump[c] = "running"
  /\ Close(c) /\ pump' = [pump EXCEPT ![c] = "over"]
  /\ UNCHANGED <<version, clients, task, queue, writing, wire, offered>>

\* The close frame; what is still queued is discarded.
PumpEnds(c) ==
  /\ pump[c] = "running" /\ closed[c] /\ writing[c] = <<>>
  /\ pump' = [pump EXCEPT ![c] = "over"]
  /\ UNCHANGED <<version, clients, task, queue, writing, wire, closed, offered>>

DeliveryInit ==
  /\ version = 0 /\ clients = {}
  /\ task = [t \in Tasks |-> Idle0]
  /\ queue = [c \in Conns |-> <<>>] /\ writing = [c \in Conns |-> <<>>]
  /\ wire = [c \in Conns |-> <<>>] /\ offered = [c \in Conns |-> <<>>]
  /\ closed = [c \in Conns |-> FALSE] /\ pump = [c \in Conns |-> "new"]

\* What goes on without anybody outside.
Runs(t) ==
  \/ Broadcast(t) \/ SendNobody(t)
  \/ \E c \in Conns : Enqueue(t, c) \/ CloseConn(t, c)
  \/ t \in Conns /\ (ReadEnds(t) \/ Leaves(t))
Pumps(c) == Take(c) \/ Write(c) \/ PumpEnds(c)

DeliveryNext ==
  \/ \E c \in Conns :
       \/ Attach(c) \/ LeaveRoom(c) \/ ReadFails(c) \/ Pumps(c) \/ WriteFails(c)
       \/ \E then \in {"read", "leave"} : Refuse(c, then)
  \/ \E t \in Tasks : Change(t) \/ Runs(t)
  \/ \E t \in Callbacks : Shutdown(t) \/ NotifyDraining(t)

DeliverySpec ==
  /\ DeliveryInit /\ [][DeliveryNext]_deliveryVars
  /\ \A t \in Tasks : WF_deliveryVars(Runs(t))
  /\ \A c \in Conns : WF_deliveryVars(Pumps(c))

-----------------------------------------------------------------------------

\* As long as a connection is open it misses nothing: all that was to be sent to
\* it is with the client, with the pump or in the queue, each once and in order.
\* A client that is too slow is closed instead (enqueue, writePump).
NothingMissedWhileOpen ==
  \A c \in Conns : ~closed[c] => wire[c] \o writing[c] \o queue[c] = offered[c]

\* A player who stays connected sees the latest state, or has been sent it, though
\* perhaps an older one after it: two broadcasts may be sent in the opposite order
\* (Broadcast).
Behind(c) ==
  c \in clients /\ ~closed[c] /\ \A i \in DOMAIN wire[c] : wire[c][i] < version
ChangesArrive == \A c \in Conns : Behind(c) ~> ~Behind(c)

\* A connection that is closed, by whomever, is let go (wsRoom, writePump).
ClosedIsDetached == \A c \in Conns : closed[c] ~> c \notin clients
=============================================================================
