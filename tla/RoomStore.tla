------------------------------ MODULE RoomStore ------------------------------
(***************************************************************************)
(* Several instances of the server and the Postgres row of one room code:  *)
(* backend/internal/realtime/manager.go and backend/internal/roomstore.    *)
(*                                                                         *)
(* A row names the instance that owns the room, the end of its lease and   *)
(* the newest snapshot.  Every SQL statement is one action, and so is      *)
(* every stretch of code between two of them.  What runs concurrently is   *)
(* the requests of all instances, the save worker, the heartbeat and the   *)
(* janitor of each, and drains, crashes and restarts.                      *)
(*                                                                         *)
(* A state of the room is the sequence of the updates it contains.  Its    *)
(* revision (touch adds one per update) is the length of that sequence, so *)
(* that two states of one revision are equal only if they have the same    *)
(* past.                                                                   *)
(***************************************************************************)
EXTENDS Naturals, Sequences, FiniteSets, SequencesExt

CONSTANTS Instances, Requests,
          Nobody,    \* no row: no owner
          Calm,      \* TRUE: no operation outlasts an ownership or meets a clean-up
          Bound      \* bound: how often each kind of event happens

\* "any" counts all that are not updates.
Events == {"update", "any", "create", "expiry", "fault", "crash", "drain", "eviction"}

ASSUME InstancesAssumption == Nobody \notin Instances
ASSUME BoundAssumption == Bound \in [Events -> Nat] /\ Calm \in BOOLEAN

VARIABLES
  \* The row of the code.
  owner,     \* instance_id
  leased,    \* expires_at > now()
  stored,    \* room_state; <<>> is NULL, and its length room_state_version
  epoch,     \* ownerships so far (not in the row)
  \* Each instance.
  life,      \* "up", "draining", "flushing" or "emptying", "releasing", "closed"
  heap,      \* the room objects made so far, each with its state
  here,      \* m.rooms: the object registered under the code, or 0
  observed,  \* the objects whose state observer is set
  pend,      \* pendingRoomStates, or <<>>
  work,      \* what the save worker is saving
  sweep,     \* how far the eviction of the room has got
  lost,      \* how far the heartbeat that found the lease lost has got
  \* Clients.
  req,       \* each request
  acked,     \* the updates whose clients were told that they are saved
  used       \* events so far

row == <<owner, leased, stored, epoch>>
process == <<life, heap, here, observed>>
queue == <<pend, work>>
sweepers == <<sweep, lost>>
vars == <<row, process, queue, sweepers, req, acked, used>>

Idle == [pc |-> "idle", at |-> Nobody, task |-> "none", room |-> 0, snap |-> <<>>,
         due |-> 0, since |-> 0]
NoWork == [state |-> <<>>, since |-> 0]

Updates == used["update"] < Bound["update"] /\ used' = [used EXCEPT !["update"] = @ + 1]
Happens(k) ==
  /\ used[k] < Bound[k] /\ used["any"] < Bound["any"]
  /\ used' = [used EXCEPT ![k] = @ + 1, !["any"] = @ + 1]
Fresh == used["update"] + 1

Goes(r, pc) == req' = [req EXCEPT ![r].pc = pc]
Drops(r) == req' = [req EXCEPT ![r] = Idle]

-----------------------------------------------------------------------------
(* The statements of the store.                                            *)

Holds(i) == owner = i /\ leased

\* Mutated forms of SaveLands: no revision, or no lease, in the condition.
SaveLandsAnyRevision(i, s) == Holds(i)
SaveLandsUnleased(i, s) == Len(stored) <= Len(s)
\* The condition of the UPDATE in SaveRoomState.
SaveLands(i, s) == Holds(i) /\ Len(stored) <= Len(s)

\* What is assumed of the speed of operations if Calm: when a lease ends, no
\* operation is in flight that began before it, but the one, if any, that ends it;
\* when an instance takes the lease, nothing else of its own is in flight.
QuickSoFar(ending) ==
  Calm => /\ \A r \in Requests \ ending : req[r].pc # "idle" => req[r].since = epoch
          /\ \A i \in Instances : work[i].state # <<>> => work[i].since = epoch
QuietHere(i, r) ==
  Calm => /\ \A q \in Requests \ {r} : req[q].at # i
          /\ work[i] = NoWork /\ pend[i] = <<>>
          /\ sweep[i] = "idle" /\ lost[i] = "no"

TakeLease(i) ==
  /\ ~leased
  /\ owner' = i /\ leased' = TRUE /\ epoch' = epoch + 1

\* ReleaseRoom keeps the snapshot.
ReleaseRoom(i, ending) ==
  /\ Holds(i) => QuickSoFar(ending)
  /\ leased' = (leased /\ owner # i)
  /\ UNCHANGED <<owner, stored, epoch>>

\* The database answers with an error, or not at all.
Fault == Happens("fault")

-----------------------------------------------------------------------------
(* Rooms in memory.                                                        *)

\* enqueueRoomState keeps the newer of two states.
Newer(old, s) == IF Len(old) < Len(s) THEN s ELSE old

\* touch, for the object o of instance i.
TouchRoom(i, o) ==
  LET s == Append(heap[i][o], Fresh)
  IN /\ Updates
     /\ heap' = [heap EXCEPT ![i][o] = s]
     /\ pend' = IF o \in observed[i] THEN [pend EXCEPT ![i] = Newer(@, s)] ELSE pend
     /\ UNCHANGED <<life, here, observed, work>>

\* A new object, registered and observed.
AddRoom(i, s) ==
  /\ heap' = [heap EXCEPT ![i] = Append(@, s)]
  /\ here' = [here EXCEPT ![i] = Len(heap'[i])]
  /\ observed' = [observed EXCEPT ![i] = @ \cup {Len(heap'[i])}]
  /\ UNCHANGED life

\* Room.Shutdown of every object that is no longer registered.
Silence(i) == observed' = [observed EXCEPT ![i] = @ \cap {here[i]}]

Init ==
  /\ owner = Nobody /\ leased = FALSE /\ stored = <<>> /\ epoch = 0
  /\ life = [i \in Instances |-> "up"]
  /\ heap = [i \in Instances |-> <<>>] /\ here = [i \in Instances |-> 0]
  /\ observed = [i \in Instances |-> {}]
  /\ pend = [i \in Instances |-> <<>>] /\ work = [i \in Instances |-> NoWork]
  /\ sweep = [i \in Instances |-> "idle"] /\ lost = [i \in Instances |-> "no"]
  /\ req = [r \in Requests |-> Idle]
  /\ acked = {} /\ used = [k \in Events |-> 0]

-----------------------------------------------------------------------------
(* CreateRoom.                                                             *)

\* The random code is free or its lease has expired: the row starts again, also if
\* the answer to the statement is lost.
ReserveRoom(r, i) ==
  /\ req[r].pc = "idle" /\ life[i] = "up" /\ here[i] = 0
  /\ QuietHere(i, r)
  /\ TakeLease(i)
  /\ stored' = <<>> /\ acked' = {}
  /\ \/ /\ Happens("create")
        /\ req' = [req EXCEPT ![r] = [Idle EXCEPT !.pc = "reset", !.at = i, !.task = "create",
                                                  !.since = epoch]]
     \/ Fault /\ UNCHANGED req
  /\ UNCHANGED <<process, queue, sweepers>>

ResetRoomState(r) ==
  /\ req[r].pc = "reset"
  /\ \/ /\ stored' = IF owner = req[r].at THEN <<>> ELSE stored
        /\ Goes(r, "insert")
        /\ UNCHANGED used
     \/ Fault /\ stored' = stored /\ Goes(r, "giveup")
  /\ UNCHANGED <<owner, leased, epoch, process, queue, sweepers, acked>>

\* Mutated form of MayInsert: draining is only looked at when CreateRoom begins.
MayInsertLate(i) == here[i] = 0
\* A room is inserted unless the instance has begun to drain, has the code already or
\* (counted among the faults, as in InstallRoom) has no space left.
MayInsert(i) == life[i] = "up" /\ here[i] = 0

InsertRoom(r) ==
  LET i == req[r].at
  IN /\ req[r].pc = "insert"
     /\ \/ ~MayInsert(i) /\ Goes(r, "giveup") /\ UNCHANGED <<process, used>>
        \/ MayInsert(i) /\ Fault /\ Goes(r, "giveup") /\ UNCHANGED process
        \/ /\ MayInsert(i)
           /\ Updates
           /\ AddRoom(i, <<Fresh>>)
           /\ req' = [req EXCEPT ![r].pc = "touched", ![r].room = here'[i], ![r].due = Fresh]
     /\ UNCHANGED <<row, queue, sweepers, acked>>

\* removeRoom, when the first save of a new room has failed.
RemoveRoom(r) ==
  LET i == req[r].at
  IN /\ req[r].pc = "remove"
     /\ here' = [here EXCEPT ![i] = IF @ = req[r].room THEN 0 ELSE @]
     /\ pend' = [pend EXCEPT ![i] = <<>>]
     /\ Goes(r, "giveup")
     /\ UNCHANGED <<row, life, heap, observed, work, sweepers, acked, used>>

\* releaseRoom; its error is only counted.
GiveUp(r) ==
  /\ req[r].pc = "giveup"
  /\ \/ ReleaseRoom(req[r].at, {r}) /\ UNCHANGED used
     \/ Fault /\ UNCHANGED row
  /\ Drops(r)
  /\ UNCHANGED <<process, queue, sweepers, acked>>

-----------------------------------------------------------------------------
(* GetRoom.                                                                *)

\* The room is in memory, or the registry says whose it is.  A room that is
\* hosted elsewhere is an error, and changes nothing.  Clients know the code of the
\* first room only when CreateRoom has returned; if Calm, those of an earlier room of
\* this code do not ask for it meanwhile.
GetRoom(r, i) ==
  LET begins(pc, task) ==
        req' = [req EXCEPT ![r] = [Idle EXCEPT !.pc = pc, !.task = task, !.at = i,
                                               !.room = here[i], !.since = epoch]]
  IN /\ req[r].pc = "idle" /\ life[i] = "up"
     /\ Calm \/ used["create"] = 1 => \A q \in Requests : req[q].task # "create"
     /\ Calm => sweep[i] = "idle" /\ lost[i] = "no"
     /\ \/ here[i] # 0 /\ begins("found", "use")
        \/ here[i] = 0 /\ Holds(i) /\ begins("load", "resume")
        \/ here[i] = 0 /\ ~leased /\ begins("load", "takeover")
     /\ UNCHANGED <<row, process, queue, sweepers, acked, used>>

LoadRoomState(r) ==
  /\ req[r].pc = "load"
  /\ IF stored = <<>>
     THEN Drops(r)
     ELSE req' = [req EXCEPT ![r].snap = stored,
                             ![r].pc = IF req[r].task = "resume" THEN "install" ELSE "claim"]
  /\ UNCHANGED <<row, process, queue, sweepers, acked, used>>

\* An instance may claim a room whose lease has expired.  The snapshot stays.
ClaimRoom(r) ==
  LET i == req[r].at
  IN /\ req[r].pc = "claim"
     /\ QuietHere(i, r)
     /\ \/ leased /\ Drops(r) /\ UNCHANGED <<row, used>>
        \/ /\ TakeLease(i) /\ UNCHANGED stored
           /\ \/ Goes(r, "resave") /\ UNCHANGED used
              \/ Fault /\ Drops(r)
     /\ UNCHANGED <<process, queue, sweepers, acked>>

\* installRestoredRoom: another request may have been faster, or the instance has
\* begun to drain, or it has no space left.
InstallRoom(r) ==
  LET i == req[r].at
      refused == IF req[r].task = "resume" THEN Drops(r) ELSE Goes(r, "giveup")
      finds(o) == req' = [req EXCEPT ![r].pc = "found", ![r].room = o]
  IN /\ req[r].pc = "install"
     /\ \/ here[i] # 0 /\ finds(here[i]) /\ UNCHANGED <<process, used>>
        \/ here[i] = 0 /\ ~MayInsert(i) /\ refused /\ UNCHANGED <<process, used>>
        \/ MayInsert(i) /\ Fault /\ refused /\ UNCHANGED process
        \/ MayInsert(i) /\ AddRoom(i, req[r].snap) /\ finds(here'[i]) /\ UNCHANGED used
     /\ UNCHANGED <<row, queue, sweepers, acked>>

-----------------------------------------------------------------------------
(* A client's action: change the room, save it, and only then answer.      *)

ActOnRoom(r) ==
  /\ req[r].pc = "found"
  /\ TouchRoom(req[r].at, req[r].room)
  /\ req' = [req EXCEPT ![r].pc = "touched", ![r].due = Fresh]
  /\ UNCHANGED <<row, sweepers, acked>>

\* A request that only looks at the room.
LookAtRoom(r) ==
  /\ req[r].pc = "found"
  /\ Drops(r)
  /\ UNCHANGED <<row, process, queue, sweepers, acked, used>>

\* PersistRoom takes the state under the room's lock and saves it outside.
PersistRoom(r) ==
  /\ req[r].pc = "touched"
  /\ req' = [req EXCEPT ![r].pc = "save",
                        ![r].snap = heap[req[r].at][req[r].room]]
  /\ UNCHANGED <<row, process, queue, sweepers, acked, used>>

\* What follows a save: the answer, or, in GetRoom, the installation.
Saved(r) ==
  IF req[r].task = "takeover" /\ req[r].room = 0
  THEN Goes(r, "install") /\ UNCHANGED acked
  ELSE Drops(r) /\ acked' = acked \cup {req[r].due}
NotSaved(r) ==
  /\ UNCHANGED acked
  /\ IF req[r].task = "takeover" /\ req[r].room = 0 THEN Goes(r, "giveup")
     ELSE IF req[r].task = "create" THEN Goes(r, "remove")
     ELSE Drops(r)


SaveRoomState(r) ==
  LET i == req[r].at
      s == req[r].snap
  IN /\ req[r].pc \in {"save", "resave"}
     /\ \/ SaveLands(i, s) /\ stored' = s /\ Saved(r) /\ UNCHANGED used
        \/ ~SaveLands(i, s) /\ Goes(r, "check") /\ UNCHANGED <<stored, acked, used>>
        \/ /\ Fault /\ NotSaved(r)
           /\ stored' \in {stored} \cup IF SaveLands(i, s) THEN {s} ELSE {}
     /\ UNCHANGED <<owner, leased, epoch, process, queue, sweepers>>

\* The UPDATE found no row.  If the instance still has the lease, then because a
\* newer state is stored, which is as good.
CheckLease(r) ==
  /\ req[r].pc = "check"
  /\ IF Holds(req[r].at) THEN Saved(r) ELSE NotSaved(r)
  /\ UNCHANGED <<row, process, queue, sweepers, used>>

-----------------------------------------------------------------------------
(* Background work.                                                        *)

\* A timer or a computer player changes the room, if anybody has ever joined it.  (The
\* change that takes a join back whose save has failed goes the same way.)  A room that
\* has been idle long enough to be evicted has no timer, unless somebody finds it now.
TimerTouches(i, o) ==
  /\ o \in observed[i] /\ Len(heap[i][o]) > 1
  /\ Calm => sweep[i] # "removed"
  /\ TouchRoom(i, o)
  /\ UNCHANGED <<row, sweepers, req, acked>>

\* The worker takes a state off the queue, and saves it outside the lock.
NextPendingRoomState(i) ==
  /\ pend[i] # <<>> /\ work[i] = NoWork
  /\ work' = [work EXCEPT ![i] = [state |-> pend[i], since |-> epoch]]
  /\ pend' = [pend EXCEPT ![i] = <<>>]
  /\ UNCHANGED <<row, process, sweepers, req, acked, used>>

\* Mutated form of Retried: a state that could not be saved is dropped.
RetriedNever(i, s) == pend[i]
\* The failed state is queued again, unless the room has gone or moved on.
Retried(i, s) == IF here[i] # 0 THEN Newer(pend[i], s) ELSE pend[i]

SaveInBackground(i) ==
  LET s == work[i].state
      fails == pend' = [pend EXCEPT ![i] = Retried(i, s)]
  IN /\ s # <<>>
     /\ work' = [work EXCEPT ![i] = NoWork]
     /\ \/ SaveLands(i, s) /\ stored' = s /\ UNCHANGED <<pend, used>>
        \/ ~SaveLands(i, s) /\ Holds(i) /\ UNCHANGED <<stored, pend, used>>
        \/ ~Holds(i) /\ fails /\ UNCHANGED <<stored, used>>
        \/ Fault /\ fails /\ stored' \in {stored} \cup IF SaveLands(i, s) THEN {s} ELSE {}
     /\ UNCHANGED <<owner, leased, epoch, process, sweepers, req, acked>>

\* HeartbeatRoom finds another owner or no lease; any other error is ignored.
HeartbeatRoom(i) ==
  /\ life[i] = "up" /\ here[i] # 0 /\ lost[i] = "no"
  /\ ~Holds(i)
  /\ Calm => \A r \in Requests : req[r].at = i => req[r].room # 0
  /\ lost' = [lost EXCEPT ![i] = "told"]
  /\ UNCHANGED <<row, process, queue, sweep, req, acked, used>>

\* revokeRoom: unregister, then clear what is pending, then shut the room down.
RevokeRoom(i) ==
  /\ \/ /\ lost[i] = "told"
        /\ here' = [here EXCEPT ![i] = 0]
        /\ lost' = [lost EXCEPT ![i] = "removed"]
        /\ UNCHANGED <<pend, observed>>
     \/ /\ lost[i] = "removed"
        /\ pend' = [pend EXCEPT ![i] = <<>>]
        /\ lost' = [lost EXCEPT ![i] = "cleared"]
        /\ UNCHANGED <<here, observed>>
     \/ /\ lost[i] = "cleared"
        /\ Silence(i)
        /\ lost' = [lost EXCEPT ![i] = "no"]
        /\ UNCHANGED <<here, pend>>
  /\ UNCHANGED <<row, life, heap, work, sweep, req, acked, used>>

\* EvictIdleRooms: a room nobody is connected to and that has not changed for
\* roomIdleTTL.  What clients were told of it is forgotten with it.
EvictIdleRoom(i) ==
  /\ life[i] = "up" /\ here[i] # 0 /\ sweep[i] = "idle"
  /\ \A r \in Requests : req[r].at = i =>
        ~Calm /\ req[r].pc \notin {"touched", "save", "check"}
  /\ Calm => pend[i] = <<>> /\ work[i] = NoWork
  /\ Happens("eviction")
  /\ here' = [here EXCEPT ![i] = 0]
  /\ acked' = IF owner = i THEN {} ELSE acked
  /\ sweep' = [sweep EXCEPT ![i] = "removed"]
  /\ UNCHANGED <<row, life, heap, observed, queue, lost, req>>

ShutdownEvicted(i) ==
  /\ sweep[i] = "removed"
  /\ Silence(i)
  /\ pend' = [pend EXCEPT ![i] = <<>>]
  /\ sweep' = [sweep EXCEPT ![i] = "shut"]
  /\ UNCHANGED <<row, life, heap, here, work, lost, req, acked, used>>

\* Mutated form of OwnsRow: whoever evicts deletes.
OwnsRowAnyway(i) == owner # Nobody
OwnsRow(i) == owner = i

\* DeleteRoomState; its error is only counted.
DeleteRoomState(i) ==
  /\ sweep[i] = "shut"
  /\ sweep' = [sweep EXCEPT ![i] = "idle"]
  /\ \/ /\ IF OwnsRow(i)
           THEN /\ leased => QuickSoFar({})
                /\ owner' = Nobody /\ leased' = FALSE /\ stored' = <<>>
           ELSE UNCHANGED <<owner, leased, stored>>
        /\ UNCHANGED used
     \/ Fault /\ UNCHANGED <<owner, leased, stored>>
  /\ UNCHANGED <<epoch, process, queue, lost, req, acked>>

-----------------------------------------------------------------------------
(* Leases and processes end.                                               *)

\* Heartbeats have failed, or come too late, for roomLeaseTTL.
LeaseExpires ==
  /\ leased
  /\ QuickSoFar({})
  /\ Happens("expiry")
  /\ leased' = FALSE
  /\ UNCHANGED <<owner, stored, epoch, process, queue, sweepers, req, acked>>

StartDraining(i) ==
  /\ life[i] = "up"
  /\ Happens("drain")
  /\ life' = [life EXCEPT ![i] = "draining"]
  /\ UNCHANGED <<row, heap, here, observed, queue, sweepers, req, acked>>

\* Shutdown, first part: all rooms are unregistered and shut down.
ShutdownRooms(i) ==
  /\ life[i] = "draining"
  /\ life' = [life EXCEPT ![i] = IF here[i] # 0 THEN "flushing" ELSE "emptying"]
  /\ here' = [here EXCEPT ![i] = 0]
  /\ observed' = [observed EXCEPT ![i] = {}]
  /\ UNCHANGED <<row, heap, queue, sweepers, req, acked, used>>

\* flushPendingRoomStates: save what is pending; stop at the first error.  Only the
\* rooms Shutdown found are released after it.
FlushPending(i) ==
  LET s == pend[i]
      done == /\ life' = [life EXCEPT ![i] = IF @ = "flushing" THEN "releasing" ELSE "closed"]
              /\ UNCHANGED pend
      more == pend' = [pend EXCEPT ![i] = <<>>] /\ UNCHANGED life
  IN /\ life[i] \in {"flushing", "emptying"}
     /\ \/ s = <<>> /\ done /\ UNCHANGED <<stored, used>>
        \/ s # <<>> /\ SaveLands(i, s) /\ stored' = s /\ more /\ UNCHANGED used
        \/ s # <<>> /\ ~SaveLands(i, s) /\ Holds(i) /\ more /\ UNCHANGED <<stored, used>>
        \/ s # <<>> /\ ~Holds(i) /\ done /\ UNCHANGED <<stored, used>>
        \/ s # <<>> /\ Fault /\ done
           /\ stored' \in {stored} \cup IF SaveLands(i, s) THEN {s} ELSE {}
     /\ UNCHANGED <<owner, leased, epoch, heap, here, observed, work, sweepers, req, acked>>

\* Shutdown, last part: drop what is still pending and release the lease.
ReleaseAfterFlush(i) ==
  /\ life[i] = "releasing"
  /\ pend' = [pend EXCEPT ![i] = <<>>]
  /\ life' = [life EXCEPT ![i] = "closed"]
  /\ \/ ReleaseRoom(i, {}) /\ UNCHANGED used
     \/ Fault /\ UNCHANGED row
  /\ UNCHANGED <<heap, here, observed, work, sweepers, req, acked>>

\* The process ends, and one with the same name starts.
NewProcess(i) ==
  /\ life' = [life EXCEPT ![i] = "up"]
  /\ heap' = [heap EXCEPT ![i] = <<>>] /\ here' = [here EXCEPT ![i] = 0]
  /\ observed' = [observed EXCEPT ![i] = {}]
  /\ pend' = [pend EXCEPT ![i] = <<>>] /\ work' = [work EXCEPT ![i] = NoWork]
  /\ sweep' = [sweep EXCEPT ![i] = "idle"] /\ lost' = [lost EXCEPT ![i] = "no"]
  /\ req' = [r \in Requests |-> IF req[r].at = i THEN Idle ELSE req[r]]
  /\ UNCHANGED <<row, acked>>

Redeploy(i) == life[i] = "closed" /\ NewProcess(i) /\ UNCHANGED used
Crash(i) == Happens("crash") /\ NewProcess(i)

-----------------------------------------------------------------------------

Creation == \E r \in Requests :
  \/ \E i \in Instances : ReserveRoom(r, i)
  \/ ResetRoomState(r) \/ InsertRoom(r) \/ RemoveRoom(r) \/ GiveUp(r)
Lookup == \E r \in Requests :
  \/ \E i \in Instances : GetRoom(r, i)
  \/ LoadRoomState(r) \/ ClaimRoom(r) \/ InstallRoom(r)
Use == \E r \in Requests :
  ActOnRoom(r) \/ LookAtRoom(r) \/ PersistRoom(r) \/ SaveRoomState(r) \/ CheckLease(r)
Background == \E i \in Instances :
  \/ \E o \in observed[i] : TimerTouches(i, o)
  \/ NextPendingRoomState(i) \/ SaveInBackground(i) \/ HeartbeatRoom(i) \/ RevokeRoom(i)
  \/ EvictIdleRoom(i) \/ ShutdownEvicted(i) \/ DeleteRoomState(i)
Endings ==
  \/ LeaseExpires
  \/ \E i \in Instances :
       StartDraining(i) \/ ShutdownRooms(i) \/ FlushPending(i) \/ ReleaseAfterFlush(i)
       \/ Redeploy(i) \/ Crash(i)

Next == Creation \/ Lookup \/ Use \/ Background \/ Endings

Spec == Init /\ [][Next]_vars

-----------------------------------------------------------------------------
(* Properties.                                                             *)

\* The type invariant; also, a process that has shut down has no room, whatever
\* requests were on their way to install one.
TypeOK ==
  /\ owner \in Instances \cup {Nobody} /\ leased \in BOOLEAN
  /\ stored \in Seq(1..used["update"])
  /\ \A i \in Instances :
       /\ here[i] \in 0..Len(heap[i]) /\ observed[i] \subseteq 1..Len(heap[i])
       /\ pend[i] \in Seq(1..used["update"]) /\ work[i].state \in Seq(1..used["update"])
       /\ life[i] \in {"releasing", "closed"} => here[i] = 0 /\ observed[i] = {}
  /\ \A r \in Requests : req[r].room # 0 => req[r].room \in DOMAIN heap[req[r].at]

\* An update whose client was told that it is saved is in the saved state, whatever
\* instance fails, drains, expires or takes the room over.
AckedIsSaved == acked \subseteq ToSet(stored)

\* The instance that has the room and its lease has every update that is saved: the
\* store is never ahead of the game that goes on.
HolderKnowsAll ==
  \A i \in Instances : Holds(i) /\ here[i] # 0 => IsPrefix(stored, heap[i][here[i]])

\* A change nobody waits for is still on its way to the store while the room is open.
NothingForgotten ==
  \A i \in Instances :
    Holds(i) /\ here[i] # 0 /\ lost[i] = "no" /\ stored # heap[i][here[i]] =>
      \/ heap[i][here[i]] \in {pend[i], work[i].state}
      \/ \E r \in Requests : req[r].at = i /\ req[r].pc \in {"touched", "save", "check", "remove"}

\* What the save worker is still saving when Shutdown has ended is in the store: a
\* graceful end loses no change (manager_test.go, TestManagerShutdownFlushesPendingRoomState).
ShutdownSavesAll ==
  \A i \in Instances : life[i] = "closed" => IsPrefix(work[i].state, stored)

Record == INSTANCE DurableRoom WITH saved <- stored, promised <- acked

\* The row behaves as a durable room: saves extend what was saved.
KeepsRooms == Record!Spec
=============================================================================
