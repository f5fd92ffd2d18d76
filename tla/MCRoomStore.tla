----------------------------- MODULE MCRoomStore -----------------------------
(* Instances of RoomStore for TLC: how often each kind of event may happen.  *)
EXTENDS RoomStore, TLC

CONSTANTS MaxUpdates, MaxEvents, Creates, Expiries, Faults, Crashes, Drains, Evictions

Bounds == [k \in Events |->
  CASE k = "update" -> MaxUpdates [] k = "any" -> MaxEvents
    [] k = "create" -> Creates [] k = "expiry" -> Expiries [] k = "fault" -> Faults
    [] k = "crash" -> Crashes [] k = "drain" -> Drains [] k = "eviction" -> Evictions]

Symmetry == Permutations(Instances) \cup Permutations(Requests)
=============================================================================
