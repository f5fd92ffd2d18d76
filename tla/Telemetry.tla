----------------------------- MODULE Telemetry -----------------------------
(***************************************************************************)
(* How plays are counted (backend/internal/telemetry/cards.go).  Games     *)
(* record events into a bounded channel; one goroutine gathers them and    *)
(* writes each group of a batch in a statement of its own.                 *)
(*                                                                         *)
(* A kind stands for the events of one statement (kind and metric).  The   *)
(* counters of Stats are kept apart by kind.                               *)
(***************************************************************************)
EXTENDS Integers, FiniteSets, FiniteSetsExt

CONSTANTS Kinds,
          buffer,     \* capacity of the channel
          MaxRecorded \* bound: events of each kind

ASSUME TelemetryAssumption == buffer \in Nat \ {0} /\ MaxRecorded \in Nat

VARIABLES
  events,   \* in the channel
  pending,  \* gathered since the last flush
  batch,    \* of the flush that goes on: what is still to be written
  flusher,  \* "select", "flush", "last" (a flush after the context is done) or "over"
  canceled, \* the context is done
  flushed, dropped, failed,
  table,    \* the columns in the database
  recorded  \* events so far

telemetryVars ==
  <<events, pending, batch, flusher, canceled, flushed, dropped, failed, table, recorded>>

Zero == [k \in Kinds |-> 0]
Plus(f, k, n) == [f EXCEPT ![k] = @ + n]
Full == MapThenSumSet(LAMBDA k : events[k], Kinds) >= buffer

\* Never blocks.
Record(k) ==
  /\ recorded[k] < MaxRecorded
  /\ recorded' = Plus(recorded, k, 1)
  /\ IF Full THEN dropped' = Plus(dropped, k, 1) /\ events' = events
     ELSE events' = Plus(events, k, 1) /\ dropped' = dropped
  /\ UNCHANGED <<pending, batch, flusher, canceled, flushed, failed, table>>

\* One event; drain takes those that are there in the same way.
Receive(k) ==
  /\ flusher = "select" /\ events[k] > 0
  /\ events' = Plus(events, k, -1) /\ pending' = Plus(pending, k, 1)
  /\ UNCHANGED <<batch, flusher, canceled, flushed, dropped, failed, table, recorded>>

\* Mutated form: a batch has to be full.
FullBatch == MapThenSumSet(LAMBDA k : pending[k], Kinds) >= buffer
SomePending == pending # Zero
Flush ==
  /\ flusher = "select" /\ SomePending
  /\ batch' = pending /\ pending' = Zero /\ flusher' = "flush"
  /\ UNCHANGED <<events, canceled, flushed, dropped, failed, table, recorded>>

Cancel ==
  /\ ~canceled /\ canceled' = TRUE
  /\ UNCHANGED <<events, pending, batch, flusher, flushed, dropped, failed, table, recorded>>

\* What is in the channel then is drained and written; what comes later stays.
LastFlush ==
  /\ canceled /\ flusher = "select"
  /\ batch' = [k \in Kinds |-> pending[k] + events[k]]
  /\ pending' = Zero /\ events' = Zero /\ flusher' = "last"
  /\ UNCHANGED <<canceled, flushed, dropped, failed, table, recorded>>

\* Mutated form: a batch that failed is kept for the next flush.
KeptForRetry(k) == pending' = Plus(pending, k, batch[k])
GivenUp(k) == pending' = pending
Written(k) ==
  /\ flusher \in {"flush", "last"} /\ batch[k] > 0
  /\ batch' = [batch EXCEPT ![k] = 0]
  /\ UNCHANGED <<events, flusher, canceled, dropped, recorded>>
WriteGroup(k) ==
  /\ Written(k)
  /\ table' = Plus(table, k, batch[k]) /\ flushed' = Plus(flushed, k, batch[k])
  /\ UNCHANGED <<pending, failed>>
\* The database may have made the change and the answer been lost.
GroupFails(k) ==
  /\ Written(k)
  /\ failed' = Plus(failed, k, batch[k])
  /\ table' \in {table, Plus(table, k, batch[k])}
  /\ GivenUp(k)
  /\ UNCHANGED flushed

FlushEnds ==
  /\ flusher \in {"flush", "last"} /\ batch = Zero
  /\ flusher' = IF flusher = "last" THEN "over" ELSE "select"
  /\ UNCHANGED <<events, pending, batch, canceled, flushed, dropped, failed, table, recorded>>

TelemetryInit ==
  /\ events = Zero /\ pending = Zero /\ batch = Zero
  /\ flusher = "select" /\ canceled = FALSE
  /\ flushed = Zero /\ dropped = Zero /\ failed = Zero
  /\ table = Zero /\ recorded = Zero

FlusherRuns ==
  \/ Flush \/ LastFlush \/ FlushEnds
  \/ \E k \in Kinds : WriteGroup(k) \/ GroupFails(k)
TelemetryNext ==
  \/ \E k \in Kinds : Record(k) \/ Receive(k)
  \/ Cancel \/ FlusherRuns

TelemetrySpec ==
  /\ TelemetryInit /\ [][TelemetryNext]_telemetryVars
  /\ WF_telemetryVars(FlusherRuns) /\ \A k \in Kinds : WF_telemetryVars(Receive(k))

-----------------------------------------------------------------------------

\* Every event is in one place, or counted as flushed, dropped or failed, once.
EventsAreAccounted ==
  \A k \in Kinds :
    recorded[k] = events[k] + pending[k] + batch[k] + flushed[k] + dropped[k] + failed[k]

\* A card is never credited with more than was played, although a statement that
\* failed may have been applied, and never with less than Stats says (flush).
NothingCountsTwice ==
  \A k \in Kinds :
    /\ flushed[k] <= table[k] /\ table[k] <= flushed[k] + failed[k]
    /\ table[k] <= recorded[k]

\* Until the process is told to stop, nothing is left in memory for good: what has
\* been recorded is written or given up some ticks later (Start).
NothingIsLeftInMemory ==
  \A k \in Kinds : events[k] + pending[k] + batch[k] > 0
    ~> canceled \/ events[k] + pending[k] + batch[k] = 0
=============================================================================
