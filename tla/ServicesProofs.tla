--------------------------- MODULE ServicesProofs ---------------------------
(***************************************************************************)
(* The small services, for every value of their constants: plays are       *)
(* counted once or not at all, migrations are applied in order and once,   *)
(* and a key gets no more than two windows allow.                          *)
(***************************************************************************)
EXTENDS Telemetry, Migrations, RateLimiter, TLAPS

-----------------------------------------------------------------------------
(* Telemetry.                                                              *)

Counts == [Kinds -> Nat]
CountsInv ==
  /\ events \in Counts /\ pending \in Counts /\ batch \in Counts
  /\ flushed \in Counts /\ dropped \in Counts /\ failed \in Counts
  /\ table \in Counts /\ recorded \in Counts

\* What failed may be in the table and what was flushed is.
TableInv == \A k \in Kinds : flushed[k] <= table[k] /\ table[k] <= flushed[k] + failed[k]

TInv == CountsInv /\ EventsAreAccounted /\ TableInv

\* Adding to one count.
LEMMA PlusCounts ==
  ASSUME NEW f \in Counts, NEW k \in Kinds, NEW n \in Int, f[k] + n \in Nat
  PROVE  /\ Plus(f, k, n) \in Counts
         /\ Plus(f, k, n)[k] = f[k] + n
         /\ \A j \in Kinds \ {k} : Plus(f, k, n)[j] = f[j]
BY DEF Plus, Counts

LEMMA ZeroCounts == Zero \in Counts /\ \A k \in Kinds : Zero[k] = 0
BY DEF Zero, Counts

LEMMA InitTInv == TelemetryInit => TInv
BY ZeroCounts DEF TelemetryInit, TInv, CountsInv, EventsAreAccounted, TableInv

\* In every count an event can be added, and from one that is not zero taken.
LEMMA CountsTyped ==
  ASSUME TInv, NEW k \in Kinds
  PROVE  /\ events \in Counts /\ pending \in Counts /\ dropped \in Counts /\ recorded \in Counts
         /\ \A f \in Counts : f[k] + 1 \in Nat /\ (f[k] > 0 => f[k] + (-1) \in Nat)
BY DEF TInv, CountsInv, Counts

LEMMA RecordInv == ASSUME TInv, NEW k \in Kinds, Record(k) PROVE TInv'
<1>1. /\ recorded' \in Counts /\ recorded'[k] = recorded[k] + 1
      /\ \A j \in Kinds \ {k} : recorded'[j] = recorded[j]
  BY PlusCounts, CountsTyped DEF Record
<1>2. UNCHANGED <<pending, batch, flushed, failed, table>>
  BY DEF Record
<1>3. CASE Full
  <2>1. dropped' = Plus(dropped, k, 1) /\ events' = events
    BY <1>3 DEF Record
  <2>2. /\ dropped' \in Counts /\ dropped'[k] = dropped[k] + 1
        /\ \A j \in Kinds \ {k} : dropped'[j] = dropped[j]
    BY <2>1, PlusCounts, CountsTyped
  <2> QED
    BY <1>1, <1>2, <2>1, <2>2 DEF TInv, CountsInv, EventsAreAccounted, TableInv, Counts
<1>4. CASE ~Full
  <2>1. events' = Plus(events, k, 1) /\ dropped' = dropped
    BY <1>4 DEF Record
  <2>2. /\ events' \in Counts /\ events'[k] = events[k] + 1
        /\ \A j \in Kinds \ {k} : events'[j] = events[j]
    BY <2>1, PlusCounts, CountsTyped
  <2> QED
    BY <1>1, <1>2, <2>1, <2>2 DEF TInv, CountsInv, EventsAreAccounted, TableInv, Counts
<1> QED BY <1>3, <1>4

LEMMA ReceiveInv == ASSUME TInv, NEW k \in Kinds, Receive(k) PROVE TInv'
<1>1. /\ events' \in Counts /\ events'[k] = events[k] + (-1)
      /\ \A j \in Kinds \ {k} : events'[j] = events[j]
  <2> -1 \in Int OBVIOUS
  <2> QED BY PlusCounts, CountsTyped DEF Receive
<1>2. /\ pending' \in Counts /\ pending'[k] = pending[k] + 1
      /\ \A j \in Kinds \ {k} : pending'[j] = pending[j]
  BY PlusCounts, CountsTyped DEF Receive
<1>3. UNCHANGED <<batch, flushed, dropped, failed, table, recorded>>
  BY DEF Receive
<1>4. EventsAreAccounted'
  <2> SUFFICES ASSUME NEW j \in Kinds
               PROVE  events'[j] + pending'[j] = events[j] + pending[j]
    BY <1>1, <1>2, <1>3 DEF TInv, CountsInv, EventsAreAccounted, Counts
  <2> QED BY <1>1, <1>2 DEF TInv, CountsInv, Counts
<1> QED BY <1>1, <1>2, <1>3, <1>4 DEF TInv, CountsInv, TableInv

\* A flush begins only when the batch before it has been dealt with.
BatchInv == flusher \in {"select", "over"} => batch = Zero

LEMMA FlushInv ==
  ASSUME TInv, BatchInv, Flush \/ LastFlush
  PROVE  TInv'
<1>1. batch = Zero BY DEF Flush, LastFlush, BatchInv
<1>2. CASE Flush
  BY <1>1, <1>2, ZeroCounts DEF Flush, TInv, CountsInv, EventsAreAccounted, TableInv, Counts
<1>3. CASE LastFlush
  BY <1>1, <1>3, ZeroCounts DEF LastFlush, TInv, CountsInv, EventsAreAccounted, TableInv, Counts
<1> QED BY <1>2, <1>3

\* What Written does to the batch.
LEMMA WrittenBatch ==
  ASSUME TInv, NEW k \in Kinds, Written(k)
  PROVE  /\ batch' \in Counts /\ batch'[k] = 0 /\ batch[k] \in Nat
         /\ \A j \in Kinds \ {k} : batch'[j] = batch[j]
BY DEF Written, TInv, CountsInv, Counts

LEMMA WriteInv == ASSUME TInv, NEW k \in Kinds, WriteGroup(k) PROVE TInv'
<1>1. /\ batch' \in Counts /\ batch'[k] = 0 /\ batch[k] \in Nat
      /\ \A j \in Kinds \ {k} : batch'[j] = batch[j]
  BY WrittenBatch DEF WriteGroup
<1> batch[k] \in Int /\ \A f \in Counts : f[k] + batch[k] \in Nat
  BY <1>1 DEF Counts
<1> failed \in Counts /\ flushed \in Counts /\ table \in Counts
  BY DEF TInv, CountsInv
<1>2. /\ table' \in Counts /\ table'[k] = table[k] + batch[k]
      /\ \A j \in Kinds \ {k} : table'[j] = table[j]
  BY PlusCounts DEF WriteGroup
<1>3. /\ flushed' \in Counts /\ flushed'[k] = flushed[k] + batch[k]
      /\ \A j \in Kinds \ {k} : flushed'[j] = flushed[j]
  BY PlusCounts DEF WriteGroup
<1> QED
  BY <1>1, <1>2, <1>3 DEF WriteGroup, Written, TInv, CountsInv, EventsAreAccounted, TableInv, Counts

LEMMA FailsInv == ASSUME TInv, NEW k \in Kinds, GroupFails(k) PROVE TInv'
<1>1. /\ batch' \in Counts /\ batch'[k] = 0 /\ batch[k] \in Nat
      /\ \A j \in Kinds \ {k} : batch'[j] = batch[j]
  BY WrittenBatch DEF GroupFails
<1> batch[k] \in Int /\ \A f \in Counts : f[k] + batch[k] \in Nat
  BY <1>1 DEF Counts
<1> failed \in Counts /\ flushed \in Counts /\ table \in Counts
  BY DEF TInv, CountsInv
<1>2. /\ failed' \in Counts /\ failed'[k] = failed[k] + batch[k]
      /\ \A j \in Kinds \ {k} : failed'[j] = failed[j]
  BY PlusCounts DEF GroupFails
<1>3. /\ table' \in Counts /\ table'[k] \in {table[k], table[k] + batch[k]}
      /\ \A j \in Kinds \ {k} : table'[j] = table[j]
  BY PlusCounts DEF GroupFails
<1> QED
  BY <1>1, <1>2, <1>3
  DEF GroupFails, GivenUp, Written, TInv, CountsInv, EventsAreAccounted, TableInv, Counts

LEMMA TInvInductive ==
  TInv /\ BatchInv /\ [TelemetryNext]_telemetryVars => TInv' /\ BatchInv'
<1> SUFFICES ASSUME TInv, BatchInv, [TelemetryNext]_telemetryVars PROVE TInv' /\ BatchInv'
  OBVIOUS
<1>1. ASSUME NEW k \in Kinds, Record(k) PROVE TInv' /\ BatchInv'
  BY <1>1, RecordInv DEF Record, BatchInv
<1>2. ASSUME NEW k \in Kinds, Receive(k) PROVE TInv' /\ BatchInv'
  BY <1>2, ReceiveInv DEF Receive, BatchInv
<1>3. CASE Cancel
  BY <1>3 DEF Cancel, BatchInv, TInv, CountsInv, EventsAreAccounted, TableInv
<1>4. CASE Flush \/ LastFlush
  BY <1>4, FlushInv DEF Flush, LastFlush, BatchInv
<1>5. ASSUME NEW k \in Kinds, WriteGroup(k) PROVE TInv' /\ BatchInv'
  BY <1>5, WriteInv DEF WriteGroup, Written, BatchInv
<1>6. ASSUME NEW k \in Kinds, GroupFails(k) PROVE TInv' /\ BatchInv'
  BY <1>6, FailsInv DEF GroupFails, Written, BatchInv
<1>7. CASE FlushEnds
  BY <1>7 DEF FlushEnds, BatchInv, TInv, CountsInv, EventsAreAccounted, TableInv
<1>8. CASE UNCHANGED telemetryVars
  BY <1>8 DEF telemetryVars, BatchInv, TInv, CountsInv, EventsAreAccounted, TableInv
<1> QED
  BY <1>1, <1>2, <1>3, <1>4, <1>5, <1>6, <1>7, <1>8 DEF TelemetryNext, FlusherRuns

LEMMA TInvHolds == TelemetrySpec => []TInv
<1>1. TelemetryInit => TInv /\ BatchInv
  BY InitTInv DEF TelemetryInit, BatchInv
<1> QED BY <1>1, TInvInductive, PTL DEF TelemetrySpec

\* Every event that was ever recorded is in exactly one place (record, drain,
\* flush).
THEOREM EventsStayAccounted == TelemetrySpec => []EventsAreAccounted
<1>1. TInv => EventsAreAccounted BY DEF TInv
<1> QED BY <1>1, TInvHolds, PTL

\* A card is never credited with more than was played, although statements whose
\* answer was lost may have been applied (flush).
THEOREM NothingIsCountedTwice == TelemetrySpec => []NothingCountsTwice
<1>1. TInv => NothingCountsTwice
  BY DEF TInv, CountsInv, Counts, EventsAreAccounted, TableInv, NothingCountsTwice
<1> QED BY <1>1, TInvHolds, PTL

-----------------------------------------------------------------------------
(* Migrations.                                                             *)

States == {"out", "lock", "check", "apply", "failed"}

MigrationTypes ==
  /\ schema \in Seq(Nat) /\ applied \in SUBSET Nat
  /\ runner \in [Runners -> [pc : States, at : Nat]]
  /\ failures \in Nat

\* One instance is inside the lock.
Inside(r) == runner[r].pc \in {"check", "apply"}
OneInside == \A r, s \in Runners : Inside(r) /\ Inside(s) => r = s

\* The one inside has not passed what is missing, and is about to apply the next.
AtTheEnd ==
  \A r \in Runners :
    /\ Inside(r) => runner[r].at \in 1..Len(schema) + 1
    /\ runner[r].pc = "apply" => runner[r].at = Len(schema) + 1

InOrder == schema = [i \in 1..Len(schema) |-> i] /\ applied = 1..Len(schema)
NobodyFailed == \A r \in Runners : runner[r].pc # "failed"

MInv == MigrationTypes /\ OneInside /\ AtTheEnd /\ InOrder /\ NobodyFailed

LEMMA InitMInv == MigrationsInit => MInv
BY MigrationAssumption
DEF MigrationsInit, MInv, MigrationTypes, OneInside, AtTheEnd, InOrder, NobodyFailed,
   Inside, States, NotRunning

LEMMA StartInv == ASSUME MInv, NEW r \in Runners, Start(r) PROVE MInv'
BY DEF Start, Goes, MInv, MigrationTypes, OneInside, AtTheEnd, InOrder, NobodyFailed, Inside, States

LEMMA LockInv == ASSUME MInv, NEW r \in Runners, LockMigrations(r) PROVE MInv'
<1>1. \A s \in Runners : ~Inside(s)
  BY DEF LockMigrations, LockIsFree, Inside, MInv, MigrationTypes, States
<1>2. QED
  BY <1>1
  DEF LockMigrations, Goes, MInv, MigrationTypes, OneInside, AtTheEnd, InOrder, NobodyFailed,
    Inside, States

LEMMA CheckInv == ASSUME MInv, NEW r \in Runners, MigrationApplied(r) PROVE MInv'
<1> DEFINE v == runner[r].at
<1>1. /\ runner[r].pc = "check" /\ v \in 1..Len(schema) + 1 /\ Len(schema) \in Nat
      /\ applied = 1..Len(schema)
  BY DEF MigrationApplied, MInv, MigrationTypes, AtTheEnd, Inside, InOrder
<1>2. CASE v > Files[r]
  <2>1. runner' = [runner EXCEPT ![r] = [pc |-> "out", at |-> 0]]
    BY <1>2 DEF MigrationApplied, NotRunning
  <2> QED
    BY <1>1, <2>1 DEF MigrationApplied, MInv, MigrationTypes, OneInside, AtTheEnd, InOrder,
      NobodyFailed, Inside, States
<1>3. CASE ~(v > Files[r]) /\ v \in applied
  <2>1. runner' = [runner EXCEPT ![r] = [pc |-> "check", at |-> v + 1]]
    BY <1>3 DEF MigrationApplied, Goes
  <2>2. v + 1 \in 1..Len(schema) + 1
    BY <1>1, <1>3
  <2> QED
    BY <1>1, <2>1, <2>2 DEF MigrationApplied, MInv, MigrationTypes, OneInside, AtTheEnd, InOrder,
      NobodyFailed, Inside, States
<1>4. CASE ~(v > Files[r]) /\ v \notin applied
  <2>1. runner' = [runner EXCEPT ![r] = [pc |-> "apply", at |-> v]]
    BY <1>4 DEF MigrationApplied, Goes
  <2>2. v = Len(schema) + 1
    BY <1>1, <1>4
  <2> QED
    BY <1>1, <2>1, <2>2 DEF MigrationApplied, MInv, MigrationTypes, OneInside, AtTheEnd, InOrder,
      NobodyFailed, Inside, States
<1> QED BY <1>2, <1>3, <1>4

LEMMA ApplyInv == ASSUME MInv, NEW r \in Runners, ApplyMigration(r) PROVE MInv'
<1> DEFINE v == runner[r].at
<1>1. /\ runner[r].pc = "apply" /\ v = Len(schema) + 1 /\ Len(schema) \in Nat
      /\ applied = 1..Len(schema) /\ schema \in Seq(Nat)
  BY DEF ApplyMigration, MInv, MigrationTypes, AtTheEnd, Inside, InOrder
<1>2. v \notin applied BY <1>1
<1>3. /\ schema' = Append(schema, v) /\ applied' = applied \cup {v}
      /\ runner' = [runner EXCEPT ![r] = [pc |-> "check", at |-> v + 1]]
      /\ failures' = failures
  BY <1>2 DEF ApplyMigration, Goes
<1>4. schema' \in Seq(Nat) /\ Len(schema') = Len(schema) + 1
  BY <1>1, <1>3
<1>5. InOrder'
  <2>1. applied' = 1..Len(schema')
    BY <1>1, <1>3, <1>4
  <2>2. \A i \in 1..Len(schema') : schema'[i] = i
    BY <1>1, <1>3, <1>4 DEF MInv, InOrder
  <2>3. schema' = [i \in 1..Len(schema') |-> schema'[i]]
    BY <1>4
  <2> QED BY <2>1, <2>2, <2>3 DEF InOrder
<1>6. MigrationTypes' BY <1>1, <1>3, <1>4 DEF MInv, MigrationTypes, States
<1>7. OneInside' BY <1>1, <1>3 DEF MInv, MigrationTypes, OneInside, Inside
<1>8. AtTheEnd'
  BY <1>1, <1>3, <1>4 DEF MInv, MigrationTypes, OneInside, AtTheEnd, Inside
<1>9. NobodyFailed' BY <1>3 DEF MInv, MigrationTypes, NobodyFailed
<1> QED BY <1>5, <1>6, <1>7, <1>8, <1>9 DEF MInv

LEMMA FailInv == ASSUME MInv, NEW r \in Runners, RunnerFails(r) PROVE MInv'
BY DEF RunnerFails, NotRunning, MInv, MigrationTypes, OneInside, AtTheEnd, InOrder, NobodyFailed, Inside,
   States

LEMMA MInvInductive == MInv /\ [MigrationsNext]_migrationVars => MInv'
<1> SUFFICES ASSUME MInv, [MigrationsNext]_migrationVars PROVE MInv'
  OBVIOUS
<1>1. CASE MigrationsNext
  BY <1>1, StartInv, LockInv, CheckInv, ApplyInv, FailInv DEF MigrationsNext
<1>2. CASE UNCHANGED migrationVars
  BY <1>2 DEF migrationVars, MInv, MigrationTypes, OneInside, AtTheEnd, InOrder, NobodyFailed, Inside
<1> QED BY <1>1, <1>2

\* However many instances migrate at once, crash and start again, the migrations
\* take effect in the order of their files, each once (lockMigrations,
\* applyMigration).
THEOREM MigrationsAreInOrder == MigrationsSpec => []MigratedInOrder
<1>1. MInv => MigratedInOrder
  BY DEF MInv, InOrder, NobodyFailed, MigratedInOrder
<1> QED BY <1>1, InitMInv, MInvInductive, PTL DEF MigrationsSpec

-----------------------------------------------------------------------------
(* The rate limiter.                                                       *)

\* Times are read before they are used, and not too long before.
CallerInv ==
  \A x \in Callers : caller[x] # Away =>
    caller[x] \in Nat /\ caller[x] <= tick /\ tick <= caller[x] + MaxWait

BucketType == [windowStart : Nat, count : Nat \ {0}, lastSeen : Nat]
LimiterTypes ==
  /\ tick \in Nat
  /\ caller \in [Callers -> Int]
  /\ bucket = NoBucket \/ bucket \in BucketType
  /\ granted \in Seq(Nat)
  /\ \A m, n \in 1..Len(granted) : m <= n => granted[m] <= granted[n]
  /\ \A n \in 1..Len(granted) : granted[n] <= tick

\* Calls let through in the running window, if there is one.
InWindow == IF bucket.count <= Limit THEN bucket.count ELSE Limit

\* The running window began when the one before it was over; what was let
\* through in each was decided within it, and let through at most MaxWait later.
WindowInv ==
  bucket # NoBucket =>
    /\ bucket.windowStart <= tick
    /\ bucket.windowStart <= bucket.lastSeen + MaxWait
    /\ InWindow <= Len(granted)
    /\ \A n \in 1..Len(granted) : granted[n] < bucket.windowStart + WindowTicks + MaxWait
    /\ \A n \in 1..Len(granted) - InWindow : granted[n] < bucket.windowStart + MaxWait
    /\ \A n \in 1..Len(granted) - InWindow - Limit :
         granted[n] + WindowTicks < bucket.windowStart + MaxWait

\* A counter that was cleaned up was too old to matter.
QuietInv ==
  bucket = NoBucket =>
    /\ \A n \in 1..Len(granted) : granted[n] < tick
    /\ \A n \in 1..Len(granted) - Limit : granted[n] + WindowTicks < tick

\* Where callers may wait longer than a window, nothing is promised.
LInv ==
  /\ CallerInv /\ LimiterTypes /\ AtMostTwoWindows
  /\ MaxWait <= WindowTicks => WindowInv /\ QuietInv

LEMMA InitLInv == LimiterInit => LInv
<1> SUFFICES ASSUME LimiterInit PROVE LInv OBVIOUS
<1>1. Len(granted) = 0 /\ tick = 0 /\ granted \in Seq(Nat) BY DEF LimiterInit
<1>2. 1..Len(granted) = {} /\ \A k \in Nat : 1..Len(granted) - k = {} BY <1>1
<1>3. 2 * Limit \in Nat /\ Limit \in Nat BY LimiterAssumption
<1> QED BY <1>1, <1>2, <1>3 DEF LimiterInit, LInv, CallerInv, LimiterTypes, Away,
                                AtMostTwoWindows, WindowInv, QuietInv

LEMMA ReadTimeInv == ASSUME LInv, NEW x \in Callers, ReadTime(x) PROVE LInv'
<1>1. UNCHANGED <<tick, bucket, granted>> BY DEF ReadTime
<1>2. CallerInv' BY LimiterAssumption DEF ReadTime, LInv, CallerInv, LimiterTypes
<1>3. LimiterTypes' BY <1>1 DEF ReadTime, LInv, LimiterTypes
<1> QED BY <1>1, <1>2, <1>3 DEF LInv, AtMostTwoWindows, WindowInv, QuietInv, InWindow

LEMMA PassTickInv == ASSUME LInv, PassTick PROVE LInv'
<1>1. UNCHANGED <<caller, bucket, granted>> /\ tick' = tick + 1 /\ tick \in Nat
  BY DEF PassTick, LInv, LimiterTypes
<1>2. CallerInv' BY <1>1, LimiterAssumption DEF PassTick, LInv, CallerInv
<1>3. LimiterTypes' BY <1>1 DEF LInv, LimiterTypes
<1>4. WindowInv => WindowInv' BY <1>1 DEF WindowInv, InWindow, LInv, LimiterTypes, BucketType
<1>5. QuietInv => QuietInv'
  <2> SUFFICES ASSUME QuietInv, bucket = NoBucket PROVE QuietInv'
    BY <1>1 DEF QuietInv
  <2>1. granted \in Seq(Nat) /\ Limit \in Nat BY LimiterAssumption DEF LInv, LimiterTypes
  <2>2. \A n \in 1..Len(granted) : granted[n] < tick + 1
    BY <1>1, <2>1 DEF QuietInv
  <2>3. \A n \in 1..Len(granted) - Limit : granted[n] + WindowTicks < tick + 1
    <3> SUFFICES ASSUME NEW n \in 1..Len(granted) - Limit
                 PROVE  granted[n] + WindowTicks < tick + 1
      OBVIOUS
    <3>1. granted[n] \in Nat BY <2>1
    <3>2. granted[n] + WindowTicks < tick BY DEF QuietInv
    <3> QED BY <1>1, <3>1, <3>2, LimiterAssumption
  <2> QED BY <1>1, <2>2, <2>3 DEF QuietInv
<1> QED BY <1>1, <1>2, <1>3, <1>4, <1>5 DEF LInv, AtMostTwoWindows

LEMMA PruneInv == ASSUME LInv, NEW x \in Callers, PruneLocked(x) PROVE LInv'
<1>1. UNCHANGED <<tick, granted>> /\ caller' = [caller EXCEPT ![x] = Away] BY DEF PruneLocked
<1>2. CallerInv' /\ LimiterTypes' BY <1>1 DEF PruneLocked, LInv, CallerInv, LimiterTypes, Away
<1>3. AtMostTwoWindows' BY <1>1 DEF LInv, AtMostTwoWindows
<1>4. CASE bucket' = bucket
  BY <1>1, <1>2, <1>3, <1>4 DEF LInv, WindowInv, QuietInv, InWindow
<1>5. CASE bucket' = NoBucket /\ bucket # NoBucket /\ Idle(bucket, caller[x])
  <2> SUFFICES ASSUME MaxWait <= WindowTicks PROVE WindowInv' /\ QuietInv'
    BY <1>2, <1>3 DEF LInv
  <2>1. /\ bucket \in BucketType /\ tick \in Nat /\ caller[x] \in Nat /\ caller[x] <= tick
        /\ WindowInv /\ granted \in Seq(Nat)
    BY <1>5 DEF LInv, LimiterTypes, CallerInv, PruneLocked
  <2>2. /\ bucket.windowStart \in Nat /\ bucket.lastSeen \in Nat /\ InWindow \in 1..Limit
    BY <2>1, LimiterAssumption DEF BucketType, InWindow
  <2>3. bucket.lastSeen + 3 * WindowTicks < tick
    BY <1>5, <2>1, <2>2, LimiterAssumption DEF Idle
  <2>4. bucket.windowStart + 2 * WindowTicks < tick
    BY <2>1, <2>2, <2>3, <1>5, LimiterAssumption, SMTT(30) DEF WindowInv
  <2>5. \A n \in 1..Len(granted) : granted[n] < tick
    <3> SUFFICES ASSUME NEW n \in 1..Len(granted) PROVE granted[n] < tick OBVIOUS
    <3>1. granted[n] \in Nat /\ granted[n] < bucket.windowStart + WindowTicks + MaxWait
      BY <1>5, <2>1 DEF WindowInv
    <3> QED BY <2>1, <2>2, <2>4, <3>1, LimiterAssumption
  <2>6. \A n \in 1..Len(granted) - Limit : granted[n] + WindowTicks < tick
    <3> SUFFICES ASSUME NEW n \in 1..Len(granted) - Limit
                 PROVE  granted[n] + WindowTicks < tick
      OBVIOUS
    <3>1. n \in 1..Len(granted) - InWindow /\ n \in 1..Len(granted) BY <2>1, <2>2, LimiterAssumption
    <3>2. granted[n] \in Nat /\ granted[n] < bucket.windowStart + MaxWait
      BY <1>5, <2>1, <3>1 DEF WindowInv
    <3> QED BY <2>1, <2>2, <2>4, <3>2, LimiterAssumption, SMTT(30)
  <2> QED BY <1>1, <1>5, <2>5, <2>6 DEF WindowInv, QuietInv
<1> QED BY <1>4, <1>5 DEF PruneLocked

\* One call more is counted.
LEMMA OneCallMore ==
  ASSUME NEW b \in BucketType, NEW now \in Nat,
         NEW c, c = [b EXCEPT !.count = @ + 1, !.lastSeen = now]
  PROVE  /\ c \in BucketType /\ c.lastSeen = now
         /\ c.windowStart = b.windowStart /\ c.count = b.count + 1
<1>1. b.count + 1 \in Nat \ {0} BY DEF BucketType
<1>2. /\ c.lastSeen = now /\ c.windowStart = b.windowStart /\ c.count = b.count + 1
  BY DEF BucketType
<1> QED BY <1>1, <1>2 DEF BucketType

\* One call more is let through.
LEMMA OneMore ==
  ASSUME NEW s \in Seq(Nat), NEW e \in Nat
  PROVE  /\ Append(s, e) \in Seq(Nat) /\ Len(Append(s, e)) = Len(s) + 1
         /\ Append(s, e)[Len(s) + 1] = e
         /\ \A n \in 1..Len(s) : Append(s, e)[n] = s[n]
OBVIOUS

\* What a call at time now finds and leaves; s is the new list.
LEMMA AllowInv == ASSUME LInv, NEW x \in Callers, Allow(x) PROVE LInv'
<1> DEFINE now == caller[x]  b == Counted(now)  len == Len(granted)
<1>1. /\ now \in Nat /\ now <= tick /\ tick <= now + MaxWait /\ tick \in Nat /\ granted \in Seq(Nat)
      /\ len \in Nat /\ Limit \in Nat \ {0} /\ WindowTicks \in Nat \ {0} /\ MaxWait \in Nat
  BY LimiterAssumption DEF LInv, CallerInv, LimiterTypes, Allow
<1>2. bucket' = b /\ tick' = tick /\ caller' = [caller EXCEPT ![x] = Away]
  BY DEF Allow
<1>3. /\ b \in BucketType /\ b.lastSeen = now
      /\ \/ b.windowStart = now /\ b.count = 1 /\ (bucket = NoBucket \/ Expired(bucket, now))
         \/ /\ bucket \in BucketType /\ ~Expired(bucket, now)
            /\ b.windowStart = bucket.windowStart /\ b.count = bucket.count + 1
  <2>1. CASE bucket = NoBucket \/ Expired(bucket, now)
    BY <1>1, <2>1 DEF Counted, BucketType
  <2>2. CASE ~(bucket = NoBucket \/ Expired(bucket, now))
    <3>1. bucket \in BucketType BY <2>2 DEF LInv, LimiterTypes
    <3>2. b = [bucket EXCEPT !.count = @ + 1, !.lastSeen = now] BY <2>2 DEF Counted
    <3>3. /\ b \in BucketType /\ b.lastSeen = now
          /\ b.windowStart = bucket.windowStart /\ b.count = bucket.count + 1
      <4>1. \A c : c = [bucket EXCEPT !.count = @ + 1, !.lastSeen = now] =>
              /\ c \in BucketType /\ c.lastSeen = now
              /\ c.windowStart = bucket.windowStart /\ c.count = bucket.count + 1
        BY <1>1, <3>1, OneCallMore
      <4> QED BY <3>2, <4>1
    <3> QED BY <2>2, <3>1, <3>3
  <2> QED BY <2>1, <2>2
<1>4. bucket' # NoBucket BY <1>2, <1>3 DEF BucketType, NoBucket
<1>5. \/ b.count <= Limit /\ granted' = Append(granted, tick)
      \/ b.count > Limit /\ granted' = granted
  BY <1>1, <1>3 DEF Allow, BucketType
<1>12. tick \in Nat /\ Limit \in Nat \ {0} /\ WindowTicks \in Nat \ {0} /\ MaxWait \in Nat
  BY <1>1
<1> HIDE DEF b, now
<1>0. b.count \in Nat \ {0} /\ b.windowStart \in Nat BY <1>3 DEF BucketType
<1>6. /\ granted' \in Seq(Nat) /\ Len(granted') = len + (IF b.count <= Limit THEN 1 ELSE 0)
      /\ \A n \in 1..len : granted'[n] = granted[n]
      /\ b.count <= Limit => granted'[len + 1] = tick
      /\ \A n \in 1..Len(granted') : granted'[n] \in Nat
  <2>1. CASE b.count <= Limit /\ granted' = Append(granted, tick) BY <1>1, <2>1, OneMore
  <2>2. CASE b.count > Limit /\ granted' = granted BY <1>0, <1>1, <2>2
  <2>3. ~(b.count <= Limit /\ b.count > Limit) BY <1>0, <1>1
  <2> QED BY <1>5, <2>1, <2>2
<1>7. CallerInv' /\ caller' \in [Callers -> Int] BY <1>2 DEF LInv, CallerInv, LimiterTypes, Away
<1>11. \A n \in 1..Len(granted') :
         n \in 1..len \/ (n = len + 1 /\ b.count <= Limit /\ granted'[n] = tick)
  BY <1>0, <1>1, <1>6
<1>8. LimiterTypes'
  <2>1. \A n \in 1..Len(granted') : granted'[n] <= tick
    BY <1>1, <1>6, <1>11, SMTT(30) DEF LInv, LimiterTypes
  <2>2. \A m, n \in 1..Len(granted') : m <= n => granted'[m] <= granted'[n]
    <3> SUFFICES ASSUME NEW m \in 1..Len(granted'), NEW n \in 1..Len(granted'), m <= n
                 PROVE  granted'[m] <= granted'[n]
      OBVIOUS
    <3>1. CASE n \in 1..len
      <4>1. m \in 1..len BY <1>1, <3>1
      <4> QED BY <1>6, <3>1, <4>1 DEF LInv, LimiterTypes
    <3>2. CASE n = len + 1 /\ granted'[n] = tick BY <2>1, <3>2
    <3> QED BY <1>11, <3>1, <3>2
  <2> QED BY <1>1, <1>2, <1>3, <1>6, <1>7, <2>1, <2>2 DEF LimiterTypes
<1>9. CASE MaxWait <= WindowTicks
  <2> DEFINE ws == b.windowStart  k == IF b.count <= Limit THEN b.count ELSE Limit
  <2>1. WindowInv /\ QuietInv BY <1>9 DEF LInv
  <2>2. ws \in Nat /\ k \in 1..Limit /\ InWindow' = k /\ b.count \in Nat \ {0}
    BY <1>1, <1>2, <1>3 DEF BucketType, InWindow
  <2>3. /\ ws <= tick /\ ws <= now + MaxWait /\ k <= Len(granted')
        /\ \A n \in 1..len : granted[n] < ws + WindowTicks + MaxWait
        /\ \A n \in 1..Len(granted') - k : granted[n] < ws + MaxWait
        /\ \A n \in 1..Len(granted') - k - Limit : granted[n] + WindowTicks < ws + MaxWait
    <3> DEFINE new == Len(granted')
    <3>0. \A n \in 1..len : granted[n] \in Nat BY <1>1
    <3>1. CASE bucket = NoBucket
      <4>1. new = len + 1 /\ k = 1 /\ ws = now BY <1>1, <1>3, <1>6, <3>1 DEF NoBucket, BucketType
      <4>2. \A n \in 1..len : granted[n] < now + MaxWait BY <1>1, <2>1, <3>0, <3>1 DEF QuietInv
      <4>3. \A n \in 1..len - Limit : granted[n] + WindowTicks < now + MaxWait
        <5> SUFFICES ASSUME NEW n \in 1..len - Limit
                     PROVE  granted[n] + WindowTicks < now + MaxWait
          OBVIOUS
        <5>1. granted[n] \in Nat BY <1>1, <3>0
        <5> QED BY <1>1, <2>1, <3>1, <5>1 DEF QuietInv
      <4> QED BY <1>1, <3>0, <4>1, <4>2, <4>3
    <3>2. CASE bucket \in BucketType /\ Expired(bucket, now) /\ ws = now /\ b.count = 1
      <4>1. new = len + 1 /\ k = 1 /\ bucket # NoBucket BY <1>1, <1>6, <3>2 DEF NoBucket, BucketType
      <4>2. /\ bucket.windowStart \in Nat /\ InWindow \in 1..Limit
            /\ bucket.windowStart + WindowTicks <= ws
        BY <1>1, <3>2 DEF Expired, BucketType, InWindow
      <4>3. \A n \in 1..len : granted[n] < ws + MaxWait
        <5> SUFFICES ASSUME NEW n \in 1..len PROVE granted[n] < ws + MaxWait OBVIOUS
        <5>1. granted[n] \in Nat BY <3>0
        <5>2. granted[n] < bucket.windowStart + WindowTicks + MaxWait BY <2>1, <4>1 DEF WindowInv
        <5> QED BY <1>12, <2>2, <4>2, <5>1, <5>2
      <4>4. \A n \in 1..len - Limit : granted[n] + WindowTicks < ws + MaxWait
        <5> SUFFICES ASSUME NEW n \in 1..len - Limit
                     PROVE  granted[n] + WindowTicks < ws + MaxWait
          OBVIOUS
        <5>1. n \in 1..len - InWindow /\ granted[n] \in Nat BY <1>1, <3>0, <4>2
        <5>2. granted[n] < bucket.windowStart + MaxWait BY <2>1, <4>1, <5>1 DEF WindowInv
        <5> QED BY <1>12, <2>2, <4>2, <5>1, <5>2
      <4> QED BY <1>1, <3>0, <3>2, <4>1, <4>3, <4>4
    <3>3. CASE /\ bucket \in BucketType /\ ~Expired(bucket, now)
               /\ ws = bucket.windowStart /\ b.count = bucket.count + 1
      <4>1. bucket # NoBucket /\ bucket.count \in Nat \ {0} BY <3>3 DEF NoBucket, BucketType
      <4>2. new - k = len - InWindow /\ k <= new
        <5>1. InWindow <= len BY <2>1, <4>1 DEF WindowInv
        <5>2. new = len + (IF b.count <= Limit THEN 1 ELSE 0) BY <1>6
        <5>3. InWindow = IF bucket.count <= Limit THEN bucket.count ELSE Limit BY DEF InWindow
        <5>4. new \in Nat /\ k = (IF b.count <= Limit THEN b.count ELSE Limit) BY <1>6
        <5> HIDE DEF new, k, len
        <5>5. CASE b.count <= Limit
          <6>1. bucket.count <= Limit BY <1>1, <3>3, <4>1, <5>5
          <6>2. new = len + 1 /\ k = bucket.count + 1 /\ InWindow = bucket.count
            BY <3>3, <5>2, <5>3, <5>4, <5>5, <6>1
          <6> QED BY <1>1, <4>1, <5>1, <6>2
        <5>6. CASE ~(b.count <= Limit)
          <6>1. bucket.count >= Limit BY <1>1, <3>3, <4>1, <5>6
          <6>2. new = len /\ k = Limit /\ InWindow = Limit
            BY <1>1, <4>1, <5>2, <5>3, <5>4, <5>6, <6>1
          <6> QED BY <1>1, <5>1, <6>2
        <5> QED BY <5>5, <5>6
      <4>3. ws <= now + MaxWait BY <1>1, <2>1, <2>2, <3>3, <4>1 DEF WindowInv
      <4> QED BY <1>1, <2>1, <3>3, <4>1, <4>2, <4>3 DEF WindowInv
    <3> QED BY <1>3, <3>1, <3>2, <3>3 DEF LInv, LimiterTypes
  <2>9. ws <= tick BY <2>3
  <2>4. \A n \in 1..Len(granted') : granted'[n] < ws + WindowTicks + MaxWait
    <3>1. now < ws + WindowTicks
      BY <1>1, <1>3, <2>2 DEF Expired, BucketType
    <3>2. tick < ws + WindowTicks + MaxWait BY <1>1, <2>2, <3>1
    <3> QED BY <1>1, <1>6, <2>3, <3>2, SMTT(30)
  <2>5. Len(granted') - k <= len BY <1>1, <1>6, <2>2
  <2>6. WindowInv'
    <3>1. \A n \in 1..Len(granted') - k : granted'[n] < ws + MaxWait
      <4> SUFFICES ASSUME NEW n \in 1..Len(granted') - k PROVE granted'[n] < ws + MaxWait OBVIOUS
      <4>1. n \in 1..len BY <1>1, <1>6, <2>2, <2>5
      <4> QED BY <1>6, <2>3, <4>1
    <3>2. \A n \in 1..Len(granted') - k - Limit : granted'[n] + WindowTicks < ws + MaxWait
      <4> SUFFICES ASSUME NEW n \in 1..Len(granted') - k - Limit
                   PROVE  granted'[n] + WindowTicks < ws + MaxWait
        OBVIOUS
      <4>1. n \in 1..len BY <1>1, <1>6, <2>2, <2>5
      <4> QED BY <1>6, <2>3, <4>1
    <3> QED BY <1>2, <1>3, <2>2, <2>3, <2>4, <3>1, <3>2 DEF WindowInv
  <2>7. QuietInv' BY <1>4 DEF QuietInv
  <2>8. AtMostTwoWindows'
    <3> SUFFICES ASSUME NEW n \in 1..Len(granted') - 2 * Limit
                 PROVE  granted'[n + 2 * Limit] - granted'[n] > WindowTicks - MaxWait
      BY DEF AtMostTwoWindows
    <3>1. CASE n + 2 * Limit <= len
      <4>1. n \in 1..len - 2 * Limit /\ n \in 1..len /\ n + 2 * Limit \in 1..len BY <1>1, <1>6, <3>1
      <4> QED BY <1>6, <4>1 DEF LInv, AtMostTwoWindows
    <3>2. CASE n + 2 * Limit > len
      <4>1. n + 2 * Limit = len + 1 /\ b.count <= Limit /\ k = b.count /\ Len(granted') = len + 1
        <5>1. Len(granted') = len + 1 /\ b.count <= Limit BY <1>0, <1>1, <1>6, <3>2
        <5> QED BY <1>1, <3>2, <5>1
      <4>2. n \in 1..Len(granted') - k - Limit /\ n \in 1..len BY <1>1, <2>2, <4>1
      <4>3. granted[n] \in Nat /\ granted[n] + WindowTicks < ws + MaxWait BY <1>1, <2>3, <4>2
      <4>4. granted'[n + 2 * Limit] = tick /\ granted'[n] = granted[n] BY <1>6, <4>1, <4>2
      <4>5. granted[n] + WindowTicks < tick + MaxWait BY <1>12, <2>2, <2>9, <4>3
      <4> QED BY <1>12, <4>3, <4>4, <4>5
    <3> QED BY <1>1, <1>6, <3>1, <3>2
  <2> QED BY <1>7, <1>8, <2>6, <2>7, <2>8 DEF LInv
<1>10. CASE MaxWait > WindowTicks
  <2>1. AtMostTwoWindows'
    <3> SUFFICES ASSUME NEW n \in 1..Len(granted') - 2 * Limit
                 PROVE  granted'[n + 2 * Limit] - granted'[n] > WindowTicks - MaxWait
      BY DEF AtMostTwoWindows
    <3>1. n \in 1..Len(granted') /\ n + 2 * Limit \in 1..Len(granted') /\ n <= n + 2 * Limit
      BY <1>1, <1>6
    <3>2. granted'[n] <= granted'[n + 2 * Limit] BY <1>8, <3>1 DEF LimiterTypes
    <3>3. granted'[n] \in Nat /\ granted'[n + 2 * Limit] \in Nat BY <1>6, <3>1
    <3> QED BY <1>1, <1>10, <3>2, <3>3
  <2> QED BY <1>1, <1>7, <1>8, <1>10, <2>1 DEF LInv
<1> QED BY <1>1, <1>9, <1>10

LEMMA LInvInductive == LInv /\ [LimiterNext]_limiterVars => LInv'
<1> SUFFICES ASSUME LInv, [LimiterNext]_limiterVars PROVE LInv' OBVIOUS
<1>1. CASE PassTick BY <1>1, PassTickInv
<1>2. CASE \E x \in Callers : ReadTime(x) \/ Allow(x) \/ PruneLocked(x)
  BY <1>2, ReadTimeInv, AllowInv, PruneInv
<1>3. CASE UNCHANGED limiterVars
  BY <1>3 DEF limiterVars, LInv, CallerInv, LimiterTypes, AtMostTwoWindows, WindowInv, QuietInv,
              InWindow
<1> QED BY <1>1, <1>2, <1>3 DEF LimiterNext

\* Wherever windows begin, whenever counters are cleaned up, and however late callers
\* decide: no more than twice the limit in any stretch that is shorter than a window
\* by the longest wait (allow, pruneLocked).
THEOREM NeverMoreThanTwoWindows == LimiterSpec => []AtMostTwoWindows
<1>1. LInv => AtMostTwoWindows BY DEF LInv
<1> QED BY <1>1, InitLInv, LInvInductive, PTL DEF LimiterSpec
=============================================================================
