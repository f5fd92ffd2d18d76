---------------------------- MODULE RateLimiter ----------------------------
(***************************************************************************)
(* The counter of one key (backend/internal/httpapi/ratelimit.go).  The    *)
(* time is read before the lock is taken, so that a caller may decide with *)
(* a time that others have left behind.  Calls for other keys appear where *)
(* one of them is the 256th call and cleans up the whole map.              *)
(***************************************************************************)
EXTENDS Integers, Sequences

CONSTANTS Callers, Limit, WindowTicks,
          LastTick,    \* bound: when the clock stops
          MaxWait,     \* bound: how long a caller waits for the lock
          MaxRefused   \* bound: calls refused in one window

ASSUME LimiterAssumption ==
  /\ Limit \in Nat \ {0} /\ WindowTicks \in Nat \ {0}
  /\ LastTick \in Nat /\ MaxWait \in Nat /\ MaxRefused \in Nat

VARIABLES tick,
          caller,   \* of each caller: the time it has read, or Away
          bucket,   \* the counter, or NoBucket
          granted   \* when calls were let through, in order

limiterVars == <<tick, caller, bucket, granted>>

Away == -1
NoBucket == [count |-> 0]

ReadTime(x) ==
  /\ caller[x] = Away
  /\ caller' = [caller EXCEPT ![x] = tick]
  /\ UNCHANGED <<tick, bucket, granted>>

\* The counter after a call at that time.
Expired(b, now) == now - b.windowStart >= WindowTicks
Counted(now) ==
  IF bucket = NoBucket \/ Expired(bucket, now)
  THEN [windowStart |-> now, count |-> 1, lastSeen |-> now]
  ELSE [bucket EXCEPT !.count = @ + 1, !.lastSeen = now]
Allow(x) ==
  LET b == Counted(caller[x])
  IN /\ caller[x] # Away /\ b.count <= Limit + MaxRefused
     /\ bucket' = b
     /\ granted' = IF b.count <= Limit THEN Append(granted, tick) ELSE granted
     /\ caller' = [caller EXCEPT ![x] = Away]
     /\ UNCHANGED tick

\* Mutated form: clean-up of whatever was not seen in this tick.
IdleAtOnce(b, now) == now > b.lastSeen
Idle(b, now) == now - b.lastSeen > 3 * WindowTicks
PruneLocked(x) ==
  /\ caller[x] # Away
  /\ bucket' = IF bucket # NoBucket /\ Idle(bucket, caller[x]) THEN NoBucket ELSE bucket
  /\ caller' = [caller EXCEPT ![x] = Away]
  /\ UNCHANGED <<tick, granted>>

PassTick ==
  /\ tick < LastTick
  /\ \A x \in Callers : caller[x] # Away => tick < caller[x] + MaxWait
  /\ tick' = tick + 1
  /\ UNCHANGED <<caller, bucket, granted>>

LimiterInit ==
  /\ tick = 0
  /\ caller = [x \in Callers |-> Away]
  /\ bucket = NoBucket
  /\ granted = <<>>

LimiterNext ==
  \/ PassTick
  \/ \E x \in Callers : ReadTime(x) \/ Allow(x) \/ PruneLocked(x)

LimiterSpec == LimiterInit /\ [][LimiterNext]_limiterVars

-----------------------------------------------------------------------------

\* A key gets at most twice its limit in any stretch that is shorter than a window
\* by as long as a caller may wait: the end of one window and the start of another
\* (allow, pruneLocked).  Of that many calls and one more, the last comes later.
AtMostTwoWindows ==
  \A n \in 1..Len(granted) - 2 * Limit :
    granted[n + 2 * Limit] - granted[n] > WindowTicks - MaxWait
=============================================================================
