---------------------------- MODULE TokenBucket -----------------------------
(***************************************************************************)
(* The token bucket of one tenant, as the in-process limiter of the        *)
(* gateway keeps it.  A token is Unit parts and Refill parts come in every *)
(* second.  A request brings the time it read before it waited for its     *)
(* turn, which is up to Lag seconds old.                                   *)
(***************************************************************************)
EXTENDS Naturals, Sequences

CONSTANTS
  Unit,      \* parts of a token
  Capacity,  \* parts the bucket holds
  Refill,    \* parts per second
  Lag,       \* seconds a request's time may lie behind the clock
  MaxTime,   \* bound: seconds
  MaxBack    \* bound: seconds the bucket is set back

ASSUME BucketAssumption ==
  /\ Unit \in Nat \ {0}
  /\ Capacity \in Nat
  /\ Refill \in Nat
  /\ Lag \in Nat
  /\ MaxTime \in Nat
  /\ MaxBack \in Nat

VARIABLES
  clock,
  tokens,
  ts,      \* lastRefillMs
  grants,  \* when a token was taken
  back     \* seconds ts was set back

bucketVars == <<clock, tokens, ts, grants, back>>

AtMost(a, b) == IF a < b THEN a ELSE b

\* seconds from a to b, none if b is before a
Elapsed(a, b) == IF a < b THEN b - a ELSE 0

\* What the bucket holds at a time.
Refilled(now) == AtMost(Capacity, tokens + Elapsed(ts, now) * Refill)

\* the times a request that is handled now may bring
Times == {now \in 0 .. clock : now + Lag >= clock}

BucketInit ==
  /\ clock = 0
  /\ tokens = Capacity
  /\ ts = 0
  /\ grants = <<>>
  /\ back = 0

Tick ==
  /\ clock < MaxTime
  /\ clock' = clock + 1
  /\ UNCHANGED <<tokens, ts, grants, back>>

Take(now) ==
  /\ Refilled(now) >= Unit
  /\ tokens' = Refilled(now) - Unit
  /\ grants' = Append(grants, clock)

Refuse(now) ==
  /\ Refilled(now) < Unit
  /\ tokens' = Refilled(now)
  /\ UNCHANGED grants

\* tryConsume
Stamp(now) ==
  /\ ts' = now
  /\ back' = back + Elapsed(now, ts)
  /\ back' <= MaxBack
  /\ UNCHANGED clock

TryConsume(now) == (Take(now) \/ Refuse(now)) /\ Stamp(now)

BucketNext == Tick \/ \E now \in Times : TryConsume(now)

BucketSpec == BucketInit /\ [][BucketNext]_bucketVars

-----------------------------------------------------------------------------
BucketTypeOK ==
  /\ clock \in Nat
  /\ tokens \in Nat
  /\ ts \in Nat
  /\ grants \in Seq(Nat)
  /\ back \in Nat

\* what came in, and what went out or is left
Budget ==
  /\ ts <= clock
  /\ tokens <= Capacity
  /\ Len(grants) * Unit + tokens <= Capacity + Refill * (ts + back)

(* No more tokens are taken than the bucket held at first and than came in *)
(* since, where every second that a request with an older time sets the    *)
(* bucket back comes in twice.                                             *)
GrantsBounded == Len(grants) * Unit <= Capacity + Refill * (clock + back)

=============================================================================
