---------------------------- MODULE RedisLimiter ----------------------------
(***************************************************************************)
(* The token bucket of one tenant in Redis, shared by the replicas of the  *)
(* gateway.  The script runs alone, with the time its replica sent; the    *)
(* key expires by the clock of Redis.  A script that runs again after a    *)
(* lost answer is one more request here.                                   *)
(***************************************************************************)
EXTENDS TokenBucket

VARIABLE expires  \* when the key is gone

\* registry.ts has no tenant without a refill
ASSUME RedisAssumption == Refill > 0 /\ Lag <= 1

redisVars == <<bucketVars, expires>>

Ceiling(a, b) == (a + b - 1) \div b

\* Mutant: rounded down and without the second on top.
TtlShort == IF Refill > 0 THEN Capacity \div Refill ELSE 60

Ttl == IF Refill > 0 THEN Ceiling(Capacity, Refill) + 1 ELSE 60

Present == clock < expires

\* The tokens and the time the script starts from, and what it refills.
Stored == IF Present THEN tokens ELSE Capacity

StoredAt(now) == IF Present THEN ts ELSE now

Held(now) == AtMost(Capacity, Stored + Elapsed(StoredAt(now), now) * Refill)

RedisInit == BucketInit /\ expires = 0

RedisTick == Tick /\ UNCHANGED expires

Allow(now) ==
  /\ Held(now) >= Unit
  /\ tokens' = Held(now) - Unit
  /\ grants' = Append(grants, clock)

Deny(now) ==
  /\ Held(now) < Unit
  /\ tokens' = Held(now)
  /\ UNCHANGED grants

\* TOKEN_BUCKET_LUA
Script(now) ==
  /\ Allow(now) \/ Deny(now)
  /\ Stamp(now)
  /\ expires' = clock + Ttl

RedisNext == RedisTick \/ \E now \in Times : Script(now)

RedisSpec == RedisInit /\ [][RedisNext]_redisVars

-----------------------------------------------------------------------------
(* The two limiters give the same verdicts: the key expires only when the  *)
(* bucket would be full again for every request that may still come.       *)
ImplementsBucket == BucketSpec

\* The key outlives the time the bucket takes to fill, by the second that a
\* request may lag.
ExpiryInv ==
  /\ BucketTypeOK
  /\ expires \in Nat
  /\ ts <= clock
  /\ tokens <= Capacity
  /\ expires = 0 => tokens = Capacity
  /\ expires # 0 => expires >= ts + Ttl
=============================================================================
