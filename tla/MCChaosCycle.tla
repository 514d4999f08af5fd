---------------------------- MODULE MCChaosCycle ----------------------------
(* Schedules of up to two phases for TLC: overlapping, touching and apart.  *)
EXTENDS ChaosCycle

CONSTANTS t1, t2, k1, k2

MCTarget == {t1, t2}
MCKnob == {k1, k2}

First == [target : {t1}, start : {0}, duration : {1, 3}, params : {{k1}, {k1, k2}}]

Second == [target : {t1, t2}, start : 0 .. 4, duration : {1, 3}, params : {{k1}, {k2}}]

MCSchedules ==
  [cooldown : {0, 2},
   phases : {<<>>} \cup {<<p>> : p \in First} \cup {<<p, q>> : p \in First, q \in Second}]

=============================================================================
