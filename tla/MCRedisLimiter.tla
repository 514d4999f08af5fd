--------------------------- MODULE MCRedisLimiter ---------------------------
(* A bucket of two tokens and a half that fills in five seconds.           *)
EXTENDS RedisLimiter
=============================================================================
