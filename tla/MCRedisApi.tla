----------------------------- MODULE MCRedisApi -----------------------------
(* RedisApi with small sets of model values.                               *)
EXTENDS RedisApi

CONSTANTS t1, t2, k1, k2, c1, c2
=============================================================================
