------------------------- MODULE MCRedisIndexJobStore -------------------------
(* The instance of RedisIndexJobStore that TLC explores; callers are       *)
(* interchangeable.                                                        *)
EXTENDS RedisIndexJobStore, TLC

Interchangeable == Permutations(Calls)
=============================================================================
