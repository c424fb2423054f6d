----------------------------- MODULE MCRedisQueue -----------------------------
(* Small instances of the Redis queue for TLC. *)
EXTENDS RedisQueue

BackoffSteps == <<0, 1>>

Symmetry == Permutations(Workers)
================================================================================
