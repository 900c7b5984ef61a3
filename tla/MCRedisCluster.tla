--------------------------- MODULE MCRedisCluster ---------------------------
(***************************************************************************)
(* Two instances on one Redis.  Instances, handlers and ids are each        *)
(* interchangeable.                                                        *)
(***************************************************************************)
EXTENDS RedisCluster

LOCAL INSTANCE TLC

Symmetry == Permutations(Instances) \cup Permutations(Handlers) \cup Permutations(Ids)
=============================================================================
