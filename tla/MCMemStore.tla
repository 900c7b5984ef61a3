----------------------------- MODULE MCMemStore -----------------------------
(***************************************************************************)
(* Two callers are enough for a race on the room, on the queue and on an   *)
(* expiry, three visitors for a pop out of the middle of the queue;        *)
(* callers and ids are interchangeable.                                    *)
(***************************************************************************)
EXTENDS MemStore

LOCAL INSTANCE TLC

Symmetry == Permutations(Threads) \cup Permutations(Ids)
=============================================================================
