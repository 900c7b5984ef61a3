--------------------------- MODULE MCWaitingRoom ---------------------------
(***************************************************************************)
(* Small waiting rooms for TLC.  Browsers and handlers are interchangeable; *)
(* ids are not, they are numbered.                                         *)
(***************************************************************************)
EXTENDS WaitingRoom

LOCAL INSTANCE TLC

Symmetry == Permutations(Visitors) \cup Permutations(Handlers)
=============================================================================
