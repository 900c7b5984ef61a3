-------------------------- MODULE SessionLifecycle --------------------------
(***************************************************************************)
(* What a waiting room promises about one visitor id: CheckRequest queues  *)
(* it or admits it at once (service.go:79-84), a queued id leaves the queue *)
(* only by being popped for admission, a popped id becomes active, an      *)
(* active one ends, and nothing ever comes back.                           *)
(***************************************************************************)
CONSTANT Ids

VARIABLE stage

Stages == {"new", "queued", "promoting", "active", "ended"}

Init == stage = [id \in Ids |-> "new"]

Move(ids, from, to) ==
  /\ \A id \in ids : stage[id] = from
  /\ stage' = [id \in Ids |-> IF id \in ids THEN to ELSE stage[id]]

(* One visitor at a time is queued, admitted or promoted; a batch is popped *)
(* and expired sessions are evicted together.                              *)
Enqueue(id) == Move({id}, "new", "queued")
Admit(id) == Move({id}, "new", "active")
Pop(ids) == Move(ids, "queued", "promoting")
Promote(id) == Move({id}, "promoting", "active")
End(ids) == Move(ids, "active", "ended")

Next ==
  \/ \E id \in Ids : Enqueue(id) \/ Admit(id) \/ Promote(id)
  \/ \E ids \in SUBSET Ids : Pop(ids) \/ End(ids)

Spec == Init /\ [][Next]_stage
=============================================================================
