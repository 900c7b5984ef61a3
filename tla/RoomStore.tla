------------------------------ MODULE RoomStore ------------------------------
(***************************************************************************)
(* What the Store interface of internal/room/store.go promises its         *)
(* callers, for one room: every call is one atomic step on a set of        *)
(* waiting visitors and a map of active sessions, and a pop answers whom   *)
(* it took.  No order is kept in the state; FIFO is a property of the pop. *)
(***************************************************************************)
EXTENDS Integers, FiniteSets, Functions

CONSTANTS
  Ids,      \* visitor ids
  Times     \* Unix millis: scores, expiries, clock readings

VARIABLES
  clock,    \* the wall clock, in millis
  waiting,  \* score of every queued id
  active,   \* expiry of every active id
  popped    \* the ids the last call answered, and its method, if it was a pop

vars == <<clock, waiting, active, popped>>

NoPop == [method |-> "none", ids |-> <<>>]

Init ==
  /\ clock = 0
  /\ waiting = [id \in {} |-> 0]
  /\ active = [id \in {} |-> 0]
  /\ popped = NoPop

Advance ==
  /\ clock + 1 \in Times
  /\ clock' = clock + 1
  /\ UNCHANGED <<waiting, active, popped>>

Assign(f, id, value) == [i \in DOMAIN f \cup {id} |-> IF i = id THEN value ELSE f[i]]

(* AddActive, and ExtendActive of a session that exists. *)
SetExpiry(id, exp) ==
  /\ active' = Assign(active, id, exp)
  /\ popped' = NoPop
  /\ UNCHANGED <<clock, waiting>>

(* RemoveActive, by hand. *)
Remove(id) ==
  /\ active' = Restrict(active, DOMAIN active \ {id})
  /\ popped' = NoPop
  /\ UNCHANGED <<clock, waiting>>

(* ActiveCount and CleanupExpiredActive: sessions whose expiry has come may *)
(* go, and no others.                                                       *)
Evict ==
  /\ \E gone \in SUBSET {id \in DOMAIN active : active[id] <= clock} :
       active' = Restrict(active, DOMAIN active \ gone)
  /\ popped' = NoPop
  /\ UNCHANGED <<clock, waiting>>

(* Enqueue, idempotent by id: the first score counts. *)
Enqueue(id, score) ==
  /\ waiting' = IF id \in DOMAIN waiting THEN waiting ELSE Assign(waiting, id, score)
  /\ popped' = NoPop
  /\ UNCHANGED <<clock, active>>

(* PopForAdmission; fifo takes the lowest scores, lowest first. *)
LowestFirst(ids) ==
  /\ \A i, j \in DOMAIN ids : i < j => waiting[ids[i]] <= waiting[ids[j]]
  /\ \A i \in DOMAIN ids, left \in DOMAIN waiting \ Range(ids) : waiting[ids[i]] <= waiting[left]

Pop(ids, method) ==
  /\ method = "fifo" => LowestFirst(ids)
  /\ waiting' = Restrict(waiting, DOMAIN waiting \ Range(ids))
  /\ popped' = [method |-> method, ids |-> ids]
  /\ UNCHANGED <<clock, active>>

(* RemoveFromQueue *)
Leave(id) ==
  /\ waiting' = Restrict(waiting, DOMAIN waiting \ {id})
  /\ popped' = NoPop
  /\ UNCHANGED <<clock, active>>

Next ==
  \/ Advance
  \/ \E id \in Ids, t \in Times : SetExpiry(id, t) \/ Enqueue(id, t)
  \/ \E id \in Ids : Remove(id) \/ Leave(id)
  \/ Evict
  \/ \E n \in 1..Cardinality(DOMAIN waiting) :
       \E ids \in Injection(1..n, DOMAIN waiting)  :
         \E method \in {"fifo", "random"} : Pop(ids, method)

Spec == Init /\ [][Next]_vars
=============================================================================
