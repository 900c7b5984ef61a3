------------------------------- MODULE MemRoom -------------------------------
(***************************************************************************)
(* One room of the in-memory store (internal/room/mem_store.go): the       *)
(* sorted queue, its existence set and the map from active id to expiry,   *)
(* with the critical section of every Store method as an operator on it.   *)
(* The clock reading a method makes before it takes the lock is its `now`. *)
(***************************************************************************)
EXTENDS Integers, Sequences, FiniteSets, Functions

(* memRoom as getOrCreate makes it. *)
EmptyRoom == [queue |-> <<>>, qSet |-> {}, active |-> [id \in {} |-> 0]]

QueueItem(id, score) == [id |-> id, score |-> score]

-----------------------------------------------------------------------------
(* Active sessions. *)

(* ActiveCount evicts what has expired and counts the rest. *)
Evicted(r, now) ==
  [r EXCEPT !.active = Restrict(@, {id \in DOMAIN @ : now <= @[id]})]

ActiveCount(r, now) == Cardinality(DOMAIN Evicted(r, now).active)

AddActive(r, id, exp) ==
  [r EXCEPT !.active = [i \in DOMAIN @ \cup {id} |-> IF i = id THEN exp ELSE @[i]]]

(* A slip: extending what is not there. *)
ExtendOrAdd(r, id, exp) == AddActive(r, id, exp)

ExtendActive(r, id, exp) ==
  IF id \in DOMAIN r.active THEN AddActive(r, id, exp) ELSE r

RemoveActive(r, id) == [r EXCEPT !.active = Restrict(@, DOMAIN @ \ {id})]

(* A slip: the comparison turned round. *)
CleanupLive(r, now) ==
  [r EXCEPT !.active = Restrict(@, {id \in DOMAIN @ : @[id] <= now})]

CleanupExpiredActive(r, now) ==
  [r EXCEPT !.active = Restrict(@, {id \in DOMAIN @ : now < @[id]})]

-----------------------------------------------------------------------------
(* The queue. *)

QueueLen(r) == Len(r.queue)

ExistsInQueue(r, id) == id \in r.qSet

(* sort.Search(n, f): binary search for the boundary of f over 0..n-1, by  *)
(* halving the range r[1]..r[2] it can lie in.                             *)
Search(n, f) ==
  LET between[r \in (0..n) \X (0..n)] ==
        LET h == (r[1] + r[2]) \div 2
        IN  IF r[1] >= r[2] THEN r[1]
            ELSE IF f[h] THEN between[<<r[1], h>>] ELSE between[<<h + 1, r[2]>>]
  IN  between[<<0, n>>]

(* Where a new item goes: before the first item whose score is not lower.  *)
(* sort.Search finds that place because the queue is sorted, and there the *)
(* items of a lower score are exactly the ones in front of it.             *)
InsertionPoint(q, score) == Cardinality({i \in DOMAIN q : q[i].score < score})

(* A slip: appending without the shift. *)
InsertedLast(q, idx, item) == Append(q, item)

(* Enqueue of an id that is not queued, at index idx (append, copy, store). *)
Inserted(q, idx, item) ==
  [i \in 1..Len(q) + 1 |->
     IF i <= idx THEN q[i] ELSE IF i = idx + 1 THEN item ELSE q[i - 1]]

EnqueueNew(r, id, score) ==
  [queue  |-> Inserted(r.queue, InsertionPoint(r.queue, score), QueueItem(id, score)),
   qSet   |-> r.qSet \cup {id},
   active |-> r.active]

(* GetPosition: the zero-based index of id, found only if qSet has it. *)
Found(r, id) == id \in r.qSet /\ \E i \in DOMAIN r.queue : r.queue[i].id = id

Position(r, id) ==
  IF Found(r, id)
    THEN CHOOSE p \in 0..Len(r.queue) - 1 :
           r.queue[p + 1].id = id /\ \A j \in 1..p : r.queue[j].id # id
    ELSE 0

(* PopForAdmission: the indices taken, in the order they are taken, and    *)
(* the indices left, in queue order.                                       *)
PopSize(r, n) == IF n > Len(r.queue) THEN Len(r.queue) ELSE n

(* A slip: popping at the end of the slice. *)
TakesLast(q, n, method) == {[i \in 1..n |-> Len(q) - n + i]}

Takes(q, n, method) ==
  IF method = "random" THEN Injection(1..n, DOMAIN q) ELSE {[i \in 1..n |-> i]}

(* A slip: filling a gap with the last item. *)
KeepsAnyOrder(q, take) ==
  LET left == DOMAIN q \ Range(take)
  IN  {keep \in [1..Len(q) - Len(take) -> left] : Range(keep) = left}

Keeps(q, take) ==
  LET left == DOMAIN q \ Range(take)
  IN  {keep \in [1..Len(q) - Len(take) -> left] :
         /\ Range(keep) = left
         /\ \A i, j \in DOMAIN keep : i < j => keep[i] < keep[j]}

Picked(q, index) == [i \in DOMAIN index |-> q[index[i]]]

IdsOf(items) == {items[i].id : i \in DOMAIN items}

(* A slip: leaving the marks of popped ids. *)
PoppedMarked(r, take, keep) == [r EXCEPT !.queue = Picked(r.queue, keep)]

Popped(r, take, keep) ==
  [queue  |-> Picked(r.queue, keep),
   qSet   |-> r.qSet \ IdsOf(Picked(r.queue, take)),
   active |-> r.active]

(* A slip: removing the entry and not its mark. *)
RemoveEntryOnly(r, id) ==
  IF Found(r, id)
    THEN LET p == Position(r, id)
         IN  [r EXCEPT !.queue = SubSeq(@, 1, p) \o SubSeq(@, p + 2, Len(@))]
    ELSE r

(* RemoveFromQueue: nothing if qSet lacks id, else its first entry and its *)
(* mark in qSet go.                                                        *)
RemoveFromQueue(r, id) ==
  IF Found(r, id)
    THEN LET p == Position(r, id)
         IN  [r EXCEPT !.queue = SubSeq(@, 1, p) \o SubSeq(@, p + 2, Len(@)),
                       !.qSet = @ \ {id}]
    ELSE [r EXCEPT !.qSet = @ \ {id}]

-----------------------------------------------------------------------------
(* What a room is made of, and what its queue must not hold. *)
RoomOK(r, ids, scores, times) ==
  /\ r = [queue |-> r.queue, qSet |-> r.qSet, active |-> r.active]
  /\ r.queue \in Seq([id : ids, score : scores])
  /\ r.qSet \subseteq ids
  /\ DOMAIN r.active \subseteq ids
  /\ r.active \in [DOMAIN r.active -> times]

NoIdTwice(items) == \A i, j \in DOMAIN items : items[i].id = items[j].id => i = j

(* The score every queued id waits with. *)
ScoreOf(q, id) == q[CHOOSE i \in DOMAIN q : q[i].id = id].score

QueueScores(q) == [id \in IdsOf(q) |-> ScoreOf(q, id)]
=============================================================================
