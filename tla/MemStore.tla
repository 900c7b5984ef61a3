------------------------------ MODULE MemStore ------------------------------
(***************************************************************************)
(* The in-memory store under concurrent callers: internal/room/mem_store.go. *)
(* A call finds or creates its room (two locks, a double check), may read   *)
(* the clock, and runs one critical section on the room.  IsActive is the  *)
(* exception: it compares after it has unlocked.                           *)
(***************************************************************************)
EXTENDS MemRoom

CONSTANTS
  Threads,  \* callers: request handlers and the worker
  Ids,      \* visitor ids
  MaxTime   \* bound: last instant of the clock, and largest score or expiry

ASSUME StoreAssumption == MaxTime \in Nat /\ "none" \notin Ids

VARIABLES
  clock,    \* the wall clock, in millis
  heap,     \* the memRooms allocated, in order of allocation
  ref,      \* s.rooms[roomID]: index into heap, 0 while absent
  call,     \* the call each thread is in
  popped    \* the ids the last call answered, if it was PopForAdmission

store == <<heap, ref, popped>>

vars == <<clock, heap, ref, call, popped>>

Times == 0..MaxTime

Methods == {"fifo", "random"}

Idle == [pc |-> "idle", room |-> 0, since |-> 0, id |-> "none", exp |-> 0]

NoPop == [method |-> "none", ids |-> <<>>]

Init ==
  /\ clock = 0
  /\ heap = <<>>
  /\ ref = 0
  /\ call = [t \in Threads |-> Idle]
  /\ popped = NoPop

-----------------------------------------------------------------------------
(* Two slips: using the room without looking whether it is there, and      *)
(* creating it without looking again.                                      *)
LookupUnchecked(t) ==
  /\ call[t].pc = "idle"
  /\ call' = [call EXCEPT ![t].pc = "ready", ![t].room = ref, ![t].since = clock]
  /\ UNCHANGED <<clock, store>>

CreateUnchecked(t) ==
  /\ call[t].pc = "create"
  /\ heap' = Append(heap, EmptyRoom) /\ ref' = Len(heap')
  /\ call' = [call EXCEPT ![t].pc = "ready", ![t].room = ref', ![t].since = clock]
  /\ UNCHANGED <<clock, popped>>

(* getOrCreate *)
Lookup(t) ==
  /\ call[t].pc = "idle"
  /\ call' = [call EXCEPT ![t].pc = IF ref # 0 THEN "ready" ELSE "create",
                          ![t].room = ref,
                          ![t].since = clock]
  /\ UNCHANGED <<clock, store>>

(* The room was missing under the read lock; it is looked up once more     *)
(* under the write lock before a new one is made.                          *)
Create(t) ==
  /\ call[t].pc = "create"
  /\ IF ref # 0
       THEN UNCHANGED <<heap, ref>>
       ELSE heap' = Append(heap, EmptyRoom) /\ ref' = Len(heap')
  /\ call' = [call EXCEPT ![t].pc = "ready", ![t].room = ref', ![t].since = clock]
  /\ UNCHANGED <<clock, popped>>

-----------------------------------------------------------------------------
(* A critical section of thread t that leaves room r behind, and returns.  *)
Room(t) == heap[call[t].room]

ReturnPop(t, r, pop) ==
  /\ call[t].pc = "ready"
  /\ heap' = [heap EXCEPT ![call[t].room] = r]
  /\ call' = [call EXCEPT ![t] = Idle]
  /\ popped' = pop
  /\ UNCHANGED <<clock, ref>>

Return(t, r) == ReturnPop(t, r, NoPop)

CountActive(t) ==
  \E now \in call[t].since..clock : Return(t, Evicted(Room(t), now))

(* The worker reads the clock before it calls, so the reading may be older *)
(* than the look-up of the room.                                           *)
Cleanup(t) ==
  \E now \in 0..clock : Return(t, CleanupExpiredActive(Room(t), now))

Add(t, id, exp) == Return(t, AddActive(Room(t), id, exp))

Extend(t, id, exp) == Return(t, ExtendActive(Room(t), id, exp))

Remove(t, id) == Return(t, RemoveActive(Room(t), id))

Enqueue(t, id, score) ==
  Return(t, IF ExistsInQueue(Room(t), id) THEN Room(t) ELSE EnqueueNew(Room(t), id, score))

Leave(t, id) == Return(t, RemoveFromQueue(Room(t), id))

PopForAdmission(t, n, method) ==
  /\ call[t].pc = "ready"
  /\ IF Room(t).queue = <<>>
       THEN Return(t, Room(t))
       ELSE \E take \in Takes(Room(t).queue, PopSize(Room(t), n), method) :
              \E keep \in Keeps(Room(t).queue, take) :
                ReturnPop(t, Popped(Room(t), take, keep),
                          [method |-> method,
                           ids |-> [i \in DOMAIN take |-> Room(t).queue[take[i]].id]])

(* IsActive reads the expiry under the lock; an absent id is answered at   *)
(* once ...                                                                *)
ReadExpiry(t, id) ==
  /\ call[t].pc = "ready"
  /\ call' = [call EXCEPT ![t] =
                IF id \in DOMAIN Room(t).active
                  THEN [@ EXCEPT !.pc = "compare", !.since = 0,
                                 !.id = id, !.exp = Room(t).active[id]]
                  ELSE Idle]
  /\ UNCHANGED <<clock, store>>

(* ... and a present one is compared with the clock after the unlock. *)
Compare(t) ==
  /\ call[t].pc = "compare"
  /\ call' = [call EXCEPT ![t] = Idle]
  /\ UNCHANGED <<clock, store>>

-----------------------------------------------------------------------------
Advance ==
  /\ clock < MaxTime
  /\ clock' = clock + 1
  /\ UNCHANGED <<store, call>>

Next ==
  \/ Advance
  \/ \E t \in Threads :
       \/ Lookup(t)
       \/ Create(t)
       \/ CountActive(t)
       \/ Cleanup(t)
       \/ Compare(t)
       \/ \E n \in 1..Cardinality(Ids), method \in Methods : PopForAdmission(t, n, method)
       \/ \E id \in Ids :
            \/ Remove(t, id)
            \/ Leave(t, id)
            \/ ReadExpiry(t, id)
            \/ \E time \in Times :
                 Add(t, id, time) \/ Extend(t, id, time) \/ Enqueue(t, id, time)

Spec == Init /\ [][Next]_vars

-----------------------------------------------------------------------------
(* The room every caller should see. *)
TheRoom == IF ref = 0 THEN EmptyRoom ELSE heap[ref]

Calls ==
  [pc : {"idle", "create", "ready", "compare"}, room : 0..Len(heap), since : Times,
   id : Ids \cup {"none"}, exp : Times]

TypeOK ==
  /\ clock \in Times
  /\ \A i \in DOMAIN heap : RoomOK(heap[i], Ids, Times, Times)
  /\ ref \in 0..Len(heap)
  /\ popped.method \in Methods \cup {"none"} /\ popped.ids \in Seq(Ids)
  /\ call \in [Threads -> Calls]
  /\ \A t \in Threads :
       /\ call[t].pc \in {"ready", "compare"} <=> call[t].room # 0
       /\ call[t].pc = "compare" <=> call[t].id # "none"

(* Two first requests that race to make the room end up in the same one:   *)
(* no thread works on a memRoom that s.rooms does not hold, so no session  *)
(* or queue entry is written where nobody will look (mem_store.go:33-54).  *)
OneRoom == \A t \in Threads : call[t].room \in {0, ref}

(* The existence set and the slice agree, and no id is queued twice, so    *)
(* the safety nets of GetPosition and RemoveFromQueue are never needed     *)
(* (mem_store.go:180-181, mem_store.go:241-242).                           *)
QueueIndexed ==
  /\ TheRoom.qSet = IdsOf(TheRoom.queue)
  /\ NoIdTwice(TheRoom.queue)

(* The slice is always sorted as Enqueue's binary search needs it to be:   *)
(* the search ends in front of the first item whose score is not lower,    *)
(* whatever was inserted, popped or removed before (mem_store.go:155-157). *)
SearchFindsPlace ==
  \A score \in Times :
    Search(QueueLen(TheRoom), [i \in 0..QueueLen(TheRoom) - 1 |-> TheRoom.queue[i + 1].score >= score])
      = InsertionPoint(TheRoom.queue, score)

(* The store implements its interface: each call takes effect in one step, *)
(* a re-enqueued id keeps its first score, only sessions whose expiry has  *)
(* come are evicted, and a fifo pop answers the lowest scores in order.    *)
Interface == INSTANCE RoomStore WITH waiting <- QueueScores(TheRoom.queue), active <- TheRoom.active

ImplementsInterface == Interface!Spec
=============================================================================
