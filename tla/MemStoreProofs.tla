---------------------------- MODULE MemStoreProofs ----------------------------
(***************************************************************************)
(* Proofs about MemStore.tla, for any callers, visitors and times: there   *)
(* is one room, its queue is indexed and sorted, the binary searches end   *)
(* where they should, and the store implements its interface.              *)
(***************************************************************************)
EXTENDS MemStore, MemRoomProofs

(* The rooms a store can hold. *)
Rooms ==
  [queue : Seq([id : Ids, score : Times]), qSet : SUBSET Ids,
   active : UNION {[d -> Times] : d \in SUBSET Ids}]

(* What makes a room one that works: its existence set agrees with its     *)
(* queue, which holds no id twice and is sorted.                           *)
Tidy(r) ==
  /\ RoomOK(r, Ids, Times, Times)
  /\ r.qSet = IdsOf(r.queue)
  /\ NoIdTwice(r.queue)
  /\ Sorted(r.queue)

(* The inductive invariant.  OneRoom is what makes the rest inductive: a   *)
(* caller leaves its room behind in the place TheRoom reads.               *)
IInv ==
  /\ TypeOK
  /\ heap \in Seq(Rooms)
  /\ OneRoom
  /\ Tidy(TheRoom)

Pops == [method : Methods \cup {"none"}, ids : Seq(Ids)]

LEMMA RoomIsOK ==
  ASSUME NEW r, RoomOK(r, Ids, Times, Times)
  PROVE  r \in Rooms
<1>1. r.active \in UNION {[d -> Times] : d \in SUBSET Ids}
  BY DEF RoomOK
<1>. QED
  BY <1>1 DEF RoomOK, Rooms

LEMMA EmptyRoomTidy == Tidy(EmptyRoom)
<1>. DEFINE a == [id \in {} |-> 0]
<1>1. EmptyRoom = [queue |-> <<>>, qSet |-> {}, active |-> a]
  BY DEF EmptyRoom
<1>2. DOMAIN a = {} /\ a \in [{} -> Times]
  OBVIOUS
<1>. HIDE DEF a
<1>3. RoomOK(EmptyRoom, Ids, Times, Times)
  BY <1>1, <1>2 DEF RoomOK
<1>4. IdsOf(<<>>) = {} /\ NoIdTwice(<<>>) /\ Sorted(<<>>)
  BY DEF IdsOf, NoIdTwice, Sorted
<1>. QED
  BY <1>1, <1>3, <1>4 DEF Tidy

LEMMA InitInv == Init => IInv
<1>. SUFFICES ASSUME Init PROVE IInv
  OBVIOUS
<1>. USE StoreAssumption
<1>1. heap = <<>> /\ ref = 0 /\ clock = 0 /\ popped = NoPop /\ call = [t \in Threads |-> Idle]
  BY DEF Init
<1>2. TheRoom = EmptyRoom
  BY <1>1 DEF TheRoom
<1>3. NoPop.method = "none" /\ NoPop.ids \in Seq(Ids)
  BY DEF NoPop
<1>4. TypeOK
  BY <1>1, <1>3 DEF TypeOK, Calls, Times, Idle, Methods
<1>5. OneRoom
  BY <1>1 DEF OneRoom, Idle
<1>6. heap \in Seq(Rooms)
  BY <1>1
<1>. QED
  BY <1>2, <1>4, <1>5, <1>6, EmptyRoomTidy DEF IInv

(* A caller that is ready works on the room. *)
LEMMA ReadyRoom ==
  ASSUME IInv, NEW t \in Threads, call[t].pc = "ready"
  PROVE  /\ ref \in 1..Len(heap) /\ call[t].room = ref
         /\ Room(t) = TheRoom
         /\ Tidy(TheRoom)
<1>1. call[t].room # 0 /\ call[t].room \in {0, ref} /\ ref \in 0..Len(heap) /\ Len(heap) \in Nat
  BY DEF IInv, TypeOK, OneRoom
<1>2. call[t].room = ref /\ ref \in 1..Len(heap)
  BY <1>1
<1>. QED
  BY <1>2 DEF Room, TheRoom, IInv

(* A critical section that leaves a tidy room behind keeps the invariant,  *)
(* and its room is the one every caller sees next.                         *)
LEMMA ReturnKeeps ==
  ASSUME IInv, NEW t \in Threads, NEW r, NEW pop \in Pops, ReturnPop(t, r, pop), Tidy(r)
  PROVE  IInv' /\ TheRoom' = r
<1>. USE StoreAssumption
<1>1. /\ call[t].pc = "ready"
      /\ heap' = [heap EXCEPT ![call[t].room] = r]
      /\ call' = [call EXCEPT ![t] = Idle]
      /\ popped' = pop
      /\ clock' = clock /\ ref' = ref
  BY DEF ReturnPop
<1>2. ref \in 1..Len(heap) /\ call[t].room = ref
  BY <1>1, ReadyRoom
<1>3. heap \in Seq(Rooms) /\ Len(heap) \in Nat /\ DOMAIN heap = 1..Len(heap)
  BY DEF IInv
<1>4. r \in Rooms
  BY RoomIsOK DEF Tidy
<1>5. heap' \in Seq(Rooms) /\ Len(heap') = Len(heap)
  BY <1>1, <1>2, <1>3, <1>4
<1>6. heap'[ref] = r /\ DOMAIN heap' = DOMAIN heap
  BY <1>1, <1>2, <1>3
<1>7. TheRoom' = r
  BY <1>1, <1>2, <1>6 DEF TheRoom
<1>8. \A i \in DOMAIN heap' : RoomOK(heap'[i], Ids, Times, Times)
  BY <1>1, <1>2, <1>3, <1>6 DEF Tidy, IInv, TypeOK
<1>9. \A u \in Threads : call'[u] = IF u = t THEN Idle ELSE call[u]
  BY <1>1 DEF IInv, TypeOK
<1>10. Idle \in Calls' /\ Idle.pc = "idle" /\ Idle.room = 0 /\ Idle.id = "none"
  BY <1>3, <1>5 DEF Idle, Calls, Times
<1>11. /\ call' \in [Threads -> Calls']
       /\ \A u \in Threads :
            /\ call'[u].pc \in {"ready", "compare"} <=> call'[u].room # 0
            /\ call'[u].pc = "compare" <=> call'[u].id # "none"
  <2>1. Calls' = Calls
    BY <1>5 DEF Calls
  <2>. QED
    BY <1>1, <1>9, <1>10, <2>1 DEF IInv, TypeOK
<1>12. popped'.method \in Methods \cup {"none"} /\ popped'.ids \in Seq(Ids)
  BY <1>1 DEF Pops
<1>13. clock' \in Times /\ ref' \in 0..Len(heap')
  BY <1>1, <1>2, <1>5 DEF IInv, TypeOK
<1>14. TypeOK'
  BY <1>8, <1>11, <1>12, <1>13 DEF TypeOK
<1>15. OneRoom'
  BY <1>1, <1>9, <1>10 DEF IInv, OneRoom
<1>16. Tidy(TheRoom)'
  BY <1>7 DEF Tidy
<1>. QED
  BY <1>5, <1>7, <1>14, <1>15, <1>16 DEF IInv

(* So does a step that leaves the rooms alone and one caller in its room. *)
LEMMA CallKeeps ==
  ASSUME IInv, NEW t \in Threads, NEW c \in Calls,
         c.pc \in {"ready", "compare"} <=> c.room # 0,
         c.pc = "compare" <=> c.id # "none",
         c.room \in {0, ref},
         call' = [call EXCEPT ![t] = c], UNCHANGED <<clock, store>>
  PROVE  IInv' /\ TheRoom' = TheRoom
<1>1. heap' = heap /\ ref' = ref /\ popped' = popped /\ clock' = clock
  BY DEF store
<1>2. TheRoom' = TheRoom
  BY <1>1 DEF TheRoom
<1>3. call \in [Threads -> Calls] /\ Calls' = Calls
  BY <1>1 DEF IInv, TypeOK, Calls
<1>4. call' \in [Threads -> Calls'] /\ \A u \in Threads : call'[u] = IF u = t THEN c ELSE call[u]
  BY <1>3
<1>5. TypeOK'
  BY <1>1, <1>4 DEF IInv, TypeOK
<1>6. OneRoom'
  BY <1>1, <1>4 DEF IInv, OneRoom
<1>7. Tidy(TheRoom)'
  BY <1>2 DEF IInv, Tidy
<1>. QED
  BY <1>1, <1>2, <1>5, <1>6, <1>7 DEF IInv

-----------------------------------------------------------------------------
(* The interface sees a call that leaves the room alone as a stutter. *)
LEMMA RoomKept ==
  ASSUME TheRoom' = TheRoom, clock' = clock, popped' = popped
  PROVE  UNCHANGED Interface!vars
BY DEF Interface!vars

(* A call that changes no queue and lets sessions go whose expiry has come *)
(* is an eviction.                                                         *)
LEMMA RoomEvicted ==
  ASSUME NEW r, TheRoom' = r, r.queue = TheRoom.queue,
         NEW gone \in SUBSET {id \in DOMAIN TheRoom.active : TheRoom.active[id] <= clock},
         r.active = Restrict(TheRoom.active, DOMAIN TheRoom.active \ gone),
         clock' = clock, popped' = NoPop
  PROVE  Interface!Next
<1>1. Interface!Evict
  <2>1. Interface!NoPop = NoPop
    BY DEF Interface!NoPop, NoPop
  <2>2. TheRoom.active' = Restrict(TheRoom.active, DOMAIN TheRoom.active \ gone)
    OBVIOUS
  <2>3. TheRoom.queue' = TheRoom.queue
    OBVIOUS
  <2>4. QueueScores(TheRoom.queue)' = QueueScores(TheRoom.queue)
    BY <2>3
  <2>. QED
    BY <2>1, <2>2, <2>4 DEF Interface!Evict, Interface!Restrict, Restrict
<1>. QED
  BY <1>1 DEF Interface!Next

(* Steps that run no critical section. *)
LEMMA OutsideSteps ==
  ASSUME IInv, NEW t \in Threads,
         \/ Lookup(t) \/ Create(t) \/ Compare(t) \/ \E id \in Ids : ReadExpiry(t, id)
  PROVE  IInv' /\ UNCHANGED Interface!vars
<1>. USE StoreAssumption
<1>1. /\ call \in [Threads -> Calls] /\ clock \in Times /\ 0 \in Times
      /\ ref \in 0..Len(heap) /\ heap \in Seq(Rooms) /\ Len(heap) \in Nat
      /\ call[t].room \in {0, ref}
      /\ call[t].pc \in {"ready", "compare"} <=> call[t].room # 0
      /\ call[t].pc = "compare" <=> call[t].id # "none"
  BY DEF IInv, TypeOK, OneRoom, Times
<1>2. Idle \in Calls /\ Idle.pc = "idle" /\ Idle.room = 0 /\ Idle.id = "none"
  BY <1>1 DEF Idle, Calls
<1>3. ASSUME NEW c \in Calls,
             c.pc \in {"ready", "compare"} <=> c.room # 0,
             c.pc = "compare" <=> c.id # "none",
             c.room \in {0, ref},
             call' = [call EXCEPT ![t] = c], UNCHANGED <<clock, store>>
      PROVE  IInv' /\ UNCHANGED Interface!vars
  <2>1. IInv' /\ TheRoom' = TheRoom
    BY <1>3, CallKeeps
  <2>2. clock' = clock /\ popped' = popped
    BY <1>3 DEF store
  <2>. QED
    BY <2>1, <2>2, RoomKept
<1>4. CASE Lookup(t)
  <2>. DEFINE c == [call[t] EXCEPT !.pc = IF ref # 0 THEN "ready" ELSE "create",
                                   !.room = ref, !.since = clock]
  <2>1. call[t].pc = "idle" /\ call' = [call EXCEPT ![t] = c] /\ UNCHANGED <<clock, store>>
    BY <1>1, <1>4 DEF Lookup
  <2>2. c \in Calls /\ c.room = ref /\ c.id = call[t].id
        /\ c.pc = IF ref # 0 THEN "ready" ELSE "create"
    BY <1>1 DEF Calls
  <2>. HIDE DEF c
  <2>. QED
    BY <1>1, <1>3, <2>1, <2>2
<1>5. CASE Create(t) /\ ref # 0
  <2>. DEFINE c == [call[t] EXCEPT !.pc = "ready", !.room = ref, !.since = clock]
  <2>1. call[t].pc = "create" /\ call' = [call EXCEPT ![t] = c] /\ UNCHANGED <<clock, store>>
    BY <1>1, <1>5 DEF Create, store
  <2>2. c \in Calls /\ c.room = ref /\ c.id = call[t].id /\ c.pc = "ready"
    BY <1>1 DEF Calls
  <2>. HIDE DEF c
  <2>. QED
    BY <1>1, <1>3, <1>5, <2>1, <2>2
<1>6. CASE Create(t) /\ ref = 0
  <2>1. /\ call[t].pc = "create"
        /\ heap' = Append(heap, EmptyRoom) /\ ref' = Len(heap')
        /\ call' = [call EXCEPT ![t].pc = "ready", ![t].room = ref', ![t].since = clock]
        /\ clock' = clock /\ popped' = popped
    BY <1>6 DEF Create
  <2>2. Tidy(EmptyRoom) /\ EmptyRoom \in Rooms /\ RoomOK(EmptyRoom, Ids, Times, Times)
    BY EmptyRoomTidy, RoomIsOK DEF Tidy
  <2>3. /\ heap' \in Seq(Rooms) /\ Len(heap') = Len(heap) + 1 /\ heap'[Len(heap) + 1] = EmptyRoom
        /\ \A i \in 1..Len(heap) : heap'[i] = heap[i]
    BY <1>1, <2>1, <2>2
  <2>4. ref' = Len(heap) + 1 /\ ref' # 0 /\ heap'[ref'] = EmptyRoom
    BY <1>1, <2>1, <2>3
  <2>5. TheRoom' = EmptyRoom /\ TheRoom = EmptyRoom
    BY <1>6, <2>4 DEF TheRoom
  <2>6. \A i \in DOMAIN heap' : RoomOK(heap'[i], Ids, Times, Times)
    <3>1. \A i \in 1..Len(heap) : RoomOK(heap[i], Ids, Times, Times)
      BY <1>1 DEF IInv, TypeOK
    <3>2. \A i \in 1..Len(heap) + 1 : i \in 1..Len(heap) \/ i = Len(heap) + 1
      BY <1>1
    <3>3. DOMAIN heap' = 1..Len(heap) + 1
      BY <2>3
    <3>. QED
      BY <2>2, <2>3, <3>1, <3>2, <3>3
  <2>. DEFINE c == [call[t] EXCEPT !.pc = "ready", !.room = ref', !.since = clock]
  <2>7. call' = [call EXCEPT ![t] = c]
    BY <1>1, <2>1
  <2>8. \A u \in Threads : call[u] \in Calls'
    BY <1>1, <2>3 DEF Calls
  <2>9. c \in Calls' /\ c.room = ref' /\ c.id = call[t].id /\ c.pc = "ready"
    BY <1>1, <2>1, <2>3, <2>4 DEF Calls
  <2>. HIDE DEF c
  <2>10. \A u \in Threads : call'[u] = IF u = t THEN c ELSE call[u]
    BY <1>1, <2>7
  <2>11. call' \in [Threads -> Calls']
    BY <1>1, <2>7, <2>8, <2>9
  <2>12. TypeOK'
    BY <1>1, <2>1, <2>3, <2>4, <2>6, <2>9, <2>10, <2>11 DEF IInv, TypeOK
  <2>13. OneRoom'
    BY <1>6, <2>9, <2>10 DEF IInv, OneRoom
  <2>14. Tidy(TheRoom)'
    BY <2>2, <2>5
  <2>15. IInv'
    BY <2>3, <2>12, <2>13, <2>14 DEF IInv
  <2>. QED
    BY <2>1, <2>5, <2>15, RoomKept
<1>7. CASE Compare(t)
  <2>1. call' = [call EXCEPT ![t] = Idle] /\ UNCHANGED <<clock, store>>
    BY <1>7 DEF Compare
  <2>. QED
    BY <1>2, <1>3, <2>1
<1>8. ASSUME NEW id \in Ids, ReadExpiry(t, id) PROVE IInv' /\ UNCHANGED Interface!vars
  <2>1. call[t].pc = "ready" /\ UNCHANGED <<clock, store>>
    BY <1>8 DEF ReadExpiry
  <2>2. Room(t) = TheRoom /\ call[t].room = ref /\ ref # 0
    BY <2>1, ReadyRoom
  <2>3. CASE id \notin DOMAIN Room(t).active
    <3>1. call' = [call EXCEPT ![t] = Idle]
      BY <1>8, <2>3 DEF ReadExpiry
    <3>. QED
      BY <1>2, <1>3, <2>1, <3>1
  <2>4. CASE id \in DOMAIN Room(t).active
    <3>. DEFINE c == [call[t] EXCEPT !.pc = "compare", !.since = 0, !.id = id,
                                     !.exp = Room(t).active[id]]
    <3>1. call' = [call EXCEPT ![t] = c]
      BY <1>1, <1>8, <2>4 DEF ReadExpiry
    <3>2. Room(t).active[id] \in Times
      BY <2>2, <2>4 DEF IInv, Tidy, RoomOK
    <3>3. c \in Calls /\ c.room = call[t].room /\ c.id = id /\ c.pc = "compare"
      BY <1>1, <3>2 DEF Calls
    <3>. HIDE DEF c
    <3>4. id # "none"
      OBVIOUS
    <3>. QED
      BY <1>1, <1>3, <2>1, <2>2, <3>1, <3>3, <3>4
  <2>. QED
    BY <2>3, <2>4
<1>. QED
  BY <1>4, <1>5, <1>6, <1>7, <1>8

(* The critical sections that leave the queue alone. *)
LEMMA SessionSteps ==
  ASSUME IInv, NEW t \in Threads,
         \/ CountActive(t)
         \/ Cleanup(t)
         \/ \E id \in Ids : Remove(t, id)
         \/ \E id \in Ids, time \in Times : Add(t, id, time) \/ Extend(t, id, time)
  PROVE  IInv' /\ Interface!Next
<1>. DEFINE R == TheRoom
<1>1. call[t].pc = "ready"
  BY DEF CountActive, Cleanup, Remove, Add, Extend, Return, ReturnPop
<1>2. Room(t) = R /\ Tidy(R)
  BY <1>1, ReadyRoom
<1>3. RoomOK(R, Ids, Times, Times)
  BY <1>2 DEF Tidy
<1>4. clock \in Int /\ call[t].since \in Int /\ \A id \in DOMAIN R.active : R.active[id] \in Int
  BY <1>3, StoreAssumption DEF IInv, TypeOK, Calls, Times, RoomOK
<1>5. NoPop \in Pops
  BY DEF NoPop, Pops
<1>6. ASSUME NEW r, Return(t, r), RoomOK(r, Ids, Times, Times), r.queue = R.queue, r.qSet = R.qSet
      PROVE  IInv' /\ TheRoom' = r /\ clock' = clock /\ popped' = NoPop
  <2>1. Tidy(r)
    BY <1>2, <1>6 DEF Tidy
  <2>2. ReturnPop(t, r, NoPop)
    BY <1>6 DEF Return
  <2>3. IInv' /\ TheRoom' = r
    BY <1>5, <2>1, <2>2, ReturnKeeps
  <2>. QED
    BY <2>2, <2>3 DEF ReturnPop
<1>7. ASSUME NEW r, Return(t, r), RoomOK(r, Ids, Times, Times), r.queue = R.queue, r.qSet = R.qSet,
             NEW gone \in SUBSET {id \in DOMAIN R.active : R.active[id] <= clock},
             r.active = Restrict(R.active, DOMAIN R.active \ gone)
      PROVE  IInv' /\ Interface!Next
  <2>1. IInv' /\ TheRoom' = r /\ clock' = clock /\ popped' = NoPop
    BY <1>6, <1>7
  <2>. QED
    BY <1>7, <2>1, RoomEvicted
<1>8. CASE CountActive(t)
  <2>1. PICK now \in call[t].since..clock : Return(t, Evicted(R, now))
    BY <1>2, <1>8 DEF CountActive
  <2>. DEFINE r == Evicted(R, now)
              gone == {id \in DOMAIN R.active : ~ now <= R.active[id]}
  <2>2. RoomOK(r, Ids, Times, Times) /\ r.queue = R.queue /\ r.qSet = R.qSet
    BY <1>3, EvictedFacts
  <2>3. gone \in SUBSET {id \in DOMAIN R.active : R.active[id] <= clock}
    BY <1>4
  <2>4. DOMAIN R.active \ gone = {id \in DOMAIN R.active : now <= R.active[id]}
    OBVIOUS
  <2>5. r.active = Restrict(R.active, {id \in DOMAIN R.active : now <= R.active[id]})
    BY <1>3 DEF Evicted, RoomOK
  <2>. HIDE DEF r, gone, R
  <2>6. Return(t, r)
    BY <2>1 DEF r
  <2>7. r.active = Restrict(R.active, DOMAIN R.active \ gone)
    BY <2>4, <2>5
  <2>. QED
    BY <1>7, <2>2, <2>3, <2>6, <2>7
<1>9. CASE Cleanup(t)
  <2>1. PICK now \in 0..clock : Return(t, CleanupExpiredActive(R, now))
    BY <1>2, <1>9 DEF Cleanup
  <2>. DEFINE r == CleanupExpiredActive(R, now)
              gone == {id \in DOMAIN R.active : ~ now < R.active[id]}
  <2>2. RoomOK(r, Ids, Times, Times) /\ r.queue = R.queue /\ r.qSet = R.qSet
    BY <1>3, CleanupFacts
  <2>3. gone \in SUBSET {id \in DOMAIN R.active : R.active[id] <= clock}
    BY <1>4
  <2>4. DOMAIN R.active \ gone = {id \in DOMAIN R.active : now < R.active[id]}
    OBVIOUS
  <2>5. r.active = Restrict(R.active, {id \in DOMAIN R.active : now < R.active[id]})
    BY <1>3 DEF CleanupExpiredActive, RoomOK
  <2>. HIDE DEF r, gone, R
  <2>6. Return(t, r)
    BY <2>1 DEF r
  <2>7. r.active = Restrict(R.active, DOMAIN R.active \ gone)
    BY <2>4, <2>5
  <2>. QED
    BY <1>7, <2>2, <2>3, <2>6, <2>7
<1>10. ASSUME NEW id \in Ids, Remove(t, id) PROVE IInv' /\ Interface!Next
  <2>. DEFINE r == RemoveActive(R, id)
  <2>1. Return(t, r)
    BY <1>2, <1>10 DEF Remove
  <2>2. /\ RoomOK(r, Ids, Times, Times) /\ r.queue = R.queue /\ r.qSet = R.qSet
        /\ r.active = Restrict(R.active, DOMAIN R.active \ {id})
    BY <1>3, RemoveActiveFacts
  <2>. HIDE DEF r
  <2>3. IInv' /\ TheRoom' = r /\ clock' = clock /\ popped' = NoPop
    BY <1>6, <2>1, <2>2
  <2>4. Interface!NoPop = NoPop
    BY DEF Interface!NoPop, NoPop
  <2>5. TheRoom.queue' = TheRoom.queue
    BY <2>2, <2>3
  <2>6. QueueScores(TheRoom.queue)' = QueueScores(TheRoom.queue)
    BY <2>5
  <2>7. Interface!Remove(id)
    BY <2>2, <2>3, <2>4, <2>6 DEF Interface!Remove, Interface!Restrict, Restrict
  <2>. QED
    BY <2>3, <2>7 DEF Interface!Next
<1>11. ASSUME NEW id \in Ids, NEW time \in Times, Return(t, AddActive(R, id, time))
       PROVE  IInv' /\ Interface!Next
  <2>. DEFINE r == AddActive(R, id, time)
  <2>1. Return(t, r)
    BY <1>11
  <2>2. RoomOK(r, Ids, Times, Times) /\ r.queue = R.queue /\ r.qSet = R.qSet
    BY <1>3, AddActiveFacts
  <2>3. r.active = [i \in DOMAIN R.active \cup {id} |-> IF i = id THEN time ELSE R.active[i]]
    BY <1>3 DEF AddActive, RoomOK
  <2>. HIDE DEF r
  <2>4. IInv' /\ TheRoom' = r /\ clock' = clock /\ popped' = NoPop
    BY <1>6, <2>1, <2>2
  <2>5. Interface!NoPop = NoPop
    BY DEF Interface!NoPop, NoPop
  <2>6. TheRoom.queue' = TheRoom.queue
    BY <2>2, <2>4
  <2>7. QueueScores(TheRoom.queue)' = QueueScores(TheRoom.queue)
    BY <2>6
  <2>8. Interface!SetExpiry(id, time)
    BY <2>3, <2>4, <2>5, <2>7 DEF Interface!SetExpiry, Interface!Assign
  <2>. QED
    BY <2>4, <2>8 DEF Interface!Next
<1>12. ASSUME NEW id \in Ids, NEW time \in Times, Add(t, id, time) PROVE IInv' /\ Interface!Next
  BY <1>2, <1>11, <1>12 DEF Add
<1>13. ASSUME NEW id \in Ids, NEW time \in Times, Extend(t, id, time)
       PROVE  IInv' /\ Interface!Next
  <2>1. CASE id \in DOMAIN R.active
    BY <1>2, <1>11, <1>13, <2>1 DEF Extend, ExtendActive
  <2>2. CASE id \notin DOMAIN R.active
    <3>1. Return(t, R)
      BY <1>2, <1>13, <2>2 DEF Extend, ExtendActive
    <3>2. R.active = Restrict(R.active, DOMAIN R.active \ {})
      BY <1>3 DEF RoomOK, Restrict
    <3>3. {} \in SUBSET {x \in DOMAIN R.active : R.active[x] <= clock}
      OBVIOUS
    <3>4. R.queue = R.queue /\ R.qSet = R.qSet
      OBVIOUS
    <3>. HIDE DEF R
    <3>. QED
      BY <1>3, <1>7, <3>1, <3>2, <3>3, <3>4
  <2>. QED
    BY <2>1, <2>2
<1>. QED
  BY <1>8, <1>9, <1>10, <1>12, <1>13

(* The critical sections on the queue. *)
LEMMA EnqueueStep ==
  ASSUME IInv, NEW t \in Threads, NEW id \in Ids, NEW score \in Times, Enqueue(t, id, score)
  PROVE  IInv' /\ Interface!Next
<1>. DEFINE R == TheRoom
            r == IF ExistsInQueue(R, id) THEN R ELSE EnqueueNew(R, id, score)
<1>1. call[t].pc = "ready"
  BY DEF Enqueue, Return, ReturnPop
<1>2. Room(t) = R /\ Tidy(R) /\ RoomOK(R, Ids, Times, Times)
  BY <1>1, ReadyRoom DEF Tidy
<1>3. ReturnPop(t, r, NoPop) /\ NoPop \in Pops
  BY <1>2 DEF Enqueue, Return, NoPop, Pops
<1>4. Times \subseteq Int
  BY StoreAssumption DEF Times
<1>5. /\ Tidy(r)
      /\ r.active = R.active
      /\ QueueScores(r.queue) = IF id \in IdsOf(R.queue) THEN QueueScores(R.queue)
                           ELSE [x \in IdsOf(R.queue) \cup {id} |->
                                   IF x = id THEN score ELSE QueueScores(R.queue)[x]]
  <2>0. NoIdTwice(R.queue) /\ Sorted(R.queue) /\ R.qSet = IdsOf(R.queue)
    BY <1>2 DEF Tidy
  <2>1. CASE id \in IdsOf(R.queue)
    <3>1. r = R
      BY <2>0, <2>1 DEF ExistsInQueue
    <3>. HIDE DEF r, R
    <3>. QED
      BY <1>2, <2>1, <3>1
  <2>2. CASE id \notin IdsOf(R.queue)
    <3>1. r = EnqueueNew(R, id, score)
      BY <2>0, <2>2 DEF ExistsInQueue
    <3>. HIDE DEF r, R
    <3>2. /\ RoomOK(r, Ids, Times, Times)
          /\ r.active = R.active
          /\ r.qSet = R.qSet \cup {id}
          /\ IdsOf(r.queue) = IdsOf(R.queue) \cup {id}
          /\ NoIdTwice(r.queue)
      BY <1>2, <2>0, <2>2, <3>1, EnqueueNewFacts
    <3>3. Sorted(r.queue)
      BY <1>2, <1>4, <2>0, <3>1, EnqueueNewSorted
    <3>4. QueueScores(r.queue) = [x \in IdsOf(R.queue) \cup {id} |->
                               IF x = id THEN score ELSE QueueScores(R.queue)[x]]
      BY <1>2, <2>0, <2>2, <3>1, EnqueueNewScores
    <3>. QED
      BY <2>0, <2>2, <3>2, <3>3, <3>4 DEF Tidy
  <2>. QED
    BY <2>1, <2>2
<1>. HIDE DEF r
<1>6. IInv' /\ TheRoom' = r
  BY <1>3, <1>5, ReturnKeeps
<1>7. clock' = clock /\ popped' = Interface!NoPop
  BY <1>3 DEF ReturnPop, Interface!NoPop, NoPop
<1>8. QueueScores(TheRoom.queue)' = QueueScores(r.queue) /\ TheRoom.active' = R.active
  BY <1>5, <1>6
<1>9. DOMAIN QueueScores(R.queue) = IdsOf(R.queue)
  BY DEF QueueScores
<1>10. Interface!Enqueue(id, score)
  BY <1>5, <1>7, <1>8, <1>9 DEF Interface!Enqueue, Interface!Assign
<1>. QED
  BY <1>6, <1>10 DEF Interface!Next

LEMMA LeaveStep ==
  ASSUME IInv, NEW t \in Threads, NEW id \in Ids, Leave(t, id)
  PROVE  IInv' /\ Interface!Next
<1>. DEFINE R == TheRoom
            r == RemoveFromQueue(R, id)
<1>1. call[t].pc = "ready"
  BY DEF Leave, Return, ReturnPop
<1>2. Room(t) = R /\ RoomOK(R, Ids, Times, Times)
      /\ NoIdTwice(R.queue) /\ Sorted(R.queue) /\ R.qSet = IdsOf(R.queue)
  BY <1>1, ReadyRoom DEF Tidy
<1>3. ReturnPop(t, r, NoPop) /\ NoPop \in Pops
  BY <1>2 DEF Leave, Return, NoPop, Pops
<1>4. /\ RoomOK(r, Ids, Times, Times) /\ r.active = R.active /\ r.qSet = R.qSet \ {id}
      /\ Thinned(r.queue, R.queue) /\ IdsOf(r.queue) = IdsOf(R.queue) \ {id}
  BY <1>2, RemoveFromQueueFacts
<1>. HIDE DEF r
<1>5. R.queue \in Seq([id : Ids, score : Times]) /\ r.queue \in Seq([id : Ids, score : Times])
  BY <1>2, <1>4 DEF RoomOK
<1>6. NoIdTwice(r.queue) /\ Sorted(r.queue)
      /\ QueueScores(r.queue) = Restrict(QueueScores(R.queue), IdsOf(R.queue) \ {id})
  <2>. DEFINE q == R.queue
              q2 == r.queue
              S == [id : Ids, score : Times]
  <2>1. q \in Seq(S) /\ q2 \in Seq(S) /\ Thinned(q2, q) /\ NoIdTwice(q) /\ Sorted(q)
    BY <1>2, <1>4, <1>5
  <2>. HIDE DEF q, q2, S
  <2>2. NoIdTwice(q2) /\ Sorted(q2) /\ QueueScores(q2) = Restrict(QueueScores(q), IdsOf(q2))
    BY <2>1, ThinnedFacts
  <2>. QED
    BY <1>4, <2>2 DEF q, q2
<1>7. Tidy(r)
  BY <1>2, <1>4, <1>6 DEF Tidy
<1>8. IInv' /\ TheRoom' = r
  BY <1>3, <1>7, ReturnKeeps
<1>9. clock' = clock /\ popped' = Interface!NoPop
  BY <1>3 DEF ReturnPop, Interface!NoPop, NoPop
<1>10. QueueScores(TheRoom.queue)' = QueueScores(r.queue) /\ TheRoom.active' = R.active
  BY <1>4, <1>8
<1>11. DOMAIN QueueScores(R.queue) = IdsOf(R.queue)
  BY DEF QueueScores
<1>12. Interface!Leave(id)
  BY <1>6, <1>9, <1>10, <1>11 DEF Interface!Leave, Interface!Restrict, Restrict
<1>. QED
  BY <1>8, <1>12 DEF Interface!Next

LEMMA PopStep ==
  ASSUME IInv, NEW t \in Threads, NEW n \in Nat \ {0}, NEW method \in Methods,
         PopForAdmission(t, n, method)
  PROVE  IInv' /\ Interface!Next
<1>. DEFINE R == TheRoom
            q == R.queue
            S == [id : Ids, score : Times]
<1>1. call[t].pc = "ready"
  BY DEF PopForAdmission
<1>2. Room(t) = R /\ RoomOK(R, Ids, Times, Times)
      /\ NoIdTwice(q) /\ Sorted(q) /\ R.qSet = IdsOf(q) /\ Tidy(R)
  BY <1>1, ReadyRoom DEF Tidy
<1>3. q \in Seq(S) /\ Len(q) \in Nat
  BY <1>2 DEF RoomOK
<1>4. CASE q = <<>>
  <2>1. ReturnPop(t, R, NoPop) /\ NoPop \in Pops
    BY <1>2, <1>4 DEF PopForAdmission, Return, NoPop, Pops
  <2>2. IInv' /\ TheRoom' = R
    BY <1>2, <2>1, ReturnKeeps
  <2>3. clock' = clock /\ popped' = NoPop
    BY <2>1 DEF ReturnPop
  <2>4. R.active = Restrict(R.active, DOMAIN R.active \ {})
    BY <1>2 DEF RoomOK, Restrict
  <2>5. {} \in SUBSET {x \in DOMAIN R.active : R.active[x] <= clock} /\ R.queue = R.queue
    OBVIOUS
  <2>6. Interface!Next
    BY <2>2, <2>3, <2>4, <2>5, RoomEvicted
  <2>. QED
    BY <2>2, <2>6
<1>5. CASE q # <<>>
  <2>. DEFINE m == PopSize(R, n)
  <2>1. m \in 1..Len(q)
    <3>1. Len(q) # 0
      BY <1>3, <1>5
    <3>. QED
      BY <1>3, <3>1 DEF PopSize
  <2>2. PICK take \in Takes(q, m, method) :
          \E keep \in Keeps(q, take) :
            ReturnPop(t, Popped(R, take, keep),
                      [method |-> method, ids |-> [i \in DOMAIN take |-> q[take[i]].id]])
    BY <1>2, <1>5 DEF PopForAdmission
  <2>. DEFINE ids == [i \in DOMAIN take |-> q[take[i]].id]
              pop == [method |-> method, ids |-> ids]
  <2>3. PICK keep \in Keeps(q, take) : ReturnPop(t, Popped(R, take, keep), pop)
    BY <2>2
  <2>. DEFINE r == Popped(R, take, keep)
              out == IdsOf(Picked(q, take))
  <2>4. m \in 0..Len(q)
    BY <1>3, <2>1
  <2>. HIDE DEF m
  <2>5. /\ RoomOK(r, Ids, Times, Times) /\ r.active = R.active /\ r.qSet = R.qSet \ out
        /\ IdsOf(r.queue) = IdsOf(q) \ out
    <3>1. /\ RoomOK(R, Ids, Times, Times) /\ m \in 0..Len(R.queue)
          /\ take \in Takes(R.queue, m, method)
          /\ keep \in Keeps(R.queue, take) /\ NoIdTwice(R.queue)
      BY <1>2, <2>4
    <3>. HIDE DEF R, q, ids, pop, r, out, S
    <3>2. /\ RoomOK(Popped(R, take, keep), Ids, Times, Times)
          /\ Popped(R, take, keep).active = R.active
          /\ Popped(R, take, keep).qSet = R.qSet \ IdsOf(Picked(R.queue, take))
          /\ IdsOf(Popped(R, take, keep).queue)
               = IdsOf(R.queue) \ IdsOf(Picked(R.queue, take))
          /\ NoIdTwice(Popped(R, take, keep).queue)
          /\ Picked(R.queue, take) \in Seq([id : Ids, score : Times])
          /\ Len(Picked(R.queue, take)) = m
          /\ NoIdTwice(Picked(R.queue, take))
          /\ IdsOf(Picked(R.queue, take)) \subseteq IdsOf(R.queue)
      BY <3>1, PoppedFacts
    <3>. QED
      BY <3>2 DEF R, q, r, out
  <2>6. Thinned(r.queue, q)
    BY PoppedThinned
  <2>. HIDE DEF r
  <2>7. NoIdTwice(r.queue) /\ Sorted(r.queue)
        /\ QueueScores(r.queue) = Restrict(QueueScores(q), IdsOf(q) \ out)
    <3>. DEFINE q2 == r.queue
    <3>1. q2 \in Seq(S)
      BY <2>5 DEF RoomOK
    <3>2. q \in Seq(S) /\ Thinned(q2, q) /\ NoIdTwice(q) /\ Sorted(q)
      BY <1>2, <1>3, <2>6
    <3>. HIDE DEF q, q2, S
    <3>3. NoIdTwice(q2) /\ Sorted(q2) /\ QueueScores(q2) = Restrict(QueueScores(q), IdsOf(q2))
      BY <3>1, <3>2, ThinnedFacts
    <3>. QED
      BY <2>5, <3>3 DEF q2
  <2>8. Tidy(r)
    BY <1>2, <2>5, <2>7 DEF Tidy
  <2>9. /\ ids \in Injection(1..m, IdsOf(q))
        /\ Range(ids) = out
        /\ method = "fifo" =>
             /\ \A i, j \in DOMAIN ids : i < j => QueueScores(q)[ids[i]] <= QueueScores(q)[ids[j]]
             /\ \A i \in DOMAIN ids, left \in IdsOf(q) \ Range(ids) :
                  QueueScores(q)[ids[i]] <= QueueScores(q)[left]
    <3>1. q \in Seq(S) /\ NoIdTwice(q) /\ Sorted(q)
      BY <1>2, <1>3
    <3>. HIDE DEF q, S
    <3>. QED
      BY <2>4, <3>1, AnsweredFacts
  <2>. HIDE DEF ids, out
  <2>10. IdsOf(q) \subseteq Ids
    <3>1. \A x \in S : x.id \in Ids
      OBVIOUS
    <3>2. \A i \in DOMAIN q : q[i] \in S
      <4>1. q \in Seq(S)
        BY <1>3
      <4>. HIDE DEF q, S
      <4>. QED
        BY <4>1, QueueShape
    <3>. QED
      BY <3>1, <3>2 DEF IdsOf
  <2>11. pop \in Pops
    <3>1. ids \in [1..m -> Ids]
      BY <2>9, <2>10 DEF Injection
    <3>2. ids \in Seq(Ids)
      BY <2>4, <3>1, FunctionIsSequence
    <3>. QED
      BY <3>2 DEF Pops
  <2>12. IInv' /\ TheRoom' = r
    BY <2>3, <2>8, <2>11, ReturnKeeps DEF r
  <2>13. clock' = clock /\ popped' = pop
    BY <2>3 DEF ReturnPop
  <2>14. QueueScores(TheRoom.queue)' = QueueScores(r.queue) /\ TheRoom.active' = R.active
    BY <2>5, <2>12
  <2>15. DOMAIN QueueScores(q) = IdsOf(q)
    BY DEF QueueScores
  <2>16. Interface!Range(ids) = Range(ids) /\ Interface!Injection(1..m, IdsOf(q)) = Injection(1..m, IdsOf(q))
    BY DEF Interface!Range, Range, Interface!Injection, Injection, Interface!IsInjective, IsInjective
  <2>17. method = "fifo" => Interface!LowestFirst(ids)
    BY <2>9, <2>15, <2>16 DEF Interface!LowestFirst
  <2>18. Interface!Pop(ids, method)
    BY <2>7, <2>9, <2>13, <2>14, <2>15, <2>16, <2>17
       DEF Interface!Pop, Interface!Restrict, Restrict
  <2>19. Cardinality(DOMAIN QueueScores(q)) = Len(q)
    <3>1. q \in Seq(S) /\ NoIdTwice(q)
      BY <1>2, <1>3
    <3>. HIDE DEF q, S
    <3>. QED
      BY <2>15, <3>1, QueueCardinality
  <2>20. Interface!Next
    <3>1. m \in 1..Cardinality(DOMAIN QueueScores(q)) /\ ids \in Interface!Injection(1..m, DOMAIN QueueScores(q))
          /\ method \in {"fifo", "random"}
      BY <2>1, <2>9, <2>15, <2>16, <2>19 DEF m, Methods
    <3>2. Interface!Cardinality(DOMAIN QueueScores(q)) = Cardinality(DOMAIN QueueScores(q))
      BY DEF Interface!Cardinality, Cardinality
    <3>. QED
      BY <2>18, <3>1, <3>2 DEF Interface!Next
  <2>. QED
    BY <2>12, <2>20
<1>. QED
  BY <1>4, <1>5

(* Time passes. *)
LEMMA AdvanceStep ==
  ASSUME IInv, Advance
  PROVE  IInv' /\ Interface!Next
<1>. USE StoreAssumption
<1>1. /\ clock < MaxTime /\ clock' = clock + 1 /\ heap' = heap /\ ref' = ref
      /\ popped' = popped /\ call' = call
  BY DEF Advance, store
<1>2. clock \in Times
  BY DEF IInv, TypeOK
<1>3. clock + 1 \in Times
  BY <1>1, <1>2 DEF Times
<1>4. TheRoom' = TheRoom /\ Calls' = Calls
  BY <1>1 DEF TheRoom, Calls
<1>5. IInv'
  <2>1. TypeOK'
    BY <1>1, <1>3, <1>4 DEF IInv, TypeOK
  <2>2. OneRoom'
    BY <1>1 DEF IInv, OneRoom
  <2>3. Tidy(TheRoom)'
    BY <1>4 DEF IInv, Tidy
  <2>. QED
    BY <1>1, <2>1, <2>2, <2>3 DEF IInv
<1>6. QueueScores(TheRoom.queue)' = QueueScores(TheRoom.queue) /\ TheRoom.active' = TheRoom.active
  BY <1>4
<1>7. Interface!Advance
  BY <1>1, <1>3, <1>6 DEF Interface!Advance
<1>. QED
  BY <1>5, <1>7 DEF Interface!Next

(* Every step keeps the invariant and is a step of the interface, or none. *)
LEMMA StepKeeps ==
  ASSUME IInv, [Next]_vars
  PROVE  IInv' /\ [Interface!Next]_(Interface!vars)
<1>1. CASE UNCHANGED vars
  <2>1. clock' = clock /\ heap' = heap /\ ref' = ref /\ popped' = popped /\ call' = call
    BY <1>1 DEF vars
  <2>2. TheRoom' = TheRoom /\ Calls' = Calls
    BY <2>1 DEF TheRoom, Calls
  <2>3. TypeOK'
    BY <2>1, <2>2 DEF IInv, TypeOK
  <2>4. OneRoom' /\ Tidy(TheRoom)'
    BY <2>1, <2>2 DEF IInv, OneRoom, Tidy
  <2>5. IInv'
    BY <2>1, <2>3, <2>4 DEF IInv
  <2>. QED
    BY <2>1, <2>2, <2>5, RoomKept
<1>2. CASE Advance
  BY <1>2, AdvanceStep
<1>3. ASSUME NEW t \in Threads,
             \/ Lookup(t) \/ Create(t) \/ Compare(t) \/ \E id \in Ids : ReadExpiry(t, id)
      PROVE  IInv' /\ [Interface!Next]_(Interface!vars)
  BY <1>3, OutsideSteps
<1>4. ASSUME NEW t \in Threads,
             \/ CountActive(t)
             \/ Cleanup(t)
             \/ \E id \in Ids : Remove(t, id)
             \/ \E id \in Ids, time \in Times : Add(t, id, time) \/ Extend(t, id, time)
      PROVE  IInv' /\ [Interface!Next]_(Interface!vars)
  BY <1>4, SessionSteps
<1>5. ASSUME NEW t \in Threads, NEW n \in 1..Cardinality(Ids), NEW method \in Methods,
             PopForAdmission(t, n, method)
      PROVE  IInv' /\ [Interface!Next]_(Interface!vars)
  <2>1. n \in Nat \ {0}
    OBVIOUS
  <2>. QED
    BY <1>5, <2>1, PopStep
<1>6. ASSUME NEW t \in Threads, NEW id \in Ids, Leave(t, id)
      PROVE  IInv' /\ [Interface!Next]_(Interface!vars)
  BY <1>6, LeaveStep
<1>7. ASSUME NEW t \in Threads, NEW id \in Ids, NEW time \in Times, Enqueue(t, id, time)
      PROVE  IInv' /\ [Interface!Next]_(Interface!vars)
  BY <1>7, EnqueueStep
<1>. QED
  BY <1>1, <1>2, <1>3, <1>4, <1>5, <1>6, <1>7 DEF Next

(* At the start the interface is at its start. *)
LEMMA InitImplements == Init => Interface!Init
<1>. SUFFICES ASSUME Init PROVE Interface!Init
  OBVIOUS
<1>1. ref = 0 /\ clock = 0 /\ popped = NoPop
  BY DEF Init
<1>2. TheRoom = EmptyRoom
  BY <1>1 DEF TheRoom
<1>3. EmptyRoom.queue = <<>> /\ EmptyRoom.active = [id \in {} |-> 0]
  BY DEF EmptyRoom
<1>4. IdsOf(<<>>) = {}
  BY DEF IdsOf
<1>5. QueueScores(<<>>) = [id \in {} |-> 0]
  BY <1>4 DEF QueueScores
<1>. QED
  BY <1>1, <1>2, <1>3, <1>5 DEF Interface!Init, Interface!NoPop, NoPop

LEMMA Inductive == Spec => []IInv
<1>1. IInv /\ [Next]_vars => IInv'
  BY StepKeeps
<1>. QED
  BY <1>1, InitInv, PTL DEF Spec

(* The types of the store's state, for any number of callers. *)
THEOREM StoreTypeCorrect == Spec => []TypeOK
<1>1. IInv => TypeOK
  BY DEF IInv
<1>. QED
  BY <1>1, Inductive, PTL

(* However first requests race, all callers work on one room. *)
THEOREM OneRoomAlways == Spec => []OneRoom
<1>1. IInv => OneRoom
  BY DEF IInv
<1>. QED
  BY <1>1, Inductive, PTL

(* The existence set always agrees with the queue, which holds no id twice. *)
THEOREM QueueStaysIndexed == Spec => []QueueIndexed
<1>1. IInv => QueueIndexed
  BY DEF IInv, Tidy, QueueIndexed
<1>. QED
  BY <1>1, Inductive, PTL

(* Enqueue's binary search always ends at the insertion point. *)
THEOREM SearchAlwaysFindsPlace == Spec => []SearchFindsPlace
<1>1. IInv => SearchFindsPlace
  <2>. SUFFICES ASSUME IInv, NEW score \in Times
                PROVE  Search(Len(TheRoom.queue),
                              [i \in 0..Len(TheRoom.queue) - 1 |-> TheRoom.queue[i + 1].score >= score])
                         = InsertionPoint(TheRoom.queue, score)
    BY DEF SearchFindsPlace, QueueLen
  <2>. DEFINE q == TheRoom.queue
  <2>1. q \in Seq([id : Ids, score : Times]) /\ Sorted(q)
    BY DEF IInv, Tidy, RoomOK
  <2>2. Times \subseteq Int /\ score \in Int
    BY StoreAssumption DEF Times
  <2>. HIDE DEF q
  <2>3. Search(Len(q), [i \in 0..Len(q) - 1 |-> q[i + 1].score >= score]) = InsertionPoint(q, score)
    BY <2>1, <2>2, InsertionPointSplits
  <2>. QED
    BY <2>3 DEF q
<1>. QED
  BY <1>1, Inductive, PTL

(* The in-memory store is an atomic, idempotent, first-in-first-out store: *)
(* every step of every caller is one step of the Store interface, or none. *)
THEOREM StoreImplementsInterface == Spec => ImplementsInterface
<1>1. IInv /\ [Next]_vars => [Interface!Next]_(Interface!vars)
  BY StepKeeps
<1>. QED
  BY <1>1, InitImplements, Inductive, PTL DEF Spec, ImplementsInterface, Interface!Spec
=============================================================================
