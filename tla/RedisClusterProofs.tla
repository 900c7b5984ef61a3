-------------------------- MODULE RedisClusterProofs --------------------------
(***************************************************************************)
(* What holds of any number of instances and requests on one Redis, for    *)
(* every limit, rate and bound on the faults.                              *)
(***************************************************************************)
EXTENDS RedisCluster, ArithmeticFacts, FiniteSetTheorems

-----------------------------------------------------------------------------
(* What Redis has is among what was added. *)
SetsOK ==
  /\ queue \subseteq entered /\ active \subseteq entered /\ over \subseteq active
  /\ ended \subseteq entered /\ entered \subseteq Ids /\ IsFiniteSet(entered)

(* Who is on the way has an id, but for new visitors who have not been     *)
(* counted.                                                                *)
Identified(r) == r.pc \in {"idle", "evict", "count"} \/ r.id \in Ids

RequestsOK ==
  /\ req \in [Handlers -> Requests]
  /\ \A h \in Handlers : Identified(req[h])

(* A worker holds a batch no larger than the limit, and only while it      *)
(* promotes.                                                               *)
BatchOK(w) ==
  /\ IsFiniteSet(w.items)
  /\ Cardinality(w.items) <= TotalActiveUsers
  /\ w.pc # "promote" => w.items = {}

WorkersOK ==
  /\ worker \in [Instances -> Workers]
  /\ \A i \in Instances : BatchOK(worker[i]) /\ worker[i].items \subseteq entered

IInv ==
  /\ SetsOK
  /\ RequestsOK
  /\ WorkersOK
  /\ cookies \subseteq Cookies
  /\ faults \in 0..MaxFaults

LEMMA InvTyped == IInv => TypeOK
  BY DEF IInv, SetsOK, RequestsOK, WorkersOK, TypeOK

LEMMA InitIInv == Init => IInv
<1>. SUFFICES ASSUME Init PROVE IInv
  OBVIOUS
<1>. USE ClusterAssumption
<1>1. IdleRequest \in Requests /\ Identified(IdleRequest)
  BY DEF IdleRequest, Requests, Identified
<1>2. IsFiniteSet({}) /\ Cardinality({}) = 0
  BY FS_EmptySet
<1>3. FreshWorker \in Workers /\ BatchOK(FreshWorker) /\ FreshWorker.items = {}
  BY <1>2 DEF FreshWorker, Workers, BatchOK
<1>4. SetsOK
  BY <1>2 DEF Init, SetsOK
<1>5. RequestsOK
  BY <1>1 DEF Init, RequestsOK
<1>6. WorkersOK
  BY <1>3 DEF Init, WorkersOK
<1>. QED
  BY <1>4, <1>5, <1>6 DEF Init, IInv

-----------------------------------------------------------------------------
(* The sets after each command. *)

LEMMA EvictFacts ==
  ASSUME SetsOK, EvictExpired
  PROVE  /\ SetsOK' /\ queue' = queue /\ entered' = entered
         /\ active' \cup ended' = active \cup ended
  BY DEF SetsOK, EvictExpired

LEMMA AddFacts ==
  ASSUME SetsOK, NEW id \in Ids, AddActive(id)
  PROVE  SetsOK' /\ entered' = entered \cup {id}
<1>1. IsFiniteSet(entered \cup {id})
  BY FS_AddElement DEF SetsOK
<1>. QED
  BY <1>1 DEF SetsOK, AddActive

LEMMA QueueFacts ==
  ASSUME SetsOK, NEW id \in Ids, AddToQueue(id)
  PROVE  SetsOK' /\ entered' = entered \cup {id}
<1>1. IsFiniteSet(entered \cup {id})
  BY FS_AddElement DEF SetsOK
<1>. QED
  BY <1>1 DEF SetsOK, AddToQueue

LEMMA PopFacts ==
  ASSUME SetsOK, NEW batch, PopMembers(batch)
  PROVE  SetsOK' /\ entered' = entered
  BY DEF SetsOK, PopMembers

LEMMA NoCommand ==
  ASSUME SetsOK, UNCHANGED redis
  PROVE  SetsOK' /\ entered' = entered
  BY DEF SetsOK, redis

-----------------------------------------------------------------------------
(* The arithmetic of a tick. *)

(* The smaller of two numbers. *)
LEMMA MinFacts ==
  ASSUME NEW a \in Nat, NEW b \in Nat
  PROVE  Min({a, b}) \in Nat /\ Min({a, b}) <= a /\ Min({a, b}) <= b
<1>1. \E x \in {a, b} : \A y \in {a, b} : x <= y
  OBVIOUS
<1>2. Min({a, b}) \in {a, b} /\ \A y \in {a, b} : Min({a, b}) <= y
  BY <1>1 DEF Min
<1>. QED
  BY <1>2

(* A batch is part of the queue, and no larger than what was granted. *)
LEMMA BatchFacts ==
  ASSUME IInv, NEW i \in Instances, NEW batch \in Batches(worker[i].toAdmit)
  PROVE  /\ batch \subseteq queue /\ batch \subseteq Ids
         /\ IsFiniteSet(batch) /\ Cardinality(batch) \in Nat
         /\ Cardinality(batch) <= TotalActiveUsers
<1>1. batch \subseteq queue /\ queue \subseteq entered /\ IsFiniteSet(entered)
      /\ worker[i].toAdmit \in 0..TotalActiveUsers /\ entered \subseteq Ids
  BY DEF IInv, SetsOK, WorkersOK, Batches, Workers
<1>2. IsFiniteSet(queue) /\ IsFiniteSet(batch)
  BY <1>1, FS_Subset
<1>3. Cardinality(queue) \in Nat /\ Cardinality(batch) \in Nat
  BY <1>2, FS_CardinalityType
<1>4. Cardinality(batch) = Min({worker[i].toAdmit, Cardinality(queue)})
  BY DEF Batches
<1>5. Cardinality(batch) <= worker[i].toAdmit
  BY <1>1, <1>3, <1>4, MinFacts, ClusterAssumption
<1>. QED
  BY <1>1, <1>2, <1>3, <1>5, ClusterAssumption

(* The bucket after a tick's arithmetic, and the grant. *)
LEMMA TickFacts ==
  ASSUME IInv, NEW i \in Instances
  PROVE  LET n == Tick(i)!Granted
             free == Tick(i)!Available(Cardinality(active))
         IN  /\ free \in Int /\ free <= TotalActiveUsers
             /\ n \in Nat
             /\ n <= 0 => Tick(i)!Refilled \in 0..TicksPerMinute - 1
             /\ Tick(i)!Refilled - n * TicksPerMinute \in 0..TicksPerMinute - 1
             /\ free > 0 => Tick(i)!Capped(n, free) \in 0..TotalActiveUsers
<1>. USE ClusterAssumption
<1>. DEFINE r == worker[i].bucket + NewUsersPerMinute
            n == r \div TicksPerMinute
            free == TotalActiveUsers - Cardinality(active)
<1>1. r \in Nat
  BY DEF IInv, WorkersOK, Workers
<1>2. Tick(i)!Refilled = r /\ Tick(i)!Granted = n /\ Tick(i)!Available(Cardinality(active)) = free
  BY DEF Tick!Refilled, Tick!Granted, Tick!Available
<1>3. Cardinality(active) \in Nat
  <2>1. IsFiniteSet(active)
    BY FS_Subset DEF IInv, SetsOK
  <2>. QED
    BY <2>1, FS_CardinalityType
<1>4. Tick(i)!Capped(n, free) = IF n > free THEN free ELSE n
  BY DEF Tick!Capped
<1>. HIDE DEF r
<1>5. /\ n \in Nat /\ TicksPerMinute * n <= r /\ r - TicksPerMinute * n < TicksPerMinute
      /\ TicksPerMinute * n = n * TicksPerMinute
  BY <1>1, DivisionBounds
<1>. HIDE DEF n
<1>6. n <= 0 => r \in 0..TicksPerMinute - 1
  <2>. SUFFICES ASSUME n <= 0 PROVE r \in 0..TicksPerMinute - 1
    OBVIOUS
  <2>1. n = 0
    BY <1>5
  <2>2. TicksPerMinute * n = 0
    BY <2>1
  <2>. QED
    BY <1>1, <1>5, <2>2
<1>7. PICK p \in Int : p = n * TicksPerMinute
  BY <1>5
<1>8. r - n * TicksPerMinute \in 0..TicksPerMinute - 1
  BY <1>1, <1>5, <1>7
<1>. QED
  BY <1>2, <1>3, <1>4, <1>5, <1>6, <1>8

-----------------------------------------------------------------------------
(* The parts of a step that concern one handler or one worker. *)

LEMMA RequestMoves ==
  ASSUME RequestsOK, NEW h \in Handlers, NEW r \in Requests, Identified(r),
         req' = [req EXCEPT ![h] = r]
  PROVE  RequestsOK'
<1>1. req' \in [Handlers -> Requests]
  BY DEF RequestsOK
<1>2. \A g \in Handlers : req'[g] = IF g = h THEN r ELSE req[g]
  BY DEF RequestsOK
<1>. QED
  BY <1>1, <1>2 DEF RequestsOK, Identified

LEMMA RequestEnds ==
  ASSUME RequestsOK, NEW h \in Handlers, Answer(h)
  PROVE  RequestsOK'
<1>1. IdleRequest \in Requests /\ Identified(IdleRequest)
  BY DEF IdleRequest, Requests, Identified
<1>. QED
  BY <1>1, RequestMoves DEF Answer

LEMMA RequestGoesTo ==
  ASSUME RequestsOK, NEW h \in Handlers, NEW id \in Ids \cup {NoId},
         NEW next \in {"extend", "position", "evict", "count", "admit", "enqueue", "rank"},
         next \in {"evict", "count"} \/ id \in Ids, Goto(h, next, id)
  PROVE  RequestsOK'
<1>1. [pc |-> next, id |-> id] \in Requests /\ Identified([pc |-> next, id |-> id])
  BY DEF Requests, Identified
<1>. QED
  BY <1>1, RequestMoves DEF Goto

LEMMA WorkerMoves ==
  ASSUME WorkersOK, entered \subseteq entered', NEW i \in Instances, NEW w \in Workers,
         BatchOK(w), w.items \subseteq entered', worker' = [worker EXCEPT ![i] = w]
  PROVE  WorkersOK'
<1>1. worker' \in [Instances -> Workers]
  BY DEF WorkersOK
<1>2. \A k \in Instances : worker'[k] = IF k = i THEN w ELSE worker[k]
  BY DEF WorkersOK
<1>. QED
  BY <1>1, <1>2 DEF WorkersOK, BatchOK

LEMMA WorkersStay ==
  ASSUME WorkersOK, entered \subseteq entered', UNCHANGED worker
  PROVE  WorkersOK'
  BY DEF WorkersOK, BatchOK

(* A worker that goes on with what it holds. *)
LEMMA WorkerGoesTo ==
  ASSUME WorkersOK, UNCHANGED entered, NEW i \in Instances, worker[i].pc # "promote",
         NEW w \in Workers, w.items = worker[i].items, worker' = [worker EXCEPT ![i] = w]
  PROVE  WorkersOK'
<1>1. BatchOK(w) /\ w.items \subseteq entered
  BY DEF WorkersOK, BatchOK
<1>. QED
  BY <1>1, WorkerMoves

(* The loop over a batch drops an item. *)
LEMMA WorkerDrops ==
  ASSUME WorkersOK, entered \subseteq entered', NEW i \in Instances, NEW item \in worker[i].items,
         Done(i, item)
  PROVE  WorkersOK'
<1>. DEFINE items == worker[i].items \ {item}
            w == [worker[i] EXCEPT !.items = items,
                                   !.pc = IF worker[i].items = {item} THEN "select" ELSE "promote"]
<1>1. worker[i] \in Workers /\ BatchOK(worker[i]) /\ worker[i].items \subseteq entered
  BY DEF WorkersOK
<1>2. worker' = [worker EXCEPT ![i] = w]
  BY <1>1 DEF Done, WorkersOK, Workers
<1>3. IsFiniteSet(items) /\ Cardinality(items) <= Cardinality(worker[i].items)
      /\ Cardinality(items) \in Nat /\ Cardinality(worker[i].items) \in Nat
  BY <1>1, FS_Subset, FS_CardinalityType DEF BatchOK
<1>4. w \in Workers /\ w.items = items
  BY <1>1 DEF Workers
<1>5. w.pc # "promote" => items = {}
  BY <1>1 DEF Workers
<1>6. Cardinality(items) <= TotalActiveUsers
  BY <1>1, <1>3, ClusterAssumption DEF BatchOK
<1>. QED
  BY <1>1, <1>2, <1>3, <1>4, <1>5, <1>6, WorkerMoves DEF BatchOK

-----------------------------------------------------------------------------
(* Every step keeps the invariant: first the steps of a request. *)

LEMMA HandlerStepIInv ==
  ASSUME IInv, NEW h \in Handlers, HandlerStep(h)
  PROVE  IInv'
<1>. SetsOK /\ RequestsOK /\ WorkersOK /\ cookies \subseteq Cookies /\ faults \in 0..MaxFaults
     /\ req[h] \in Requests /\ Identified(req[h])
  BY DEF IInv, RequestsOK
<1>. USE ClusterAssumption
<1>a. req[h].pc \in {"extend", "position", "admit", "enqueue", "rank"} => req[h].id \in Ids
  BY DEF Identified
<1>b. \A id \in Ids, status \in {"queued", "active"} : Cookie(id, status) \in Cookies
  BY DEF Cookie, Cookies
<1>1. CASE Arrive(h)
  BY <1>1, EvictFacts, RequestGoesTo, WorkersStay DEF Arrive, IInv
<1>2. CASE IsActive(h)
  <2>. PICK c \in cookies :
         \/ cookies' = cookies \cup {Cookie(c.id, "active")} /\ Answer(h)
         \/ Goto(h, "extend", c.id) /\ UNCHANGED cookies
         \/ Goto(h, "position", c.id) /\ UNCHANGED cookies
         \/ Goto(h, "evict", NoId) /\ UNCHANGED cookies
    BY <1>2, Zenon DEF IsActive
  <2>1. c.id \in Ids
    BY DEF Cookies
  <2>2. RequestsOK'
    BY <2>1, RequestGoesTo, RequestEnds
  <2>3. cookies' \subseteq Cookies
    BY <2>1, <1>b
  <2>. QED
    BY <1>2, <2>2, <2>3, NoCommand, WorkersStay DEF IsActive, IInv
<1>3. CASE ExtendActive(h) \/ AdmitDirect(h)
  <2>1. req[h].id \in Ids /\ AddActive(req[h].id) /\ Answer(h)
        /\ cookies' = cookies \cup {Cookie(req[h].id, "active")} /\ UNCHANGED <<worker, faults>>
    BY <1>3, <1>a DEF ExtendActive, AdmitDirect
  <2>. QED
    BY <2>1, <1>b, AddFacts, RequestEnds, WorkersStay DEF IInv
<1>4. CASE GetPosition(h)
  BY <1>4, NoCommand, RequestEnds, RequestGoesTo, WorkersStay DEF GetPosition, IInv
<1>5. CASE Evict(h)
  BY <1>5, EvictFacts, RequestGoesTo, WorkersStay DEF Evict, IInv
<1>6. CASE Count(h)
  <2>1. PICK id \in Fresh : Goto(h, IF ShouldQueue(Cardinality(active)) THEN "enqueue" ELSE "admit", id)
    BY <1>6 DEF Count
  <2>2. Goto(h, "enqueue", id) \/ Goto(h, "admit", id)
    BY <2>1
  <2>3. RequestsOK'
    BY <2>2, RequestGoesTo DEF Fresh
  <2>. QED
    BY <1>6, <2>3, NoCommand, WorkersStay DEF Count, IInv
<1>7. CASE Enqueue(h)
  BY <1>7, <1>a, QueueFacts, RequestGoesTo, WorkersStay DEF Enqueue, IInv
<1>8. CASE Rank(h)
  BY <1>8, <1>a, <1>b, NoCommand, RequestEnds, WorkersStay DEF Rank, IInv
<1>9. CASE Abort(h)
  BY <1>9, NoCommand, RequestEnds, WorkersStay DEF Abort, IInv
<1>10. CASE RepeatRequest(h)
  <2>1. req[h].id \in Ids /\ (AddActive(req[h].id) \/ AddToQueue(req[h].id)) /\ Fault
        /\ UNCHANGED <<req, cookies, worker>>
    BY <1>10, <1>a DEF RepeatRequest
  <2>2. SetsOK' /\ entered \subseteq entered'
    BY <2>1, AddFacts, QueueFacts
  <2>3. faults' \in 0..MaxFaults
    BY <2>1 DEF Fault
  <2>4. RequestsOK'
    BY <2>1 DEF RequestsOK, Identified
  <2>. QED
    BY <2>1, <2>2, <2>3, <2>4, WorkersStay DEF IInv
<1>. QED
  BY <1>1, <1>2, <1>3, <1>4, <1>5, <1>6, <1>7, <1>8, <1>9, <1>10 DEF HandlerStep

(* Then those of a worker. *)
LEMMA WorkerStepIInv ==
  ASSUME IInv, NEW i \in Instances, WorkerStep(i)
  PROVE  IInv'
<1>. SetsOK /\ RequestsOK /\ WorkersOK /\ cookies \subseteq Cookies /\ faults \in 0..MaxFaults
  BY DEF IInv
<1>. USE ClusterAssumption
<1>a. /\ worker[i] \in Workers /\ BatchOK(worker[i]) /\ worker[i].items \subseteq entered
      /\ worker[i].bucket \in 0..TicksPerMinute - 1 /\ worker[i].toAdmit \in 0..TotalActiveUsers
      /\ 0 \in 0..TotalActiveUsers
  BY DEF WorkersOK, Workers
<1>b. ASSUME UNCHANGED req PROVE RequestsOK'
  BY <1>b DEF RequestsOK, Identified
<1>c. ASSUME Fault PROVE faults' \in 0..MaxFaults
  BY <1>c DEF Fault
<1>d. ASSUME EndTick(i), worker[i].pc # "promote", UNCHANGED entered PROVE WorkersOK'
  <2>. DEFINE w == [worker[i] EXCEPT !.pc = "select", !.toAdmit = 0]
  <2>1. worker' = [worker EXCEPT ![i] = w]
    BY <1>a, <1>d DEF EndTick, WorkersOK
  <2>2. w \in Workers /\ w.items = worker[i].items
    BY <1>a DEF Workers
  <2>. QED
    BY <1>d, <2>1, <2>2, WorkerGoesTo
<1>e. ASSUME NEW next \in {"select", "evict", "count", "pop"}, WorkerGoto(i, next),
             worker[i].pc # "promote", UNCHANGED entered
      PROVE  WorkersOK'
  <2>. DEFINE w == [worker[i] EXCEPT !.pc = next]
  <2>1. worker' = [worker EXCEPT ![i] = w]
    BY <1>a, <1>e DEF WorkerGoto, WorkersOK
  <2>2. w \in Workers /\ w.items = worker[i].items
    BY <1>a DEF Workers
  <2>. QED
    BY <1>e, <2>1, <2>2, WorkerGoesTo
<1>1. CASE CleanUp(i)
  <2>1. WorkersOK'
    <3>1. WorkerGoto(i, "evict") \/ WorkerGoto(i, "count")
      BY <1>1 DEF CleanUp
    <3>. QED
      BY <1>1, <3>1, <1>e, EvictFacts DEF CleanUp
  <2>. QED
    BY <1>1, <1>b, <2>1, EvictFacts DEF CleanUp, IInv
<1>2. CASE CountSlots(i)
  <2>. DEFINE n == Tick(i)!Granted
              free == Tick(i)!Available(Cardinality(active))
              refilled == Tick(i)!Refilled
              capped == Tick(i)!Capped(n, free)
  <2>1. /\ free \in Int /\ n \in Nat
        /\ n <= 0 => refilled \in 0..TicksPerMinute - 1
        /\ refilled - n * TicksPerMinute \in 0..TicksPerMinute - 1
        /\ free > 0 => capped \in 0..TotalActiveUsers
    BY TickFacts
  <2>2. \/ EndTick(i)
        \/ free > 0 /\ n <= 0 /\ worker' = [worker EXCEPT ![i].pc = "select", ![i].bucket = refilled]
        \/ free > 0 /\ worker' = [worker EXCEPT ![i].pc = "pop", ![i].toAdmit = capped,
                                                ![i].bucket = refilled - n * TicksPerMinute]
    BY <1>2, <2>1 DEF CountSlots
  <2>. HIDE DEF n, free, refilled, capped
  <2>3. worker[i].pc = "count" /\ UNCHANGED <<redis, req, cookies, faults>> /\ entered' = entered /\ SetsOK'
    BY <1>2, NoCommand DEF CountSlots
  <2>4. WorkersOK'
    <3>1. CASE EndTick(i)
      BY <3>1, <1>d, <2>3
    <3>2. CASE free > 0 /\ n <= 0 /\ worker' = [worker EXCEPT ![i].pc = "select", ![i].bucket = refilled]
      <4>. DEFINE w == [worker[i] EXCEPT !.pc = "select", !.bucket = refilled]
      <4>1. worker' = [worker EXCEPT ![i] = w]
        BY <1>a, <3>2 DEF WorkersOK
      <4>2. w \in Workers /\ w.items = worker[i].items
        BY <1>a, <2>1, <3>2 DEF Workers
      <4>. QED
        BY <2>3, <4>1, <4>2, WorkerGoesTo
    <3>3. CASE free > 0 /\ worker' = [worker EXCEPT ![i].pc = "pop", ![i].toAdmit = capped,
                                                   ![i].bucket = refilled - n * TicksPerMinute]
      <4>1. PICK b \in 0..TicksPerMinute - 1 : b = refilled - n * TicksPerMinute
        BY <2>1
      <4>. DEFINE w == [worker[i] EXCEPT !.pc = "pop", !.toAdmit = capped, !.bucket = b]
      <4>2. worker' = [worker EXCEPT ![i] = w]
        BY <1>a, <3>3, <4>1 DEF WorkersOK
      <4>3. w \in Workers /\ w.items = worker[i].items
        BY <1>a, <2>1, <3>3 DEF Workers
      <4>. QED
        BY <2>3, <4>2, <4>3, WorkerGoesTo
    <3>. QED
      BY <2>2, <3>1, <3>2, <3>3
  <2>. QED
    BY <1>b, <2>3, <2>4 DEF IInv
<1>3. CASE Pop(i)
  <2>1. PICK batch \in Batches(worker[i].toAdmit) :
          /\ PopMembers(batch)
          /\ worker' = [worker EXCEPT ![i].pc = IF batch = {} THEN "select" ELSE "promote",
                                      ![i].toAdmit = 0, ![i].items = batch]
    BY <1>3 DEF Pop
  <2>. DEFINE w == [worker[i] EXCEPT !.pc = IF batch = {} THEN "select" ELSE "promote",
                                     !.toAdmit = 0, !.items = batch]
  <2>2. worker' = [worker EXCEPT ![i] = w]
    BY <1>a, <2>1 DEF WorkersOK
  <2>3. w \in Workers /\ BatchOK(w) /\ w.items \subseteq entered
    BY <1>a, BatchFacts DEF Workers, BatchOK, SetsOK
  <2>. QED
    BY <1>3, <1>b, <2>1, <2>2, <2>3, PopFacts, WorkerMoves DEF Pop, IInv
<1>4. CASE Promote(i)
  <2>1. PICK item \in worker[i].items : AddActive(item) /\ Done(i, item)
    BY <1>4 DEF Promote
  <2>2. item \in Ids
    BY <1>a, <2>1 DEF SetsOK
  <2>. QED
    BY <1>4, <1>b, <2>1, <2>2, AddFacts, WorkerDrops DEF Promote, IInv
<1>5. CASE CommandFails(i)
  <2>1. entered' = entered /\ SetsOK'
    BY <1>5, NoCommand DEF CommandFails
  <2>2. WorkersOK'
    BY <1>5, <2>1, <1>d, <1>e, WorkerDrops DEF CommandFails
  <2>. QED
    BY <1>5, <1>b, <1>c, <2>1, <2>2 DEF CommandFails, IInv
<1>6. CASE Repeat(i)
  <2>1. SetsOK' /\ entered \subseteq entered'
    BY <1>6, <1>a, PopFacts, AddFacts DEF Repeat, SetsOK
  <2>. QED
    BY <1>6, <1>b, <1>c, <2>1, WorkersStay DEF Repeat, IInv
<1>7. CASE Restart(i)
  <2>1. FreshWorker \in Workers /\ BatchOK(FreshWorker) /\ FreshWorker.items = {}
    BY FS_EmptySet DEF FreshWorker, Workers, BatchOK
  <2>. QED
    BY <1>7, <1>b, <1>c, <2>1, NoCommand, WorkerMoves DEF Restart, IInv
<1>. QED
  BY <1>1, <1>2, <1>3, <1>4, <1>5, <1>6, <1>7 DEF WorkerStep

LEMMA StepIInv == IInv /\ [Next]_vars => IInv'
<1>. SUFFICES ASSUME IInv, [Next]_vars PROVE IInv'
  OBVIOUS
<1>1. CASE \E h \in Handlers : HandlerStep(h)
  BY <1>1, HandlerStepIInv
<1>2. CASE \E i \in Instances : WorkerStep(i)
  BY <1>2, WorkerStepIInv
<1>3. CASE Expire
  BY <1>3 DEF Expire, IInv, SetsOK, RequestsOK, Identified, WorkersOK, BatchOK
<1>4. CASE ObserveCount
  BY <1>4, EvictFacts, WorkersStay DEF ObserveCount, IInv, RequestsOK, Identified
<1>5. CASE UNCHANGED vars
  BY <1>5 DEF vars, IInv, SetsOK, RequestsOK, Identified, WorkersOK, BatchOK
<1>. QED
  BY <1>1, <1>2, <1>3, <1>4, <1>5 DEF Next

LEMMA Inductive == Spec => []IInv
<1>. QED
  BY InitIInv, StepIInv, PTL DEF Spec

-----------------------------------------------------------------------------
(* Types, for any number of instances, requests and faults. *)
THEOREM TypeCorrect == Spec => []TypeOK
<1>. QED
  BY InvTyped, Inductive, PTL

-----------------------------------------------------------------------------
(* What a step does to the batches and the sets: six kinds for the steps of *)
(* a worker.                                                               *)

Admitted == active \cup ended

SameItems == \A k \in Instances : worker'[k].items = worker[k].items

NewItems(i, items) ==
  \A k \in Instances : worker'[k].items = IF k = i THEN items ELSE worker[k].items

IsFault == faults' = faults + 1

Stays ==
  /\ SameItems /\ queue' = queue /\ entered' = entered /\ Admitted' = Admitted
  /\ active \subseteq active' \cup ended'
  /\ faults' = faults \/ IsFault

Pops(i) ==
  /\ worker[i].items = {} /\ faults' = faults
  /\ \E batch \in SUBSET queue : PopMembers(batch) /\ NewItems(i, batch)

Promotes(i) ==
  /\ faults' = faults
  /\ \E item \in worker[i].items : AddActive(item) /\ NewItems(i, worker[i].items \ {item})

Drops(i) ==
  /\ IsFault /\ UNCHANGED redis
  /\ \E items \in SUBSET worker[i].items : NewItems(i, items)

PopsTwice(i) == IsFault /\ SameItems /\ \E batch \in Batches(worker[i].toAdmit) : PopMembers(batch)

PromotesTwice(i) == IsFault /\ SameItems /\ \E item \in worker[i].items : AddActive(item)

WorkerMove(i) ==
  Stays \/ Pops(i) \/ Promotes(i) \/ Drops(i) \/ PopsTwice(i) \/ PromotesTwice(i)

LEMMA EvictionStays ==
  ASSUME SetsOK, EvictExpired, SameItems, faults' = faults
  PROVE  Stays
  BY DEF SetsOK, EvictExpired, Stays, Admitted

LEMMA NoCommandStays ==
  ASSUME UNCHANGED redis, SameItems, faults' = faults \/ IsFault
  PROVE  Stays
  BY DEF redis, Stays, Admitted

LEMMA DoneItems ==
  ASSUME WorkersOK, NEW i \in Instances, NEW item, Done(i, item)
  PROVE  NewItems(i, worker[i].items \ {item})
  BY DEF WorkersOK, Workers, Done, NewItems

LEMMA WorkerKinds ==
  ASSUME IInv, NEW i \in Instances, WorkerStep(i)
  PROVE  UNCHANGED <<req, cookies>> /\ WorkerMove(i)
<1>. USE DEF WorkerMove
<1>. SetsOK /\ WorkersOK /\ BatchOK(worker[i]) /\ worker[i] \in Workers
  BY DEF IInv, WorkersOK
<1>a. ASSUME NEW next, WorkerGoto(i, next) PROVE SameItems
  BY <1>a DEF WorkerGoto, WorkersOK, Workers, SameItems
<1>b. ASSUME EndTick(i) PROVE SameItems
  BY <1>b DEF EndTick, WorkersOK, Workers, SameItems
<1>1. CASE CleanUp(i)
  BY <1>1, <1>a, EvictionStays DEF CleanUp
<1>2. CASE CountSlots(i)
  <2>. DEFINE free == Tick(i)!Available(Cardinality(active))
              n == Tick(i)!Granted
              refilled == Tick(i)!Refilled
              capped == Tick(i)!Capped(n, free)
  <2>1. free \in Int /\ n \in Nat
    BY TickFacts
  <2>2. \/ EndTick(i)
        \/ worker' = [worker EXCEPT ![i].pc = "select", ![i].bucket = refilled]
        \/ worker' = [worker EXCEPT ![i].pc = "pop", ![i].toAdmit = capped,
                                    ![i].bucket = refilled - n * TicksPerMinute]
    BY <1>2, <2>1 DEF CountSlots
  <2>. HIDE DEF free, n, refilled, capped
  <2>3. SameItems
    BY <1>b, <2>2 DEF WorkersOK, Workers, SameItems
  <2>. QED
    BY <1>2, <2>3, NoCommandStays DEF CountSlots
<1>3. CASE Pop(i)
  <2>1. PICK batch \in Batches(worker[i].toAdmit) :
          /\ PopMembers(batch)
          /\ worker' = [worker EXCEPT ![i].pc = IF batch = {} THEN "select" ELSE "promote",
                                      ![i].toAdmit = 0, ![i].items = batch]
    BY <1>3 DEF Pop
  <2>2. NewItems(i, batch)
    BY <2>1 DEF WorkersOK, Workers, NewItems
  <2>3. worker[i].items = {}
    BY <1>3 DEF Pop, BatchOK
  <2>. QED
    BY <1>3, <2>1, <2>2, <2>3 DEF Pop, Pops, Batches
<1>4. CASE Promote(i)
  BY <1>4, DoneItems DEF Promote, Promotes
<1>5. CASE CommandFails(i)
  <2>1. IsFault /\ UNCHANGED <<redis, req, cookies>>
    BY <1>5 DEF CommandFails, Fault, IsFault
  <2>2. ASSUME NEW item \in worker[i].items, Done(i, item) PROVE Drops(i)
    <3>1. worker[i].items \ {item} \in SUBSET worker[i].items
      OBVIOUS
    <3>. QED
      BY <2>1, <2>2, <3>1, DoneItems DEF Drops
  <2>. QED
    BY <1>5, <1>a, <1>b, <2>1, <2>2, NoCommandStays DEF CommandFails
<1>6. CASE Repeat(i)
  BY <1>6 DEF Repeat, Fault, IsFault, PopsTwice, PromotesTwice, SameItems
<1>7. CASE Restart(i)
  <2>1. NewItems(i, {})
    BY <1>7 DEF Restart, FreshWorker, WorkersOK, NewItems
  <2>. QED
    BY <1>7, <2>1 DEF Restart, Fault, IsFault, Drops
<1>. QED
  BY <1>1, <1>2, <1>3, <1>4, <1>5, <1>6, <1>7 DEF WorkerStep

(* A step of nobody's. *)
LEMMA OtherKinds ==
  ASSUME SetsOK, Expire \/ ObserveCount \/ UNCHANGED vars
  PROVE  Stays /\ UNCHANGED <<req, cookies>>
<1>1. SameItems /\ faults' = faults /\ UNCHANGED <<req, cookies>>
  BY DEF Expire, ObserveCount, vars, SameItems
<1>2. EvictExpired \/ (queue' = queue /\ entered' = entered /\ active' = active /\ ended' = ended)
  BY DEF Expire, ObserveCount, vars
<1>. QED
  BY <1>1, <1>2, EvictionStays DEF Stays, Admitted

(* The visitors in the workers' hands. *)
LEMMA HeldMoves ==
  ASSUME NEW i \in Instances, NEW items, NewItems(i, items)
  PROVE  Held \ (worker[i].items \ items) \subseteq Held' /\ items \subseteq Held'
  BY DEF Held, NewItems

LEMMA HeldStays ==
  ASSUME SameItems
  PROVE  Held' = Held
  BY DEF Held, SameItems

-----------------------------------------------------------------------------
(* Who was admitted stays so: an active session ends and is not forgotten. *)

LEMMA AdmittedGrows ==
  ASSUME IInv, [Next]_vars
  PROVE  Admitted \subseteq Admitted'
<1>1. EvictExpired => Admitted \subseteq Admitted'
  BY DEF EvictExpired, Admitted
<1>2. \A id : AddActive(id) => Admitted \subseteq Admitted'
  BY DEF AddActive, Admitted
<1>3. \A id : AddToQueue(id) => Admitted \subseteq Admitted'
  BY DEF AddToQueue, Admitted
<1>4. \A batch : PopMembers(batch) => Admitted \subseteq Admitted'
  BY DEF PopMembers, Admitted
<1>5. UNCHANGED redis => Admitted \subseteq Admitted'
  BY DEF redis, Admitted
<1>6. ASSUME NEW h \in Handlers, HandlerStep(h) PROVE Admitted \subseteq Admitted'
  BY <1>1, <1>2, <1>3, <1>5, <1>6
     DEF HandlerStep, Arrive, IsActive, ExtendActive, GetPosition, Evict, Count, AdmitDirect,
         Enqueue, Rank, Abort, RepeatRequest
<1>7. ASSUME NEW i \in Instances, WorkerStep(i) PROVE Admitted \subseteq Admitted'
  BY <1>1, <1>2, <1>4, <1>5, <1>7
     DEF WorkerStep, CleanUp, CountSlots, Pop, Promote, CommandFails, Repeat, Restart
<1>8. Expire \/ ObserveCount \/ UNCHANGED vars => Admitted \subseteq Admitted'
  BY <1>1 DEF Expire, ObserveCount, vars, Admitted
<1>. QED
  BY <1>6, <1>7, <1>8 DEF Next

(* A step gives out active cookies for the id it admits or renews, or for  *)
(* one it has found live, and renews only what it has found live.          *)
LEMMA AdmittedOnlyStep ==
  ASSUME IInv, AdmittedOnly, [Next]_vars
  PROVE  AdmittedOnly'
<1>. SUFFICES
       ASSUME TRUE
       PROVE  /\ \A c \in cookies' : c.status = "active" => c.id \in Admitted'
              /\ \A h \in Handlers : req'[h].pc = "extend" => req'[h].id \in Admitted'
  BY DEF AdmittedOnly, Admitted
<1>1. /\ \A c \in cookies : c.status = "active" => c.id \in Admitted'
      /\ \A h \in Handlers : req[h].pc = "extend" => req[h].id \in Admitted'
  BY AdmittedGrows DEF AdmittedOnly, Admitted
<1>2. req \in [Handlers -> Requests]
  BY DEF IInv, RequestsOK
<1>3. \A id : \A h \in Handlers : Answer(h) \/ (\E next \in {"position", "evict", "count", "admit", "enqueue", "rank"} :
                                       Goto(h, next, id))
        => \A g \in Handlers : req'[g].pc = "extend" => req'[g].id \in Admitted'
  BY <1>1, <1>2 DEF Answer, Goto, IdleRequest
<1>4. CASE \E h \in Handlers : HandlerStep(h)
  <2>. PICK h \in Handlers : HandlerStep(h)
    BY <1>4
  <2>1. CASE IsActive(h)
    <3>. PICK c \in cookies :
           \/ /\ IsLive(c.id)
              /\ \/ cookies' = cookies \cup {Cookie(c.id, "active")} /\ Answer(h)
                 \/ Goto(h, "extend", c.id) /\ UNCHANGED cookies
           \/ Goto(h, "position", c.id) /\ UNCHANGED cookies
           \/ Goto(h, "evict", NoId) /\ UNCHANGED cookies
      BY <2>1, Zenon DEF IsActive
    <3>1. CASE IsLive(c.id) /\ cookies' = cookies \cup {Cookie(c.id, "active")} /\ Answer(h)
      <4>1. c.id \in Admitted'
        BY <3>1, AdmittedGrows DEF IsLive, Admitted
      <4>. QED
        BY <1>1, <1>3, <3>1, <4>1 DEF Cookie
    <3>2. CASE IsLive(c.id) /\ Goto(h, "extend", c.id) /\ UNCHANGED cookies
      <4>1. c.id \in Admitted'
        BY <3>2, AdmittedGrows DEF IsLive, Admitted
      <4>. QED
        BY <1>1, <1>2, <3>2, <4>1 DEF Goto
    <3>3. CASE (Goto(h, "position", c.id) \/ Goto(h, "evict", NoId)) /\ UNCHANGED cookies
      BY <1>1, <1>3, <3>3
    <3>. QED
      BY <3>1, <3>2, <3>3
  <2>2. CASE ExtendActive(h) \/ AdmitDirect(h)
    <3>1. req[h].id \in Admitted' /\ Answer(h) /\ cookies' = cookies \cup {Cookie(req[h].id, "active")}
      BY <2>2 DEF ExtendActive, AdmitDirect, AddActive, Admitted
    <3>. QED
      BY <1>1, <1>3, <3>1 DEF Cookie
  <2>3. CASE Rank(h)
    <3>1. Answer(h) /\ \A c \in cookies' : c \in cookies \/ c = Cookie(req[h].id, "queued")
      BY <2>3 DEF Rank
    <3>. QED
      BY <1>1, <1>3, <3>1 DEF Cookie
  <2>4. CASE Count(h)
    <3>1. cookies' = cookies /\ \E id : Goto(h, "enqueue", id) \/ Goto(h, "admit", id)
      BY <2>4 DEF Count
    <3>. QED
      BY <1>1, <1>3, <3>1
  <2>5. CASE Arrive(h) \/ GetPosition(h) \/ Evict(h) \/ Enqueue(h) \/ Abort(h)
    BY <1>1, <1>3, <2>5 DEF Arrive, GetPosition, Evict, Enqueue, Abort
  <2>6. CASE RepeatRequest(h)
    BY <1>1, <2>6 DEF RepeatRequest
  <2>. QED
    BY <2>1, <2>2, <2>3, <2>4, <2>5, <2>6 DEF HandlerStep
<1>5. CASE (\E i \in Instances : WorkerStep(i)) \/ Expire \/ ObserveCount \/ UNCHANGED vars
  <2>1. UNCHANGED <<req, cookies>>
    BY <1>5 DEF WorkerStep, CleanUp, CountSlots, Pop, Promote, CommandFails, Repeat, Restart,
                Expire, ObserveCount, vars
  <2>. QED
    BY <1>1, <2>1
<1>. QED
  BY <1>4, <1>5 DEF Next

(* Only admitted visitors reach the origin, by whichever instance, however *)
(* commands fail, are repeated or are lost with an instance.               *)
THEOREM OnlyAdmitted == Spec => []AdmittedOnly
<1>1. Init => AdmittedOnly
  BY DEF Init, AdmittedOnly, IdleRequest
<1>2. IInv /\ AdmittedOnly /\ [Next]_vars => AdmittedOnly'
  BY AdmittedOnlyStep
<1>. QED
  BY <1>1, <1>2, Inductive, PTL DEF Spec

-----------------------------------------------------------------------------
(* What is lost. *)

(* A step loses nobody, or it is a fault and loses a batch at most. *)
LosesNobody == Lost' \subseteq Lost /\ (faults' = faults \/ faults' = faults + 1)

LosesBatch ==
  /\ faults' = faults + 1
  /\ \E batch : /\ IsFiniteSet(batch) /\ Cardinality(batch) <= TotalActiveUsers
                /\ Lost' \subseteq Lost \cup batch

LEMMA HandlerLoses ==
  ASSUME IInv, NEW h \in Handlers, HandlerStep(h)
  PROVE  LosesNobody
<1>1. /\ UNCHANGED worker
      /\ \/ EvictExpired
         \/ \E id : AddActive(id)
         \/ \E id : AddToQueue(id)
         \/ UNCHANGED redis
  BY DEF HandlerStep, Arrive, IsActive, ExtendActive, GetPosition, Evict, Count, AdmitDirect,
         Enqueue, Rank, Abort, RepeatRequest
<1>2. Held' = Held
  BY <1>1, HeldStays DEF SameItems
<1>3. Lost' \subseteq Lost
  BY <1>1, <1>2 DEF EvictExpired, AddActive, AddToQueue, redis, Lost
<1>4. faults' = faults \/ faults' = faults + 1
  BY DEF HandlerStep, Arrive, IsActive, ExtendActive, GetPosition, Evict, Count, AdmitDirect,
         Enqueue, Rank, Abort, RepeatRequest, Fault
<1>. QED
  BY <1>3, <1>4 DEF LosesNobody

LEMMA StaysLoses ==
  ASSUME Stays
  PROVE  LosesNobody
  BY HeldStays DEF Stays, Admitted, LosesNobody, Lost, IsFault

LEMMA WorkerLoses ==
  ASSUME IInv, NEW i \in Instances, WorkerStep(i)
  PROVE  LosesNobody \/ LosesBatch
<1>. USE ClusterAssumption
<1>1. CASE Stays
  BY <1>1, StaysLoses
<1>2. CASE Pops(i)
  <2>1. PICK batch \in SUBSET queue : PopMembers(batch) /\ NewItems(i, batch)
    BY <1>2 DEF Pops
  <2>2. Held \subseteq Held' /\ batch \subseteq Held'
    BY <1>2, <2>1, HeldMoves DEF Pops
  <2>. QED
    BY <1>2, <2>1, <2>2 DEF Pops, PopMembers, LosesNobody, Lost
<1>3. CASE Promotes(i)
  <2>1. PICK item : AddActive(item) /\ NewItems(i, worker[i].items \ {item})
    BY <1>3 DEF Promotes
  <2>2. Held \ {item} \subseteq Held'
    BY <2>1, HeldMoves
  <2>. QED
    BY <1>3, <2>1, <2>2 DEF Promotes, AddActive, LosesNobody, Lost
<1>4. CASE Drops(i)
  <2>1. PICK items : NewItems(i, items)
    BY <1>4 DEF Drops
  <2>2. Held \ worker[i].items \subseteq Held'
    BY <2>1, HeldMoves
  <2>3. Lost' \subseteq Lost \cup worker[i].items
    BY <1>4, <2>2 DEF Drops, redis, Lost
  <2>. QED
    BY <1>4, <2>3 DEF Drops, IsFault, LosesBatch, IInv, WorkersOK, BatchOK
<1>5. CASE PopsTwice(i)
  <2>1. PICK batch \in Batches(worker[i].toAdmit) : PopMembers(batch)
    BY <1>5 DEF PopsTwice
  <2>2. Lost' \subseteq Lost \cup batch
    BY <1>5, <2>1, HeldStays DEF PopsTwice, PopMembers, Lost
  <2>. QED
    BY <1>5, <2>2, BatchFacts DEF PopsTwice, IsFault, LosesBatch
<1>6. CASE PromotesTwice(i)
  BY <1>6, HeldStays DEF PromotesTwice, AddActive, IsFault, LosesNobody, Lost
<1>. QED
  BY <1>1, <1>2, <1>3, <1>4, <1>5, <1>6, WorkerKinds DEF WorkerMove

LEMMA LossStep ==
  ASSUME IInv, LossBounded, [Next]_vars
  PROVE  LossBounded'
<1>. USE ClusterAssumption
<1>1. LosesNobody \/ LosesBatch
  BY HandlerLoses, WorkerLoses, OtherKinds, StaysLoses DEF Next, IInv
<1>2. IsFiniteSet(Lost) /\ Cardinality(Lost) \in Nat
  BY FS_Subset, FS_CardinalityType DEF IInv, SetsOK, Lost
<1>3. PICK f \in Nat : f = faults
  BY DEF IInv
<1>4. /\ TotalActiveUsers * f \in Nat
      /\ TotalActiveUsers * (f + 1) = TotalActiveUsers * f + TotalActiveUsers
  BY OneMore
<1>5. Cardinality(Lost) <= TotalActiveUsers * f
  BY <1>3 DEF LossBounded
<1>6. CASE LosesNobody
  <2>1. Cardinality(Lost') \in Nat /\ Cardinality(Lost') <= Cardinality(Lost)
    BY <1>2, <1>6, FS_Subset, FS_CardinalityType DEF LosesNobody
  <2>2. Cardinality(Lost') <= TotalActiveUsers * f /\ Cardinality(Lost') <= TotalActiveUsers * (f + 1)
    BY <1>2, <1>4, <1>5, <2>1
  <2>. QED
    BY <1>3, <1>6, <2>2 DEF LosesNobody, LossBounded
<1>7. CASE LosesBatch
  <2>1. PICK batch : /\ IsFiniteSet(batch) /\ Cardinality(batch) <= TotalActiveUsers
                     /\ Lost' \subseteq Lost \cup batch
    BY <1>7 DEF LosesBatch
  <2>2. /\ IsFiniteSet(Lost \cup batch) /\ IsFiniteSet(Lost \cap batch)
        /\ Cardinality(Lost \cup batch)
             = Cardinality(Lost) + Cardinality(batch) - Cardinality(Lost \cap batch)
    BY <1>2, <2>1, FS_Union, FS_Intersection
  <2>3. /\ Cardinality(batch) \in Nat /\ Cardinality(Lost \cap batch) \in Nat
        /\ Cardinality(Lost \cup batch) \in Nat /\ Cardinality(Lost') \in Nat
        /\ Cardinality(Lost') <= Cardinality(Lost \cup batch)
    BY <2>1, <2>2, FS_Subset, FS_CardinalityType
  <2>4. Cardinality(Lost') <= TotalActiveUsers * (f + 1)
    BY <1>2, <1>4, <1>5, <2>1, <2>2, <2>3
  <2>. QED
    BY <1>3, <1>7, <2>4 DEF LosesBatch, LossBounded
<1>. QED
  BY <1>1, <1>6, <1>7

(* Without a fault nobody is lost, and each fault loses a batch at most,   *)
(* for every number of instances and every limit.                          *)
THEOREM LittleIsLost == Spec => []LossBounded
<1>1. Init => LossBounded
  <2>. SUFFICES ASSUME Init PROVE LossBounded
    OBVIOUS
  <2>1. Lost = {} /\ Cardinality({}) = 0 /\ faults = 0
    BY FS_EmptySet DEF Init, Lost
  <2>. QED
    BY <2>1, ClusterAssumption DEF LossBounded
<1>2. IInv /\ LossBounded /\ [Next]_vars => LossBounded'
  BY LossStep
<1>. QED
  BY <1>1, <1>2, Inductive, PTL DEF Spec

-----------------------------------------------------------------------------
(* Ids in two places.  The id a request has made is its own until it is    *)
(* answered: no other request and no cookie has it, and while it is to be  *)
(* admitted it does not wait.                                              *)
MakesId(h) == req[h].pc \in {"admit", "enqueue"}

OwnIds ==
  /\ \A h \in Handlers : MakesId(h) =>
       /\ \A c \in cookies : c.id # req[h].id
       /\ \A g \in Handlers \ {h} : req[g].id # req[h].id
  /\ \A h \in Handlers : req[h].pc = "admit" => req[h].id \notin queue \cup Held
  /\ \A c \in cookies : c.id \in entered
  /\ \A h \in Handlers : req[h].pc = "rank" => req[h].id \in entered

(* An id that waits twice, or that waits and was admitted, is charged to a *)
(* fault; so is one that has been enqueued and will be again, since it may *)
(* be popped in between.                                                   *)
Doubled(id) ==
  \/ id \in queue \cap Held
  \/ id \in queue \cup Held /\ id \in Admitted
  \/ \E i, k \in Instances : i # k /\ id \in worker[i].items \cap worker[k].items

Twice(id) == \E h \in Handlers : req[h].pc = "enqueue" /\ req[h].id = id

Charged == {id \in entered : Doubled(id) \/ Twice(id)}

ChargedBounded == Cardinality(Charged) <= faults

LEMMA WorkersHold ==
  ASSUME IInv
  PROVE  /\ queue \subseteq entered /\ Held \subseteq entered /\ Admitted \subseteq entered
         /\ req \in [Handlers -> Requests] /\ NoId \notin Ids
         /\ \A h \in Handlers : Identified(req[h])
  BY ClusterAssumption DEF IInv, SetsOK, RequestsOK, WorkersOK, Held, Admitted

(* A step of a request that makes no id ... *)
LEMMA OwnIdsKept ==
  ASSUME IInv, OwnIds, NEW h \in Handlers, NEW r, req' = [req EXCEPT ![h] = r],
         r.pc \notin {"admit", "enqueue"}, r.pc = "rank" => r.id \in entered',
         UNCHANGED worker, entered \subseteq entered',
         \A g \in Handlers \ {h} : MakesId(g) => r.id # req[g].id,
         \A c \in cookies' \ cookies :
           c.id \in entered' /\ \A g \in Handlers \ {h} : MakesId(g) => c.id # req[g].id,
         \A id \in queue' \ queue : MakesId(h) /\ id = req[h].id
  PROVE  OwnIds'
<1>1. \A g \in Handlers : req'[g] = IF g = h THEN r ELSE req[g]
  BY WorkersHold
<1>2. Held' = Held
  BY HeldStays DEF SameItems
<1>3. \A g \in Handlers : MakesId(g)' => g # h /\ MakesId(g) /\ req'[g] = req[g]
  BY <1>1 DEF MakesId
<1>4. ASSUME NEW g \in Handlers, MakesId(g)'
      PROVE  /\ \A c \in cookies' : c.id # req'[g].id
             /\ \A k \in Handlers \ {g} : req'[k].id # req'[g].id
  BY <1>1, <1>3, <1>4 DEF OwnIds
<1>5. ASSUME NEW g \in Handlers, req'[g].pc = "admit" PROVE req'[g].id \notin queue' \cup Held'
  <2>1. g # h /\ req'[g] = req[g] /\ req[g].id \notin queue \cup Held
    BY <1>1, <1>5 DEF OwnIds
  <2>2. MakesId(h) => req[g].id # req[h].id
    BY <2>1 DEF OwnIds
  <2>. QED
    BY <1>2, <2>1, <2>2
<1>6. \A c \in cookies' : c.id \in entered'
  BY DEF OwnIds
<1>7. \A g \in Handlers : req'[g].pc = "rank" => req'[g].id \in entered'
  BY <1>1 DEF OwnIds
<1>. QED
  BY <1>4, <1>5, <1>6, <1>7 DEF OwnIds

LEMMA OwnIdsOnAnswer ==
  ASSUME IInv, OwnIds, NEW h \in Handlers, Answer(h), UNCHANGED worker, entered \subseteq entered',
         \A c \in cookies' \ cookies :
           c.id \in entered' /\ \A g \in Handlers \ {h} : MakesId(g) => c.id # req[g].id,
         UNCHANGED queue
  PROVE  OwnIds'
<1>1. \A g \in Handlers : MakesId(g) => NoId # req[g].id
  BY WorkersHold DEF MakesId, Identified
<1>2. PICK r : r = IdleRequest
  OBVIOUS
<1>3. r.pc = "idle" /\ r.id = NoId /\ req' = [req EXCEPT ![h] = r]
  BY <1>2 DEF IdleRequest, Answer
<1>4. r.pc \notin {"admit", "enqueue"} /\ r.pc # "rank" /\ queue' \ queue = {}
      /\ \A g \in Handlers \ {h} : MakesId(g) => r.id # req[g].id
  BY <1>1, <1>3
<1>. QED
  BY <1>3, <1>4, OwnIdsKept

LEMMA OwnIdsOnMove ==
  ASSUME IInv, OwnIds, NEW h \in Handlers, NEW id, NEW next \in {"extend", "position", "evict", "count"},
         Goto(h, next, id), UNCHANGED <<worker, cookies, queue>>, entered \subseteq entered',
         \A g \in Handlers \ {h} : MakesId(g) => id # req[g].id
  PROVE  OwnIds'
<1>1. PICK r : r = [pc |-> next, id |-> id]
  OBVIOUS
<1>2. r.pc = next /\ r.id = id /\ req' = [req EXCEPT ![h] = r]
  BY <1>1 DEF Goto
<1>3. r.pc \notin {"admit", "enqueue"} /\ r.pc # "rank" /\ queue' \ queue = {} /\ cookies' \ cookies = {}
      /\ \A g \in Handlers \ {h} : MakesId(g) => r.id # req[g].id
  BY <1>2
<1>. QED
  BY <1>2, <1>3, OwnIdsKept

(* ... one that makes an id, and one that is repeated. *)
LEMMA HandlerOwnIds ==
  ASSUME IInv, AdmittedOnly, OwnIds, NEW h \in Handlers, HandlerStep(h)
  PROVE  OwnIds'
<1>a. /\ queue \subseteq entered /\ Held \subseteq entered
      /\ \A g \in Handlers : MakesId(g) => req[g].id \in Ids /\ req[g].id # NoId
  BY WorkersHold DEF MakesId, Identified
<1>1. CASE Arrive(h) \/ Evict(h)
  <2>1. /\ Goto(h, "count", NoId) /\ UNCHANGED <<worker, cookies>>
        /\ queue' = queue /\ entered' = entered
    BY <1>1 DEF Arrive, Evict, EvictExpired
  <2>. QED
    BY <1>a, <2>1, OwnIdsOnMove
<1>2. CASE IsActive(h)
  <2>. PICK c \in cookies :
         \/ cookies' = cookies \cup {Cookie(c.id, "active")} /\ Answer(h)
         \/ Goto(h, "extend", c.id) /\ UNCHANGED cookies
         \/ Goto(h, "position", c.id) /\ UNCHANGED cookies
         \/ Goto(h, "evict", NoId) /\ UNCHANGED cookies
    BY <1>2, Zenon DEF IsActive
  <2>1. queue' = queue /\ entered' = entered /\ worker' = worker
    BY <1>2 DEF IsActive, redis
  <2>2. c.id \in entered /\ \A g \in Handlers : MakesId(g) => c.id # req[g].id
    BY DEF OwnIds
  <2>3. CASE cookies' = cookies \cup {Cookie(c.id, "active")} /\ Answer(h)
    <3>1. \A d \in cookies' \ cookies : d.id = c.id
      BY <2>3 DEF Cookie
    <3>. QED
      BY <2>1, <2>2, <2>3, <3>1, OwnIdsOnAnswer
  <2>4. CASE (Goto(h, "extend", c.id) \/ Goto(h, "position", c.id)) /\ UNCHANGED cookies
    BY <2>1, <2>2, <2>4, OwnIdsOnMove
  <2>5. CASE Goto(h, "evict", NoId) /\ UNCHANGED cookies
    BY <1>a, <2>1, <2>5, OwnIdsOnMove
  <2>. QED
    BY <2>3, <2>4, <2>5
<1>3. CASE ExtendActive(h) \/ AdmitDirect(h)
  <2>1. /\ Answer(h) /\ worker' = worker /\ queue' = queue
        /\ entered' = entered \cup {req[h].id}
        /\ cookies' = cookies \cup {Cookie(req[h].id, "active")}
    BY <1>3 DEF ExtendActive, AdmitDirect, AddActive
  <2>2. \A d \in cookies' \ cookies : d.id = req[h].id
    BY <2>1 DEF Cookie
  <2>3. \A g \in Handlers \ {h} : MakesId(g) => req[h].id # req[g].id
    BY DEF OwnIds
  <2>. QED
    BY <2>1, <2>2, <2>3, OwnIdsOnAnswer
<1>4. CASE GetPosition(h)
  <2>1. /\ Answer(h) \/ Goto(h, "evict", NoId)
        /\ UNCHANGED <<worker, cookies>> /\ queue' = queue /\ entered' = entered
    BY <1>4 DEF GetPosition, redis
  <2>2. CASE Answer(h)
    BY <2>1, <2>2, OwnIdsOnAnswer
  <2>3. CASE Goto(h, "evict", NoId)
    BY <1>a, <2>1, <2>3, OwnIdsOnMove
  <2>. QED
    BY <2>1, <2>2, <2>3
<1>5. CASE Count(h)
  <2>1. PICK id \in Fresh, next \in {"enqueue", "admit"} : Goto(h, next, id)
    BY <1>5 DEF Count
  <2>2. id \notin entered /\ \A g \in Handlers : req[g].id # id
    BY DEF Fresh
  <2>3. \A g \in Handlers : req'[g] = IF g = h THEN [pc |-> next, id |-> id] ELSE req[g]
    BY <2>1, WorkersHold DEF Goto
  <2>4. UNCHANGED <<worker, cookies>> /\ queue' = queue /\ entered' = entered /\ Held' = Held
    BY <1>5, HeldStays DEF SameItems, Count, redis
  <2>5. \A g \in Handlers : MakesId(g)' =>
          /\ \A c \in cookies : c.id # req'[g].id
          /\ \A k \in Handlers \ {g} : req'[k].id # req'[g].id
    BY <2>2, <2>3 DEF OwnIds, MakesId
  <2>6. \A g \in Handlers : req'[g].pc = "admit" => req'[g].id \notin queue \cup Held
    BY <1>a, <2>2, <2>3 DEF OwnIds
  <2>7. \A g \in Handlers : req'[g].pc = "rank" => req'[g].id \in entered
    BY <2>3 DEF OwnIds
  <2>. QED
    BY <2>4, <2>5, <2>6, <2>7 DEF OwnIds
<1>6. CASE Enqueue(h)
  <2>1. /\ Goto(h, "rank", req[h].id) /\ UNCHANGED <<worker, cookies>> /\ MakesId(h)
        /\ queue' = queue \cup {req[h].id} /\ entered' = entered \cup {req[h].id}
    BY <1>6 DEF Enqueue, AddToQueue, MakesId
  <2>2. \A g \in Handlers \ {h} : MakesId(g) => req[h].id # req[g].id
    BY DEF OwnIds
  <2>3. PICK r : r = [pc |-> "rank", id |-> req[h].id]
    OBVIOUS
  <2>4. r.pc = "rank" /\ r.id = req[h].id /\ req' = [req EXCEPT ![h] = r]
    BY <2>1, <2>3 DEF Goto
  <2>5. /\ r.pc \notin {"admit", "enqueue"} /\ r.id \in entered' /\ cookies' \ cookies = {}
        /\ \A g \in Handlers \ {h} : MakesId(g) => r.id # req[g].id
        /\ \A id \in queue' \ queue : MakesId(h) /\ id = req[h].id
        /\ entered \subseteq entered' /\ UNCHANGED worker
    BY <2>1, <2>2, <2>4
  <2>. QED
    BY <2>4, <2>5, OwnIdsKept
<1>7. CASE Rank(h)
  <2>1. /\ Answer(h) /\ worker' = worker /\ queue' = queue /\ entered' = entered
        /\ \A c \in cookies' \ cookies : c = Cookie(req[h].id, "queued")
    BY <1>7 DEF Rank, redis
  <2>2. req[h].id \in entered /\ \A g \in Handlers \ {h} : MakesId(g) => req[h].id # req[g].id
    BY <1>7 DEF OwnIds, Rank
  <2>. QED
    BY <2>1, <2>2, OwnIdsOnAnswer DEF Cookie
<1>8. CASE Abort(h)
  BY <1>8, OwnIdsOnAnswer DEF Abort, redis
<1>9. CASE RepeatRequest(h)
  <2>1. /\ UNCHANGED <<req, cookies, worker>> /\ entered \subseteq entered' /\ Held' = Held
        /\ queue' = queue \/ (queue' = queue \cup {req[h].id} /\ req[h].pc = "enqueue")
    BY <1>9, HeldStays DEF SameItems, RepeatRequest, AddActive, AddToQueue
  <2>2. \A g \in Handlers : MakesId(g)' <=> MakesId(g)
    BY <2>1 DEF MakesId
  <2>3. \A g \in Handlers : req[g].pc = "admit" => req[g].id \notin queue' \cup Held
    BY <2>1 DEF OwnIds, MakesId
  <2>. QED
    BY <2>1, <2>2, <2>3 DEF OwnIds
<1>. QED
  BY <1>1, <1>2, <1>3, <1>4, <1>5, <1>6, <1>7, <1>8, <1>9 DEF HandlerStep

(* A worker makes nobody wait who did not.  *)
LEMMA WorkerAdds ==
  ASSUME IInv, NEW i \in Instances, WorkerStep(i)
  PROVE  queue' \cup Held' \subseteq queue \cup Held /\ entered \subseteq entered'
<1>1. CASE Stays
  BY <1>1, HeldStays DEF Stays
<1>2. CASE Pops(i)
  BY <1>2 DEF Pops, PopMembers, NewItems, Held
<1>3. CASE Promotes(i)
  BY <1>3 DEF Promotes, AddActive, NewItems, Held
<1>4. CASE Drops(i)
  BY <1>4 DEF Drops, redis, NewItems, Held
<1>5. CASE PopsTwice(i)
  BY <1>5, HeldStays DEF PopsTwice, PopMembers
<1>6. CASE PromotesTwice(i)
  BY <1>6, HeldStays DEF PromotesTwice, AddActive
<1>. QED
  BY <1>1, <1>2, <1>3, <1>4, <1>5, <1>6, WorkerKinds DEF WorkerMove

LEMMA OwnIdsStep ==
  ASSUME IInv, AdmittedOnly, OwnIds, [Next]_vars
  PROVE  OwnIds'
<1>1. ASSUME UNCHANGED <<req, cookies>>, queue' \cup Held' \subseteq queue \cup Held,
             entered \subseteq entered'
      PROVE  OwnIds'
  BY <1>1 DEF OwnIds, MakesId
<1>2. ASSUME NEW i \in Instances, WorkerStep(i) PROVE OwnIds'
  BY <1>1, <1>2, WorkerAdds, WorkerKinds
<1>3. CASE Expire \/ ObserveCount \/ UNCHANGED vars
  BY <1>1, <1>3, OtherKinds, HeldStays DEF Stays, IInv
<1>. QED
  BY <1>2, <1>3, HandlerOwnIds DEF Next

-----------------------------------------------------------------------------
(* What is charged.  A step charges nobody, or it is a fault and charges   *)
(* one.                                                                    *)
Shared(id) == \E i, k \in Instances : i # k /\ id \in worker[i].items \cap worker[k].items

ChargesNobody == Charged' \subseteq Charged /\ (faults' = faults \/ IsFault)

ChargesOne == IsFault /\ \E id : Charged' \subseteq Charged \cup {id}

LEMMA DoubledForms ==
  ASSUME NEW id
  PROVE  Doubled(id) <=> \/ id \in queue \cap Held
                         \/ id \in queue \cup Held /\ id \in Admitted
                         \/ Shared(id)
  BY DEF Doubled, Shared

LEMMA SharedStays ==
  ASSUME SameItems, NEW id
  PROVE  Shared(id)' <=> Shared(id)
  BY DEF SameItems, Shared

(* Handlers move no batch: an id that is charged after their step was      *)
(* before, if it was queued and admitted as now and was to be enqueued.    *)
LEMMA HandlerCharges ==
  ASSUME IInv, AdmittedOnly, OwnIds, NEW h \in Handlers, HandlerStep(h)
  PROVE  ChargesNobody \/ ChargesOne
<1>a. /\ queue \subseteq entered /\ Held \subseteq entered /\ Admitted \subseteq entered
      /\ req \in [Handlers -> Requests]
  BY WorkersHold
<1>b. UNCHANGED worker /\ SameItems /\ Held' = Held
  <2>1. UNCHANGED worker
    BY DEF HandlerStep, Arrive, IsActive, ExtendActive, GetPosition, Evict, Count, AdmitDirect,
           Enqueue, Rank, Abort, RepeatRequest
  <2>. QED
    BY <2>1, HeldStays DEF SameItems
<1>c. faults' = faults \/ IsFault
  BY DEF HandlerStep, Arrive, IsActive, ExtendActive, GetPosition, Evict, Count, AdmitDirect,
         Enqueue, Rank, Abort, RepeatRequest, Fault, IsFault
<1>d. ASSUME NEW id, queue' \cap {id} = queue \cap {id}, Admitted' \cap {id} = Admitted \cap {id}
      PROVE  Doubled(id)' <=> Doubled(id)
  <2>1. Shared(id)' <=> Shared(id)
    BY <1>b, SharedStays
  <2>2. Doubled(id)' <=> \/ id \in queue' \cap Held'
                         \/ id \in queue' \cup Held' /\ id \in Admitted'
                         \/ Shared(id)'
    BY DEF Doubled, Shared
  <2>. QED
    BY <1>b, <1>d, <2>1, <2>2, DoubledForms
<1>1. ASSUME queue' = queue, entered' = entered, Admitted' = Admitted,
             \A id \in entered : Twice(id)' => Twice(id)
      PROVE  ChargesNobody
  <2>1. \A id \in entered : Doubled(id)' <=> Doubled(id)
    BY <1>1, <1>d
  <2>. QED
    BY <1>1, <1>c, <2>1 DEF ChargesNobody, Charged
<1>2. ASSUME NEW id, Goto(h, "enqueue", id), id \notin entered PROVE \A x \in entered : Twice(x)' => Twice(x)
  BY <1>a, <1>2 DEF Goto, Twice
<1>3. ASSUME NEW next, NEW id, next # "enqueue", Goto(h, next, id) PROVE \A x : Twice(x)' => Twice(x)
  BY <1>a, <1>3 DEF Goto, Twice
<1>4. ASSUME Answer(h) PROVE \A x : Twice(x)' => Twice(x)
  BY <1>a, <1>4 DEF Answer, IdleRequest, Twice
<1>5. ASSUME UNCHANGED req PROVE \A x : Twice(x)' <=> Twice(x)
  BY <1>5 DEF Twice
<1>6. CASE Arrive(h) \/ Evict(h)
  <2>1. queue' = queue /\ entered' = entered /\ Admitted' = Admitted
    BY <1>6, EvictFacts DEF Arrive, Evict, IInv, Admitted
  <2>. QED
    BY <1>1, <1>3, <1>6, <2>1 DEF Arrive, Evict
<1>7. CASE IsActive(h) \/ GetPosition(h) \/ Rank(h) \/ Abort(h) \/ Count(h)
  <2>1. queue' = queue /\ entered' = entered /\ Admitted' = Admitted
    BY <1>7 DEF IsActive, GetPosition, Rank, Abort, Count, redis, Admitted
  <2>2. CASE IsActive(h) \/ GetPosition(h) \/ Rank(h) \/ Abort(h)
    <3>1. Answer(h) \/ \E id : Goto(h, "extend", id) \/ Goto(h, "position", id) \/ Goto(h, "evict", id)
      BY <2>2 DEF IsActive, GetPosition, Rank, Abort
    <3>. QED
      BY <1>1, <1>3, <1>4, <2>1, <3>1
  <2>3. CASE Count(h)
    <3>1. \E id : id \notin entered /\ (Goto(h, "enqueue", id) \/ Goto(h, "admit", id))
      BY <2>3 DEF Count, Fresh
    <3>. QED
      BY <1>1, <1>2, <1>3, <2>1, <3>1
  <2>. QED
    BY <1>7, <2>2, <2>3
<1>8. ASSUME req[h].pc = "extend", AddActive(req[h].id), \A x : Twice(x)' => Twice(x) PROVE ChargesNobody
  <2>1. req[h].id \in Admitted
    BY <1>8 DEF AdmittedOnly, Admitted
  <2>2. queue' = queue /\ entered' = entered /\ Admitted' = Admitted
    BY <1>a, <1>8, <2>1 DEF AddActive, Admitted
  <2>. QED
    BY <1>1, <1>8, <2>2
<1>9. ASSUME req[h].pc = "admit", AddActive(req[h].id), \A x : Twice(x)' => Twice(x) PROVE ChargesNobody
  <2>. PICK new : new = req[h].id
    OBVIOUS
  <2>1. new \notin queue /\ new \notin Held /\ \A g \in Handlers \ {h} : req[g].id # new
    BY <1>9 DEF OwnIds, MakesId
  <2>2. queue' = queue /\ entered' = entered \cup {new} /\ Admitted' = Admitted \cup {new}
    BY <1>9 DEF AddActive, Admitted
  <2>3. ~Doubled(new)' /\ ~Twice(new)'
    <3>1. ~Shared(new)
      BY <2>1 DEF Shared, Held
    <3>2. ~Shared(new)'
      BY <1>b, <3>1, SharedStays
    <3>3. Doubled(new)' <=> \/ new \in queue' \cap Held'
                            \/ new \in queue' \cup Held' /\ new \in Admitted'
                            \/ Shared(new)'
      BY DEF Doubled, Shared
    <3>4. ~Twice(new)
      BY <1>9, <2>1 DEF Twice
    <3>. QED
      BY <1>9, <1>b, <2>1, <2>2, <3>2, <3>3, <3>4
  <2>4. ASSUME NEW id \in entered', id # new, Doubled(id)' \/ Twice(id)'
        PROVE  id \in Charged
    <3>1. queue' \cap {id} = queue \cap {id} /\ Admitted' \cap {id} = Admitted \cap {id}
      BY <2>2, <2>4
    <3>. QED
      BY <1>9, <1>d, <2>2, <2>4, <3>1 DEF Charged
  <2>. QED
    BY <1>c, <2>3, <2>4 DEF Charged, ChargesNobody
<1>10. CASE ExtendActive(h) \/ AdmitDirect(h)
  BY <1>4, <1>8, <1>9, <1>10 DEF ExtendActive, AdmitDirect
<1>11. CASE Enqueue(h)
  <2>. PICK new : new = req[h].id
    OBVIOUS
  <2>1. new \in entered => new \in Charged
    BY <1>11 DEF Enqueue, Twice, Charged
  <2>2. queue' = queue \cup {new} /\ entered' = entered \cup {new} /\ Admitted' = Admitted
    BY <1>11 DEF Enqueue, AddToQueue, Admitted
  <2>3. \A x : Twice(x)' => Twice(x) /\ x # new
    BY <1>11, <1>a DEF Enqueue, Goto, Twice, OwnIds, MakesId
  <2>4. new \notin entered => ~Doubled(new)'
    <3>. SUFFICES ASSUME new \notin entered PROVE ~Doubled(new)'
      OBVIOUS
    <3>1. new \notin Held /\ new \notin Admitted
      BY <1>a
    <3>2. ~Shared(new)
      BY <3>1 DEF Shared, Held
    <3>3. ~Shared(new)'
      BY <1>b, <3>2, SharedStays
    <3>4. Doubled(new)' <=> \/ new \in queue' \cap Held'
                            \/ new \in queue' \cup Held' /\ new \in Admitted'
                            \/ Shared(new)'
      BY DEF Doubled, Shared
    <3>. QED
      BY <1>b, <2>2, <3>1, <3>3, <3>4
  <2>5. ASSUME NEW id \in entered', id # new, Doubled(id)' \/ Twice(id)'
        PROVE  id \in Charged
    <3>1. queue' \cap {id} = queue \cap {id} /\ Admitted' \cap {id} = Admitted \cap {id}
      BY <2>2, <2>5
    <3>. QED
      BY <1>d, <2>2, <2>3, <2>5, <3>1 DEF Charged
  <2>. QED
    BY <1>c, <2>1, <2>3, <2>4, <2>5 DEF Charged, ChargesNobody
<1>12. CASE RepeatRequest(h)
  <2>1. CASE req[h].pc = "enqueue" /\ AddToQueue(req[h].id)
    <3>. PICK new : new = req[h].id
      OBVIOUS
    <3>1. queue' = queue \cup {new} /\ entered' = entered \cup {new} /\ Admitted' = Admitted
      BY <2>1 DEF AddToQueue, Admitted
    <3>2. \A x : Twice(x)' => Twice(x)
      BY <1>5, <1>12 DEF RepeatRequest
    <3>3. ASSUME NEW id \in entered', id # new, Doubled(id)' \/ Twice(id)'
          PROVE  id \in Charged
      <4>1. queue' \cap {id} = queue \cap {id} /\ Admitted' \cap {id} = Admitted \cap {id}
        BY <3>1, <3>3
      <4>. QED
        BY <1>d, <3>1, <3>2, <3>3, <4>1 DEF Charged
    <3>4. Charged' \subseteq Charged \cup {new}
      BY <3>3 DEF Charged
    <3>. QED
      BY <1>12, <3>4 DEF RepeatRequest, Fault, IsFault, ChargesOne
  <2>. QED
    BY <1>5, <1>8, <1>9, <1>12, <2>1 DEF RepeatRequest
<1>. QED
  BY <1>6, <1>7, <1>10, <1>11, <1>12 DEF HandlerStep

(* A worker doubles nobody but by a fault: what it pops was queued, and    *)
(* whom it promotes it held.                                               *)
LEMMA WorkerCharges ==
  ASSUME IInv, NEW i \in Instances, WorkerStep(i)
  PROVE  ChargesNobody \/ ChargesOne
<1>a. UNCHANGED req /\ \A id : Twice(id)' <=> Twice(id)
  BY WorkerKinds DEF Twice
<1>b. \A k \in Instances : worker[k].items \subseteq Held /\ worker[k].items \subseteq entered
  BY DEF IInv, WorkersOK, Held
<1>c. \A id : Doubled(id)' <=> \/ id \in queue' \cap Held'
                               \/ id \in queue' \cup Held' /\ id \in Admitted'
                               \/ Shared(id)'
  BY DEF Doubled, Shared
<1>1. ASSUME entered' = entered, faults' = faults \/ IsFault, \A id : Doubled(id)' => Doubled(id)
      PROVE  ChargesNobody
  BY <1>1, <1>a DEF ChargesNobody, Charged
<1>2. CASE Stays
  <2>1. \A id : Doubled(id)' => Doubled(id)
    BY <1>2, <1>c, HeldStays, SharedStays, DoubledForms DEF Stays
  <2>. QED
    BY <1>1, <1>2, <2>1 DEF Stays
<1>3. CASE Pops(i)
  <2>1. PICK batch \in SUBSET queue : PopMembers(batch) /\ NewItems(i, batch)
    BY <1>3 DEF Pops
  <2>2. queue' = queue \ batch /\ entered' = entered /\ Admitted' = Admitted
    BY <2>1 DEF PopMembers, Admitted
  <2>3. Held' \subseteq Held \cup batch
    BY <2>1 DEF NewItems, Held
  <2>4. ASSUME NEW id, Shared(id)' PROVE Doubled(id)
    <3>1. PICK j \in Instances, k \in Instances : j # k /\ id \in worker'[j].items /\ id \in worker'[k].items
      BY <2>4 DEF Shared
    <3>2. CASE j # i /\ k # i
      BY <2>1, <3>1, <3>2, DoubledForms DEF NewItems, Shared
    <3>3. CASE j = i \/ k = i
      <4>1. id \in batch /\ id \in Held
        BY <1>b, <2>1, <3>1, <3>3 DEF NewItems
      <4>. QED
        BY <4>1, DoubledForms
    <3>. QED
      BY <3>2, <3>3
  <2>5. \A id : Doubled(id)' => Doubled(id)
    BY <1>c, <2>1, <2>2, <2>3, <2>4, DoubledForms
  <2>. QED
    BY <1>1, <1>3, <2>2, <2>5 DEF Pops
<1>4. CASE Promotes(i)
  <2>1. PICK item \in worker[i].items : AddActive(item) /\ NewItems(i, worker[i].items \ {item})
    BY <1>4 DEF Promotes
  <2>2. item \in Held /\ item \in entered
    BY <1>b, <2>1
  <2>3. queue' = queue /\ entered' = entered /\ Admitted' = Admitted \cup {item}
    BY <2>1, <2>2 DEF AddActive, Admitted
  <2>4. Held' \subseteq Held /\ \A id : Shared(id)' => Shared(id)
    BY <2>1 DEF NewItems, Held, Shared
  <2>5. item \in Held' => Shared(item)
    <3>. SUFFICES ASSUME item \in Held' PROVE Shared(item)
      OBVIOUS
    <3>1. PICK k \in Instances : item \in worker'[k].items
      BY DEF Held
    <3>. QED
      BY <2>1, <3>1 DEF NewItems, Shared
  <2>6. \A id : Doubled(id)' => Doubled(id)
    BY <1>c, <2>2, <2>3, <2>4, <2>5, DoubledForms
  <2>. QED
    BY <1>1, <1>4, <2>3, <2>6 DEF Promotes
<1>5. CASE Drops(i)
  <2>1. PICK items \in SUBSET worker[i].items : NewItems(i, items)
    BY <1>5 DEF Drops
  <2>2. queue' = queue /\ entered' = entered /\ Admitted' = Admitted
    BY <1>5 DEF Drops, redis, Admitted
  <2>3. Held' \subseteq Held /\ \A id : Shared(id)' => Shared(id)
    BY <2>1 DEF NewItems, Held, Shared
  <2>4. \A id : Doubled(id)' => Doubled(id)
    BY <1>c, <2>2, <2>3, DoubledForms
  <2>. QED
    BY <1>1, <1>5, <2>2, <2>4 DEF Drops
<1>6. CASE PopsTwice(i)
  <2>1. queue' \subseteq queue /\ entered' = entered /\ Admitted' = Admitted
    BY <1>6 DEF PopsTwice, PopMembers, Admitted
  <2>2. Held' = Held /\ \A id : Shared(id)' <=> Shared(id)
    BY <1>6, HeldStays, SharedStays DEF PopsTwice
  <2>3. \A id : Doubled(id)' => Doubled(id)
    BY <1>c, <2>1, <2>2, DoubledForms
  <2>. QED
    BY <1>1, <1>6, <2>1, <2>3 DEF PopsTwice
<1>7. CASE PromotesTwice(i)
  <2>1. PICK item \in worker[i].items : AddActive(item)
    BY <1>7 DEF PromotesTwice
  <2>2. queue' = queue /\ entered' = entered /\ Admitted' = Admitted \cup {item}
    BY <1>b, <2>1 DEF AddActive, Admitted
  <2>3. Held' = Held /\ \A id : Shared(id)' <=> Shared(id)
    BY <1>7, HeldStays, SharedStays DEF PromotesTwice
  <2>4. \A id : id # item /\ Doubled(id)' => Doubled(id)
    BY <1>c, <2>2, <2>3, DoubledForms
  <2>5. Charged' \subseteq Charged \cup {item}
    BY <1>a, <2>2, <2>4 DEF Charged
  <2>. QED
    BY <1>7, <2>5 DEF PromotesTwice, ChargesOne
<1>. QED
  BY <1>2, <1>3, <1>4, <1>5, <1>6, <1>7, WorkerKinds DEF WorkerMove

(* A step of nobody's charges nobody. *)
LEMMA OtherCharges ==
  ASSUME SetsOK, Expire \/ ObserveCount \/ UNCHANGED vars
  PROVE  ChargesNobody
<1>1. Stays /\ UNCHANGED req
  BY OtherKinds
<1>2. \A id : Doubled(id)' <=> \/ id \in queue' \cap Held'
                               \/ id \in queue' \cup Held' /\ id \in Admitted'
                               \/ Shared(id)'
  BY DEF Doubled, Shared
<1>3. \A id : Doubled(id)' => Doubled(id)
  BY <1>1, <1>2, HeldStays, SharedStays, DoubledForms DEF Stays
<1>. QED
  BY <1>1, <1>3 DEF Stays, ChargesNobody, Charged, Twice

LEMMA ChargedStep ==
  ASSUME IInv, AdmittedOnly, OwnIds, ChargedBounded, [Next]_vars
  PROVE  ChargedBounded'
<1>1. ChargesNobody \/ ChargesOne
  BY HandlerCharges, WorkerCharges, OtherCharges DEF Next, IInv
<1>2. IsFiniteSet(Charged) /\ Cardinality(Charged) \in Nat
  BY FS_Subset, FS_CardinalityType DEF IInv, SetsOK, Charged
<1>3. PICK f \in Nat : f = faults
  BY ClusterAssumption DEF IInv
<1>4. Cardinality(Charged) <= f
  BY <1>3 DEF ChargedBounded
<1>5. CASE ChargesNobody
  <2>1. Cardinality(Charged') \in Nat /\ Cardinality(Charged') <= Cardinality(Charged)
    BY <1>2, <1>5, FS_Subset, FS_CardinalityType DEF ChargesNobody
  <2>. QED
    BY <1>2, <1>3, <1>4, <1>5, <2>1 DEF ChargesNobody, IsFault, ChargedBounded
<1>6. CASE ChargesOne
  <2>1. PICK id : Charged' \subseteq Charged \cup {id}
    BY <1>6 DEF ChargesOne
  <2>2. /\ IsFiniteSet(Charged \cup {id}) /\ Cardinality(Charged \cup {id}) \in Nat
        /\ Cardinality(Charged \cup {id}) <= Cardinality(Charged) + 1
    BY <1>2, FS_AddElement, FS_CardinalityType
  <2>3. Cardinality(Charged') \in Nat /\ Cardinality(Charged') <= Cardinality(Charged \cup {id})
    BY <2>1, <2>2, FS_Subset, FS_CardinalityType
  <2>. QED
    BY <1>2, <1>3, <1>4, <1>6, <2>2, <2>3 DEF ChargesOne, IsFault, ChargedBounded
<1>. QED
  BY <1>1, <1>5, <1>6

(* An id that no two workers hold is in the hands of one, if any. *)
LEMMA Holders ==
  ASSUME NEW id, ~Shared(id)
  PROVE  LET n == Cardinality({i \in Instances : id \in worker[i].items})
         IN  (n = 0 /\ id \notin Held) \/ (n = 1 /\ id \in Held)
<1>. DEFINE S == {i \in Instances : id \in worker[i].items}
<1>1. CASE S = {}
  <2>1. id \notin Held
    BY <1>1 DEF Held
  <2>. QED
    BY <1>1, <2>1, FS_EmptySet
<1>2. CASE S # {}
  <2>1. PICK i \in S : TRUE
    BY <1>2
  <2>2. S = {i} /\ id \in Held
    BY <2>1 DEF Shared, Held
  <2>. QED
    BY <2>2, FS_Singleton
<1>. QED
  BY <1>1, <1>2

(* Who is in two places is charged. *)
LEMMA TwoPlacesCharged ==
  ASSUME IInv, NEW id \in entered, InPlaces(id) > 1
  PROVE  id \in Charged
<1>1. CASE Shared(id)
  BY <1>1, DoubledForms DEF Charged
<1>2. CASE ~Shared(id)
  <2>. DEFINE n == Cardinality({i \in Instances : id \in worker[i].items})
  <2>1. (n = 0 /\ id \notin Held) \/ (n = 1 /\ id \in Held)
    BY <1>2, Holders
  <2>2. n + (IF id \in queue THEN 1 ELSE 0) + (IF id \in active THEN 1 ELSE 0) > 1
    BY DEF InPlaces
  <2>. HIDE DEF n
  <2>3. \/ id \in queue \cap Held
        \/ id \in queue \cup Held /\ id \in active
    BY <2>1, <2>2
  <2>. QED
    BY <2>3, DoubledForms DEF Admitted, Charged
<1>. QED
  BY <1>1, <1>2

LEMMA ChargedCovers ==
  ASSUME IInv, ChargedBounded
  PROVE  OnePlacePerFault
<1>. DEFINE S == {id \in entered : InPlaces(id) > 1}
<1>1. S \subseteq Charged
  BY TwoPlacesCharged
<1>2. IsFiniteSet(Charged)
  BY FS_Subset DEF IInv, SetsOK, Charged
<1>3. Cardinality(S) <= Cardinality(Charged)
  BY <1>1, <1>2, FS_Subset
<1>4. Cardinality(S) \in Nat /\ Cardinality(Charged) \in Nat /\ faults \in Nat
  BY <1>1, <1>2, FS_Subset, FS_CardinalityType, ClusterAssumption DEF IInv
<1>. QED
  BY <1>3, <1>4 DEF ChargedBounded, OnePlacePerFault

(* No visitor is in two places, but for one per fault: however many        *)
(* instances pop and promote at the same time, whatever requests are       *)
(* cancelled on the way and whoever's eviction comes first.                *)
THEOREM OnePlaceButForFaults == Spec => []OnePlacePerFault
<1>1. Init => OwnIds /\ ChargedBounded
  <2>. SUFFICES ASSUME Init PROVE OwnIds /\ ChargedBounded
    OBVIOUS
  <2>1. Charged = {} /\ Cardinality({}) = 0 /\ faults = 0
    BY FS_EmptySet DEF Init, Charged
  <2>2. OwnIds
    BY DEF Init, OwnIds, MakesId, IdleRequest
  <2>. QED
    BY <2>1, <2>2 DEF ChargedBounded
<1>2. IInv /\ AdmittedOnly /\ OwnIds /\ ChargedBounded /\ [Next]_vars => OwnIds' /\ ChargedBounded'
  BY OwnIdsStep, ChargedStep
<1>3. IInv /\ ChargedBounded => OnePlacePerFault
  BY ChargedCovers
<1>. QED
  BY <1>1, <1>2, <1>3, Inductive, OnlyAdmitted, PTL DEF Spec

-----------------------------------------------------------------------------
(* The overshoot.  A worker has either a grant or a batch, never both, and *)
(* neither is larger than the limit.                                       *)
GrantOK == \A i \in Instances : worker[i].pc # "pop" => worker[i].toAdmit = 0

(* The slots granted and the slots of the batches, numbered up to the limit *)
(* that no worker goes beyond, and the overshoot counted with them.        *)
GrantSlots ==
  {s \in Instances \X (1..TotalActiveUsers) : s[2] <= worker[s[1]].toAdmit}

HeldSlots ==
  {s \in Instances \X (1..TotalActiveUsers) : s[2] <= Cardinality(worker[s[1]].items)}

SlotOvershoot ==
  Cardinality(Occupied) + Cardinality(GrantSlots)
    <= (Cardinality(Instances) + 1) * TotalActiveUsers + Cardinality(Handlers) - 1

LEMMA NoGrantBeyondLimit == TypeOK => Grants = GrantSlots
<1>. SUFFICES ASSUME TypeOK PROVE Grants = GrantSlots
  OBVIOUS
<1>1. \A i \in Instances : worker[i].toAdmit \in 0..TotalActiveUsers
  BY DEF TypeOK, Workers
<1>2. ASSUME NEW s PROVE s \in Grants <=> s \in GrantSlots
  <2>1. s \in Grants <=> \E i \in Instances : \E k \in 1..worker[i].toAdmit : s = <<i, k>>
    BY DEF Grants
  <2>2. s \in GrantSlots
          <=> \E i \in Instances : \E k \in 1..TotalActiveUsers :
                s = <<i, k>> /\ k <= worker[i].toAdmit
    BY DEF GrantSlots
  <2>3. \A i \in Instances : \A k :
          k \in 1..worker[i].toAdmit <=> k \in 1..TotalActiveUsers /\ k <= worker[i].toAdmit
    BY <1>1, ClusterAssumption
  <2>. QED
    BY <2>1, <2>2, <2>3, Zenon
<1>. QED
  BY <1>2

LEMMA GrantOKStep ==
  ASSUME IInv, GrantOK, [Next]_vars
  PROVE  GrantOK'
<1>1. ASSUME NEW i \in Instances, WorkerStep(i) PROVE GrantOK'
  <2>0. worker \in [Instances -> Workers] /\ worker[i] \in Workers
    BY DEF IInv, WorkersOK
  <2>1. ASSUME NEW w, worker' = [worker EXCEPT ![i] = w], w.pc # "pop" => w.toAdmit = 0
        PROVE  GrantOK'
    <3>1. \A k \in Instances : worker'[k] = IF k = i THEN w ELSE worker[k]
      BY <2>0, <2>1
    <3>. QED
      BY <2>1, <3>1 DEF GrantOK
  <2>2. ASSUME NEW next, next # "pop", WorkerGoto(i, next), worker[i].pc # "pop" PROVE GrantOK'
    <3>. DEFINE w == [worker[i] EXCEPT !.pc = next]
    <3>1. worker' = [worker EXCEPT ![i] = w]
      BY <2>0, <2>2 DEF WorkerGoto
    <3>2. w.toAdmit = 0
      BY <2>0, <2>2 DEF GrantOK, Workers
    <3>. QED
      BY <2>1, <3>1, <3>2
  <2>3. ASSUME EndTick(i) PROVE GrantOK'
    <3>. DEFINE w == [worker[i] EXCEPT !.pc = "select", !.toAdmit = 0]
    <3>1. worker' = [worker EXCEPT ![i] = w]
      BY <2>0, <2>3 DEF EndTick
    <3>2. w.toAdmit = 0
      BY <2>0 DEF Workers
    <3>. QED
      BY <2>1, <3>1, <3>2
  <2>4. ASSUME NEW item, Done(i, item), worker[i].pc = "promote" PROVE GrantOK'
    <3>. DEFINE w == [worker[i] EXCEPT !.items = @ \ {item},
                                       !.pc = IF worker[i].items = {item} THEN "select" ELSE "promote"]
    <3>1. worker' = [worker EXCEPT ![i] = w]
      BY <2>0, <2>4 DEF Done
    <3>2. w.toAdmit = 0
      BY <2>0, <2>4 DEF GrantOK, Workers
    <3>. QED
      BY <2>1, <3>1, <3>2
  <2>5. CASE CleanUp(i) \/ Promote(i)
    BY <2>2, <2>4, <2>5 DEF CleanUp, Promote
  <2>6. CASE CountSlots(i)
    <3>1. \/ EndTick(i)
          \/ \E b : worker' = [worker EXCEPT ![i].pc = "select", ![i].bucket = b]
          \/ \E b, n : worker' = [worker EXCEPT ![i].pc = "pop", ![i].toAdmit = n, ![i].bucket = b]
      BY <2>6 DEF CountSlots
    <3>2. worker[i].toAdmit = 0
      BY <2>6 DEF CountSlots, GrantOK
    <3>3. ASSUME NEW b, worker' = [worker EXCEPT ![i].pc = "select", ![i].bucket = b] PROVE GrantOK'
      <4>. DEFINE w == [worker[i] EXCEPT !.pc = "select", !.bucket = b]
      <4>1. worker' = [worker EXCEPT ![i] = w]
        BY <2>0, <3>3
      <4>2. w.toAdmit = 0
        BY <2>0, <3>2 DEF Workers
      <4>. QED
        BY <2>1, <4>1, <4>2
    <3>4. ASSUME NEW b, NEW n,
                 worker' = [worker EXCEPT ![i].pc = "pop", ![i].toAdmit = n, ![i].bucket = b]
          PROVE  GrantOK'
      <4>. DEFINE w == [worker[i] EXCEPT !.pc = "pop", !.toAdmit = n, !.bucket = b]
      <4>1. worker' = [worker EXCEPT ![i] = w]
        BY <2>0, <3>4
      <4>2. w.pc = "pop"
        BY <2>0 DEF Workers
      <4>. QED
        BY <2>1, <4>1, <4>2
    <3>. QED
      BY <2>3, <3>1, <3>3, <3>4
  <2>7. CASE Pop(i)
    <3>1. PICK batch : worker' = [worker EXCEPT ![i].pc = IF batch = {} THEN "select" ELSE "promote",
                                                ![i].toAdmit = 0, ![i].items = batch]
      BY <2>7 DEF Pop
    <3>. DEFINE w == [worker[i] EXCEPT !.pc = IF batch = {} THEN "select" ELSE "promote",
                                       !.toAdmit = 0, !.items = batch]
    <3>2. worker' = [worker EXCEPT ![i] = w]
      BY <2>0, <3>1
    <3>3. w.toAdmit = 0
      BY <2>0 DEF Workers
    <3>. QED
      BY <2>1, <3>2, <3>3
  <2>8. CASE CommandFails(i)
    BY <2>2, <2>3, <2>4, <2>8 DEF CommandFails
  <2>9. CASE Repeat(i)
    BY <2>9 DEF Repeat, GrantOK
  <2>10. CASE Restart(i)
    BY <2>1, <2>10 DEF Restart, FreshWorker
  <2>. QED
    BY <1>1, <2>5, <2>6, <2>7, <2>8, <2>9, <2>10 DEF WorkerStep
<1>2. ASSUME UNCHANGED worker PROVE GrantOK'
  BY <1>2 DEF GrantOK
<1>3. ASSUME NEW h \in Handlers, HandlerStep(h) PROVE UNCHANGED worker
  BY <1>3 DEF HandlerStep, Arrive, IsActive, ExtendActive, GetPosition, Evict, Count, AdmitDirect,
              Enqueue, Rank, Abort, RepeatRequest
<1>. QED
  BY <1>1, <1>2, <1>3 DEF Next, Expire, ObserveCount, vars

-----------------------------------------------------------------------------
(* How many slots there are. *)

LEMMA SlotsFinite ==
  ASSUME IInv
  PROVE  /\ IsFiniteSet(GrantSlots) /\ Cardinality(GrantSlots) \in Nat
         /\ IsFiniteSet(HeldSlots) /\ Cardinality(HeldSlots) \in Nat
         /\ IsFiniteSet(Instances \X (1..TotalActiveUsers))
         /\ Cardinality(Instances \X (1..TotalActiveUsers)) = Cardinality(Instances) * TotalActiveUsers
<1>. USE ClusterAssumption
<1>. DEFINE all == Instances \X (1..TotalActiveUsers)
<1>1. IsFiniteSet(1..TotalActiveUsers) /\ Cardinality(1..TotalActiveUsers) = TotalActiveUsers
  BY FS_Interval
<1>2. IsFiniteSet(all) /\ Cardinality(all) = Cardinality(Instances) * TotalActiveUsers
  BY <1>1, FS_Product
<1>3. GrantSlots \subseteq all /\ HeldSlots \subseteq all
  BY DEF GrantSlots, HeldSlots
<1>. HIDE DEF all
<1>4. IsFiniteSet(GrantSlots) /\ IsFiniteSet(HeldSlots)
  BY <1>2, <1>3, FS_Subset
<1>5. Cardinality(GrantSlots) \in Nat /\ Cardinality(HeldSlots) \in Nat
  BY <1>4, FS_CardinalityType
<1>. QED
  BY <1>2, <1>4, <1>5 DEF all

(* Whoever is held has a slot. *)
LEMMA HeldFitsSlots ==
  ASSUME IInv
  PROVE  IsFiniteSet(Held) /\ Cardinality(Held) \in Nat /\ Cardinality(Held) <= Cardinality(HeldSlots)
<1>. USE ClusterAssumption
<1>1. \A i \in Instances : /\ IsFiniteSet(worker[i].items)
                           /\ Cardinality(worker[i].items) \in Nat
                           /\ Cardinality(worker[i].items) <= TotalActiveUsers
  BY FS_CardinalityType DEF IInv, WorkersOK, BatchOK
<1>. DEFINE n(i) == Cardinality(worker[i].items)
            enum(i) == CHOOSE e : e \in Surjection(1..n(i), worker[i].items)
            f == [s \in HeldSlots |-> enum(s[1])[s[2]]]
<1>2. ASSUME NEW i \in Instances PROVE enum(i) \in Surjection(1..n(i), worker[i].items)
  <2>1. ExistsBijection(1..n(i), worker[i].items)
    BY <1>1, FS_CardinalityType
  <2>2. \E e : e \in Surjection(1..n(i), worker[i].items)
    BY <2>1 DEF ExistsBijection, Bijection
  <2>. QED
    BY <2>2
<1>. HIDE DEF enum
<1>3. \A i \in Instances : \A k \in 1..n(i) : enum(i)[k] \in worker[i].items
  BY <1>2 DEF Surjection
<1>4. \A i \in Instances : \A x \in worker[i].items : \E k \in 1..n(i) : enum(i)[k] = x
  BY <1>2 DEF Surjection
<1>5. f \in [HeldSlots -> Held]
  <2>. SUFFICES ASSUME NEW s \in HeldSlots PROVE enum(s[1])[s[2]] \in Held
    OBVIOUS
  <2>1. s[1] \in Instances /\ s[2] \in 1..n(s[1])
    BY <1>1 DEF HeldSlots
  <2>. QED
    BY <1>3, <2>1 DEF Held
<1>6. ASSUME NEW x \in Held PROVE \E s \in HeldSlots : f[s] = x
  <2>1. PICK i \in Instances : x \in worker[i].items
    BY DEF Held
  <2>2. PICK k \in 1..n(i) : enum(i)[k] = x
    BY <1>4, <2>1
  <2>3. <<i, k>> \in HeldSlots
    BY <1>1, <2>2 DEF HeldSlots
  <2>4. f[<<i, k>>] = enum(i)[k]
    BY <2>3
  <2>. QED
    BY <2>2, <2>3, <2>4
<1>. HIDE DEF f
<1>7. f \in Surjection(HeldSlots, Held)
  BY <1>5, <1>6 DEF Surjection
<1>8. IsFiniteSet(Held) /\ Cardinality(Held) <= Cardinality(HeldSlots)
  BY <1>7, SlotsFinite, FS_Surjection
<1>. QED
  BY <1>8, FS_CardinalityType

(* GrantSlots and batches take no slot twice. *)
LEMMA SlotsApart ==
  ASSUME IInv, GrantOK
  PROVE  GrantSlots \cap HeldSlots = {}
<1>. SUFFICES ASSUME NEW s \in GrantSlots, s \in HeldSlots PROVE FALSE
  OBVIOUS
<1>1. s[1] \in Instances /\ s[2] \in 1..TotalActiveUsers
      /\ s[2] <= worker[s[1]].toAdmit /\ s[2] <= Cardinality(worker[s[1]].items)
  BY DEF GrantSlots, HeldSlots
<1>2. worker[s[1]].items = {} \/ worker[s[1]].toAdmit = 0
  BY <1>1 DEF GrantOK, IInv, WorkersOK, BatchOK
<1>3. Cardinality({}) = 0
  BY FS_EmptySet
<1>. QED
  BY <1>1, <1>2, <1>3

LEMMA SlotsBounded ==
  ASSUME IInv, GrantOK
  PROVE  Cardinality(Held) + Cardinality(GrantSlots) <= Cardinality(Instances) * TotalActiveUsers
<1>. DEFINE all == Instances \X (1..TotalActiveUsers)
            both == GrantSlots \cup HeldSlots
            p == Cardinality(Instances) * TotalActiveUsers
<1>1. both \subseteq all
  BY DEF GrantSlots, HeldSlots
<1>2. IsFiniteSet(both) /\ Cardinality(both) = Cardinality(GrantSlots) + Cardinality(HeldSlots)
  <2>1. Cardinality(GrantSlots \cap HeldSlots) = 0
    BY SlotsApart, FS_EmptySet
  <2>2. /\ IsFiniteSet(GrantSlots) /\ Cardinality(GrantSlots) \in Nat
        /\ IsFiniteSet(HeldSlots) /\ Cardinality(HeldSlots) \in Nat
    BY SlotsFinite
  <2>3. /\ IsFiniteSet(GrantSlots \cup HeldSlots)
        /\ Cardinality(GrantSlots \cup HeldSlots)
             = Cardinality(GrantSlots) + Cardinality(HeldSlots) - Cardinality(GrantSlots \cap HeldSlots)
    BY <2>2, FS_Union
  <2>. QED
    BY <2>1, <2>2, <2>3
<1>3. IsFiniteSet(all) /\ Cardinality(all) = p
  BY SlotsFinite
<1>. HIDE DEF all, both, p
<1>4. Cardinality(both) <= p /\ Cardinality(both) \in Nat /\ p \in Nat
  BY <1>1, <1>2, <1>3, FS_Subset, FS_CardinalityType
<1>. QED
  BY <1>2, <1>4, HeldFitsSlots, SlotsFinite DEF p

(* There are no more writers than requests. *)
LEMMA WritersBounded ==
  /\ IsFiniteSet(Writing) /\ Cardinality(Writing) \in Nat
  /\ Cardinality(Writing) <= Cardinality(Handlers) /\ Cardinality(Handlers) \in Nat
<1>. USE ClusterAssumption
<1>. DEFINE S == {g \in Handlers : req[g].pc \in {"extend", "admit"}}
            f == [g \in S |-> req[g].id]
<1>1. IsFiniteSet(S) /\ Cardinality(S) <= Cardinality(Handlers)
      /\ Cardinality(S) \in Nat /\ Cardinality(Handlers) \in Nat
  BY FS_Subset, FS_CardinalityType
<1>2. f \in Surjection(S, Writing)
  BY DEF Writing, Surjection
<1>. HIDE DEF S, f
<1>3. IsFiniteSet(Writing) /\ Cardinality(Writing) <= Cardinality(S)
  BY <1>1, <1>2, FS_Surjection
<1>4. Cardinality(Writing) \in Nat
  BY <1>3, FS_CardinalityType
<1>. QED
  BY <1>1, <1>3, <1>4


-----------------------------------------------------------------------------
(* The bound, with its product named. *)
Slots == Cardinality(Instances) * TotalActiveUsers

LEMMA SlotsNat ==
  /\ Slots \in Nat /\ Cardinality(Instances) \in Nat /\ Cardinality(Handlers) \in Nat
  /\ (Cardinality(Instances) + 1) * TotalActiveUsers = Slots + TotalActiveUsers
<1>. USE ClusterAssumption
<1>1. Cardinality(Instances) \in Nat /\ Cardinality(Handlers) \in Nat
  BY FS_CardinalityType
<1>. QED
  BY <1>1 DEF Slots

LEMMA OccupiedFinite ==
  IInv => /\ IsFiniteSet(active) /\ Cardinality(active) \in Nat
          /\ IsFiniteSet(Occupied) /\ Cardinality(Occupied) \in Nat
          /\ Cardinality(Occupied) <= Cardinality(active) + Cardinality(Writing) + Cardinality(Held)
<1>. SUFFICES ASSUME IInv
              PROVE  /\ IsFiniteSet(active) /\ Cardinality(active) \in Nat
                     /\ IsFiniteSet(Occupied) /\ Cardinality(Occupied) \in Nat
                     /\ Cardinality(Occupied) <= Cardinality(active) + Cardinality(Writing) + Cardinality(Held)
  OBVIOUS
<1>1. IsFiniteSet(active)
  BY FS_Subset DEF IInv, SetsOK
<1>2. IsFiniteSet(Writing) /\ IsFiniteSet(Held)
  BY WritersBounded, HeldFitsSlots
<1>3. /\ IsFiniteSet(active \cup Writing)
      /\ Cardinality(active \cup Writing)
           = Cardinality(active) + Cardinality(Writing) - Cardinality(active \cap Writing)
  BY <1>1, <1>2, FS_Union
<1>4. /\ IsFiniteSet((active \cup Writing) \cup Held)
      /\ Cardinality((active \cup Writing) \cup Held)
           = Cardinality(active \cup Writing) + Cardinality(Held) - Cardinality((active \cup Writing) \cap Held)
  BY <1>2, <1>3, FS_Union
<1>5. IsFiniteSet(active \cap Writing) /\ IsFiniteSet((active \cup Writing) \cap Held)
  BY <1>1, <1>3, FS_Intersection
<1>6. /\ Cardinality(active) \in Nat /\ Cardinality(Writing) \in Nat /\ Cardinality(Held) \in Nat
      /\ Cardinality(active \cap Writing) \in Nat
      /\ Cardinality((active \cup Writing) \cap Held) \in Nat
      /\ Cardinality((active \cup Writing) \cup Held) \in Nat
  BY <1>1, <1>2, <1>4, <1>5, FS_CardinalityType
<1>. QED
  BY <1>1, <1>3, <1>4, <1>6 DEF Occupied

(* While a slot is free, whatever the workers and the requests have in     *)
(* hand is within the bound.                                               *)
LEMMA FreeSlotBounds ==
  IInv /\ GrantOK /\ Cardinality(active) < TotalActiveUsers => SlotOvershoot
<1>. SUFFICES ASSUME IInv, GrantOK, Cardinality(active) < TotalActiveUsers
              PROVE  SlotOvershoot
  OBVIOUS
<1>1. /\ Cardinality(Writing) \in Nat /\ Cardinality(Writing) <= Cardinality(Handlers)
      /\ Cardinality(Held) \in Nat /\ Cardinality(GrantSlots) \in Nat
      /\ Cardinality(Held) + Cardinality(GrantSlots) <= Slots
  BY WritersBounded, HeldFitsSlots, SlotsFinite, SlotsBounded DEF Slots
<1>2. /\ Cardinality(active) \in Nat /\ Cardinality(Occupied) \in Nat
      /\ Cardinality(Occupied) <= Cardinality(active) + Cardinality(Writing) + Cardinality(Held)
  BY OccupiedFinite
<1>. QED
  BY <1>1, <1>2, SlotsNat, ClusterAssumption DEF SlotOvershoot

(* A worker without a batch takes no more slots than it was granted. *)
LEMMA OthersSlots ==
  ASSUME IInv, GrantOK, NEW i \in Instances, worker[i].items = {}
  PROVE  Cardinality(Held) + Cardinality(GrantSlots) <= Slots - TotalActiveUsers + worker[i].toAdmit
<1>. USE ClusterAssumption
<1>. DEFINE a == worker[i].toAdmit
            rest == (Instances \ {i}) \X (1..TotalActiveUsers)
            own == {i} \X (1..a)
            both == GrantSlots \cup HeldSlots
            n == Cardinality(Instances)
<1>1. a \in 0..TotalActiveUsers
  BY DEF IInv, WorkersOK, Workers
<1>2. IsFiniteSet(1..TotalActiveUsers) /\ Cardinality(1..TotalActiveUsers) = TotalActiveUsers
      /\ IsFiniteSet(1..a) /\ Cardinality(1..a) = a
  <2>. HIDE DEF a
  <2>1. \A b \in Nat : IsFiniteSet(1..b) /\ Cardinality(1..b) = b
    BY FS_Interval
  <2>2. a \in Nat /\ TotalActiveUsers \in Nat
    BY <1>1
  <2>. QED
    BY <2>1, <2>2
<1>3. IsFiniteSet(Instances \ {i}) /\ Cardinality(Instances \ {i}) = n - 1 /\ n \in Nat
  BY FS_RemoveElement, FS_CardinalityType
<1>4. IsFiniteSet(rest) /\ Cardinality(rest) = (n - 1) * TotalActiveUsers
  <2>1. \A S, T : IsFiniteSet(S) /\ IsFiniteSet(T)
          => IsFiniteSet(S \X T) /\ Cardinality(S \X T) = Cardinality(S) * Cardinality(T)
    BY FS_Product
  <2>2. IsFiniteSet(rest) /\ Cardinality(rest) = Cardinality(Instances \ {i}) * Cardinality(1..TotalActiveUsers)
    BY <1>2, <1>3, <2>1, Zenon
  <2>. QED
    BY <1>2, <1>3, <2>2
<1>5. IsFiniteSet({i}) /\ Cardinality({i}) = 1
  BY FS_Singleton
<1>6. IsFiniteSet(own) /\ Cardinality(own) = 1 * a
  <2>1. \A S, T : IsFiniteSet(S) /\ IsFiniteSet(T)
          => IsFiniteSet(S \X T) /\ Cardinality(S \X T) = Cardinality(S) * Cardinality(T)
    BY FS_Product
  <2>2. IsFiniteSet(own) /\ Cardinality(own) = Cardinality({i}) * Cardinality(1..a)
    BY <1>2, <1>5, <2>1, Zenon
  <2>. QED
    BY <1>2, <1>5, <2>2
<1>7. both \subseteq rest \cup own
  <2>. SUFFICES ASSUME NEW s \in both PROVE s \in rest \cup own
    OBVIOUS
  <2>1. s \in Instances \X (1..TotalActiveUsers)
    BY DEF GrantSlots, HeldSlots
  <2>2. s[1] = i => s[2] <= a
    <3>1. Cardinality({}) = 0
      BY FS_EmptySet
    <3>. QED
      BY <1>1, <2>1, <3>1 DEF GrantSlots, HeldSlots
  <2>. QED
    BY <1>1, <2>1, <2>2
<1>8. IsFiniteSet(both) /\ Cardinality(both) = Cardinality(GrantSlots) + Cardinality(HeldSlots)
  <2>1. Cardinality(GrantSlots \cap HeldSlots) = 0
    BY SlotsApart, FS_EmptySet
  <2>2. /\ IsFiniteSet(GrantSlots) /\ Cardinality(GrantSlots) \in Nat
        /\ IsFiniteSet(HeldSlots) /\ Cardinality(HeldSlots) \in Nat
    BY SlotsFinite
  <2>3. /\ IsFiniteSet(GrantSlots \cup HeldSlots)
        /\ Cardinality(GrantSlots \cup HeldSlots)
             = Cardinality(GrantSlots) + Cardinality(HeldSlots) - Cardinality(GrantSlots \cap HeldSlots)
    BY <2>2, FS_Union
  <2>. QED
    BY <2>1, <2>2, <2>3
<1>9. Cardinality(rest \cap own) = 0
  <2>1. rest \cap own = {}
    OBVIOUS
  <2>. QED
    BY <2>1, FS_EmptySet
<1>. HIDE DEF rest, own, both
<1>10. IsFiniteSet(rest \cup own)
       /\ Cardinality(rest \cup own) = Cardinality(rest) + Cardinality(own) - Cardinality(rest \cap own)
  BY <1>4, <1>6, FS_Union
<1>11. Cardinality(both) <= Cardinality(rest \cup own)
  BY <1>7, <1>10, FS_Subset
<1>12. Slots = n * TotalActiveUsers /\ (n - 1) * TotalActiveUsers = n * TotalActiveUsers - TotalActiveUsers
  BY <1>3 DEF Slots
<1>13. Cardinality(Held) <= Cardinality(HeldSlots) /\ Cardinality(Held) \in Nat
       /\ Cardinality(GrantSlots) \in Nat /\ Cardinality(HeldSlots) \in Nat
  BY HeldFitsSlots, SlotsFinite
<1>14. PICK p : p = n * TotalActiveUsers
  OBVIOUS
<1>15. p \in Nat
  BY <1>3, <1>14
<1>. HIDE DEF n
<1>16. Cardinality(both) <= p - TotalActiveUsers + a
  BY <1>1, <1>4, <1>6, <1>9, <1>10, <1>11, <1>12, <1>14, <1>15
<1>. QED
  BY <1>1, <1>8, <1>12, <1>13, <1>14, <1>15, <1>16

(* A grant is within what was free when the sessions were counted. *)
LEMMA GrantBounds ==
  (IInv /\ GrantOK
     /\ \E i \in Instances : worker[i].items = {}
                             /\ Cardinality(active) + worker[i].toAdmit <= TotalActiveUsers)
  => SlotOvershoot
<1>. SUFFICES ASSUME IInv, GrantOK, NEW i \in Instances, worker[i].items = {},
                     Cardinality(active) + worker[i].toAdmit <= TotalActiveUsers
              PROVE  SlotOvershoot
  OBVIOUS
<1>1. /\ Cardinality(Writing) \in Nat /\ Cardinality(Writing) <= Cardinality(Handlers)
      /\ Cardinality(Held) \in Nat /\ Cardinality(GrantSlots) \in Nat
      /\ Cardinality(Held) + Cardinality(GrantSlots) <= Slots - TotalActiveUsers + worker[i].toAdmit
  BY WritersBounded, HeldFitsSlots, SlotsFinite, OthersSlots
<1>2. /\ Cardinality(active) \in Nat /\ Cardinality(Occupied) \in Nat
      /\ Cardinality(Occupied) <= Cardinality(active) + Cardinality(Writing) + Cardinality(Held)
  BY OccupiedFinite
<1>3. worker[i].toAdmit \in Nat
  BY ClusterAssumption DEF IInv, WorkersOK, Workers
<1>. QED
  BY <1>1, <1>2, <1>3, SlotsNat, ClusterAssumption DEF SlotOvershoot


-----------------------------------------------------------------------------
(* Nothing is taken: the usual step. *)
TakesNothing ==
  /\ Occupied' \subseteq Occupied
  /\ \A k \in Instances : worker'[k].toAdmit <= worker[k].toAdmit

LEMMA TakesNothingKeeps ==
  ASSUME IInv, IInv', SlotOvershoot, TakesNothing
  PROVE  SlotOvershoot'
<1>2. Occupied' \subseteq Occupied
  BY DEF TakesNothing
<1>3. GrantSlots' \subseteq GrantSlots
  <2>. SUFFICES ASSUME NEW s \in GrantSlots' PROVE s \in GrantSlots
    OBVIOUS
  <2>1. /\ s \in Instances \X (1..TotalActiveUsers)
        /\ s[2] <= worker'[s[1]].toAdmit /\ worker'[s[1]].toAdmit <= worker[s[1]].toAdmit
    BY DEF GrantSlots, TakesNothing
  <2>2. worker'[s[1]].toAdmit \in Int /\ worker[s[1]].toAdmit \in Int
    BY <2>1, ClusterAssumption DEF IInv, WorkersOK, Workers
  <2>. QED
    BY <2>1, <2>2, ClusterAssumption DEF GrantSlots
<1>4. /\ Cardinality(Occupied') \in Nat /\ Cardinality(Occupied) \in Nat
      /\ Cardinality(Occupied') <= Cardinality(Occupied)
  BY <1>2, OccupiedFinite, FS_Subset, FS_CardinalityType
<1>5. /\ Cardinality(GrantSlots') \in Nat /\ Cardinality(GrantSlots) \in Nat
      /\ Cardinality(GrantSlots') <= Cardinality(GrantSlots)
  BY <1>3, SlotsFinite, FS_Subset, FS_CardinalityType
<1>. QED
  BY <1>4, <1>5, SlotsNat, ClusterAssumption DEF SlotOvershoot

-----------------------------------------------------------------------------
(* A request takes a place only where it has seen a free one. *)
LEMMA WritersMove ==
  ASSUME RequestsOK, NEW h \in Handlers
  PROVE  /\ Answer(h) => Writing' \subseteq Writing
         /\ \A next, id : Goto(h, next, id) =>
              /\ Writing' \subseteq Writing \cup {id}
              /\ next \notin {"extend", "admit"} => Writing' \subseteq Writing
<1>. req \in [Handlers -> Requests]
  BY DEF RequestsOK
<1>1. Answer(h) => Writing' \subseteq Writing
  BY DEF Answer, IdleRequest, Writing
<1>2. \A next, id : Goto(h, next, id) => Writing' \subseteq Writing \cup {id}
  BY DEF Goto, Writing
<1>3. \A next, id : Goto(h, next, id) /\ next \notin {"extend", "admit"} => Writing' \subseteq Writing
  BY DEF Goto, Writing
<1>. QED
  BY <1>1, <1>2, <1>3

LEMMA HandlerTakes ==
  ASSUME IInv, NEW h \in Handlers, HandlerStep(h)
  PROVE  \/ TakesNothing
         \/ UNCHANGED <<active, worker>> /\ Cardinality(active) < TotalActiveUsers
<1>. SetsOK /\ RequestsOK /\ WorkersOK /\ req[h] \in Requests /\ req \in [Handlers -> Requests]
  BY DEF IInv, RequestsOK
<1>a. ASSUME UNCHANGED worker, active' \cup Writing' \subseteq active \cup Writing PROVE TakesNothing
  <2>1. \A k \in Instances : worker[k].toAdmit \in Int
    BY ClusterAssumption DEF WorkersOK, Workers
  <2>2. Held' = Held
    BY <1>a DEF Held
  <2>. QED
    BY <1>a, <2>1, <2>2 DEF TakesNothing, Occupied
<1>b. req[h].pc \in {"extend", "admit"} => req[h].id \in Writing
  BY DEF Writing
<1>1. CASE Arrive(h) \/ Evict(h)
  BY <1>1, <1>a, WritersMove DEF Arrive, Evict, EvictExpired
<1>2. CASE IsActive(h)
  <2>1. \/ Answer(h)
        \/ \E c \in cookies : IsLive(c.id) /\ Goto(h, "extend", c.id)
        \/ \E id : Goto(h, "position", id)
        \/ Goto(h, "evict", NoId)
    BY <1>2, Zenon DEF IsActive
  <2>2. \A id : IsLive(id) => id \in active
    BY DEF IsLive
  <2>3. Writing' \subseteq active \cup Writing
    BY <2>1, <2>2, WritersMove
  <2>. QED
    BY <1>2, <1>a, <2>3 DEF IsActive, redis
<1>3. CASE ExtendActive(h) \/ AdmitDirect(h)
  BY <1>3, <1>a, <1>b, WritersMove DEF ExtendActive, AdmitDirect, AddActive
<1>4. CASE GetPosition(h) \/ Rank(h) \/ Abort(h)
  <2>1. Answer(h) \/ Goto(h, "evict", NoId)
    BY <1>4 DEF GetPosition, Rank, Abort
  <2>. QED
    BY <1>4, <1>a, <2>1, WritersMove DEF GetPosition, Rank, Abort, redis
<1>5. CASE Count(h)
  <2>1. CASE ShouldQueue(Cardinality(active))
    BY <1>5, <1>a, <2>1, WritersMove DEF Count, redis
  <2>2. CASE ~ShouldQueue(Cardinality(active))
    <3>1. Cardinality(active) \in Nat
      BY OccupiedFinite
    <3>2. Cardinality(active) < TotalActiveUsers
      BY <2>2, <3>1, ClusterAssumption DEF ShouldQueue
    <3>. QED
      BY <1>5, <3>2 DEF Count, redis
  <2>. QED
    BY <2>1, <2>2
<1>6. CASE Enqueue(h)
  BY <1>6, <1>a, WritersMove DEF Enqueue, AddToQueue
<1>7. CASE RepeatRequest(h)
  <2>1. Writing' = Writing
    BY <1>7 DEF RepeatRequest, Writing
  <2>. QED
    BY <1>7, <1>a, <1>b, <2>1 DEF RepeatRequest, AddActive, AddToQueue
<1>. QED
  BY <1>1, <1>2, <1>3, <1>4, <1>5, <1>6, <1>7 DEF HandlerStep


-----------------------------------------------------------------------------
(* A worker takes slots where it has counted them free, and turns a grant  *)
(* into a batch no larger.                                                 *)
Granting(i) ==
  /\ UNCHANGED <<active, req>>
  /\ worker'[i].items = {} /\ Cardinality(active) + worker'[i].toAdmit <= TotalActiveUsers

Popping(i) ==
  /\ UNCHANGED <<active, req>>
  /\ \E batch \in Batches(worker[i].toAdmit) :
       \A k \in Instances :
         IF k = i THEN worker'[k].items = batch /\ worker'[k].toAdmit = 0
                  ELSE worker'[k] = worker[k]

LEMMA CountGrants ==
  ASSUME IInv, NEW i \in Instances, CountSlots(i)
  PROVE  TakesNothing \/ Granting(i)
<1>. DEFINE n == Tick(i)!Granted
            free == Tick(i)!Available(Cardinality(active))
            refilled == Tick(i)!Refilled
            capped == Tick(i)!Capped(n, free)
<1>1. n \in Nat /\ free \in Int
  BY TickFacts
<1>2. free = TotalActiveUsers - Cardinality(active)
      /\ capped = IF n > free THEN free ELSE n
  BY DEF Tick!Available, Tick!Capped
<1>3. \/ EndTick(i)
      \/ worker' = [worker EXCEPT ![i].pc = "select", ![i].bucket = refilled]
      \/ worker' = [worker EXCEPT ![i].pc = "pop", ![i].toAdmit = capped,
                                  ![i].bucket = refilled - n * TicksPerMinute]
  BY <1>1 DEF CountSlots
<1>. HIDE DEF n, free, refilled, capped
<1>4. UNCHANGED <<active, req>> /\ worker[i].pc = "count"
  BY DEF CountSlots, redis
<1>5. /\ worker \in [Instances -> Workers] /\ worker[i] \in Workers /\ worker[i].items = {}
      /\ \A k \in Instances : worker[k].toAdmit \in 0..TotalActiveUsers
  BY <1>4 DEF IInv, WorkersOK, BatchOK, Workers
<1>6. ASSUME NEW w, w.items = worker[i].items, \A k \in Instances : worker'[k] = IF k = i THEN w ELSE worker[k]
      PROVE  Occupied' = Occupied
  <2>1. Writing' = Writing /\ Held' = Held
    BY <1>4, <1>6 DEF Writing, Held
  <2>. QED
    BY <1>4, <2>1 DEF Occupied
<1>7. CASE EndTick(i)
  <2>. DEFINE w == [worker[i] EXCEPT !.pc = "select", !.toAdmit = 0]
  <2>1. worker' = [worker EXCEPT ![i] = w]
    BY <1>5, <1>7 DEF EndTick
  <2>2. w.items = worker[i].items /\ w.toAdmit = 0
    BY <1>5 DEF Workers
  <2>3. \A k \in Instances : worker'[k] = IF k = i THEN w ELSE worker[k]
    BY <1>5, <2>1
  <2>. HIDE DEF w
  <2>. QED
    BY <1>5, <1>6, <2>2, <2>3, ClusterAssumption DEF TakesNothing
<1>8. CASE worker' = [worker EXCEPT ![i].pc = "select", ![i].bucket = refilled]
  <2>. DEFINE w == [worker[i] EXCEPT !.pc = "select", !.bucket = refilled]
  <2>1. worker' = [worker EXCEPT ![i] = w]
    BY <1>5, <1>8
  <2>2. w.items = worker[i].items /\ w.toAdmit = worker[i].toAdmit
    BY <1>5 DEF Workers
  <2>3. \A k \in Instances : worker'[k] = IF k = i THEN w ELSE worker[k]
    BY <1>5, <2>1
  <2>. HIDE DEF w
  <2>. QED
    BY <1>5, <1>6, <2>2, <2>3, ClusterAssumption DEF TakesNothing
<1>9. CASE worker' = [worker EXCEPT ![i].pc = "pop", ![i].toAdmit = capped,
                                    ![i].bucket = refilled - n * TicksPerMinute]
  <2>. DEFINE w == [worker[i] EXCEPT !.pc = "pop", !.toAdmit = capped,
                                     !.bucket = refilled - n * TicksPerMinute]
  <2>1. worker' = [worker EXCEPT ![i] = w]
    BY <1>5, <1>9
  <2>2. w.items = {} /\ w.toAdmit = capped
    BY <1>5 DEF Workers
  <2>3. worker'[i] = w
    BY <1>5, <2>1
  <2>. HIDE DEF w
  <2>4. Cardinality(active) \in Nat
    BY OccupiedFinite
  <2>5. Cardinality(active) + capped <= TotalActiveUsers
    BY <1>1, <1>2, <2>4, ClusterAssumption
  <2>. QED
    BY <1>4, <2>2, <2>3, <2>5 DEF Granting
<1>. QED
  BY <1>3, <1>7, <1>8, <1>9

LEMMA PopTakesBatch ==
  ASSUME IInv, NEW i \in Instances, Pop(i)
  PROVE  Popping(i)
<1>1. PICK batch \in Batches(worker[i].toAdmit) :
        /\ PopMembers(batch)
        /\ worker' = [worker EXCEPT ![i].pc = IF batch = {} THEN "select" ELSE "promote",
                                    ![i].toAdmit = 0, ![i].items = batch]
  BY DEF Pop
<1>. DEFINE w == [worker[i] EXCEPT !.pc = IF batch = {} THEN "select" ELSE "promote",
                                   !.toAdmit = 0, !.items = batch]
<1>2. worker \in [Instances -> Workers] /\ worker[i] \in Workers
  BY DEF IInv, WorkersOK
<1>3. worker' = [worker EXCEPT ![i] = w]
  BY <1>1, <1>2
<1>4. w.items = batch /\ w.toAdmit = 0
  BY <1>2 DEF Workers
<1>5. \A k \in Instances : worker'[k] = IF k = i THEN w ELSE worker[k]
  BY <1>2, <1>3
<1>. HIDE DEF w
<1>6. UNCHANGED <<active, req>>
  BY <1>1 DEF Pop, PopMembers
<1>. QED
  BY <1>1, <1>4, <1>5, <1>6 DEF Popping

(* The other steps of a worker take nothing new. *)
LEMMA WorkerTakes ==
  ASSUME IInv, NEW i \in Instances, WorkerStep(i)
  PROVE  TakesNothing \/ Granting(i) \/ Popping(i)
<1>0. worker \in [Instances -> Workers] /\ worker[i] \in Workers
      /\ \A k \in Instances : worker[k].toAdmit \in 0..TotalActiveUsers
  BY DEF IInv, WorkersOK, Workers
<1>1. ASSUME NEW w, worker' = [worker EXCEPT ![i] = w],
             w.items \subseteq worker[i].items, w.toAdmit = worker[i].toAdmit \/ w.toAdmit = 0,
             active' \subseteq active \cup worker[i].items, UNCHANGED req
      PROVE  TakesNothing
  <2>1. \A k \in Instances : worker'[k] = IF k = i THEN w ELSE worker[k]
    BY <1>0, <1>1
  <2>2. Held' \subseteq Held /\ worker[i].items \subseteq Held
    BY <1>1, <2>1 DEF Held
  <2>3. Writing' = Writing
    BY <1>1 DEF Writing
  <2>4. Occupied' \subseteq Occupied
    BY <1>1, <2>2, <2>3 DEF Occupied
  <2>5. \A k \in Instances : worker'[k].toAdmit <= worker[k].toAdmit
    BY <1>0, <1>1, <2>1, ClusterAssumption
  <2>. QED
    BY <2>4, <2>5 DEF TakesNothing
<1>2. ASSUME NEW next, WorkerGoto(i, next), active' \subseteq active, UNCHANGED req PROVE TakesNothing
  <2>. DEFINE w == [worker[i] EXCEPT !.pc = next]
  <2>1. worker' = [worker EXCEPT ![i] = w]
    BY <1>0, <1>2 DEF WorkerGoto
  <2>2. w.items = worker[i].items /\ w.toAdmit = worker[i].toAdmit
    BY <1>0 DEF Workers
  <2>. QED
    BY <1>1, <1>2, <2>1, <2>2
<1>3. ASSUME EndTick(i), active' \subseteq active, UNCHANGED req PROVE TakesNothing
  <2>. DEFINE w == [worker[i] EXCEPT !.pc = "select", !.toAdmit = 0]
  <2>1. worker' = [worker EXCEPT ![i] = w]
    BY <1>0, <1>3 DEF EndTick
  <2>2. w.items = worker[i].items /\ w.toAdmit = 0
    BY <1>0 DEF Workers
  <2>. QED
    BY <1>1, <1>3, <2>1, <2>2
<1>4. ASSUME NEW item, Done(i, item), active' \subseteq active \cup worker[i].items, UNCHANGED req
      PROVE  TakesNothing
  <2>. DEFINE w == [worker[i] EXCEPT !.items = @ \ {item},
                                     !.pc = IF worker[i].items = {item} THEN "select" ELSE "promote"]
  <2>1. worker' = [worker EXCEPT ![i] = w]
    BY <1>0, <1>4 DEF Done
  <2>2. w.items \subseteq worker[i].items /\ w.toAdmit = worker[i].toAdmit
    BY <1>0 DEF Workers
  <2>. QED
    BY <1>1, <1>4, <2>1, <2>2
<1>5. CASE CleanUp(i)
  BY <1>2, <1>5 DEF CleanUp, EvictExpired
<1>6. CASE CountSlots(i)
  BY <1>6, CountGrants
<1>7. CASE Pop(i)
  BY <1>7, PopTakesBatch
<1>8. CASE Promote(i)
  BY <1>4, <1>8 DEF Promote, AddActive
<1>9. CASE CommandFails(i)
  BY <1>2, <1>3, <1>4, <1>9 DEF CommandFails, redis
<1>10. CASE Repeat(i)
  <2>1. worker' = [worker EXCEPT ![i] = worker[i]]
    BY <1>0, <1>10 DEF Repeat
  <2>2. active' \subseteq active \cup worker[i].items /\ UNCHANGED req
    BY <1>10 DEF Repeat, PopMembers, AddActive
  <2>. QED
    BY <1>1, <2>1, <2>2
<1>11. CASE Restart(i)
  <2>1. FreshWorker.items = {} /\ FreshWorker.toAdmit = 0
    BY DEF FreshWorker
  <2>. QED
    BY <1>1, <1>11, <2>1 DEF Restart, redis
<1>. QED
  BY <1>5, <1>6, <1>7, <1>8, <1>9, <1>10, <1>11 DEF WorkerStep

(* A grant becomes a batch: what it gives up is at least what it takes. *)
LEMMA PoppingKeeps ==
  ASSUME IInv, IInv', SlotOvershoot, NEW i \in Instances, Popping(i)
  PROVE  SlotOvershoot'
<1>. USE ClusterAssumption
<1>. PICK batch \in Batches(worker[i].toAdmit) :
       \A k \in Instances :
         IF k = i THEN worker'[k].items = batch /\ worker'[k].toAdmit = 0
                  ELSE worker'[k] = worker[k]
  BY DEF Popping
<1>. DEFINE a == worker[i].toAdmit
            own == {i} \X (1..a)
<1>1. a \in 0..TotalActiveUsers
  BY DEF IInv, WorkersOK, Workers
<1>2. IsFiniteSet(batch) /\ Cardinality(batch) \in Nat /\ Cardinality(batch) <= a
  <2>1. IsFiniteSet(queue)
    BY FS_Subset DEF IInv, SetsOK
  <2>2. Cardinality(queue) \in Nat
    BY <2>1, FS_CardinalityType
  <2>3. Cardinality(batch) = Min({a, Cardinality(queue)}) /\ batch \subseteq queue
    BY DEF Batches
  <2>. QED
    BY <1>1, <2>1, <2>2, <2>3, MinFacts, FS_Subset, FS_CardinalityType
<1>3. Occupied' \subseteq Occupied \cup batch
  <2>1. Writing' = Writing /\ active' = active
    BY DEF Popping, Writing
  <2>2. Held' \subseteq Held \cup batch
    BY DEF Held
  <2>. QED
    BY <2>1, <2>2 DEF Occupied
<1>4. IsFiniteSet(Occupied) /\ Cardinality(Occupied) \in Nat
  BY OccupiedFinite
<1>5. /\ IsFiniteSet(Occupied \cup batch)
      /\ Cardinality(Occupied \cup batch) <= Cardinality(Occupied) + Cardinality(batch)
  <2>1. /\ IsFiniteSet(Occupied \cup batch)
        /\ Cardinality(Occupied \cup batch)
             = Cardinality(Occupied) + Cardinality(batch) - Cardinality(Occupied \cap batch)
    BY <1>2, <1>4, FS_Union
  <2>2. Cardinality(Occupied \cap batch) \in Nat
    BY <1>4, FS_Intersection, FS_CardinalityType
  <2>. QED
    BY <1>2, <1>4, <2>1, <2>2
<1>6. /\ Cardinality(Occupied') <= Cardinality(Occupied \cup batch)
      /\ Cardinality(Occupied') \in Nat /\ Cardinality(Occupied \cup batch) \in Nat
  BY <1>3, <1>5, FS_Subset, FS_CardinalityType
<1>7. IsFiniteSet(own) /\ Cardinality(own) = a
  <2>. HIDE DEF a
  <2>1. \A S, T : IsFiniteSet(S) /\ IsFiniteSet(T)
          => IsFiniteSet(S \X T) /\ Cardinality(S \X T) = Cardinality(S) * Cardinality(T)
    BY FS_Product
  <2>2. IsFiniteSet(1..a) /\ Cardinality(1..a) = a
    BY <1>1, FS_Interval
  <2>3. IsFiniteSet({i}) /\ Cardinality({i}) = 1
    BY FS_Singleton
  <2>4. IsFiniteSet(own) /\ Cardinality(own) = Cardinality({i}) * Cardinality(1..a)
    BY <2>1, <2>2, <2>3, Zenon
  <2>. QED
    BY <1>1, <2>2, <2>3, <2>4
<1>8. GrantSlots' \cup own \subseteq GrantSlots
  BY <1>1 DEF GrantSlots
<1>9. GrantSlots' \cap own = {}
  BY <1>1 DEF GrantSlots
<1>. HIDE DEF own
<1>10. IsFiniteSet(GrantSlots) /\ Cardinality(GrantSlots) \in Nat
  BY SlotsFinite
<1>11. IsFiniteSet(GrantSlots')
  BY <1>8, <1>10, FS_Subset
<1>12. Cardinality(GrantSlots' \cup own) = Cardinality(GrantSlots') + a
       /\ Cardinality(GrantSlots' \cup own) <= Cardinality(GrantSlots) /\ Cardinality(GrantSlots') \in Nat
  <2>1. Cardinality(GrantSlots' \cup own) = Cardinality(GrantSlots') + Cardinality(own) - Cardinality(GrantSlots' \cap own)
    BY <1>7, <1>11, FS_Union
  <2>2. Cardinality(GrantSlots' \cap own) = 0
    BY <1>9, FS_EmptySet
  <2>3. Cardinality(GrantSlots') \in Nat /\ Cardinality(GrantSlots' \cup own) <= Cardinality(GrantSlots)
    BY <1>8, <1>10, <1>11, FS_Subset, FS_CardinalityType
  <2>. QED
    BY <1>1, <1>7, <2>1, <2>2, <2>3
<1>. QED
  BY <1>1, <1>2, <1>4, <1>5, <1>6, <1>10, <1>12, SlotsNat DEF SlotOvershoot

LEMMA OvershootStep ==
  ASSUME IInv, GrantOK, SlotOvershoot, [Next]_vars, IInv', GrantOK'
  PROVE  SlotOvershoot'
<1>1. (IInv /\ GrantOK /\ Cardinality(active) < TotalActiveUsers => SlotOvershoot)'
  BY FreeSlotBounds, PTL
<1>2. ((IInv /\ GrantOK
          /\ \E i \in Instances : worker[i].items = {}
                                  /\ Cardinality(active) + worker[i].toAdmit <= TotalActiveUsers)
       => SlotOvershoot)'
  BY GrantBounds, PTL
<1>3. ASSUME NEW h \in Handlers, HandlerStep(h) PROVE SlotOvershoot'
  BY <1>1, <1>3, HandlerTakes, TakesNothingKeeps
<1>4. ASSUME NEW i \in Instances, WorkerStep(i) PROVE SlotOvershoot'
  <2>1. Granting(i) => SlotOvershoot'
    BY <1>2 DEF Granting
  <2>. QED
    BY <1>4, <2>1, WorkerTakes, TakesNothingKeeps, PoppingKeeps
<1>5. CASE Expire \/ ObserveCount \/ UNCHANGED vars
  <2>1. active' \subseteq active /\ UNCHANGED <<req, worker>>
    BY <1>5 DEF Expire, ObserveCount, EvictExpired, vars
  <2>2. Held' = Held /\ Writing' = Writing
    BY <2>1 DEF Held, Writing
  <2>3. \A k \in Instances : worker[k].toAdmit \in Int
    BY ClusterAssumption DEF IInv, WorkersOK, Workers
  <2>4. TakesNothing
    BY <2>1, <2>2, <2>3 DEF TakesNothing, Occupied
  <2>. QED
    BY <2>4, TakesNothingKeeps
<1>. QED
  BY <1>3, <1>4, <1>5 DEF Next

LEMMA OvershootInit == Init => GrantOK /\ SlotOvershoot
<1>. SUFFICES ASSUME Init PROVE GrantOK /\ SlotOvershoot
  OBVIOUS
<1>1. GrantOK
  BY DEF Init, GrantOK, FreshWorker
<1>2. Occupied = {} /\ GrantSlots = {}
  BY ClusterAssumption DEF Init, Occupied, GrantSlots, Writing, Held, FreshWorker, IdleRequest
<1>3. Cardinality({}) = 0
  BY FS_EmptySet
<1>. QED
  BY <1>1, <1>2, <1>3, SlotsNat, ClusterAssumption DEF SlotOvershoot

(* However many instances count, pop and promote at the same time, and     *)
(* whatever requests are between their count and their write: the limit is *)
(* overshot by no more than itself once per instance and one visitor per   *)
(* request, less one (worker.go:74-96, service.go:172-180).                *)
THEOREM OvershootBounded == Spec => []ClusterOvershoot
<1>1. IInv /\ GrantOK /\ SlotOvershoot /\ [Next]_vars /\ IInv' => GrantOK' /\ SlotOvershoot'
  BY GrantOKStep, OvershootStep
<1>2. IInv /\ SlotOvershoot => ClusterOvershoot
  BY InvTyped, NoGrantBeyondLimit DEF SlotOvershoot, ClusterOvershoot
<1>. QED
  BY <1>1, <1>2, OvershootInit, Inductive, PTL DEF Spec
=============================================================================
