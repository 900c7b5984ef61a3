-------------------------- MODULE WaitingRoomProofs --------------------------
(***************************************************************************)
(* The waiting room's safety for any number of visitors, handlers and ids, *)
(* any limit, rate, duration and method.  Every step changes the places of *)
(* ids in one of five ways (PlaceStep); what follows from the ways is      *)
(* proved once for all the actions.                                        *)
(***************************************************************************)
EXTENDS WaitingRoom, MemRoomProofs, ArithmeticFacts

Item == [id : Ids, score : Scores]

(* Which of the worker's locals are in use at which point of a tick. *)
WorkerPhase ==
  /\ pc \in {"select", "cleanup", "count", "pop", "stamp", "promote"}
  /\ pc # "pop" => toAdmit = 0
  /\ pc \in {"stamp", "promote"} <=> promoting # <<>>

PlaceInv == TypeOK /\ WorkerPhase /\ OnePlacePerId

-----------------------------------------------------------------------------
(* The five ways in which a step may move ids. *)
PlacesKept ==
  /\ room'.queue = room.queue
  /\ room'.qSet = room.qSet
  /\ DOMAIN room'.active \subseteq DOMAIN room.active
  /\ \A id \in DOMAIN room.active :
       id \notin DOMAIN room'.active => room.active[id] <= clock
  /\ issued' = issued
  /\ promoting' = promoting

PlaceAdmitted ==
  /\ room'.queue = room.queue
  /\ room'.qSet = room.qSet
  /\ DOMAIN room'.active = DOMAIN room.active \cup {issued + 1}
  /\ issued' = issued + 1
  /\ promoting' = promoting

PlaceQueued ==
  /\ IdsOf(room'.queue) = IdsOf(room.queue) \cup {issued + 1}
  /\ NoIdTwice(room'.queue)
  /\ room'.qSet = room.qSet \cup {issued + 1}
  /\ DOMAIN room'.active = DOMAIN room.active
  /\ issued' = issued + 1
  /\ promoting' = promoting

PlacesPopped ==
  /\ promoting = <<>>
  /\ NoIdTwice(promoting')
  /\ IdsOf(promoting') \subseteq room.qSet
  /\ room'.qSet = room.qSet \ IdsOf(promoting')
  /\ IdsOf(room'.queue) = room'.qSet
  /\ NoIdTwice(room'.queue)
  /\ DOMAIN room'.active = DOMAIN room.active
  /\ issued' = issued

PlacePromoted ==
  /\ promoting # <<>>
  /\ promoting' = Tail(promoting)
  /\ room'.queue = room.queue
  /\ room'.qSet = room.qSet
  /\ DOMAIN room'.active = DOMAIN room.active \cup {Head(promoting).id}
  /\ issued' = issued

PlaceStep ==
  PlacesKept \/ PlaceAdmitted \/ PlaceQueued \/ PlacesPopped \/ PlacePromoted

-----------------------------------------------------------------------------
(* Instants read between two steps, and expiries computed from them. *)
LEMMA InstantFacts ==
  ASSUME TypeOK, NEW from \in 0..MaxTime, NEW now \in from..clock
  PROVE  /\ now \in Scores
         /\ now \in Nat
         /\ now + SessionDuration \in Expiries
  BY RoomAssumption DEF TypeOK, Scores, Expiries

(* A handler's previous step was no later than the clock. *)
LEMMA HandlerSince ==
  ASSUME TypeOK, NEW h \in Handlers
  PROVE  req[h].since \in 0..MaxTime /\ req[h].cookie \in Cookies
  BY DEF TypeOK, Requests

(* Steps that leave the room as it is. *)
LEMMA QuietStep ==
  ASSUME PlaceInv, room' = room, issued' = issued, promoting' = promoting
  PROVE  RoomOK(room', Ids, Scores, Expiries) /\ PlacesKept
  BY DEF PlaceInv, TypeOK, PlacesKept

(* Steps that evict. *)
LEMMA EvictingStep ==
  ASSUME PlaceInv, NEW from \in 0..MaxTime, NEW now \in from..clock,
         room' = Evicted(room, now), issued' = issued, promoting' = promoting
  PROVE  RoomOK(room', Ids, Scores, Expiries) /\ PlacesKept
<1>1. RoomOK(room, Ids, Scores, Expiries) /\ clock \in Int
  BY DEF PlaceInv, TypeOK
<1>2. \A id \in DOMAIN room.active : room.active[id] \in Int
  BY <1>1, RoomAssumption DEF RoomOK, Expiries
<1>3. /\ RoomOK(Evicted(room, now), Ids, Scores, Expiries)
      /\ Evicted(room, now).queue = room.queue
      /\ Evicted(room, now).qSet = room.qSet
      /\ DOMAIN Evicted(room, now).active = {id \in DOMAIN room.active : now <= room.active[id]}
  BY <1>1, EvictedFacts
<1>. QED
  BY <1>1, <1>2, <1>3 DEF PlacesKept

(* The worker's cleanup keeps places. *)
LEMMA CleaningStep ==
  ASSUME PlaceInv, NEW from \in 0..MaxTime, NEW now \in from..clock,
         room' = CleanupExpiredActive(room, now), issued' = issued, promoting' = promoting
  PROVE  RoomOK(room', Ids, Scores, Expiries) /\ PlacesKept
<1>1. RoomOK(room, Ids, Scores, Expiries) /\ clock \in Int
  BY DEF PlaceInv, TypeOK
<1>2. \A id \in DOMAIN room.active : room.active[id] \in Int
  BY <1>1, RoomAssumption DEF RoomOK, Expiries
<1>3. /\ RoomOK(CleanupExpiredActive(room, now), Ids, Scores, Expiries)
      /\ CleanupExpiredActive(room, now).queue = room.queue
      /\ CleanupExpiredActive(room, now).qSet = room.qSet
      /\ DOMAIN CleanupExpiredActive(room, now).active
           = {id \in DOMAIN room.active : now < room.active[id]}
  BY <1>1, CleanupFacts
<1>. QED
  BY <1>1, <1>2, <1>3 DEF PlacesKept

(* Extending a session keeps places. *)
LEMMA ExtendingStep ==
  ASSUME PlaceInv, NEW id \in Ids, NEW exp \in Expiries,
         room' = ExtendActive(room, id, exp), issued' = issued, promoting' = promoting
  PROVE  RoomOK(room', Ids, Scores, Expiries) /\ PlacesKept
<1>1. RoomOK(room, Ids, Scores, Expiries)
  BY DEF PlaceInv, TypeOK
<1>. QED
  <2>. DEFINE r == ExtendActive(room, id, exp)
  <2>1. /\ RoomOK(r, Ids, Scores, Expiries)
        /\ r.queue = room.queue /\ r.qSet = room.qSet
        /\ DOMAIN r.active = DOMAIN room.active
    BY <1>1, ExtendActiveFacts
  <2>. QED
    BY <2>1 DEF PlacesKept

(* A direct admission gives a new id a session and moves no other id. *)
LEMMA AdmittingStep ==
  ASSUME PlaceInv, NEW h \in Handlers, AdmitDirect(h)
  PROVE  RoomOK(room', Ids, Scores, Expiries) /\ PlaceAdmitted
<1>1. RoomOK(room, Ids, Scores, Expiries) /\ issued \in Nat /\ TypeOK
  BY DEF PlaceInv, TypeOK
<1>2. PICK now \in req[h].since..clock : room' = AddActive(room, issued', now + SessionDuration)
  BY DEF AdmitDirect
<1>3. now + SessionDuration \in Expiries
  BY <1>1, InstantFacts, HandlerSince
<1>4. issued' = issued + 1 /\ issued' \in Ids /\ promoting' = promoting
  BY <1>1 DEF AdmitDirect, workerVars, Ids
<1>. QED
  <2>. DEFINE r == AddActive(room, issued', now + SessionDuration)
  <2>1. /\ RoomOK(r, Ids, Scores, Expiries)
        /\ r.queue = room.queue /\ r.qSet = room.qSet
        /\ DOMAIN r.active = DOMAIN room.active \cup {issued'}
    BY <1>1, <1>3, <1>4, AddActiveFacts
  <2>. QED
    BY <1>2, <1>4, <2>1 DEF PlaceAdmitted

(* Enqueueing gives a new id a place in the queue and moves no other id. *)
LEMMA EnqueuingStep ==
  ASSUME PlaceInv, NEW h \in Handlers, Enqueue(h)
  PROVE  RoomOK(room', Ids, Scores, Expiries) /\ PlaceQueued
<1>1. RoomOK(room, Ids, Scores, Expiries) /\ issued \in Nat /\ TypeOK
  BY DEF PlaceInv, TypeOK
<1>2. PICK now \in req[h].since..clock : room' = EnqueueNew(room, issued', now)
  BY DEF Enqueue
<1>3. now \in Scores
  BY <1>1, InstantFacts, HandlerSince
<1>4. issued' = issued + 1 /\ issued' \in Ids /\ promoting' = promoting
  BY <1>1 DEF Enqueue, workerVars, Ids
<1>5. NoIdTwice(room.queue) /\ issued' \notin IdsOf(room.queue)
  BY <1>1, <1>4 DEF PlaceInv, OnePlacePerId
<1>. QED
  BY <1>1, <1>2, <1>3, <1>4, <1>5, EnqueueNewFacts DEF PlaceQueued

(* A pop moves ids from the queue to the worker's hands. *)
LEMMA PoppingStep ==
  ASSUME PlaceInv, PopForAdmission
  PROVE  /\ RoomOK(room', Ids, Scores, Expiries)
         /\ PlacesPopped
         /\ promoting' \in Seq(Item)
         /\ Len(promoting') \in Nat
         /\ Len(promoting') <= toAdmit
<1>. DEFINE n == PopSize(room, toAdmit)
<1>1. RoomOK(room, Ids, Scores, Expiries) /\ NoIdTwice(room.queue) /\ toAdmit \in Nat
  BY DEF PlaceInv, OnePlacePerId, TypeOK, Worker!WorkerTypeOK
<1>2. Len(room.queue) \in Nat
  BY <1>1 DEF RoomOK
<1>3. n \in 0..Len(room.queue) /\ n <= toAdmit
  BY <1>1, <1>2 DEF PopSize
<1>4. PICK take \in Takes(room.queue, n, QueueingMethod) :
        \E keep \in Keeps(room.queue, take) :
          promoting' = Picked(room.queue, take) /\ room' = Popped(room, take, keep)
  BY DEF PopForAdmission
<1>5. PICK keep \in Keeps(room.queue, take) :
        promoting' = Picked(room.queue, take) /\ room' = Popped(room, take, keep)
  BY <1>4
<1>. HIDE DEF n
<1>6. /\ RoomOK(Popped(room, take, keep), Ids, Scores, Expiries)
      /\ Popped(room, take, keep).active = room.active
      /\ Popped(room, take, keep).qSet = room.qSet \ IdsOf(Picked(room.queue, take))
      /\ IdsOf(Popped(room, take, keep).queue)
           = IdsOf(room.queue) \ IdsOf(Picked(room.queue, take))
      /\ NoIdTwice(Popped(room, take, keep).queue)
      /\ Picked(room.queue, take) \in Seq(Item)
      /\ Len(Picked(room.queue, take)) = n
      /\ NoIdTwice(Picked(room.queue, take))
      /\ IdsOf(Picked(room.queue, take)) \subseteq IdsOf(room.queue)
  BY <1>1, <1>3, PoppedFacts DEF Item
<1>7. promoting = <<>> /\ room.qSet = IdsOf(room.queue)
  BY DEF PopForAdmission, PlaceInv, WorkerPhase, OnePlacePerId
<1>8. issued' = issued
  BY DEF PopForAdmission, handlerVars
<1>9. PlacesPopped
  BY <1>5, <1>6, <1>7, <1>8 DEF PlacesPopped
<1>. QED
  BY <1>3, <1>5, <1>6, <1>9

(* A promotion moves the first id in the worker's hands to the sessions. *)
LEMMA PromotingStep ==
  ASSUME PlaceInv, Promote
  PROVE  /\ RoomOK(room', Ids, Scores, Expiries)
         /\ PlacePromoted
         /\ promoting' \in Seq(Item)
         /\ Len(promoting') = Len(promoting) - 1
         /\ Len(promoting) > 0
<1>1. /\ RoomOK(room, Ids, Scores, Expiries) /\ NoIdTwice(promoting)
      /\ promoting \in Seq(Item) /\ stamp \in Expiries
  BY DEF PlaceInv, OnePlacePerId, TypeOK, Item
<1>2. promoting # <<>>
  BY DEF PlaceInv, WorkerPhase, Promote
<1>3. /\ Head(promoting).id \in Ids /\ Tail(promoting) \in Seq(Item)
      /\ Len(Tail(promoting)) = Len(promoting) - 1 /\ Len(promoting) > 0
  BY <1>1, <1>2, TailFacts DEF Item
<1>4. /\ room' = AddActive(room, Head(promoting).id, stamp)
      /\ promoting' = Tail(promoting)
      /\ issued' = issued
  BY DEF Promote, handlerVars
<1>. QED
  <2>. DEFINE id == Head(promoting).id
              r == AddActive(room, id, stamp)
  <2>1. /\ RoomOK(r, Ids, Scores, Expiries)
        /\ r.queue = room.queue /\ r.qSet = room.qSet
        /\ DOMAIN r.active = DOMAIN room.active \cup {id}
    BY <1>1, <1>3, AddActiveFacts
  <2>. QED
    BY <1>1, <1>2, <1>3, <1>4, <2>1 DEF PlacePromoted

-----------------------------------------------------------------------------
(* Every step is of one of the five kinds and leaves a well-formed room.   *)
LEMMA EveryStepMoves ==
  ASSUME PlaceInv, [Next]_vars
  PROVE  RoomOK(room', Ids, Scores, Expiries) /\ PlaceStep
<1>. USE DEF PlaceStep
<1>1. CASE UNCHANGED vars \/ Advance \/ TakeTick \/ StampBatch
  <2>1. room' = room /\ issued' = issued /\ promoting' = promoting
    BY <1>1 DEF vars, handlerVars, Advance, TakeTick, StampBatch
  <2>. QED
    BY <2>1, QuietStep
<1>2. ASSUME NEW h \in Handlers, NEW v \in Visitors, Arrive(h, v)
      PROVE  RoomOK(room', Ids, Scores, Expiries) /\ PlaceStep
  <2>1. room' = room /\ issued' = issued /\ promoting' = promoting
    BY <1>2 DEF Arrive, workerVars
  <2>. QED
    BY <2>1, QuietStep
<1>3. ASSUME NEW h \in Handlers, HandlerStep(h)
      PROVE  RoomOK(room', Ids, Scores, Expiries) /\ PlaceStep
  <2>1. CASE \/ RejectCookie(h) \/ ReadExpiry(h) \/ Compare(h) \/ LookUpPosition(h)
             \/ Allow(h) \/ Queue(h) \/ LoseResponse(h)
    <3>1. room' = room /\ issued' = issued /\ promoting' = promoting
      BY <2>1 DEF RejectCookie, ReadExpiry, Compare, LookUpPosition, Allow, Queue,
                  LoseResponse, Deliver, workerVars
    <3>. QED
      BY <3>1, QuietStep
  <2>2. CASE Extend(h)
    <3>1. PICK now \in req[h].since..clock :
            room' = ExtendActive(room, req[h].cookie.id, now + SessionDuration)
      BY <2>2 DEF Extend
    <3>2. now + SessionDuration \in Expiries /\ req[h].cookie.id \in Ids
      BY InstantFacts, HandlerSince DEF PlaceInv, Cookies
    <3>3. issued' = issued /\ promoting' = promoting
      BY <2>2 DEF Extend, workerVars
    <3>. QED
      BY <3>1, <3>2, <3>3, ExtendingStep
  <2>3. CASE CountActive(h) \/ RenderPage(h)
    <3>1. PICK now \in req[h].since..clock : room' = Evicted(room, now)
      BY <2>3 DEF CountActive, RenderPage
    <3>2. issued' = issued /\ promoting' = promoting
      BY <2>3 DEF CountActive, RenderPage, workerVars
    <3>3. req[h].since \in 0..MaxTime
      BY HandlerSince DEF PlaceInv
    <3>. QED
      BY <3>1, <3>2, <3>3, EvictingStep
  <2>4. CASE AdmitDirect(h)
    BY <2>4, AdmittingStep
  <2>5. CASE Enqueue(h)
    BY <2>5, EnqueuingStep
  <2>. QED
    BY <1>3, <2>1, <2>2, <2>3, <2>4, <2>5 DEF HandlerStep
<1>4. CASE ObserveCount
  <2>1. PICK now \in 0..clock : room' = Evicted(room, now)
    BY <1>4 DEF ObserveCount
  <2>2. issued' = issued /\ promoting' = promoting
    BY <1>4 DEF ObserveCount, handlerVars, workerVars
  <2>3. 0 \in 0..MaxTime
    BY RoomAssumption
  <2>. QED
    BY <2>1, <2>2, <2>3, EvictingStep
<1>5. CASE CleanUp
  <2>1. PICK now \in since..clock : room' = CleanupExpiredActive(room, now)
    BY <1>5 DEF CleanUp
  <2>2. issued' = issued /\ promoting' = promoting
    BY <1>5 DEF CleanUp, handlerVars
  <2>3. since \in 0..MaxTime
    BY DEF PlaceInv, TypeOK
  <2>. QED
    BY <2>1, <2>2, <2>3, CleaningStep
<1>6. CASE CountSlots
  <2>1. PICK now \in since..clock : room' = Evicted(room, now)
    BY <1>6 DEF CountSlots
  <2>2. issued' = issued /\ promoting' = promoting
    BY <1>6 DEF CountSlots, handlerVars
  <2>3. since \in 0..MaxTime
    BY DEF PlaceInv, TypeOK
  <2>. QED
    BY <2>1, <2>2, <2>3, EvictingStep
<1>7. CASE PopForAdmission
  BY <1>7, PoppingStep
<1>8. CASE Promote
  BY <1>8, PromotingStep
<1>. QED
  BY <1>1, <1>2, <1>3, <1>4, <1>5, <1>6, <1>7, <1>8 DEF Next, WorkerStep

(* Whatever its kind, a step keeps every id in one place. *)
LEMMA OnePlaceStep ==
  ASSUME PlaceInv, PlaceStep
  PROVE  OnePlacePerId'
<1>1. OnePlacePerId /\ issued \in Nat /\ promoting \in Seq([id : Ids, score : Scores])
  BY DEF PlaceInv, TypeOK
<1>2. issued + 1 \notin 1..issued /\ 1..issued \subseteq 1..issued + 1 /\ issued + 1 \in 1..issued + 1
  BY <1>1
<1>3. CASE PlacesKept
  BY <1>1, <1>3 DEF PlacesKept, OnePlacePerId
<1>4. CASE PlaceAdmitted
  BY <1>1, <1>2, <1>4 DEF PlaceAdmitted, OnePlacePerId
<1>5. CASE PlaceQueued
  BY <1>1, <1>2, <1>5 DEF PlaceQueued, OnePlacePerId
<1>6. CASE PlacesPopped
  BY <1>1, <1>6 DEF PlacesPopped, OnePlacePerId
<1>7. CASE PlacePromoted
  <2>1. /\ Head(promoting).id \in IdsOf(promoting)
        /\ NoIdTwice(Tail(promoting))
        /\ IdsOf(Tail(promoting)) = IdsOf(promoting) \ {Head(promoting).id}
    BY <1>1, <1>7, TailFacts DEF PlacePromoted, OnePlacePerId
  <2>. QED
    BY <1>1, <1>7, <2>1 DEF PlacePromoted, OnePlacePerId
<1>. QED
  BY <1>3, <1>4, <1>5, <1>6, <1>7 DEF PlaceStep

(* Whatever its kind, a step never takes an admission back. *)
LEMMA AdmittedStays ==
  ASSUME PlaceInv, PlaceStep, NEW id, Admitted(id)
  PROVE  Admitted(id)'
<1>1. OnePlacePerId /\ issued \in Nat /\ promoting \in Seq([id : Ids, score : Scores])
  BY DEF PlaceInv, TypeOK
<1>2. id \in 1..issued /\ id # issued + 1 /\ id \in 1..issued + 1
  BY <1>1 DEF Admitted
<1>3. CASE PlacePromoted
  <2>1. IdsOf(Tail(promoting)) = IdsOf(promoting) \ {Head(promoting).id}
    BY <1>1, <1>3, TailFacts DEF PlacePromoted, OnePlacePerId
  <2>. QED
    BY <1>2, <1>3, <2>1 DEF PlacePromoted, Admitted
<1>4. CASE PlacesPopped
  BY <1>1, <1>2, <1>4 DEF PlacesPopped, Admitted, OnePlacePerId
<1>5. CASE PlacesKept \/ PlaceAdmitted \/ PlaceQueued
  BY <1>1, <1>2, <1>5 DEF PlacesKept, PlaceAdmitted, PlaceQueued, Admitted
<1>. QED
  BY <1>3, <1>4, <1>5 DEF PlaceStep

-----------------------------------------------------------------------------
(* Types, part by part. *)
HandlersOK ==
  /\ jar \in [Visitors -> Cookies]
  /\ req \in [Handlers -> Requests]
  /\ \A h \in Handlers : req[h].pc = "idle" <=> req[h].visitor = NoVisitor

WorkerOK ==
  /\ tickDue \in BOOLEAN
  /\ promoting \in Seq(Item)
  /\ Worker!WorkerTypeOK
  /\ stamp \in Expiries
  /\ since \in 0..MaxTime

BusyPcs ==
  {"verify", "compare", "extend", "position", "count", "admit", "enqueue", "queue",
   "rendered", "allow"}

(* Cookie keeps whole seconds and so makes a well-formed cookie. *)
LEMMA CookieFacts ==
  ASSUME NEW id \in Ids, NEW status \in {"none", "queued", "active"}, NEW exp \in Nat
  PROVE  Cookie(id, status, exp) \in Cookies
<1>1. exp \div Second \in Nat
  BY RoomAssumption
<1>. QED
  BY <1>1 DEF Cookie, Seconds, Cookies, Ids

(* A request that goes on stays well-formed. *)
LEMMA BecomeFacts ==
  ASSUME TypeOK, NEW h \in Handlers, req[h].pc # "idle",
         NEW next \in BusyPcs, NEW cookie \in Cookies, NEW exp \in Expiries,
         Become(h, next, cookie, exp), jar' = jar
  PROVE  HandlersOK'
<1>. DEFINE r == [pc |-> next, visitor |-> req[h].visitor, cookie |-> cookie,
                  exp |-> exp, since |-> clock]
<1>1. r \in Requests /\ r.pc # "idle" /\ r.visitor # NoVisitor
  BY DEF TypeOK, Requests, BusyPcs
<1>2. req' = [req EXCEPT ![h] = r]
  BY DEF Become
<1>. HIDE DEF r
<1>. QED
  BY <1>1, <1>2 DEF TypeOK, HandlersOK

(* So does one whose cookie stays what it was. *)
LEMMA GotoFacts ==
  ASSUME TypeOK, NEW h \in Handlers, req[h].pc # "idle", NEW next \in BusyPcs,
         Goto(h, next), jar' = jar
  PROVE  HandlersOK'
<1>1. req[h].cookie \in Cookies /\ 0 \in Expiries
  BY HandlerSince, RoomAssumption DEF Expiries
<1>. QED
  BY <1>1, BecomeFacts DEF Goto

(* A request that ends leaves a cookie behind, or the one there was. *)
LEMMA IdleFacts ==
  ASSUME TypeOK, NEW h \in Handlers, req' = [req EXCEPT ![h] = IdleRequest],
         jar' \in [Visitors -> Cookies]
  PROVE  HandlersOK'
<1>1. IdleRequest \in Requests /\ IdleRequest.pc = "idle" /\ IdleRequest.visitor = NoVisitor
  BY RoomAssumption DEF IdleRequest, NoCookie, Requests, Cookies, Ids, Expiries
<1>. QED
  BY <1>1 DEF TypeOK, HandlersOK

(* A delivered response leaves a well-formed jar and an idle handler. *)
LEMMA DeliverFacts ==
  ASSUME TypeOK, NEW h \in Handlers, NEW cookie \in Cookies, Deliver(h, cookie)
  PROVE  HandlersOK'
<1>1. jar' \in [Visitors -> Cookies]
  BY DEF Deliver, TypeOK
<1>. QED
  BY <1>1, IdleFacts DEF Deliver

(* Every step of a handler keeps cookies and requests well-formed. *)
LEMMA HandlerTypes ==
  ASSUME PlaceInv, NEW h \in Handlers, HandlerStep(h)
  PROVE  HandlersOK'
<1>1. TypeOK
  BY DEF PlaceInv
<1>. USE <1>1
<1>2. req[h].cookie \in Cookies /\ req[h].since \in 0..MaxTime /\ req[h].cookie.id \in Ids
  BY HandlerSince DEF Cookies
<1>3. 0 \in Expiries /\ NoCookie \in Cookies
  BY RoomAssumption DEF Expiries, NoCookie, Cookies, Ids
<1>4. CASE RejectCookie(h)
  <2>1. req[h].pc # "idle" /\ jar' = jar /\ Become(h, "count", NoCookie, 0)
    BY <1>4 DEF RejectCookie
  <2>. QED
    BY <1>3, <2>1, BecomeFacts DEF BusyPcs
<1>5. CASE ReadExpiry(h)
  <2>1. req[h].pc # "idle" /\ jar' = jar
    BY <1>5 DEF ReadExpiry
  <2>2. CASE req[h].cookie.id \in DOMAIN room.active
    <3>1. room.active[req[h].cookie.id] \in Expiries
      BY <2>2 DEF TypeOK, RoomOK
    <3>2. Become(h, "compare", req[h].cookie, room.active[req[h].cookie.id])
      BY <1>5, <2>2 DEF ReadExpiry
    <3>. QED
      BY <1>2, <2>1, <3>1, <3>2, BecomeFacts DEF BusyPcs
  <2>3. CASE req[h].cookie.id \notin DOMAIN room.active
    <3>1. Goto(h, NotActive(h)) /\ NotActive(h) \in BusyPcs
      BY <1>5, <2>3 DEF ReadExpiry, NotActive, BusyPcs
    <3>. QED
      BY <2>1, <3>1, GotoFacts
  <2>. QED
    BY <2>2, <2>3
<1>6. CASE Compare(h) \/ Extend(h) \/ LookUpPosition(h) \/ CountActive(h) \/ RenderPage(h)
  <2>1. req[h].pc # "idle" /\ jar' = jar
    BY <1>6 DEF Compare, Extend, LookUpPosition, CountActive, RenderPage
  <2>2. \E next \in BusyPcs : Goto(h, next)
    BY <1>6 DEF Compare, Extend, LookUpPosition, CountActive, RenderPage, NotActive,
                IsActive, BusyPcs
  <2>. QED
    BY <2>1, <2>2, GotoFacts
<1>7. CASE AdmitDirect(h)
  <2>1. req[h].pc # "idle" /\ jar' = jar /\ issued' \in Ids
    BY <1>7 DEF AdmitDirect, Ids, TypeOK
  <2>2. PICK now \in req[h].since..clock :
          Become(h, "allow", Cookie(issued', "active", now + SessionDuration), 0)
    BY <1>7 DEF AdmitDirect
  <2>3. now + SessionDuration \in Nat
    BY <1>2, InstantFacts, RoomAssumption
  <2>4. Cookie(issued', "active", now + SessionDuration) \in Cookies
    BY <2>1, <2>3, CookieFacts
  <2>. QED
    BY <1>3, <2>1, <2>2, <2>4, BecomeFacts DEF BusyPcs
<1>8. CASE Enqueue(h)
  <2>1. req[h].pc # "idle" /\ jar' = jar /\ issued' \in Ids
    BY <1>8 DEF Enqueue, Ids, TypeOK
  <2>2. PICK now \in req[h].since..clock :
          Become(h, "queue", Cookie(issued', "queued", now + QueueCookieTTL), 0)
    BY <1>8 DEF Enqueue
  <2>3. now + QueueCookieTTL \in Nat
    BY <1>2, InstantFacts, RoomAssumption
  <2>4. Cookie(issued', "queued", now + QueueCookieTTL) \in Cookies
    BY <2>1, <2>3, CookieFacts
  <2>. QED
    BY <1>3, <2>1, <2>2, <2>4, BecomeFacts DEF BusyPcs
<1>9. CASE Allow(h)
  <2>1. PICK now \in req[h].since..clock :
          Deliver(h, Cookie(req[h].cookie.id, "active", now + SessionDuration))
    BY <1>9 DEF Allow
  <2>2. now + SessionDuration \in Nat
    BY <1>2, InstantFacts, RoomAssumption
  <2>3. Cookie(req[h].cookie.id, "active", now + SessionDuration) \in Cookies
    BY <1>2, <2>2, CookieFacts
  <2>. QED
    BY <2>1, <2>3, DeliverFacts
<1>10. CASE Queue(h)
  BY <1>2, <1>10, DeliverFacts DEF Queue
<1>11. CASE LoseResponse(h)
  <2>1. req' = [req EXCEPT ![h] = IdleRequest] /\ jar' = jar
    BY <1>11 DEF LoseResponse
  <2>2. jar' \in [Visitors -> Cookies]
    BY <2>1 DEF TypeOK
  <2>. QED
    BY <2>1, <2>2, IdleFacts
<1>. QED
  BY <1>4, <1>5, <1>6, <1>7, <1>8, <1>9, <1>10, <1>11 DEF HandlerStep

(* So does the arrival of a request. *)
LEMMA ArrivalTypes ==
  ASSUME TypeOK, NEW h \in Handlers, NEW v \in Visitors, Arrive(h, v)
  PROVE  HandlersOK'
<1>. DEFINE r == [pc |-> IF jar[v] = NoCookie THEN "count" ELSE "verify",
                  visitor |-> v, cookie |-> jar[v], exp |-> 0, since |-> clock]
<1>1. r \in Requests /\ r.pc # "idle" /\ r.visitor # NoVisitor
  BY RoomAssumption DEF TypeOK, Requests, Expiries
<1>2. req' = [req EXCEPT ![h] = r] /\ jar' = jar
  BY DEF Arrive
<1>. HIDE DEF r
<1>. QED
  BY <1>1, <1>2 DEF TypeOK, HandlersOK

(* Ids are numbered, so only finitely many are active, and counting them   *)
(* gives a number.                                                         *)
LEMMA CountFacts ==
  ASSUME PlaceInv, NEW now
  PROVE  /\ IsFiniteSet(DOMAIN room.active)
         /\ ActiveCount(room, now) \in Nat
         /\ ActiveCount(room, now) = Cardinality(DOMAIN Evicted(room, now).active)
<1>1. DOMAIN room.active \subseteq 1..issued /\ issued \in Nat
  BY DEF PlaceInv, OnePlacePerId, TypeOK
<1>2. IsFiniteSet(DOMAIN room.active)
  <2>. DEFINE D == DOMAIN room.active
  <2>1. 1 \in Int /\ issued \in Int
    BY <1>1
  <2>2. IsFiniteSet(1..issued)
    BY <2>1, FS_Interval
  <2>3. D \subseteq 1..issued
    BY <1>1
  <2>. HIDE DEF D
  <2>4. IsFiniteSet(D)
    BY <2>2, <2>3, FS_Subset
  <2>. QED
    BY <2>4 DEF D
<1>3. DOMAIN Evicted(room, now).active \subseteq DOMAIN room.active
  BY EvictedFacts DEF PlaceInv, TypeOK
<1>. QED
  BY <1>2, <1>3, FS_Subset, FS_CardinalityType DEF ActiveCount

(* The worker's steps keep its locals well-formed, and in use only at the  *)
(* points of a tick that use them.                                         *)
LEMMA WorkerTypes ==
  ASSUME PlaceInv, WorkerStep
  PROVE  WorkerOK' /\ WorkerPhase'
<1>1. /\ TypeOK /\ WorkerPhase /\ promoting \in Seq(Item) /\ clock \in 0..MaxTime
      /\ Worker!WorkerTypeOK /\ stamp \in Expiries /\ since \in 0..MaxTime
      /\ tickDue \in BOOLEAN
  BY DEF PlaceInv, TypeOK, Item
<1>2. 0 \in Expiries /\ 0 \in 0..MaxTime /\ clock + SessionDuration \in Expiries
  BY <1>1, RoomAssumption DEF Expiries
<1>3. CASE TakeTick
  BY <1>1, <1>3 DEF TakeTick, Worker!TakeTick, WorkerOK, WorkerPhase, Worker!WorkerTypeOK
<1>4. CASE CleanUp
  BY <1>1, <1>4 DEF CleanUp, Worker!Cleanup, WorkerOK, WorkerPhase, Worker!WorkerTypeOK
<1>5. CASE CountSlots
  <2>1. PICK now \in since..clock :
          LET active == ActiveCount(room, now)
          IN  \/ Worker!CountFull(active)
              \/ Worker!CountSaves(active)
              \/ Worker!CountGrants(active)
    BY <1>5 DEF CountSlots
  <2>2. /\ promoting' = promoting /\ stamp' = stamp /\ tickDue' = tickDue /\ since' = 0
        /\ promoting = <<>> /\ toAdmit = 0
    BY <1>1, <1>5, <2>1 DEF CountSlots, WorkerPhase, Worker!CountFull, Worker!CountFails,
                            Worker!CountSaves, Worker!CountGrants
  <2>3. /\ bucket' \in Nat /\ toAdmit' \in Nat /\ pc' \in {"select", "pop"}
        /\ pc' # "pop" => toAdmit' = 0
    <3>. DEFINE refilled == bucket + NewUsersPerMinute
                granted == refilled \div TicksPerMinute
                free == TotalActiveUsers - ActiveCount(room, now)
    <3>1. free \in Int
      BY CountFacts, RoomAssumption
    <3>2. refilled \in Nat
      BY <1>1, RoomAssumption DEF Worker!WorkerTypeOK
    <3>3. granted \in Nat /\ TicksPerMinute * granted <= refilled
          /\ TicksPerMinute * granted = granted * TicksPerMinute
      <4>. HIDE DEF refilled
      <4>. QED
        BY <3>2, DivisionBounds, RoomAssumption
    <3>4. Worker!Available(ActiveCount(room, now)) = free /\ Worker!Refilled = refilled
          /\ Worker!Granted = granted
      BY DEF Worker!Available, Worker!Refilled, Worker!Granted
    <3>5. refilled - granted * TicksPerMinute \in Nat
      <4>. HIDE DEF refilled, granted
      <4>. QED
        BY <3>2, <3>3, RoomAssumption
    <3>6. free > 0 /\ granted > 0 => Worker!Capped(granted, free) \in Nat
      <4>. HIDE DEF granted, free
      <4>. QED
        BY <3>1, <3>3 DEF Worker!Capped
    <3>. HIDE DEF refilled, granted, free
    <3>. QED
      BY <1>1, <2>1, <2>2, <3>2, <3>4, <3>5, <3>6 DEF Worker!CountFull, Worker!CountFails,
           Worker!CountSaves, Worker!CountGrants, Worker!WorkerTypeOK
  <2>. QED
    BY <1>1, <1>2, <2>2, <2>3 DEF WorkerOK, WorkerPhase, Worker!WorkerTypeOK
<1>6. CASE PopForAdmission
  <2>1. promoting' \in Seq(Item) /\ Len(promoting') \in Nat
    BY <1>6, PoppingStep
  <2>2. Len(promoting') = 0 <=> promoting' = <<>>
    BY <2>1
  <2>. QED
    BY <1>1, <1>6, <2>1, <2>2 DEF PopForAdmission, Worker!Pop, WorkerOK, WorkerPhase,
                                  Worker!WorkerTypeOK
<1>7. CASE StampBatch
  BY <1>1, <1>2, <1>7 DEF StampBatch, Worker!Stamp, WorkerOK, WorkerPhase, Worker!WorkerTypeOK
<1>8. CASE Promote
  <2>1. promoting' \in Seq(Item) /\ Len(promoting') \in Nat
    BY <1>8, PromotingStep
  <2>2. Len(promoting') = 0 <=> promoting' = <<>>
    BY <2>1
  <2>. QED
    BY <1>1, <1>2, <1>8, <2>1, <2>2 DEF Promote, Worker!Promote, WorkerOK, WorkerPhase,
                                  Worker!WorkerTypeOK
<1>. QED
  BY <1>3, <1>4, <1>5, <1>6, <1>7, <1>8 DEF WorkerStep

-----------------------------------------------------------------------------
(* The initial state has everything in its place. *)
LEMMA InitPlaceInv == Init => PlaceInv
<1>. SUFFICES ASSUME Init PROVE PlaceInv
  OBVIOUS
<1>1. 0 \in Expiries /\ 0 \in 0..MaxTime /\ 0 \in Nat
  BY RoomAssumption DEF Expiries
<1>2. RoomOK(room, Ids, Scores, Expiries)
  BY DEF Init, EmptyRoom, RoomOK
<1>3. HandlersOK
  BY <1>1, RoomAssumption DEF Init, HandlersOK, IdleRequest, NoCookie, Cookies, Requests, Ids
<1>4. WorkerOK /\ WorkerPhase
  <2>1. promoting = <<>> /\ promoting \in Seq(Item) /\ Len(promoting) = 0
    BY DEF Init
  <2>2. WorkerPhase
    BY <2>1 DEF Init, Worker!WorkerInit, WorkerPhase
  <2>3. Worker!WorkerTypeOK
    BY <2>1, <1>1 DEF Init, Worker!WorkerInit, Worker!WorkerTypeOK
  <2>4. tickDue \in BOOLEAN /\ stamp \in Expiries /\ since \in 0..MaxTime
    BY <1>1 DEF Init
  <2>. QED
    BY <2>1, <2>2, <2>3, <2>4 DEF WorkerOK
<1>5. OnePlacePerId
  BY DEF Init, EmptyRoom, OnePlacePerId, NoIdTwice, IdsOf
<1>6. TypeOK
  BY <1>1, <1>2, <1>3, <1>4 DEF Init, TypeOK, HandlersOK, WorkerOK, Item
<1>. QED
  BY <1>4, <1>5, <1>6 DEF PlaceInv

(* Every step keeps ids in their places and everything in its type. *)
LEMMA StepPlaceInv == PlaceInv /\ [Next]_vars => PlaceInv'
<1>. SUFFICES ASSUME PlaceInv, [Next]_vars PROVE PlaceInv'
  OBVIOUS
<1>1. TypeOK /\ WorkerPhase /\ HandlersOK /\ WorkerOK
  BY DEF PlaceInv, TypeOK, HandlersOK, WorkerOK, Item
<1>2. RoomOK(room', Ids, Scores, Expiries) /\ OnePlacePerId'
  BY EveryStepMoves, OnePlaceStep
<1>3. issued' \in Nat
  BY <1>1, EveryStepMoves DEF TypeOK, PlaceStep, PlacesKept, PlaceAdmitted, PlaceQueued,
                              PlacesPopped, PlacePromoted
<1>4. clock' \in 0..MaxTime
  <2>1. CASE Advance
    BY <1>1, <2>1, RoomAssumption DEF Advance, TypeOK
  <2>2. CASE ~Advance
    <3>1. clock' = clock
      BY <2>2 DEF vars, Next, Arrive, HandlerStep, RejectCookie, ReadExpiry, Compare, Extend,
           LookUpPosition, CountActive, AdmitDirect, Enqueue, RenderPage, Allow, Queue, Deliver,
           LoseResponse, ObserveCount, WorkerStep, TakeTick, CleanUp, CountSlots,
           PopForAdmission, StampBatch, Promote
    <3>. QED
      BY <1>1, <3>1 DEF TypeOK
  <2>. QED
    BY <2>1, <2>2
<1>5. HandlersOK'
  <2>1. CASE jar' = jar /\ req' = req
    BY <1>1, <2>1 DEF HandlersOK
  <2>2. CASE UNCHANGED vars \/ Advance \/ ObserveCount \/ WorkerStep
    BY <2>1, <2>2 DEF vars, handlerVars, Advance, ObserveCount, WorkerStep, TakeTick, CleanUp,
                      CountSlots, PopForAdmission, StampBatch, Promote
  <2>. QED
    BY <1>1, <2>2, ArrivalTypes, HandlerTypes DEF Next
<1>6. WorkerOK' /\ WorkerPhase'
  <2>1. CASE UNCHANGED workerVars
    BY <1>1, <2>1 DEF workerVars, WorkerOK, WorkerPhase, Worker!WorkerTypeOK
  <2>2. CASE Advance
    BY <1>1, <2>2 DEF Advance, WorkerOK, WorkerPhase, Worker!WorkerTypeOK
  <2>3. CASE \/ UNCHANGED vars \/ ObserveCount
             \/ \E h \in Handlers, v \in Visitors : Arrive(h, v)
             \/ \E h \in Handlers : HandlerStep(h)
    <3>1. UNCHANGED workerVars
      BY <2>3 DEF vars, workerVars, ObserveCount, Arrive, HandlerStep, RejectCookie,
           ReadExpiry, Compare, Extend, LookUpPosition, CountActive, AdmitDirect, Enqueue,
           RenderPage, Allow, Queue, Deliver, LoseResponse
    <3>. QED
      BY <2>1, <3>1
  <2>. QED
    BY <2>2, <2>3, WorkerTypes DEF Next
<1>7. TypeOK'
  BY <1>2, <1>3, <1>4, <1>5, <1>6 DEF TypeOK, HandlersOK, WorkerOK, Item
<1>. QED
  BY <1>2, <1>6, <1>7 DEF PlaceInv

(* Places and types hold in every reachable state. *)
LEMMA Inductive == Spec => []PlaceInv
<1>. QED
  BY InitPlaceInv, StepPlaceInv, PTL DEF Spec

(* Type correctness of the waiting room. *)
THEOREM TypeCorrect == Spec => []TypeOK
<1>1. PlaceInv => TypeOK
  BY DEF PlaceInv
<1>. QED
  BY <1>1, Inductive, PTL

(* An id is never in two places, and the queue's index is the queue: what  *)
(* the worker's two-step promotion (worker.go:98-112) could break.         *)
THEOREM OnePlace == Spec => []OnePlacePerId
<1>1. PlaceInv => OnePlacePerId
  BY DEF PlaceInv
<1>. QED
  BY <1>1, Inductive, PTL

-----------------------------------------------------------------------------
(* A claim to be admitted: made by an active cookie, and by a handler that *)
(* has found its id active.                                                *)
Claims(r) == r.cookie.status = "active" \/ r.pc \in {"compare", "extend", "allow"}

AdmittedInv == PlaceInv /\ AdmittedOnly

(* After a step in which at most handler h and the browser of visitor v    *)
(* change, only their new claims need looking at.                          *)
LEMMA ClaimsKept ==
  ASSUME AdmittedInv, PlaceStep,
         \A v \in Visitors :
           jar'[v] = jar[v] \/ (jar'[v].status = "active" => Admitted(jar[v].id)'),
         \A h \in Handlers :
           req'[h] = req[h] \/ (Claims(req'[h]) => Admitted(req[h].cookie.id)')
  PROVE  AdmittedOnly'
<1>1. \A id : Admitted(id) => Admitted(id)'
  BY AdmittedStays DEF AdmittedInv
<1>2. ASSUME NEW v \in Visitors, jar'[v].status = "active"
      PROVE  Admitted(jar[v].id)'
  BY <1>1, <1>2 DEF AdmittedInv, AdmittedOnly, Admitted
<1>3. ASSUME NEW h \in Handlers, Claims(req'[h])
      PROVE  Admitted(req[h].cookie.id)'
  BY <1>1, <1>3 DEF AdmittedInv, AdmittedOnly, Claims, Admitted
<1>. QED
  BY <1>2, <1>3 DEF AdmittedOnly, Claims

(* A handler that goes on claims nothing new, or what it claims is so.     *)
LEMMA BecomeClaims ==
  ASSUME AdmittedInv, PlaceStep, NEW h \in Handlers, NEW next, NEW cookie, NEW exp,
         Become(h, next, cookie, exp), jar' = jar,
         cookie.status = "active" \/ next \in {"compare", "extend", "allow"}
           => Admitted(cookie.id)'
  PROVE  AdmittedOnly'
<1>1. req \in [Handlers -> Requests]
  BY DEF AdmittedInv, PlaceInv, TypeOK
<1>2. /\ req'[h].pc = next /\ req'[h].cookie = cookie
      /\ \A g \in Handlers : g # h => req'[g] = req[g]
  BY <1>1 DEF Become
<1>3. Claims(req'[h]) => Admitted(req[h].cookie.id)'
  BY <1>2 DEF Claims, Admitted
<1>. QED
  BY <1>2, <1>3, ClaimsKept

(* The same when its cookie stays what it was. *)
LEMMA GotoClaims ==
  ASSUME AdmittedInv, PlaceStep, NEW h \in Handlers, NEW next, Goto(h, next), jar' = jar,
         next \in {"compare", "extend", "allow"} => Claims(req[h])
  PROVE  AdmittedOnly'
<1>1. PICK cookie : cookie = req[h].cookie
  OBVIOUS
<1>2. Claims(req[h]) => Admitted(cookie.id)
  BY <1>1 DEF AdmittedInv, AdmittedOnly, Claims
<1>3. Claims(req[h]) => Admitted(cookie.id)'
  BY <1>2, AdmittedStays DEF AdmittedInv
<1>4. Become(h, next, cookie, 0)
  BY <1>1 DEF Goto
<1>5. cookie.status = "active" \/ next \in {"compare", "extend", "allow"}
        => Admitted(cookie.id)'
  BY <1>1, <1>3 DEF Claims
<1>. QED
  BY <1>4, <1>5, BecomeClaims

(* A response that is delivered, or lost. *)
LEMMA DeliverClaims ==
  ASSUME AdmittedInv, PlaceStep, NEW h \in Handlers, NEW cookie, Deliver(h, cookie),
         cookie.status = "active" => Admitted(cookie.id)'
  PROVE  AdmittedOnly'
<1>1. req \in [Handlers -> Requests] /\ jar \in [Visitors -> Cookies]
  BY DEF AdmittedInv, PlaceInv, TypeOK
<1>2. /\ ~Claims(req'[h])
      /\ \A g \in Handlers : g # h => req'[g] = req[g]
  BY <1>1 DEF Deliver, Claims, IdleRequest, NoCookie
<1>3. \A v \in Visitors : jar'[v] = jar[v] \/ jar'[v] = cookie
  BY <1>1 DEF Deliver
<1>4. \A v \in Visitors :
        jar'[v] = jar[v] \/ (jar'[v].status = "active" => Admitted(jar[v].id)')
  BY <1>3 DEF Admitted
<1>. QED
  BY <1>2, <1>4, ClaimsKept

(* An id that is active, or just made and admitted, is admitted. *)
LEMMA ActiveIsAdmitted ==
  ASSUME PlaceInv, NEW id \in DOMAIN room.active
  PROVE  Admitted(id)
BY DEF PlaceInv, OnePlacePerId, Admitted

(* Every step keeps active cookies with ids that were admitted. *)
LEMMA StepAdmitted == AdmittedInv /\ [Next]_vars => AdmittedOnly'
<1>. SUFFICES ASSUME AdmittedInv, [Next]_vars PROVE AdmittedOnly'
  OBVIOUS
<1>1. PlaceInv /\ TypeOK /\ PlaceStep /\ PlaceInv'
  BY EveryStepMoves, StepPlaceInv DEF AdmittedInv, PlaceInv
<1>. USE <1>1
<1>2. CASE UNCHANGED <<jar, req>>
  BY <1>2, ClaimsKept
<1>3. ASSUME NEW h \in Handlers, NEW v \in Visitors, Arrive(h, v)
      PROVE  AdmittedOnly'
  <2>1. req \in [Handlers -> Requests] /\ jar' = jar
    BY <1>3 DEF TypeOK, Arrive
  <2>2. /\ req'[h].pc \in {"count", "verify"} /\ req'[h].cookie = jar[v]
        /\ \A g \in Handlers : g # h => req'[g] = req[g]
    BY <1>3, <2>1 DEF Arrive
  <2>3. PICK cookie : cookie = jar[v]
    OBVIOUS
  <2>4. cookie.status = "active" => Admitted(cookie.id)
    BY <2>3 DEF AdmittedInv, AdmittedOnly
  <2>5. cookie.status = "active" => Admitted(cookie.id)'
    BY <2>4, AdmittedStays
  <2>6. Claims(req'[h]) => Admitted(req[h].cookie.id)'
    BY <2>2, <2>3, <2>5 DEF Claims, Admitted
  <2>. QED
    BY <2>1, <2>2, <2>6, ClaimsKept
<1>4. ASSUME NEW h \in Handlers, HandlerStep(h)
      PROVE  AdmittedOnly'
  <2>1. CASE RejectCookie(h)
    <3>1. Become(h, "count", NoCookie, 0) /\ jar' = jar /\ NoCookie.status # "active"
      BY <2>1 DEF RejectCookie, NoCookie
    <3>. QED
      BY <3>1, BecomeClaims
  <2>2. CASE ReadExpiry(h)
    <3>1. jar' = jar
      BY <2>2 DEF ReadExpiry
    <3>2. CASE req[h].cookie.id \in DOMAIN room.active
      <4>1. PICK cookie : cookie = req[h].cookie
        OBVIOUS
      <4>2. Admitted(cookie.id)
        BY <3>2, <4>1, ActiveIsAdmitted
      <4>3. Admitted(cookie.id)'
        BY <4>2, AdmittedStays
      <4>4. Become(h, "compare", cookie, room.active[cookie.id])
        BY <2>2, <3>2, <4>1 DEF ReadExpiry
      <4>. QED
        BY <3>1, <4>3, <4>4, BecomeClaims
    <3>3. CASE req[h].cookie.id \notin DOMAIN room.active
      <4>1. Goto(h, NotActive(h)) /\ NotActive(h) \notin {"compare", "extend", "allow"}
        BY <2>2, <3>3 DEF ReadExpiry, NotActive
      <4>. QED
        BY <3>1, <4>1, GotoClaims
    <3>. QED
      BY <3>2, <3>3
  <2>3. CASE Compare(h) \/ Extend(h) \/ LookUpPosition(h) \/ CountActive(h) \/ RenderPage(h)
    <3>1. PICK next : Goto(h, next)
                        /\ (next \in {"compare", "extend", "allow"} => Claims(req[h]))
      BY <2>3 DEF Compare, Extend, LookUpPosition, CountActive, RenderPage, Claims
    <3>2. jar' = jar
      BY <2>3 DEF Compare, Extend, LookUpPosition, CountActive, RenderPage
    <3>. QED
      BY <3>1, <3>2, GotoClaims
  <2>4. CASE AdmitDirect(h)
    <3>1. PICK exp : Become(h, "allow", Cookie(issued', "active", exp), 0)
      BY <2>4 DEF AdmitDirect
    <3>2. PICK cookie : cookie = Cookie(issued', "active", exp)
      OBVIOUS
    <3>3. issued' \in DOMAIN room'.active
      BY <2>4, AdmittingStep DEF PlaceAdmitted
    <3>4. Admitted(issued)'
      BY <3>3 DEF PlaceInv, OnePlacePerId, Admitted
    <3>5. Admitted(cookie.id)' /\ jar' = jar
      BY <2>4, <3>2, <3>4 DEF Cookie, Admitted, AdmitDirect
    <3>. QED
      BY <3>1, <3>2, <3>5, BecomeClaims
  <2>5. CASE Enqueue(h)
    <3>1. PICK exp : Become(h, "queue", Cookie(issued', "queued", exp), 0)
      BY <2>5 DEF Enqueue
    <3>2. PICK cookie : cookie = Cookie(issued', "queued", exp)
      OBVIOUS
    <3>3. cookie.status # "active" /\ jar' = jar
      BY <2>5, <3>2 DEF Cookie, Enqueue
    <3>. QED
      BY <3>1, <3>2, <3>3, BecomeClaims
  <2>6. CASE Allow(h)
    <3>1. PICK exp : Deliver(h, Cookie(req[h].cookie.id, "active", exp))
      BY <2>6 DEF Allow
    <3>2. PICK cookie : cookie = Cookie(req[h].cookie.id, "active", exp)
      OBVIOUS
    <3>3. Admitted(cookie.id)
      BY <2>6, <3>2 DEF Allow, AdmittedInv, AdmittedOnly, Cookie
    <3>4. Admitted(cookie.id)'
      BY <3>3, AdmittedStays
    <3>. QED
      BY <3>1, <3>2, <3>4, DeliverClaims
  <2>7. CASE Queue(h)
    <3>1. PICK cookie : cookie = req[h].cookie
      OBVIOUS
    <3>2. cookie.status = "active" => Admitted(cookie.id)
      BY <3>1 DEF AdmittedInv, AdmittedOnly
    <3>3. cookie.status = "active" => Admitted(cookie.id)'
      BY <3>2, AdmittedStays
    <3>4. Deliver(h, cookie)
      BY <2>7, <3>1 DEF Queue
    <3>. QED
      BY <3>3, <3>4, DeliverClaims
  <2>8. CASE LoseResponse(h)
    <3>1. req \in [Handlers -> Requests] /\ jar' = jar
      BY <2>8 DEF LoseResponse, TypeOK
    <3>2. /\ ~Claims(req'[h])
          /\ \A g \in Handlers : g # h => req'[g] = req[g]
      BY <2>8, <3>1 DEF LoseResponse, Claims, IdleRequest, NoCookie
    <3>. QED
      BY <3>1, <3>2, ClaimsKept
  <2>. QED
    BY <1>4, <2>1, <2>2, <2>3, <2>4, <2>5, <2>6, <2>7, <2>8 DEF HandlerStep
<1>5. CASE UNCHANGED vars \/ Advance \/ ObserveCount \/ WorkerStep
  BY <1>2, <1>5 DEF vars, handlerVars, Advance, ObserveCount, WorkerStep, TakeTick, CleanUp,
                    CountSlots, PopForAdmission, StampBatch, Promote
<1>. QED
  BY <1>3, <1>4, <1>5 DEF Next

(* Only the admitted pass: whoever holds, or is about to be sent, a cookie *)
(* that says active has been admitted, by a free slot or by the worker,    *)
(* whatever the clocks, expiries and interleavings were                    *)
(* (service.go:111-168, middleware.go:85-110).                             *)
THEOREM OnlyAdmitted == Spec => []AdmittedOnly
<1>1. Init => AdmittedInv
  BY InitPlaceInv DEF AdmittedInv, Init, AdmittedOnly, NoCookie, IdleRequest
<1>2. AdmittedInv /\ [Next]_vars => AdmittedInv'
  BY StepPlaceInv, StepAdmitted DEF AdmittedInv
<1>3. AdmittedInv => AdmittedOnly
  BY DEF AdmittedInv
<1>. QED
  BY <1>1, <1>2, <1>3, PTL DEF Spec

-----------------------------------------------------------------------------
(* A session is only ever ended once its expiry has come, whoever evicts   *)
(* it and however old the clock reading it acts on                         *)
(* (mem_store.go:60-76, mem_store.go:122-135).                             *)
THEOREM TimeIsRun == Spec => SessionsRunTheirTime
<1>. DEFINE OnTime == \A id \in DOMAIN room.active :
                        id \notin DOMAIN room'.active => room.active[id] <= clock
<1>1. PlaceInv /\ [Next]_vars => [OnTime]_vars
  <2>. SUFFICES ASSUME PlaceInv, [Next]_vars PROVE OnTime
    OBVIOUS
  <2>1. PlaceStep
    BY EveryStepMoves
  <2>. QED
    BY <2>1 DEF PlaceStep, PlacesKept, PlaceAdmitted, PlaceQueued, PlacesPopped, PlacePromoted
<1>. QED
  BY <1>1, Inductive, PTL DEF Spec, SessionsRunTheirTime

-----------------------------------------------------------------------------
(* How far total_active_users can be overshot, for every number of         *)
(* handlers, limit and rate.  As with places, the steps fall into a few    *)
(* kinds (LoadStep), and the arithmetic is done once for all of them.      *)

(* Sessions, admissions decided by handlers, and what the worker has       *)
(* granted or holds.                                                       *)
Sessions == Cardinality(DOMAIN room.active)
Decided == Cardinality(Admitting)
InHand == toAdmit + Len(promoting)

(* The worker alone never takes on more than the limit, and under          *)
(* queue_all no handler decides to admit.                                  *)
CapacityInv ==
  /\ PlaceInv
  /\ InHand <= TotalActiveUsers
  /\ BoundedOvershoot
  /\ QueueAllRespectsCapacity
  /\ QueueAll => Admitting = {}

(* The ways a step may move the load. *)
LoadLightens ==
  /\ Sessions' <= Sessions
  /\ Admitting' = Admitting
  /\ InHand' <= InHand

HandlerDecides ==
  /\ ~QueueAll
  /\ Sessions' <= TotalActiveUsers - 1
  /\ InHand' = InHand

HandlerAdmits ==
  /\ Sessions' <= Sessions + 1
  /\ Decided' = Decided - 1
  /\ Admitting # {}
  /\ InHand' = InHand

WorkerGrants ==
  /\ Sessions' + InHand' <= TotalActiveUsers
  /\ Admitting' = Admitting

WorkerPromotes ==
  /\ Sessions' <= Sessions + 1
  /\ InHand' = InHand - 1
  /\ Admitting' = Admitting

LoadStep ==
  LoadLightens \/ HandlerDecides \/ HandlerAdmits \/ WorkerGrants \/ WorkerPromotes

(* The load is made of numbers, and at most every handler is admitting. *)
LoadOK ==
  /\ IsFiniteSet(DOMAIN room.active) /\ Sessions \in Nat
  /\ IsFiniteSet(Admitting) /\ Decided \in Nat /\ Decided <= Cardinality(Handlers)
  /\ toAdmit \in Nat /\ Len(promoting) \in Nat /\ InHand \in Nat

(* In every state with places, the terms of the load are finite numbers. *)
LEMMA LoadNumbers == PlaceInv => LoadOK
<1>. SUFFICES ASSUME PlaceInv PROVE LoadOK
  OBVIOUS
<1>1. IsFiniteSet(DOMAIN room.active)
  BY CountFacts
<1>2. Admitting \subseteq Handlers /\ IsFiniteSet(Handlers)
  BY RoomAssumption DEF Admitting
<1>3. IsFiniteSet(Admitting) /\ Decided <= Cardinality(Handlers)
  BY <1>2, FS_Subset DEF Decided
<1>4. Sessions \in Nat /\ Decided \in Nat
  BY <1>1, <1>3, FS_CardinalityType DEF Sessions, Decided
<1>5. toAdmit \in Nat /\ Len(promoting) \in Nat
  BY DEF PlaceInv, TypeOK, Worker!WorkerTypeOK
<1>. QED
  BY <1>1, <1>3, <1>4, <1>5 DEF InHand, LoadOK

(* The same of the state after a step. *)
LEMMA LoadNumbersNext == PlaceInv' => LoadOK'
BY LoadNumbers, PTL

(* What the steps add up to, whatever their order. *)
LEMMA CapacityArithmetic ==
  ASSUME CapacityInv, PlaceInv', LoadStep
  PROVE  CapacityInv'
<1>1. LoadOK /\ LoadOK'
  BY LoadNumbers, LoadNumbersNext DEF CapacityInv
<1>2. Cardinality(Handlers) \in Nat /\ TotalActiveUsers \in Nat \ {0}
  BY RoomAssumption, FS_CardinalityType
<1>3. /\ Sessions + Decided + InHand <= 2 * TotalActiveUsers + Cardinality(Handlers) - 1
      /\ InHand <= TotalActiveUsers
  BY <1>1, <1>2 DEF CapacityInv, BoundedOvershoot, Sessions, Decided, InHand, LoadOK
<1>4. QueueAll => Sessions + InHand <= TotalActiveUsers /\ Admitting = {}
  <2>. SUFFICES ASSUME QueueAll PROVE Sessions + InHand <= TotalActiveUsers /\ Admitting = {}
    OBVIOUS
  <2>1. Cardinality(DOMAIN room.active) + toAdmit + Len(promoting) <= TotalActiveUsers
    BY DEF CapacityInv, QueueAllRespectsCapacity
  <2>2. Admitting = {}
    BY DEF CapacityInv
  <2>. QED
    BY <1>1, <1>2, <2>1, <2>2 DEF Sessions, InHand, LoadOK
<1>5. Admitting' = Admitting => Decided' = Decided
  BY DEF Decided
<1>6. /\ Sessions' + Decided' + InHand' <= 2 * TotalActiveUsers + Cardinality(Handlers) - 1
      /\ InHand' <= TotalActiveUsers
  <2>1. PICK a \in Nat, b \in Nat, c \in Nat, n \in Nat :
          a = Sessions /\ b = Decided /\ c = InHand /\ n = Cardinality(Handlers)
    BY <1>1, <1>2 DEF LoadOK
  <2>2. PICK s \in Nat, d \in Nat, w \in Nat :
          s = Sessions' /\ d = Decided' /\ w = InHand' /\ d <= n
    BY <1>1, <2>1 DEF LoadOK
  <2>3. PICK t \in Nat : t = TotalActiveUsers /\ t > 0
    BY <1>2
  <2>4. \/ d = b /\ s <= a /\ w <= c
        \/ s <= t - 1 /\ w = c
        \/ s <= a + 1 /\ d = b - 1 /\ w = c
        \/ s + w <= t
        \/ d = b /\ s <= a + 1 /\ w = c - 1
    BY <1>5, <2>1, <2>2, <2>3 DEF LoadStep, LoadLightens, HandlerDecides, HandlerAdmits,
                                  WorkerGrants, WorkerPromotes
  <2>5. a + b + c <= 2 * t + n - 1 /\ c <= t /\ d <= n /\ t > 0
    BY <1>3, <2>1, <2>2, <2>3
  <2>6. s + d + w <= 2 * t + n - 1 /\ w <= t
    BY <2>4, <2>5
  <2>. QED
    BY <2>1, <2>2, <2>3, <2>6
<1>7. QueueAll => Sessions' + InHand' <= TotalActiveUsers /\ Admitting' = {}
  <2>. SUFFICES ASSUME QueueAll
       PROVE  Sessions' + InHand' <= TotalActiveUsers /\ Admitting' = {}
    OBVIOUS
  <2>1. Sessions + InHand <= TotalActiveUsers /\ Admitting = {}
    BY <1>4
  <2>2. LoadLightens \/ WorkerGrants \/ WorkerPromotes
    BY <2>1 DEF LoadStep, HandlerDecides, HandlerAdmits
  <2>3. Admitting' = {}
    BY <2>1, <2>2 DEF LoadLightens, WorkerGrants, WorkerPromotes
  <2>4. PICK s \in Nat, w \in Nat : s = Sessions' /\ w = InHand'
    BY <1>1 DEF LoadOK
  <2>5. PICK a \in Nat, c \in Nat, t \in Nat :
          a = Sessions /\ c = InHand /\ t = TotalActiveUsers
    BY <1>1, <1>2 DEF LoadOK
  <2>6. (s <= a /\ w <= c) \/ s + w <= t \/ (s <= a + 1 /\ w = c - 1)
    BY <2>2, <2>4, <2>5 DEF LoadLightens, WorkerGrants, WorkerPromotes
  <2>7. a + c <= t
    BY <2>1, <2>5
  <2>8. s + w <= t
    BY <2>6, <2>7
  <2>. QED
    BY <2>3, <2>4, <2>5, <2>8
<1>8. BoundedOvershoot' /\ InHand' <= TotalActiveUsers
  BY <1>1, <1>2, <1>6 DEF BoundedOvershoot, Sessions, Decided, InHand, LoadOK
<1>9. QueueAllRespectsCapacity'
  <2>. SUFFICES ASSUME QueueAll
       PROVE  Cardinality(DOMAIN room'.active) + toAdmit' + Len(promoting') <= TotalActiveUsers
    BY DEF QueueAllRespectsCapacity
  <2>1. Sessions' + InHand' <= TotalActiveUsers
    BY <1>7
  <2>. QED
    BY <1>1, <1>2, <2>1 DEF Sessions, InHand, LoadOK
<1>. QED
  BY <1>7, <1>8, <1>9 DEF CapacityInv

(* How many sessions there can be after a step. *)
LEMMA SessionCounts ==
  ASSUME PlaceInv, PlaceStep
  PROVE  /\ issued' = issued /\ promoting' = promoting => Sessions' <= Sessions
         /\ PlaceQueued \/ PlacesPopped => Sessions' = Sessions
         /\ Sessions' <= Sessions + 1
<1>1. /\ IsFiniteSet(DOMAIN room.active) /\ Sessions \in Nat /\ issued \in Nat
      /\ promoting \in Seq(Item)
  BY LoadNumbers DEF LoadOK, PlaceInv, TypeOK, Item
<1>. DEFINE D == DOMAIN room.active
            E == DOMAIN room'.active
<1>2. IsFiniteSet(D) /\ Sessions = Cardinality(D) /\ Sessions' = Cardinality(E)
  BY <1>1 DEF Sessions
<1>3. PlaceQueued \/ PlacesPopped => E = D
  BY DEF PlaceQueued, PlacesPopped
<1>4. issued' = issued /\ promoting' = promoting => E \subseteq D
  <2>1. promoting # <<>> => Tail(promoting) # promoting
    <3>. SUFFICES ASSUME promoting # <<>> PROVE Len(Tail(promoting)) # Len(promoting)
      OBVIOUS
    <3>. QED
      BY <1>1
  <2>. QED
    BY <1>1, <2>1 DEF PlaceStep, PlacesKept, PlaceAdmitted, PlaceQueued, PlacesPopped,
                      PlacePromoted
<1>5. E \subseteq D \/ \E id : E = D \cup {id}
  BY DEF PlaceStep, PlacesKept, PlaceAdmitted, PlaceQueued, PlacesPopped, PlacePromoted
<1>. HIDE DEF D, E
<1>6. E \subseteq D => Cardinality(E) <= Cardinality(D)
  BY <1>2, FS_Subset
<1>7. ASSUME NEW id, E = D \cup {id} PROVE Cardinality(E) <= Cardinality(D) + 1
  <2>1. Cardinality(D) \in Nat
    BY <1>2, FS_CardinalityType
  <2>2. \/ Cardinality(D \cup {id}) = Cardinality(D)
        \/ Cardinality(D \cup {id}) = Cardinality(D) + 1
    BY <1>2, FS_AddElement
  <2>. QED
    BY <1>7, <2>1, <2>2
<1>8. Cardinality(E) \in Nat /\ Cardinality(D) \in Nat
  <2>1. CASE E \subseteq D
    BY <1>2, <2>1, FS_Subset, FS_CardinalityType
  <2>2. CASE \E id : E = D \cup {id}
    BY <1>2, <2>2, FS_AddElement, FS_CardinalityType
  <2>. QED
    BY <1>5, <2>1, <2>2
<1>9. Cardinality(E) <= Cardinality(D) + 1
  BY <1>5, <1>6, <1>7, <1>8
<1>10. issued' = issued /\ promoting' = promoting => Sessions' <= Sessions
  BY <1>2, <1>4, <1>6
<1>11. PlaceQueued \/ PlacesPopped => Sessions' = Sessions
  BY <1>2, <1>3
<1>. QED
  BY <1>2, <1>9, <1>10, <1>11

(* A handler that neither leaves nor reaches its decision to admit. *)
LEMMA AdmittingSame ==
  ASSUME NEW h \in Handlers, req[h].pc # "admit", req'[h].pc # "admit",
         \A g \in Handlers : g # h => req'[g] = req[g]
  PROVE  Admitting' = Admitting
BY DEF Admitting

(* A handler that goes on changes its own point of control and no other. *)
LEMMA BecomePc ==
  ASSUME TypeOK, NEW h \in Handlers, NEW next, NEW cookie, NEW exp,
         Become(h, next, cookie, exp)
  PROVE  /\ req'[h].pc = next
         /\ \A g \in Handlers : g # h => req'[g] = req[g]
BY DEF TypeOK, Become

(* The same when its cookie stays what it was. *)
LEMMA GotoPc ==
  ASSUME TypeOK, NEW h \in Handlers, NEW next, Goto(h, next)
  PROVE  /\ req'[h].pc = next
         /\ \A g \in Handlers : g # h => req'[g] = req[g]
BY BecomePc DEF Goto

(* A handler decides to admit only on a count below the limit. *)
LEMMA DecidingStep ==
  ASSUME PlaceInv, PlaceStep, NEW h \in Handlers, CountActive(h)
  PROVE  LoadLightens \/ HandlerDecides
<1>1. PICK now \in req[h].since..clock :
        /\ room' = Evicted(room, now)
        /\ Goto(h, IF ShouldQueue(ActiveCount(room, now)) THEN "enqueue" ELSE "admit")
  BY DEF CountActive
<1>2. /\ issued' = issued /\ promoting' = promoting /\ toAdmit' = toAdmit
      /\ req[h].pc = "count" /\ TypeOK
  BY DEF CountActive, workerVars, PlaceInv
<1>3. InHand' = InHand /\ InHand' <= InHand
  BY <1>2, LoadNumbers DEF InHand, LoadOK
<1>4. CASE ShouldQueue(ActiveCount(room, now))
  <2>1. Admitting' = Admitting
    BY <1>1, <1>2, <1>4, GotoPc, AdmittingSame
  <2>. QED
    BY <1>2, <1>3, <2>1, SessionCounts DEF LoadLightens
<1>5. CASE ~ShouldQueue(ActiveCount(room, now))
  <2>1. ~QueueAll /\ ~(ActiveCount(room, now) >= TotalActiveUsers)
    BY <1>5 DEF ShouldQueue
  <2>2. ActiveCount(room, now) \in Nat /\ ActiveCount(room, now) = Sessions'
    BY <1>1, CountFacts DEF Sessions
  <2>3. Sessions' <= TotalActiveUsers - 1
    BY <2>1, <2>2, RoomAssumption
  <2>. QED
    BY <1>3, <2>1, <2>3 DEF HandlerDecides
<1>. QED
  BY <1>4, <1>5

(* The admission itself trades a decision for a session. *)
LEMMA AdmissionStep ==
  ASSUME PlaceInv, PlaceStep, NEW h \in Handlers, AdmitDirect(h)
  PROVE  HandlerAdmits
<1>1. /\ promoting' = promoting /\ toAdmit' = toAdmit /\ req[h].pc = "admit"
      /\ \E cookie, exp : Become(h, "allow", cookie, exp)
  BY DEF AdmitDirect, workerVars
<1>2. /\ req'[h].pc = "allow"
      /\ \A g \in Handlers : g # h => req'[g] = req[g]
  BY <1>1, BecomePc DEF PlaceInv
<1>3. h \in Admitting /\ Admitting' = Admitting \ {h}
  BY <1>1, <1>2 DEF Admitting
<1>4. IsFiniteSet(Admitting)
  BY LoadNumbers DEF LoadOK
<1>5. Cardinality(Admitting \ {h}) = Cardinality(Admitting) - 1
  BY <1>3, <1>4, FS_RemoveElement
<1>. QED
  BY <1>1, <1>3, <1>5, SessionCounts DEF HandlerAdmits, Decided, InHand

(* Steps of handlers that neither decide to admit nor admit. *)
LEMMA OtherHandlerStep ==
  ASSUME PlaceInv, PlaceStep, NEW h \in Handlers, HandlerStep(h),
         ~CountActive(h), ~AdmitDirect(h)
  PROVE  LoadLightens
<1>1. TypeOK /\ req \in [Handlers -> Requests]
  BY DEF PlaceInv, TypeOK
<1>2. promoting' = promoting /\ toAdmit' = toAdmit
  BY DEF HandlerStep, RejectCookie, ReadExpiry, Compare, Extend, LookUpPosition, Enqueue,
         RenderPage, Allow, Queue, Deliver, LoseResponse, workerVars
<1>3. InHand' <= InHand
  BY <1>2, LoadNumbers DEF InHand, LoadOK
<1>4. Sessions' <= Sessions
  <2>1. CASE Enqueue(h)
    <3>1. PlaceQueued
      BY <2>1, EnqueuingStep
    <3>. QED
      BY <3>1, SessionCounts, LoadNumbers DEF LoadOK
  <2>2. CASE ~Enqueue(h)
    <3>1. issued' = issued
      BY <2>2 DEF HandlerStep, RejectCookie, ReadExpiry, Compare, Extend, LookUpPosition,
                  RenderPage, Allow, Queue, Deliver, LoseResponse
    <3>. QED
      BY <1>2, <3>1, SessionCounts
  <2>. QED
    BY <2>1, <2>2
<1>5. req[h].pc # "admit"
  BY DEF HandlerStep, RejectCookie, ReadExpiry, Compare, Extend, LookUpPosition, Enqueue,
         RenderPage, Allow, Queue, LoseResponse
<1>6. CASE Allow(h) \/ Queue(h) \/ LoseResponse(h)
  <2>1. req' = [req EXCEPT ![h] = IdleRequest]
    BY <1>6 DEF Allow, Queue, Deliver, LoseResponse
  <2>2. req'[h].pc # "admit" /\ \A g \in Handlers : g # h => req'[g] = req[g]
    BY <1>1, <2>1 DEF IdleRequest
  <2>. QED
    BY <1>3, <1>4, <1>5, <2>2, AdmittingSame DEF LoadLightens
<1>7. CASE ~(Allow(h) \/ Queue(h) \/ LoseResponse(h))
  <2>1. \E next, cookie, exp : next # "admit" /\ Become(h, next, cookie, exp)
    BY <1>7 DEF HandlerStep, RejectCookie, ReadExpiry, Compare, Extend, LookUpPosition,
                Enqueue, RenderPage, Goto, NotActive, IsActive
  <2>. QED
    BY <1>1, <1>3, <1>4, <1>5, <2>1, BecomePc, AdmittingSame DEF LoadLightens
<1>. QED
  BY <1>6, <1>7

(* The worker grants what is free, pops no more than it granted, and trades *)
(* what it popped for sessions one by one.                                 *)
LEMMA WorkerLoad ==
  ASSUME PlaceInv, PlaceStep, WorkerStep
  PROVE  LoadLightens \/ WorkerGrants \/ WorkerPromotes
<1>1. LoadOK /\ WorkerPhase
  BY LoadNumbers DEF PlaceInv
<1>2. Admitting' = Admitting /\ issued' = issued
  BY DEF WorkerStep, TakeTick, CleanUp, CountSlots, PopForAdmission, StampBatch, Promote,
         handlerVars, Admitting
<1>3. CASE TakeTick \/ CleanUp \/ StampBatch
  <2>1. promoting' = promoting /\ toAdmit' = toAdmit
    BY <1>3 DEF TakeTick, CleanUp, StampBatch, Worker!TakeTick, Worker!Cleanup, Worker!Stamp
  <2>2. InHand' <= InHand
    BY <1>1, <2>1 DEF InHand, LoadOK
  <2>. QED
    BY <1>2, <2>1, <2>2, SessionCounts DEF LoadLightens
<1>4. CASE CountSlots
  <2>1. PICK now \in since..clock :
          LET active == ActiveCount(room, now)
          IN  /\ room' = Evicted(room, now)
              /\ \/ Worker!CountFull(active)
                 \/ Worker!CountSaves(active)
                 \/ Worker!CountGrants(active)
    BY <1>4 DEF CountSlots
  <2>2. promoting' = promoting /\ Sessions' <= Sessions
    BY <1>2, <1>4, SessionCounts DEF CountSlots
  <2>3. CASE toAdmit' = toAdmit
    <3>1. InHand' <= InHand
      BY <1>1, <2>2, <2>3 DEF InHand, LoadOK
    <3>. QED
      BY <1>2, <2>2, <3>1 DEF LoadLightens
  <2>4. CASE toAdmit' # toAdmit
    <3>1. Worker!CountGrants(ActiveCount(room, now))
      BY <2>1, <2>4 DEF Worker!CountFull, Worker!CountFails, Worker!CountSaves
    <3>2. promoting = <<>>
      BY <1>1, <3>1 DEF WorkerPhase, Worker!CountGrants
    <3>3. ActiveCount(room, now) \in Nat /\ Sessions' = ActiveCount(room, now)
      BY <2>1, CountFacts DEF Sessions
    <3>4. PICK g : toAdmit' = Worker!Capped(g, Worker!Available(ActiveCount(room, now)))
                   /\ g = Worker!Granted
      BY <3>1 DEF Worker!CountGrants
    <3>5. g \in Int
      BY <1>1, <3>4, RoomAssumption, DivisionBounds
         DEF Worker!Granted, Worker!Refilled, PlaceInv, TypeOK, Worker!WorkerTypeOK
    <3>6. toAdmit' \in Int /\ toAdmit' <= TotalActiveUsers - ActiveCount(room, now)
      BY <3>3, <3>4, <3>5, RoomAssumption DEF Worker!Capped, Worker!Available
    <3>7. InHand' = toAdmit'
      <4>1. promoting' = <<>>
        BY <2>2, <3>2
      <4>2. Len(promoting') = 0
        BY <4>1
      <4>3. InHand' = toAdmit' + Len(promoting')
        BY DEF InHand
      <4>4. PICK a \in Int : a = toAdmit'
        BY <3>6
      <4>5. InHand' = a + 0
        BY <4>2, <4>3, <4>4, Zenon
      <4>6. a + 0 = a
        OBVIOUS
      <4>. QED
        BY <4>4, <4>5, <4>6, Zenon
    <3>. QED
      BY <1>2, <3>3, <3>6, <3>7, RoomAssumption DEF WorkerGrants
  <2>. QED
    BY <2>3, <2>4
<1>5. CASE PopForAdmission
  <2>1. PlacesPopped /\ Len(promoting') \in Nat /\ Len(promoting') <= toAdmit
    BY <1>5, PoppingStep
  <2>2. toAdmit' = 0
    BY <1>5 DEF PopForAdmission, Worker!Pop
  <2>3. InHand' <= InHand
    BY <1>1, <2>1, <2>2 DEF InHand, LoadOK
  <2>. QED
    BY <1>1, <1>2, <2>1, <2>3, SessionCounts DEF LoadLightens, LoadOK
<1>6. CASE Promote
  <2>1. Len(promoting') = Len(promoting) - 1
    BY <1>6, PromotingStep
  <2>2. toAdmit' = toAdmit
    BY <1>6 DEF Promote, Worker!Promote
  <2>3. InHand' = InHand - 1
    BY <1>1, <2>1, <2>2 DEF InHand, LoadOK
  <2>. QED
    BY <1>2, <2>3, SessionCounts DEF WorkerPromotes
<1>. QED
  BY <1>3, <1>4, <1>5, <1>6 DEF WorkerStep

(* Every step of the waiting room moves the load in one of the five ways. *)
LEMMA EveryStepLoads ==
  ASSUME PlaceInv, PlaceStep, [Next]_vars
  PROVE  LoadStep
<1>1. CASE UNCHANGED vars \/ Advance \/ ObserveCount
  <2>1. /\ promoting' = promoting /\ toAdmit' = toAdmit /\ issued' = issued
        /\ Admitting' = Admitting
    BY <1>1 DEF vars, Advance, ObserveCount, workerVars, handlerVars, Admitting
  <2>2. InHand' <= InHand
    BY <2>1, LoadNumbers DEF InHand, LoadOK
  <2>. QED
    BY <2>1, <2>2, SessionCounts DEF LoadStep, LoadLightens
<1>2. ASSUME NEW h \in Handlers, NEW v \in Visitors, Arrive(h, v)
      PROVE  LoadStep
  <2>1. promoting' = promoting /\ toAdmit' = toAdmit /\ issued' = issued
    BY <1>2 DEF Arrive, workerVars
  <2>2. /\ req[h].pc # "admit" /\ req'[h].pc # "admit"
        /\ \A g \in Handlers : g # h => req'[g] = req[g]
    BY <1>2 DEF Arrive, PlaceInv, TypeOK
  <2>3. InHand' <= InHand
    BY <2>1, LoadNumbers DEF InHand, LoadOK
  <2>. QED
    BY <2>1, <2>2, <2>3, AdmittingSame, SessionCounts DEF LoadStep, LoadLightens
<1>3. ASSUME NEW h \in Handlers, HandlerStep(h)
      PROVE  LoadStep
  BY <1>3, DecidingStep, AdmissionStep, OtherHandlerStep DEF LoadStep
<1>. QED
  BY <1>1, <1>2, <1>3, WorkerLoad DEF Next, LoadStep

(* The capacity invariant holds in every reachable state. *)
LEMMA CapacityInductive == Spec => []CapacityInv
<1>1. Init => CapacityInv
  <2>. SUFFICES ASSUME Init PROVE CapacityInv
    OBVIOUS
  <2>1. PlaceInv
    BY InitPlaceInv
  <2>2. DOMAIN room.active = {} /\ Admitting = {} /\ toAdmit = 0 /\ promoting = <<>>
    BY DEF Init, EmptyRoom, Admitting, IdleRequest, Worker!WorkerInit
  <2>3. Cardinality(DOMAIN room.active) = 0 /\ Cardinality(Admitting) = 0
        /\ Len(promoting) = 0
    BY <2>2, FS_EmptySet
  <2>4. Cardinality(Handlers) \in Nat
    BY RoomAssumption, FS_CardinalityType
  <2>. QED
    BY <2>1, <2>2, <2>3, <2>4, RoomAssumption
       DEF CapacityInv, InHand, BoundedOvershoot, QueueAllRespectsCapacity
<1>2. CapacityInv /\ [Next]_vars => CapacityInv'
  <2>. SUFFICES ASSUME CapacityInv, [Next]_vars PROVE CapacityInv'
    OBVIOUS
  <2>1. PlaceInv /\ PlaceInv' /\ PlaceStep
    BY StepPlaceInv, EveryStepMoves DEF CapacityInv
  <2>2. LoadStep
    BY <2>1, EveryStepLoads
  <2>. QED
    BY <2>1, <2>2, CapacityArithmetic
<1>. QED
  BY <1>1, <1>2, PTL DEF Spec

(* However many handlers and the worker act on counts that are no longer   *)
(* true, what they admit together stays below twice the limit plus the     *)
(* number of handlers (service.go:172-180, worker.go:74-111).              *)
THEOREM OvershootBounded == Spec => []BoundedOvershoot
<1>1. CapacityInv => BoundedOvershoot
  BY DEF CapacityInv
<1>. QED
  BY <1>1, CapacityInductive, PTL

(* With queue_all the worker is the only one to admit, and the limit holds *)
(* exactly (worker.go:79-96, service.go:177).                              *)
THEOREM QueueAllCapacity == Spec => []QueueAllRespectsCapacity
<1>1. CapacityInv => QueueAllRespectsCapacity
  BY DEF CapacityInv
<1>. QED
  BY <1>1, CapacityInductive, PTL

-----------------------------------------------------------------------------
(* The waiting room implements the life cycle of an id: every step moves   *)
(* ids along SessionLifecycle, or moves none.                              *)

(* A step whose stages change for ids alone, and from one to another, is a *)
(* move of the life cycle.                                                 *)
LEMMA StagesMove ==
  ASSUME NEW ids \in SUBSET (1..MaxIds), NEW from, NEW to,
         \A id \in ids : Stage(id) = from,
         \A id \in 1..MaxIds : Stage(id)' = IF id \in ids THEN to ELSE Stage(id)
  PROVE  Lifecycle!Move(ids, from, to)
BY DEF Lifecycle!Move

(* A step that moves no stage is a stutter of the life cycle. *)
LEMMA StagesKept ==
  ASSUME \A id \in 1..MaxIds : Stage(id)' = Stage(id)
  PROVE  [id \in 1..MaxIds |-> Stage(id)]' = [id \in 1..MaxIds |-> Stage(id)]
OBVIOUS

(* Every kind of step moves one id by a legal move, several queued ids to  *)
(* the worker, or several sessions to their end.                           *)
LEMMA StepMoves ==
  ASSUME PlaceInv, PlaceInv', PlaceStep
  PROVE  [Lifecycle!Next]_([id \in 1..MaxIds |-> Stage(id)])
<1>1. /\ OnePlacePerId /\ OnePlacePerId' /\ issued \in Nat
      /\ promoting \in Seq([id : Ids, score : Scores])
  BY DEF PlaceInv, TypeOK
<1>2. CASE PlacesKept
  <2>. DEFINE gone == {id \in 1..MaxIds : id \in DOMAIN room.active \ DOMAIN room'.active}
  <2>1. \A id \in gone : Stage(id) = "active"
    BY <1>1, <1>2 DEF Stage, OnePlacePerId
  <2>2. \A id \in 1..MaxIds : Stage(id)' = IF id \in gone THEN "ended" ELSE Stage(id)
    BY <1>1, <1>2 DEF Stage, OnePlacePerId, PlacesKept
  <2>3. Lifecycle!Move(gone, "active", "ended")
    BY <2>1, <2>2, StagesMove
  <2>. QED
    BY <2>3 DEF Lifecycle!Next, Lifecycle!End
<1>3. CASE (PlaceAdmitted \/ PlaceQueued) /\ issued + 1 > MaxIds
  <2>1. \A id \in 1..MaxIds : Stage(id)' = Stage(id)
    BY <1>1, <1>3, RoomAssumption DEF Stage, OnePlacePerId, PlaceAdmitted, PlaceQueued
  <2>. QED
    BY <2>1, StagesKept
<1>4. CASE PlaceAdmitted /\ issued + 1 <= MaxIds
  <2>. DEFINE made == issued + 1
  <2>1. made \in 1..MaxIds /\ Stage(made) = "new"
    BY <1>1, <1>4, RoomAssumption DEF Stage, OnePlacePerId
  <2>2. \A id \in 1..MaxIds : Stage(id)' = IF id \in {made} THEN "active" ELSE Stage(id)
    BY <1>1, <1>4 DEF Stage, OnePlacePerId, PlaceAdmitted
  <2>. HIDE DEF made
  <2>3. Lifecycle!Move({made}, "new", "active")
    BY <2>1, <2>2, StagesMove
  <2>. QED
    BY <2>1, <2>3 DEF Lifecycle!Next, Lifecycle!Admit
<1>5. CASE PlaceQueued /\ issued + 1 <= MaxIds
  <2>. DEFINE made == issued + 1
  <2>1. made \in 1..MaxIds /\ Stage(made) = "new"
    BY <1>1, <1>5, RoomAssumption DEF Stage, OnePlacePerId
  <2>2. \A id \in 1..MaxIds : Stage(id)' = IF id \in {made} THEN "queued" ELSE Stage(id)
    BY <1>1, <1>5 DEF Stage, OnePlacePerId, PlaceQueued
  <2>. HIDE DEF made
  <2>3. Lifecycle!Move({made}, "new", "queued")
    BY <2>1, <2>2, StagesMove
  <2>. QED
    BY <2>1, <2>3 DEF Lifecycle!Next, Lifecycle!Enqueue
<1>6. CASE PlacesPopped
  <2>. DEFINE popped == IdsOf(promoting') \cap 1..MaxIds
  <2>1. \A id \in popped : Stage(id) = "queued"
    BY <1>1, <1>6 DEF Stage, OnePlacePerId, PlacesPopped
  <2>2. IdsOf(promoting) = {}
    BY <1>6 DEF PlacesPopped, IdsOf
  <2>3. \A id \in 1..MaxIds : Stage(id)' = IF id \in popped THEN "promoting" ELSE Stage(id)
    BY <1>1, <1>6, <2>2 DEF Stage, OnePlacePerId, PlacesPopped
  <2>4. Lifecycle!Move(popped, "queued", "promoting")
    BY <2>1, <2>3, StagesMove
  <2>. QED
    BY <2>4 DEF Lifecycle!Next, Lifecycle!Pop
<1>7. CASE PlacePromoted
  <2>. DEFINE first == Head(promoting).id
  <2>1. /\ first \in IdsOf(promoting)
        /\ IdsOf(promoting') = IdsOf(promoting) \ {first}
    BY <1>1, <1>7, TailFacts DEF PlacePromoted, OnePlacePerId
  <2>. HIDE DEF first
  <2>2. /\ room'.qSet = room.qSet /\ issued' = issued
        /\ DOMAIN room'.active = DOMAIN room.active \cup {first}
    BY <1>7 DEF PlacePromoted, first
  <2>3. Stage(first) = "promoting"
    BY <1>1, <2>1 DEF Stage, OnePlacePerId
  <2>4. \A id \in 1..MaxIds : Stage(id)' = IF id \in {first} THEN "active" ELSE Stage(id)
    BY <1>1, <2>1, <2>2 DEF Stage, OnePlacePerId
  <2>5. CASE first \in 1..MaxIds
    <3>1. Lifecycle!Move({first}, "promoting", "active")
      BY <2>3, <2>4, <2>5, StagesMove
    <3>. QED
      BY <2>5, <3>1 DEF Lifecycle!Next, Lifecycle!Promote
  <2>6. CASE first \notin 1..MaxIds
    BY <2>4, <2>6, StagesKept
  <2>. QED
    BY <2>5, <2>6
<1>8. issued + 1 <= MaxIds \/ issued + 1 > MaxIds
  BY <1>1, RoomAssumption
<1>. QED
  BY <1>2, <1>3, <1>4, <1>5, <1>6, <1>7, <1>8 DEF PlaceStep

(* The implementation: only a pop takes an id out of the queue, only the   *)
(* worker promotes what it popped, and an ended session never comes back.  *)
THEOREM ImplementsLifecycle == Spec => FollowsLifecycle
<1>1. Init => Lifecycle!Init
  <2>. SUFFICES ASSUME Init PROVE \A id \in 1..MaxIds : Stage(id) = "new"
    BY DEF Lifecycle!Init
  <2>. QED
    BY RoomAssumption DEF Init, Stage, EmptyRoom, IdsOf
<1>2. PlaceInv /\ PlaceInv' /\ [Next]_vars
        => [Lifecycle!Next]_([id \in 1..MaxIds |-> Stage(id)])
  BY EveryStepMoves, StepMoves
<1>. QED
  BY <1>1, <1>2, Inductive, PTL DEF Spec, FollowsLifecycle, Lifecycle!Spec
=============================================================================
