----------------------------- MODULE WaitingRoom -----------------------------
(***************************************************************************)
(* One waiting room on one instance: request handlers, the admission       *)
(* worker and the visitors' cookies, over the in-memory store.             *)
(*                                                                         *)
(* A handler is WaitingRoomHandler.ServeHTTP with Service.CheckRequest     *)
(* inside it; it runs one store call per step, and other handlers and the  *)
(* worker run between its steps.  The worker's own variables and guards    *)
(* are those of AdmissionWorker; here they meet a real store.              *)
(*                                                                         *)
(* time.Now() is read between store calls: a step that uses such a reading *)
(* takes any instant from its previous step (since) up to the clock.       *)
(* Fresh ids (uuid.NewString) are numbered in the order they are made.     *)
(***************************************************************************)
EXTENDS MemRoom

CONSTANTS
  Visitors,              \* browsers, one cookie each
  NoVisitor,             \* the visitor of an idle handler
  Handlers,              \* requests that may be in flight together
  TotalActiveUsers,      \* config: total_active_users
  NewUsersPerMinute,     \* config: new_users_per_minute
  SessionDuration,       \* config: session_duration_minutes, in instants
  QueueingMethod,        \* config: queueing_method
  QueueAll,              \* config: queue_all
  DisableSessionRenewal, \* config: disable_session_renewal
  QueueCookieTTL,        \* 30 minutes, in instants
  Second,                \* instants per second: cookies keep whole seconds
  TickInterval,          \* 5 seconds, in instants
  TicksPerMinute,        \* time.Minute / tickInterval
  MaxIds,                \* bound: ids made
  MaxTime                \* bound: last instant of the clock

(* config.Validate and the constants of the program. *)
ASSUME RoomAssumption ==
  /\ NoVisitor \notin Visitors
  /\ IsFiniteSet(Handlers)
  /\ TotalActiveUsers \in Nat \ {0}
  /\ NewUsersPerMinute \in Nat \ {0}
  /\ SessionDuration \in Nat \ {0}
  /\ QueueingMethod \in {"fifo", "random"}
  /\ QueueAll \in BOOLEAN
  /\ DisableSessionRenewal \in BOOLEAN
  /\ QueueCookieTTL \in Nat \ {0}
  /\ Second \in Nat \ {0}
  /\ TickInterval \in Nat \ {0}
  /\ TicksPerMinute \in Nat \ {0}
  /\ MaxIds \in Nat
  /\ MaxTime \in Nat

VARIABLES
  clock,     \* the wall clock
  room,      \* the room's memRoom
  issued,    \* ids made so far: 1..issued
  jar,       \* the cookie each visitor's browser holds
  req,       \* what each handler is doing
  tickDue,   \* a tick waits in ticker.C
  pc,        \* the worker: see AdmissionWorker
  bucket,
  toAdmit,
  promoting, \* popped items the worker has still to add to the active set
  stamp,     \* expiry computed for the batch being promoted
  since      \* instant of the worker's previous step, while it may read time

workerVars == <<tickDue, pc, bucket, toAdmit, promoting, stamp, since>>

handlerVars == <<issued, jar, req>>

vars == <<clock, room, issued, jar, req, tickDue, pc, bucket, toAdmit, promoting, stamp, since>>

Worker == INSTANCE AdmissionWorker WITH batch <- Len(promoting)

-----------------------------------------------------------------------------
(* Cookies.  Payload times are Unix seconds; Verify rejects a cookie whose *)
(* second has passed.                                                      *)
Seconds(t) == t \div Second

NoCookie == [id |-> 0, status |-> "none", expAt |-> 0]

Cookie(id, status, exp) == [id |-> id, status |-> status, expAt |-> Seconds(exp)]

Expired(cookie, now) == Seconds(now) > cookie.expAt

IdleRequest ==
  [pc |-> "idle", visitor |-> NoVisitor, cookie |-> NoCookie, exp |-> 0, since |-> 0]

Init ==
  /\ clock = 0
  /\ room = EmptyRoom
  /\ issued = 0
  /\ jar = [v \in Visitors |-> NoCookie]
  /\ req = [h \in Handlers |-> IdleRequest]
  /\ tickDue = FALSE
  /\ promoting = <<>>
  /\ Worker!WorkerInit
  /\ stamp = 0
  /\ since = 0

-----------------------------------------------------------------------------
(* Handlers. *)

Busy == {h \in Handlers : req[h].pc # "idle"}

(* The handler goes on, with this cookie and this expiry in its locals. *)
Become(h, next, cookie, exp) ==
  req' = [req EXCEPT ![h] = [pc |-> next, visitor |-> req[h].visitor, cookie |-> cookie,
                             exp |-> exp, since |-> clock]]

Goto(h, next) == Become(h, next, req[h].cookie, 0)

(* A request arrives with the cookie its browser holds.  Ids are reserved  *)
(* so that no handler is ever stopped by the bound.                        *)
Arrive(h, v) ==
  /\ req[h].pc = "idle"
  /\ issued + Cardinality(Busy) < MaxIds
  /\ req' = [req EXCEPT ![h] =
               [pc |-> IF jar[v] = NoCookie THEN "count" ELSE "verify",
                visitor |-> v, cookie |-> jar[v], exp |-> 0, since |-> clock]]
  /\ UNCHANGED <<clock, room, issued, jar, workerVars>>

(* Verify fails: the visitor is treated as new. *)
RejectCookie(h) ==
  /\ req[h].pc = "verify"
  /\ \E now \in req[h].since..clock : Expired(req[h].cookie, now)
  /\ Become(h, "count", NoCookie, 0)
  /\ UNCHANGED <<clock, room, issued, jar, workerVars>>

(* Where evaluateCookie goes once IsActive has answered no. *)
NotActive(h) == IF req[h].cookie.status = "queued" THEN "position" ELSE "count"

(* Verify succeeds, and IsActive reads the expiry under its lock. *)
ReadExpiry(h) ==
  /\ req[h].pc = "verify"
  /\ \E now \in req[h].since..clock : ~Expired(req[h].cookie, now)
  /\ IF req[h].cookie.id \in DOMAIN room.active
       THEN Become(h, "compare", req[h].cookie, room.active[req[h].cookie.id])
       ELSE Goto(h, NotActive(h))
  /\ UNCHANGED <<clock, room, issued, jar, workerVars>>

(* Where it goes once IsActive has answered yes: a promoted visitor and one *)
(* without renewal are allowed at once.                                    *)
IsActive(h) ==
  IF req[h].cookie.status = "active" /\ ~DisableSessionRenewal THEN "extend" ELSE "allow"

(* IsActive compares with the clock after it has unlocked. *)
Compare(h) ==
  /\ req[h].pc = "compare"
  /\ Goto(h, IF clock <= req[h].exp THEN IsActive(h) ELSE NotActive(h))
  /\ UNCHANGED <<clock, room, issued, jar, workerVars>>

(* A slip: a session added to what is left of the old one. *)
ExtendExpiry(h) ==
  /\ req[h].pc = "extend"
  /\ room' = ExtendActive(room, req[h].cookie.id,
                IF req[h].cookie.id \in DOMAIN room.active
                  THEN room.active[req[h].cookie.id] + SessionDuration
                  ELSE 0)
  /\ Goto(h, "allow")
  /\ UNCHANGED <<clock, issued, jar, workerVars>>

Extend(h) ==
  /\ req[h].pc = "extend"
  /\ \E now \in req[h].since..clock :
       room' = ExtendActive(room, req[h].cookie.id, now + SessionDuration)
  /\ Goto(h, "allow")
  /\ UNCHANGED <<clock, issued, jar, workerVars>>

(* Two slips: taking who is not queued for promoted, and asking again      *)
(* until the answer is clear.                                              *)
LookUpAllows(h) ==
  /\ req[h].pc = "position"
  /\ Goto(h, IF Found(room, req[h].cookie.id) THEN "queue" ELSE "allow")
  /\ UNCHANGED <<clock, room, issued, jar, workerVars>>

LookUpRetries(h) ==
  /\ req[h].pc = "position"
  /\ Goto(h, IF Found(room, req[h].cookie.id) THEN "queue" ELSE "verify")
  /\ UNCHANGED <<clock, room, issued, jar, workerVars>>

(* GetPosition *)
LookUpPosition(h) ==
  /\ req[h].pc = "position"
  /\ Goto(h, IF Found(room, req[h].cookie.id) THEN "queue" ELSE "count")
  /\ UNCHANGED <<clock, room, issued, jar, workerVars>>

(* A slip: one too many. *)
ShouldQueueAbove(count) == QueueAll \/ count > TotalActiveUsers

(* admitOrQueue: ActiveCount evicts and counts, and the answer decides. *)
ShouldQueue(count) == QueueAll \/ count >= TotalActiveUsers

CountActive(h) ==
  /\ req[h].pc = "count"
  /\ \E now \in req[h].since..clock :
       /\ room' = Evicted(room, now)
       /\ Goto(h, IF ShouldQueue(ActiveCount(room, now)) THEN "enqueue" ELSE "admit")
  /\ UNCHANGED <<clock, issued, jar, workerVars>>

AdmitDirect(h) ==
  /\ req[h].pc = "admit"
  /\ issued' = issued + 1
  /\ \E now \in req[h].since..clock :
       LET exp == now + SessionDuration
       IN  /\ room' = AddActive(room, issued', exp)
           /\ Become(h, "allow", Cookie(issued', "active", exp), 0)
  /\ UNCHANGED <<clock, jar, workerVars>>

Enqueue(h) ==
  /\ req[h].pc = "enqueue"
  /\ issued' = issued + 1
  /\ \E now \in req[h].since..clock :
       /\ room' = EnqueueNew(room, issued', now)
       /\ Become(h, "queue", Cookie(issued', "queued", now + QueueCookieTTL), 0)
  /\ UNCHANGED <<clock, jar, workerVars>>

(* The HTML waiting page shows ActiveCount, which evicts. *)
RenderPage(h) ==
  /\ req[h].pc = "queue"
  /\ \E now \in req[h].since..clock : room' = Evicted(room, now)
  /\ Goto(h, "rendered")
  /\ UNCHANGED <<clock, issued, jar, workerVars>>

(* The response reaches the browser, whatever its cookie is by then. *)
Deliver(h, cookie) ==
  /\ jar' = [jar EXCEPT ![req[h].visitor] = cookie]
  /\ req' = [req EXCEPT ![h] = IdleRequest]
  /\ UNCHANGED <<clock, room, issued, workerVars>>

(* handleAllow proxies to the origin and issues an active cookie that runs *)
(* for a whole session from now, renewal or not.                           *)
Allow(h) ==
  /\ req[h].pc = "allow"
  /\ \E now \in req[h].since..clock :
       Deliver(h, Cookie(req[h].cookie.id, "active", now + SessionDuration))

(* handleQueue: JSON at once, HTML after rendering; the payload is sent as  *)
(* it is, so a returning visitor's expiry is not moved.                    *)
Queue(h) ==
  /\ req[h].pc \in {"queue", "rendered"}
  /\ Deliver(h, req[h].cookie)

(* The client is gone, or its connection is: the handler has run all the   *)
(* same, and the browser keeps the cookie it had.                          *)
LoseResponse(h) ==
  /\ req[h].pc \in {"allow", "queue", "rendered"}
  /\ req' = [req EXCEPT ![h] = IdleRequest]
  /\ UNCHANGED <<clock, room, issued, jar, workerVars>>

(* GetStatus and Stats call ActiveCount, from the status and admin pages,  *)
(* with a reading of the clock from whenever they began.                   *)
ObserveCount ==
  /\ \E now \in 0..clock : room' = Evicted(room, now)
  /\ UNCHANGED <<clock, handlerVars, workerVars>>

-----------------------------------------------------------------------------
(* The admission worker. *)

(* Time passes; the ticker drops a tick if one is still waiting. *)
Advance ==
  /\ clock < MaxTime
  /\ clock' = clock + 1
  /\ tickDue' = (tickDue \/ clock' % TickInterval = 0)
  /\ UNCHANGED <<room, handlerVars, pc, bucket, toAdmit, promoting, stamp, since>>

TakeTick ==
  /\ tickDue
  /\ tickDue' = FALSE
  /\ since' = clock
  /\ UNCHANGED <<promoting, stamp>>
  /\ Worker!TakeTick
  /\ UNCHANGED <<clock, room, handlerVars>>

CleanUp ==
  /\ \E now \in since..clock : room' = CleanupExpiredActive(room, now)
  /\ since' = clock
  /\ UNCHANGED <<promoting, stamp>>
  /\ Worker!Cleanup
  /\ UNCHANGED <<clock, handlerVars, tickDue>>

CountSlots ==
  /\ UNCHANGED <<promoting, stamp>>
  /\ \E now \in since..clock :
       LET active == ActiveCount(room, now)
       IN  /\ room' = Evicted(room, now)
           /\ \/ Worker!CountFull(active)
              \/ Worker!CountSaves(active)
              \/ Worker!CountGrants(active)
  /\ since' = 0
  /\ UNCHANGED <<clock, handlerVars, tickDue>>

PopForAdmission ==
  /\ pc = "pop"
  /\ \E take \in Takes(room.queue, PopSize(room, toAdmit), QueueingMethod) :
       \E keep \in Keeps(room.queue, take) :
         /\ promoting' = Picked(room.queue, take)
         /\ room' = Popped(room, take, keep)
  /\ Worker!Pop(Len(promoting'))
  /\ UNCHANGED <<clock, handlerVars, tickDue, stamp, since>>

StampBatch ==
  /\ stamp' = clock + SessionDuration
  /\ UNCHANGED <<promoting, since>>
  /\ Worker!Stamp
  /\ UNCHANGED <<clock, room, handlerVars, tickDue>>

(* A slip: the loop ends after its first item. *)
PromoteFirst ==
  /\ pc = "promote"
  /\ room' = AddActive(room, Head(promoting).id, stamp)
  /\ promoting' = <<>>
  /\ stamp' = 0
  /\ pc' = "select"
  /\ UNCHANGED <<bucket, toAdmit>>
  /\ UNCHANGED <<clock, handlerVars, tickDue, since>>

Promote ==
  /\ pc = "promote"
  /\ room' = AddActive(room, Head(promoting).id, stamp)
  /\ promoting' = Tail(promoting)
  /\ stamp' = IF promoting' = <<>> THEN 0 ELSE stamp
  /\ Worker!Promote
  /\ UNCHANGED <<clock, handlerVars, tickDue, since>>

-----------------------------------------------------------------------------
HandlerStep(h) ==
  \/ RejectCookie(h)
  \/ ReadExpiry(h)
  \/ Compare(h)
  \/ Extend(h)
  \/ LookUpPosition(h)
  \/ CountActive(h)
  \/ AdmitDirect(h)
  \/ Enqueue(h)
  \/ RenderPage(h)
  \/ Allow(h)
  \/ Queue(h)
  \/ LoseResponse(h)

WorkerStep ==
  \/ TakeTick
  \/ CleanUp
  \/ CountSlots
  \/ PopForAdmission
  \/ StampBatch
  \/ Promote

Next ==
  \/ Advance
  \/ \E h \in Handlers, v \in Visitors : Arrive(h, v)
  \/ \E h \in Handlers : HandlerStep(h)
  \/ ObserveCount
  \/ WorkerStep

Spec == Init /\ [][Next]_vars

(* Goroutines run: the worker and every handler keep taking steps, and the *)
(* store never blocks.                                                     *)
FairSpec ==
  /\ Spec
  /\ WF_vars(WorkerStep)
  /\ \A h \in Handlers : WF_vars(HandlerStep(h))

-----------------------------------------------------------------------------
Ids == Nat

Scores == 0..MaxTime

Expiries == 0..MaxTime + SessionDuration

Cookies == [id : Ids, status : {"none", "queued", "active"}, expAt : Nat]

Requests ==
  [pc : {"idle", "verify", "compare", "extend", "position", "count", "admit", "enqueue",
         "queue", "rendered", "allow"},
   visitor : Visitors \cup {NoVisitor}, cookie : Cookies, exp : Expiries, since : 0..MaxTime]

TypeOK ==
  /\ clock \in 0..MaxTime
  /\ RoomOK(room, Ids, Scores, Expiries)
  /\ issued \in Nat
  /\ jar \in [Visitors -> Cookies]
  /\ req \in [Handlers -> Requests]
  /\ \A h \in Handlers : req[h].pc = "idle" <=> req[h].visitor = NoVisitor
  /\ tickDue \in BOOLEAN
  /\ promoting \in Seq([id : Ids, score : Scores])
  /\ Worker!WorkerTypeOK
  /\ stamp \in Expiries
  /\ since \in 0..MaxTime

(* An id is in at most one place: queued once, in the worker's hands once, *)
(* or active; and the queue's existence set is the queue.  The worker's    *)
(* pop and AddActive are steps apart, and a handler may run in between     *)
(* (worker.go:98-112).                                                     *)
OnePlacePerId ==
  /\ NoIdTwice(room.queue)
  /\ NoIdTwice(promoting)
  /\ room.qSet = IdsOf(room.queue)
  /\ room.qSet \cap IdsOf(promoting) = {}
  /\ (room.qSet \cup IdsOf(promoting)) \cap DOMAIN room.active = {}
  /\ room.qSet \cup IdsOf(promoting) \cup DOMAIN room.active \subseteq 1..issued

(* Nobody reaches the origin on a place in the queue: an active cookie,    *)
(* issued or about to be issued, belongs to an id that was admitted, not   *)
(* to one that still waits or is being promoted (service.go:121-165,       *)
(* middleware.go:85-110).                                                  *)
Admitted(id) ==
  /\ id \in 1..issued
  /\ id \notin room.qSet
  /\ id \notin IdsOf(promoting)

AdmittedOnly ==
  /\ \A v \in Visitors : jar[v].status = "active" => Admitted(jar[v].id)
  /\ \A h \in Handlers :
       req[h].cookie.status = "active" \/ req[h].pc \in {"compare", "extend", "allow"}
         => Admitted(req[h].cookie.id)

(* total_active_users is checked and acted on in different steps, by every *)
(* handler and by the worker.  What their steps can add up to is bounded:  *)
(* active sessions, admissions decided but not made, and visitors granted  *)
(* or popped but not promoted, are never more than twice the limit plus    *)
(* one less than the handlers (service.go:172-180, worker.go:74-111).      *)
Admitting == {h \in Handlers : req[h].pc = "admit"}

BoundedOvershoot ==
  Cardinality(DOMAIN room.active) + Cardinality(Admitting) + toAdmit + Len(promoting)
    <= 2 * TotalActiveUsers + Cardinality(Handlers) - 1

(* No session is taken away before its time, by any of the four callers    *)
(* that evict, however late they hold the lock with an old reading of the  *)
(* clock (mem_store.go:60-76, mem_store.go:122-135).                       *)
SessionsRunTheirTime ==
  [][\A id \in DOMAIN room.active :
       id \notin DOMAIN room'.active => room.active[id] <= clock]_vars

(* The room implements the life cycle of an id: only a pop takes an id out *)
(* of the queue, only the worker promotes it, and an ended session never   *)
(* comes back, not even through a late ExtendActive.                       *)
Stage(id) ==
  CASE id > issued                 -> "new"
    [] id \in room.qSet            -> "queued"
    [] id \in IdsOf(promoting)     -> "promoting"
    [] id \in DOMAIN room.active   -> "active"
    [] OTHER                       -> "ended"

Lifecycle == INSTANCE SessionLifecycle
  WITH Ids <- 1..MaxIds, stage <- [id \in 1..MaxIds |-> Stage(id)]

FollowsLifecycle == Lifecycle!Spec

(* A visitor popped from the queue becomes active; the worker does not     *)
(* forget one between PopForAdmission and AddActive.                       *)
PopLeadsToSession ==
  \A id \in 1..MaxIds : id \in IdsOf(promoting) ~> id \in DOMAIN room.active

(* Every request is answered, or its connection is lost. *)
RequestsEnd == \A h \in Handlers : []<>(req[h].pc = "idle")

-----------------------------------------------------------------------------
(* Under queue_all nobody is admitted but by the worker, and it alone does *)
(* not overshoot: what it has counted, granted and popped fits the limit   *)
(* (worker.go:79-96, service.go:177).                                      *)
QueueAllRespectsCapacity ==
  QueueAll => Cardinality(DOMAIN room.active) + toAdmit + Len(promoting) <= TotalActiveUsers

-----------------------------------------------------------------------------
(* What the documentation says and the code does not do. *)

(* README.md:484 calls total_active_users the maximum of active sessions. *)
CapacityRespected ==
  Cardinality({id \in DOMAIN room.active : clock <= room.active[id]}) <= TotalActiveUsers

(* service.go:81-82: a visitor with a valid queued cookie is either still  *)
(* queued or promoted; only one found in neither place is queued afresh.   *)
NoSecondPlace ==
  \A h \in Handlers :
    req[h].pc \in {"admit", "enqueue"} /\ req[h].cookie.status = "queued" =>
      ~ \/ req[h].cookie.id \in room.qSet \cup IdsOf(promoting)
        \/ req[h].cookie.id \in DOMAIN room.active /\ clock <= room.active[req[h].cookie.id]

(* README.md:295: who comes first leaves first.  Of two queued visitors, the *)
(* one enqueued earlier, with a timestamp that is not later, is ahead.     *)
FirstComeFirstServed ==
  \A i, j \in DOMAIN room.queue :
    room.queue[i].id < room.queue[j].id /\ room.queue[i].score <= room.queue[j].score
      => i < j
=============================================================================
