---------------------------- MODULE RedisCluster ----------------------------
(***************************************************************************)
(* One room on Redis: several instances, each with request handlers and an *)
(* admission worker of its own, share two sorted sets.  One step is one    *)
(* Redis command: the methods of internal/room/redis_store.go are          *)
(* sequences of commands, and other clients' commands run in between.      *)
(*                                                                         *)
(* Scores are abstracted.  The queue is a set, of which a pop takes any    *)
(* members (ZPOPMIN and the Lua script alike); of an expiry only whether   *)
(* it has passed is kept.  An eviction sent with an old reading of the     *)
(* clock removes some of the sessions that are over by now.                *)
(*                                                                         *)
(* A command may fail; it may be executed and its reply lost, in which     *)
(* case go-redis sends it again; an instance may stop in the middle of a   *)
(* tick and start anew.                                                    *)
(***************************************************************************)
EXTENDS Integers, FiniteSets, FiniteSetsExt

CONSTANTS
  Instances,             \* processes on one Redis
  Handlers,              \* requests in flight, on whichever instance
  Ids,                   \* uuid.NewString
  NoId,                  \* a request without a valid cookie
  TotalActiveUsers,      \* config: total_active_users
  NewUsersPerMinute,     \* config: new_users_per_minute
  TicksPerMinute,        \* time.Minute / tickInterval
  QueueAll,              \* config: queue_all
  DisableSessionRenewal, \* config: disable_session_renewal
  MaxFaults              \* bound: failed or repeated commands and restarts

ASSUME ClusterAssumption ==
  /\ NoId \notin Ids
  /\ IsFiniteSet(Instances) /\ IsFiniteSet(Handlers)
  /\ TotalActiveUsers \in Nat \ {0}
  /\ NewUsersPerMinute \in Nat \ {0}
  /\ TicksPerMinute \in Nat \ {0}
  /\ QueueAll \in BOOLEAN /\ DisableSessionRenewal \in BOOLEAN
  /\ MaxFaults \in Nat

VARIABLES
  queue,    \* owr:queue:{room}, the members
  active,   \* owr:active:{room}, the members
  over,     \* those of active whose score has passed
  req,      \* what each handler is doing
  cookies,  \* cookies that have reached a browser
  worker,   \* each instance's AdmissionWorker
  entered,  \* history: ids that were added to either set
  ended,    \* history: ids evicted from the active set
  faults    \* history: faults so far

redis == <<queue, active, over, entered, ended>>

vars == <<queue, active, over, req, cookies, worker, entered, ended, faults>>

IdleRequest == [pc |-> "idle", id |-> NoId]

FreshWorker == [pc |-> "select", bucket |-> 0, toAdmit |-> 0, items |-> {}]

Tick(i) == INSTANCE AdmissionWorker
  WITH pc <- worker[i].pc, bucket <- worker[i].bucket, toAdmit <- worker[i].toAdmit,
       batch <- Cardinality(worker[i].items)

Init ==
  /\ queue = {} /\ active = {} /\ over = {}
  /\ req = [h \in Handlers |-> IdleRequest]
  /\ cookies = {}
  /\ worker = [i \in Instances |-> FreshWorker]
  /\ entered = {} /\ ended = {}
  /\ faults = 0

-----------------------------------------------------------------------------
(* Redis commands. *)

(* ZADD on the active set: AddActive, and ExtendActive without a look at   *)
(* whether the session exists.                                             *)
AddActive(id) ==
  /\ active' = active \cup {id}
  /\ over' = over \ {id}
  /\ entered' = entered \cup {id}
  /\ UNCHANGED <<queue, ended>>

(* ZREMRANGEBYSCORE 0 now *)
EvictExpired ==
  \E gone \in SUBSET over :
    /\ active' = active \ gone
    /\ over' = over \ gone
    /\ ended' = ended \cup gone
    /\ UNCHANGED <<queue, entered>>

(* ZADD NX on the queue *)
AddToQueue(id) ==
  /\ queue' = queue \cup {id}
  /\ entered' = entered \cup {id}
  /\ UNCHANGED <<active, over, ended>>

(* A slip: a pop that reads and removes in two commands answers members    *)
(* that are still there for others to pop.                                 *)
ReadForPop(batch) == UNCHANGED redis

(* ZPOPMIN n, or the script: atomic, either way. *)
PopMembers(batch) ==
  /\ queue' = queue \ batch
  /\ UNCHANGED <<active, over, entered, ended>>

(* The scores of some sessions pass. *)
Expire ==
  /\ \E id \in active \ over : over' = over \cup {id}
  /\ UNCHANGED <<queue, active, entered, ended, req, cookies, worker, faults>>

-----------------------------------------------------------------------------
(* Request handlers.  What lies between two commands touches nothing that  *)
(* others see: it is part of the command's step.  A response that is lost  *)
(* is one whose cookie never comes back.                                   *)

Fresh == Ids \ (entered \cup {req[h].id : h \in Handlers})

Goto(h, next, id) == req' = [req EXCEPT ![h] = [pc |-> next, id |-> id]]

Answer(h) == req' = [req EXCEPT ![h] = IdleRequest]

Cookie(id, status) == [id |-> id, status |-> status]

(* Without a cookie, or with one that has expired, the visitor is new: the *)
(* first command is the eviction of ActiveCount.                           *)
Arrive(h) ==
  /\ req[h].pc = "idle"
  /\ Fresh # {}
  /\ EvictExpired
  /\ Goto(h, "count", NoId)
  /\ UNCHANGED <<cookies, worker, faults>>

IsLive(id) == id \in active \ over

(* IsActive: ZSCORE, and a score above the clock. *)
IsActive(h) ==
  /\ req[h].pc = "idle"
  /\ \E c \in cookies :
       IF IsLive(c.id)
         THEN IF c.status = "queued" \/ DisableSessionRenewal
                THEN cookies' = cookies \cup {Cookie(c.id, "active")} /\ Answer(h)
                ELSE Goto(h, "extend", c.id) /\ UNCHANGED cookies
         ELSE /\ IF c.status = "queued" THEN Goto(h, "position", c.id) ELSE Goto(h, "evict", NoId)
              /\ UNCHANGED cookies
  /\ UNCHANGED <<redis, worker, faults>>

(* handleAllow makes an active cookie. *)
ExtendActive(h) ==
  /\ req[h].pc = "extend"
  /\ AddActive(req[h].id)
  /\ cookies' = cookies \cup {Cookie(req[h].id, "active")}
  /\ Answer(h)
  /\ UNCHANGED <<worker, faults>>

(* A slip: taking who is not queued for promoted. *)
LookUpAllows(h) ==
  /\ req[h].pc = "position"
  /\ cookies' = cookies \cup
       {Cookie(req[h].id, IF req[h].id \in queue THEN "queued" ELSE "active")}
  /\ Answer(h)
  /\ UNCHANGED <<redis, worker, faults>>

(* GetPosition: ZRANK, and ZCARD for the answer.  Who is queued keeps the  *)
(* cookie; who is not goes on as a new visitor.                            *)
GetPosition(h) ==
  /\ req[h].pc = "position"
  /\ IF req[h].id \in queue THEN Answer(h) ELSE Goto(h, "evict", NoId)
  /\ UNCHANGED <<redis, cookies, worker, faults>>

(* ActiveCount evicts ... *)
Evict(h) ==
  /\ req[h].pc = "evict"
  /\ EvictExpired
  /\ Goto(h, "count", NoId)
  /\ UNCHANGED <<cookies, worker, faults>>

(* A slip: one more than the limit. *)
ShouldQueueAbove(count) == QueueAll \/ count > TotalActiveUsers

ShouldQueue(count) == QueueAll \/ count >= TotalActiveUsers

(* ... and counts with ZCARD.  Either way a new id is made. *)
Count(h) ==
  /\ req[h].pc = "count"
  /\ \E id \in Fresh :
       Goto(h, IF ShouldQueue(Cardinality(active)) THEN "enqueue" ELSE "admit", id)
  /\ UNCHANGED <<redis, cookies, worker, faults>>

AdmitDirect(h) ==
  /\ req[h].pc = "admit"
  /\ AddActive(req[h].id)
  /\ cookies' = cookies \cup {Cookie(req[h].id, "active")}
  /\ Answer(h)
  /\ UNCHANGED <<worker, faults>>

(* Enqueue: ZADD NX ... *)
Enqueue(h) ==
  /\ req[h].pc = "enqueue"
  /\ AddToQueue(req[h].id)
  /\ Goto(h, "rank", req[h].id)
  /\ UNCHANGED <<cookies, worker, faults>>

(* ... then ZRANK and ZCARD.  A member popped in between has no rank, and  *)
(* the request ends with an error and without its cookie.                  *)
Rank(h) ==
  /\ req[h].pc = "rank"
  /\ cookies' = IF req[h].id \in queue THEN cookies \cup {Cookie(req[h].id, "queued")} ELSE cookies
  /\ Answer(h)
  /\ UNCHANGED <<redis, worker, faults>>

(* The client goes away and its context with it, or a command fails: the   *)
(* request ends where it is, and what it has written stays.  A renewal     *)
(* that fails is ignored, and the visitor keeps the cookie it came with.   *)
Abort(h) ==
  /\ req[h].pc # "idle"
  /\ Answer(h)
  /\ UNCHANGED <<redis, cookies, worker, faults>>

(* GetStatus, Stats and the waiting page evict too. *)
ObserveCount ==
  /\ EvictExpired
  /\ UNCHANGED <<req, cookies, worker, faults>>

-----------------------------------------------------------------------------
(* The admission workers, one per instance.  Ticks come when they come.    *)

WorkerGoto(i, next) == worker' = [worker EXCEPT ![i].pc = next]

EndTick(i) == worker' = [worker EXCEPT ![i].pc = "select", ![i].toAdmit = 0]

(* A tick: CleanupExpiredActive, and then the eviction of ActiveCount. *)
CleanUp(i) ==
  /\ worker[i].pc \in {"select", "evict"}
  /\ EvictExpired
  /\ WorkerGoto(i, IF worker[i].pc = "select" THEN "evict" ELSE "count")
  /\ UNCHANGED <<req, cookies, faults>>

(* ZCARD, and the arithmetic of the bucket: AdmissionWorker's CountFull,   *)
(* CountSaves and CountGrants.                                             *)
CountSlots(i) ==
  /\ worker[i].pc = "count"
  /\ LET free == Tick(i)!Available(Cardinality(active))
         n == Tick(i)!Granted
     IN  CASE free <= 0 -> EndTick(i)
           [] free > 0 /\ n <= 0 ->
                worker' = [worker EXCEPT ![i].pc = "select", ![i].bucket = Tick(i)!Refilled]
           [] OTHER ->
                worker' = [worker EXCEPT ![i].pc = "pop", ![i].toAdmit = Tick(i)!Capped(n, free),
                                         ![i].bucket = Tick(i)!Refilled - n * TicksPerMinute]
  /\ UNCHANGED <<redis, req, cookies, faults>>

(* As many as there are, up to n. *)
Batches(n) == {batch \in SUBSET queue : Cardinality(batch) = Min({n, Cardinality(queue)})}

Pop(i) ==
  /\ worker[i].pc = "pop"
  /\ \E batch \in Batches(worker[i].toAdmit) :
       /\ PopMembers(batch)
       /\ worker' = [worker EXCEPT ![i].pc = IF batch = {} THEN "select" ELSE "promote",
                                   ![i].toAdmit = 0, ![i].items = batch]
  /\ UNCHANGED <<req, cookies, faults>>

(* The loop over the batch goes on to its next item. *)
Done(i, item) ==
  worker' = [worker EXCEPT ![i].items = @ \ {item},
                           ![i].pc = IF worker[i].items = {item} THEN "select" ELSE "promote"]

(* A slip: looking again for a free slot before each promotion. *)
PromoteIfFree(i) ==
  /\ worker[i].pc = "promote"
  /\ \E item \in worker[i].items :
       /\ IF Cardinality(active) < TotalActiveUsers THEN AddActive(item) ELSE UNCHANGED redis
       /\ Done(i, item)
  /\ UNCHANGED <<req, cookies, faults>>

Promote(i) ==
  /\ worker[i].pc = "promote"
  /\ \E item \in worker[i].items : AddActive(item) /\ Done(i, item)
  /\ UNCHANGED <<req, cookies, faults>>

-----------------------------------------------------------------------------
(* Faults. *)

Fault == faults < MaxFaults /\ faults' = faults + 1

(* A command of a tick fails: the cleanup is skipped, a count or a pop ends *)
(* the tick, and an AddActive loses its visitor.                           *)
CommandFails(i) ==
  /\ Fault
  /\ \/ worker[i].pc = "select" /\ WorkerGoto(i, "evict")
     \/ worker[i].pc \in {"evict", "count", "pop"} /\ EndTick(i)
     \/ worker[i].pc = "promote" /\ \E item \in worker[i].items : Done(i, item)
  /\ UNCHANGED <<redis, req, cookies>>

(* The reply of a command is lost: it has been executed, and is sent again. *)
Repeat(i) ==
  /\ Fault
  /\ \/ worker[i].pc = "pop" /\ \E batch \in Batches(worker[i].toAdmit) : PopMembers(batch)
     \/ worker[i].pc = "promote" /\ \E item \in worker[i].items : AddActive(item)
  /\ UNCHANGED <<req, cookies, worker>>

RepeatRequest(h) ==
  /\ Fault
  /\ \/ req[h].pc \in {"extend", "admit"} /\ AddActive(req[h].id)
     \/ req[h].pc = "enqueue" /\ AddToQueue(req[h].id)
  /\ UNCHANGED <<req, cookies, worker>>

(* An instance crashes, or is told to stop and does not wait for its       *)
(* worker, whose context is cancelled; then it starts again.               *)
Restart(i) ==
  /\ Fault
  /\ worker' = [worker EXCEPT ![i] = FreshWorker]
  /\ UNCHANGED <<redis, req, cookies>>

-----------------------------------------------------------------------------
HandlerStep(h) ==
  \/ Arrive(h)
  \/ IsActive(h)
  \/ ExtendActive(h)
  \/ GetPosition(h)
  \/ Evict(h)
  \/ Count(h)
  \/ AdmitDirect(h)
  \/ Enqueue(h)
  \/ Rank(h)
  \/ Abort(h)
  \/ RepeatRequest(h)

WorkerStep(i) ==
  \/ CleanUp(i)
  \/ CountSlots(i)
  \/ Pop(i)
  \/ Promote(i)
  \/ CommandFails(i)
  \/ Repeat(i)
  \/ Restart(i)

Next ==
  \/ \E h \in Handlers : HandlerStep(h)
  \/ \E i \in Instances : WorkerStep(i)
  \/ Expire
  \/ ObserveCount

Spec == Init /\ [][Next]_vars

-----------------------------------------------------------------------------
Cookies == [id : Ids, status : {"queued", "active"}]

Requests ==
  [pc : {"idle", "extend", "position", "evict", "count", "admit", "enqueue", "rank"},
   id : Ids \cup {NoId}]

Workers ==
  [pc : {"select", "evict", "count", "pop", "promote"},
   bucket : 0..TicksPerMinute - 1, toAdmit : 0..TotalActiveUsers, items : SUBSET Ids]

TypeOK ==
  /\ queue \subseteq entered /\ active \subseteq entered /\ over \subseteq active
  /\ ended \subseteq entered /\ entered \subseteq Ids
  /\ cookies \subseteq Cookies
  /\ req \in [Handlers -> Requests]
  /\ worker \in [Instances -> Workers]
  /\ faults \in 0..MaxFaults

Held == UNION {worker[i].items : i \in Instances}

(* A visitor who was written to Redis is queued, in a worker's hands,      *)
(* active or done; what the faults lose is at most one batch each, and     *)
(* without a fault nobody is lost, whatever the instances pop and promote  *)
(* at the same time (redis_store.go:184-205, worker.go:98-111).            *)
Lost == entered \ (queue \cup Held \cup active \cup ended)

LossBounded == Cardinality(Lost) <= TotalActiveUsers * faults

(* No visitor is in two places, and no two workers pop the same one, but   *)
(* for one id per command that was sent twice (redis_store.go:137-142,     *)
(* redis_store.go:212-233).                                                *)
InPlaces(id) ==
  Cardinality({i \in Instances : id \in worker[i].items})
    + (IF id \in queue THEN 1 ELSE 0) + (IF id \in active THEN 1 ELSE 0)

OnePlacePerFault == Cardinality({id \in entered : InPlaces(id) > 1}) <= faults

(* Nobody reaches the origin who was not admitted, by whichever instance:  *)
(* the id of an active cookie has been in the active set (service.go:121). *)
AdmittedOnly ==
  /\ \A c \in cookies : c.status = "active" => c.id \in active \cup ended
  /\ \A h \in Handlers : req[h].pc = "extend" => req[h].id \in active \cup ended

(* Every worker counts for itself, so the limit is overshot by at most     *)
(* itself once per instance plus the direct admissions in flight; renewals *)
(* that are on their way, and may revive a session, included               *)
(* (worker.go:74-96, service.go:172-180, main.go:148-154).                 *)
Writing == {req[h].id : h \in {g \in Handlers : req[g].pc \in {"extend", "admit"}}}

(* The slots granted and not yet popped for, numbered for each worker. *)
Grants == UNION {{i} \X (1..worker[i].toAdmit) : i \in Instances}

Occupied == active \cup Writing \cup Held

ClusterOvershoot ==
  Cardinality(Occupied) + Cardinality(Grants)
    <= (Cardinality(Instances) + 1) * TotalActiveUsers + Cardinality(Handlers) - 1

-----------------------------------------------------------------------------
(* store.go:24-25 says of ExtendActive that it updates an existing session *)
(* and is a no-op if the id does not exist: an ended one stays ended.      *)
EndedStaysEnded == ended \cap active = {}
=============================================================================
