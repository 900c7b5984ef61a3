# Open-WR in TLA+

Open-WR puts a *waiting room* in front of a web origin: every request for a
protected path is either let through, because its visitor holds an active
session, or kept waiting in a queue. This directory holds TLA+ specifications
of that program, the configurations that check them with TLC, and proofs that
TLAPS checks.

## 1. Inventory

| Component | Source | State | Operations | Model |
|---|---|---|---|---|
| Request handler | `internal/api/middleware.go` | room matcher (built once) | match the path, read the cookie, decide, set the cookie, proxy or answer the waiting page | `WaitingRoom`, `RoomMatcher`, `Server` |
| Service | `internal/waitingroom/service.go` | room configurations | CheckRequest, GetStatus, Stats | `WaitingRoom`, `RedisCluster`, `WaitingPage` |
| Admission worker | `internal/waitingroom/worker.go` | token bucket, one goroutine per enabled room | Start, tick | `AdmissionWorker`, `AdmissionRate` |
| Store interface | `internal/room/store.go` | | twelve methods | `RoomStore` |
| In-memory store | `internal/room/mem_store.go` | per room: sorted queue, existence set, active map; two levels of locks | the same | `MemRoom`, `MemStore` |
| Redis store | `internal/room/redis_store.go` | two sorted sets per room | the same, each a sequence of commands | `RedisCluster` |
| Cookies | `internal/cookie/signer.go` | secret | Sign, Verify, CookieName | expiry in `WaitingRoom`; codec in `Cookie` |
| Status and admin endpoints | `internal/api/status.go`, `admin.go` | | GetStatus, Stats | their eviction (`ObserveCount`); the answers the page acts on in `WaitingPage` |
| Waiting page | `internal/waitingroom/page.go`, `templates/waiting.html` | template cache; a polling loop in the browser | render, poll, reload | `TemplateCache`, `WaitingPage` |
| Configuration | `internal/config/config.go` | | Load, defaults, Validate | `Configuration` |
| Start-up, shutdown | `cmd/server/main.go` | | wiring, signals | `Server` |
| Origin proxy | `internal/proxy` | none | forwarding | whether there is one and it answers, in `Server` |
| Flash-sale demo | `demo` | | an origin | not modelled |

**How they interact.** A request runs on its own goroutine: the handler calls
the service, the service makes one to five calls of the store, and each call is
atomic while what happens between two calls is not. The worker runs beside all
of that and makes calls of the same store. The visitor's browser carries the
only other state, a signed cookie with an id, a status and an expiry; what a
cookie says may be long out of date when it comes back. Status polls and admin
requests look read-only, but ActiveCount evicts. With Redis several instances,
each with workers of its own, share the rooms.

**What is hard.** There are no transactions across store calls, so every
decision is made on state that may have changed: the count before an admission,
the pop before the promotion, the IsActive before the GetPosition. The clock is
read outside the locks. In the memory store two locks and a double check create
a room, and a binary search relies on an order that every other method must
keep. On Redis one method is several commands, a command may be executed and its
reply lost, and an instance may stop between a pop and its promotion. The
worker's bucket counts in twelfths of a visitor. The page's script, the reload,
the worker and the expiry of cookies and sessions together decide whether a
visitor ever gets in. `PROJECT.json` lists
these places as hazards, each at its line with the properties that cover it.

**What correct means.** Store: one room per id, a sorted queue that agrees with
its index, every method atomic. Worker: the configured rate in any minute,
exact accounting, no burst. Waiting room: an id is in one place at a time and
moves one way, only admitted visitors reach the origin, nobody's session ends
early, the excess over the limit is bounded, every request is answered and
every popped visitor becomes active. Cluster: what is lost or doubled is bounded
by what has failed. Page: whoever waits is let in. Server: no invalid
configuration runs, the most specific room is chosen, whoever is queued has a
worker, a signal ends the process.

## 2. Modules

```
 SessionLifecycle      RoomStore               abstract specifications
        ^ implements       ^ implements
   WaitingRoom         MemStore                components
    |  EXTENDS  \       / EXTENDS
    |            MemRoom                       operators on one room
    +- INSTANCE AdmissionWorker <- EXTENDS - AdmissionRate
                  ^       ^ INSTANCE
       RedisCluster     WaitingPage

 Server - EXTENDS -> Configuration, RoomMatcher, Cookie, TemplateCache
```

**`MemRoom`** is one `memRoom` as a record `[queue, qSet, active]`, with an
operator for the critical section of each method. The queue is a sequence of
`[id, score]`. `InsertionPoint` is the place Enqueue's `sort.Search` finds;
`SearchFindsPlace` checks, with `Search` written as the binary search it is,
that it does in every reachable queue. A pop chooses the indices it takes
(`Takes`: the first n, or any n in any order) and leaves the rest in order
(`Keeps`), which is what the loop of single removals amounts to.

**`MemStore`** runs those operators from concurrent callers. A call is `Lookup`,
perhaps `Create`, then one critical section. A method that reads the clock does
so between its lookup and its lock, so it uses any instant from `since` to
`clock`; `Cleanup` is handed a reading that its caller made before (worker.go:66),
so it uses any instant up to `clock`. `IsActive` takes two steps, since it
compares after the unlock.
`heap` holds every memRoom ever allocated and `ref` the one in `s.rooms`, which
is what lets `OneRoom` see a lost one. Each pop is fifo or random, so that pops
from the middle meet every other method.

**`RoomStore`** is the interface for one room: a set of waiting ids with
scores, a map of active sessions, and the ids the last pop answered: without
the answer a pop of the wrong visitor would look like a visitor leaving.
`MemStore` implements it under the mapping `waiting <- scores of the queue`,
`active <- the active map of TheRoom`.

**`AdmissionWorker`** is the loop of `Start` and `tick`: `pc` says where it is,
one action per store call or early return, what the store answers is a
parameter. **`AdmissionRate`** closes it with a store that may answer anything,
errors included, and counts; **`WaitingRoom`** instances it and ties the answers
to a real room.

**`WaitingRoom`** is one room on one instance over the memory store. Handler
`h` is at `req[h].pc`:

| `pc` | Code | Actions |
|---|---|---|
| `idle` | no request | `Arrive` |
| `verify` | `evaluateCookie`, Verify and IsActive's lookup | `RejectCookie`, `ReadExpiry` |
| `compare` | IsActive after its unlock | `Compare` |
| `extend` | ExtendActive | `Extend` |
| `position` | GetPosition | `LookUpPosition` |
| `count` | `admitOrQueue` | `CountActive` |
| `admit` | `admitDirect` | `AdmitDirect` |
| `enqueue` | `enqueue` | `Enqueue` |
| `queue`, `rendered` | `handleQueue` | `RenderPage`, `Queue`, `LoseResponse` |
| `allow` | `handleAllow` | `Allow`, `LoseResponse` |

A response sets the browser's cookie (`jar`) when it arrives, and responses of
requests in flight together arrive in any order; or it is lost, and the browser
keeps the cookie it had. Fresh ids are numbered `1..issued`. A cookie whose
MaxAge has run out is not sent by a browser; the model lets it be sent and
rejected, and both ways lead to `admitOrQueue`.

**`SessionLifecycle`** is what happens to one id: new, queued, being promoted,
active, ended, and never back. `WaitingRoom` implements it under the mapping
`stage[id] <- Stage(id)`. That mapping is well defined because an id is in one
place at a time.

**`RedisCluster`** is the same service over Redis: the handlers and the workers
of all instances share `queue` and `active`, and one step is one Redis command
with the code up to the next one. It differs from `WaitingRoom` where the stores
differ: ActiveCount is ZREMRANGEBYSCORE and then ZCARD, Enqueue is ZADD NX and
then ZRANK, ExtendActive adds what is not there. Scores are abstracted: `over`
has the sessions whose score has passed, a pop takes any members.
`CommandFails` is an error where the worker looks for one, `Abort` one in a
request or a client that has gone, `Repeat` and `RepeatRequest` a command whose
reply was lost and that go-redis sends again, `Restart` a crash or the end of a
process that does not wait for its worker. `Tick(i)` is the bucket arithmetic of
`AdmissionWorker` for instance `i`.

**`WaitingPage`** follows a visitor from the first request to the origin and
back, over any number of ticks and sessions. `page` is what the visitor has in
front of it, `cookie` whether its queued cookie is good; time is the order of
events and a request is one step. `Poll` is the script and the status endpoint,
`Reload` the four things that can become of a reload. A place whose cookie is
gone is a `Ghost`: it is promoted like any other and takes a slot. What parts a
visitor from its place is a `Mishap`: a cookie or a session that is over too
soon, a failed AddActive, a reload between pop and promotion, a response that is
lost and with it the cookie of a new place (`ResponseLost`). A page that polls
no more is `silent` (`FallSilent`: the tab is closed, or a reload is answered 500,
middleware.go:69-72), from the start if the template has no script (`Rendered`;
README.md:799-808 shows such a template). It keeps its place, is promoted and
holds a slot like the others, and its owner may come back. `room` is how the
room is configured, chosen at the start: `queue_all`, the queueing method
(`Draws`: the first, or anyone), whether a request at the origin renews the
session (`Browse`), and whether the template has the script. A session is first
`due` and then over, so that a renewal can come in between.

**`Server`** is `main`: `Load` (with `Configuration`), one `StartWorker` per
room, requests that are matched (`RoomMatcher`) and proxied or given a page
(`TemplateCache`), a signal, `srv.Shutdown` and its deadline. The service
answers anything it may: `Allow`, `Fail` or `Queue`. `Cookie` is Sign and Verify
over the pieces between separators, with an ideal MAC. These four are the pure
parts; `Server` checks them for each configuration it loads, against definitions
that say what the answer should be and not how it is found (`Beats`, `Invalid`).
The two loops of the matcher's sort are `Pass` and `LongestFirst`, with an
`Exchange` for each comparison, and the loop that collects prefixes is
`PrefixRooms`: recursive functions over the loop's index.

Operators introduced as *a slip* are variants of the definition after them as a
plausible mistake would have it. No specification uses them; the project puts
each in the place of the right one and sees the property named in
`PROJECT.json` fail, so that every property is known to depend on the code.

## 3. What TLC checks

| Run | Bounds | Shows |
|---|---|---|
| `MCAdmissionRate` | rate 5, limit 2, 3 ticks a minute, 7 ticks | `TokenConservation`, `NoBankedBurst`, `MinuteLimit` for a worker over any store |
| `MCMemStore` | 2 callers, 3 ids, times 0..1, fifo and random pops | `OneRoom`, `QueueIndexed`, `SearchFindsPlace`, `ImplementsInterface` |
| `MCWaitingRoom` | 2 browsers, 2 requests in flight, limit 1, 3 ids, clock 0..2 | `OnePlacePerId`, `AdmittedOnly`, `BoundedOvershoot`, `SessionsRunTheirTime`, `FollowsLifecycle` |
| `MCLiveness` | 1 browser, 1 request at a time, 3 ids, `queue_all`, random | `QueueAllRespectsCapacity`, `PopLeadsToSession`, `RequestsEnd` |
| `MCRedisCluster` | 2 instances, 2 requests in flight, 3 ids, limit 1, rate 1, 2 ticks a minute, 1 fault | `LossBounded`, `OnePlacePerFault`, `AdmittedOnly`, `ClusterOvershoot` |
| `MCWaitingPage` | 3 rooms, 3 visitors, limit 1, rate 1, 2 ticks a minute, 2 mishaps | `PlacesMatchPages`, `EventuallyAdmitted` |
| `MCServer` | 74 configurations of up to 3 rooms, 4 paths, 2 hosts, 2 requests in flight, 2 templates | `ConfigSafe`, `MatchMostSpecific`, `CodecExact`, `QueueHasWorker`, `CacheSettles`, `ShutdownEnds` |

**Why these bounds are enough to be interesting.** In `MCAdmissionRate` 5 does
not divide by 3, so fractions are carried; the limit is below the largest grant,
so the cap forfeits; seven ticks hold more than two minutes, so windows start
anywhere. A rate below one visitor a tick, where ticks end with a saved
fraction, is in `MCWaitingPage`. Two callers are what a race on the creation of
a room, on an expiry or on a queue takes, and three ids are what a pop from the
middle takes. In `MCWaitingRoom` the clock reaches past the end of a session and
of a queued cookie (`SessionDuration` and `QueueCookieTTL` are 1), the ticker
ticks twice, and two requests race with each other and the worker for a limit
of 1. The bounds there are `MaxTicks`, `MaxTime` and `MaxIds`; `Arrive` keeps an
id in reserve for each request in flight, so no handler is ever stopped by
`MaxIds`. In `MCRedisCluster` two workers grant the same free slot while two
requests race for it; one fault is enough to tell what it
costs from what it must not cost, and the properties state the cost per fault.
`Ids` bounds the visitors: when none is fresh no new one comes, and whoever has
a cookie may still return. With a limit of 1, `ClusterOvershoot` allows 4, which
is reached: three ids that are active or in hand and a grant, where three ids
and a grant for each worker would make 5. A limit that is one too high is found
there. The limit of 1 makes batches of one; batches of two are in `MCLiveness`
on one instance, and `LittleIsLost` proves the loss for any size. In
`MCWaitingPage` three visitors wait for one slot, and two mishaps can meet one
visitor in a row or make a ghost for each of two. Of its rooms, one has
everything `EventuallyAdmitted` asks for, one nothing of it, and in one the page
has no script. `MCServer` has every order of each set of rooms, each way a
configuration can be wrong, and two requests for the race on the cache.

`MCAdmissionRate` and `MCServer` check no deadlock, because the worker and the
process stop when they are told to. In the other specifications deadlock is
checked. Browsers, handlers, instances and ids are interchangeable in the safety
runs (symmetry); it is not used where liveness is checked.

**Fairness.** `WaitingRoom!FairSpec` assumes weak fairness of the worker's next
step and of each handler's. A goroutine that can run is run by the Go scheduler,
no store call blocks (the locks are held for short sections without waiting
inside), and ListenAndServe runs a handler to its end even if the client has
gone. Nothing is assumed of the clock, of arrivals or of ticks.

`WaitingPage` assumes weak fairness of the worker with its ticker, of the
script's polls and the reloads it asks for (`setTimeout` and `location.reload` in
a tab that stays open), and of what the clock brings: a session becomes due, one
that is due ends, a cookie that no longer has a place runs out. Nobody has to
come, to reload by hand or to stop browsing, and a session that is renewed
whenever it is due never ends. So the code promises admission only under three
settings together, and `EventuallyAdmitted` says which (`Promised`): `queue_all`,
because without it direct admissions may take every free slot for ever; fifo,
because a random draw may pass over one visitor every time; and
`disable_session_renewal`, because every request renews the session
(service.go:128-132) and visitors who go on browsing keep their slots. None of
the three can be left out: a mutant that forgets `queue_all`, one that draws
lots and one that renews anyway each make `EventuallyAdmitted` fail. It is also only
said of a page that goes on polling: it ends in the origin or silent. Built into the
model and not into its fairness is that mishaps are bounded, because a visitor
whose cookie expires or whose promotion fails every time never gets in. Pages
may fall silent any number of times.

`Server` assumes only that `srv.Shutdown` returns when nothing is in flight or
its deadline has passed. It assumes nothing of the origin, which may hang.

### Where the documentation and the code differ

Five runs check what a document or a comment says and find that the code does
something else:

- `MCCapacity`: `total_active_users` is documented as the maximum of active
  sessions (README.md:484). Count and admission are separate calls, so requests
  that race go beyond it, by no more than `BoundedOvershoot` says.
- `MCSecondPlace`: a visitor with a valid queued cookie is said to be still
  queued or promoted (service.go:81-82). Between the worker's pop and its
  AddActive it is neither; a request at that moment is enqueued again at the
  back under a new id.
- `MCOrder`: fifo is described as deterministic, first come first served
  (README.md:295). Arrivals with one millisecond are queued last first.
- `MCExtendActive`: ExtendActive is said to be a no-op if the id does not exist
  (store.go:24-25). On Redis it is a ZADD, and a renewal that comes after the
  eviction brings the session back, beyond the limit the worker has counted.
  `ClusterOvershoot` says by how much at most. The memory store does as it says
  (`FollowsLifecycle`).
- `MCOrigin`: without an origin the demo handler is said to answer
  (README.md:462, middleware.go:28). `main` puts a nil `*ReverseProxy` into the
  interface, which is then not nil, and every such request ends in a panic.

Other differences were met that no run is about, because no state of a model
depends on them or a weaker property says what does hold:

- Enqueue of a queued id is said to return its current position
  (mem_store.go:140, store.go:38). Its search predicate is not monotone
  (mem_store.go:148-150), and among items of one score the search may end behind
  the id. Nothing in the program enqueues an id twice, so no answer of it is
  modelled; that the queue stays as it is, is (`MemStore!Enqueue`).
- IsActive is said to report whether a valid session is held (store.go:18). It
  compares an expiry read under the lock with a later clock (mem_store.go:89)
  and may say no of a session that was extended in between. `Compare` models it.
- handleQueue says "Issue or refresh" of the cookie (middleware.go:116); the
  cookie of a visitor already queued is never renewed. `WaitingPage` has the
  consequence, `CookieExpires`.
- config.example.yaml and README.md speak of OPENWR_* variables; `config.Load`
  reads none.

## 4. What is proved

TLAPS checks these for every value of the constants: any number of browsers,
visitors, callers and configurations, finitely many handlers and instances, any
rate, limit, duration, number of faults or mishaps and bound.

| Module | Theorems |
|---|---|
| `AdmissionRateProofs` | `TypeCorrect`, `TokensConserved`, `BurstBounded`, `RateRespected` |
| `MemStoreProofs` | `StoreTypeCorrect`, `OneRoomAlways`, `QueueStaysIndexed`, `SearchAlwaysFindsPlace`, `StoreImplementsInterface` |
| `WaitingRoomProofs` | `TypeCorrect`, `OnePlace`, `OnlyAdmitted`, `TimeIsRun`, `OvershootBounded`, `QueueAllCapacity`, `ImplementsLifecycle` |
| `RedisClusterProofs` | `TypeCorrect`, `OnlyAdmitted`, `LittleIsLost`, `OnePlaceButForFaults`, `OvershootBounded` |
| `WaitingPageProofs` | `TypeCorrect`, `PagesHavePlaces` |
| `ServerProofs` | `TypeCorrect`, `ConfigServed`, `MostSpecificRoom`, `CodecRoundTrip`, `QueuedHaveWorker`, `CacheAlwaysSettles`; of the operators, `SortFacts`, `MatchFacts`, `CodecFacts` |

With these every invariant, every action property and both refinements that a
run checks are theorems; the four liveness properties are not.

`ArithmeticFacts` has the lemmas on division and products and on loops,
`MemRoomProofs` those on the operators of a room: what each adds, keeps and
removes, and where its binary search ends.

**Assumptions.** `RateAssumption`, `WorkerAssumption`, `RoomAssumption`,
`ClusterAssumption` and `PageAssumption`: positive rate, limit and duration and a
known queueing method, all of which `config.Validate` enforces and `ConfigServed`
proves of whatever is served; finitely many handlers, instances and visitors; a
tick shorter than a minute. `StoreAssumption`: the clock is a number, and the
value that stands for no answer is no id. `ServerAssumption`: a configuration has
the fields of the code's structs, with any integers in them. TLC evaluates them in every
run.

**Loops.** Induction over data is out of the provers' direct reach, because the
library's induction theorems take an operator as a parameter. What they can use
is that a set of naturals that is not empty has a least member (`LeastNatural`,
from the library's theorem that `<` on the naturals is well-founded). From it
follow `CountUp`, induction for a counter and a *set* of its good values, and
`LoopRuns`, that the recursive function a loop is written as exists. With
those a loop is followed as one follows it on paper: what holds before it, what
one turn keeps, what holds after it.

**The rate.** `MinuteLimit` is not inductive: it says nothing of what the bucket
holds. The strengthening `IInv` adds that in the window since `mark` what was
popped or granted, scaled, plus the bucket is no more than one rate per refill
plus what the bucket held at the mark, which `NoBankedBurst` keeps below one
token. A window of a minute then popped fewer than the rate plus one, and
popping is whole.

**Places.** `PlaceInv` is `TypeOK`, `OnePlacePerId` and the facts on the
worker's phase that tie `promoting` to `pc`. Every step of the program is one
of five kinds (`PlaceStep`: nothing moves but sessions may end; a new id is
admitted; a new id is queued; queued ids are popped; a popped id is promoted),
`EveryStepMoves` shows it once for all the actions, and `OnePlaceStep` and
`AdmittedStays` reason about five kinds instead of twenty actions.
`ImplementsLifecycle` maps the five kinds to the moves of `SessionLifecycle`.
`AdmittedOnly` speaks of cookies and of handlers that are about to issue one,
which makes it inductive beside `PlaceInv`: an admission is never taken back, so
a stale answer does no harm.

**Capacity.** The steps fall into five kinds again (`LoadStep`). The worker
grants only what it counted as free, so what it holds in hand (`InHand`) is at
most the limit; a handler decides to admit only when sessions are below the
limit; with all handlers decided at once, the sum of `BoundedOvershoot` is the
worst.

**The cluster.** `RedisClusterProofs!IInv` adds to `TypeOK` what the types do not
say: a worker holds a batch no larger than the limit and only while it promotes,
and the ids it holds were written before. A step of a worker is one of six kinds
(`WorkerMove`: the batches stay, a batch is popped, an item is promoted, items
are dropped, a pop or a promotion is executed and its reply lost), shown once in
`WorkerKinds`. For `LossBounded`, the first three and every step of a request
lose nobody, and the others are faults and lose at most the batch they drop or
pop in vain. `OnePlacePerFault` is not inductive: an id whose ZADD NX is about
to be sent again can be popped in between, and is in two places only by a later
step that is no fault. So the proof charges ids to faults: `Charged` has those
that wait twice, that wait and were admitted, and that were enqueued and are
about to be again. It grows by at most one id, and only by a fault. That rests
on `OwnIds`: until a request is answered, no cookie and no other request has the
id it made, so nobody else can write it.

**Overshoot of a cluster.** A sum over the instances is awkward to prove with,
a set is not: every grant and every batched id is a *slot*, a pair of a worker
and a number up to the limit. A worker has a grant or a batch, never both
(`GrantOK`), so no slot is taken twice, and grants and batches are together at
most one limit per instance (`SlotsBounded`).
A handler that decides to admit saw fewer than the limit, a worker that grants
saw what it grants free, and the rest of `ClusterOvershoot` is as for one
instance.

**The memory store.** The invariant is that every caller works on the one room
in the map and that this room is `Tidy`: its queue has no id twice, is sorted and
agrees with its existence set. `OneRoom` is what makes the rest inductive: a
caller that had a room of its own would leave an untidy one behind for somebody
else, or lose an item. `MemRoomProofs` says what each critical section does to a
tidy room, `ReturnKeeps` that leaving a tidy room behind is enough. The same
lemmas show what the interface sees of a step: one of its own operations, or
nothing. `SearchEndsAtBoundary` follows the interval that `sort.Search` halves and holds
of any predicate: the index it ends at is false just before and true there. With
the monotone predicate of Enqueue there is one such index, the insertion point.

**Pages and places.** Queue and batch together are one line, `Line`. For
one visitor, `Sound` says that page and place fit, lost or not; for all of them
`Drift` says that the visitors without a place (`Lost`) and the places without a
visitor are at most one per mishap. Every step concerns one visitor
(`VisitorMoves`) or nobody (`NobodyMoves`). A draw changes the order of the queue and
nothing else (`ShuffleFacts`), and the pop moves the head of what was drawn from
one half of the line to the other.

**The server.** `Started` says that what has been loaded was validated and that
the workers of the enabled rooms in front of `next` have been started;
`Serving` that there are requests only while the server runs or drains, and that
a page belongs to an enabled room. Both are needed for `QueueHasWorker`, which
alone says nothing of start-up. `ConfigSafe` follows from `Judged`: validating a
configuration whose defaults are set decides exactly whether it is `Invalid`.
`SortFacts` follows the two loops of the sort: after a pass the longest of the rest
is in its place and no room has been lost or doubled. `MatchFacts` needs that,
and that an exact path is looked for first and a host's rooms before the others.
`CodecFacts` cuts a token back into its pieces: a room id with a separator makes
it longer than the six that Verify takes. `CacheAlwaysSettles` goes through
all steps of the program, an exit included, since any of them might touch the
template.

**Only model-checked.** `PopLeadsToSession`, `RequestsEnd`, `EventuallyAdmitted`
and `ShutdownEnds`: liveness under fairness is out of this prover's reach. So
are the five properties the code violates, of course.

## 5. Not modelled

- Several rooms in one process, beyond start-up and matching: rooms share
  nothing but the map `MemStore` models, and on Redis not even the keys.
- Positions, totals and estimates in answers (`estimateWait`, the admin's JSON):
  no state depends on them. The ZCARD that only fills in a total is no step.
- In `WaitingRoom`, errors of the store (the memory store returns none; they are
  in `AdmissionRate` and `RedisCluster`) and the stop of the worker (a stopped
  worker takes no step, which the safety properties allow at any moment).
- In `RedisCluster`, scores and with them order and instants; RemoveActive,
  RemoveFromQueue, QueueLen and ExistsInQueue, which nothing in the program
  calls. All of these are in `MemStore` and `WaitingRoom`. A command of the
  model is executed or not: Redis itself loses nothing.
- In `WaitingPage`, the interleaving of store calls and the clock, which are in
  `WaitingRoom`, and errors of a poll, after which the script polls again. A
  client that asks for JSON has a silent page.
- Reading YAML, flags, the logger, connecting to Redis at start-up: sequential
  code that ends the process when it fails.
- realIP, CORS and security headers, the rewriting of headers by the proxy,
  base64 and HMAC, the markup of the page: no state, or a library's.
- The rate of several instances together: each bucket obeys `MinuteLimit`.
- The flash-sale demo: an example origin.

## 6. Plan

Done: all modules above, with proofs of every safety property, action property
and refinement.

Next: theorems about what the runs check on small instances only by their bounds
and not by a property of their own. That no lost response, repeated command or
restart of `RedisCluster` breaks the lifecycle of an id beyond its faults; and
that `AdmissionWorker`, as `WaitingRoom` and `RedisCluster` use it, still obeys
`MinuteLimit`.
