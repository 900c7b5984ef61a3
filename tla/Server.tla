------------------------------- MODULE Server -------------------------------
(***************************************************************************)
(* The process: cmd/server/main.go with what it wires together.  It loads  *)
(* a configuration, starts a worker for each enabled room and serves       *)
(* requests, each of which is matched to a room and goes to the origin or  *)
(* gets the waiting page; a signal stops the workers and drains the        *)
(* requests.  Which visitors a room admits is WaitingRoom's business: here *)
(* the service answers anything it may.                                    *)
(***************************************************************************)
EXTENDS Configuration, RoomMatcher, Cookie, TemplateCache, FiniteSets

CONSTANTS
  Configs,   \* YAML files
  Paths,     \* of requests
  Hosts      \* of requests

ASSUME ServerAssumption == Configs \subseteq Config

VARIABLES
  phase,   \* how far main has come
  conf,    \* the configuration, as written and after Load with its defaults
  next,    \* startup: the room whose worker is next
  worker,  \* the admission worker of each room
  req      \* the request of each handler

vars == <<phase, conf, next, worker, req, cacheVars>>

RoomIds == {conf.rooms[i].id : i \in DOMAIN conf.rooms}

NoRequest == [pc |-> "idle", room |-> NoRoom]

Init ==
  /\ phase = "loading"
  /\ conf \in Configs
  /\ next = 1
  /\ worker = [id \in RoomIds |-> "none"]
  /\ req = [h \in Handlers |-> NoRequest]
  /\ CacheInit

-----------------------------------------------------------------------------
(* Start-up. *)

(* A slip: validating what is written, and completing it afterwards.       *)
LoadValidatesFirst ==
  /\ phase = "loading"
  /\ conf' = ApplyDefaults(conf)
  /\ phase' = IF Validate(conf) THEN "starting" ELSE "rejected"
  /\ UNCHANGED <<next, worker, req, cacheVars>>

(* config.Load; a configuration that is not valid ends the process. *)
Load ==
  /\ phase = "loading"
  /\ conf' = ApplyDefaults(conf)
  /\ phase' = IF Validate(conf') THEN "starting" ELSE "rejected"
  /\ UNCHANGED <<next, worker, req, cacheVars>>

(* A slip: the loop over the rooms ends at a disabled one. *)
StartWorkersUpToDisabled ==
  /\ phase = "starting" /\ next <= Len(conf.rooms)
  /\ IF conf.rooms[next].enabled
       THEN worker' = [worker EXCEPT ![conf.rooms[next].id] = "running"] /\ next' = next + 1
       ELSE next' = Len(conf.rooms) + 1 /\ UNCHANGED worker
  /\ UNCHANGED <<phase, conf, req, cacheVars>>

(* A disabled room has no worker. *)
StartWorker ==
  /\ phase = "starting" /\ next <= Len(conf.rooms)
  /\ next' = next + 1
  /\ worker' = IF conf.rooms[next].enabled
                 THEN [worker EXCEPT ![conf.rooms[next].id] = "running"] ELSE worker
  /\ UNCHANGED <<phase, conf, req, cacheVars>>

Listen ==
  /\ phase = "starting" /\ next > Len(conf.rooms)
  /\ phase' = "running"
  /\ UNCHANGED <<conf, next, worker, req, cacheVars>>

(* os.Exit(1), with whatever is in flight. *)
Abort ==
  /\ phase' = "aborted"
  /\ req' = [h \in Handlers |-> NoRequest]
  /\ render' = [h \in Handlers |-> NoRender]
  /\ UNCHANGED <<conf, next, worker, file, tmplCache>>

(* The address is taken, or the listener breaks. *)
ListenFails == phase = "running" /\ Abort

-----------------------------------------------------------------------------
(* Requests. *)

Goto(h, pc, room) == req' = [req EXCEPT ![h] = [pc |-> pc, room |-> room]]

Request(h) ==
  /\ phase = "running" /\ req[h].pc = "idle"
  /\ \E path \in Paths, host \in Hosts :
       LET room == Match(conf.rooms, path, host)
       IN  Goto(h, IF room = NoRoom THEN "origin" ELSE "check", room)
  /\ UNCHANGED <<phase, conf, next, worker, cacheVars>>

RoomOf(id) == conf.rooms[CHOOSE i \in DOMAIN conf.rooms : conf.rooms[i].id = id]

(* CheckRequest bypasses a disabled room, allows, or fails with 500 ... *)
Allow(h) ==
  /\ req[h].pc = "check"
  /\ Goto(h, "origin", NoRoom)
  /\ UNCHANGED <<phase, conf, next, worker, cacheVars>>

Fail(h) ==
  /\ req[h].pc = "check"
  /\ Goto(h, "idle", NoRoom)
  /\ UNCHANGED <<phase, conf, next, worker, cacheVars>>

(* ... or queues, and the waiting page is rendered. *)
Queue(h) ==
  /\ req[h].pc = "check"
  /\ RoomOf(req[h].room).enabled
  /\ BeginRender(h, RoomOf(req[h].room).custom)
  /\ Goto(h, "page", req[h].room)
  /\ UNCHANGED <<phase, conf, next, worker>>

Render(h) ==
  /\ RenderStep(h)
  /\ IF render'[h].pc = "idle" THEN Goto(h, "idle", NoRoom) ELSE UNCHANGED req
  /\ UNCHANGED <<phase, conf, next, worker>>

(* main's originProxy is a *ReverseProxy, nil without a valid origin URL.  *)
(* serveOrigin compares the OriginHandler it was put in with nil, and that *)
(* is never nil: the nil pointer's ServeHTTP panics, and Recoverer answers *)
(* 500.                                                                    *)
ServeOrigin(h) ==
  /\ req[h].pc = "origin"
  /\ Goto(h, IF conf.origin = "valid" THEN "proxied" ELSE "panicked", NoRoom)
  /\ UNCHANGED <<phase, conf, next, worker, cacheVars>>

(* The origin answers, the proxy for it (502), or Recoverer. *)
Answer(h) ==
  /\ req[h].pc \in {"proxied", "panicked"}
  /\ Goto(h, "idle", NoRoom)
  /\ UNCHANGED <<phase, conf, next, worker, cacheVars>>

EditTemplate ==
  /\ phase = "running"
  /\ \E i \in DOMAIN conf.rooms : conf.rooms[i].custom
  /\ Edit
  /\ UNCHANGED <<phase, conf, next, worker, req>>

-----------------------------------------------------------------------------
(* Shutdown. *)

(* SIGINT or SIGTERM: the context is cancelled, the listener closed. *)
Signal ==
  /\ phase = "running"
  /\ phase' = "stopping"
  /\ UNCHANGED <<conf, next, worker, req, cacheVars>>

(* A worker sees it when it comes back to its select; nobody waits for it. *)
WorkerStops(id) ==
  /\ phase = "stopping" /\ worker[id] = "running"
  /\ worker' = [worker EXCEPT ![id] = "stopped"]
  /\ UNCHANGED <<phase, conf, next, req, cacheVars>>

InFlight == {h \in Handlers : req[h].pc # "idle"}

(* A slip: Close in the place of Shutdown. *)
CloseAtOnce ==
  /\ phase = "stopping"
  /\ phase' = "stopped"
  /\ UNCHANGED <<conf, next, worker, req, cacheVars>>

(* srv.Shutdown returns when no request is in flight ... *)
ShutdownDone ==
  /\ phase = "stopping" /\ InFlight = {}
  /\ phase' = "stopped"
  /\ UNCHANGED <<conf, next, worker, req, cacheVars>>

(* ... or after shutdownTimeout, and the process exits with an error. *)
ShutdownTimesOut == phase = "stopping" /\ InFlight # {} /\ Abort

Next ==
  \/ Load
  \/ StartWorker
  \/ Listen
  \/ ListenFails
  \/ \E h \in Handlers :
       \/ Request(h)
       \/ Allow(h)
       \/ Fail(h)
       \/ Queue(h)
       \/ Render(h)
       \/ ServeOrigin(h)
       \/ Answer(h)
  \/ EditTemplate
  \/ Signal
  \/ \E id \in RoomIds : WorkerStops(id)
  \/ ShutdownDone
  \/ ShutdownTimesOut

(* The shutdown deadline passes.  Nothing is asked of the origin, which    *)
(* may never answer.                                                       *)
Spec == Init /\ [][Next]_vars /\ WF_vars(ShutdownDone) /\ WF_vars(ShutdownTimesOut)

-----------------------------------------------------------------------------
TypeOK ==
  /\ phase \in {"loading", "rejected", "starting", "running", "stopping", "stopped", "aborted"}
  /\ next \in 1..Len(conf.rooms) + 1
  /\ worker \in [RoomIds -> {"none", "running", "stopped"}]
  /\ req \in [Handlers -> [pc : {"idle", "check", "origin", "page", "proxied", "panicked"},
                           room : RoomIds \cup {NoRoom}]]
  /\ file \in Templates \cup {"missing", "broken"} /\ tmplCache \in Templates \cup {"none"}
  /\ \A h \in Handlers :
       /\ render[h].pc \in {"idle", "lookup", "read", "store", "execute"}
       /\ render[h].pc = "execute" => render[h].tmpl \in Templates \cup {"default"}
       /\ render[h].pc # "idle" <=> req[h].pc = "page"

(* What is served is what the other modules assume of their constants, and *)
(* nothing is rejected for a field that was left out (config.go:75-159).   *)
Invalid(c) ==
  \/ c.secretLen < 32
  \/ c.redisEnabled /\ ~c.redisAddr
  \/ \E i \in DOMAIN c.rooms :
       LET r == c.rooms[i]
       IN  \/ r.id = <<>> \/ (r.path = <<>> /\ ~r.glob)
           \/ \E f \in {"rate", "limit", "minutes"} : r[f] < 0
           \/ r.method \notin {"", "fifo", "random"}
           \/ \E j \in 1..(i - 1) : c.rooms[j].id = r.id

ConfigSafe ==
  /\ phase = "rejected" => Invalid(conf)
  /\ phase \notin {"loading", "rejected"} =>
       /\ ~Invalid(conf)
       /\ \A i \in DOMAIN conf.rooms :
            LET r == conf.rooms[i]
            IN  /\ {r.rate, r.limit, r.minutes} \subseteq Nat \ {0}
                /\ r.method \in {"fifo", "random"}

(* The matcher answers a room that applies and that none beats: a room of  *)
(* the host beats one of all hosts, an exact path a prefix, and a longer   *)
(* prefix a shorter one, in whatever order the rooms are configured        *)
(* (middleware.go:240-299).                                                *)
Applies(r, path, host) ==
  /\ r.enabled
  /\ r.host \in {"", host}
  /\ IF r.glob THEN IsPrefix(r.path, path) ELSE r.path = path

Beats(r, s) ==
  \/ r.host # "" /\ s.host = ""
  \/ r.host = s.host /\ s.glob /\ (~r.glob \/ Len(r.path) > Len(s.path))

MatchMostSpecific ==
  phase = "starting" =>
    \A path \in Paths, host \in Hosts :
      LET applicable == {r \in {conf.rooms[i] : i \in DOMAIN conf.rooms} : Applies(r, path, host)}
          room == Match(conf.rooms, path, host)
      IN  IF applicable = {} THEN room = NoRoom
          ELSE \E r \in applicable : r.id = room /\ \A s \in applicable : ~Beats(s, r)

(* A cookie that was signed for a room verifies with the payload it was    *)
(* given up to the second of its expiry, and not after, unless the room's  *)
(* id contains the separator: such a room's visitors are never recognised  *)
(* (signer.go:75-123).                                                     *)
CodecExact ==
  phase = "starting" =>
    \A room \in RoomIds, status \in {"queued", "active"}, exp \in 1..2, now \in 0..3 :
      LET p == Payload("id", room, status, 0, exp)
      IN  Verify(Sign(p), now) = IF Len(room) > 1 THEN Rejected ELSE IF now > exp THEN Expired ELSE p

(* Whoever is queued is queued in a room that has a worker, and while the  *)
(* server runs that worker runs (main.go:148-158, middleware.go:232-235).  *)
QueueHasWorker ==
  \A h \in Handlers : req[h].pc = "page" =>
    worker[req[h].room] \in (IF phase = "running" THEN {"running"} ELSE {"running", "stopped"})

(* A signal ends the process: when every request in flight is answered, or *)
(* with an error after the deadline (main.go:178-193).                     *)
ShutdownEnds ==
  (phase = "stopping") ~> (phase = "aborted" \/ (phase = "stopped" /\ InFlight = {}))

-----------------------------------------------------------------------------
(* README.md:462 says that without an origin the demo handler answers, and *)
(* middleware.go:28 that a nil OriginProxy falls back to it.               *)
OriginServed == \A h \in Handlers : req[h].pc # "panicked"
=============================================================================
