---------------------------- MODULE WaitingPage ----------------------------
(***************************************************************************)
(* A visitor's whole way through the waiting room: the waiting page polls  *)
(* the status endpoint, reloads itself when told to, and the reload is     *)
(* admitted or queued (templates/waiting.html, internal/api/status.go,     *)
(* internal/api/middleware.go), while the worker empties the queue.        *)
(*                                                                         *)
(* The question here is whether somebody who waits gets in, over any       *)
(* number of ticks and sessions.  Time is abstracted to the order of       *)
(* events and a request is one step; WaitingRoom has the clock and the     *)
(* interleaving of store calls.  What parts a visitor from its place (the  *)
(* cookie expires, a session is over before the page has noticed it, an    *)
(* AddActive fails, a reload falls between pop and promotion, the response *)
(* that carries a new cookie is lost) is a mishap, counted and bounded.    *)
(* A page that stops polling (the tab is closed, a reload is answered 500, *)
(* the template has no script) is silent: it keeps its place and waits for *)
(* its owner, and that may happen any number of times.                     *)
(***************************************************************************)
EXTENDS Integers, Sequences, FiniteSets, SequencesExt

CONSTANTS
  Visitors,           \* browsers
  Ghost,              \* a place whose cookie is gone
  TotalActiveUsers,   \* config: total_active_users
  NewUsersPerMinute,  \* config: new_users_per_minute
  TicksPerMinute,     \* time.Minute / tickInterval
  Rooms,              \* what else may be configured, as in RoomOptions
  MaxMishaps          \* bound

(* scripted: whether the template polls; a custom one need not.            *)
RoomOptions ==
  [queueAll : BOOLEAN, queueingMethod : {"fifo", "random"},
   disableSessionRenewal : BOOLEAN, scripted : BOOLEAN]

ASSUME PageAssumption ==
  /\ IsFiniteSet(Visitors) /\ Ghost \notin Visitors
  /\ TotalActiveUsers \in Nat \ {0}
  /\ NewUsersPerMinute \in Nat \ {0}
  /\ TicksPerMinute \in Nat \ {0}
  /\ Rooms \subseteq RoomOptions
  /\ MaxMishaps \in Nat

VARIABLES
  room,       \* how the room is configured
  page,       \* what each visitor has in front of it
  cookie,     \* whether its queued cookie is there and has not expired
  queue,      \* whose places, first to last
  popped,     \* the worker's batch
  active,     \* visitors with a session
  due,        \* those whose session is over unless they renew it
  ghosts,     \* sessions whose cookie is gone
  pc, bucket, toAdmit,  \* the worker
  mishaps     \* history

worker == <<pc, bucket, toAdmit>>
places == <<queue, popped, active, due, ghosts>>
vars == <<room, page, cookie, places, worker, mishaps>>

Worker == INSTANCE AdmissionWorker WITH batch <- Len(popped)

Init ==
  /\ room \in Rooms
  /\ page = [v \in Visitors |-> "away"]
  /\ cookie = [v \in Visitors |-> FALSE]
  /\ queue = <<>> /\ popped = <<>> /\ active = {} /\ due = {} /\ ghosts = 0
  /\ pc = "select" /\ bucket = 0 /\ toAdmit = 0
  /\ mishaps = 0

ActiveCount == Cardinality(active) + ghosts

Queued(v) == v \in ToSet(queue)

Popped(v) == v \in ToSet(popped)

Placed(v) == Queued(v) \/ Popped(v) \/ v \in active

Mishap == mishaps < MaxMishaps /\ mishaps' = mishaps + 1

Show(v, what) == page' = [page EXCEPT ![v] = what]

(* A page without the script is silent from the start. *)
Rendered == IF room.scripted THEN "waiting" ELSE "silent"

(* The place of v is nobody's from now on. *)
Disown(s, v) == [k \in DOMAIN s |-> IF s[k] = v THEN Ghost ELSE s[k]]

-----------------------------------------------------------------------------
(* Requests for the page. *)

(* A slip: queue_all forgotten. *)
ShouldQueueWhenFull(count) == count >= TotalActiveUsers

ShouldQueue(count) == room.queueAll \/ count >= TotalActiveUsers

(* admitOrQueue, with a new id; s is the queue as it is for others. *)
AdmitOrQueue(v, s) ==
  \/ /\ ShouldQueue(ActiveCount)
     /\ queue' = Append(s, v)
     /\ cookie' = [cookie EXCEPT ![v] = TRUE]
     /\ Show(v, Rendered)
     /\ UNCHANGED active
  \/ /\ ~ShouldQueue(ActiveCount)
     /\ queue' = s
     /\ active' = active \cup {v}
     /\ Show(v, "origin")
     /\ UNCHANGED cookie

(* A first visit, or one after the session. *)
Visit(v) ==
  /\ page[v] = "away"
  /\ AdmitOrQueue(v, queue)
  /\ UNCHANGED <<room, popped, due, ghosts, worker, mishaps>>

(* The reload of a visitor who has been promoted. *)
Enter(v) ==
  /\ v \in active
  /\ Show(v, "origin")
  /\ UNCHANGED <<room, cookie, places, worker, mishaps>>

(* A slip: the place of a queued visitor is not looked up. *)
RenderAnew(v) ==
  /\ Queued(v)
  /\ AdmitOrQueue(v, Disown(queue, v))
  /\ UNCHANGED <<room, popped, due, ghosts, worker, mishaps>>

(* The reload of one who is queued: the same place. *)
RenderAgain(v) ==
  /\ Queued(v)
  /\ Show(v, Rendered)
  /\ UNCHANGED <<room, cookie, places, worker, mishaps>>

(* The reload of one whose id the store does not know. *)
StartOver(v) ==
  /\ ~Placed(v)
  /\ AdmitOrQueue(v, queue)
  /\ UNCHANGED <<room, popped, due, ghosts, worker, mishaps>>

(* The reload comes between the pop and the promotion. *)
StartOverTooSoon(v) ==
  /\ Mishap
  /\ Popped(v)
  /\ popped' = Disown(popped, v)
  /\ AdmitOrQueue(v, queue)
  /\ UNCHANGED <<room, due, ghosts, worker>>

Reload(v) == Enter(v) \/ RenderAgain(v) \/ StartOver(v) \/ StartOverTooSoon(v)

(* Whoever has the page open, or comes back to it, may reload it.          *)
UserReloads(v) == page[v] \in {"waiting", "silent"} /\ Reload(v)

PageReloads(v) == page[v] = "loading" /\ Reload(v)

(* The request of a new visitor is served and its response lost, or it     *)
(* fails after the id was queued: nobody has the cookie of the new place.  *)
ResponseLost(v) ==
  /\ Mishap
  /\ page[v] # "origin" /\ ~Queued(v) /\ v \notin active
  /\ \/ ShouldQueue(ActiveCount) /\ queue' = Append(queue, Ghost) /\ UNCHANGED ghosts
     \/ ~ShouldQueue(ActiveCount) /\ ghosts' = ghosts + 1 /\ UNCHANGED queue
  /\ Show(v, "silent")
  /\ UNCHANGED <<room, cookie, popped, active, due, worker>>

(* The tab is closed, or a reload that makes no new place ends with an     *)
(* error: nothing polls any more, and the cookie and the place stay.       *)
FallSilent(v) ==
  /\ page[v] \in {"waiting", "loading"}
  /\ Show(v, "silent")
  /\ UNCHANGED <<room, cookie, places, worker, mishaps>>

(* A slip: a page that is told 401 goes on polling. *)
PollUntilActive(v) ==
  /\ page[v] = "waiting"
  /\ cookie[v] /\ v \in active
  /\ Show(v, "loading")
  /\ UNCHANGED <<room, cookie, places, worker, mishaps>>

(* The poll that makes the page reload itself: 401 without a valid cookie, *)
(* is_active with a session.  Otherwise the page stays, also for an id     *)
(* that is nowhere, which is told position 0.                              *)
Poll(v) ==
  /\ page[v] = "waiting"
  /\ ~cookie[v] \/ v \in active
  /\ Show(v, "loading")
  /\ UNCHANGED <<room, cookie, places, worker, mishaps>>

-----------------------------------------------------------------------------
(* Time passes.  *)

(* The queued cookie is never renewed: 30 minutes after it was issued it   *)
(* is over, and the place with it.                                         *)
CookieExpires(v) ==
  /\ page[v] \in {"waiting", "loading", "silent"} /\ cookie[v]
  /\ Placed(v) /\ Mishap
  /\ cookie' = [cookie EXCEPT ![v] = FALSE]
  /\ queue' = Disown(queue, v) /\ popped' = Disown(popped, v)
  /\ active' = active \ {v} /\ due' = due \ {v}
  /\ ghosts' = IF v \in active THEN ghosts + 1 ELSE ghosts
  /\ UNCHANGED <<room, page, worker>>

(* So it is for one who has no place any more: the way out. *)
LostCookieExpires(v) ==
  /\ page[v] \in {"waiting", "loading", "silent"} /\ cookie[v] /\ ~Placed(v)
  /\ cookie' = [cookie EXCEPT ![v] = FALSE]
  /\ UNCHANGED <<room, page, places, worker, mishaps>>

(* A session has almost run its time: used, or kept by a silent page.      *)
SessionDue(v) ==
  /\ v \in active \ due /\ page[v] \in {"origin", "silent"}
  /\ due' = due \cup {v}
  /\ UNCHANGED <<room, page, cookie, queue, popped, active, ghosts, worker, mishaps>>

(* A slip: disable_session_renewal is not looked at. *)
BrowseAnyway(v) ==
  /\ v \in due /\ page[v] = "origin"
  /\ due' = due \ {v}
  /\ UNCHANGED <<room, page, cookie, queue, popped, active, ghosts, worker, mishaps>>

(* A request at the origin gives it its full time again, if it is allowed  *)
(* to: a visitor who goes on browsing keeps the slot.                      *)
Browse(v) ==
  /\ v \in due /\ page[v] = "origin" /\ ~room.disableSessionRenewal
  /\ due' = due \ {v}
  /\ UNCHANGED <<room, page, cookie, queue, popped, active, ghosts, worker, mishaps>>

(* It is over, and the cookie of a visitor who was at the origin with it.  *)
SessionEnds(v) ==
  /\ v \in due
  /\ active' = active \ {v} /\ due' = due \ {v}
  /\ IF page[v] = "origin"
       THEN Show(v, "away") /\ cookie' = [cookie EXCEPT ![v] = FALSE]
       ELSE UNCHANGED <<page, cookie>>
  /\ UNCHANGED <<room, queue, popped, ghosts, worker, mishaps>>

(* It is over before a page that polls has asked. *)
SessionUnused(v) ==
  /\ Mishap
  /\ v \in active /\ page[v] \in {"waiting", "loading"}
  /\ active' = active \ {v} /\ due' = due \ {v}
  /\ UNCHANGED <<room, page, cookie, queue, popped, ghosts, worker>>

GhostEnds ==
  /\ ghosts > 0
  /\ ghosts' = ghosts - 1
  /\ UNCHANGED <<room, page, cookie, queue, popped, active, due, worker, mishaps>>

-----------------------------------------------------------------------------
(* The worker: a tick, up to the pop, and each promotion. *)

Count ==
  /\ UNCHANGED <<room, page, cookie, places, mishaps>>
  /\ \/ Worker!TakeTick
     \/ Worker!Cleanup
     \/ Worker!CountFull(ActiveCount)
     \/ Worker!CountSaves(ActiveCount)
     \/ Worker!CountGrants(ActiveCount)
     \/ Worker!Stamp

(* A slip: drawing lots whatever the queueing method. *)
DrawsAnyone(n) ==
  {draw \in Injection(DOMAIN queue, DOMAIN queue) :
     \A k, l \in n + 1..Len(queue) : k < l => draw[k] < draw[l]}

(* The first of the queue, or anyone; those who are left keep their order. *)
Draws(n) ==
  IF room.queueingMethod = "fifo"
    THEN {[k \in DOMAIN queue |-> k]}
    ELSE {draw \in Injection(DOMAIN queue, DOMAIN queue) :
            \A k, l \in n + 1..Len(queue) : k < l => draw[k] < draw[l]}

Pop ==
  /\ pc = "pop"
  /\ LET n == IF toAdmit < Len(queue) THEN toAdmit ELSE Len(queue)
     IN  /\ \E draw \in Draws(n) :
              LET drawn == [k \in DOMAIN queue |-> queue[draw[k]]]
              IN  /\ popped' = SubSeq(drawn, 1, n)
                  /\ queue' = SubSeq(drawn, n + 1, Len(queue))
         /\ pc' = IF n = 0 THEN "select" ELSE "stamp"
         /\ toAdmit' = 0
  /\ UNCHANGED <<room, page, cookie, active, due, ghosts, bucket, mishaps>>

NextItem ==
  /\ pc = "promote"
  /\ popped' = Tail(popped)
  /\ pc' = IF Len(popped) = 1 THEN "select" ELSE "promote"
  /\ UNCHANGED <<room, page, cookie, queue, due, bucket, toAdmit>>

Promote ==
  /\ NextItem
  /\ active' = active \cup ({Head(popped)} \ {Ghost})
  /\ ghosts' = IF Head(popped) = Ghost THEN ghosts + 1 ELSE ghosts
  /\ UNCHANGED mishaps

(* AddActive fails: logged, and on to the next. *)
PromoteFails ==
  /\ NextItem
  /\ Mishap
  /\ UNCHANGED <<active, ghosts>>

-----------------------------------------------------------------------------
(* What the polling script does of itself, what the clock does, and the    *)
(* worker with its ticker.                                                 *)
ScriptStep(v) == Poll(v) \/ PageReloads(v)

ClockStep(v) == LostCookieExpires(v) \/ SessionDue(v) \/ SessionEnds(v)

WorkerStep == Count \/ Pop \/ Promote

Next ==
  \/ \E v \in Visitors :
       \/ Visit(v)
       \/ UserReloads(v)
       \/ ResponseLost(v)
       \/ FallSilent(v)
       \/ ScriptStep(v)
       \/ ClockStep(v)
       \/ CookieExpires(v)
       \/ Browse(v)
       \/ SessionUnused(v)
  \/ GhostEnds
  \/ WorkerStep
  \/ PromoteFails

(* Nobody has to come, to reload or to stop browsing, and a session that   *)
(* is renewed whenever it is due never ends.                               *)
Fairness ==
  /\ WF_vars(WorkerStep)
  /\ WF_vars(GhostEnds)
  /\ \A v \in Visitors : WF_vars(ScriptStep(v)) /\ WF_vars(ClockStep(v))

Spec == Init /\ [][Next]_vars /\ Fairness

-----------------------------------------------------------------------------
TypeOK ==
  /\ room \in Rooms
  /\ page \in [Visitors -> {"away", "waiting", "loading", "silent", "origin"}]
  /\ cookie \in [Visitors -> BOOLEAN]
  /\ queue \in Seq(Visitors \cup {Ghost}) /\ popped \in Seq(Visitors \cup {Ghost})
  /\ active \subseteq Visitors /\ due \subseteq active /\ ghosts \in 0..MaxMishaps
  /\ Worker!WorkerTypeOK /\ bucket < TicksPerMinute
  /\ mishaps \in 0..MaxMishaps

(* Whoever waits on a page that goes on polling is let in (README.md:295,  *)
(* waiting.html:333-360, worker.go:63-112): the queue, the bucket, the     *)
(* polling and the reload together leave nobody waiting for ever, however  *)
(* many others come, go or fall silent.  It takes a queue that is first in *)
(* first out, that nobody goes past (queue_all), and sessions that end     *)
(* whatever their owners do (disable_session_renewal).                     *)
Promised == room.queueAll /\ room.queueingMethod = "fifo" /\ room.disableSessionRenewal

EventuallyAdmitted ==
  \A v \in Visitors :
    (Promised /\ page[v] = "waiting") ~> (page[v] \in {"origin", "silent"})

(* A page waits for a place that exists, and a place exists for a page     *)
(* that waits or its silent owner; what is lost on one side or the other   *)
(* is one per mishap (service.go:136-168, worker.go:98-111,                *)
(* middleware.go:116-130).                                                 *)
LostVisitors == {v \in Visitors : page[v] \in {"waiting", "loading"} /\ ~Placed(v)}

Line == popped \o queue

Places(s, x) == {k \in DOMAIN s : s[k] = x}

GhostPlaces == Cardinality(Places(Line, Ghost)) + ghosts

PlacesMatchPages ==
  /\ Cardinality(LostVisitors) <= mishaps
  /\ GhostPlaces <= mishaps
  /\ \A v \in Visitors :
       /\ Cardinality(Places(Line, v)) + (IF v \in active THEN 1 ELSE 0) <= 1
       /\ page[v] = "away" => ~Placed(v)
       /\ page[v] = "origin" => v \in active
=============================================================================
