---------------------------- MODULE AdmissionRate ----------------------------
(***************************************************************************)
(* The admission worker over any store: each call may answer whatever the  *)
(* interface of internal/room/store.go allows, an error included, so what  *)
(* is shown here holds over MemStore and over RedisStore.  History         *)
(* variables count ticks, pops and forfeited tokens, and an observer marks *)
(* an earlier moment to measure a window from it.                          *)
(***************************************************************************)
EXTENDS AdmissionWorker

CONSTANTS
  ActiveCounts,       \* what ActiveCount may answer
  MaxTicks            \* bound: ticks explored

ASSUME RateAssumption ==
  /\ ActiveCounts \subseteq Nat
  /\ MaxTicks \in Nat

VARIABLES
  ticks,     \* history: ticks taken from the ticker
  popped,    \* history: visitors popped
  skipped,   \* history: ticks that returned before the refill
  forfeited, \* history: visitors' worth of tokens spent without a pop
  mark       \* observer: the counters at an earlier select

worker == <<pc, bucket, toAdmit, batch>>

vars == <<pc, bucket, toAdmit, batch, ticks, popped, skipped, forfeited, mark>>

Init ==
  /\ WorkerInit
  /\ ticks = 0
  /\ popped = 0
  /\ skipped = 0
  /\ forfeited = 0
  /\ mark = [ticks |-> 0, popped |-> 0]

-----------------------------------------------------------------------------
(* The worker's steps with what they add to the history. *)
Ticks ==
  /\ TakeTick
  /\ ticks < MaxTicks
  /\ ticks' = ticks + 1
  /\ UNCHANGED <<popped, skipped, forfeited, mark>>

Skips ==
  /\ CountFails \/ \E active \in ActiveCounts : CountFull(active)
  /\ skipped' = skipped + 1
  /\ UNCHANGED <<ticks, popped, forfeited, mark>>

Grants(active) ==
  /\ CountGrants(active)
  /\ forfeited' = forfeited + (Granted - toAdmit')
  /\ UNCHANGED <<ticks, popped, skipped, mark>>

Pops(n) ==
  /\ Pop(n)
  /\ popped' = popped + n
  /\ forfeited' = forfeited + (toAdmit - n)
  /\ UNCHANGED <<ticks, skipped, mark>>

Others ==
  /\ Stop \/ Cleanup \/ Stamp \/ Promote \/ \E active \in ActiveCounts : CountSaves(active)
  /\ UNCHANGED <<ticks, popped, skipped, forfeited, mark>>

(* The observer remembers an earlier moment. *)
Observe ==
  /\ pc = "select"
  /\ mark' = [ticks |-> ticks, popped |-> popped]
  /\ UNCHANGED <<worker, ticks, popped, skipped, forfeited>>

Next ==
  \/ Ticks
  \/ Skips
  \/ \E active \in ActiveCounts : Grants(active)
  \/ \E n \in 0..toAdmit : Pops(n)
  \/ Others
  \/ Observe

Spec == Init /\ [][Next]_vars

-----------------------------------------------------------------------------
TypeOK ==
  /\ WorkerTypeOK
  /\ ticks \in Nat
  /\ popped \in Nat
  /\ skipped \in Nat
  /\ forfeited \in Nat
  /\ mark \in [ticks : Nat, popped : Nat]

(* Tokens are accounted for to the last one: what the refilled ticks added *)
(* is in the bucket, was spent on a popped visitor, is granted and not yet *)
(* popped, or was forfeited to the cap or to a queue that was too short.   *)
(* This is what "avoids floating-point drift across many ticks" promises   *)
(* of the accumulator of Start and tick (worker.go:38-42).                 *)
Refills == ticks - skipped - (IF pc \in {"cleanup", "count"} THEN 1 ELSE 0)

TokenConservation ==
  TicksPerMinute * (popped + toAdmit + forfeited) + bucket
    = NewUsersPerMinute * Refills

(* The admission rate of config new_users_per_minute, over any window and  *)
(* not only from the start: since any earlier moment at which the worker   *)
(* was waiting, one minute's worth of ticks or less has popped at most     *)
(* NewUsersPerMinute visitors, whatever the store answered in between.     *)
MinuteLimit ==
  ticks - mark.ticks <= TicksPerMinute => popped - mark.popped <= NewUsersPerMinute
=============================================================================
