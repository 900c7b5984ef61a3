--------------------------- MODULE AdmissionWorker ---------------------------
(***************************************************************************)
(* The background admission loop of internal/waitingroom/worker.go: every  *)
(* tick cleans up, counts the active sessions, refills an integer token    *)
(* bucket, spends whole tokens, pops that many visitors from the queue and *)
(* promotes them one by one.                                               *)
(*                                                                         *)
(* Only the worker's own variables live here.  What the store answers is a *)
(* parameter of the actions: AdmissionRate lets it answer anything,        *)
(* WaitingRoom ties it to the in-memory store and the request handlers.    *)
(***************************************************************************)
EXTENDS Integers

CONSTANTS
  NewUsersPerMinute,  \* config: new_users_per_minute
  TotalActiveUsers,   \* config: total_active_users
  TicksPerMinute      \* time.Minute / tickInterval, 12 in the program

(* config.Validate rejects a room whose rate or capacity is not positive,  *)
(* and tickInterval is 5 seconds.                                          *)
ASSUME WorkerAssumption ==
  /\ NewUsersPerMinute \in Nat \ {0}
  /\ TotalActiveUsers \in Nat \ {0}
  /\ TicksPerMinute \in Nat \ {0}

VARIABLES
  pc,        \* where the loop is: waiting in select, inside tick, or stopped
  bucket,    \* tokens carried over, scaled by TicksPerMinute
  toAdmit,   \* visitors this tick may pop
  batch      \* how many popped visitors are still to be promoted

WorkerInit ==
  /\ pc = "select"
  /\ bucket = 0
  /\ toAdmit = 0
  /\ batch = 0

-----------------------------------------------------------------------------
(* The arithmetic of tick.                                                 *)

Available(active) == TotalActiveUsers - active

Refilled == bucket + NewUsersPerMinute

(* A slip: rounding up. *)
GrantedRoundedUp == (Refilled + TicksPerMinute - 1) \div TicksPerMinute

Granted == Refilled \div TicksPerMinute

(* A slip: the cap left out. *)
CappedNever(n, limit) == n

Capped(n, limit) == IF n > limit THEN limit ELSE n

-----------------------------------------------------------------------------
(* case <-ticker.C *)
TakeTick ==
  /\ pc = "select"
  /\ pc' = "cleanup"
  /\ UNCHANGED <<bucket, toAdmit, batch>>

(* case <-ctx.Done() *)
Stop ==
  /\ pc = "select"
  /\ pc' = "stopped"
  /\ UNCHANGED <<bucket, toAdmit, batch>>

(* CleanupExpiredActive: an error is logged and the tick goes on. *)
Cleanup ==
  /\ pc = "cleanup"
  /\ pc' = "count"
  /\ UNCHANGED <<bucket, toAdmit, batch>>

(* ActiveCount fails, or leaves no free slot: the tick ends and the bucket *)
(* is not refilled.                                                        *)
CountFails ==
  /\ pc = "count"
  /\ pc' = "select"
  /\ UNCHANGED <<bucket, toAdmit, batch>>

CountFull(active) == Available(active) <= 0 /\ CountFails

(* A slip: the refill is stored only by a tick that admits. *)
CountSavesNothing(active) ==
  /\ pc = "count"
  /\ Available(active) > 0
  /\ Granted <= 0
  /\ pc' = "select"
  /\ UNCHANGED <<bucket, toAdmit, batch>>

(* A free slot but less than one whole token: the tokens are kept. *)
CountSaves(active) ==
  /\ pc = "count"
  /\ Available(active) > 0
  /\ Granted <= 0
  /\ bucket' = Refilled
  /\ pc' = "select"
  /\ UNCHANGED <<toAdmit, batch>>

(* Two slips: paying only for the capped grant, and paying one unit of the *)
(* scaled bucket for each visitor.                                         *)
CountGrantsAfterCap(active) ==
  /\ pc = "count"
  /\ Available(active) > 0
  /\ Granted > 0
  /\ toAdmit' = Capped(Granted, Available(active))
  /\ bucket' = Refilled - toAdmit' * TicksPerMinute
  /\ pc' = "pop"
  /\ UNCHANGED batch

CountGrantsUnscaled(active) ==
  /\ pc = "count"
  /\ Available(active) > 0
  /\ Granted > 0
  /\ bucket' = Refilled - Granted
  /\ toAdmit' = Capped(Granted, Available(active))
  /\ pc' = "pop"
  /\ UNCHANGED batch

(* Whole tokens are spent before the grant is capped by the free slots, so *)
(* what the cap cuts off is forfeited.                                     *)
CountGrants(active) ==
  /\ pc = "count"
  /\ Available(active) > 0
  /\ Granted > 0
  /\ bucket' = Refilled - Granted * TicksPerMinute
  /\ toAdmit' = Capped(Granted, Available(active))
  /\ pc' = "pop"
  /\ UNCHANGED batch

(* PopForAdmission answers n items, at most toAdmit, or an error (n = 0    *)
(* stands for both an error and an empty answer: either way the tick ends). *)
Pop(n) ==
  /\ pc = "pop"
  /\ n <= toAdmit
  /\ toAdmit' = 0
  /\ batch' = n
  /\ pc' = IF n = 0 THEN "select" ELSE "stamp"
  /\ UNCHANGED bucket

(* exp := time.Now().Add(sessionDuration), once for the whole batch. *)
Stamp ==
  /\ pc = "stamp"
  /\ pc' = "promote"
  /\ UNCHANGED <<bucket, toAdmit, batch>>

(* AddActive of the next item; an error is logged and the loop goes on. *)
Promote ==
  /\ pc = "promote"
  /\ batch' = batch - 1
  /\ pc' = IF batch' = 0 THEN "select" ELSE "promote"
  /\ UNCHANGED <<bucket, toAdmit>>

-----------------------------------------------------------------------------
WorkerTypeOK ==
  /\ pc \in {"select", "cleanup", "count", "pop", "stamp", "promote", "stopped"}
  /\ bucket \in Nat
  /\ toAdmit \in Nat
  /\ batch \in Nat

(* The bucket never holds a whole token between ticks: a room that stayed  *)
(* full, or empty, for an hour does not release a burst afterwards.  One   *)
(* tick pops at most its share of the rate, rounded up (worker.go:84-91).  *)
NoBankedBurst ==
  /\ bucket < TicksPerMinute
  /\ TicksPerMinute * toAdmit < NewUsersPerMinute + TicksPerMinute
=============================================================================
