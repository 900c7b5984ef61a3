------------------------- MODULE AdmissionRateProofs -------------------------
(***************************************************************************)
(* The admission worker's invariants, for every rate, capacity, tick       *)
(* interval and every answer of the store.  The inductive invariant adds   *)
(* to the checked ones which counters are in use at which point of a tick  *)
(* and the bound of the observed window (WindowBound).                     *)
(***************************************************************************)
EXTENDS AdmissionRate, ArithmeticFacts

(* toAdmit is set only between the count and the pop, batch only while a   *)
(* popped batch is being promoted.                                         *)
PhaseInv ==
  /\ pc # "pop" => toAdmit = 0
  /\ pc = "pop" => toAdmit > 0
  /\ pc \in {"stamp", "promote"} <=> batch > 0

(* Ticks whose refill lies behind the program counter, skipped or not.     *)
Counted == ticks - (IF pc \in {"cleanup", "count"} THEN 1 ELSE 0)

(* What was popped since the mark is paid for by the refills since the     *)
(* mark and by the fraction of a token the bucket held then.               *)
WindowBound ==
  /\ Counted - mark.ticks \in Nat
  /\ TicksPerMinute * (popped + toAdmit - mark.popped) + bucket
       <= NewUsersPerMinute * (Counted - mark.ticks) + TicksPerMinute - 1

IInv ==
  /\ TypeOK
  /\ PhaseInv
  /\ TokenConservation
  /\ NoBankedBurst
  /\ WindowBound

-----------------------------------------------------------------------------
(* The initial state. *)
LEMMA InitIInv == Init => IInv
BY WorkerAssumption DEF Init, WorkerInit, IInv, TypeOK, WorkerTypeOK, PhaseInv,
     TokenConservation, Refills, NoBankedBurst, WindowBound, Counted

(* A granted batch is positive, no larger than the tokens it was paid with, *)
(* and the tokens left are a fraction of one.                               *)
LEMMA GrantFacts ==
  ASSUME IInv, NEW active \in Nat, Available(active) > 0, Granted > 0
  PROVE  /\ Refilled \in Nat
         /\ Granted \in Nat
         /\ Capped(Granted, Available(active)) \in 1..Granted
         /\ TicksPerMinute * Granted <= Refilled
         /\ Refilled - TicksPerMinute * Granted < TicksPerMinute
         /\ Granted * TicksPerMinute = TicksPerMinute * Granted
<1>1. Refilled \in Nat
  BY WorkerAssumption DEF IInv, TypeOK, WorkerTypeOK, Refilled
<1>2. /\ Granted \in Nat
      /\ TicksPerMinute * Granted <= Refilled
      /\ Refilled - TicksPerMinute * Granted < TicksPerMinute
      /\ Granted * TicksPerMinute = TicksPerMinute * Granted
  BY <1>1, DivisionBounds, WorkerAssumption DEF Granted
<1>3. Available(active) \in Int
  BY WorkerAssumption DEF Available
<1>4. Capped(Granted, Available(active)) \in 1..Granted
  BY <1>2, <1>3 DEF Capped
<1>. QED
  BY <1>1, <1>2, <1>4

(* Every step keeps the inductive invariant. *)
LEMMA StepIInv == IInv /\ [Next]_vars => IInv'
<1>. SUFFICES ASSUME IInv, [Next]_vars PROVE IInv'
  OBVIOUS
<1>. USE WorkerAssumption, RateAssumption
<1>1. CASE Ticks
  BY <1>1 DEF IInv, TypeOK, WorkerTypeOK, PhaseInv, TokenConservation, Refills,
              NoBankedBurst, WindowBound, Counted, Ticks, TakeTick
<1>2. CASE Skips
  <2>1. Counted' = Counted + 1 /\ Refills' = Refills
    BY <1>2 DEF Skips, CountFull, CountFails, Counted, Refills, IInv, TypeOK, WorkerTypeOK
  <2>2. NewUsersPerMinute * (Counted' - mark.ticks)
          = NewUsersPerMinute * (Counted - mark.ticks) + NewUsersPerMinute
    <3>1. Counted \in Int /\ Counted' \in Int /\ mark.ticks \in Int
      BY <2>1 DEF IInv, TypeOK, WorkerTypeOK, Counted
    <3>. QED
      BY <2>1, <3>1, OneMore
  <2>3. WindowBound'
    BY <1>2, <2>1, <2>2 DEF Skips, CountFull, CountFails, WindowBound, IInv, TypeOK, WorkerTypeOK, Counted
  <2>4. TokenConservation'
    BY <1>2, <2>1 DEF Skips, CountFull, CountFails, TokenConservation, IInv
  <2>5. TypeOK' /\ PhaseInv' /\ NoBankedBurst'
    BY <1>2 DEF Skips, CountFull, CountFails, TypeOK, WorkerTypeOK, PhaseInv, NoBankedBurst, IInv
  <2>. QED
    BY <2>3, <2>4, <2>5 DEF IInv
<1>3. ASSUME NEW active \in ActiveCounts, CountSaves(active),
            UNCHANGED <<ticks, popped, skipped, forfeited, mark>>
      PROVE  IInv'
  <2>1. Refilled \in Nat
    BY DEF IInv, TypeOK, WorkerTypeOK, Refilled
  <2>2. Granted \in Nat /\ Refilled - TicksPerMinute * Granted < TicksPerMinute
    BY <2>1, DivisionBounds DEF Granted
  <2>3. Granted = 0
    BY <2>2, <1>3 DEF CountSaves
  <2>4. bucket' = bucket + NewUsersPerMinute /\ bucket' < TicksPerMinute
    BY <2>1, <2>2, <2>3, <1>3 DEF CountSaves, Refilled
  <2>5. Counted' = Counted + 1 /\ Refills' = Refills + 1
    BY <1>3 DEF CountSaves, Counted, Refills, IInv, TypeOK, WorkerTypeOK
  <2>6. NewUsersPerMinute * (Counted' - mark.ticks)
          = NewUsersPerMinute * (Counted - mark.ticks) + NewUsersPerMinute
    BY <2>5 DEF IInv, TypeOK, WorkerTypeOK, Counted
  <2>7. NewUsersPerMinute * Refills' = NewUsersPerMinute * Refills + NewUsersPerMinute
    BY <2>5 DEF IInv, TypeOK, WorkerTypeOK, Refills
  <2>8. WindowBound'
    BY <1>3, <2>4, <2>5, <2>6 DEF CountSaves, WindowBound, IInv, TypeOK, WorkerTypeOK, Counted
  <2>9. TokenConservation'
    BY <1>3, <2>4, <2>7 DEF CountSaves, TokenConservation, IInv, TypeOK, WorkerTypeOK
  <2>10. TypeOK' /\ PhaseInv' /\ NoBankedBurst'
    BY <1>3, <2>4 DEF CountSaves, TypeOK, WorkerTypeOK, PhaseInv, NoBankedBurst, IInv
  <2>. QED
    BY <2>8, <2>9, <2>10 DEF IInv
<1>4. ASSUME NEW active \in ActiveCounts, Grants(active) PROVE IInv'
  <2>. DEFINE g == Granted
              c == Capped(Granted, Available(active))
  <2>1. /\ Refilled \in Nat /\ g \in Nat /\ c \in 1..g
        /\ TicksPerMinute * g <= Refilled
        /\ Refilled - TicksPerMinute * g < TicksPerMinute
        /\ g * TicksPerMinute = TicksPerMinute * g
    BY <1>4, GrantFacts DEF Grants, CountGrants
  <2>2. /\ Refilled = bucket + NewUsersPerMinute
        /\ bucket' = Refilled - TicksPerMinute * g
        /\ toAdmit' = c /\ toAdmit = 0
        /\ forfeited' = forfeited + (g - c)
    BY <1>4, <2>1 DEF Grants, CountGrants, Refilled, IInv, PhaseInv
  <2>. HIDE DEF g, c
  <2>3. Counted' = Counted + 1 /\ Refills' = Refills + 1
    BY <1>4 DEF Grants, CountGrants, Counted, Refills, IInv, TypeOK, WorkerTypeOK
  <2>4. NewUsersPerMinute * (Counted' - mark.ticks)
          = NewUsersPerMinute * (Counted - mark.ticks) + NewUsersPerMinute
    BY <2>3 DEF IInv, TypeOK, WorkerTypeOK, Counted
  <2>5. NewUsersPerMinute * Refills' = NewUsersPerMinute * Refills + NewUsersPerMinute
    BY <2>3 DEF IInv, TypeOK, WorkerTypeOK, Refills
  <2>6. /\ popped' = popped /\ mark' = mark /\ ticks' = ticks /\ batch' = batch
        /\ skipped' = skipped /\ pc = "count" /\ pc' = "pop"
    BY <1>4 DEF Grants, CountGrants
  <2>7. TicksPerMinute * c <= TicksPerMinute * g
    BY <2>1, ScaleOrder
  <2>8. TypeOK'
    BY <2>1, <2>2, <2>6 DEF TypeOK, WorkerTypeOK, IInv
  <2>9. PhaseInv'
    BY <2>1, <2>2, <2>6 DEF PhaseInv, IInv
  <2>10. NoBankedBurst'
    BY <2>1, <2>2, <2>7 DEF NoBankedBurst, IInv, TypeOK, WorkerTypeOK
  <2>11. TokenConservation'
    <3>1. TicksPerMinute * (popped' + toAdmit' + forfeited')
            = TicksPerMinute * (popped + forfeited) + TicksPerMinute * g
      BY <2>1, <2>2, <2>6 DEF IInv, TypeOK, WorkerTypeOK
    <3>. QED
      BY <2>1, <2>2, <2>5, <3>1 DEF TokenConservation, IInv, TypeOK, WorkerTypeOK
  <2>12. WindowBound'
    <3>1. TicksPerMinute * (popped' + toAdmit' - mark'.popped)
            = TicksPerMinute * (popped - mark.popped) + TicksPerMinute * c
      BY <2>1, <2>2, <2>6 DEF IInv, TypeOK, WorkerTypeOK
    <3>2. TicksPerMinute * (popped + toAdmit - mark.popped)
            = TicksPerMinute * (popped - mark.popped)
      BY <2>2 DEF IInv, TypeOK, WorkerTypeOK
    <3>. DEFINE x == TicksPerMinute * (popped - mark.popped)
    <3>3. x \in Int /\ TicksPerMinute * c \in Int /\ TicksPerMinute * g \in Int
      BY <2>1 DEF IInv, TypeOK, WorkerTypeOK
    <3>4. x + bucket <= NewUsersPerMinute * (Counted - mark.ticks) + TicksPerMinute - 1
      BY <3>2 DEF IInv, WindowBound
    <3>5. Counted - mark.ticks \in Nat /\ Counted' - mark'.ticks \in Nat
      BY <2>3, <2>6 DEF IInv, WindowBound, TypeOK, WorkerTypeOK, Counted
    <3>. HIDE DEF x
    <3>6. x + TicksPerMinute * c + bucket'
            <= NewUsersPerMinute * (Counted' - mark.ticks) + TicksPerMinute - 1
      BY <2>1, <2>2, <2>4, <2>7, <3>3, <3>4, <3>5 DEF IInv, TypeOK, WorkerTypeOK
    <3>. QED
      BY <2>6, <3>1, <3>5, <3>6 DEF WindowBound, x
  <2>. QED
    BY <2>8, <2>9, <2>10, <2>11, <2>12 DEF IInv
<1>5. ASSUME NEW n \in 0..toAdmit, Pops(n) PROVE IInv'
  <2>1. n \in Nat /\ toAdmit - n \in Nat
    BY <1>5 DEF IInv, TypeOK, WorkerTypeOK
  <2>2. Counted' = Counted /\ Refills' = Refills
    BY <1>5 DEF Pops, Pop, Counted, Refills
  <2>3. /\ popped' + toAdmit' + forfeited' = popped + toAdmit + forfeited
        /\ popped' + toAdmit' - mark'.popped <= popped + toAdmit - mark.popped
    BY <1>5, <2>1 DEF Pops, Pop, IInv, TypeOK, WorkerTypeOK
  <2>4. TicksPerMinute * (popped' + toAdmit' - mark'.popped)
          <= TicksPerMinute * (popped + toAdmit - mark.popped)
    BY <1>5, <2>1, <2>3, ScaleOrder DEF Pops, Pop, IInv, TypeOK, WorkerTypeOK
  <2>5. WindowBound'
    <3>. DEFINE y  == TicksPerMinute * (popped + toAdmit - mark.popped)
                y1 == TicksPerMinute * (popped' + toAdmit' - mark'.popped)
                z  == NewUsersPerMinute * (Counted - mark.ticks)
    <3>1. y \in Int /\ y1 \in Int /\ z \in Int
      BY <1>5, <2>1 DEF IInv, TypeOK, WorkerTypeOK, Pops, Pop, Counted
    <3>2. y + bucket <= z + TicksPerMinute - 1 /\ y1 <= y /\ bucket' = bucket
          /\ mark' = mark
      BY <1>5, <2>4 DEF IInv, WindowBound, Pops, Pop
    <3>. HIDE DEF y, y1, z
    <3>3. y1 + bucket' <= z + TicksPerMinute - 1
      BY <3>1, <3>2 DEF IInv, TypeOK, WorkerTypeOK
    <3>. QED
      BY <2>2, <3>2, <3>3 DEF WindowBound, IInv, y, y1, z
  <2>6. TokenConservation'
    BY <1>5, <2>2, <2>3 DEF Pops, Pop, TokenConservation, IInv
  <2>7. TypeOK' /\ PhaseInv' /\ NoBankedBurst'
    BY <1>5, <2>1 DEF Pops, Pop, TypeOK, WorkerTypeOK, PhaseInv, NoBankedBurst, IInv
  <2>. QED
    BY <2>5, <2>6, <2>7 DEF IInv
<1>6. ASSUME Stop \/ Cleanup \/ Stamp \/ Promote,
             UNCHANGED <<ticks, popped, skipped, forfeited, mark>>
      PROVE  IInv'
  <2>1. /\ UNCHANGED <<bucket, toAdmit, ticks, popped, skipped, forfeited, mark>>
        /\ Counted' = Counted /\ Refills' = Refills
    BY <1>6 DEF Stop, Cleanup, Stamp, Promote, Counted, Refills
  <2>2. TypeOK' /\ PhaseInv'
    BY <1>6 DEF IInv, TypeOK, WorkerTypeOK, PhaseInv, Stop, Cleanup, Stamp, Promote
  <2>. QED
    BY <2>1, <2>2 DEF IInv, TokenConservation, NoBankedBurst, WindowBound
<1>7. CASE Others
  BY <1>3, <1>6, <1>7 DEF Others
<1>8. CASE Observe
  <2>1. Counted' - mark'.ticks = 0 /\ popped' + toAdmit' - mark'.popped = 0
    BY <1>8 DEF IInv, TypeOK, WorkerTypeOK, PhaseInv, Observe, Counted, worker
  <2>2. WindowBound'
    BY <1>8, <2>1 DEF Observe, worker, WindowBound, IInv, TypeOK, WorkerTypeOK, NoBankedBurst
  <2>. QED
    BY <1>8, <2>2 DEF IInv, TypeOK, WorkerTypeOK, PhaseInv, TokenConservation, Refills,
                       NoBankedBurst, Observe, worker
<1>9. CASE UNCHANGED vars
  BY <1>9 DEF IInv, TypeOK, WorkerTypeOK, PhaseInv, TokenConservation, Refills, NoBankedBurst,
               WindowBound, Counted, vars, worker
<1>. QED
  BY <1>1, <1>2, <1>4, <1>5, <1>7, <1>8, <1>9 DEF Next

(* The inductive invariant holds in every reachable state. *)
LEMMA Inductive == Spec => []IInv
<1>. QED
  BY InitIInv, StepIInv, PTL DEF Spec

-----------------------------------------------------------------------------
(* Every counter keeps its type, whatever the store answers. *)
THEOREM TypeCorrect == Spec => []TypeOK
<1>1. IInv => TypeOK
  BY DEF IInv
<1>. QED
  BY <1>1, Inductive, PTL

(* No token is ever lost or invented by tick's integer accumulator. *)
THEOREM TokensConserved == Spec => []TokenConservation
<1>1. IInv => TokenConservation
  BY DEF IInv
<1>. QED
  BY <1>1, Inductive, PTL

(* The bucket never banks a whole token, so no tick releases a burst. *)
THEOREM BurstBounded == Spec => []NoBankedBurst
<1>1. IInv => NoBankedBurst
  BY DEF IInv
<1>. QED
  BY <1>1, Inductive, PTL

(* No minute's worth of ticks, wherever it begins, pops more visitors than *)
(* new_users_per_minute.                                                   *)
THEOREM RateRespected == Spec => []MinuteLimit
<1>1. IInv => MinuteLimit
  <2>. SUFFICES ASSUME IInv, ticks - mark.ticks <= TicksPerMinute
                PROVE  popped - mark.popped <= NewUsersPerMinute
    BY DEF MinuteLimit
  <2>. USE WorkerAssumption
  <2>. DEFINE d == popped + toAdmit - mark.popped
              w == Counted - mark.ticks
  <2>1. d \in Int /\ w \in Nat /\ w <= TicksPerMinute
    BY DEF IInv, TypeOK, WorkerTypeOK, WindowBound, Counted
  <2>2. TicksPerMinute * d + bucket <= NewUsersPerMinute * w + TicksPerMinute - 1
    BY DEF IInv, WindowBound
  <2>3. popped - mark.popped <= d
    BY DEF IInv, TypeOK, WorkerTypeOK
  <2>. HIDE DEF d, w
  <2>4. NewUsersPerMinute * w <= NewUsersPerMinute * TicksPerMinute
    BY <2>1, ScaleOrder
  <2>5. TicksPerMinute * d < TicksPerMinute * (NewUsersPerMinute + 1)
    BY <2>1, <2>2, <2>4 DEF IInv, TypeOK, WorkerTypeOK
  <2>6. d < NewUsersPerMinute + 1
    BY <2>1, <2>5, CancelFactor
  <2>. QED
    BY <2>1, <2>3, <2>6 DEF IInv, TypeOK, WorkerTypeOK
<1>. QED
  BY <1>1, Inductive, PTL
=============================================================================
