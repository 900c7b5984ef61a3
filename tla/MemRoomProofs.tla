---------------------------- MODULE MemRoomProofs ----------------------------
(***************************************************************************)
(* What each critical section of the in-memory store leaves behind, for    *)
(* every room: facts the proofs about WaitingRoom cite by name.            *)
(***************************************************************************)
EXTENDS MemRoom, ArithmeticFacts, FiniteSetTheorems

(* The queue as a function on its indices. *)
LEMMA QueueShape ==
  ASSUME NEW S, NEW q \in Seq(S)
  PROVE  /\ Len(q) \in Nat
         /\ DOMAIN q = 1..Len(q)
         /\ \A i \in 1..Len(q) : q[i] \in S
  OBVIOUS

(* A function on 1..n is a sequence of length n. *)
LEMMA FunctionIsSequence ==
  ASSUME NEW S, NEW n \in Nat, NEW f, f \in [1..n -> S]
  PROVE  f \in Seq(S) /\ Len(f) = n
  OBVIOUS

(* Eviction keeps the queue and every session that still runs. *)
LEMMA EvictedFacts ==
  ASSUME NEW ids, NEW scores, NEW times, NEW r, RoomOK(r, ids, scores, times),
         NEW now
  PROVE  /\ RoomOK(Evicted(r, now), ids, scores, times)
         /\ Evicted(r, now).queue = r.queue
         /\ Evicted(r, now).qSet = r.qSet
         /\ DOMAIN Evicted(r, now).active = {id \in DOMAIN r.active : now <= r.active[id]}
<1>. DEFINE kept == {id \in DOMAIN r.active : now <= r.active[id]}
            a == [id \in kept |-> r.active[id]]
<1>1. Evicted(r, now) = [queue |-> r.queue, qSet |-> r.qSet, active |-> a]
  BY DEF Evicted, RoomOK, Restrict
<1>2. DOMAIN a = kept /\ a \in [kept -> times]
  BY DEF RoomOK
<1>. HIDE DEF a
<1>. QED
  BY <1>1, <1>2 DEF RoomOK

(* So does the worker's own cleanup. *)
LEMMA CleanupFacts ==
  ASSUME NEW ids, NEW scores, NEW times, NEW r, RoomOK(r, ids, scores, times),
         NEW now
  PROVE  /\ RoomOK(CleanupExpiredActive(r, now), ids, scores, times)
         /\ CleanupExpiredActive(r, now).queue = r.queue
         /\ CleanupExpiredActive(r, now).qSet = r.qSet
         /\ DOMAIN CleanupExpiredActive(r, now).active
              = {id \in DOMAIN r.active : now < r.active[id]}
<1>. DEFINE kept == {id \in DOMAIN r.active : now < r.active[id]}
            a == [id \in kept |-> r.active[id]]
<1>1. CleanupExpiredActive(r, now) = [queue |-> r.queue, qSet |-> r.qSet, active |-> a]
  BY DEF CleanupExpiredActive, RoomOK, Restrict
<1>2. DOMAIN a = kept /\ a \in [kept -> times]
  BY DEF RoomOK
<1>. HIDE DEF a
<1>. QED
  BY <1>1, <1>2 DEF RoomOK

(* AddActive adds one session and leaves the queue alone. *)
LEMMA AddActiveFacts ==
  ASSUME NEW ids, NEW scores, NEW times, NEW r, RoomOK(r, ids, scores, times),
         NEW id \in ids, NEW exp \in times
  PROVE  /\ RoomOK(AddActive(r, id, exp), ids, scores, times)
         /\ AddActive(r, id, exp).queue = r.queue
         /\ AddActive(r, id, exp).qSet = r.qSet
         /\ DOMAIN AddActive(r, id, exp).active = DOMAIN r.active \cup {id}
<1>. DEFINE d == DOMAIN r.active \cup {id}
            a == [i \in d |-> IF i = id THEN exp ELSE r.active[i]]
<1>1. AddActive(r, id, exp) = [queue |-> r.queue, qSet |-> r.qSet, active |-> a]
  BY DEF AddActive, RoomOK
<1>2. DOMAIN a = d /\ a \in [d -> times] /\ d \subseteq ids
  BY DEF RoomOK
<1>. HIDE DEF a
<1>. QED
  BY <1>1, <1>2 DEF RoomOK

(* ExtendActive makes no session that is not there. *)
LEMMA ExtendActiveFacts ==
  ASSUME NEW ids, NEW scores, NEW times, NEW r, RoomOK(r, ids, scores, times),
         NEW id \in ids, NEW exp \in times
  PROVE  /\ RoomOK(ExtendActive(r, id, exp), ids, scores, times)
         /\ ExtendActive(r, id, exp).queue = r.queue
         /\ ExtendActive(r, id, exp).qSet = r.qSet
         /\ DOMAIN ExtendActive(r, id, exp).active = DOMAIN r.active
<1>1. CASE id \in DOMAIN r.active
  <2>. DEFINE e == AddActive(r, id, exp)
  <2>1. /\ RoomOK(e, ids, scores, times)
        /\ e.queue = r.queue
        /\ e.qSet = r.qSet
        /\ DOMAIN e.active = DOMAIN r.active \cup {id}
    BY AddActiveFacts
  <2>2. ExtendActive(r, id, exp) = e
    BY <1>1 DEF ExtendActive
  <2>3. DOMAIN r.active \cup {id} = DOMAIN r.active
    BY <1>1
  <2>. HIDE DEF e
  <2>. QED
    BY <2>1, <2>2, <2>3
<1>2. CASE id \notin DOMAIN r.active
  BY <1>2 DEF ExtendActive
<1>. QED
  BY <1>1, <1>2

-----------------------------------------------------------------------------
(* Binary search. *)

(* The ranges of the search over 0..n, and one step of it: the answer for  *)
(* r out of the answers g for the ranges inside r.                         *)
Ranges(n) == (0..n) \X (0..n)

Narrow(g, f, r) ==
  LET h == (r[1] + r[2]) \div 2
  IN  IF r[1] >= r[2] THEN r[1]
      ELSE IF f[h] THEN g[<<r[1], h>>] ELSE g[<<h + 1, r[2]>>]

(* A half of a range is shorter than the range. *)
LEMMA Halves ==
  ASSUME NEW n \in Nat, NEW r \in Ranges(n), r[1] < r[2]
  PROVE  LET h == (r[1] + r[2]) \div 2
         IN  /\ h \in r[1]..r[2] - 1
             /\ <<r[1], h>> \in Ranges(n) /\ <<h + 1, r[2]>> \in Ranges(n)
             /\ h - r[1] < r[2] - r[1]
             /\ r[2] - (h + 1) < r[2] - r[1]
<1>. DEFINE a == r[1]
            b == r[2]
<1>1. a \in 0..n /\ b \in 0..n
  BY DEF Ranges
<1>2. a < b
  OBVIOUS
<1>3. (a + b) \div 2 \in a..b - 1
  <2>. HIDE DEF a, b
  <2>. QED
    BY <1>1, <1>2
<1>. QED
  BY <1>1, <1>3 DEF Ranges

(* The equation that defines the search has a solution: one step after     *)
(* another it is solved for longer and longer ranges.                      *)
LEMMA SearchExists ==
  ASSUME NEW n \in Nat, NEW f
  PROVE  \E g : g = [r \in Ranges(n) |-> Narrow(g, f, r)]
<1>. DEFINE Works(g, k) == /\ g = [r \in Ranges(n) |-> g[r]]
                           /\ \A r \in Ranges(n) : r[2] - r[1] <= k => g[r] = Narrow(g, f, r)
            Bad == {k \in Nat : ~ \E g : Works(g, k)}
<1>1. Works([r \in Ranges(n) |-> r[1]], 0)
  BY DEF Narrow, Ranges
<1>2. ASSUME NEW k \in Nat, NEW g, Works(g, k)
      PROVE  \E e : Works(e, k + 1)
  <2>. DEFINE e == [r \in Ranges(n) |-> IF r[2] - r[1] <= k THEN g[r] ELSE Narrow(g, f, r)]
  <2>1. ASSUME NEW r \in Ranges(n), r[2] - r[1] <= k + 1
        PROVE  e[r] = Narrow(e, f, r)
    <3>1. e[r] = Narrow(g, f, r)
      BY <1>2
    <3>2. CASE r[1] >= r[2]
      BY <3>1, <3>2 DEF Narrow, Ranges
    <3>3. CASE r[1] < r[2]
      <4>. DEFINE h == (r[1] + r[2]) \div 2
      <4>1. /\ <<r[1], h>> \in Ranges(n) /\ <<h + 1, r[2]>> \in Ranges(n)
            /\ h - r[1] <= k /\ r[2] - (h + 1) <= k
        <5>1. r[1] \in Int /\ r[2] \in Int /\ h \in Int
          BY <3>3, Halves DEF Ranges
        <5>. HIDE DEF h
        <5>. QED
          BY <2>1, <3>3, <5>1, Halves DEF h
      <4>. HIDE DEF h
      <4>2. e[<<r[1], h>>] = g[<<r[1], h>>] /\ e[<<h + 1, r[2]>>] = g[<<h + 1, r[2]>>]
        BY <4>1
      <4>. HIDE DEF e
      <4>. QED
        BY <3>1, <3>3, <4>2 DEF Narrow, h
    <3>. QED
      BY <3>2, <3>3 DEF Ranges
  <2>. QED
    BY <2>1
<1>. HIDE DEF Works
<1>3. Bad = {}
  <2>. SUFFICES ASSUME Bad # {} PROVE FALSE
    OBVIOUS
  <2>1. PICK m \in Bad : \A k \in Bad : m <= k
    BY LeastNatural
  <2>2. m # 0
    BY <1>1
  <2>3. m - 1 \in Nat /\ m - 1 \notin Bad
    BY <2>1, <2>2
  <2>. QED
    BY <1>2, <2>3
<1>4. PICK g : Works(g, n)
  BY <1>3
<1>5. \A r \in Ranges(n) : r[2] - r[1] <= n
  BY DEF Ranges
<1>. QED
  BY <1>4, <1>5 DEF Works

(* The search ends at a boundary of the predicate. *)
AtBoundary(n, f, i) == (i = 0 \/ ~ f[i - 1]) /\ (i = n \/ f[i])

(* For every predicate, monotone or not, the search ends in front of an    *)
(* item it holds for and behind one it does not hold for.                  *)
LEMMA SearchEndsAtBoundary ==
  ASSUME NEW n \in Nat, NEW f
  PROVE  Search(n, f) \in 0..n /\ AtBoundary(n, f, Search(n, f))
<1>1. PICK g : g = [r \in Ranges(n) |-> Narrow(g, f, r)] /\ Search(n, f) = g[<<0, n>>]
  <2>1. \E g : g = [r \in Ranges(n) |-> Narrow(g, f, r)]
    BY SearchExists
  <2>2. PICK g : g = [r \in (0..n) \X (0..n) |-> Narrow(g, f, r)]
    BY <2>1 DEF Ranges
  <2>. QED
    BY <2>2, Zenon DEF Search, Narrow, Ranges
<1>. DEFINE Open(r) == r[1] <= r[2] /\ (r[1] = 0 \/ ~ f[r[1] - 1]) /\ (r[2] = n \/ f[r[2]])
            Good(r) == g[r] \in 0..n /\ AtBoundary(n, f, g[r])
            Bad == {k \in Nat : \E r \in Ranges(n) : r[2] - r[1] = k /\ Open(r) /\ ~ Good(r)}
<1>2. \A r \in Ranges(n) : r[1] \in 0..n /\ r[2] \in 0..n
  BY DEF Ranges
<1>3. ASSUME NEW m \in Bad PROVE \E k \in Bad : k < m
  <2>1. PICK r \in Ranges(n) : r[2] - r[1] = m /\ Open(r) /\ ~ Good(r)
    OBVIOUS
  <2>2. g[r] = Narrow(g, f, r)
    BY <1>1
  <2>3. r[1] < r[2]
    <3>. SUFFICES ASSUME r[1] = r[2] PROVE FALSE
      BY <1>2, <2>1
    <3>1. g[r] = r[1]
      BY <1>2, <2>2 DEF Narrow
    <3>. QED
      BY <1>2, <2>1, <3>1 DEF AtBoundary
  <2>. DEFINE h == (r[1] + r[2]) \div 2
              s == IF f[h] THEN <<r[1], h>> ELSE <<h + 1, r[2]>>
  <2>4. /\ h \in r[1]..r[2] - 1
        /\ <<r[1], h>> \in Ranges(n) /\ <<h + 1, r[2]>> \in Ranges(n)
    BY <2>3, Halves
  <2>. HIDE DEF h
  <2>5. s \in Ranges(n) /\ Open(s) /\ s[2] - s[1] \in Nat /\ s[2] - s[1] < m
    BY <1>2, <2>1, <2>4
  <2>6. g[r] = g[s]
    BY <1>2, <2>2, <2>3 DEF Narrow, h
  <2>. HIDE DEF s, Open
  <2>7. ~ Good(s)
    BY <2>1, <2>6
  <2>. QED
    BY <2>5, <2>7
<1>4. Bad = {}
  <2>. SUFFICES ASSUME Bad # {} PROVE FALSE
    OBVIOUS
  <2>. HIDE DEF Bad
  <2>1. Bad \in SUBSET Nat
    BY DEF Bad
  <2>2. PICK m \in Bad : \A k \in Bad : m <= k
    BY <2>1, LeastNatural
  <2>. QED
    BY <1>3, <2>1, <2>2
<1>. DEFINE all == <<0, n>>
<1>5. all \in Ranges(n) /\ all[1] = 0 /\ all[2] = n /\ Open(all)
  BY DEF Ranges
<1>6. Good(all)
  BY <1>4, <1>5
<1>. QED
  BY <1>1, <1>6
-----------------------------------------------------------------------------
(* The insertion point lies inside the queue or at its end. *)
LEMMA InsertionPointInQueue ==
  ASSUME NEW ids, NEW scores, NEW q \in Seq([id : ids, score : scores]), NEW score
  PROVE  InsertionPoint(q, score) \in 0..Len(q)
<1>. DEFINE lower == {i \in DOMAIN q : q[i].score < score}
<1>1. DOMAIN q = 1..Len(q) /\ Len(q) \in Nat
  BY QueueShape
<1>2. IsFiniteSet(1..Len(q)) /\ Cardinality(1..Len(q)) = Len(q)
  BY <1>1, FS_Interval
<1>3. lower \subseteq 1..Len(q)
  BY <1>1
<1>4. IsFiniteSet(lower) /\ Cardinality(lower) <= Len(q)
  BY <1>2, <1>3, FS_Subset
<1>5. Cardinality(lower) \in Nat
  BY <1>4, FS_CardinalityType
<1>. QED
  BY <1>1, <1>4, <1>5 DEF InsertionPoint

(* Enqueueing a fresh id adds that id, once, and keeps every other. *)
LEMMA EnqueueNewFacts ==
  ASSUME NEW ids, NEW scores, NEW times, NEW r, RoomOK(r, ids, scores, times),
         NEW id \in ids, NEW score \in scores
  PROVE  /\ RoomOK(EnqueueNew(r, id, score), ids, scores, times)
         /\ EnqueueNew(r, id, score).active = r.active
         /\ EnqueueNew(r, id, score).qSet = r.qSet \cup {id}
         /\ IdsOf(EnqueueNew(r, id, score).queue) = IdsOf(r.queue) \cup {id}
         /\ NoIdTwice(r.queue) /\ id \notin IdsOf(r.queue)
              => NoIdTwice(EnqueueNew(r, id, score).queue)
<1>. DEFINE q == r.queue
            n == Len(q)
            k == InsertionPoint(q, score)
            item == QueueItem(id, score)
            q2 == [i \in 1..n + 1 |->
                     IF i <= k THEN q[i] ELSE IF i = k + 1 THEN item ELSE q[i - 1]]
            T == [id : ids, score : scores]
<1>1. q \in Seq(T)
  BY DEF RoomOK
<1>2. n \in Nat /\ DOMAIN q = 1..n /\ \A i \in 1..n : q[i] \in T
  BY <1>1, QueueShape
<1>3. k \in 0..n
  BY <1>1, InsertionPointInQueue
<1>4. item \in T /\ item.id = id
  BY DEF QueueItem
<1>5. EnqueueNew(r, id, score) = [queue |-> q2, qSet |-> r.qSet \cup {id}, active |-> r.active]
  BY DEF EnqueueNew, Inserted, RoomOK
<1>. HIDE DEF k, item
<1>6. DOMAIN q2 = 1..n + 1
  OBVIOUS
<1>7. \A i \in 1..n + 1 :
        /\ i <= k => i \in 1..n /\ q2[i] = q[i]
        /\ i = k + 1 => q2[i] = item
        /\ i > k + 1 => i - 1 \in 1..n /\ q2[i] = q[i - 1]
  BY <1>2, <1>3
<1>8. \A i \in 1..n + 1 : q2[i] \in T
  BY <1>2, <1>3, <1>4, <1>7
<1>9. q2 \in Seq(T) /\ Len(q2) = n + 1
  <2>. HIDE DEF T, n
  <2>1. n + 1 \in Nat /\ q2 \in [1..n + 1 -> T]
    BY <1>2, <1>8
  <2>. HIDE DEF q2
  <2>. QED
    BY <2>1, FunctionIsSequence
<1>. HIDE DEF q2, n
<1>10. \A i \in 1..n + 1 : q2[i].id \in IdsOf(q) \cup {id}
  <2>. SUFFICES ASSUME NEW i \in 1..n + 1 PROVE q2[i].id \in IdsOf(q) \cup {id}
    OBVIOUS
  <2>1. \A x \in 1..n : q[x].id \in IdsOf(q)
    BY <1>2 DEF IdsOf
  <2>. QED
    BY <2>1, <1>2, <1>3, <1>4, <1>7
<1>11. \A i \in 1..n : q[i].id \in IdsOf(q2)
  <2>. SUFFICES ASSUME NEW i \in 1..n PROVE q[i].id \in IdsOf(q2)
    OBVIOUS
  <2>1. CASE i <= k
    <3>1. i \in 1..n + 1 /\ q2[i] = q[i]
      BY <1>2, <1>3, <1>7, <2>1
    <3>. QED
      BY <3>1, <1>6 DEF IdsOf
  <2>2. CASE i > k
    <3>1. i + 1 \in 1..n + 1 /\ i + 1 > k + 1 /\ (i + 1) - 1 = i
      BY <1>2, <1>3, <2>2
    <3>2. q2[i + 1] = q[i]
      BY <3>1, <1>7
    <3>. QED
      BY <3>1, <3>2, <1>6 DEF IdsOf
  <2>. QED
    BY <1>2, <1>3, <2>1, <2>2
<1>12. id \in IdsOf(q2)
  <2>1. k + 1 \in 1..n + 1 /\ q2[k + 1].id = id
    BY <1>2, <1>3, <1>4, <1>7
  <2>. QED
    BY <2>1, <1>6 DEF IdsOf
<1>13. IdsOf(q2) = IdsOf(q) \cup {id}
  <2>1. IdsOf(q2) \subseteq IdsOf(q) \cup {id}
    BY <1>6, <1>10 DEF IdsOf
  <2>2. IdsOf(q) \subseteq IdsOf(q2)
    BY <1>2, <1>11 DEF IdsOf
  <2>. QED
    BY <2>1, <2>2, <1>12
<1>14. ASSUME NoIdTwice(q), id \notin IdsOf(q) PROVE NoIdTwice(q2)
  <2>. SUFFICES ASSUME NEW i \in 1..n + 1, NEW j \in 1..n + 1, q2[i].id = q2[j].id
                PROVE  i = j
    BY <1>6 DEF NoIdTwice
  <2>1. \A x \in 1..n : q[x].id # id
    BY <1>2, <1>14 DEF IdsOf
  <2>2. \A x, y \in 1..n : q[x].id = q[y].id => x = y
    BY <1>2, <1>14 DEF NoIdTwice
  <2>3. \A x \in 1..n + 1 : \/ x = k + 1 /\ q2[x].id = id
                            \/ x <= k /\ x \in 1..n /\ q2[x].id = q[x].id
                            \/ x > k + 1 /\ x - 1 \in 1..n /\ q2[x].id = q[x - 1].id
    <3>. SUFFICES ASSUME NEW x \in 1..n + 1
                  PROVE  \/ x = k + 1 /\ q2[x].id = id
                         \/ x <= k /\ x \in 1..n /\ q2[x].id = q[x].id
                         \/ x > k + 1 /\ x - 1 \in 1..n /\ q2[x].id = q[x - 1].id
      OBVIOUS
    <3>1. x <= k \/ x = k + 1 \/ x > k + 1
      BY <1>2, <1>3
    <3>. QED
      BY <3>1, <1>4, <1>7
  <2>. QED
    BY <2>1, <2>2, <2>3, <1>2, <1>3
<1>. QED
  BY <1>5, <1>9, <1>13, <1>14 DEF RoomOK

-----------------------------------------------------------------------------
(* What a pop takes and keeps. *)
LEMMA TakesFacts ==
  ASSUME NEW S, NEW q \in Seq(S),
         NEW n \in 0..Len(q), NEW method, NEW take \in Takes(q, n, method)
  PROVE  /\ take \in [1..n -> DOMAIN q]
         /\ \A i, j \in 1..n : take[i] = take[j] => i = j
         /\ take \in Seq(DOMAIN q) /\ Len(take) = n
<1>1. DOMAIN q = 1..Len(q) /\ Len(q) \in Nat
  BY QueueShape
<1>2. CASE method = "random"
  BY <1>1, <1>2 DEF Takes, Injection, IsInjective
<1>3. CASE method # "random"
  BY <1>1, <1>3 DEF Takes
<1>4. take \in [1..n -> DOMAIN q] /\ \A i, j \in 1..n : take[i] = take[j] => i = j
  BY <1>2, <1>3
<1>. QED
  BY <1>1, <1>4

(* A pop divides the queued ids between what it takes and what it keeps. *)
LEMMA PoppedFacts ==
  ASSUME NEW ids, NEW scores, NEW times, NEW r, RoomOK(r, ids, scores, times),
         NEW n \in 0..Len(r.queue), NEW method,
         NEW take \in Takes(r.queue, n, method), NEW keep \in Keeps(r.queue, take),
         NoIdTwice(r.queue)
  PROVE  /\ RoomOK(Popped(r, take, keep), ids, scores, times)
         /\ Popped(r, take, keep).active = r.active
         /\ Popped(r, take, keep).qSet = r.qSet \ IdsOf(Picked(r.queue, take))
         /\ IdsOf(Popped(r, take, keep).queue)
              = IdsOf(r.queue) \ IdsOf(Picked(r.queue, take))
         /\ NoIdTwice(Popped(r, take, keep).queue)
         /\ Picked(r.queue, take) \in Seq([id : ids, score : scores])
         /\ Len(Picked(r.queue, take)) = n
         /\ NoIdTwice(Picked(r.queue, take))
         /\ IdsOf(Picked(r.queue, take)) \subseteq IdsOf(r.queue)
<1>. DEFINE q == r.queue
            T == [id : ids, score : scores]
            m == Len(q) - Len(take)
            left == DOMAIN q \ Range(take)
            out == Picked(q, take)
            rest == Picked(q, keep)
<1>1. q \in Seq(T) /\ DOMAIN q = 1..Len(q) /\ Len(q) \in Nat /\ \A i \in DOMAIN q : q[i] \in T
  BY QueueShape DEF RoomOK
<1>2. /\ take \in [1..n -> DOMAIN q]
      /\ \A i, j \in 1..n : take[i] = take[j] => i = j
      /\ Len(take) = n
  <2>. HIDE DEF T
  <2>1. q \in Seq(T) /\ n \in 0..Len(q) /\ take \in Takes(q, n, method)
    BY <1>1
  <2>. HIDE DEF q
  <2>. QED
    BY <2>1, TakesFacts
<1>3. m \in Nat
  BY <1>1, <1>2
<1>4. /\ keep \in [1..m -> left]
      /\ {keep[i] : i \in 1..m} = left
      /\ \A i, j \in 1..m : i < j => keep[i] < keep[j]
  <2>1. /\ keep \in [1..m -> left]
        /\ Range(keep) = left
        /\ \A i, j \in DOMAIN keep : i < j => keep[i] < keep[j]
    BY DEF Keeps
  <2>. QED
    BY <2>1 DEF Range
<1>5. \A i, j \in 1..m : keep[i] = keep[j] => i = j
  <2>. SUFFICES ASSUME NEW i \in 1..m, NEW j \in 1..m, keep[i] = keep[j] PROVE i = j
    OBVIOUS
  <2>1. keep[i] \in Nat /\ keep[j] \in Nat /\ i \in Nat /\ j \in Nat
    BY <1>1, <1>3, <1>4
  <2>. QED
    BY <1>4, <2>1
<1>6. left = DOMAIN q \ {take[i] : i \in 1..n}
  BY <1>2 DEF Range
<1>7. /\ out = [i \in 1..n |-> q[take[i]]]
      /\ rest = [i \in 1..m |-> q[keep[i]]]
  BY <1>2, <1>4 DEF Picked
<1>8. out \in Seq(T) /\ Len(out) = n
  <2>. HIDE DEF out, T
  <2>1. out \in [1..n -> T] /\ n \in Nat
    BY <1>1, <1>2, <1>7
  <2>. QED
    BY <2>1, FunctionIsSequence
<1>9. rest \in Seq(T)
  <2>. HIDE DEF rest, T, m
  <2>1. rest \in [1..m -> T]
    BY <1>1, <1>3, <1>4, <1>6, <1>7
  <2>. QED
    BY <1>3, <2>1, FunctionIsSequence
<1>10. Popped(r, take, keep) = [queue |-> rest, qSet |-> r.qSet \ IdsOf(out), active |-> r.active]
  BY DEF Popped, RoomOK
<1>. HIDE DEF m, left, out, rest
<1>11. \A x, y \in DOMAIN q : q[x].id = q[y].id => x = y
  BY DEF NoIdTwice
<1>12. NoIdTwice(out)
  BY <1>2, <1>7, <1>11 DEF NoIdTwice
<1>13. NoIdTwice(rest)
  BY <1>4, <1>5, <1>6, <1>7, <1>11 DEF NoIdTwice
<1>14. IdsOf(out) = {q[take[i]].id : i \in 1..n}
  BY <1>7 DEF IdsOf
<1>15. IdsOf(rest) = {q[i].id : i \in left}
  <2>1. IdsOf(rest) = {q[keep[i]].id : i \in 1..m}
    BY <1>7 DEF IdsOf
  <2>. QED
    BY <2>1, <1>4
<1>16. IdsOf(rest) = IdsOf(q) \ IdsOf(out)
  <2>1. IdsOf(q) = {q[i].id : i \in DOMAIN q}
    BY DEF IdsOf
  <2>2. IdsOf(rest) \subseteq IdsOf(q) \ IdsOf(out)
    <3>. SUFFICES ASSUME NEW i \in left PROVE q[i].id \in IdsOf(q) \ IdsOf(out)
      BY <1>15
    <3>1. i \in DOMAIN q /\ \A j \in 1..n : take[j] # i /\ take[j] \in DOMAIN q
      BY <1>2, <1>6
    <3>. QED
      BY <3>1, <2>1, <1>11, <1>14
  <2>3. IdsOf(q) \ IdsOf(out) \subseteq IdsOf(rest)
    <3>. SUFFICES ASSUME NEW i \in DOMAIN q, q[i].id \notin IdsOf(out)
                  PROVE  q[i].id \in IdsOf(rest)
      BY <2>1
    <3>1. \A j \in 1..n : take[j] # i
      BY <1>14
    <3>. QED
      BY <3>1, <1>6, <1>15
  <2>. QED
    BY <2>2, <2>3
<1>17. IdsOf(out) \subseteq IdsOf(q)
  BY <1>2, <1>14 DEF IdsOf
<1>. QED
  BY <1>8, <1>9, <1>10, <1>12, <1>13, <1>16, <1>17 DEF RoomOK, out

-----------------------------------------------------------------------------
(* Taking the first item off a sequence of items. *)
LEMMA TailFacts ==
  ASSUME NEW ids, NEW scores, NEW p \in Seq([id : ids, score : scores]),
         p # <<>>, NoIdTwice(p)
  PROVE  /\ Head(p).id \in ids
         /\ Head(p).id \in IdsOf(p)
         /\ Tail(p) \in Seq([id : ids, score : scores])
         /\ Len(Tail(p)) = Len(p) - 1
         /\ Len(p) > 0
         /\ NoIdTwice(Tail(p))
         /\ IdsOf(Tail(p)) = IdsOf(p) \ {Head(p).id}
<1>. DEFINE T == [id : ids, score : scores]
            t == Tail(p)
            n == Len(p)
<1>1. n \in Nat /\ n > 0 /\ DOMAIN p = 1..n /\ \A i \in 1..n : p[i] \in T
  <2>1. p \in Seq(T)
    OBVIOUS
  <2>. HIDE DEF T
  <2>2. n > 0
    BY <2>1
  <2>. QED
    BY <2>1, <2>2, QueueShape
<1>2. Head(p) = p[1]
  OBVIOUS
<1>3. t \in Seq(T) /\ Len(t) = n - 1 /\ \A i \in 1..n - 1 : t[i] = p[i + 1]
  OBVIOUS
<1>4. DOMAIN t = 1..n - 1
  BY <1>3
<1>. HIDE DEF t, n
<1>5. \A i, j \in 1..n : p[i].id = p[j].id => i = j
  BY <1>1 DEF NoIdTwice
<1>6. NoIdTwice(t)
  <2>. SUFFICES ASSUME NEW i \in 1..n - 1, NEW j \in 1..n - 1, t[i].id = t[j].id
                PROVE  i = j
    BY <1>4 DEF NoIdTwice
  <2>1. i + 1 \in 1..n /\ j + 1 \in 1..n /\ t[i] = p[i + 1] /\ t[j] = p[j + 1]
    BY <1>1, <1>3
  <2>. QED
    BY <2>1, <1>1, <1>5
<1>7. \A x \in IdsOf(t) : x \in IdsOf(p) /\ x # Head(p).id
  <2>. SUFFICES ASSUME NEW i \in 1..n - 1
                PROVE  t[i].id \in IdsOf(p) /\ t[i].id # Head(p).id
    BY <1>4 DEF IdsOf
  <2>1. i + 1 \in 1..n /\ i + 1 # 1 /\ t[i] = p[i + 1] /\ 1 \in 1..n
    BY <1>1, <1>3
  <2>2. p[i + 1].id # p[1].id
    BY <2>1, <1>5
  <2>. QED
    BY <2>1, <2>2, <1>1, <1>2 DEF IdsOf
<1>8. \A x \in IdsOf(p) : x # Head(p).id => x \in IdsOf(t)
  <2>. SUFFICES ASSUME NEW i \in 1..n, p[i].id # p[1].id PROVE p[i].id \in IdsOf(t)
    BY <1>1, <1>2 DEF IdsOf
  <2>1. i - 1 \in 1..n - 1 /\ (i - 1) + 1 = i
    BY <1>1
  <2>2. t[i - 1] = p[i]
    BY <2>1, <1>3
  <2>. QED
    BY <2>1, <2>2, <1>4 DEF IdsOf
<1>9. Head(p).id \in ids /\ Head(p).id \in IdsOf(p)
  BY <1>1, <1>2 DEF IdsOf
<1>. QED
  BY <1>1, <1>3, <1>6, <1>7, <1>8, <1>9 DEF n, t

-----------------------------------------------------------------------------
(* The order of the queue. *)
Sorted(q) == \A i, j \in DOMAIN q : i < j => q[i].score <= q[j].score

(* In a sorted queue the items of a lower score are the ones in front of   *)
(* the insertion point, and the binary search ends there.                  *)
LEMMA InsertionPointSplits ==
  ASSUME NEW ids, NEW scores, scores \subseteq Int,
         NEW q \in Seq([id : ids, score : scores]), Sorted(q), NEW score \in Int
  PROVE  /\ \A i \in DOMAIN q : i <= InsertionPoint(q, score) <=> q[i].score < score
         /\ Search(Len(q), [i \in 0..Len(q) - 1 |-> q[i + 1].score >= score])
              = InsertionPoint(q, score)
<1>. DEFINE T == [id : ids, score : scores]
            n == Len(q)
            f == [i \in 0..n - 1 |-> q[i + 1].score >= score]
            k == Search(n, f)
            lower == {i \in DOMAIN q : q[i].score < score}
<1>1. n \in Nat /\ DOMAIN q = 1..n /\ \A i \in 1..n : q[i].score \in Int
  <2>1. q \in Seq(T)
    OBVIOUS
  <2>2. \A x \in T : x.score \in Int
    OBVIOUS
  <2>. HIDE DEF T
  <2>. QED
    BY <2>1, <2>2, QueueShape
<1>2. k \in 0..n /\ AtBoundary(n, f, k)
  <2>. HIDE DEF n, f
  <2>. QED
    BY <1>1, SearchEndsAtBoundary
<1>. HIDE DEF k
<1>f. \A j \in 0..n - 1 : f[j] <=> q[j + 1].score >= score
  OBVIOUS
<1>. HIDE DEF f
<1>3. k = 0 \/ q[k].score < score
  <2>. HIDE DEF n, lower
  <2>1. k = 0 \/ (k - 1 \in 0..n - 1 /\ ~ f[k - 1] /\ (k - 1) + 1 = k)
    BY <1>1, <1>2 DEF AtBoundary
  <2>2. k # 0 => ~ q[k].score >= score /\ k \in 1..n
    BY <1>1, <1>2, <1>f, <2>1
  <2>. QED
    BY <1>1, <2>2
<1>4. k = n \/ q[k + 1].score >= score
  <2>. HIDE DEF n, lower
  <2>1. k = n \/ (k \in 0..n - 1 /\ f[k])
    BY <1>1, <1>2 DEF AtBoundary
  <2>. QED
    BY <1>f, <2>1
<1>5. \A i \in 1..n : i <= k <=> q[i].score < score
  <2>. SUFFICES ASSUME NEW i \in 1..n PROVE i <= k <=> q[i].score < score
    OBVIOUS
  <2>. HIDE DEF n
  <2>1. CASE i <= k
    <3>1. k \in 1..n /\ (i = k \/ i < k)
      BY <1>1, <1>2, <2>1
    <3>2. q[i].score <= q[k].score
      BY <1>1, <3>1 DEF Sorted
    <3>. QED
      BY <1>1, <1>3, <2>1, <3>1, <3>2
  <2>2. CASE i > k
    <3>1. k + 1 \in 1..n /\ (i = k + 1 \/ k + 1 < i)
      BY <1>1, <1>2, <2>2
    <3>2. q[k + 1].score <= q[i].score
      BY <1>1, <3>1 DEF Sorted
    <3>3. q[k + 1].score >= score
      BY <1>1, <1>4, <3>1
    <3>. QED
      BY <1>1, <1>2, <2>2, <3>1, <3>2, <3>3
  <2>. QED
    BY <1>1, <1>2, <2>1, <2>2
<1>6. lower = 1..k
  BY <1>1, <1>2, <1>5
<1>7. Cardinality(1..k) = k
  BY <1>2, FS_Interval
<1>8. InsertionPoint(q, score) = k
  BY <1>6, <1>7 DEF InsertionPoint
<1>. QED
  BY <1>1, <1>5, <1>8 DEF k, f

(* Enqueueing a fresh id keeps the queue sorted. *)
LEMMA EnqueueNewSorted ==
  ASSUME NEW ids, NEW scores, scores \subseteq Int, NEW times,
         NEW r, RoomOK(r, ids, scores, times), Sorted(r.queue),
         NEW id \in ids, NEW score \in scores
  PROVE  Sorted(EnqueueNew(r, id, score).queue)
<1>. DEFINE q == r.queue
            n == Len(q)
            k == InsertionPoint(q, score)
            item == QueueItem(id, score)
            q2 == Inserted(q, k, item)
            T == [id : ids, score : scores]
<1>1. q \in Seq(T)
  BY DEF RoomOK
<1>2. n \in Nat /\ DOMAIN q = 1..n /\ \A i \in 1..n : q[i].score \in Int
  <2>1. \A x \in T : x.score \in Int
    OBVIOUS
  <2>. HIDE DEF T
  <2>. QED
    BY <1>1, <2>1, QueueShape
<1>3. k \in 0..n
  BY <1>1, InsertionPointInQueue
<1>4. \A i \in 1..n : i <= k <=> q[i].score < score
  <2>1. score \in Int
    OBVIOUS
  <2>. HIDE DEF q, k
  <2>. QED
    BY <1>1, <1>2, <2>1, InsertionPointSplits DEF q, k
<1>5. item.score = score
  BY DEF QueueItem
<1>6. EnqueueNew(r, id, score).queue = q2
  BY DEF EnqueueNew
<1>7. q2 = [i \in 1..n + 1 |-> IF i <= k THEN q[i] ELSE IF i = k + 1 THEN item ELSE q[i - 1]]
  BY DEF Inserted
<1>8. \A i, j \in 1..n : i <= j => q[i].score <= q[j].score
  <2>1. \A i, j \in 1..n : i < j => q[i].score <= q[j].score
    BY <1>2 DEF Sorted
  <2>. HIDE DEF n, q
  <2>. QED
    BY <2>1, <1>2
<1>. HIDE DEF k, item, q2, n, q
<1>9. \A i, j \in 1..n + 1 : i < j => q2[i].score <= q2[j].score
  <2>. SUFFICES ASSUME NEW i \in 1..n + 1, NEW j \in 1..n + 1, i < j
                PROVE  q2[i].score <= q2[j].score
    OBVIOUS
  <2>1. CASE j <= k
    <3>1. q2[i] = q[i] /\ q2[j] = q[j] /\ i \in 1..n /\ j \in 1..n
      BY <1>2, <1>3, <1>7, <2>1
    <3>. QED
      BY <3>1, <1>8
  <2>2. CASE j = k + 1
    <3>1. q2[i] = q[i] /\ q2[j] = item /\ i \in 1..n /\ i <= k
      BY <1>2, <1>3, <1>7, <2>2
    <3>. QED
      BY <3>1, <1>2, <1>4, <1>5
  <2>3. CASE j > k + 1
    <3>1. q2[j] = q[j - 1] /\ j - 1 \in 1..n /\ j - 1 > k
      BY <1>2, <1>3, <1>7, <2>3
    <3>2. CASE i <= k
      <4>1. q2[i] = q[i] /\ i \in 1..n /\ i <= j - 1
        BY <1>2, <1>3, <1>7, <3>2
      <4>. QED
        BY <3>1, <4>1, <1>8
    <3>3. CASE i = k + 1
      <4>1. q2[i] = item /\ ~ q[j - 1].score < score
        BY <1>2, <1>3, <1>4, <1>7, <3>1, <3>3
      <4>. QED
        BY <3>1, <4>1, <1>2, <1>5
    <3>4. CASE i > k + 1
      <4>1. q2[i] = q[i - 1] /\ i - 1 \in 1..n /\ i - 1 <= j - 1
        BY <1>2, <1>3, <1>7, <3>4
      <4>. QED
        BY <3>1, <4>1, <1>8
    <3>. QED
      BY <1>2, <1>3, <3>2, <3>3, <3>4
  <2>. QED
    BY <1>2, <1>3, <2>1, <2>2, <2>3
<1>10. DOMAIN q2 = 1..n + 1
  BY <1>7
<1>. QED
  BY <1>6, <1>9, <1>10 DEF Sorted

(* In a queue that holds no id twice, Position is where the id stands. *)
LEMMA PositionFacts ==
  ASSUME NEW S, NEW r, r.queue \in Seq(S), NoIdTwice(r.queue),
         NEW i \in DOMAIN r.queue, r.queue[i].id \in r.qSet
  PROVE  Position(r, r.queue[i].id) = i - 1
<1>. DEFINE q == r.queue
            id == q[i].id
            At(p) == q[p + 1].id = id /\ \A j \in 1..p : q[j].id # id
<1>1. Len(q) \in Nat /\ DOMAIN q = 1..Len(q)
  BY QueueShape
<1>2. Found(r, id)
  BY DEF Found
<1>3. Position(r, id) = CHOOSE p \in 0..Len(q) - 1 : At(p)
  BY <1>2 DEF Position
<1>4. \A x \in DOMAIN q : q[x].id = id => x = i
  BY DEF NoIdTwice
<1>. HIDE DEF q, id
<1>5. i \in 1..Len(q) /\ i - 1 \in 0..Len(q) - 1 /\ (i - 1) + 1 = i
  BY <1>1 DEF q
<1>6. At(i - 1)
  <2>1. \A j \in 1..i - 1 : j \in DOMAIN q /\ j # i
    BY <1>1, <1>5
  <2>. QED
    BY <1>4, <1>5, <2>1 DEF id
<1>7. \A p \in 0..Len(q) - 1 : At(p) => p = i - 1
  <2>. SUFFICES ASSUME NEW p \in 0..Len(q) - 1, At(p) PROVE p = i - 1
    OBVIOUS
  <2>1. p + 1 \in DOMAIN q
    BY <1>1
  <2>2. p + 1 = i
    BY <1>4, <2>1
  <2>. QED
    BY <1>1, <1>5, <2>2
<1>. HIDE DEF At
<1>. QED
  BY <1>3, <1>5, <1>6, <1>7 DEF q, id

-----------------------------------------------------------------------------
(* RemoveActive ends one session and leaves the queue alone. *)
LEMMA RemoveActiveFacts ==
  ASSUME NEW ids, NEW scores, NEW times, NEW r, RoomOK(r, ids, scores, times), NEW id
  PROVE  /\ RoomOK(RemoveActive(r, id), ids, scores, times)
         /\ RemoveActive(r, id).queue = r.queue
         /\ RemoveActive(r, id).qSet = r.qSet
         /\ RemoveActive(r, id).active = Restrict(r.active, DOMAIN r.active \ {id})
<1>. DEFINE kept == DOMAIN r.active \ {id}
            a == [i \in kept |-> r.active[i]]
<1>1. RemoveActive(r, id) = [queue |-> r.queue, qSet |-> r.qSet, active |-> a]
  BY DEF RemoveActive, RoomOK, Restrict
<1>2. DOMAIN a = kept /\ a \in [kept -> times]
  BY DEF RoomOK
<1>3. a = Restrict(r.active, kept)
  BY DEF Restrict
<1>. HIDE DEF a
<1>4. RoomOK(RemoveActive(r, id), ids, scores, times)
  BY <1>1, <1>2 DEF RoomOK
<1>. QED
  BY <1>1, <1>3, <1>4

(* Where an id waits, its score is found. *)
LEMMA ScoresAt ==
  ASSUME NEW q, NoIdTwice(q), NEW i \in DOMAIN q
  PROVE  q[i].id \in IdsOf(q) /\ QueueScores(q)[q[i].id] = q[i].score
<1>. DEFINE at == CHOOSE x \in DOMAIN q : q[x].id = q[i].id
<1>1. at \in DOMAIN q /\ q[at].id = q[i].id
  OBVIOUS
<1>2. at = i
  BY <1>1 DEF NoIdTwice
<1>3. q[i].id \in IdsOf(q)
  BY DEF IdsOf
<1>4. ScoreOf(q, q[i].id) = q[at].score
  BY DEF ScoreOf
<1>. QED
  BY <1>2, <1>3, <1>4 DEF QueueScores

(* q2 is q with some items left out. *)
Thinned(q2, q) ==
  \E e \in [DOMAIN q2 -> DOMAIN q] :
    /\ \A i, j \in DOMAIN q2 : i < j => e[i] < e[j]
    /\ \A i \in DOMAIN q2 : q2[i] = q[e[i]]

LEMMA ThinnedFacts ==
  ASSUME NEW S, NEW q \in Seq(S), NEW q2 \in Seq(S), Thinned(q2, q), NoIdTwice(q), Sorted(q)
  PROVE  /\ NoIdTwice(q2)
         /\ Sorted(q2)
         /\ IdsOf(q2) \subseteq IdsOf(q)
         /\ QueueScores(q2) = Restrict(QueueScores(q), IdsOf(q2))
<1>0. DOMAIN q \subseteq Nat /\ DOMAIN q2 \subseteq Nat
  BY QueueShape
<1>1. PICK e \in [DOMAIN q2 -> DOMAIN q] :
        /\ \A i, j \in DOMAIN q2 : i < j => e[i] < e[j]
        /\ \A i \in DOMAIN q2 : q2[i] = q[e[i]]
  BY DEF Thinned
<1>2. NoIdTwice(q2)
  <2>. SUFFICES ASSUME NEW i \in DOMAIN q2, NEW j \in DOMAIN q2, q2[i].id = q2[j].id
                PROVE  i = j
    BY DEF NoIdTwice
  <2>1. e[i] \in Nat /\ e[j] \in Nat /\ i \in Nat /\ j \in Nat /\ e[i] = e[j]
    BY <1>0, <1>1 DEF NoIdTwice
  <2>2. ~ i < j /\ ~ j < i
    BY <1>1, <2>1
  <2>. QED
    BY <2>1, <2>2
<1>3. Sorted(q2)
  BY <1>1 DEF Sorted
<1>4. IdsOf(q2) \subseteq IdsOf(q)
  BY <1>1 DEF IdsOf
<1>5. ASSUME NEW x \in IdsOf(q2) PROVE QueueScores(q2)[x] = QueueScores(q)[x]
  <2>1. PICK i \in DOMAIN q2 : q2[i].id = x
    BY DEF IdsOf
  <2>2. e[i] \in DOMAIN q /\ q[e[i]] = q2[i]
    BY <1>1
  <2>3. QueueScores(q2)[x] = q2[i].score
    BY <1>2, <2>1, ScoresAt
  <2>4. QueueScores(q)[q[e[i]].id] = q[e[i]].score
    BY <2>2, ScoresAt
  <2>. QED
    BY <2>1, <2>2, <2>3, <2>4
<1>6. QueueScores(q2) = [x \in IdsOf(q2) |-> QueueScores(q2)[x]]
  BY DEF QueueScores
<1>. QED
  BY <1>2, <1>3, <1>4, <1>5, <1>6 DEF Restrict

(* A pop leaves the rest of the queue in order. *)
LEMMA PoppedThinned ==
  ASSUME NEW r, NEW take, NEW keep \in Keeps(r.queue, take)
  PROVE  Thinned(Popped(r, take, keep).queue, r.queue)
<1>. DEFINE q == r.queue
            rest == Picked(q, keep)
<1>1. /\ \A i \in DOMAIN keep : keep[i] \in DOMAIN q
      /\ \A i, j \in DOMAIN keep : i < j => keep[i] < keep[j]
  BY DEF Keeps
<1>2. keep = [i \in DOMAIN keep |-> keep[i]]
  BY DEF Keeps
<1>3. keep \in [DOMAIN keep -> DOMAIN q]
  BY <1>1, <1>2
<1>4. Popped(r, take, keep).queue = rest
  BY DEF Popped
<1>5. rest = [i \in DOMAIN keep |-> q[keep[i]]]
  BY DEF Picked
<1>6. DOMAIN rest = DOMAIN keep
  BY <1>5
<1>. HIDE DEF rest
<1>. QED
  BY <1>1, <1>3, <1>4, <1>5, <1>6 DEF Thinned

(* Cutting the item at an index out of a sequence. *)
LEMMA TakenOut ==
  ASSUME NEW S, NEW q \in Seq(S), NEW at \in 1..Len(q)
  PROVE  LET q2 == SubSeq(q, 1, at - 1) \o SubSeq(q, (at - 1) + 2, Len(q))
             e == [i \in 1..Len(q) - 1 |-> IF i < at THEN i ELSE i + 1]
         IN  /\ q2 \in Seq(S) /\ Len(q2) = Len(q) - 1
             /\ \A i \in 1..Len(q) - 1 : q2[i] = q[e[i]]
<1>. DEFINE n == Len(q)
            front == SubSeq(q, 1, at - 1)
            back == SubSeq(q, at + 1, n)
<1>1. n \in Nat /\ at \in 1..n /\ (at - 1) + 2 = at + 1
  OBVIOUS
<1>2. front \in Seq(S) /\ Len(front) = at - 1 /\ \A i \in 1..at - 1 : front[i] = q[i]
  OBVIOUS
<1>3. back \in Seq(S) /\ Len(back) = n - at /\ \A i \in 1..n - at : back[i] = q[at + i]
  OBVIOUS
<1>. HIDE DEF front, back, n
<1>4. front \o back \in Seq(S) /\ Len(front \o back) = n - 1
  <2>0. front \in Seq(S) /\ back \in Seq(S)
    BY <1>2, <1>3
  <2>1. front \o back \in Seq(S) /\ Len(front \o back) = Len(front) + Len(back)
    BY <2>0
  <2>2. (at - 1) + (n - at) = n - 1
    BY <1>1
  <2>. QED
    BY <1>2, <1>3, <2>1, <2>2
<1>5. \A i \in 1..n - 1 : (front \o back)[i] = IF i < at THEN front[i] ELSE back[i - (at - 1)]
  BY <1>1, <1>2, <1>3
<1>6. ASSUME NEW i \in 1..n - 1
      PROVE  (front \o back)[i] = q[IF i < at THEN i ELSE i + 1]
  <2>1. CASE i < at
    BY <1>1, <1>2, <1>5, <2>1
  <2>2. CASE ~ i < at
    <3>1. i - (at - 1) \in 1..n - at /\ at + (i - (at - 1)) = i + 1
      BY <1>1, <2>2
    <3>2. back[i - (at - 1)] = q[i + 1]
      BY <1>3, <3>1
    <3>. QED
      BY <1>5, <2>2, <3>2
  <2>. QED
    BY <2>1, <2>2
<1>. QED
  BY <1>1, <1>4, <1>6 DEF front, back, n

(* Leaving the queue takes one item out of it, and its mark. *)
LEMMA RemoveFromQueueFacts ==
  ASSUME NEW ids, NEW scores, NEW times, NEW r, RoomOK(r, ids, scores, times), NEW id \in ids,
         NoIdTwice(r.queue), r.qSet = IdsOf(r.queue)
  PROVE  /\ RoomOK(RemoveFromQueue(r, id), ids, scores, times)
         /\ RemoveFromQueue(r, id).active = r.active
         /\ RemoveFromQueue(r, id).qSet = r.qSet \ {id}
         /\ Thinned(RemoveFromQueue(r, id).queue, r.queue)
         /\ IdsOf(RemoveFromQueue(r, id).queue) = IdsOf(r.queue) \ {id}
<1>. DEFINE q == r.queue
            n == Len(q)
            T == [id : ids, score : scores]
<1>1. q \in Seq(T) /\ n \in Nat /\ DOMAIN q = 1..n /\ \A i \in 1..n : q[i] \in T
  <2>1. q \in Seq(T)
    BY DEF RoomOK
  <2>. HIDE DEF T
  <2>. QED
    BY <2>1, QueueShape
<1>2. CASE ~ Found(r, id)
  <2>1. id \notin r.qSet
    BY <1>2 DEF Found, IdsOf
  <2>2. RemoveFromQueue(r, id) = [r EXCEPT !.qSet = @ \ {id}]
    BY <1>2 DEF RemoveFromQueue
  <2>3. RemoveFromQueue(r, id) = [queue |-> q, qSet |-> r.qSet \ {id}, active |-> r.active]
    BY <2>2 DEF RoomOK
  <2>4. Thinned(q, q)
    <3>. DEFINE e == [i \in DOMAIN q |-> i]
    <3>1. e \in [DOMAIN q -> DOMAIN q] /\ \A i \in DOMAIN q : e[i] = i
      OBVIOUS
    <3>. HIDE DEF e
    <3>. QED
      BY <3>1 DEF Thinned
  <2>5. IdsOf(q) \ {id} = IdsOf(q)
    BY <2>1
  <2>. QED
    BY <2>3, <2>4, <2>5 DEF RoomOK
<1>3. CASE Found(r, id)
  <2>1. PICK at \in 1..n : q[at].id = id /\ id \in r.qSet
    BY <1>1, <1>3 DEF Found
  <2>2. Position(r, id) = at - 1
    BY <1>1, <2>1, PositionFacts
  <2>. DEFINE q2 == SubSeq(q, 1, at - 1) \o SubSeq(q, (at - 1) + 2, Len(q))
              e == [i \in 1..n - 1 |-> IF i < at THEN i ELSE i + 1]
  <2>3. RemoveFromQueue(r, id) = [queue |-> q2, qSet |-> r.qSet \ {id}, active |-> r.active]
    BY <1>3, <2>2 DEF RemoveFromQueue, RoomOK
  <2>4. q2 \in Seq(T) /\ Len(q2) = n - 1 /\ \A i \in 1..n - 1 : q2[i] = q[e[i]]
    <3>1. q \in Seq(T) /\ at \in 1..Len(q)
      BY <1>1
    <3>. HIDE DEF T, q
    <3>. QED
      BY <3>1, TakenOut
  <2>. HIDE DEF q2, T, q, n
  <2>5. DOMAIN q2 = 1..n - 1
    BY <2>4
  <2>6. /\ \A i \in 1..n - 1 : e[i] \in 1..n /\ e[i] # at
        /\ \A i, j \in 1..n - 1 : i < j => e[i] < e[j]
        /\ \A i \in 1..n : i # at => \E j \in 1..n - 1 : e[j] = i
    <3>1. \A i \in 1..n - 1 : e[i] \in 1..n /\ e[i] # at
      BY <1>1, <2>1
    <3>2. \A i, j \in 1..n - 1 : i < j => e[i] < e[j]
      BY <1>1, <2>1
    <3>3. ASSUME NEW i \in 1..n, i # at PROVE \E j \in 1..n - 1 : e[j] = i
      <4>1. CASE i < at
        BY <1>1, <2>1, <4>1
      <4>2. CASE i > at
        <5>1. i - 1 \in 1..n - 1 /\ ~ i - 1 < at /\ (i - 1) + 1 = i
          BY <1>1, <2>1, <4>2
        <5>. QED
          BY <5>1
      <4>. QED
        BY <3>3, <1>1, <2>1, <4>1, <4>2
    <3>. QED
      BY <3>1, <3>2, <3>3
  <2>7. e \in [1..n - 1 -> 1..n]
    BY <2>6
  <2>. HIDE DEF e
  <2>8. Thinned(q2, q)
    BY <1>1, <2>4, <2>5, <2>6, <2>7 DEF Thinned
  <2>9. IdsOf(q2) = IdsOf(q) \ {id}
    <3>1. \A x, y \in 1..n : q[x].id = q[y].id => x = y
      BY <1>1 DEF NoIdTwice, q
    <3>2. IdsOf(q2) \subseteq IdsOf(q) \ {id}
      BY <1>1, <2>1, <2>4, <2>5, <2>6, <3>1 DEF IdsOf
    <3>3. IdsOf(q) \ {id} \subseteq IdsOf(q2)
      <4>. SUFFICES ASSUME NEW i \in 1..n, q[i].id # id PROVE q[i].id \in IdsOf(q2)
        BY <1>1 DEF IdsOf
      <4>1. PICK j \in 1..n - 1 : e[j] = i
        BY <2>1, <2>6
      <4>. QED
        BY <2>4, <2>5, <4>1 DEF IdsOf
    <3>. QED
      BY <3>2, <3>3
  <2>10. RoomOK(RemoveFromQueue(r, id), ids, scores, times)
    BY <2>3, <2>4 DEF RoomOK, T
  <2>. QED
    BY <2>3, <2>8, <2>9, <2>10 DEF q
<1>. QED
  BY <1>2, <1>3

(* A fresh id joins the scores, and no other score changes. *)
LEMMA EnqueueNewScores ==
  ASSUME NEW ids, NEW scores, NEW times, NEW r, RoomOK(r, ids, scores, times),
         NEW id \in ids, NEW score \in scores,
         NoIdTwice(r.queue), id \notin IdsOf(r.queue)
  PROVE  QueueScores(EnqueueNew(r, id, score).queue)
           = [x \in IdsOf(r.queue) \cup {id} |-> IF x = id THEN score ELSE QueueScores(r.queue)[x]]
<1>. DEFINE q == r.queue
            n == Len(q)
            k == InsertionPoint(q, score)
            item == QueueItem(id, score)
            q2 == EnqueueNew(r, id, score).queue
            T == [id : ids, score : scores]
<1>1. q \in Seq(T)
  BY DEF RoomOK
<1>2. n \in Nat /\ DOMAIN q = 1..n
  <2>. HIDE DEF T
  <2>. QED
    BY <1>1, QueueShape
<1>3. k \in 0..n
  BY <1>1, InsertionPointInQueue
<1>4. item.id = id /\ item.score = score
  BY DEF QueueItem
<1>5. q2 = [i \in 1..n + 1 |-> IF i <= k THEN q[i] ELSE IF i = k + 1 THEN item ELSE q[i - 1]]
  BY DEF EnqueueNew, Inserted
<1>6. NoIdTwice(q2) /\ IdsOf(q2) = IdsOf(q) \cup {id}
  BY EnqueueNewFacts
<1>7. QueueScores(q2) = [x \in IdsOf(q2) |-> QueueScores(q2)[x]]
  BY DEF QueueScores
<1>. HIDE DEF n, k, item, q2
<1>8. QueueScores(q2)[id] = score
  <2>1. k + 1 \in DOMAIN q2 /\ q2[k + 1] = item
    BY <1>2, <1>3, <1>5
  <2>. QED
    BY <1>4, <1>6, <2>1, ScoresAt
<1>9. ASSUME NEW x \in IdsOf(q) PROVE QueueScores(q2)[x] = QueueScores(q)[x]
  <2>1. PICK i \in 1..n : q[i].id = x
    BY <1>2 DEF IdsOf
  <2>2. \E j \in DOMAIN q2 : q2[j] = q[i]
    <3>1. CASE i <= k
      <4>1. i \in DOMAIN q2 /\ q2[i] = q[i]
        BY <1>2, <1>5, <3>1
      <4>. QED
        BY <4>1
    <3>2. CASE ~ i <= k
      <4>1. i + 1 \in DOMAIN q2 /\ (i + 1) - 1 = i
        BY <1>2, <1>5
      <4>2. q2[i + 1] = q[i]
        BY <1>2, <1>3, <1>5, <3>2, <4>1
      <4>. QED
        BY <4>1, <4>2
    <3>. QED
      BY <3>1, <3>2
  <2>3. PICK j \in DOMAIN q2 : q2[j] = q[i]
    BY <2>2
  <2>4. QueueScores(q2)[q2[j].id] = q2[j].score
    BY <1>6, ScoresAt
  <2>5. QueueScores(q)[q[i].id] = q[i].score
    BY <1>2, ScoresAt
  <2>. QED
    BY <2>1, <2>3, <2>4, <2>5
<1>10. \A x \in IdsOf(q2) : QueueScores(q2)[x] = IF x = id THEN score ELSE QueueScores(q)[x]
  BY <1>6, <1>8, <1>9
<1>11. QueueScores(q2) = [x \in IdsOf(q2) |-> IF x = id THEN score ELSE QueueScores(q)[x]]
  BY <1>7, <1>10
<1>. QED
  BY <1>6, <1>11 DEF q2

(* As many ids are queued as the queue is long. *)
LEMMA QueueCardinality ==
  ASSUME NEW S, NEW q \in Seq(S), NoIdTwice(q)
  PROVE  IsFiniteSet(IdsOf(q)) /\ Cardinality(IdsOf(q)) = Len(q)
<1>. DEFINE f == [i \in 1..Len(q) |-> q[i].id]
<1>1. Len(q) \in Nat /\ DOMAIN q = 1..Len(q)
  BY QueueShape
<1>2. IsFiniteSet(1..Len(q)) /\ Cardinality(1..Len(q)) = Len(q)
  BY <1>1, FS_Interval
<1>3. f \in [1..Len(q) -> IdsOf(q)]
  BY <1>1 DEF IdsOf
<1>4. f \in Surjection(1..Len(q), IdsOf(q))
  BY <1>1, <1>3 DEF IdsOf, Surjection
<1>5. f \in Injection(1..Len(q), IdsOf(q))
  BY <1>1, <1>3 DEF NoIdTwice, Injection, IsInjective
<1>. HIDE DEF f
<1>. QED
  BY <1>2, <1>4, <1>5, FS_Surjection

(* The ids a pop answers are queued, are all different, are the ids of the *)
(* items it takes, and in fifo order have the lowest scores, lowest first. *)
LEMMA AnsweredFacts ==
  ASSUME NEW S, NEW q \in Seq(S), NoIdTwice(q), Sorted(q),
         NEW n \in 0..Len(q), NEW method, NEW take \in Takes(q, n, method)
  PROVE  LET ids == [i \in DOMAIN take |-> q[take[i]].id]
         IN  /\ ids \in Injection(1..n, IdsOf(q))
             /\ Range(ids) = IdsOf(Picked(q, take))
             /\ method = "fifo" =>
                  /\ \A i, j \in DOMAIN ids : i < j => QueueScores(q)[ids[i]] <= QueueScores(q)[ids[j]]
                  /\ \A i \in DOMAIN ids, left \in IdsOf(q) \ Range(ids) :
                       QueueScores(q)[ids[i]] <= QueueScores(q)[left]
<1>. DEFINE ids == [i \in DOMAIN take |-> q[take[i]].id]
<1>0. Len(q) \in Nat /\ DOMAIN q = 1..Len(q)
  BY QueueShape
<1>1. take \in [1..n -> DOMAIN q] /\ \A i, j \in 1..n : take[i] = take[j] => i = j
  BY TakesFacts
<1>2. DOMAIN ids = 1..n /\ \A i \in 1..n : take[i] \in DOMAIN q /\ ids[i] = q[take[i]].id
  BY <1>1
<1>3. \A i \in 1..n : ids[i] \in IdsOf(q)
  BY <1>2 DEF IdsOf
<1>4. ids \in [1..n -> IdsOf(q)]
  BY <1>1, <1>3
<1>5. \A i, j \in 1..n : ids[i] = ids[j] => i = j
  BY <1>1, <1>2 DEF NoIdTwice
<1>6. ids \in Injection(1..n, IdsOf(q))
  BY <1>4, <1>5 DEF Injection, IsInjective
<1>7. Range(ids) = IdsOf(Picked(q, take))
  BY <1>1 DEF Range, IdsOf, Picked
<1>8. \A i \in 1..n : QueueScores(q)[ids[i]] = q[take[i]].score
  BY <1>2, ScoresAt
<1>. HIDE DEF ids
<1>9. ASSUME method = "fifo"
      PROVE  /\ \A i, j \in DOMAIN ids : i < j => QueueScores(q)[ids[i]] <= QueueScores(q)[ids[j]]
             /\ \A i \in DOMAIN ids, left \in IdsOf(q) \ Range(ids) :
                  QueueScores(q)[ids[i]] <= QueueScores(q)[left]
  <2>1. \A i \in 1..n : take[i] = i
    BY <1>9 DEF Takes
  <2>2. ASSUME NEW i \in 1..n, NEW j \in 1..n, i < j
        PROVE  QueueScores(q)[ids[i]] <= QueueScores(q)[ids[j]]
    <3>1. q[take[i]].score <= q[take[j]].score
      BY <1>2, <2>1, <2>2 DEF Sorted
    <3>. QED
      BY <1>8, <3>1
  <2>3. ASSUME NEW i \in 1..n, NEW left \in IdsOf(q) \ Range(ids)
        PROVE  QueueScores(q)[ids[i]] <= QueueScores(q)[left]
    <3>1. PICK x \in DOMAIN q : q[x].id = left
      BY DEF IdsOf
    <3>2. x \notin 1..n
      <4>. SUFFICES ASSUME x \in 1..n PROVE FALSE
        OBVIOUS
      <4>1. ids[x] = left
        BY <1>2, <2>1, <3>1
      <4>. QED
        BY <1>2, <4>1 DEF Range
    <3>3. i < x
      BY <1>0, <3>2
    <3>4. q[take[i]].score <= q[x].score
      BY <1>2, <2>1, <3>3 DEF Sorted
    <3>5. QueueScores(q)[left] = q[x].score
      BY <3>1, ScoresAt
    <3>. QED
      BY <1>8, <3>4, <3>5
  <2>. QED
    BY <1>2, <2>2, <2>3
<1>. QED
  BY <1>6, <1>7, <1>9 DEF ids
=============================================================================
