--------------------------- MODULE ArithmeticFacts ---------------------------
(***************************************************************************)
(* Facts that the provers need spelled out: division and products, and     *)
(* loops, which count from one number to another and are followed here by  *)
(* induction over the count.                                               *)
(***************************************************************************)
EXTENDS Integers, WellFoundedInduction, TLAPS

(* Integer division by the positive number of ticks. *)
LEMMA DivisionBounds ==
  ASSUME NEW a \in Nat, NEW d \in Nat \ {0}
  PROVE  /\ a \div d \in Nat
         /\ d * (a \div d) <= a
         /\ a - d * (a \div d) < d
         /\ d * (a \div d) = (a \div d) * d
  BY SMT

(* A positive factor cancels from a strict inequality. *)
LEMMA CancelFactor ==
  ASSUME NEW c \in Nat \ {0}, NEW a \in Int, NEW b \in Int, c * a < c * b
  PROVE  a < b
<1>1. CASE a >= b
  <2>1. PICK k \in Nat : a = b + k
    BY <1>1
  <2>2. c * a = c * b + c * k
    BY <2>1
  <2>3. c * k >= 0
    OBVIOUS
  <2>. QED
    BY <2>2, <2>3
<1>. QED
  BY <1>1

(* One step further adds the factor once more. *)
LEMMA OneMore ==
  ASSUME NEW c \in Nat, NEW a \in Int, NEW b \in Int, NEW m \in Int, b = a + 1
  PROVE  /\ c * (b - m) = c * (a - m) + c
         /\ c * b = c * a + c
  OBVIOUS

(* A factor keeps an inequality. *)
LEMMA ScaleOrder ==
  ASSUME NEW c \in Nat, NEW a \in Int, NEW b \in Int, a <= b
  PROVE  c * a <= c * b
<1>1. PICK k \in Nat : b = a + k
  OBVIOUS
<1>2. c * b = c * a + c * k /\ c * k >= 0
  BY <1>1
<1>. QED
  BY <1>2
-----------------------------------------------------------------------------
(* A set of naturals that is not empty has a least member: what induction  *)
(* comes down to.                                                          *)
LEMMA LeastNatural ==
  ASSUME NEW S \in SUBSET Nat, S # {}
  PROVE  \E m \in S : \A k \in S : m <= k
<1>. DEFINE R == OpToRel(<, Nat)
<1>1. IsWellFoundedOn(R, Nat)
  BY NatLessThanWellFounded
<1>. HIDE DEF R
<1>2. PICK m \in S : \A k \in S : ~ (<<k, m>> \in R)
  BY <1>1, WFMin
<1>3. \A k \in S : k < m => <<k, m>> \in R
  BY DEF R, OpToRel
<1>4. \A k \in S : ~(k < m) 
  BY <1>2, <1>3
<1>5. \A k \in S : m <= k
  BY <1>4
<1>. QED
  BY <1>5

(* Induction over the values of a counter. *)
LEMMA CountUp ==
  ASSUME NEW m \in Nat, NEW n \in Nat, NEW T,
         m \in T, \A k \in m + 1..n : k - 1 \in T => k \in T
  PROVE  m..n \subseteq T
<1>. DEFINE Bad == {k \in m..n : k \notin T}
<1>1. Bad = {}
  <2>. SUFFICES ASSUME Bad # {} PROVE FALSE
    OBVIOUS
  <2>1. Bad \in SUBSET Nat
    OBVIOUS
  <2>. HIDE DEF Bad
  <2>2. PICK l \in Bad : \A k \in Bad : l <= k
    BY <2>1, LeastNatural
  <2>. USE DEF Bad
  <2>3. l # m
    OBVIOUS
  <2>4. l - 1 \in m..n /\ l - 1 \notin Bad
    BY <2>2, <2>3
  <2>. QED
    BY <2>3, <2>4
<1>. QED
  BY <1>1

(* A loop whose step k takes s to F[k][s]: such a run of states from s0    *)
(* exists.  The definitions of loops are recursive functions; this says    *)
(* that there is one.                                                      *)
Steps(F, S, m, n) == \A k \in m + 1..n : \A s \in S : F[k][s] \in S

Run(f, F, S, s0, m, n) ==
  /\ f \in [m..n -> S]
  /\ f[m] = s0
  /\ \A k \in m + 1..n : f[k] = F[k][f[k - 1]]

LEMMA LoopRuns ==
  ASSUME NEW m \in Nat, NEW n \in Nat, m <= n, NEW S, NEW s0 \in S,
         NEW F, Steps(F, S, m, n)
  PROVE  \E f : Run(f, F, S, s0, m, n)
<1>. DEFINE T == {l \in m..n : \E f : Run(f, F, S, s0, m, l)}
<1>1. m \in T
  <2>1. Run([k \in m..m |-> s0], F, S, s0, m, m)
    BY DEF Run
  <2>. QED
    BY <2>1
<1>2. ASSUME NEW l \in m + 1..n, l - 1 \in T
      PROVE  l \in T
  <2>1. PICK f : Run(f, F, S, s0, m, l - 1)
    BY <1>2
  <2>. DEFINE e == [k \in m..l |-> IF k = l THEN F[l][f[l - 1]] ELSE f[k]]
  <2>2. f \in [m..l - 1 -> S] /\ f[l - 1] \in S
    BY <2>1 DEF Run
  <2>3. e \in [m..l -> S] /\ e[m] = s0
    BY <2>1, <2>2 DEF Run, Steps
  <2>4. ASSUME NEW k \in m + 1..l
        PROVE  e[k] = F[k][e[k - 1]]
    <3>1. k - 1 \in m..l - 1 /\ e[k - 1] = f[k - 1]
      OBVIOUS
    <3>2. CASE k = l
      BY <3>1, <3>2
    <3>3. CASE k # l
      <4>1. k \in m + 1..l - 1
        BY <3>3
      <4>. QED
        BY <2>1, <3>1, <4>1 DEF Run
    <3>. QED
      BY <3>2, <3>3
  <2>. HIDE DEF e
  <2>5. Run(e, F, S, s0, m, l)
    BY <2>3, <2>4 DEF Run
  <2>. QED
    BY <2>5
<1>. HIDE DEF T
<1>3. m..n \subseteq T
  BY <1>1, <1>2, CountUp
<1>4. n \in T
  BY <1>3
<1>. QED
  BY <1>4 DEF T
=============================================================================
