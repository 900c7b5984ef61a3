-------------------------- MODULE WaitingPageProofs --------------------------
(***************************************************************************)
(* What holds of any number of visitors of one waiting room, for every     *)
(* limit, rate and bound on the mishaps: nobody has two places, and pages  *)
(* and places drift apart by one per mishap.                               *)
(***************************************************************************)
EXTENDS WaitingPage, ArithmeticFacts, FiniteSetTheorems, SequenceTheorems

-----------------------------------------------------------------------------
(* The line, batch and queue in one: who is in it, and how often.          *)

Owners == Visitors \cup {Ghost}

In(s, x) == \E k \in DOMAIN s : s[k] = x

OnceIn(s, x) == \A k, l \in DOMAIN s : s[k] = x /\ s[l] = x => k = l

LEMMA PlacesFinite ==
  ASSUME NEW s \in Seq(Owners), NEW x
  PROVE  IsFiniteSet(Places(s, x)) /\ Cardinality(Places(s, x)) \in Nat
<1>1. Places(s, x) \subseteq 1..Len(s)
  BY DEF Places
<1>2. IsFiniteSet(1..Len(s))
  BY FS_Interval
<1>. QED
  BY <1>1, <1>2, FS_Subset, FS_CardinalityType

(* Who is in a line once has one place, and who is not has none. *)
LEMMA OnePlace ==
  ASSUME NEW s \in Seq(Owners), NEW x, OnceIn(s, x)
  PROVE  Cardinality(Places(s, x)) = IF In(s, x) THEN 1 ELSE 0
<1>1. CASE In(s, x)
  <2>1. PICK k \in DOMAIN s : s[k] = x
    BY <1>1 DEF In
  <2>2. Places(s, x) = {k}
    BY <2>1 DEF Places, OnceIn
  <2>. QED
    BY <1>1, <2>2, FS_Singleton
<1>2. CASE ~In(s, x)
  <2>1. Places(s, x) = {}
    BY <1>2 DEF Places, In
  <2>. QED
    BY <1>2, <2>1, FS_EmptySet
<1>. QED
  BY <1>1, <1>2

LEMMA AppendFacts ==
  ASSUME NEW s \in Seq(Owners), NEW v \in Owners
  PROVE  /\ Append(s, v) \in Seq(Owners)
         /\ \A x : x # v => /\ Places(Append(s, v), x) = Places(s, x)
                            /\ In(Append(s, v), x) <=> In(s, x)
                            /\ OnceIn(Append(s, v), x) <=> OnceIn(s, x)
         /\ In(Append(s, v), v)
         /\ ~In(s, v) => OnceIn(Append(s, v), v)
<1>. DEFINE t == Append(s, v)
<1>1. /\ t \in Seq(Owners) /\ DOMAIN s = 1..Len(s) /\ DOMAIN t = 1..Len(s) + 1 /\ Len(s) \in Nat
      /\ \A k \in 1..Len(s) : t[k] = s[k]
      /\ t[Len(s) + 1] = v
  OBVIOUS
<1>. HIDE DEF t
<1>2. \A x : x # v => /\ Places(t, x) = Places(s, x)
                      /\ In(t, x) <=> In(s, x)
                      /\ OnceIn(t, x) <=> OnceIn(s, x)
  <2>. SUFFICES ASSUME NEW x, x # v
                PROVE  /\ Places(t, x) = Places(s, x)
                       /\ In(t, x) <=> In(s, x)
                       /\ OnceIn(t, x) <=> OnceIn(s, x)
    OBVIOUS
  <2>1. \A k : k \in DOMAIN t /\ t[k] = x <=> k \in DOMAIN s /\ s[k] = x
    BY <1>1
  <2>2. Places(t, x) = Places(s, x)
    BY <2>1 DEF Places
  <2>3. In(t, x) <=> In(s, x)
    BY <2>1 DEF In
  <2>4. OnceIn(t, x) <=> OnceIn(s, x)
    BY <2>1 DEF OnceIn
  <2>. QED
    BY <2>2, <2>3, <2>4
<1>3. In(t, v)
  BY <1>1 DEF In
<1>4. ~In(s, v) => OnceIn(t, v)
  BY <1>1 DEF In, OnceIn
<1>. QED
  BY <1>1, <1>2, <1>3, <1>4 DEF t

LEMMA AppendOne ==
  ASSUME NEW s \in Seq(Owners), NEW x \in Owners
  PROVE  Cardinality(Places(Append(s, x), x)) <= Cardinality(Places(s, x)) + 1
<1>. DEFINE new == Len(s) + 1
<1>1. Places(Append(s, x), x) \subseteq Places(s, x) \cup {new}
  BY DEF Places
<1>2. IsFiniteSet(Places(s, x)) /\ Cardinality(Places(s, x)) \in Nat
  BY PlacesFinite
<1>. PICK S : S = Places(s, x)
  OBVIOUS
<1>3. /\ IsFiniteSet(S \cup {new})
      /\ Cardinality(S \cup {new}) = IF new \in S THEN Cardinality(S) ELSE Cardinality(S) + 1
  BY <1>2, FS_AddElement
<1>4. /\ Cardinality(Places(Append(s, x), x)) <= Cardinality(S \cup {new})
      /\ Cardinality(Places(Append(s, x), x)) \in Nat /\ Cardinality(S \cup {new}) \in Nat
  BY <1>1, <1>3, FS_Subset, FS_CardinalityType
<1>. QED
  BY <1>2, <1>3, <1>4

(* A draw changes the order of a line and nothing else.                    *)
LEMMA ShuffleFacts ==
  ASSUME NEW s \in Seq(Owners), NEW draw \in Injection(DOMAIN s, DOMAIN s), NEW x
  PROVE  LET t == [k \in DOMAIN s |-> s[draw[k]]]
         IN  /\ t \in Seq(Owners) /\ Len(t) = Len(s)
             /\ In(t, x) <=> In(s, x)
             /\ OnceIn(t, x) <=> OnceIn(s, x)
             /\ Cardinality(Places(t, x)) = Cardinality(Places(s, x))
<1>. DEFINE t == [k \in DOMAIN s |-> s[draw[k]]]
<1>1. /\ DOMAIN s = 1..Len(s) /\ Len(s) \in Nat /\ IsFiniteSet(DOMAIN s)
      /\ \A k \in DOMAIN s : s[k] \in Owners
  BY FS_Interval
<1>2. draw \in Surjection(DOMAIN s, DOMAIN s)
  BY <1>1, FS_Injection
<1>3. /\ \A k \in DOMAIN s : draw[k] \in DOMAIN s
      /\ \A k, l \in DOMAIN s : draw[k] = draw[l] => k = l
      /\ \A k \in DOMAIN s : \E l \in DOMAIN s : draw[l] = k
  BY <1>2 DEF Injection, IsInjective, Surjection
<1>4. t \in Seq(Owners) /\ Len(t) = Len(s) /\ DOMAIN t = DOMAIN s
  BY <1>1, <1>3
<1>5. \A k \in DOMAIN s : t[k] = s[draw[k]]
  OBVIOUS
<1>. HIDE DEF t
<1>6. In(t, x) <=> In(s, x)
  <2>1. In(t, x) => In(s, x)
    BY <1>3, <1>4, <1>5 DEF In
  <2>2. In(s, x) => In(t, x)
    <3>. SUFFICES ASSUME NEW k \in DOMAIN s, s[k] = x PROVE In(t, x)
      BY DEF In
    <3>1. PICK l \in DOMAIN s : draw[l] = k
      BY <1>3
    <3>. QED
      BY <1>4, <1>5, <3>1 DEF In
  <2>. QED
    BY <2>1, <2>2
<1>7. OnceIn(t, x) <=> OnceIn(s, x)
  <2>1. ASSUME OnceIn(s, x), NEW k \in DOMAIN s, NEW l \in DOMAIN s, t[k] = x, t[l] = x PROVE k = l
    <3>. PICK m \in DOMAIN s : m = draw[k]
      BY <1>3
    <3>. PICK n \in DOMAIN s : n = draw[l]
      BY <1>3
    <3>0. s[m] = x /\ s[n] = x
      BY <1>5, <2>1
    <3>1. draw[k] = draw[l]
      BY <2>1, <3>0 DEF OnceIn
    <3>. QED
      BY <1>3, <3>1
  <2>2. ASSUME OnceIn(t, x), NEW k \in DOMAIN s, NEW l \in DOMAIN s, s[k] = x, s[l] = x PROVE k = l
    <3>1. PICK m \in DOMAIN s : draw[m] = k
      BY <1>3
    <3>2. PICK n \in DOMAIN s : draw[n] = l
      BY <1>3
    <3>3. t[m] = x /\ t[n] = x
      BY <1>5, <2>2, <3>1, <3>2
    <3>4. m = n
      BY <1>4, <2>2, <3>3 DEF OnceIn
    <3>. QED
      BY <3>1, <3>2, <3>4
  <2>. QED
    BY <1>4, <2>1, <2>2 DEF OnceIn
<1>8. Cardinality(Places(t, x)) = Cardinality(Places(s, x))
  <2>. DEFINE f == [k \in Places(t, x) |-> draw[k]]
  <2>1. f \in [Places(t, x) -> Places(s, x)]
    BY <1>3, <1>4, <1>5 DEF Places
  <2>2. \A k, l \in Places(t, x) : f[k] = f[l] => k = l
    BY <1>3, <1>4 DEF Places
  <2>3. ASSUME NEW k \in Places(s, x) PROVE \E l \in Places(t, x) : f[l] = k
    <3>1. PICK l \in DOMAIN s : draw[l] = k
      BY <1>3 DEF Places
    <3>2. l \in Places(t, x)
      BY <1>4, <1>5, <3>1 DEF Places
    <3>. QED
      BY <3>1, <3>2
  <2>4. f \in Surjection(Places(t, x), Places(s, x)) /\ f \in Injection(Places(t, x), Places(s, x))
    BY <2>1, <2>2, <2>3 DEF Surjection, Injection, IsInjective
  <2>5. IsFiniteSet(Places(t, x))
    BY <1>4, PlacesFinite
  <2>. HIDE DEF f
  <2>. QED
    BY <2>4, <2>5, FS_Surjection
<1>. QED
  BY <1>4, <1>6, <1>7, <1>8 DEF t

LEMMA TailFacts ==
  ASSUME NEW s \in Seq(Owners), s # <<>>, NEW x
  PROVE  /\ Tail(s) \in Seq(Owners) /\ Head(s) \in Owners
         /\ In(s, x) <=> In(Tail(s), x) \/ Head(s) = x
         /\ OnceIn(s, x) => /\ OnceIn(Tail(s), x)
                            /\ Head(s) = x => ~In(Tail(s), x)
         /\ Cardinality(Places(Tail(s), x)) + (IF Head(s) = x THEN 1 ELSE 0) <= Cardinality(Places(s, x))
<1>. DEFINE t == Tail(s)
            h == Head(s)
<1>1. /\ t \in Seq(Owners) /\ h \in Owners /\ Len(s) \in Nat \ {0}
      /\ DOMAIN s = 1..Len(s) /\ DOMAIN t = 1..Len(s) - 1
      /\ \A k \in 1..Len(s) - 1 : t[k] = s[k + 1]
      /\ h = s[1]
  OBVIOUS
<1>. HIDE DEF t, h
<1>2. \A k \in 2..Len(s) : s[k] = t[k - 1]
  BY <1>1
<1>3. In(s, x) <=> In(t, x) \/ h = x
  <2>1. In(s, x) => In(t, x) \/ h = x
    <3>. SUFFICES ASSUME NEW k \in 1..Len(s), s[k] = x, h # x PROVE In(t, x)
      BY <1>1 DEF In
    <3>1. k - 1 \in DOMAIN t /\ t[k - 1] = x
      BY <1>1, <1>2
    <3>. QED
      BY <3>1 DEF In
  <2>2. In(t, x) => In(s, x)
    <3>. SUFFICES ASSUME NEW k \in 1..Len(s) - 1, t[k] = x PROVE In(s, x)
      BY <1>1 DEF In
    <3>1. k + 1 \in DOMAIN s /\ s[k + 1] = x
      BY <1>1
    <3>. QED
      BY <3>1 DEF In
  <2>3. h = x => In(s, x)
    <3>1. 1 \in DOMAIN s /\ s[1] = h
      BY <1>1
    <3>. QED
      BY <3>1 DEF In
  <2>. QED
    BY <2>1, <2>2, <2>3
<1>4. OnceIn(s, x) => OnceIn(t, x)
  <2>. SUFFICES ASSUME OnceIn(s, x), NEW k \in 1..Len(s) - 1, NEW l \in 1..Len(s) - 1, t[k] = x, t[l] = x
                PROVE  k = l
    BY <1>1 DEF OnceIn
  <2>1. k + 1 \in DOMAIN s /\ l + 1 \in DOMAIN s /\ s[k + 1] = x /\ s[l + 1] = x
    BY <1>1
  <2>2. k + 1 = l + 1
    BY <2>1 DEF OnceIn
  <2>. QED
    BY <1>1, <2>2
<1>5. OnceIn(s, x) /\ h = x => ~In(t, x)
  <2>. SUFFICES ASSUME OnceIn(s, x), h = x, NEW k \in 1..Len(s) - 1, t[k] = x PROVE FALSE
    BY <1>1 DEF In
  <2>1. k + 1 \in DOMAIN s /\ s[k + 1] = x /\ 1 \in DOMAIN s /\ s[1] = x /\ k + 1 # 1
    BY <1>1
  <2>. QED
    BY <2>1 DEF OnceIn
<1>6. Cardinality(Places(t, x)) + (IF h = x THEN 1 ELSE 0) <= Cardinality(Places(s, x))
  <2>. DEFINE later == Places(s, x) \ {1}
              f == [k \in later |-> k - 1]
  <2>1. IsFiniteSet(Places(s, x)) /\ Cardinality(Places(s, x)) \in Nat
    BY PlacesFinite
  <2>2. /\ IsFiniteSet(later)
        /\ Cardinality(later) = IF 1 \in Places(s, x) THEN Cardinality(Places(s, x)) - 1
                                                      ELSE Cardinality(Places(s, x))
    <3>. PICK S : S = Places(s, x)
      OBVIOUS
    <3>1. /\ IsFiniteSet(S \ {1})
          /\ Cardinality(S \ {1}) = IF 1 \in S THEN Cardinality(S) - 1 ELSE Cardinality(S)
      BY <2>1, FS_RemoveElement
    <3>. QED
      BY <3>1
  <2>3. 1 \in Places(s, x) <=> h = x
    BY <1>1 DEF Places
  <2>4. f \in Surjection(later, Places(t, x))
    <3>1. f \in [later -> Places(t, x)]
      BY <1>1, <1>2 DEF Places
    <3>2. ASSUME NEW k \in Places(t, x) PROVE \E l \in later : f[l] = k
      <4>1. k + 1 \in later /\ k \in Int
        BY <1>1 DEF Places
      <4>2. f[k + 1] = k
        BY <4>1
      <4>. QED
        BY <4>1, <4>2
    <3>. QED
      BY <3>1, <3>2 DEF Surjection
  <2>. HIDE DEF later, f
  <2>5. IsFiniteSet(Places(t, x)) /\ Cardinality(Places(t, x)) <= Cardinality(later)
    BY <2>2, <2>4, FS_Surjection
  <2>6. Cardinality(Places(t, x)) \in Nat
    BY <2>5, FS_CardinalityType
  <2>. QED
    BY <2>1, <2>2, <2>3, <2>5, <2>6
<1>. QED
  BY <1>1, <1>3, <1>4, <1>5, <1>6 DEF t, h

LEMMA DisownFacts ==
  ASSUME NEW s \in Seq(Owners), NEW v \in Visitors
  PROVE  /\ Disown(s, v) \in Seq(Owners) /\ Len(Disown(s, v)) = Len(s)
         /\ ~In(Disown(s, v), v)
         /\ \A x \in Visitors \ {v} : /\ In(Disown(s, v), x) <=> In(s, x)
                                      /\ OnceIn(Disown(s, v), x) <=> OnceIn(s, x)
         /\ ~In(s, v) => Disown(s, v) = s
         /\ OnceIn(s, v) => Cardinality(Places(Disown(s, v), Ghost))
                              <= Cardinality(Places(s, Ghost)) + (IF In(s, v) THEN 1 ELSE 0)
<1>. DEFINE t == Disown(s, v)
<1>. USE PageAssumption
<1>1. /\ DOMAIN t = 1..Len(s) /\ DOMAIN s = 1..Len(s) /\ Len(s) \in Nat
      /\ \A k \in 1..Len(s) : t[k] = IF s[k] = v THEN Ghost ELSE s[k]
      /\ \A k \in 1..Len(s) : s[k] \in Owners
  BY DEF Disown
<1>2. t \in Seq(Owners) /\ Len(t) = Len(s)
  BY DEF Disown, Owners
<1>. HIDE DEF t
<1>3. ~In(t, v)
  BY <1>1 DEF In
<1>4. ASSUME NEW x \in Visitors \ {v} PROVE (In(t, x) <=> In(s, x)) /\ (OnceIn(t, x) <=> OnceIn(s, x))
  <2>1. \A k : k \in DOMAIN t /\ t[k] = x <=> k \in DOMAIN s /\ s[k] = x
    BY <1>1
  <2>2. In(t, x) <=> In(s, x)
    BY <2>1 DEF In
  <2>3. OnceIn(t, x) <=> OnceIn(s, x)
    BY <2>1 DEF OnceIn
  <2>. QED
    BY <2>2, <2>3
<1>5. ~In(s, v) => t = s
  <2>. SUFFICES ASSUME ~In(s, v) PROVE t = s
    OBVIOUS
  <2>1. \A k \in 1..Len(s) : t[k] = s[k]
    BY <1>1 DEF In
  <2>. QED
    BY <1>1, <1>2, <2>1
<1>6. ASSUME OnceIn(s, v)
      PROVE  Cardinality(Places(t, Ghost)) <= Cardinality(Places(s, Ghost)) + (IF In(s, v) THEN 1 ELSE 0)
  <2>1. Cardinality(Places(s, Ghost)) \in Nat /\ IsFiniteSet(Places(s, Ghost))
    BY PlacesFinite
  <2>2. CASE ~In(s, v)
    BY <1>5, <2>1, <2>2
  <2>3. CASE In(s, v)
    <3>1. PICK k \in DOMAIN s : s[k] = v
      BY <2>3 DEF In
    <3>2. Places(t, Ghost) \subseteq Places(s, Ghost) \cup {k}
      BY <1>1, <1>6, <3>1 DEF Places, OnceIn
    <3>3. /\ IsFiniteSet(Places(s, Ghost) \cup {k})
          /\ Cardinality(Places(s, Ghost) \cup {k}) <= Cardinality(Places(s, Ghost)) + 1
      <4>. PICK S : S = Places(s, Ghost)
        OBVIOUS
      <4>1. IsFiniteSet(S) /\ Cardinality(S) \in Nat
        BY <2>1
      <4>2. /\ IsFiniteSet(S \cup {k})
            /\ Cardinality(S \cup {k}) = IF k \in S THEN Cardinality(S) ELSE Cardinality(S) + 1
        BY <4>1, FS_AddElement
      <4>. QED
        BY <4>1, <4>2
    <3>4. /\ Cardinality(Places(t, Ghost)) <= Cardinality(Places(s, Ghost) \cup {k})
          /\ Cardinality(Places(t, Ghost)) \in Nat /\ Cardinality(Places(s, Ghost) \cup {k}) \in Nat
      BY <3>2, <3>3, FS_Subset, FS_CardinalityType
    <3>. QED
      BY <2>1, <2>3, <3>3, <3>4
  <2>. QED
    BY <2>2, <2>3
<1>. QED
  BY <1>2, <1>3, <1>4, <1>5, <1>6 DEF t

-----------------------------------------------------------------------------
(* The inductive invariant.  Ghosts are counted, so they are not too many. *)

PageStates == {"away", "waiting", "loading", "silent", "origin"}

Typed ==
  /\ room \in Rooms
  /\ page \in [Visitors -> PageStates]
  /\ cookie \in [Visitors -> BOOLEAN]
  /\ queue \in Seq(Owners) /\ popped \in Seq(Owners)
  /\ active \subseteq Visitors /\ due \subseteq active /\ ghosts \in Nat
  /\ mishaps \in 0..MaxMishaps

(* The worker has a batch exactly while it stamps and promotes it. *)
WorkerOK ==
  /\ Worker!WorkerTypeOK /\ bucket < TicksPerMinute
  /\ pc \in {"stamp", "promote"} <=> popped # <<>>

(* A visitor's own page and place fit together, lost or not. *)
Sound(v) ==
  /\ OnceIn(Line, v)
  /\ v \in active => ~In(Line, v)
  /\ page[v] = "away" => v \notin active /\ ~In(Line, v)
  /\ page[v] = "origin" => v \in active
  /\ v \in due => page[v] \in {"origin", "silent"}

Lost(v) == page[v] \in {"waiting", "loading"} /\ v \notin active /\ ~In(Line, v)

Drift == GhostPlaces <= mishaps /\ Cardinality({v \in Visitors : Lost(v)}) <= mishaps

IInv == Typed /\ WorkerOK /\ (\A v \in Visitors : Sound(v)) /\ Drift

LEMMA LineFacts ==
  Typed => /\ Line \in Seq(Owners)
           /\ \A v : In(Line, v) <=> Queued(v) \/ Popped(v)
           /\ \A v : Placed(v) <=> v \in active \/ In(Line, v)
<1>. SUFFICES ASSUME Typed
              PROVE  /\ Line \in Seq(Owners)
                     /\ \A v : In(Line, v) <=> Queued(v) \/ Popped(v)
  BY DEF Placed
<1>1. queue \in Seq(Owners) /\ popped \in Seq(Owners)
  BY DEF Typed
<1>2. /\ Line \in Seq(Owners) /\ Len(queue) \in Nat /\ Len(popped) \in Nat
      /\ DOMAIN Line = 1..Len(popped) + Len(queue)
      /\ DOMAIN queue = 1..Len(queue) /\ DOMAIN popped = 1..Len(popped)
      /\ \A k \in 1..Len(popped) : Line[k] = popped[k]
      /\ \A k \in 1..Len(queue) : Line[Len(popped) + k] = queue[k]
  BY <1>1 DEF Line
<1>3. ASSUME NEW v PROVE In(Line, v) => Queued(v) \/ Popped(v)
  <2>. SUFFICES ASSUME NEW k \in DOMAIN Line, Line[k] = v PROVE Queued(v) \/ Popped(v)
    BY DEF In
  <2>1. CASE k <= Len(popped)
    <3>1. k \in DOMAIN popped /\ popped[k] = v
      BY <1>2, <2>1
    <3>. QED
      BY <3>1 DEF Popped, ToSet
  <2>2. CASE k > Len(popped)
    <3>. PICK l : l = k - Len(popped)
      OBVIOUS
    <3>1. l \in 1..Len(queue) /\ Len(popped) + l = k
      BY <1>2, <2>2
    <3>2. l \in DOMAIN queue /\ queue[l] = v
      BY <1>2, <3>1
    <3>. QED
      BY <3>2 DEF Queued, ToSet
  <2>. QED
    BY <1>2, <2>1, <2>2
<1>4. ASSUME NEW v PROVE Queued(v) => In(Line, v)
  <2>. SUFFICES ASSUME NEW k \in DOMAIN queue, queue[k] = v PROVE In(Line, v)
    BY DEF Queued, ToSet
  <2>1. Len(popped) + k \in DOMAIN Line /\ Line[Len(popped) + k] = v
    BY <1>2
  <2>. QED
    BY <2>1 DEF In
<1>5. ASSUME NEW v PROVE Popped(v) => In(Line, v)
  <2>. SUFFICES ASSUME NEW k \in DOMAIN popped, popped[k] = v PROVE In(Line, v)
    BY DEF Popped, ToSet
  <2>1. k \in DOMAIN Line /\ Line[k] = v
    BY <1>2
  <2>. QED
    BY <2>1 DEF In
<1>. QED
  BY <1>2, <1>3, <1>4, <1>5

LEMMA InvProperties == IInv => TypeOK /\ PlacesMatchPages
<1>. SUFFICES ASSUME IInv PROVE TypeOK /\ PlacesMatchPages
  OBVIOUS
<1>. USE PageAssumption
<1>1. Line \in Seq(Owners) /\ \A v : Placed(v) <=> v \in active \/ In(Line, v)
  BY LineFacts DEF IInv
<1>2. ghosts \in 0..MaxMishaps
  <2>1. Cardinality(Places(Line, Ghost)) \in Nat
    BY <1>1, PlacesFinite
  <2>. QED
    BY <2>1 DEF IInv, Typed, Drift, GhostPlaces
<1>3. TypeOK
  BY <1>2 DEF IInv, Typed, WorkerOK, TypeOK, Owners, PageStates
<1>4. LostVisitors = {v \in Visitors : Lost(v)}
  BY <1>1 DEF LostVisitors, Lost
<1>5. ASSUME NEW v \in Visitors
      PROVE  /\ Cardinality(Places(Line, v)) + (IF v \in active THEN 1 ELSE 0) <= 1
             /\ page[v] = "away" => ~Placed(v)
             /\ page[v] = "origin" => v \in active
  <2>1. Sound(v)
    BY DEF IInv
  <2>2. Cardinality(Places(Line, v)) = IF In(Line, v) THEN 1 ELSE 0
    BY <1>1, <2>1, OnePlace DEF Sound
  <2>. QED
    BY <1>1, <2>1, <2>2 DEF Sound
<1>. QED
  BY <1>3, <1>4, <1>5 DEF IInv, Drift, PlacesMatchPages

LEMMA InitIInv == Init => IInv
<1>. SUFFICES ASSUME Init PROVE IInv
  OBVIOUS
<1>. USE PageAssumption
<1>1. Typed
  BY DEF Init, Typed, PageStates
<1>2. Line = <<>>
  BY DEF Init, Line
<1>3. \A x : Places(Line, x) = {} /\ ~In(Line, x) /\ OnceIn(Line, x)
  BY <1>2 DEF Places, In, OnceIn
<1>4. \A v \in Visitors : Sound(v) /\ ~Lost(v)
  BY <1>3 DEF Init, Sound, Lost
<1>5. {v \in Visitors : Lost(v)} = {} /\ Cardinality({}) = 0
  BY <1>4, FS_EmptySet
<1>6. Drift
  <2>1. Places(Line, Ghost) = {} /\ ghosts = 0 /\ mishaps = 0
    BY <1>3 DEF Init
  <2>2. GhostPlaces = 0
    BY <1>5, <2>1 DEF GhostPlaces
  <2>. QED
    BY <1>5, <2>1, <2>2 DEF Drift
<1>7. WorkerOK
  BY DEF Init, WorkerOK, Worker!WorkerTypeOK
<1>. QED
  BY <1>1, <1>4, <1>6, <1>7 DEF IInv

-----------------------------------------------------------------------------
(* A step that concerns one visitor, and one that concerns nobody.         *)

LEMMA GhostsNat == Typed => GhostPlaces \in Nat
<1>. SUFFICES ASSUME Typed PROVE GhostPlaces \in Nat
  OBVIOUS
<1>1. Cardinality(Places(Line, Ghost)) \in Nat
  BY LineFacts, PlacesFinite
<1>. QED
  BY <1>1 DEF Typed, GhostPlaces

SameFor(u) ==
  /\ In(Line', u) <=> In(Line, u)
  /\ OnceIn(Line', u) <=> OnceIn(Line, u)
  /\ u \in active' <=> u \in active
  /\ u \in due' <=> u \in due
  /\ page'[u] = page[u]

LEMMA SameKept ==
  ASSUME NEW u, Sound(u), SameFor(u)
  PROVE  Sound(u)' /\ (Lost(u)' <=> Lost(u))
<1>1. Sound(u)'
  BY DEF Sound, SameFor
<1>2. Lost(u)' <=> Lost(u)
  BY DEF Lost, SameFor
<1>. QED
  BY <1>1, <1>2

LEMMA LostFinite ==
  IsFiniteSet({v \in Visitors : Lost(v)}) /\ Cardinality({v \in Visitors : Lost(v)}) \in Nat
BY PageAssumption, FS_Subset, FS_CardinalityType

(* No place and no page changes hands without a mishap; one mishap costs   *)
(* one visitor and one place at most.                                      *)
LEMMA VisitorMoves ==
  ASSUME IInv, Typed', NEW v \in Visitors, Sound(v)',
         \A u \in Visitors \ {v} : SameFor(u),
         \/ mishaps' = mishaps /\ GhostPlaces' <= GhostPlaces /\ (Lost(v)' => Lost(v))
         \/ mishaps' = mishaps + 1 /\ GhostPlaces' <= GhostPlaces + 1
  PROVE  (\A u \in Visitors : Sound(u)') /\ Drift'
<1>. DEFINE before == {u \in Visitors : Lost(u)}
            after == {u \in Visitors : Lost(u)'}
<1>1. \A u \in Visitors \ {v} : Sound(u)' /\ (Lost(u)' <=> Lost(u))
  BY SameKept DEF IInv
<1>2. IsFiniteSet(before) /\ Cardinality(before) \in Nat
  BY LostFinite
<1>3. after \subseteq before \cup {v} /\ ((Lost(v)' => Lost(v)) => after \subseteq before)
  BY <1>1
<1>4. GhostPlaces \in Nat /\ GhostPlaces' \in Nat /\ mishaps \in Nat
  <2>1. (Typed => GhostPlaces \in Nat)'
    BY GhostsNat, PTL
  <2>. QED
    BY <2>1, GhostsNat, PageAssumption DEF IInv, Typed
<1>5. GhostPlaces <= mishaps /\ Cardinality(before) <= mishaps
  BY DEF IInv, Drift
<1>6. Drift' <=> GhostPlaces' <= mishaps' /\ Cardinality(after) <= mishaps'
  BY DEF Drift
<1>. HIDE DEF before, after
<1>7. CASE mishaps' = mishaps /\ GhostPlaces' <= GhostPlaces /\ (Lost(v)' => Lost(v))
  <2>1. Cardinality(after) <= Cardinality(before) /\ Cardinality(after) \in Nat
    BY <1>2, <1>3, <1>7, FS_Subset, FS_CardinalityType
  <2>. QED
    BY <1>1, <1>2, <1>4, <1>5, <1>6, <1>7, <2>1
<1>8. CASE mishaps' = mishaps + 1 /\ GhostPlaces' <= GhostPlaces + 1
  <2>1. /\ IsFiniteSet(before \cup {v})
        /\ Cardinality(before \cup {v}) = IF v \in before THEN Cardinality(before) ELSE Cardinality(before) + 1
    BY <1>2, FS_AddElement
  <2>2. Cardinality(before \cup {v}) <= Cardinality(before) + 1 /\ Cardinality(before \cup {v}) \in Nat
    BY <1>2, <2>1
  <2>3. Cardinality(after) <= Cardinality(before \cup {v}) /\ Cardinality(after) \in Nat
    BY <1>3, <2>1, FS_Subset, FS_CardinalityType
  <2>. QED
    BY <1>1, <1>2, <1>4, <1>5, <1>6, <1>8, <2>2, <2>3
<1>. QED
  BY <1>7, <1>8

LEMMA NobodyMoves ==
  ASSUME IInv, Typed', \A u \in Visitors : SameFor(u),
         GhostPlaces' <= GhostPlaces, mishaps' \in {mishaps, mishaps + 1}
  PROVE  (\A u \in Visitors : Sound(u)') /\ Drift'
<1>1. \A u \in Visitors : Sound(u)' /\ (Lost(u)' <=> Lost(u))
  BY SameKept DEF IInv
<1>2. {u \in Visitors : Lost(u)}' = {u \in Visitors : Lost(u)}
  BY <1>1
<1>3. GhostPlaces \in Nat /\ GhostPlaces' \in Nat /\ mishaps \in Nat
  <2>1. (Typed => GhostPlaces \in Nat)'
    BY GhostsNat, PTL
  <2>. QED
    BY <2>1, GhostsNat, PageAssumption DEF IInv, Typed
<1>4. Cardinality({u \in Visitors : Lost(u)}) \in Nat
  BY LostFinite
<1>5. GhostPlaces <= mishaps /\ Cardinality({u \in Visitors : Lost(u)}) <= mishaps
  BY DEF IInv, Drift
<1>6. Drift' <=> GhostPlaces' <= mishaps' /\ Cardinality({u \in Visitors : Lost(u)}) <= mishaps'
  BY <1>2 DEF Drift
<1>. PICK c : c = Cardinality({u \in Visitors : Lost(u)})
  OBVIOUS
<1>. QED
  BY <1>1, <1>3, <1>4, <1>5, <1>6

LEMMA WorkerStays ==
  ASSUME IInv, UNCHANGED worker, popped' \in Seq(Owners), Len(popped') = Len(popped)
  PROVE  WorkerOK'
<1>1. popped' # <<>> <=> popped # <<>>
  BY DEF IInv, Typed
<1>2. UNCHANGED <<pc, bucket, toAdmit>> /\ Len(popped') \in Nat
  BY DEF worker
<1>. QED
  BY <1>1, <1>2 DEF IInv, WorkerOK, Worker!WorkerTypeOK

-----------------------------------------------------------------------------
(* A new place at the end of the line s, where the visitor is not, or a    *)
(* session.                                                                *)
LEMMA AdmitFacts ==
  ASSUME Typed, NEW v \in Visitors, NEW s \in Seq(Owners), popped' \in Seq(Owners),
         ~In(popped' \o s, v), v \notin active, due' = due, AdmitOrQueue(v, s)
  PROVE  /\ page' \in [Visitors -> PageStates]
         /\ cookie' \in [Visitors -> BOOLEAN]
         /\ queue' \in Seq(Owners) /\ active' \subseteq Visitors
         /\ Sound(v)' /\ ~Lost(v)'
         /\ Places(Line', Ghost) = Places(popped' \o s, Ghost)
         /\ \A u \in Visitors \ {v} :
              /\ In(Line', u) <=> In(popped' \o s, u)
              /\ OnceIn(Line', u) <=> OnceIn(popped' \o s, u)
              /\ u \in active' <=> u \in active
              /\ page'[u] = page[u]
<1>. USE PageAssumption
<1>. DEFINE base == popped' \o s
<1>0. v \in Owners /\ v # Ghost /\ base \in Seq(Owners)
  BY DEF Owners
<1>1. CASE /\ queue' = Append(s, v) /\ cookie' = [cookie EXCEPT ![v] = TRUE]
           /\ Show(v, Rendered) /\ UNCHANGED active
  <2>1. Line' = Append(base, v)
    BY <1>0, <1>1 DEF Line
  <2>2. queue' \in Seq(Owners)
    BY <1>0, <1>1, AppendFacts
  <2>. HIDE DEF base
  <2>3. /\ In(Line', v) /\ OnceIn(Line', v)
        /\ \A x : x # v => /\ Places(Line', x) = Places(base, x)
                           /\ In(Line', x) <=> In(base, x)
                           /\ OnceIn(Line', x) <=> OnceIn(base, x)
    BY <1>0, <2>1, AppendFacts DEF base
  <2>4. page' \in [Visitors -> PageStates] /\ page'[v] \in {"waiting", "silent"}
        /\ \A u \in Visitors \ {v} : page'[u] = page[u]
    BY <1>1 DEF Typed, Show, Rendered, PageStates
  <2>5. Sound(v)' /\ ~Lost(v)'
    BY <1>1, <2>3, <2>4 DEF Sound, Lost, Typed
  <2>. QED
    BY <1>0, <1>1, <2>2, <2>3, <2>4, <2>5 DEF Typed, base
<1>2. CASE /\ queue' = s /\ active' = active \cup {v} /\ Show(v, "origin") /\ UNCHANGED cookie
  <2>1. Line' = base
    BY <1>2 DEF Line
  <2>2. page' \in [Visitors -> PageStates] /\ page'[v] = "origin"
        /\ \A u \in Visitors \ {v} : page'[u] = page[u]
    BY <1>2 DEF Typed, Show, PageStates
  <2>3. OnceIn(base, v)
    BY DEF In, OnceIn
  <2>4. Sound(v)' /\ ~Lost(v)'
    BY <1>2, <2>1, <2>2, <2>3 DEF Sound, Lost, Typed
  <2>. QED
    BY <1>0, <1>2, <2>1, <2>2, <2>4 DEF Typed
<1>. QED
  BY <1>1, <1>2 DEF AdmitOrQueue

(* Who gives up a place gives up that of the batch or that in the queue.   *)
LEMMA DisownLine ==
  ASSUME Typed, NEW v \in Visitors
  PROVE  /\ Disown(popped, v) \in Seq(Owners) /\ Len(Disown(popped, v)) = Len(popped)
         /\ Disown(queue, v) \in Seq(Owners)
         /\ Disown(popped, v) \o Disown(queue, v) = Disown(Line, v)
<1>1. queue \in Seq(Owners) /\ popped \in Seq(Owners)
  BY DEF Typed
<1>2. /\ Disown(popped, v) \in Seq(Owners) /\ Len(Disown(popped, v)) = Len(popped)
      /\ Disown(queue, v) \in Seq(Owners) /\ Len(Disown(queue, v)) = Len(queue)
  BY <1>1, DisownFacts
<1>3. Line \in Seq(Owners) /\ Len(Line) = Len(popped) + Len(queue)
  BY <1>1 DEF Line
<1>4. Disown(Line, v) \in Seq(Owners) /\ Len(Disown(Line, v)) = Len(Line)
  BY <1>3, DisownFacts
<1>5. ASSUME NEW k \in 1..Len(Line)
      PROVE  (Disown(popped, v) \o Disown(queue, v))[k] = Disown(Line, v)[k]
  <2>1. Disown(Line, v)[k] = IF Line[k] = v THEN Ghost ELSE Line[k]
    BY <1>3 DEF Disown
  <2>2. CASE k <= Len(popped)
    <3>1. k \in 1..Len(popped) /\ Line[k] = popped[k]
      BY <1>1, <1>3, <2>2 DEF Line
    <3>2. Disown(popped, v)[k] = IF popped[k] = v THEN Ghost ELSE popped[k]
      BY <1>1, <3>1 DEF Disown
    <3>3. (Disown(popped, v) \o Disown(queue, v))[k] = Disown(popped, v)[k]
      BY <1>2, <3>1
    <3>. QED
      BY <2>1, <3>1, <3>2, <3>3
  <2>3. CASE k > Len(popped)
    <3>. DEFINE l == k - Len(popped)
    <3>1. l \in 1..Len(queue) /\ Line[k] = queue[l]
      BY <1>1, <1>3, <2>3 DEF Line
    <3>2. Disown(queue, v)[l] = IF queue[l] = v THEN Ghost ELSE queue[l]
      BY <1>1, <3>1 DEF Disown
    <3>3. (Disown(popped, v) \o Disown(queue, v))[k] = Disown(queue, v)[l]
      BY <1>1, <1>2, <1>3, <2>3
    <3>. QED
      BY <2>1, <3>1, <3>2, <3>3
  <2>4. k <= Len(popped) \/ k > Len(popped)
    BY <1>1, <1>3
  <2>. QED
    BY <2>2, <2>3, <2>4, Zenon
<1>. DEFINE p == Disown(popped, v)
            q == Disown(queue, v)
            t == Disown(Line, v)
<1>6. p \in Seq(Owners) /\ q \in Seq(Owners) /\ t \in Seq(Owners)
      /\ Len(p) + Len(q) = Len(Line) /\ Len(t) = Len(Line) /\ Len(p) \in Nat /\ Len(q) \in Nat
  BY <1>1, <1>2, <1>3, <1>4
<1>7. \A k \in 1..Len(Line) : (p \o q)[k] = t[k]
  BY <1>5
<1>. HIDE DEF p, q, t
<1>8. p \o q \in Seq(Owners) /\ Len(p \o q) = Len(Line)
  BY <1>6
<1>9. p \o q = t
  <2>. PICK r : r = p \o q
    OBVIOUS
  <2>. PICK n : n = Len(Line)
    OBVIOUS
  <2>1. r \in Seq(Owners) /\ t \in Seq(Owners) /\ Len(r) = n /\ Len(t) = n /\ \A k \in 1..n : r[k] = t[k]
    BY <1>6, <1>7, <1>8
  <2>2. r = t
    BY <2>1, SeqEqual
  <2>. QED
    BY <2>2
<1>. QED
  BY <1>2, <1>9 DEF p, q, t


-----------------------------------------------------------------------------
(* Every step keeps the invariant: first those of a visitor.               *)

LEMMA VisitorStepIInv ==
  ASSUME IInv, NEW v \in Visitors,
         \/ Visit(v) \/ UserReloads(v) \/ ResponseLost(v) \/ FallSilent(v) \/ ScriptStep(v)
         \/ ClockStep(v) \/ CookieExpires(v) \/ Browse(v) \/ SessionUnused(v)
  PROVE  IInv'
<1>. USE PageAssumption
<1>. Typed /\ WorkerOK /\ Sound(v) /\ v # Ghost /\ v \in Owners
     /\ Line \in Seq(Owners) /\ queue \in Seq(Owners) /\ popped \in Seq(Owners)
  BY LineFacts DEF IInv, Typed, Owners
<1>a. (\A x : In(Line, x) <=> Queued(x) \/ Popped(x)) /\ (Placed(v) <=> v \in active \/ In(Line, v))
  BY LineFacts
<1>b. GhostPlaces \in Nat /\ Cardinality(Places(Line, Ghost)) \in Nat /\ ghosts \in Nat
  BY GhostsNat, PlacesFinite DEF Typed
<1>c. ASSUME Mishap PROVE mishaps' = mishaps + 1 /\ mishaps' \in 0..MaxMishaps
  BY <1>c DEF Mishap, Typed
<1>1. ASSUME ~Placed(v), AdmitOrQueue(v, queue), UNCHANGED <<room, popped, due, ghosts, worker, mishaps>>
      PROVE  IInv'
  <2>1. popped' \o queue = Line /\ popped' \in Seq(Owners) /\ ~In(Line, v) /\ v \notin active
    BY <1>1, <1>a DEF Line
  <2>2. /\ page' \in [Visitors -> PageStates]
        /\ cookie' \in [Visitors -> BOOLEAN]
        /\ queue' \in Seq(Owners) /\ active' \subseteq Visitors
        /\ Sound(v)' /\ ~Lost(v)' /\ Places(Line', Ghost) = Places(Line, Ghost)
        /\ \A u \in Visitors \ {v} : SameFor(u)
    BY <1>1, <2>1, AdmitFacts DEF SameFor
  <2>3. Typed'
    <3>1. due' \subseteq active'
      BY <1>1, <2>1, <2>2 DEF Typed, SameFor
    <3>. QED
      BY <1>1, <2>1, <2>2, <3>1 DEF Typed
  <2>4. GhostPlaces' = GhostPlaces
    BY <1>1, <2>2 DEF GhostPlaces
  <2>5. (\A u \in Visitors : Sound(u)') /\ Drift'
    BY <1>1, <1>b, <2>2, <2>3, <2>4, VisitorMoves
  <2>6. WorkerOK'
    BY <1>1, WorkerStays
  <2>. QED
    BY <2>3, <2>5, <2>6 DEF IInv
<1>2. CASE Visit(v)
  BY <1>1, <1>2, <1>a DEF Visit, Sound
<1>3. ASSUME UNCHANGED <<room, queue, popped, ghosts, worker>>, active' \subseteq active,
             active \ {v} \subseteq active', due' \subseteq active',
             page' \in [Visitors -> PageStates],
             cookie' \in [Visitors -> BOOLEAN],
             \A u \in Visitors \ {v} : page'[u] = page[u] /\ (u \in due' <=> u \in due),
             Sound(v)',
             ((Lost(v)' => Lost(v)) /\ UNCHANGED mishaps) \/ Mishap
      PROVE  IInv'
  <2>1. Line' = Line
    BY <1>3 DEF Line
  <2>2. Typed'
    BY <1>3, <1>c DEF Typed
  <2>3. GhostPlaces' = GhostPlaces
    BY <1>3, <2>1 DEF GhostPlaces
  <2>4. \A u \in Visitors \ {v} : SameFor(u)
    BY <1>3, <2>1 DEF SameFor
  <2>5. (\A u \in Visitors : Sound(u)') /\ Drift'
    BY <1>3, <1>b, <1>c, <2>2, <2>3, <2>4, VisitorMoves
  <2>6. WorkerOK'
    BY <1>3, WorkerStays
  <2>. QED
    BY <2>2, <2>5, <2>6 DEF IInv
<1>d. ASSUME NEW what \in PageStates, Show(v, what)
      PROVE  page' \in [Visitors -> PageStates] /\ page'[v] = what /\ \A u \in Visitors \ {v} : page'[u] = page[u]
  BY <1>d DEF Show, Typed
<1>4. CASE Enter(v)
  <2>1. page'[v] = "origin" /\ page' \in [Visitors -> PageStates] /\ \A u \in Visitors \ {v} : page'[u] = page[u]
    BY <1>4, <1>d DEF Enter, PageStates
  <2>2. Sound(v)' /\ ~Lost(v)'
    BY <1>4, <2>1 DEF Enter, places, Line, Sound, Lost
  <2>. QED
    BY <1>3, <1>4, <2>1, <2>2 DEF Enter, places, Typed
<1>5. CASE RenderAgain(v)
  <2>1. /\ page'[v] \in {"waiting", "silent"} /\ page' \in [Visitors -> PageStates]
        /\ \A u \in Visitors \ {v} : page'[u] = page[u]
    BY <1>5, <1>d DEF RenderAgain, Rendered, PageStates
  <2>2. Line' = Line /\ In(Line, v) /\ UNCHANGED <<active, due>>
    BY <1>5, <1>a DEF RenderAgain, places, Line
  <2>3. Sound(v)' /\ ~Lost(v)'
    BY <2>1, <2>2 DEF Sound, Lost, Typed
  <2>. QED
    BY <1>3, <1>5, <2>1, <2>3 DEF RenderAgain, places, Typed
<1>6. CASE StartOver(v)
  BY <1>1, <1>6 DEF StartOver
<1>7. CASE StartOverTooSoon(v)
  <2>. DEFINE base == Disown(Line, v)
  <2>1. In(Line, v) /\ v \notin active /\ OnceIn(Line, v)
    BY <1>7, <1>a DEF StartOverTooSoon, Sound
  <2>2. Disown(queue, v) = queue
    <3>1. ~In(queue, v)
      <4>. SUFFICES ASSUME NEW l \in DOMAIN queue, queue[l] = v PROVE FALSE
        BY DEF In
      <4>1. PICK k \in DOMAIN popped : popped[k] = v
        BY <1>7 DEF StartOverTooSoon, Popped, ToSet
      <4>2. k \in DOMAIN Line /\ Line[k] = v
        BY <4>1 DEF Line
      <4>3. Len(popped) + l \in DOMAIN Line /\ Line[Len(popped) + l] = v
        BY DEF Line
      <4>4. k # Len(popped) + l
        BY <4>1
      <4>. QED
        BY <2>1, <4>2, <4>3, <4>4 DEF OnceIn
    <3>. QED
      BY <3>1, DisownFacts
  <2>3. /\ popped' = Disown(popped, v) /\ popped' \in Seq(Owners) /\ Len(popped') = Len(popped)
        /\ popped' \o queue = base
    BY <1>7, <2>2, DisownLine DEF StartOverTooSoon
  <2>4. /\ base \in Seq(Owners) /\ ~In(base, v)
        /\ \A x \in Visitors \ {v} : /\ In(base, x) <=> In(Line, x)
                                     /\ OnceIn(base, x) <=> OnceIn(Line, x)
        /\ Cardinality(Places(base, Ghost)) <= Cardinality(Places(Line, Ghost)) + 1
    BY <2>1, DisownFacts
  <2>. HIDE DEF base
  <2>5. AdmitOrQueue(v, queue)
    BY <1>7 DEF StartOverTooSoon
  <2>6. /\ page' \in [Visitors -> PageStates] /\ cookie' \in [Visitors -> BOOLEAN]
        /\ queue' \in Seq(Owners) /\ active' \subseteq Visitors
        /\ Sound(v)' /\ Places(Line', Ghost) = Places(base, Ghost)
        /\ \A u \in Visitors \ {v} :
             /\ In(Line', u) <=> In(base, u)
             /\ OnceIn(Line', u) <=> OnceIn(base, u)
             /\ u \in active' <=> u \in active
             /\ page'[u] = page[u]
    <3>1. ~In(popped' \o queue, v)
      BY <2>3, <2>4
    <3>. QED
      BY <1>7, <2>1, <2>3, <2>5, <3>1, AdmitFacts DEF StartOverTooSoon
  <2>7. UNCHANGED <<room, due, ghosts, worker>> /\ Mishap
    BY <1>7 DEF StartOverTooSoon
  <2>8. Typed'
    <3>1. due' \subseteq active'
      BY <2>1, <2>6, <2>7 DEF Typed
    <3>. QED
      BY <1>c, <2>3, <2>6, <2>7, <3>1 DEF Typed
  <2>9. GhostPlaces' <= GhostPlaces + 1
    <3>1. GhostPlaces' = Cardinality(Places(base, Ghost)) + ghosts
      BY <2>6, <2>7 DEF GhostPlaces
    <3>2. Cardinality(Places(base, Ghost)) \in Nat
      BY <2>4, PlacesFinite
    <3>. QED
      BY <1>b, <2>4, <3>1, <3>2 DEF GhostPlaces
  <2>10. \A u \in Visitors \ {v} : SameFor(u)
    BY <2>4, <2>6, <2>7 DEF SameFor
  <2>11. (\A u \in Visitors : Sound(u)') /\ Drift'
    BY <1>c, <2>6, <2>7, <2>8, <2>9, <2>10, VisitorMoves
  <2>12. WorkerOK'
    BY <2>3, <2>7, WorkerStays
  <2>. QED
    BY <2>8, <2>11, <2>12 DEF IInv
<1>8. CASE Poll(v)
  <2>1. page'[v] = "loading" /\ page' \in [Visitors -> PageStates] /\ \A u \in Visitors \ {v} : page'[u] = page[u]
    BY <1>8, <1>d DEF Poll, PageStates
  <2>2. Sound(v)' /\ (Lost(v)' => Lost(v))
    BY <1>8, <2>1 DEF Poll, places, Line, Sound, Lost
  <2>. QED
    BY <1>3, <1>8, <2>1, <2>2 DEF Poll, places, Typed
<1>9. CASE CookieExpires(v)
  <2>. DEFINE line == Disown(Line, v)
  <2>1. /\ queue' \in Seq(Owners) /\ popped' \in Seq(Owners) /\ Len(popped') = Len(popped)
        /\ Line' = line
    BY <1>9, DisownLine DEF CookieExpires, Line
  <2>2. /\ line \in Seq(Owners) /\ ~In(line, v)
        /\ \A x \in Visitors \ {v} : /\ In(line, x) <=> In(Line, x)
                                     /\ OnceIn(line, x) <=> OnceIn(Line, x)
        /\ Cardinality(Places(line, Ghost))
             <= Cardinality(Places(Line, Ghost)) + (IF In(Line, v) THEN 1 ELSE 0)
    BY DisownFacts DEF Sound
  <2>. HIDE DEF line
  <2>3. /\ room' = room /\ page' = page /\ page[v] \in {"waiting", "loading", "silent"}
        /\ cookie' \in [Visitors -> BOOLEAN] /\ active' = active \ {v}
        /\ due' = due \ {v} /\ UNCHANGED worker
        /\ ghosts' = IF v \in active THEN ghosts + 1 ELSE ghosts
        /\ Mishap
    BY <1>9 DEF CookieExpires, Typed
  <2>4. Typed'
    BY <1>b, <1>c, <2>1, <2>3 DEF Typed
  <2>5. GhostPlaces' <= GhostPlaces + 1
    <3>1. Cardinality(Places(line, Ghost)) \in Nat
      BY <2>2, PlacesFinite
    <3>2. GhostPlaces' = Cardinality(Places(line, Ghost)) + ghosts'
      BY <2>1 DEF GhostPlaces
    <3>3. v \in active => ~In(Line, v)
      BY DEF Sound
    <3>. QED
      BY <1>b, <2>2, <2>3, <3>1, <3>2, <3>3 DEF GhostPlaces
  <2>6. Sound(v)'
    BY <2>1, <2>2, <2>3 DEF Sound, In, OnceIn
  <2>7. \A u \in Visitors \ {v} : SameFor(u)
    BY <2>1, <2>2, <2>3 DEF SameFor
  <2>8. (\A u \in Visitors : Sound(u)') /\ Drift'
    BY <1>c, <2>3, <2>4, <2>5, <2>6, <2>7, VisitorMoves
  <2>9. WorkerOK'
    BY <2>1, <2>3, WorkerStays
  <2>. QED
    BY <2>4, <2>8, <2>9 DEF IInv
<1>10. CASE LostCookieExpires(v)
  <2>1. Sound(v)' /\ (Lost(v)' => Lost(v))
    BY <1>10 DEF LostCookieExpires, places, Line, Sound, Lost
  <2>. QED
    BY <1>3, <1>10, <2>1 DEF LostCookieExpires, places, Typed
<1>11. CASE SessionEnds(v)
  <2>1. /\ page'[v] \in {"away", "waiting", "loading", "silent"} /\ page' \in [Visitors -> PageStates]
        /\ page'[v] # "away" => page'[v] = page[v]
        /\ \A u \in Visitors \ {v} : page'[u] = page[u]
        /\ cookie' \in [Visitors -> BOOLEAN]
    <3>1. CASE page[v] = "origin"
      BY <1>11, <1>d, <3>1 DEF SessionEnds, Typed, PageStates
    <3>2. CASE page[v] # "origin"
      BY <1>11, <3>2 DEF SessionEnds, Typed, PageStates
    <3>. QED
      BY <3>1, <3>2
  <2>2. Line' = Line /\ ~In(Line, v) /\ active' = active \ {v} /\ due' = due \ {v}
    BY <1>11 DEF SessionEnds, Line, Sound, Typed
  <2>3. page[v] # "away"
    BY <1>11 DEF SessionEnds, Sound, Typed
  <2>4. Sound(v)'
    BY <2>1, <2>2, <2>3 DEF Sound
  <2>5. due' \subseteq active' /\ active' \subseteq active /\ active \ {v} \subseteq active'
        /\ (\A u \in Visitors \ {v} : u \in due' <=> u \in due)
        /\ (Lost(v)' => Lost(v))
        /\ UNCHANGED <<room, queue, popped, ghosts, worker, mishaps>>
    <3>1. page[v] \in {"origin", "silent"}
      BY <1>11 DEF SessionEnds, Sound
    <3>2. page'[v] \in {"away", "silent"}
      BY <1>11, <1>d, <3>1 DEF SessionEnds, PageStates
    <3>. QED
      BY <1>11, <2>1, <2>2, <3>2 DEF SessionEnds, Lost, Typed
  <2>. QED
    BY <1>3, <2>1, <2>4, <2>5
<1>12. CASE SessionUnused(v)
  <2>1. /\ Line' = Line /\ active' = active \ {v} /\ due' = due \ {v}
        /\ page' = page /\ page[v] # "away" /\ page[v] # "origin"
    BY <1>12 DEF SessionUnused, Line, Sound
  <2>2. Sound(v)'
    BY <2>1 DEF Sound
  <2>. QED
    BY <1>3, <1>12, <2>1, <2>2 DEF SessionUnused, Typed
<1>13. CASE SessionDue(v) \/ Browse(v)
  <2>1. /\ UNCHANGED <<room, page, cookie, queue, popped, active, ghosts, worker, mishaps>>
        /\ due' \subseteq active
        /\ active \subseteq Visitors
    BY <1>13 DEF SessionDue, Browse, Typed
  <2>2. Sound(v)' /\ (Lost(v)' => Lost(v))
    BY <1>13, <2>1 DEF SessionDue, Browse, Line, Sound, Lost
  <2>3. \A u \in Visitors \ {v} : u \in due' <=> u \in due
    BY <1>13 DEF SessionDue, Browse
  <2>. QED
    BY <1>3, <2>1, <2>2, <2>3 DEF Typed
<1>14. CASE FallSilent(v)
  <2>1. page'[v] = "silent" /\ page' \in [Visitors -> PageStates] /\ \A u \in Visitors \ {v} : page'[u] = page[u]
    BY <1>14, <1>d DEF FallSilent, PageStates
  <2>2. Sound(v)' /\ ~Lost(v)'
    BY <1>14, <2>1 DEF FallSilent, places, Line, Sound, Lost
  <2>. QED
    BY <1>3, <1>14, <2>1, <2>2 DEF FallSilent, places, Typed
<1>15. CASE ResponseLost(v)
  <2>1. /\ page'[v] = "silent" /\ page' \in [Visitors -> PageStates]
        /\ \A u \in Visitors \ {v} : page'[u] = page[u]
    BY <1>15, <1>d DEF ResponseLost, PageStates
  <2>2. UNCHANGED <<room, cookie, popped, active, due, worker>> /\ Mishap /\ v \notin active
    BY <1>15 DEF ResponseLost
  <2>3. CASE queue' = Append(queue, Ghost) /\ ghosts' = ghosts
    <3>1. Ghost \in Owners /\ queue' \in Seq(Owners) /\ Line' = Append(Line, Ghost)
      BY <2>2, <2>3 DEF Owners, Line
    <3>2. \A u \in Visitors : (In(Line', u) <=> In(Line, u)) /\ (OnceIn(Line', u) <=> OnceIn(Line, u))
      BY <3>1, AppendFacts
    <3>3. Cardinality(Places(Line', Ghost)) <= Cardinality(Places(Line, Ghost)) + 1
      BY <3>1, AppendOne
    <3>4. Typed'
      BY <1>c, <2>1, <2>2, <2>3, <3>1 DEF Typed
    <3>5. GhostPlaces' <= GhostPlaces + 1
      <4>1. Cardinality(Places(Line', Ghost)) \in Nat
        BY <3>1, AppendFacts, PlacesFinite
      <4>. QED
        BY <1>b, <2>3, <3>3, <4>1 DEF GhostPlaces
    <3>6. Sound(v)'
      BY <2>1, <2>2, <3>2 DEF Sound
    <3>7. \A u \in Visitors \ {v} : SameFor(u)
      BY <2>1, <2>2, <3>2 DEF SameFor
    <3>8. (\A u \in Visitors : Sound(u)') /\ Drift'
      BY <1>c, <2>2, <3>4, <3>5, <3>6, <3>7, VisitorMoves
    <3>9. WorkerOK'
      BY <2>2, WorkerStays
    <3>. QED
      BY <3>4, <3>8, <3>9 DEF IInv
  <2>4. CASE queue' = queue /\ ghosts' = ghosts + 1
    <3>1. Line' = Line
      BY <2>2, <2>4 DEF Line
    <3>2. Typed'
      BY <1>b, <1>c, <2>1, <2>2, <2>4 DEF Typed
    <3>3. GhostPlaces' <= GhostPlaces + 1
      BY <1>b, <2>4, <3>1 DEF GhostPlaces
    <3>4. Sound(v)'
      BY <2>1, <2>2, <3>1 DEF Sound
    <3>5. \A u \in Visitors \ {v} : SameFor(u)
      BY <2>1, <2>2, <3>1 DEF SameFor
    <3>6. (\A u \in Visitors : Sound(u)') /\ Drift'
      BY <1>c, <2>2, <3>2, <3>3, <3>4, <3>5, VisitorMoves
    <3>7. WorkerOK'
      BY <2>2, WorkerStays
    <3>. QED
      BY <3>2, <3>6, <3>7 DEF IInv
  <2>. QED
    BY <1>15, <2>3, <2>4 DEF ResponseLost
<1>. QED
  BY <1>2, <1>4, <1>5, <1>6, <1>7, <1>8, <1>9, <1>10, <1>11, <1>12, <1>13, <1>14, <1>15
  DEF UserReloads, PageReloads, Reload, ScriptStep, ClockStep

-----------------------------------------------------------------------------
(* Then those of the worker, and the end of a session without a visitor.   *)

(* What a step that moves nobody has to show.                              *)
LEMMA Unmoved ==
  ASSUME IInv, UNCHANGED <<page, active, due>>, Line' = Line
  PROVE  \A u \in Visitors : SameFor(u)
BY DEF SameFor

LEMMA TickFacts ==
  ASSUME IInv
  PROVE  /\ ActiveCount \in Nat
         /\ Worker!Refilled \in Nat
         /\ Worker!Granted <= 0 => Worker!Refilled < TicksPerMinute
         /\ Worker!Refilled - Worker!Granted * TicksPerMinute \in 0..TicksPerMinute - 1
         /\ Worker!Granted > 0 /\ Worker!Available(ActiveCount) > 0
              => Worker!Capped(Worker!Granted, Worker!Available(ActiveCount)) \in Nat
<1>. USE PageAssumption
<1>. DEFINE r == bucket + NewUsersPerMinute
            n == r \div TicksPerMinute
            free == TotalActiveUsers - ActiveCount
<1>1. r \in Nat
  BY DEF IInv, WorkerOK, Worker!WorkerTypeOK
<1>2. Worker!Refilled = r /\ Worker!Granted = n /\ Worker!Available(ActiveCount) = free
      /\ Worker!Capped(n, free) = IF n > free THEN free ELSE n
  BY DEF Worker!Refilled, Worker!Granted, Worker!Available, Worker!Capped
<1>3. ActiveCount \in Nat
  <2>1. IsFiniteSet(active)
    BY FS_Subset DEF IInv, Typed
  <2>2. Cardinality(active) \in Nat
    BY <2>1, FS_CardinalityType
  <2>. QED
    BY <2>2 DEF ActiveCount, IInv, Typed
<1>. HIDE DEF r
<1>4. /\ n \in Nat /\ TicksPerMinute * n <= r /\ r - TicksPerMinute * n < TicksPerMinute
      /\ TicksPerMinute * n = n * TicksPerMinute
  BY <1>1, DivisionBounds
<1>. HIDE DEF n
<1>5. n <= 0 => r < TicksPerMinute
  <2>. SUFFICES ASSUME n <= 0 PROVE r < TicksPerMinute
    OBVIOUS
  <2>1. n = 0
    BY <1>4
  <2>2. TicksPerMinute * n = 0
    BY <2>1
  <2>. QED
    BY <1>1, <1>4, <2>2
<1>6. PICK p \in Int : p = n * TicksPerMinute
  BY <1>4
<1>7. r - n * TicksPerMinute \in 0..TicksPerMinute - 1
  BY <1>1, <1>4, <1>6
<1>. QED
  BY <1>1, <1>2, <1>3, <1>4, <1>5, <1>7

LEMMA CountIInv ==
  ASSUME IInv, Count
  PROVE  IInv'
<1>. USE PageAssumption
<1>1. UNCHANGED <<room, page, cookie, queue, popped, active, due, ghosts, mishaps>>
  BY DEF Count, places
<1>2. Typed' /\ Line' = Line
  BY <1>1 DEF IInv, Typed, Line
<1>3. (\A u \in Visitors : Sound(u)') /\ Drift'
  <2>1. GhostPlaces' = GhostPlaces /\ GhostPlaces \in Nat
    BY <1>1, <1>2, GhostsNat DEF GhostPlaces, IInv
  <2>2. \A u \in Visitors : SameFor(u)
    BY <1>1, <1>2, Unmoved
  <2>. QED
    BY <1>1, <1>2, <2>1, <2>2, NobodyMoves
<1>4. /\ pc \in {"select", "cleanup", "count", "pop", "stamp", "promote", "stopped"}
      /\ bucket \in Nat /\ bucket < TicksPerMinute /\ toAdmit \in Nat /\ Len(popped) \in Nat
      /\ pc \in {"stamp", "promote"} <=> popped # <<>>
  BY DEF IInv, WorkerOK, Worker!WorkerTypeOK
<1>5. /\ pc' \in {"select", "cleanup", "count", "pop", "stamp", "promote", "stopped"}
      /\ bucket' \in Nat /\ bucket' < TicksPerMinute /\ toAdmit' \in Nat
      /\ pc' \in {"stamp", "promote"} <=> pc \in {"stamp", "promote"}
  <2>1. CASE Worker!TakeTick \/ Worker!Cleanup \/ Worker!Stamp \/ Worker!CountFull(ActiveCount)
    BY <1>4, <2>1 DEF Worker!TakeTick, Worker!Cleanup, Worker!Stamp, Worker!CountFull, Worker!CountFails
  <2>2. CASE Worker!CountSaves(ActiveCount)
    BY <1>4, <2>2, TickFacts DEF Worker!CountSaves
  <2>3. CASE Worker!CountGrants(ActiveCount)
    <3>1. /\ pc = "count" /\ pc' = "pop"
          /\ bucket' = Worker!Refilled - Worker!Granted * TicksPerMinute
          /\ toAdmit' = Worker!Capped(Worker!Granted, Worker!Available(ActiveCount))
          /\ Worker!Granted > 0 /\ Worker!Available(ActiveCount) > 0
      BY <2>3 DEF Worker!CountGrants
    <3>2. bucket' \in 0..TicksPerMinute - 1 /\ toAdmit' \in Nat
      BY <3>1, TickFacts
    <3>. QED
      BY <3>1, <3>2
  <2>. QED
    BY <2>1, <2>2, <2>3 DEF Count
<1>6. WorkerOK'
  BY <1>1, <1>4, <1>5 DEF WorkerOK, Worker!WorkerTypeOK
<1>. QED
  BY <1>2, <1>3, <1>6 DEF IInv

(* The order of the first of the queue is one of the draws.                *)
LEMMA DrawsInjective ==
  ASSUME NEW n, NEW draw \in Draws(n)
  PROVE  draw \in Injection(DOMAIN queue, DOMAIN queue)
BY DEF Draws, Injection, IsInjective

(* The pop changes the order of the line at most, and takes its head.      *)
LEMMA PopIInv ==
  ASSUME IInv, Pop
  PROVE  IInv'
<1>. USE PageAssumption
<1>. DEFINE n == IF toAdmit < Len(queue) THEN toAdmit ELSE Len(queue)
<1>1. /\ pc = "pop" /\ pc' = (IF n = 0 THEN "select" ELSE "stamp") /\ toAdmit' = 0
      /\ UNCHANGED <<room, page, cookie, active, due, ghosts, bucket, mishaps>>
  BY DEF Pop
<1>2. PICK draw \in Draws(n) :
        /\ popped' = SubSeq([k \in DOMAIN queue |-> queue[draw[k]]], 1, n)
        /\ queue' = SubSeq([k \in DOMAIN queue |-> queue[draw[k]]], n + 1, Len(queue))
  BY DEF Pop
<1>. PICK drawn : drawn = [k \in DOMAIN queue |-> queue[draw[k]]]
  OBVIOUS
<1>3. queue \in Seq(Owners) /\ Len(queue) \in Nat /\ n \in 0..Len(queue) /\ popped = <<>>
  BY <1>1 DEF IInv, Typed, WorkerOK, Worker!WorkerTypeOK
<1>. HIDE DEF n
<1>4. /\ drawn \in Seq(Owners) /\ Len(drawn) = Len(queue)
      /\ \A x : /\ In(drawn, x) <=> In(queue, x)
                /\ OnceIn(drawn, x) <=> OnceIn(queue, x)
                /\ Cardinality(Places(drawn, x)) = Cardinality(Places(queue, x))
  BY <1>3, DrawsInjective, ShuffleFacts
<1>5. popped' = SubSeq(drawn, 1, n) /\ queue' = SubSeq(drawn, n + 1, Len(drawn))
  BY <1>2, <1>4
<1>6. popped' \in Seq(Owners) /\ queue' \in Seq(Owners) /\ Len(popped') = n
  <2>1. \A k \in 1..Len(drawn) : drawn[k] \in Owners
    BY <1>4
  <2>2. popped' \in Seq(Owners) /\ Len(popped') = IF 1 <= n THEN n - 1 + 1 ELSE 0
    BY <1>3, <1>4, <1>5, <2>1, SubSeqProperties
  <2>3. queue' \in Seq(Owners)
    BY <1>3, <1>4, <1>5, <2>1, SubSeqProperties
  <2>. QED
    BY <1>3, <2>2, <2>3
<1>7. Line' = drawn
  <2>1. popped' \o queue' = SubSeq(drawn, 1, Len(drawn))
    <3>1. /\ 1 \in 1..Len(drawn) + 1 /\ n \in 1 - 1..Len(drawn) /\ Len(drawn) \in n..Len(drawn)
      BY <1>3, <1>4
    <3>2. SubSeq(drawn, 1, n) \o SubSeq(drawn, n + 1, Len(drawn)) = SubSeq(drawn, 1, Len(drawn))
      BY <1>4, <3>1, ConcatAdjacentSubSeq
    <3>. QED
      BY <1>5, <3>2
  <2>2. SubSeq(drawn, 1, Len(drawn)) = drawn
    BY <1>4, SubSeqFull
  <2>. QED
    BY <2>1, <2>2 DEF Line
<1>8. Line = queue
  <2>1. <<>> \o queue = queue
    BY <1>3, ConcatEmptySeq
  <2>. QED
    BY <1>3, <2>1 DEF Line
<1>9. Typed'
  BY <1>1, <1>6 DEF IInv, Typed
<1>10. (\A u \in Visitors : Sound(u)') /\ Drift'
  <2>1. GhostPlaces' = GhostPlaces /\ GhostPlaces \in Nat
    BY <1>1, <1>4, <1>7, <1>8, GhostsNat DEF GhostPlaces, IInv
  <2>2. \A u \in Visitors : SameFor(u)
    BY <1>1, <1>4, <1>7, <1>8 DEF SameFor
  <2>. QED
    BY <1>1, <1>9, <2>1, <2>2, NobodyMoves
<1>11. WorkerOK'
  <2>1. popped' # <<>> <=> n # 0
    BY <1>3, <1>6
  <2>. QED
    BY <1>1, <1>3, <1>6, <2>1 DEF IInv, WorkerOK, Worker!WorkerTypeOK
<1>. QED
  BY <1>9, <1>10, <1>11 DEF IInv

(* The head of the batch leaves the line: the line's tail stays.           *)
LEMMA NextItemFacts ==
  ASSUME IInv, NextItem
  PROVE  /\ popped # <<>> /\ Head(popped) \in Owners /\ popped' \in Seq(Owners)
         /\ Line' = Tail(Line) /\ Head(Line) = Head(popped) /\ Line # <<>>
         /\ UNCHANGED <<room, page, cookie, queue, due, bucket, toAdmit>>
         /\ WorkerOK'
<1>1. /\ pc = "promote" /\ popped' = Tail(popped)
      /\ pc' = (IF Len(popped) = 1 THEN "select" ELSE "promote")
      /\ UNCHANGED <<room, page, cookie, queue, due, bucket, toAdmit>>
  BY DEF NextItem
<1>2. popped \in Seq(Owners) /\ queue \in Seq(Owners) /\ popped # <<>>
  BY <1>1 DEF IInv, Typed, WorkerOK
<1>3. /\ Len(popped) \in Nat \ {0} /\ popped' \in Seq(Owners) /\ Head(popped) \in Owners
      /\ Len(popped') = Len(popped) - 1
  BY <1>1, <1>2
<1>4. Line \in Seq(Owners) /\ Line # <<>> /\ Head(Line) = Head(popped)
  BY <1>2, <1>3 DEF Line
<1>5. Line' = Tail(Line)
  <2>1. /\ Line' \in Seq(Owners) /\ Tail(Line) \in Seq(Owners)
        /\ Len(Line') = Len(popped) + Len(queue) - 1 /\ Len(Tail(Line)) = Len(popped) + Len(queue) - 1
    BY <1>1, <1>2, <1>3, <1>4 DEF Line
  <2>2. \A k \in 1..Len(Line') : Line'[k] = Tail(Line)[k]
    <3>. SUFFICES ASSUME NEW k \in 1..Len(popped) + Len(queue) - 1 PROVE Line'[k] = Tail(Line)[k]
      BY <2>1
    <3>1. Tail(Line)[k] = Line[k + 1]
      BY <1>4, <2>1
    <3>2. Line[k + 1] = IF k + 1 <= Len(popped) THEN popped[k + 1] ELSE queue[k + 1 - Len(popped)]
      BY <1>2, <1>3 DEF Line
    <3>3. Line'[k] = IF k <= Len(popped') THEN popped'[k] ELSE queue[k - Len(popped')]
      BY <1>1, <1>2, <1>3 DEF Line
    <3>4. k <= Len(popped') => popped'[k] = popped[k + 1]
      BY <1>1, <1>2, <1>3
    <3>5. /\ k <= Len(popped') <=> k + 1 <= Len(popped)
          /\ k - Len(popped') = k + 1 - Len(popped)
      BY <1>2, <1>3
    <3>. QED
      BY <3>1, <3>2, <3>3, <3>4, <3>5
  <2>. QED
    BY <2>1, <2>2, SeqEqual
<1>6. WorkerOK'
  <2>1. popped' # <<>> <=> Len(popped) # 1
    <3>1. popped' = <<>> <=> Len(popped') = 0
      BY <1>3
    <3>. QED
      BY <1>3, <3>1
  <2>. QED
    BY <1>1, <1>3, <2>1 DEF IInv, WorkerOK, Worker!WorkerTypeOK
<1>. QED
  BY <1>1, <1>2, <1>3, <1>4, <1>5, <1>6

LEMMA PromoteIInv ==
  ASSUME IInv, Promote \/ PromoteFails
  PROVE  IInv'
<1>. USE PageAssumption
<1>1. NextItem
  BY DEF Promote, PromoteFails
<1>2. /\ popped # <<>> /\ Head(popped) \in Owners /\ popped' \in Seq(Owners)
      /\ Line' = Tail(Line) /\ Head(Line) = Head(popped) /\ Line # <<>>
      /\ UNCHANGED <<room, page, cookie, queue, due, bucket, toAdmit>>
      /\ WorkerOK'
  BY <1>1, NextItemFacts
<1>. PICK item : item = Head(popped)
  OBVIOUS
<1>3. Line \in Seq(Owners)
  BY LineFacts DEF IInv
<1>4. \A x : /\ In(Line, x) <=> In(Line', x) \/ item = x
             /\ OnceIn(Line, x) => /\ OnceIn(Line', x)
                                   /\ item = x => ~In(Line', x)
  BY <1>2, <1>3, TailFacts
<1>5. /\ Cardinality(Places(Line', Ghost)) + (IF item = Ghost THEN 1 ELSE 0)
           <= Cardinality(Places(Line, Ghost))
      /\ Cardinality(Places(Line', Ghost)) \in Nat /\ Cardinality(Places(Line, Ghost)) \in Nat
  <2>1. Tail(Line) \in Seq(Owners)
    BY <1>2, <1>3, TailFacts
  <2>. QED
    BY <1>2, <1>3, <2>1, TailFacts, PlacesFinite
<1>6. \/ /\ active' = active \cup ({item} \ {Ghost})
         /\ ghosts' = IF item = Ghost THEN ghosts + 1 ELSE ghosts
         /\ mishaps' = mishaps
      \/ UNCHANGED <<active, ghosts>> /\ mishaps' = mishaps + 1 /\ mishaps < MaxMishaps
  BY DEF Promote, PromoteFails, Mishap
<1>7. item \in Visitors \/ item = Ghost
  BY <1>2 DEF Owners
<1>8. ghosts \in Nat /\ mishaps \in 0..MaxMishaps
  BY DEF IInv, Typed
<1>9. Typed'
  BY <1>2, <1>6, <1>7, <1>8 DEF IInv, Typed
<1>10. GhostPlaces' <= GhostPlaces
  <2>1. GhostPlaces' = Cardinality(Places(Line', Ghost)) + ghosts'
    BY DEF GhostPlaces
  <2>. QED
    BY <1>5, <1>6, <1>8, <2>1 DEF GhostPlaces
<1>11. GhostPlaces \in Nat /\ GhostPlaces' \in Nat
  <2>1. (Typed => GhostPlaces \in Nat)'
    BY GhostsNat, PTL
  <2>. QED
    BY <1>9, <2>1, GhostsNat DEF IInv
<1>12. \A u \in Visitors \ {item} : SameFor(u)
  <2>. SUFFICES ASSUME NEW u \in Visitors \ {item} PROVE SameFor(u)
    OBVIOUS
  <2>1. OnceIn(Line, u) /\ OnceIn(Line', u)
    BY <1>4 DEF IInv, Sound
  <2>2. /\ In(Line', u) <=> In(Line, u)
        /\ (u \in active' <=> u \in active) /\ due' = due /\ page'[u] = page[u]
    BY <1>2, <1>4, <1>6
  <2>. QED
    BY <2>1, <2>2 DEF SameFor
<1>13. (\A u \in Visitors : Sound(u)') /\ Drift'
  <2>1. CASE item = Ghost
    BY <1>6, <1>9, <1>10, <1>12, <2>1, NobodyMoves
  <2>2. CASE item \in Visitors
    <3>1. Sound(item) /\ In(Line, item) /\ OnceIn(Line', item) /\ ~In(Line', item)
      BY <1>4, <2>2 DEF IInv, Sound
    <3>2. item \notin active /\ page[item] \notin {"away", "origin"}
      BY <3>1 DEF Sound
    <3>3. Sound(item)'
      BY <1>2, <3>1, <3>2 DEF Sound, IInv, Typed
    <3>4. item \in active' => ~Lost(item)'
      BY DEF Lost
    <3>5. \/ mishaps' = mishaps /\ GhostPlaces' <= GhostPlaces /\ (Lost(item)' => Lost(item))
          \/ mishaps' = mishaps + 1 /\ GhostPlaces' <= GhostPlaces + 1
      BY <1>6, <1>10, <1>11, <2>2, <3>4
    <3>. QED
      BY <1>9, <1>12, <2>2, <3>3, <3>5, VisitorMoves
  <2>. QED
    BY <1>7, <2>1, <2>2
<1>. QED
  BY <1>2, <1>9, <1>13 DEF IInv

LEMMA GhostEndsIInv ==
  ASSUME IInv, GhostEnds
  PROVE  IInv'
<1>. USE PageAssumption
<1>1. /\ UNCHANGED <<room, page, cookie, queue, popped, active, due, worker, mishaps>>
      /\ ghosts > 0 /\ ghosts' = ghosts - 1 /\ ghosts \in Nat /\ Line' = Line
  BY DEF GhostEnds, Line, IInv, Typed
<1>2. Typed'
  BY <1>1 DEF IInv, Typed
<1>3. GhostPlaces' <= GhostPlaces
  <2>1. Cardinality(Places(Line, Ghost)) \in Nat
    BY LineFacts, PlacesFinite DEF IInv
  <2>. QED
    BY <1>1, <2>1 DEF GhostPlaces
<1>4. (\A u \in Visitors : Sound(u)') /\ Drift'
  BY <1>1, <1>2, <1>3, Unmoved, NobodyMoves
<1>5. WorkerOK'
  BY <1>1, WorkerStays DEF IInv, Typed
<1>. QED
  BY <1>2, <1>4, <1>5 DEF IInv

LEMMA StepIInv == IInv /\ [Next]_vars => IInv'
<1>. SUFFICES ASSUME IInv, [Next]_vars PROVE IInv'
  OBVIOUS
<1>1. CASE UNCHANGED vars
  <2>1. UNCHANGED <<room, page, cookie, queue, popped, active, due, ghosts, pc, bucket, toAdmit, mishaps>>
    BY <1>1 DEF vars, places, worker
  <2>. QED
    BY <2>1 DEF IInv, Typed, WorkerOK, Worker!WorkerTypeOK, Sound, Lost, Drift, GhostPlaces, Line
<1>. QED
  BY <1>1, VisitorStepIInv, CountIInv, PopIInv, PromoteIInv, GhostEndsIInv DEF Next, WorkerStep

LEMMA Inductive == Spec => []IInv
<1>. QED
  BY InitIInv, StepIInv, PTL DEF Spec

(* Types, for any number of visitors: a session without a cookie is one    *)
(* mishap's, so there are no more of them than mishaps.                    *)
THEOREM TypeCorrect == Spec => []TypeOK
<1>. QED
  BY Inductive, InvProperties, PTL

(* Pages and places fit together: nobody has two places, nobody is at the  *)
(* origin without a session, and each mishap leaves at most one page       *)
(* without a place and one place without a page, whoever reloads, polls or *)
(* leaves at whatever point of a tick (service.go:136-168,                 *)
(* worker.go:98-111, middleware.go:116-130).                               *)
THEOREM PagesHavePlaces == Spec => []PlacesMatchPages
<1>. QED
  BY Inductive, InvProperties, PTL
=============================================================================
