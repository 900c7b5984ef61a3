----------------------------- MODULE ServerProofs -----------------------------
(***************************************************************************)
(* Proofs about Server.tla, for any configurations, requests and handlers: *)
(* what Load lets through, which room a request is matched to, what a      *)
(* cookie says when it comes back, who serves whom, and when the template  *)
(* settles.  The loops of the matcher are followed with the facts about    *)
(* counting of ArithmeticFacts.                                            *)
(***************************************************************************)
EXTENDS Server, ArithmeticFacts, SequenceTheorems

Occurs(r, s) == \E k \in DOMAIN s : s[k] = r

(* What a sequence is, said once. *)
LEMMA SeqShape ==
  ASSUME NEW S, NEW s \in Seq(S)
  PROVE  /\ Len(s) \in Nat
         /\ DOMAIN s = 1..Len(s)
         /\ \A k \in 1..Len(s) : s[k] \in S
  OBVIOUS

(* Append adds one member. *)
LEMMA AppendOccurs ==
  ASSUME NEW S, NEW s \in Seq(S), NEW e \in S
  PROVE  /\ Append(s, e) \in Seq(S)
         /\ \A r : Occurs(r, Append(s, e)) <=> Occurs(r, s) \/ r = e
<1>. DEFINE t == Append(s, e)
<1>1. /\ t \in Seq(S) /\ Len(t) = Len(s) + 1 /\ DOMAIN t = 1..Len(t)
      /\ t[Len(s) + 1] = e /\ \A k \in 1..Len(s) : t[k] = s[k]
  OBVIOUS
<1>2. Len(s) \in Nat /\ DOMAIN s = 1..Len(s)
  OBVIOUS
<1>. HIDE DEF t
<1>3. DOMAIN t = (1..Len(s)) \cup {Len(s) + 1}
  BY <1>1, <1>2
<1>4. ASSUME NEW r PROVE Occurs(r, t) <=> Occurs(r, s) \/ r = e
  BY <1>1, <1>2, <1>3 DEF Occurs
<1>. QED
  BY <1>1, <1>4 DEF t

(* PrefixRooms has the rooms of the host with a pattern, and no other. *)
LEMMA PrefixFacts ==
  ASSUME NEW R, NEW rooms \in Seq(R), NEW host
  PROVE  /\ PrefixRooms(rooms, host) \in Seq(R)
         /\ \A r : Occurs(r, PrefixRooms(rooms, host))
                     <=> Occurs(r, rooms) /\ Scope(r, host) /\ r.glob
<1>. DEFINE n == Len(rooms)
            Kept(s, i) == IF Scope(rooms[i], host) /\ rooms[i].glob THEN Append(s, rooms[i]) ELSE s
            F == [i \in 1..n |-> [s \in Seq(R) |-> Kept(s, i)]]
            Loop(f) == f = [i \in 0..n |-> IF i = 0 THEN <<>> ELSE Kept(f[i - 1], i)]
<1>1. n \in Nat /\ DOMAIN rooms = 1..n /\ \A i \in 1..n : rooms[i] \in R
  BY SeqShape
<1>2. \A i \in 1..n, s \in Seq(R) : Kept(s, i) \in Seq(R) /\ F[i][s] = Kept(s, i)
  BY <1>1
<1>. HIDE DEF n, Kept, F
<1>3. PICK f : Run(f, F, Seq(R), <<>>, 0, n)
  <2>1. <<>> \in Seq(R) /\ 0 \in Nat /\ 0 <= n
    BY <1>1
  <2>2. Steps(F, Seq(R), 0, n)
    BY <1>2 DEF Steps
  <2>. QED
    BY <1>1, <2>1, <2>2, LoopRuns
<1>4. ASSUME NEW i \in 1..n PROVE f[i] = Kept(f[i - 1], i)
  <2>1. i - 1 \in 0..n
    BY <1>1
  <2>2. f[i - 1] \in Seq(R)
    BY <1>3, <2>1 DEF Run
  <2>. QED
    BY <1>2, <1>3, <2>2 DEF Run
<1>5. Loop(f)
  BY <1>3, <1>4, <1>1 DEF Run
<1>6. PICK g : Loop(g) /\ PrefixRooms(rooms, host) = g[n]
  <2>1. \E g : Loop(g)
    BY <1>5
  <2>. QED
    BY <2>1, Zenon DEF PrefixRooms, Kept, n
<1>7. g[0] = <<>> /\ \A i \in 1..n : g[i] = Kept(g[i - 1], i)
  BY <1>1, <1>6
<1>. DEFINE Fine(i) == /\ g[i] \in Seq(R)
                       /\ \A r : Occurs(r, g[i]) <=>
                            \E j \in 1..i : rooms[j] = r /\ Scope(r, host) /\ r.glob
            T == {i \in 0..n : Fine(i)}
<1>8. 0 \in T
  <2>1. g[0] \in Seq(R) /\ \A r : ~ Occurs(r, g[0])
    BY <1>7 DEF Occurs
  <2>2. Fine(0)
    BY <2>1
  <2>. QED
    BY <1>1, <2>2
<1>9. ASSUME NEW i \in 1..n, i - 1 \in T
      PROVE  i \in T
  <2>1. Fine(i - 1) /\ g[i] = Kept(g[i - 1], i) /\ rooms[i] \in R
    BY <1>1, <1>7, <1>9
  <2>2. 1..i = (1..i - 1) \cup {i}
    BY <1>1
  <2>3. CASE Scope(rooms[i], host) /\ rooms[i].glob
    <3>1. g[i] = Append(g[i - 1], rooms[i])
      BY <2>1, <2>3 DEF Kept
    <3>2. Fine(i)
      BY <2>1, <2>2, <2>3, <3>1, AppendOccurs
    <3>. QED
      BY <3>2, <1>1
  <2>4. CASE ~ (Scope(rooms[i], host) /\ rooms[i].glob)
    <3>1. g[i] = g[i - 1]
      BY <2>1, <2>4 DEF Kept
    <3>2. Fine(i)
      BY <2>1, <2>2, <2>4, <3>1
    <3>. QED
      BY <3>2, <1>1
  <2>. QED
    BY <2>3, <2>4
<1>. HIDE DEF Fine
<1>10. n \in T
  <2>. HIDE DEF T
  <2>1. 0 + 1 = 1 /\ 0 \in Nat /\ n \in 0..n
    BY <1>1
  <2>2. 0..n \subseteq T
    BY <1>1, <1>8, <1>9, <2>1, CountUp
  <2>. QED
    BY <2>1, <2>2
<1>. QED
  BY <1>1, <1>6, <1>10 DEF Fine, Occurs

-----------------------------------------------------------------------------
(* The sort.  Its loops keep the length and the members of the list. *)
SameMembers(s, t) == Len(s) = Len(t) /\ \A r : Occurs(r, s) <=> Occurs(r, t)

Lists(R, n) == {s \in Seq(R) : Len(s) = n}

Measured(R) == \A r \in R : Len(r.path) \in Nat

(* An exchange touches two places, and leaves the longer path at the first. *)
Exchanged(R, n, s, i, j, t) ==
  /\ t \in Lists(R, n)
  /\ SameMembers(t, s)
  /\ \A k \in 1..n : k # i /\ k # j => t[k] = s[k]
  /\ Len(t[j].path) <= Len(t[i].path)
  /\ Len(s[i].path) <= Len(t[i].path)
  /\ \/ t[i] = s[i] /\ t[j] = s[j]
     \/ t[i] = s[j] /\ t[j] = s[i]

(* An exchange does what Exchanged says. *)
LEMMA ExchangeFacts ==
  ASSUME NEW R, Measured(R),
         NEW n \in Nat, NEW s \in Lists(R, n), NEW i \in 1..n, NEW j \in 1..n, i < j,
         NEW t, t = Exchange(s, i, j)
  PROVE  Exchanged(R, n, s, i, j, t)
<1>1. s \in Seq(R) /\ Len(s) = n /\ DOMAIN s = 1..n /\ \A k \in 1..n : s[k] \in R
  BY SeqShape DEF Lists
<1>. DEFINE e == [k \in 1..n |-> IF k = i THEN s[j] ELSE IF k = j THEN s[i] ELSE s[k]]
            x == [s EXCEPT ![i] = s[j], ![j] = s[i]]
<1>2. x = e
  BY <1>1
<1>3. e \in [1..n -> R]
  BY <1>1
<1>4. e \in Seq(R) /\ Len(e) = n /\ DOMAIN e = 1..n
  <2>. HIDE DEF e
  <2>. QED
    BY <1>3
<1>5. e[i] = s[j] /\ e[j] = s[i] /\ \A k \in 1..n : k # i /\ k # j => e[k] = s[k]
  OBVIOUS
<1>. HIDE DEF e, x
<1>6. SameMembers(e, s)
  <2>1. ASSUME NEW r, Occurs(r, e) PROVE Occurs(r, s)
    <3>1. PICK k \in 1..n : e[k] = r
      BY <1>4, <2>1 DEF Occurs
    <3>. QED
      BY <1>1, <1>5, <3>1 DEF Occurs
  <2>2. ASSUME NEW r, Occurs(r, s) PROVE Occurs(r, e)
    <3>1. PICK k \in 1..n : s[k] = r
      BY <1>1, <2>2 DEF Occurs
    <3>. QED
      BY <1>4, <1>5, <3>1 DEF Occurs
  <2>. QED
    BY <1>1, <1>4, <2>1, <2>2 DEF SameMembers
<1>7. Len(s[i].path) \in Nat /\ Len(s[j].path) \in Nat
  BY <1>1 DEF Measured
<1>8. CASE Len(s[j].path) > Len(s[i].path)
  <2>1. t = e
    BY <1>2, <1>8 DEF Exchange, x
  <2>. QED
    BY <1>4, <1>5, <1>6, <1>7, <1>8, <2>1 DEF Lists, Exchanged
<1>9. CASE ~ (Len(s[j].path) > Len(s[i].path))
  <2>1. t = s
    BY <1>9 DEF Exchange
  <2>2. SameMembers(s, s)
    BY DEF SameMembers
  <2>. QED
    BY <1>1, <1>7, <1>9, <2>1, <2>2 DEF Exchanged
<1>. QED
  BY <1>8, <1>9

(* What the inner loop has done when it has come to j. *)
PassDone(R, n, s, i, j, v) ==
  /\ v \in Lists(R, n)
  /\ SameMembers(v, s)
  /\ \A k \in 1..i - 1 : v[k] = s[k]
  /\ \A k \in i..n : \E l \in i..n : v[k] = s[l]
  /\ \A k \in i..j : Len(v[k].path) <= Len(v[i].path)

(* One exchange further. *)
LEMMA PassStep ==
  ASSUME NEW R, Measured(R),
         NEW n \in Nat, NEW s, NEW i \in 1..n, NEW j \in i + 1..n,
         NEW u, PassDone(R, n, s, i, j - 1, u), NEW v, v = Exchange(u, i, j)
  PROVE  PassDone(R, n, s, i, j, v)
<1>1. i \in 1..n /\ j \in 1..n /\ i < j /\ u \in Lists(R, n)
  BY DEF PassDone
<1>2. Exchanged(R, n, u, i, j, v)
  BY <1>1, ExchangeFacts
<1>3. /\ v \in Lists(R, n)
      /\ SameMembers(v, u)
      /\ \A k \in 1..n : k # i /\ k # j => v[k] = u[k]
      /\ Len(v[j].path) <= Len(v[i].path)
      /\ Len(u[i].path) <= Len(v[i].path)
      /\ \/ v[i] = u[i] /\ v[j] = u[j]
         \/ v[i] = u[j] /\ v[j] = u[i]
  BY <1>2 DEF Exchanged
<1>4. SameMembers(v, s)
  BY <1>3 DEF SameMembers, PassDone
<1>5. \A k \in 1..i - 1 : v[k] = s[k]
  <2>1. \A k \in 1..i - 1 : k \in 1..n /\ k # i /\ k # j
    BY <1>1
  <2>. QED
    BY <1>3, <2>1 DEF PassDone
<1>6. \A k \in i..n : \E l \in i..n : v[k] = s[l]
  <2>1. \A k \in i..n : \E l \in i..n : v[k] = u[l]
    BY <1>1, <1>3
  <2>2. \A l \in i..n : \E m \in i..n : u[l] = s[m]
    BY DEF PassDone
  <2>. SUFFICES ASSUME NEW k \in i..n PROVE \E l \in i..n : v[k] = s[l]
    OBVIOUS
  <2>3. PICK l \in i..n : v[k] = u[l]
    BY <2>1
  <2>4. PICK m \in i..n : u[l] = s[m]
    BY <2>2
  <2>. QED
    BY <2>3, <2>4
<1>7. ASSUME NEW k \in i..j PROVE Len(v[k].path) <= Len(v[i].path)
  <2>1. k \in 1..n
    BY <1>1
  <2>2. \A w \in Lists(R, n) : \A l \in 1..n : Len(w[l].path) \in Nat
    BY SeqShape DEF Lists, Measured
  <2>3. Len(v[k].path) \in Nat /\ Len(v[i].path) \in Nat /\ Len(u[i].path) \in Nat
    BY <1>1, <1>3, <2>1, <2>2
  <2>4. CASE k = j
    BY <1>3, <2>4
  <2>5. CASE k = i
    BY <2>3, <2>5
  <2>6. CASE k # j /\ k # i
    <3>1. k \in i..j - 1 /\ v[k] = u[k]
      BY <1>1, <1>3, <2>1, <2>6
    <3>2. Len(u[k].path) <= Len(u[i].path)
      BY <3>1 DEF PassDone
    <3>3. PICK a, b, c : a = Len(u[k].path) /\ b = Len(u[i].path) /\ c = Len(v[i].path)
      OBVIOUS
    <3>4. a \in Nat /\ b \in Nat /\ c \in Nat /\ a <= b /\ b <= c
      BY <1>3, <2>3, <3>1, <3>2, <3>3
    <3>5. a <= c
      BY <3>4
    <3>. QED
      BY <3>1, <3>3, <3>5
  <2>. QED
    BY <2>4, <2>5, <2>6
<1>. QED
  BY <1>3, <1>4, <1>5, <1>6, <1>7 DEF PassDone

(* One run of the inner loop brings a longest of the rest to its place. *)
LEMMA PassFacts ==
  ASSUME NEW R, Measured(R),
         NEW n \in Nat, NEW s \in Lists(R, n), NEW i \in 1..n,
         NEW t, t = Pass(s, i)
  PROVE  PassDone(R, n, s, i, n, t)
<1>. DEFINE F == [j \in i + 1..n |-> [u \in Lists(R, n) |-> Exchange(u, i, j)]]
            Loop(f) == f = [j \in i..n |-> IF j = i THEN s ELSE Exchange(f[j - 1], i, j)]
<1>1. Len(s) = n
  BY DEF Lists
<1>2. ASSUME NEW j \in i + 1..n, NEW u \in Lists(R, n)
      PROVE  Exchange(u, i, j) \in Lists(R, n) /\ F[j][u] = Exchange(u, i, j)
  <2>1. i \in 1..n /\ j \in 1..n /\ i < j
    OBVIOUS
  <2>2. Exchanged(R, n, u, i, j, Exchange(u, i, j))
    BY <2>1, ExchangeFacts
  <2>3. Exchange(u, i, j) \in Lists(R, n)
    BY <2>2 DEF Exchanged
  <2>. QED
    BY <2>3
<1>. HIDE DEF F
<1>3. PICK f : Run(f, F, Lists(R, n), s, i, n)
  <2>1. i \in Nat /\ i <= n
    OBVIOUS
  <2>2. Steps(F, Lists(R, n), i, n)
    BY <1>2 DEF Steps
  <2>. QED
    BY <2>1, <2>2, LoopRuns
<1>4. ASSUME NEW j \in i + 1..n PROVE f[j] = Exchange(f[j - 1], i, j)
  <2>1. j - 1 \in i..n
    OBVIOUS
  <2>2. f[j - 1] \in Lists(R, n)
    BY <1>3, <2>1 DEF Run
  <2>. QED
    BY <1>2, <1>3, <2>2 DEF Run
<1>5. Loop(f)
  BY <1>3, <1>4 DEF Run
<1>6. PICK g : Loop(g) /\ t = g[n]
  <2>1. \E g : Loop(g)
    BY <1>5
  <2>. QED
    BY <1>1, <2>1, Zenon DEF Pass
<1>7. g[i] = s /\ \A j \in i + 1..n : g[j] = Exchange(g[j - 1], i, j)
  BY <1>6
<1>. DEFINE T == {j \in i..n : PassDone(R, n, s, i, j, g[j])}
<1>8. i \in T
  <2>1. \A k \in 1..n : Len(s[k].path) \in Nat
    BY SeqShape DEF Lists, Measured
  <2>2. PassDone(R, n, s, i, i, s)
    BY <2>1 DEF PassDone, SameMembers
  <2>3. i \in i..n /\ g[i] = s
    BY <1>7
  <2>. QED
    BY <2>2, <2>3
<1>9. ASSUME NEW j \in i + 1..n, j - 1 \in T
      PROVE  j \in T
  <2>1. PassDone(R, n, s, i, j - 1, g[j - 1]) /\ g[j] = Exchange(g[j - 1], i, j) /\ j \in i..n
    BY <1>7, <1>9
  <2>2. PassDone(R, n, s, i, j, g[j])
    BY <2>1, PassStep
  <2>. QED
    BY <2>1, <2>2
<1>10. n \in T
  <2>. HIDE DEF T
  <2>1. i \in Nat /\ n \in i..n
    OBVIOUS
  <2>2. i..n \subseteq T
    BY <1>8, <1>9, <2>1, CountUp
  <2>. QED
    BY <2>1, <2>2
<1>. QED
  BY <1>6, <1>10

(* The outer loop: when it has come to i, the first i are in their places. *)
SortDone(R, n, s, i, v) ==
  /\ v \in Lists(R, n)
  /\ SameMembers(v, s)
  /\ \A a \in 1..i, b \in 1..n : a <= b => Len(v[b].path) <= Len(v[a].path)

(* One pass further. *)
LEMMA SortStep ==
  ASSUME NEW R, Measured(R), NEW n \in Nat, NEW s, NEW i \in 1..n,
         NEW u, SortDone(R, n, s, i - 1, u), NEW v, v = Pass(u, i)
  PROVE  SortDone(R, n, s, i, v)
<1>1. u \in Lists(R, n)
  BY DEF SortDone
<1>2. PassDone(R, n, u, i, n, v)
  BY <1>1, PassFacts
<1>3. v \in Lists(R, n) /\ SameMembers(v, s)
  BY <1>2 DEF PassDone, SortDone, SameMembers
<1>4. ASSUME NEW a \in 1..i, NEW b \in 1..n, a <= b
      PROVE  Len(v[b].path) <= Len(v[a].path)
  <2>1. CASE a = i
    <3>1. b \in i..n
      BY <1>4, <2>1
    <3>. QED
      BY <1>2, <2>1, <3>1 DEF PassDone
  <2>2. CASE a # i
    <3>1. a \in 1..i - 1 /\ v[a] = u[a]
      BY <1>2, <2>2 DEF PassDone
    <3>2. PICK l \in 1..n : a <= l /\ v[b] = u[l]
      <4>1. CASE b \in 1..i - 1
        BY <1>2, <1>4, <4>1 DEF PassDone
      <4>2. CASE b \in i..n
        <5>1. PICK l \in i..n : v[b] = u[l]
          BY <1>2, <4>2 DEF PassDone
        <5>2. l \in 1..n /\ a <= l
          BY <3>1
        <5>. QED
          BY <5>1, <5>2
      <4>. QED
        BY <4>1, <4>2
    <3>3. Len(u[l].path) <= Len(u[a].path)
      BY <3>1, <3>2 DEF SortDone
    <3>. QED
      BY <3>1, <3>2, <3>3
  <2>. QED
    BY <2>1, <2>2
<1>. QED
  BY <1>3, <1>4 DEF SortDone

(* LongestFirst loses and invents no room, and its lengths descend         *)
(* (middleware.go:264-275).                                                *)
THEOREM SortFacts ==
  ASSUME NEW R, Measured(R), NEW s \in Seq(R), NEW t, t = LongestFirst(s)
  PROVE  SortDone(R, Len(s), s, Len(s), t)
<1>1. PICK n \in Nat : n = Len(s)
  OBVIOUS
<1>. DEFINE F == [i \in 1..n |-> [u \in Lists(R, n) |-> Pass(u, i)]]
            Loop(f) == f = [i \in 0..n |-> IF i = 0 THEN s ELSE Pass(f[i - 1], i)]
<1>2. ASSUME NEW i \in 1..n, NEW u \in Lists(R, n)
      PROVE  Pass(u, i) \in Lists(R, n) /\ F[i][u] = Pass(u, i)
  <2>1. PassDone(R, n, u, i, n, Pass(u, i))
    BY PassFacts
  <2>2. Pass(u, i) \in Lists(R, n)
    BY <2>1 DEF PassDone
  <2>. QED
    BY <2>2
<1>. HIDE DEF F
<1>3. s \in Lists(R, n)
  BY <1>1 DEF Lists
<1>4. PICK f : Run(f, F, Lists(R, n), s, 0, n)
  <2>1. 0 \in Nat /\ 0 <= n
    OBVIOUS
  <2>2. Steps(F, Lists(R, n), 0, n)
    BY <1>2 DEF Steps
  <2>. QED
    BY <1>3, <2>1, <2>2, LoopRuns
<1>5. ASSUME NEW i \in 1..n PROVE f[i] = Pass(f[i - 1], i)
  <2>1. i - 1 \in 0..n
    OBVIOUS
  <2>2. f[i - 1] \in Lists(R, n)
    BY <1>4, <2>1 DEF Run
  <2>. QED
    BY <1>2, <1>4, <2>2 DEF Run
<1>6. Loop(f)
  BY <1>4, <1>5 DEF Run
<1>7. PICK g : Loop(g) /\ t = g[n]
  <2>1. \E g : Loop(g)
    BY <1>6
  <2>. QED
    BY <1>1, <2>1, Zenon DEF LongestFirst
<1>8. g[0] = s /\ \A i \in 1..n : g[i] = Pass(g[i - 1], i)
  BY <1>7
<1>. DEFINE T == {i \in 0..n : SortDone(R, n, s, i, g[i])}
<1>9. 0 \in T
  <2>1. SortDone(R, n, s, 0, s)
    BY <1>3 DEF SortDone, SameMembers
  <2>2. 0 \in 0..n /\ g[0] = s
    BY <1>8
  <2>. QED
    BY <2>1, <2>2
<1>10. ASSUME NEW i \in 1..n, i - 1 \in T
       PROVE  i \in T
  <2>1. SortDone(R, n, s, i - 1, g[i - 1]) /\ g[i] = Pass(g[i - 1], i) /\ i \in 0..n
    BY <1>8, <1>10
  <2>2. SortDone(R, n, s, i, g[i])
    BY <2>1, SortStep
  <2>. QED
    BY <2>1, <2>2
<1>11. n \in T
  <2>. HIDE DEF T
  <2>1. 0 \in Nat /\ n \in 0..n /\ 0 + 1 = 1
    OBVIOUS
  <2>2. 0..n \subseteq T
    BY <1>9, <1>10, <2>1, CountUp
  <2>. QED
    BY <2>1, <2>2
<1>. QED
  BY <1>1, <1>7, <1>11

-----------------------------------------------------------------------------
(* One host's best room. *)
(* A set of places that is not empty has a last one. *)
LEMMA GreatestIndex ==
  ASSUME NEW n \in Nat, NEW S \in SUBSET (1..n), S # {}
  PROVE  \E m \in S : \A k \in S : k <= m
<1>. DEFINE D == {n - k : k \in S}
<1>1. D \in SUBSET Nat /\ D # {}
  <2>1. \E k \in S : n - k \in D
    OBVIOUS
  <2>2. \A k \in S : n - k \in Nat
    OBVIOUS
  <2>. QED
    BY <2>1, <2>2
<1>. HIDE DEF D
<1>2. PICK d \in D : \A e \in D : d <= e
  BY <1>1, LeastNatural
<1>3. PICK m \in S : d = n - m
  BY DEF D
<1>4. \A k \in S : n - k \in D
  BY DEF D
<1>5. ASSUME NEW k \in S PROVE k <= m
  <2>1. n - m <= n - k
    BY <1>2, <1>3, <1>4
  <2>2. k \in 1..n /\ m \in 1..n
    OBVIOUS
  <2>. QED
    BY <2>1, <2>2
<1>. QED
  BY <1>5

Covers(r, path) == IF r.glob THEN IsPrefix(r.path, path) ELSE r.path = path

(* Among the rooms of one host: an exact path, or else a longest prefix. *)
BestAnswer(rooms, path, host, id) ==
  LET those == {r \in {rooms[i] : i \in DOMAIN rooms} : Scope(r, host) /\ Covers(r, path)}
  IN  \/ those = {} /\ id = NoRoom
      \/ \E r \in those : /\ r.id = id
                          /\ \A s \in those : ~ (r.glob /\ (~s.glob \/ Len(s.path) > Len(r.path)))

(* MatchPath answers with the best room of one host. *)
LEMMA MatchPathBest ==
  ASSUME NEW R, Measured(R), NEW rooms \in Seq(R), NEW path, NEW host,
         \A r \in R : r.glob \in BOOLEAN
  PROVE  BestAnswer(rooms, path, host, MatchPath(rooms, path, host))
<1>. DEFINE those == {r \in {rooms[i] : i \in DOMAIN rooms} : Scope(r, host) /\ Covers(r, path)}
<1>1. /\ Len(rooms) \in Nat /\ DOMAIN rooms = 1..Len(rooms)
      /\ \A i \in DOMAIN rooms : rooms[i] \in R
  BY SeqShape
<1>2. PICK prefixes, sorted, exact, hits :
        /\ prefixes = PrefixRooms(rooms, host)
        /\ sorted = LongestFirst(prefixes)
        /\ exact = ExactRooms(rooms, path, host)
        /\ hits = {i \in DOMAIN sorted : IsPrefix(sorted[i].path, path)}
  OBVIOUS
<1>3. MatchPath(rooms, path, host) =
        IF exact # {} THEN rooms[CHOOSE i \in exact : \A j \in exact : j <= i].id
        ELSE IF hits # {} THEN sorted[CHOOSE i \in hits : \A j \in hits : i <= j].id
        ELSE NoRoom
  BY <1>2 DEF MatchPath
<1>4. /\ prefixes \in Seq(R)
      /\ \A r : Occurs(r, prefixes) <=> Occurs(r, rooms) /\ Scope(r, host) /\ r.glob
  BY <1>2, PrefixFacts
<1>5. PICK n \in Nat : n = Len(prefixes)
  BY <1>4, SeqShape
<1>6. SortDone(R, n, prefixes, n, sorted)
  BY <1>2, <1>4, <1>5, SortFacts
<1>7. /\ DOMAIN sorted = 1..n
      /\ \A k \in 1..n : sorted[k] \in R
      /\ \A a, b \in 1..n : a <= b => Len(sorted[b].path) <= Len(sorted[a].path)
      /\ \A r : Occurs(r, sorted) <=> Occurs(r, rooms) /\ Scope(r, host) /\ r.glob
  BY <1>4, <1>6, SeqShape DEF SortDone, SameMembers, Lists
<1>8. \A r : r \in those <=> Occurs(r, rooms) /\ Scope(r, host) /\ Covers(r, path)
  BY DEF Occurs
<1>9. exact \in SUBSET (1..Len(rooms)) /\ hits \in SUBSET (1..n)
  BY <1>1, <1>2, <1>7 DEF ExactRooms
<1>10. \A s \in those : s \in R /\ s.glob \in BOOLEAN /\ Len(s.path) \in Nat
  BY <1>1 DEF Measured
<1>. HIDE DEF those
<1>11. CASE exact # {}
  <2>1. PICK m \in exact : MatchPath(rooms, path, host) = rooms[m].id
    <3>1. \E i \in exact : \A j \in exact : j <= i
      BY <1>1, <1>9, <1>11, GreatestIndex
    <3>. QED
      BY <1>3, <1>11, <3>1
  <2>2. m \in DOMAIN rooms /\ Scope(rooms[m], host) /\ ~rooms[m].glob /\ rooms[m].path = path
    BY <1>2, <2>1 DEF ExactRooms
  <2>3. rooms[m] \in those
    BY <1>8, <2>2 DEF Occurs, Covers
  <2>4. \E r \in those : /\ r.id = MatchPath(rooms, path, host)
                         /\ \A s \in those : ~ (r.glob /\ (~s.glob \/ Len(s.path) > Len(r.path)))
    BY <2>1, <2>2, <2>3
  <2>. QED
    BY <2>4 DEF BestAnswer, those
<1>12. CASE exact = {} /\ hits # {}
  <2>1. PICK m \in hits : /\ MatchPath(rooms, path, host) = sorted[m].id
                          /\ \A j \in hits : m <= j
    <3>1. \E i \in hits : \A j \in hits : i <= j
      <4>1. hits \in SUBSET Nat
        BY <1>9
      <4>. QED
        BY <1>12, <4>1, LeastNatural
    <3>. QED
      BY <1>3, <1>12, <3>1
  <2>2. m \in 1..n /\ IsPrefix(sorted[m].path, path)
    BY <1>2, <1>9, <2>1
  <2>3. Occurs(sorted[m], sorted)
    BY <1>7, <2>2 DEF Occurs
  <2>4. sorted[m] \in those /\ sorted[m].glob
    BY <1>7, <1>8, <2>2, <2>3 DEF Covers
  <2>5. ASSUME NEW s \in those
        PROVE  s.glob /\ Len(s.path) <= Len(sorted[m].path)
    <3>1. Occurs(s, rooms) /\ Scope(s, host) /\ Covers(s, path)
      BY <1>8
    <3>2. s.glob
      <4>. SUFFICES ASSUME ~s.glob PROVE FALSE
        BY <1>10
      <4>1. PICK i \in DOMAIN rooms : rooms[i] = s
        BY <3>1 DEF Occurs
      <4>2. i \in exact
        BY <1>2, <3>1, <4>1 DEF ExactRooms, Covers
      <4>. QED
        BY <1>12, <4>2
    <3>3. PICK k \in 1..n : sorted[k] = s
      BY <1>7, <3>1, <3>2 DEF Occurs
    <3>4. k \in hits
      BY <1>2, <1>7, <3>1, <3>2, <3>3 DEF Covers
    <3>5. m <= k
      BY <2>1, <3>4
    <3>. QED
      BY <1>7, <2>2, <3>2, <3>3, <3>5
  <2>6. \A s \in those : ~ (~s.glob \/ Len(s.path) > Len(sorted[m].path))
    BY <1>10, <2>4, <2>5
  <2>7. \E r \in those : /\ r.id = MatchPath(rooms, path, host)
                         /\ \A s \in those : ~ (r.glob /\ (~s.glob \/ Len(s.path) > Len(r.path)))
    BY <2>1, <2>4, <2>6
  <2>. QED
    BY <2>7 DEF BestAnswer, those
<1>13. CASE exact = {} /\ hits = {}
  <2>1. MatchPath(rooms, path, host) = NoRoom
    BY <1>3, <1>13
  <2>2. ASSUME NEW s \in those PROVE FALSE
    <3>1. Occurs(s, rooms) /\ Scope(s, host) /\ Covers(s, path)
      BY <1>8
    <3>2. CASE s.glob
      <4>1. PICK k \in 1..n : sorted[k] = s
        BY <1>7, <3>1, <3>2 DEF Occurs
      <4>2. k \in hits
        BY <1>2, <1>7, <3>1, <3>2, <4>1 DEF Covers
      <4>. QED
        BY <1>13, <4>2
    <3>3. CASE ~s.glob
      <4>1. PICK i \in DOMAIN rooms : rooms[i] = s
        BY <3>1 DEF Occurs
      <4>2. i \in exact
        BY <1>2, <3>1, <3>3, <4>1 DEF ExactRooms, Covers
      <4>. QED
        BY <1>13, <4>2
    <3>. QED
      BY <3>2, <3>3
  <2>3. those = {}
    BY <2>2
  <2>. QED
    BY <2>1, <2>3 DEF BestAnswer, those
<1>. QED
  BY <1>11, <1>12, <1>13

-----------------------------------------------------------------------------
(* The cookie. *)
Pieces(m, n, id, room, status, iat, exp) ==
  /\ \E V : m \in Seq(V)
  /\ Len(m) = n + 4
  /\ n = 1 => /\ m[1] = [piece |-> id] /\ m[2] = [piece |-> room[1]]
              /\ m[3] = [piece |-> status] /\ m[4] = [piece |-> iat] /\ m[5] = [piece |-> exp]

(* A message is the pieces in a row, five of them when the id is one. *)
LEMMA MessageFacts ==
  ASSUME NEW id, NEW S, NEW room \in Seq(S), NEW status, NEW iat, NEW exp,
         NEW m, m = Message(Payload(id, room, status, iat, exp)),
         NEW n, n = Len(room)
  PROVE  Pieces(m, n, id, room, status, iat, exp)
<1>. DEFINE P(x) == [piece |-> x]
            W == {P(id), P(status), P(iat), P(exp)} \cup {P(x) : x \in S}
            bb == [i \in DOMAIN room |-> P(room[i])]
<1>1. n \in Nat /\ DOMAIN room = 1..n /\ \A i \in 1..n : room[i] \in S
  OBVIOUS
<1>2. bb \in Seq(W) /\ Len(bb) = n /\ \A i \in 1..n : bb[i] = P(room[i])
  <2>1. \A i \in 1..n : P(room[i]) \in W
    BY <1>1
  <2>. HIDE DEF W
  <2>2. bb \in [1..n -> W]
    BY <1>1, <2>1
  <2>3. \A i \in 1..n : bb[i] = P(room[i])
    BY <1>1
  <2>. HIDE DEF bb
  <2>. QED
    BY <1>1, <2>2, <2>3
<1>3. PICK V, a, b, c : V = W /\ a = <<P(id)>> /\ b = bb /\ c = <<P(status), P(iat), P(exp)>>
  OBVIOUS
<1>4. a \in Seq(V) /\ Len(a) = 1 /\ a[1] = P(id)
  BY <1>3
<1>5. c \in Seq(V) /\ Len(c) = 3 /\ c[1] = P(status) /\ c[2] = P(iat) /\ c[3] = P(exp)
  BY <1>3
<1>6. m = a \o b \o c
  BY <1>3 DEF Message, Payload
<1>7. b \in Seq(V) /\ Len(b) = n /\ \A i \in 1..n : b[i] = P(room[i])
  BY <1>3, <1>2
<1>. HIDE DEF W, bb, P
<1>8. PICK ab : ab = a \o b
  OBVIOUS
<1>9. /\ ab \in Seq(V) /\ Len(ab) = n + 1 /\ ab[1] = P(id)
      /\ n = 1 => ab[2] = P(room[1])
  <2>1. /\ ab \in Seq(V) /\ Len(ab) = Len(a) + Len(b)
        /\ \A k \in 1..Len(a) + Len(b) : ab[k] = IF k <= Len(a) THEN a[k] ELSE b[k - Len(a)]
    BY <1>4, <1>7, <1>8, ConcatProperties
  <2>2. 1 \in 1..Len(a) + Len(b) /\ ab[1] = a[1]
    BY <1>1, <1>4, <1>7, <2>1
  <2>3. ASSUME n = 1 PROVE ab[2] = P(room[1])
    <3>1. 2 \in 1..Len(a) + Len(b) /\ ~(2 <= Len(a)) /\ 2 - Len(a) = 1
      BY <1>4, <1>7, <2>3
    <3>2. ab[2] = b[1]
      BY <2>1, <3>1
    <3>. QED
      BY <1>7, <2>3, <3>2
  <2>. QED
    BY <1>1, <1>4, <1>7, <2>1, <2>2, <2>3
<1>10. /\ m \in Seq(V) /\ Len(m) = Len(ab) + Len(c)
      /\ \A k \in 1..Len(ab) + Len(c) : m[k] = IF k <= Len(ab) THEN ab[k] ELSE c[k - Len(ab)]
  <2>1. m = ab \o c
    BY <1>6, <1>8
  <2>. QED
    <3>1. ab \in Seq(V) /\ c \in Seq(V)
      BY <1>5, <1>9
    <3>2. /\ ab \o c \in Seq(V) /\ Len(ab \o c) = Len(ab) + Len(c)
          /\ \A k \in 1..Len(ab) + Len(c) :
               (ab \o c)[k] = IF k <= Len(ab) THEN ab[k] ELSE c[k - Len(ab)]
      BY <3>1, ConcatProperties, Zenon
    <3>. QED
      BY <2>1, <3>2
<1>11. ASSUME n = 1
      PROVE  m[1] = P(id) /\ m[2] = P(room[1]) /\ m[3] = P(status) /\ m[4] = P(iat) /\ m[5] = P(exp)
  <2>1. Len(ab) = 2 /\ Len(c) = 3
    BY <1>5, <1>9, <1>11
  <2>2. \A k \in 1..5 : m[k] = IF k <= 2 THEN ab[k] ELSE c[k - 2]
    BY <1>10, <2>1
  <2>3. m[1] = ab[1] /\ m[2] = ab[2]
    BY <2>2
  <2>4. m[3] = c[1] /\ m[4] = c[2] /\ m[5] = c[3]
    BY <2>2
  <2>. QED
    BY <1>5, <1>9, <1>11, <2>3, <2>4
<1>. QED
  BY <1>1, <1>5, <1>9, <1>10, <1>11 DEF P, Pieces

(* Signed and verified: a cookie comes back as it was, or is over, and one *)
(* whose room id holds the separator is never accepted                     *)
(* (signer.go:75-123).                                                     *)
THEOREM CodecFacts ==
  ASSUME NEW id, NEW S, NEW room \in Seq(S), room # <<>>, NEW status, NEW iat,
         NEW exp \in Int, NEW now \in Int,
         NEW p, p = Payload(id, room, status, iat, exp)
  PROVE  Verify(Sign(p), now) =
           IF Len(room) > 1 THEN Rejected ELSE IF now > exp THEN Expired ELSE p
<1>1. PICK n, m, token : n = Len(room) /\ m = Message(p) /\ token = Append(m, MAC(m))
  OBVIOUS
<1>2. n \in Nat /\ n # 0
  BY <1>1
<1>3. /\ \E V : m \in Seq(V)
      /\ Len(m) = n + 4
      /\ n = 1 => /\ m[1] = [piece |-> id] /\ m[2] = [piece |-> room[1]]
                  /\ m[3] = [piece |-> status] /\ m[4] = [piece |-> iat] /\ m[5] = [piece |-> exp]
  <2>1. m = Message(Payload(id, room, status, iat, exp)) /\ n = Len(room)
    BY <1>1
  <2>2. Pieces(m, n, id, room, status, iat, exp)
    BY <2>1, MessageFacts
  <2>. QED
    BY <2>2 DEF Pieces
<1>4. PICK V : m \in Seq(V)
  BY <1>3
<1>5. /\ Len(token) = n + 5
      /\ \A k \in 1..n + 4 : token[k] = m[k]
      /\ token[n + 5] = MAC(m)
      /\ \E W : token \in Seq(W)
  <2>1. PICK W : W = V \cup {MAC(m)}
    OBVIOUS
  <2>2. m \in Seq(W) /\ MAC(m) \in W
    BY <1>4, <2>1
  <2>. QED
    BY <1>1, <1>2, <1>3, <2>2
<1>6. Sign(p) = token
  BY <1>1 DEF Sign
<1>7. CASE n > 1
  <2>1. Len(token) # 6
    BY <1>2, <1>5, <1>7
  <2>. QED
    BY <1>1, <1>6, <1>7, <2>1 DEF Verify
<1>8. CASE n = 1
  <2>1. Len(token) = 6 /\ token[6] = MAC(m) /\ \A k \in 1..5 : token[k] = m[k]
    BY <1>5, <1>8
  <2>2. SubSeq(token, 1, 5) = m
    <3>1. PICK W : token \in Seq(W)
      BY <1>5
    <3>2. PICK s : s = SubSeq(token, 1, 5)
      OBVIOUS
    <3>3. s \in Seq(W) /\ Len(s) = 5 /\ \A k \in 1..5 : s[k] = token[k]
      <4>1. 1 \in 1..Len(token) + 1 /\ 5 \in 0..Len(token)
        BY <2>1
      <4>2. /\ SubSeq(token, 1, 5) \in Seq(W)
            /\ Len(SubSeq(token, 1, 5)) = IF 1 <= 5 THEN 5 - 1 + 1 ELSE 0
            /\ \A k \in 1..5 - 1 + 1 : SubSeq(token, 1, 5)[k] = token[1 + k - 1]
        BY <3>1, <4>1, SubSeqProperties
      <4>. QED
        BY <3>2, <4>2
    <3>4. Len(m) = 5
      BY <1>3, <1>8
    <3>5. PICK X : X = V \cup W
      OBVIOUS
    <3>6. m \in Seq(X) /\ s \in Seq(X) /\ Len(m) = Len(s) /\ \A k \in 1..Len(m) : m[k] = s[k]
      BY <1>4, <2>1, <3>3, <3>4, <3>5
    <3>7. m = s
      BY <3>6, SeqEqual
    <3>. QED
      BY <3>2, <3>7
  <2>3. /\ token[1].piece = id /\ token[2].piece = room[1] /\ token[3].piece = status
        /\ token[4].piece = iat /\ token[5].piece = exp
    BY <1>3, <1>8, <2>1
  <2>4. <<room[1]>> = room
    <3>1. PICK s : s = <<room[1]>>
      OBVIOUS
    <3>2. s \in Seq(S) /\ Len(s) = 1 /\ s[1] = room[1] /\ Len(room) = 1
      BY <1>1, <1>8, <3>1
    <3>3. \A k \in 1..Len(s) : s[k] = room[k]
      BY <3>2
    <3>4. s = room
      BY <3>2, <3>3, SeqEqual
    <3>. QED
      BY <3>1, <3>4
  <2>5. Verify(token, now) = IF now > exp THEN Expired ELSE p
    BY <2>1, <2>2, <2>3, <2>4 DEF Verify
  <2>. QED
    BY <1>1, <1>6, <1>8, <2>5
<1>. QED
  BY <1>2, <1>7, <1>8

-----------------------------------------------------------------------------
(* Match over the rooms of a configuration. *)
LEMMA RoomConfigFacts ==
  /\ Measured(RoomConfig)
  /\ \A r \in RoomConfig : /\ r.glob \in BOOLEAN /\ r.enabled \in BOOLEAN /\ r.custom \in BOOLEAN
                           /\ r.rate \in Int /\ r.limit \in Int /\ r.minutes \in Int
                           /\ r.id \in Seq(STRING)
<1>1. \A r \in RoomConfig : r.path \in Seq(STRING) /\ r.id \in Seq(STRING)
  BY DEF RoomConfig
<1>2. \A r \in RoomConfig : r.glob \in BOOLEAN /\ r.enabled \in BOOLEAN /\ r.custom \in BOOLEAN
  BY DEF RoomConfig
<1>3. \A r \in RoomConfig : r.rate \in Int /\ r.limit \in Int /\ r.minutes \in Int
  BY DEF RoomConfig
<1>4. Measured(RoomConfig)
  BY <1>1 DEF Measured
<1>. QED
  BY <1>1, <1>2, <1>3, <1>4

Chosen(rooms, path, host, id) ==
  LET applicable == {r \in {rooms[i] : i \in DOMAIN rooms} : Applies(r, path, host)}
  IN  IF applicable = {} THEN id = NoRoom
      ELSE \E r \in applicable : r.id = id /\ \A s \in applicable : ~Beats(s, r)

(* Of any list of rooms with ids, Match answers one that applies and that  *)
(* none beats, or that there is none (middleware.go:240-299).              *)
THEOREM MatchFacts ==
  ASSUME NEW rooms \in Seq(RoomConfig), \A i \in DOMAIN rooms : rooms[i].id # <<>>,
         NEW path, NEW host
  PROVE  Chosen(rooms, path, host, Match(rooms, path, host))
<1>. DEFINE all == {rooms[i] : i \in DOMAIN rooms}
            those(g) == {r \in all : Scope(r, g) /\ Covers(r, path)}
            best(r, g) == \A s \in those(g) : ~ (r.glob /\ (~s.glob \/ Len(s.path) > Len(r.path)))
            applicable == {r \in all : Applies(r, path, host)}
<1>1. \A r \in all : r \in RoomConfig /\ r.id # NoRoom
  BY SeqShape DEF NoRoom
<1>2. ASSUME NEW g
      PROVE  \/ those(g) = {} /\ MatchPath(rooms, path, g) = NoRoom
             \/ \E r \in those(g) : r.id = MatchPath(rooms, path, g) /\ best(r, g)
  <2>1. BestAnswer(rooms, path, g, MatchPath(rooms, path, g))
    BY RoomConfigFacts, MatchPathBest
  <2>. QED
    BY <2>1 DEF BestAnswer
<1>3. \A r : r \in applicable <=> r \in those("") \/ r \in those(host)
  BY <1>1, RoomConfigFacts DEF Applies, Scope, Covers
<1>4. \A g : \A r \in those(g) : r \in all /\ r.host = g
  BY DEF Scope
<1>5. ASSUME NEW g, NEW r \in those(g), best(r, g), NEW s \in those(g) PROVE ~ Beats(s, r)
                                        \/ (g # "" /\ g = "")
  BY <1>1, <1>4, <1>5, RoomConfigFacts DEF Beats
<1>. HIDE DEF all, those, best, applicable
<1>6. CASE host # "" /\ MatchPath(rooms, path, host) # NoRoom
  <2>1. Match(rooms, path, host) = MatchPath(rooms, path, host)
    BY <1>6 DEF Match
  <2>2. PICK r \in those(host) : r.id = MatchPath(rooms, path, host) /\ best(r, host)
    BY <1>2, <1>6
  <2>3. ASSUME NEW s \in applicable PROVE ~ Beats(s, r)
    <3>1. CASE s \in those(host)
      BY <1>5, <1>6, <2>2, <3>1
    <3>2. CASE s \in those("")
      <4>1. s.host = "" /\ r.host = host
        BY <1>4, <2>2, <3>2
      <4>. QED
        BY <1>6, <4>1 DEF Beats
    <3>. QED
      BY <1>3, <3>1, <3>2
  <2>4. r \in applicable
    BY <1>3, <2>2
  <2>. QED
    BY <2>1, <2>2, <2>3, <2>4 DEF Chosen, applicable, all
<1>7. CASE host = "" \/ MatchPath(rooms, path, host) = NoRoom
  <2>1. Match(rooms, path, host) = MatchPath(rooms, path, "")
    BY <1>7 DEF Match
  <2>2. \A s \in applicable : s \in those("")
    <3>1. CASE host = ""
      BY <1>3, <3>1
    <3>2. CASE MatchPath(rooms, path, host) = NoRoom
      <4>1. those(host) = {}
        BY <1>1, <1>2, <1>4, <3>2
      <4>. QED
        BY <1>3, <4>1
    <3>. QED
      BY <1>7, <3>1, <3>2
  <2>3. CASE those("") = {}
    <3>1. applicable = {} /\ MatchPath(rooms, path, "") = NoRoom
      BY <1>2, <2>2, <2>3
    <3>. QED
      BY <2>1, <3>1 DEF Chosen, applicable, all
  <2>4. CASE those("") # {}
    <3>1. PICK r \in those("") : r.id = MatchPath(rooms, path, "") /\ best(r, "")
      BY <1>2, <2>4
    <3>2. \A s \in applicable : ~ Beats(s, r)
      BY <1>5, <2>2, <3>1
    <3>3. r \in applicable
      BY <1>3, <3>1
    <3>. QED
      BY <2>1, <3>1, <3>2, <3>3 DEF Chosen, applicable, all
  <2>. QED
    BY <2>3, <2>4
<1>. QED
  BY <1>6, <1>7

-----------------------------------------------------------------------------
(* The invariant. *)
RenderType == [pc : {"idle", "lookup", "read", "store", "execute"},
               tmpl : Templates \cup {"default", "none"}]

Loaded == phase \notin {"loading", "rejected"}

Typed ==
  /\ conf \in Config
  /\ render \in [Handlers -> RenderType]
  /\ \A h \in Handlers : render[h].pc = "store" => render[h].tmpl \in Templates
  /\ TypeOK

(* Load has filled in and checked what is served; the workers of the       *)
(* enabled rooms in front of next run until a signal.                      *)
Started ==
  /\ phase = "loading" => next = 1
  /\ Loaded => Validate(conf)
  /\ Loaded /\ phase # "starting" => next = Len(conf.rooms) + 1
  /\ Loaded => \A i \in DOMAIN conf.rooms : conf.rooms[i].enabled /\ i < next =>
       worker[conf.rooms[i].id] \in (IF phase \in {"starting", "running"} THEN {"running"}
                                     ELSE {"running", "stopped"})

(* Requests come and are answered while the server runs or drains. *)
Serving ==
  \A h \in Handlers :
    /\ req[h].pc # "idle" => phase \in {"running", "stopping"}
    /\ req[h].pc = "check" => req[h].room \in RoomIds
    /\ req[h].pc = "page" =>
         \E i \in DOMAIN conf.rooms : conf.rooms[i].enabled /\ conf.rooms[i].id = req[h].room

IInv == Typed /\ ConfigSafe /\ Started /\ Serving

(* It holds when the process starts. *)
LEMMA InitIInv == Init => IInv
<1>. SUFFICES ASSUME Init PROVE IInv
  OBVIOUS
<1>1. conf \in Config
  BY ServerAssumption DEF Init
<1>2. conf.rooms \in Seq(RoomConfig) /\ Len(conf.rooms) \in Nat
  BY <1>1 DEF Config
<1>3. 1 \in 1..Len(conf.rooms) + 1
  BY <1>2
<1>4. Typed
  BY <1>1, <1>3 DEF Init, Typed, TypeOK, CacheInit, NoRender, NoRequest, RenderType, NoRoom
<1>5. ConfigSafe
  BY DEF Init, ConfigSafe
<1>6. Started /\ Serving
  BY DEF Init, Started, Serving, Loaded, NoRequest
<1>. QED
  BY <1>4, <1>5, <1>6 DEF IInv

(* A default that is not 0 leaves no 0. *)
LEMMA DefaultIsSet ==
  ASSUME NEW v \in Int, NEW d \in Int, d # 0, NEW a, a = OrDefault(v, 0, d)
  PROVE  a \in Int /\ a # 0
  BY DEF OrDefault

(* What a room is with its defaults ... *)
LEMMA RoomDefaultsFacts ==
  ASSUME NEW r \in RoomConfig
  PROVE  /\ WithDefaults(r) \in RoomConfig
         /\ WithDefaults(r).id = r.id
         /\ WithDefaults(r).rate # 0 /\ WithDefaults(r).limit # 0 /\ WithDefaults(r).minutes # 0
         /\ WithDefaults(r).method # ""
<1>1. PICK m, a, b, c :
        /\ m = OrDefault(r.method, "", "fifo") /\ a = OrDefault(r.rate, 0, 60)
        /\ b = OrDefault(r.limit, 0, 200) /\ c = OrDefault(r.minutes, 0, 10)
  OBVIOUS
<1>2. /\ r.method \in {"", "fifo", "random", "lifo"}
      /\ r.rate \in Int /\ r.limit \in Int /\ r.minutes \in Int
  BY DEF RoomConfig
<1>3. m \in {"fifo", "random", "lifo"}
  BY <1>1, <1>2 DEF OrDefault
<1>4. a \in Int /\ a # 0
  <2>1. r.rate \in Int /\ a = OrDefault(r.rate, 0, 60)
    BY <1>1, <1>2
  <2>. QED
    BY <2>1, DefaultIsSet
<1>5. b \in Int /\ b # 0
  <2>1. r.limit \in Int /\ b = OrDefault(r.limit, 0, 200)
    BY <1>1, <1>2
  <2>. QED
    BY <2>1, DefaultIsSet
<1>6. c \in Int /\ c # 0
  <2>1. r.minutes \in Int /\ c = OrDefault(r.minutes, 0, 10)
    BY <1>1, <1>2
  <2>. QED
    BY <2>1, DefaultIsSet
<1>7. WithDefaults(r) = [r EXCEPT !.method = m, !.rate = a, !.limit = b, !.minutes = c]
  BY <1>1 DEF WithDefaults
<1>. QED
  BY <1>3, <1>7, <1>4, <1>5, <1>6 DEF RoomConfig

(* ... and a configuration: the same rooms, nothing unset. *)
LEMMA DefaultsFacts ==
  ASSUME NEW c \in Config, NEW d, d = ApplyDefaults(c)
  PROVE  /\ d \in Config
         /\ DOMAIN d.rooms = DOMAIN c.rooms
         /\ Len(d.rooms) = Len(c.rooms)
         /\ \A i \in DOMAIN c.rooms :
              /\ d.rooms[i].id = c.rooms[i].id
              /\ d.rooms[i].rate # 0 /\ d.rooms[i].limit # 0 /\ d.rooms[i].minutes # 0
              /\ d.rooms[i].method # ""
<1>. DEFINE rooms == [i \in DOMAIN c.rooms |-> WithDefaults(c.rooms[i])]
<1>1. c.rooms \in Seq(RoomConfig)
  BY DEF Config
<1>2. PICK n \in Nat : n = Len(c.rooms) /\ DOMAIN c.rooms = 1..n
  BY <1>1, SeqShape
<1>3. \A i \in 1..n : c.rooms[i] \in RoomConfig
  BY <1>1, <1>2
<1>4. d = [c EXCEPT !.rooms = rooms]
  BY DEF ApplyDefaults
<1>5. rooms \in [1..n -> RoomConfig] /\ \A i \in 1..n : rooms[i] = WithDefaults(c.rooms[i])
  BY <1>2, <1>3, RoomDefaultsFacts
<1>. HIDE DEF rooms
<1>6. rooms \in Seq(RoomConfig) /\ Len(rooms) = n /\ DOMAIN rooms = 1..n
  BY <1>5
<1>7. d.rooms = rooms /\ d \in Config
  BY <1>4, <1>6 DEF Config
<1>8. ASSUME NEW i \in 1..n
      PROVE  /\ d.rooms[i].id = c.rooms[i].id
             /\ d.rooms[i].rate # 0 /\ d.rooms[i].limit # 0 /\ d.rooms[i].minutes # 0
             /\ d.rooms[i].method # ""
  BY <1>3, <1>5, <1>7, RoomDefaultsFacts
<1>. QED
  BY <1>2, <1>6, <1>7, <1>8

-----------------------------------------------------------------------------
(* Requests. *)
ReqPcs == {"idle", "check", "origin", "page", "proxied", "panicked"}

RenderOK ==
  /\ file \in Templates \cup {"missing", "broken"} /\ tmplCache \in Templates \cup {"none"}
  /\ render \in [Handlers -> RenderType]
  /\ \A h \in Handlers : /\ render[h].pc = "store" => render[h].tmpl \in Templates
                         /\ render[h].pc = "execute" => render[h].tmpl \in Templates \cup {"default"}

PageTie == \A h \in Handlers : render[h].pc # "idle" <=> req[h].pc = "page"

MainOK ==
  /\ conf \in Config
  /\ phase \in {"loading", "rejected", "starting", "running", "stopping", "stopped", "aborted"}
  /\ next \in 1..Len(conf.rooms) + 1
  /\ worker \in [RoomIds -> {"none", "running", "stopped"}]

ReqOK == req \in [Handlers -> [pc : ReqPcs, room : RoomIds \cup {NoRoom}]]

(* The type invariant by the part of the program that can disturb it. *)
LEMMA TypedParts == Typed <=> MainOK /\ ReqOK /\ RenderOK /\ PageTie
  BY DEF Typed, TypeOK, MainOK, ReqOK, ReqPcs, RenderOK, PageTie, RenderType

(* Where only the requests move. *)
LEMMA MainStays ==
  ASSUME IInv, UNCHANGED <<phase, conf, next, worker>>
  PROVE  /\ MainOK' /\ ConfigSafe' /\ Started'
         /\ RoomIds' = RoomIds
<1>1. phase' = phase /\ conf' = conf /\ next' = next /\ worker' = worker
  OBVIOUS
<1>2. MainOK'
  BY <1>1, TypedParts DEF IInv, MainOK, RoomIds
<1>3. ConfigSafe'
  BY <1>1 DEF IInv, ConfigSafe
<1>4. Started'
  BY <1>1 DEF IInv, Started, Loaded
<1>. QED
  BY <1>1, <1>2, <1>3, <1>4 DEF RoomIds

(* What a request may turn into. *)
LEMMA RequestMoves ==
  ASSUME IInv, UNCHANGED <<phase, conf, next, worker>>,
         NEW h \in Handlers, NEW pc \in ReqPcs, NEW room \in RoomIds \cup {NoRoom},
         Goto(h, pc, room),
         phase \in {"running", "stopping"},
         pc = "check" => room \in RoomIds,
         pc = "page" => \E i \in DOMAIN conf.rooms : conf.rooms[i].enabled /\ conf.rooms[i].id = room
  PROVE  ReqOK' /\ Serving' /\ req'[h].pc = pc /\ \A g \in Handlers \ {h} : req'[g] = req[g]
<1>1. ReqOK /\ Serving
  BY TypedParts DEF IInv
<1>2. PICK r : r = [pc |-> pc, room |-> room]
  OBVIOUS
<1>3. req' = [req EXCEPT ![h] = r] /\ r.pc = pc /\ r.room = room
      /\ r \in [pc : ReqPcs, room : RoomIds \cup {NoRoom}]
  BY <1>2 DEF Goto
<1>4. RoomIds' = RoomIds
  BY MainStays
<1>5. req'[h] = r /\ \A g \in Handlers \ {h} : req'[g] = req[g]
  BY <1>1, <1>3 DEF ReqOK
<1>6. ReqOK'
  BY <1>1, <1>3, <1>4 DEF ReqOK
<1>7. ASSUME NEW g \in Handlers
      PROVE  /\ req'[g].pc # "idle" => phase' \in {"running", "stopping"}
             /\ req'[g].pc = "check" => req'[g].room \in RoomIds'
             /\ req'[g].pc = "page" =>
                  \E i \in DOMAIN conf'.rooms :
                    conf'.rooms[i].enabled /\ conf'.rooms[i].id = req'[g].room
  <2>1. CASE g = h
    BY <1>3, <1>4, <1>5, <2>1
  <2>2. CASE g # h
    BY <1>1, <1>4, <1>5, <2>2 DEF Serving
  <2>. QED
    BY <2>1, <2>2
<1>. QED
  BY <1>3, <1>5, <1>6, <1>7 DEF Serving

(* What a renderer may turn into. *)
LEMMA RenderMoves ==
  ASSUME IInv, NEW h \in Handlers, NEW r \in RenderType,
         render' = [render EXCEPT ![h] = r],
         r.pc = "store" => r.tmpl \in Templates,
         r.pc = "execute" => r.tmpl \in Templates \cup {"default"},
         file' \in Templates \cup {"missing", "broken"}, tmplCache' \in Templates \cup {"none"}
  PROVE  RenderOK' /\ render'[h] = r /\ \A g \in Handlers \ {h} : render'[g] = render[g]
<1>1. RenderOK
  BY TypedParts DEF IInv
<1>2. render'[h] = r /\ \A g \in Handlers \ {h} : render'[g] = render[g]
  BY <1>1 DEF RenderOK
<1>3. render' \in [Handlers -> RenderType]
  BY <1>1 DEF RenderOK
<1>4. ASSUME NEW g \in Handlers
      PROVE  /\ render'[g].pc = "store" => render'[g].tmpl \in Templates
             /\ render'[g].pc = "execute" => render'[g].tmpl \in Templates \cup {"default"}
  BY <1>1, <1>2 DEF RenderOK
<1>. QED
  BY <1>2, <1>3, <1>4 DEF RenderOK

(* A request that has no page and gets none leaves the renderer alone. *)
LEMMA WithoutPage ==
  ASSUME IInv, UNCHANGED <<phase, conf, next, worker, cacheVars>>,
         NEW h \in Handlers, NEW pc \in ReqPcs, NEW room \in RoomIds \cup {NoRoom},
         Goto(h, pc, room),
         phase \in {"running", "stopping"},
         pc = "check" => room \in RoomIds,
         pc # "page", req[h].pc # "page"
  PROVE  IInv'
<1>1. UNCHANGED <<phase, conf, next, worker>> /\ file' = file /\ tmplCache' = tmplCache
      /\ render' = render
  BY DEF cacheVars
<1>2. ReqOK' /\ Serving' /\ req'[h].pc = pc /\ \A g \in Handlers \ {h} : req'[g] = req[g]
  BY <1>1, RequestMoves
<1>3. RenderOK'
  BY <1>1, TypedParts DEF IInv, RenderOK
<1>4. PageTie
  BY TypedParts DEF IInv
<1>5. ASSUME NEW g \in Handlers PROVE render'[g].pc # "idle" <=> req'[g].pc = "page"
  <2>1. CASE g = h
    BY <1>1, <1>2, <1>4, <2>1 DEF PageTie
  <2>2. CASE g # h
    BY <1>1, <1>2, <1>4, <2>2 DEF PageTie
  <2>. QED
    BY <2>1, <2>2
<1>6. PageTie'
  BY <1>5 DEF PageTie
<1>7. (MainOK /\ ReqOK /\ RenderOK /\ PageTie => Typed)'
  BY TypedParts, PTL
<1>. QED
  BY <1>1, <1>2, <1>3, <1>6, <1>7, MainStays DEF IInv

-----------------------------------------------------------------------------
(* The rooms of a loaded configuration are there and have names. *)
LEMMA ValidRooms ==
  IInv /\ Loaded => /\ conf.rooms \in Seq(RoomConfig)
                    /\ \A i \in DOMAIN conf.rooms : conf.rooms[i].id # <<>>
<1>. SUFFICES ASSUME IInv, Loaded
              PROVE  /\ conf.rooms \in Seq(RoomConfig)
                     /\ \A i \in DOMAIN conf.rooms : conf.rooms[i].id # <<>>
  OBVIOUS
<1>1. conf \in Config
  BY TypedParts DEF IInv, MainOK
<1>2. Validate(conf)
  BY DEF IInv, Started
<1>. QED
  BY <1>1, <1>2 DEF Config, Validate, ValidRoom

(* A request is matched to a room there is. *)
LEMMA MatchInRooms ==
  ASSUME IInv, Loaded, NEW path, NEW host
  PROVE  Match(conf.rooms, path, host) \in RoomIds \cup {NoRoom}
<1>1. Chosen(conf.rooms, path, host, Match(conf.rooms, path, host))
  BY ValidRooms, MatchFacts
<1>. QED
  BY <1>1 DEF Chosen, RoomIds

(* A request arrives ... *)
LEMMA RequestIInv ==
  ASSUME IInv, NEW h \in Handlers, Request(h)
  PROVE  IInv'
<1>1. PICK path \in Paths, host \in Hosts :
        Goto(h, IF Match(conf.rooms, path, host) = NoRoom THEN "origin" ELSE "check",
             Match(conf.rooms, path, host))
  BY DEF Request
<1>2. PICK room, pc : /\ room = Match(conf.rooms, path, host)
                      /\ pc = IF room = NoRoom THEN "origin" ELSE "check"
  OBVIOUS
<1>3. Goto(h, pc, room)
  BY <1>1, <1>2
<1>4. phase = "running" /\ req[h].pc = "idle" /\ UNCHANGED <<phase, conf, next, worker, cacheVars>>
  BY DEF Request
<1>5. room \in RoomIds \cup {NoRoom}
  BY <1>2, <1>4, MatchInRooms DEF Loaded
<1>6. pc \in ReqPcs /\ pc # "page" /\ (pc = "check" => room \in RoomIds)
  BY <1>2, <1>5 DEF ReqPcs
<1>. QED
  BY <1>3, <1>4, <1>5, <1>6, WithoutPage

(* ... is let through, refused, served or answered ... *)
LEMMA AnswersIInv ==
  ASSUME IInv, NEW h \in Handlers, Allow(h) \/ Fail(h) \/ ServeOrigin(h) \/ Answer(h)
  PROVE  IInv'
<1>1. PICK pc \in {"origin", "idle", "proxied", "panicked"} : Goto(h, pc, NoRoom)
  BY DEF Allow, Fail, ServeOrigin, Answer
<1>2. /\ UNCHANGED <<phase, conf, next, worker, cacheVars>>
      /\ req[h].pc # "idle" /\ req[h].pc # "page"
  BY DEF Allow, Fail, ServeOrigin, Answer
<1>3. phase \in {"running", "stopping"}
  BY <1>2 DEF IInv, Serving
<1>4. pc \in ReqPcs /\ pc # "page" /\ pc # "check" /\ NoRoom \in RoomIds \cup {NoRoom}
  BY DEF ReqPcs
<1>. QED
  BY <1>1, <1>2, <1>3, <1>4, WithoutPage

(* ... or is queued, and its page is rendered. *)
LEMMA QueueIInv ==
  ASSUME IInv, NEW h \in Handlers, Queue(h)
  PROVE  IInv'
<1>1. /\ req[h].pc = "check" /\ RoomOf(req[h].room).enabled
      /\ BeginRender(h, RoomOf(req[h].room).custom)
      /\ Goto(h, "page", req[h].room) /\ UNCHANGED <<phase, conf, next, worker>>
  BY DEF Queue
<1>2. phase \in {"running", "stopping"} /\ req[h].room \in RoomIds
  BY <1>1 DEF IInv, Serving
<1>3. \E i \in DOMAIN conf.rooms : conf.rooms[i].enabled /\ conf.rooms[i].id = req[h].room
  <2>1. \E i \in DOMAIN conf.rooms : conf.rooms[i].id = req[h].room
    BY <1>2 DEF RoomIds
  <2>. QED
    BY <1>1, <2>1 DEF RoomOf
<1>4. ReqOK' /\ Serving' /\ req'[h].pc = "page" /\ \A g \in Handlers \ {h} : req'[g] = req[g]
  <2>1. "page" \in ReqPcs /\ "page" # "check"
    BY DEF ReqPcs
  <2>. QED
    BY <1>1, <1>2, <1>3, <2>1, RequestMoves
<1>5. PICK r \in RenderType : /\ render' = [render EXCEPT ![h] = r]
                              /\ r.pc \in {"lookup", "execute"}
                              /\ r.pc = "execute" => r.tmpl = "default"
  <2>1. [pc |-> "lookup", tmpl |-> "none"] \in RenderType
        /\ [pc |-> "execute", tmpl |-> "default"] \in RenderType
    BY DEF RenderType
  <2>. QED
    BY <1>1, <2>1 DEF BeginRender, Rendering
<1>6. RenderOK' /\ render'[h] = r /\ \A g \in Handlers \ {h} : render'[g] = render[g]
  <2>1. file' \in Templates \cup {"missing", "broken"} /\ tmplCache' \in Templates \cup {"none"}
    BY <1>1, TypedParts DEF BeginRender, IInv, RenderOK
  <2>2. r.pc = "store" => r.tmpl \in Templates
    BY <1>5
  <2>3. r.pc = "execute" => r.tmpl \in Templates \cup {"default"}
    BY <1>5
  <2>. QED
    BY <1>5, <2>1, <2>2, <2>3, RenderMoves
<1>7. PageTie'
  <2>1. PageTie
    BY TypedParts DEF IInv
  <2>2. ASSUME NEW g \in Handlers PROVE render'[g].pc # "idle" <=> req'[g].pc = "page"
    <3>1. CASE g = h
      BY <1>4, <1>5, <1>6, <3>1
    <3>2. CASE g # h
      BY <1>4, <1>6, <2>1, <3>2 DEF PageTie
    <3>. QED
      BY <3>1, <3>2
  <2>. QED
    BY <2>2 DEF PageTie
<1>8. (MainOK /\ ReqOK /\ RenderOK /\ PageTie => Typed)'
  BY TypedParts, PTL
<1>. QED
  BY <1>1, <1>4, <1>6, <1>7, <1>8, MainStays DEF IInv

-----------------------------------------------------------------------------
(* Pages, edits, and the end. *)
(* The renderer's four steps. *)
LEMMA RenderKind ==
  ASSUME IInv, NEW h \in Handlers, RenderStep(h)
  PROVE  /\ render[h].pc # "idle" /\ file' = file /\ tmplCache' \in Templates \cup {"none"}
         /\ \E r \in RenderType : /\ render' = [render EXCEPT ![h] = r]
                                  /\ r.pc = "store" => r.tmpl \in Templates
                                  /\ r.pc = "execute" => r.tmpl \in Templates \cup {"default"}
<1>1. RenderOK
  BY TypedParts DEF IInv
<1>2. \A t \in Templates \cup {"default", "none"},
         pc \in {"idle", "lookup", "read", "store", "execute"} :
        [pc |-> pc, tmpl |-> t] \in RenderType
  BY DEF RenderType
<1>3. CASE LookUp(h)
  <2>1. CASE tmplCache # "none"
    <3>1. [pc |-> "execute", tmpl |-> tmplCache] \in RenderType /\ tmplCache \in Templates
      BY <1>1, <1>2, <2>1 DEF RenderOK
    <3>. QED
      BY <1>1, <1>3, <2>1, <3>1 DEF LookUp, Rendering, RenderOK
  <2>2. CASE tmplCache = "none"
    <3>1. [pc |-> "read", tmpl |-> "none"] \in RenderType
      BY <1>2
    <3>. QED
      BY <1>1, <1>3, <2>2, <3>1 DEF LookUp, Rendering, RenderOK
  <2>. QED
    BY <2>1, <2>2
<1>4. CASE ReadAndParse(h)
  <2>1. CASE file \in Templates
    <3>1. [pc |-> "store", tmpl |-> file] \in RenderType
      BY <1>2, <2>1
    <3>. QED
      BY <1>1, <1>4, <2>1, <3>1 DEF ReadAndParse, Rendering, RenderOK
  <2>2. CASE file \notin Templates
    <3>1. [pc |-> "execute", tmpl |-> "default"] \in RenderType
      BY <1>2
    <3>. QED
      BY <1>1, <1>4, <2>2, <3>1 DEF ReadAndParse, Rendering, RenderOK
  <2>. QED
    BY <2>1, <2>2
<1>5. CASE StoreParsed(h)
  <2>1. render[h].pc = "store" /\ render[h].tmpl \in Templates
    BY <1>1, <1>5 DEF StoreParsed, RenderOK
  <2>2. [pc |-> "execute", tmpl |-> render[h].tmpl] \in RenderType
    BY <1>2, <2>1
  <2>. QED
    BY <1>5, <2>1, <2>2 DEF StoreParsed, Rendering
<1>6. CASE EndRender(h)
  <2>1. NoRender \in RenderType /\ NoRender.pc = "idle"
    BY <1>2 DEF NoRender
  <2>. QED
    BY <1>1, <1>6, <2>1 DEF EndRender, RenderOK
<1>. QED
  BY <1>3, <1>4, <1>5, <1>6 DEF RenderStep

(* A step of the renderer; the last one ends the request. *)
LEMMA RenderIInv ==
  ASSUME IInv, NEW h \in Handlers, Render(h)
  PROVE  IInv'
<1>1. /\ RenderStep(h) /\ UNCHANGED <<phase, conf, next, worker>>
      /\ IF render'[h].pc = "idle" THEN Goto(h, "idle", NoRoom) ELSE UNCHANGED req
  BY DEF Render
<1>2. ReqOK /\ RenderOK /\ PageTie /\ Serving
  BY TypedParts DEF IInv
<1>3. /\ render[h].pc # "idle" /\ file' = file /\ tmplCache' \in Templates \cup {"none"}
      /\ \E r \in RenderType : /\ render' = [render EXCEPT ![h] = r]
                               /\ r.pc = "store" => r.tmpl \in Templates
                               /\ r.pc = "execute" => r.tmpl \in Templates \cup {"default"}
  BY <1>1, RenderKind
<1>4. RenderOK' /\ \A g \in Handlers \ {h} : render'[g] = render[g]
  <2>1. PICK r \in RenderType : /\ render' = [render EXCEPT ![h] = r]
                                /\ r.pc = "store" => r.tmpl \in Templates
                                /\ r.pc = "execute" => r.tmpl \in Templates \cup {"default"}
    BY <1>3
  <2>2. file' \in Templates \cup {"missing", "broken"}
    BY <1>2, <1>3 DEF RenderOK
  <2>. QED
    BY <1>3, <2>1, <2>2, RenderMoves
<1>5. req[h].pc = "page"
  BY <1>2, <1>3 DEF PageTie
<1>6. phase \in {"running", "stopping"}
  BY <1>2, <1>5 DEF Serving
<1>7. ReqOK' /\ Serving' /\ PageTie'
  <2>1. CASE render'[h].pc = "idle"
    <3>1. "idle" \in ReqPcs /\ "idle" # "check" /\ "idle" # "page" /\ NoRoom \in RoomIds \cup {NoRoom}
      BY DEF ReqPcs
    <3>2. ReqOK' /\ Serving' /\ req'[h].pc = "idle" /\ \A g \in Handlers \ {h} : req'[g] = req[g]
      BY <1>1, <1>6, <2>1, <3>1, RequestMoves
    <3>3. ASSUME NEW g \in Handlers PROVE render'[g].pc # "idle" <=> req'[g].pc = "page"
      <4>1. CASE g = h
        BY <2>1, <3>2, <4>1
      <4>2. CASE g # h
        BY <1>2, <1>4, <3>2, <4>2 DEF PageTie
      <4>. QED
        BY <4>1, <4>2
    <3>. QED
      BY <3>2, <3>3 DEF PageTie
  <2>2. CASE render'[h].pc # "idle"
    <3>1. req' = req /\ phase' = phase /\ conf' = conf /\ RoomIds' = RoomIds
      BY <1>1, <2>2 DEF RoomIds
    <3>2. ReqOK' /\ Serving'
      BY <1>2, <3>1 DEF ReqOK, Serving
    <3>3. ASSUME NEW g \in Handlers PROVE render'[g].pc # "idle" <=> req'[g].pc = "page"
      <4>1. CASE g = h
        BY <1>5, <2>2, <3>1, <4>1
      <4>2. CASE g # h
        BY <1>2, <1>4, <3>1, <4>2 DEF PageTie
      <4>. QED
        BY <4>1, <4>2
    <3>. QED
      BY <3>2, <3>3 DEF PageTie
  <2>. QED
    BY <2>1, <2>2
<1>8. (MainOK /\ ReqOK /\ RenderOK /\ PageTie => Typed)'
  BY TypedParts, PTL
<1>. QED
  BY <1>1, <1>4, <1>7, <1>8, MainStays DEF IInv

(* The operator edits the template. *)
LEMMA EditIInv ==
  ASSUME IInv, EditTemplate
  PROVE  IInv'
<1>1. /\ UNCHANGED <<phase, conf, next, worker>> /\ req' = req /\ phase' = phase /\ conf' = conf
      /\ file' \in Templates \cup {"missing", "broken"} /\ tmplCache' = tmplCache /\ render' = render
  BY DEF EditTemplate, Edit
<1>2. ReqOK /\ RenderOK /\ PageTie /\ Serving
  BY TypedParts DEF IInv
<1>3. RoomIds' = RoomIds
  BY <1>1 DEF RoomIds
<1>4. ReqOK' /\ RenderOK' /\ PageTie' /\ Serving'
  BY <1>1, <1>2, <1>3 DEF ReqOK, RenderOK, PageTie, Serving
<1>5. (MainOK /\ ReqOK /\ RenderOK /\ PageTie => Typed)'
  BY TypedParts, PTL
<1>. QED
  BY <1>1, <1>4, <1>5, MainStays DEF IInv

(* Nothing happens. *)
LEMMA StutterIInv ==
  ASSUME IInv, UNCHANGED vars
  PROVE  IInv'
<1>1. /\ UNCHANGED <<phase, conf, next, worker>> /\ req' = req /\ phase' = phase /\ conf' = conf
      /\ file' = file /\ tmplCache' = tmplCache /\ render' = render
  BY DEF vars, cacheVars
<1>2. ReqOK /\ RenderOK /\ PageTie /\ Serving
  BY TypedParts DEF IInv
<1>3. RoomIds' = RoomIds
  BY <1>1 DEF RoomIds
<1>4. ReqOK' /\ RenderOK' /\ PageTie' /\ Serving'
  BY <1>1, <1>2, <1>3 DEF ReqOK, RenderOK, PageTie, Serving
<1>5. (MainOK /\ ReqOK /\ RenderOK /\ PageTie => Typed)'
  BY TypedParts, PTL
<1>. QED
  BY <1>1, <1>4, <1>5, MainStays DEF IInv

(* From one phase of a loaded server to a later one. *)
LEMMA PhaseMoves ==
  ASSUME IInv, Loaded, UNCHANGED <<conf, next, worker>>,
         phase' \in {"running", "stopping", "stopped", "aborted"},
         next = Len(conf.rooms) + 1,
         phase' = "running" => phase = "starting"
  PROVE  MainOK' /\ ConfigSafe' /\ Started' /\ RoomIds' = RoomIds
<1>1. conf' = conf /\ next' = next /\ worker' = worker /\ RoomIds' = RoomIds
  BY DEF RoomIds
<1>2. MainOK'
  BY <1>1, TypedParts DEF IInv, MainOK
<1>3. ConfigSafe'
  BY <1>1 DEF IInv, ConfigSafe, Loaded
<1>4. Started'
  BY <1>1 DEF IInv, Started, Loaded
<1>. QED
  BY <1>1, <1>2, <1>3, <1>4

(* The server listens, is signalled, or is done. *)
LEMMA ServerAdvances ==
  ASSUME IInv, Listen \/ Signal \/ ShutdownDone
  PROVE  IInv'
<1>1. /\ UNCHANGED <<conf, next, worker>> /\ req' = req /\ conf' = conf
      /\ file' = file /\ tmplCache' = tmplCache /\ render' = render
  BY DEF Listen, Signal, ShutdownDone, cacheVars
<1>2. ReqOK /\ RenderOK /\ PageTie /\ Serving /\ MainOK /\ Started
  BY TypedParts DEF IInv
<1>3. /\ Loaded /\ phase' \in {"running", "stopping", "stopped", "aborted"}
      /\ phase' = "running" => phase = "starting"
  BY DEF Listen, Signal, ShutdownDone, Loaded
<1>4. next = Len(conf.rooms) + 1
  <2>1. Len(conf.rooms) \in Nat
    BY <1>2 DEF MainOK, Config
  <2>2. CASE Listen
    BY <1>2, <2>1, <2>2 DEF Listen, MainOK
  <2>3. CASE Signal \/ ShutdownDone
    BY <1>2, <1>3, <2>3 DEF Started, Signal, ShutdownDone
  <2>. QED
    BY <2>2, <2>3
<1>5. MainOK' /\ ConfigSafe' /\ Started' /\ RoomIds' = RoomIds
  BY <1>1, <1>3, <1>4, PhaseMoves
<1>6. \A h \in Handlers : req'[h].pc # "idle" => phase' \in {"running", "stopping"}
  <2>1. CASE Listen
    BY <1>1, <1>2, <2>1 DEF Listen, Serving
  <2>2. CASE Signal
    BY <2>2 DEF Signal
  <2>3. CASE ShutdownDone
    BY <1>1, <2>3 DEF ShutdownDone, InFlight
  <2>. QED
    BY <2>1, <2>2, <2>3
<1>7. ReqOK' /\ RenderOK' /\ PageTie' /\ Serving'
  BY <1>1, <1>2, <1>5, <1>6 DEF ReqOK, RenderOK, PageTie, Serving
<1>8. (MainOK /\ ReqOK /\ RenderOK /\ PageTie => Typed)'
  BY TypedParts, PTL
<1>. QED
  BY <1>5, <1>7, <1>8 DEF IInv

(* The process exits with whatever is in flight. *)
LEMMA AbortIInv ==
  ASSUME IInv, ListenFails \/ ShutdownTimesOut
  PROVE  IInv'
<1>1. /\ phase \in {"running", "stopping"} /\ phase' = "aborted"
      /\ UNCHANGED <<conf, next, worker>> /\ file' = file /\ tmplCache' = tmplCache
      /\ req' = [h \in Handlers |-> NoRequest] /\ render' = [h \in Handlers |-> NoRender]
  BY DEF ListenFails, ShutdownTimesOut, Abort
<1>2. RenderOK /\ Started
  BY TypedParts DEF IInv
<1>3. MainOK' /\ ConfigSafe' /\ Started' /\ RoomIds' = RoomIds
  <2>1. Loaded /\ next = Len(conf.rooms) + 1
    BY <1>1, <1>2 DEF Loaded, Started
  <2>. QED
    BY <1>1, <2>1, PhaseMoves
<1>4. ReqOK' /\ Serving'
  BY <1>1 DEF ReqOK, Serving, NoRequest, ReqPcs
<1>5. RenderOK' /\ PageTie'
  BY <1>1, <1>2 DEF RenderOK, PageTie, NoRender, NoRequest, RenderType
<1>6. (MainOK /\ ReqOK /\ RenderOK /\ PageTie => Typed)'
  BY TypedParts, PTL
<1>. QED
  BY <1>3, <1>4, <1>5, <1>6 DEF IInv

-----------------------------------------------------------------------------
(* What Load rejects is wrong and what it accepts is not. *)
LEMMA Judged ==
  ASSUME NEW c \in Config, NEW d, d = ApplyDefaults(c)
  PROVE  /\ Validate(d) => /\ ~ Invalid(d)
                           /\ \A i \in DOMAIN d.rooms :
                                LET r == d.rooms[i]
                                IN  /\ {r.rate, r.limit, r.minutes} \subseteq Nat \ {0}
                                    /\ r.method \in {"fifo", "random"}
         /\ ~ Validate(d) => Invalid(d)
<1>1. /\ d \in Config
      /\ \A i \in DOMAIN d.rooms :
           /\ d.rooms[i].rate # 0 /\ d.rooms[i].limit # 0 /\ d.rooms[i].minutes # 0
           /\ d.rooms[i].method # ""
  BY DefaultsFacts
<1>2. d.rooms \in Seq(RoomConfig) /\ d.secretLen \in Nat
  BY <1>1 DEF Config
<1>3. PICK n \in Nat : DOMAIN d.rooms = 1..n
  BY <1>2, SeqShape
<1>4. \A i \in 1..n : d.rooms[i] \in RoomConfig
  BY <1>2, <1>3
<1>5. \A i \in 1..n : /\ d.rooms[i].rate \in Int /\ d.rooms[i].limit \in Int
                      /\ d.rooms[i].minutes \in Int
                      /\ d.rooms[i].rate # 0 /\ d.rooms[i].limit # 0 /\ d.rooms[i].minutes # 0
                      /\ d.rooms[i].method # ""
  BY <1>1, <1>3, <1>4, RoomConfigFacts
<1>6. /\ \A x \in Int : x # 0 => (x < 0 <=> ~ (x > 0)) /\ (x > 0 => x \in Nat \ {0})
      /\ \A x \in Nat : x < 32 <=> ~ (x >= 32)
  OBVIOUS
<1>7. ASSUME Validate(d)
      PROVE  /\ ~ Invalid(d)
             /\ \A i \in DOMAIN d.rooms :
                  /\ {d.rooms[i].rate, d.rooms[i].limit, d.rooms[i].minutes} \subseteq Nat \ {0}
                  /\ d.rooms[i].method \in {"fifo", "random"}
  <2>1. d.secretLen >= 32 /\ (d.redisEnabled => d.redisAddr)
    BY <1>7 DEF Validate, ValidServer, MinSecretLen
  <2>2. \A i \in 1..n : ValidRoom(d.rooms[i])
    BY <1>3, <1>7 DEF Validate
  <2>3. \A i, j \in 1..n : d.rooms[i].id = d.rooms[j].id => i = j
    BY <1>3, <1>7 DEF Validate
  <2>4. \A i \in 1..n : /\ d.rooms[i].rate > 0 /\ d.rooms[i].limit > 0 /\ d.rooms[i].minutes > 0
                        /\ d.rooms[i].method \in {"fifo", "random"}
                        /\ d.rooms[i].id # <<>> /\ (d.rooms[i].path # <<>> \/ d.rooms[i].glob)
    BY <2>2 DEF ValidRoom
  <2>5. ~ Invalid(d)
    <3>1. ~ (d.secretLen < 32)
      BY <1>2, <2>1
    <3>2. \A i \in 1..n : \A j \in 1..(i - 1) : d.rooms[j].id # d.rooms[i].id
      BY <2>3
    <3>3. ASSUME NEW i \in 1..n, NEW f \in {"rate", "limit", "minutes"} PROVE ~ (d.rooms[i][f] < 0)
      <4>1. /\ ~ (d.rooms[i].rate < 0) /\ ~ (d.rooms[i].limit < 0)
            /\ ~ (d.rooms[i].minutes < 0)
        BY <1>5, <1>6, <2>4
      <4>. QED
        BY <4>1
    <3>. QED
      BY <1>3, <2>1, <2>4, <3>1, <3>2, <3>3 DEF Invalid
  <2>6. \A i \in 1..n : d.rooms[i].rate \in Nat \ {0} /\ d.rooms[i].limit \in Nat \ {0}
                        /\ d.rooms[i].minutes \in Nat \ {0}
    BY <1>5, <1>6, <2>4
  <2>. QED
    BY <1>3, <2>4, <2>5, <2>6
<1>8. ASSUME ~ Validate(d) PROVE Invalid(d)
  <2>1. CASE ~ ValidServer(d)
    BY <1>2, <1>6, <2>1 DEF ValidServer, MinSecretLen, Invalid
  <2>2. CASE \E i \in 1..n : ~ ValidRoom(d.rooms[i])
    <3>1. PICK i \in 1..n : ~ ValidRoom(d.rooms[i])
      BY <2>2
    <3>2. \/ d.rooms[i].id = <<>> \/ (d.rooms[i].path = <<>> /\ ~ d.rooms[i].glob)
          \/ d.rooms[i].rate < 0 \/ d.rooms[i].limit < 0 \/ d.rooms[i].minutes < 0
          \/ d.rooms[i].method \notin {"", "fifo", "random"}
      BY <1>5, <1>6, <3>1 DEF ValidRoom
    <3>3. \/ d.rooms[i].id = <<>> \/ (d.rooms[i].path = <<>> /\ ~ d.rooms[i].glob)
          \/ \E f \in {"rate", "limit", "minutes"} : d.rooms[i][f] < 0
          \/ d.rooms[i].method \notin {"", "fifo", "random"}
      BY <3>2
    <3>. QED
      BY <1>3, <3>3 DEF Invalid
  <2>3. CASE \E i, j \in 1..n : d.rooms[i].id = d.rooms[j].id /\ i # j
    <3>1. PICK i \in 1..n, j \in 1..n : d.rooms[j].id = d.rooms[i].id /\ j < i
      BY <2>3
    <3>2. j \in 1..(i - 1)
      BY <3>1
    <3>. QED
      BY <1>3, <3>1, <3>2 DEF Invalid
  <2>. QED
    BY <1>3, <1>8, <2>1, <2>2, <2>3 DEF Validate
<1>. QED
  BY <1>7, <1>8

(* Load judges the configuration with its defaults. *)
LEMMA LoadIInv ==
  ASSUME IInv, Load
  PROVE  IInv'
<1>1. /\ phase = "loading" /\ conf' = ApplyDefaults(conf)
      /\ phase' = IF Validate(conf') THEN "starting" ELSE "rejected"
      /\ next' = next /\ worker' = worker /\ req' = req
      /\ file' = file /\ tmplCache' = tmplCache /\ render' = render
  BY DEF Load, cacheVars
<1>2. MainOK /\ ReqOK /\ RenderOK /\ PageTie /\ Serving /\ Started
  BY TypedParts DEF IInv
<1>3. /\ conf' \in Config /\ Len(conf'.rooms) = Len(conf.rooms)
      /\ DOMAIN conf'.rooms = DOMAIN conf.rooms
      /\ \A i \in DOMAIN conf.rooms : conf'.rooms[i].id = conf.rooms[i].id
  BY <1>1, <1>2, DefaultsFacts DEF MainOK
<1>4. RoomIds' = RoomIds
  BY <1>3 DEF RoomIds
<1>5. phase' \in {"starting", "rejected"}
  BY <1>1
<1>6. MainOK'
  BY <1>1, <1>2, <1>3, <1>4, <1>5 DEF MainOK
<1>7. next = 1 /\ \A h \in Handlers : req[h].pc = "idle"
  BY <1>1, <1>2 DEF Started, Serving
<1>8. ReqOK' /\ RenderOK' /\ PageTie' /\ Serving'
  BY <1>1, <1>2, <1>4, <1>7 DEF ReqOK, RenderOK, PageTie, Serving
<1>9. /\ phase' = "rejected" => Invalid(conf')
      /\ phase' = "starting" =>
           /\ Validate(conf') /\ ~ Invalid(conf')
           /\ \A i \in DOMAIN conf'.rooms :
                LET r == conf'.rooms[i]
                IN  /\ {r.rate, r.limit, r.minutes} \subseteq Nat \ {0}
                    /\ r.method \in {"fifo", "random"}
  BY <1>1, <1>2, Judged DEF MainOK
<1>10. ConfigSafe'
  BY <1>5, <1>9 DEF ConfigSafe
<1>11. Started'
  <2>1. Len(conf'.rooms) \in Nat /\ DOMAIN conf'.rooms = 1..Len(conf'.rooms)
    BY <1>3, SeqShape DEF Config
  <2>2. \A i \in DOMAIN conf'.rooms : ~ (i < 1)
    BY <2>1
  <2>. QED
    BY <1>1, <1>5, <1>7, <1>9, <2>2 DEF Started, Loaded
<1>12. (MainOK /\ ReqOK /\ RenderOK /\ PageTie => Typed)'
  BY TypedParts, PTL
<1>. QED
  BY <1>6, <1>8, <1>10, <1>11, <1>12 DEF IInv

(* Where only the workers move. *)
LEMMA WorkersMove ==
  ASSUME IInv, UNCHANGED <<phase, conf, req, cacheVars>>,
         next' \in 1..Len(conf.rooms) + 1,
         worker' \in [RoomIds -> {"none", "running", "stopped"}],
         Started'
  PROVE  IInv'
<1>1. /\ req' = req /\ phase' = phase /\ conf' = conf
      /\ file' = file /\ tmplCache' = tmplCache /\ render' = render
  BY DEF cacheVars
<1>2. MainOK /\ ReqOK /\ RenderOK /\ PageTie /\ Serving /\ ConfigSafe
  BY TypedParts DEF IInv
<1>3. RoomIds' = RoomIds
  BY <1>1 DEF RoomIds
<1>4. MainOK'
  BY <1>1, <1>2, <1>3 DEF MainOK
<1>5. ReqOK' /\ RenderOK' /\ PageTie' /\ Serving'
  BY <1>1, <1>2, <1>3 DEF ReqOK, RenderOK, PageTie, Serving
<1>6. ConfigSafe'
  BY <1>1, <1>2 DEF ConfigSafe
<1>7. (MainOK /\ ReqOK /\ RenderOK /\ PageTie => Typed)'
  BY TypedParts, PTL
<1>. QED
  BY <1>4, <1>5, <1>6, <1>7 DEF IInv

(* The next room's worker is started ... *)
LEMMA StartWorkerIInv ==
  ASSUME IInv, StartWorker
  PROVE  IInv'
<1>1. /\ phase = "starting" /\ next <= Len(conf.rooms) /\ next' = next + 1
      /\ worker' = IF conf.rooms[next].enabled
                     THEN [worker EXCEPT ![conf.rooms[next].id] = "running"] ELSE worker
      /\ UNCHANGED <<phase, conf, req, cacheVars>> /\ phase' = phase /\ conf' = conf
  BY DEF StartWorker
<1>2. MainOK /\ Started
  BY TypedParts DEF IInv
<1>3. PICK n \in Nat : Len(conf.rooms) = n /\ DOMAIN conf.rooms = 1..n
  BY <1>2, SeqShape DEF MainOK, Config
<1>4. next \in 1..n /\ next' \in 1..Len(conf.rooms) + 1
  BY <1>1, <1>2, <1>3 DEF MainOK
<1>5. conf.rooms[next].id \in RoomIds
  BY <1>3, <1>4 DEF RoomIds
<1>6. worker' \in [RoomIds -> {"none", "running", "stopped"}]
  BY <1>1, <1>2, <1>5 DEF MainOK
<1>7. \A i \in 1..n : conf.rooms[i].id \in RoomIds
  BY <1>3 DEF RoomIds
<1>8. ASSUME NEW i \in 1..n, conf.rooms[i].enabled, i < next + 1
      PROVE  worker'[conf.rooms[i].id] = "running"
  <2>1. CASE conf.rooms[i].id = conf.rooms[next].id /\ conf.rooms[next].enabled
    BY <1>1, <1>2, <1>5, <2>1 DEF MainOK
  <2>2. CASE ~ (conf.rooms[i].id = conf.rooms[next].id /\ conf.rooms[next].enabled)
    <3>1. i < next
      BY <1>4, <1>8, <2>2
    <3>2. worker[conf.rooms[i].id] = "running"
      BY <1>1, <1>2, <1>3, <1>8, <3>1 DEF Started, Loaded
    <3>. QED
      BY <1>1, <1>2, <1>5, <1>7, <2>2, <3>2 DEF MainOK
  <2>. QED
    BY <2>1, <2>2
<1>9. Started'
  BY <1>1, <1>2, <1>3, <1>8 DEF Started, Loaded
<1>. QED
  BY <1>1, <1>4, <1>6, <1>9, WorkersMove

(* ... and stops after a signal. *)
LEMMA WorkerStopsIInv ==
  ASSUME IInv, NEW id \in RoomIds, WorkerStops(id)
  PROVE  IInv'
<1>1. /\ phase = "stopping" /\ worker' = [worker EXCEPT ![id] = "stopped"]
      /\ next' = next /\ UNCHANGED <<phase, conf, req, cacheVars>> /\ phase' = phase /\ conf' = conf
  BY DEF WorkerStops
<1>2. MainOK /\ Started
  BY TypedParts DEF IInv
<1>3. /\ next' \in 1..Len(conf.rooms) + 1
      /\ worker' \in [RoomIds -> {"none", "running", "stopped"}]
  BY <1>1, <1>2 DEF MainOK
<1>4. \A k \in RoomIds : worker'[k] \in {worker[k], "stopped"}
  BY <1>1, <1>2 DEF MainOK
<1>5. \A i \in DOMAIN conf.rooms : conf.rooms[i].id \in RoomIds
  BY DEF RoomIds
<1>6. Started'
  BY <1>1, <1>2, <1>4, <1>5 DEF Started, Loaded
<1>. QED
  BY <1>1, <1>3, <1>6, WorkersMove

(* The invariant is inductive. *)
LEMMA StepIInv == IInv /\ [Next]_vars => IInv'
<1>. SUFFICES ASSUME IInv, [Next]_vars PROVE IInv'
  OBVIOUS
<1>1. CASE Load
  BY <1>1, LoadIInv
<1>2. CASE StartWorker
  BY <1>2, StartWorkerIInv
<1>3. CASE Listen \/ Signal \/ ShutdownDone
  BY <1>3, ServerAdvances
<1>4. CASE ListenFails \/ ShutdownTimesOut
  BY <1>4, AbortIInv
<1>5. CASE EditTemplate
  BY <1>5, EditIInv
<1>6. CASE \E id \in RoomIds : WorkerStops(id)
  BY <1>6, WorkerStopsIInv
<1>7. ASSUME NEW h \in Handlers,
             \/ Request(h) \/ Allow(h) \/ Fail(h) \/ Queue(h)
             \/ Render(h) \/ ServeOrigin(h) \/ Answer(h)
      PROVE  IInv'
  <2>1. CASE Request(h)
    BY <2>1, RequestIInv
  <2>2. CASE Allow(h) \/ Fail(h) \/ ServeOrigin(h) \/ Answer(h)
    BY <2>2, AnswersIInv
  <2>3. CASE Queue(h)
    BY <2>3, QueueIInv
  <2>4. CASE Render(h)
    BY <2>4, RenderIInv
  <2>. QED
    BY <1>7, <2>1, <2>2, <2>3, <2>4
<1>8. CASE UNCHANGED vars
  BY <1>8, StutterIInv
<1>. QED
  BY <1>1, <1>2, <1>3, <1>4, <1>5, <1>6, <1>7, <1>8 DEF Next

(* It holds throughout. *)
LEMMA Inductive == Spec => []IInv
<1>. QED
  BY InitIInv, StepIInv, PTL DEF Spec

-----------------------------------------------------------------------------
(* What follows from the invariant. *)
(* The matcher, on the rooms that are served. *)
LEMMA RoomOfHost ==
  IInv => MatchMostSpecific
<1>. SUFFICES ASSUME IInv, phase = "starting", NEW path \in Paths, NEW host \in Hosts
              PROVE  Chosen(conf.rooms, path, host, Match(conf.rooms, path, host))
  BY DEF MatchMostSpecific, Chosen
<1>. QED
  BY ValidRooms, MatchFacts DEF Loaded

(* The codec, on the ids that are served. *)
LEMMA Recognised ==
  IInv => CodecExact
<1>. SUFFICES ASSUME IInv, phase = "starting",
                     NEW room \in RoomIds, NEW status \in {"queued", "active"},
                     NEW exp \in 1..2, NEW now \in 0..3
              PROVE  Verify(Sign(Payload("id", room, status, 0, exp)), now) =
                       IF Len(room) > 1 THEN Rejected
                       ELSE IF now > exp THEN Expired ELSE Payload("id", room, status, 0, exp)
  BY DEF CodecExact
<1>1. room \in Seq(STRING) /\ room # <<>>
  <2>1. PICK i \in DOMAIN conf.rooms : room = conf.rooms[i].id
    BY DEF RoomIds
  <2>2. conf.rooms[i] \in RoomConfig /\ conf.rooms[i].id # <<>>
    BY ValidRooms, SeqShape DEF Loaded
  <2>. QED
    BY <2>1, <2>2, RoomConfigFacts
<1>2. now \in Int /\ exp \in Int
  OBVIOUS
<1>. QED
  BY <1>1, <1>2, CodecFacts

(* A queued request's room is enabled, and its worker was started. *)
LEMMA WorkerOfQueue ==
  IInv => QueueHasWorker
<1>. SUFFICES ASSUME IInv, NEW h \in Handlers, req[h].pc = "page"
              PROVE  worker[req[h].room] \in (IF phase = "running" THEN {"running"}
                                              ELSE {"running", "stopped"})
  BY DEF QueueHasWorker
<1>1. phase \in {"running", "stopping"}
  BY DEF IInv, Serving
<1>2. PICK i \in DOMAIN conf.rooms : conf.rooms[i].enabled /\ conf.rooms[i].id = req[h].room
  BY DEF IInv, Serving
<1>3. MainOK
  BY TypedParts DEF IInv
<1>4. i < next
  BY <1>1, <1>3, SeqShape DEF IInv, Started, Loaded, MainOK, Config
<1>. QED
  BY <1>1, <1>2, <1>4 DEF IInv, Started, Loaded

(* One step of the renderer, of the operator, or of a process that exits. *)
CacheStep ==
  Settled => /\ Settled' /\ tmplCache' = tmplCache
             /\ \A h \in Handlers : render[h].pc = "lookup" =>
                  render'[h] \in {render[h], NoRender, [pc |-> "execute", tmpl |-> tmplCache]}

(* A renderer that is past the race does not unsettle the cache. *)
LEMMA SetRender ==
  ASSUME RenderOK, Settled, UNCHANGED tmplCache, NEW h \in Handlers, NEW r,
         render' = [render EXCEPT ![h] = r], r.pc \notin {"read", "store"},
         render[h].pc = "lookup" => r = [pc |-> "execute", tmpl |-> tmplCache]
  PROVE  CacheStep
<1>1. /\ render'[h] = r /\ \A g \in Handlers \ {h} : render'[g] = render[g]
  BY DEF RenderOK
<1>2. Settled'
  BY <1>1 DEF Settled
<1>3. \A g \in Handlers : render[g].pc = "lookup" =>
        render'[g] \in {render[g], NoRender, [pc |-> "execute", tmpl |-> tmplCache]}
  BY <1>1
<1>. QED
  BY <1>2, <1>3 DEF CacheStep

(* Of all steps, only the renderer's own could touch the cache. *)
LEMMA StepCache == IInv /\ [Next]_vars => [CacheStep]_cacheVars
<1>. SUFFICES ASSUME IInv, [Next]_vars, Settled PROVE cacheVars' = cacheVars \/ CacheStep
  BY DEF CacheStep
<1>1. RenderOK
  BY TypedParts DEF IInv
<1>2. CASE UNCHANGED cacheVars
  BY <1>2
<1>3. CASE Load \/ StartWorker \/ Listen \/ Signal \/ ShutdownDone \/ UNCHANGED vars
           \/ \E id \in RoomIds : WorkerStops(id)
  BY <1>3 DEF Load, StartWorker, Listen, Signal, ShutdownDone, vars, WorkerStops, cacheVars
<1>4. CASE \E h \in Handlers : Request(h) \/ Allow(h) \/ Fail(h) \/ ServeOrigin(h) \/ Answer(h)
  BY <1>4 DEF Request, Allow, Fail, ServeOrigin, Answer, cacheVars
<1>5. CASE ListenFails \/ ShutdownTimesOut
  <2>1. tmplCache' = tmplCache /\ render' = [h \in Handlers |-> NoRender]
    BY <1>5 DEF ListenFails, ShutdownTimesOut, Abort
  <2>. QED
    BY <2>1 DEF CacheStep, Settled, NoRender
<1>6. CASE EditTemplate
  BY <1>6 DEF EditTemplate, Edit, CacheStep, Settled
<1>7. ASSUME NEW h \in Handlers, Queue(h) PROVE CacheStep
  <2>1. /\ render[h].pc = "idle" /\ tmplCache' = tmplCache
        /\ \E r : /\ render' = [render EXCEPT ![h] = r]
                  /\ r.pc \notin {"read", "store"}
    BY <1>7 DEF Queue, BeginRender, Rendering
  <2>. QED
    BY <1>1, <2>1, SetRender
<1>8. ASSUME NEW h \in Handlers, Render(h) PROVE CacheStep
  <2>1. CASE LookUp(h)
    <3>1. PICK r : r = [pc |-> "execute", tmpl |-> tmplCache]
      OBVIOUS
    <3>2. tmplCache' = tmplCache /\ render' = [render EXCEPT ![h] = r] /\ r.pc \notin {"read", "store"}
      BY <2>1, <3>1 DEF LookUp, Rendering, Settled
    <3>. QED
      BY <1>1, <3>1, <3>2, SetRender
  <2>2. CASE ReadAndParse(h) \/ StoreParsed(h)
    BY <2>2 DEF ReadAndParse, StoreParsed, Settled
  <2>3. CASE EndRender(h)
    <3>1. /\ render[h].pc # "lookup" /\ tmplCache' = tmplCache
          /\ render' = [render EXCEPT ![h] = NoRender] /\ NoRender.pc \notin {"read", "store"}
      BY <2>3 DEF EndRender, NoRender
    <3>. QED
      BY <1>1, <3>1, SetRender
  <2>. QED
    BY <1>8, <2>1, <2>2, <2>3 DEF Render, RenderStep
<1>. QED
  BY <1>3, <1>4, <1>5, <1>6, <1>7, <1>8 DEF Next

-----------------------------------------------------------------------------
(* The types of main's, the handlers' and the renderer's state             *)
(* (main.go, handler.go, page.go).                                         *)
THEOREM TypeCorrect == Spec => []TypeOK
<1>1. IInv => TypeOK
  BY DEF IInv, Typed
<1>. QED
  BY <1>1, Inductive, PTL

(* What config.Load lets through meets what the other modules assume, and  *)
(* nothing is rejected without a reason (config.go:75-159).                *)
THEOREM ConfigServed == Spec => []ConfigSafe
<1>1. IInv => ConfigSafe
  BY DEF IInv
<1>. QED
  BY <1>1, Inductive, PTL

(* Every request is matched to a most specific room                        *)
(* (middleware.go:240-299).                                                *)
THEOREM MostSpecificRoom == Spec => []MatchMostSpecific
  BY RoomOfHost, Inductive, PTL

(* A room's cookies are recognised exactly when its id has no separator,   *)
(* to the second of their expiry (signer.go:75-123).                       *)
THEOREM CodecRoundTrip == Spec => []CodecExact
  BY Recognised, Inductive, PTL

(* Whoever is shown the waiting page waits for a worker that runs          *)
(* (main.go:148-158, middleware.go:232-235).                               *)
THEOREM QueuedHaveWorker == Spec => []QueueHasWorker
  BY WorkerOfQueue, Inductive, PTL

(* Once the racing parsers are done, the cached template stays, and who    *)
(* looks it up is shown it (page.go:72-102).                               *)
THEOREM CacheAlwaysSettles == Spec => CacheSettles
<1>1. Spec => [][CacheStep]_cacheVars
  BY StepCache, Inductive, PTL DEF Spec
<1>. QED
  BY <1>1 DEF CacheSettles, CacheStep
=============================================================================
