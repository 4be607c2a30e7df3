----------------------------- MODULE Recursion -----------------------------
(***************************************************************************)
(* Facts about functions that are defined by recursion over numbers, for   *)
(* the proofs about them: that there is such a function, and that what     *)
(* each step preserves holds of all of its values.                         *)
(***************************************************************************)
EXTENDS Integers, Sequences, WellFoundedInduction, TLAPS

\* Every set of natural numbers that is not empty has a least element.
LEMMA LeastElement ==
  ASSUME NEW T \in SUBSET Nat, T # {}
  PROVE  \E m \in T : \A k \in T : m <= k
<1>. DEFINE Less == {ss \in Nat \X Nat : ss[1] < ss[2]}
<1>1. IsWellFoundedOn(Less, Nat)
  BY NatLessThanWellFounded, Zenon DEF OpToRel
<1>2. \A k, m \in Nat : k < m => <<k, m>> \in Less
  OBVIOUS
<1>. HIDE DEF Less
<1>3. PICK m \in T : \A k \in T : ~(<<k, m>> \in Less)
  BY <1>1, WFMin
<1>4. \A k \in T : ~(k < m)
  BY <1>2, <1>3
<1>. QED
  BY <1>4

\* What holds of 0, and of n if of n - 1, holds up to any bound.
LEMMA UpToBound ==
  ASSUME NEW N \in Nat, NEW T, 0 \in T, \A n \in 1..N : n - 1 \in T => n \in T
  PROVE  0..N \subseteq T
<1>. DEFINE rest == (0..N) \ T
<1>. SUFFICES ASSUME rest # {} PROVE FALSE
  OBVIOUS
<1>1. rest \in SUBSET Nat
  OBVIOUS
<1>. HIDE DEF rest
<1>2. PICK m \in rest : \A k \in rest : m <= k
  BY <1>1, LeastElement
<1>. USE DEF rest
<1>3. m \in 1..N /\ m - 1 \in 0..N /\ m - 1 \in T
  BY <1>2
<1>. QED
  BY <1>2, <1>3

\* A sequence of results exists, each computed from the one before it.
AreResults(f, N, S, a, next) ==
  f \in [0..N -> S] /\ f[0] = a /\ \A n \in 1..N : f[n] = next[<<n, f[n - 1]>>]

LEMMA ResultsExist ==
  ASSUME NEW N \in Nat, NEW S, NEW a \in S, NEW next \in [(1..N) \X S -> S]
  PROVE  \E f : AreResults(f, N, S, a, next)
<1>. DEFINE IsUpTo(f, m) == f[0] = a /\ \A n \in 1..m : f[n] = next[<<n, f[n - 1]>>]
            T == {m \in 0..N : \E f \in [0..m -> S] : IsUpTo(f, m)}
<1>1. 0 \in T
  <2>. DEFINE f == [n \in 0..0 |-> a]
  <2>1. f \in [0..0 -> S] /\ f[0] = a
    OBVIOUS
  <2>. HIDE DEF f
  <2>2. IsUpTo(f, 0)
    BY <2>1
  <2>. QED
    BY <2>1, <2>2
<1>2. ASSUME NEW m \in 1..N, m - 1 \in T PROVE m \in T
  <2>1. PICK f \in [0..m - 1 -> S] : IsUpTo(f, m - 1)
    BY <1>2
  <2>. DEFINE g == [n \in 0..m |-> IF n = m THEN next[<<m, f[m - 1]>>] ELSE f[n]]
  <2>2. next[<<m, f[m - 1]>>] \in S
    BY <2>1
  <2>3. g \in [0..m -> S]
    BY <2>2
  <2>4. /\ g[0] = a /\ g[m] = next[<<m, f[m - 1]>>] /\ \A n \in 0..m - 1 : g[n] = f[n]
    BY <2>1
  <2>. HIDE DEF g
  <2>5. g[0] = a
    BY <2>4
  <2>6. ASSUME NEW n \in 1..m PROVE g[n] = next[<<n, g[n - 1]>>]
    <3>1. CASE n = m
      <4>1. g[n - 1] = f[m - 1]
        BY <2>4, <3>1
      <4>. QED
        BY <2>4, <3>1, <4>1
    <3>2. CASE n # m
      <4>1. n \in 1..m - 1 /\ n \in 0..m - 1 /\ n - 1 \in 0..m - 1
        BY <3>2
      <4>. QED
        BY <2>1, <2>4, <4>1
    <3>. QED
      BY <3>1, <3>2
  <2>. QED
    BY <2>3, <2>5, <2>6
<1>. HIDE DEF T
<1>3. N \in T
  BY <1>1, <1>2, UpToBound
<1>. QED
  BY <1>3 DEF T, AreResults

(***************************************************************************)
(* Paths.  A path goes from an index of the heap to the next one until it  *)
(* comes to one that is its own next; a rank that falls on the way bounds  *)
(* it, so there is such a path from every index, and it meets none twice.  *)
(***************************************************************************)
RankFalls(I, N, next, rank) ==
  /\ N \in Nat /\ next \in [I -> I] /\ rank \in [I -> 0..N]
  /\ \A i \in I : next[i] # i => rank[next[i]] < rank[i]

ArePathsOf(f, I, next) ==
  f = [i \in I |-> IF next[i] = i THEN <<i>> ELSE <<i>> \o f[next[i]]]

LEMMA PathsExist ==
  ASSUME NEW I, NEW N, NEW next, NEW rank, RankFalls(I, N, next, rank)
  PROVE  \E f : ArePathsOf(f, I, next)
<1>. DEFINE D(k) == {i \in I : rank[i] < k}
            T    == {k \in 0..N + 1 :
                       \E f : f = [i \in D(k) |->
                                    IF next[i] = i THEN <<i>> ELSE <<i>> \o f[next[i]]]}
<1>1. /\ N \in Nat /\ N + 1 \in Nat /\ next \in [I -> I] /\ rank \in [I -> 0..N]
      /\ \A i \in I : next[i] # i => rank[next[i]] < rank[i]
  BY DEF RankFalls
<1>2. 0 \in T
  <2>1. D(0) = {} /\ 0 \in 0..N + 1
    BY <1>1
  <2>. DEFINE f == [i \in {} |-> <<>>]
  <2>2. f = [i \in D(0) |-> IF next[i] = i THEN <<i>> ELSE <<i>> \o f[next[i]]]
    BY <2>1
  <2>. QED
    BY <2>1, <2>2
<1>3. ASSUME NEW k \in 1..N + 1, k - 1 \in T PROVE k \in T
  <2>1. PICK f : f = [i \in D(k - 1) |-> IF next[i] = i THEN <<i>> ELSE <<i>> \o f[next[i]]]
    BY <1>3
  <2>2. \A i \in D(k - 1) : f[i] = IF next[i] = i THEN <<i>> ELSE <<i>> \o f[next[i]]
    BY <2>1, Zenon
  <2>3. /\ k \in 0..N + 1 /\ D(k - 1) \subseteq D(k)
        /\ \A i \in D(k) : next[i] # i => next[i] \in D(k - 1)
    BY <1>1
  <2>. DEFINE g == [i \in D(k) |-> IF next[i] = i THEN <<i>> ELSE <<i>> \o f[next[i]]]
  <2>. HIDE DEF D
  <2>4. DOMAIN g = D(k) /\ g = [i \in D(k) |-> g[i]]
        /\ \A i \in D(k) : g[i] = IF next[i] = i THEN <<i>> ELSE <<i>> \o f[next[i]]
    OBVIOUS
  <2>. HIDE DEF g
  <2>5. \A i \in D(k - 1) : g[i] = f[i]
    BY <2>2, <2>3, <2>4
  <2>6. \A i \in D(k) : g[i] = IF next[i] = i THEN <<i>> ELSE <<i>> \o g[next[i]]
    BY <2>3, <2>4, <2>5
  <2>7. g = [i \in D(k) |-> IF next[i] = i THEN <<i>> ELSE <<i>> \o g[next[i]]]
    BY <2>4, <2>6
  <2>8. \E h : h = [i \in D(k) |-> IF next[i] = i THEN <<i>> ELSE <<i>> \o h[next[i]]]
    BY <2>7
  <2>. QED
    BY <2>3, <2>8 DEF D
<1>4. N + 1 \in T
  <2>. HIDE DEF T
  <2>1. 0..N + 1 \subseteq T
    BY <1>1, <1>2, <1>3, UpToBound
  <2>. QED
    BY <1>1, <2>1
<1>5. D(N + 1) = I
  BY <1>1
<1>. HIDE DEF D
<1>6. PICK f : f = [i \in D(N + 1) |-> IF next[i] = i THEN <<i>> ELSE <<i>> \o f[next[i]]]
  BY <1>4
<1>. QED
  BY <1>5, <1>6 DEF ArePathsOf

\* A path through the indices I: a sequence of them, not empty, without repetitions.
IsPath(path, I) ==
  /\ path \in Seq(I) /\ Len(path) > 0
  /\ \A a, b \in 1..Len(path) : path[a] = path[b] => a = b

LEMMA PathsMeetNoneTwice ==
  ASSUME NEW I, NEW N, NEW next, NEW rank, RankFalls(I, N, next, rank), NEW f,
         ArePathsOf(f, I, next)
  PROVE  \A i \in I : IsPath(f[i], I)
<1>. DEFINE Falls(s, i) == /\ s \in Seq(I) /\ Len(s) > 0 /\ s[1] = i
                           /\ \A a, b \in 1..Len(s) : a < b => rank[s[b]] < rank[s[a]]
            T == {k \in 0..N + 1 : \A i \in I : rank[i] < k => Falls(f[i], i)}
<1>1. /\ N \in Nat /\ N + 1 \in Nat /\ next \in [I -> I] /\ rank \in [I -> 0..N]
      /\ \A i \in I : next[i] # i => rank[next[i]] < rank[i]
  BY DEF RankFalls
<1>2. \A i \in I : f[i] = IF next[i] = i THEN <<i>> ELSE <<i>> \o f[next[i]]
  BY Zenon DEF ArePathsOf
<1>3. 0 \in T
  BY <1>1
<1>4. ASSUME NEW k \in 1..N + 1, k - 1 \in T PROVE k \in T
  <2>. SUFFICES ASSUME NEW i \in I, rank[i] < k PROVE Falls(f[i], i)
    BY <1>1
  <2>1. CASE next[i] = i
    <3>. DEFINE u == <<i>>
    <3>1. f[i] = u
      BY <1>2, <2>1
    <3>2. u \in Seq(I) /\ Len(u) = 1 /\ u[1] = i
      OBVIOUS
    <3>. HIDE DEF u
    <3>3. Falls(u, i)
      BY <3>2
    <3>. QED
      BY <3>1, <3>3
  <2>2. CASE next[i] # i
    <3>. DEFINE n == next[i]
                s == f[n]
                u == <<i>> \o s
    <3>1. f[i] = u
      BY <1>2, <2>2
    <3>2. rank[n] < rank[i] /\ n \in I /\ rank[n] < k - 1 /\ rank[n] \in Int /\ rank[i] \in Int
      BY <1>1, <2>2
    <3>3. Falls(s, n)
      BY <1>4, <3>2
    <3>. HIDE DEF s, n
    <3>4. /\ u \in Seq(I) /\ Len(u) = Len(s) + 1 /\ u[1] = i
          /\ \A a \in 2..Len(u) : u[a] = s[a - 1]
      BY <3>3
    <3>5. \A a \in 1..Len(s) : rank[s[a]] <= rank[n] /\ rank[s[a]] \in Int
      <4>1. ASSUME NEW a \in 1..Len(s) PROVE rank[s[a]] <= rank[n] /\ rank[s[a]] \in Int
        <5>1. s[a] \in I /\ rank[s[a]] \in Int
          BY <1>1, <3>3
        <5>2. CASE a = 1
          BY <3>2, <3>3, <5>1, <5>2
        <5>3. CASE a # 1
          <6>1. 1 \in 1..Len(s) /\ 1 < a
            BY <3>3, <5>3
          <6>. QED
            BY <3>2, <3>3, <5>1, <6>1
        <5>. QED
          BY <5>2, <5>3
      <4>. QED
        BY <4>1
    <3>. HIDE DEF u
    <3>6. ASSUME NEW a \in 1..Len(u), NEW b \in 1..Len(u), a < b PROVE rank[u[b]] < rank[u[a]]
      <4>1. b - 1 \in 1..Len(s) /\ u[b] = s[b - 1]
        BY <3>3, <3>4, <3>6
      <4>2. CASE a = 1
        <5>1. rank[s[b - 1]] <= rank[n] /\ rank[s[b - 1]] \in Int
          BY <3>5, <4>1
        <5>2. u[a] = i /\ u[b] = s[b - 1]
          BY <3>4, <4>1, <4>2
        <5>. QED
          BY <3>2, <5>1, <5>2
      <4>3. CASE a # 1
        <5>1. a - 1 \in 1..Len(s) /\ u[a] = s[a - 1] /\ a - 1 < b - 1
          BY <3>3, <3>4, <3>6, <4>3
        <5>. QED
          BY <3>3, <4>1, <5>1
      <4>. QED
        BY <4>2, <4>3
    <3>7. Falls(u, i)
      BY <3>3, <3>4, <3>6
    <3>. QED
      BY <3>1, <3>7
  <2>. QED
    BY <2>1, <2>2
<1>5. N + 1 \in T
  <2>. HIDE DEF T
  <2>1. 0..N + 1 \subseteq T
    BY <1>1, <1>3, <1>4, UpToBound
  <2>. QED
    BY <1>1, <2>1
<1>6. \A i \in I : Falls(f[i], i)
  BY <1>1, <1>5
<1>7. ASSUME NEW i \in I PROVE IsPath(f[i], I)
  <2>. DEFINE s == f[i]
  <2>1. Falls(s, i)
    BY <1>6
  <2>. HIDE DEF s
  <2>2. \A a \in 1..Len(s) : rank[s[a]] \in Int
    BY <1>1, <2>1
  <2>3. \A a, b \in 1..Len(s) : s[a] = s[b] => a = b
    BY <2>1, <2>2
  <2>4. IsPath(s, I)
    BY <2>1, <2>3 DEF IsPath
  <2>. QED
    BY <2>4 DEF s
<1>. QED
  BY <1>7
=============================================================================
