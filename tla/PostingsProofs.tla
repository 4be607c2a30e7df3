--------------------------- MODULE PostingsProofs ---------------------------
(***************************************************************************)
(* The posting lists on disk for any words, any sizes with the room of     *)
(* RoomAssumption and any batches.                                         *)
(***************************************************************************)
EXTENDS Postings, Recursion, FiniteSetTheorems, SequenceTheorems, TLAPS

(***************************************************************************)
(* Sequences of numbers: joined, summed up, and taken for the differences  *)
(* of postings.                                                            *)
(***************************************************************************)
\* The provers reason about Len and elements of what is concatenated best when it has a name.
Cat(x, y) == x \o y

IsCat(z, x, y, S) ==
  /\ z \in Seq(S) /\ Len(z) = Len(x) + Len(y)
  /\ \A k \in 1..Len(x) : z[k] = x[k]
  /\ \A k \in 1..Len(y) : z[Len(x) + k] = y[k]

LEMMA CatProperties ==
  ASSUME NEW S, NEW x \in Seq(S), NEW y \in Seq(S) PROVE IsCat(Cat(x, y), x, y, S)
BY DEF Cat, IsCat

LEMMA CatEmpty ==
  ASSUME NEW S, NEW x \in Seq(S) PROVE Cat(x, <<>>) = x /\ Cat(<<>>, x) = x
BY ConcatEmptySeq DEF Cat

LEMMA CatAssociative ==
  ASSUME NEW S, NEW x \in Seq(S), NEW y \in Seq(S), NEW z \in Seq(S)
  PROVE  Cat(x, Cat(y, z)) = Cat(Cat(x, y), z)
BY ConcatAssociative DEF Cat

LEMMA AppendIsCat ==
  ASSUME NEW S, NEW x \in Seq(S), NEW e \in S PROVE Append(x, e) = Cat(x, <<e>>)
BY AppendIsConcat DEF Cat

AreJoined(j, seqs) ==
  /\ j \in [0..Len(seqs) -> Seq(Int)] /\ j[0] = <<>>
  /\ \A n \in 1..Len(seqs) : j[n] = Cat(j[n - 1], seqs[n])

LEMMA JoinedStepwise ==
  ASSUME NEW seqs \in Seq(Seq(Int))
  PROVE  \E j : AreJoined(j, seqs) /\ Joined(seqs) = j[Len(seqs)]
<1>. DEFINE N == Len(seqs)
            S == Seq(Int)
            a == <<>>
            joined[n \in 0..Len(seqs)] == IF n = 0 THEN <<>> ELSE Cat(joined[n - 1], seqs[n])
            next == [p \in (1..N) \X S |-> Cat(p[2], seqs[p[1]])]
<1>1. Joined(seqs) = joined[Len(seqs)]
  BY Zenon DEF Joined, Cat
<1>2. N \in Nat /\ a \in S /\ \A n \in 1..N : seqs[n] \in S
  OBVIOUS
<1>3. next \in [(1..N) \X S -> S] /\ \A n \in 1..N, p \in S : next[<<n, p>>] = Cat(p, seqs[n])
  <2>1. \A n \in 1..N, p \in S : Cat(p, seqs[n]) \in S
    BY <1>2, CatProperties DEF IsCat
  <2>. HIDE DEF S
  <2>. QED
    BY <2>1
<1>. HIDE DEF next, S
<1>4. PICK f : AreResults(f, N, S, a, next)
  BY <1>2, <1>3, ResultsExist
<1>5. \A n \in 0..N : f[n] = IF n = 0 THEN <<>> ELSE Cat(f[n - 1], seqs[n])
  <2>. SUFFICES ASSUME NEW n \in 1..N PROVE f[n] = Cat(f[n - 1], seqs[n])
    BY <1>2, <1>4 DEF AreResults
  <2>1. n - 1 \in 0..N
    BY <1>2
  <2>2. f[n - 1] \in S /\ f[n] = next[<<n, f[n - 1]>>]
    BY <1>4, <2>1 DEF AreResults
  <2>. QED
    BY <1>3, <2>2
<1>6. f = [n \in 0..N |-> IF n = 0 THEN <<>> ELSE Cat(f[n - 1], seqs[n])]
  BY <1>4, <1>5 DEF AreResults
<1>7. joined = [n \in 0..N |-> IF n = 0 THEN <<>> ELSE Cat(joined[n - 1], seqs[n])]
  BY <1>6, Zenon
<1>. HIDE DEF joined
<1>. DEFINE T == {n \in 0..N : joined[n] = f[n]}
<1>8. \A n \in 0..N : joined[n] = IF n = 0 THEN <<>> ELSE Cat(joined[n - 1], seqs[n])
  BY <1>7, Zenon
<1>9. 0 \in T
  BY <1>2, <1>5, <1>8
<1>10. \A n \in 1..N : n - 1 \in T => n \in T
  BY <1>2, <1>5, <1>8
<1>. HIDE DEF T
<1>11. 0..N \subseteq T
  BY <1>2, <1>9, <1>10, UpToBound
<1>12. joined[N] = f[N]
  BY <1>2, <1>11 DEF T
<1>13. AreJoined(f, seqs)
  <2>1. f \in [0..N -> S] /\ f[0] = <<>>
    BY <1>4 DEF AreResults
  <2>2. ASSUME NEW n \in 1..N PROVE f[n] = Cat(f[n - 1], seqs[n])
    BY <1>2, <1>5
  <2>. QED
    BY <2>1, <2>2 DEF AreJoined, S
<1>. QED
  BY <1>1, <1>12, <1>13

\* There is one way to join.
LEMMA JoinedIs ==
  ASSUME NEW seqs \in Seq(Seq(Int)), NEW j, AreJoined(j, seqs)
  PROVE  Joined(seqs) = j[Len(seqs)]
<1>. DEFINE N == Len(seqs)
<1>1. PICK f : AreJoined(f, seqs) /\ Joined(seqs) = f[N]
  BY JoinedStepwise
<1>. DEFINE T == {n \in 0..N : j[n] = f[n]}
<1>2. N \in Nat
  OBVIOUS
<1>3. 0 \in T
  BY <1>1, <1>2 DEF AreJoined
<1>4. ASSUME NEW n \in 1..N, n - 1 \in T PROVE n \in T
  <2>1. j[n] = Cat(j[n - 1], seqs[n]) /\ f[n] = Cat(f[n - 1], seqs[n])
    BY <1>1 DEF AreJoined
  <2>2. j[n - 1] = f[n - 1] /\ n \in 0..N
    BY <1>2, <1>4
  <2>. QED
    BY <2>1, <2>2
<1>. HIDE DEF T
<1>5. 0..N \subseteq T
  BY <1>2, <1>3, <1>4, UpToBound
<1>. QED
  BY <1>1, <1>2, <1>5 DEF T

LEMMA JoinedType ==
  ASSUME NEW seqs \in Seq(Seq(Int)) PROVE Joined(seqs) \in Seq(Int)
<1>1. PICK j : AreJoined(j, seqs) /\ Joined(seqs) = j[Len(seqs)]
  BY JoinedStepwise
<1>2. Len(seqs) \in 0..Len(seqs)
  OBVIOUS
<1>. QED
  BY <1>1, <1>2 DEF AreJoined

LEMMA JoinedOne ==
  ASSUME NEW x \in Seq(Int) PROVE Joined(<<x>>) = x
<1>. DEFINE seqs == <<x>>
<1>1. seqs \in Seq(Seq(Int)) /\ Len(seqs) = 1 /\ seqs[1] = x
  OBVIOUS
<1>. HIDE DEF seqs
<1>2. PICK j : AreJoined(j, seqs) /\ Joined(seqs) = j[1]
  BY <1>1, JoinedStepwise
<1>3. j[1] = Cat(j[0], seqs[1]) /\ j[0] = <<>>
  <2>1. 1 \in 1..Len(seqs) /\ 1 - 1 = 0
    BY <1>1
  <2>. QED
    BY <1>2, <2>1 DEF AreJoined
<1>. QED
  BY <1>1, <1>2, <1>3, CatEmpty DEF seqs

LEMMA JoinedConcat ==
  ASSUME NEW a \in Seq(Seq(Int)), NEW b \in Seq(Seq(Int))
  PROVE  Joined(Cat(a, b)) = Cat(Joined(a), Joined(b))
<1>. DEFINE m == Len(a)
            n == Len(b)
<1>1. PICK ja : AreJoined(ja, a) /\ Joined(a) = ja[m]
  BY JoinedStepwise
<1>2. PICK jb : AreJoined(jb, b) /\ Joined(b) = jb[n]
  BY JoinedStepwise
<1>. DEFINE j == [k \in 0..m + n |-> IF k <= m THEN ja[k] ELSE Cat(ja[m], jb[k - m])]
            ab == Cat(a, b)
<1>3. /\ m \in Nat /\ n \in Nat /\ ab \in Seq(Seq(Int)) /\ Len(ab) = m + n
      /\ \A k \in 1..m : ab[k] = a[k] /\ a[k] \in Seq(Int)
      /\ \A k \in m + 1..m + n : ab[k] = b[k - m] /\ b[k - m] \in Seq(Int)
  <2>1. /\ m \in Nat /\ n \in Nat /\ \A k \in 1..m : a[k] \in Seq(Int)
        /\ \A k \in 1..n : b[k] \in Seq(Int)
    OBVIOUS
  <2>2. /\ ab \in Seq(Seq(Int)) /\ Len(ab) = m + n /\ \A k \in 1..m : ab[k] = a[k]
        /\ \A k \in 1..n : ab[m + k] = b[k]
    <3>1. IsCat(ab, a, b, Seq(Int))
      BY CatProperties, Zenon
    <3>. HIDE DEF ab
    <3>. QED
      BY <3>1 DEF IsCat
  <2>. HIDE DEF ab, m, n
  <2>3. ASSUME NEW k \in m + 1..m + n PROVE ab[k] = b[k - m] /\ b[k - m] \in Seq(Int)
    <3>1. k - m \in 1..n /\ m + (k - m) = k
      BY <2>1
    <3>. QED
      BY <2>1, <2>2, <3>1
  <2>. QED
    BY <2>1, <2>2, <2>3
<1>4. /\ ja \in [0..m -> Seq(Int)] /\ ja[0] = <<>> /\ \A k \in 1..m : ja[k] = Cat(ja[k - 1], a[k])
      /\ jb \in [0..n -> Seq(Int)] /\ jb[0] = <<>> /\ \A k \in 1..n : jb[k] = Cat(jb[k - 1], b[k])
  BY <1>1, <1>2 DEF AreJoined
<1>. HIDE DEF m, n, ab
<1>5. \A k \in 0..m + n : j[k] \in Seq(Int)
  <2>1. \A k \in 0..m : ja[k] \in Seq(Int)
    BY <1>4
  <2>2. \A k \in 0..n : Cat(ja[m], jb[k]) \in Seq(Int)
    BY <1>3, <1>4, CatProperties DEF IsCat
  <2>3. \A k \in m + 1..m + n : k - m \in 0..n
    BY <1>3
  <2>. QED
    BY <1>3, <2>1, <2>2, <2>3
<1>6. j \in [0..m + n -> Seq(Int)] /\ j[0] = <<>>
  BY <1>3, <1>4, <1>5
<1>7. ASSUME NEW k \in 1..m + n PROVE j[k] = Cat(j[k - 1], ab[k])
  <2>1. CASE k <= m
    BY <1>3, <1>4, <2>1
  <2>2. CASE k = m + 1
    <3>1. 1 \in 1..n /\ ja[m] \in Seq(Int) /\ b[1] \in Seq(Int) /\ ab[k] = b[1]
      <4>1. 1 \in 1..n /\ m \in 0..m /\ k \in m + 1..m + n /\ k - m = 1
        BY <1>3, <2>2
      <4>. QED
        BY <1>3, <1>4, <4>1
    <3>2. jb[1] = b[1]
      <4>1. jb[1] = Cat(<<>>, b[1])
        BY <1>4, <3>1
      <4>. QED
        BY <3>1, <4>1, CatEmpty
    <3>3. k - 1 = m /\ k - 1 \in 0..m + n /\ k - 1 <= m /\ ~(k <= m) /\ k - m = 1 /\ k \in 0..m + n
      BY <1>3, <2>2
    <3>4. j[k - 1] = ja[m] /\ j[k] = Cat(ja[m], jb[1])
      BY <3>3
    <3>. QED
      BY <3>1, <3>2, <3>4
  <2>3. CASE k > m + 1
    <3>. DEFINE i == k - m
    <3>1. /\ i \in 1..n /\ i - 1 \in 1..n /\ ~(k <= m) /\ ~(k - 1 <= m) /\ ab[k] = b[i]
          /\ k - 1 - m = i - 1
      <4>1. k \in m + 1..m + n /\ m \in Nat /\ n \in Nat
        BY <1>3, <2>3
      <4>2. ab[k] = b[k - m]
        BY <1>3, <4>1
      <4>. HIDE <1>3
      <4>. QED
        BY <2>3, <4>1, <4>2
    <3>2. ja[m] \in Seq(Int) /\ jb[i - 1] \in Seq(Int) /\ b[i] \in Seq(Int)
      <4>1. i - 1 \in 0..n /\ m \in 0..m /\ k \in m + 1..m + n
        BY <1>3, <2>3
      <4>. QED
        BY <1>3, <1>4, <4>1
    <3>3. j[k] = Cat(ja[m], jb[i]) /\ j[k - 1] = Cat(ja[m], jb[i - 1])
      BY <1>3, <3>1
    <3>4. jb[i] = Cat(jb[i - 1], b[i])
      BY <1>4, <3>1
    <3>. HIDE DEF i, j
    <3>5. Cat(ja[m], Cat(jb[i - 1], b[i])) = Cat(Cat(ja[m], jb[i - 1]), b[i])
      BY <3>2, CatAssociative
    <3>. QED
      BY <3>1, <3>3, <3>4, <3>5
  <2>. QED
    BY <1>3, <2>1, <2>2, <2>3
<1>8. AreJoined(j, ab)
  BY <1>3, <1>6, <1>7 DEF AreJoined
<1>9. j[m + n] = Cat(ja[m], jb[n])
  <2>1. CASE n = 0
    <3>1. ja[m] \in Seq(Int) /\ m + n = m /\ m \in 0..m + n
      BY <1>3, <1>4, <2>1
    <3>. QED
      BY <1>4, <2>1, <3>1, CatEmpty
  <2>2. CASE n # 0
    BY <1>3, <2>2
  <2>. QED
    BY <2>1, <2>2
<1>. HIDE DEF j
<1>. QED
  BY <1>1, <1>2, <1>3, <1>8, <1>9, JoinedIs DEF ab

LastOf(a, base) == IF Len(a) = 0 THEN base ELSE a[Len(a)]

\* The differences of postings that follow base, each to the one before it.
Differences(a, base) == [i \in 1..Len(a) |-> a[i] - IF i = 1 THEN base ELSE a[i - 1]]

AreDifferences(d, a, base) ==
  /\ d \in Seq(Int) /\ Len(d) = Len(a)
  /\ \A i \in 1..Len(a) : d[i] = a[i] - IF i = 1 THEN base ELSE a[i - 1]

LEMMA DifferencesType ==
  ASSUME NEW a \in Seq(Int), NEW base \in Int
  PROVE  AreDifferences(Differences(a, base), a, base) /\ LastOf(a, base) \in Int
<1>. DEFINE N == Len(a)
            d == [i \in 1..N |-> a[i] - IF i = 1 THEN base ELSE a[i - 1]]
<1>1. N \in Nat /\ \A i \in 1..N : a[i] \in Int
  OBVIOUS
<1>. HIDE DEF N
<1>2. ASSUME NEW i \in 1..N PROVE a[i] - (IF i = 1 THEN base ELSE a[i - 1]) \in Int
  <2>1. i # 1 => i - 1 \in 1..N
    BY <1>1
  <2>. QED
    BY <1>1, <2>1
<1>3. d \in [1..N -> Int]
  BY <1>2
<1>4. d \in Seq(Int) /\ Len(d) = N
  BY <1>1, <1>3, IsASeq
<1>5. LastOf(a, base) \in Int
  <2>1. N # 0 => N \in 1..N
    BY <1>1
  <2>. QED
    BY <1>1, <2>1 DEF LastOf, N
<1>. QED
  BY <1>4, <1>5 DEF Differences, AreDifferences, N

\* Summed up, the differences are the postings.
LEMMA SumsOfDifferences ==
  ASSUME NEW a \in Seq(Int) PROVE Sums(Differences(a, 0)) = a
<1>. DEFINE N == Len(a)
            d == Differences(a, 0)
            sums[i \in 0..Len(d)] == IF i = 0 THEN 0 ELSE sums[i - 1] + d[i]
            f == [i \in 0..N |-> IF i = 0 THEN 0 ELSE a[i]]
<1>1. /\ N \in Nat /\ \A i \in 1..N : a[i] \in Int
      /\ Len(d) = N /\ \A i \in 1..N : d[i] = a[i] - IF i = 1 THEN 0 ELSE a[i - 1]
  BY DifferencesType DEF AreDifferences
<1>2. Sums(d) = [i \in 1..Len(d) |-> sums[i]]
  BY Zenon DEF Sums
<1>. HIDE DEF d, N
<1>3. ASSUME NEW i \in 1..N PROVE f[i] = f[i - 1] + d[i]
  <2>1. i - 1 \in 0..N /\ i \in 0..N /\ i # 0 /\ (i # 1 => i - 1 \in 1..N /\ i - 1 # 0)
    BY <1>1
  <2>2. f[i] = a[i] /\ f[i - 1] = IF i = 1 THEN 0 ELSE a[i - 1]
    BY <2>1
  <2>. QED
    BY <1>1, <2>1, <2>2
<1>4. f[0] = 0
  BY <1>1
<1>5. \A i \in 0..N : f[i] = IF i = 0 THEN 0 ELSE f[i - 1] + d[i]
  BY <1>1, <1>3, <1>4
<1>6. f = [i \in 0..N |-> IF i = 0 THEN 0 ELSE f[i - 1] + d[i]]
  <2>1. f = [i \in 0..N |-> f[i]]
    OBVIOUS
  <2>. QED
    BY <1>5, <2>1
<1>7. \A i \in 1..N : f[i] = a[i]
  BY <1>1
<1>. HIDE DEF f
<1>8. sums = [i \in 0..N |-> IF i = 0 THEN 0 ELSE sums[i - 1] + d[i]]
  BY <1>1, <1>6, Zenon
<1>. HIDE DEF sums
<1>9. \A i \in 0..N : sums[i] = IF i = 0 THEN 0 ELSE sums[i - 1] + d[i]
  BY <1>8, Zenon
<1>. DEFINE T == {i \in 0..N : sums[i] = f[i]}
<1>10. 0 \in T
  BY <1>1, <1>4, <1>9
<1>11. ASSUME NEW i \in 1..N, i - 1 \in T PROVE i \in T
  <2>1. sums[i] = sums[i - 1] + d[i] /\ f[i] = f[i - 1] + d[i] /\ sums[i - 1] = f[i - 1]
    BY <1>1, <1>3, <1>9, <1>11
  <2>2. i \in 0..N
    BY <1>1
  <2>. QED
    BY <2>1, <2>2
<1>. HIDE DEF T
<1>12. 0..N \subseteq T
  BY <1>1, <1>10, <1>11, UpToBound
<1>13. \A i \in 1..N : sums[i] = a[i]
  <2>1. \A i \in 1..N : i \in 0..N
    BY <1>1
  <2>. QED
    BY <1>7, <1>12, <2>1 DEF T
<1>14. a = [i \in 1..N |-> a[i]]
  BY <1>1 DEF N
<1>. QED
  BY <1>1, <1>2, <1>13, <1>14 DEF d

\* Of postings that follow others, the differences follow theirs.
LEMMA DifferencesOfCat ==
  ASSUME NEW a \in Seq(Int), NEW b \in Seq(Int), NEW base \in Int
  PROVE  /\ Differences(Cat(a, b), base) = Cat(Differences(a, base), Differences(b, LastOf(a, base)))
         /\ LastOf(Cat(a, b), base) = LastOf(b, LastOf(a, base))
<1>. DEFINE m == Len(a)
            n == Len(b)
            c == Cat(a, b)
            l == LastOf(a, base)
            da == Differences(a, base)
            db == Differences(b, l)
            dc == Differences(c, base)
            e == Cat(da, db)
<1>1. IsCat(c, a, b, Int)
  BY CatProperties
<1>2. /\ m \in Nat /\ n \in Nat /\ c \in Seq(Int) /\ Len(c) = m + n
      /\ \A k \in 1..m : c[k] = a[k]
      /\ \A k \in 1..n : c[m + k] = b[k]
      /\ \A k \in 1..m : a[k] \in Int
      /\ \A k \in 1..n : b[k] \in Int
  BY <1>1 DEF IsCat
<1>3. l \in Int /\ l = IF m = 0 THEN base ELSE a[m]
  BY DifferencesType DEF LastOf
<1>4. /\ da \in Seq(Int) /\ Len(da) = m
      /\ \A i \in 1..m : da[i] = a[i] - IF i = 1 THEN base ELSE a[i - 1]
  BY DifferencesType DEF AreDifferences
<1>5. /\ db \in Seq(Int) /\ Len(db) = n
      /\ \A i \in 1..n : db[i] = b[i] - IF i = 1 THEN l ELSE b[i - 1]
  BY <1>3, DifferencesType DEF AreDifferences
<1>6. /\ dc \in Seq(Int) /\ Len(dc) = m + n
      /\ \A i \in 1..m + n : dc[i] = c[i] - IF i = 1 THEN base ELSE c[i - 1]
  <2>1. AreDifferences(dc, c, base)
    BY <1>2, DifferencesType
  <2>. HIDE DEF dc, c
  <2>. QED
    BY <1>2, <2>1 DEF AreDifferences
<1>7. IsCat(e, da, db, Int)
  BY <1>4, <1>5, CatProperties
<1>8. /\ e \in Seq(Int) /\ Len(e) = m + n
      /\ \A k \in 1..m : e[k] = da[k]
      /\ \A k \in 1..n : e[m + k] = db[k]
  <2>. HIDE DEF e, da, db, m, n
  <2>1. /\ e \in Seq(Int) /\ Len(e) = Len(da) + Len(db)
        /\ \A k \in 1..Len(da) : e[k] = da[k]
        /\ \A k \in 1..Len(db) : e[Len(da) + k] = db[k]
    BY <1>7 DEF IsCat
  <2>2. Len(da) = m /\ Len(db) = n
    BY <1>4, <1>5
  <2>. QED
    BY <2>1, <2>2, Zenon
<1>9. LastOf(c, base) = LastOf(b, l)
  <2>1. n # 0 => n \in 1..n /\ m + n # 0
    BY <1>2
  <2>2. n = 0 /\ m # 0 => m \in 1..m
    BY <1>2
  <2>3. n = 0 => m + n = m
    BY <1>2
  <2>. QED
    BY <1>2, <1>3, <2>1, <2>2, <2>3 DEF LastOf
<1>. HIDE DEF m, n, c, l, da, db, dc, e
<1>10. ASSUME NEW i \in 1..m + n PROVE dc[i] = e[i]
  <2>1. CASE i <= m
    <3>1. i \in 1..m /\ (i # 1 => i - 1 \in 1..m)
      BY <1>2, <2>1
    <3>. QED
      <4>1. c[i] = a[i] /\ e[i] = da[i] /\ (i # 1 => c[i - 1] = a[i - 1])
        BY <1>2, <1>8, <3>1
      <4>2. da[i] = a[i] - IF i = 1 THEN base ELSE a[i - 1]
        BY <1>4, <3>1
      <4>3. dc[i] = c[i] - IF i = 1 THEN base ELSE c[i - 1]
        BY <1>6
      <4>. QED
        BY <4>1, <4>2, <4>3
  <2>2. CASE i > m
    <3>. DEFINE k == i - m
    <3>1. k \in 1..n /\ m + k = i /\ (k # 1 => k - 1 \in 1..n /\ m + (k - 1) = i - 1 /\ i # 1)
      <4>1. m \in Nat /\ n \in Nat
        BY <1>2
      <4>. QED
        BY <2>2, <4>1
    <3>2. e[i] = b[k] - IF k = 1 THEN l ELSE b[k - 1]
      BY <1>5, <1>8, <3>1
    <3>3. c[i] = b[k] /\ (k # 1 => c[i - 1] = b[k - 1])
      BY <1>2, <3>1
    <3>4. k = 1 => (IF i = 1 THEN base ELSE c[i - 1]) = l
      <4>1. k = 1 => i - 1 = m /\ (i = 1 <=> m = 0) /\ (m # 0 => m \in 1..m)
        BY <1>2, <3>1
      <4>. QED
        BY <1>2, <1>3, <4>1
    <3>5. dc[i] = c[i] - IF i = 1 THEN base ELSE c[i - 1]
      BY <1>6
    <3>. HIDE DEF k
    <3>. QED
      BY <3>1, <3>2, <3>3, <3>4, <3>5
  <2>. QED
    BY <1>2, <2>1, <2>2
<1>11. dc = e
  BY <1>6, <1>8, <1>10, SeqEqual
<1>. QED
  BY <1>9, <1>11 DEF c, l, da, db, dc, e
(***************************************************************************)
(* A posting list that is added to.                                        *)
(***************************************************************************)
Entries == (Int \X Int) \union {GarbageEntry}

PostingLists == [posts : Seq(Int), index : Seq(Entries), largest : Int,
                 orig : Int, newPosts : Seq(Int), newIndices : Seq(Entries)]

IsStored(l) == l.posts \in Seq(Int) /\ l.index \in Seq(Entries) /\ l.largest \in Int

\* The fields of a list, and what it was made from.
IsList(l, posts, index, largest, orig, newPosts, newIndices) ==
  /\ l \in PostingLists
  /\ l.posts = posts /\ l.index = index /\ l.largest = largest
  /\ l.orig = orig /\ l.newPosts = newPosts /\ l.newIndices = newIndices

LEMMA FieldsOfAList ==
  ASSUME NEW l \in PostingLists
  PROVE  /\ l.posts \in Seq(Int) /\ l.index \in Seq(Entries) /\ l.largest \in Int
         /\ l.orig \in Int /\ l.newPosts \in Seq(Int) /\ l.newIndices \in Seq(Entries)
BY DEF PostingLists

LEMMA ListOfStored ==
  ASSUME NEW stored, IsStored(stored)
  PROVE  IsList(PostingListOf(stored), stored.posts, stored.index, stored.largest,
                stored.largest, <<>>, <<>>)
<1>. DEFINE posts == stored.posts
            index == stored.index
            largest == stored.largest
            none == <<>>
<1>1. posts \in Seq(Int) /\ index \in Seq(Entries) /\ largest \in Int
      /\ none \in Seq(Int) /\ none \in Seq(Entries)
  BY DEF IsStored
<1>2. PostingListOf(stored) = [posts |-> posts, index |-> index, largest |-> largest,
                               orig |-> largest, newPosts |-> none, newIndices |-> none]
  BY DEF PostingListOf
<1>. HIDE DEF posts, index, largest, none
<1>3. IsList(PostingListOf(stored), posts, index, largest, largest, none, none)
  BY <1>1, <1>2 DEF IsList, PostingLists
<1>. QED
  BY <1>3 DEF posts, index, largest, none

\* A list with other new postings, new entries and largest posting.
LEMMA ListWith ==
  ASSUME NEW l \in PostingLists, NEW largest \in Int, NEW newPosts \in Seq(Int),
         NEW newIndices \in Seq(Entries)
  PROVE  IsList([l EXCEPT !.largest = largest, !.newPosts = newPosts, !.newIndices = newIndices],
                l.posts, l.index, largest, l.orig, newPosts, newIndices)
BY DEF IsList, PostingLists

Indexes(l, p) == (l.index = <<>> /\ l.newIndices = <<>>) \/ Bucket(p) > Bucket(l.largest)

IsAddedTo(r, l, p) ==
  IsList(r, l.posts, l.index, p, l.orig, Append(l.newPosts, p - l.largest),
         IF Indexes(l, p) THEN Append(l.newIndices, <<p, Len(l.posts) + Len(l.newPosts)>>)
         ELSE l.newIndices)

LEMMA AddedPosting ==
  ASSUME NEW l \in PostingLists, NEW p \in Int
  PROVE  IsAddedTo(AddPosting(l, p), l, p)
<1>. DEFINE newPosts == Append(l.newPosts, p - l.largest)
            entry == <<p, Len(l.posts) + Len(l.newPosts)>>
            newIndices == IF Indexes(l, p) THEN Append(l.newIndices, entry) ELSE l.newIndices
            r == [l EXCEPT !.largest = p, !.newPosts = newPosts, !.newIndices = newIndices]
<1>1. /\ l.posts \in Seq(Int) /\ l.largest \in Int /\ l.newPosts \in Seq(Int)
      /\ l.newIndices \in Seq(Entries)
  BY FieldsOfAList
<1>2. entry \in Entries
  <2>1. Len(l.posts) + Len(l.newPosts) \in Int
    BY <1>1
  <2>. QED
    BY <2>1 DEF Entries
<1>3. newPosts \in Seq(Int) /\ newIndices \in Seq(Entries)
  <2>. HIDE DEF entry
  <2>. QED
    BY <1>1, <1>2
<1>4. AddPosting(l, p) = r
  <2>1. "largest" \in DOMAIN l /\ "newPosts" \in DOMAIN l /\ "newIndices" \in DOMAIN l
    BY DEF PostingLists
  <2>2. AddPosting(l, p) = [l EXCEPT !.newIndices = newIndices, !.newPosts = newPosts, !.largest = p]
    BY DEF AddPosting, Indexes
  <2>. HIDE DEF newIndices, newPosts
  <2>. QED
    BY <2>2
<1>. HIDE DEF newPosts, newIndices
<1>5. IsList(r, l.posts, l.index, p, l.orig, newPosts, newIndices)
  BY <1>3, ListWith
<1>. QED
  BY <1>4, <1>5 DEF IsAddedTo, newPosts, newIndices

AreAdded(lists, list, postings) ==
  /\ lists \in [0..Len(postings) -> PostingLists] /\ lists[0] = list
  /\ \A n \in 1..Len(postings) : IsAddedTo(lists[n], lists[n - 1], postings[n])

LEMMA AddedStepwise ==
  ASSUME NEW list \in PostingLists, NEW postings \in Seq(Int)
  PROVE  \E lists : /\ AreAdded(lists, list, postings)
                    /\ AddAll(list, postings) = lists[Len(postings)]
<1>. DEFINE N == Len(postings)
            lists[n \in 0..Len(postings)] ==
              IF n = 0 THEN list ELSE AddPosting(lists[n - 1], postings[n])
            next == [p \in (1..N) \X PostingLists |-> AddPosting(p[2], postings[p[1]])]
<1>1. AddAll(list, postings) = lists[Len(postings)]
  BY Zenon DEF AddAll
<1>2. N \in Nat /\ \A n \in 1..N : postings[n] \in Int
  OBVIOUS
<1>. HIDE DEF N
<1>3. \A l \in PostingLists, p \in Int : AddPosting(l, p) \in PostingLists
  BY AddedPosting DEF IsAddedTo, IsList
<1>4. next \in [(1..N) \X PostingLists -> PostingLists]
      /\ \A n \in 1..N, l \in PostingLists : next[<<n, l>>] = AddPosting(l, postings[n])
  BY <1>2, <1>3
<1>. HIDE DEF next
<1>5. PICK f : AreResults(f, N, PostingLists, list, next)
  BY <1>2, <1>4, ResultsExist
<1>6. ASSUME NEW n \in 1..N PROVE f[n] = AddPosting(f[n - 1], postings[n]) /\ f[n - 1] \in PostingLists
  <2>1. n - 1 \in 0..N
    BY <1>2
  <2>2. f[n - 1] \in PostingLists /\ f[n] = next[<<n, f[n - 1]>>]
    BY <1>5, <2>1 DEF AreResults
  <2>. QED
    BY <1>4, <2>2
<1>7. \A n \in 0..N : f[n] = IF n = 0 THEN list ELSE AddPosting(f[n - 1], postings[n])
  BY <1>2, <1>5, <1>6 DEF AreResults
<1>8. f = [n \in 0..N |-> IF n = 0 THEN list ELSE AddPosting(f[n - 1], postings[n])]
  BY <1>5, <1>7 DEF AreResults
<1>9. lists = [n \in 0..N |-> IF n = 0 THEN list ELSE AddPosting(lists[n - 1], postings[n])]
  BY <1>8, Zenon DEF N
<1>. HIDE DEF lists
<1>10. \A n \in 0..N : lists[n] = IF n = 0 THEN list ELSE AddPosting(lists[n - 1], postings[n])
  BY <1>9, Zenon
<1>. DEFINE T == {n \in 0..N : lists[n] \in PostingLists}
<1>11. 0 \in T
  BY <1>2, <1>10
<1>12. ASSUME NEW n \in 1..N, n - 1 \in T PROVE n \in T
  BY <1>2, <1>3, <1>10, <1>12
<1>. HIDE DEF T
<1>13. 0..N \subseteq T
  BY <1>2, <1>11, <1>12, UpToBound
<1>14. lists \in [0..N -> PostingLists]
  BY <1>9, <1>13 DEF T
<1>15. ASSUME NEW n \in 1..N PROVE IsAddedTo(lists[n], lists[n - 1], postings[n])
  <2>1. n \in 0..N /\ n # 0 /\ n - 1 \in 0..N
    BY <1>2
  <2>2. lists[n] = AddPosting(lists[n - 1], postings[n]) /\ lists[n - 1] \in PostingLists
    BY <1>10, <1>14, <2>1
  <2>. QED
    BY <1>2, <2>2, AddedPosting
<1>16. lists[0] = list
  BY <1>2, <1>10
<1>17. AreAdded(lists, list, postings)
  BY <1>14, <1>15, <1>16 DEF AreAdded, N
<1>. QED
  BY <1>1, <1>17

\* A list with nothing new, from which the list l comes by the first n postings.
IsSoFar(l, n, list, postings) ==
  /\ l \in PostingLists /\ l.posts = list.posts /\ l.index = list.index /\ l.orig = list.orig
  /\ l.largest = IF n = 0 THEN list.largest ELSE postings[n]
  /\ Len(l.newPosts) = n
  /\ \A i \in 1..n : l.newPosts[i] = Differences(postings, list.largest)[i]

IsUnchanged(list) ==
  /\ list \in PostingLists /\ list.orig = list.largest
  /\ list.newPosts = <<>> /\ list.newIndices = <<>>

LEMMA AddedSoFar ==
  ASSUME NEW list, IsUnchanged(list), NEW postings \in Seq(Int), NEW lists,
         AreAdded(lists, list, postings)
  PROVE  \A n \in 0..Len(postings) : IsSoFar(lists[n], n, list, postings)
<1>. DEFINE N == Len(postings)
            d == Differences(postings, list.largest)
            T == {n \in 0..N : IsSoFar(lists[n], n, list, postings)}
<1>1. /\ N \in Nat /\ list \in PostingLists /\ list.largest \in Int /\ Len(list.newPosts) = 0
      /\ \A n \in 1..N : postings[n] \in Int
  BY FieldsOfAList DEF IsUnchanged
<1>2. \A i \in 1..N : d[i] = postings[i] - IF i = 1 THEN list.largest ELSE postings[i - 1]
  BY <1>1, DifferencesType DEF AreDifferences
<1>. HIDE DEF d, N
<1>3. 0 \in T
  <2>1. lists[0] = list /\ 0 \in 0..N
    BY <1>1 DEF AreAdded
  <2>. QED
    BY <1>1, <2>1 DEF IsSoFar
<1>4. ASSUME NEW n \in 1..N, n - 1 \in T PROVE n \in T
  <2>. DEFINE l == lists[n - 1]
              r == lists[n]
              p == postings[n]
              e == p - l.largest
  <2>1. IsAddedTo(r, l, p)
    BY DEF AreAdded, N
  <2>2. IsSoFar(l, n - 1, list, postings)
    BY <1>4
  <2>. HIDE DEF l, r
  <2>3. /\ r \in PostingLists /\ r.posts = l.posts /\ r.index = l.index /\ r.orig = l.orig
        /\ r.largest = p /\ r.newPosts = Append(l.newPosts, e)
    BY <2>1 DEF IsAddedTo, IsList
  <2>4. /\ l.posts = list.posts /\ l.index = list.index /\ l.orig = list.orig
        /\ l.largest = IF n - 1 = 0 THEN list.largest ELSE postings[n - 1]
        /\ Len(l.newPosts) = n - 1 /\ l.newPosts \in Seq(Int)
        /\ \A i \in 1..n - 1 : l.newPosts[i] = d[i]
    BY <2>2, FieldsOfAList DEF IsSoFar, d
  <2>5. e = d[n] /\ e \in Int
    <3>1. n - 1 = 0 <=> n = 1
      BY <1>1
    <3>2. d[n] = p - IF n = 1 THEN list.largest ELSE postings[n - 1]
      BY <1>2
    <3>3. n # 1 => n - 1 \in 1..N
      BY <1>1
    <3>. QED
      BY <1>1, <2>4, <3>1, <3>2, <3>3
  <2>. HIDE DEF e, p
  <2>6. Len(r.newPosts) = n /\ \A i \in 1..n : r.newPosts[i] = d[i]
    <3>. DEFINE old == l.newPosts
                new == Append(old, e)
    <3>1. old \in Seq(Int) /\ Len(old) = n - 1 /\ n \in Nat /\ \A i \in 1..n - 1 : old[i] = d[i]
      BY <1>1, <2>4
    <3>. HIDE DEF old
    <3>2. Len(new) = n /\ new[n] = e /\ \A i \in 1..n - 1 : new[i] = old[i]
      BY <2>5, <3>1
    <3>. HIDE DEF new
    <3>3. \A i \in 1..n : new[i] = d[i]
      BY <2>5, <3>1, <3>2
    <3>. QED
      BY <2>3, <3>2, <3>3 DEF new, old
  <2>7. n \in 0..N /\ n # 0
    BY <1>1
  <2>8. IsSoFar(r, n, list, postings)
    BY <2>3, <2>4, <2>6, <2>7 DEF IsSoFar, d, p
  <2>. QED
    BY <2>7, <2>8 DEF r
<1>. HIDE DEF T
<1>5. 0..N \subseteq T
  BY <1>1, <1>3, <1>4, UpToBound
<1>. QED
  BY <1>5 DEF T, N

\* What AddPostings adds to a list.
LEMMA AllAdded ==
  ASSUME NEW list, IsUnchanged(list), NEW postings \in Seq(Int)
  PROVE  LET r == AddAll(list, postings)
         IN  /\ r \in PostingLists /\ r.posts = list.posts /\ r.index = list.index
             /\ r.orig = list.orig /\ r.largest = LastOf(postings, list.largest)
             /\ r.newPosts = Differences(postings, list.largest)
<1>. DEFINE N == Len(postings)
            r == AddAll(list, postings)
            d == Differences(postings, list.largest)
<1>1. list \in PostingLists /\ list.largest \in Int /\ N \in Nat
  BY FieldsOfAList DEF IsUnchanged
<1>2. PICK lists : AreAdded(lists, list, postings) /\ r = lists[N]
  BY <1>1, AddedStepwise
<1>3. IsSoFar(lists[N], N, list, postings)
  BY <1>1, <1>2, AddedSoFar
<1>. HIDE DEF r
<1>4. /\ r \in PostingLists /\ r.posts = list.posts /\ r.index = list.index
      /\ r.orig = list.orig /\ r.largest = LastOf(postings, list.largest)
      /\ Len(r.newPosts) = N /\ \A i \in 1..N : r.newPosts[i] = d[i]
  BY <1>2, <1>3 DEF IsSoFar, LastOf
<1>5. d \in Seq(Int) /\ Len(d) = N
  BY <1>1, DifferencesType DEF AreDifferences
<1>6. r.newPosts = d
  <2>1. r.newPosts \in Seq(Int)
    BY <1>4, FieldsOfAList
  <2>. QED
    BY <1>4, <1>5, <2>1, SeqEqual
<1>. QED
  BY <1>4, <1>6 DEF r

(***************************************************************************)
(* The index: one entry for each posting that is the first of its bucket.  *)
(***************************************************************************)
ElementsOf(s) == {s[k] : k \in 1..Len(s)}

LEMMA ElementsOfAppend ==
  ASSUME NEW S, NEW s \in Seq(S), NEW e \in S
  PROVE  ElementsOf(Append(s, e)) = ElementsOf(s) \union {e}
<1>. DEFINE r == Append(s, e)
            n == Len(s)
<1>1. n \in Nat /\ Len(r) = n + 1 /\ r[n + 1] = e /\ \A k \in 1..n : r[k] = s[k]
  OBVIOUS
<1>2. ElementsOf(r) = {r[k] : k \in 1..n + 1} /\ ElementsOf(s) = {s[k] : k \in 1..n}
  BY <1>1 DEF ElementsOf
<1>. HIDE DEF r, n
<1>3. \A k \in 1..n + 1 : k = n + 1 \/ k \in 1..n
  BY <1>1
<1>4. n + 1 \in 1..n + 1 /\ \A k \in 1..n : k \in 1..n + 1
  BY <1>1
<1>5. {r[k] : k \in 1..n + 1} = {s[k] : k \in 1..n} \union {e}
  BY <1>1, <1>3, <1>4
<1>. QED
  BY <1>2, <1>5 DEF r

LEMMA ElementsOfNone ==
  ASSUME NEW S, NEW s \in Seq(S) PROVE (ElementsOf(s) = {}) <=> (s = <<>>)
<1>1. CASE s = <<>>
  BY <1>1 DEF ElementsOf
<1>2. CASE s # <<>>
  <2>1. 1 \in 1..Len(s)
    BY <1>2
  <2>. QED
    BY <1>2, <2>1 DEF ElementsOf
<1>. QED
  BY <1>1, <1>2

EntriesOf(l) == ElementsOf(l.index) \union ElementsOf(l.newIndices)

Starts(a, o) == o = 1 \/ Bucket(a[o]) > Bucket(a[o - 1])

\* The entries of the first n postings of a.
IndexOf(a, n) == {<<a[o], o - 1>> : o \in {i \in 1..n : Starts(a, i)}}

LEMMA IndexGrows ==
  ASSUME NEW a, NEW n \in Nat \ {0}
  PROVE  IndexOf(a, n) = IndexOf(a, n - 1) \union (IF Starts(a, n) THEN {<<a[n], n - 1>>} ELSE {})
<1>1. \A i : i \in 1..n <=> i = n \/ i \in 1..n - 1
  OBVIOUS
<1>2. {i \in 1..n : Starts(a, i)}
        = {i \in 1..n - 1 : Starts(a, i)} \union (IF Starts(a, n) THEN {n} ELSE {})
  BY <1>1, Zenon
<1>. QED
  BY <1>2, Zenon DEF IndexOf

LEMMA IndexOfNone ==
  ASSUME NEW a, NEW n \in Nat PROVE (IndexOf(a, n) = {}) <=> n = 0
<1>1. CASE n = 0
  BY <1>1 DEF IndexOf
<1>2. CASE n # 0
  <2>1. 1 \in {i \in 1..n : Starts(a, i)}
    BY <1>2 DEF Starts
  <2>2. <<a[1], 1 - 1>> \in IndexOf(a, n)
    BY <2>1, Zenon DEF IndexOf
  <2>. QED
    BY <1>2, <2>2
<1>. QED
  BY <1>1, <1>2

\* Only the first n postings count.
LEMMA IndexOfPrefix ==
  ASSUME NEW a, NEW b, NEW n \in Nat, \A k \in 1..n : a[k] = b[k]
  PROVE  IndexOf(a, n) = IndexOf(b, n)
<1>. DEFINE T == {m \in 0..n : IndexOf(a, m) = IndexOf(b, m)}
<1>1. 0 \in T
  BY DEF IndexOf
<1>2. ASSUME NEW m \in 1..n, m - 1 \in T PROVE m \in T
  <2>1. m \in Nat \ {0} /\ m \in 0..n
    OBVIOUS
  <2>2. a[m] = b[m] /\ (m # 1 => a[m - 1] = b[m - 1])
    <3>1. m # 1 => m - 1 \in 1..n
      OBVIOUS
    <3>. QED
      BY <3>1
  <2>3. Starts(a, m) <=> Starts(b, m)
    BY <2>2 DEF Starts
  <2>4. /\ IndexOf(a, m) = IndexOf(a, m - 1) \union (IF Starts(a, m) THEN {<<a[m], m - 1>>} ELSE {})
        /\ IndexOf(b, m) = IndexOf(b, m - 1) \union (IF Starts(b, m) THEN {<<b[m], m - 1>>} ELSE {})
    BY <2>1, IndexGrows
  <2>5. IndexOf(a, m - 1) = IndexOf(b, m - 1)
    BY <1>2
  <2>. QED
    BY <2>1, <2>2, <2>3, <2>4, <2>5, Zenon
<1>. HIDE DEF T
<1>3. 0..n \subseteq T
  BY <1>1, <1>2, UpToBound
<1>4. n \in 0..n
  OBVIOUS
<1>. QED
  BY <1>3, <1>4 DEF T

\* Every posting that is added and is the first of its bucket gets an entry.
LEMMA IndexIsKept ==
  ASSUME NEW list, IsUnchanged(list), NEW postings \in Seq(Int), NEW old \in Seq(Int),
         Len(list.posts) = Len(old), list.largest = LastOf(old, 0),
         EntriesOf(list) = IndexOf(old, Len(old))
  PROVE  EntriesOf(AddAll(list, postings))
           = IndexOf(Cat(old, postings), Len(Cat(old, postings)))
<1>. DEFINE N == Len(postings)
            m == Len(old)
            a == Cat(old, postings)
<1>1. /\ N \in Nat /\ m \in Nat /\ list \in PostingLists /\ a \in Seq(Int) /\ Len(a) = m + N
      /\ \A k \in 1..m : a[k] = old[k]
      /\ \A k \in 1..N : a[m + k] = postings[k]
  <2>1. IsCat(a, old, postings, Int)
    BY CatProperties
  <2>2. N \in Nat /\ m \in Nat /\ list \in PostingLists
    BY DEF IsUnchanged
  <2>. HIDE DEF a
  <2>. QED
    BY <2>1, <2>2 DEF IsCat
<1>2. PICK lists : AreAdded(lists, list, postings) /\ AddAll(list, postings) = lists[N]
  BY <1>1, AddedStepwise
<1>3. \A n \in 0..N : IsSoFar(lists[n], n, list, postings)
  BY <1>2, AddedSoFar
<1>4. list.largest = IF m = 0 THEN 0 ELSE old[m]
  BY DEF LastOf
<1>5. IndexOf(a, m) = IndexOf(old, m)
  BY <1>1, IndexOfPrefix
<1>. HIDE DEF N, m, a
<1>. DEFINE T == {n \in 0..N : EntriesOf(lists[n]) = IndexOf(a, m + n)}
<1>6. 0 \in T
  BY <1>1, <1>2, <1>5 DEF AreAdded, m
<1>7. ASSUME NEW n \in 1..N, n - 1 \in T PROVE n \in T
  <2>. DEFINE l == lists[n - 1]
              r == lists[n]
              p == postings[n]
              q == m + n
              entry == <<p, q - 1>>
  <2>1. /\ n - 1 \in 0..N /\ n \in 0..N /\ q \in Nat \ {0} /\ q - 1 \in Nat
        /\ m + (n - 1) = q - 1 /\ (q = 1 <=> q - 1 = 0)
    BY <1>1
  <2>2. IsAddedTo(r, l, p)
    BY <1>2 DEF AreAdded, N
  <2>3. IsSoFar(l, n - 1, list, postings)
    BY <1>3, <2>1
  <2>4. EntriesOf(l) = IndexOf(a, q - 1)
    BY <1>7, <2>1
  <2>5. p \in Int /\ a[q] = p
    BY <1>1 DEF N
  <2>6. q # 1 => (IF n - 1 = 0 THEN list.largest ELSE postings[n - 1]) = a[q - 1]
    <3>1. CASE n = 1
      <4>1. n - 1 = 0 /\ q - 1 = m /\ (q # 1 => m # 0 /\ m \in 1..m)
        BY <1>1, <3>1
      <4>. HIDE DEF q
      <4>2. m \in 1..m => a[m] = old[m]
        BY <1>1
      <4>. QED
        BY <1>4, <4>1, <4>2, Zenon
    <3>2. CASE n # 1
      <4>1. n - 1 \in 1..N /\ n - 1 # 0
        BY <1>1, <3>2
      <4>2. a[m + (n - 1)] = postings[n - 1]
        BY <1>1, <4>1
      <4>. QED
        BY <2>1, <4>1, <4>2
    <3>. QED
      BY <3>1, <3>2
  <2>. HIDE DEF l, r, p, q
  <2>7. entry \in Entries
    BY <2>1, <2>5 DEF Entries
  <2>8. /\ l \in PostingLists /\ Len(l.posts) = m /\ Len(l.newPosts) = n - 1
        /\ l.largest = IF n - 1 = 0 THEN list.largest ELSE postings[n - 1]
        /\ l.index \in Seq(Entries) /\ l.newIndices \in Seq(Entries)
    BY <2>3, FieldsOfAList DEF IsSoFar, m
  <2>9. /\ r.index = l.index
        /\ r.newIndices = IF Indexes(l, p) THEN Append(l.newIndices, entry) ELSE l.newIndices
    <3>1. r.newIndices = IF Indexes(l, p)
                         THEN Append(l.newIndices, <<p, Len(l.posts) + Len(l.newPosts)>>)
                         ELSE l.newIndices
      BY <2>2 DEF IsAddedTo, IsList
    <3>2. Len(l.posts) + Len(l.newPosts) = q - 1
      BY <2>1, <2>8
    <3>. QED
      BY <2>2, <3>1, <3>2 DEF IsAddedTo, IsList
  <2>. HIDE DEF entry
  <2>10. EntriesOf(r) = EntriesOf(l) \union (IF Indexes(l, p) THEN {entry} ELSE {})
    <3>1. CASE Indexes(l, p)
      <4>1. ElementsOf(r.newIndices) = ElementsOf(l.newIndices) \union {entry}
        BY <2>7, <2>8, <2>9, <3>1, ElementsOfAppend
      <4>. QED
        BY <2>9, <3>1, <4>1 DEF EntriesOf
    <3>2. CASE ~Indexes(l, p)
      BY <2>9, <3>2 DEF EntriesOf
    <3>. QED
      BY <3>1, <3>2
  <2>11. (l.index = <<>> /\ l.newIndices = <<>>) <=> q = 1
    <3>1. (l.index = <<>> /\ l.newIndices = <<>>) <=> EntriesOf(l) = {}
      BY <2>8, ElementsOfNone DEF EntriesOf
    <3>2. IndexOf(a, q - 1) = {} <=> q - 1 = 0
      BY <2>1, IndexOfNone, Zenon
    <3>. QED
      BY <2>1, <2>4, <3>1, <3>2, Zenon
  <2>12. Indexes(l, p) <=> Starts(a, q)
    BY <2>5, <2>6, <2>8, <2>11, Zenon DEF Indexes, Starts
  <2>13. IndexOf(a, q) = IndexOf(a, q - 1) \union (IF Starts(a, q) THEN {<<a[q], q - 1>>} ELSE {})
    BY <2>1, IndexGrows
  <2>14. EntriesOf(r) = IndexOf(a, q)
    BY <2>4, <2>5, <2>10, <2>12, <2>13, Zenon DEF entry
  <2>. QED
    BY <2>1, <2>14 DEF r, q
<1>. HIDE DEF T
<1>8. 0..N \subseteq T
  BY <1>1, <1>6, <1>7, UpToBound
<1>9. N \in 0..N
  BY <1>1
<1>. QED
  BY <1>1, <1>2, <1>8, <1>9 DEF T, a, N

(***************************************************************************)
(* Splitting.                                                              *)
(***************************************************************************)
Bytes(p, i) == HeaderSize + DeltaSize * p + EntrySize * i

LEMMA ByteSizes ==
  ASSUME NEW p \in Nat, NEW i \in Nat
  PROVE  /\ Bytes(p, i) \in Nat
         /\ Bytes(p + 1, i) = Bytes(p, i) + DeltaSize
         /\ Bytes(p + 1, i + 1) = Bytes(p, i) + (DeltaSize + EntrySize)
         /\ \A q, j \in Nat : p <= q /\ i <= j => Bytes(p, i) <= Bytes(q, j)
<1>1. HeaderSize \in Nat /\ DeltaSize \in Nat /\ EntrySize \in Nat
  BY SizesAssumption
<1>2. \A x, y \in Nat : x * y \in Nat
  OBVIOUS
<1>3. \A x, y \in Nat : x * (y + 1) = x * y + x
  OBVIOUS
<1>4. ASSUME NEW x \in Nat, NEW y \in Nat, NEW z \in Nat, y <= z PROVE x * y <= x * z
  <2>1. z - y \in Nat
    BY <1>4
  <2>2. x * (z - y) \in Nat
    BY <2>1
  <2>3. x * z = x * y + x * (z - y)
    BY <2>1
  <2>4. x * y \in Nat /\ x * z \in Nat
    OBVIOUS
  <2>. QED
    BY <2>2, <2>3, <2>4
<1>5. ASSUME NEW q \in Nat, NEW j \in Nat, p <= q, i <= j PROVE Bytes(p, i) <= Bytes(q, j)
  <2>1. DeltaSize * p <= DeltaSize * q /\ EntrySize * i <= EntrySize * j
    BY <1>1, <1>4, <1>5
  <2>2. DeltaSize * p \in Nat /\ DeltaSize * q \in Nat /\ EntrySize * i \in Nat /\ EntrySize * j \in Nat
    BY <1>1, <1>2
  <2>. QED
    BY <1>1, <2>1, <2>2 DEF Bytes
<1>6. DeltaSize * p \in Nat /\ EntrySize * i \in Nat
  BY <1>1, <1>2
<1>7. DeltaSize * (p + 1) = DeltaSize * p + DeltaSize /\ EntrySize * (i + 1) = EntrySize * i + EntrySize
  BY <1>1, <1>3
<1>8. Bytes(p, i) \in Nat
  BY <1>1, <1>6 DEF Bytes
<1>9. Bytes(p + 1, i) = Bytes(p, i) + DeltaSize
  BY <1>1, <1>6, <1>7 DEF Bytes
<1>10. Bytes(p + 1, i + 1) = Bytes(p, i) + (DeltaSize + EntrySize)
  BY <1>1, <1>6, <1>7 DEF Bytes
<1>. QED
  BY <1>5, <1>8, <1>9, <1>10

LEMMA ByteSizeOfAList ==
  ASSUME NEW l \in PostingLists
  PROVE  /\ GetByteSize(l) = Bytes(Len(l.posts) + Len(l.newPosts), Len(l.index) + Len(l.newIndices))
         /\ GetByteSize(l) \in Nat
<1>1. /\ l.posts \in Seq(Int) /\ l.newPosts \in Seq(Int)
      /\ l.index \in Seq(Entries) /\ l.newIndices \in Seq(Entries)
  BY FieldsOfAList
<1>2. Len(l.posts \o l.newPosts) = Len(l.posts) + Len(l.newPosts)
  BY <1>1
<1>3. Len(l.index \o l.newIndices) = Len(l.index) + Len(l.newIndices)
  BY <1>1
<1>4. Len(l.posts) + Len(l.newPosts) \in Nat /\ Len(l.index) + Len(l.newIndices) \in Nat
  <2>1. Len(l.posts) \in Nat /\ Len(l.newPosts) \in Nat
    BY <1>1
  <2>2. Len(l.index) \in Nat /\ Len(l.newIndices) \in Nat
    BY <1>1
  <2>3. \A x, y \in Nat : x + y \in Nat
    OBVIOUS
  <2>. QED
    BY <2>1, <2>2, <2>3, Zenon
<1>5. GetByteSize(l) = Bytes(Len(l.posts) + Len(l.newPosts), Len(l.index) + Len(l.newIndices))
  BY <1>2, <1>3, Zenon DEF GetByteSize, Bytes
<1>. QED
  BY <1>4, <1>5, ByteSizes

States == [full : Seq(PostingLists), first : BOOLEAN, index : Seq(Entries), cur : PostingLists]

LEMMA FieldsOfAState ==
  ASSUME NEW st \in States
  PROVE  /\ st.full \in Seq(PostingLists) /\ st.first \in BOOLEAN
         /\ st.index \in Seq(Entries) /\ st.cur \in PostingLists
BY DEF States

\* Whether Deal takes the posting for the first of its bucket.
Opens(st, delta) == st.first \/ Bucket(st.cur.largest + delta) # Bucket(st.cur.largest)

\* The difference goes to the list that is being filled ...
GoesOn(r, st, delta, blockSize) ==
  /\ r.full = st.full
  /\ r.cur.posts = st.cur.posts /\ r.cur.index = st.cur.index
  /\ r.cur.newPosts = Append(st.cur.newPosts, delta)
  /\ Len(r.cur.newIndices) = Len(st.cur.newIndices) + IF Opens(st, delta) THEN 1 ELSE 0
  /\ GetByteSize(r.cur) <= blockSize

\* ... or that list is full, and the difference begins the next.
GoesToTheNext(r, st, delta, blockSize) ==
  /\ r.full = Append(st.full, st.cur)
  /\ r.cur.posts = <<>> /\ r.cur.newPosts = <<delta>> /\ GetByteSize(r.cur) = Bytes(1, 1)
  /\ GetByteSize(st.cur) + (DeltaSize + EntrySize) > blockSize

IsDealt(r, st, delta, blockSize) ==
  /\ r \in States /\ ~r.first /\ r.cur.largest = st.cur.largest + delta
  /\ GoesOn(r, st, delta, blockSize) \/ GoesToTheNext(r, st, delta, blockSize)

LEMMA EmptyListIsEmpty == IsList(EmptyList, <<>>, <<>>, 0, 0, <<>>, <<>>)
<1>. DEFINE none == <<>>
<1>1. none \in Seq(Int) /\ none \in Seq(Entries)
  OBVIOUS
<1>2. EmptyList = [posts |-> none, index |-> none, largest |-> 0,
                   orig |-> 0, newPosts |-> none, newIndices |-> none]
  BY DEF EmptyList, NoPostings, PostingListOf
<1>. HIDE DEF none
<1>3. IsList(EmptyList, none, none, 0, 0, none, none)
  BY <1>1, <1>2 DEF IsList, PostingLists
<1>. QED
  BY <1>3 DEF none

LEMMA Dealt ==
  ASSUME NEW st \in States, NEW delta \in Int, NEW blockSize \in Int
  PROVE  IsDealt(Deal(blockSize, st, delta), st, delta, blockSize)
<1>. DEFINE largest == st.cur.largest + delta
            indexed == st.first \/ Bucket(largest) # Bucket(largest - delta)
            size    == DeltaSize + IF indexed THEN EntrySize ELSE 0
            full    == GetByteSize(st.cur) + size > blockSize
            read    == IF st.index = <<>> THEN GarbageEntry ELSE Head(st.index)
            to      == IF full THEN EmptyList ELSE st.cur
            newPosts == Append(to.newPosts, delta)
            newIndices == IF indexed THEN Append(to.newIndices, read)
                          ELSE IF full THEN Append(to.newIndices, <<largest, 0>>) ELSE to.newIndices
            cur     == [to EXCEPT !.largest = largest, !.newPosts = newPosts, !.newIndices = newIndices]
            fulls   == IF full THEN Append(st.full, st.cur) ELSE st.full
            index   == IF indexed /\ st.index # <<>> THEN Tail(st.index) ELSE st.index
            r       == [full |-> fulls, first |-> FALSE, index |-> index, cur |-> cur]
<1>1. /\ st.full \in Seq(PostingLists) /\ st.first \in BOOLEAN
      /\ st.index \in Seq(Entries) /\ st.cur \in PostingLists /\ st.cur.largest \in Int
  BY FieldsOfAState, FieldsOfAList
<1>2. largest \in Int /\ largest - delta = st.cur.largest
  BY <1>1
<1>3. indexed <=> Opens(st, delta)
  BY <1>2 DEF Opens
<1>4. read \in Entries /\ <<largest, 0>> \in Entries
  <2>1. st.index # <<>> => Head(st.index) \in Entries
    BY <1>1
  <2>. QED
    BY <1>2, <2>1 DEF Entries
<1>5. Deal(blockSize, st, delta) = r
  <2>1. cur = [to EXCEPT !.largest = largest, !.newPosts = Append(@, delta),
                         !.newIndices = IF indexed THEN Append(@, read)
                                        ELSE IF full THEN Append(@, <<largest, 0>>) ELSE @]
    OBVIOUS
  <2>. QED
    BY <2>1, Zenon DEF Deal
<1>6. index \in Seq(Entries)
  BY <1>1
<1>7. fulls \in Seq(PostingLists)
  BY <1>1
<1>8. /\ to \in PostingLists /\ to.newPosts \in Seq(Int) /\ to.newIndices \in Seq(Entries)
      /\ to.posts \in Seq(Int) /\ to.index \in Seq(Entries)
  <2>1. to \in PostingLists
    BY <1>1, EmptyListIsEmpty DEF IsList
  <2>. QED
    BY <2>1, FieldsOfAList
<1>9. newPosts \in Seq(Int) /\ newIndices \in Seq(Entries)
  <2>. HIDE DEF to, read, full, indexed, largest
  <2>. QED
    BY <1>4, <1>8
<1>10. IsList(cur, to.posts, to.index, largest, to.orig, newPosts, newIndices)
  <2>. HIDE DEF to, newPosts, newIndices, largest
  <2>. QED
    BY <1>2, <1>8, <1>9, ListWith
<1>. HIDE DEF cur, index, fulls
<1>11. r \in States /\ r.full = fulls /\ r.cur = cur /\ r.first = FALSE
  <2>1. cur \in PostingLists
    BY <1>10 DEF IsList
  <2>. QED
    BY <1>6, <1>7, <2>1 DEF States
<1>. HIDE DEF r
<1>12. /\ cur \in PostingLists /\ cur.posts = to.posts /\ cur.index = to.index
       /\ cur.largest = largest /\ cur.newPosts = newPosts /\ cur.newIndices = newIndices
  BY <1>10 DEF IsList
<1>13. GetByteSize(cur) = Bytes(Len(to.posts) + Len(newPosts), Len(to.index) + Len(newIndices))
  BY <1>12, ByteSizeOfAList
<1>14. GetByteSize(st.cur) \in Nat /\ DeltaSize \in Nat /\ EntrySize \in Nat
  BY <1>1, ByteSizeOfAList, SizesAssumption
<1>15. CASE full
  <2>1. to = EmptyList /\ fulls = Append(st.full, st.cur)
    BY <1>15 DEF fulls
  <2>2. to.posts = <<>> /\ to.index = <<>> /\ to.newPosts = <<>> /\ to.newIndices = <<>>
    BY <2>1, EmptyListIsEmpty DEF IsList
  <2>3. newPosts = <<delta>> /\ Len(newIndices) = 1
    <3>. HIDE DEF full, read, to, indexed
    <3>1. newPosts = <<delta>>
      BY <2>2
    <3>2. newIndices = IF indexed THEN Append(<<>>, read) ELSE Append(<<>>, <<largest, 0>>)
      BY <1>15, <2>2
    <3>. HIDE DEF newIndices
    <3>. QED
      BY <1>4, <3>1, <3>2
  <2>4. GetByteSize(cur) = Bytes(1, 1)
    <3>1. Len(to.posts) = 0 /\ Len(to.index) = 0 /\ Len(newPosts) = 1
      BY <2>2, <2>3
    <3>. HIDE DEF to, newPosts, newIndices
    <3>. QED
      BY <1>13, <2>3, <3>1
  <2>5. GetByteSize(st.cur) + (DeltaSize + EntrySize) > blockSize
    <3>. HIDE DEF indexed
    <3>. QED
      BY <1>14, <1>15
  <2>6. GoesToTheNext(r, st, delta, blockSize)
    <3>. HIDE DEF to, newPosts, newIndices
    <3>. QED
      BY <1>11, <1>12, <2>1, <2>2, <2>3, <2>4, <2>5 DEF GoesToTheNext
  <2>. QED
    BY <1>5, <1>11, <1>12, <2>6 DEF IsDealt
<1>16. CASE ~full
  <2>1. to = st.cur /\ fulls = st.full
    BY <1>16 DEF fulls
  <2>2. newIndices = IF indexed THEN Append(st.cur.newIndices, read) ELSE st.cur.newIndices
    <3>. HIDE DEF full, read, to, indexed
    <3>. QED
      BY <1>16, <2>1
  <2>3. newPosts = Append(st.cur.newPosts, delta)
    BY <2>1, Zenon
  <2>. HIDE DEF to, newPosts, newIndices
  <2>4. Len(newPosts) = Len(st.cur.newPosts) + 1 /\ Len(st.cur.newPosts) \in Nat
    BY <1>8, <2>1, <2>3
  <2>5. /\ Len(newIndices) = Len(st.cur.newIndices) + IF indexed THEN 1 ELSE 0
        /\ Len(st.cur.newIndices) \in Nat
    <3>. DEFINE s == st.cur.newIndices
    <3>1. s \in Seq(Entries)
      BY <1>8, <2>1
    <3>. HIDE DEF read, indexed, s
    <3>2. Len(Append(s, read)) = Len(s) + 1 /\ Len(s) \in Nat
      BY <1>4, <3>1
    <3>3. newIndices = IF indexed THEN Append(s, read) ELSE s
      BY <2>2 DEF s
    <3>4. Len(newIndices) = Len(s) + IF indexed THEN 1 ELSE 0
      BY <3>2, <3>3
    <3>. QED
      BY <3>2, <3>4 DEF s
  <2>6. Len(st.cur.posts) \in Nat /\ Len(st.cur.index) \in Nat
    BY <1>8, <2>1
  <2>7. GetByteSize(cur) <= blockSize
    <3>. DEFINE a == Len(st.cur.posts)
                b == Len(st.cur.newPosts)
                c == Len(st.cur.index)
                d == Len(st.cur.newIndices)
                p == a + b
                i == c + d
                k == IF indexed THEN 1 ELSE 0
    <3>1. a \in Nat /\ b \in Nat /\ c \in Nat /\ d \in Nat
      BY <2>4, <2>5, <2>6
    <3>2. GetByteSize(st.cur) = Bytes(p, i)
      BY <1>1, ByteSizeOfAList
    <3>3. GetByteSize(cur) = Bytes(a + (b + 1), c + (d + k))
      <4>1. Len(to.posts) = a /\ Len(newPosts) = b + 1 /\ Len(to.index) = c /\ Len(newIndices) = d + k
        BY <2>1, <2>4, <2>5, Zenon
      <4>. QED
        BY <1>13, <4>1, Zenon
    <3>. HIDE DEF a, b, c, d
    <3>4. a + (b + 1) = p + 1 /\ c + (d + k) = (IF indexed THEN i + 1 ELSE i) /\ p \in Nat /\ i \in Nat
      BY <3>1
    <3>5. GetByteSize(cur) = Bytes(p + 1, IF indexed THEN i + 1 ELSE i)
      BY <3>3, <3>4, Zenon
    <3>. HIDE DEF p, i, indexed, k
    <3>6. GetByteSize(cur) = Bytes(p, i) + size /\ Bytes(p, i) \in Nat
      <4>1. CASE indexed
        BY <1>14, <3>4, <3>5, <4>1, ByteSizes
      <4>2. CASE ~indexed
        <5>1. GetByteSize(cur) = Bytes(p + 1, i) /\ size = DeltaSize
          BY <1>14, <3>5, <4>2
        <5>2. Bytes(p + 1, i) = Bytes(p, i) + DeltaSize /\ Bytes(p, i) \in Nat
          BY <3>4, ByteSizes
        <5>. QED
          BY <5>1, <5>2
      <4>. QED
        BY <4>1, <4>2
    <3>. QED
      BY <1>14, <1>16, <3>2, <3>6
  <2>8. GoesOn(r, st, delta, blockSize)
    BY <1>3, <1>11, <1>12, <2>1, <2>3, <2>5, <2>7 DEF GoesOn
  <2>. QED
    BY <1>5, <1>11, <1>12, <2>8 DEF IsDealt
<1>. QED
  BY <1>15, <1>16

SplitStart(list) ==
  [full  |-> <<>>, first |-> TRUE, index |-> list.newIndices,
   cur   |-> [list EXCEPT !.largest = list.orig, !.newPosts = <<>>, !.newIndices = <<>>]]

AreDealt(dealt, list, blockSize) ==
  /\ dealt \in [0..Len(list.newPosts) -> States] /\ dealt[0] = SplitStart(list)
  /\ \A n \in 1..Len(list.newPosts) : IsDealt(dealt[n], dealt[n - 1], list.newPosts[n], blockSize)

LEMMA SplitStartsWithTheList ==
  ASSUME NEW list \in PostingLists
  PROVE  LET st == SplitStart(list)
         IN  /\ st \in States /\ st.first /\ st.full = <<>>
             /\ IsList(st.cur, list.posts, list.index, list.orig, list.orig, <<>>, <<>>)
<1>. DEFINE st == SplitStart(list)
            largest == list.orig
            none == <<>>
            cur == [list EXCEPT !.largest = largest, !.newPosts = none, !.newIndices = none]
            index == list.newIndices
<1>1. largest \in Int /\ none \in Seq(Int) /\ none \in Seq(Entries) /\ none \in Seq(PostingLists)
      /\ index \in Seq(Entries)
  BY FieldsOfAList
<1>2. IsList(cur, list.posts, list.index, largest, list.orig, none, none)
  <2>. HIDE DEF largest, none
  <2>. QED
    BY <1>1, ListWith
<1>3. cur \in PostingLists
  BY <1>2 DEF IsList
<1>4. st = [full |-> none, first |-> TRUE, index |-> index, cur |-> cur]
  BY DEF SplitStart
<1>. HIDE DEF cur, none, st, index
<1>5. st \in States /\ st.first /\ st.full = none /\ st.cur = cur
  BY <1>1, <1>3, <1>4 DEF States
<1>. QED
  BY <1>2, <1>5 DEF none, st

LEMMA SplitStepwise ==
  ASSUME NEW list \in PostingLists, NEW blockSize \in Int
  PROVE  \E dealt : /\ AreDealt(dealt, list, blockSize)
                    /\ Split(list, blockSize) =
                         IF GetByteSize(list) <= blockSize THEN <<list>>
                         ELSE LET all == dealt[Len(list.newPosts)] IN Append(all.full, all.cur)
<1>. DEFINE posts == list.newPosts
            N == Len(posts)
            start == [full  |-> <<>>, first |-> TRUE, index |-> list.newIndices,
                      cur   |-> [list EXCEPT !.largest = list.orig, !.newPosts = <<>>,
                                             !.newIndices = <<>>]]
            dealt[n \in 0..Len(list.newPosts)] ==
              IF n = 0 THEN start ELSE Deal(blockSize, dealt[n - 1], list.newPosts[n])
            next == [p \in (1..N) \X States |-> Deal(blockSize, p[2], posts[p[1]])]
<1>1. Split(list, blockSize) =
        IF GetByteSize(list) <= blockSize THEN <<list>>
        ELSE LET all == dealt[Len(list.newPosts)] IN Append(all.full, all.cur)
  BY Zenon DEF Split
<1>2. start = SplitStart(list)
  BY Zenon DEF SplitStart
<1>3. start \in States
  BY <1>2, SplitStartsWithTheList
<1>4. N \in Nat /\ \A n \in 1..N : posts[n] \in Int
  <2>1. posts \in Seq(Int)
    BY FieldsOfAList
  <2>. QED
    BY <2>1
<1>. HIDE DEF N, start, posts
<1>5. \A st \in States, delta \in Int : Deal(blockSize, st, delta) \in States
  BY Dealt DEF IsDealt
<1>6. next \in [(1..N) \X States -> States]
      /\ \A n \in 1..N, st \in States : next[<<n, st>>] = Deal(blockSize, st, posts[n])
  BY <1>4, <1>5
<1>. HIDE DEF next
<1>7. PICK f : AreResults(f, N, States, start, next)
  BY <1>3, <1>4, <1>6, ResultsExist
<1>8. ASSUME NEW n \in 1..N PROVE f[n] = Deal(blockSize, f[n - 1], posts[n]) /\ f[n - 1] \in States
  <2>1. n - 1 \in 0..N
    BY <1>4
  <2>2. f[n - 1] \in States /\ f[n] = next[<<n, f[n - 1]>>]
    BY <1>7, <2>1 DEF AreResults
  <2>. QED
    BY <1>6, <2>2
<1>9. \A n \in 0..N : f[n] = IF n = 0 THEN start ELSE Deal(blockSize, f[n - 1], posts[n])
  BY <1>4, <1>7, <1>8 DEF AreResults
<1>10. f = [n \in 0..N |-> IF n = 0 THEN start ELSE Deal(blockSize, f[n - 1], posts[n])]
  BY <1>7, <1>9 DEF AreResults
<1>11. dealt = [n \in 0..N |-> IF n = 0 THEN start ELSE Deal(blockSize, dealt[n - 1], posts[n])]
  BY <1>10, Zenon DEF N, posts
<1>. HIDE DEF dealt
<1>12. \A n \in 0..N : dealt[n] = IF n = 0 THEN start ELSE Deal(blockSize, dealt[n - 1], posts[n])
  BY <1>11, Zenon
<1>. DEFINE T == {n \in 0..N : dealt[n] \in States}
<1>13. 0 \in T
  BY <1>3, <1>4, <1>12
<1>14. ASSUME NEW n \in 1..N, n - 1 \in T PROVE n \in T
  BY <1>4, <1>5, <1>12, <1>14
<1>. HIDE DEF T
<1>15. 0..N \subseteq T
  BY <1>4, <1>13, <1>14, UpToBound
<1>16. dealt \in [0..N -> States]
  BY <1>11, <1>15 DEF T
<1>17. ASSUME NEW n \in 1..N PROVE IsDealt(dealt[n], dealt[n - 1], posts[n], blockSize)
  <2>1. n \in 0..N /\ n # 0 /\ n - 1 \in 0..N
    BY <1>4
  <2>2. dealt[n] = Deal(blockSize, dealt[n - 1], posts[n]) /\ dealt[n - 1] \in States
    BY <1>12, <1>16, <2>1
  <2>. QED
    BY <1>4, <2>2, Dealt
<1>18. dealt[0] = start
  BY <1>4, <1>12
<1>19. AreDealt(dealt, list, blockSize)
  BY <1>2, <1>16, <1>17, <1>18 DEF AreDealt, N, posts
<1>. QED
  BY <1>1, <1>19

\* The differences of lists, list by list.
PostsOf(lists) == [i \in 1..Len(lists) |-> Cat(lists[i].posts, lists[i].newPosts)]

LEMMA PostsOfType ==
  ASSUME NEW lists \in Seq(PostingLists)
  PROVE  /\ PostsOf(lists) \in Seq(Seq(Int)) /\ Len(PostsOf(lists)) = Len(lists)
         /\ \A i \in 1..Len(lists) : PostsOf(lists)[i] = Cat(lists[i].posts, lists[i].newPosts)
<1>. DEFINE N == Len(lists)
            r == [i \in 1..N |-> Cat(lists[i].posts, lists[i].newPosts)]
<1>1. N \in Nat /\ \A i \in 1..N : lists[i] \in PostingLists
  OBVIOUS
<1>2. \A i \in 1..N : Cat(lists[i].posts, lists[i].newPosts) \in Seq(Int)
  BY <1>1, FieldsOfAList, CatProperties DEF IsCat
<1>. HIDE DEF N
<1>3. r \in [1..N -> Seq(Int)]
  BY <1>2
<1>4. r \in Seq(Seq(Int)) /\ Len(r) = N
  BY <1>1, <1>3, IsASeq
<1>. QED
  BY <1>4 DEF PostsOf, N

LEMMA PostsOfAppend ==
  ASSUME NEW lists \in Seq(PostingLists), NEW l \in PostingLists
  PROVE  PostsOf(Append(lists, l)) = Append(PostsOf(lists), Cat(l.posts, l.newPosts))
<1>. DEFINE N == Len(lists)
            x == Cat(l.posts, l.newPosts)
            more == Append(lists, l)
            a == PostsOf(more)
            p == PostsOf(lists)
            b == Append(p, x)
<1>1. /\ N \in Nat /\ more \in Seq(PostingLists) /\ Len(more) = N + 1
      /\ more[N + 1] = l /\ \A i \in 1..N : more[i] = lists[i]
  OBVIOUS
<1>2. x \in Seq(Int)
  BY FieldsOfAList, CatProperties DEF IsCat
<1>3. /\ p \in Seq(Seq(Int)) /\ Len(p) = N
      /\ \A i \in 1..N : p[i] = Cat(lists[i].posts, lists[i].newPosts)
  BY PostsOfType
<1>. HIDE DEF p, more, x, N
<1>4. /\ a \in Seq(Seq(Int)) /\ Len(a) = Len(more)
      /\ \A i \in 1..Len(more) : a[i] = Cat(more[i].posts, more[i].newPosts)
  BY <1>1, PostsOfType
<1>. HIDE DEF a
<1>5. b \in Seq(Seq(Int)) /\ Len(b) = N + 1 /\ b[N + 1] = x /\ \A i \in 1..N : b[i] = p[i]
  BY <1>2, <1>3
<1>. HIDE DEF b
<1>6. ASSUME NEW i \in 1..N + 1 PROVE a[i] = b[i]
  <2>1. a[i] = Cat(more[i].posts, more[i].newPosts)
    BY <1>1, <1>4
  <2>2. CASE i = N + 1
    BY <1>1, <1>5, <2>1, <2>2 DEF x
  <2>3. CASE i # N + 1
    <3>1. i \in 1..N
      BY <1>1, <2>3
    <3>. QED
      BY <1>1, <1>3, <1>5, <2>1, <3>1
  <2>. QED
    BY <2>2, <2>3
<1>7. Len(a) = Len(b) /\ \A i \in 1..Len(a) : a[i] = b[i]
  BY <1>1, <1>4, <1>5, <1>6
<1>8. a = b
  BY <1>4, <1>5, <1>7, SeqEqual
<1>. QED
  BY <1>8 DEF a, b, x, more, p

LEMMA JoinedAppend ==
  ASSUME NEW seqs \in Seq(Seq(Int)), NEW x \in Seq(Int)
  PROVE  Joined(Append(seqs, x)) = Cat(Joined(seqs), x)
<1>. DEFINE S == Seq(Int)
            one == <<x>>
<1>1. one \in Seq(S) /\ seqs \in Seq(S) /\ x \in S
  OBVIOUS
<1>. HIDE DEF S
<1>2. Append(seqs, x) = Cat(seqs, one)
  BY <1>1, AppendIsCat
<1>. HIDE DEF one
<1>3. Joined(Cat(seqs, one)) = Cat(Joined(seqs), Joined(one))
  BY <1>1, JoinedConcat DEF S
<1>4. Joined(one) = x
  BY JoinedOne DEF one
<1>. QED
  BY <1>2, <1>3, <1>4

LEMMA CatAppend ==
  ASSUME NEW x \in Seq(Int), NEW y \in Seq(Int), NEW e \in Int
  PROVE  Cat(x, Append(y, e)) = Append(Cat(x, y), e)
<1>. DEFINE one == <<e>>
<1>1. one \in Seq(Int)
  OBVIOUS
<1>2. Append(y, e) = Cat(y, one) /\ Cat(x, y) \in Seq(Int)
  BY AppendIsCat, CatProperties DEF IsCat
<1>3. Append(Cat(x, y), e) = Cat(Cat(x, y), one)
  BY <1>2, AppendIsCat
<1>. HIDE DEF one
<1>. QED
  BY <1>1, <1>2, <1>3, CatAssociative

\* What Deal has made of the differences of l, a list in the making.
Deals(st, l, blockSize) ==
  /\ st \in States /\ l \in PostingLists /\ st.cur.largest = l.largest
  /\ GetByteSize(st.cur) <= blockSize
  /\ \A i \in 1..Len(st.full) : GetByteSize(st.full[i]) <= blockSize
  /\ Cat(Joined(PostsOf(st.full)), Cat(st.cur.posts, st.cur.newPosts)) = Cat(l.posts, l.newPosts)
  /\ st.first \/ l.index # <<>> \/ l.newIndices # <<>>
  /\ IF st.full = <<>>
     THEN /\ st.cur.posts = l.posts /\ st.cur.index = l.index
          /\ Len(st.cur.newPosts) = Len(l.newPosts)
          /\ Len(l.newIndices) <= Len(st.cur.newIndices)
     ELSE /\ st.full[1].posts = l.posts /\ st.full[1].index = l.index
          /\ GetByteSize(st.full[1]) + (DeltaSize + EntrySize) > blockSize

\* A difference that goes on is that of the next posting.
LEMMA DealsOn ==
  ASSUME NEW blockSize \in Int, NEW st, NEW l, Deals(st, l, blockSize),
         NEW p \in Int, NEW k, IsAddedTo(k, l, p), NEW r,
         IsDealt(r, st, p - l.largest, blockSize), GoesOn(r, st, p - l.largest, blockSize)
  PROVE  Deals(r, k, blockSize)
<1>. DEFINE delta == p - l.largest
<1>1. /\ st \in States /\ l \in PostingLists /\ st.cur.largest = l.largest /\ l.largest \in Int
      /\ l.newPosts \in Seq(Int) /\ l.newIndices \in Seq(Entries) /\ l.posts \in Seq(Int)
      /\ st.full \in Seq(PostingLists) /\ st.cur \in PostingLists
  BY FieldsOfAState, FieldsOfAList DEF Deals
<1>2. delta \in Int /\ st.cur.largest + delta = p
  BY <1>1
<1>. DEFINE entry == <<p, Len(l.posts) + Len(l.newPosts)>>
<1>3. /\ k \in PostingLists /\ k.posts = l.posts /\ k.index = l.index /\ k.largest = p
      /\ k.newPosts = Append(l.newPosts, delta)
      /\ k.newIndices = IF Indexes(l, p) THEN Append(l.newIndices, entry) ELSE l.newIndices
  BY DEF IsAddedTo, IsList
<1>. HIDE DEF delta, entry
<1>4. /\ r \in States /\ ~r.first /\ r.cur.largest = p /\ r.full = st.full
      /\ r.cur.posts = st.cur.posts /\ r.cur.index = st.cur.index
      /\ r.cur.newPosts = Append(st.cur.newPosts, delta)
      /\ Len(r.cur.newIndices) = Len(st.cur.newIndices) + IF Opens(st, delta) THEN 1 ELSE 0
      /\ GetByteSize(r.cur) <= blockSize
  BY <1>2 DEF IsDealt, GoesOn, delta
<1>5. k.index # <<>> \/ k.newIndices # <<>>
  <2>1. CASE Indexes(l, p)
    <3>. DEFINE li == l.newIndices
    <3>1. k.newIndices = Append(li, entry) /\ li \in Seq(Entries)
      BY <1>1, <1>3, <2>1
    <3>. HIDE DEF li
    <3>2. Len(k.newIndices) = Len(li) + 1 /\ Len(li) \in Nat
      BY <3>1
    <3>. QED
      BY <3>2
  <2>2. CASE ~Indexes(l, p)
    BY <1>3, <2>2 DEF Indexes
  <2>. QED
    BY <2>1, <2>2
<1>6. Indexes(l, p) => Opens(st, delta)
  <2>1. Bucket(p) \in Int /\ Bucket(l.largest) \in Int
    BY <1>1, SizesAssumption DEF Bucket
  <2>. QED
    BY <1>1, <1>2, <2>1 DEF Indexes, Opens, Deals
<1>. DEFINE done == Joined(PostsOf(st.full))
            old == Cat(st.cur.posts, st.cur.newPosts)
            new == Cat(r.cur.posts, r.cur.newPosts)
<1>7. /\ done \in Seq(Int) /\ old \in Seq(Int)
      /\ st.cur.posts \in Seq(Int) /\ st.cur.newPosts \in Seq(Int)
      /\ st.cur.newIndices \in Seq(Entries)
  BY <1>1, PostsOfType, JoinedType, FieldsOfAList, CatProperties DEF IsCat
<1>8. new = Append(old, delta)
  <2>1. Cat(st.cur.posts, Append(st.cur.newPosts, delta)) = Append(old, delta)
    BY <1>2, <1>7, CatAppend
  <2>. QED
    BY <1>4, <2>1
<1>9. Cat(k.posts, k.newPosts) = Append(Cat(l.posts, l.newPosts), delta)
  BY <1>1, <1>2, <1>3, CatAppend
<1>. HIDE DEF done, old, new
<1>10. Cat(done, new) = Append(Cat(done, old), delta)
  BY <1>2, <1>7, <1>8, CatAppend
<1>11. Cat(Joined(PostsOf(r.full)), Cat(r.cur.posts, r.cur.newPosts)) = Cat(k.posts, k.newPosts)
  BY <1>4, <1>9, <1>10 DEF Deals, done, old, new
<1>12. CASE st.full = <<>>
  <2>1. /\ st.cur.posts = l.posts /\ st.cur.index = l.index
        /\ Len(st.cur.newPosts) = Len(l.newPosts)
        /\ Len(l.newIndices) <= Len(st.cur.newIndices)
    BY <1>12 DEF Deals
  <2>. DEFINE cp == st.cur.newPosts
              ci == st.cur.newIndices
              lp == l.newPosts
              li == l.newIndices
  <2>2. Len(r.cur.newPosts) = Len(k.newPosts)
    <3>1. Len(Append(cp, delta)) = Len(cp) + 1 /\ Len(Append(lp, delta)) = Len(lp) + 1
      BY <1>1, <1>7
    <3>. QED
      BY <1>3, <1>4, <2>1, <3>1
  <2>3. Len(k.newIndices) <= Len(r.cur.newIndices)
    <3>1. Len(ci) \in Nat /\ Len(li) \in Nat /\ Len(Append(li, entry)) = Len(li) + 1
      BY <1>1, <1>7
    <3>2. Len(k.newIndices) = IF Indexes(l, p) THEN Len(li) + 1 ELSE Len(li)
      BY <1>3, <3>1, Zenon
    <3>3. Len(r.cur.newIndices) = Len(ci) + IF Opens(st, delta) THEN 1 ELSE 0
      BY <1>4
    <3>4. Len(li) <= Len(ci)
      BY <2>1
    <3>. HIDE DEF ci, li
    <3>. QED
      BY <1>6, <3>1, <3>2, <3>3, <3>4
  <2>. QED
    BY <1>3, <1>4, <1>5, <1>11, <1>12, <2>1, <2>2, <2>3 DEF Deals
<1>13. CASE st.full # <<>>
  BY <1>3, <1>4, <1>5, <1>11, <1>13 DEF Deals
<1>. QED
  BY <1>12, <1>13

\* A list that is full is left, and the difference begins the next.
LEMMA DealsNext ==
  ASSUME NEW blockSize \in Int, Bytes(1, 1) <= blockSize, NEW st, NEW l, Deals(st, l, blockSize),
         NEW p \in Int, NEW k, IsAddedTo(k, l, p), NEW r,
         IsDealt(r, st, p - l.largest, blockSize), GoesToTheNext(r, st, p - l.largest, blockSize)
  PROVE  Deals(r, k, blockSize)
<1>. DEFINE delta == p - l.largest
            full == st.full
            cur == st.cur
            last == Cat(cur.posts, cur.newPosts)
            one == <<delta>>
<1>1. /\ st \in States /\ l \in PostingLists /\ cur.largest = l.largest /\ l.largest \in Int
      /\ l.newPosts \in Seq(Int) /\ l.newIndices \in Seq(Entries) /\ l.posts \in Seq(Int)
      /\ full \in Seq(PostingLists) /\ cur \in PostingLists
      /\ cur.posts \in Seq(Int) /\ cur.newPosts \in Seq(Int)
      /\ GetByteSize(cur) <= blockSize
  BY FieldsOfAState, FieldsOfAList DEF Deals
<1>2. delta \in Int /\ cur.largest + delta = p
  BY <1>1
<1>3. /\ k \in PostingLists /\ k.posts = l.posts /\ k.index = l.index /\ k.largest = p
      /\ k.newPosts = Append(l.newPosts, delta)
  BY DEF IsAddedTo, IsList
<1>4. /\ r \in States /\ ~r.first /\ r.cur.largest = p /\ r.full = Append(full, cur)
      /\ r.cur.posts = <<>> /\ r.cur.newPosts = one /\ GetByteSize(r.cur) = Bytes(1, 1)
      /\ GetByteSize(cur) + (DeltaSize + EntrySize) > blockSize
  BY <1>2 DEF IsDealt, GoesToTheNext
<1>5. k.index # <<>> \/ k.newIndices # <<>>
  <2>1. CASE Indexes(l, p)
    <3>. DEFINE li == l.newIndices
                entry == <<p, Len(l.posts) + Len(l.newPosts)>>
    <3>1. k.newIndices = Append(li, entry) /\ li \in Seq(Entries)
      BY <1>1, <2>1 DEF IsAddedTo, IsList
    <3>. HIDE DEF li, entry
    <3>2. Len(k.newIndices) = Len(li) + 1 /\ Len(li) \in Nat
      BY <3>1
    <3>. QED
      BY <3>2
  <2>2. CASE ~Indexes(l, p)
    <3>1. k.index = l.index /\ k.newIndices = l.newIndices
      BY <2>2 DEF IsAddedTo, IsList
    <3>. QED
      BY <2>2, <3>1 DEF Indexes
  <2>. QED
    BY <2>1, <2>2
<1>6. one \in Seq(Int)
  BY <1>2
<1>. HIDE DEF one, delta
<1>. DEFINE done == Joined(PostsOf(full))
<1>7. done \in Seq(Int) /\ last \in Seq(Int) /\ PostsOf(full) \in Seq(Seq(Int))
  BY <1>1, PostsOfType, JoinedType, CatProperties DEF IsCat
<1>8. Joined(PostsOf(r.full)) = Cat(done, last)
  <2>1. PostsOf(r.full) = Append(PostsOf(full), last)
    BY <1>1, <1>4, PostsOfAppend
  <2>. QED
    BY <1>7, <2>1, JoinedAppend
<1>9. Cat(r.cur.posts, r.cur.newPosts) = one
  BY <1>4, <1>6, CatEmpty
<1>10. Cat(k.posts, k.newPosts) = Append(Cat(l.posts, l.newPosts), delta)
  <2>1. Cat(l.posts, Append(l.newPosts, delta)) = Append(Cat(l.posts, l.newPosts), delta)
    BY <1>1, <1>2, CatAppend
  <2>. QED
    BY <1>3, <2>1
<1>11. Cat(done, last) = Cat(l.posts, l.newPosts)
  BY DEF Deals
<1>12. Cat(Cat(done, last), one) = Append(Cat(done, last), delta)
  <2>. DEFINE z == Cat(done, last)
  <2>1. z \in Seq(Int)
    BY <1>7, CatProperties DEF IsCat
  <2>. HIDE DEF z
  <2>2. one = <<delta>>
    BY DEF one
  <2>3. Append(z, delta) = Cat(z, <<delta>>)
    BY <1>2, <2>1, AppendIsCat
  <2>. QED
    BY <2>2, <2>3 DEF z
<1>. HIDE DEF done, last
<1>13. Cat(Joined(PostsOf(r.full)), Cat(r.cur.posts, r.cur.newPosts)) = Cat(k.posts, k.newPosts)
  BY <1>8, <1>9, <1>10, <1>11, <1>12, Zenon
<1>14. /\ r.full # <<>> /\ \A i \in 1..Len(r.full) : GetByteSize(r.full[i]) <= blockSize
       /\ r.full[1] = IF full = <<>> THEN cur ELSE full[1]
  <2>1. \A i \in 1..Len(full) : GetByteSize(full[i]) <= blockSize
    BY DEF Deals
  <2>. HIDE DEF full, cur
  <2>2. /\ Len(full) \in Nat /\ Len(r.full) = Len(full) + 1 /\ r.full[Len(full) + 1] = cur
        /\ \A i \in 1..Len(full) : r.full[i] = full[i]
    BY <1>1, <1>4
  <2>3. r.full # <<>>
    BY <2>2
  <2>4. ASSUME NEW i \in 1..Len(r.full) PROVE GetByteSize(r.full[i]) <= blockSize
    <3>1. CASE i = Len(full) + 1
      BY <1>1, <2>2, <3>1
    <3>2. CASE i # Len(full) + 1
      <4>1. i \in 1..Len(full)
        BY <2>2, <3>2
      <4>. QED
        BY <2>1, <2>2, <4>1
    <3>. QED
      BY <3>1, <3>2
  <2>5. r.full[1] = IF full = <<>> THEN cur ELSE full[1]
    <3>1. full = <<>> => Len(full) = 0
      OBVIOUS
    <3>2. full # <<>> => Len(full) > 0
      BY <1>1
    <3>. QED
      BY <2>2, <3>1, <3>2
  <2>. QED
    BY <2>3, <2>4, <2>5
<1>15. /\ r.full[1].posts = k.posts /\ r.full[1].index = k.index
       /\ GetByteSize(r.full[1]) + (DeltaSize + EntrySize) > blockSize
  <2>1. CASE full = <<>>
    <3>1. cur.posts = l.posts /\ cur.index = l.index
      BY <2>1 DEF Deals
    <3>. QED
      BY <1>3, <1>4, <1>14, <2>1, <3>1
  <2>2. CASE full # <<>>
    <3>1. /\ full[1].posts = l.posts /\ full[1].index = l.index
          /\ GetByteSize(full[1]) + (DeltaSize + EntrySize) > blockSize
      BY <2>2 DEF Deals
    <3>. QED
      BY <1>3, <1>14, <2>2, <3>1
  <2>. QED
    BY <2>1, <2>2
<1>16. GetByteSize(r.cur) <= blockSize
  BY <1>4
<1>. QED
  BY <1>3, <1>4, <1>5, <1>13, <1>14, <1>15, <1>16 DEF Deals

\* What Split makes of a list that does not fit.
IsSplit(split, list, blockSize) ==
  /\ split \in Seq(PostingLists) /\ Len(split) > 0
  /\ Joined(PostsOf(split)) = Cat(list.posts, list.newPosts)
  /\ split[Len(split)].largest = list.largest
  /\ \A i \in 1..Len(split) : GetByteSize(split[i]) <= blockSize
  /\ split[1].posts = list.posts /\ split[1].index = list.index
  /\ Len(split) = 1 => split = <<list>>
  /\ Len(split) > 1 => GetByteSize(split[1]) + (DeltaSize + EntrySize) > blockSize

LEMMA SplitIs ==
  ASSUME NEW l, IsUnchanged(l), NEW postings \in Seq(Int), NEW blockSize \in Int,
         Bytes(1, 1) <= blockSize, GetByteSize(l) <= blockSize
  PROVE  IsSplit(Split(AddAll(l, postings), blockSize), AddAll(l, postings), blockSize)
<1>. DEFINE N == Len(postings)
            list == AddAll(l, postings)
<1>1. l \in PostingLists /\ N \in Nat /\ l.largest \in Int
  BY FieldsOfAList DEF IsUnchanged
<1>2. PICK lists : AreAdded(lists, l, postings) /\ list = lists[N]
  BY <1>1, AddedStepwise
<1>3. /\ list \in PostingLists /\ list.posts = l.posts /\ list.index = l.index
      /\ list.orig = l.orig /\ list.newPosts = Differences(postings, l.largest)
  BY AllAdded
<1>. HIDE DEF list
<1>4. /\ Len(list.newPosts) = N
      /\ \A n \in 1..N : list.newPosts[n] = postings[n] - lists[n - 1].largest
  <2>1. /\ Len(list.newPosts) = N
        /\ \A n \in 1..N : list.newPosts[n] =
             postings[n] - IF n = 1 THEN l.largest ELSE postings[n - 1]
    BY <1>1, <1>3, DifferencesType DEF AreDifferences
  <2>2. ASSUME NEW n \in 1..N
        PROVE  lists[n - 1].largest = IF n = 1 THEN l.largest ELSE postings[n - 1]
    <3>1. n - 1 \in 0..N /\ (n - 1 = 0 <=> n = 1)
      BY <1>1
    <3>2. IsSoFar(lists[n - 1], n - 1, l, postings)
      BY <1>2, <3>1, AddedSoFar
    <3>. QED
      BY <3>1, <3>2 DEF IsSoFar
  <2>. QED
    BY <2>1, <2>2
<1>5. PICK dealt : /\ AreDealt(dealt, list, blockSize)
                   /\ Split(list, blockSize) =
                        IF GetByteSize(list) <= blockSize THEN <<list>>
                        ELSE LET all == dealt[Len(list.newPosts)] IN Append(all.full, all.cur)
  BY <1>3, SplitStepwise
<1>. DEFINE T == {n \in 0..N : Deals(dealt[n], lists[n], blockSize)}
<1>6. 0 \in T
  <2>. DEFINE st == dealt[0]
              none == <<>>
  <2>1. lists[0] = l /\ st = SplitStart(list)
    BY <1>2, <1>5 DEF AreAdded, AreDealt
  <2>2. /\ st \in States /\ st.first /\ st.full = none
        /\ IsList(st.cur, list.posts, list.index, list.orig, list.orig, none, none)
    BY <1>3, <2>1, SplitStartsWithTheList
  <2>. HIDE DEF st
  <2>3. /\ st.cur \in PostingLists /\ st.cur.posts = l.posts /\ st.cur.index = l.index
        /\ st.cur.largest = l.largest /\ st.cur.newPosts = none /\ st.cur.newIndices = none
        /\ l.newPosts = none /\ l.newIndices = none
    BY <1>3, <2>2 DEF IsList, IsUnchanged
  <2>4. GetByteSize(st.cur) = GetByteSize(l)
    BY <1>1, <2>3, ByteSizeOfAList, Zenon
  <2>5. none \in Seq(PostingLists) /\ Len(none) = 0
    OBVIOUS
  <2>6. Joined(PostsOf(none)) = <<>>
    <3>1. PostsOf(none) \in Seq(Seq(Int)) /\ Len(PostsOf(none)) = 0
      BY <2>5, PostsOfType
    <3>2. PICK j : AreJoined(j, PostsOf(none)) /\ Joined(PostsOf(none)) = j[0]
      BY <3>1, JoinedStepwise
    <3>. QED
      BY <3>2 DEF AreJoined
  <2>. DEFINE x == Cat(l.posts, l.newPosts)
  <2>7. x \in Seq(Int) /\ Cat(st.cur.posts, st.cur.newPosts) = x
    BY <1>1, <2>3, FieldsOfAList, CatProperties DEF IsCat
  <2>. HIDE DEF x
  <2>8. Cat(Joined(PostsOf(st.full)), Cat(st.cur.posts, st.cur.newPosts)) = x
    BY <2>2, <2>6, <2>7, CatEmpty
  <2>9. Deals(st, l, blockSize)
    BY <1>1, <2>2, <2>3, <2>4, <2>5, <2>8 DEF Deals, x
  <2>. QED
    BY <1>1, <2>1, <2>9 DEF st
<1>7. ASSUME NEW n \in 1..N, n - 1 \in T PROVE n \in T
  <2>. DEFINE p == postings[n]
              before == lists[n - 1]
  <2>1. n \in 0..N /\ p \in Int
    BY <1>1
  <2>2. IsAddedTo(lists[n], before, p)
    BY <1>2 DEF AreAdded
  <2>3. IsDealt(dealt[n], dealt[n - 1], p - before.largest, blockSize)
    BY <1>4, <1>5 DEF AreDealt
  <2>4. Deals(dealt[n - 1], before, blockSize)
    BY <1>7
  <2>. HIDE DEF p, before
  <2>5. Deals(dealt[n], lists[n], blockSize)
    <3>1. CASE GoesOn(dealt[n], dealt[n - 1], p - before.largest, blockSize)
      BY <2>1, <2>2, <2>3, <2>4, <3>1, DealsOn
    <3>2. CASE GoesToTheNext(dealt[n], dealt[n - 1], p - before.largest, blockSize)
      BY <2>1, <2>2, <2>3, <2>4, <3>2, DealsNext
    <3>. QED
      BY <2>3, <3>1, <3>2 DEF IsDealt
  <2>. QED
    BY <2>1, <2>5
<1>. HIDE DEF T
<1>8. 0..N \subseteq T
  BY <1>1, <1>6, <1>7, UpToBound
<1>. DEFINE all == dealt[N]
            split == Split(list, blockSize)
<1>9. Deals(all, list, blockSize)
  BY <1>1, <1>2, <1>8 DEF T
<1>. HIDE DEF all
<1>10. CASE GetByteSize(list) <= blockSize
  <2>1. split = <<list>> /\ PostsOf(<<list>>) = <<Cat(list.posts, list.newPosts)>>
    BY <1>5, <1>10 DEF PostsOf
  <2>2. Cat(list.posts, list.newPosts) \in Seq(Int)
    BY <1>3, FieldsOfAList, CatProperties DEF IsCat
  <2>3. Joined(PostsOf(split)) = Cat(list.posts, list.newPosts)
    BY <2>1, <2>2, JoinedOne
  <2>. HIDE DEF split
  <2>4. split \in Seq(PostingLists) /\ Len(split) = 1 /\ split[1] = list
    BY <1>3, <2>1
  <2>5. IsSplit(split, list, blockSize)
    BY <1>10, <2>1, <2>3, <2>4 DEF IsSplit
  <2>. QED
    BY <2>5 DEF list, split
<1>11. CASE ~(GetByteSize(list) <= blockSize)
  <2>. DEFINE full == all.full
              cur == all.cur
  <2>1. split = Append(full, cur)
    BY <1>4, <1>5, <1>11 DEF all
  <2>2. full \in Seq(PostingLists) /\ cur \in PostingLists /\ cur.largest = list.largest
    BY <1>9, FieldsOfAState DEF Deals
  <2>3. full # <<>>
    <3>1. ASSUME full = <<>> PROVE FALSE
      <4>1. /\ cur.posts = list.posts /\ cur.index = list.index
            /\ Len(cur.newPosts) = Len(list.newPosts)
            /\ Len(list.newIndices) <= Len(cur.newIndices) /\ GetByteSize(cur) <= blockSize
        BY <1>9, <3>1 DEF Deals
      <4>. DEFINE a == Len(list.posts) + Len(list.newPosts)
                  i == Len(list.index) + Len(list.newIndices)
                  j == Len(list.index) + Len(cur.newIndices)
      <4>2. a \in Nat /\ i \in Nat /\ j \in Nat /\ i <= j
        <5>1. /\ list.posts \in Seq(Int) /\ list.newPosts \in Seq(Int)
              /\ list.index \in Seq(Entries) /\ list.newIndices \in Seq(Entries)
              /\ cur.newIndices \in Seq(Entries)
          BY <1>3, <2>2, FieldsOfAList
        <5>2. /\ Len(list.posts) \in Nat /\ Len(list.newPosts) \in Nat /\ Len(list.index) \in Nat
              /\ Len(list.newIndices) \in Nat /\ Len(cur.newIndices) \in Nat
          BY <5>1, LenProperties
        <5>. HIDE DEF cur
        <5>3. \A u, v, w \in Nat : u + v \in Nat /\ (v <= w => u + v <= u + w)
          OBVIOUS
        <5>. QED
          BY <4>1, <5>2, <5>3, Zenon
      <4>3. GetByteSize(list) = Bytes(a, i) /\ GetByteSize(cur) = Bytes(a, j)
        BY <1>3, <2>2, <4>1, ByteSizeOfAList
      <4>4. GetByteSize(list) \in Nat /\ GetByteSize(cur) \in Nat
        BY <1>3, <2>2, ByteSizeOfAList
      <4>. HIDE DEF a, i, j
      <4>5. a <= a
        BY <4>2
      <4>6. Bytes(a, i) <= Bytes(a, j)
        BY <4>2, <4>5, ByteSizes
      <4>. QED
        BY <1>11, <4>1, <4>3, <4>4, <4>6
    <3>. QED
      BY <3>1
  <2>. DEFINE last == Cat(cur.posts, cur.newPosts)
  <2>4. last \in Seq(Int) /\ PostsOf(full) \in Seq(Seq(Int))
    BY <2>2, FieldsOfAList, CatProperties, PostsOfType DEF IsCat
  <2>5. PostsOf(split) = Append(PostsOf(full), last)
    BY <2>1, <2>2, PostsOfAppend
  <2>6. Cat(Joined(PostsOf(full)), last) = Cat(list.posts, list.newPosts)
    BY <1>9 DEF Deals
  <2>. HIDE DEF last
  <2>7. Joined(PostsOf(split)) = Cat(list.posts, list.newPosts)
    BY <2>4, <2>5, <2>6, JoinedAppend
  <2>8. /\ \A i \in 1..Len(full) : GetByteSize(full[i]) <= blockSize
        /\ GetByteSize(cur) <= blockSize
        /\ full[1].posts = list.posts /\ full[1].index = list.index
        /\ GetByteSize(full[1]) + (DeltaSize + EntrySize) > blockSize
    BY <1>9, <2>3 DEF Deals
  <2>. HIDE DEF full, cur, split
  <2>9. /\ split \in Seq(PostingLists) /\ Len(split) = Len(full) + 1 /\ Len(full) > 0
        /\ Len(full) \in Nat /\ split[Len(full) + 1] = cur
        /\ \A i \in 1..Len(full) : split[i] = full[i]
    BY <2>1, <2>2, <2>3
  <2>10. split[Len(split)] = cur /\ split[1] = full[1] /\ Len(split) > 1
    BY <2>9
  <2>11. \A i \in 1..Len(split) : GetByteSize(split[i]) <= blockSize
    BY <2>8, <2>9
  <2>12. IsSplit(split, list, blockSize)
    BY <2>2, <2>7, <2>8, <2>9, <2>10, <2>11 DEF IsSplit
  <2>. QED
    BY <2>12 DEF list, split
<1>. QED
  BY <1>10, <1>11

(***************************************************************************)
(* The sizes of sub-blocks.                                                *)
(***************************************************************************)
LEMMA HalvedStepwise ==
  /\ Halved \in [0..NumSizes - 1 -> Nat] /\ Halved[0] = BlockSize
  /\ \A i \in 1..NumSizes - 1 : Halved[i] = Halved[i - 1] \div 2
<1>. DEFINE N == NumSizes - 1
            next == [p \in (1..N) \X Nat |-> p[2] \div 2]
<1>1. N \in Nat /\ BlockSize \in Nat
  BY BlocksAssumption
<1>2. next \in [(1..N) \X Nat -> Nat] /\ \A n \in 1..N, p \in Nat : next[<<n, p>>] = p \div 2
  <2>1. \A p \in Nat : p \div 2 \in Nat
    OBVIOUS
  <2>. QED
    BY <2>1
<1>. HIDE DEF next, N
<1>3. PICK f : AreResults(f, N, Nat, BlockSize, next)
  BY <1>1, <1>2, ResultsExist
<1>4. ASSUME NEW n \in 1..N PROVE f[n] = f[n - 1] \div 2 /\ f[n - 1] \in Nat
  <2>1. n - 1 \in 0..N
    BY <1>1
  <2>2. f[n - 1] \in Nat /\ f[n] = next[<<n, f[n - 1]>>]
    BY <1>3, <2>1 DEF AreResults
  <2>. QED
    BY <1>2, <2>2
<1>5. f \in [0..N -> Nat] /\ f[0] = BlockSize
  BY <1>3 DEF AreResults
<1>6. \A n \in 0..N : f[n] = IF n = 0 THEN BlockSize ELSE f[n - 1] \div 2
  BY <1>1, <1>4, <1>5
<1>7. f = [n \in 0..N |-> IF n = 0 THEN BlockSize ELSE f[n - 1] \div 2]
  BY <1>5, <1>6
<1>8. Halved = [n \in 0..N |-> IF n = 0 THEN BlockSize ELSE Halved[n - 1] \div 2]
  BY <1>7, Zenon DEF Halved, N
<1>9. \A n \in 0..N : Halved[n] = IF n = 0 THEN BlockSize ELSE Halved[n - 1] \div 2
  BY <1>8
<1>. DEFINE T == {n \in 0..N : Halved[n] \in Nat}
<1>10. 0 \in T
  BY <1>1, <1>9
<1>11. ASSUME NEW n \in 1..N, n - 1 \in T PROVE n \in T
  BY <1>1, <1>9, <1>11
<1>. HIDE DEF T
<1>12. 0..N \subseteq T
  BY <1>1, <1>10, <1>11, UpToBound
<1>13. Halved \in [0..N -> Nat]
  BY <1>8, <1>12 DEF T
<1>14. Halved[0] = BlockSize /\ \A n \in 1..N : Halved[n] = Halved[n - 1] \div 2
  BY <1>1, <1>9
<1>. QED
  BY <1>13, <1>14 DEF N

\* A sub-block is at most half a block, and no smaller than the smallest.
LEMMA SizesAre ==
  /\ BlockSize \in Nat /\ SubBlockSizes \subseteq Nat /\ SmallestSubBlockSize \in SubBlockSizes
  /\ \A size \in SubBlockSizes : SmallestSubBlockSize <= size /\ size > 0 /\ 2 * size <= BlockSize
<1>. DEFINE N == NumSizes - 1
<1>1. /\ N \in Nat /\ N > 0 /\ BlockSize \in Nat /\ Halved \in [0..N -> Nat] /\ Halved[0] = BlockSize
      /\ \A i \in 1..N : Halved[i] = Halved[i - 1] \div 2
  BY BlocksAssumption, HalvedStepwise
<1>2. \A x \in Nat : x \div 2 <= x /\ 2 * (x \div 2) <= x
  OBVIOUS
<1>. HIDE DEF N
<1>. DEFINE T == {n \in 0..N : Halved[N] <= Halved[N - n]}
            U == {n \in 0..N : n = 0 \/ 2 * Halved[n] <= BlockSize}
<1>3. 0 \in T
  BY <1>1
<1>4. ASSUME NEW n \in 1..N, n - 1 \in T PROVE n \in T
  <2>. DEFINE k == N - n
  <2>1. k \in 0..N /\ k + 1 \in 1..N /\ N - (n - 1) = k + 1 /\ (k + 1) - 1 = k /\ n \in 0..N
    BY <1>1
  <2>2. Halved[k + 1] = Halved[k] \div 2
    BY <1>1, <2>1
  <2>3. Halved[N] <= Halved[k + 1]
    BY <1>4, <2>1
  <2>4. Halved[k] \in Nat /\ Halved[N] \in Nat
    BY <1>1, <2>1
  <2>. QED
    BY <1>2, <2>1, <2>2, <2>3, <2>4
<1>5. 0 \in U
  BY <1>1
<1>6. ASSUME NEW n \in 1..N, n - 1 \in U PROVE n \in U
  <2>1. n \in 0..N /\ n - 1 \in 0..N
    BY <1>1
  <2>2. Halved[n] = Halved[n - 1] \div 2 /\ Halved[n - 1] \in Nat
    BY <1>1, <2>1
  <2>3. Halved[n - 1] <= BlockSize
    BY <1>1, <1>6, <2>2
  <2>. QED
    BY <1>1, <1>2, <2>1, <2>2, <2>3
<1>. HIDE DEF T, U
<1>7. 0..N \subseteq T
  BY <1>1, <1>3, <1>4, UpToBound
<1>8. 0..N \subseteq U
  BY <1>1, <1>5, <1>6, UpToBound
<1>9. ASSUME NEW i \in 1..N
      PROVE  Halved[i] \in Nat /\ Halved[N] <= Halved[i] /\ 2 * Halved[i] <= BlockSize
  <2>1. i \in 0..N /\ N - i \in 0..N /\ N - (N - i) = i /\ i # 0
    BY <1>1
  <2>2. i \in U /\ N - i \in T
    BY <1>7, <1>8, <2>1
  <2>. QED
    BY <1>1, <2>1, <2>2 DEF T, U
<1>10. SmallestSubBlockSize = Halved[N] /\ SubBlockSizes = {Halved[i] : i \in 1..N}
  BY DEF N, SmallestSubBlockSize, SubBlockSizes
<1>11. SmallestSubBlockSize > 0 /\ N \in 1..N
  BY <1>1, RoomAssumption
<1>. QED
  BY <1>1, <1>9, <1>10, <1>11

RealSizes == {BlockSize} \union SubBlockSizes

LEMMA ActualSizeIs ==
  ASSUME NEW minSize \in Nat
  PROVE  /\ ActualSize(minSize) \in RealSizes
         /\ minSize <= BlockSize => minSize <= ActualSize(minSize)
         /\ \A size \in SubBlockSizes : minSize <= size => ActualSize(minSize) <= size
<1>. DEFINE sizes == {BlockSize} \union {size \in SubBlockSizes : size >= minSize}
<1>1. sizes \in SUBSET Nat /\ sizes # {} /\ sizes \subseteq RealSizes
      /\ \A size \in sizes : size = BlockSize \/ size >= minSize
  BY SizesAre DEF RealSizes
<1>2. ActualSize(minSize) = CHOOSE size \in sizes : \A other \in sizes : size <= other
  BY DEF ActualSize
<1>. HIDE DEF sizes
<1>3. \E size \in sizes : \A other \in sizes : size <= other
  BY <1>1, LeastElement
<1>4. ActualSize(minSize) \in sizes /\ \A other \in sizes : ActualSize(minSize) <= other
  BY <1>2, <1>3
<1>5. \A size \in SubBlockSizes : minSize <= size => size \in sizes
  BY SizesAre DEF sizes
<1>. QED
  BY <1>1, <1>4, <1>5, SizesAre

(***************************************************************************)
(* The store: which sub-blocks are taken, and by whom.                     *)
(***************************************************************************)
Infos == [size : RealSizes, block : Nat, sub : Nat]

\* The parts of a store, and no others.
IsStore(s) ==
  s = [area |-> s.area, next |-> s.next, subBlockIndex |-> s.subBlockIndex,
       wordIndex |-> s.wordIndex, open |-> s.open, lastUsed |-> s.lastUsed,
       nextBlock |-> s.nextBlock]

\* A place in a block of sub-blocks of the size, or none.
IsPlace(place, size) ==
  /\ place = [block |-> place.block, sub |-> place.sub]
  /\ place.block \in Nat /\ place.sub \in 0..(BlockSize \div size) - 1

IsTyped(s) ==
  /\ IsStore(s) /\ s.nextBlock \in Nat /\ s.nextBlock > 0
  /\ DOMAIN s.open = SubBlockSizes /\ DOMAIN s.lastUsed = SubBlockSizes
  /\ \A size \in SubBlockSizes :
       /\ IsPlace(s.open[size], size) /\ s.open[size].block < s.nextBlock
       /\ IsPlace(s.lastUsed[size], size) /\ s.lastUsed[size].block < s.nextBlock
  /\ \A info \in DOMAIN s.area : IsStored(s.area[info])
  /\ \A word \in DOMAIN s.subBlockIndex : s.subBlockIndex[word] \in Infos

\* No list is larger than what it is in.
AllFit(s) == \A info \in Infos : GetByteSize(PostingListOf(Stored(s, info))) <= DataSize(info)

\* The sub-blocks of owned are taken: the next one of a size is behind them in its block.
Allocated(s, owned) ==
  /\ owned \subseteq Infos
  /\ \A p \in owned : p.block > 0 /\ p.block < s.nextBlock
  /\ \A p \in owned : p.size # BlockSize =>
       /\ p.block = s.open[p.size].block => p.sub < s.open[p.size].sub
       /\ p.block = s.lastUsed[p.size].block => p.sub <= s.lastUsed[p.size].sub

\* The sub-blocks of a list, from the first one on.
IsChain(s, info, chain) ==
  /\ chain \in Seq(Infos) /\ Len(chain) > 0 /\ Len(chain) <= s.nextBlock /\ chain[1] = info
  /\ info.size # BlockSize => Len(chain) = 1
  /\ info.size = BlockSize => \A i \in 1..Len(chain) :
       /\ chain[i] = SubBlock(BlockSize, chain[i].block, 0)
       /\ chain[i].block > 0 /\ chain[i].block \in DOMAIN s.next
       /\ s.next[chain[i].block] = IF i = Len(chain) THEN 0 ELSE chain[i + 1].block

Owned(chains) == {p \in Infos : \E word \in DOMAIN chains :
                                  \E i \in 1..Len(chains[word]) : p = chains[word][i]}

\* Every list has sub-blocks of its own.
IsLayout(s, chains) ==
  /\ DOMAIN chains = DOMAIN s.subBlockIndex
  /\ \A word \in DOMAIN chains : IsChain(s, s.subBlockIndex[word], chains[word])
  /\ \A v, w \in DOMAIN chains : \A i \in 1..Len(chains[v]), j \in 1..Len(chains[w]) :
       chains[v][i] = chains[w][j] => v = w /\ i = j
  /\ Allocated(s, Owned(chains))

StoredPosts(s, chain) == [i \in 1..Len(chain) |-> Stored(s, chain[i]).posts]

\* A list has the differences of exactly the postings a, and an entry for each bucket.
Holds(s, chain, a) ==
  /\ Joined(StoredPosts(s, chain)) = Differences(a, 0)
  /\ Stored(s, chain[Len(chain)]).largest = LastOf(a, 0)
  /\ Len(chain) = 1 => ElementsOf(Stored(s, chain[1]).index) = IndexOf(a, Len(a))

\* Postings come in order.
IsAscending(a) ==
  /\ a \in Seq(Nat) /\ \A i \in 1..Len(a) : a[i] > 0
  /\ \A i, j \in 1..Len(a) : i < j => a[i] < a[j]

IsConsistent(s, chains, had, unsure) ==
  /\ IsTyped(s) /\ AllFit(s) /\ IsLayout(s, chains)
  /\ had \in [Words -> Seq(Nat)] /\ DOMAIN chains \subseteq Words
  /\ \A word \in DOMAIN chains \ unsure : Holds(s, chains[word], had[word])
  /\ \A word \in Words : IsAscending(had[word]) /\ (had[word] # <<>> => word \in DOMAIN chains)

LEMMA InfoIs ==
  ASSUME NEW size \in RealSizes, NEW block \in Nat, NEW sub \in Nat
  PROVE  LET info == SubBlock(size, block, sub)
         IN  info \in Infos /\ info.size = size /\ info.block = block /\ info.sub = sub
BY DEF SubBlock, Infos

LEMMA FieldsOfAnInfo ==
  ASSUME NEW info \in Infos
  PROVE  /\ info.size \in RealSizes /\ info.block \in Nat /\ info.sub \in Nat
         /\ info = SubBlock(info.size, info.block, info.sub)
BY DEF SubBlock, Infos

\* The parts that taking a sub-block leaves alone.
SameLists(s, t) ==
  /\ t.area = s.area /\ t.next = s.next
  /\ t.subBlockIndex = s.subBlockIndex /\ t.wordIndex = s.wordIndex

\* In t a sub-block of s is taken: the next whole block ...
TakesABlock(s, t, info) ==
  /\ info = SubBlock(BlockSize, s.nextBlock, 0) /\ t.nextBlock = s.nextBlock + 1
  /\ t.open = s.open /\ t.lastUsed = s.lastUsed

\* ... or the open sub-block of a size, of the next block if there is none.
TakesAPart(s, t, info) ==
  LET c == info.size
  IN  /\ info \in Infos /\ c \in SubBlockSizes
      /\ \/ /\ info.block = s.open[c].block /\ info.sub = s.open[c].sub /\ info.block # 0
            /\ t.nextBlock = s.nextBlock
         \/ info.block = s.nextBlock /\ info.sub = 0 /\ t.nextBlock = s.nextBlock + 1
      /\ t.lastUsed = [s.lastUsed EXCEPT ![c] = [block |-> info.block, sub |-> info.sub]]
      /\ t.open = [s.open EXCEPT ![c] = IF info.sub + 1 = BlockSize \div c
                                        THEN [block |-> 0, sub |-> 0]
                                        ELSE [block |-> info.block, sub |-> info.sub + 1]]

LEMMA PartsOfABlock ==
  ASSUME NEW size \in SubBlockSizes
  PROVE  /\ BlockSize \div size \in Nat /\ BlockSize \div size >= 2 /\ size # BlockSize
         /\ \A sub \in 0..(BlockSize \div size) - 1 :
              (sub + 1) % (BlockSize \div size) = IF sub + 1 = BlockSize \div size THEN 0 ELSE sub + 1
<1>1. size \in Nat /\ size > 0 /\ 2 * size <= BlockSize /\ BlockSize \in Nat
  BY SizesAre
<1>. DEFINE m == BlockSize \div size
<1>2. m \in Nat /\ m >= 2 /\ size # BlockSize
  BY <1>1, SMTT(20)
<1>. HIDE DEF m
<1>3. ASSUME NEW sub \in 0..m - 1
      PROVE  (sub + 1) % m = IF sub + 1 = m THEN 0 ELSE sub + 1
  <2>1. CASE sub + 1 = m
    <3>1. m % m = 0
      BY <1>2, SMTT(20)
    <3>. QED
      BY <2>1, <3>1
  <2>2. CASE sub + 1 # m
    <3>. DEFINE x == sub + 1
    <3>1. x \in Nat /\ x < m
      BY <1>2, <2>2
    <3>. HIDE DEF x
    <3>2. x % m = x
      BY <1>2, <3>1, SMTT(20)
    <3>. QED
      BY <2>2, <3>2 DEF x
  <2>. QED
    BY <2>1, <2>2
<1>. QED
  BY <1>2, <1>3 DEF m

IsIncremented(s, t, open) ==
  /\ IsStore(t) /\ SameLists(s, t)
  /\ open.size = BlockSize => /\ t.nextBlock = s.nextBlock + 1 /\ t.open = s.open
                              /\ t.lastUsed = s.lastUsed
  /\ open.size # BlockSize =>
       LET sub == (open.sub + 1) % (BlockSize \div open.size)
       IN  /\ t.nextBlock = s.nextBlock
           /\ t.lastUsed = [s.lastUsed EXCEPT ![open.size] =
                              [block |-> open.block, sub |-> open.sub]]
           /\ t.open = [s.open EXCEPT ![open.size] =
                          [block |-> IF sub = 0 THEN 0 ELSE open.block, sub |-> sub]]

LEMMA Incremented ==
  ASSUME NEW s, IsStore(s), NEW open
  PROVE  IsIncremented(s, IncrementOpenSubBlock(s, open), open)
<1>. DEFINE size == open.size
            sub == (open.sub + 1) % (BlockSize \div size)
            used == [block |-> open.block, sub |-> open.sub]
            then == [block |-> IF sub = 0 THEN 0 ELSE open.block, sub |-> sub]
            t == IncrementOpenSubBlock(s, open)
<1>1. t = IF size = BlockSize THEN [s EXCEPT !.nextBlock = @ + 1]
          ELSE [s EXCEPT !.lastUsed[size] = used, !.open[size] = then]
  BY DEF IncrementOpenSubBlock
<1>. HIDE DEF size, used, then, t
<1>2. CASE size = BlockSize
  <2>1. t = [s EXCEPT !.nextBlock = @ + 1]
    BY <1>1, <1>2
  <2>2. /\ IsStore(t) /\ SameLists(s, t) /\ t.nextBlock = s.nextBlock + 1 /\ t.open = s.open
        /\ t.lastUsed = s.lastUsed
    BY <2>1 DEF IsStore, SameLists
  <2>. QED
    BY <1>2, <2>2 DEF size, t, IsIncremented
<1>3. CASE size # BlockSize
  <2>1. t = [s EXCEPT !.lastUsed[size] = used, !.open[size] = then]
    BY <1>1, <1>3
  <2>2. /\ IsStore(t) /\ SameLists(s, t) /\ t.nextBlock = s.nextBlock
        /\ t.lastUsed = [s.lastUsed EXCEPT ![size] = used]
        /\ t.open = [s.open EXCEPT ![size] = then]
    BY <2>1 DEF IsStore, SameLists
  <2>. QED
    BY <1>3, <2>2 DEF size, used, then, t, IsIncremented
<1>. QED
  BY <1>2, <1>3

IsTaken(s, minSize, new) ==
  /\ IsStore(new.store) /\ SameLists(s, new.store)
  /\ new.info.size = ActualSize(minSize)
  /\ \/ new.info.size = BlockSize /\ TakesABlock(s, new.store, new.info)
     \/ new.info.size # BlockSize /\ TakesAPart(s, new.store, new.info)

LEMMA NewSubBlock ==
  ASSUME NEW s, IsTyped(s), NEW minSize \in Nat
  PROVE  IsTaken(s, minSize, GetNewSubBlock(s, minSize))
<1>. DEFINE size  == ActualSize(minSize)
            open  == OpenSubBlock(s, size)
            first == SubBlock(open.size, s.nextBlock, 0)
            more  == [s EXCEPT !.nextBlock = @ + 1]
            new   == GetNewSubBlock(s, minSize)
<1>1. size \in RealSizes /\ IsStore(s) /\ s.nextBlock \in Nat
  BY ActualSizeIs DEF IsTyped
<1>2. new = IF open.block = 0
            THEN [store |-> IncrementOpenSubBlock(more, first), info |-> first]
            ELSE [store |-> IncrementOpenSubBlock(s, open), info |-> open]
  BY DEF GetNewSubBlock
<1>. HIDE DEF new
<1>3. CASE size = BlockSize
  <2>1. open = SubBlock(BlockSize, s.nextBlock, 0) /\ open.size = BlockSize
        /\ open.block = s.nextBlock /\ s.nextBlock # 0
    BY <1>1, <1>3, InfoIs DEF OpenSubBlock, IsTyped
  <2>. HIDE DEF open
  <2>2. new.store = IncrementOpenSubBlock(s, open) /\ new.info = open
    BY <1>2, <2>1
  <2>3. TakesABlock(s, new.store, open) /\ IsStore(new.store) /\ SameLists(s, new.store)
    <3>1. IsIncremented(s, new.store, open)
      BY <1>1, <2>2, Incremented
    <3>. QED
      BY <2>1, <3>1 DEF TakesABlock, IsIncremented
  <2>. QED
    BY <1>3, <2>1, <2>2, <2>3 DEF IsTaken, new, size
<1>4. CASE size # BlockSize
  <2>. DEFINE place == s.open[size]
              count == BlockSize \div size
  <2>1. size \in SubBlockSizes
    BY <1>1, <1>4 DEF RealSizes
  <2>2. place.block \in Nat /\ place.sub \in 0..count - 1
    BY <2>1 DEF IsTyped, IsPlace
  <2>3. /\ count \in Nat /\ count >= 2
        /\ \A sub \in 0..count - 1 : (sub + 1) % count = IF sub + 1 = count THEN 0 ELSE sub + 1
    BY <2>1, PartsOfABlock
  <2>. HIDE DEF count
  <2>4. place.sub \in Nat
    BY <2>2, <2>3
  <2>5. open \in Infos /\ open.size = size /\ open.block = place.block /\ open.sub = place.sub
    BY <1>1, <1>4, <2>2, <2>4, InfoIs DEF OpenSubBlock
  <2>. HIDE DEF open, size
  <2>6. /\ first \in Infos /\ first.size = size /\ first.block = s.nextBlock /\ first.sub = 0
        /\ 0 \in 0..count - 1
    BY <1>1, <2>3, <2>5, InfoIs
  <2>. HIDE DEF first
  <2>7. IsStore(more) /\ more.nextBlock = s.nextBlock + 1 /\ SameLists(s, more)
        /\ more.open = s.open /\ more.lastUsed = s.lastUsed
    BY <1>1 DEF IsStore, SameLists
  <2>. HIDE DEF more
  <2>. DEFINE info == new.info
              t == new.store
              from == IF open.block = 0 THEN more ELSE s
              sub == (info.sub + 1) % count
              used == [block |-> info.block, sub |-> info.sub]
              then == [block |-> IF sub = 0 THEN 0 ELSE info.block, sub |-> sub]
  <2>8. /\ t = IncrementOpenSubBlock(from, info) /\ info \in Infos /\ info.size = size
        /\ info.sub \in 0..count - 1
        /\ \/ /\ info.block = place.block /\ info.sub = place.sub /\ info.block # 0
              /\ from.nextBlock = s.nextBlock
           \/ info.block = s.nextBlock /\ info.sub = 0 /\ from.nextBlock = s.nextBlock + 1
        /\ IsStore(from) /\ SameLists(s, from)
        /\ from.open = s.open /\ from.lastUsed = s.lastUsed
    <3>1. CASE open.block = 0
      <4>1. t = IncrementOpenSubBlock(more, first) /\ info = first /\ from = more
        BY <1>2, <3>1
      <4>. HIDE DEF t, info, from, place
      <4>. QED
        BY <2>6, <2>7, <4>1
    <3>2. CASE open.block # 0
      <4>1. t = IncrementOpenSubBlock(s, open) /\ info = open /\ from = s
        BY <1>2, <3>2
      <4>2. SameLists(s, s)
        BY DEF SameLists
      <4>. HIDE DEF t, info, from, place
      <4>. QED
        BY <1>1, <2>2, <2>5, <3>2, <4>1, <4>2
    <3>. QED
      BY <3>1, <3>2
  <2>. HIDE DEF t, info, from
  <2>9. /\ IsStore(t) /\ SameLists(from, t) /\ t.nextBlock = from.nextBlock
        /\ t.lastUsed = [s.lastUsed EXCEPT ![size] = used]
        /\ t.open = [s.open EXCEPT ![size] = then]
    <3>1. IsIncremented(from, t, info)
      BY <2>8, Incremented
    <3>. QED
      BY <1>4, <2>8, <3>1 DEF count, IsIncremented
  <2>10. then = IF info.sub + 1 = count THEN [block |-> 0, sub |-> 0]
                ELSE [block |-> info.block, sub |-> info.sub + 1]
    <3>1. sub = IF info.sub + 1 = count THEN 0 ELSE info.sub + 1
      BY <2>3, <2>8
    <3>2. info.sub + 1 # 0
      BY <2>3, <2>8
    <3>. HIDE DEF sub
    <3>. QED
      BY <3>1, <3>2
  <2>. HIDE DEF then
  <2>11. SameLists(s, t)
    BY <2>8, <2>9 DEF SameLists
  <2>12. TakesAPart(s, t, info)
    BY <2>1, <2>8, <2>9, <2>10 DEF TakesAPart, place, count, used
  <2>. QED
    BY <1>4, <2>8, <2>9, <2>11, <2>12 DEF IsTaken, t, info, new, size
<1>. QED
  BY <1>3, <1>4

LEMMA NewIsTyped ==
  ASSUME NEW s, IsTyped(s), NEW minSize, NEW new, IsTaken(s, minSize, new)
  PROVE  /\ IsTyped(new.store) /\ new.info \in Infos /\ new.info.block > 0
         /\ new.info.block < new.store.nextBlock /\ s.nextBlock <= new.store.nextBlock
         /\ new.store.nextBlock <= s.nextBlock + 1
<1>. DEFINE t == new.store
            info == new.info
            size == info.size
<1>1. /\ IsStore(t) /\ t.area = s.area /\ t.subBlockIndex = s.subBlockIndex
      /\ s.nextBlock \in Nat /\ s.nextBlock > 0
  BY DEF IsTaken, SameLists, IsTyped
<1>2. /\ \A inf \in DOMAIN t.area : IsStored(t.area[inf])
      /\ \A word \in DOMAIN t.subBlockIndex : t.subBlockIndex[word] \in Infos
  BY <1>1 DEF IsTyped
<1>3. /\ DOMAIN s.open = SubBlockSizes /\ DOMAIN s.lastUsed = SubBlockSizes
      /\ \A c \in SubBlockSizes :
           /\ IsPlace(s.open[c], c) /\ s.open[c].block < s.nextBlock
           /\ IsPlace(s.lastUsed[c], c) /\ s.lastUsed[c].block < s.nextBlock
           /\ s.open[c].block \in Nat /\ s.lastUsed[c].block \in Nat
  BY DEF IsTyped, IsPlace
<1>. HIDE DEF t, info
<1>4. CASE TakesABlock(s, t, info)
  <2>1. /\ info = SubBlock(BlockSize, s.nextBlock, 0) /\ t.nextBlock = s.nextBlock + 1
        /\ t.open = s.open /\ t.lastUsed = s.lastUsed
    BY <1>4 DEF TakesABlock
  <2>2. info \in Infos /\ info.block = s.nextBlock
    BY <1>1, <2>1, InfoIs DEF RealSizes
  <2>3. IsTyped(t)
    <3>1. \A c \in SubBlockSizes : t.open[c].block < t.nextBlock /\ t.lastUsed[c].block < t.nextBlock
      BY <1>1, <1>3, <2>1
    <3>. QED
      BY <1>1, <1>2, <1>3, <2>1, <3>1 DEF IsTyped
  <2>. QED
    BY <1>1, <2>1, <2>2, <2>3 DEF t, info
<1>5. CASE TakesAPart(s, t, info)
  <2>. DEFINE used == [block |-> info.block, sub |-> info.sub]
              then == IF info.sub + 1 = BlockSize \div size THEN [block |-> 0, sub |-> 0]
                      ELSE [block |-> info.block, sub |-> info.sub + 1]
  <2>1. /\ info \in Infos /\ size \in SubBlockSizes
        /\ \/ /\ info.block = s.open[size].block /\ info.sub = s.open[size].sub /\ info.block # 0
              /\ t.nextBlock = s.nextBlock
           \/ info.block = s.nextBlock /\ info.sub = 0 /\ t.nextBlock = s.nextBlock + 1
        /\ t.lastUsed = [s.lastUsed EXCEPT ![size] = used]
        /\ t.open = [s.open EXCEPT ![size] = then]
    BY <1>5 DEF TakesAPart
  <2>2. BlockSize \div size \in Nat /\ BlockSize \div size >= 2
    BY <2>1, PartsOfABlock
  <2>3. info.block \in Nat /\ info.sub \in 0..(BlockSize \div size) - 1
    <3>1. s.open[size].sub \in 0..(BlockSize \div size) - 1
      BY <1>3, <2>1 DEF IsPlace
    <3>. QED
      BY <2>1, <2>2, <3>1, FieldsOfAnInfo
  <2>4. IsPlace(used, size) /\ IsPlace(then, size)
    <3>. HIDE DEF size
    <3>. QED
      BY <2>2, <2>3 DEF IsPlace
  <2>9. /\ info.block < t.nextBlock /\ used.block < t.nextBlock /\ then.block < t.nextBlock
        /\ s.nextBlock <= t.nextBlock
    <3>1. s.nextBlock <= t.nextBlock /\ t.nextBlock \in Nat /\ info.block < t.nextBlock
      BY <1>1, <1>3, <2>1, <2>3
    <3>. HIDE DEF size
    <3>. QED
      BY <1>1, <2>3, <3>1
  <2>. HIDE DEF used, then, size
  <2>5. \A c \in SubBlockSizes :
          /\ IsPlace(t.open[c], c) /\ t.open[c].block < t.nextBlock
          /\ IsPlace(t.lastUsed[c], c) /\ t.lastUsed[c].block < t.nextBlock
    <3>1. t.nextBlock \in Nat
      BY <1>1, <2>1
    <3>. QED
      BY <1>1, <1>3, <2>1, <2>4, <2>9, <3>1
  <2>6. DOMAIN t.open = SubBlockSizes /\ DOMAIN t.lastUsed = SubBlockSizes
    BY <1>3, <2>1
  <2>7. t.nextBlock \in Nat /\ t.nextBlock > 0 /\ s.nextBlock <= t.nextBlock /\ t.nextBlock <= s.nextBlock + 1
    BY <1>1, <2>1
  <2>8. IsTyped(t) /\ info.block > 0
    BY <1>1, <1>2, <2>1, <2>3, <2>5, <2>6, <2>7 DEF IsTyped
  <2>. QED
    BY <2>1, <2>7, <2>8, <2>9 DEF t, info
<1>. QED
  BY <1>4, <1>5 DEF IsTaken, t, info

\* What is taken was free, and the next that is taken is free again.
LEMMA NewIsFree ==
  ASSUME NEW s, IsTyped(s), NEW minSize, NEW new, IsTaken(s, minSize, new),
         NEW owned, Allocated(s, owned)
  PROVE  new.info \notin owned /\ Allocated(new.store, owned \union {new.info})
<1>. DEFINE t == new.store
            info == new.info
            size == info.size
            more == owned \union {info}
<1>1. /\ IsTyped(t) /\ info \in Infos /\ info.block > 0 /\ info.block < t.nextBlock
      /\ s.nextBlock <= t.nextBlock /\ s.nextBlock \in Nat /\ t.nextBlock \in Nat
  BY NewIsTyped DEF IsTyped
<1>2. /\ owned \subseteq Infos
      /\ \A p \in owned : p.block > 0 /\ p.block < s.nextBlock /\ p.block \in Nat /\ p.sub \in Nat
      /\ \A p \in owned : p.size # BlockSize =>
           /\ p.size \in SubBlockSizes
           /\ p.block = s.open[p.size].block => p.sub < s.open[p.size].sub
           /\ p.block = s.lastUsed[p.size].block => p.sub <= s.lastUsed[p.size].sub
  BY FieldsOfAnInfo DEF Allocated, RealSizes
<1>3. more \subseteq Infos
  BY <1>1, <1>2
<1>4. \A p \in more : p.block > 0 /\ p.block < t.nextBlock
  BY <1>1, <1>2
<1>5. info.block \in Nat /\ info.sub \in Nat
  BY <1>1, FieldsOfAnInfo
<1>6. \A c \in SubBlockSizes : s.open[c].block \in Nat /\ s.open[c].sub \in Nat
  <2>1. ASSUME NEW c \in SubBlockSizes PROVE s.open[c].block \in Nat /\ s.open[c].sub \in Nat
    <3>1. s.open[c].block \in Nat /\ s.open[c].sub \in 0..(BlockSize \div c) - 1
      BY DEF IsTyped, IsPlace
    <3>2. BlockSize \div c \in Nat
      BY PartsOfABlock
    <3>. QED
      BY <3>1, <3>2
  <2>. QED
    BY <2>1
<1>. HIDE DEF t, info
<1>7. CASE TakesABlock(s, t, info)
  <2>1. /\ info.size = BlockSize /\ info.block = s.nextBlock
        /\ t.open = s.open /\ t.lastUsed = s.lastUsed
    <3>1. BlockSize \in RealSizes
      BY DEF RealSizes
    <3>. QED
      BY <1>1, <1>7, <3>1, InfoIs DEF TakesABlock
  <2>2. info \notin owned
    BY <1>1, <1>2, <2>1
  <2>3. Allocated(t, more)
    BY <1>2, <1>3, <1>4, <2>1 DEF Allocated
  <2>. QED
    BY <2>2, <2>3 DEF t, info
<1>8. CASE TakesAPart(s, t, info)
  <2>. DEFINE used == [block |-> info.block, sub |-> info.sub]
              then == IF info.sub + 1 = BlockSize \div size THEN [block |-> 0, sub |-> 0]
                      ELSE [block |-> info.block, sub |-> info.sub + 1]
  <2>1. /\ size \in SubBlockSizes /\ size # BlockSize
        /\ \/ info.block = s.open[size].block /\ info.sub = s.open[size].sub
           \/ info.block = s.nextBlock
        /\ t.lastUsed = [s.lastUsed EXCEPT ![size] = used]
        /\ t.open = [s.open EXCEPT ![size] = then]
        /\ DOMAIN s.open = SubBlockSizes /\ DOMAIN s.lastUsed = SubBlockSizes
    BY <1>8, PartsOfABlock DEF TakesAPart, IsTyped
  <2>2. /\ used.block = info.block /\ used.sub = info.sub
        /\ then.block = 0 \/ (then.block = info.block /\ then.sub = info.sub + 1)
    OBVIOUS
  <2>. HIDE DEF used, then
  <2>3. \A p \in owned : p.size = size /\ p.block = info.block => p.sub < info.sub
    BY <1>1, <1>2, <2>1
  <2>4. info \notin owned
    BY <1>5, <2>3
  <2>5. ASSUME NEW p \in more, p.size # BlockSize
        PROVE  /\ p.block = t.open[p.size].block => p.sub < t.open[p.size].sub
               /\ p.block = t.lastUsed[p.size].block => p.sub <= t.lastUsed[p.size].sub
    <3>1. CASE p.size = size
      <4>1. t.open[p.size] = then /\ t.lastUsed[p.size] = used
        BY <2>1, <3>1
      <4>2. p.block = info.block => p.sub <= info.sub /\ p.sub \in Nat
        BY <1>2, <1>5, <2>3, <3>1
      <4>. HIDE DEF size
      <4>. QED
        BY <1>4, <1>5, <2>2, <4>1, <4>2
    <3>2. CASE p.size # size
      <4>1. p \in owned
        BY <3>2
      <4>2. p.size \in SubBlockSizes
        BY <1>2, <2>5, <4>1
      <4>. HIDE DEF size
      <4>3. t.open[p.size] = s.open[p.size] /\ t.lastUsed[p.size] = s.lastUsed[p.size]
        BY <2>1, <3>2, <4>2
      <4>. QED
        BY <1>2, <2>5, <4>1, <4>3
    <3>. QED
      BY <3>1, <3>2
  <2>6. Allocated(t, more)
    BY <1>3, <1>4, <2>5 DEF Allocated
  <2>. QED
    BY <2>4, <2>6 DEF t, info
<1>. QED
  BY <1>7, <1>8 DEF IsTaken, t, info

(***************************************************************************)
(* Chains of sub-blocks.                                                   *)
(***************************************************************************)
\* Chain follows the pointers to the end.
LEMMA ChainIs ==
  ASSUME NEW s, IsTyped(s), NEW info, NEW chain, IsChain(s, info, chain)
  PROVE  Chain(s, info) = chain
<1>. DEFINE N == s.nextBlock
            L == Len(chain)
            block[n \in 0..s.nextBlock] ==
              IF n = 0 THEN info.block ELSE IF block[n - 1] = 0 THEN 0 ELSE s.next[block[n - 1]]
            is == [n \in 0..N |-> IF n < L THEN chain[n + 1].block ELSE 0]
<1>1. /\ N \in Nat /\ chain \in Seq(Infos) /\ L \in Nat /\ L > 0 /\ L <= N /\ chain[1] = info
      /\ info \in Infos /\ info.block \in Nat
  BY FieldsOfAnInfo DEF IsChain, IsTyped
<1>2. Chain(s, info) = IF info.size # BlockSize THEN <<info>>
                       ELSE [n \in {m \in 1..N : block[m - 1] # 0} |->
                               SubBlock(BlockSize, block[n - 1], 0)]
  BY Zenon DEF Chain, N
<1>3. CASE info.size # BlockSize
  <2>1. Chain(s, info) = <<info>> /\ L = 1
    BY <1>2, <1>3 DEF IsChain
  <2>. HIDE DEF N, L
  <2>2. <<info>> \in Seq(Infos) /\ Len(<<info>>) = 1 /\ <<info>>[1] = info
    BY <1>1
  <2>. QED
    BY <1>1, <2>1, <2>2, SeqEqual DEF L
<1>4. CASE info.size = BlockSize
  <2>1. \A i \in 1..L :
          /\ chain[i] = SubBlock(BlockSize, chain[i].block, 0) /\ chain[i].block > 0
          /\ s.next[chain[i].block] = IF i = L THEN 0 ELSE chain[i + 1].block
    BY <1>4 DEF IsChain
  <2>. HIDE DEF N, L, block
  <2>2. ASSUME NEW n \in 0..N
        PROVE  is[n] = IF n = 0 THEN info.block ELSE IF is[n - 1] = 0 THEN 0 ELSE s.next[is[n - 1]]
    <3>1. CASE n = 0
      BY <1>1, <3>1
    <3>2. CASE n # 0 /\ n <= L
      <4>1. n \in 1..L /\ n - 1 \in 0..N /\ (n - 1) + 1 = n /\ n - 1 < L /\ (n < L <=> n # L)
        BY <1>1, <3>2
      <4>2. is[n - 1] = chain[n].block /\ is[n] = IF n # L THEN chain[n + 1].block ELSE 0
        BY <4>1
      <4>. HIDE DEF is
      <4>3. chain[n].block > 0 /\ s.next[chain[n].block] = IF n = L THEN 0 ELSE chain[n + 1].block
        BY <2>1, <4>1
      <4>4. chain[n].block # 0
        BY <4>3
      <4>. QED
        BY <3>2, <4>2, <4>3, <4>4
    <3>3. CASE n > L
      <4>1. n - 1 \in 0..N /\ ~(n - 1 < L) /\ ~(n < L) /\ n # 0
        BY <1>1, <3>3
      <4>. QED
        BY <4>1
    <3>. QED
      BY <1>1, <3>1, <3>2, <3>3
  <2>3. is = [n \in 0..N |-> IF n = 0 THEN info.block
                             ELSE IF is[n - 1] = 0 THEN 0 ELSE s.next[is[n - 1]]]
    <3>1. is = [n \in 0..N |-> is[n]]
      OBVIOUS
    <3>. HIDE DEF is
    <3>. QED
      BY <2>2, <3>1
  <2>. HIDE DEF is
  <2>4. block = [n \in 0..N |-> IF n = 0 THEN info.block
                                ELSE IF block[n - 1] = 0 THEN 0 ELSE s.next[block[n - 1]]]
    BY <2>3, Zenon DEF block, N
  <2>. DEFINE T == {n \in 0..N : block[n] = is[n]}
  <2>5. \A n \in 0..N : /\ block[n] = IF n = 0 THEN info.block
                                      ELSE IF block[n - 1] = 0 THEN 0 ELSE s.next[block[n - 1]]
                        /\ is[n] = IF n = 0 THEN info.block
                                   ELSE IF is[n - 1] = 0 THEN 0 ELSE s.next[is[n - 1]]
    BY <2>2, <2>4, Zenon
  <2>6. 0 \in T
    BY <1>1, <2>5
  <2>7. ASSUME NEW n \in 1..N, n - 1 \in T PROVE n \in T
    <3>1. n \in 0..N /\ n # 0 /\ block[n - 1] = is[n - 1]
      BY <1>1, <2>7
    <3>. QED
      BY <2>5, <3>1
  <2>. HIDE DEF T
  <2>8. 0..N \subseteq T
    BY <1>1, <2>6, <2>7, UpToBound
  <2>9. ASSUME NEW m \in 1..N
        PROVE  /\ m <= L => block[m - 1] = chain[m].block
               /\ m > L => block[m - 1] = 0
    <3>1. m - 1 \in 0..N /\ (m - 1) + 1 = m /\ (m - 1 < L <=> m <= L) /\ (m > L <=> ~(m <= L))
      BY <1>1
    <3>2. block[m - 1] = is[m - 1]
      BY <2>8, <3>1 DEF T
    <3>3. is[m - 1] = IF m - 1 < L THEN chain[m].block ELSE 0
      BY <3>1 DEF is
    <3>. QED
      BY <3>1, <3>2, <3>3
  <2>10. {m \in 1..N : block[m - 1] # 0} = 1..L
    <3>1. ASSUME NEW m \in 1..N PROVE block[m - 1] # 0 <=> m \in 1..L
      <4>1. CASE m <= L
        <5>1. m \in 1..L /\ block[m - 1] = chain[m].block
          BY <1>1, <2>9, <4>1
        <5>2. chain[m].block > 0
          BY <2>1, <5>1
        <5>. QED
          BY <5>1, <5>2
      <4>2. CASE ~(m <= L)
        <5>1. m > L /\ m \notin 1..L
          BY <1>1, <4>2
        <5>. QED
          BY <2>9, <5>1
      <4>. QED
        BY <4>1, <4>2
    <3>2. 1..L \subseteq 1..N
      BY <1>1
    <3>. QED
      BY <3>1, <3>2
  <2>11. Chain(s, info) = [n \in 1..L |-> SubBlock(BlockSize, block[n - 1], 0)]
    BY <1>2, <1>4, <2>10, Zenon
  <2>12. \A n \in 1..L : SubBlock(BlockSize, block[n - 1], 0) = chain[n]
    <3>1. ASSUME NEW n \in 1..L PROVE SubBlock(BlockSize, block[n - 1], 0) = chain[n]
      <4>1. n \in 1..N /\ n <= L
        BY <1>1
      <4>2. block[n - 1] = chain[n].block
        BY <2>9, <4>1
      <4>. QED
        BY <2>1, <4>2
    <3>. QED
      BY <3>1
  <2>13. chain = [n \in 1..L |-> chain[n]]
    BY <1>1 DEF L
  <2>. QED
    BY <2>11, <2>12, <2>13
<1>. QED
  BY <1>3, <1>4

\* What is written is what the list has.
IsWritten(stored, list) ==
  /\ IsStored(stored)
  /\ stored.posts = Cat(list.posts, list.newPosts) /\ stored.index = Cat(list.index, list.newIndices)
  /\ stored.largest = list.largest /\ GetByteSize(PostingListOf(stored)) = GetByteSize(list)

LEMMA WrittenIs ==
  ASSUME NEW list \in PostingLists, NEW stored,
         stored = [posts |-> Cat(list.posts, list.newPosts),
                   index |-> Cat(list.index, list.newIndices), largest |-> list.largest]
  PROVE  IsWritten(stored, list)
<1>. DEFINE posts == Cat(list.posts, list.newPosts)
            index == Cat(list.index, list.newIndices)
<1>1. /\ list.posts \in Seq(Int) /\ list.newPosts \in Seq(Int) /\ list.largest \in Int
      /\ list.index \in Seq(Entries) /\ list.newIndices \in Seq(Entries)
  BY FieldsOfAList
<1>2. /\ posts \in Seq(Int) /\ Len(posts) = Len(list.posts) + Len(list.newPosts)
  <2>1. IsCat(posts, list.posts, list.newPosts, Int)
    BY <1>1, CatProperties
  <2>. QED
    BY <2>1 DEF IsCat
<1>3. index \in Seq(Entries) /\ Len(index) = Len(list.index) + Len(list.newIndices)
  <2>1. IsCat(index, list.index, list.newIndices, Entries)
    BY <1>1, CatProperties
  <2>. QED
    BY <2>1 DEF IsCat
<1>. HIDE DEF posts, index
<1>4. IsStored(stored) /\ stored.posts = posts /\ stored.index = index /\ stored.largest = list.largest
  BY <1>1, <1>2, <1>3 DEF IsStored, posts, index
<1>. DEFINE l == PostingListOf(stored)
            none == <<>>
<1>5. IsList(l, posts, index, list.largest, list.largest, none, none)
  BY <1>4, ListOfStored
<1>. HIDE DEF l
<1>6. l \in PostingLists /\ l.posts = posts /\ l.index = index /\ l.newPosts = none /\ l.newIndices = none
  BY <1>5 DEF IsList
<1>7. GetByteSize(l) = Bytes(Len(posts) + Len(none), Len(index) + Len(none))
  BY <1>6, ByteSizeOfAList, Zenon
<1>8. Len(posts) + Len(none) = Len(posts) /\ Len(index) + Len(none) = Len(index)
  <2>1. Len(posts) \in Nat /\ Len(index) \in Nat /\ Len(none) = 0
    BY <1>2, <1>3, LenProperties
  <2>. HIDE DEF none
  <2>. QED
    BY <2>1
<1>9. GetByteSize(list) = Bytes(Len(posts), Len(index))
  BY <1>2, <1>3, ByteSizeOfAList, Zenon
<1>10. GetByteSize(l) = GetByteSize(list)
  BY <1>7, <1>8, <1>9, Zenon
<1>. QED
  BY <1>4, <1>10 DEF IsWritten, posts, index, l

LEMMA FullUpdateIs ==
  ASSUME NEW list \in PostingLists PROVE IsWritten(FullUpdate(list), list)
<1>1. FullUpdate(list) = [posts |-> Cat(list.posts, list.newPosts),
                          index |-> Cat(list.index, list.newIndices), largest |-> list.largest]
  BY DEF FullUpdate, Cat
<1>. QED
  BY <1>1, WrittenIs

\* A list is of what is stored, or there was none.
IsOf(list, stored) ==
  \/ list.posts = stored.posts /\ list.index = stored.index
  \/ list.posts = <<>> /\ list.index = <<>>

LEMMA UpdateInPlaceIs ==
  ASSUME NEW list \in PostingLists, NEW stored, IsStored(stored), IsOf(list, stored)
  PROVE  IsWritten(UpdateInPlace(stored, list), list)
<1>1. ASSUME NEW S, NEW a \in Seq(S), NEW b \in Seq(S), b = a \/ b = <<>>
      PROVE  SubSeq(a, 1, Len(b)) = b
  <2>1. CASE b = a
    <3>1. SubSeq(a, 1, Len(a)) \in Seq(S) /\ Len(SubSeq(a, 1, Len(a))) = Len(a)
          /\ \A i \in 1..Len(a) : SubSeq(a, 1, Len(a))[i] = a[i]
      OBVIOUS
    <3>. QED
      BY <2>1, <3>1, SeqEqual
  <2>2. CASE b = <<>>
    BY <2>2
  <2>. QED
    BY <1>1, <2>1, <2>2
<1>2. /\ list.posts \in Seq(Int) /\ list.index \in Seq(Entries)
      /\ stored.posts \in Seq(Int) /\ stored.index \in Seq(Entries)
  BY FieldsOfAList DEF IsStored
<1>3. SubSeq(stored.posts, 1, Len(list.posts)) = list.posts
  BY <1>1, <1>2 DEF IsOf
<1>4. SubSeq(stored.index, 1, Len(list.index)) = list.index
  BY <1>1, <1>2 DEF IsOf
<1>5. UpdateInPlace(stored, list) = [posts |-> Cat(list.posts, list.newPosts),
                                     index |-> Cat(list.index, list.newIndices),
                                     largest |-> list.largest]
  BY <1>3, <1>4, Zenon DEF UpdateInPlace, Cat
<1>. QED
  BY <1>5, WrittenIs

LEMMA StoredIsStored ==
  ASSUME NEW s, IsTyped(s), NEW info PROVE IsStored(Stored(s, info))
<1>. DEFINE none == <<>>
<1>1. none \in Seq(Int) /\ none \in Seq(Entries)
  OBVIOUS
<1>2. NoPostings = [posts |-> none, index |-> none, largest |-> 0]
  BY DEF NoPostings
<1>. HIDE DEF none
<1>3. IsStored(NoPostings)
  BY <1>1, <1>2 DEF IsStored
<1>. QED
  BY <1>3 DEF Stored, IsTyped

Writes(s, t, info, stored) ==
  Stored(t, info) = stored /\ \A other : other # info => Stored(t, other) = Stored(s, other)

\* A list is written to info, and what leads on from it.
IsPlaced(s, t, info, stored, next) ==
  /\ IsStore(t) /\ t.area = With(s.area, info, stored)
  /\ t.next = (IF info.size = BlockSize THEN With(s.next, info.block, next) ELSE s.next)
  /\ t.subBlockIndex = s.subBlockIndex /\ t.wordIndex = s.wordIndex
  /\ t.open = s.open /\ t.lastUsed = s.lastUsed /\ t.nextBlock = s.nextBlock
  /\ Writes(s, t, info, stored)

LEMMA StoredWith ==
  ASSUME NEW s, NEW t, NEW info, NEW stored, t.area = With(s.area, info, stored)
  PROVE  Writes(s, t, info, stored)
<1>1. DOMAIN t.area = DOMAIN s.area \union {info}
  BY DEF With
<1>2. \A key \in DOMAIN t.area : t.area[key] = IF key = info THEN stored ELSE s.area[key]
  BY DEF With
<1>. QED
  BY <1>1, <1>2 DEF Stored, Writes

LEMMA Placed ==
  ASSUME NEW s, IsStore(s), NEW info, NEW stored, NEW next
  PROVE  IsPlaced(s, Place(s, info, stored, next), info, stored, next)
<1>. DEFINE t == Place(s, info, stored, next)
            area == With(s.area, info, stored)
            onward == IF info.size = BlockSize THEN With(s.next, info.block, next) ELSE s.next
<1>1. t = [s EXCEPT !.area = area, !.next = onward]
  BY DEF Place, IsStore
<1>. HIDE DEF t, area, onward
<1>2. /\ IsStore(t) /\ t.area = area /\ t.next = onward /\ t.subBlockIndex = s.subBlockIndex
      /\ t.wordIndex = s.wordIndex /\ t.open = s.open /\ t.lastUsed = s.lastUsed
      /\ t.nextBlock = s.nextBlock
  BY <1>1 DEF IsStore
<1>3. Writes(s, t, info, stored)
  <2>1. t.area = With(s.area, info, stored)
    BY <1>2 DEF area
  <2>. QED
    BY <2>1, StoredWith
<1>. QED
  BY <1>2, <1>3 DEF IsPlaced, t, area, onward

LEMMA PlacedIsTyped ==
  ASSUME NEW s, IsTyped(s), NEW info, NEW stored, IsStored(stored), NEW next, NEW t,
         IsPlaced(s, t, info, stored, next)
  PROVE  IsTyped(t)
<1>1. \A key \in DOMAIN t.area : IsStored(t.area[key])
  <2>1. ASSUME NEW key \in DOMAIN t.area PROVE IsStored(t.area[key])
    <3>1. t.area[key] = Stored(t, key)
      BY DEF Stored
    <3>. QED
      BY <3>1, StoredIsStored DEF IsPlaced, Writes
  <2>. QED
    BY <2>1
<1>. QED
  BY <1>1 DEF IsTyped, IsPlaced

(***************************************************************************)
(* The lists of a split one, behind the first, in new blocks.              *)
(***************************************************************************)
BlockAt(b) == SubBlock(BlockSize, b, 0)

\* After n lists, from the last one back: each in the next block, leading to the one before.
Overflows(s, state, split, n) ==
  LET t == state.store
      N == s.nextBlock
  IN  /\ IsTyped(t) /\ t.subBlockIndex = s.subBlockIndex /\ t.wordIndex = s.wordIndex
      /\ t.open = s.open /\ t.lastUsed = s.lastUsed /\ t.nextBlock = N + n
      /\ state.next = IF n = 0 THEN 0 ELSE N + n - 1
      /\ \A k \in 0..n - 1 :
           /\ Stored(t, BlockAt(N + k)) = FullUpdate(split[Len(split) - k])
           /\ N + k \in DOMAIN t.next /\ t.next[N + k] = IF k = 0 THEN 0 ELSE N + k - 1
      /\ \A info : (\A k \in 0..n - 1 : info # BlockAt(N + k)) => Stored(t, info) = Stored(s, info)
      /\ \A b \in Nat : b \in DOMAIN s.next /\ b < N => b \in DOMAIN t.next /\ t.next[b] = s.next[b]

LEMMA WholeBlock == ActualSize(BlockSize) = BlockSize /\ BlockSize \in RealSizes
<1>1. BlockSize \in Nat /\ ActualSize(BlockSize) \in RealSizes /\ BlockSize <= ActualSize(BlockSize)
  BY SizesAre, ActualSizeIs
<1>2. \A size \in SubBlockSizes : size \in Nat /\ size > 0 /\ 2 * size <= BlockSize
  BY SizesAre
<1>3. \A size \in SubBlockSizes : ~(BlockSize <= size)
  BY <1>1, <1>2
<1>. QED
  BY <1>1, <1>3 DEF RealSizes

LEMMA PlacedInNewBlock ==
  ASSUME NEW s, NEW split \in Seq(PostingLists), NEW n \in Nat, n < Len(split), IsTyped(s),
         NEW state, Overflows(s, state, split, n)
  PROVE  Overflows(s, PlaceInNewBlock(state, split[Len(split) - n]), split, n + 1)
<1>. DEFINE t == state.store
            N == s.nextBlock
            q == Len(split)
            list == split[q - n]
            new == GetNewSubBlock(t, BlockSize)
            info == new.info
            stored == FullUpdate(list)
            r == PlaceInNewBlock(state, list)
            u == r.store
            b == N + n
<1>1. q \in Nat /\ N \in Nat /\ b \in Nat /\ q - n \in 1..q
  BY LenProperties DEF IsTyped
<1>2. list \in PostingLists
  BY <1>1
<1>3. /\ IsTyped(t) /\ t.subBlockIndex = s.subBlockIndex /\ t.wordIndex = s.wordIndex
      /\ t.open = s.open /\ t.lastUsed = s.lastUsed /\ t.nextBlock = b
      /\ state.next = IF n = 0 THEN 0 ELSE N + n - 1
  BY DEF Overflows
<1>. HIDE DEF list
<1>4. IsTaken(t, BlockSize, new)
  BY <1>3, SizesAre, NewSubBlock
<1>5. r = [store |-> Place(new.store, info, stored, state.next), next |-> info.block]
  BY DEF PlaceInNewBlock
<1>. HIDE DEF new, r, t
<1>6. IsTyped(new.store)
  BY <1>3, <1>4, NewIsTyped
<1>7. /\ info = BlockAt(b) /\ new.store.nextBlock = b + 1
      /\ new.store.open = t.open /\ new.store.lastUsed = t.lastUsed /\ SameLists(t, new.store)
  <2>1. info.size = BlockSize
    BY <1>4, WholeBlock DEF IsTaken
  <2>2. TakesABlock(t, new.store, info) /\ SameLists(t, new.store)
    BY <1>4, <2>1 DEF IsTaken
  <2>. QED
    BY <1>3, <2>2 DEF TakesABlock, BlockAt
<1>8. info \in Infos /\ info.size = BlockSize /\ info.block = b /\ info.sub = 0
  BY <1>1, <1>7, WholeBlock, InfoIs DEF BlockAt
<1>9. IsPlaced(new.store, u, info, stored, state.next) /\ r.next = b
  <2>1. u = Place(new.store, info, stored, state.next) /\ r.next = b
    BY <1>5, <1>8
  <2>2. IsStore(new.store)
    BY <1>6 DEF IsTyped
  <2>. QED
    BY <2>1, <2>2, Placed
<1>10. IsTyped(u)
  <2>1. IsStored(stored)
    BY <1>2, FullUpdateIs DEF IsWritten
  <2>. QED
    BY <1>6, <1>9, <2>1, PlacedIsTyped
<1>. HIDE DEF info, u, stored, b
<1>11. /\ u.subBlockIndex = s.subBlockIndex /\ u.wordIndex = s.wordIndex
       /\ u.open = s.open /\ u.lastUsed = s.lastUsed /\ u.nextBlock = b + 1
       /\ u.next = With(t.next, b, state.next)
       /\ Stored(u, BlockAt(b)) = stored
       /\ \A other : other # BlockAt(b) => Stored(u, other) = Stored(t, other)
  <2>1. \A other : Stored(new.store, other) = Stored(t, other)
    BY <1>7 DEF Stored, SameLists
  <2>. QED
    BY <1>3, <1>7, <1>8, <1>9, <2>1 DEF IsPlaced, Writes, SameLists
<1>12. /\ DOMAIN u.next = DOMAIN t.next \union {b} /\ u.next[b] = state.next
       /\ \A x \in DOMAIN t.next : x # b => u.next[x] = t.next[x]
  BY <1>11 DEF With
<1>13. ASSUME NEW k \in 0..n
       PROVE  /\ Stored(u, BlockAt(N + k)) = FullUpdate(split[q - k])
              /\ N + k \in DOMAIN u.next /\ u.next[N + k] = IF k = 0 THEN 0 ELSE N + k - 1
  <2>1. CASE k = n
    BY <1>3, <1>11, <1>12, <2>1 DEF b, stored, list
  <2>2. CASE k # n
    <3>. DEFINE x == N + k
    <3>1. k \in 0..n - 1 /\ x \in Nat /\ x # b
      BY <1>1, <2>2 DEF b
    <3>2. /\ Stored(t, BlockAt(x)) = FullUpdate(split[q - k])
          /\ x \in DOMAIN t.next /\ t.next[x] = IF k = 0 THEN 0 ELSE N + k - 1
      BY <3>1 DEF Overflows, t
    <3>3. BlockAt(x) # BlockAt(b)
      <4>1. BlockAt(x).block = x /\ BlockAt(b).block = b
        BY <1>1, <3>1, WholeBlock, InfoIs DEF BlockAt
      <4>. QED
        BY <3>1, <4>1
    <3>. HIDE DEF x
    <3>4. Stored(u, BlockAt(x)) = Stored(t, BlockAt(x)) /\ x \in DOMAIN u.next /\ u.next[x] = t.next[x]
      BY <1>11, <1>12, <3>1, <3>2, <3>3
    <3>. QED
      BY <3>2, <3>4 DEF x
  <2>. QED
    BY <2>1, <2>2
<1>14. ASSUME NEW other, \A k \in 0..n : other # BlockAt(N + k)
       PROVE  Stored(u, other) = Stored(s, other)
  <2>1. other # BlockAt(b) /\ \A k \in 0..n - 1 : other # BlockAt(N + k)
    <3>1. n \in 0..n /\ 0..n - 1 \subseteq 0..n
      OBVIOUS
    <3>. QED
      BY <1>14, <3>1 DEF b
  <2>2. Stored(t, other) = Stored(s, other)
    BY <2>1 DEF Overflows, t
  <2>. QED
    BY <1>11, <2>1, <2>2
<1>15. ASSUME NEW x \in Nat, x \in DOMAIN s.next, x < N
       PROVE  x \in DOMAIN u.next /\ u.next[x] = s.next[x]
  <2>1. x \in DOMAIN t.next /\ t.next[x] = s.next[x]
    BY <1>15 DEF Overflows, t
  <2>2. x # b
    BY <1>1, <1>15 DEF b
  <2>. QED
    BY <1>12, <2>1, <2>2
<1>16. (n + 1) - 1 = n /\ n + 1 # 0 /\ b + 1 = N + (n + 1) /\ r.next = N + (n + 1) - 1
  <2>1. /\ (n + 1) - 1 = n /\ n + 1 # 0 /\ (N + n) + 1 = N + (n + 1)
        /\ N + n = N + (n + 1) - 1
    BY <1>1
  <2>2. r.next = N + n
    BY <1>9 DEF b
  <2>. QED
    BY <2>1, <2>2 DEF b
<1>17. Overflows(s, r, split, n + 1)
  BY <1>10, <1>11, <1>13, <1>14, <1>15, <1>16 DEF Overflows, u
<1>. QED
  BY <1>17 DEF r, list

LEMMA PlacedStepwise ==
  ASSUME NEW s, NEW split, Len(split) \in Nat, Len(split) > 0
  PROVE  \E f : /\ f[0] = [store |-> s, next |-> 0]
                /\ \A n \in 1..Len(split) - 1 :
                     f[n] = PlaceInNewBlock(f[n - 1], split[Len(split) + 1 - n])
                /\ PlaceOverflow(s, split) = f[Len(split) - 1]
<1>. DEFINE q == Len(split)
            N == q - 1
            a == [store |-> s, next |-> 0]
            placed[n \in 0..Len(split) - 1] ==
              IF n = 0 THEN [store |-> s, next |-> 0]
              ELSE PlaceInNewBlock(placed[n - 1], split[Len(split) + 1 - n])
            T == {m \in 0..N :
                    \E f : f = [n \in 0..m |-> IF n = 0 THEN a
                                               ELSE PlaceInNewBlock(f[n - 1], split[q + 1 - n])]}
<1>1. PlaceOverflow(s, split) = placed[q - 1]
  BY Zenon DEF PlaceOverflow
<1>2. q \in Nat /\ N \in Nat
  OBVIOUS
<1>. HIDE DEF a, q, N
<1>3. 0 \in T
  <2>. DEFINE f == [n \in 0..0 |-> a]
  <2>1. \A n \in 0..0 : n = 0
    OBVIOUS
  <2>2. f = [n \in 0..0 |-> IF n = 0 THEN a ELSE PlaceInNewBlock(f[n - 1], split[q + 1 - n])]
    BY <2>1
  <2>3. 0 \in 0..N
    BY <1>2
  <2>. QED
    BY <2>2, <2>3
<1>4. ASSUME NEW m \in 1..N, m - 1 \in T PROVE m \in T
  <2>1. PICK f : f = [n \in 0..m - 1 |-> IF n = 0 THEN a
                                         ELSE PlaceInNewBlock(f[n - 1], split[q + 1 - n])]
    BY <1>4
  <2>. DEFINE g == [n \in 0..m |-> IF n = m THEN PlaceInNewBlock(f[m - 1], split[q + 1 - m]) ELSE f[n]]
  <2>2. \A n \in 0..m - 1 : f[n] = IF n = 0 THEN a ELSE PlaceInNewBlock(f[n - 1], split[q + 1 - n])
    BY <2>1, Zenon
  <2>3. ASSUME NEW n \in 0..m
        PROVE  g[n] = IF n = 0 THEN a ELSE PlaceInNewBlock(g[n - 1], split[q + 1 - n])
    <3>1. CASE n = m
      <4>1. n # 0 /\ n - 1 \in 0..m /\ n - 1 # m
        BY <1>2, <3>1
      <4>2. g[n] = PlaceInNewBlock(f[m - 1], split[q + 1 - m]) /\ g[n - 1] = f[n - 1]
        BY <3>1, <4>1
      <4>. HIDE DEF g
      <4>. QED
        BY <3>1, <4>1, <4>2
    <3>2. CASE n # m
      <4>1. n \in 0..m - 1
        BY <1>2, <3>2
      <4>2. g[n] = f[n]
        BY <3>2
      <4>3. n # 0 => n - 1 \in 0..m /\ n - 1 # m
        BY <1>2, <4>1
      <4>4. n # 0 => g[n - 1] = f[n - 1]
        BY <4>3
      <4>. HIDE DEF g
      <4>. QED
        BY <2>2, <4>1, <4>2, <4>4
    <3>. QED
      BY <3>1, <3>2
  <2>4. g = [n \in 0..m |-> IF n = 0 THEN a ELSE PlaceInNewBlock(g[n - 1], split[q + 1 - n])]
    <3>1. g = [n \in 0..m |-> g[n]]
      OBVIOUS
    <3>. HIDE DEF g
    <3>. QED
      BY <2>3, <3>1
  <2>5. m \in 0..N
    BY <1>2
  <2>. HIDE DEF g
  <2>. QED
    BY <2>4, <2>5
<1>. HIDE DEF T
<1>5. N \in T
  <2>1. 0..N \subseteq T
    BY <1>2, <1>3, <1>4, UpToBound
  <2>. QED
    BY <1>2, <2>1
<1>6. PICK f : f = [n \in 0..N |-> IF n = 0 THEN a
                                   ELSE PlaceInNewBlock(f[n - 1], split[q + 1 - n])]
  BY <1>5 DEF T
<1>7. placed = [n \in 0..N |-> IF n = 0 THEN a
                               ELSE PlaceInNewBlock(placed[n - 1], split[q + 1 - n])]
  BY <1>6, Zenon DEF a, N, q
<1>. HIDE DEF placed
<1>8. \A n \in 0..N : placed[n] = IF n = 0 THEN a
                                  ELSE PlaceInNewBlock(placed[n - 1], split[q + 1 - n])
  BY <1>7, Zenon
<1>9. placed[0] = a /\ \A n \in 1..N : placed[n] = PlaceInNewBlock(placed[n - 1], split[q + 1 - n])
  <2>1. 0 \in 0..N /\ \A n \in 1..N : n \in 0..N /\ n # 0
    BY <1>2
  <2>. QED
    BY <1>8, <2>1
<1>. QED
  BY <1>1, <1>9 DEF a, N, q

LEMMA OverflowIs ==
  ASSUME NEW s, IsTyped(s), NEW split \in Seq(PostingLists), Len(split) > 0
  PROVE  Overflows(s, PlaceOverflow(s, split), split, Len(split) - 1)
<1>. DEFINE q == Len(split)
            N == q - 1
<1>1. q \in Nat /\ N \in Nat /\ s.nextBlock \in Nat
  BY LenProperties DEF IsTyped
<1>2. PICK f : /\ f[0] = [store |-> s, next |-> 0]
               /\ \A n \in 1..N : f[n] = PlaceInNewBlock(f[n - 1], split[q + 1 - n])
               /\ PlaceOverflow(s, split) = f[N]
  BY <1>1, PlacedStepwise
<1>. DEFINE T == {n \in 0..N : Overflows(s, f[n], split, n)}
<1>3. 0 \in T
  <2>1. f[0].store = s /\ f[0].next = 0 /\ s.nextBlock + 0 = s.nextBlock /\ 0..0 - 1 = {}
    BY <1>1, <1>2
  <2>2. Overflows(s, f[0], split, 0)
    BY <2>1 DEF Overflows
  <2>. QED
    BY <1>1, <2>2
<1>4. ASSUME NEW n \in 1..N, n - 1 \in T PROVE n \in T
  <2>. DEFINE m == n - 1
  <2>1. m \in Nat /\ m < q /\ m + 1 = n /\ q + 1 - n = q - m /\ n \in 0..N
    BY <1>1
  <2>2. Overflows(s, f[m], split, m)
    BY <1>4
  <2>3. f[n] = PlaceInNewBlock(f[m], split[q - m])
    BY <1>2, <2>1
  <2>. HIDE DEF m
  <2>4. Overflows(s, PlaceInNewBlock(f[m], split[q - m]), split, m + 1)
    BY <2>1, <2>2, PlacedInNewBlock
  <2>. QED
    BY <2>1, <2>3, <2>4
<1>. HIDE DEF T
<1>5. N \in T
  <2>1. 0..N \subseteq T
    BY <1>1, <1>3, <1>4, UpToBound
  <2>. QED
    BY <1>1, <2>1
<1>. QED
  BY <1>2, <1>5 DEF T

(***************************************************************************)
(* Layouts: what a step does to the chain of one word.                     *)
(***************************************************************************)
LEMMA AllocatedLess ==
  ASSUME NEW s, NEW owned, Allocated(s, owned), NEW less \in SUBSET owned PROVE Allocated(s, less)
BY DEF Allocated

LEMMA ChainsAreOwned ==
  ASSUME NEW s, NEW chains, IsLayout(s, chains), NEW word \in DOMAIN chains
  PROVE  /\ IsChain(s, s.subBlockIndex[word], chains[word])
         /\ chains[word] \in Seq(Infos) /\ Len(chains[word]) \in Nat /\ Len(chains[word]) > 0
         /\ \A i \in 1..Len(chains[word]) : chains[word][i] \in Infos /\ chains[word][i] \in Owned(chains)
<1>1. IsChain(s, s.subBlockIndex[word], chains[word])
  BY DEF IsLayout
<1>2. chains[word] \in Seq(Infos) /\ Len(chains[word]) > 0
  BY <1>1 DEF IsChain
<1>3. Len(chains[word]) \in Nat /\ \A i \in 1..Len(chains[word]) : chains[word][i] \in Infos
  BY <1>2
<1>4. \A i \in 1..Len(chains[word]) : chains[word][i] \in Owned(chains)
  BY <1>3 DEF Owned
<1>. QED
  BY <1>1, <1>2, <1>3, <1>4

\* A chain stays one when no pointer in it changes.
LEMMA ChainIsKept ==
  ASSUME NEW s, NEW info, NEW chain, IsChain(s, info, chain), NEW t,
         s.nextBlock \in Nat, t.nextBlock \in Nat, s.nextBlock <= t.nextBlock,
         \A i \in 1..Len(chain) : chain[i].size = BlockSize /\ chain[i].block \in DOMAIN s.next =>
           /\ chain[i].block \in DOMAIN t.next
           /\ t.next[chain[i].block] = s.next[chain[i].block]
  PROVE  IsChain(t, info, chain)
<1>1. chain \in Seq(Infos) /\ Len(chain) \in Nat /\ Len(chain) <= t.nextBlock
  BY DEF IsChain
<1>2. CASE info.size = BlockSize
  <2>1. ASSUME NEW i \in 1..Len(chain)
        PROVE  /\ chain[i] = SubBlock(BlockSize, chain[i].block, 0)
               /\ chain[i].block > 0 /\ chain[i].block \in DOMAIN t.next
               /\ t.next[chain[i].block] = IF i = Len(chain) THEN 0 ELSE chain[i + 1].block
    <3>1. /\ chain[i] = SubBlock(BlockSize, chain[i].block, 0)
          /\ chain[i].block > 0 /\ chain[i].block \in DOMAIN s.next
          /\ s.next[chain[i].block] = IF i = Len(chain) THEN 0 ELSE chain[i + 1].block
      BY <1>2 DEF IsChain
    <3>2. chain[i].size = BlockSize
      BY <3>1 DEF SubBlock
    <3>. QED
      BY <3>1, <3>2
  <2>. QED
    BY <1>1, <1>2, <2>1 DEF IsChain
<1>3. CASE info.size # BlockSize
  BY <1>1, <1>3 DEF IsChain
<1>. QED
  BY <1>2, <1>3

\* A word gets another chain, of what is its own or was free.
LEMMA LayoutWith ==
  ASSUME NEW s, NEW chains, IsLayout(s, chains), NEW t, NEW word, NEW chain,
         DOMAIN t.subBlockIndex = DOMAIN s.subBlockIndex \union {word},
         IsChain(t, t.subBlockIndex[word], chain),
         \A v \in DOMAIN chains \ {word} : IsChain(t, t.subBlockIndex[v], chains[v]),
         \A i, j \in 1..Len(chain) : chain[i] = chain[j] => i = j,
         NEW fresh, fresh \intersect Owned(chains) = {},
         \A i \in 1..Len(chain) :
           chain[i] \in fresh \/ (word \in DOMAIN chains
                                  /\ \E j \in 1..Len(chains[word]) : chain[i] = chains[word][j]),
         NEW owned, Allocated(t, owned), \A i \in 1..Len(chain) : chain[i] \in owned,
         \A v \in DOMAIN chains \ {word} : \A i \in 1..Len(chains[v]) : chains[v][i] \in owned
  PROVE  IsLayout(t, With(chains, word, chain))
<1>. DEFINE more == With(chains, word, chain)
<1>1. /\ DOMAIN more = DOMAIN chains \union {word} /\ more[word] = chain
      /\ \A v \in DOMAIN chains \ {word} : more[v] = chains[v]
  BY DEF With
<1>. HIDE DEF more
<1>2. DOMAIN more = DOMAIN t.subBlockIndex
  BY <1>1 DEF IsLayout
<1>3. \A v \in DOMAIN more : IsChain(t, t.subBlockIndex[v], more[v])
  BY <1>1
<1>4. ASSUME NEW v \in DOMAIN chains \ {word}, NEW i \in 1..Len(chains[v]), NEW j \in 1..Len(chain)
      PROVE  chains[v][i] # chain[j]
  <2>1. chains[v][i] \in Owned(chains)
    BY ChainsAreOwned
  <2>2. CASE chain[j] \in fresh
    BY <2>1, <2>2
  <2>3. CASE chain[j] \notin fresh
    BY <2>3 DEF IsLayout
  <2>. QED
    BY <2>2, <2>3
<1>5. ASSUME NEW v \in DOMAIN more, NEW w \in DOMAIN more,
             NEW i \in 1..Len(more[v]), NEW j \in 1..Len(more[w]), more[v][i] = more[w][j]
      PROVE  v = w /\ i = j
  <2>1. CASE v = word /\ w = word
    BY <1>1, <1>5, <2>1
  <2>2. CASE v # word /\ w = word
    <3>1. v \in DOMAIN chains \ {word} /\ more[v] = chains[v] /\ more[w] = chain
      BY <1>1, <2>2
    <3>. QED
      BY <1>4, <1>5, <3>1
  <2>3. CASE v = word /\ w # word
    <3>1. w \in DOMAIN chains \ {word} /\ more[w] = chains[w] /\ more[v] = chain
      BY <1>1, <2>3
    <3>. QED
      BY <1>4, <1>5, <3>1
  <2>4. CASE v # word /\ w # word
    <3>1. /\ v \in DOMAIN chains /\ w \in DOMAIN chains
          /\ more[v] = chains[v] /\ more[w] = chains[w]
      BY <1>1, <2>4
    <3>. QED
      BY <1>5, <3>1 DEF IsLayout
  <2>. QED
    BY <2>1, <2>2, <2>3, <2>4
<1>6. Owned(more) \subseteq owned
  <2>1. ASSUME NEW v \in DOMAIN more, NEW i \in 1..Len(more[v]) PROVE more[v][i] \in owned
    BY <1>1
  <2>. QED
    BY <2>1 DEF Owned
<1>7. Allocated(t, Owned(more))
  BY <1>6, AllocatedLess
<1>8. IsLayout(t, more)
  BY <1>2, <1>3, <1>5, <1>7 DEF IsLayout
<1>. QED
  BY <1>8 DEF more

LEMMA SmallestSubBlock == ActualSize(SmallestSubBlockSize) # BlockSize /\ SmallestSubBlockSize \in Nat
<1>1. /\ SmallestSubBlockSize \in SubBlockSizes /\ SmallestSubBlockSize \in Nat
      /\ SmallestSubBlockSize > 0 /\ 2 * SmallestSubBlockSize <= BlockSize /\ BlockSize \in Nat
  BY SizesAre
<1>2. ActualSize(SmallestSubBlockSize) <= SmallestSubBlockSize
  BY <1>1, ActualSizeIs
<1>3. ActualSize(SmallestSubBlockSize) \in Nat
  BY <1>1, ActualSizeIs, SizesAre DEF RealSizes
<1>. QED
  BY <1>1, <1>2, <1>3

\* There is room for a list without postings everywhere.
LEMMA DataSizes ==
  ASSUME NEW info \in Infos
  PROVE  /\ DataSize(info) \in Int /\ HeaderSize <= DataSize(info)
         /\ DataSize(info) <= BlockSize - BlockDataOffset
         /\ info.size = BlockSize => DataSize(info) = BlockSize - BlockDataOffset
         /\ info.size # BlockSize => DataSize(info) = info.size /\ info.size \in SubBlockSizes
<1>1. /\ BlockSize \in Nat /\ BlockDataOffset \in Nat /\ HeaderSize \in Nat /\ DeltaSize \in Nat
      /\ EntrySize \in Nat /\ HeaderSize <= SmallestSubBlockSize
      /\ HeaderSize + DeltaSize + EntrySize <= BlockSize - BlockDataOffset
      /\ 2 * (DeltaSize + EntrySize + BlockDataOffset) <= BlockSize
  BY BlocksAssumption, SizesAssumption, RoomAssumption
<1>2. CASE info.size = BlockSize
  BY <1>1, <1>2 DEF DataSize
<1>3. CASE info.size # BlockSize
  <2>. DEFINE size == info.size
  <2>1. size \in SubBlockSizes
    BY <1>3, FieldsOfAnInfo DEF RealSizes
  <2>2. size \in Nat /\ SmallestSubBlockSize <= size /\ 2 * size <= BlockSize /\ SmallestSubBlockSize \in Nat
    BY <2>1, SizesAre
  <2>3. DataSize(info) = size
    BY <1>3, <2>2 DEF DataSize
  <2>. HIDE DEF size
  <2>4. HeaderSize <= size /\ size <= BlockSize - BlockDataOffset
    BY <1>1, <2>2
  <2>. QED
    BY <1>3, <2>1, <2>2, <2>3, <2>4 DEF size
<1>. QED
  BY <1>2, <1>3

\* The list that is added to.
IsFound(list, stored, info) ==
  /\ list = PostingListOf(stored) /\ IsStored(stored) /\ IsUnchanged(list)
  /\ list.posts = stored.posts /\ list.index = stored.index /\ list.largest = stored.largest
  /\ GetByteSize(list) <= DataSize(info)

LEMMA FoundIs ==
  ASSUME NEW stored, IsStored(stored), NEW info,
         GetByteSize(PostingListOf(stored)) <= DataSize(info)
  PROVE  IsFound(PostingListOf(stored), stored, info)
<1>. DEFINE list == PostingListOf(stored)
<1>1. IsList(list, stored.posts, stored.index, stored.largest, stored.largest, <<>>, <<>>)
  BY ListOfStored
<1>. HIDE DEF list
<1>. QED
  BY <1>1 DEF IsFound, IsUnchanged, IsList, list

LEMMA NoPostingsFit ==
  ASSUME NEW info \in Infos
  PROVE  /\ IsFound(PostingListOf(NoPostings), NoPostings, info)
         /\ NoPostings.posts = <<>> /\ NoPostings.index = <<>> /\ NoPostings.largest = 0
<1>. DEFINE none == <<>>
            list == PostingListOf(NoPostings)
<1>1. none \in Seq(Int) /\ none \in Seq(Entries) /\ Len(none) = 0
  OBVIOUS
<1>2. NoPostings = [posts |-> none, index |-> none, largest |-> 0]
  BY DEF NoPostings
<1>. HIDE DEF none
<1>3. NoPostings.posts = none /\ NoPostings.index = none /\ NoPostings.largest = 0
  BY <1>2
<1>4. IsStored(NoPostings)
  BY <1>1, <1>3 DEF IsStored
<1>5. IsList(list, none, none, 0, 0, none, none)
  BY EmptyListIsEmpty DEF EmptyList, none
<1>. HIDE DEF list
<1>6. GetByteSize(list) = Bytes(Len(none) + Len(none), Len(none) + Len(none))
  BY <1>5, ByteSizeOfAList DEF IsList
<1>7. Bytes(0, 0) = HeaderSize
  BY SizesAssumption DEF Bytes
<1>8. GetByteSize(list) <= DataSize(info)
  <2>1. Len(none) + Len(none) = 0
    BY <1>1
  <2>. QED
    BY <1>6, <1>7, <2>1, DataSizes
<1>9. IsFound(list, NoPostings, info)
  BY <1>4, <1>8, FoundIs DEF list
<1>. QED
  BY <1>3, <1>9 DEF list, none

IsGot(s, chains, word, at, more) ==
  /\ IsTyped(at.store) /\ AllFit(at.store) /\ IsLayout(at.store, more) /\ at.store.area = s.area
  /\ DOMAIN more = DOMAIN chains \union {word} /\ \A v \in DOMAIN chains : more[v] = chains[v]
  /\ at.info = more[word][Len(more[word])]
  /\ \/ /\ word \in DOMAIN chains /\ at.store = s
        /\ IsFound(at.list, Stored(s, at.info), at.info)
     \/ /\ word \notin DOMAIN chains /\ more[word] = <<at.info>>
        /\ IsFound(at.list, NoPostings, at.info)

LEMMA GotSubBlock ==
  ASSUME NEW s, IsTyped(s), AllFit(s), NEW chains, IsLayout(s, chains), NEW word
  PROVE  \E more : IsGot(s, chains, word, GetPostingListSubBlock(s, word), more)
<1>. DEFINE at == GetPostingListSubBlock(s, word)
            new == GetNewSubBlock(s, SmallestSubBlockSize)
<1>1. DOMAIN chains = DOMAIN s.subBlockIndex
  BY DEF IsLayout
<1>2. CASE word \in DOMAIN chains
  <2>. DEFINE chain == chains[word]
              info == chain[Len(chain)]
  <2>1. Chain(s, s.subBlockIndex[word]) = chain
    BY <1>2, ChainsAreOwned, ChainIs
  <2>2. at = [store |-> s, info |-> info, list |-> PostingListOf(Stored(s, info))]
    BY <1>1, <1>2, <2>1 DEF GetPostingListSubBlock
  <2>3. info \in Infos
    <3>1. Len(chain) \in 1..Len(chain)
      BY <1>2, ChainsAreOwned
    <3>. QED
      BY <1>2, <3>1, ChainsAreOwned
  <2>. HIDE DEF info, at
  <2>4. IsFound(PostingListOf(Stored(s, info)), Stored(s, info), info)
    <3>1. GetByteSize(PostingListOf(Stored(s, info))) <= DataSize(info)
      BY <2>3 DEF AllFit
    <3>. QED
      BY <3>1, StoredIsStored, FoundIs
  <2>5. IsGot(s, chains, word, at, chains)
    BY <1>2, <2>2, <2>4 DEF IsGot, info
  <2>. QED
    BY <2>5 DEF at
<1>3. CASE word \notin DOMAIN chains
  <2>. DEFINE t == at.store
              info == new.info
              u == new.store
              chain == <<info>>
              map == With(s.subBlockIndex, word, info)
              back == InsertNew(u.wordIndex, info, word)
  <2>1. IsTaken(s, SmallestSubBlockSize, new)
    BY SmallestSubBlock, NewSubBlock
  <2>2. /\ IsTyped(u) /\ info \in Infos /\ info.block > 0 /\ s.nextBlock <= u.nextBlock
        /\ s.nextBlock \in Nat /\ u.nextBlock \in Nat /\ u.nextBlock > 0 /\ IsStore(u)
    BY <2>1, NewIsTyped DEF IsTyped
  <2>3. info \notin Owned(chains) /\ Allocated(u, Owned(chains) \union {info})
    BY <2>1, NewIsFree DEF IsLayout
  <2>4. SameLists(s, u) /\ info.size # BlockSize
    BY <2>1, SmallestSubBlock DEF IsTaken
  <2>. HIDE DEF new
  <2>5. at = [store |-> [u EXCEPT !.subBlockIndex = InsertNew(u.subBlockIndex, word, info), !.wordIndex = back],
              info |-> info, list |-> PostingListOf(NoPostings)]
    BY <1>1, <1>3 DEF GetPostingListSubBlock, new
  <2>6. InsertNew(u.subBlockIndex, word, info) = map
    BY <1>1, <1>3, <2>4 DEF InsertNew, SameLists
  <2>. HIDE DEF at, map, back, u, info
  <2>7. /\ t = [u EXCEPT !.subBlockIndex = map, !.wordIndex = back]
        /\ at.info = info /\ at.list = PostingListOf(NoPostings)
    BY <2>5, <2>6
  <2>. HIDE DEF t
  <2>8. /\ IsStore(t) /\ t.area = u.area /\ t.next = u.next /\ t.subBlockIndex = map
        /\ t.open = u.open /\ t.lastUsed = u.lastUsed /\ t.nextBlock = u.nextBlock
    BY <2>2, <2>7 DEF IsStore
  <2>9. t.area = s.area /\ t.next = s.next
    BY <2>4, <2>8 DEF SameLists
  <2>10. /\ DOMAIN map = DOMAIN s.subBlockIndex \union {word} /\ map[word] = info
         /\ \A v \in DOMAIN s.subBlockIndex \ {word} : map[v] = s.subBlockIndex[v]
    BY DEF map, With
  <2>11. IsTyped(t)
    <3>1. \A v \in DOMAIN t.subBlockIndex : t.subBlockIndex[v] \in Infos
      BY <2>2, <2>8, <2>10 DEF IsTyped
    <3>. QED
      BY <2>2, <2>8, <3>1 DEF IsTyped
  <2>12. AllFit(t)
    BY <2>9 DEF AllFit, Stored
  <2>13. chain \in Seq(Infos) /\ Len(chain) = 1 /\ chain[1] = info
    BY <2>2
  <2>. HIDE DEF chain
  <2>14. IsChain(t, t.subBlockIndex[word], chain)
    BY <2>2, <2>4, <2>8, <2>10, <2>13 DEF IsChain
  <2>15. ASSUME NEW v \in DOMAIN chains \ {word} PROVE IsChain(t, t.subBlockIndex[v], chains[v])
    <3>1. t.subBlockIndex[v] = s.subBlockIndex[v]
      BY <1>1, <2>8, <2>10
    <3>2. IsChain(s, s.subBlockIndex[v], chains[v])
      BY ChainsAreOwned
    <3>. QED
      BY <2>2, <2>8, <2>9, <3>1, <3>2, ChainIsKept
  <2>. DEFINE fresh == {info}
              owned == Owned(chains) \union {info}
  <2>16. Allocated(t, owned)
    BY <2>3, <2>8 DEF Allocated
  <2>17. fresh \intersect Owned(chains) = {}
    BY <2>3
  <2>18. \A i \in 1..Len(chain) : chain[i] \in fresh /\ chain[i] \in owned
    BY <2>13
  <2>19. \A v \in DOMAIN chains \ {word} : \A i \in 1..Len(chains[v]) : chains[v][i] \in owned
    BY ChainsAreOwned
  <2>20. DOMAIN t.subBlockIndex = DOMAIN s.subBlockIndex \union {word}
    BY <2>8, <2>10
  <2>. DEFINE more == With(chains, word, chain)
  <2>. HIDE DEF fresh, owned
  <2>21. IsLayout(t, more)
    <3>1. \A i, j \in 1..Len(chain) : chain[i] = chain[j] => i = j
      BY <2>13
    <3>. QED
      BY <2>14, <2>15, <2>16, <2>17, <2>18, <2>19, <2>20, <3>1, LayoutWith
  <2>22. /\ DOMAIN more = DOMAIN chains \union {word} /\ more[word] = chain
         /\ \A v \in DOMAIN chains : more[v] = chains[v]
    BY <1>3 DEF With
  <2>. HIDE DEF more
  <2>23. IsFound(at.list, NoPostings, at.info)
    BY <2>2, <2>7, NoPostingsFit
  <2>24. at.info = more[word][Len(more[word])] /\ more[word] = <<at.info>>
    BY <2>7, <2>13, <2>22 DEF chain
  <2>25. IsGot(s, chains, word, at, more)
    BY <1>3, <2>9, <2>11, <2>12, <2>21, <2>22, <2>23, <2>24 DEF IsGot, t
  <2>. QED
    BY <2>25 DEF at
<1>. QED
  BY <1>2, <1>3

(***************************************************************************)
(* What the lists of a word hold.                                          *)
(***************************************************************************)
LEMMA StoredPostsIs ==
  ASSUME NEW s, IsTyped(s), NEW chain \in Seq(Infos)
  PROVE  /\ StoredPosts(s, chain) \in Seq(Seq(Int)) /\ Len(StoredPosts(s, chain)) = Len(chain)
         /\ \A i \in 1..Len(chain) : StoredPosts(s, chain)[i] = Stored(s, chain[i]).posts
<1>. DEFINE N == Len(chain)
            r == [i \in 1..N |-> Stored(s, chain[i]).posts]
<1>1. N \in Nat
  BY LenProperties
<1>. HIDE DEF N
<1>2. \A i \in 1..N : Stored(s, chain[i]).posts \in Seq(Int)
  BY StoredIsStored DEF IsStored
<1>3. r \in [1..N -> Seq(Int)]
  BY <1>2
<1>4. r \in Seq(Seq(Int)) /\ Len(r) = N
  BY <1>1, <1>3, IsASeq
<1>. QED
  BY <1>4 DEF StoredPosts, N

LEMMA StoredPostsOfCat ==
  ASSUME NEW s, IsTyped(s), NEW c \in Seq(Infos), NEW d \in Seq(Infos)
  PROVE  StoredPosts(s, Cat(c, d)) = Cat(StoredPosts(s, c), StoredPosts(s, d))
<1>. DEFINE m == Len(c)
            n == Len(d)
            e == Cat(c, d)
            pc == StoredPosts(s, c)
            pd == StoredPosts(s, d)
            pe == StoredPosts(s, e)
            p == Cat(pc, pd)
<1>1. IsCat(e, c, d, Infos)
  BY CatProperties
<1>2. /\ m \in Nat /\ n \in Nat /\ e \in Seq(Infos) /\ Len(e) = m + n
      /\ \A k \in 1..m : e[k] = c[k]
      /\ \A k \in 1..n : e[m + k] = d[k]
  BY <1>1, LenProperties DEF IsCat
<1>3. /\ pc \in Seq(Seq(Int)) /\ Len(pc) = m /\ \A k \in 1..m : pc[k] = Stored(s, c[k]).posts
      /\ pd \in Seq(Seq(Int)) /\ Len(pd) = n /\ \A k \in 1..n : pd[k] = Stored(s, d[k]).posts
  BY StoredPostsIs
<1>4. pe \in Seq(Seq(Int)) /\ Len(pe) = Len(e) /\ \A k \in 1..Len(e) : pe[k] = Stored(s, e[k]).posts
  BY <1>2, StoredPostsIs
<1>. HIDE DEF e, pc, pd, pe
<1>5. IsCat(p, pc, pd, Seq(Int))
  BY <1>3, CatProperties
<1>. HIDE DEF p, m, n
<1>6. /\ p \in Seq(Seq(Int)) /\ Len(p) = m + n
      /\ \A k \in 1..m : p[k] = pc[k]
      /\ \A k \in 1..n : p[m + k] = pd[k]
  BY <1>3, <1>5 DEF IsCat
<1>7. ASSUME NEW k \in 1..m + n PROVE pe[k] = p[k]
  <2>1. CASE k <= m
    <3>1. k \in 1..m /\ k \in 1..Len(e)
      BY <1>2, <2>1
    <3>2. e[k] = c[k] /\ p[k] = pc[k] /\ pc[k] = Stored(s, c[k]).posts /\ pe[k] = Stored(s, e[k]).posts
      BY <1>2, <1>3, <1>4, <1>6, <3>1, Zenon
    <3>. QED
      BY <3>2, Zenon
  <2>2. CASE ~(k <= m)
    <3>. DEFINE j == k - m
    <3>1. j \in 1..n /\ m + j = k /\ k \in 1..Len(e)
      BY <1>2, <2>2
    <3>. HIDE DEF j
    <3>2. e[m + j] = d[j] /\ p[m + j] = pd[j] /\ pd[j] = Stored(s, d[j]).posts
      BY <1>2, <1>3, <1>6, <3>1
    <3>3. pe[k] = Stored(s, e[k]).posts
      BY <1>4, <3>1
    <3>4. e[k] = d[j] /\ p[k] = pd[j]
      BY <3>1, <3>2
    <3>. QED
      BY <3>2, <3>3, <3>4
  <2>. QED
    BY <2>1, <2>2
<1>8. Len(pe) = Len(p) /\ \A k \in 1..Len(pe) : pe[k] = p[k]
  BY <1>2, <1>4, <1>6, <1>7
<1>9. pe = p
  BY <1>4, <1>6, <1>8, SeqEqual
<1>. QED
  BY <1>9 DEF pe, p, pc, pd, e

LEMMA StoredPostsAreKept ==
  ASSUME NEW s, NEW t, NEW chain, \A i \in 1..Len(chain) : Stored(t, chain[i]) = Stored(s, chain[i])
  PROVE  StoredPosts(t, chain) = StoredPosts(s, chain)
BY DEF StoredPosts

HasTheSame(s, chain, t, other) ==
  Len(other) = Len(chain) /\ \A i \in 1..Len(chain) : Stored(t, other[i]) = Stored(s, chain[i])

LEMMA HoldsStill ==
  ASSUME NEW s, NEW chain \in Seq(Infos), Len(chain) > 0, NEW a, Holds(s, chain, a),
         NEW t, NEW other, HasTheSame(s, chain, t, other)
  PROVE  Holds(t, other, a)
<1>1. Len(chain) \in 1..Len(chain) /\ 1 \in 1..Len(chain) /\ Len(other) = Len(chain)
  <2>1. Len(chain) \in Nat
    BY LenProperties
  <2>. QED
    BY <2>1 DEF HasTheSame
<1>2. StoredPosts(t, other) = StoredPosts(s, chain)
  BY DEF StoredPosts, HasTheSame
<1>3. Stored(t, other[1]) = Stored(s, chain[1]) /\ Stored(t, other[Len(other)]) = Stored(s, chain[Len(chain)])
  BY <1>1 DEF HasTheSame
<1>. QED
  BY <1>1, <1>2, <1>3 DEF Holds

Front(chain) == SubSeq(chain, 1, Len(chain) - 1)

LEMMA FrontIs ==
  ASSUME NEW chain \in Seq(Infos), Len(chain) > 0
  PROVE  /\ Front(chain) \in Seq(Infos) /\ Len(Front(chain)) = Len(chain) - 1
         /\ \A i \in 1..Len(chain) - 1 : Front(chain)[i] = chain[i]
         /\ chain = Cat(Front(chain), <<chain[Len(chain)]>>) /\ chain[Len(chain)] \in Infos
<1>. DEFINE n == Len(chain)
            last == chain[n]
            front == SubSeq(chain, 1, n - 1)
<1>1. n \in Nat /\ last \in Infos
  <2>1. n \in Nat
    BY LenProperties
  <2>2. n \in 1..n
    BY <2>1
  <2>. QED
    BY <2>1, <2>2
<1>2. front \in Seq(Infos) /\ Len(front) = n - 1 /\ \A i \in 1..n - 1 : front[i] = chain[i]
  <2>. DEFINE m == n - 1
  <2>1. m \in 0..Len(chain) /\ 1 \in 1..Len(chain) + 1
    BY <1>1
  <2>. HIDE DEF m, n
  <2>2. /\ SubSeq(chain, 1, m) \in Seq(Infos)
        /\ Len(SubSeq(chain, 1, m)) = IF 1 <= m THEN m - 1 + 1 ELSE 0
        /\ \A i \in 1..m - 1 + 1 : SubSeq(chain, 1, m)[i] = chain[1 + i - 1]
    BY <2>1, SubSeqProperties
  <2>3. m - 1 + 1 = m /\ (~(1 <= m) => m = 0) /\ \A i \in 1..m : 1 + i - 1 = i
    BY <2>1
  <2>. QED
    BY <2>2, <2>3 DEF m
<1>. HIDE DEF front
<1>3. chain = Append(front, last)
  <2>. DEFINE more == Append(front, last)
  <2>1. more \in Seq(Infos) /\ Len(more) = n /\ more[n] = last /\ \A i \in 1..n - 1 : more[i] = front[i]
    BY <1>1, <1>2
  <2>. HIDE DEF more
  <2>2. \A i \in 1..n : i = n \/ i \in 1..n - 1
    BY <1>1
  <2>3. \A i \in 1..Len(chain) : chain[i] = more[i]
    BY <1>1, <1>2, <2>1, <2>2
  <2>4. chain = more
    BY <2>1, <2>3, SeqEqual
  <2>. QED
    BY <2>4 DEF more
<1>4. Append(front, last) = Cat(front, <<last>>)
  BY <1>1, <1>2, AppendIsCat
<1>. QED
  BY <1>1, <1>2, <1>3, <1>4 DEF Front, front

\* What the lists before the last hold, and the list that is added to.
Holding(s, chain, list, a) ==
  /\ Cat(Joined(StoredPosts(s, Front(chain))), list.posts) = Differences(a, 0)
  /\ list.largest = LastOf(a, 0)
  /\ Len(chain) = 1 => ElementsOf(list.index) = IndexOf(a, Len(a))

LEMMA HoldsTheList ==
  ASSUME NEW s, IsTyped(s), NEW chain \in Seq(Infos), Len(chain) > 0, NEW a, Holds(s, chain, a),
         NEW list, NEW info, info = chain[Len(chain)], IsFound(list, Stored(s, info), info)
  PROVE  Holding(s, chain, list, a)
<1>. DEFINE front == Front(chain)
            one == <<info>>
            posts == Stored(s, info).posts
<1>1. front \in Seq(Infos) /\ chain = Cat(front, one) /\ info \in Infos
  BY FrontIs
<1>2. one \in Seq(Infos) /\ Len(one) = 1 /\ one[1] = info
  BY <1>1
<1>. HIDE DEF front, one
<1>3. StoredPosts(s, chain) = Cat(StoredPosts(s, front), StoredPosts(s, one))
  BY <1>1, <1>2, StoredPostsOfCat
<1>4. posts \in Seq(Int)
  BY StoredIsStored DEF IsStored
<1>5. Joined(StoredPosts(s, one)) = posts
  <2>. DEFINE p == StoredPosts(s, one)
  <2>1. p \in Seq(Seq(Int)) /\ Len(p) = 1 /\ p[1] = posts
    <3>1. /\ p \in Seq(Seq(Int)) /\ Len(p) = Len(one)
          /\ \A i \in 1..Len(one) : p[i] = Stored(s, one[i]).posts
      BY <1>2, StoredPostsIs
    <3>. HIDE DEF p
    <3>. QED
      BY <1>2, <3>1
  <2>. HIDE DEF p, posts
  <2>2. p = <<posts>>
    <3>1. <<posts>> \in Seq(Seq(Int)) /\ Len(<<posts>>) = 1 /\ <<posts>>[1] = posts
      BY <1>4
    <3>2. \A i \in 1..Len(p) : p[i] = <<posts>>[i]
      BY <2>1, <3>1
    <3>. QED
      BY <2>1, <3>1, <3>2, SeqEqual
  <2>. QED
    BY <1>4, <2>2, JoinedOne DEF p
<1>6. StoredPosts(s, front) \in Seq(Seq(Int)) /\ StoredPosts(s, one) \in Seq(Seq(Int))
  BY <1>1, <1>2, StoredPostsIs
<1>7. Joined(StoredPosts(s, chain)) = Cat(Joined(StoredPosts(s, front)), posts)
  BY <1>3, <1>5, <1>6, JoinedConcat
<1>. QED
  BY <1>7 DEF Holds, Holding, IsFound, front

LEMMA HoldsNothing ==
  ASSUME NEW s, IsTyped(s), NEW info \in Infos, NEW list, IsFound(list, NoPostings, info)
  PROVE  Holding(s, <<info>>, list, <<>>)
<1>. DEFINE chain == <<info>>
            front == Front(chain)
            none == <<>>
<1>1. chain \in Seq(Infos) /\ Len(chain) = 1 /\ chain[1] = info
  OBVIOUS
<1>2. none \in Seq(Int) /\ Len(none) = 0 /\ none \in Seq(Seq(Int)) /\ none \in Seq(Entries)
  OBVIOUS
<1>. HIDE DEF chain
<1>3. front \in Seq(Infos) /\ Len(front) = 0
  BY <1>1, FrontIs
<1>. HIDE DEF front
<1>4. StoredPosts(s, front) = none
  <2>1. StoredPosts(s, front) \in Seq(Seq(Int)) /\ Len(StoredPosts(s, front)) = 0
    BY <1>3, StoredPostsIs
  <2>. QED
    BY <2>1
<1>5. Joined(none) = none
  <2>1. PICK j : AreJoined(j, none) /\ Joined(none) = j[0]
    BY <1>2, JoinedStepwise
  <2>. QED
    BY <2>1 DEF AreJoined
<1>6. Differences(none, 0) = none
  BY <1>2 DEF Differences
<1>7. list.posts = none /\ list.index = none /\ list.largest = 0
  BY NoPostingsFit DEF IsFound
<1>8. Cat(none, none) = none
  BY <1>2, CatEmpty
<1>9. ElementsOf(none) = {} /\ IndexOf(none, 0) = {} /\ LastOf(none, 0) = 0
  BY <1>2 DEF ElementsOf, IndexOf, LastOf
<1>. HIDE DEF none
<1>10. Holding(s, chain, list, none)
  BY <1>2, <1>4, <1>5, <1>6, <1>7, <1>8, <1>9 DEF Holding, front
<1>. QED
  BY <1>10 DEF chain, none

LEMMA ElementsOfCat ==
  ASSUME NEW S, NEW x \in Seq(S), NEW y \in Seq(S)
  PROVE  ElementsOf(Cat(x, y)) = ElementsOf(x) \union ElementsOf(y)
<1>. DEFINE z == Cat(x, y)
            m == Len(x)
            n == Len(y)
<1>1. IsCat(z, x, y, S)
  BY CatProperties
<1>2. /\ m \in Nat /\ n \in Nat /\ Len(z) = m + n /\ \A k \in 1..m : z[k] = x[k]
      /\ \A k \in 1..n : z[m + k] = y[k]
  BY <1>1, LenProperties DEF IsCat
<1>. HIDE DEF z, m, n
<1>3. ASSUME NEW k \in 1..m + n PROVE z[k] \in ElementsOf(x) \union ElementsOf(y)
  <2>1. CASE k <= m
    <3>1. k \in 1..m
      BY <1>2, <2>1
    <3>. QED
      BY <1>2, <3>1 DEF ElementsOf, m
  <2>2. CASE ~(k <= m)
    <3>. DEFINE j == k - m
    <3>1. j \in 1..n /\ m + j = k
      BY <1>2, <2>2
    <3>. HIDE DEF j
    <3>2. z[k] = y[j]
      BY <1>2, <3>1
    <3>. QED
      BY <3>1, <3>2 DEF ElementsOf, n
  <2>. QED
    BY <2>1, <2>2
<1>4. ASSUME NEW k \in 1..m PROVE x[k] \in ElementsOf(z)
  <2>1. k \in 1..Len(z) /\ z[k] = x[k]
    BY <1>2
  <2>. QED
    BY <2>1 DEF ElementsOf
<1>5. ASSUME NEW k \in 1..n PROVE y[k] \in ElementsOf(z)
  <2>. DEFINE j == m + k
  <2>1. j \in 1..Len(z) /\ z[j] = y[k]
    BY <1>2
  <2>. HIDE DEF j
  <2>. QED
    BY <2>1 DEF ElementsOf
<1>6. ElementsOf(z) \subseteq ElementsOf(x) \union ElementsOf(y)
  BY <1>2, <1>3 DEF ElementsOf
<1>7. ElementsOf(x) \subseteq ElementsOf(z) /\ ElementsOf(y) \subseteq ElementsOf(z)
  <2>1. ElementsOf(x) = {x[k] : k \in 1..m} /\ ElementsOf(y) = {y[k] : k \in 1..n}
    BY DEF ElementsOf, m, n
  <2>. QED
    BY <1>4, <1>5, <2>1
<1>. QED
  BY <1>6, <1>7 DEF z

SplitsInto(split, list) ==
  /\ split \in Seq(PostingLists) /\ Len(split) > 0
  /\ Joined(PostsOf(split)) = Cat(list.posts, list.newPosts)
  /\ split[Len(split)].largest = list.largest
  /\ Len(split) = 1 => split = <<list>>

\* The last list of a chain is written anew, with the postings that are added, as these lists.
LEMMA HoldsMore ==
  ASSUME NEW s, IsTyped(s), NEW t, IsTyped(t), NEW chain \in Seq(Infos), Len(chain) > 0,
         NEW a \in Seq(Int), NEW l, IsUnchanged(l), Holding(s, chain, l, a),
         NEW postings \in Seq(Int), NEW split, SplitsInto(split, AddAll(l, postings)),
         NEW tail \in Seq(Infos), Len(tail) = Len(split),
         \A i \in 1..Len(Front(chain)) : Stored(t, Front(chain)[i]) = Stored(s, Front(chain)[i]),
         \A j \in 1..Len(tail) : IsWritten(Stored(t, tail[j]), split[j])
  PROVE  Holds(t, Cat(Front(chain), tail), Cat(a, postings))
<1>. DEFINE front == Front(chain)
            list == AddAll(l, postings)
            all == Cat(front, tail)
            done == Joined(StoredPosts(s, front))
            d == Differences(postings, l.largest)
            more == Cat(a, postings)
            q == Len(split)
            f == Len(front)
<1>1. front \in Seq(Infos) /\ f = Len(chain) - 1 /\ f \in Nat /\ q \in Nat /\ q > 0
  BY FrontIs, LenProperties DEF SplitsInto
<1>2. /\ list \in PostingLists /\ list.posts = l.posts /\ list.index = l.index
      /\ list.largest = LastOf(postings, l.largest) /\ list.newPosts = d
  BY AllAdded
<1>3. /\ split \in Seq(PostingLists) /\ Joined(PostsOf(split)) = Cat(list.posts, list.newPosts)
      /\ split[q].largest = list.largest /\ (q = 1 => split = <<list>>)
  BY DEF SplitsInto
<1>4. l.posts \in Seq(Int) /\ l.largest \in Int /\ l \in PostingLists
  BY FieldsOfAList DEF IsUnchanged
<1>. HIDE DEF list
<1>5. StoredPosts(t, tail) = PostsOf(split)
  <2>. DEFINE x == StoredPosts(t, tail)
              y == PostsOf(split)
  <2>1. x \in Seq(Seq(Int)) /\ Len(x) = Len(tail) /\ \A j \in 1..Len(tail) : x[j] = Stored(t, tail[j]).posts
    BY StoredPostsIs
  <2>2. y \in Seq(Seq(Int)) /\ Len(y) = q /\ \A j \in 1..q : y[j] = Cat(split[j].posts, split[j].newPosts)
    BY <1>3, PostsOfType
  <2>. HIDE DEF x, y
  <2>3. \A j \in 1..Len(x) : x[j] = y[j]
    BY <2>1, <2>2, Zenon DEF IsWritten, q
  <2>4. x = y
    BY <2>1, <2>2, <2>3, SeqEqual
  <2>. QED
    BY <2>4 DEF x, y
<1>6. StoredPosts(t, all) = Cat(StoredPosts(s, front), PostsOf(split))
  <2>1. StoredPosts(t, front) = StoredPosts(s, front)
    BY StoredPostsAreKept
  <2>2. StoredPosts(t, all) = Cat(StoredPosts(t, front), StoredPosts(t, tail))
    BY <1>1, StoredPostsOfCat
  <2>. QED
    BY <1>5, <2>1, <2>2, Zenon
<1>7. done \in Seq(Int) /\ StoredPosts(s, front) \in Seq(Seq(Int)) /\ PostsOf(split) \in Seq(Seq(Int))
  BY <1>1, <1>3, StoredPostsIs, PostsOfType, JoinedType
<1>8. Joined(StoredPosts(t, all)) = Cat(done, Cat(l.posts, d))
  <2>1. Joined(Cat(StoredPosts(s, front), PostsOf(split))) = Cat(done, Joined(PostsOf(split)))
    BY <1>7, JoinedConcat
  <2>. QED
    BY <1>2, <1>3, <1>6, <2>1, Zenon
<1>9. d \in Seq(Int)
  BY <1>4, DifferencesType DEF AreDifferences
<1>. HIDE DEF d, done
<1>10. Cat(done, Cat(l.posts, d)) = Cat(Cat(done, l.posts), d)
  BY <1>4, <1>7, <1>9, CatAssociative
<1>11. /\ Cat(done, l.posts) = Differences(a, 0) /\ l.largest = LastOf(a, 0)
       /\ Len(chain) = 1 => ElementsOf(l.index) = IndexOf(a, Len(a))
  BY DEF Holding, done
<1>12. /\ Differences(more, 0) = Cat(Differences(a, 0), d)
       /\ LastOf(more, 0) = list.largest
  BY <1>2, <1>11, DifferencesOfCat DEF d
<1>13. Joined(StoredPosts(t, all)) = Differences(more, 0)
  BY <1>8, <1>10, <1>11, <1>12, Zenon
<1>14. /\ all \in Seq(Infos) /\ Len(all) = f + q /\ \A k \in 1..q : all[f + k] = tail[k]
  <2>1. IsCat(all, front, tail, Infos)
    BY <1>1, CatProperties
  <2>. QED
    BY <2>1 DEF IsCat
<1>. HIDE DEF all, f, q
<1>15. Stored(t, all[Len(all)]).largest = LastOf(more, 0)
  <2>1. q \in 1..q
    BY <1>1
  <2>2. all[Len(all)] = tail[q] /\ IsWritten(Stored(t, tail[q]), split[q])
    BY <1>14, <2>1 DEF q
  <2>. QED
    BY <1>3, <1>12, <2>2 DEF IsWritten
<1>16. ASSUME Len(all) = 1 PROVE ElementsOf(Stored(t, all[1]).index) = IndexOf(more, Len(more))
  <2>1. f = 0 /\ q = 1 /\ Len(chain) = 1
    <3>. DEFINE n == Len(chain)
    <3>1. n \in Nat
      BY LenProperties
    <3>2. f = n - 1 /\ f \in Nat /\ q \in Nat /\ q > 0
      BY <1>1
    <3>3. f + q = 1
      BY <1>14, <1>16, Zenon
    <3>. HIDE DEF n
    <3>4. f = 0 /\ q = 1 /\ n = 1
      BY <3>1, <3>2, <3>3
    <3>. QED
      BY <3>4 DEF n
  <2>2. all[1] = tail[1] /\ split = <<list>>
    <3>1. 1 \in 1..q /\ f + 1 = 1
      BY <2>1
    <3>. QED
      BY <1>3, <1>14, <2>1, <3>1
  <2>3. IsWritten(Stored(t, tail[1]), list)
    <3>1. 1 \in 1..Len(tail) /\ split[1] = list
      BY <2>1, <2>2 DEF q
    <3>. QED
      BY <3>1
  <2>4. Stored(t, all[1]).index = Cat(list.index, list.newIndices)
    BY <2>2, <2>3 DEF IsWritten
  <2>5. list.index \in Seq(Entries) /\ list.newIndices \in Seq(Entries)
    BY <1>2, FieldsOfAList
  <2>6. ElementsOf(Cat(list.index, list.newIndices)) = EntriesOf(list)
    BY <2>5, ElementsOfCat DEF EntriesOf
  <2>7. front = <<>>
    BY <1>1, <2>1 DEF f
  <2>8. Len(l.posts) = Len(a)
    <3>1. StoredPosts(s, front) = <<>>
      <4>1. StoredPosts(s, front) \in Seq(Seq(Int)) /\ Len(StoredPosts(s, front)) = 0
        BY <1>1, <2>1, StoredPostsIs DEF f
      <4>. QED
        BY <4>1
    <3>2. done = <<>>
      <4>1. <<>> \in Seq(Seq(Int)) /\ Len(<<>>) = 0
        OBVIOUS
      <4>2. PICK j : AreJoined(j, <<>>) /\ Joined(<<>>) = j[0]
        BY <4>1, JoinedStepwise
      <4>. QED
        BY <3>1, <4>2 DEF AreJoined, done
    <3>3. l.posts = Differences(a, 0)
      BY <1>4, <1>11, <3>2, CatEmpty
    <3>. QED
      BY <3>3, DifferencesType DEF AreDifferences
  <2>9. EntriesOf(l) = IndexOf(a, Len(a))
    <3>1. l.newIndices = <<>>
      BY DEF IsUnchanged
    <3>2. ElementsOf(l.newIndices) = {}
      BY <3>1 DEF ElementsOf
    <3>. QED
      BY <1>11, <2>1, <3>2 DEF EntriesOf
  <2>10. EntriesOf(list) = IndexOf(more, Len(more))
    BY <1>11, <2>8, <2>9, IndexIsKept DEF list
  <2>. QED
    BY <2>4, <2>6, <2>10
<1>17. Holds(t, all, more)
  BY <1>13, <1>15, <1>16 DEF Holds
<1>. QED
  BY <1>17 DEF all

(***************************************************************************)
(* Saving a list.                                                          *)
(***************************************************************************)
LEMMA AllFitStill ==
  ASSUME NEW s, AllFit(s), NEW t, NEW info, NEW stored, Writes(s, t, info, stored),
         GetByteSize(PostingListOf(stored)) <= DataSize(info)
  PROVE  AllFit(t)
<1>1. ASSUME NEW other \in Infos
      PROVE  GetByteSize(PostingListOf(Stored(t, other))) <= DataSize(other)
  <2>1. CASE other = info
    BY <2>1 DEF Writes
  <2>2. CASE other # info
    <3>1. Stored(t, other) = Stored(s, other)
      BY <2>2 DEF Writes
    <3>. QED
      BY <3>1 DEF AllFit
  <2>. QED
    BY <2>1, <2>2
<1>. QED
  BY <1>1 DEF AllFit

LEMMA BlockAtIs ==
  ASSUME NEW b \in Nat
  PROVE  /\ BlockAt(b) \in Infos /\ BlockAt(b).size = BlockSize /\ BlockAt(b).block = b
         /\ DataSize(BlockAt(b)) = BlockSize - BlockDataOffset
<1>1. BlockAt(b) \in Infos /\ BlockAt(b).size = BlockSize /\ BlockAt(b).block = b
  BY WholeBlock, InfoIs DEF BlockAt
<1>. QED
  BY <1>1, DataSizes

NewBlocks(N, m) == {BlockAt(N + k) : k \in 0..m - 1}

LEMMA OverflowFits ==
  ASSUME NEW s, IsTyped(s), AllFit(s), NEW split \in Seq(PostingLists), NEW m \in Nat, m < Len(split),
         NEW state, Overflows(s, state, split, m),
         \A j \in 1..Len(split) : GetByteSize(split[j]) <= BlockSize - BlockDataOffset
  PROVE  AllFit(state.store)
<1>. DEFINE t == state.store
            N == s.nextBlock
<1>1. N \in Nat /\ Len(split) \in Nat
  BY LenProperties DEF IsTyped
<1>2. ASSUME NEW other \in Infos
      PROVE  GetByteSize(PostingListOf(Stored(t, other))) <= DataSize(other)
  <2>1. CASE \E k \in 0..m - 1 : other = BlockAt(N + k)
    <3>1. PICK k \in 0..m - 1 : other = BlockAt(N + k)
      BY <2>1
    <3>2. Stored(t, other) = FullUpdate(split[Len(split) - k])
      BY <3>1 DEF Overflows
    <3>3. Len(split) - k \in 1..Len(split) /\ N + k \in Nat
      BY <1>1
    <3>. DEFINE list == split[Len(split) - k]
    <3>4. list \in PostingLists /\ GetByteSize(list) <= BlockSize - BlockDataOffset
      BY <3>3
    <3>5. DataSize(other) = BlockSize - BlockDataOffset
      BY <3>1, <3>3, BlockAtIs
    <3>. HIDE DEF list
    <3>6. GetByteSize(PostingListOf(FullUpdate(list))) = GetByteSize(list)
      BY <3>4, FullUpdateIs DEF IsWritten
    <3>. QED
      BY <3>2, <3>4, <3>5, <3>6 DEF list
  <2>2. CASE ~\E k \in 0..m - 1 : other = BlockAt(N + k)
    <3>1. Stored(t, other) = Stored(s, other)
      BY <2>2 DEF Overflows
    <3>. QED
      BY <3>1 DEF AllFit
  <2>. QED
    BY <2>1, <2>2
<1>. QED
  BY <1>2 DEF AllFit

LEMMA OverflowIsFree ==
  ASSUME NEW s, IsTyped(s), NEW split, NEW m \in Nat, NEW state, Overflows(s, state, split, m),
         NEW owned, Allocated(s, owned)
  PROVE  /\ NewBlocks(s.nextBlock, m) \intersect owned = {}
         /\ Allocated(state.store, owned \union NewBlocks(s.nextBlock, m))
<1>. DEFINE t == state.store
            N == s.nextBlock
            fresh == NewBlocks(N, m)
<1>1. /\ N \in Nat /\ N > 0 /\ t.nextBlock = N + m /\ t.open = s.open /\ t.lastUsed = s.lastUsed
  BY DEF Overflows, IsTyped
<1>2. ASSUME NEW p \in fresh
      PROVE  p \in Infos /\ p.size = BlockSize /\ p.block \in Nat /\ p.block >= N /\ p.block < N + m
  <2>1. PICK k \in 0..m - 1 : p = BlockAt(N + k)
    BY DEF NewBlocks
  <2>2. N + k \in Nat /\ N + k >= N /\ N + k < N + m
    BY <1>1
  <2>. QED
    BY <2>1, <2>2, BlockAtIs
<1>3. \A p \in owned : p \in Infos /\ p.block \in Nat /\ p.block > 0 /\ p.block < N
  BY FieldsOfAnInfo DEF Allocated
<1>. HIDE DEF fresh
<1>4. fresh \intersect owned = {}
  <2>1. ASSUME NEW p \in fresh, p \in owned PROVE FALSE
    BY <1>1, <1>2, <1>3, <2>1
  <2>. QED
    BY <2>1
<1>5. ASSUME NEW p \in owned \union fresh
      PROVE  /\ p \in Infos /\ p.block > 0 /\ p.block < t.nextBlock
             /\ p.size # BlockSize =>
                  /\ p.block = t.open[p.size].block => p.sub < t.open[p.size].sub
                  /\ p.block = t.lastUsed[p.size].block => p.sub <= t.lastUsed[p.size].sub
  <2>1. CASE p \in fresh
    <3>1. p \in Infos /\ p.size = BlockSize /\ p.block \in Nat /\ p.block >= N /\ p.block < N + m
      BY <1>2, <2>1
    <3>. QED
      BY <1>1, <3>1
  <2>2. CASE p \in owned
    <3>1. p \in Infos /\ p.block > 0 /\ p.block < t.nextBlock
      BY <1>1, <1>3, <2>2
    <3>. QED
      BY <1>1, <2>2, <3>1 DEF Allocated
  <2>. QED
    BY <2>1, <2>2
<1>6. Allocated(t, owned \union fresh)
  BY <1>5 DEF Allocated
<1>. QED
  BY <1>4, <1>6 DEF fresh

\* A whole block, and behind it the new ones, the last of which was taken first.
NewTail(first, N, m) == [j \in 1..m + 1 |-> IF j = 1 THEN first ELSE BlockAt(N + m + 1 - j)]

IsLinked(t, tail) ==
  \A j \in 1..Len(tail) :
    /\ tail[j] = SubBlock(BlockSize, tail[j].block, 0)
    /\ tail[j].block > 0 /\ tail[j].block \in DOMAIN t.next
    /\ t.next[tail[j].block] = IF j = Len(tail) THEN 0 ELSE tail[j + 1].block

IsTail(tail, first, N, m) ==
  /\ tail \in Seq(Infos) /\ Len(tail) = m + 1 /\ tail[1] = first
  /\ \A j \in 2..m + 1 : N + m + 1 - j \in Nat /\ tail[j] = BlockAt(N + m + 1 - j)
                         /\ tail[j] \in NewBlocks(N, m)
  /\ \A i, j \in 2..m + 1 : tail[i] = tail[j] => i = j

LEMMA TailIs ==
  ASSUME NEW first \in Infos, NEW N \in Nat, NEW m \in Nat
  PROVE  IsTail(NewTail(first, N, m), first, N, m)
<1>. DEFINE tail == NewTail(first, N, m)
<1>1. ASSUME NEW j \in 2..m + 1
      PROVE  N + m + 1 - j \in Nat /\ BlockAt(N + m + 1 - j) \in NewBlocks(N, m)
             /\ BlockAt(N + m + 1 - j) \in Infos
  <2>. DEFINE k == m + 1 - j
  <2>1. k \in 0..m - 1 /\ N + m + 1 - j = N + k /\ N + k \in Nat
    OBVIOUS
  <2>. HIDE DEF k
  <2>. QED
    BY <2>1, BlockAtIs DEF NewBlocks
<1>2. \A j \in 1..m + 1 : j = 1 \/ j \in 2..m + 1
  OBVIOUS
<1>3. tail \in [1..m + 1 -> Infos]
  BY <1>1, <1>2 DEF NewTail
<1>4. tail[1] = first /\ \A j \in 2..m + 1 : tail[j] = BlockAt(N + m + 1 - j)
  <2>1. 1 \in 1..m + 1 /\ \A j \in 2..m + 1 : j \in 1..m + 1 /\ j # 1
    OBVIOUS
  <2>. QED
    BY <2>1 DEF NewTail
<1>. HIDE DEF tail
<1>5. tail \in Seq(Infos) /\ Len(tail) = m + 1
  <2>1. m + 1 \in Nat
    OBVIOUS
  <2>. QED
    BY <1>3, <2>1, IsASeq
<1>6. ASSUME NEW i \in 2..m + 1, NEW j \in 2..m + 1, tail[i] = tail[j] PROVE i = j
  <2>1. BlockAt(N + m + 1 - i).block = N + m + 1 - i /\ BlockAt(N + m + 1 - j).block = N + m + 1 - j
    BY <1>1, BlockAtIs
  <2>2. N + m + 1 - i = N + m + 1 - j
    BY <1>4, <1>6, <2>1
  <2>. QED
    BY <2>2
<1>7. IsTail(tail, first, N, m)
  BY <1>1, <1>4, <1>5, <1>6 DEF IsTail
<1>. QED
  BY <1>7 DEF tail

LEMMA TailIsLinked ==
  ASSUME NEW first \in Infos, first.size = BlockSize, first.sub = 0, first.block > 0,
         NEW N \in Nat, N > 0, NEW m \in Nat, NEW t,
         first.block \in DOMAIN t.next, t.next[first.block] = IF m = 0 THEN 0 ELSE N + m - 1,
         \A k \in 0..m - 1 : N + k \in DOMAIN t.next /\ t.next[N + k] = IF k = 0 THEN 0 ELSE N + k - 1
  PROVE  IsLinked(t, NewTail(first, N, m))
<1>. DEFINE tail == NewTail(first, N, m)
<1>1. IsTail(tail, first, N, m)
  BY TailIs
<1>2. /\ tail \in Seq(Infos) /\ Len(tail) = m + 1 /\ tail[1] = first
      /\ \A j \in 2..m + 1 : N + m + 1 - j \in Nat /\ tail[j] = BlockAt(N + m + 1 - j)
  BY <1>1 DEF IsTail
<1>. HIDE DEF tail
<1>3. \A j \in 2..m + 1 : tail[j].block = N + m + 1 - j
  BY <1>2, BlockAtIs
<1>4. ASSUME NEW j \in 1..m + 1
      PROVE  /\ tail[j] = SubBlock(BlockSize, tail[j].block, 0)
             /\ tail[j].block > 0 /\ tail[j].block \in DOMAIN t.next
             /\ t.next[tail[j].block] = IF j = m + 1 THEN 0 ELSE tail[j + 1].block
  <2>1. CASE j = 1
    <3>1. first = SubBlock(BlockSize, first.block, 0)
      BY FieldsOfAnInfo
    <3>2. t.next[first.block] = IF 1 = m + 1 THEN 0 ELSE tail[2].block
      <4>1. CASE m = 0
        BY <4>1
      <4>2. CASE m # 0
        <5>1. 2 \in 2..m + 1 /\ N + m + 1 - 2 = N + m - 1 /\ 1 # m + 1
          BY <4>2
        <5>. QED
          BY <1>3, <4>2, <5>1
      <4>. QED
        BY <4>1, <4>2
    <3>3. 1 + 1 = 2
      OBVIOUS
    <3>. QED
      BY <1>2, <2>1, <3>1, <3>2, <3>3
  <2>2. CASE j # 1
    <3>. DEFINE k == m + 1 - j
    <3>1. /\ k \in 0..m - 1 /\ N + m + 1 - j = N + k /\ N + k \in Nat /\ N + k > 0
          /\ j \in 2..m + 1 /\ (k = 0 <=> j = m + 1)
      BY <2>2
    <3>2. tail[j] = BlockAt(N + k) /\ tail[j].block = N + k
      BY <1>2, <1>3, <3>1
    <3>3. N + k \in DOMAIN t.next /\ t.next[N + k] = IF k = 0 THEN 0 ELSE N + k - 1
      BY <3>1
    <3>4. j # m + 1 => tail[j + 1].block = N + k - 1
      <4>1. j # m + 1 => j + 1 \in 2..m + 1 /\ N + m + 1 - (j + 1) = N + k - 1
        BY <2>2
      <4>. QED
        BY <1>3, <4>1
    <3>. HIDE DEF k
    <3>. QED
      BY <3>1, <3>2, <3>3, <3>4 DEF BlockAt
  <2>. QED
    BY <2>1, <2>2
<1>5. IsLinked(t, tail)
  BY <1>2, <1>4 DEF IsLinked
<1>. QED
  BY <1>5 DEF tail

\* The word is added to: its last list is l, in info.
IsAdding(s, chains, word, info, l) ==
  /\ IsTyped(s) /\ AllFit(s) /\ IsLayout(s, chains) /\ word \in DOMAIN chains
  /\ info = chains[word][Len(chains[word])]
  /\ IsFound(l, Stored(s, info), info) \/ IsFound(l, NoPostings, info)

\* The last list of the word is written anew as these lists, and the others are as they were.
IsSaved(s, t, chains, more, word, split) ==
  /\ IsTyped(t) /\ AllFit(t) /\ IsLayout(t, more) /\ DOMAIN more = DOMAIN chains
  /\ \E tail \in Seq(Infos) :
       /\ Len(tail) = Len(split) /\ more[word] = Cat(Front(chains[word]), tail)
       /\ \A j \in 1..Len(tail) : IsWritten(Stored(t, tail[j]), split[j])
  /\ \A i \in 1..Len(Front(chains[word])) :
       Stored(t, Front(chains[word])[i]) = Stored(s, Front(chains[word])[i])
  /\ \A v \in DOMAIN chains \ {word} :
       more[v] = chains[v] /\ \A i \in 1..Len(chains[v]) : Stored(t, chains[v][i]) = Stored(s, chains[v][i])

\* Nothing but what is in info is written anew: the other lists are as they were.
WritesOnly(s, t, chains, info) == \A p \in Owned(chains) \ {info} : Stored(t, p) = Stored(s, p)

AreOthers(s, t, chains, word, info) ==
  /\ \A i \in 1..Len(Front(chains[word])) :
       /\ Front(chains[word])[i] # info
       /\ Stored(t, Front(chains[word])[i]) = Stored(s, Front(chains[word])[i])
  /\ \A v \in DOMAIN chains \ {word} : \A i \in 1..Len(chains[v]) :
       chains[v][i] # info /\ Stored(t, chains[v][i]) = Stored(s, chains[v][i])

LEMMA OthersAreKept ==
  ASSUME NEW s, NEW chains, IsLayout(s, chains), NEW word \in DOMAIN chains, NEW info,
         info = chains[word][Len(chains[word])], NEW t, WritesOnly(s, t, chains, info)
  PROVE  AreOthers(s, t, chains, word, info)
<1>. DEFINE chain == chains[word]
            n == Len(chain)
<1>1. /\ chain \in Seq(Infos) /\ n \in Nat /\ n > 0
      /\ \A i \in 1..n : chain[i] \in Owned(chains)
  BY ChainsAreOwned
<1>2. /\ Len(Front(chain)) = n - 1 /\ \A i \in 1..n - 1 : Front(chain)[i] = chain[i]
  BY <1>1, FrontIs
<1>3. n \in 1..n
  BY <1>1
<1>4. ASSUME NEW i \in 1..n - 1 PROVE chain[i] # info /\ chain[i] \in Owned(chains)
  <2>1. i \in 1..n /\ i # n
    BY <1>1
  <2>2. chain[i] # chain[n]
    BY <1>3, <2>1 DEF IsLayout
  <2>. QED
    BY <1>1, <2>1, <2>2
<1>5. ASSUME NEW v \in DOMAIN chains \ {word}, NEW i \in 1..Len(chains[v])
      PROVE  chains[v][i] # info /\ chains[v][i] \in Owned(chains)
  <2>1. chains[v][i] # chain[n]
    BY <1>3 DEF IsLayout
  <2>. QED
    BY <2>1, ChainsAreOwned
<1>. HIDE DEF chain, n
<1>6. \A i \in 1..Len(Front(chain)) :
        Front(chain)[i] # info /\ Stored(t, Front(chain)[i]) = Stored(s, Front(chain)[i])
  BY <1>2, <1>4 DEF WritesOnly
<1>. QED
  BY <1>5, <1>6 DEF chain, WritesOnly, AreOthers

LEMMA LayoutStill ==
  ASSUME NEW s, NEW chains, IsLayout(s, chains), NEW t, t.subBlockIndex = s.subBlockIndex,
         t.next = s.next, t.open = s.open, t.lastUsed = s.lastUsed, t.nextBlock = s.nextBlock
  PROVE  IsLayout(t, chains)
<1>1. \A word \in DOMAIN chains : IsChain(t, t.subBlockIndex[word], chains[word])
  BY DEF IsLayout, IsChain
<1>2. Allocated(t, Owned(chains))
  BY DEF IsLayout, Allocated
<1>. QED
  BY <1>1, <1>2 DEF IsLayout

LEMMA AddedToIs ==
  ASSUME NEW s, NEW chains, NEW word, NEW info, NEW l, IsAdding(s, chains, word, info, l)
  PROVE  /\ IsUnchanged(l) /\ GetByteSize(l) <= DataSize(info) /\ IsOf(l, Stored(s, info))
         /\ info \in Infos /\ info \in Owned(chains) /\ IsStored(Stored(s, info))
<1>1. Len(chains[word]) \in 1..Len(chains[word])
  BY ChainsAreOwned DEF IsAdding
<1>2. info \in Infos /\ info \in Owned(chains)
  BY <1>1, ChainsAreOwned DEF IsAdding
<1>3. IsOf(l, Stored(s, info))
  <2>1. CASE IsFound(l, Stored(s, info), info)
    BY <2>1 DEF IsOf, IsFound
  <2>2. CASE IsFound(l, NoPostings, info)
    BY <1>2, <2>2, NoPostingsFit DEF IsOf, IsFound
  <2>. QED
    BY <2>1, <2>2 DEF IsAdding
<1>4. IsStored(Stored(s, info))
  BY StoredIsStored DEF IsAdding
<1>. QED
  BY <1>2, <1>3, <1>4 DEF IsAdding, IsFound

\* A list that fits is written in its place.
LEMMA SavedInPlace ==
  ASSUME NEW s, NEW chains, NEW word, NEW info, NEW l, IsAdding(s, chains, word, info, l),
         NEW list \in PostingLists, list.posts = l.posts, list.index = l.index,
         GetByteSize(list) <= DataSize(info), NEW t,
         t = [s EXCEPT !.area = With(@, info, UpdateInPlace(Stored(s, info), list))]
  PROVE  IsSaved(s, t, chains, chains, word, <<list>>)
<1>. DEFINE stored == UpdateInPlace(Stored(s, info), list)
            area == With(s.area, info, stored)
            tail == <<info>>
            one == <<list>>
<1>1. /\ IsTyped(s) /\ IsStore(s) /\ AllFit(s) /\ IsLayout(s, chains) /\ word \in DOMAIN chains
      /\ info = chains[word][Len(chains[word])]
  BY DEF IsAdding, IsTyped
<1>2. IsOf(l, Stored(s, info)) /\ info \in Infos /\ IsStored(Stored(s, info))
  BY AddedToIs
<1>3. IsWritten(stored, list)
  BY <1>2, UpdateInPlaceIs DEF IsOf
<1>4. t = [s EXCEPT !.area = area]
  OBVIOUS
<1>. HIDE DEF area, stored
<1>5. /\ IsStore(t) /\ t.area = area /\ t.next = s.next /\ t.subBlockIndex = s.subBlockIndex
      /\ t.open = s.open /\ t.lastUsed = s.lastUsed /\ t.nextBlock = s.nextBlock
  BY <1>1, <1>4 DEF IsStore
<1>6. Writes(s, t, info, stored)
  <2>1. t.area = With(s.area, info, stored)
    BY <1>5 DEF area
  <2>. QED
    BY <2>1, StoredWith
<1>7. IsTyped(t)
  <2>1. \A key \in DOMAIN t.area : IsStored(t.area[key])
    <3>1. ASSUME NEW key \in DOMAIN t.area PROVE IsStored(t.area[key])
      <4>1. t.area[key] = Stored(t, key)
        BY DEF Stored
      <4>. QED
        BY <1>1, <1>3, <1>6, <4>1, StoredIsStored DEF Writes, IsWritten
    <3>. QED
      BY <3>1
  <2>. QED
    BY <1>1, <1>5, <2>1 DEF IsTyped
<1>8. AllFit(t)
  BY <1>1, <1>3, <1>6, AllFitStill DEF IsWritten
<1>9. IsLayout(t, chains)
  BY <1>1, <1>5, LayoutStill
<1>10. WritesOnly(s, t, chains, info)
  BY <1>6 DEF Writes, WritesOnly
<1>11. tail \in Seq(Infos) /\ Len(tail) = 1 /\ Len(one) = 1 /\ tail[1] = info /\ one[1] = list
  BY <1>2
<1>12. chains[word] = Cat(Front(chains[word]), tail)
  BY <1>1, ChainsAreOwned, FrontIs
<1>. HIDE DEF tail, one
<1>13. \A j \in 1..Len(tail) : IsWritten(Stored(t, tail[j]), one[j])
  BY <1>3, <1>6, <1>11 DEF Writes
<1>14. \E x \in Seq(Infos) :
         /\ Len(x) = Len(one) /\ chains[word] = Cat(Front(chains[word]), x)
         /\ \A j \in 1..Len(x) : IsWritten(Stored(t, x[j]), one[j])
  BY <1>11, <1>12, <1>13
<1>15. /\ \A i \in 1..Len(Front(chains[word])) :
            Stored(t, Front(chains[word])[i]) = Stored(s, Front(chains[word])[i])
       /\ \A v \in DOMAIN chains \ {word} : \A i \in 1..Len(chains[v]) :
            Stored(t, chains[v][i]) = Stored(s, chains[v][i])
  <2>1. AreOthers(s, t, chains, word, info)
    BY <1>1, <1>10, OthersAreKept
  <2>. QED
    BY <2>1 DEF AreOthers
<1>16. IsSaved(s, t, chains, chains, word, one)
  BY <1>7, <1>8, <1>9, <1>14, <1>15, Zenon DEF IsSaved
<1>. QED
  BY <1>16 DEF one

LEMMA WholeBlocks ==
  ASSUME NEW s, NEW chains, IsLayout(s, chains), NEW word \in DOMAIN chains,
         NEW i \in 1..Len(chains[word])
  PROVE  LET p == chains[word][i]
         IN  /\ p.block \in Nat /\ p.block > 0 /\ p.block < s.nextBlock
             /\ p.size = BlockSize => /\ p = SubBlock(BlockSize, p.block, 0)
                                      /\ s.subBlockIndex[word].size = BlockSize
                                      /\ p.block \in DOMAIN s.next
             /\ p.size # BlockSize => Len(chains[word]) = 1 /\ s.subBlockIndex[word] = p
<1>. DEFINE p == chains[word][i]
            head == s.subBlockIndex[word]
<1>1. IsChain(s, head, chains[word]) /\ p \in Infos /\ p \in Owned(chains) /\ Len(chains[word]) \in Nat
  BY ChainsAreOwned
<1>2. p.block \in Nat /\ p.block > 0 /\ p.block < s.nextBlock
  BY <1>1, FieldsOfAnInfo DEF IsLayout, Allocated
<1>3. CASE head.size = BlockSize
  <2>1. p = SubBlock(BlockSize, p.block, 0) /\ p.block \in DOMAIN s.next
    BY <1>1, <1>3 DEF IsChain
  <2>2. p.size = BlockSize
    BY <2>1 DEF SubBlock
  <2>. QED
    BY <1>2, <1>3, <2>1, <2>2
<1>4. CASE head.size # BlockSize
  <2>1. Len(chains[word]) = 1 /\ chains[word][1] = head
    BY <1>1, <1>4 DEF IsChain
  <2>2. p = head
    BY <2>1
  <2>. QED
    BY <1>2, <1>4, <2>1, <2>2
<1>. QED
  BY <1>3, <1>4

LEMMA SplitHead ==
  ASSUME NEW split, NEW list, NEW size, IsSplit(split, list, size)
  PROVE  /\ Head(split) = split[1] /\ split[1] \in PostingLists
         /\ Len(split) \in Nat /\ Len(split) - 1 \in Nat /\ Len(split) - 1 < Len(split)
         /\ split \in Seq(PostingLists) /\ Len(split) > 0
  BY DEF IsSplit

\* The blocks that go on behind the last block of a chain are linked to it.
LEMMA ChainGoesOn ==
  ASSUME NEW s, NEW head, NEW chain, IsChain(s, head, chain), NEW t, s.nextBlock \in Nat,
         head.size = BlockSize, NEW m \in Nat, t.nextBlock = s.nextBlock + m,
         NEW tail \in Seq(Infos), Len(tail) = m + 1, tail[1] = chain[Len(chain)], IsLinked(t, tail),
         \A i \in 1..Len(chain) - 1 :
           /\ chain[i].block \in DOMAIN t.next
           /\ t.next[chain[i].block] = s.next[chain[i].block]
  PROVE  IsChain(t, head, Cat(Front(chain), tail))
<1>. DEFINE n == Len(chain)
            front == Front(chain)
            new == Cat(front, tail)
<1>1. chain \in Seq(Infos) /\ n \in Nat /\ n > 0 /\ n <= s.nextBlock /\ chain[1] = head
  BY DEF IsChain
<1>2. /\ front \in Seq(Infos) /\ Len(front) = n - 1 /\ \A i \in 1..n - 1 : front[i] = chain[i]
  BY <1>1, FrontIs
<1>3. IsCat(new, front, tail, Infos)
  BY <1>2, CatProperties
<1>4. \A i \in 1..n : chain[i] = SubBlock(BlockSize, chain[i].block, 0) /\ chain[i].block > 0
  BY DEF IsChain
<1>5. ASSUME NEW i \in 1..n - 1 PROVE s.next[chain[i].block] = chain[i + 1].block
  <2>1. i \in 1..n /\ i # n
    BY <1>1
  <2>. QED
    BY <2>1 DEF IsChain
<1>6. tail[1] = chain[n]
  OBVIOUS
<1>. HIDE DEF n, front, new
<1>7. /\ Len(new) = n + m /\ \A i \in 1..n - 1 : new[i] = chain[i]
      /\ \A i \in n..n + m : i - (n - 1) \in 1..m + 1 /\ new[i] = tail[i - (n - 1)]
  <2>1. Len(new) = n + m
    BY <1>1, <1>2, <1>3 DEF IsCat
  <2>2. ASSUME NEW i \in 1..n - 1 PROVE new[i] = chain[i]
    BY <1>1, <1>2, <1>3 DEF IsCat
  <2>3. ASSUME NEW i \in n..n + m PROVE i - (n - 1) \in 1..m + 1 /\ new[i] = tail[i - (n - 1)]
    <3>. DEFINE f == Len(front)
    <3>0. f = n - 1
      BY <1>2
    <3>. HIDE DEF f
    <3>1. i - (n - 1) \in 1..Len(tail) /\ f + (i - (n - 1)) = i
      BY <1>1, <3>0
    <3>. USE DEF f
    <3>2. new[Len(front) + (i - (n - 1))] = tail[i - (n - 1)]
      BY <1>3, <3>1 DEF IsCat
    <3>. QED
      BY <3>1, <3>2
  <2>. QED
    BY <2>1, <2>2, <2>3
<1>8. new[n] = chain[n]
  <2>1. n \in n..n + m /\ n - (n - 1) = 1
    BY <1>1
  <2>. QED
    BY <1>6, <1>7, <2>1
<1>9. new[1] = head
  BY <1>1, <1>7, <1>8
<1>10. ASSUME NEW i \in 1..Len(new)
       PROVE  /\ new[i] = SubBlock(BlockSize, new[i].block, 0)
              /\ new[i].block > 0 /\ new[i].block \in DOMAIN t.next
              /\ t.next[new[i].block] = IF i = Len(new) THEN 0 ELSE new[i + 1].block
  <2>1. CASE i \in 1..n - 1
    <3>1. new[i] = chain[i] /\ i \in 1..n /\ i + 1 \in 1..n /\ i # n + m
      BY <1>1, <1>7, <2>1
    <3>2. new[i + 1] = chain[i + 1]
      BY <1>1, <1>7, <1>8, <2>1
    <3>3. chain[i].block \in DOMAIN t.next /\ t.next[chain[i].block] = s.next[chain[i].block]
      BY <2>1 DEF n
    <3>. QED
      BY <1>4, <1>5, <1>7, <2>1, <3>1, <3>2, <3>3
  <2>2. CASE i \in n..n + m
    <3>. DEFINE j == i - (n - 1)
    <3>1. j \in 1..m + 1 /\ new[i] = tail[j]
      BY <1>7, <2>2
    <3>2. (j = m + 1) <=> (i = n + m)
      BY <1>1, <2>2
    <3>3. i # n + m => new[i + 1] = tail[j + 1]
      <4>1. i # n + m => i + 1 \in n..n + m /\ (i + 1) - (n - 1) = j + 1
        BY <1>1, <2>2
      <4>. QED
        BY <1>7, <4>1
    <3>. HIDE DEF j
    <3>4. /\ tail[j] = SubBlock(BlockSize, tail[j].block, 0)
          /\ tail[j].block > 0 /\ tail[j].block \in DOMAIN t.next
          /\ t.next[tail[j].block] = IF j = m + 1 THEN 0 ELSE tail[j + 1].block
      BY <3>1 DEF IsLinked
    <3>. QED
      BY <1>7, <3>1, <3>2, <3>3, <3>4
  <2>3. i \in 1..n - 1 \/ i \in n..n + m
    BY <1>1, <1>7
  <2>. QED
    BY <2>1, <2>2, <2>3
<1>11. new \in Seq(Infos) /\ Len(new) > 0 /\ Len(new) <= t.nextBlock
  BY <1>1, <1>3, <1>7 DEF IsCat
<1>12. IsChain(t, head, new)
  BY <1>9, <1>10, <1>11 DEF IsChain
<1>. QED
  BY <1>12 DEF new, front

\* The tail of blocks behind a first one is all different blocks ...
LEMMA TailIsDifferent ==
  ASSUME NEW tail, NEW first, NEW N, NEW m \in Nat, IsTail(tail, first, N, m),
         first \notin NewBlocks(N, m)
  PROVE  \A i, j \in 1..Len(tail) : tail[i] = tail[j] => i = j
<1>1. ASSUME NEW i \in 1..Len(tail), NEW j \in 1..Len(tail), tail[i] = tail[j] PROVE i = j
  <2>1. (i = 1 \/ i \in 2..m + 1) /\ (j = 1 \/ j \in 2..m + 1)
    BY DEF IsTail
  <2>2. tail[1] = first /\ \A k \in 2..m + 1 : tail[k] \in NewBlocks(N, m)
    BY DEF IsTail
  <2>3. CASE i \in 2..m + 1 /\ j \in 2..m + 1
    BY <1>1, <2>3 DEF IsTail
  <2>4. CASE i = 1 \/ j = 1
    BY <1>1, <2>1, <2>2, <2>4
  <2>. QED
    BY <2>1, <2>3, <2>4
<1>. QED
  BY <1>1

\* ... which hold the lists, from the second one on.
LEMMA TailIsWritten ==
  ASSUME NEW s, NEW split \in Seq(PostingLists), NEW m \in Nat, m = Len(split) - 1, NEW state,
         Overflows(s, state, split, m), NEW first, NEW tail, s.nextBlock \in Nat,
         IsTail(tail, first, s.nextBlock, m), NEW j \in 2..m + 1
  PROVE  IsWritten(Stored(state.store, tail[j]), split[j])
<1>. DEFINE k == m + 1 - j
            N == s.nextBlock
<1>1. k \in 0..m - 1 /\ N + m + 1 - j = N + k /\ Len(split) - k = j /\ j \in 1..Len(split)
  BY Z3
<1>2. tail[j] = BlockAt(N + m + 1 - j)
  BY DEF IsTail
<1>3. tail[j] = BlockAt(N + k)
  BY <1>1, <1>2
<1>. HIDE DEF k
<1>4. Stored(state.store, BlockAt(N + k)) = FullUpdate(split[Len(split) - k])
  BY <1>1 DEF Overflows
<1>5. split[j] \in PostingLists
  BY <1>1
<1>. QED
  BY <1>1, <1>3, <1>4, <1>5, FullUpdateIs

\* What is known of a store in which the new blocks of a split are, but not the first list.
IsOver(s, chains, split, state) ==
  LET N == s.nextBlock
      m == Len(split) - 1
      t == state.store
  IN  /\ Overflows(s, state, split, m) /\ IsTyped(t) /\ IsStore(t) /\ AllFit(t)
      /\ t.nextBlock = N + m /\ t.subBlockIndex = s.subBlockIndex
      /\ NewBlocks(N, m) \intersect Owned(chains) = {}
      /\ Allocated(t, Owned(chains) \union NewBlocks(N, m))
      /\ \A p \in Owned(chains) : Stored(t, p) = Stored(s, p)
      /\ \A k \in 0..m - 1 : N + k \in DOMAIN t.next /\ t.next[N + k] = IF k = 0 THEN 0 ELSE N + k - 1
      /\ \A v \in DOMAIN chains : \A i \in 1..Len(chains[v]) :
           LET b == chains[v][i].block
           IN  chains[v][i].size = BlockSize => b \in DOMAIN t.next /\ t.next[b] = s.next[b]

LEMMA OverIs ==
  ASSUME NEW s, IsTyped(s), AllFit(s), NEW chains, IsLayout(s, chains), NEW split, NEW list,
         IsSplit(split, list, BlockSize - BlockDataOffset)
  PROVE  IsOver(s, chains, split, PlaceOverflow(s, split))
<1>. DEFINE N == s.nextBlock
            m == Len(split) - 1
            state == PlaceOverflow(s, split)
            t == state.store
<1>1. split \in Seq(PostingLists) /\ Len(split) > 0 /\ m \in Nat /\ m < Len(split)
  BY SplitHead
<1>2. Overflows(s, state, split, m)
  BY <1>1, OverflowIs
<1>. HIDE DEF state
<1>3. /\ IsTyped(t) /\ IsStore(t) /\ t.nextBlock = N + m /\ t.subBlockIndex = s.subBlockIndex
      /\ N \in Nat /\ N > 0
  BY <1>2 DEF Overflows, IsTyped
<1>4. AllFit(t)
  BY <1>1, <1>2, OverflowFits DEF IsSplit
<1>5. Allocated(s, Owned(chains))
  BY DEF IsLayout
<1>6. NewBlocks(N, m) \intersect Owned(chains) = {} /\ Allocated(t, Owned(chains) \union NewBlocks(N, m))
  BY <1>1, <1>2, <1>5, OverflowIsFree
<1>7. ASSUME NEW p \in Owned(chains) PROVE Stored(t, p) = Stored(s, p)
  <2>1. \A k \in 0..m - 1 : p # BlockAt(N + k)
    BY <1>6 DEF NewBlocks
  <2>. QED
    BY <1>2, <2>1 DEF Overflows
<1>8. \A k \in 0..m - 1 : N + k \in DOMAIN t.next /\ t.next[N + k] = IF k = 0 THEN 0 ELSE N + k - 1
  BY <1>2 DEF Overflows
<1>9. ASSUME NEW v \in DOMAIN chains, NEW i \in 1..Len(chains[v]), chains[v][i].size = BlockSize
      PROVE  /\ chains[v][i].block \in DOMAIN t.next
             /\ t.next[chains[v][i].block] = s.next[chains[v][i].block]
  <2>1. /\ chains[v][i].block \in Nat /\ chains[v][i].block < N
        /\ chains[v][i].block \in DOMAIN s.next
    BY <1>9, WholeBlocks
  <2>. QED
    BY <1>2, <2>1 DEF Overflows
<1>10. IsOver(s, chains, split, state)
  BY <1>2, <1>3, <1>4, <1>6, <1>7, <1>8, <1>9 DEF IsOver
<1>. QED
  BY <1>10 DEF state

\* A list of whole blocks that does not fit is split over more of them.
LEMMA SavedInBlocks ==
  ASSUME NEW s, NEW chains, NEW word, NEW info, NEW l, IsAdding(s, chains, word, info, l),
         info.size = BlockSize, NEW list, list.posts = l.posts, list.index = l.index,
         NEW split, IsSplit(split, list, BlockSize - BlockDataOffset), NEW over, NEW t,
         over = PlaceOverflow(s, split),
         t = Place(over.store, info, UpdateInPlace(Stored(s, info), Head(split)), over.next)
  PROVE  \E more : IsSaved(s, t, chains, more, word, split)
<1>. DEFINE N == s.nextBlock
            m == Len(split) - 1
            stored == UpdateInPlace(Stored(s, info), Head(split))
            chain == chains[word]
            n == Len(chain)
            tail == NewTail(info, N, m)
            new == Cat(Front(chain), tail)
            more == With(chains, word, new)
            fresh == NewBlocks(N, m)
            u == over.store
<1>1. /\ IsTyped(s) /\ AllFit(s) /\ IsLayout(s, chains) /\ word \in DOMAIN chains
      /\ info = chain[n] /\ N \in Nat /\ N > 0
  BY DEF IsAdding, IsTyped
<1>2. /\ GetByteSize(l) <= DataSize(info) /\ IsOf(l, Stored(s, info))
      /\ info \in Infos /\ info \in Owned(chains) /\ IsStored(Stored(s, info))
  BY AddedToIs
<1>3. /\ Head(split) = split[1] /\ split[1] \in PostingLists /\ m \in Nat /\ m < Len(split)
      /\ split \in Seq(PostingLists) /\ Len(split) > 0
  BY SplitHead
<1>4. IsOver(s, chains, split, over)
  BY <1>1, OverIs
<1>5. IsWritten(stored, split[1])
  <2>1. IsOf(split[1], Stored(s, info))
    BY <1>2 DEF IsOf, IsSplit
  <2>. QED
    BY <1>2, <1>3, <2>1, UpdateInPlaceIs
<1>6. chain \in Seq(Infos) /\ n \in Nat /\ n > 0 /\ n \in 1..n /\ IsChain(s, s.subBlockIndex[word], chain)
  BY <1>1, ChainsAreOwned
<1>7. /\ info.block \in Nat /\ info.block > 0 /\ info.block < N /\ info = SubBlock(BlockSize, info.block, 0)
      /\ s.subBlockIndex[word].size = BlockSize /\ info.sub = 0
  <2>1. /\ info.block \in Nat /\ info.block > 0 /\ info.block < N /\ info = SubBlock(BlockSize, info.block, 0)
        /\ s.subBlockIndex[word].size = BlockSize
    BY <1>1, <1>6, WholeBlocks
  <2>. QED
    BY <2>1 DEF SubBlock
<1>8. t = Place(u, info, stored, over.next)
  OBVIOUS
<1>. HIDE DEF stored, u, N, m, tail, fresh
<1>9. IsPlaced(u, t, info, stored, over.next)
  BY <1>4, <1>8, Placed DEF IsOver, u
<1>10. IsTyped(t)
  BY <1>4, <1>5, <1>9, PlacedIsTyped DEF IsOver, u, IsWritten
<1>11. AllFit(t)
  <2>1. DataSize(info) = BlockSize - BlockDataOffset
    BY <1>2, DataSizes
  <2>2. GetByteSize(split[1]) <= BlockSize - BlockDataOffset
    BY <1>3 DEF IsSplit
  <2>3. GetByteSize(PostingListOf(stored)) <= DataSize(info)
    BY <1>5, <2>1, <2>2 DEF IsWritten
  <2>4. Writes(u, t, info, stored) /\ AllFit(u)
    BY <1>4, <1>9 DEF IsPlaced, IsOver, u
  <2>. QED
    BY <2>3, <2>4, AllFitStill
<1>12. /\ t.nextBlock = N + m /\ t.subBlockIndex = s.subBlockIndex
       /\ t.next = With(u.next, info.block, over.next)
       /\ t.open = u.open /\ t.lastUsed = u.lastUsed /\ t.nextBlock = u.nextBlock
  BY <1>4, <1>9 DEF IsPlaced, IsOver, u, N, m
<1>13. /\ info.block \in DOMAIN t.next /\ t.next[info.block] = over.next
       /\ \A b \in DOMAIN u.next : b # info.block => b \in DOMAIN t.next /\ t.next[b] = u.next[b]
  BY <1>12 DEF With
<1>14. over.next = IF m = 0 THEN 0 ELSE N + m - 1
  BY <1>4 DEF IsOver, Overflows, N, m
<1>15. \A k \in 0..m - 1 : N + k \in DOMAIN t.next /\ t.next[N + k] = IF k = 0 THEN 0 ELSE N + k - 1
  <2>1. ASSUME NEW k \in 0..m - 1
        PROVE  N + k \in DOMAIN u.next /\ u.next[N + k] = IF k = 0 THEN 0 ELSE N + k - 1
    BY <1>4 DEF IsOver, u, N, m
  <2>2. \A k \in 0..m - 1 : N + k # info.block
    BY <1>1, <1>7, <1>3
  <2>. QED
    BY <1>13, <2>1, <2>2
<1>16. IsTail(tail, info, N, m)
  BY <1>1, <1>2, <1>3, TailIs DEF tail
<1>17. IsLinked(t, tail)
  <2>1. info.block \in DOMAIN t.next /\ t.next[info.block] = IF m = 0 THEN 0 ELSE N + m - 1
    BY <1>13, <1>14
  <2>2. IsLinked(t, NewTail(info, N, m))
    BY <1>1, <1>2, <1>3, <1>7, <1>15, <2>1, TailIsLinked
  <2>. QED
    BY <2>2 DEF tail
<1>18. tail \in Seq(Infos) /\ Len(tail) = m + 1 /\ tail[1] = info
  BY <1>16 DEF IsTail
<1>19. ASSUME NEW v \in DOMAIN chains, NEW i \in 1..Len(chains[v]), chains[v][i] # info,
              chains[v][i].size = BlockSize
       PROVE  /\ chains[v][i].block \in DOMAIN t.next
              /\ t.next[chains[v][i].block] = s.next[chains[v][i].block]
  <2>1. chains[v][i] = SubBlock(BlockSize, chains[v][i].block, 0)
    BY <1>1, <1>19, WholeBlocks
  <2>2. chains[v][i].block # info.block
    BY <1>7, <1>19, <2>1
  <2>3. /\ chains[v][i].block \in DOMAIN u.next
        /\ u.next[chains[v][i].block] = s.next[chains[v][i].block]
    BY <1>4, <1>19 DEF IsOver, u
  <2>. QED
    BY <1>13, <2>2, <2>3
<1>20. ASSUME NEW v \in DOMAIN chains, NEW i \in 1..Len(chains[v]), v # word \/ i # n
       PROVE  chains[v][i] # info
  BY <1>1, <1>6, <1>20 DEF IsLayout
<1>21. IsChain(t, t.subBlockIndex[word], new)
  <2>1. ASSUME NEW i \in 1..n - 1
        PROVE  chain[i].block \in DOMAIN t.next /\ t.next[chain[i].block] = s.next[chain[i].block]
    <3>1. i \in 1..n /\ i # n
      BY <1>6
    <3>2. chain[i] # info
      BY <1>1, <1>20, <3>1
    <3>3. chain[i].size = BlockSize
      <4>1. chain[i].size # BlockSize => n = 1
        BY <1>1, <3>1, WholeBlocks
      <4>. HIDE DEF n, chain
      <4>. QED
        BY <1>6, <3>1, <4>1
    <3>. QED
      BY <1>1, <1>19, <3>1, <3>2, <3>3
  <2>2. t.nextBlock = s.nextBlock + m
    BY <1>12 DEF N
  <2>3. s.nextBlock \in Nat
    BY <1>1 DEF N
  <2>. DEFINE head == s.subBlockIndex[word]
  <2>5. /\ tail[1] = chain[Len(chain)] /\ IsChain(s, head, chain) /\ head.size = BlockSize
        /\ \A i \in 1..Len(chain) - 1 :
             chain[i].block \in DOMAIN t.next /\ t.next[chain[i].block] = s.next[chain[i].block]
    BY <1>1, <1>6, <1>7, <1>18, <2>1
  <2>. HIDE DEF chain, n, head
  <2>6. IsChain(t, head, Cat(Front(chain), tail))
    BY <1>3, <1>17, <1>18, <2>2, <2>3, <2>5, ChainGoesOn
  <2>4. IsChain(t, s.subBlockIndex[word], Cat(Front(chain), tail))
    BY <2>6 DEF head
  <2>. QED
    BY <1>12, <2>4
<1>22. ASSUME NEW v \in DOMAIN chains \ {word} PROVE IsChain(t, t.subBlockIndex[v], chains[v])
  <2>1. IsChain(s, s.subBlockIndex[v], chains[v])
    BY <1>1, ChainsAreOwned
  <2>2. s.nextBlock \in Nat /\ t.nextBlock \in Nat /\ s.nextBlock <= t.nextBlock
    BY <1>1, <1>3, <1>12 DEF N
  <2>3. \A i \in 1..Len(chains[v]) :
          chains[v][i].size = BlockSize /\ chains[v][i].block \in DOMAIN s.next =>
            /\ chains[v][i].block \in DOMAIN t.next
            /\ t.next[chains[v][i].block] = s.next[chains[v][i].block]
    BY <1>19, <1>20
  <2>4. IsChain(t, s.subBlockIndex[v], chains[v])
    BY <2>1, <2>2, <2>3, ChainIsKept
  <2>. QED
    BY <1>12, <2>4
<1>23. /\ Front(chain) \in Seq(Infos) /\ Len(Front(chain)) = n - 1
       /\ \A i \in 1..n - 1 : Front(chain)[i] = chain[i]
  BY <1>6, FrontIs
<1>24. /\ Len(new) = n + m /\ \A i \in 1..n - 1 : new[i] = chain[i]
       /\ \A i \in n..n + m : i - (n - 1) \in 1..m + 1 /\ new[i] = tail[i - (n - 1)]
  <2>1. IsCat(new, Front(chain), tail, Infos)
    BY <1>18, <1>23, CatProperties
  <2>. DEFINE f == Len(Front(chain))
              front == Front(chain)
  <2>2. f = n - 1
    BY <1>23
  <2>. HIDE DEF f, new, n, front
  <2>3. Len(new) = n + m /\ \A i \in 1..n - 1 : new[i] = front[i]
    BY <1>3, <1>6, <1>18, <2>1, <2>2 DEF IsCat, f, front
  <2>4. ASSUME NEW i \in n..n + m PROVE i - (n - 1) \in 1..m + 1 /\ new[i] = tail[i - (n - 1)]
    <3>1. i - (n - 1) \in 1..Len(tail) /\ f + (i - (n - 1)) = i /\ i - (n - 1) \in 1..m + 1
      BY <1>3, <1>6, <1>18, <2>2
    <3>2. new[f + (i - (n - 1))] = tail[i - (n - 1)]
      BY <2>1, <3>1 DEF IsCat, f
    <3>. QED
      BY <3>1, <3>2
  <2>. QED
    BY <1>23, <2>3, <2>4 DEF n, front
<1>25. fresh \intersect Owned(chains) = {} /\ info \notin fresh
  BY <1>2, <1>4 DEF IsOver, fresh, N, m
<1>26. \A j \in 2..m + 1 : tail[j] \in fresh
  BY <1>16 DEF IsTail, fresh
<1>27. ASSUME NEW i \in 1..Len(new)
       PROVE  \/ i \in 1..n - 1 /\ new[i] = chain[i] /\ chain[i] \in Owned(chains) /\ i \in 1..n
              \/ i = n /\ new[i] = info
              \/ i \in n + 1..n + m /\ new[i] = tail[i - (n - 1)] /\ i - (n - 1) \in 2..m + 1
  <2>. HIDE DEF new
  <2>1. i \in 1..n - 1 \/ i = n \/ i \in n + 1..n + m
    BY <1>3, <1>6, <1>24
  <2>2. CASE i \in 1..n - 1
    <3>1. i \in 1..n
      BY <1>6, <2>2
    <3>. QED
      BY <1>1, <1>24, <2>2, <3>1, ChainsAreOwned
  <2>3. CASE i = n
    <3>1. n \in n..n + m /\ n - (n - 1) = 1
      BY <1>3, <1>6
    <3>. QED
      BY <1>18, <1>24, <2>3, <3>1
  <2>4. CASE i \in n + 1..n + m
    <3>1. i \in n..n + m /\ i - (n - 1) \in 2..m + 1
      BY <1>3, <1>6, <2>4
    <3>. QED
      BY <1>24, <2>4, <3>1
  <2>. QED
    BY <2>1, <2>2, <2>3, <2>4
<1>28. \A i, j \in 1..Len(new) : new[i] = new[j] => i = j
  <2>1. ASSUME NEW i \in 1..n, NEW j \in 1..n, chain[i] = chain[j] PROVE i = j
    BY <1>1, <2>1 DEF IsLayout
  <2>2. ASSUME NEW i \in n + 1..n + m, NEW j \in n + 1..n + m, i - (n - 1) \in 2..m + 1,
               j - (n - 1) \in 2..m + 1, tail[i - (n - 1)] = tail[j - (n - 1)]
        PROVE  i = j
    <3>1. i - (n - 1) = j - (n - 1)
      BY <1>16, <2>2 DEF IsTail
    <3>. QED
      BY <1>6, <3>1
  <2>3. n \in 1..n /\ chain[n] = info /\ info \in Owned(chains)
    BY <1>1, <1>2, <1>6
  <2>. HIDE DEF new, n, chain
  <2>4. ASSUME NEW i \in 1..Len(new), NEW j \in 1..Len(new), new[i] = new[j] PROVE i = j
    BY <1>25, <1>26, <1>27, <2>1, <2>2, <2>3, <2>4
  <2>. QED
    BY <2>4
<1>29. \A i \in 1..Len(new) : new[i] \in fresh \/ \E j \in 1..n : new[i] = chain[j]
  <2>. HIDE DEF new, n, chain
  <2>. QED
    BY <1>1, <1>6, <1>26, <1>27
<1>30. Allocated(t, Owned(chains) \union fresh)
  <2>1. Allocated(u, Owned(chains) \union fresh)
    BY <1>4 DEF IsOver, u, fresh, N, m
  <2>. QED
    BY <1>12, <2>1 DEF Allocated
<1>31. \A i \in 1..Len(new) : new[i] \in Owned(chains) \union fresh
  <2>. HIDE DEF new, n, chain
  <2>. QED
    BY <1>2, <1>26, <1>27
<1>32. IsLayout(t, more)
  <2>. DEFINE owned == Owned(chains) \union fresh
  <2>1. \A v \in DOMAIN chains \ {word} : \A i \in 1..Len(chains[v]) : chains[v][i] \in owned
    BY <1>1, ChainsAreOwned
  <2>2. DOMAIN t.subBlockIndex = DOMAIN s.subBlockIndex \union {word}
    BY <1>1, <1>12 DEF IsLayout
  <2>3. \A i \in 1..Len(new) :
          new[i] \in fresh \/ (word \in DOMAIN chains
                               /\ \E j \in 1..Len(chains[word]) : new[i] = chains[word][j])
    BY <1>1, <1>29
  <2>4. Allocated(t, owned) /\ \A i \in 1..Len(new) : new[i] \in owned
    BY <1>30, <1>31
  <2>5. fresh \intersect Owned(chains) = {}
    BY <1>25
  <2>. HIDE DEF new, owned
  <2>6. IsLayout(t, With(chains, word, new))
    BY <1>1, <1>21, <1>22, <1>28, <2>1, <2>2, <2>3, <2>4, <2>5, LayoutWith
  <2>. QED
    BY <2>6
<1>33. /\ DOMAIN more = DOMAIN chains /\ more[word] = new
       /\ \A v \in DOMAIN chains \ {word} : more[v] = chains[v]
  <2>. HIDE DEF new
  <2>. QED
    BY <1>1 DEF With
<1>34. WritesOnly(s, t, chains, info)
  BY <1>4, <1>9 DEF IsOver, IsPlaced, Writes, WritesOnly, u
<1>35. ASSUME NEW j \in 1..Len(tail) PROVE IsWritten(Stored(t, tail[j]), split[j])
  <2>1. j = 1 \/ j \in 2..m + 1
    BY <1>18
  <2>2. CASE j = 1
    BY <1>5, <1>9, <1>18, <2>2 DEF IsPlaced, Writes
  <2>3. CASE j \in 2..m + 1
    <3>1. Stored(t, tail[j]) = Stored(u, tail[j])
      BY <1>9, <1>25, <1>26, <2>3 DEF IsPlaced, Writes
    <3>2. IsWritten(Stored(u, tail[j]), split[j])
      BY <1>1, <1>3, <1>4, <1>16, <2>3, TailIsWritten DEF IsOver, u, m, N
    <3>. QED
      BY <3>1, <3>2
  <2>. QED
    BY <2>1, <2>2, <2>3
<1>36. /\ \A i \in 1..Len(Front(chains[word])) :
            Stored(t, Front(chains[word])[i]) = Stored(s, Front(chains[word])[i])
       /\ \A v \in DOMAIN chains \ {word} : \A i \in 1..Len(chains[v]) :
            Stored(t, chains[v][i]) = Stored(s, chains[v][i])
  <2>1. AreOthers(s, t, chains, word, info)
    BY <1>1, <1>34, OthersAreKept
  <2>. QED
    BY <2>1 DEF AreOthers
<1>37. \E x \in Seq(Infos) :
         /\ Len(x) = Len(split) /\ more[word] = Cat(Front(chains[word]), x)
         /\ \A j \in 1..Len(x) : IsWritten(Stored(t, x[j]), split[j])
  <2>1. Len(tail) = Len(split)
    BY <1>3, <1>18 DEF m
  <2>. HIDE DEF more
  <2>. QED
    BY <1>18, <1>33, <1>35, <2>1
<1>. HIDE DEF more, new
<1>38. \A v \in DOMAIN chains \ {word} :
         more[v] = chains[v] /\ \A i \in 1..Len(chains[v]) : Stored(t, chains[v][i]) = Stored(s, chains[v][i])
  BY <1>33, <1>36
<1>39. IsSaved(s, t, chains, more, word, split)
  BY <1>10, <1>11, <1>32, <1>33, <1>36, <1>37, <1>38, Zenon DEF IsSaved
<1>. QED
  BY <1>39

\* A list that was split fills more than half of a block.
LEMMA SplitTakesABlock ==
  ASSUME NEW split, NEW list, IsSplit(split, list, BlockSize - BlockDataOffset)
  PROVE  LET size == ActualSize(GetByteSize(split[1]))
             minSize == GetByteSize(split[1])
         IN  /\ minSize \in Nat /\ size \in RealSizes
             /\ \A info \in Infos : info.size = size => minSize <= DataSize(info)
             /\ Len(split) > 1 => size = BlockSize
<1>. DEFINE minSize == GetByteSize(split[1])
            size == ActualSize(minSize)
<1>1. split[1] \in PostingLists /\ 1 \in 1..Len(split)
  BY SplitHead
<1>2. minSize \in Nat /\ minSize <= BlockSize - BlockDataOffset
  BY <1>1, ByteSizeOfAList DEF IsSplit
<1>3. BlockSize \in Nat /\ BlockDataOffset \in Nat /\ DeltaSize \in Nat /\ EntrySize \in Nat
  BY BlocksAssumption, SizesAssumption
<1>4. Len(split) > 1 => minSize + (DeltaSize + EntrySize) > BlockSize - BlockDataOffset
  BY DEF IsSplit
<1>. HIDE DEF minSize
<1>5. minSize <= BlockSize
  BY <1>2, <1>3
<1>6. size \in RealSizes /\ minSize <= size
  BY <1>2, <1>5, ActualSizeIs
<1>. HIDE DEF size
<1>7. ASSUME NEW info \in Infos, info.size = size PROVE minSize <= DataSize(info)
  BY <1>2, <1>6, <1>7, DataSizes
<1>8. ASSUME Len(split) > 1 PROVE size = BlockSize
  <2>1. 2 * minSize > BlockSize
    <3>1. 2 * (DeltaSize + EntrySize + BlockDataOffset) <= BlockSize
      BY RoomAssumption
    <3>. QED
      BY <1>2, <1>3, <1>4, <1>8, <3>1
  <2>2. ASSUME size \in SubBlockSizes PROVE FALSE
    <3>1. size \in Nat /\ 2 * size <= BlockSize
      BY <2>2, SizesAre
    <3>. QED
      BY <1>2, <1>3, <1>6, <2>1, <3>1
  <2>. QED
    BY <1>6, <2>2 DEF RealSizes
<1>. QED
  BY <1>2, <1>6, <1>7, <1>8 DEF size, minSize

\* One sub-block is a chain, and so are blocks that are linked.
LEMMA ChainOfOne ==
  ASSUME NEW s, s.nextBlock \in Nat, s.nextBlock > 0, NEW info \in Infos, info.size # BlockSize
  PROVE  IsChain(s, info, <<info>>)
<1>1. <<info>> \in Seq(Infos) /\ Len(<<info>>) = 1 /\ <<info>>[1] = info
  OBVIOUS
<1>. QED
  BY <1>1 DEF IsChain

LEMMA ChainOfATail ==
  ASSUME NEW s, s.nextBlock \in Nat, NEW first, first.size = BlockSize, NEW N, NEW m \in Nat, NEW tail,
         IsTail(tail, first, N, m), IsLinked(s, tail), m + 1 <= s.nextBlock
  PROVE  IsChain(s, first, tail)
  BY DEF IsTail, IsLinked, IsChain

LEMMA AllocatedStill ==
  ASSUME NEW s, NEW t, t.nextBlock = s.nextBlock, t.open = s.open, t.lastUsed = s.lastUsed,
         NEW owned, Allocated(s, owned)
  PROVE  Allocated(t, owned)
  BY DEF Allocated

\* A list that outgrows its sub-block is written to a larger one.
IsMoved(s, t, chains, more, word, info, split) ==
  /\ IsSaved(s, t, chains, more, word, split)
  /\ info \in Infos /\ info.size # BlockSize /\ info \notin Owned(more)
  /\ Allocated(t, Owned(more) \union {info})

LEMMA SavedInALarger ==
  ASSUME NEW s, NEW chains, NEW word, NEW info, NEW l, IsAdding(s, chains, word, info, l),
         info.size # BlockSize, NEW list, NEW split,
         IsSplit(split, list, BlockSize - BlockDataOffset), NEW over, NEW larger, NEW renamed,
         over = PlaceOverflow(s, split),
         larger = GetNewSubBlock(over.store, GetByteSize(Head(split))),
         renamed = [larger.store EXCEPT !.subBlockIndex = With(@, word, larger.info),
                                        !.wordIndex     = InsertNew(@, larger.info, word)],
         NEW t, t = Place(renamed, larger.info, FullUpdate(Head(split)), over.next)
  PROVE  \E more : IsMoved(s, t, chains, more, word, info, split)
<1>. DEFINE N == s.nextBlock
            m == Len(split) - 1
            first == larger.info
            stored == FullUpdate(Head(split))
            minSize == GetByteSize(Head(split))
            tail == NewTail(first, N, m)
            more == With(chains, word, tail)
            fresh == NewBlocks(N, m)
            new == fresh \union {first}
            u == over.store
            x == larger.store
<1>1. /\ IsTyped(s) /\ AllFit(s) /\ IsLayout(s, chains) /\ word \in DOMAIN chains
      /\ info = chains[word][Len(chains[word])] /\ N \in Nat /\ N > 0
  BY DEF IsAdding, IsTyped
<1>2. info \in Infos /\ info \in Owned(chains)
  BY AddedToIs
<1>3. /\ Head(split) = split[1] /\ split[1] \in PostingLists /\ m \in Nat /\ m < Len(split)
      /\ split \in Seq(PostingLists) /\ Len(split) > 0 /\ Len(split) \in Nat
  BY SplitHead
<1>4. IsOver(s, chains, split, over)
  BY <1>1, OverIs
<1>5. IsWritten(stored, split[1])
  BY <1>3, FullUpdateIs
<1>6. /\ minSize \in Nat /\ ActualSize(minSize) \in RealSizes
      /\ \A p \in Infos : p.size = ActualSize(minSize) => minSize <= DataSize(p)
      /\ m > 0 => ActualSize(minSize) = BlockSize
  BY <1>3, SplitTakesABlock
<1>7. Len(chains[word]) = 1 /\ chains[word] = <<info>>
  <2>1. Len(chains[word]) \in 1..Len(chains[word]) /\ chains[word] \in Seq(Infos)
    BY <1>1, ChainsAreOwned
  <2>2. Len(chains[word]) = 1
    BY <1>1, <2>1, WholeBlocks
  <2>. QED
    BY <1>1, <2>1, <2>2
<1>8. larger = GetNewSubBlock(u, minSize)
  OBVIOUS
<1>9. t = Place(renamed, first, stored, over.next)
  OBVIOUS
<1>. HIDE DEF stored, minSize, u, N, m, tail, fresh
<1>10. IsTaken(u, minSize, larger)
  BY <1>4, <1>6, <1>8, NewSubBlock DEF IsOver, u
<1>11. /\ IsTyped(x) /\ first \in Infos /\ first.block > 0 /\ first.block < x.nextBlock
       /\ u.nextBlock <= x.nextBlock /\ x.nextBlock <= u.nextBlock + 1
  BY <1>4, <1>10, NewIsTyped DEF IsOver, u
<1>12. /\ x.area = u.area /\ x.next = u.next /\ x.subBlockIndex = u.subBlockIndex
       /\ first.size = ActualSize(minSize)
       /\ first.size = BlockSize => first.block = u.nextBlock /\ first.sub = 0
                                    /\ x.nextBlock = u.nextBlock + 1
  <2>. HIDE DEF x, first
  <2>1. SameLists(u, x) /\ first.size = ActualSize(minSize)
    BY <1>10, Zenon DEF IsTaken, x, first
  <2>2. first.size = BlockSize => TakesABlock(u, x, first)
    BY <1>10, Zenon DEF IsTaken, x, first
  <2>3. TakesABlock(u, x, first) => first.block = u.nextBlock /\ first.sub = 0
                                      /\ x.nextBlock = u.nextBlock + 1
    BY DEF TakesABlock, SubBlock
  <2>. QED
    BY <2>1, <2>2, <2>3 DEF SameLists
<1>13. /\ first \notin Owned(chains) \union fresh
       /\ Allocated(x, (Owned(chains) \union fresh) \union {first})
  <2>1. Allocated(u, Owned(chains) \union fresh) /\ IsTyped(u)
    BY <1>4 DEF IsOver, u, fresh, N, m
  <2>. QED
    BY <1>10, <2>1, NewIsFree
<1>14. u.nextBlock = N + m /\ u.subBlockIndex = s.subBlockIndex
  BY <1>4 DEF IsOver, u, N, m
<1>. HIDE DEF x, first
<1>15. /\ IsStore(renamed) /\ renamed.area = x.area /\ renamed.next = x.next
       /\ renamed.subBlockIndex = With(s.subBlockIndex, word, first)
       /\ renamed.open = x.open /\ renamed.lastUsed = x.lastUsed /\ renamed.nextBlock = x.nextBlock
  <2>1. IsStore(x)
    BY <1>11 DEF IsTyped
  <2>2. renamed = [x EXCEPT !.subBlockIndex = With(@, word, first),
                            !.wordIndex     = InsertNew(@, first, word)]
    BY DEF x, first
  <2>3. x.subBlockIndex = s.subBlockIndex
    BY <1>12, <1>14
  <2>. QED
    BY <2>1, <2>2, <2>3 DEF IsStore
<1>16. IsTyped(renamed)
  <2>1. \A v \in DOMAIN renamed.subBlockIndex : renamed.subBlockIndex[v] \in Infos
    <3>1. ASSUME NEW v \in DOMAIN renamed.subBlockIndex PROVE renamed.subBlockIndex[v] \in Infos
      <4>1. \/ v = word /\ renamed.subBlockIndex[v] = first
            \/ v \in DOMAIN s.subBlockIndex /\ renamed.subBlockIndex[v] = s.subBlockIndex[v]
        BY <1>15 DEF With
      <4>. QED
        BY <1>1, <1>11, <4>1 DEF IsTyped
    <3>. QED
      BY <3>1
  <2>. QED
    BY <1>11, <1>15, <2>1 DEF IsTyped
<1>17. IsPlaced(renamed, t, first, stored, over.next)
  BY <1>9, <1>15, Placed
<1>18. IsTyped(t)
  BY <1>5, <1>16, <1>17, PlacedIsTyped DEF IsWritten
<1>19. \A p : Stored(renamed, p) = Stored(u, p)
  BY <1>12, <1>15 DEF Stored
<1>20. AllFit(t)
  <2>1. AllFit(renamed)
    BY <1>4, <1>19 DEF IsOver, u, AllFit
  <2>2. GetByteSize(PostingListOf(stored)) <= DataSize(first)
    BY <1>3, <1>5, <1>6, <1>11, <1>12 DEF IsWritten, minSize
  <2>3. Writes(renamed, t, first, stored)
    BY <1>17 DEF IsPlaced
  <2>. QED
    BY <2>1, <2>2, <2>3, AllFitStill
<1>21. /\ t.nextBlock = x.nextBlock /\ t.open = x.open /\ t.lastUsed = x.lastUsed
       /\ t.subBlockIndex = With(s.subBlockIndex, word, first)
       /\ first.size = BlockSize => t.next = With(u.next, first.block, over.next)
       /\ first.size # BlockSize => t.next = u.next
  <2>1. /\ t.nextBlock = renamed.nextBlock /\ t.open = renamed.open /\ t.lastUsed = renamed.lastUsed
        /\ t.subBlockIndex = renamed.subBlockIndex
    BY <1>17 DEF IsPlaced
  <2>2. /\ first.size = BlockSize => t.next = With(renamed.next, first.block, over.next)
        /\ first.size # BlockSize => t.next = renamed.next
    BY <1>17 DEF IsPlaced
  <2>3. renamed.next = u.next
    BY <1>12, <1>15
  <2>. QED
    BY <1>15, <2>1, <2>2, <2>3, Zenon
<1>22. Allocated(t, (Owned(chains) \union fresh) \union {first})
  <2>1. t.nextBlock = x.nextBlock /\ t.open = x.open /\ t.lastUsed = x.lastUsed
    BY <1>21
  <2>. DEFINE owned == (Owned(chains) \union fresh) \union {first}
  <2>2. Allocated(x, owned)
    BY <1>13
  <2>. HIDE DEF owned
  <2>3. Allocated(t, owned)
    BY <2>1, <2>2, AllocatedStill
  <2>. QED
    BY <2>3 DEF owned
<1>23. /\ t.subBlockIndex[word] = first /\ DOMAIN t.subBlockIndex = DOMAIN s.subBlockIndex \union {word}
       /\ \A v \in DOMAIN chains \ {word} : t.subBlockIndex[v] = s.subBlockIndex[v]
  <2>1. t.subBlockIndex = With(s.subBlockIndex, word, first)
    BY <1>21
  <2>2. DOMAIN chains = DOMAIN s.subBlockIndex
    BY <1>1 DEF IsLayout
  <2>. QED
    BY <2>1, <2>2 DEF With
<1>24. IsTail(tail, first, N, m)
  BY <1>1, <1>3, <1>11, TailIs DEF tail
<1>25. IsChain(t, first, tail)
  <2>1. CASE first.size = BlockSize
    <3>1. first.block = N + m /\ first.sub = 0 /\ t.nextBlock = N + m + 1 /\ t.next = With(u.next, first.block, over.next)
      BY <1>12, <1>14, <1>21, <2>1
    <3>2. over.next = IF m = 0 THEN 0 ELSE N + m - 1
      BY <1>4 DEF IsOver, Overflows, N, m
    <3>3. first.block \in DOMAIN t.next /\ t.next[first.block] = IF m = 0 THEN 0 ELSE N + m - 1
      BY <3>1, <3>2 DEF With
    <3>4. \A k \in 0..m - 1 : N + k \in DOMAIN t.next /\ t.next[N + k] = IF k = 0 THEN 0 ELSE N + k - 1
      <4>1. ASSUME NEW k \in 0..m - 1
            PROVE  N + k \in DOMAIN u.next /\ u.next[N + k] = IF k = 0 THEN 0 ELSE N + k - 1
        BY <1>4 DEF IsOver, u, N, m
      <4>2. \A k \in 0..m - 1 : N + k # first.block
        BY <1>1, <1>3, <3>1
      <4>3. t.next = With(u.next, first.block, over.next)
        BY <3>1
      <4>. QED
        BY <4>1, <4>2, <4>3 DEF With
    <3>5. IsLinked(t, NewTail(first, N, m))
      BY <1>1, <1>3, <1>11, <2>1, <3>1, <3>3, <3>4, TailIsLinked
    <3>6. IsLinked(t, tail)
      BY <3>5 DEF tail
    <3>7. t.nextBlock \in Nat /\ m + 1 <= t.nextBlock
      BY <1>1, <1>3, <3>1
    <3>. QED
      BY <1>3, <1>24, <2>1, <3>6, <3>7, ChainOfATail
  <2>2. CASE first.size # BlockSize
    <3>1. m = 0
      BY <1>3, <1>6, <1>12, <2>2
    <3>2. tail = <<first>>
      BY <1>24, <3>1 DEF IsTail
    <3>3. t.nextBlock \in Nat /\ t.nextBlock > 0
      BY <1>18 DEF IsTyped
    <3>. QED
      BY <1>11, <2>2, <3>2, <3>3, ChainOfOne
  <2>. QED
    BY <2>1, <2>2
<1>26. ASSUME NEW v \in DOMAIN chains \ {word} PROVE IsChain(t, t.subBlockIndex[v], chains[v])
  <2>1. IsChain(s, s.subBlockIndex[v], chains[v])
    BY <1>1, ChainsAreOwned
  <2>2. s.nextBlock \in Nat /\ t.nextBlock \in Nat /\ s.nextBlock <= t.nextBlock
    <3>1. N \in Nat /\ u.nextBlock = N + m /\ m \in Nat /\ u.nextBlock <= t.nextBlock
      BY <1>1, <1>3, <1>11, <1>14, <1>21
    <3>2. t.nextBlock \in Nat
      BY <1>18 DEF IsTyped
    <3>. QED
      BY <3>1, <3>2 DEF N
  <2>3. ASSUME NEW i \in 1..Len(chains[v]), chains[v][i].size = BlockSize
        PROVE  /\ chains[v][i].block \in DOMAIN t.next
               /\ t.next[chains[v][i].block] = s.next[chains[v][i].block]
    <3>1. /\ chains[v][i].block \in DOMAIN u.next
          /\ u.next[chains[v][i].block] = s.next[chains[v][i].block]
      BY <1>4, <2>3 DEF IsOver, u
    <3>2. chains[v][i].block \in Nat /\ chains[v][i].block < N
      BY <1>1, <2>3, WholeBlocks DEF N
    <3>3. first.size = BlockSize => chains[v][i].block # first.block
      BY <1>1, <1>3, <1>12, <1>14, <3>2
    <3>4. CASE first.size = BlockSize
      <4>1. t.next = With(u.next, first.block, over.next)
        BY <1>21, <3>4
      <4>. QED
        BY <3>1, <3>3, <3>4, <4>1 DEF With
    <3>5. CASE first.size # BlockSize
      BY <1>21, <3>1, <3>5
    <3>. QED
      BY <3>4, <3>5
  <2>4. IsChain(t, s.subBlockIndex[v], chains[v])
    BY <2>1, <2>2, <2>3, ChainIsKept
  <2>. QED
    BY <1>23, <2>4
<1>27. /\ fresh \intersect Owned(chains) = {} /\ first \notin fresh
       /\ new \intersect Owned(chains) = {}
  BY <1>4, <1>13 DEF IsOver, fresh, N, m
<1>28. tail[1] = first /\ tail \in Seq(Infos) /\ Len(tail) = m + 1 /\ \A j \in 2..m + 1 : tail[j] \in fresh
  BY <1>24 DEF IsTail, fresh
<1>29. \A i \in 1..Len(tail) : tail[i] \in new
  BY <1>3, <1>28
<1>30. \A i, j \in 1..Len(tail) : tail[i] = tail[j] => i = j
  BY <1>3, <1>24, <1>27, TailIsDifferent DEF fresh
<1>31. \A v \in DOMAIN chains \ {word} : \A i \in 1..Len(chains[v]) :
         chains[v][i] \in Owned(chains) /\ chains[v][i] # info
  <2>1. ASSUME NEW v \in DOMAIN chains \ {word}, NEW i \in 1..Len(chains[v])
        PROVE  chains[v][i] \in Owned(chains) /\ chains[v][i] # info
    <3>1. 1 \in 1..Len(chains[word]) /\ info = chains[word][1]
      BY <1>7
    <3>2. chains[v][i] # chains[word][1]
      BY <1>1, <3>1 DEF IsLayout
    <3>. QED
      BY <1>1, <3>1, <3>2, ChainsAreOwned
  <2>. QED
    BY <2>1
<1>. HIDE DEF new
<1>32. IsLayout(t, more)
  <2>. DEFINE owned == (Owned(chains) \union fresh) \union {first}
  <2>1. \A v \in DOMAIN chains \ {word} : \A i \in 1..Len(chains[v]) : chains[v][i] \in owned
    BY <1>31
  <2>2. \A i \in 1..Len(tail) : tail[i] \in owned
    BY <1>29 DEF new
  <2>3. Allocated(t, owned)
    BY <1>22
  <2>4. IsChain(t, t.subBlockIndex[word], tail)
    BY <1>23, <1>25
  <2>. HIDE DEF owned
  <2>5. IsLayout(t, With(chains, word, tail))
    BY <1>1, <1>23, <1>26, <1>27, <1>29, <1>30, <2>1, <2>2, <2>3, <2>4, LayoutWith
  <2>. QED
    BY <2>5
<1>33. /\ DOMAIN more = DOMAIN chains /\ more[word] = tail
       /\ \A v \in DOMAIN chains \ {word} : more[v] = chains[v]
  BY <1>1 DEF With
<1>. HIDE DEF more
<1>34. WritesOnly(s, t, chains, info)
  <2>1. ASSUME NEW p \in Owned(chains) PROVE Stored(t, p) = Stored(s, p)
    <3>1. Stored(u, p) = Stored(s, p)
      BY <1>4 DEF IsOver, u
    <3>2. Stored(t, p) = Stored(renamed, p)
      BY <1>13, <1>17 DEF IsPlaced, Writes
    <3>. QED
      BY <1>19, <3>1, <3>2
  <2>. QED
    BY <2>1 DEF WritesOnly
<1>35. ASSUME NEW j \in 1..Len(tail) PROVE IsWritten(Stored(t, tail[j]), split[j])
  <2>1. j = 1 \/ j \in 2..m + 1
    BY <1>28
  <2>2. CASE j = 1
    BY <1>5, <1>17, <1>28, <2>2 DEF IsPlaced, Writes
  <2>3. CASE j \in 2..m + 1
    <3>1. Stored(t, tail[j]) = Stored(renamed, tail[j])
      BY <1>17, <1>27, <1>28, <2>3 DEF IsPlaced, Writes
    <3>2. IsWritten(Stored(u, tail[j]), split[j])
      BY <1>1, <1>3, <1>4, <1>24, <2>3, TailIsWritten DEF IsOver, u, m, N
    <3>. QED
      BY <1>19, <3>1, <3>2
  <2>. QED
    BY <2>1, <2>2, <2>3
<1>36. AreOthers(s, t, chains, word, info)
  BY <1>1, <1>34, OthersAreKept
<1>37. \E y \in Seq(Infos) :
         /\ Len(y) = Len(split) /\ more[word] = Cat(Front(chains[word]), y)
         /\ \A j \in 1..Len(y) : IsWritten(Stored(t, y[j]), split[j])
  <2>1. Len(tail) = Len(split)
    BY <1>3, <1>28 DEF m
  <2>2. Cat(Front(chains[word]), tail) = tail
    <3>1. Front(chains[word]) = <<>>
      <4>1. chains[word] \in Seq(Infos) /\ Len(chains[word]) = 1
        BY <1>2, <1>7
      <4>. DEFINE chain == chains[word]
      <4>. HIDE DEF chain
      <4>3. chain \in Seq(Infos) /\ Len(chain) = 1 /\ Len(chain) > 0
        BY <4>1 DEF chain
      <4>4. Front(chain) \in Seq(Infos) /\ Len(Front(chain)) = Len(chain) - 1
        BY <4>3, FrontIs
      <4>2. Front(chain) \in Seq(Infos) /\ Len(Front(chain)) = 0
        BY <4>3, <4>4
      <4>. USE DEF chain
      <4>. QED
        BY <4>2
    <3>. QED
      BY <1>28, <3>1, CatEmpty
  <2>. QED
    BY <1>28, <1>33, <1>35, <2>1, <2>2
<1>38. \A v \in DOMAIN chains \ {word} :
         more[v] = chains[v] /\ \A i \in 1..Len(chains[v]) : Stored(t, chains[v][i]) = Stored(s, chains[v][i])
  BY <1>33, <1>36 DEF AreOthers
<1>39. \A i \in 1..Len(Front(chains[word])) :
         Stored(t, Front(chains[word])[i]) = Stored(s, Front(chains[word])[i])
  BY <1>36 DEF AreOthers
<1>40. IsSaved(s, t, chains, more, word, split)
  BY <1>18, <1>20, <1>32, <1>33, <1>37, <1>38, <1>39, Zenon DEF IsSaved
<1>41. ASSUME NEW p \in Owned(more)
       PROVE  p # info /\ p \in (Owned(chains) \union fresh) \union {first}
  <2>1. PICK v \in DOMAIN more : \E i \in 1..Len(more[v]) : p = more[v][i]
    BY DEF Owned
  <2>2. PICK i \in 1..Len(more[v]) : p = more[v][i]
    BY <2>1
  <2>3. CASE v = word
    <3>1. p \in new
      BY <1>29, <1>33, <2>2, <2>3
    <3>. QED
      BY <1>2, <1>27, <3>1 DEF new
  <2>4. CASE v # word
    <3>1. v \in DOMAIN chains \ {word} /\ i \in 1..Len(chains[v]) /\ p = chains[v][i]
      BY <1>33, <2>2, <2>4
    <3>. QED
      BY <1>31, <3>1
  <2>. QED
    BY <2>3, <2>4
<1>42. Allocated(t, Owned(more) \union {info}) /\ info \notin Owned(more)
  <2>1. Owned(more) \union {info} \in SUBSET ((Owned(chains) \union fresh) \union {first})
    BY <1>2, <1>41
  <2>2. Allocated(t, Owned(more) \union {info})
    BY <1>22, <2>1, AllocatedLess
  <2>. QED
    BY <1>41, <2>2
<1>43. IsMoved(s, t, chains, more, word, info, split)
  BY <1>2, <1>40, <1>42 DEF IsMoved
<1>. QED
  BY <1>43

\* The last sub-block of a size is given back; what it holds is first moved into the hole.
Before(used) == IF used.sub = 0 THEN [used EXCEPT !.block = 0] ELSE [used EXCEPT !.sub = @ - 1]

IsGivenBack(s, t, info, last) ==
  LET c    == info.size
      used == s.lastUsed[c]
  IN  /\ IsStore(t) /\ t.next = s.next /\ t.nextBlock = s.nextBlock
      /\ t.open = [s.open EXCEPT ![c] = used] /\ t.lastUsed = [s.lastUsed EXCEPT ![c] = Before(used)]
      /\ last = info => t.area = s.area /\ t.subBlockIndex = s.subBlockIndex
      /\ last # info => /\ t.area = With(s.area, info, Stored(s, last))
                        /\ t.subBlockIndex = [s.subBlockIndex EXCEPT ![s.wordIndex[last]] = info]

LEMMA GivenBackIs ==
  ASSUME NEW s, IsStore(s), NEW info, s.lastUsed[info.size].block # 0
  PROVE  IsGivenBack(s, DeleteSubBlock(s, info), info, LastUsedSubBlock(s, info.size))
<1>. DEFINE c == info.size
            used == s.lastUsed[c]
            last == LastUsedSubBlock(s, c)
            t == DeleteSubBlock(s, info)
            move == MoveLast(s, last, info)
            to == IF last = info THEN s ELSE move
            area == With(s.area, info, Stored(s, last))
            w == s.wordIndex[last]
            left == [key \in DOMAIN s.wordIndex \ {last} |-> IF key = info THEN w ELSE s.wordIndex[key]]
<1>1. t = [to EXCEPT !.open[c] = used, !.lastUsed[c] = Before(used)]
  BY DEF DeleteSubBlock, Before
<1>2. move = [s EXCEPT !.area = area, !.wordIndex = left, !.subBlockIndex[w] = info]
  BY DEF MoveLast
<1>. HIDE DEF t, last, move, used, area, left, w
<1>3. /\ IsStore(move) /\ move.area = area /\ move.next = s.next /\ move.open = s.open
      /\ move.lastUsed = s.lastUsed /\ move.nextBlock = s.nextBlock
      /\ move.subBlockIndex = [s.subBlockIndex EXCEPT ![w] = info]
  BY <1>2 DEF IsStore
<1>4. /\ IsStore(to) /\ to.next = s.next /\ to.open = s.open
      /\ to.lastUsed = s.lastUsed /\ to.nextBlock = s.nextBlock
  BY <1>3
<1>5. /\ last = info => to.area = s.area /\ to.subBlockIndex = s.subBlockIndex
      /\ last # info => to.area = area /\ to.subBlockIndex = [s.subBlockIndex EXCEPT ![w] = info]
  BY <1>3
<1>. HIDE DEF to
<1>6. /\ IsStore(t) /\ t.next = to.next /\ t.nextBlock = to.nextBlock
      /\ t.area = to.area /\ t.subBlockIndex = to.subBlockIndex
      /\ t.open = [to.open EXCEPT ![c] = used] /\ t.lastUsed = [to.lastUsed EXCEPT ![c] = Before(used)]
  BY <1>1, <1>4 DEF IsStore
<1>. QED
  BY <1>4, <1>5, <1>6 DEF IsGivenBack, used, last, t, area, w

LEMMA BeforeIs ==
  ASSUME NEW c \in SubBlockSizes, NEW used, IsPlace(used, c), NEW N, used.block < N, N > 0, N \in Nat
  PROVE  /\ IsPlace(Before(used), c) /\ Before(used).block < N
         /\ used.sub = 0 => Before(used).block = 0
         /\ used.sub # 0 => Before(used).block = used.block /\ Before(used).sub = used.sub - 1
<1>1. BlockSize \div c \in Nat /\ used.sub \in 0..(BlockSize \div c) - 1 /\ used.block \in Nat
  BY PartsOfABlock DEF IsPlace
<1>2. used = [block |-> used.block, sub |-> used.sub]
  BY DEF IsPlace
<1>. DEFINE parts == BlockSize \div c
<1>. HIDE DEF parts
<1>3. CASE used.sub = 0
  <2>1. Before(used) = [block |-> 0, sub |-> 0]
    BY <1>2, <1>3 DEF Before
  <2>. QED
    BY <1>1, <1>3, <2>1 DEF IsPlace
<1>4. CASE used.sub # 0
  <2>1. Before(used) = [block |-> used.block, sub |-> used.sub - 1]
    BY <1>2, <1>4 DEF Before
  <2>2. used.sub - 1 \in 0..parts - 1
    BY <1>1, <1>4 DEF parts
  <2>. QED
    BY <1>1, <1>4, <2>1, <2>2 DEF IsPlace, parts
<1>. QED
  BY <1>3, <1>4

\* What was taken but the one that is given back is taken still.
LEMMA GivenBackIsFree ==
  ASSUME NEW s, IsTyped(s), NEW info \in Infos, info.size # BlockSize, NEW t, NEW last,
         last = LastUsedSubBlock(s, info.size), s.lastUsed[info.size].block # 0,
         IsGivenBack(s, t, info, last), NEW owned, Allocated(s, owned)
  PROVE  Allocated(t, owned \ {last})
<1>. DEFINE c == info.size
            used == s.lastUsed[c]
<1>1. c \in SubBlockSizes
  BY FieldsOfAnInfo DEF RealSizes
<1>2. /\ IsPlace(used, c) /\ used.block < s.nextBlock /\ s.nextBlock \in Nat /\ s.nextBlock > 0
      /\ DOMAIN s.open = SubBlockSizes /\ DOMAIN s.lastUsed = SubBlockSizes
  BY <1>1 DEF IsTyped
<1>3. last = SubBlock(c, used.block, used.sub)
  BY DEF LastUsedSubBlock
<1>4. /\ t.nextBlock = s.nextBlock
      /\ t.open = [s.open EXCEPT ![c] = used] /\ t.lastUsed = [s.lastUsed EXCEPT ![c] = Before(used)]
  BY DEF IsGivenBack
<1>. HIDE DEF c, used
<1>5. /\ t.open[c] = used /\ t.lastUsed[c] = Before(used)
      /\ \A d \in SubBlockSizes \ {c} : t.open[d] = s.open[d] /\ t.lastUsed[d] = s.lastUsed[d]
  BY <1>1, <1>2, <1>4
<1>6. /\ used.sub = 0 => Before(used).block = 0
      /\ used.sub # 0 => Before(used).block = used.block /\ Before(used).sub = used.sub - 1
  BY <1>1, <1>2, BeforeIs
<1>7. used.block \in Nat /\ used.sub \in Int
  BY <1>1, <1>2, PartsOfABlock DEF IsPlace
<1>8. ASSUME NEW p \in owned \ {last}
      PROVE  /\ p \in Infos /\ p.block > 0 /\ p.block < t.nextBlock
             /\ p.size # BlockSize =>
                  /\ p.block = t.open[p.size].block => p.sub < t.open[p.size].sub
                  /\ p.block = t.lastUsed[p.size].block => p.sub <= t.lastUsed[p.size].sub
  <2>1. p \in Infos /\ p.block > 0 /\ p.block < t.nextBlock
    BY <1>4 DEF Allocated
  <2>2. p.block \in Nat /\ p.sub \in Nat /\ p.size \in RealSizes /\ p = SubBlock(p.size, p.block, p.sub)
    BY <2>1, FieldsOfAnInfo
  <2>3. CASE p.size = c
    <3>1. p.block = used.block => p.sub <= used.sub
      <4>1. c # BlockSize
        BY <1>1, PartsOfABlock
      <4>. QED
        BY <2>3, <4>1 DEF Allocated, used, c
    <3>2. p.block = used.block => p.sub # used.sub
      BY <1>3, <2>2, <2>3
    <3>3. p.block = used.block => p.sub < used.sub
      BY <1>7, <2>2, <3>1, <3>2
    <3>4. p.block = t.open[p.size].block => p.sub < t.open[p.size].sub
      BY <1>5, <2>3, <3>3
    <3>5. p.block = Before(used).block => p.sub <= Before(used).sub
      <4>1. CASE used.sub = 0
        BY <1>6, <2>1, <2>2, <4>1
      <4>2. CASE used.sub # 0
        BY <1>6, <1>7, <2>2, <3>3, <4>2
      <4>. QED
        BY <4>1, <4>2
    <3>. QED
      BY <1>5, <2>1, <2>3, <3>4, <3>5
  <2>4. CASE p.size # c
    <3>1. p.size # BlockSize => p.size \in SubBlockSizes \ {c}
      BY <2>2, <2>4 DEF RealSizes
    <3>. QED
      BY <1>5, <2>1, <3>1 DEF Allocated
  <2>. QED
    BY <2>3, <2>4
<1>. QED
  BY <1>8 DEF Allocated

\* A sub-block that no list has any more is given back; another list may move into it.
IsDeleted(s, t, chains, less) ==
  /\ IsTyped(t) /\ AllFit(t) /\ IsLayout(t, less) /\ DOMAIN less = DOMAIN chains
  /\ \A v \in DOMAIN chains : HasTheSame(s, chains[v], t, less[v])

LEMMA DeletedIsTyped ==
  ASSUME NEW s, IsTyped(s), AllFit(s), NEW info \in Infos, info.size # BlockSize, NEW t, NEW last,
         last = LastUsedSubBlock(s, info.size), s.lastUsed[info.size].block # 0,
         IsGivenBack(s, t, info, last)
  PROVE  /\ IsTyped(t) /\ AllFit(t) /\ last \in Infos /\ last.size # BlockSize
         /\ \A p \in Infos : p # info => Stored(t, p) = Stored(s, p)
         /\ last # info => Stored(t, info) = Stored(s, last)
<1>. DEFINE c == info.size
            used == s.lastUsed[c]
            w == s.wordIndex[last]
            stored == Stored(s, last)
<1>1. c \in SubBlockSizes /\ c \in RealSizes
  BY FieldsOfAnInfo DEF RealSizes
<1>2. /\ IsPlace(used, c) /\ used.block < s.nextBlock /\ s.nextBlock \in Nat /\ s.nextBlock > 0
      /\ DOMAIN s.open = SubBlockSizes /\ DOMAIN s.lastUsed = SubBlockSizes
  BY <1>1 DEF IsTyped
<1>3. last = SubBlock(c, used.block, used.sub) /\ used.block \in Nat /\ used.sub \in Nat
  BY <1>1, <1>2, PartsOfABlock DEF LastUsedSubBlock, IsPlace
<1>4. last \in Infos /\ last.size = c
  BY <1>1, <1>3, InfoIs
<1>5. /\ IsStore(t) /\ t.next = s.next /\ t.nextBlock = s.nextBlock
      /\ t.open = [s.open EXCEPT ![c] = used] /\ t.lastUsed = [s.lastUsed EXCEPT ![c] = Before(used)]
  BY DEF IsGivenBack
<1>6. /\ last = info => t.area = s.area /\ t.subBlockIndex = s.subBlockIndex
      /\ last # info => /\ t.area = With(s.area, info, stored)
                        /\ t.subBlockIndex = [s.subBlockIndex EXCEPT ![w] = info]
  BY DEF IsGivenBack
<1>7. IsStored(stored) /\ GetByteSize(PostingListOf(stored)) <= DataSize(last)
  BY <1>4, StoredIsStored DEF AllFit
<1>8. last # info => Writes(s, t, info, stored)
  BY <1>6, StoredWith
<1>9. \A p \in Infos : p # info => Stored(t, p) = Stored(s, p)
  <2>1. CASE last = info
    BY <1>6, <2>1 DEF Stored
  <2>2. CASE last # info
    BY <1>8, <2>2 DEF Writes
  <2>. QED
    BY <2>1, <2>2
<1>. HIDE DEF stored, used, c, w
<1>10. AllFit(t)
  <2>1. CASE last = info
    BY <1>6, <2>1 DEF AllFit, Stored
  <2>2. CASE last # info
    <3>1. DataSize(last) = DataSize(info)
      BY <1>4 DEF DataSize, c
    <3>. QED
      BY <1>7, <1>8, <2>2, <3>1, AllFitStill
  <2>. QED
    BY <2>1, <2>2
<1>11. \A key \in DOMAIN t.area : IsStored(t.area[key])
  <2>1. CASE last = info
    BY <1>6, <2>1 DEF IsTyped
  <2>2. CASE last # info
    <3>1. ASSUME NEW key \in DOMAIN t.area PROVE IsStored(t.area[key])
      <4>1. \/ key = info /\ t.area[key] = stored
            \/ key \in DOMAIN s.area /\ t.area[key] = s.area[key]
        BY <1>6, <2>2 DEF With
      <4>. QED
        BY <1>7, <4>1 DEF IsTyped
    <3>. QED
      BY <3>1
  <2>. QED
    BY <2>1, <2>2
<1>12. \A word \in DOMAIN t.subBlockIndex : t.subBlockIndex[word] \in Infos
  <2>1. CASE last = info
    BY <1>6, <2>1 DEF IsTyped
  <2>2. CASE last # info
    <3>1. t.subBlockIndex = [s.subBlockIndex EXCEPT ![w] = info]
      BY <1>6, <2>2
    <3>2. \A word \in DOMAIN s.subBlockIndex : s.subBlockIndex[word] \in Infos
      BY DEF IsTyped
    <3>. QED
      BY <3>1, <3>2
  <2>. QED
    BY <2>1, <2>2
<1>13. IsPlace(Before(used), c) /\ Before(used).block < s.nextBlock
  BY <1>1, <1>2, BeforeIs
<1>14. ASSUME NEW size \in SubBlockSizes
       PROVE  /\ IsPlace(t.open[size], size) /\ t.open[size].block < t.nextBlock
              /\ IsPlace(t.lastUsed[size], size) /\ t.lastUsed[size].block < t.nextBlock
  <2>1. CASE size = c
    BY <1>1, <1>2, <1>5, <1>13, <2>1
  <2>2. CASE size # c
    <3>1. t.open[size] = s.open[size] /\ t.lastUsed[size] = s.lastUsed[size]
      BY <1>2, <1>5, <2>2
    <3>. QED
      BY <1>5, <3>1 DEF IsTyped
  <2>. QED
    BY <2>1, <2>2
<1>15. DOMAIN t.open = SubBlockSizes /\ DOMAIN t.lastUsed = SubBlockSizes
  BY <1>2, <1>5
<1>16. IsTyped(t)
  BY <1>2, <1>5, <1>11, <1>12, <1>14, <1>15 DEF IsTyped
<1>. QED
  BY <1>4, <1>8, <1>9, <1>10, <1>16 DEF Writes, stored, c

LEMMA Deleted ==
  ASSUME NEW s, IsTyped(s), AllFit(s), NEW chains, IsLayout(s, chains),
         NEW info \in Infos, info.size # BlockSize, info \notin Owned(chains),
         Allocated(s, Owned(chains) \union {info}), ~DeleteThrows(s, info), ~MoveMisleads(s, info)
  PROVE  \E less : IsDeleted(s, DeleteSubBlock(s, info), chains, less)
<1>. DEFINE t == DeleteSubBlock(s, info)
            last == LastUsedSubBlock(s, info.size)
            used == s.lastUsed[info.size]
            w == s.wordIndex[last]
            taken == Owned(chains) \union {info}
            hole == <<info>>
            less == With(chains, w, hole)
<1>1. DOMAIN chains = DOMAIN s.subBlockIndex /\ \A v \in DOMAIN chains : IsChain(s, s.subBlockIndex[v], chains[v])
  BY DEF IsLayout
<1>2. ASSUME used.block = 0 PROVE \E x : IsDeleted(s, t, chains, x)
  <2>1. t = s
    BY <1>2 DEF DeleteSubBlock
  <2>2. IsDeleted(s, t, chains, chains)
    BY <2>1 DEF IsDeleted, HasTheSame
  <2>. QED
    BY <2>2
<1>3. ASSUME used.block # 0 PROVE \E x : IsDeleted(s, t, chains, x)
  <2>1. IsGivenBack(s, t, info, last)
    BY <1>3, GivenBackIs DEF IsTyped
  <2>2. last.block = used.block
    BY DEF LastUsedSubBlock, SubBlock
  <2>. HIDE DEF t
  <2>3. /\ IsTyped(t) /\ AllFit(t) /\ last \in Infos /\ last.size # BlockSize
        /\ \A p \in Infos : p # info => Stored(t, p) = Stored(s, p)
        /\ last # info => Stored(t, info) = Stored(s, last)
    BY <1>3, <2>1, DeletedIsTyped
  <2>4. Allocated(t, taken \ {last})
    BY <1>3, <2>1, GivenBackIsFree
  <2>5. t.next = s.next /\ t.nextBlock = s.nextBlock /\ s.nextBlock \in Nat /\ s.nextBlock > 0
    BY <2>1 DEF IsGivenBack, IsTyped
  <2>6. last # info => w \in DOMAIN chains /\ s.subBlockIndex[w] = last
    BY <1>1, <1>3, <2>2 DEF DeleteThrows, MoveThrows, MoveMisleads
  <2>7. /\ last = info => t.subBlockIndex = s.subBlockIndex
        /\ last # info => t.subBlockIndex = [s.subBlockIndex EXCEPT ![w] = info]
    BY <2>1 DEF IsGivenBack
  <2>. HIDE DEF last, used, w, taken
  <2>8. ASSUME NEW v \in DOMAIN chains, NEW i \in 1..Len(chains[v])
        PROVE  /\ chains[v][i] \in Owned(chains) /\ chains[v][i] \in Infos /\ chains[v][i] # info
               /\ Stored(t, chains[v][i]) = Stored(s, chains[v][i])
    <3>1. chains[v][i] \in Owned(chains) /\ chains[v][i] \in Infos
      BY ChainsAreOwned
    <3>. QED
      BY <2>3, <3>1
  <2>9. ASSUME NEW v \in DOMAIN chains, NEW head, head = s.subBlockIndex[v] PROVE IsChain(t, head, chains[v])
    <3>1. IsChain(s, head, chains[v])
      BY <1>1, <2>9
    <3>. QED
      BY <2>5, <3>1, ChainIsKept
  <2>10. CASE last = info
    <3>1. \A v \in DOMAIN chains : IsChain(t, t.subBlockIndex[v], chains[v])
      BY <2>7, <2>9, <2>10
    <3>2. Owned(chains) = taken \ {last}
      BY <2>10 DEF taken
    <3>3. IsLayout(t, chains)
      BY <1>1, <2>4, <2>7, <2>10, <3>1, <3>2 DEF IsLayout
    <3>4. IsDeleted(s, t, chains, chains)
      BY <2>3, <2>8, <3>3 DEF IsDeleted, HasTheSame
    <3>. QED
      BY <3>4
  <2>11. CASE last # info
    <3>1. w \in DOMAIN chains /\ s.subBlockIndex[w] = last
      BY <2>6, <2>11
    <3>2. chains[w] = <<last>>
      <4>. DEFINE chain == chains[w]
      <4>1. IsChain(s, last, chain)
        BY <1>1, <3>1
      <4>. HIDE DEF chain
      <4>2. chain \in Seq(Infos) /\ Len(chain) = 1 /\ chain[1] = last
        BY <2>3, <4>1 DEF IsChain
      <4>3. chain = <<last>>
        BY <4>2
      <4>. QED
        BY <4>3 DEF chain
    <3>3. hole \in Seq(Infos) /\ Len(hole) = 1 /\ hole[1] = info /\ \A i \in 1..Len(hole) : hole[i] = info
      OBVIOUS
    <3>4. IsChain(t, info, hole)
      BY <2>5, ChainOfOne
    <3>. HIDE DEF hole
    <3>5. /\ DOMAIN t.subBlockIndex = DOMAIN s.subBlockIndex \union {w} /\ t.subBlockIndex[w] = info
          /\ \A v \in DOMAIN chains \ {w} : t.subBlockIndex[v] = s.subBlockIndex[v]
      <4>1. t.subBlockIndex = [s.subBlockIndex EXCEPT ![w] = info]
        BY <2>7, <2>11
      <4>. QED
        BY <1>1, <3>1, <4>1
    <3>6. \A v \in DOMAIN chains \ {w} : IsChain(t, t.subBlockIndex[v], chains[v])
      BY <2>9, <3>5
    <3>7. ASSUME NEW v \in DOMAIN chains \ {w}, NEW i \in 1..Len(chains[v])
          PROVE  chains[v][i] \in taken \ {last}
      <4>1. 1 \in 1..Len(chains[w]) /\ chains[w][1] = last
        BY <3>2
      <4>2. chains[v][i] # chains[w][1]
        BY <3>1, <4>1 DEF IsLayout
      <4>. QED
        BY <2>8, <4>1, <4>2 DEF taken
    <3>8. \A i \in 1..Len(hole) : hole[i] \in {info} /\ hole[i] \in taken \ {last}
      BY <2>11, <3>3 DEF taken
    <3>9. \A i, j \in 1..Len(hole) : hole[i] = hole[j] => i = j
      BY <3>3
    <3>10. IsLayout(t, With(chains, w, hole))
      <4>. DEFINE fresh == {info}
                  owned == taken \ {last}
      <4>1. fresh \intersect Owned(chains) = {}
        OBVIOUS
      <4>2. \A v \in DOMAIN chains \ {w} : \A i \in 1..Len(chains[v]) : chains[v][i] \in owned
        BY <3>7
      <4>3. \A i \in 1..Len(hole) : hole[i] \in fresh /\ hole[i] \in owned
        BY <3>8
      <4>4. Allocated(t, owned)
        BY <2>4
      <4>5. IsChain(t, t.subBlockIndex[w], hole)
        BY <3>4, <3>5
      <4>. HIDE DEF fresh, owned
      <4>. QED
        BY <3>1, <3>5, <3>6, <3>9, <4>1, <4>2, <4>3, <4>4, <4>5, LayoutWith
    <3>11. /\ DOMAIN less = DOMAIN chains /\ less[w] = hole
           /\ \A v \in DOMAIN chains \ {w} : less[v] = chains[v]
      BY <3>1 DEF With
    <3>12. ASSUME NEW v \in DOMAIN chains PROVE HasTheSame(s, chains[v], t, less[v])
      <4>1. CASE v = w
        <5>1. less[v] = hole /\ chains[v] = <<last>>
          BY <3>2, <3>11, <4>1
        <5>2. Len(<<last>>) = 1 /\ <<last>>[1] = last
          OBVIOUS
        <5>. HIDE DEF less
        <5>. QED
          BY <2>3, <2>11, <3>3, <5>1, <5>2 DEF HasTheSame
      <4>2. CASE v # w
        BY <2>8, <3>11, <4>2 DEF HasTheSame
      <4>. QED
        BY <4>1, <4>2
    <3>13. IsDeleted(s, t, chains, less)
      BY <2>3, <3>10, <3>11, <3>12 DEF IsDeleted
    <3>. QED
      BY <3>13
  <2>. QED
    BY <2>10, <2>11
<1>. QED
  BY <1>2, <1>3

LEMMA SplitOfAdded ==
  ASSUME NEW s, NEW chains, NEW word, NEW info, NEW l, IsAdding(s, chains, word, info, l),
         NEW postings \in Seq(Int), NEW list, list = AddAll(l, postings), NEW split,
         split = Split(list, BlockSize - BlockDataOffset)
  PROVE  /\ IsSplit(split, list, BlockSize - BlockDataOffset)
         /\ list \in PostingLists /\ list.posts = l.posts /\ list.index = l.index
         /\ GetByteSize(list) <= DataSize(info) => split = <<list>>
<1>. DEFINE size == BlockSize - BlockDataOffset
<1>1. IsUnchanged(l) /\ GetByteSize(l) <= DataSize(info) /\ info \in Infos
  BY AddedToIs
<1>2. DataSize(info) \in Int /\ DataSize(info) <= size /\ size \in Int
  BY <1>1, DataSizes, BlocksAssumption
<1>3. l \in PostingLists /\ GetByteSize(l) \in Nat
  BY <1>1, ByteSizeOfAList DEF IsUnchanged
<1>4. Bytes(1, 1) <= size
  <2>1. Bytes(1, 1) = HeaderSize + DeltaSize + EntrySize
    BY SizesAssumption DEF Bytes
  <2>. QED
    BY <2>1, RoomAssumption
<1>5. list \in PostingLists /\ list.posts = l.posts /\ list.index = l.index
  BY <1>1, AllAdded
<1>6. GetByteSize(list) \in Nat
  BY <1>5, ByteSizeOfAList
<1>. HIDE DEF size
<1>7. GetByteSize(l) <= size
  BY <1>1, <1>2, <1>3
<1>8. IsSplit(split, list, size)
  <2>1. IsSplit(Split(AddAll(l, postings), size), AddAll(l, postings), size)
    BY <1>1, <1>2, <1>4, <1>7, SplitIs
  <2>. QED
    BY <2>1 DEF size
<1>9. ASSUME GetByteSize(list) <= DataSize(info) PROVE split = <<list>>
  <2>1. GetByteSize(list) <= size
    BY <1>2, <1>6, <1>9
  <2>. QED
    BY <2>1 DEF Split, size
<1>. QED
  BY <1>5, <1>8, <1>9 DEF size

\* The postings are written, and the sub-block that was outgrown is given back or not.
AreWritten(s, t, chains, word, split, misleads) ==
  \E more, mid :
    /\ IsSaved(s, mid, chains, more, word, split)
    /\ t = mid \/ misleads \/ \E less : IsDeleted(mid, t, more, less)

LEMMA SplitIsWritten ==
  ASSUME NEW s, NEW chains, NEW word, NEW info, NEW l, IsAdding(s, chains, word, info, l),
         NEW list, list.posts = l.posts, list.index = l.index, NEW split,
         IsSplit(split, list, BlockSize - BlockDataOffset), NEW save,
         save = SaveSplitPostingList(s, info, split, word)
  PROVE  AreWritten(s, save.store, chains, word, split, save.misleads)
<1>. DEFINE over == PlaceOverflow(s, split)
            inPlace == Place(over.store, info, UpdateInPlace(Stored(s, info), Head(split)), over.next)
            larger == GetNewSubBlock(over.store, GetByteSize(Head(split)))
            renamed == [larger.store EXCEPT
                          !.subBlockIndex = With(@, word, larger.info),
                          !.wordIndex     = InsertNew(@, larger.info, word)]
            moved == Place(renamed, larger.info, FullUpdate(Head(split)), over.next)
            given == Len(split) = 1
            throws == DeleteThrows(moved, info)
<1>1. CASE info.size = BlockSize
  <2>1. save.store = inPlace
    BY <1>1 DEF SaveSplitPostingList
  <2>2. \E more : IsSaved(s, inPlace, chains, more, word, split)
    <3>. HIDE DEF over
    <3>1. over = PlaceOverflow(s, split)
      BY DEF over
    <3>. DEFINE t == inPlace
    <3>2. t = Place(over.store, info, UpdateInPlace(Stored(s, info), Head(split)), over.next)
      OBVIOUS
    <3>. HIDE DEF t
    <3>3. \E more : IsSaved(s, t, chains, more, word, split)
      BY <1>1, <3>1, <3>2, SavedInBlocks
    <3>. QED
      BY <3>3 DEF t
  <2>. HIDE DEF inPlace
  <2>. QED
    BY <2>1, <2>2 DEF AreWritten
<1>2. CASE info.size # BlockSize
  <2>1. /\ save.store = (IF given /\ ~throws THEN DeleteSubBlock(moved, info) ELSE moved)
        /\ save.misleads = (given /\ ~throws /\ MoveMisleads(moved, info))
    BY <1>2 DEF SaveSplitPostingList
  <2>2. \E more : IsMoved(s, moved, chains, more, word, info, split)
    <3>. DEFINE t == moved
    <3>1. t = Place(renamed, larger.info, FullUpdate(Head(split)), over.next)
      OBVIOUS
    <3>. HIDE DEF t
    <3>2. renamed = [larger.store EXCEPT !.subBlockIndex = With(@, word, larger.info),
                                         !.wordIndex     = InsertNew(@, larger.info, word)]
      OBVIOUS
    <3>. HIDE DEF renamed
    <3>3. larger = GetNewSubBlock(over.store, GetByteSize(Head(split)))
      OBVIOUS
    <3>. HIDE DEF larger
    <3>4. over = PlaceOverflow(s, split)
      OBVIOUS
    <3>. HIDE DEF over
    <3>5. \E more : IsMoved(s, t, chains, more, word, info, split)
      BY <1>2, <3>1, <3>2, <3>3, <3>4, SavedInALarger
    <3>. QED
      BY <3>5 DEF t
  <2>. HIDE DEF moved
  <2>3. PICK more : IsMoved(s, moved, chains, more, word, info, split)
    BY <2>2
  <2>4. IsSaved(s, moved, chains, more, word, split)
    BY <2>3 DEF IsMoved
  <2>5. CASE given /\ ~throws /\ ~MoveMisleads(moved, info)
    <3>1. save.store = DeleteSubBlock(moved, info)
      BY <2>1, <2>5
    <3>2. IsTyped(moved) /\ AllFit(moved) /\ IsLayout(moved, more)
      BY <2>4 DEF IsSaved
    <3>3. /\ info \in Infos /\ info.size # BlockSize /\ info \notin Owned(more)
          /\ Allocated(moved, Owned(more) \union {info})
      BY <2>3 DEF IsMoved
    <3>4. \E less : IsDeleted(moved, DeleteSubBlock(moved, info), more, less)
      BY <2>5, <3>2, <3>3, Deleted
    <3>. QED
      BY <2>4, <3>1, <3>4 DEF AreWritten
  <2>6. CASE ~(given /\ ~throws)
    <3>1. save.store = moved
      BY <2>1, <2>6
    <3>. QED
      BY <2>4, <3>1 DEF AreWritten
  <2>7. CASE given /\ ~throws /\ MoveMisleads(moved, info)
    <3>1. save.misleads
      BY <2>1, <2>7
    <3>. QED
      BY <2>4, <3>1 DEF AreWritten
  <2>. QED
    BY <2>5, <2>6, <2>7
<1>. QED
  BY <1>1, <1>2

\* The word has the postings that were added, the other words what they had.
IsAdded(s, t, chains, less, word, l, postings) ==
  /\ IsTyped(t) /\ AllFit(t) /\ IsLayout(t, less) /\ DOMAIN less = DOMAIN chains
  /\ \A v \in DOMAIN chains \ {word} : \A a : Holds(s, chains[v], a) => Holds(t, less[v], a)
  /\ \A a \in Seq(Int) : Holding(s, chains[word], l, a) => Holds(t, less[word], Cat(a, postings))

LEMMA SavedIsAdded ==
  ASSUME NEW s, NEW chains, NEW word, NEW info, NEW l, IsAdding(s, chains, word, info, l),
         NEW postings \in Seq(Int), NEW split, SplitsInto(split, AddAll(l, postings)),
         NEW t, NEW more, IsSaved(s, t, chains, more, word, split)
  PROVE  IsAdded(s, t, chains, more, word, l, postings)
<1>1. IsTyped(s) /\ IsLayout(s, chains) /\ word \in DOMAIN chains
  BY DEF IsAdding
<1>2. IsTyped(t) /\ AllFit(t) /\ IsLayout(t, more) /\ DOMAIN more = DOMAIN chains
  BY DEF IsSaved
<1>3. ASSUME NEW v \in DOMAIN chains \ {word}, NEW a, Holds(s, chains[v], a)
      PROVE  Holds(t, more[v], a)
  <2>1. chains[v] \in Seq(Infos) /\ Len(chains[v]) > 0
    BY <1>1, ChainsAreOwned
  <2>2. HasTheSame(s, chains[v], t, more[v])
    BY DEF IsSaved, HasTheSame
  <2>. QED
    BY <1>3, <2>1, <2>2, HoldsStill
<1>4. ASSUME NEW a \in Seq(Int), Holding(s, chains[word], l, a)
      PROVE  Holds(t, more[word], Cat(a, postings))
  <2>1. PICK tail \in Seq(Infos) :
          /\ Len(tail) = Len(split) /\ more[word] = Cat(Front(chains[word]), tail)
          /\ \A j \in 1..Len(tail) : IsWritten(Stored(t, tail[j]), split[j])
    BY DEF IsSaved
  <2>2. IsUnchanged(l)
    BY AddedToIs
  <2>. DEFINE chain == chains[word]
  <2>3. chain \in Seq(Infos) /\ Len(chain) > 0
    BY <1>1, ChainsAreOwned
  <2>4. \A i \in 1..Len(Front(chain)) : Stored(t, Front(chain)[i]) = Stored(s, Front(chain)[i])
    BY DEF IsSaved
  <2>5. Holding(s, chain, l, a) /\ more[word] = Cat(Front(chain), tail)
    BY <1>4, <2>1
  <2>. HIDE DEF chain
  <2>6. Holds(t, Cat(Front(chain), tail), Cat(a, postings))
    BY <1>1, <1>2, <2>1, <2>2, <2>3, <2>4, <2>5, HoldsMore
  <2>. QED
    BY <2>5, <2>6
<1>. QED
  BY <1>2, <1>3, <1>4 DEF IsAdded

LEMMA WrittenIsAdded ==
  ASSUME NEW s, NEW chains, NEW word, NEW info, NEW l, IsAdding(s, chains, word, info, l),
         NEW postings \in Seq(Int), NEW split, SplitsInto(split, AddAll(l, postings)),
         NEW t, AreWritten(s, t, chains, word, split, FALSE)
  PROVE  \E less : IsAdded(s, t, chains, less, word, l, postings)
<1>1. PICK more, mid : /\ IsSaved(s, mid, chains, more, word, split)
                       /\ t = mid \/ \E less : IsDeleted(mid, t, more, less)
  BY DEF AreWritten
<1>2. IsAdded(s, mid, chains, more, word, l, postings)
  BY <1>1, SavedIsAdded
<1>3. ASSUME NEW less, IsDeleted(mid, t, more, less)
      PROVE  IsAdded(s, t, chains, less, word, l, postings)
  <2>1. /\ IsTyped(t) /\ AllFit(t) /\ IsLayout(t, less) /\ DOMAIN less = DOMAIN chains
        /\ DOMAIN more = DOMAIN chains /\ IsLayout(mid, more) /\ word \in DOMAIN chains
    BY <1>2, <1>3 DEF IsDeleted, IsAdded, IsAdding
  <2>2. ASSUME NEW v \in DOMAIN chains, NEW a, Holds(mid, more[v], a) PROVE Holds(t, less[v], a)
    <3>1. HasTheSame(mid, more[v], t, less[v])
      BY <1>3, <2>1 DEF IsDeleted
    <3>2. more[v] \in Seq(Infos) /\ Len(more[v]) > 0
      BY <2>1, ChainsAreOwned
    <3>. QED
      BY <2>2, <3>1, <3>2, HoldsStill
  <2>3. \A v \in DOMAIN chains \ {word} : \A a : Holds(s, chains[v], a) => Holds(t, less[v], a)
    BY <1>2, <2>2 DEF IsAdded
  <2>4. \A a \in Seq(Int) : Holding(s, chains[word], l, a) => Holds(t, less[word], Cat(a, postings))
    BY <1>2, <2>1, <2>2 DEF IsAdded
  <2>. QED
    BY <2>1, <2>3, <2>4 DEF IsAdded
<1>. QED
  BY <1>1, <1>2, <1>3

\* Postings that come in order, behind those a word has.
LEMMA BatchesAscend ==
  ASSUME NEW word \in Words, added \in [Words -> Seq(Nat)], IsAscending(added[word]),
         NEW postings \in Batches(word)
  PROVE  postings \in Seq(Int) /\ IsAscending(Cat(added[word], postings))
<1>. DEFINE a == added[word]
            n == Len(a)
            after == IF a = <<>> THEN 0 ELSE a[n]
<1>1. PICK b \in BatchSizes \X Gaps : postings = [i \in 1..b[1] |-> after + b[2] + i]
  BY DEF Batches
<1>. DEFINE m == b[1]
            gap == b[2]
<1>2. m \in Nat /\ gap \in Nat
  BY BatchesAssumption
<1>3. a \in Seq(Nat) /\ n \in Nat /\ \A i \in 1..n : a[i] \in Nat /\ a[i] > 0
  BY DEF IsAscending
<1>4. after \in Nat /\ \A i \in 1..n : a[i] <= after
  <2>1. CASE n = 0
    <3>1. a = <<>>
      BY <1>3, <2>1
    <3>. QED
      BY <2>1, <3>1
  <2>2. CASE n # 0
    <3>1. a # <<>> /\ n \in 1..n
      BY <1>3, <2>2
    <3>2. after = a[n]
      BY <3>1
    <3>3. ASSUME NEW i \in 1..n PROVE a[i] <= a[n]
      <4>1. i = n \/ i < n
        BY <1>3
      <4>2. i < n => a[i] < a[n]
        BY <3>1 DEF IsAscending
      <4>. QED
        BY <1>3, <3>1, <4>1, <4>2
    <3>. QED
      BY <1>3, <3>1, <3>2, <3>3
  <2>. QED
    BY <2>1, <2>2
<1>. HIDE DEF after, m, gap
<1>5. postings = [i \in 1..m |-> after + gap + i]
  BY <1>1 DEF m, gap
<1>6. postings \in Seq(Nat) /\ Len(postings) = m /\ \A i \in 1..m : postings[i] = after + gap + i
  <2>1. \A i \in 1..m : after + gap + i \in Nat
    BY <1>2, <1>4
  <2>. QED
    BY <1>2, <1>5, <2>1
<1>7. \A i \in 1..m : postings[i] \in Nat /\ postings[i] > after
  BY <1>2, <1>4, <1>6
<1>8. \A i, j \in 1..m : i < j => postings[i] < postings[j]
  BY <1>2, <1>4, <1>6
<1>9. \A i, j \in 1..n : i < j => a[i] < a[j]
  BY DEF IsAscending
<1>. DEFINE all == Cat(a, postings)
<1>10. IsCat(all, a, postings, Nat)
  BY <1>3, <1>6, CatProperties
<1>. HIDE DEF a, n, all
<1>11. ASSUME NEW i \in 1..Len(all)
       PROVE  \/ i \in 1..n /\ all[i] = a[i]
              \/ i \in n + 1..n + m /\ i - n \in 1..m /\ all[i] = postings[i - n]
  <2>1. Len(all) = n + m /\ \A k \in 1..n : all[k] = a[k]
    BY <1>6, <1>10 DEF IsCat, n
  <2>2. \A k \in 1..m : all[n + k] = postings[k]
    BY <1>6, <1>10 DEF IsCat, n
  <2>3. i \in 1..n \/ (i \in n + 1..n + m /\ i - n \in 1..m /\ n + (i - n) = i)
    BY <1>2, <1>3, <2>1
  <2>. QED
    BY <2>1, <2>2, <2>3
<1>12. \A i \in 1..Len(all) : all[i] > 0
  <2>1. \A i \in 1..m : postings[i] > 0
    BY <1>4, <1>7
  <2>2. \A i \in 1..n : a[i] > 0
    BY <1>3
  <2>. QED
    BY <1>11, <2>1, <2>2
<1>13. ASSUME NEW i \in 1..Len(all), NEW j \in 1..Len(all), i < j PROVE all[i] < all[j]
  <2>1. CASE j \in 1..n /\ i \in 1..n
    <3>1. all[i] = a[i] /\ all[j] = a[j]
      BY <1>3, <1>11, <2>1
    <3>. QED
      BY <1>9, <1>13, <2>1, <3>1
  <2>2. CASE j \in n + 1..n + m /\ i \in 1..n
    <3>1. all[i] = a[i] /\ all[j] = postings[j - n] /\ j - n \in 1..m
      BY <1>2, <1>3, <1>11, <2>2
    <3>. QED
      BY <1>3, <1>4, <1>7, <2>2, <3>1
  <2>3. CASE j \in n + 1..n + m /\ i \in n + 1..n + m
    <3>1. all[i] = postings[i - n] /\ all[j] = postings[j - n] /\ j - n \in 1..m /\ i - n \in 1..m
      BY <1>2, <1>3, <1>11, <2>3
    <3>2. i - n < j - n
      BY <1>2, <1>3, <1>13, <2>3
    <3>. QED
      BY <1>8, <3>1, <3>2
  <2>. QED
    BY <1>2, <1>3, <1>11, <1>13, <2>1, <2>2, <2>3
<1>14. all \in Seq(Nat)
  BY <1>10 DEF IsCat
<1>15. IsAscending(all)
  BY <1>12, <1>13, <1>14 DEF IsAscending
<1>. QED
  BY <1>6, <1>15 DEF all, a

LEMMA NewStoreIs ==
  /\ IsTyped(NewStore) /\ AllFit(NewStore) /\ \A chains : DOMAIN chains = {} => IsLayout(NewStore, chains)
  /\ NewStore.subBlockIndex = <<>>
<1>. DEFINE blockOf(size) == CHOOSE b \in 1..NumSizes - 1 : size = Halved[b]
            first == [size \in SubBlockSizes |-> [block |-> blockOf(size), sub |-> 0]]
            new == NewStore
<1>1. new = [area |-> <<>>, next |-> <<>>, subBlockIndex |-> <<>>, wordIndex |-> <<>>,
             open |-> first, lastUsed |-> first, nextBlock |-> NumSizes]
  BY DEF NewStore
<1>2. NumSizes \in Nat /\ NumSizes > 1
  BY BlocksAssumption
<1>3. ASSUME NEW size \in SubBlockSizes
      PROVE  /\ first[size] = [block |-> blockOf(size), sub |-> 0]
             /\ blockOf(size) \in 1..NumSizes - 1 /\ 0 \in 0..(BlockSize \div size) - 1
  <2>1. \E b \in 1..NumSizes - 1 : size = Halved[b]
    BY DEF SubBlockSizes
  <2>2. blockOf(size) \in 1..NumSizes - 1
    BY <2>1
  <2>3. BlockSize \div size \in Nat /\ BlockSize \div size >= 2
    BY PartsOfABlock
  <2>. DEFINE parts == BlockSize \div size
  <2>. HIDE DEF parts
  <2>4. 0 \in 0..parts - 1
    BY <2>3 DEF parts
  <2>. HIDE DEF blockOf
  <2>. QED
    BY <2>2, <2>4 DEF parts
<1>. HIDE DEF blockOf
<1>4. ASSUME NEW size \in SubBlockSizes PROVE IsPlace(first[size], size) /\ first[size].block < NumSizes
  <2>1. first[size].block = blockOf(size) /\ first[size].sub = 0
        /\ first[size] = [block |-> first[size].block, sub |-> first[size].sub]
    BY <1>3
  <2>2. blockOf(size) \in Nat /\ blockOf(size) < NumSizes
    BY <1>2, <1>3
  <2>. HIDE DEF first
  <2>. QED
    BY <1>3, <2>1, <2>2 DEF IsPlace
<1>5. DOMAIN first = SubBlockSizes
  OBVIOUS
<1>. HIDE DEF first, new
<1>6. /\ IsStore(new) /\ new.area = <<>> /\ new.open = first /\ new.lastUsed = first
      /\ new.nextBlock = NumSizes /\ new.subBlockIndex = <<>>
  BY <1>1 DEF IsStore
<1>7. DOMAIN new.area = {} /\ DOMAIN new.subBlockIndex = {}
  BY <1>6
<1>8. IsTyped(new)
  BY <1>2, <1>4, <1>5, <1>6, <1>7 DEF IsTyped
<1>9. \A info : Stored(new, info) = NoPostings
  BY <1>7 DEF Stored
<1>10. AllFit(new)
  BY <1>9, NoPostingsFit DEF AllFit, IsFound
<1>11. ASSUME NEW chains, DOMAIN chains = {} PROVE IsLayout(new, chains)
  <2>1. Owned(chains) = {}
    BY <1>11 DEF Owned
  <2>2. Allocated(new, Owned(chains))
    BY <2>1 DEF Allocated
  <2>. QED
    BY <1>7, <1>11, <2>2 DEF IsLayout
<1>. QED
  BY <1>6, <1>8, <1>10, <1>11 DEF new

\* Every word that was not looked up too early has its postings, in sub-blocks of its own.
StoreIsConsistent == misled \/ \E chains : IsConsistent(store, chains, added, guessed)

LEMMA ConsistentAtFirst == InitPostings => StoreIsConsistent
<1>. SUFFICES ASSUME InitPostings PROVE StoreIsConsistent
  OBVIOUS
<1>1. store = NewStore /\ added = [word \in Words |-> <<>>] /\ guessed = {}
  BY DEF InitPostings
<1>. DEFINE none == <<>>
<1>2. DOMAIN none = {} /\ none \in Seq(Nat) /\ Len(none) = 0
  OBVIOUS
<1>. HIDE DEF none
<1>3. IsTyped(store) /\ AllFit(store) /\ IsLayout(store, none)
  BY <1>1, <1>2, NewStoreIs
<1>4. added \in [Words -> Seq(Nat)] /\ \A word \in Words : added[word] = none
  BY <1>1, <1>2 DEF none
<1>5. IsAscending(none)
  BY <1>2 DEF IsAscending
<1>6. \A word \in Words : IsAscending(added[word]) /\ (added[word] # <<>> => word \in DOMAIN none)
  BY <1>4, <1>5 DEF none
<1>7. IsConsistent(store, none, added, guessed)
  BY <1>2, <1>3, <1>4, <1>6 DEF IsConsistent
<1>. QED
  BY <1>7 DEF StoreIsConsistent

\* The word that is looked up before it has a list is given a sub-block.
LEMMA ConsistentAfterLookUp ==
  ASSUME NEW word \in Words, NEW chains, IsConsistent(store, chains, added, guessed), LookUp(word)
  PROVE  StoreIsConsistent'
<1>. DEFINE at == GetPostingListSubBlock(store, word)
<1>1. IsTyped(store) /\ AllFit(store) /\ IsLayout(store, chains)
  BY DEF IsConsistent
<1>2. PICK more : IsGot(store, chains, word, at, more)
  BY <1>1, GotSubBlock
<1>. HIDE DEF at
<1>3. store' = at.store /\ added' = added /\ guessed' = guessed \union {word}
  BY DEF LookUp, at
<1>4. /\ IsTyped(store') /\ AllFit(store') /\ IsLayout(store', more) /\ store'.area = store.area
      /\ DOMAIN more = DOMAIN chains \union {word} /\ \A v \in DOMAIN chains : more[v] = chains[v]
  BY <1>2, <1>3 DEF IsGot
<1>5. ASSUME NEW v \in DOMAIN more \ guessed' PROVE Holds(store', more[v], added'[v])
  <2>1. v \in DOMAIN chains \ guessed /\ more[v] = chains[v]
    BY <1>3, <1>4
  <2>2. Holds(store, chains[v], added[v])
    BY <2>1 DEF IsConsistent
  <2>3. chains[v] \in Seq(Infos) /\ Len(chains[v]) > 0
    BY <1>1, <2>1, ChainsAreOwned
  <2>4. HasTheSame(store, chains[v], store', chains[v])
    BY <1>4 DEF HasTheSame, Stored
  <2>5. Holds(store', chains[v], added[v])
    BY <2>2, <2>3, <2>4, HoldsStill
  <2>. QED
    BY <1>3, <2>1, <2>5
<1>6. /\ added \in [Words -> Seq(Nat)] /\ DOMAIN chains \subseteq Words
      /\ \A v \in Words : IsAscending(added[v]) /\ (added[v] # <<>> => v \in DOMAIN chains)
  BY DEF IsConsistent
<1>7. IsConsistent(store', more, added', guessed')
  BY <1>3, <1>4, <1>5, <1>6 DEF IsConsistent
<1>. QED
  BY <1>7 DEF StoreIsConsistent

\* Postings are added to a word, wherever its list is moved.
LEMMA ConsistentAfterAddPostings ==
  ASSUME NEW word \in Words, NEW chains, IsConsistent(store, chains, added, guessed),
         NEW postings \in Batches(word), AddPostings(word, postings)
  PROVE  StoreIsConsistent'
<1>. DEFINE at == GetPostingListSubBlock(store, word)
            s == at.store
            l == at.list
            info == at.info
            list == AddAll(l, postings)
            split == Split(list, BlockSize - BlockDataOffset)
            save == SaveSplitPostingList(s, info, split, word)
            held == Stored(s, info)
            fits == GetByteSize(list) <= DataSize(info)
            inPlace == [s EXCEPT !.area = With(@, info, UpdateInPlace(held, list))]
<1>1. IsTyped(store) /\ AllFit(store) /\ IsLayout(store, chains)
  BY DEF IsConsistent
<1>2. /\ added \in [Words -> Seq(Nat)] /\ DOMAIN chains \subseteq Words
      /\ \A v \in Words : IsAscending(added[v]) /\ (added[v] # <<>> => v \in DOMAIN chains)
      /\ \A v \in DOMAIN chains \ guessed : Holds(store, chains[v], added[v])
  BY DEF IsConsistent
<1>3. postings \in Seq(Int) /\ IsAscending(Cat(added[word], postings))
  BY <1>2, BatchesAscend
<1>4. /\ fits => store' = inPlace
      /\ ~fits => store' = save.store /\ misled' = (misled \/ save.misleads)
      /\ added' = [added EXCEPT ![word] = Cat(@, postings)] /\ guessed' = guessed
  BY DEF AddPostings, Cat
<1>5. PICK more : IsGot(store, chains, word, at, more)
  BY <1>1, GotSubBlock
<1>. HIDE DEF at, inPlace, save, fits
<1>6. /\ IsTyped(s) /\ AllFit(s) /\ IsLayout(s, more) /\ s.area = store.area
      /\ DOMAIN more = DOMAIN chains \union {word} /\ \A v \in DOMAIN chains : more[v] = chains[v]
      /\ info = more[word][Len(more[word])]
  BY <1>5 DEF IsGot
<1>7. \/ word \in DOMAIN chains /\ s = store /\ IsFound(l, Stored(s, info), info)
      \/ word \notin DOMAIN chains /\ more[word] = <<info>> /\ IsFound(l, NoPostings, info)
  BY <1>5 DEF IsGot
<1>8. IsAdding(s, more, word, info, l)
  BY <1>6, <1>7 DEF IsAdding
<1>. HIDE DEF s, l, info
<1>9. /\ IsSplit(split, list, BlockSize - BlockDataOffset)
      /\ list \in PostingLists /\ list.posts = l.posts /\ list.index = l.index
      /\ fits => split = <<list>>
  BY <1>3, <1>8, SplitOfAdded DEF fits
<1>. HIDE DEF list, split
<1>10. SplitsInto(split, AddAll(l, postings))
  BY <1>9 DEF IsSplit, SplitsInto, list
<1>11. ASSUME NEW v \in DOMAIN chains \ guessed PROVE Holds(s, more[v], added[v])
  <2>1. Holds(store, chains[v], added[v]) /\ more[v] = chains[v]
    BY <1>2, <1>6
  <2>2. chains[v] \in Seq(Infos) /\ Len(chains[v]) > 0
    BY <1>1, ChainsAreOwned
  <2>3. HasTheSame(store, chains[v], s, chains[v])
    BY <1>6 DEF HasTheSame, Stored
  <2>. QED
    BY <2>1, <2>2, <2>3, HoldsStill
<1>12. ASSUME word \notin guessed PROVE Holding(s, more[word], l, added[word])
  <2>1. CASE word \in DOMAIN chains
    <3>1. IsFound(l, Stored(s, info), info)
      BY <1>7, <2>1
    <3>2. Holds(s, more[word], added[word])
      BY <1>11, <1>12, <2>1
    <3>3. more[word] \in Seq(Infos) /\ Len(more[word]) > 0
      BY <1>6, ChainsAreOwned
    <3>. QED
      BY <1>6, <3>1, <3>2, <3>3, HoldsTheList
  <2>2. CASE word \notin DOMAIN chains
    <3>1. more[word] = <<info>> /\ IsFound(l, NoPostings, info) /\ added[word] = <<>>
      BY <1>2, <1>7, <2>2
    <3>2. info \in Infos
      BY <1>8, AddedToIs
    <3>3. Holding(s, <<info>>, l, <<>>)
      BY <1>6, <3>1, <3>2, HoldsNothing
    <3>. QED
      BY <3>1, <3>3
  <2>. QED
    BY <2>1, <2>2
<1>13. misled' \/ \E less : IsAdded(s, store', more, less, word, l, postings)
  <2>1. CASE fits
    <3>1. GetByteSize(list) <= DataSize(info)
      BY <2>1 DEF fits
    <3>2. store' = [s EXCEPT !.area = With(@, info, UpdateInPlace(Stored(s, info), list))]
      BY <1>4, <2>1 DEF inPlace
    <3>. DEFINE t == store'
    <3>3. t = [s EXCEPT !.area = With(@, info, UpdateInPlace(Stored(s, info), list))]
      BY <3>2
    <3>. HIDE DEF t
    <3>4. IsSaved(s, t, more, more, word, <<list>>)
      BY <1>8, <1>9, <3>1, <3>3, SavedInPlace
    <3>5. IsSaved(s, t, more, more, word, split)
      BY <1>9, <2>1, <3>4
    <3>6. IsAdded(s, t, more, more, word, l, postings)
      BY <1>3, <1>8, <1>10, <3>5, SavedIsAdded
    <3>. QED
      BY <3>6 DEF t
  <2>2. CASE ~fits
    <3>1. save = SaveSplitPostingList(s, info, split, word)
      BY DEF save
    <3>2. AreWritten(s, save.store, more, word, split, save.misleads)
      BY <1>8, <1>9, <3>1, SplitIsWritten
    <3>3. store' = save.store /\ misled' = (misled \/ save.misleads)
      BY <1>4, <2>2
    <3>4. CASE save.misleads
      BY <3>3, <3>4
    <3>5. CASE ~save.misleads
      <4>. DEFINE t == save.store
      <4>1. AreWritten(s, t, more, word, split, FALSE)
        BY <3>2, <3>5 DEF AreWritten
      <4>. HIDE DEF t
      <4>2. \E less : IsAdded(s, t, more, less, word, l, postings)
        BY <1>3, <1>8, <1>10, <4>1, WrittenIsAdded
      <4>. QED
        BY <3>3, <4>2 DEF t
    <3>. QED
      BY <3>4, <3>5
  <2>. QED
    BY <2>1, <2>2
<1>14. ASSUME NEW less, IsAdded(s, store', more, less, word, l, postings)
       PROVE  IsConsistent(store', less, added', guessed')
  <2>1. IsTyped(store') /\ AllFit(store') /\ IsLayout(store', less) /\ DOMAIN less = DOMAIN more
    BY <1>14 DEF IsAdded
  <2>2. /\ added'[word] = Cat(added[word], postings)
        /\ \A v \in Words \ {word} : added'[v] = added[v]
    BY <1>2, <1>4
  <2>3. Cat(added[word], postings) \in Seq(Nat)
    BY <1>3 DEF IsAscending
  <2>4. added' \in [Words -> Seq(Nat)]
    <3>. DEFINE new == Cat(added[word], postings)
    <3>. HIDE DEF new
    <3>1. added' = [added EXCEPT ![word] = new]
      BY <1>4 DEF new
    <3>2. new \in Seq(Nat)
      BY <2>3 DEF new
    <3>. QED
      BY <1>2, <3>1, <3>2
  <2>5. ASSUME NEW v \in DOMAIN less \ guessed' PROVE Holds(store', less[v], added'[v])
    <3>1. v \in DOMAIN more /\ v \notin guessed
      BY <1>4, <2>1
    <3>2. CASE v = word
      <4>1. Holding(s, more[word], l, added[word])
        BY <1>12, <3>1, <3>2
      <4>2. added[word] \in Seq(Int)
        BY <1>2 DEF IsAscending
      <4>3. Holds(store', less[word], Cat(added[word], postings))
        BY <1>14, <4>1, <4>2 DEF IsAdded
      <4>. QED
        BY <2>2, <3>2, <4>3
    <3>3. CASE v # word
      <4>1. v \in DOMAIN chains \ guessed /\ v \in Words \ {word} /\ v \in DOMAIN more \ {word}
        BY <1>2, <1>6, <3>1, <3>3
      <4>2. Holds(s, more[v], added[v])
        BY <1>11, <4>1
      <4>3. Holds(store', less[v], added[v])
        BY <1>14, <4>1, <4>2 DEF IsAdded
      <4>. QED
        BY <2>2, <4>1, <4>3
    <3>. QED
      BY <3>2, <3>3
  <2>6. DOMAIN less \subseteq Words
    BY <1>2, <1>6, <2>1
  <2>7. ASSUME NEW v \in Words PROVE IsAscending(added'[v]) /\ (added'[v] # <<>> => v \in DOMAIN less)
    <3>1. CASE v = word
      BY <1>3, <1>6, <2>1, <2>2, <3>1
    <3>2. CASE v # word
      BY <1>2, <1>6, <2>1, <2>2, <3>2
    <3>. QED
      BY <3>1, <3>2
  <2>. QED
    BY <2>1, <2>4, <2>5, <2>6, <2>7 DEF IsConsistent
<1>. QED
  BY <1>13, <1>14 DEF StoreIsConsistent

\* The store stays consistent, whatever is added and moved, until a list that moves is taken
\* for that of another word.
THEOREM StoreStaysConsistent == SpecPostings => []StoreIsConsistent
<1>1. InitPostings => StoreIsConsistent
  BY ConsistentAtFirst
<1>2. StoreIsConsistent /\ [NextPostings]_storeVars => StoreIsConsistent'
  <2>. SUFFICES ASSUME StoreIsConsistent, [NextPostings]_storeVars PROVE StoreIsConsistent'
    OBVIOUS
  <2>1. CASE NextPostings
    <3>1. PICK word \in Words : \/ LookUp(word)
                                \/ \E postings \in Batches(word) : AddPostings(word, postings)
      BY <2>1 DEF NextPostings
    <3>2. PICK chains : IsConsistent(store, chains, added, guessed)
      BY <2>1 DEF NextPostings, StoreIsConsistent
    <3>3. CASE LookUp(word)
      BY <3>2, <3>3, ConsistentAfterLookUp
    <3>4. CASE \E postings \in Batches(word) : AddPostings(word, postings)
      BY <3>2, <3>4, ConsistentAfterAddPostings
    <3>. QED
      BY <3>1, <3>3, <3>4
  <2>2. CASE UNCHANGED storeVars
    <3>1. store' = store /\ added' = added /\ guessed' = guessed /\ misled' = misled
      BY <2>2 DEF storeVars
    <3>. QED
      BY <3>1 DEF StoreIsConsistent
  <2>. QED
    BY <2>1, <2>2
<1>. QED
  BY <1>1, <1>2, PTL DEF SpecPostings

\* What a word that is known reads: the lists of its chain, in order.
LEMMA KnownWord ==
  ASSUME StoreIsConsistent, NEW word \in Known
  PROVE  \E chains :
           LET chain == chains[word]
               lists == Lists(store, word)
           IN  /\ IsTyped(store) /\ AllFit(store) /\ IsAscending(added[word])
               /\ chain \in Seq(Infos) /\ Len(chain) > 0
               /\ Holds(store, chain, added[word])
               /\ Chain(store, store.subBlockIndex[word]) = chain
               /\ lists = [i \in 1..Len(chain) |-> Stored(store, chain[i])]
               /\ Len(lists) = Len(chain)
<1>1. word \in Words \ guessed /\ added[word] # <<>> /\ ~misled
  BY DEF Known
<1>2. PICK chains : IsConsistent(store, chains, added, guessed)
  BY <1>1 DEF StoreIsConsistent
<1>3. /\ IsTyped(store) /\ AllFit(store) /\ IsLayout(store, chains)
      /\ IsAscending(added[word]) /\ word \in DOMAIN chains \ guessed
      /\ Holds(store, chains[word], added[word])
  BY <1>1, <1>2 DEF IsConsistent
<1>. DEFINE chain == chains[word]
            lists == Lists(store, word)
<1>4. /\ IsChain(store, store.subBlockIndex[word], chain) /\ chain \in Seq(Infos)
      /\ Len(chain) \in Nat /\ Len(chain) > 0
  BY <1>3, ChainsAreOwned
<1>5. Chain(store, store.subBlockIndex[word]) = chain
  BY <1>3, <1>4, ChainIs
<1>6. lists = [i \in 1..Len(chain) |-> Stored(store, chain[i])]
  BY <1>5 DEF Lists
<1>. HIDE DEF chain, lists
<1>7. Len(lists) = Len(chain)
  <2>. DEFINE n == Len(chain)
  <2>. HIDE DEF n
  <2>1. n \in Nat /\ lists = [i \in 1..n |-> Stored(store, chain[i])]
    BY <1>4, <1>6 DEF n
  <2>2. Len(lists) = n
    BY <2>1
  <2>. QED
    BY <2>2 DEF n
<1>. QED
  BY <1>3, <1>4, <1>5, <1>6, <1>7 DEF chain, lists

\* No list is written over the sub-block behind its own (Postings.cpp:109, 118, 324).
THEOREM ListsAlwaysFit == SpecPostings => []ListsFitTheirSubBlocks
<1>1. StoreIsConsistent => ListsFitTheirSubBlocks
  <2>. SUFFICES ASSUME StoreIsConsistent, NEW word \in Known, NEW i \in 1..Len(Lists(store, word))
                PROVE  GetByteSize(PostingListOf(Lists(store, word)[i]))
                         <= DataSize(Chain(store, store.subBlockIndex[word])[i])
    BY DEF ListsFitTheirSubBlocks
  <2>1. PICK chains : LET chain == chains[word]
                          lists == Lists(store, word)
                      IN  /\ AllFit(store) /\ chain \in Seq(Infos)
                          /\ Chain(store, store.subBlockIndex[word]) = chain
                          /\ lists = [k \in 1..Len(chain) |-> Stored(store, chain[k])]
                          /\ Len(lists) = Len(chain)
    BY KnownWord
  <2>. DEFINE chain == chains[word]
              lists == Lists(store, word)
  <2>2. /\ AllFit(store) /\ chain \in Seq(Infos) /\ Chain(store, store.subBlockIndex[word]) = chain
        /\ lists = [k \in 1..Len(chain) |-> Stored(store, chain[k])] /\ i \in 1..Len(chain)
    BY <2>1
  <2>. HIDE DEF chain, lists
  <2>3. lists[i] = Stored(store, chain[i]) /\ chain[i] \in Infos
    BY <2>2
  <2>4. GetByteSize(PostingListOf(lists[i])) <= DataSize(chain[i])
    BY <2>2, <2>3 DEF AllFit
  <2>. QED
    BY <2>2, <2>4 DEF lists
<1>. QED
  BY <1>1, StoreStaysConsistent, PTL

\* Nothing of a list is lost, doubled or given to another word when it is written in place,
\* moved to a larger sub-block, split over blocks or moved into a hole (Postings.cpp:202, 371).
THEOREM PostingsAreKept == SpecPostings => []WordsKeepTheirPostings
<1>1. StoreIsConsistent => WordsKeepTheirPostings
  <2>. SUFFICES ASSUME StoreIsConsistent, NEW word \in Known
                PROVE  LET lists == Lists(store, word)
                       IN  Sums(Joined([i \in 1..Len(lists) |-> lists[i].posts])) = added[word]
    BY DEF WordsKeepTheirPostings
  <2>. DEFINE lists == Lists(store, word)
              a == added[word]
  <2>1. PICK chains : LET chain == chains[word]
                      IN  /\ IsAscending(a) /\ Holds(store, chain, a)
                          /\ lists = [k \in 1..Len(chain) |-> Stored(store, chain[k])]
                          /\ Len(lists) = Len(chain)
    BY KnownWord
  <2>. DEFINE chain == chains[word]
  <2>2. [i \in 1..Len(lists) |-> lists[i].posts] = StoredPosts(store, chain)
    <3>1. Len(lists) = Len(chain) /\ lists = [k \in 1..Len(chain) |-> Stored(store, chain[k])]
      BY <2>1
    <3>. HIDE DEF lists, chain
    <3>. QED
      BY <3>1 DEF StoredPosts
  <2>3. Joined(StoredPosts(store, chain)) = Differences(a, 0) /\ a \in Seq(Int)
    BY <2>1 DEF Holds, IsAscending
  <2>. HIDE DEF lists, a, chain
  <2>4. Sums(Differences(a, 0)) = a
    BY <2>3, SumsOfDifferences
  <2>5. Sums(Joined([i \in 1..Len(lists) |-> lists[i].posts])) = a
    BY <2>2, <2>3, <2>4
  <2>. QED
    BY <2>5 DEF lists, a
<1>. QED
  BY <1>1, StoreStaysConsistent, PTL

(***************************************************************************)
(* Reading a list: on and on, and from a location.                         *)
(***************************************************************************)
\* The next posting is read.
ReadOn(stored, r) ==
  LET got == GetPosting(stored, r.reader, 0)
  IN  [reader |-> got.reader, postings |-> Append(r.postings, got.posting)]

ReadsOn(stored, n, last, postings, p) ==
  ReadOn(stored, [reader |-> [next |-> n, last |-> last], postings |-> postings])
    = [reader |-> [next |-> n + 1, last |-> p], postings |-> Append(postings, p)]

LEMMA ReadOnIs ==
  ASSUME NEW stored, NEW a \in Seq(Int), stored.posts = Differences(a, 0), NEW n \in 1..Len(a),
         NEW last, last = IF n = 1 THEN 0 ELSE a[n - 1], NEW postings
  PROVE  ReadsOn(stored, n, last, postings, a[n])
<1>. DEFINE reader == [next |-> n, last |-> last]
            d == stored.posts
            N == Len(a)
<1>1. /\ N \in Nat /\ Len(d) = N /\ d[n] = a[n] - last /\ a[n] \in Int /\ last \in Int
  <2>1. /\ N \in Nat /\ Len(d) = N /\ d[n] = a[n] - IF n = 1 THEN 0 ELSE a[n - 1]
    BY DifferencesType DEF AreDifferences
  <2>2. \A i \in 1..N : a[i] \in Int
    OBVIOUS
  <2>3. n # 1 => n - 1 \in 1..N
    BY <2>1
  <2>4. a[n] \in Int /\ last \in Int
    BY <2>2, <2>3
  <2>. QED
    BY <2>1, <2>4
<1>2. reader.next = n /\ reader.last = last
  OBVIOUS
<1>. HIDE DEF d, N, reader
<1>3. last + d[n] = a[n] /\ ~(n > Len(d))
  BY <1>1 DEF N
<1>4. GetPosting(stored, reader, 0) = [reader |-> [next |-> n + 1, last |-> a[n]], posting |-> a[n]]
  BY <1>2, <1>3 DEF GetPosting, GetNextPosting, d
<1>. DEFINE r == [reader |-> reader, postings |-> postings]
<1>5. r.reader = reader /\ r.postings = postings
  OBVIOUS
<1>. DEFINE got == GetPosting(stored, r.reader, 0)
            on == [next |-> n + 1, last |-> a[n]]
<1>6. got.reader = on /\ got.posting = a[n]
  <2>. HIDE DEF r, on
  <2>1. got = [reader |-> on, posting |-> a[n]]
    BY <1>4, <1>5, Zenon DEF on
  <2>. HIDE DEF got
  <2>. QED
    BY <2>1
<1>7. ReadOn(stored, r) = [reader |-> got.reader, postings |-> Append(r.postings, got.posting)]
  BY Zenon DEF ReadOn
<1>. HIDE DEF r, got, on
<1>8. ReadOn(stored, r) = [reader |-> on, postings |-> Append(postings, a[n])]
  BY <1>5, <1>6, <1>7
<1>. QED
  BY <1>8, Zenon DEF ReadsOn, r, reader, on

\* Every posting is read, in order.
LEMMA EveryPostingIsRead ==
  ASSUME NEW stored, NEW a \in Seq(Int), stored.posts = Differences(a, 0)
  PROVE  ReadToTheEnd(stored) = a
<1>. DEFINE N == Len(a)
            d == stored.posts
            read[n \in 0..Len(stored.posts)] ==
              IF n = 0 THEN [reader |-> NewReader, postings |-> <<>>] ELSE ReadOn(stored, read[n - 1])
            f == [n \in 0..N |-> [reader |-> [next |-> n + 1, last |-> IF n = 0 THEN 0 ELSE a[n]],
                                  postings |-> SubSeq(a, 1, n)]]
            start == [reader |-> NewReader, postings |-> <<>>]
<1>1. N \in Nat /\ Len(d) = N
  BY DifferencesType DEF AreDifferences
<1>2. ReadToTheEnd(stored) = read[Len(stored.posts)].postings
  BY Zenon DEF ReadToTheEnd, ReadOn
<1>3. f[0] = start
  <2>1. 0 \in 0..N /\ SubSeq(a, 1, 0) = <<>>
    BY <1>1
  <2>. QED
    BY <2>1 DEF NewReader
<1>4. ASSUME NEW n \in 1..N PROVE f[n] = ReadOn(stored, f[n - 1])
  <2>. DEFINE last == IF n = 1 THEN 0 ELSE a[n - 1]
              postings == SubSeq(a, 1, n - 1)
  <2>1. n \in 0..N /\ n - 1 \in 0..N /\ n # 0 /\ (n - 1) + 1 = n /\ (n - 1 = 0 <=> n = 1)
    BY <1>1
  <2>2. f[n - 1] = [reader |-> [next |-> n, last |-> last], postings |-> postings]
    BY <2>1
  <2>3. f[n] = [reader |-> [next |-> n + 1, last |-> a[n]], postings |-> SubSeq(a, 1, n)]
    BY <2>1
  <2>4. SubSeq(a, 1, n) = Append(postings, a[n])
    BY <1>1
  <2>6. last = IF n = 1 THEN 0 ELSE a[n - 1]
    OBVIOUS
  <2>. HIDE DEF last, postings, f
  <2>5. ReadsOn(stored, n, last, postings, a[n])
    BY <2>6, ReadOnIs
  <2>. QED
    BY <2>2, <2>3, <2>4, <2>5 DEF ReadsOn
<1>5. f[N].postings = a
  <2>1. N \in 0..N
    BY <1>1
  <2>2. SubSeq(a, 1, N) = a
    BY <1>1
  <2>. QED
    BY <2>1, <2>2
<1>6. DOMAIN f = 0..N
  OBVIOUS
<1>8. f = [n \in 0..N |-> f[n]]
  OBVIOUS
<1>. HIDE DEF f
<1>7. \A n \in 0..N : f[n] = IF n = 0 THEN start ELSE ReadOn(stored, f[n - 1])
  <2>. HIDE DEF N, start
  <2>. QED
    BY <1>1, <1>3, <1>4
<1>9. f = [n \in 0..N |-> IF n = 0 THEN start ELSE ReadOn(stored, f[n - 1])]
  BY <1>7, <1>8
<1>10. Len(stored.posts) = N
  BY <1>1
<1>. HIDE DEF N, d
<1>11. read = [n \in 0..N |-> IF n = 0 THEN start ELSE ReadOn(stored, read[n - 1])]
  BY <1>9, <1>10, Zenon
<1>. HIDE DEF read, start
<1>12. \A n \in 0..N : read[n] = IF n = 0 THEN start ELSE ReadOn(stored, read[n - 1])
  BY <1>11, Zenon
<1>. DEFINE T == {n \in 0..N : read[n] = f[n]}
<1>13. 0 \in T
  BY <1>1, <1>3, <1>12
<1>14. ASSUME NEW n \in 1..N, n - 1 \in T PROVE n \in T
  <2>1. n \in 0..N /\ n # 0
    BY <1>1
  <2>2. read[n] = ReadOn(stored, read[n - 1]) /\ read[n - 1] = f[n - 1]
    BY <1>12, <1>14, <2>1
  <2>. QED
    BY <1>4, <2>1, <2>2
<1>. HIDE DEF T
<1>15. 0..N \subseteq T
  BY <1>1, <1>13, <1>14, UpToBound
<1>16. read[N] = f[N]
  BY <1>1, <1>15 DEF T
<1>. QED
  BY <1>2, <1>5, <1>10, <1>16

LEMMA BucketsGrow ==
  ASSUME NEW p \in Nat, NEW q \in Nat, p <= q
  PROVE  Bucket(p) \in Nat /\ Bucket(q) \in Nat /\ Bucket(p) <= Bucket(q)
<1>. DEFINE b == BucketSize
            c == p \div b
            d == q \div b
<1>1. b \in Nat /\ b > 0
  BY SizesAssumption
<1>2. c \in Nat /\ d \in Nat
  BY <1>1
<1>3. b * c <= p /\ q < b * d + b
  BY <1>1
<1>. HIDE DEF c, d
<1>4. ASSUME c > d PROVE FALSE
  <2>1. c - d - 1 \in Nat /\ b * (c - d - 1) >= 0
    BY <1>1, <1>2, <1>4
  <2>2. b * (c - d - 1) = b * c - b * d - b
    BY <1>1, <1>2
  <2>3. b * c \in Int /\ b * d \in Int
    BY <1>1, <1>2
  <2>. DEFINE x == b * c
              y == b * d
  <2>. HIDE DEF x, y
  <2>4. x - y - b >= 0 /\ x <= p /\ q < y + b /\ x \in Int /\ y \in Int
    BY <1>3, <2>1, <2>2, <2>3 DEF x, y
  <2>. QED
    BY <1>1, <2>4
<1>. QED
  BY <1>2, <1>4 DEF Bucket, c, d

\* The first posting of the bucket of a location; what is not before the location is not
\* before that posting.
IsFirstOfBucket(a, location, o) ==
  /\ o \in 1..Len(a) /\ Starts(a, o) /\ Bucket(a[o]) = Bucket(location)
  /\ \A i \in 1..Len(a) : Starts(a, i) /\ Bucket(a[i]) = Bucket(location) => i = o
  /\ \A i \in 1..Len(a) : location <= a[i] => o <= i

LEMMA FirstOfBucket ==
  ASSUME NEW a, IsAscending(a), NEW location \in Nat, NEW k \in 1..Len(a),
         Bucket(a[k]) = Bucket(location)
  PROVE  \E o : IsFirstOfBucket(a, location, o)
<1>. DEFINE n == Len(a)
            b == Bucket(location)
            T == {i \in 1..n : Bucket(a[i]) = b}
<1>1. n \in Nat /\ \A i \in 1..n : a[i] \in Nat
  BY DEF IsAscending
<1>2. b \in Nat /\ \A i \in 1..n : Bucket(a[i]) \in Nat
  <2>1. ASSUME NEW p \in Nat PROVE Bucket(p) \in Nat
    <3>1. p <= p
      OBVIOUS
    <3>. QED
      BY <3>1, BucketsGrow
  <2>. QED
    BY <1>1, <2>1
<1>3. ASSUME NEW i \in 1..n, NEW j \in 1..n, i <= j PROVE Bucket(a[i]) <= Bucket(a[j])
  <2>1. i = j \/ i < j
    BY <1>1, <1>3
  <2>2. a[i] <= a[j]
    BY <1>1, <2>1 DEF IsAscending
  <2>. QED
    BY <1>1, <2>2, BucketsGrow
<1>4. k \in T /\ T \in SUBSET Nat
  BY <1>1
<1>. HIDE DEF T
<1>5. PICK o \in T : \A i \in T : o <= i
  BY <1>4, LeastElement
<1>6. o \in 1..n /\ Bucket(a[o]) = b
  BY DEF T
<1>7. \A i \in 1..n : Bucket(a[i]) = b => o <= i
  BY <1>5 DEF T
<1>8. Starts(a, o)
  <2>1. CASE o = 1
    BY <2>1 DEF Starts
  <2>2. CASE o # 1
    <3>1. o - 1 \in 1..n /\ o - 1 <= o /\ ~(o <= o - 1)
      BY <1>1, <1>6, <2>2
    <3>2. Bucket(a[o - 1]) # b /\ Bucket(a[o - 1]) <= Bucket(a[o])
      BY <1>3, <1>6, <1>7, <3>1
    <3>. QED
      BY <1>2, <1>6, <3>1, <3>2 DEF Starts
  <2>. QED
    BY <2>1, <2>2
<1>9. ASSUME NEW i \in 1..n, Starts(a, i), Bucket(a[i]) = b PROVE i = o
  <2>1. o <= i
    BY <1>7, <1>9
  <2>2. ASSUME i # o PROVE FALSE
    <3>1. i - 1 \in 1..n /\ o <= i - 1 /\ i # 1
      BY <1>1, <1>6, <2>1, <2>2
    <3>2. Bucket(a[i]) > Bucket(a[i - 1])
      BY <1>9, <3>1 DEF Starts
    <3>3. Bucket(a[o]) <= Bucket(a[i - 1])
      BY <1>3, <1>6, <3>1
    <3>. QED
      BY <1>2, <1>6, <1>9, <3>1, <3>2, <3>3
  <2>. QED
    BY <2>2
<1>10. ASSUME NEW i \in 1..n, location <= a[i] PROVE o <= i
  <2>1. b <= Bucket(a[i])
    BY <1>1, <1>10, BucketsGrow
  <2>2. ASSUME i < o PROVE FALSE
    <3>1. o # 1 /\ o - 1 \in 1..n /\ i <= o - 1
      BY <1>1, <1>6, <2>2
    <3>2. Bucket(a[i]) <= Bucket(a[o - 1]) /\ Bucket(a[o - 1]) < Bucket(a[o])
      BY <1>3, <1>8, <3>1 DEF Starts
    <3>. QED
      BY <1>2, <1>6, <2>1, <3>1, <3>2
  <2>. QED
    BY <1>1, <1>6, <2>2
<1>. HIDE DEF b
<1>11. IsFirstOfBucket(a, location, o)
  BY <1>6, <1>8, <1>9, <1>10 DEF IsFirstOfBucket, b
<1>. QED
  BY <1>11

\* The entry a search starts from, and the postings it goes through.
IsTheEntry(index, entries, e) ==
  entries # {} /\ index[CHOOSE i \in entries : \A j \in entries : i <= j] = e

LEMMA EntryIs ==
  ASSUME NEW index, Len(index) \in Nat, NEW a, Len(a) \in Nat, ElementsOf(index) = IndexOf(a, Len(a)),
         NEW location, NEW o, IsFirstOfBucket(a, location, o), NEW entries,
         entries = {i \in 1..Len(index) : Bucket(index[i][1]) = Bucket(location)}
  PROVE  IsTheEntry(index, entries, <<a[o], o - 1>>)
<1>. DEFINE e == <<a[o], o - 1>>
            least == CHOOSE i \in entries : \A j \in entries : i <= j
<1>1. e[1] = a[o]
  OBVIOUS
<1>2. e \in IndexOf(a, Len(a))
  BY DEF IndexOf, IsFirstOfBucket
<1>3. PICK k \in 1..Len(index) : index[k] = e
  BY <1>2 DEF ElementsOf
<1>. HIDE DEF e
<1>4. k \in entries
  BY <1>1, <1>3 DEF IsFirstOfBucket
<1>5. ASSUME NEW i \in entries PROVE index[i] = e
  <2>1. i \in 1..Len(index) /\ Bucket(index[i][1]) = Bucket(location)
    OBVIOUS
  <2>2. index[i] \in IndexOf(a, Len(a))
    BY <2>1 DEF ElementsOf
  <2>3. PICK p \in 1..Len(a) : Starts(a, p) /\ index[i] = <<a[p], p - 1>>
    BY <2>2 DEF IndexOf
  <2>4. index[i][1] = a[p]
    BY <2>3
  <2>5. p = o
    BY <2>1, <2>3, <2>4 DEF IsFirstOfBucket
  <2>. QED
    BY <2>3, <2>5 DEF e
<1>6. entries \in SUBSET Nat
  OBVIOUS
<1>7. \E i \in entries : \A j \in entries : i <= j
  <2>1. entries # {}
    BY <1>4
  <2>. QED
    BY <1>6, <2>1, LeastElement
<1>8. least \in entries
  BY <1>7
<1>9. entries # {} /\ index[least] = e
  BY <1>4, <1>5, <1>8
<1>. QED
  BY <1>9, Zenon DEF e, IsTheEntry

\* What a search finds: the first posting that is not before the location.
IsFirstFrom(a, location, h) ==
  /\ h \in 1..Len(a) /\ location <= a[h]
  /\ \A i \in 1..Len(a) : location <= a[i] => h <= i

IsAnswer(posting, a, location) ==
  /\ (\A i \in 1..Len(a) : ~(location <= a[i])) => posting = 0
  /\ \A h : IsFirstFrom(a, location, h) => posting = a[h]

LEMMA SeekIs ==
  ASSUME NEW stored, NEW a, IsAscending(a), stored.posts = Differences(a, 0),
         Len(stored.index) \in Nat, ElementsOf(stored.index) = IndexOf(a, Len(a)),
         NEW location \in Nat, NEW k \in 1..Len(a), Bucket(a[k]) = Bucket(location)
  PROVE  IsAnswer(SeekPosting(stored, NewReader, location).posting, a, location)
<1>. DEFINE N == Len(a)
            d == stored.posts
            entries == {i \in 1..Len(stored.index) : Bucket(stored.index[i][1]) = Bucket(location)}
            entry   == stored.index[CHOOSE i \in entries : \A j \in entries : i <= j]
            from    == entry[2] + 1
            count   == Len(stored.posts)
            at[i \in 0..count] == IF i <= from THEN entry[1] ELSE at[i - 1] + stored.posts[i]
            hits    == {i \in from..count : at[i] >= location}
            hit     == CHOOSE i \in hits : \A j \in hits : i <= j
            got     == SeekPosting(stored, NewReader, location)
<1>1. PICK o : IsFirstOfBucket(a, location, o)
  BY FirstOfBucket
<1>2. N \in Nat /\ Len(d) = N /\ \A i \in 1..N : a[i] \in Nat /\ (i # 1 => d[i] = a[i] - a[i - 1])
  <2>1. a \in Seq(Int) /\ N \in Nat /\ \A i \in 1..N : a[i] \in Nat
    BY DEF IsAscending
  <2>2. Len(d) = N /\ \A i \in 1..N : d[i] = a[i] - IF i = 1 THEN 0 ELSE a[i - 1]
    BY <2>1, DifferencesType DEF AreDifferences
  <2>. QED
    BY <2>1, <2>2
<1>3. entries # {} /\ entry = <<a[o], o - 1>>
  <2>. DEFINE index == stored.index
  <2>1. entries = {i \in 1..Len(index) : Bucket(index[i][1]) = Bucket(location)}
    OBVIOUS
  <2>2. Len(index) \in Nat /\ ElementsOf(index) = IndexOf(a, Len(a)) /\ Len(a) \in Nat
    BY <1>2
  <2>. HIDE DEF index, entries
  <2>3. IsTheEntry(index, entries, <<a[o], o - 1>>)
    BY <1>1, <2>1, <2>2, EntryIs
  <2>. QED
    BY <2>3, Zenon DEF IsTheEntry, index
<1>4. o \in 1..N /\ \A i \in 1..N : location <= a[i] => o <= i
  BY <1>1 DEF IsFirstOfBucket
<1>5. entry[1] = a[o] /\ from = o
  <2>. HIDE DEF entry
  <2>. QED
    BY <1>2, <1>3, <1>4
<1>6. /\ entries # {} /\ hits = {} => got.posting = 0
      /\ entries # {} /\ hits # {} => got.posting = at[hit]
  <2>1. got = CASE entries = {} -> [reader |-> NewReader, posting |-> 0]
                [] entries # {} /\ hits = {} ->
                     [reader |-> [next |-> count + 1, last |-> at[count]], posting |-> 0]
                [] OTHER -> [reader |-> [next |-> hit + 1, last |-> at[hit]], posting |-> at[hit]]
    BY Zenon DEF SeekPosting
  <2>. HIDE DEF got, entries, hits, at, count, hit
  <2>2. CASE entries # {} /\ hits = {}
    BY <2>1, <2>2
  <2>3. CASE entries # {} /\ hits # {}
    BY <2>1, <2>3
  <2>. QED
    BY <2>2, <2>3
<1>7. count = N
  BY <1>2
<1>. DEFINE f == [i \in 0..N |-> IF i <= o THEN a[o] ELSE a[i]]
<1>8. \A i \in 0..N : f[i] = IF i <= o THEN a[o] ELSE f[i - 1] + d[i]
  <2>. SUFFICES ASSUME NEW i \in 0..N PROVE f[i] = IF i <= o THEN a[o] ELSE f[i - 1] + d[i]
    OBVIOUS
  <2>. HIDE DEF d, N
  <2>1. CASE i <= o
    BY <2>1
  <2>2. CASE ~(i <= o)
    <3>1. i \in 1..N /\ i - 1 \in 0..N /\ i # 1 /\ i - 1 \in 1..N
      BY <1>2, <1>4, <2>2
    <3>2. f[i - 1] = a[i - 1]
      <4>1. i - 1 <= o => i - 1 = o
        BY <1>2, <1>4, <2>2
      <4>. QED
        BY <3>1, <4>1
    <3>3. f[i] = a[i]
      BY <2>2
    <3>4. d[i] = a[i] - a[i - 1] /\ a[i] \in Nat /\ a[i - 1] \in Nat
      BY <1>2, <3>1
    <3>. HIDE DEF f
    <3>. QED
      BY <2>2, <3>2, <3>3, <3>4
  <2>. QED
    BY <2>1, <2>2
<1>9. \A i \in o..N : f[i] = a[i]
  BY <1>2, <1>4
<1>10. f = [i \in 0..N |-> f[i]]
  OBVIOUS
<1>. HIDE DEF f
<1>11. f = [i \in 0..N |-> IF i <= o THEN a[o] ELSE f[i - 1] + d[i]]
  BY <1>8, <1>10
<1>. HIDE DEF N, entry, from, entries
<1>12. f = [i \in 0..count |-> IF i <= from THEN entry[1] ELSE f[i - 1] + d[i]]
  BY <1>5, <1>7, <1>11, Zenon
<1>. HIDE DEF count
<1>13. at = [i \in 0..count |-> IF i <= from THEN entry[1] ELSE at[i - 1] + stored.posts[i]]
  BY <1>12, Zenon DEF d
<1>. HIDE DEF at, d
<1>14. \A i \in 0..N : at[i] = IF i <= o THEN a[o] ELSE at[i - 1] + d[i]
  BY <1>5, <1>7, <1>13, Zenon DEF d
<1>. DEFINE T == {i \in 0..N : at[i] = f[i]}
<1>15. 0 \in T
  <2>1. 0 \in 0..N /\ 0 <= o
    BY <1>2, <1>4
  <2>. QED
    BY <1>8, <1>14, <2>1
<1>16. ASSUME NEW i \in 1..N, i - 1 \in T PROVE i \in T
  <2>1. i \in 0..N
    BY <1>2
  <2>2. at[i - 1] = f[i - 1]
    BY <1>16
  <2>. QED
    BY <1>8, <1>14, <2>1, <2>2
<1>. HIDE DEF T
<1>17. 0..N \subseteq T
  BY <1>2, <1>15, <1>16, UpToBound
<1>18. \A i \in o..N : at[i] = a[i]
  <2>1. \A i \in o..N : i \in 0..N
    BY <1>2, <1>4
  <2>. QED
    BY <1>9, <1>17, <2>1 DEF T
<1>19. hits = {i \in o..N : a[i] >= location}
  BY <1>5, <1>7, <1>18
<1>. HIDE DEF hits
<1>20. \A i : i \in hits <=> i \in 1..N /\ location <= a[i]
  BY <1>2, <1>4, <1>19
<1>21. (\A i \in 1..N : ~(location <= a[i])) => got.posting = 0
  BY <1>3, <1>6, <1>20
<1>22. ASSUME NEW h, IsFirstFrom(a, location, h) PROVE got.posting = a[h]
  <2>1. h \in hits /\ \A i \in hits : h <= i
    BY <1>20, <1>22 DEF IsFirstFrom, N
  <2>2. hits \subseteq 1..N
    BY <1>20
  <2>3. hit \in hits /\ \A i \in hits : hit <= i
    BY <2>1
  <2>. HIDE DEF hit
  <2>4. hit = h
    <3>1. hit <= h /\ h <= hit /\ hit \in Nat /\ h \in Nat
      BY <1>2, <2>1, <2>2, <2>3
    <3>. QED
      BY <3>1
  <2>5. at[h] = a[h]
    <3>1. h \in o..N
      BY <1>19, <2>1
    <3>. QED
      BY <1>18, <3>1
  <2>6. got.posting = at[hit]
    BY <1>3, <1>6, <2>1
  <2>. QED
    BY <2>4, <2>5, <2>6
<1>. HIDE DEF got
<1>23. IsAnswer(got.posting, a, location)
  BY <1>21, <1>22 DEF IsAnswer, N
<1>. QED
  BY <1>23 DEF got

\* The least of a set of postings, 0 if there is none.
LeastOr0(later) == IF later = {} THEN 0 ELSE CHOOSE p \in later : \A q \in later : p <= q

LEMMA LeastLater ==
  ASSUME NEW a, IsAscending(a), NEW location \in Nat, NEW posting, IsAnswer(posting, a, location)
  PROVE  posting = LeastOr0({p \in {a[i] : i \in 1..Len(a)} : p >= location})
<1>. DEFINE N == Len(a)
            later == {p \in {a[i] : i \in 1..N} : p >= location}
            from == {i \in 1..N : location <= a[i]}
<1>1. /\ N \in Nat /\ \A i \in 1..N : a[i] \in Nat
      /\ \A i, j \in 1..N : i < j => a[i] < a[j]
  BY DEF IsAscending
<1>2. CASE later = {}
  <2>1. \A i \in 1..N : ~(location <= a[i])
    BY <1>1, <1>2
  <2>2. posting = 0
    BY <2>1 DEF IsAnswer
  <2>. HIDE DEF later
  <2>3. posting = LeastOr0(later)
    BY <1>2, <2>2 DEF LeastOr0
  <2>. QED
    BY <2>3 DEF later
<1>3. CASE later # {}
  <2>1. from # {} /\ from \in SUBSET Nat
    BY <1>1, <1>3
  <2>2. PICK h \in from : \A i \in from : h <= i
    BY <2>1, LeastElement
  <2>3. IsFirstFrom(a, location, h)
    BY <2>2 DEF IsFirstFrom
  <2>4. posting = a[h]
    BY <2>3 DEF IsAnswer
  <2>5. a[h] \in later /\ h \in 1..N
    BY <1>1, <2>2
  <2>6. \A q \in later : a[h] <= q
    <3>. SUFFICES ASSUME NEW q \in later PROVE a[h] <= q
      OBVIOUS
    <3>1. PICK i \in 1..N : q = a[i] /\ location <= a[i]
      BY <1>1
    <3>2. h <= i
      BY <2>2, <3>1
    <3>3. h = i \/ h < i
      BY <1>1, <2>5, <3>2
    <3>. QED
      BY <1>1, <2>5, <3>1, <3>3
  <2>7. later \subseteq Nat
    BY <1>1
  <2>. HIDE DEF later
  <2>. DEFINE least == CHOOSE p \in later : \A q \in later : p <= q
  <2>8. least \in later /\ \A q \in later : least <= q
    BY <2>5, <2>6
  <2>9. LeastOr0(later) = least
    BY <1>3, Zenon DEF LeastOr0
  <2>. HIDE DEF least
  <2>10. least = a[h]
    <3>1. least <= a[h] /\ a[h] <= least /\ least \in Nat /\ a[h] \in Nat
      BY <2>5, <2>6, <2>7, <2>8
    <3>. QED
      BY <3>1
  <2>11. posting = LeastOr0(later)
    BY <2>4, <2>9, <2>10
  <2>. QED
    BY <2>11 DEF later
<1>. QED
  BY <1>2, <1>3

\* The list of a word of one block: its differences are those of the postings of the word,
\* and its entries are theirs.
LEMMA OneBlockWord ==
  ASSUME StoreIsConsistent, NEW word \in Known, Len(Lists(store, word)) = 1
  PROVE  \E stored :
           /\ Lists(store, word) = <<stored>>
           /\ IsAscending(added[word]) /\ stored.posts = Differences(added[word], 0)
           /\ Len(stored.index) \in Nat
           /\ ElementsOf(stored.index) = IndexOf(added[word], Len(added[word]))
<1>. DEFINE a == added[word]
            lists == Lists(store, word)
<1>1. PICK chains : LET chain == chains[word]
                    IN  /\ IsTyped(store) /\ IsAscending(a)
                        /\ chain \in Seq(Infos) /\ Len(chain) > 0
                        /\ Holds(store, chain, a)
                        /\ lists = [i \in 1..Len(chain) |-> Stored(store, chain[i])]
                        /\ Len(lists) = Len(chain)
  BY KnownWord
<1>. DEFINE chain == chains[word]
            stored == Stored(store, chain[1])
<1>2. /\ IsTyped(store) /\ IsAscending(a) /\ chain \in Seq(Infos) /\ Holds(store, chain, a)
      /\ lists = [i \in 1..Len(chain) |-> Stored(store, chain[i])] /\ Len(chain) = 1
  BY <1>1
<1>. HIDE DEF a, chain, lists
<1>3. lists = <<stored>> /\ chain[1] \in Infos
  BY <1>2
<1>4. IsStored(stored)
  BY <1>2, StoredIsStored
<1>5. StoredPosts(store, chain) = <<stored.posts>>
  BY <1>2 DEF StoredPosts
<1>6. stored.posts \in Seq(Int) /\ Len(stored.index) \in Nat
  BY <1>4 DEF IsStored
<1>7. Joined(StoredPosts(store, chain)) = stored.posts
  BY <1>5, <1>6, JoinedOne
<1>8. stored.posts = Differences(a, 0) /\ ElementsOf(stored.index) = IndexOf(a, Len(a))
  BY <1>2, <1>7 DEF Holds
<1>. HIDE DEF stored
<1>. QED
  BY <1>2, <1>3, <1>6, <1>8 DEF a, lists

\* A word of one block is found from every location whose bucket has a posting of it, and
\* every posting of it is read (PostingList.cpp:68, ISR.cpp:25).
THEOREM OneBlockWordsAlwaysFound == SpecPostings => []OneBlockWordsAreFound
<1>1. StoreIsConsistent => OneBlockWordsAreFound
  <2>. SUFFICES ASSUME StoreIsConsistent, NEW word \in Known, Len(Lists(store, word)) = 1
                PROVE  LET lists == Lists(store, word)
                           has   == {added[word][i] : i \in 1..Len(added[word])}
                       IN  /\ Instances(lists) = added[word]
                           /\ \A location \in 1..MaxPosting :
                                LET later == {p \in has : p >= location}
                                IN  (\E p \in has : Bucket(p) = Bucket(location)) =>
                                      SeekToLocation(lists, location) =
                                        IF later = {} THEN 0
                                        ELSE CHOOSE p \in later : \A q \in later : p <= q
    BY DEF OneBlockWordsAreFound
  <2>. DEFINE a == added[word]
              lists == Lists(store, word)
              has == {a[i] : i \in 1..Len(a)}
  <2>1. PICK stored : /\ lists = <<stored>>
                      /\ IsAscending(a) /\ stored.posts = Differences(a, 0)
                      /\ Len(stored.index) \in Nat
                      /\ ElementsOf(stored.index) = IndexOf(a, Len(a))
    BY OneBlockWord
  <2>. HIDE DEF lists, a
  <2>2. a \in Seq(Int)
    BY <2>1 DEF IsAscending
  <2>3. Instances(lists) = a
    <3>1. [i \in 1..Len(lists) |-> ReadToTheEnd(lists[i])] = <<ReadToTheEnd(stored)>>
      BY <2>1
    <3>2. ReadToTheEnd(stored) = a
      BY <2>1, <2>2, EveryPostingIsRead
    <3>. QED
      BY <2>2, <3>1, <3>2, JoinedOne DEF Instances
  <2>4. ASSUME NEW location \in 1..MaxPosting, NEW k \in 1..Len(a), Bucket(a[k]) = Bucket(location)
        PROVE  LET later == {p \in has : p >= location}
               IN  SeekToLocation(lists, location) =
                     IF later = {} THEN 0 ELSE CHOOSE p \in later : \A q \in later : p <= q
    <3>. DEFINE posting == SeekPosting(stored, NewReader, location).posting
                Answer(i) == GetPosting(lists[i], NewReader, location).posting
                answers   == {i \in 1..Len(lists) : Answer(i) # 0}
    <3>1. location \in Nat /\ location # 0
      BY BatchesAssumption
    <3>2. IsAnswer(posting, a, location)
      BY <2>1, <2>4, <3>1, SeekIs
    <3>3. Len(lists) = 1 /\ lists[1] = stored
      BY <2>1
    <3>4. Answer(1) = posting
      BY <3>1, <3>3 DEF GetPosting
    <3>5. SeekToLocation(lists, location) =
            IF answers = {} THEN 0 ELSE Answer(CHOOSE i \in answers : \A j \in answers : i <= j)
      BY Zenon DEF SeekToLocation
    <3>. HIDE DEF posting, Answer
    <3>6. answers = IF posting = 0 THEN {} ELSE {1}
      BY <3>3, <3>4
    <3>. HIDE DEF answers
    <3>7. SeekToLocation(lists, location) = posting
      <4>1. CASE posting = 0
        BY <3>5, <3>6, <4>1
      <4>2. CASE posting # 0
        <5>1. answers = {1}
          BY <3>6, <4>2
        <5>2. (CHOOSE i \in answers : \A j \in answers : i <= j) = 1
          BY <5>1
        <5>. QED
          BY <3>4, <3>5, <5>1, <5>2
      <4>. QED
        BY <4>1, <4>2
    <3>8. posting = LeastOr0({p \in {a[i] : i \in 1..Len(a)} : p >= location})
      BY <2>1, <3>1, <3>2, LeastLater
    <3>. QED
      BY <3>7, <3>8, Zenon DEF LeastOr0, has
  <2>. QED
    BY <2>3, <2>4 DEF lists, a
<1>. QED
  BY <1>1, StoreStaysConsistent, PTL
=============================================================================
