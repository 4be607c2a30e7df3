--------------------------- MODULE IndexStoreProofs ---------------------------
(***************************************************************************)
(* The hash map for any keys, values and hash, any capacity to begin with  *)
(* and any load factor below one: as long as nothing is erased, every key  *)
(* has one live bucket, probing finds it, and before the map grows it has  *)
(* the value the key was given last.                                       *)
(***************************************************************************)
EXTENDS PersistentHashMap, Recursion, FiniteSetTheorems, TLAPS

Bucket == [key : Keys, value : Values \union {Default}]
Tables == UNION {[S -> Bucket] : S \in SUBSET Nat}
HashMap == [capacity : Nat, buckets : Tables, filled : SUBSET Nat, ghost : SUBSET Nat,
            numElements : Nat]

(***************************************************************************)
(* A map that holds the keys G.  Every bucket in use has one of them, and  *)
(* each of them has one live bucket.                                       *)
(***************************************************************************)
HoldsTheKeys(m, G) ==
  /\ m \in HashMap /\ m.capacity > 0
  /\ Used(m) \subseteq Buckets(m) /\ Used(m) \subseteq DOMAIN m.buckets
  /\ \A i \in Used(m) : m.buckets[i].key \in G
  /\ \A k \in G : \E i \in Live(m) : m.buckets[i].key = k
  /\ \A i, j \in Live(m) : m.buckets[i].key = m.buckets[j].key => i = j
  /\ m.numElements = Cardinality(Live(m))

\* The buckets of S are where a probe for their keys comes.
AreReached(m, S) == \A i \in S : Reaches(m, m.buckets[i].key, i)

MapFields(m) ==
  /\ m.capacity \in Nat /\ m.filled \subseteq Nat /\ m.ghost \subseteq Nat /\ m.numElements \in Nat
  /\ DOMAIN m.buckets \subseteq Nat /\ \A i \in DOMAIN m.buckets : m.buckets[i] \in Bucket

LEMMA FieldsOfAMap == ASSUME NEW m \in HashMap PROVE MapFields(m)
<1>1. m.buckets \in Tables /\ m.capacity \in Nat /\ m.filled \subseteq Nat /\ m.ghost \subseteq Nat
      /\ m.numElements \in Nat
  BY DEF HashMap
<1>2. PICK S \in SUBSET Nat : m.buckets \in [S -> Bucket]
  BY <1>1 DEF Tables
<1>. QED
  BY <1>1, <1>2 DEF MapFields

LEMMA StartIsABucket ==
  ASSUME NEW m \in HashMap, m.capacity > 0, NEW key \in Keys
  PROVE  Start(m, key) \in Buckets(m)
<1>. DEFINE c == m.capacity
            h == Hash[key]
<1>1. c \in Nat /\ h \in Nat /\ c > 0
  BY MapAssumption DEF HashMap
<1>. HIDE DEF c, h
<1>2. h % c \in 0..c - 1
  BY <1>1
<1>. QED
  BY <1>2 DEF Start, Buckets, c, h

\* A probe finds one of the buckets it looks for, and none before it.
LEMMA NearestIsNearest ==
  ASSUME NEW m \in HashMap, m.capacity > 0, NEW key \in Keys,
         NEW found \in SUBSET Buckets(m), found # {}
  PROVE  /\ Nearest(m, key, found) \in found
         /\ \A j \in found : Distance(m, key, Nearest(m, key, found)) <= Distance(m, key, j)
<1>. DEFINE T == {Distance(m, key, i) : i \in found}
<1>1. \A i \in found : Distance(m, key, i) \in Nat
  <2>1. m.capacity \in Nat /\ Start(m, key) \in 0..m.capacity - 1
    BY StartIsABucket DEF HashMap, Buckets
  <2>. QED
    BY <2>1 DEF Distance, Buckets
<1>2. T \in SUBSET Nat /\ T # {}
  BY <1>1
<1>3. PICK d \in T : \A k \in T : d <= k
  BY <1>2, LeastElement
<1>4. \E i \in found : \A j \in found : Distance(m, key, i) <= Distance(m, key, j)
  BY <1>3
<1>. QED
  BY <1>4 DEF Nearest

\* A spot for a key is not live, and every bucket before it is.
LEMMA SpotIsReached ==
  ASSUME NEW m \in HashMap, m.capacity > 0, NEW key \in Keys, Buckets(m) \ Live(m) # {}
  PROVE  LET spot == ProbeEmptySpotForKey(m, key)
         IN  /\ spot \in Buckets(m) /\ spot \notin Live(m)
             /\ \A j \in (IF spot >= Start(m, key) THEN Start(m, key) ELSE 0)..spot - 1 : j \in Live(m)
<1>. DEFINE spot == ProbeEmptySpotForKey(m, key)
            s == Start(m, key)
            c == m.capacity
            free == Buckets(m) \ Live(m)
<1>1. /\ spot \in free
      /\ \A j \in free : Distance(m, key, spot) <= Distance(m, key, j)
  BY NearestIsNearest DEF ProbeEmptySpotForKey
<1>2. c \in Nat /\ s \in 0..c - 1 /\ spot \in 0..c - 1
  BY <1>1, StartIsABucket DEF HashMap, Buckets
<1>3. \A i : Distance(m, key, i) = IF i >= s THEN i - s ELSE i + c - s
  BY DEF Distance
<1>4. \A j : j \in free <=> j \in 0..c - 1 /\ j \notin Live(m)
  BY DEF Buckets
<1>. HIDE DEF s, c, spot, free
<1>5. ASSUME NEW j \in (IF spot >= s THEN s ELSE 0)..spot - 1, j \notin Live(m) PROVE FALSE
  <2>1. j \in 0..c - 1 /\ j < spot /\ (spot >= s => j >= s)
    BY <1>2, <1>5
  <2>2. (IF spot >= s THEN spot - s ELSE spot + c - s) <= (IF j >= s THEN j - s ELSE j + c - s)
    BY <1>1, <1>3, <1>4, <1>5, <2>1
  <2>. QED
    BY <1>2, <2>1, <2>2
<1>. QED
  BY <1>1, <1>5 DEF s, spot, free

LEMMA InsertedAtIndex ==
  ASSUME NEW m \in HashMap, NEW pair \in Bucket, NEW i \in Nat
  PROVE  LET r == InsertKeyValueAtIndex(m, pair, i)
         IN  /\ r \in HashMap /\ r.capacity = m.capacity /\ r.numElements = m.numElements
             /\ r.filled = m.filled \union {i} /\ r.ghost = m.ghost \ {i}
             /\ DOMAIN r.buckets = DOMAIN m.buckets \union {i} /\ r.buckets[i] = pair
             /\ \A j \in DOMAIN m.buckets \ {i} : r.buckets[j] = m.buckets[j]
<1>. DEFINE table == [j \in DOMAIN m.buckets \union {i} |-> IF j = i THEN pair ELSE m.buckets[j]]
            filled == m.filled \union {i}
            ghost == m.ghost \ {i}
            r == [m EXCEPT !.buckets = table, !.filled = filled, !.ghost = ghost]
<1>1. MapFields(m)
  BY FieldsOfAMap
<1>2. /\ DOMAIN table = DOMAIN m.buckets \union {i} /\ table[i] = pair
      /\ \A j \in DOMAIN m.buckets \ {i} : table[j] = m.buckets[j]
  OBVIOUS
<1>3. table \in Tables
  <2>1. table \in [DOMAIN m.buckets \union {i} -> Bucket]
    BY <1>1 DEF MapFields
  <2>2. DOMAIN m.buckets \union {i} \in SUBSET Nat
    BY <1>1 DEF MapFields
  <2>. HIDE DEF table
  <2>. QED
    BY <2>1, <2>2 DEF Tables
<1>4. filled \subseteq Nat /\ ghost \subseteq Nat
  BY <1>1 DEF MapFields
<1>5. InsertKeyValueAtIndex(m, pair, i) = r
  BY DEF InsertKeyValueAtIndex
<1>. HIDE DEF table, filled, ghost
<1>6. /\ r \in HashMap /\ r.capacity = m.capacity /\ r.numElements = m.numElements
      /\ r.filled = filled /\ r.ghost = ghost /\ r.buckets = table
  BY <1>3, <1>4 DEF HashMap
<1>. HIDE DEF r
<1>. QED
  BY <1>2, <1>5, <1>6 DEF filled, ghost

LEMMA LiveIsCounted ==
  ASSUME NEW m \in HashMap, Live(m) \subseteq Buckets(m)
  PROVE  /\ IsFiniteSet(Live(m)) /\ Cardinality(Live(m)) \in Nat
         /\ Cardinality(Live(m)) <= m.capacity
         /\ Cardinality(Live(m)) < m.capacity => Buckets(m) \ Live(m) # {}
<1>1. m.capacity \in Nat
  BY DEF HashMap
<1>2. IsFiniteSet(Buckets(m)) /\ Cardinality(Buckets(m)) = m.capacity
  <2>. DEFINE c == m.capacity
  <2>1. c \in Nat
    BY <1>1
  <2>. HIDE DEF c
  <2>2. IsFiniteSet(0..c - 1) /\ Cardinality(0..c - 1) = c
    BY <2>1, FS_Interval
  <2>. QED
    BY <2>2 DEF Buckets, c
<1>3. IsFiniteSet(Live(m)) /\ Cardinality(Live(m)) <= Cardinality(Buckets(m))
  BY <1>2, FS_Subset
<1>4. Cardinality(Live(m)) \in Nat
  BY <1>3, FS_CardinalityType
<1>5. Buckets(m) \ Live(m) = {} => Live(m) = Buckets(m)
  OBVIOUS
<1>. QED
  BY <1>1, <1>2, <1>3, <1>4, <1>5

\* What is reached stays reached while buckets come into use.
LEMMA ReachedStaysReached ==
  ASSUME NEW m, NEW r, r.capacity = m.capacity, Used(m) \subseteq Used(r), NEW key, NEW i,
         Reaches(m, key, i)
  PROVE  Reaches(r, key, i)
BY DEF Reaches, Start

\* A key is reached at its spot once the spot is in use.
LEMMA KeyIsReachedAtItsSpot ==
  ASSUME NEW m \in HashMap, m.capacity > 0, NEW key \in Keys, Buckets(m) \ Live(m) # {},
         NEW r, r.capacity = m.capacity, Live(m) \subseteq Used(r),
         ProbeEmptySpotForKey(m, key) \in Used(r)
  PROVE  Reaches(r, key, ProbeEmptySpotForKey(m, key))
<1>. DEFINE spot == ProbeEmptySpotForKey(m, key)
            from == IF spot >= Start(m, key) THEN Start(m, key) ELSE 0
<1>1. spot \in Buckets(m) /\ \A j \in from..spot - 1 : j \in Live(m)
  BY SpotIsReached
<1>2. from \in Int /\ spot \in Int
  BY <1>1, StartIsABucket DEF Buckets, HashMap
<1>3. Start(r, key) = Start(m, key)
  BY DEF Start
<1>. HIDE DEF spot, from
<1>4. from..spot \subseteq Used(r)
  <2>1. spot \in Used(r)
    BY DEF spot
  <2>. QED
    BY <1>1, <1>2, <2>1
<1>. QED
  BY <1>3, <1>4 DEF Reaches, from, spot

(***************************************************************************)
(* Growing.  Once the buckets below n have been visited, the live ones     *)
(* among them and those of the new half are where a probe comes.           *)
(***************************************************************************)
IsGrowing(m, G, old) ==
  HoldsTheKeys(m, G) /\ m.capacity = 2 * old /\ m.numElements <= old

Visited(m, n, old) == {i \in Live(m) : i < n \/ i >= old}

LEMMA MoveBucketKeepsTheKeys ==
  ASSUME NEW G \in SUBSET Keys, NEW old \in Nat, old > 0, NEW m, IsGrowing(m, G, old),
         NEW i \in 0..old - 1
  PROVE  /\ IsGrowing(MoveBucket(m, i), G, old)
         /\ AreReached(m, Visited(m, i, old)) =>
              AreReached(MoveBucket(m, i), Visited(MoveBucket(m, i), i + 1, old))
<1>. DEFINE spot == ProbeEmptySpotForKey(m, m.buckets[i].key)
            filled == m.filled \ {i}
            ghost == m.ghost \union {i}
            gone == [m EXCEPT !.filled = filled, !.ghost = ghost]
            pair == m.buckets[i]
            r == InsertKeyValueAtIndex(gone, pair, spot)
<1>1. MoveBucket(m, i) = IF i \in Live(m) THEN r ELSE m
  BY DEF MoveBucket
<1>2. /\ m \in HashMap /\ MapFields(m) /\ m.capacity > 0
      /\ m.capacity = 2 * old /\ m.numElements <= old
      /\ Live(m) \subseteq Used(m) /\ Used(m) \subseteq Buckets(m) /\ Used(m) \subseteq DOMAIN m.buckets
  BY FieldsOfAMap DEF IsGrowing, HoldsTheKeys, Used, Live
<1>3. /\ \A j \in Used(m) : m.buckets[j].key \in G
      /\ \A k \in G : \E j \in Live(m) : m.buckets[j].key = k
      /\ \A j, l \in Live(m) : m.buckets[j].key = m.buckets[l].key => j = l
      /\ m.numElements = Cardinality(Live(m))
  BY DEF IsGrowing, HoldsTheKeys
<1>4. CASE i \notin Live(m)
  <2>1. MoveBucket(m, i) = m
    BY <1>1, <1>4
  <2>2. \A j \in Live(m) : j \in Int
    BY <1>2 DEF Buckets, MapFields
  <2>3. Visited(m, i + 1, old) \subseteq Visited(m, i, old)
    BY <1>4, <2>2 DEF Visited
  <2>. QED
    BY <2>1, <2>3 DEF AreReached
<1>5. CASE i \in Live(m)
  <2>1. pair \in Bucket /\ pair.key \in Keys
    BY <1>2, <1>3, <1>5 DEF MapFields
  <2>2. Buckets(m) \ Live(m) # {}
    <3>1. Cardinality(Live(m)) < m.capacity
      <4>1. m.numElements \in Nat /\ m.numElements < m.capacity
        BY <1>2 DEF MapFields
      <4>. QED
        BY <1>3, <4>1
    <3>. QED
      BY <1>2, <3>1, LiveIsCounted
  <2>3. spot \in Buckets(m) /\ spot \notin Live(m) /\ spot # i /\ spot \in Nat
    BY <1>2, <1>5, <2>1, <2>2, SpotIsReached DEF Buckets
  <2>4. /\ gone \in HashMap /\ gone.capacity = m.capacity /\ gone.numElements = m.numElements
        /\ gone.filled = filled /\ gone.ghost = ghost /\ gone.buckets = m.buckets
    <3>1. filled \subseteq Nat /\ ghost \subseteq Nat
      BY <1>2 DEF MapFields
    <3>. HIDE DEF filled, ghost
    <3>. QED
      BY <1>2, <3>1 DEF HashMap
  <2>. HIDE DEF gone, spot
  <2>5. /\ r \in HashMap /\ r.capacity = m.capacity /\ r.numElements = m.numElements
        /\ r.filled = filled \union {spot} /\ r.ghost = ghost \ {spot}
        /\ DOMAIN r.buckets = DOMAIN m.buckets \union {spot} /\ r.buckets[spot] = pair
        /\ \A j \in DOMAIN m.buckets \ {spot} : r.buckets[j] = m.buckets[j]
    BY <2>1, <2>3, <2>4, InsertedAtIndex
  <2>. HIDE DEF r, pair
  <2>6. Live(r) = (Live(m) \ {i}) \union {spot} /\ Used(r) = Used(m) \union {spot}
    BY <1>5, <2>3, <2>5 DEF Live, Used
  <2>7. /\ \A j \in Used(r) : j # spot => j \in Used(m) /\ r.buckets[j] = m.buckets[j]
        /\ \A j \in Live(r) : j # spot => j \in Live(m) /\ j # i /\ r.buckets[j] = m.buckets[j]
        /\ r.buckets[spot].key = m.buckets[i].key
    BY <1>2, <2>5, <2>6 DEF pair
  <2>8. Cardinality(Live(r)) = Cardinality(Live(m))
    <3>1. IsFiniteSet(Live(m)) /\ Cardinality(Live(m)) \in Nat
      BY <1>2, LiveIsCounted
    <3>. DEFINE L == Live(m) \ {i}
    <3>2. IsFiniteSet(L) /\ Cardinality(L) = Cardinality(Live(m)) - 1
      BY <1>5, <3>1, FS_RemoveElement
    <3>3. spot \notin L
      BY <2>3
    <3>. HIDE DEF L
    <3>4. Cardinality(L \union {spot}) = Cardinality(L) + 1
      BY <3>2, <3>3, FS_AddElement
    <3>. QED
      BY <2>6, <3>1, <3>2, <3>4 DEF L
  <2>9. IsGrowing(r, G, old)
    <3>1. Used(r) \subseteq Buckets(r) /\ Used(r) \subseteq DOMAIN r.buckets
      BY <1>2, <2>3, <2>5, <2>6 DEF Buckets
    <3>2. \A j \in Used(r) : r.buckets[j].key \in G
      BY <1>2, <1>3, <1>5, <2>7
    <3>3. ASSUME NEW k \in G PROVE \E j \in Live(r) : r.buckets[j].key = k
      <4>1. PICK j \in Live(m) : m.buckets[j].key = k
        BY <1>3
      <4>2. CASE j = i
        BY <2>6, <2>7, <4>1, <4>2
      <4>3. CASE j # i
        BY <2>3, <2>6, <2>7, <4>1, <4>3
      <4>. QED
        BY <4>2, <4>3
    <3>4. ASSUME NEW j \in Live(r), NEW l \in Live(r), r.buckets[j].key = r.buckets[l].key
          PROVE  j = l
      <4>1. CASE j # spot /\ l # spot
        BY <1>3, <2>7, <3>4, <4>1
      <4>2. CASE j = spot /\ l # spot
        <5>1. l \in Live(m) /\ l # i /\ m.buckets[l].key = m.buckets[i].key
          BY <2>7, <3>4, <4>2
        <5>. QED
          BY <1>3, <1>5, <5>1
      <4>3. CASE j # spot /\ l = spot
        <5>1. j \in Live(m) /\ j # i /\ m.buckets[j].key = m.buckets[i].key
          BY <2>7, <3>4, <4>3
        <5>. QED
          BY <1>3, <1>5, <5>1
      <4>. QED
        BY <4>1, <4>2, <4>3
    <3>. QED
      BY <1>2, <1>3, <2>5, <2>8, <3>1, <3>2, <3>3, <3>4 DEF IsGrowing, HoldsTheKeys
  <2>10. ASSUME AreReached(m, Visited(m, i, old)), NEW j \in Visited(r, i + 1, old)
         PROVE  Reaches(r, r.buckets[j].key, j)
    <3>1. CASE j = spot
      <4>1. Reaches(r, m.buckets[i].key, spot)
        BY <1>2, <2>1, <2>2, <2>5, <2>6, KeyIsReachedAtItsSpot DEF spot, pair
      <4>. QED
        BY <2>7, <3>1, <4>1
    <3>2. CASE j # spot
      <4>1. j \in Live(m) /\ j # i /\ r.buckets[j] = m.buckets[j] /\ (j < i + 1 \/ j >= old)
        BY <2>7, <3>2, <2>10 DEF Visited
      <4>2. j \in Int
        BY <1>2, <4>1 DEF Buckets
      <4>3. Reaches(m, m.buckets[j].key, j)
        BY <2>10, <4>1, <4>2 DEF Visited, AreReached
      <4>4. Reaches(r, m.buckets[j].key, j)
        BY <2>5, <2>6, <4>3, ReachedStaysReached
      <4>. QED
        BY <4>1, <4>4
    <3>. QED
      BY <3>1, <3>2
  <2>. QED
    BY <1>1, <1>5, <2>9, <2>10 DEF AreReached
<1>. QED
  BY <1>4, <1>5

\* Growing keeps the keys and leaves every live bucket where a probe comes.
LEMMA RehashKeepsTheKeys ==
  ASSUME NEW G \in SUBSET Keys, NEW m, HoldsTheKeys(m, G)
  PROVE  LET r == RehashAndGrow(m)
         IN  /\ HoldsTheKeys(r, G) /\ AreReached(r, Live(r))
             /\ r.capacity = 2 * m.capacity /\ r.numElements < r.capacity
<1>. DEFINE old == m.capacity
            wide == [m EXCEPT !.capacity = 2 * old]
            moved[n \in 0..m.capacity] ==
              IF n = 0 THEN [m EXCEPT !.capacity = 2 * @] ELSE MoveBucket(moved[n - 1], n - 1)
            S == {p \in HashMap : IsGrowing(p, G, old)}
            next == [p \in (1..old) \X S |-> MoveBucket(p[2], p[1] - 1)]
<1>1. RehashAndGrow(m) = moved[m.capacity]
  BY Zenon DEF RehashAndGrow
<1>2. /\ m \in HashMap /\ old \in Nat /\ old > 0 /\ Live(m) \subseteq Used(m)
      /\ Used(m) \subseteq Buckets(m) /\ m.numElements = Cardinality(Live(m))
  BY DEF HoldsTheKeys, HashMap, Live, Used
<1>3. /\ wide \in HashMap /\ wide.capacity = 2 * old /\ wide.filled = m.filled
      /\ wide.ghost = m.ghost /\ wide.buckets = m.buckets /\ wide.numElements = m.numElements
  <2>. DEFINE c == 2 * old
  <2>1. c \in Nat
    BY <1>2
  <2>. HIDE DEF c, old
  <2>2. wide = [m EXCEPT !.capacity = c]
    BY DEF c
  <2>. HIDE DEF wide
  <2>3. /\ wide \in HashMap /\ wide.capacity = c /\ wide.filled = m.filled
        /\ wide.ghost = m.ghost /\ wide.buckets = m.buckets /\ wide.numElements = m.numElements
    BY <1>2, <2>1, <2>2 DEF HashMap
  <2>. QED
    BY <2>3 DEF c
<1>. HIDE DEF wide, old
<1>4. Live(wide) = Live(m) /\ Used(wide) = Used(m)
  BY <1>3 DEF Live, Used
<1>5. IsGrowing(wide, G, old)
  <2>1. m.numElements <= old
    BY <1>2, LiveIsCounted DEF old
  <2>2. Used(wide) \subseteq Buckets(wide)
    <3>1. \A i \in Used(m) : i \in 0..old - 1
      BY <1>2 DEF Buckets, old
    <3>. QED
      BY <1>2, <1>3, <1>4, <3>1 DEF Buckets
  <2>. QED
    BY <1>2, <1>3, <1>4, <2>1, <2>2 DEF IsGrowing, HoldsTheKeys
<1>6. wide \in S
  BY <1>3, <1>5
<1>7. \A n \in 1..old, p \in S : MoveBucket(p, n - 1) \in S
  <2>. SUFFICES ASSUME NEW n \in 1..old, NEW p \in S PROVE MoveBucket(p, n - 1) \in S
    OBVIOUS
  <2>1. n - 1 \in 0..old - 1
    BY <1>2
  <2>2. IsGrowing(MoveBucket(p, n - 1), G, old)
    BY <1>2, <2>1, MoveBucketKeepsTheKeys
  <2>. QED
    BY <2>2 DEF IsGrowing, HoldsTheKeys
<1>. HIDE DEF S
<1>8. next \in [(1..old) \X S -> S] /\ \A n \in 1..old, p \in S : next[<<n, p>>] = MoveBucket(p, n - 1)
  BY <1>7
<1>. HIDE DEF next
<1>9. PICK f : AreResults(f, old, S, wide, next)
  BY <1>2, <1>6, <1>8, ResultsExist
<1>10. \A n \in 0..old : f[n] = IF n = 0 THEN wide ELSE MoveBucket(f[n - 1], n - 1)
  <2>. SUFFICES ASSUME NEW n \in 1..old PROVE f[n] = MoveBucket(f[n - 1], n - 1)
    BY <1>9 DEF AreResults
  <2>1. n - 1 \in 0..old
    BY <1>2
  <2>2. f[n - 1] \in S /\ f[n] = next[<<n, f[n - 1]>>]
    BY <1>9, <2>1 DEF AreResults
  <2>. QED
    BY <1>8, <2>2
<1>11. f = [n \in 0..old |-> IF n = 0 THEN wide ELSE MoveBucket(f[n - 1], n - 1)]
  BY <1>9, <1>10 DEF AreResults
<1>12. moved = [n \in 0..old |-> IF n = 0 THEN wide ELSE MoveBucket(moved[n - 1], n - 1)]
  BY <1>11, Zenon DEF wide, old
<1>. HIDE DEF moved
<1>13. \A n \in 0..old : moved[n] = IF n = 0 THEN wide ELSE MoveBucket(moved[n - 1], n - 1)
  BY <1>12, Zenon
<1>. DEFINE T == {n \in 0..old : /\ IsGrowing(moved[n], G, old)
                                /\ AreReached(moved[n], Visited(moved[n], n, old))}
<1>14. 0 \in T
  <2>1. 0 \in 0..old /\ moved[0] = wide
    BY <1>2, <1>13
  <2>2. \A i \in Live(wide) : i \in 0..old - 1
    BY <1>2, <1>4 DEF Buckets, old
  <2>3. Visited(wide, 0, old) = {}
    BY <1>2, <2>2 DEF Visited
  <2>. QED
    BY <1>5, <2>1, <2>3 DEF AreReached
<1>15. ASSUME NEW n \in 1..old, n - 1 \in T PROVE n \in T
  <2>. DEFINE p == moved[n - 1]
  <2>1. /\ n \in 0..old /\ n # 0 /\ n - 1 \in 0..old - 1 /\ n - 1 + 1 = n
        /\ IsGrowing(p, G, old) /\ AreReached(p, Visited(p, n - 1, old))
    BY <1>2, <1>15
  <2>2. moved[n] = MoveBucket(p, n - 1)
    BY <1>13, <2>1
  <2>. HIDE DEF p
  <2>3. /\ IsGrowing(MoveBucket(p, n - 1), G, old)
        /\ AreReached(MoveBucket(p, n - 1), Visited(MoveBucket(p, n - 1), n - 1 + 1, old))
    BY <1>2, <2>1, MoveBucketKeepsTheKeys
  <2>. QED
    BY <2>1, <2>2, <2>3
<1>. HIDE DEF T
<1>16. 0..old \subseteq T
  BY <1>2, <1>14, <1>15, UpToBound
<1>. DEFINE r == moved[old]
<1>17. IsGrowing(r, G, old) /\ AreReached(r, Visited(r, old, old))
  BY <1>2, <1>16 DEF T
<1>. HIDE DEF r
<1>18. Visited(r, old, old) = Live(r)
  <2>1. \A i \in Live(r) : i \in Int
    BY <1>17 DEF IsGrowing, HoldsTheKeys, Live, Used, Buckets
  <2>. QED
    BY <1>2, <2>1 DEF Visited
<1>19. r.numElements \in Nat /\ r.numElements < r.capacity
  <2>1. r \in HashMap /\ r.capacity = 2 * old /\ r.numElements <= old
    BY <1>17 DEF IsGrowing, HoldsTheKeys
  <2>2. r.numElements \in Nat
    BY <2>1 DEF HashMap
  <2>. QED
    BY <1>2, <2>1, <2>2
<1>. QED
  BY <1>1, <1>17, <1>18, <1>19 DEF IsGrowing, r, old

(***************************************************************************)
(* Probing and inserting.                                                  *)
(***************************************************************************)
LEMMA ProbeFindsTheKeys ==
  ASSUME NEW G \in SUBSET Keys, NEW m, HoldsTheKeys(m, G), AreReached(m, Live(m)), NEW key \in Keys
  PROVE  LET i == ProbeForExistingKey(m, key)
         IN  /\ key \in G => i \in Used(m) /\ i # m.capacity /\ m.buckets[i].key = key
             /\ key \notin G => i = m.capacity
<1>. DEFINE found == {i \in Used(m) : Reaches(m, key, i) /\ m.buckets[i].key = key}
<1>1. ProbeForExistingKey(m, key) = Nearest(m, key, found)
  BY DEF ProbeForExistingKey
<1>2. CASE key \in G
  <2>1. PICK j \in Live(m) : m.buckets[j].key = key
    BY <1>2 DEF HoldsTheKeys
  <2>2. found # {} /\ found \in SUBSET Buckets(m)
    BY <2>1 DEF AreReached, HoldsTheKeys, Live, Used
  <2>. HIDE DEF found
  <2>3. Nearest(m, key, found) \in found
    BY <2>2, NearestIsNearest DEF HoldsTheKeys
  <2>. DEFINE i == Nearest(m, key, found)
  <2>. HIDE DEF i
  <2>4. i \in Used(m) /\ m.buckets[i].key = key
    BY <2>3 DEF found, i
  <2>5. i # m.capacity
    BY <2>4 DEF HoldsTheKeys, HashMap, Buckets
  <2>. QED
    BY <1>1, <1>2, <2>4, <2>5 DEF i
<1>3. CASE key \notin G
  <2>1. found = {}
    BY <1>3 DEF HoldsTheKeys
  <2>. QED
    BY <1>1, <1>3, <2>1 DEF Nearest
<1>. QED
  BY <1>2, <1>3

\* A new key at its spot, in a map with room for it.
LEMMA NewKeyAtItsSpot ==
  ASSUME NEW G \in SUBSET Keys, NEW m, HoldsTheKeys(m, G), AreReached(m, Live(m)),
         m.numElements < m.capacity, NEW pair \in Bucket, pair.key \notin G
  PROVE  LET more == [m EXCEPT !.numElements = @ + 1]
             spot == ProbeEmptySpotForKey(more, pair.key)
             r    == InsertKeyValueAtIndex(more, pair, spot)
         IN  /\ HoldsTheKeys(r, G \union {pair.key}) /\ AreReached(r, Live(r))
             /\ r.capacity = m.capacity /\ r.ghost \subseteq m.ghost
             /\ Live(r) = Live(m) \union {spot} /\ r.buckets[spot] = pair
             /\ \A i \in Live(m) : r.buckets[i] = m.buckets[i]
<1>. DEFINE count == m.numElements + 1
            more == [m EXCEPT !.numElements = count]
            spot == ProbeEmptySpotForKey(more, pair.key)
            r == InsertKeyValueAtIndex(more, pair, spot)
            key == pair.key
<1>1. /\ m \in HashMap /\ MapFields(m) /\ m.capacity > 0 /\ Live(m) \subseteq Used(m)
      /\ Used(m) \subseteq Buckets(m) /\ Used(m) \subseteq DOMAIN m.buckets
      /\ m.numElements = Cardinality(Live(m))
  BY FieldsOfAMap DEF HoldsTheKeys, Live, Used
<1>2. /\ \A j \in Used(m) : m.buckets[j].key \in G
      /\ \A k \in G : \E j \in Live(m) : m.buckets[j].key = k
      /\ \A j, l \in Live(m) : m.buckets[j].key = m.buckets[l].key => j = l
  BY DEF HoldsTheKeys
<1>3. /\ more \in HashMap /\ more.capacity = m.capacity /\ more.numElements = count
      /\ more.filled = m.filled /\ more.ghost = m.ghost /\ more.buckets = m.buckets
      /\ count \in Nat
  <2>1. count \in Nat
    BY <1>1 DEF MapFields
  <2>. HIDE DEF count
  <2>. QED
    BY <1>1, <2>1 DEF HashMap
<1>. HIDE DEF more, count
<1>4. Live(more) = Live(m) /\ Used(more) = Used(m) /\ Buckets(more) = Buckets(m)
  BY <1>3 DEF Live, Used, Buckets
<1>5. Buckets(more) \ Live(more) # {} /\ key \in Keys
  <2>1. key \in Keys
    BY DEF Bucket
  <2>2. Live(m) \subseteq Buckets(m) /\ Cardinality(Live(m)) < m.capacity
    BY <1>1
  <2>. QED
    BY <1>1, <1>4, <2>1, <2>2, LiveIsCounted
<1>6. spot \in Buckets(m) /\ spot \notin Live(m) /\ spot \in Nat
  <2>1. spot \in Buckets(more) /\ spot \notin Live(more)
    BY <1>1, <1>3, <1>5, SpotIsReached
  <2>. HIDE DEF spot
  <2>2. spot \in Buckets(m) /\ spot \notin Live(m)
    BY <1>4, <2>1
  <2>. QED
    BY <1>1, <2>2 DEF MapFields, Buckets
<1>. HIDE DEF spot
<1>7. /\ r \in HashMap /\ r.capacity = m.capacity /\ r.numElements = count
      /\ r.filled = m.filled \union {spot} /\ r.ghost = m.ghost \ {spot}
      /\ DOMAIN r.buckets = DOMAIN m.buckets \union {spot} /\ r.buckets[spot] = pair
      /\ \A j \in DOMAIN m.buckets \ {spot} : r.buckets[j] = m.buckets[j]
  BY <1>3, <1>6, InsertedAtIndex
<1>. HIDE DEF r
<1>8. Live(r) = Live(m) \union {spot} /\ Used(r) = Used(m) \union {spot}
  BY <1>6, <1>7 DEF Live, Used
<1>9. /\ \A j \in Used(m) : j # spot => r.buckets[j] = m.buckets[j]
      /\ \A j \in Live(m) : j # spot /\ r.buckets[j] = m.buckets[j]
  BY <1>1, <1>6, <1>7
<1>10. r.numElements = Cardinality(Live(r))
  <2>1. IsFiniteSet(Live(m))
    BY <1>1, LiveIsCounted
  <2>2. Cardinality(Live(m) \union {spot}) = Cardinality(Live(m)) + 1
    BY <1>6, <2>1, FS_AddElement
  <2>. QED
    BY <1>1, <1>7, <1>8, <2>2 DEF count
<1>11. HoldsTheKeys(r, G \union {key})
  <2>1. Used(r) \subseteq Buckets(r) /\ Used(r) \subseteq DOMAIN r.buckets
    BY <1>1, <1>6, <1>7, <1>8 DEF Buckets
  <2>2. \A j \in Used(r) : r.buckets[j].key \in G \union {key}
    BY <1>2, <1>7, <1>8, <1>9
  <2>3. \A k \in G \union {key} : \E j \in Live(r) : r.buckets[j].key = k
    BY <1>2, <1>7, <1>8, <1>9
  <2>4. \A j \in Live(m) : r.buckets[j].key # key /\ j \in Live(m)
    BY <1>1, <1>2, <1>9
  <2>5. ASSUME NEW j \in Live(r), NEW l \in Live(r), r.buckets[j].key = r.buckets[l].key
        PROVE  j = l
    BY <1>2, <1>7, <1>8, <1>9, <2>4, <2>5
  <2>. QED
    BY <1>1, <1>7, <1>10, <2>1, <2>2, <2>3, <2>5 DEF HoldsTheKeys
<1>12. AreReached(r, Live(r))
  <2>1. Reaches(r, key, spot)
    <3>1. Live(more) \subseteq Used(r) /\ spot \in Used(r) /\ r.capacity = more.capacity
      BY <1>1, <1>3, <1>4, <1>7, <1>8
    <3>. QED
      BY <1>1, <1>3, <1>5, <3>1, KeyIsReachedAtItsSpot DEF spot
  <2>2. ASSUME NEW j \in Live(m) PROVE Reaches(r, r.buckets[j].key, j)
    <3>1. Reaches(m, m.buckets[j].key, j)
      BY DEF AreReached
    <3>. QED
      BY <1>7, <1>8, <1>9, <3>1, ReachedStaysReached
  <2>. QED
    BY <1>7, <1>8, <2>1, <2>2 DEF AreReached
<1>13. [m EXCEPT !.numElements = @ + 1] = more
  BY DEF more, count
<1>. QED
  BY <1>7, <1>8, <1>9, <1>11, <1>12, <1>13 DEF r, spot

\* The map r is m with the pair, if its key is not there; m has the keys G.
IsInserted(m, G, pair, r) ==
  /\ HoldsTheKeys(r, G \union {pair.key}) /\ AreReached(r, Live(r))
  /\ r.capacity >= m.capacity
  /\ pair.key \in G => r = m
  /\ pair.key \notin G /\ r.capacity = m.capacity =>
       /\ r.ghost \subseteq m.ghost
       /\ \E spot : Live(r) = Live(m) \union {spot} /\ r.buckets[spot] = pair
       /\ \A i \in Live(m) : r.buckets[i] = m.buckets[i]

\* A key that is in the map is not inserted; a new one is, after the map has grown or not.
LEMMA InsertKeepsTheKeys ==
  ASSUME NEW G \in SUBSET Keys, NEW m, HoldsTheKeys(m, G), AreReached(m, Live(m)),
         NEW pair \in Bucket
  PROVE  IsInserted(m, G, pair, InsertKeyValue(m, pair))
<1>. DEFINE room == IF RehashNeeded(m) THEN RehashAndGrow(m) ELSE m
            more == [room EXCEPT !.numElements = @ + 1]
            spot == ProbeEmptySpotForKey(more, pair.key)
            r == InsertKeyValueAtIndex(more, pair, spot)
<1>1. InsertKeyValue(m, pair) = IF ProbeForExistingKey(m, pair.key) # m.capacity THEN m ELSE r
  BY DEF InsertKeyValue
<1>2. pair.key \in Keys /\ m.capacity \in Nat /\ m.capacity > 0 /\ m.numElements \in Nat
  BY DEF Bucket, HoldsTheKeys, HashMap
<1>3. CASE pair.key \in G
  <2>1. InsertKeyValue(m, pair) = m
    BY <1>1, <1>2, <1>3, ProbeFindsTheKeys
  <2>2. G \union {pair.key} = G
    BY <1>3
  <2>. QED
    BY <1>2, <1>3, <2>1, <2>2 DEF IsInserted
<1>4. CASE pair.key \notin G
  <2>1. /\ HoldsTheKeys(room, G) /\ AreReached(room, Live(room))
        /\ room.numElements < room.capacity /\ room.capacity >= m.capacity
        /\ room.capacity = m.capacity => room = m
    <3>1. CASE RehashNeeded(m)
      BY <1>2, <3>1, RehashKeepsTheKeys
    <3>2. CASE ~RehashNeeded(m)
      <4>1. m.numElements < m.capacity
        BY <1>2, <3>2, MapAssumption DEF RehashNeeded
      <4>. QED
        BY <1>2, <3>2, <4>1
    <3>. QED
      BY <3>1, <3>2
  <2>2. InsertKeyValue(m, pair) = r
    BY <1>1, <1>2, <1>4, ProbeFindsTheKeys
  <2>. HIDE DEF room
  <2>3. /\ HoldsTheKeys(r, G \union {pair.key}) /\ AreReached(r, Live(r))
        /\ r.capacity = room.capacity /\ r.ghost \subseteq room.ghost
        /\ Live(r) = Live(room) \union {spot} /\ r.buckets[spot] = pair
        /\ \A i \in Live(room) : r.buckets[i] = room.buckets[i]
    BY <1>4, <2>1, NewKeyAtItsSpot
  <2>. HIDE DEF r, spot
  <2>. QED
    BY <1>2, <1>4, <2>1, <2>2, <2>3 DEF IsInserted
<1>. QED
  BY <1>3, <1>4

\* A value is written to a bucket in use.
LEMMA ValueIsWritten ==
  ASSUME NEW G \in SUBSET Keys, NEW m, HoldsTheKeys(m, G), AreReached(m, Live(m)),
         NEW b \in Used(m), NEW v \in Values
  PROVE  LET r == [m EXCEPT !.buckets[b].value = v]
         IN  /\ HoldsTheKeys(r, G) /\ AreReached(r, Live(r))
             /\ r.capacity = m.capacity /\ r.ghost = m.ghost /\ Live(r) = Live(m)
             /\ r.buckets[b].value = v /\ r.buckets[b].key = m.buckets[b].key
             /\ \A i \in Used(m) \ {b} : r.buckets[i] = m.buckets[i]
<1>. DEFINE pair == [key |-> m.buckets[b].key, value |-> v]
            table == [j \in DOMAIN m.buckets |-> IF j = b THEN pair ELSE m.buckets[j]]
            r == [m EXCEPT !.buckets = table]
<1>1. /\ m \in HashMap /\ MapFields(m) /\ Used(m) \subseteq DOMAIN m.buckets /\ m.buckets \in Tables
  BY FieldsOfAMap DEF HoldsTheKeys, HashMap
<1>2. PICK S \in SUBSET Nat : m.buckets \in [S -> Bucket]
  BY <1>1 DEF Tables
<1>3. b \in S /\ S = DOMAIN m.buckets /\ m.buckets[b] \in Bucket
  BY <1>1, <1>2
<1>4. pair \in Bucket /\ pair.key = m.buckets[b].key /\ pair.value = v
  BY <1>3 DEF Bucket
<1>5. [m.buckets[b] EXCEPT !.value = v] = pair
  BY <1>3 DEF Bucket
<1>6. [m.buckets EXCEPT ![b].value = v] = table
  BY <1>2, <1>3, <1>5
<1>7. [m EXCEPT !.buckets[b].value = v] = r
  BY <1>6
<1>. HIDE DEF pair
<1>8. table \in [S -> Bucket]
  BY <1>2, <1>3, <1>4
<1>9. table \in Tables
  BY <1>8 DEF Tables
<1>10. /\ DOMAIN table = DOMAIN m.buckets /\ table[b] = pair
       /\ \A i \in DOMAIN m.buckets \ {b} : table[i] = m.buckets[i]
  BY <1>3
<1>. HIDE DEF table
<1>11. /\ r \in HashMap /\ r.capacity = m.capacity /\ r.filled = m.filled /\ r.ghost = m.ghost
       /\ r.numElements = m.numElements /\ r.buckets = table
  BY <1>1, <1>9 DEF HashMap
<1>. HIDE DEF r
<1>12. Used(r) = Used(m) /\ Live(r) = Live(m) /\ Buckets(r) = Buckets(m) /\ Live(m) \subseteq Used(m)
  BY <1>11 DEF Used, Live, Buckets
<1>13. \A i \in Used(m) : r.buckets[i].key = m.buckets[i].key
  BY <1>1, <1>4, <1>10, <1>11
<1>14. HoldsTheKeys(r, G)
  BY <1>1, <1>10, <1>11, <1>12, <1>13 DEF HoldsTheKeys
<1>15. AreReached(r, Live(r))
  BY <1>11, <1>12, <1>13 DEF AreReached, Reaches, Start
<1>. QED
  BY <1>1, <1>4, <1>7, <1>10, <1>11, <1>12, <1>14, <1>15

(***************************************************************************)
(* The invariant.  An erase ends it: the probes stop at the gap it leaves. *)
(***************************************************************************)
\* Before the map grows there are no ghosts, and the live buckets have what was given last.
HasTheLatest(m, given) ==
  m.ghost = {} /\ \A i \in Live(m) : m.buckets[i].value = given[m.buckets[i].key]

MapInv ==
  ~erased =>
    /\ Given \subseteq Keys
    /\ HoldsTheKeys(map, Given) /\ AreReached(map, Live(map))
    /\ map.capacity >= InitialCapacity
    /\ map.capacity = InitialCapacity => HasTheLatest(map, latest)

LEMMA InitIsRight == ASSUME InitMap PROVE MapInv
<1>1. Given = {} /\ Live(map) = {} /\ Used(map) = {} /\ map.ghost = {}
  BY DEF InitMap, NewMap, Given, Live, Used
<1>2. map \in HashMap
  <2>. DEFINE none == <<>>
  <2>1. none \in [{} -> Bucket] /\ {} \in SUBSET Nat
    OBVIOUS
  <2>2. none \in Tables
    BY <2>1 DEF Tables
  <2>3. NewMap = [capacity |-> InitialCapacity, buckets |-> none, filled |-> {}, ghost |-> {},
                  numElements |-> 0]
    BY DEF NewMap
  <2>. HIDE DEF none
  <2>. QED
    BY <2>2, <2>3, MapAssumption DEF InitMap, HashMap
<1>3. map.capacity = InitialCapacity /\ map.capacity \in Nat \ {0} /\ map.numElements = 0
  BY MapAssumption DEF InitMap, NewMap
<1>4. HoldsTheKeys(map, Given)
  BY <1>1, <1>2, <1>3, FS_EmptySet DEF HoldsTheKeys
<1>. QED
  BY <1>1, <1>3, <1>4 DEF MapInv, AreReached, HasTheLatest

\* Inserting a key that is new keeps the values, too.
LEMMA InsertKeepsTheLatest ==
  ASSUME MapInv, ~erased, NEW pair \in Bucket
  PROVE  LET r == InsertKeyValue(map, pair)
         IN  /\ HoldsTheKeys(r, Given \union {pair.key}) /\ AreReached(r, Live(r))
             /\ r.capacity >= InitialCapacity /\ r.capacity \in Nat
             /\ r.capacity = InitialCapacity =>
                  /\ r.ghost = {}
                  /\ \A i \in Live(r) :
                       IF r.buckets[i].key \in Given
                       THEN r.buckets[i].value = latest[r.buckets[i].key]
                       ELSE r.buckets[i] = pair
<1>. DEFINE r == InsertKeyValue(map, pair)
<1>1. /\ Given \in SUBSET Keys /\ HoldsTheKeys(map, Given) /\ AreReached(map, Live(map))
      /\ map.capacity >= InitialCapacity
      /\ map.capacity = InitialCapacity => HasTheLatest(map, latest)
  BY DEF MapInv
<1>2. IsInserted(map, Given, pair, r)
  BY <1>1, InsertKeepsTheKeys
<1>. HIDE DEF r
<1>3. r.capacity \in Nat /\ map.capacity \in Nat /\ InitialCapacity \in Nat
  BY <1>1, <1>2, MapAssumption DEF IsInserted, HoldsTheKeys, HashMap
<1>4. \A i \in Live(map) : map.buckets[i].key \in Given
  BY <1>1 DEF HoldsTheKeys, Live, Used
<1>5. ASSUME r.capacity = InitialCapacity
      PROVE  /\ r.ghost = {}
             /\ \A i \in Live(r) :
                  IF r.buckets[i].key \in Given
                  THEN r.buckets[i].value = latest[r.buckets[i].key]
                  ELSE r.buckets[i] = pair
  <2>1. map.capacity = r.capacity /\ HasTheLatest(map, latest)
    BY <1>1, <1>2, <1>3, <1>5 DEF IsInserted
  <2>2. CASE pair.key \in Given
    BY <1>2, <1>4, <2>1, <2>2 DEF IsInserted, HasTheLatest
  <2>3. CASE pair.key \notin Given
    <3>1. PICK spot : Live(r) = Live(map) \union {spot} /\ r.buckets[spot] = pair
      BY <1>2, <2>1, <2>3 DEF IsInserted
    <3>2. \A i \in Live(map) : r.buckets[i] = map.buckets[i]
      BY <1>2, <2>1, <2>3 DEF IsInserted
    <3>. QED
      BY <1>2, <1>4, <2>1, <2>3, <3>1, <3>2 DEF IsInserted, HasTheLatest
  <2>. QED
    BY <2>2, <2>3
<1>. QED
  BY <1>1, <1>2, <1>3, <1>5 DEF IsInserted, r
(***************************************************************************)
(* One step per operation.                                                 *)
(***************************************************************************)
LEMMA InsertKeeps ==
  ASSUME MapInv, ~erased, NEW key \in Keys, NEW value \in Values, Insert(key, value)
  PROVE  MapInv'
<1>. DEFINE pair == [key |-> key, value |-> value]
<1>1. pair \in Bucket /\ pair.key = key /\ pair.value = value
  BY DEF Bucket
<1>2. map' = InsertKeyValue(map, pair) /\ erased' = erased
  BY DEF Insert
<1>3. /\ Given' = Given \union {key} /\ latest'[key] = IF key \in Given THEN latest[key] ELSE value
      /\ \A k \in Given : latest'[k] = latest[k]
  BY DEF Insert, Given
<1>. HIDE DEF pair
<1>4. /\ HoldsTheKeys(map', Given \union {key}) /\ AreReached(map', Live(map'))
      /\ map'.capacity >= InitialCapacity
      /\ map'.capacity = InitialCapacity =>
           /\ map'.ghost = {}
           /\ \A i \in Live(map') :
                IF map'.buckets[i].key \in Given
                THEN map'.buckets[i].value = latest[map'.buckets[i].key]
                ELSE map'.buckets[i] = pair
  BY <1>1, <1>2, InsertKeepsTheLatest
<1>5. ASSUME map'.capacity = InitialCapacity PROVE HasTheLatest(map', latest')
  BY <1>1, <1>3, <1>4, <1>5 DEF HasTheLatest
<1>6. Given' \subseteq Keys
  BY <1>3 DEF MapInv
<1>. QED
  BY <1>3, <1>4, <1>5, <1>6 DEF MapInv, AreReached, HoldsTheKeys, Live, Used, Reaches, Start,
     Buckets

LEMMA AssignKeeps ==
  ASSUME MapInv, ~erased, NEW key \in Keys, NEW value \in Values, Assign(key, value)
  PROVE  MapInv'
<1>. DEFINE pair == [key |-> key, value |-> Default]
            has == InsertKeyValue(map, pair)
            b == ProbeForExistingKey(has, key)
            H == Given \union {key}
<1>1. pair \in Bucket /\ pair.key = key
  BY DEF Bucket
<1>2. Subscript(map, key) = [map |-> has, bucket |-> b]
  BY <1>1 DEF Subscript, InsertKeyValue
<1>3. map' = [has EXCEPT !.buckets[b].value = value] /\ erased' = erased
  BY <1>2 DEF Assign
<1>4. /\ Given' = H /\ latest'[key] = value
      /\ \A k \in Given \ {key} : latest'[k] = latest[k]
  BY DEF Assign, Given
<1>. HIDE DEF pair
<1>5. /\ HoldsTheKeys(has, H) /\ AreReached(has, Live(has)) /\ has.capacity >= InitialCapacity
      /\ has.capacity = InitialCapacity =>
           /\ has.ghost = {}
           /\ \A i \in Live(has) :
                IF has.buckets[i].key \in Given
                THEN has.buckets[i].value = latest[has.buckets[i].key]
                ELSE has.buckets[i] = pair
  BY <1>1, InsertKeepsTheLatest
<1>. HIDE DEF has
<1>6. H \in SUBSET Keys /\ key \in H
  BY DEF MapInv
<1>7. b \in Used(has) /\ has.buckets[b].key = key
  BY <1>5, <1>6, ProbeFindsTheKeys
<1>. HIDE DEF b, H
<1>8. /\ HoldsTheKeys(map', H) /\ AreReached(map', Live(map'))
      /\ map'.capacity = has.capacity /\ map'.ghost = has.ghost /\ Live(map') = Live(has)
      /\ map'.buckets[b].value = value /\ map'.buckets[b].key = has.buckets[b].key
      /\ \A i \in Used(has) \ {b} : map'.buckets[i] = has.buckets[i]
  BY <1>3, <1>5, <1>6, <1>7, ValueIsWritten
<1>9. ASSUME map'.capacity = InitialCapacity PROVE HasTheLatest(map', latest')
  <2>1. has.ghost = {} /\ Live(has) = Used(has)
    BY <1>5, <1>8, <1>9 DEF Live, Used
  <2>2. ASSUME NEW i \in Live(has), i # b
        PROVE  map'.buckets[i].value = latest'[map'.buckets[i].key]
    <3>1. /\ has.buckets[i].key # key /\ has.buckets[i].key \in Given
          /\ map'.buckets[i] = has.buckets[i]
      BY <1>5, <1>7, <1>8, <2>1, <2>2 DEF HoldsTheKeys, H
    <3>. QED
      BY <1>4, <1>5, <1>8, <1>9, <3>1
  <2>3. map'.buckets[b].value = latest'[map'.buckets[b].key]
    BY <1>4, <1>7, <1>8
  <2>. QED
    BY <1>8, <2>1, <2>2, <2>3 DEF HasTheLatest
<1>. QED
  BY <1>3, <1>4, <1>5, <1>6, <1>8, <1>9 DEF MapInv

LEMMA NextIsRight == ASSUME MapInv, [NextMap]_mapVars PROVE MapInv'
<1>1. ASSUME NEW key \in Keys, Erase(key) PROVE MapInv'
  BY <1>1 DEF Erase, MapInv
<1>2. CASE UNCHANGED mapVars
  BY <1>2 DEF mapVars, MapInv, Given
<1>. QED
  BY <1>1, <1>2, InsertKeeps, AssignKeeps DEF NextMap

LEMMA MapInvAlways == SpecMap => []MapInv
BY InitIsRight, NextIsRight, PTL DEF SpecMap
-----------------------------------------------------------------------------
\* Until the first erase, a probe finds every key that was put in the map, however often the
\* map has grown and whatever was moved where, and no other
\* (ProbeForExistingKey, PersistentHashMap.h:266), for any hash and any capacity.
THEOREM KeysAreAlwaysFound == SpecMap => []KeysAreFound
<1>1. MapInv => KeysAreFound
  <2>. SUFFICES ASSUME MapInv, ~erased, NEW key \in Keys
                PROVE  (ProbeForExistingKey(map, key) # map.capacity) <=> key \in Given
    BY DEF KeysAreFound
  <2>. QED
    BY ProbeFindsTheKeys DEF MapInv
<1>. QED
  BY <1>1, MapInvAlways, PTL

\* Until the first erase, every key has one live bucket and numElements counts the live
\* buckets (PersistentHashMap.h:240, 347), so that a map never fills up unseen.
THEOREM KeysAreAlwaysCounted == SpecMap => []EveryKeyIsCountedOnce
<1>1. MapInv => EveryKeyIsCountedOnce
  <2>. SUFFICES ASSUME MapInv, ~erased
                PROVE  /\ \A key \in Given :
                            Cardinality({i \in Live(map) : map.buckets[i].key = key}) = 1
                       /\ map.numElements = Cardinality(Live(map))
                       /\ Live(map) \subseteq Buckets(map)
    BY DEF EveryKeyIsCountedOnce
  <2>1. HoldsTheKeys(map, Given)
    BY DEF MapInv
  <2>2. ASSUME NEW key \in Given
        PROVE  Cardinality({i \in Live(map) : map.buckets[i].key = key}) = 1
    <3>1. PICK i \in Live(map) : map.buckets[i].key = key
      BY <2>1 DEF HoldsTheKeys
    <3>2. {j \in Live(map) : map.buckets[j].key = key} = {i}
      BY <2>1, <3>1 DEF HoldsTheKeys
    <3>. QED
      BY <3>2, FS_Singleton
  <2>. QED
    BY <2>1, <2>2 DEF HoldsTheKeys, Live, Used
<1>. QED
  BY <1>1, MapInvAlways, PTL

\* Before the map grows and until the first erase, a key leads to a live bucket with the value
\* it was given last (PersistentHashMap.h:126, 294).
THEOREM FoundBucketsStayLive == SpecMap => []FoundBucketsAreLive
<1>1. MapInv => FoundBucketsAreLive
  <2>. SUFFICES ASSUME MapInv, ~erased, map.capacity = InitialCapacity, NEW key \in Given
                PROVE  LET i == ProbeForExistingKey(map, key)
                       IN  i \in Live(map) /\ map.buckets[i].value = latest[key]
    BY DEF FoundBucketsAreLive
  <2>1. HoldsTheKeys(map, Given) /\ AreReached(map, Live(map)) /\ HasTheLatest(map, latest)
        /\ Given \in SUBSET Keys
    BY DEF MapInv
  <2>. DEFINE i == ProbeForExistingKey(map, key)
  <2>2. i \in Used(map) /\ map.buckets[i].key = key
    BY <2>1, ProbeFindsTheKeys
  <2>. QED
    BY <2>1, <2>2 DEF HasTheLatest, Live, Used
<1>. QED
  BY <1>1, MapInvAlways, PTL
===============================================================================
