------------------------- MODULE PersistentHashMap -------------------------
(***************************************************************************)
(* The hash map in a mapped file (src/include/PersistentHashMap.h): linear *)
(* probing over buckets with two bits each, filled and ghost.  A ghost is  *)
(* what a key leaves behind that was moved when the map grew.              *)
(*                                                                         *)
(* Every operation runs under the lock of the map and is one action.  What *)
(* operator[] and at return is used at once: see README for what another   *)
(* thread could do in between.                                             *)
(***************************************************************************)
EXTENDS Integers, FiniteSets

CONSTANTS
  Keys, Values, Default,  \* Default is what operator[] puts in a new bucket
  Hash,                   \* the hash of a key
  InitialCapacity,        \* 64 in the code
  LoadFactor              \* in tenths: 7 in the code

ASSUME MapAssumption ==
  /\ Hash \in [Keys -> Nat] /\ InitialCapacity \in Nat \ {0} /\ LoadFactor \in 1..9

VARIABLES
  map,     \* the file
  latest,  \* the keys that were given a value, and the last one each was given
  erased   \* something was erased

mapVars == <<map, latest, erased>>

NewMap == [capacity |-> InitialCapacity, buckets |-> <<>>, filled |-> {}, ghost |-> {},
           numElements |-> 0]

Buckets(m) == 0..m.capacity - 1
Used(m)    == m.filled \union m.ghost
Live(m)    == m.filled \ m.ghost
----------------------------------------------------------------------------
(* Probing.  From the bucket of the hash to the end, and from the first bucket on to the  *)
(* one of the hash.                                                                       *)

Start(m, key) == Hash[key] % m.capacity

Distance(m, key, i) ==
  IF i >= Start(m, key) THEN i - Start(m, key) ELSE i + m.capacity - Start(m, key)

Nearest(m, key, found) ==
  IF found = {} THEN m.capacity
  ELSE CHOOSE i \in found : \A j \in found : Distance(m, key, i) <= Distance(m, key, j)

\* Each of the two scans ends at the first bucket that is not in use.  The bits behind the
\* last bucket are 0, so the second scan follows the first in any case.
Reaches(m, key, i) ==
  LET from == IF i >= Start(m, key) THEN Start(m, key) ELSE 0 IN from..i \subseteq Used(m)

\* Mutant: no second scan, from the first bucket on.
ProbesToTheEnd(m, key) ==
  Nearest(m, key, {i \in Used(m) : /\ i >= Start(m, key)
                                   /\ Reaches(m, key, i) /\ m.buckets[i].key = key})

\* A ghost is taken for the key as well.
ProbeForExistingKey(m, key) ==
  Nearest(m, key, {i \in Used(m) : Reaches(m, key, i) /\ m.buckets[i].key = key})

ProbeEmptySpotForKey(m, key) == Nearest(m, key, Buckets(m) \ Live(m))
----------------------------------------------------------------------------
InsertKeyValueAtIndex(m, pair, i) ==
  [m EXCEPT !.buckets = [j \in DOMAIN @ \union {i} |-> IF j = i THEN pair ELSE @[j]],
            !.filled = @ \union {i}, !.ghost = @ \ {i}]

RehashNeeded(m) == 10 * m.numElements > LoadFactor * m.capacity

MoveBucket(m, i) ==
  LET spot == ProbeEmptySpotForKey(m, m.buckets[i].key)
      gone == [m EXCEPT !.filled = @ \ {i}, !.ghost = @ \union {i}]
  IN  IF i \in Live(m) THEN InsertKeyValueAtIndex(gone, m.buckets[i], spot) ELSE m

\* Every live bucket of the old half is moved, the ones too that were moved there before.
RehashAndGrow(m) ==
  LET moved[n \in 0..m.capacity] ==
        IF n = 0 THEN [m EXCEPT !.capacity = 2 * @] ELSE MoveBucket(moved[n - 1], n - 1)
  IN  moved[m.capacity]

\* Mutant: without looking for the key first.
InsertsAnyway(m, pair) ==
  LET room == IF RehashNeeded(m) THEN RehashAndGrow(m) ELSE m
      more == [room EXCEPT !.numElements = @ + 1]
  IN  InsertKeyValueAtIndex(more, pair, ProbeEmptySpotForKey(more, pair.key))

InsertKeyValue(m, pair) ==
  LET room == IF RehashNeeded(m) THEN RehashAndGrow(m) ELSE m
      more == [room EXCEPT !.numElements = @ + 1]
  IN  IF ProbeForExistingKey(m, pair.key) # m.capacity THEN m
      ELSE InsertKeyValueAtIndex(more, pair, ProbeEmptySpotForKey(more, pair.key))

\* Mutant: the bucket of the hash, whoever has it.
BucketOfTheHash(m, key) ==
  LET has == IF ProbeForExistingKey(m, key) # m.capacity THEN m
             ELSE InsertKeyValue(m, [key |-> key, value |-> Default])
  IN  [map |-> has, bucket |-> Start(has, key)]

\* operator[]: the map, and the bucket of the reference.
Subscript(m, key) ==
  LET has == IF ProbeForExistingKey(m, key) # m.capacity THEN m
             ELSE InsertKeyValue(m, [key |-> key, value |-> Default])
  IN  [map |-> has, bucket |-> ProbeForExistingKey(has, key)]
----------------------------------------------------------------------------
Given == DOMAIN latest

Insert(key, value) ==
  /\ map' = InsertKeyValue(map, [key |-> key, value |-> value])
  /\ latest' = IF key \in Given THEN latest
               ELSE [k \in Given \union {key} |-> IF k = key THEN value ELSE latest[k]]
  /\ UNCHANGED erased

\* map[ key ] = value
Assign(key, value) ==
  LET at == Subscript(map, key)
  IN  /\ map' = [at.map EXCEPT !.buckets[at.bucket].value = value]
      /\ latest' = [k \in Given \union {key} |-> IF k = key THEN value ELSE latest[k]]
      /\ UNCHANGED erased

Erase(key) ==
  LET i == ProbeForExistingKey(map, key)
  IN  /\ i # map.capacity
      /\ map' = [map EXCEPT !.ghost = @ \ {i}, !.filled = @ \ {i}, !.numElements = @ - 1]
      /\ latest' = [k \in Given \ {key} |-> latest[k]]
      /\ erased' = TRUE

InitMap == map = NewMap /\ latest = <<>> /\ erased = FALSE

\* A bound: nothing is done with a map after an erase.
NextMap ==
  /\ ~erased
  /\ \E key \in Keys :
       \/ \E value \in Values : Insert(key, value) \/ Assign(key, value)
       \/ Erase(key)

SpecMap == InitMap /\ [][NextMap]_mapVars
----------------------------------------------------------------------------
\* Until the first erase, a probe finds every key that was put in the map, however often
\* the map has grown and whatever was moved where (PersistentHashMap.h:266, 323), and finds
\* no other.
KeysAreFound ==
  ~erased => \A key \in Keys : (ProbeForExistingKey(map, key) # map.capacity) <=> key \in Given

\* Until the first erase, every key has one live bucket, and numElements, which decides when
\* the map grows, counts them (PersistentHashMap.h:240, 347): a probe for an empty bucket
\* always ends at one.
EveryKeyIsCountedOnce ==
  ~erased =>
    /\ \A key \in Given : Cardinality({i \in Live(map) : map.buckets[i].key = key}) = 1
    /\ map.numElements = Cardinality(Live(map)) /\ Live(map) \subseteq Buckets(map)

\* As long as the map has not grown and nothing was erased, the bucket a key leads to is a
\* live one and has the value the key was given last (PersistentHashMap.h:126, 294).
FoundBucketsAreLive ==
  map.capacity = InitialCapacity /\ ~erased =>
    \A key \in Given :
      LET i == ProbeForExistingKey(map, key)
      IN  i \in Live(map) /\ map.buckets[i].value = latest[key]

\* PersistentHashMap.h:123: "assert(!this->persistentHashMap->isGhost.at(this->index))", and
\* 268: "if it's there then we return the index".  Whether the map has grown or other keys
\* were erased or not, a key that is there leads to a bucket that is no ghost.
KeysLeadToLiveBuckets ==
  \A key \in Given : ProbeForExistingKey(map, key) \in Live(map)
=============================================================================
