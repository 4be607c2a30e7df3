------------------------ MODULE IndexPipelineProofs ------------------------
(***************************************************************************)
(* The index pipeline for any number of readers and writers and any        *)
(* documents: documents are inserted in the order of their ids, with two   *)
(* writers or more no wakeup of the writers is lost, every variable keeps  *)
(* its type, and the queue's map leads to the entry of every word queued.  *)
(***************************************************************************)
EXTENDS IndexPipeline, Recursion, FiniteSetTheorems, TLAPS

(***************************************************************************)
(* The order of the documents.  The id of a reader is its alone, a reader  *)
(* that is past the wait has the id whose turn it is, and the documents    *)
(* inserted are those whose turn is over, and the one whose reader has     *)
(* inserted it and still has the turn.                                     *)
(***************************************************************************)
OrderTypes ==
  /\ rpc \in [Readers -> ReaderLabels]
  /\ docId \in [Readers -> Nat]
  /\ currentDocId \in Nat /\ currentWriteDocId \in Nat
  /\ inserted \in Seq(Nat)

HasDoc(r) == rpc[r] # "take"
HasInserted(r) == PastTheWait(r) /\ rpc[r] # "insert"

IdsAreTaken ==
  /\ \A r \in Readers : HasDoc(r) => docId[r] < currentDocId
  /\ \A r, s \in Readers : HasDoc(r) /\ HasDoc(s) /\ docId[r] = docId[s] => r = s

TurnIsHeld == \A r \in Readers : PastTheWait(r) => docId[r] = currentWriteDocId

InsertedSoFar ==
  /\ \A i \in 1..Len(inserted) : inserted[i] = i - 1
  /\ (\E r \in Readers : HasInserted(r)) => Len(inserted) = currentWriteDocId + 1
  /\ (\A r \in Readers : ~HasInserted(r)) => Len(inserted) = currentWriteDocId

OrderInv == OrderTypes /\ IdsAreTaken /\ TurnIsHeld /\ InsertedSoFar

LEMMA OrderInit == Init => OrderInv
<1>. SUFFICES ASSUME Init PROVE OrderInv
  OBVIOUS
<1>1. /\ rpc = [r \in Readers |-> "take"] /\ docId = [r \in Readers |-> 0]
      /\ currentDocId = 0 /\ currentWriteDocId = 0 /\ inserted = <<>>
  BY DEF Init
<1>. QED
  BY <1>1 DEF OrderInv, OrderTypes, IdsAreTaken, TurnIsHeld, InsertedSoFar, ReaderLabels, HasDoc,
              HasInserted, PastTheWait

\* A step in which no reader takes a document, passes the wait or inserts, and which changes no
\* id and not the history, keeps the order.
LEMMA OrderStutter ==
  ASSUME OrderInv, rpc' \in [Readers -> ReaderLabels],
         \A r \in Readers :
           /\ HasDoc(r)' => HasDoc(r)
           /\ PastTheWait(r)' => PastTheWait(r)
           /\ HasInserted(r)' <=> HasInserted(r),
         UNCHANGED <<docId, currentDocId, currentWriteDocId, inserted>>
  PROVE  OrderInv'
<1>. USE DEF HasDoc, HasInserted, PastTheWait
<1>1. OrderTypes'
  BY DEF OrderInv, OrderTypes
<1>2. IdsAreTaken'
  BY DEF OrderInv, IdsAreTaken
<1>3. TurnIsHeld'
  BY DEF OrderInv, TurnIsHeld
<1>4. InsertedSoFar'
  BY DEF OrderInv, InsertedSoFar
<1>. QED
  BY <1>1, <1>2, <1>3, <1>4 DEF OrderInv

LEMMA OrderTakeDoc ==
  ASSUME OrderInv, NEW r \in Readers, TakeDoc(r)
  PROVE  OrderInv'
<1>. USE DEF TakeDoc, ReaderGoto, OrderInv, OrderTypes, HasDoc, HasInserted, PastTheWait
<1>1. OrderTypes'
  BY DEF ReaderLabels
<1>2. IdsAreTaken'
  <2>1. ASSUME NEW s \in Readers, HasDoc(s)'
        PROVE  IF s = r THEN docId'[s] = currentDocId
               ELSE HasDoc(s) /\ docId'[s] = docId[s] /\ docId[s] < currentDocId
    BY <2>1 DEF IdsAreTaken
  <2>2. currentDocId' = currentDocId + 1
    OBVIOUS
  <2>. QED
    BY <2>1, <2>2 DEF IdsAreTaken
<1>3. TurnIsHeld'
  BY DEF TurnIsHeld
<1>4. InsertedSoFar'
  BY DEF InsertedSoFar, writerVars
<1>. QED
  BY <1>1, <1>2, <1>3, <1>4

LEMMA OrderAwaitTurn ==
  ASSUME OrderInv, NEW r \in Readers, AwaitTurn(r)
  PROVE  OrderInv'
<1>. USE DEF AwaitTurn, ReaderGoto, OrderInv, OrderTypes, HasDoc, HasInserted, PastTheWait,
             readerLocals, allotVars
<1>1. OrderTypes'
  BY DEF ReaderLabels
<1>2. IdsAreTaken'
  BY DEF IdsAreTaken
<1>3. TurnIsHeld'
  BY DEF TurnIsHeld
<1>4. InsertedSoFar'
  BY DEF InsertedSoFar
<1>. QED
  BY <1>1, <1>2, <1>3, <1>4

\* Only one reader is past the wait.
LEMMA OneReaderAtATime ==
  ASSUME OrderInv
  PROVE  \A r, s \in Readers : PastTheWait(r) /\ PastTheWait(s) => r = s
BY DEF OrderInv, TurnIsHeld, IdsAreTaken, HasDoc, PastTheWait

LEMMA OrderInsertDoc ==
  ASSUME OrderInv, NEW r \in Readers, InsertDoc(r)
  PROVE  OrderInv'
<1>1. /\ rpc[r] = "insert"
      /\ rpc' = [rpc EXCEPT ![r] = "testEmpty"]
      /\ inserted' = Append(inserted, docId[r])
      /\ UNCHANGED <<docId, currentDocId, currentWriteDocId>>
  BY DEF InsertDoc, ReaderGoto, allotVars, readerLocals
<1>2. docId[r] = currentWriteDocId /\ \A s \in Readers : ~HasInserted(s)
  BY <1>1, OneReaderAtATime DEF OrderInv, TurnIsHeld, PastTheWait, HasInserted
<1>. USE DEF OrderInv, OrderTypes, HasDoc, HasInserted, PastTheWait
<1>3. OrderTypes'
  BY <1>1 DEF ReaderLabels
<1>4. IdsAreTaken'
  BY <1>1 DEF IdsAreTaken
<1>5. TurnIsHeld'
  BY <1>1 DEF TurnIsHeld
<1>6. InsertedSoFar'
  <2>1. Len(inserted) = currentWriteDocId
    BY <1>2 DEF InsertedSoFar
  <2>2. /\ Len(inserted') = currentWriteDocId + 1
        /\ \A i \in 1..Len(inserted) : inserted'[i] = inserted[i]
        /\ inserted'[currentWriteDocId + 1] = currentWriteDocId
    BY <1>1, <1>2, <2>1
  <2>3. \A i \in 1..Len(inserted') : inserted'[i] = i - 1
    BY <2>1, <2>2 DEF InsertedSoFar
  <2>4. HasInserted(r)'
    BY <1>1
  <2>. QED
    BY <1>1, <2>2, <2>3, <2>4 DEF InsertedSoFar
<1>. QED
  BY <1>3, <1>4, <1>5, <1>6

LEMMA OrderPassTurn ==
  ASSUME OrderInv, NEW r \in Readers, PassTurn(r)
  PROVE  OrderInv'
<1>1. \A s \in Readers : s # r => ~PastTheWait(s)
  BY OneReaderAtATime DEF PassTurn, PastTheWait
<1>. USE DEF PassTurn, ReaderGoto, OrderInv, OrderTypes, HasDoc, allotVars
<1>2. OrderTypes'
  BY DEF ReaderLabels
<1>3. IdsAreTaken'
  BY DEF IdsAreTaken
<1>4. \A s \in Readers : ~PastTheWait(s)'
  BY <1>1 DEF PastTheWait
<1>5. TurnIsHeld'
  BY <1>4 DEF TurnIsHeld
<1>6. InsertedSoFar'
  <2>1. Len(inserted) = currentWriteDocId + 1
    BY DEF InsertedSoFar, HasInserted, PastTheWait
  <2>2. \A s \in Readers : ~HasInserted(s)'
    BY <1>4 DEF HasInserted
  <2>. QED
    BY <2>1, <2>2 DEF InsertedSoFar
<1>. QED
  BY <1>2, <1>3, <1>5, <1>6

LEMMA OrderStep == OrderInv /\ [Next]_vars => OrderInv'
<1>. SUFFICES ASSUME OrderInv, [Next]_vars PROVE OrderInv'
  OBVIOUS
<1>. USE DEF allotVars, mapVars, signalVars, readerVars, readerLocals, writerVars
<1>1. ASSUME NEW r \in Readers, TakeDoc(r) PROVE OrderInv'
  BY <1>1, OrderTakeDoc
<1>2. ASSUME NEW r \in Readers,
             \/ LayOut(r) \/ ReadMetadata(r) \/ TestEmpty(r) \/ ClearEmpty(r)
             \/ BroadcastRead(r) \/ BroadcastWrite(r)
      PROVE  OrderInv'
  <2>1. UNCHANGED <<docId, currentDocId, currentWriteDocId, inserted>>
    BY <1>2 DEF LayOut, ReadMetadata, TestEmpty, ClearEmpty, BroadcastRead, BroadcastWrite
  <2>2. \E label \in ReaderLabels :
          /\ rpc' = [rpc EXCEPT ![r] = label]
          /\ \/ rpc[r] \in {"layOut", "readMetadata"} /\ label \in {"readMetadata", "turn"}
             \/ /\ rpc[r] \in {"testEmpty", "clearEmpty", "broadcastRead", "broadcastWrite"}
                /\ label \in {"clearEmpty", "broadcastRead", "broadcastWrite", "increment"}
    <3>. USE DEF ReaderLabels, ReaderGoto
    <3>1. CASE LayOut(r)
      BY <3>1 DEF LayOut
    <3>2. CASE ReadMetadata(r)
      BY <3>2 DEF ReadMetadata
    <3>3. CASE TestEmpty(r)
      BY <3>3 DEF TestEmpty
    <3>4. CASE ClearEmpty(r)
      BY <3>4 DEF ClearEmpty
    <3>5. CASE BroadcastRead(r)
      BY <3>5 DEF BroadcastRead
    <3>6. CASE BroadcastWrite(r)
      BY <3>6 DEF BroadcastWrite
    <3>. QED
      BY <1>2, <3>1, <3>2, <3>3, <3>4, <3>5, <3>6
  <2>3. rpc \in [Readers -> ReaderLabels]
    BY DEF OrderInv, OrderTypes
  <2>4. rpc' \in [Readers -> ReaderLabels]
    BY <2>2, <2>3
  <2>5. ASSUME NEW s \in Readers
        PROVE  /\ HasDoc(s)' => HasDoc(s)
               /\ PastTheWait(s)' => PastTheWait(s)
               /\ HasInserted(s)' <=> HasInserted(s)
    BY <2>2, <2>3 DEF HasDoc, HasInserted, PastTheWait
  <2>. QED
    BY <2>1, <2>4, <2>5, OrderStutter DEF HasDoc, HasInserted, PastTheWait
<1>3. ASSUME NEW r \in Readers, AwaitTurn(r) PROVE OrderInv'
  BY <1>3, OrderAwaitTurn
<1>4. ASSUME NEW r \in Readers, InsertDoc(r) PROVE OrderInv'
  BY <1>4, OrderInsertDoc
<1>5. ASSUME NEW r \in Readers, PassTurn(r) PROVE OrderInv'
  BY <1>5, OrderPassTurn
<1>6. ASSUME UNCHANGED <<rpc, docId, currentDocId, currentWriteDocId, inserted>>
      PROVE  OrderInv'
  <2>1. rpc' \in [Readers -> ReaderLabels]
    BY <1>6 DEF OrderInv, OrderTypes
  <2>2. ASSUME NEW s \in Readers
        PROVE  /\ HasDoc(s)' => HasDoc(s)
               /\ PastTheWait(s)' => PastTheWait(s)
               /\ HasInserted(s)' <=> HasInserted(s)
    BY <1>6 DEF HasDoc, HasInserted, PastTheWait
  <2>. QED
    BY <1>6, <2>1, <2>2, OrderStutter DEF HasDoc, HasInserted, PastTheWait
<1>7. ASSUME (\E w \in Writers : Writer(w)) \/ Wakeup \/ UNCHANGED vars
      PROVE  UNCHANGED <<rpc, docId, currentDocId, currentWriteDocId, inserted>>
  BY <1>7 DEF Writer, MarkEmpty, Wait, TakeTop, WritePostings, Wakeup, vars
<1>. QED
  BY <1>1, <1>2, <1>3, <1>4, <1>5, <1>6, <1>7 DEF Next, Reader

\* Documents are inserted in the order of their ids, one reader at a time, whatever the
\* number of readers and however the waits for a turn are woken.
THEOREM InsertedInOrder == Spec => []DocsInsertedInOrder
<1>1. OrderInv => DocsInsertedInOrder
  <2>. SUFFICES ASSUME OrderInv PROVE DocsInsertedInOrder
    OBVIOUS
  <2>1. \A i \in DOMAIN inserted : inserted[i] = i - 1
    BY DEF OrderInv, OrderTypes, InsertedSoFar
  <2>. QED
    BY <2>1, OneReaderAtATime DEF DocsInsertedInOrder
<1>. QED
  BY OrderInit, OrderStep, <1>1, PTL DEF Spec

(***************************************************************************)
(* The wakeups.  A writer is dormant from the moment it has found the      *)
(* queue empty until it is woken.  The last one to become dormant leaves   *)
(* emptyQueue set, for the next reader to find.                            *)
(***************************************************************************)
Dormant(w) == w \in readsAsleep \/ wpc[w] = "wait"

SleepTypes ==
  /\ rpc \in [Readers -> ReaderLabels]
  /\ wpc \in [Writers -> {"look", "wait", "write"}]
  /\ readsAsleep \subseteq Writers
  /\ \A w \in readsAsleep : wpc[w] = "look"
  /\ \A v, w \in Writers : wpc[v] = "wait" /\ wpc[w] = "wait" => v = w

AllDormant == \A w \in Writers : Dormant(w)

EmptyIsMarked ==
  AllDormant => emptyQueue = TRUE \/ \E r \in Readers : rpc[r] = "broadcastRead"

AReaderIsAboutToBroadcast ==
  queue.heap # <<>> /\ AllDormant =>
    \E r \in Readers : \/ rpc[r] = "testEmpty" /\ emptyQueue = TRUE
                       \/ rpc[r] \in {"clearEmpty", "broadcastRead"}

SleepInv == SleepTypes /\ EmptyIsMarked /\ AReaderIsAboutToBroadcast
LEMMA SleepInit == Init /\ Writers # {} => SleepInv
BY DEF Init, SleepInv, SleepTypes, AllDormant, Dormant, EmptyIsMarked,
       AReaderIsAboutToBroadcast, ReaderLabels, EmptyQueue

\* A reader's step: the writers stay where they are, and asleep unless they are woken.
LEMMA SleepReader ==
  ASSUME SleepInv, NEW v \in Writers, NEW w \in Writers, v # w,
         NEW r \in Readers, Reader(r)
  PROVE  SleepInv'
<1>. USE DEF allotVars, mapVars, signalVars, readerVars, readerLocals, writerVars, ReaderGoto
<1>. USE DEF SleepInv
<1>1. SleepTypes'
  <2>1. wpc' = wpc /\ readsAsleep' \in SUBSET readsAsleep
    BY DEF Reader, TakeDoc, LayOut, ReadMetadata, AwaitTurn, InsertDoc, TestEmpty, ClearEmpty,
           BroadcastRead, BroadcastWrite, PassTurn
  <2>2. rpc' \in [Readers -> ReaderLabels]
    <3>1. \E label \in ReaderLabels : rpc' = [rpc EXCEPT ![r] = label] \/ rpc' = rpc
      BY DEF ReaderLabels, Reader, TakeDoc, LayOut, ReadMetadata, AwaitTurn, InsertDoc,
             TestEmpty, ClearEmpty, BroadcastRead, BroadcastWrite, PassTurn
    <3>. QED
      BY <3>1 DEF SleepTypes
  <2>. QED
    BY <2>1, <2>2 DEF SleepTypes
<1>2. CASE InsertDoc(r)
  <2>1. /\ rpc' = [rpc EXCEPT ![r] = "testEmpty"] /\ rpc[r] = "insert"
        /\ UNCHANGED <<emptyQueue, readsAsleep, wpc>>
    BY <1>2 DEF InsertDoc
  <2>. QED
    BY <1>1, <2>1 DEF SleepTypes, AllDormant, Dormant, EmptyIsMarked, AReaderIsAboutToBroadcast
<1>3. CASE BroadcastRead(r)
  <2>1. ~AllDormant'
    BY <1>3 DEF BroadcastRead, SleepTypes, AllDormant, Dormant
  <2>. QED
    BY <1>1, <2>1 DEF EmptyIsMarked, AReaderIsAboutToBroadcast
<1>4. CASE ClearEmpty(r)
  <2>1. rpc'[r] = "broadcastRead"
    BY <1>4 DEF ClearEmpty, SleepTypes
  <2>. QED
    BY <1>1, <2>1 DEF EmptyIsMarked, AReaderIsAboutToBroadcast
<1>5. CASE TestEmpty(r)
  <2>1. /\ rpc[r] = "testEmpty"
        /\ rpc' = [rpc EXCEPT ![r] = IF emptyQueue THEN "clearEmpty" ELSE "broadcastWrite"]
        /\ UNCHANGED <<emptyQueue, readsAsleep, wpc, queue>>
    BY <1>5 DEF TestEmpty
  <2>. QED
    BY <1>1, <2>1
       DEF SleepTypes, AllDormant, Dormant, EmptyIsMarked, AReaderIsAboutToBroadcast
<1>6. CASE \/ TakeDoc(r) \/ LayOut(r) \/ ReadMetadata(r) \/ AwaitTurn(r)
           \/ BroadcastWrite(r) \/ PassTurn(r)
  <2>1. /\ UNCHANGED <<emptyQueue, readsAsleep, wpc, queue>>
        /\ rpc[r] \notin {"testEmpty", "clearEmpty", "broadcastRead"}
        /\ \A s \in Readers \ {r} : rpc'[s] = rpc[s]
    BY <1>6 DEF TakeDoc, LayOut, ReadMetadata, AwaitTurn, BroadcastWrite, PassTurn, SleepTypes
  <2>. QED
    BY <1>1, <2>1 DEF AllDormant, Dormant, EmptyIsMarked, AReaderIsAboutToBroadcast
<1>. QED
  BY <1>2, <1>3, <1>4, <1>5, <1>6 DEF Reader

\* A writer's step, and a spurious wakeup.
LEMMA SleepWriter ==
  ASSUME SleepInv, (\E w \in Writers : Writer(w)) \/ Wakeup
  PROVE  SleepInv'
<1>. USE DEF allotVars, mapVars, signalVars, readerVars, readerLocals, writerVars, WriterGoto
<1>. USE DEF SleepInv
<1>1. rpc' = rpc
  BY DEF Writer, MarkEmpty, Wait, TakeTop, WritePostings, Wakeup
<1>2. ASSUME NEW w \in Writers, MarkEmpty(w) PROVE SleepInv'
  BY <1>2 DEF MarkEmpty, PQueueLockFree, SleepTypes, EmptyIsMarked, AReaderIsAboutToBroadcast
<1>3. ASSUME NEW w \in Writers, Wait(w) PROVE SleepInv'
  <2>1. SleepTypes'
    BY <1>1, <1>3 DEF Wait, SleepTypes
  <2>2. AllDormant' => AllDormant
    BY <1>3 DEF Wait, SleepTypes, AllDormant, Dormant
  <2>. QED
    BY <1>1, <1>3, <2>1, <2>2 DEF Wait, EmptyIsMarked, AReaderIsAboutToBroadcast
<1>4. ASSUME NEW w \in Writers, TakeTop(w) PROVE SleepInv'
  <2>1. SleepTypes' /\ ~AllDormant'
    BY <1>1, <1>4 DEF TakeTop, SleepTypes, AllDormant, Dormant
  <2>. QED
    BY <2>1 DEF EmptyIsMarked, AReaderIsAboutToBroadcast
<1>5. ASSUME NEW w \in Writers, WritePostings(w) PROVE SleepInv'
  <2>1. SleepTypes' /\ ~AllDormant'
    BY <1>1, <1>5 DEF WritePostings, SleepTypes, AllDormant, Dormant
  <2>. QED
    BY <2>1 DEF EmptyIsMarked, AReaderIsAboutToBroadcast
<1>6. ASSUME Wakeup PROVE SleepInv'
  <2>1. readsAsleep' \in SUBSET readsAsleep /\ UNCHANGED <<emptyQueue, wpc, queue>>
    BY <1>6 DEF Wakeup
  <2>. QED
    BY <1>1, <2>1
       DEF SleepTypes, AllDormant, Dormant, EmptyIsMarked, AReaderIsAboutToBroadcast
<1>. QED
  BY <1>2, <1>3, <1>4, <1>5, <1>6 DEF Writer

\* With two writers or more (the code has ten), words are never queued while all of the
\* writers are asleep and no reader is about to wake them.
THEOREM NoLostWakeup ==
  ASSUME NEW v \in Writers, NEW w \in Writers, v # w
  PROVE  Spec => []WritersNeverStall
<1>1. Init => SleepInv
  BY SleepInit
<1>2. SleepInv /\ [Next]_vars => SleepInv'
  <2>1. SleepInv /\ UNCHANGED vars => SleepInv'
    BY DEF vars, signalVars, readerVars, writerVars, SleepInv, SleepTypes, AllDormant, Dormant,
           EmptyIsMarked, AReaderIsAboutToBroadcast
  <2>. QED
    BY <2>1, SleepReader, SleepWriter DEF Next
<1>3. SleepInv => WritersNeverStall
  BY DEF SleepInv, SleepTypes, AReaderIsAboutToBroadcast, AllDormant, Dormant, WritersNeverStall
<1>. QED
  BY <1>1, <1>2, <1>3, PTL DEF Spec

(***************************************************************************)
(* The queue between two calls: every entry of the heap is the one that    *)
(* the map has for its word.  up() and down() carry an entry along a path  *)
(* of the heap; neither the swaps of such a path nor insert and pop ever   *)
(* lead the map to another entry than the word's.                          *)
(***************************************************************************)
MapLeadsToEntries(heap, map) == \A i \in 1..Len(heap) : map[heap[i].word] = i

QueueOK(q) ==
  /\ q \in [heap : Seq(Entry), map : [Words -> Nat], slot : Words \cup {NoWord},
            spilled : Seq(Nat)]
  /\ MapLeadsToEntries(q.heap, q.map)

\* The swaps along a path keep the entries, each at one index, and the map with them.
LEMMA CarryKeepsTheQueue ==
  ASSUME NEW q, QueueOK(q), NEW path, IsPath(path, 1..Len(q.heap))
  PROVE  QueueOK(Carry(q, path)) /\ Carry(q, path).spilled = q.spilled
<1>. DEFINE h == q.heap
            n == Len(path)
            on == Range(path)
            place(k) == CHOOSE j \in 1..n : path[j] = k
            from(k) == LET j == CHOOSE j \in 1..n : path[j] = k
                       IN  path[IF j = n THEN 1 ELSE j + 1]
            moved == [k \in DOMAIN h |-> IF k \in on THEN h[from(k)] ELSE h[k]]
            home(w) == {k \in on : n > 1 /\ moved[k].word = w}
            map == [w \in Words |-> IF home(w) = {} THEN q.map[w]
                                    ELSE CHOOSE k \in home(w) : TRUE]
<1>1. /\ h \in Seq(Entry) /\ DOMAIN h = 1..Len(h) /\ Len(h) \in Nat
      /\ q.map \in [Words -> Nat]
      /\ \A i \in 1..Len(h) : h[i] \in Entry /\ h[i].word \in Words /\ q.map[h[i].word] = i
  <2>1. h \in Seq(Entry) /\ q.map \in [Words -> Nat] /\ MapLeadsToEntries(h, q.map)
    BY DEF QueueOK
  <2>2. \A e \in Entry : e.word \in Words
    BY DEF Entry
  <2>. HIDE DEF h
  <2>. QED
    BY <2>1, <2>2 DEF MapLeadsToEntries
<1>2. Carry(q, path) = [q EXCEPT !.heap = moved, !.map = map]
  BY Zenon DEF Carry
<1>3. /\ n \in Nat /\ n > 0 /\ \A a \in 1..n : path[a] \in 1..Len(h)
      /\ \A a, b \in 1..n : path[a] = path[b] => a = b
      /\ on \subseteq 1..Len(h)
      /\ \A k : k \in on <=> \E j \in 1..n : path[j] = k
  BY DEF IsPath, Range
<1>4. \A k \in on : /\ place(k) \in 1..n /\ path[place(k)] = k
                    /\ from(k) = path[IF place(k) = n THEN 1 ELSE place(k) + 1]
  BY <1>3
<1>. HIDE DEF place, from
<1>5. ASSUME NEW k \in on, NEW l \in on, from(k) = from(l) PROVE k = l
  <2>1. /\ (IF place(k) = n THEN 1 ELSE place(k) + 1) \in 1..n
        /\ (IF place(l) = n THEN 1 ELSE place(l) + 1) \in 1..n
    BY <1>3, <1>4
  <2>2. (IF place(k) = n THEN 1 ELSE place(k) + 1) = (IF place(l) = n THEN 1 ELSE place(l) + 1)
    BY <1>3, <1>4, <1>5, <2>1
  <2>3. place(k) = place(l)
    BY <1>3, <1>4, <2>2
  <2>. QED
    BY <1>4, <2>3
<1>6. ASSUME NEW k \in on PROVE from(k) \in on /\ (n = 1 => from(k) = k)
  BY <1>3, <1>4
<1>. HIDE DEF on, n, h
<1>7. /\ moved \in Seq(Entry) /\ Len(moved) = Len(h)
      /\ \A k \in 1..Len(h) : moved[k] = IF k \in on THEN h[from(k)] ELSE h[k]
  <2>1. \A k \in on : from(k) \in 1..Len(h)
    BY <1>3, <1>6
  <2>2. moved \in [1..Len(h) -> Entry]
    BY <1>1, <2>1
  <2>. QED
    BY <1>1, <2>2
<1>. HIDE DEF moved
<1>8. \A k, l \in 1..Len(h) : moved[k].word = moved[l].word => k = l
  <2>. SUFFICES ASSUME NEW k \in 1..Len(h), NEW l \in 1..Len(h), moved[k].word = moved[l].word
                PROVE  k = l
    OBVIOUS
  <2>1. \A i, j \in 1..Len(h) : h[i].word = h[j].word => i = j
    BY <1>1
  <2>2. (IF k \in on THEN from(k) ELSE k) = (IF l \in on THEN from(l) ELSE l)
    BY <1>3, <1>6, <1>7, <2>1
  <2>. QED
    BY <1>5, <1>6, <2>2
<1>9. map \in [Words -> Nat]
  <2>1. \A w \in Words : home(w) # {} => (CHOOSE k \in home(w) : TRUE) \in home(w)
    OBVIOUS
  <2>2. \A w \in Words : home(w) \subseteq Nat
    BY <1>1, <1>3
  <2>. QED
    BY <1>1, <2>1, <2>2
<1>10. ASSUME NEW k \in 1..Len(moved) PROVE map[moved[k].word] = k
  <2>. DEFINE w == moved[k].word
  <2>1. k \in 1..Len(h) /\ moved[k] \in Entry /\ w \in Words
    <3>1. \A e \in Entry : e.word \in Words
      BY DEF Entry
    <3>. QED
      BY <1>7, <3>1
  <2>2. CASE k \in on /\ n > 1
    <3>1. home(w) = {k}
      BY <1>3, <1>8, <2>1, <2>2
    <3>. HIDE DEF home
    <3>. QED
      BY <2>1, <3>1
  <2>3. CASE ~(k \in on /\ n > 1)
    <3>1. home(w) = {}
      BY <1>3, <1>8, <2>1, <2>3
    <3>2. moved[k] = h[k]
      BY <1>3, <1>6, <1>7, <2>1, <2>3
    <3>. HIDE DEF home
    <3>. QED
      BY <1>1, <2>1, <3>1, <3>2
  <2>. QED
    BY <2>2, <2>3
<1>. HIDE DEF map
<1>11. MapLeadsToEntries(moved, map)
  BY <1>10 DEF MapLeadsToEntries
<1>12. q \in [heap : Seq(Entry), map : [Words -> Nat], slot : Words \cup {NoWord},
             spilled : Seq(Nat)]
  BY DEF QueueOK
<1>. QED
  BY <1>2, <1>7, <1>9, <1>11, <1>12 DEF QueueOK, h

LEMMA UpKeepsTheQueue ==
  ASSUME NEW q, QueueOK(q), NEW node \in 1..Len(q.heap)
  PROVE  QueueOK(Up(q, node))
<1>. DEFINE h == q.heap
            I == 1..node
            stops(i) == i = 1 \/ h[node].numWords <= h[i \div 2].numWords
            next == [i \in I |-> IF stops(i) THEN i ELSE i \div 2]
            rank == [i \in I |-> i]
            path[i \in I] ==
              IF i = 1 \/ h[node].numWords <= h[i \div 2].numWords
              THEN <<i>>
              ELSE <<i>> \o path[i \div 2]
<1>1. Up(q, node) = Carry(q, path[node])
  BY Zenon DEF Up
<1>2. node \in Nat /\ node > 0 /\ h \in Seq(Entry)
  <2>1. h \in Seq(Entry)
    BY DEF QueueOK
  <2>. HIDE DEF h
  <2>. QED
    BY <2>1 DEF h
<1>. HIDE DEF stops
<1>3. \A i \in I : i # 1 => i \div 2 \in I /\ i \div 2 < i
  BY <1>2
<1>4. next \in [I -> I] /\ rank \in [I -> 0..node]
  BY <1>2, <1>3 DEF stops
<1>5. \A i \in I : (next[i] = i <=> stops(i)) /\ (~stops(i) => next[i] = i \div 2)
  BY <1>3 DEF stops
<1>6. RankFalls(I, node, next, rank)
  BY <1>2, <1>3, <1>4, <1>5 DEF RankFalls, stops
<1>. HIDE DEF next, rank, I
<1>7. PICK f : ArePathsOf(f, I, next)
  BY <1>6, PathsExist
<1>8. [i \in I |-> IF next[i] = i THEN <<i>> ELSE <<i>> \o f[next[i]]]
      = [i \in I |-> IF stops(i) THEN <<i>> ELSE <<i>> \o f[i \div 2]]
  BY <1>5
<1>9. f = [i \in I |-> IF stops(i) THEN <<i>> ELSE <<i>> \o f[i \div 2]]
  BY <1>7, <1>8 DEF ArePathsOf
<1>10. path = [i \in I |-> IF stops(i) THEN <<i>> ELSE <<i>> \o path[i \div 2]]
  BY <1>9, Zenon DEF stops, I
<1>. HIDE DEF path
<1>11. ArePathsOf(path, I, next)
  <2>1. [i \in I |-> IF next[i] = i THEN <<i>> ELSE <<i>> \o path[next[i]]]
        = [i \in I |-> IF stops(i) THEN <<i>> ELSE <<i>> \o path[i \div 2]]
    BY <1>5
  <2>. QED
    BY <1>10, <2>1 DEF ArePathsOf
<1>12. \A i \in I : IsPath(path[i], I)
  BY <1>6, <1>11, PathsMeetNoneTwice
<1>13. IsPath(path[node], 1..Len(q.heap))
  <2>. DEFINE p == path[node]
              J == 1..Len(q.heap)
  <2>1. node \in I /\ \A i \in I : i \in J
    BY <1>2 DEF I
  <2>2. IsPath(p, I)
    BY <1>12, <2>1
  <2>. HIDE DEF p, J
  <2>3. p \in Seq(J)
    <3>1. p \in Seq(I)
      BY <2>2 DEF IsPath
    <3>2. Len(p) \in Nat /\ p = [k \in 1..Len(p) |-> p[k]] /\ \A k \in 1..Len(p) : p[k] \in I
      BY <3>1
    <3>3. [k \in 1..Len(p) |-> p[k]] \in Seq(J)
      BY <2>1, <3>2
    <3>. QED
      BY <3>2, <3>3
  <2>4. IsPath(p, J)
    BY <2>2, <2>3 DEF IsPath
  <2>. QED
    BY <2>4 DEF p, J
<1>. QED
  BY <1>1, <1>13, CarryKeepsTheQueue

LEMMA DownKeepsTheQueue ==
  ASSUME NEW q, QueueOK(q)
  PROVE  QueueOK(Down(q)) /\ Down(q).spilled = q.spilled
<1>. DEFINE h == q.heap
            I == DOMAIN h
            N == Len(h)
            left(i)  == IF 2 * i \in DOMAIN h /\ h[2 * i].numWords > h[1].numWords
                        THEN 2 * i ELSE i
            most(i)  == h[IF left(i) = i THEN 1 ELSE left(i)].numWords
            child(i) == IF 2 * i + 1 \in DOMAIN h /\ h[2 * i + 1].numWords > most(i)
                        THEN 2 * i + 1 ELSE left(i)
            next == [i \in I |-> child(i)]
            rank == [i \in I |-> N - i]
            path[i \in DOMAIN h] == IF child(i) = i THEN <<i>> ELSE <<i>> \o path[child(i)]
<1>1. Down(q) = IF h = <<>> THEN q ELSE Carry(q, path[1])
  BY Zenon DEF Down
<1>. SUFFICES ASSUME h # <<>>
              PROVE  QueueOK(Carry(q, path[1])) /\ Carry(q, path[1]).spilled = q.spilled
  BY <1>1
<1>2. h \in Seq(Entry)
  BY DEF QueueOK
<1>3. N \in Nat /\ I = 1..N /\ 1 \in I
  <2>. HIDE DEF h
  <2>. QED
    BY <1>2
<1>4. \A i \in I : child(i) \in I /\ (child(i) # i => i < child(i))
  <2>1. \A i \in I : left(i) \in I /\ (left(i) # i => i < left(i))
    <3>. HIDE DEF h, N
    <3>. QED
      BY <1>3
  <2>. HIDE DEF left, most, h, N
  <2>. QED
    BY <1>3, <2>1
<1>. HIDE DEF child, N
<1>5. /\ next \in [I -> I] /\ rank \in [I -> 0..N]
      /\ \A i \in I : next[i] = child(i) /\ rank[i] = N - i
  <2>. HIDE DEF h
  <2>. QED
    BY <1>3, <1>4
<1>. HIDE DEF next, rank
<1>6. RankFalls(I, N, next, rank)
  <2>. HIDE DEF h, I
  <2>1. N \in Int /\ \A i \in I : i \in Int /\ child(i) \in Int
    BY <1>3, <1>4
  <2>2. \A i \in I : next[i] # i => rank[next[i]] < rank[i]
    BY <1>4, <1>5, <2>1
  <2>. QED
    BY <1>3, <1>5, <2>2 DEF RankFalls
<1>. HIDE DEF I
<1>7. PICK f : ArePathsOf(f, I, next)
  BY <1>6, PathsExist
<1>8. [i \in I |-> IF next[i] = i THEN <<i>> ELSE <<i>> \o f[next[i]]]
      = [i \in I |-> IF child(i) = i THEN <<i>> ELSE <<i>> \o f[child(i)]]
  BY <1>5
<1>9. f = [i \in I |-> IF child(i) = i THEN <<i>> ELSE <<i>> \o f[child(i)]]
  BY <1>7, <1>8 DEF ArePathsOf
<1>10. path = [i \in I |-> IF child(i) = i THEN <<i>> ELSE <<i>> \o path[child(i)]]
  BY <1>9, Zenon DEF I
<1>. HIDE DEF path
<1>11. ArePathsOf(path, I, next)
  <2>1. [i \in I |-> IF next[i] = i THEN <<i>> ELSE <<i>> \o path[next[i]]]
        = [i \in I |-> IF child(i) = i THEN <<i>> ELSE <<i>> \o path[child(i)]]
    BY <1>5
  <2>. QED
    BY <1>10, <2>1 DEF ArePathsOf
<1>12. \A i \in I : IsPath(path[i], I)
  BY <1>6, <1>11, PathsMeetNoneTwice
<1>13. IsPath(path[1], 1..Len(q.heap))
  <2>1. IsPath(path[1], I)
    BY <1>3, <1>12
  <2>. QED
    BY <1>3, <2>1 DEF N
<1>. QED
  BY <1>13, CarryKeepsTheQueue

\* insert keeps the map right even when it finds an index that is no longer the word's.
LEMMA InsertKeepsTheQueue ==
  ASSUME NEW q, QueueOK(q), NEW word \in Words, NEW locs \in Seq(Nat),
         NEW numWords \in 0..NumWordsLimit - 1
  PROVE  QueueOK(Insert(q, word, locs, numWords))
<1>. DEFINE index == q.map[word]
            size == Len(q.heap)
            new == [word |-> word, numWords |-> numWords, locations |-> <<>>]
<1>1. /\ q.heap \in Seq(Entry) /\ q.map \in [Words -> Nat] /\ q.spilled \in Seq(Nat)
      /\ MapLeadsToEntries(q.heap, q.map) /\ size \in Nat /\ index \in Nat
  <2>1. q.heap \in Seq(Entry) /\ q.map \in [Words -> Nat] /\ q.spilled \in Seq(Nat)
    BY DEF QueueOK
  <2>. QED
    BY <2>1 DEF QueueOK
<1>2. \A e \in Entry : AddLocations(e, locs) \in Entry /\ AddLocations(e, locs).word = e.word
  <2>. SUFFICES ASSUME NEW e \in Entry
                PROVE  AddLocations(e, locs) \in Entry /\ AddLocations(e, locs).word = e.word
    OBVIOUS
  <2>. DEFINE count == (e.numWords + Len(locs)) % NumWordsLimit
              all == e.locations \o locs
  <2>1. e.word \in Words /\ e.numWords \in Nat /\ e.locations \in Seq(Nat)
    BY DEF Entry
  <2>2. count \in 0..NumWordsLimit - 1 /\ all \in Seq(Nat)
    BY <2>1, NumWordsAssumption
  <2>3. AddLocations(e, locs) = [e EXCEPT !.locations = all, !.numWords = count]
    BY DEF AddLocations
  <2>. HIDE DEF count, all
  <2>. QED
    BY <2>2, <2>3 DEF Entry
<1>3. new \in Entry /\ new.word = word
  BY DEF Entry
<1>4. \A i \in 1..size :
        q.heap[i] \in Entry /\ q.heap[i].word \in Words /\ q.map[q.heap[i].word] = i
  <2>1. \A e \in Entry : e.word \in Words
    BY DEF Entry
  <2>. QED
    BY <1>1, <2>1 DEF MapLeadsToEntries
<1>5. CASE index = 0
  <2>. DEFINE e == AddLocations(new, locs)
              heap == Append(q.heap, e)
              map == [q.map EXCEPT ![word] = size + 1]
              r == [q EXCEPT !.heap = Append(@, AddLocations(new, locs)), !.map[word] = size + 1]
  <2>1. Insert(q, word, locs, numWords) = Up(r, size + 1)
    BY <1>5, Zenon DEF Insert
  <2>2. e \in Entry /\ e.word = word
    BY <1>2, <1>3
  <2>3. r = [q EXCEPT !.heap = heap, !.map = map]
    OBVIOUS
  <2>. HIDE DEF e, r, new
  <2>4. /\ heap \in Seq(Entry) /\ map \in [Words -> Nat] /\ Len(heap) = size + 1
        /\ \A i \in 1..size : heap[i] = q.heap[i]
        /\ heap[size + 1] = e
    BY <1>1, <2>2
  <2>. HIDE DEF heap
  <2>5. MapLeadsToEntries(heap, map)
    <3>1. ASSUME NEW i \in 1..size PROVE map[heap[i].word] = i
      <4>1. heap[i] = q.heap[i] /\ q.heap[i] \in Entry /\ q.map[q.heap[i].word] = i
        BY <1>4, <2>4
      <4>2. heap[i].word \in Words /\ q.map[heap[i].word] # 0
        BY <1>1, <1>4, <4>1
      <4>3. heap[i].word # word
        BY <1>5, <4>2
      <4>. QED
        BY <1>1, <4>1, <4>2, <4>3
    <3>2. map[heap[size + 1].word] = size + 1
      BY <1>1, <2>2, <2>4
    <3>. QED
      BY <1>1, <2>4, <3>1, <3>2 DEF MapLeadsToEntries
  <2>. HIDE DEF map, size, index
  <2>6. QueueOK(r) /\ r.heap = heap
    BY <2>3, <2>4, <2>5 DEF QueueOK
  <2>7. size + 1 \in 1..Len(r.heap)
    BY <1>1, <2>4, <2>6
  <2>. QED
    BY <2>1, <2>6, <2>7, UpKeepsTheQueue
<1>6. CASE index # 0 /\ index <= size
  <2>. DEFINE e == AddLocations(q.heap[index], locs)
              heap == [q.heap EXCEPT ![index] = e]
              r == [q EXCEPT !.heap[index] = AddLocations(@, locs)]
  <2>1. Insert(q, word, locs, numWords) = Up(r, index)
    BY <1>6, Zenon DEF Insert
  <2>2. r = [q EXCEPT !.heap = heap]
    OBVIOUS
  <2>3. index \in 1..size /\ e \in Entry /\ e.word = q.heap[index].word
    BY <1>1, <1>2, <1>4, <1>6
  <2>. HIDE DEF e, r, new, index
  <2>4. /\ heap \in Seq(Entry) /\ Len(heap) = size
        /\ \A i \in 1..size : heap[i] = IF i = index THEN e ELSE q.heap[i]
    BY <1>1, <2>3
  <2>. HIDE DEF heap
  <2>5. MapLeadsToEntries(heap, q.map)
    BY <1>4, <2>3, <2>4 DEF MapLeadsToEntries
  <2>. HIDE DEF size
  <2>6. QueueOK(r) /\ r.heap = heap
    BY <2>2, <2>4, <2>5 DEF QueueOK
  <2>7. index \in 1..Len(r.heap)
    BY <2>3, <2>4, <2>6
  <2>. QED
    BY <2>1, <2>6, <2>7, UpKeepsTheQueue
<1>7. CASE index # 0 /\ ~(index <= size)
  <2>. DEFINE s == q.spilled \o locs
  <2>1. Insert(q, word, locs, numWords) = [q EXCEPT !.spilled = s]
    BY <1>7 DEF Insert
  <2>2. s \in Seq(Nat)
    BY <1>1
  <2>. HIDE DEF s, index, size, new
  <2>. QED
    BY <2>1, <2>2 DEF QueueOK
<1>. QED
  BY <1>5, <1>6, <1>7

\* pop takes the root's word out of the map and gives its place to the last entry.
LEMMA PopKeepsTheQueue ==
  ASSUME NEW q, QueueOK(q), q.heap # <<>>
  PROVE  QueueOK(Pop(q)) /\ Top(q) \in Entry /\ Pop(q).spilled = q.spilled
<1>. DEFINE size == Len(q.heap)
            last == q.heap[size]
            top == Top(q)
            map == [[q.map EXCEPT ![Top(q).word] = 0] EXCEPT ![last.word] = 1]
            moved == [q.heap EXCEPT ![1] = last]
            heap == SubSeq(moved, 1, size - 1)
            slot == IF size = 1 THEN Top(q).word ELSE q.slot
            r == [q EXCEPT !.heap = heap, !.map = map,
                           !.slot = IF size = 1 THEN Top(q).word ELSE @]
<1>1. Pop(q) = Down(r)
  BY Zenon DEF Pop
<1>2. r = [q EXCEPT !.heap = heap, !.map = map, !.slot = slot]
  OBVIOUS
<1>3. /\ q.heap \in Seq(Entry) /\ q.map \in [Words -> Nat] /\ q.slot \in Words \cup {NoWord}
      /\ MapLeadsToEntries(q.heap, q.map)
  BY DEF QueueOK
<1>4. \A e \in Entry : e.word \in Words
  BY DEF Entry
<1>5. size \in Nat /\ size > 0 /\ top = q.heap[1]
  BY <1>3 DEF Top
<1>6. /\ \A i \in 1..size : q.heap[i] \in Entry /\ q.map[q.heap[i].word] = i
      /\ last \in Entry /\ top \in Entry /\ last.word \in Words /\ top.word \in Words
  BY <1>3, <1>4, <1>5 DEF MapLeadsToEntries
<1>7. map \in [Words -> Nat] /\ slot \in Words \cup {NoWord}
  BY <1>3, <1>6
<1>8. /\ moved \in Seq(Entry) /\ Len(moved) = size
      /\ \A i \in 1..size : moved[i] = IF i = 1 THEN last ELSE q.heap[i]
  BY <1>3, <1>5, <1>6
<1>. HIDE DEF moved
<1>9. /\ heap \in Seq(Entry) /\ Len(heap) = size - 1
      /\ \A i \in 1..size - 1 : heap[i] = IF i = 1 THEN last ELSE q.heap[i]
  BY <1>5, <1>8
<1>. HIDE DEF heap
<1>10. ASSUME NEW i \in 1..size - 1 PROVE map[heap[i].word] = i
  <2>1. CASE i = 1
    BY <1>3, <1>6, <1>9, <2>1
  <2>2. CASE i # 1
    <3>1. i \in 1..size /\ 1 \in 1..size /\ size \in 1..size /\ i # size
      BY <1>5
    <3>2. heap[i] = q.heap[i] /\ q.map[heap[i].word] = i /\ heap[i].word \in Words
      BY <1>4, <1>6, <1>9, <2>2, <3>1
    <3>3. q.map[last.word] = size /\ q.map[top.word] = 1
      BY <1>5, <1>6, <3>1
    <3>4. heap[i].word # last.word /\ heap[i].word # top.word
      BY <2>2, <3>1, <3>2, <3>3
    <3>. QED
      BY <1>3, <3>2, <3>4
  <2>. QED
    BY <2>1, <2>2
<1>. HIDE DEF map, slot, last, top, r
<1>11. MapLeadsToEntries(heap, map)
  BY <1>9, <1>10 DEF MapLeadsToEntries
<1>12. QueueOK(r) /\ r.spilled = q.spilled
  BY <1>2, <1>7, <1>9, <1>11 DEF QueueOK
<1>13. Top(q) \in Entry
  BY <1>6 DEF top
<1>. QED
  BY <1>1, <1>12, <1>13, DownKeepsTheQueue

(***************************************************************************)
(* The operators of the model on the documents.                            *)
(***************************************************************************)
Document ==
  [url : Urls, urlWords : Seq(Words), words : Seq(Words),
   anchors : Seq([url : Urls, words : Seq(Words)])]

LEMMA DocumentFields ==
  ASSUME NEW d \in Document
  PROVE  /\ d.url \in Urls /\ d.urlWords \in Seq(Words) /\ d.words \in Seq(Words)
         /\ d.anchors \in Seq([url : Urls, words : Seq(Words)])
         /\ Len(d.anchors) \in Nat /\ DOMAIN d.anchors = 1..Len(d.anchors)
         /\ \A j \in 1..Len(d.anchors) :
              d.anchors[j].url \in Urls /\ d.anchors[j].words \in Seq(Words)
<1>. DEFINE Anchor == [url : Urls, words : Seq(Words)]
<1>1. /\ d.url \in Urls /\ d.urlWords \in Seq(Words) /\ d.words \in Seq(Words)
      /\ d.anchors \in Seq(Anchor)
  BY DEF Document
<1>2. \A a \in Anchor : a.url \in Urls /\ a.words \in Seq(Words)
  OBVIOUS
<1>. HIDE DEF Anchor
<1>3. Len(d.anchors) \in Nat /\ DOMAIN d.anchors = 1..Len(d.anchors)
      /\ \A j \in 1..Len(d.anchors) : d.anchors[j] \in Anchor
  BY <1>1
<1>. QED
  BY <1>1, <1>2, <1>3 DEF Anchor

\* FlattenSeq of sequences of elements of S is a sequence of elements of S.
LEMMA FlattenedSequence ==
  ASSUME NEW S, NEW seqs \in Seq(Seq(S))
  PROVE  FlattenSeq(seqs) \in Seq(S)
<1>. DEFINE N == Len(seqs)
            flatten[i \in 1..Len(seqs)] == IF i = 1 THEN seqs[i] ELSE flatten[i-1] \o seqs[i]
            next == [p \in (1..N) \X Seq(S) |-> IF p[1] = 1 THEN seqs[p[1]] ELSE p[2] \o seqs[p[1]]]
<1>1. N \in Nat /\ \A i \in 1..N : seqs[i] \in Seq(S)
  OBVIOUS
<1>2. CASE N = 0
  BY <1>2 DEF FlattenSeq
<1>3. CASE N # 0
  <2>1. FlattenSeq(seqs) = flatten[Len(seqs)]
    BY <1>3, Zenon DEF FlattenSeq
  <2>2. next \in [(1..N) \X Seq(S) -> Seq(S)]
    <3>1. ASSUME NEW i \in 1..N, NEW s \in Seq(S)
          PROVE  (IF i = 1 THEN seqs[i] ELSE s \o seqs[i]) \in Seq(S)
      BY <1>1
    <3>. HIDE DEF N
    <3>. QED
      BY <3>1
  <2>3. \A i \in 1..N, s \in Seq(S) : next[<<i, s>>] = IF i = 1 THEN seqs[i] ELSE s \o seqs[i]
    OBVIOUS
  <2>4. <<>> \in Seq(S)
    OBVIOUS
  <2>. HIDE DEF next, N
  <2>5. PICK f : AreResults(f, N, Seq(S), <<>>, next)
    BY <1>1, <2>2, <2>4, ResultsExist
  <2>6. \A i \in 1..N : f[i] = IF i = 1 THEN seqs[i] ELSE f[i - 1] \o seqs[i]
    <3>. SUFFICES ASSUME NEW i \in 1..N
                  PROVE  f[i] = IF i = 1 THEN seqs[i] ELSE f[i - 1] \o seqs[i]
      OBVIOUS
    <3>1. i - 1 \in 0..N
      BY <1>1
    <3>2. f[i - 1] \in Seq(S) /\ f[i] = next[<<i, f[i - 1]>>]
      BY <2>5, <3>1 DEF AreResults
    <3>. QED
      BY <2>3, <3>2
  <2>. DEFINE g == [i \in 1..N |-> f[i]]
  <2>7. \A i \in 1..N : g[i] = IF i = 1 THEN seqs[i] ELSE g[i - 1] \o seqs[i]
    BY <1>1, <2>6
  <2>8. g = [i \in 1..N |-> IF i = 1 THEN seqs[i] ELSE g[i - 1] \o seqs[i]]
    <3>1. g = [i \in 1..N |-> g[i]]
      OBVIOUS
    <3>. HIDE DEF g
    <3>. QED
      BY <2>7, <3>1
  <2>. HIDE DEF g
  <2>9. flatten = [i \in 1..N |-> IF i = 1 THEN seqs[i] ELSE flatten[i - 1] \o seqs[i]]
    BY <2>8, Zenon DEF N
  <2>. HIDE DEF flatten
  <2>10. \A i \in 1..N : flatten[i] = IF i = 1 THEN seqs[i] ELSE flatten[i - 1] \o seqs[i]
    BY <2>9, Zenon
  <2>. DEFINE T == {n \in 0..N : n = 0 \/ flatten[n] \in Seq(S)}
  <2>11. 0 \in T
    BY <1>1
  <2>12. ASSUME NEW n \in 1..N, n - 1 \in T PROVE n \in T
    <3>1. n \in 0..N /\ seqs[n] \in Seq(S) /\ (n # 1 => flatten[n - 1] \in Seq(S))
      BY <1>1, <2>12
    <3>2. flatten[n] = IF n = 1 THEN seqs[n] ELSE flatten[n - 1] \o seqs[n]
      BY <2>10
    <3>3. flatten[n] \in Seq(S)
      BY <3>1, <3>2
    <3>. QED
      BY <3>1, <3>3
  <2>. HIDE DEF T
  <2>13. 0..N \subseteq T
    BY <1>1, <2>11, <2>12, UpToBound
  <2>14. flatten[N] \in Seq(S)
    BY <1>1, <1>3, <2>13 DEF T
  <2>. QED
    BY <2>1, <2>14 DEF N
<1>. QED
  BY <1>2, <1>3

LEMMA TokensAreWords ==
  ASSUME NEW d \in Document
  PROVE  Tokens(d) \in Seq(Words) /\ DocSize(d) \in Nat
<1>. DEFINE parts == [j \in DOMAIN d.anchors |-> AnchorTokens(d.anchors[j])]
            rest == FlattenSeq(parts)
            own == d.urlWords \o d.words \o <<DocEnd>>
<1>1. \A j \in 1..Len(d.anchors) : AnchorTokens(d.anchors[j]) \in Seq(Words)
  BY DocumentFields, DocsAssumption DEF AnchorTokens
<1>2. parts \in Seq(Seq(Words))
  <2>1. Len(d.anchors) \in Nat /\ DOMAIN d.anchors = 1..Len(d.anchors)
    BY DocumentFields
  <2>2. parts = [j \in 1..Len(d.anchors) |-> AnchorTokens(d.anchors[j])]
    BY <2>1
  <2>. QED
    BY <1>1, <2>1, <2>2
<1>. HIDE DEF parts
<1>3. rest \in Seq(Words)
  BY <1>2, FlattenedSequence
<1>4. own \in Seq(Words) /\ Len(own) = Len(d.urlWords) + Len(d.words) + 1
  <2>1. d.urlWords \in Seq(Words) /\ d.words \in Seq(Words) /\ DocEnd \in Words
    BY DocumentFields, DocsAssumption
  <2>. QED
    BY <2>1
<1>5. Tokens(d) = (own \o rest)
  BY DEF Tokens, parts
<1>6. Len(d.urlWords) \in Nat /\ Len(d.words) \in Nat
  BY DocumentFields
<1>. HIDE DEF own, rest
<1>7. own \in Seq(Words)
  BY <1>4
<1>8. (own \o rest) \in Seq(Words) /\ Len(own \o rest) = Len(own) + Len(rest) /\ Len(rest) \in Nat
  BY <1>3, <1>7
<1>9. Tokens(d) \in Seq(Words) /\ Len(Tokens(d)) = Len(own) + Len(rest) /\ Len(rest) \in Nat
  BY <1>5, <1>8
<1>10. DocSize(d) = Len(Tokens(d)) - Len(d.urlWords)
  BY DEF DocSize
<1>11. Len(own) = Len(d.urlWords) + Len(d.words) + 1
  BY <1>4, Zenon
<1>12. Len(Tokens(d)) = Len(own) + Len(rest)
  BY <1>9, Zenon
<1>13. Len(rest) \in Nat
  BY <1>9, Zenon
<1>14. DocSize(d) = Len(d.words) + 1 + Len(rest)
  <2>. DEFINE a == Len(d.urlWords)
              b == Len(d.words)
              c == Len(rest)
              s == DocSize(d)
  <2>1. a \in Nat /\ b \in Nat /\ c \in Nat
    BY <1>6, <1>13
  <2>2. s = a + b + 1 + c - a
    BY <1>10, <1>11, <1>12
  <2>. HIDE DEF a, b, c, s
  <2>3. s = b + 1 + c
    BY <2>1, <2>2
  <2>. QED
    BY <2>3 DEF a, b, c, s
<1>. QED
  BY <1>6, <1>9, <1>13, <1>14

LEMMA LocationsAreNumbers ==
  ASSUME NEW d \in Document, NEW start \in Nat, NEW word
  PROVE  LocationsOf(d, start, word) \in Seq(Nat)
<1>. DEFINE tokens == Tokens(d)
            N == Len(tokens)
            found[n \in 0..Len(tokens)] ==
              IF n = 0 THEN <<>>
              ELSE IF tokens[n] = word THEN Append(found[n - 1], start + n - 1) ELSE found[n - 1]
            step(n, s) == IF tokens[n] = word THEN Append(s, start + n - 1) ELSE s
            next == [p \in (1..N) \X Seq(Nat) |-> step(p[1], p[2])]
<1>1. LocationsOf(d, start, word) = found[Len(tokens)]
  BY Zenon DEF LocationsOf
<1>2. tokens \in Seq(Words) /\ N \in Nat
  <2>1. tokens \in Seq(Words)
    BY TokensAreWords
  <2>. QED
    BY <2>1
<1>. HIDE DEF tokens
<1>3. \A n \in 1..N, s \in Seq(Nat) : step(n, s) \in Seq(Nat)
  <2>. SUFFICES ASSUME NEW n \in 1..N, NEW s \in Seq(Nat) PROVE step(n, s) \in Seq(Nat)
    OBVIOUS
  <2>1. start + n - 1 \in Nat
    BY <1>2
  <2>. QED
    BY <2>1
<1>. HIDE DEF step
<1>4. next \in [(1..N) \X Seq(Nat) -> Seq(Nat)]
  <2>. HIDE DEF N
  <2>. QED
    BY <1>3
<1>5. \A n \in 1..N, s \in Seq(Nat) : next[<<n, s>>] = step(n, s)
  OBVIOUS
<1>6. <<>> \in Seq(Nat)
  OBVIOUS
<1>. HIDE DEF next, N
<1>7. PICK f : AreResults(f, N, Seq(Nat), <<>>, next)
  BY <1>2, <1>4, <1>6, ResultsExist
<1>8. \A n \in 0..N : f[n] = IF n = 0 THEN <<>> ELSE step(n, f[n - 1])
  <2>. SUFFICES ASSUME NEW n \in 1..N PROVE f[n] = step(n, f[n - 1])
    BY <1>7 DEF AreResults
  <2>1. n - 1 \in 0..N
    BY <1>2
  <2>2. f[n - 1] \in Seq(Nat) /\ f[n] = next[<<n, f[n - 1]>>]
    BY <1>7, <2>1 DEF AreResults
  <2>. QED
    BY <1>5, <2>2
<1>9. f = [n \in 0..N |-> IF n = 0 THEN <<>> ELSE step(n, f[n - 1])]
  BY <1>7, <1>8 DEF AreResults
<1>10. found = [n \in 0..N |-> IF n = 0 THEN <<>>
                  ELSE IF tokens[n] = word THEN Append(found[n - 1], start + n - 1)
                  ELSE found[n - 1]]
  BY <1>9, Zenon DEF N, step
<1>. HIDE DEF found
<1>11. \A n \in 0..N : found[n] = IF n = 0 THEN <<>> ELSE step(n, found[n - 1])
  BY <1>10, Zenon DEF step
<1>. DEFINE T == {n \in 0..N : found[n] \in Seq(Nat)}
<1>12. 0 \in T
  <2>1. 0 \in 0..N
    BY <1>2
  <2>2. found[0] = <<>>
    BY <1>11, <2>1
  <2>. QED
    BY <1>6, <2>1, <2>2
<1>13. ASSUME NEW n \in 1..N, n - 1 \in T PROVE n \in T
  <2>1. n \in 0..N /\ n # 0 /\ found[n - 1] \in Seq(Nat)
    BY <1>2, <1>13
  <2>. QED
    BY <1>3, <1>11, <2>1
<1>. HIDE DEF T
<1>14. 0..N \subseteq T
  BY <1>2, <1>12, <1>13, UpToBound
<1>. QED
  BY <1>1, <1>2, <1>14 DEF T, N

LEMMA EndsAreRight ==
  ASSUME NEW d \in Document, NEW start \in Nat
  PROVE  LET ends == EndsOf(d, start)
         IN  \A n \in DOMAIN ends : ends[n] \in [at : Nat, url : Urls]
<1>. DEFINE N == Len(d.anchors)
            own == start + Len(d.urlWords) + Len(d.words)
            at[n \in 0..Len(d.anchors)] ==
              IF n = 0 THEN start + Len(d.urlWords) + Len(d.words)
              ELSE at[n - 1] + Len(AnchorTokens(d.anchors[n]))
            size(n) == Len(AnchorTokens(d.anchors[n]))
            next == [p \in (1..N) \X Nat |-> p[2] + size(p[1])]
<1>1. EndsOf(d, start)
      = [n \in 1..Len(d.anchors) + 1 |->
           [at |-> at[n - 1], url |-> IF n = 1 THEN d.url ELSE d.anchors[n - 1].url]]
  BY Zenon DEF EndsOf
<1>2. /\ N \in Nat /\ own \in Nat /\ d.url \in Urls
      /\ \A n \in 1..N : size(n) \in Nat /\ d.anchors[n].url \in Urls
  <2>1. d.urlWords \in Seq(Words) /\ d.words \in Seq(Words) /\ N \in Nat /\ d.url \in Urls
    BY DocumentFields
  <2>2. ASSUME NEW n \in 1..N
        PROVE  AnchorTokens(d.anchors[n]) \in Seq(Words) /\ d.anchors[n].url \in Urls
    BY DocumentFields, DocsAssumption DEF AnchorTokens
  <2>3. Len(d.urlWords) \in Nat /\ Len(d.words) \in Nat
    BY <2>1
  <2>4. own \in Nat
    <3>. DEFINE a == Len(d.urlWords)
                b == Len(d.words)
    <3>. HIDE DEF a, b
    <3>1. a \in Nat /\ b \in Nat
      BY <2>3 DEF a, b
    <3>2. start + a + b \in Nat
      BY <3>1
    <3>. QED
      BY <3>2 DEF a, b
  <2>5. ASSUME NEW n \in 1..N PROVE size(n) \in Nat /\ d.anchors[n].url \in Urls
    BY <2>2
  <2>. HIDE DEF own, size
  <2>. QED
    BY <2>1, <2>4, <2>5
<1>. HIDE DEF own, size
<1>3. next \in [(1..N) \X Nat -> Nat] /\ \A n \in 1..N, k \in Nat : next[<<n, k>>] = k + size(n)
  <2>. HIDE DEF N
  <2>. QED
    BY <1>2
<1>. HIDE DEF next, N
<1>4. PICK f : AreResults(f, N, Nat, own, next)
  BY <1>2, <1>3, ResultsExist
<1>5. \A n \in 0..N : f[n] = IF n = 0 THEN own ELSE f[n - 1] + size(n)
  <2>. SUFFICES ASSUME NEW n \in 1..N PROVE f[n] = f[n - 1] + size(n)
    BY <1>4 DEF AreResults
  <2>1. n - 1 \in 0..N
    BY <1>2
  <2>2. f[n - 1] \in Nat /\ f[n] = next[<<n, f[n - 1]>>]
    BY <1>4, <2>1 DEF AreResults
  <2>. QED
    BY <1>3, <2>2
<1>6. f = [n \in 0..N |-> IF n = 0 THEN own ELSE f[n - 1] + size(n)]
  BY <1>4, <1>5 DEF AreResults
<1>7. at = [n \in 0..N |-> IF n = 0 THEN own ELSE at[n - 1] + size(n)]
  BY <1>6, Zenon DEF N, own, size
<1>. HIDE DEF at
<1>8. \A n \in 0..N : at[n] = IF n = 0 THEN own ELSE at[n - 1] + size(n)
  BY <1>7, Zenon
<1>. DEFINE T == {n \in 0..N : at[n] \in Nat}
<1>9. 0 \in T
  <2>1. 0 \in 0..N
    BY <1>2
  <2>2. at[0] = own
    BY <1>8, <2>1
  <2>. QED
    BY <1>2, <2>1, <2>2
<1>10. ASSUME NEW n \in 1..N, n - 1 \in T PROVE n \in T
  <2>1. n \in 0..N /\ n # 0 /\ at[n - 1] \in Nat
    BY <1>2, <1>10
  <2>2. at[n] = at[n - 1] + size(n)
    BY <1>8, <2>1
  <2>. QED
    BY <1>2, <2>1, <2>2
<1>. HIDE DEF T
<1>11. 0..N \subseteq T
  BY <1>2, <1>9, <1>10, UpToBound
<1>12. ASSUME NEW n \in 1..N + 1
       PROVE  /\ at[n - 1] \in Nat
              /\ (IF n = 1 THEN d.url ELSE d.anchors[n - 1].url) \in Urls
  <2>1. n - 1 \in 0..N /\ (n # 1 => n - 1 \in 1..N)
    BY <1>2
  <2>2. at[n - 1] \in Nat
    BY <1>11, <2>1 DEF T
  <2>. QED
    BY <1>2, <2>1, <2>2
<1>. QED
  BY <1>1, <1>12 DEF N

\* The words of a document, in any order, leave the queue right.
LEMMA InsertWordsKeepsTheQueue ==
  ASSUME NEW q, QueueOK(q), NEW d \in Document, NEW start \in Nat, NEW order \in Seq(Words),
         NEW garbage, \A n \in 1..Len(order) : garbage[order[n]] \in 0..NumWordsLimit - 1
  PROVE  QueueOK(InsertWords(q, d, start, order, garbage))
<1>. DEFINE N == Len(order)
            Q == {p \in [heap : Seq(Entry), map : [Words -> Nat], slot : Words \cup {NoWord},
                         spilled : Seq(Nat)] : QueueOK(p)}
            step(n, p) == Insert(p, order[n], LocationsOf(d, start, order[n]), garbage[order[n]])
            after[n \in 0..Len(order)] ==
              IF n = 0 THEN q
              ELSE LET word == order[n]
                   IN  Insert(after[n - 1], word, LocationsOf(d, start, word), garbage[word])
            next == [p \in (1..N) \X Q |-> step(p[1], p[2])]
<1>1. InsertWords(q, d, start, order, garbage) = after[Len(order)]
  BY Zenon DEF InsertWords
<1>2. N \in Nat /\ \A n \in 1..N : order[n] \in Words
  OBVIOUS
<1>3. \A p : p \in Q <=> QueueOK(p)
  BY DEF QueueOK
<1>. HIDE DEF Q
<1>4. ASSUME NEW n \in 1..N, NEW p \in Q PROVE step(n, p) \in Q
  <2>1. LocationsOf(d, start, order[n]) \in Seq(Nat)
    BY LocationsAreNumbers
  <2>2. order[n] \in Words /\ garbage[order[n]] \in 0..NumWordsLimit - 1 /\ QueueOK(p)
    BY <1>2, <1>3
  <2>. QED
    BY <1>3, <2>1, <2>2, InsertKeepsTheQueue
<1>. HIDE DEF step
<1>5. next \in [(1..N) \X Q -> Q] /\ \A n \in 1..N, p \in Q : next[<<n, p>>] = step(n, p)
  <2>. HIDE DEF N
  <2>. QED
    BY <1>4
<1>6. q \in Q
  BY <1>3
<1>. HIDE DEF next, N
<1>7. PICK f : AreResults(f, N, Q, q, next)
  BY <1>2, <1>5, <1>6, ResultsExist
<1>8. \A n \in 0..N : f[n] = IF n = 0 THEN q ELSE step(n, f[n - 1])
  <2>. SUFFICES ASSUME NEW n \in 1..N PROVE f[n] = step(n, f[n - 1])
    BY <1>7 DEF AreResults
  <2>1. n - 1 \in 0..N
    BY <1>2
  <2>2. f[n - 1] \in Q /\ f[n] = next[<<n, f[n - 1]>>]
    BY <1>7, <2>1 DEF AreResults
  <2>. QED
    BY <1>5, <2>2
<1>9. f = [n \in 0..N |-> IF n = 0 THEN q ELSE step(n, f[n - 1])]
  BY <1>7, <1>8 DEF AreResults
<1>10. after = [n \in 0..N |-> IF n = 0 THEN q ELSE step(n, after[n - 1])]
  BY <1>9, Zenon DEF N, step
<1>. HIDE DEF after
<1>11. \A n \in 0..N : after[n] = IF n = 0 THEN q ELSE step(n, after[n - 1])
  BY <1>10, Zenon
<1>. DEFINE T == {n \in 0..N : after[n] \in Q}
<1>12. 0 \in T
  <2>1. 0 \in 0..N
    BY <1>2
  <2>2. after[0] = q
    BY <1>11, <2>1
  <2>. QED
    BY <1>6, <2>1, <2>2
<1>13. ASSUME NEW n \in 1..N, n - 1 \in T PROVE n \in T
  <2>1. n \in 0..N /\ n # 0 /\ after[n - 1] \in Q
    BY <1>2, <1>13
  <2>2. after[n] = step(n, after[n - 1])
    BY <1>11, <2>1
  <2>. QED
    BY <1>4, <2>1, <2>2
<1>. HIDE DEF T
<1>14. 0..N \subseteq T
  BY <1>2, <1>12, <1>13, UpToBound
<1>. QED
  BY <1>1, <1>2, <1>3, <1>14 DEF T, N

(***************************************************************************)
(* The state of the pipeline.  The documents taken and those still to be   *)
(* taken are all of them, a reader that is not about to take one has one,  *)
(* a writer that is about to write holds an entry, and the queue is right. *)
(***************************************************************************)
AllotRight ==
  /\ documentQueue \in Seq(Range(Docs))
  /\ currentLocation \in Nat
  /\ currentDocId \in Nat /\ Len(documentQueue) + currentDocId = Len(Docs)

MapsRight ==
  /\ urlMap \in SUBSET [at : Nat, url : Urls]
  /\ metaMap \in [Urls -> [length : Nat, inLinks : Nat]]

TurnsRight ==
  /\ currentWriteDocId \in 0..currentDocId
  /\ inserted \in Seq(0..Len(Docs) - 1)

QueueRight == QueueOK(queue) /\ queue.spilled = <<>>

SignalsRight ==
  /\ emptyQueue \in BOOLEAN
  /\ readsAsleep \in SUBSET {w \in Writers : wpc[w] = "look"}
  /\ writesAsleep \in SUBSET {r \in Readers : rpc[r] = "turn"}

ReadersRight ==
  /\ rpc \in [Readers -> ReaderLabels]
  /\ doc \in [Readers -> Range(Docs) \cup {NoDoc}]
  /\ docId \in [Readers -> 0..Len(Docs)]
  /\ startLocation \in [Readers -> Nat]
  /\ metadata \in [Readers -> [length : Nat, inLinks : Nat]]
  /\ \A r \in Readers : HasDoc(r) => doc[r] \in Range(Docs)

WritersRight ==
  /\ wpc \in [Writers -> {"look", "wait", "write"}]
  /\ locations \in [Writers -> Entry \cup {NoLocations}]
  /\ \A w \in Writers : wpc[w] = "write" => locations[w] \in Entry
  /\ postings \in [Words -> Seq(Nat)]

PipelineInv ==
  /\ AllotRight /\ MapsRight /\ TurnsRight /\ QueueRight /\ SignalsRight
  /\ ReadersRight /\ WritersRight

LEMMA InvariantIsTyped == PipelineInv => TypeOK /\ EntriesAreFound
<1>. SUFFICES ASSUME PipelineInv PROVE TypeOK /\ EntriesAreFound
  OBVIOUS
<1>1. /\ queue.heap \in Seq(Entry) /\ queue.map \in [Words -> Nat]
      /\ queue.slot \in Words \cup {NoWord} /\ queue.spilled = <<>>
      /\ MapLeadsToEntries(queue.heap, queue.map)
  BY DEF PipelineInv, QueueRight, QueueOK
<1>2. EntriesAreFound
  <2>. DEFINE h == queue.heap
  <2>1. DOMAIN h = 1..Len(h)
    <3>1. h \in Seq(Entry)
      BY <1>1
    <3>. HIDE DEF h
    <3>. QED
      BY <3>1
  <2>. QED
    BY <1>1, <2>1 DEF EntriesAreFound, MapLeadsToEntries
<1>3. documentQueue \in Seq(Range(Docs)) /\ currentDocId \in 0..Len(Docs)
  <2>1. Len(documentQueue) \in Nat /\ Len(Docs) \in Nat
    BY DocsAssumption DEF PipelineInv, AllotRight
  <2>. QED
    BY <2>1 DEF PipelineInv, AllotRight
<1>. QED
  BY <1>1, <1>2, <1>3
     DEF PipelineInv, AllotRight, MapsRight, TurnsRight, SignalsRight, ReadersRight,
         WritersRight, TypeOK

LEMMA DocsAreDocuments ==
  Len(Docs) \in Nat /\ Docs \in Seq(Range(Docs)) /\ Range(Docs) \subseteq Document
<1>1. Docs \in Seq(Document)
  BY DocsAssumption DEF Document
<1>2. Docs = [i \in 1..Len(Docs) |-> Docs[i]] /\ Len(Docs) \in Nat
      /\ \A i \in 1..Len(Docs) : Docs[i] \in Document
  BY <1>1
<1>3. \A i \in 1..Len(Docs) : Docs[i] \in Range(Docs)
  BY <1>2 DEF Range
<1>4. Range(Docs) \subseteq Document
  BY <1>2 DEF Range
<1>. DEFINE R == Range(Docs)
<1>. HIDE DEF R
<1>5. [i \in 1..Len(Docs) |-> Docs[i]] \in Seq(R)
  BY <1>2, <1>3 DEF R
<1>. QED
  BY <1>2, <1>4, <1>5 DEF R

LEMMA PipelineInit == Init => PipelineInv
<1>. SUFFICES ASSUME Init PROVE PipelineInv
  OBVIOUS
<1>. USE DEF Init
<1>1. AllotRight
  BY DocsAreDocuments DEF AllotRight
<1>2. MapsRight
  BY DEF MapsRight, NoMetadata
<1>3. TurnsRight
  BY DEF TurnsRight
<1>4. QueueRight
  BY DEF QueueRight, QueueOK, EmptyQueue, MapLeadsToEntries
<1>5. SignalsRight
  BY DEF SignalsRight
<1>6. ReadersRight
  BY DocsAreDocuments DEF ReadersRight, ReaderLabels, NoMetadata, HasDoc
<1>7. WritersRight
  BY DEF WritersRight
<1>. QED
  BY <1>1, <1>2, <1>3, <1>4, <1>5, <1>6, <1>7 DEF PipelineInv

LEMMA PipelineTakeDoc ==
  ASSUME PipelineInv, NEW r \in Readers, TakeDoc(r)
  PROVE  PipelineInv'
<1>. USE DEF allotVars, mapVars, signalVars, readerVars, readerLocals, writerVars, ReaderGoto
<1>. DEFINE d == Head(documentQueue)
<1>1. /\ documentQueue \in Seq(Range(Docs)) /\ documentQueue # <<>>
      /\ currentLocation \in Nat /\ currentDocId \in Nat /\ Len(Docs) \in Nat
      /\ Len(documentQueue) + currentDocId = Len(Docs)
  BY DocsAreDocuments DEF TakeDoc, PipelineInv, AllotRight
<1>2. /\ d \in Range(Docs) /\ Tail(documentQueue) \in Seq(Range(Docs))
      /\ Len(Tail(documentQueue)) = Len(documentQueue) - 1 /\ Len(documentQueue) \in Nat
  BY <1>1
<1>3. DocSize(d) \in Nat
  BY <1>2, DocsAreDocuments, TokensAreWords
<1>. HIDE DEF d
<1>4. AllotRight'
  BY <1>1, <1>2, <1>3 DEF TakeDoc, AllotRight, d
<1>5. TurnsRight'
  BY <1>1 DEF TakeDoc, PipelineInv, TurnsRight
<1>6. ReadersRight'
  <2>1. currentDocId \in 0..Len(Docs)
    BY <1>1, <1>2
  <2>. QED
    BY <1>1, <1>2, <2>1 DEF TakeDoc, PipelineInv, ReadersRight, ReaderLabels, HasDoc, d
<1>7. SignalsRight'
  BY DEF TakeDoc, PipelineInv, SignalsRight, ReadersRight
<1>8. UNCHANGED <<urlMap, metaMap, queue, wpc, locations, postings>>
  BY DEF TakeDoc
<1>. QED
  BY <1>4, <1>5, <1>6, <1>7, <1>8 DEF PipelineInv, MapsRight, QueueRight, WritersRight

LEMMA PipelineLayOut ==
  ASSUME PipelineInv, NEW r \in Readers, LayOut(r)
  PROVE  PipelineInv'
<1>. USE DEF allotVars, mapVars, signalVars, readerVars, readerLocals, writerVars, ReaderGoto
<1>1. doc[r] \in Document /\ startLocation[r] \in Nat
  BY DocsAreDocuments DEF LayOut, PipelineInv, ReadersRight, HasDoc
<1>2. MapsRight'
  <2>. DEFINE ends == EndsOf(doc[r], startLocation[r])
              taken == {ends[n].at : n \in DOMAIN ends}
  <2>1. \A n \in DOMAIN ends : ends[n] \in [at : Nat, url : Urls]
    BY <1>1, EndsAreRight
  <2>2. urlMap' = {e \in urlMap : e.at \notin taken} \cup {ends[n] : n \in DOMAIN ends}
    BY DEF LayOut
  <2>. HIDE DEF ends, taken
  <2>3. urlMap' \in SUBSET [at : Nat, url : Urls]
    BY <2>1, <2>2 DEF PipelineInv, MapsRight
  <2>. QED
    BY <2>3 DEF LayOut, PipelineInv, MapsRight
<1>3. ReadersRight' /\ SignalsRight'
  BY DEF LayOut, PipelineInv, ReadersRight, SignalsRight, ReaderLabels, HasDoc
<1>4. UNCHANGED <<documentQueue, currentLocation, currentDocId, currentWriteDocId, inserted, queue,
                  wpc, locations, postings>>
  BY DEF LayOut
<1>. QED
  BY <1>2, <1>3, <1>4 DEF PipelineInv, AllotRight, TurnsRight, QueueRight, WritersRight

LEMMA PipelineReadMetadata ==
  ASSUME PipelineInv, NEW r \in Readers, ReadMetadata(r)
  PROVE  PipelineInv'
<1>. USE DEF allotVars, mapVars, signalVars, readerVars, readerLocals, writerVars, ReaderGoto
<1>1. doc[r] \in Document
  BY DocsAreDocuments DEF ReadMetadata, PipelineInv, ReadersRight, HasDoc
<1>2. Len(doc[r].words) \in Nat /\ metaMap[doc[r].url].inLinks \in Nat
  <2>1. doc[r].url \in Urls /\ doc[r].words \in Seq(Words)
    BY <1>1, DocumentFields
  <2>2. metaMap[doc[r].url] \in [length : Nat, inLinks : Nat]
    BY <2>1 DEF PipelineInv, MapsRight
  <2>. QED
    BY <2>1, <2>2
<1>3. [length |-> Len(doc[r].words), inLinks |-> metaMap[doc[r].url].inLinks]
        \in [length : Nat, inLinks : Nat]
  BY <1>2
<1>4. ReadersRight' /\ SignalsRight'
  <2>. DEFINE m == [length |-> Len(doc[r].words), inLinks |-> metaMap[doc[r].url].inLinks]
  <2>1. /\ metadata' = [metadata EXCEPT ![r] = m]
        /\ rpc' = [rpc EXCEPT ![r] = "turn"] /\ rpc[r] = "readMetadata"
        /\ UNCHANGED <<doc, docId, startLocation, emptyQueue, readsAsleep, writesAsleep, wpc>>
    BY DEF ReadMetadata
  <2>. HIDE DEF m
  <2>. QED
    BY <1>3, <2>1 DEF PipelineInv, ReadersRight, SignalsRight, ReaderLabels, HasDoc, m
<1>5. UNCHANGED <<documentQueue, currentLocation, currentDocId, currentWriteDocId, inserted, queue,
                  urlMap, metaMap, wpc, locations, postings>>
  BY DEF ReadMetadata
<1>. QED
  BY <1>4, <1>5 DEF PipelineInv, AllotRight, MapsRight, TurnsRight, QueueRight, WritersRight

\* The steps of a reader that changes no more than where it is, who sleeps and emptyQueue.
LEMMA PipelineSignals ==
  ASSUME PipelineInv, NEW r \in Readers,
         \/ AwaitTurn(r) \/ TestEmpty(r) \/ ClearEmpty(r) \/ BroadcastRead(r) \/ BroadcastWrite(r)
  PROVE  PipelineInv'
<1>. USE DEF allotVars, mapVars, signalVars, readerVars, readerLocals, writerVars, ReaderGoto
<1>1. UNCHANGED <<documentQueue, currentLocation, currentDocId, currentWriteDocId, inserted, queue,
                  urlMap, metaMap, wpc, locations, postings, doc, docId, startLocation, metadata>>
  BY DEF AwaitTurn, TestEmpty, ClearEmpty, BroadcastRead, BroadcastWrite
<1>2. \E label \in ReaderLabels :
        /\ rpc[r] # "take"
        /\ rpc' = [rpc EXCEPT ![r] = label] \/ rpc' = rpc
  BY DEF AwaitTurn, TestEmpty, ClearEmpty, BroadcastRead, BroadcastWrite, ReaderLabels
<1>3. ReadersRight'
  BY <1>1, <1>2 DEF PipelineInv, ReadersRight, HasDoc
<1>4. SignalsRight'
  <2>1. CASE AwaitTurn(r)
    BY <1>1, <2>1 DEF AwaitTurn, PipelineInv, SignalsRight, ReadersRight
  <2>2. CASE TestEmpty(r)
    BY <1>1, <2>2 DEF TestEmpty, PipelineInv, SignalsRight, ReadersRight
  <2>3. CASE ClearEmpty(r)
    BY <1>1, <2>3 DEF ClearEmpty, PipelineInv, SignalsRight, ReadersRight
  <2>4. CASE BroadcastRead(r)
    BY <1>1, <2>4 DEF BroadcastRead, PipelineInv, SignalsRight, ReadersRight
  <2>5. CASE BroadcastWrite(r)
    BY <1>1, <2>5 DEF BroadcastWrite, PipelineInv, SignalsRight, ReadersRight
  <2>. QED
    BY <2>1, <2>2, <2>3, <2>4, <2>5
<1>. QED
  BY <1>1, <1>3, <1>4
     DEF PipelineInv, AllotRight, MapsRight, TurnsRight, QueueRight, WritersRight

LEMMA TokenSetIsFinite ==
  ASSUME NEW S, NEW s \in Seq(S)
  PROVE  IsFiniteSet(ToSet(s)) /\ ToSet(s) \subseteq S
<1>1. IsFiniteSet(1..Len(s))
  BY FS_Interval
<1>2. s \in Surjection(1..Len(s), ToSet(s))
  BY DEF Surjection, ToSet
<1>. QED
  BY <1>1, <1>2, FS_Surjection DEF ToSet

LEMMA PipelineInsertDoc ==
  ASSUME PipelineInv, OrderInv, NEW r \in Readers, InsertDoc(r)
  PROVE  PipelineInv'
<1>. USE DEF allotVars, mapVars, signalVars, readerVars, readerLocals, writerVars, ReaderGoto
<1>. DEFINE d == doc[r]
            inLinksTo(u) == Cardinality({j \in DOMAIN d.anchors : d.anchors[j].url = u})
            base == [metaMap EXCEPT ![d.url] = metadata[r]]
            words == ToSet(Tokens(d))
<1>1. /\ d \in Document /\ startLocation[r] \in Nat
      /\ metadata[r] \in [length : Nat, inLinks : Nat]
      /\ metaMap \in [Urls -> [length : Nat, inLinks : Nat]]
  BY DocsAreDocuments DEF InsertDoc, PipelineInv, ReadersRight, MapsRight, HasDoc
<1>2. /\ metaMap' = [u \in Urls |-> [base[u] EXCEPT !.inLinks = @ + inLinksTo(u)]]
      /\ \E order \in SetToSeqs(words), garbage \in [words -> 0..NumWordsLimit - 1] :
           LET q == InsertWords(queue, d, startLocation[r], order, garbage) IN
           /\ queue' = [q EXCEPT !.spilled = <<>>]
           /\ \E held \in [Writers -> UNION {SpillInto(w, q.spilled) : w \in Writers}] :
                /\ \A w \in Writers : held[w] \in SpillInto(w, q.spilled)
                /\ locations' = held
      /\ inserted' = Append(inserted, docId[r])
      /\ rpc' = [rpc EXCEPT ![r] = "testEmpty"] /\ rpc[r] = "insert"
      /\ UNCHANGED <<documentQueue, currentLocation, currentDocId, currentWriteDocId, urlMap,
                     emptyQueue, readsAsleep, writesAsleep, doc, docId, startLocation, metadata,
                     wpc, postings>>
  BY DEF InsertDoc
<1>3. MapsRight'
  <2>1. ASSUME NEW u \in Urls
        PROVE  [base[u] EXCEPT !.inLinks = @ + inLinksTo(u)] \in [length : Nat, inLinks : Nat]
    <3>1. base[u] \in [length : Nat, inLinks : Nat]
      BY <1>1
    <3>2. inLinksTo(u) \in Nat
      <4>1. IsFiniteSet(1..Len(d.anchors)) /\ DOMAIN d.anchors = 1..Len(d.anchors)
        <5>1. Len(d.anchors) \in Nat /\ DOMAIN d.anchors = 1..Len(d.anchors)
          BY <1>1, DocumentFields
        <5>2. IsFiniteSet(1..Len(d.anchors))
          BY <5>1, FS_Interval
        <5>. QED
          BY <5>1, <5>2
      <4>2. IsFiniteSet({j \in DOMAIN d.anchors : d.anchors[j].url = u})
        BY <4>1, FS_Subset
      <4>. QED
        BY <4>2, FS_CardinalityType
    <3>. DEFINE b == base[u]
                k == inLinksTo(u)
    <3>. HIDE DEF b, k
    <3>3. b \in [length : Nat, inLinks : Nat] /\ k \in Nat
      BY <3>1, <3>2 DEF b, k
    <3>4. b.inLinks + k \in Nat
      BY <3>3
    <3>5. [b EXCEPT !.inLinks = @ + k] \in [length : Nat, inLinks : Nat]
      BY <3>3, <3>4
    <3>. QED
      BY <3>5 DEF b, k
  <2>. HIDE DEF base, inLinksTo
  <2>2. metaMap' \in [Urls -> [length : Nat, inLinks : Nat]]
    BY <1>2, <2>1
  <2>. QED
    BY <1>2, <2>2 DEF PipelineInv, MapsRight
<1>4. PICK order \in SetToSeqs(words), garbage \in [words -> 0..NumWordsLimit - 1] :
        LET q == InsertWords(queue, d, startLocation[r], order, garbage) IN
        /\ queue' = [q EXCEPT !.spilled = <<>>]
        /\ \E held \in [Writers -> UNION {SpillInto(w, q.spilled) : w \in Writers}] :
             /\ \A w \in Writers : held[w] \in SpillInto(w, q.spilled)
             /\ locations' = held
  BY <1>2, Zenon
<1>. DEFINE q == InsertWords(queue, d, startLocation[r], order, garbage)
<1>5. Tokens(d) \in Seq(Words)
  BY <1>1, TokensAreWords
<1>6. order \in Seq(words) /\ words \subseteq Words
  <2>1. IsFiniteSet(words) /\ words \subseteq Words
    BY <1>5, TokenSetIsFinite
  <2>2. Cardinality(words) \in Nat
    BY <2>1, FS_CardinalityType
  <2>. HIDE DEF words
  <2>3. order \in [1..Cardinality(words) -> words]
    BY DEF SetToSeqs
  <2>. QED
    BY <2>1, <2>2, <2>3
<1>. HIDE DEF words
<1>7. order \in Seq(Words) /\ \A n \in 1..Len(order) : garbage[order[n]] \in 0..NumWordsLimit - 1
  BY <1>6
<1>8. QueueOK(q)
  <2>1. QueueOK(queue)
    BY DEF PipelineInv, QueueRight
  <2>. HIDE DEF d
  <2>. QED
    BY <1>1, <1>7, <2>1, InsertWordsKeepsTheQueue
<1>. HIDE DEF q, d
<1>9. QueueRight'
  <2>1. queue' = [q EXCEPT !.spilled = <<>>]
    BY <1>4 DEF q
  <2>. DEFINE p == [q EXCEPT !.spilled = <<>>]
  <2>2. QueueOK(p) /\ p.spilled = <<>>
    <3>1. q \in [heap : Seq(Entry), map : [Words -> Nat], slot : Words \cup {NoWord},
                 spilled : Seq(Nat)]
      BY <1>8 DEF QueueOK
    <3>2. <<>> \in Seq(Nat)
      OBVIOUS
    <3>3. p \in [heap : Seq(Entry), map : [Words -> Nat], slot : Words \cup {NoWord},
                 spilled : Seq(Nat)]
      BY <3>1, <3>2
    <3>4. p.heap = q.heap /\ p.map = q.map /\ p.spilled = <<>>
      BY <3>1
    <3>. HIDE DEF p
    <3>. QED
      BY <1>8, <3>3, <3>4 DEF QueueOK
  <2>. HIDE DEF p
  <2>. QED
    BY <2>1, <2>2 DEF QueueRight, QueueOK, MapLeadsToEntries, p
<1>10. WritersRight'
  <2>1. PICK held \in [Writers -> UNION {SpillInto(w, q.spilled) : w \in Writers}] :
          /\ \A w \in Writers : held[w] \in SpillInto(w, q.spilled)
          /\ locations' = held
    BY <1>4 DEF q
  <2>2. q.spilled \in Seq(Nat)
    BY <1>8 DEF QueueOK
  <2>3. ASSUME NEW w \in Writers
        PROVE  /\ held[w] \in Entry \cup {NoLocations}
               /\ wpc[w] = "write" => held[w] \in Entry
    <3>1. CASE held[w] = locations[w]
      BY <3>1 DEF PipelineInv, WritersRight
    <3>2. CASE held[w] # locations[w]
      <4>. DEFINE e == locations[w]
                  all == e.locations \o q.spilled
      <4>1. e \in Entry /\ held[w] = [e EXCEPT !.locations = @ \o q.spilled]
        BY <2>1, <3>2 DEF SpillInto, PipelineInv, WritersRight
      <4>2. all \in Seq(Nat)
        BY <2>2, <4>1 DEF Entry
      <4>3. held[w] = [e EXCEPT !.locations = all]
        BY <4>1
      <4>. HIDE DEF e, all
      <4>4. held[w] \in Entry
        BY <4>1, <4>2, <4>3 DEF Entry
      <4>. QED
        BY <4>4
    <3>. QED
      BY <3>1, <3>2
  <2>. QED
    BY <1>2, <2>1, <2>3 DEF PipelineInv, WritersRight
<1>11. TurnsRight'
  <2>1. docId[r] \in 0..Len(Docs) - 1
    <3>1. docId[r] < currentDocId /\ docId[r] \in Nat
      BY <1>2 DEF OrderInv, OrderTypes, IdsAreTaken, HasDoc
    <3>2. currentDocId <= Len(Docs) /\ currentDocId \in Nat /\ Len(Docs) \in Nat
      <4>1. Len(documentQueue) \in Nat
        BY DEF PipelineInv, AllotRight
      <4>. QED
        BY <4>1, DocsAreDocuments DEF PipelineInv, AllotRight
    <3>. QED
      BY <3>1, <3>2
  <2>2. inserted' \in Seq(0..Len(Docs) - 1)
    BY <1>2, <2>1 DEF PipelineInv, TurnsRight
  <2>. QED
    BY <1>2, <2>2 DEF PipelineInv, TurnsRight
<1>12. ReadersRight' /\ SignalsRight'
  BY <1>2 DEF PipelineInv, ReadersRight, SignalsRight, ReaderLabels, HasDoc
<1>13. AllotRight'
  BY <1>2 DEF PipelineInv, AllotRight
<1>. QED
  BY <1>3, <1>9, <1>10, <1>11, <1>12, <1>13 DEF PipelineInv

LEMMA PipelinePassTurn ==
  ASSUME PipelineInv, OrderInv, NEW r \in Readers, PassTurn(r)
  PROVE  PipelineInv'
<1>. USE DEF allotVars, mapVars, signalVars, readerVars, readerLocals, writerVars, ReaderGoto
<1>1. TurnsRight'
  <2>1. currentWriteDocId = docId[r] /\ docId[r] < currentDocId /\ currentDocId \in Nat
        /\ currentWriteDocId \in Nat
    BY DEF PassTurn, OrderInv, OrderTypes, IdsAreTaken, TurnIsHeld, HasDoc, PastTheWait
  <2>. QED
    BY <2>1 DEF PassTurn, PipelineInv, TurnsRight
<1>2. ReadersRight' /\ SignalsRight'
  <2>1. NoMetadata \in [length : Nat, inLinks : Nat] /\ 0 \in 0..Len(Docs)
    BY DocsAreDocuments DEF NoMetadata
  <2>. QED
    BY <2>1 DEF PassTurn, PipelineInv, ReadersRight, SignalsRight, ReaderLabels, HasDoc
<1>3. UNCHANGED <<documentQueue, currentLocation, currentDocId, queue, urlMap, metaMap, wpc,
                  locations, postings>>
  BY DEF PassTurn
<1>. QED
  BY <1>1, <1>2, <1>3 DEF PipelineInv, AllotRight, MapsRight, QueueRight, WritersRight

\* A writer's step, and a spurious wakeup.
LEMMA PipelineWriter ==
  ASSUME PipelineInv, (\E w \in Writers : Writer(w)) \/ Wakeup
  PROVE  PipelineInv'
<1>. USE DEF allotVars, mapVars, signalVars, readerVars, readerLocals, writerVars, WriterGoto
<1>1. UNCHANGED <<documentQueue, currentLocation, currentDocId, currentWriteDocId, inserted,
                  urlMap, metaMap, rpc, doc, docId, startLocation, metadata>>
  BY DEF Writer, MarkEmpty, Wait, TakeTop, WritePostings, Wakeup
<1>2. AllotRight' /\ MapsRight' /\ TurnsRight' /\ ReadersRight'
  BY <1>1 DEF PipelineInv, AllotRight, MapsRight, TurnsRight, ReadersRight, HasDoc
<1>3. ASSUME NEW w \in Writers, MarkEmpty(w) PROVE SignalsRight' /\ QueueRight' /\ WritersRight'
  BY <1>1, <1>3 DEF MarkEmpty, PipelineInv, SignalsRight, QueueRight, WritersRight
<1>4. ASSUME NEW w \in Writers, Wait(w) PROVE SignalsRight' /\ QueueRight' /\ WritersRight'
  BY <1>1, <1>4 DEF Wait, PipelineInv, SignalsRight, QueueRight, WritersRight
<1>5. ASSUME NEW w \in Writers, TakeTop(w) PROVE SignalsRight' /\ QueueRight' /\ WritersRight'
  <2>1. queue' = Pop(queue) /\ queue.heap # <<>>
    BY <1>5 DEF TakeTop
  <2>2. QueueOK(Pop(queue)) /\ Top(queue) \in Entry /\ Pop(queue).spilled = <<>>
    BY <2>1, PopKeepsTheQueue DEF PipelineInv, QueueRight
  <2>3. QueueRight'
    BY <2>1, <2>2 DEF QueueRight, QueueOK, MapLeadsToEntries
  <2>. QED
    BY <1>1, <1>5, <2>2, <2>3 DEF TakeTop, PipelineInv, SignalsRight, WritersRight
<1>6. ASSUME NEW w \in Writers, WritePostings(w)
      PROVE  SignalsRight' /\ QueueRight' /\ WritersRight'
  <2>1. locations[w].word \in Words /\ locations[w].locations \in Seq(Nat)
    <3>1. locations[w] \in Entry
      BY <1>6 DEF WritePostings, PipelineInv, WritersRight
    <3>. QED
      BY <3>1 DEF Entry
  <2>2. postings \in [Words -> Seq(Nat)]
    BY DEF PipelineInv, WritersRight
  <2>. DEFINE word == locations[w].word
              locs == locations[w].locations
  <2>3. postings' = [postings EXCEPT ![word] = postings[word] \o locs]
    BY <1>6 DEF WritePostings
  <2>. HIDE DEF word, locs
  <2>4. postings' \in [Words -> Seq(Nat)]
    BY <2>1, <2>2, <2>3 DEF word, locs
  <2>5. wpc' = [wpc EXCEPT ![w] = "look"] /\ locations' = [locations EXCEPT ![w] = NoLocations]
        /\ wpc[w] = "write" /\ UNCHANGED <<queue, emptyQueue, readsAsleep, writesAsleep>>
    BY <1>6 DEF WritePostings
  <2>. QED
    BY <1>1, <2>4, <2>5 DEF PipelineInv, SignalsRight, QueueRight, WritersRight
<1>7. ASSUME Wakeup PROVE SignalsRight' /\ QueueRight' /\ WritersRight'
  BY <1>1, <1>7 DEF Wakeup, PipelineInv, SignalsRight, QueueRight, WritersRight
<1>. QED
  BY <1>2, <1>3, <1>4, <1>5, <1>6, <1>7 DEF Writer, PipelineInv

LEMMA PipelineStep == PipelineInv /\ OrderInv /\ [Next]_vars => PipelineInv'
<1>. SUFFICES ASSUME PipelineInv, OrderInv, [Next]_vars PROVE PipelineInv'
  OBVIOUS
<1>1. ASSUME NEW r \in Readers, Reader(r) PROVE PipelineInv'
  BY <1>1, PipelineTakeDoc, PipelineLayOut, PipelineReadMetadata, PipelineSignals,
     PipelineInsertDoc, PipelinePassTurn DEF Reader
<1>2. CASE UNCHANGED vars
  BY <1>2
     DEF vars, allotVars, mapVars, signalVars, readerVars, writerVars, PipelineInv, AllotRight,
         MapsRight, TurnsRight, QueueRight, SignalsRight, ReadersRight, WritersRight, HasDoc
<1>. QED
  BY <1>1, <1>2, PipelineWriter DEF Next

\* Whatever the documents and the threads, every variable keeps its type: a turn is never
\* passed beyond the documents taken, and the postings are those of the documents' words.
THEOREM PipelineTypes == Spec => []TypeOK
BY PipelineInit, PipelineStep, OrderInit, OrderStep, InvariantIsTyped, PTL DEF Spec

\* The map of the priority queue leads to the entry of every word in the heap, through all
\* the swaps of up() and down(), the stale indices that pop() leaves in the map included.
THEOREM MapFollowsTheHeap == Spec => []EntriesAreFound
BY PipelineInit, PipelineStep, OrderInit, OrderStep, InvariantIsTyped, PTL DEF Spec
=============================================================================
