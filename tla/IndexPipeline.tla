--------------------------- MODULE IndexPipeline ---------------------------
(***************************************************************************)
(* The index builder, class Index (src/src/index.cpp).  Reader threads     *)
(* take parsed documents, lay out their tokens in one global space of      *)
(* locations and, one document at a time in the order of the document ids, *)
(* insert each word with its locations into the priority queue.  Writer    *)
(* threads take the word at the top of the queue and append its locations  *)
(* to the word's postings.                                                 *)
(*                                                                         *)
(* A step is one critical section, or one access to shared state outside   *)
(* of any.  Ids and locations start at 0, as in the code.                  *)
(***************************************************************************)
EXTENDS Naturals, Sequences, FiniteSets, SequencesExt, PriorityQueue

CONSTANTS
  Readers,   \* the 10 reader threads
  Writers,   \* the 10 writer threads
  Urls,      \* the URLs of documents and of the targets of anchor texts
  DocEnd,    \* the word "", whose locations are the ends of documents
  Docs       \* the documents the parser delivers, in order

\* A document: its url, the words of its url, its words, and the anchor texts of its links.
ASSUME ThreadsAssumption == IsFiniteSet(Readers) /\ IsFiniteSet(Writers) /\ Writers # {}
ASSUME DocsAssumption ==
  /\ DocEnd \in Words
  /\ Docs \in Seq([url : Urls, urlWords : Seq(Words), words : Seq(Words),
                   anchors : Seq([url : Urls, words : Seq(Words)])])

NoUrl == "no url"
NoMetadata == [length |-> 0, inLinks |-> 0]

\* The tokens of a document in the order of their locations: the words of its url, its
\* words, its end, and for each link the anchor text and an end of its own.
AnchorTokens(a) == Append(a.words, DocEnd)
Tokens(doc) ==
  doc.urlWords \o doc.words \o <<DocEnd>>
    \o FlattenSeq([j \in DOMAIN doc.anchors |-> AnchorTokens(doc.anchors[j])])

\* The number of locations the reader reserves: the words of the url are not counted.
DocSize(doc) == Len(Tokens(doc)) - Len(doc.urlWords)

\* The ends in a document that starts at location start, and the URL each stands for: its
\* own, and one behind each anchor text.
EndsOf(doc, start) ==
  LET at[n \in 0..Len(doc.anchors)] ==
        IF n = 0 THEN start + Len(doc.urlWords) + Len(doc.words)
        ELSE at[n - 1] + Len(AnchorTokens(doc.anchors[n]))
  IN  [n \in 1..Len(doc.anchors) + 1 |->
         [at |-> at[n - 1], url |-> IF n = 1 THEN doc.url ELSE doc.anchors[n - 1].url]]

\* localMap: the words of the document, and the locations of each, in order.
LocationsOf(doc, start, word) ==
  LET tokens == Tokens(doc)
      found[n \in 0..Len(tokens)] ==
        IF n = 0 THEN <<>>
        ELSE IF tokens[n] = word THEN Append(found[n - 1], start + n - 1) ELSE found[n - 1]
  IN  found[Len(tokens)]

VARIABLES
  documentQueue,     \* the documents still to be taken
  currentLocation, currentDocId,
  urlMap,            \* the set of pairs (location of an end, url)
  metaMap,           \* url -> metadata; NoMetadata if there is no entry
  currentWriteDocId, \* the document whose turn it is
  queue,             \* the priority queue
  emptyQueue,        \* a writer has found the queue empty
  readsAsleep,       \* the writers blocked in queueReadCV.wait(pQueueLock)
  writesAsleep,      \* the readers blocked in queueWriteCV.wait(currentWriteDocIdMutex)
  rpc, doc, docId, startLocation, metadata,   \* where each reader is, and its locals
  wpc, locations,                             \* where each writer is, and what it holds
  postings,          \* word -> the locations that AddPostings has been given
  inserted           \* history: the ids of the documents inserted into the queue

allotVars   == <<documentQueue, currentLocation, currentDocId>>
mapVars     == <<urlMap, metaMap>>
signalVars  == <<emptyQueue, readsAsleep>>
readerVars  == <<rpc, doc, docId, startLocation, metadata>>
readerLocals == <<doc, docId, startLocation, metadata>>
writerVars  == <<wpc, locations, postings>>
vars == <<allotVars, mapVars, currentWriteDocId, queue, signalVars, writesAsleep, readerVars,
          writerVars, inserted>>

NoDoc == [url |-> NoUrl, urlWords |-> <<>>, words |-> <<>>, anchors |-> <<>>]
NoLocations == [word |-> NoWord, numWords |-> 0, locations |-> <<>>]

Init ==
  /\ documentQueue = Docs
  /\ currentLocation = 0
  /\ currentDocId = 0
  /\ urlMap = {}
  /\ metaMap = [u \in Urls |-> NoMetadata]
  /\ currentWriteDocId = 0
  /\ queue = EmptyQueue
  /\ emptyQueue = FALSE
  /\ readsAsleep = {}
  /\ writesAsleep = {}
  /\ rpc = [r \in Readers |-> "take"]
  /\ doc = [r \in Readers |-> NoDoc]
  /\ docId = [r \in Readers |-> 0]
  /\ startLocation = [r \in Readers |-> 0]
  /\ metadata = [r \in Readers |-> NoMetadata]
  /\ wpc = [w \in Writers |-> "look"]
  /\ locations = [w \in Writers |-> NoLocations]
  /\ postings = [w \in Words |-> <<>>]
  /\ inserted = <<>>

ReaderGoto(r, label) == rpc' = [rpc EXCEPT ![r] = label]
WriterGoto(w, label) == wpc' = [wpc EXCEPT ![w] = label]

\* No writer is between setting emptyQueue and releasing pQueueLock inside wait().
PQueueLockFree == \A w \in Writers : wpc[w] # "wait"
----------------------------------------------------------------------------
(* Index::reader *)

\* Under documentQueueLock: take a document, a range of locations and an id.
TakeDoc(r) ==
  /\ rpc[r] = "take"
  /\ documentQueue # <<>>
  /\ doc' = [doc EXCEPT ![r] = Head(documentQueue)]
  /\ documentQueue' = Tail(documentQueue)
  /\ startLocation' = [startLocation EXCEPT ![r] = currentLocation]
  /\ currentLocation' = currentLocation + DocSize(Head(documentQueue))
  /\ docId' = [docId EXCEPT ![r] = currentDocId]
  /\ currentDocId' = currentDocId + 1
  /\ ReaderGoto(r, "layOut")
  /\ UNCHANGED <<mapVars, currentWriteDocId, queue, signalVars, writesAsleep, metadata,
                 writerVars, inserted>>

\* localMap is filled, and each end is entered in urlMap (an entry replaces one at the
\* same location) ...
LayOut(r) ==
  LET ends == EndsOf(doc[r], startLocation[r])
      taken == {ends[n].at : n \in DOMAIN ends}
  IN
  /\ rpc[r] = "layOut"
  /\ urlMap' = {e \in urlMap : e.at \notin taken} \cup {ends[n] : n \in DOMAIN ends}
  /\ ReaderGoto(r, "readMetadata")
  /\ UNCHANGED <<allotVars, metaMap, currentWriteDocId, queue, signalVars, writesAsleep,
                 readerLocals, writerVars, inserted>>

\* ... and the in-links counted so far are read, before the reader has its turn.
ReadMetadata(r) ==
  /\ rpc[r] = "readMetadata"
  /\ metadata' = [metadata EXCEPT ![r] = [length  |-> Len(doc[r].words),
                                          inLinks |-> metaMap[doc[r].url].inLinks]]
  /\ ReaderGoto(r, "turn")
  /\ UNCHANGED <<allotVars, mapVars, currentWriteDocId, queue, signalVars, writesAsleep, doc,
                 docId, startLocation, writerVars, inserted>>

\* Mutant: a reader goes on once its document's turn has come or not.
AnyTurn(r) ==
  /\ rpc[r] = "turn"
  /\ r \notin writesAsleep
  /\ ReaderGoto(r, "insert")
  /\ UNCHANGED <<allotVars, mapVars, currentWriteDocId, queue, signalVars, writesAsleep,
                 readerLocals, writerVars, inserted>>

\* Under currentWriteDocIdMutex: is it the turn of this document?
AwaitTurn(r) ==
  /\ rpc[r] = "turn"
  /\ r \notin writesAsleep
  /\ IF currentWriteDocId = docId[r]
     THEN /\ ReaderGoto(r, "insert")
          /\ UNCHANGED writesAsleep
     ELSE /\ writesAsleep' = writesAsleep \cup {r}
          /\ UNCHANGED rpc
  /\ UNCHANGED <<allotVars, mapVars, currentWriteDocId, queue, signalVars, readerLocals,
                 writerVars, inserted>>

\* Locations spilled through elements[0] go to the wordLocations that a writer still holds,
\* if it is not past them, or into memory that has been freed.
SpillInto(w, spilled) ==
  IF wpc[w] = "write" /\ locations[w].word = queue.slot
  THEN {locations[w], [locations[w] EXCEPT !.locations = @ \o spilled]}
  ELSE {locations[w]}

\* The words of a document go into the queue in the order of the local hash table; each
\* new wordLocations has an arbitrary count.
InsertWords(q, d, start, order, garbage) ==
  LET after[n \in 0..Len(order)] ==
        IF n = 0 THEN q
        ELSE LET word == order[n]
             IN  Insert(after[n - 1], word, LocationsOf(d, start, word), garbage[word])
  IN  after[Len(order)]

\* Under pQueueLock: the metadata of the document and of the targets of its links, and
\* every word of the document.
InsertDoc(r) ==
  LET d == doc[r]
      inLinksTo(u) == Cardinality({j \in DOMAIN d.anchors : d.anchors[j].url = u})
      base == [metaMap EXCEPT ![d.url] = metadata[r]]
      words == ToSet(Tokens(d))
  IN
  /\ rpc[r] = "insert"
  /\ PQueueLockFree
  /\ metaMap' = [u \in Urls |-> [base[u] EXCEPT !.inLinks = @ + inLinksTo(u)]]
  /\ \E order \in SetToSeqs(words), garbage \in [words -> 0..NumWordsLimit - 1] :
       LET q == InsertWords(queue, d, startLocation[r], order, garbage) IN
       /\ queue' = [q EXCEPT !.spilled = <<>>]
       /\ \E held \in [Writers -> UNION {SpillInto(w, q.spilled) : w \in Writers}] :
            /\ \A w \in Writers : held[w] \in SpillInto(w, q.spilled)
            /\ locations' = held
  /\ inserted' = Append(inserted, docId[r])
  /\ ReaderGoto(r, "testEmpty")
  /\ UNCHANGED <<allotVars, urlMap, currentWriteDocId, signalVars, writesAsleep, readerLocals,
                 wpc, postings>>

\* if (emptyQueue), without a lock
TestEmpty(r) ==
  /\ rpc[r] = "testEmpty"
  /\ ReaderGoto(r, IF emptyQueue THEN "clearEmpty" ELSE "broadcastWrite")
  /\ UNCHANGED <<allotVars, mapVars, currentWriteDocId, queue, signalVars, writesAsleep,
                 readerLocals, writerVars, inserted>>

\* emptyQueue = false
ClearEmpty(r) ==
  /\ rpc[r] = "clearEmpty"
  /\ emptyQueue' = FALSE
  /\ ReaderGoto(r, "broadcastRead")
  /\ UNCHANGED <<allotVars, mapVars, currentWriteDocId, queue, readsAsleep, writesAsleep,
                 readerLocals, writerVars, inserted>>

\* queueReadCV.broadcast()
BroadcastRead(r) ==
  /\ rpc[r] = "broadcastRead"
  /\ readsAsleep' = {}
  /\ ReaderGoto(r, "broadcastWrite")
  /\ UNCHANGED <<allotVars, mapVars, currentWriteDocId, queue, emptyQueue, writesAsleep,
                 readerLocals, writerVars, inserted>>

\* queueWriteCV.broadcast() (and dequeCV->signal(), on which nothing here waits) ...
BroadcastWrite(r) ==
  /\ rpc[r] = "broadcastWrite"
  /\ writesAsleep' = {}
  /\ ReaderGoto(r, "increment")
  /\ UNCHANGED <<allotVars, mapVars, currentWriteDocId, queue, signalVars, readerLocals,
                 writerVars, inserted>>

\* Mutant: the turn is passed on twice.
PassTwoTurns(r) ==
  /\ rpc[r] = "increment"
  /\ currentWriteDocId' = currentWriteDocId + 2
  /\ ReaderGoto(r, "take")
  /\ UNCHANGED <<allotVars, mapVars, queue, signalVars, writesAsleep, readerLocals, writerVars,
                 inserted>>

\* ... and only then the turn passes to the next document, under currentWriteDocIdMutex.
PassTurn(r) ==
  /\ rpc[r] = "increment"
  /\ currentWriteDocId' = currentWriteDocId + 1
  /\ ReaderGoto(r, "take")
  /\ doc' = [doc EXCEPT ![r] = NoDoc]
  /\ docId' = [docId EXCEPT ![r] = 0]
  /\ startLocation' = [startLocation EXCEPT ![r] = 0]
  /\ metadata' = [metadata EXCEPT ![r] = NoMetadata]
  /\ UNCHANGED <<allotVars, mapVars, queue, signalVars, writesAsleep, writerVars, inserted>>
----------------------------------------------------------------------------
(* Index::writerDriver *)

\* Mutant: a writer that finds the queue empty waits without telling the readers.
MarkNothing(w) ==
  /\ wpc[w] = "look"
  /\ w \notin readsAsleep
  /\ PQueueLockFree
  /\ queue.heap = <<>>
  /\ WriterGoto(w, "wait")
  /\ UNCHANGED <<allotVars, mapVars, currentWriteDocId, queue, signalVars, writesAsleep,
                 readerVars, locations, postings, inserted>>

\* The queue is empty: emptyQueue = true, with pQueueLock held ...
MarkEmpty(w) ==
  /\ wpc[w] = "look"
  /\ w \notin readsAsleep
  /\ PQueueLockFree
  /\ queue.heap = <<>>
  /\ emptyQueue' = TRUE
  /\ WriterGoto(w, "wait")
  /\ UNCHANGED <<allotVars, mapVars, currentWriteDocId, queue, readsAsleep, writesAsleep,
                 readerVars, locations, postings, inserted>>

\* ... and wait(), which releases the lock as it falls asleep.
Wait(w) ==
  /\ wpc[w] = "wait"
  /\ readsAsleep' = readsAsleep \cup {w}
  /\ WriterGoto(w, "look")
  /\ UNCHANGED <<allotVars, mapVars, currentWriteDocId, queue, emptyQueue, writesAsleep,
                 readerVars, locations, postings, inserted>>

\* top() and pop(), in one critical section.
TakeTop(w) ==
  /\ wpc[w] = "look"
  /\ w \notin readsAsleep
  /\ PQueueLockFree
  /\ queue.heap # <<>>
  /\ locations' = [locations EXCEPT ![w] = Top(queue)]
  /\ queue' = Pop(queue)
  /\ WriterGoto(w, "write")
  /\ UNCHANGED <<allotVars, mapVars, currentWriteDocId, signalVars, writesAsleep, readerVars,
                 postings, inserted>>

\* AddPostings, and the wordLocations is deleted.
WritePostings(w) ==
  /\ wpc[w] = "write"
  /\ postings' = [postings EXCEPT ![locations[w].word] = @ \o locations[w].locations]
  /\ locations' = [locations EXCEPT ![w] = NoLocations]
  /\ WriterGoto(w, "look")
  /\ UNCHANGED <<allotVars, mapVars, currentWriteDocId, queue, signalVars, writesAsleep,
                 readerVars, inserted>>
----------------------------------------------------------------------------
\* pthread_cond_wait may return although nobody signalled.
Wakeup ==
  /\ \/ \E r \in writesAsleep : writesAsleep' = writesAsleep \ {r} /\ UNCHANGED readsAsleep
     \/ \E w \in readsAsleep : readsAsleep' = readsAsleep \ {w} /\ UNCHANGED writesAsleep
  /\ UNCHANGED <<allotVars, mapVars, currentWriteDocId, queue, emptyQueue, readerVars,
                 writerVars, inserted>>

Reader(r) ==
  \/ TakeDoc(r) \/ LayOut(r) \/ ReadMetadata(r) \/ AwaitTurn(r) \/ InsertDoc(r)
  \/ TestEmpty(r) \/ ClearEmpty(r) \/ BroadcastRead(r) \/ BroadcastWrite(r) \/ PassTurn(r)

Writer(w) == MarkEmpty(w) \/ Wait(w) \/ TakeTop(w) \/ WritePostings(w)

Next == (\E r \in Readers : Reader(r)) \/ (\E w \in Writers : Writer(w)) \/ Wakeup

\* Every thread that can run again and again is scheduled: stronger than what a mutex of
\* pthreads promises to the threads that contend for it, so that what goes wrong
\* nevertheless is not the scheduler's doing.
Fairness ==
  /\ \A r \in Readers : SF_vars(Reader(r))
  /\ \A w \in Writers : SF_vars(Writer(w))

Spec == Init /\ [][Next]_vars /\ Fairness
----------------------------------------------------------------------------
(* Properties *)

ReaderLabels ==
  {"take", "layOut", "readMetadata", "turn", "insert", "testEmpty", "clearEmpty",
   "broadcastRead", "broadcastWrite", "increment"}

TypeOK ==
  /\ documentQueue \in Seq(Range(Docs))
  /\ currentLocation \in Nat /\ currentDocId \in 0..Len(Docs)
  /\ urlMap \in SUBSET [at : Nat, url : Urls]
  /\ metaMap \in [Urls -> [length : Nat, inLinks : Nat]]
  /\ currentWriteDocId \in 0..currentDocId
  /\ queue.heap \in Seq(Entry)
  /\ queue.map \in [Words -> Nat]
  /\ queue.slot \in Words \cup {NoWord}
  /\ queue.spilled = <<>>
  /\ emptyQueue \in BOOLEAN
  /\ readsAsleep \in SUBSET {w \in Writers : wpc[w] = "look"}
  /\ writesAsleep \in SUBSET {r \in Readers : rpc[r] = "turn"}
  /\ rpc \in [Readers -> ReaderLabels]
  /\ doc \in [Readers -> Range(Docs) \cup {NoDoc}]
  /\ docId \in [Readers -> 0..Len(Docs)]
  /\ startLocation \in [Readers -> Nat]
  /\ metadata \in [Readers -> [length : Nat, inLinks : Nat]]
  /\ wpc \in [Writers -> {"look", "wait", "write"}]
  /\ locations \in [Writers -> Entry \cup {NoLocations}]
  /\ postings \in [Words -> Seq(Nat)]
  /\ inserted \in Seq(0..Len(Docs) - 1)

\* Documents enter the queue in the order of their ids although ten readers prepare them
\* at once, and a reader that has not passed its turn on is the only one past the wait:
\* no lost, early or spurious wakeup lets a later document overtake.
PastTheWait(r) ==
  rpc[r] \in {"insert", "testEmpty", "clearEmpty", "broadcastRead", "broadcastWrite", "increment"}
DocsInsertedInOrder ==
  /\ \A i \in DOMAIN inserted : inserted[i] = i - 1
  /\ \A r, s \in Readers : PastTheWait(r) /\ PastTheWait(s) => r = s

\* emptyQueue is tested and cleared without a lock, and queueReadCV is broadcast only if it
\* was set.  With two writers or more this loses no wakeup: whenever words are queued and
\* every writer is asleep, a reader is about to broadcast.
WritersNeverStall ==
  queue.heap # <<>> /\ readsAsleep = Writers =>
    \E r \in Readers : \/ rpc[r] = "testEmpty" /\ emptyQueue
                       \/ rpc[r] \in {"clearEmpty", "broadcastRead"}

\* Every entry of the heap is the one the map has for its word, whatever the order the
\* counts impose: so the heap has at most one entry per word, and a word that occurs again
\* before it is written is added to that entry.
EntriesAreFound ==
  \A i \in DOMAIN queue.heap : queue.map[queue.heap[i].word] = i

\* "has to wait for readers of old docs to finish if necessary", says reader: a document
\* that has been taken is inserted in the end, since the documents before it are.
EveryTakenDocIsInserted ==
  \A i \in 0..Len(Docs) - 1 : currentDocId > i ~> Len(inserted) > i
=============================================================================
