--------------------------- MODULE PriorityQueue ---------------------------
(***************************************************************************)
(* PriorityQueue (src/src/PriorityQueue.cpp): a binary max-heap of words,  *)
(* each with the locations gathered for it, and a map from a word to its   *)
(* index in the heap.  The index pipeline calls it under pQueueLock, so    *)
(* its methods are operators from one queue to the next:                   *)
(*                                                                         *)
(*   heap     the wordLocations, root first (indices start at 1 here)      *)
(*   map      word -> index in the heap, 0 if the map has no such key      *)
(*   slot     the word of the wordLocations that elements[0] still points  *)
(*            to when the heap is empty: the one popped last               *)
(*   spilled  the locations inserted through elements[0] of an empty heap, *)
(*            into an object that is no longer in the queue                *)
(*                                                                         *)
(* The counts are unsigned (they wrap at NumWordsLimit) and new            *)
(* wordLocations leaves them uninitialized: Insert is given the value.     *)
(***************************************************************************)
EXTENDS Naturals, Sequences, Functions

CONSTANTS
  Words,          \* the words of the documents
  NoWord,         \* not a word
  NumWordsLimit   \* 2^32, the number of values of wordLocations::numWords

ASSUME WordsAssumption == NoWord \notin Words
ASSUME NumWordsAssumption == NumWordsLimit \in Nat \ {0}

\* The wordLocations of the heap.
Entry == [word : Words, numWords : 0..NumWordsLimit - 1, locations : Seq(Nat)]

EmptyQueue ==
  [heap |-> <<>>, map |-> [w \in Words |-> 0], slot |-> NoWord, spilled |-> <<>>]

\* Mutant: the swaps move the entries and leave the map alone.
CarryWithoutMap(q, path) ==
  LET h == q.heap
      n == Len(path)
      from(k) == LET j == CHOOSE j \in 1..n : path[j] = k IN path[IF j = n THEN 1 ELSE j + 1]
  IN  [q EXCEPT !.heap = [k \in DOMAIN h |-> IF k \in Range(path) THEN h[from(k)] ELSE h[k]]]

\* The swaps of up() and down(): the entry at the start of the path is carried to its end,
\* the others on the path shift by one, and the map follows each entry that moved.
Carry(q, path) ==
  LET h == q.heap
      n == Len(path)
      from(k) == LET j == CHOOSE j \in 1..n : path[j] = k IN path[IF j = n THEN 1 ELSE j + 1]
      moved == [k \in DOMAIN h |-> IF k \in Range(path) THEN h[from(k)] ELSE h[k]]
      home(w) == {k \in Range(path) : n > 1 /\ moved[k].word = w}
  IN  [q EXCEPT !.heap = moved,
                !.map = [w \in Words |-> IF home(w) = {} THEN @[w] ELSE CHOOSE k \in home(w) : TRUE]]

\* up(node): towards the root while the parent has the smaller count.
Up(q, node) ==
  LET h == q.heap
      path[i \in 1..node] ==
        IF i = 1 \/ h[node].numWords <= h[i \div 2].numWords
        THEN <<i>>
        ELSE <<i>> \o path[i \div 2]
  IN  Carry(q, path[node])

\* down(0): the entry of the root goes to the larger of its children, the left one if they
\* are equal, while that is larger than itself.
Down(q) ==
  LET h == q.heap
      left(i)  == IF 2 * i \in DOMAIN h /\ h[2 * i].numWords > h[1].numWords THEN 2 * i ELSE i
      most(i)  == h[IF left(i) = i THEN 1 ELSE left(i)].numWords
      child(i) == IF 2 * i + 1 \in DOMAIN h /\ h[2 * i + 1].numWords > most(i) THEN 2 * i + 1
                                                                             ELSE left(i)
      path[i \in DOMAIN h] == IF child(i) = i THEN <<i>> ELSE <<i>> \o path[child(i)]
  IN  IF h = <<>> THEN q ELSE Carry(q, path[1])

\* insert(word, locations); numWords is the value of the count of a new wordLocations.
AddLocations(e, locs) ==
  [e EXCEPT !.locations = @ \o locs, !.numWords = (@ + Len(locs)) % NumWordsLimit]

Insert(q, word, locs, numWords) ==
  LET index == q.map[word]
      size  == Len(q.heap)
      new   == [word |-> word, numWords |-> numWords, locations |-> <<>>]
  IN  IF index = 0
      THEN Up([q EXCEPT !.heap = Append(@, AddLocations(new, locs)), !.map[word] = size + 1],
              size + 1)
      ELSE IF index <= size
           THEN Up([q EXCEPT !.heap[index] = AddLocations(@, locs)], index)
           ELSE [q EXCEPT !.spilled = @ \o locs]

\* top()
Top(q) == Head(q.heap)

\* pop() of a non-empty heap.  The root's word is erased from the map first, and the entry
\* that takes its place is written to the map afterwards, even when they are the same.
Pop(q) ==
  LET size == Len(q.heap)
      last == q.heap[size]
      map  == [[q.map EXCEPT ![Top(q).word] = 0] EXCEPT ![last.word] = 1]
      heap == SubSeq([q.heap EXCEPT ![1] = last], 1, size - 1)
  IN  Down([q EXCEPT !.heap = heap, !.map = map,
                     !.slot = IF size = 1 THEN Top(q).word ELSE @])
=============================================================================
