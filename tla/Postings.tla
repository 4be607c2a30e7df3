------------------------------ MODULE Postings ------------------------------
(***************************************************************************)
(* The posting lists on disk (src/src/Postings.cpp): blocks of BlockSize   *)
(* bytes, some of them divided into sub-blocks of half, a quarter, ... of  *)
(* it.  A word starts in a smallest sub-block, moves to a larger one when  *)
(* its list outgrows it, and has a chain of whole blocks in the end.  Two  *)
(* hash maps lead from a word to its sub-block and back; they are taken    *)
(* for maps here, PersistentHashMap has what they are.                     *)
(*                                                                         *)
(* A word is added to by one writer at a time, and postings come in order. *)
(***************************************************************************)
EXTENDS PostingList, FiniteSets

CONSTANTS
  Words,
  BlockSize, NumSizes, BlockDataOffset,  \* 16384, 8 and 4 in the code
  MaxPosting, BatchSizes, Gaps           \* bounds: the locations, and the postings of a call

ASSUME BlocksAssumption ==
  BlockSize \in Nat /\ NumSizes \in Nat \ {0, 1} /\ BlockDataOffset \in Nat

\* A block halved i times.
Halved[i \in 0..NumSizes - 1] == IF i = 0 THEN BlockSize ELSE Halved[i - 1] \div 2

SmallestSubBlockSize == Halved[NumSizes - 1]
SubBlockSizes == {Halved[i] : i \in 1..NumSizes - 1}

\* A list of no postings fits any sub-block, one of a posting a whole block, and two more
\* do not fill half of a block: 16384 bytes against some 16 of each in the code.
ASSUME RoomAssumption ==
  /\ SmallestSubBlockSize > 0 /\ HeaderSize <= SmallestSubBlockSize
  /\ HeaderSize + DeltaSize + EntrySize <= BlockSize - BlockDataOffset
  /\ 2 * (DeltaSize + EntrySize + BlockDataOffset) <= BlockSize

ASSUME BatchesAssumption ==
  MaxPosting \in Nat /\ BatchSizes \subseteq Nat /\ Gaps \subseteq Nat

VARIABLES
  store,  \* the file, the two maps and the metadata of its first block
  added,  \* the postings that were added to each word
  died,   \* at of a map did not find its key
  misled, \* a list that moved was taken for that of another word
  guessed \* the words that were looked up before they had a list

storeVars == <<store, added, died, misled, guessed>>

SubBlock(size, block, sub) == [size |-> size, block |-> block, sub |-> sub]

\* CreateNewPostingsFile: the first block is the metadata, and the blocks behind it are, one
\* each, for the sizes of sub-blocks.  The first sub-block of each is the open one, and is
\* the last used one as well.
NewStore ==
  LET first == [size \in SubBlockSizes |->
                  [block |-> CHOOSE b \in 1..NumSizes - 1 : size = Halved[b], sub |-> 0]]
  IN  [area |-> <<>>, next |-> <<>>, subBlockIndex |-> <<>>, wordIndex |-> <<>>,
       open |-> first, lastUsed |-> first, nextBlock |-> NumSizes]

DataSize(info) == info.size - IF info.size = BlockSize THEN BlockDataOffset ELSE 0
----------------------------------------------------------------------------
(* Sub-blocks: taken in order, block by block, and given back from the last one.  Block 0 *)
(* stands for none.                                                                       *)

\* Mutant: the size that is just not large enough.
HalvesOnceMore(minSize) ==
  LET sizes == {BlockSize} \union {size \in SubBlockSizes : 2 * size > minSize}
  IN  CHOOSE size \in sizes : \A other \in sizes : size <= other

ActualSize(minSize) ==
  LET sizes == {BlockSize} \union {size \in SubBlockSizes : size >= minSize}
  IN  CHOOSE size \in sizes : \A other \in sizes : size <= other

OpenSubBlock(s, size) ==
  IF size = BlockSize THEN SubBlock(size, s.nextBlock, 0)
  ELSE SubBlock(size, s.open[size].block, s.open[size].sub)

LastUsedSubBlock(s, size) == SubBlock(size, s.lastUsed[size].block, s.lastUsed[size].sub)

\* The open sub-block is taken: it is the last used one, and the next of its block is open.
IncrementOpenSubBlock(s, open) ==
  LET size == open.size
      sub  == (open.sub + 1) % (BlockSize \div size)
  IN  IF size = BlockSize THEN [s EXCEPT !.nextBlock = @ + 1]
      ELSE [s EXCEPT !.lastUsed[size] = [block |-> open.block, sub |-> open.sub],
                     !.open[size]     = [block |-> IF sub = 0 THEN 0 ELSE open.block,
                                         sub   |-> sub]]

GetNewSubBlock(s, minSize) ==
  LET open  == OpenSubBlock(s, ActualSize(minSize))
      first == SubBlock(open.size, s.nextBlock, 0)
  IN  IF open.block = 0
      THEN [store |-> IncrementOpenSubBlock([s EXCEPT !.nextBlock = @ + 1], first),
            info  |-> first]
      ELSE [store |-> IncrementOpenSubBlock(s, open), info |-> open]

With(map, key, value) ==
  [k \in DOMAIN map \union {key} |-> IF k = key THEN value ELSE map[k]]

\* insert leaves what the key has; so does a key that is not there make at throw.
InsertNew(map, key, value) == IF key \in DOMAIN map THEN map ELSE With(map, key, value)

\* What a sub-block holds: the file starts as zeros, which is a list with no postings.
Stored(s, info) == IF info \in DOMAIN s.area THEN s.area[info] ELSE NoPostings

\* Mutant: the sub-block is given another name, and its list is not copied.
MovesTheNameOnly(s, last, hole) ==
  LET word == s.wordIndex[last]
  IN  [s EXCEPT !.wordIndex  = [key \in DOMAIN @ \ {last} |->
                                  IF key = hole THEN word ELSE @[key]],
                !.subBlockIndex[word] = hole]

\* The list of the last sub-block of the size moves into the hole.
MoveLast(s, last, hole) ==
  LET word == s.wordIndex[last]
  IN  [s EXCEPT !.area = With(@, hole, Stored(s, last)),
                !.wordIndex  = [key \in DOMAIN @ \ {last} |->
                                  IF key = hole THEN word ELSE @[key]],
                !.subBlockIndex[word] = hole]

MoveThrows(s, last, hole) ==
  \/ {last, hole} \ DOMAIN s.wordIndex # {}
  \/ s.wordIndex[last] \notin DOMAIN s.subBlockIndex

\* When the first sub-block of a block is given back there is no last used one: those of
\* the blocks before are not given back any more.
DeleteSubBlock(s, info) ==
  LET used == s.lastUsed[info.size]
      last == LastUsedSubBlock(s, info.size)
      to   == IF last = info THEN s ELSE MoveLast(s, last, info)
  IN  IF used.block = 0 THEN s
      ELSE [to EXCEPT !.open[info.size]     = used,
                      !.lastUsed[info.size] = IF used.sub = 0 THEN [used EXCEPT !.block = 0]
                                              ELSE [used EXCEPT !.sub = @ - 1]]

DeleteThrows(s, info) ==
  LET last == LastUsedSubBlock(s, info.size)
  IN  last.block # 0 /\ last # info /\ MoveThrows(s, last, info)

\* The entry of a sub-block that was given back stays, and a word that gets the sub-block
\* later does not overwrite it: what moves then is taken for the list of the earlier word.
MoveMisleads(s, info) ==
  LET last == LastUsedSubBlock(s, info.size)
  IN  last.block # 0 /\ last # info /\ s.subBlockIndex[s.wordIndex[last]] # last
----------------------------------------------------------------------------
(* AddPostings *)

\* The blocks of a list of whole blocks, from the first one on.
Chain(s, info) ==
  LET block[n \in 0..s.nextBlock] ==
        IF n = 0 THEN info.block ELSE IF block[n - 1] = 0 THEN 0 ELSE s.next[block[n - 1]]
  IN  IF info.size # BlockSize THEN <<info>>
      ELSE [n \in {m \in 1..s.nextBlock : block[m - 1] # 0} |->
              SubBlock(BlockSize, block[n - 1], 0)]

GetPostingListSubBlock(s, word) ==
  LET new == GetNewSubBlock(s, SmallestSubBlockSize)
  IN  IF word \in DOMAIN s.subBlockIndex
      THEN LET chain == Chain(s, s.subBlockIndex[word])
               info  == chain[Len(chain)]
           IN  [store |-> s, info |-> info, list |-> PostingListOf(Stored(s, info))]
      ELSE [store |-> [new.store EXCEPT !.subBlockIndex = InsertNew(@, word, new.info),
                                        !.wordIndex     = InsertNew(@, new.info, word)],
            info  |-> new.info,
            list  |-> PostingListOf(NoPostings)]

\* A list in a sub-block of its own; a whole block leads to the block next.
Place(s, info, stored, next) ==
  [s EXCEPT !.area = With(@, info, stored),
            !.next = IF info.size = BlockSize THEN With(@, info.block, next) ELSE @]

\* SaveSplitPostingList: from the last of the lists to the second, each in a new block; then
\* the first, in a larger sub-block or, when it has a whole block, in place.  Of a list that
\* has been split, the sub-block that was outgrown is not given back.
PlaceInNewBlock(state, list) ==
  LET new == GetNewSubBlock(state.store, BlockSize)
  IN  [store |-> Place(new.store, new.info, FullUpdate(list), state.next),
       next  |-> new.info.block]

PlaceOverflow(s, split) ==
  LET placed[n \in 0..Len(split) - 1] ==
        IF n = 0 THEN [store |-> s, next |-> 0]
        ELSE PlaceInNewBlock(placed[n - 1], split[Len(split) + 1 - n])
  IN  placed[Len(split) - 1]

SaveSplitPostingList(s, info, split, word) ==
  LET over    == PlaceOverflow(s, split)
      larger  == GetNewSubBlock(over.store, GetByteSize(Head(split)))
      renamed == [larger.store EXCEPT
                    !.subBlockIndex = With(@, word, larger.info),
                    !.wordIndex     = InsertNew(@, larger.info, word)]
      moved   == Place(renamed, larger.info, FullUpdate(Head(split)), over.next)
      given   == Len(split) = 1
      throws  == DeleteThrows(moved, info)
  IN  IF info.size = BlockSize
      THEN [store |-> Place(over.store, info, UpdateInPlace(Stored(s, info), Head(split)),
                            over.next),
            throws |-> FALSE, misleads |-> FALSE]
      ELSE [store    |-> IF given /\ ~throws THEN DeleteSubBlock(moved, info) ELSE moved,
            throws   |-> given /\ throws,
            misleads |-> given /\ ~throws /\ MoveMisleads(moved, info)]

AddPostings(word, postings) ==
  LET at   == GetPostingListSubBlock(store, word)
      list == AddAll(at.list, postings)
      held == Stored(at.store, at.info)
      save == SaveSplitPostingList(at.store, at.info,
                                   Split(list, BlockSize - BlockDataOffset), word)
      fits == GetByteSize(list) <= DataSize(at.info)
  IN  /\ ~died
      /\ store' = IF fits THEN [at.store EXCEPT !.area = With(@, at.info, UpdateInPlace(held, list))]
                  ELSE save.store
      /\ died'   = (~fits /\ save.throws)
      /\ misled' = (misled \/ (~fits /\ save.misleads))
      /\ added' = [added EXCEPT ![word] = @ \o postings]
      /\ UNCHANGED guessed
----------------------------------------------------------------------------
\* GetPostingList, for IsrWord: a word that has no list is given a sub-block as well, and
\* what is in that sub-block is its list from then on.
LookUp(word) ==
  LET at == GetPostingListSubBlock(store, word)
  IN  /\ ~died
      /\ word \notin DOMAIN store.subBlockIndex
      /\ store' = at.store
      /\ guessed' = guessed \union {word}
      /\ UNCHANGED <<added, died, misled>>

\* The lists an IsrWord goes through, in order.
Lists(s, word) ==
  LET chain == Chain(s, s.subBlockIndex[word])
  IN  [i \in 1..Len(chain) |-> Stored(s, chain[i])]

Joined(seqs) ==
  LET joined[n \in 0..Len(seqs)] == IF n = 0 THEN <<>> ELSE joined[n - 1] \o seqs[n]
  IN  joined[Len(seqs)]

\* NextInstance, until it returns 0: a list is read to its end before the next.
Instances(lists) == Joined([i \in 1..Len(lists) |-> ReadToTheEnd(lists[i])])

\* SeekToLocation with readers that have read nothing: the first list that has an answer.
SeekToLocation(lists, location) ==
  LET Answer(i) == GetPosting(lists[i], NewReader, location).posting
      answers   == {i \in 1..Len(lists) : Answer(i) # 0}
  IN  IF answers = {} THEN 0 ELSE Answer(CHOOSE i \in answers : \A j \in answers : i <= j)
----------------------------------------------------------------------------
InitPostings ==
  /\ store = NewStore
  /\ added = [word \in Words |-> <<>>]
  /\ died = FALSE /\ misled = FALSE
  /\ guessed = {}

\* The next postings of a word: consecutive locations, a little behind the ones it has.
Batches(word) ==
  LET after   == IF added[word] = <<>> THEN 0 ELSE added[word][Len(added[word])]
      batches == {b \in BatchSizes \X Gaps : after + b[1] + b[2] <= MaxPosting}
  IN  {[i \in 1..b[1] |-> after + b[2] + i] : b \in batches}

\* Two bounds: one word is looked up too early, and nothing is done with a store in which a
\* list has been taken for another.
NextPostings ==
  /\ ~misled
  /\ \E word \in Words :
       \/ guessed = {} /\ LookUp(word)
       \/ \E postings \in Batches(word) : AddPostings(word, postings)

SpecPostings == InitPostings /\ [][NextPostings]_storeVars
----------------------------------------------------------------------------
\* The postings of which these are the differences.
Sums(posts) ==
  LET sums[i \in 0..Len(posts)] == IF i = 0 THEN 0 ELSE sums[i - 1] + posts[i]
  IN  [i \in 1..Len(posts) |-> sums[i]]

Known == {word \in Words \ guessed : added[word] # <<>> /\ ~misled}

\* Until a list that moves is taken for that of another word, every word that was not asked
\* for before it had a list has, over the blocks of its chain, the differences of exactly
\* its postings, in the order they were added: whatever was moved to a larger sub-block,
\* split, or moved into the hole of another list (Postings.cpp:202, 371), nothing is lost,
\* doubled or given to another word.
WordsKeepTheirPostings ==
  \A word \in Known :
    LET lists == Lists(store, word)
    IN  Sums(Joined([i \in 1..Len(lists) |-> lists[i].posts])) = added[word]

\* No list is larger than the sub-block it is in, the pointer at the start of a whole block
\* left out (Postings.cpp:109, 118, 324): the next sub-block is never written over.
ListsFitTheirSubBlocks ==
  \A word \in Known : \A i \in 1..Len(Lists(store, word)) :
    GetByteSize(PostingListOf(Lists(store, word)[i]))
      <= DataSize(Chain(store, store.subBlockIndex[word])[i])

\* A word of one block is found from any location: a search from a location whose bucket
\* has a posting of it leads to the first one that is not before (PostingList.cpp:68,
\* ISR.cpp:25), and reading it on and on gives every posting.
OneBlockWordsAreFound ==
  \A word \in Known : Len(Lists(store, word)) = 1 =>
    LET lists == Lists(store, word)
        has   == {added[word][i] : i \in 1..Len(added[word])}
    IN  /\ Instances(lists) = added[word]
        /\ \A location \in 1..MaxPosting :
             LET later == {p \in has : p >= location}
             IN  (\E p \in has : Bucket(p) = Bucket(location)) =>
                   SeekToLocation(lists, location) =
                     IF later = {} THEN 0 ELSE CHOOSE p \in later : \A q \in later : p <= q

\* The comment of index.h:25: the word index of a block has the word whose list is there.
WordIndexHoldsTheWord ==
  \A word \in DOMAIN store.subBlockIndex :
    LET info == store.subBlockIndex[word]
    IN  info \in DOMAIN store.wordIndex /\ store.wordIndex[info] = word
=============================================================================
