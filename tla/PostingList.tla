---------------------------- MODULE PostingList ----------------------------
(***************************************************************************)
(* The posting list of a word (src/src/PostingList.cpp): the differences   *)
(* between consecutive postings, and an index with an entry for the first  *)
(* posting of every bucket.  A stored list is what a sub-block holds; a    *)
(* list adds what has not been written back yet.                           *)
(*                                                                         *)
(* The bytes of a number (Utf8Numbers) are abstracted to DeltaSize and     *)
(* EntrySize, and an offset in bytes to the number of differences before.  *)
(***************************************************************************)
EXTENDS Integers, Sequences

CONSTANTS
  BucketSize,                        \* postings that share an index entry: 2^LowEndBits
  HeaderSize, DeltaSize, EntrySize,  \* bytes of the fixed part, a difference, an entry
  GarbageEntry                        \* the entry read behind the end of an index

ASSUME SizesAssumption ==
  BucketSize \in Nat \ {0} /\ HeaderSize \in Nat /\ DeltaSize \in Nat \ {0} /\ EntrySize \in Nat

Bucket(posting) == posting \div BucketSize
----------------------------------------------------------------------------
NoPostings == [posts |-> <<>>, index |-> <<>>, largest |-> 0]

PostingListOf(stored) ==
  [posts |-> stored.posts, index |-> stored.index, largest |-> stored.largest,
   orig |-> stored.largest, newPosts |-> <<>>, newIndices |-> <<>>]

\* Mutant: an entry counts the new differences only.
CountsTheNewOnly(list, posting) ==
  LET first == list.index = <<>> /\ list.newIndices = <<>>
  IN  [list EXCEPT
         !.newIndices = IF first \/ Bucket(posting) > Bucket(list.largest)
                        THEN Append(@, <<posting, Len(list.newPosts)>>) ELSE @,
         !.newPosts   = Append(@, posting - list.largest),
         !.largest    = posting]

AddPosting(list, posting) ==
  LET first == list.index = <<>> /\ list.newIndices = <<>>
      entry == <<posting, Len(list.posts) + Len(list.newPosts)>>
  IN  [list EXCEPT
         !.newIndices = IF first \/ Bucket(posting) > Bucket(list.largest)
                        THEN Append(@, entry) ELSE @,
         !.newPosts   = Append(@, posting - list.largest),
         !.largest    = posting]

AddAll(list, postings) ==
  LET lists[n \in 0..Len(postings)] ==
        IF n = 0 THEN list ELSE AddPosting(lists[n - 1], postings[n])
  IN  lists[Len(postings)]

GetByteSize(list) ==
  HeaderSize + DeltaSize * Len(list.posts \o list.newPosts)
             + EntrySize * Len(list.index \o list.newIndices)

\* The whole list is copied to a new sub-block, the new entries in front of the old ones in
\* memory: the index is read from the end.
FullUpdate(list) ==
  [posts |-> list.posts \o list.newPosts, index |-> list.index \o list.newIndices,
   largest |-> list.largest]

\* Only what is new is written, behind what the sub-block is taken to hold.
UpdateInPlace(stored, list) ==
  [posts   |-> SubSeq(stored.posts, 1, Len(list.posts)) \o list.newPosts,
   index   |-> SubSeq(stored.index, 1, Len(list.index)) \o list.newIndices,
   largest |-> list.largest]
----------------------------------------------------------------------------
(* Split: the new postings are dealt, in order, to the list that was there and then to    *)
(* new ones.  The first new posting is taken to have an entry, though AddPosting makes    *)
(* none in a bucket that has one: the entries are then read ahead of their postings, and  *)
(* the last of them behind the end.  The subtractor of the offsets is taken from the list *)
(* that has just been made, which is empty: it stays 0.                                   *)

EmptyList == PostingListOf(NoPostings)

Deal(blockSize, state, delta) ==
  LET largest == state.cur.largest + delta
      indexed == state.first \/ Bucket(largest) # Bucket(largest - delta)
      size    == DeltaSize + IF indexed THEN EntrySize ELSE 0
      full    == GetByteSize(state.cur) + size > blockSize
      read    == IF state.index = <<>> THEN GarbageEntry ELSE Head(state.index)
      to      == IF full THEN EmptyList ELSE state.cur
  IN  [full  |-> IF full THEN Append(state.full, state.cur) ELSE state.full,
       first |-> FALSE,
       index |-> IF indexed /\ state.index # <<>> THEN Tail(state.index) ELSE state.index,
       cur   |-> [to EXCEPT
                    !.largest    = largest,
                    !.newPosts   = Append(@, delta),
                    !.newIndices = IF indexed THEN Append(@, read)
                                   ELSE IF full THEN Append(@, <<largest, 0>>) ELSE @]]

Split(list, blockSize) ==
  LET start == [full  |-> <<>>, first |-> TRUE, index |-> list.newIndices,
                cur   |-> [list EXCEPT !.largest = list.orig, !.newPosts = <<>>,
                                       !.newIndices = <<>>]]
      dealt[n \in 0..Len(list.newPosts)] ==
        IF n = 0 THEN start ELSE Deal(blockSize, dealt[n - 1], list.newPosts[n])
      all   == dealt[Len(list.newPosts)]
  IN  IF GetByteSize(list) <= blockSize THEN <<list>> ELSE Append(all.full, all.cur)
----------------------------------------------------------------------------
(* Reading a stored list.  A reader has the difference it reads next and the posting it   *)
(* last returned; 0 stands for no posting.                                                *)

NewReader == [next |-> 1, last |-> 0]

\* GetPosting(0): the posting after the last one returned.
GetNextPosting(stored, reader) ==
  IF reader.next > Len(stored.posts) THEN [reader |-> reader, posting |-> 0]
  ELSE LET p == reader.last + stored.posts[reader.next]
       IN  [reader |-> [next |-> reader.next + 1, last |-> p], posting |-> p]

\* GetPosting(after): from the first entry of after's own bucket on, the first posting that
\* is not before after; 0 when that bucket has no entry, or no posting is left.
SeekPosting(stored, reader, after) ==
  LET entries == {i \in 1..Len(stored.index) : Bucket(stored.index[i][1]) = Bucket(after)}
      entry   == stored.index[CHOOSE i \in entries : \A j \in entries : i <= j]
      from    == entry[2] + 1
      count   == Len(stored.posts)
      at[i \in 0..count] == IF i <= from THEN entry[1] ELSE at[i - 1] + stored.posts[i]
      hits    == {i \in from..count : at[i] >= after}
      hit     == CHOOSE i \in hits : \A j \in hits : i <= j
  IN  CASE entries = {} -> [reader |-> reader, posting |-> 0]
        [] entries # {} /\ hits = {} ->
             [reader |-> [next |-> count + 1, last |-> at[count]], posting |-> 0]
        [] OTHER -> [reader |-> [next |-> hit + 1, last |-> at[hit]], posting |-> at[hit]]

GetPosting(stored, reader, after) ==
  IF after = 0 THEN GetNextPosting(stored, reader) ELSE SeekPosting(stored, reader, after)

\* GetPosting(0), until it returns 0.
ReadToTheEnd(stored) ==
  LET read[n \in 0..Len(stored.posts)] ==
        IF n = 0 THEN [reader |-> NewReader, postings |-> <<>>]
        ELSE LET got == GetPosting(stored, read[n - 1].reader, 0)
             IN  [reader   |-> got.reader,
                  postings |-> Append(read[n - 1].postings, got.posting)]
  IN  read[Len(stored.posts)].postings
=============================================================================
