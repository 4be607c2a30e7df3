-------------------------- MODULE MCIndexPipeline --------------------------
(***************************************************************************)
(* Small instances of IndexPipeline: two readers, two writers and three    *)
(* documents, which share words, name a word of their url, and link to one *)
(* another.                                                                *)
(***************************************************************************)
EXTENDS IndexPipeline

CONSTANTS r1, r2, p1, p2, a, b, u, url1, url2

Doc(url, urlWords, words, anchors) ==
  [url |-> url, urlWords |-> urlWords, words |-> words, anchors |-> anchors]
LinkTo(url) == [url |-> url, words |-> <<>>]

MCDocs == <<Doc(url1, <<u>>, <<a, b>>, <<>>),
            Doc(url2, <<>>, <<a>>, <<LinkTo(url1)>>),
            Doc(url1, <<>>, <<b>>, <<>>)>>

\* Three documents that have nothing but their end.
TurnDocs == <<Doc(url1, <<>>, <<>>, <<>>), Doc(url2, <<>>, <<>>, <<>>),
              Doc(url1, <<>>, <<>>, <<>>)>>

Symmetry == Permutations(Readers) \cup Permutations(Writers)
=============================================================================
