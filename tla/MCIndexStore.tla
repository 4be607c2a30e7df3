---------------------------- MODULE MCIndexStore ----------------------------
(***************************************************************************)
(* What the crawler and the index rest on, for TLC: to the parts of        *)
(* MCRobots come the numbers the index writes, its posting lists, its hash *)
(* maps, and the queries that will be asked of it.  They share nothing, so *)
(* a behaviour is of one of Parts, chosen at the start.                    *)
(***************************************************************************)
EXTENDS MCRobots, Utf8Numbers, Postings, PersistentHashMap, QueryParser

CONSTANTS QueryLength, PlainLength, TokenLength

VARIABLE query

SomeNumbers == {0, 1, 7, 8, 15, 16, 127, 128, 255, 256, 2047, 2048, 4095, 4096, 32767, 32768, 65535}
SomePairs   == {0, 3, 4, 7, 8, 127, 128, 2048, 65535} \X {0, 1, 2, 256, 65535}

BehindTheEnd  == <<0, 0>>
SomeHashes    == [key \in 1..4 |-> CASE key = 1 -> 1 [] key = 2 -> 3 [] key = 3 -> 1 [] OTHER -> 6]
SwappedWords  == Permutations(Words)

Symbols == {"a", " ", "(", ")", "|", "&", "\"", "-"}

\* Tokens one behind the other, every parenthesis closed, and a blank behind each word.
Tokens == {"word", "&", "|", "(", ")"}
Chars(token, i) == IF token # "word" THEN <<token>> ELSE IF i % 2 = 0 THEN <<"a", " ">> ELSE <<"b", " ">>
Nested(tokens) ==
  /\ Count(tokens, "(") = Count(tokens, ")")
  /\ \A i \in DOMAIN tokens : LET front == SubSeq(tokens, 1, i)
                              IN  Count(front, "(") >= Count(front, ")")
TokenQueries(n) ==
  {FlattenSeq([i \in 1..n |-> Chars(tokens[i], i)]) :
     tokens \in {t \in [1..n -> Tokens] : t[1] \in {"word", "("} /\ Nested(t)}}

Queries == UNION {[1..n -> Symbols] : n \in 1..QueryLength}
             \union UNION {[1..n -> {"a", " "}] : n \in 1..PlainLength}
             \union UNION {TokenQueries(n) : n \in 1..TokenLength}

numbersVars == <<stream, written>>
robotsVars  == <<text, treeVars, storeStateVars>>

InitAll ==
  /\ InitPostings
  /\ InitMap
  /\ InitParts
  /\ IF part = "numbers" THEN InitNumbers ELSE stream = Stream(TRUE) /\ written = <<>>
  /\ IF part = "query" THEN query \in Queries ELSE query = <<"a">>

NextAll ==
  /\ UNCHANGED query
  /\ \/ NextParts /\ UNCHANGED <<numbersVars, storeVars, mapVars>>
     \/ /\ UNCHANGED <<part, robotsVars>>
        /\ \/ part = "numbers" /\ NextNumbers /\ UNCHANGED <<storeVars, mapVars>>
           \/ part = "postings" /\ NextPostings /\ UNCHANGED <<numbersVars, mapVars>>
           \/ part = "map" /\ NextMap /\ UNCHANGED <<numbersVars, storeVars>>

SpecAll == InitAll /\ [][NextAll]_<<part, query, robotsVars, numbersVars, storeVars, mapVars>>

\* AcceptedQueryKeepsItsWords of the query asked (query_parser.cpp:38, 62).
QueryKeepsItsWords == part = "query" => AcceptedQueryKeepsItsWords(query)

\* PlainQueryIsAccepted of the query asked (query_parser.cpp:71).
PlainWordsAreAccepted == part = "query" => PlainQueryIsAccepted(query)
=============================================================================
