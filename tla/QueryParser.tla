----------------------------- MODULE QueryParser -----------------------------
(***************************************************************************)
(* The query language: the recursive descent of src/src/query_parser.cpp   *)
(* over the token stream of src/src/query_tokenstream.cpp.  A stream s has *)
(* the place of its next character and the flag match_and; a result has    *)
(* the stream reached, for what has been consumed is not given back on a   *)
(* failure, and the characters of stringEval, of which ok says whether     *)
(* there is any.                                                           *)
(***************************************************************************)
EXTENDS Integers, Sequences, FiniteSets, SequencesExt

Operators == {" ", "\"", "&", "|", "(", ")"}
Relevant  == Operators \union {"@", "#", "$", "-", "*", "a", "b", "A", "B", "1"}
Lower(c)  == CASE c = "A" -> "a" [] c = "B" -> "b" [] OTHER -> c

CharsOf(query) == SelectSeq(query, LAMBDA c : c \in Relevant)

Found(s, out) == [ok |-> TRUE, s |-> s, out |-> out]
Missing(s)    == [ok |-> FALSE, s |-> s, out |-> <<>>]

\* The first place from at on that does not satisfy P.
Skip(in, at, P(_)) ==
  CHOOSE i \in at..Len(in) + 1 : /\ i = Len(in) + 1 \/ ~P(in[i])
                                 /\ \A j \in at..i - 1 : P(in[j])

\* Blanks are skipped, whether the character is there or not, and an "&" is remembered.
Match(in, s, c) ==
  LET i == Skip(in, s.location, LAMBDA x : x = " ")
  IN  IF i <= Len(in) /\ in[i] = c
      THEN Found([location |-> i + 1, match_and |-> s.match_and \/ c = "&"], <<c>>)
      ELSE Missing([s EXCEPT !.location = i])

ParseWord(in, s) ==
  LET end == Skip(in, s.location, LAMBDA x : x \notin Operators)
  IN  IF end = s.location THEN Missing(s)
      ELSE Found([s EXCEPT !.location = Skip(in, end, LAMBDA x : x = " ")],
                 [i \in 1..end - s.location |-> Lower(in[s.location + i - 1])])

\* Mutant: two characters are left.
TwoLeft(in, s) == s.location \in {Len(in) - 1, Len(in)}

LastChar(in, s) == s.location = Len(in)
----------------------------------------------------------------------------
(* The descent.  parse gives for every nonterminal and stream what is found there, and    *)
(* for "more words", "more and" and "more or" what follows the first term of a list.      *)

\* What is behind out, and out in front of it.
Behind(out, rest) == IF rest.ok THEN Found(rest.s, out \o rest.out) ELSE rest

\* The words of a phrase, behind the first.
MoreWords(parse, in, s) ==
  LET word == ParseWord(in, s)
  IN  IF word.ok THEN Behind(<<" ">> \o word.out, parse["more words", word.s])
      ELSE Found(s, <<>>)

FindPhrase(parse, in, s) ==
  LET word == ParseWord(in, s)
  IN  IF word.ok THEN Behind(word.out, parse["more words", word.s]) ELSE word

\* What an opening character has in front, and must be closed.
Closed(in, inner, c) ==
  LET close == Match(in, inner.s, c)
  IN  CASE ~inner.ok -> inner
        [] inner.ok /\ ~close.ok -> close
        [] OTHER -> Found(close.s, inner.out)

FindSimple(parse, in, s) ==
  LET quote == Match(in, s, "\"")
      paren == Match(in, quote.s, "(")
      minus == Match(in, paren.s, "-")
  IN  CASE quote.ok -> Closed(in, parse["phrase", quote.s], "\"")
        [] ~quote.ok /\ paren.ok -> Closed(in, parse["or", paren.s], ")")
        [] ~quote.ok /\ ~paren.ok /\ minus.ok -> Behind(<<"!">>, parse["simple", minus.s])
        [] OTHER -> ParseWord(in, minus.s)

\* Mutant: the flag is not reset.
KeepsTheFlag(parse, left) ==
  IF left.s.match_and THEN parse["simple", left.s] ELSE left

\* The next term of a list: when an "&" was matched, by this list or by one around it, a
\* term is looked for once more and the flag is reset behind it.
NextTerm(parse, left) ==
  IF left.s.match_and
  THEN LET term == parse["simple", left.s] IN [term EXCEPT !.s.match_and = FALSE]
  ELSE left

\* The terms behind the first.  When one character is left the rest is not looked at.
MoreAnd(parse, in, s) ==
  LET left == parse["simple", s]
      sign == Match(in, left.s, "&")
      term == NextTerm(parse, IF left.ok THEN left ELSE sign)
      out  == <<"&">> \o term.out
  IN  CASE ~left.ok /\ ~sign.ok -> Found(sign.s, <<>>)
        [] (left.ok \/ sign.ok) /\ ~term.ok -> term
        [] OTHER -> IF LastChar(in, term.s) THEN Found(term.s, out)
                    ELSE Behind(out, parse["more and", term.s])

FindAnd(parse, s) ==
  LET left == parse["simple", s]
  IN  IF left.ok THEN Behind(left.out, parse["more and", left.s]) ELSE left

MoreOr(parse, in, s) ==
  LET bar  == Match(in, s, "|")
      term == parse["or", bar.s]
  IN  CASE ~bar.ok -> Found(bar.s, <<>>)
        [] bar.ok /\ ~term.ok -> term
        [] OTHER -> Behind(<<"|">> \o term.out, parse["more or", term.s])

FindOr(parse, s) ==
  LET left == parse["and", s]
  IN  IF left.ok THEN Behind(left.out, parse["more or", left.s]) ELSE left

\* Parse and fullParsed; a query that is not accepted gets the help message.
Parse(query) ==
  LET in == CharsOf(query)
      parse[what \in {"or", "more or", "and", "more and", "simple", "phrase", "more words"},
            s \in [location : Nat, match_and : BOOLEAN]] ==
        CASE what = "or"         -> FindOr(parse, s)
          [] what = "more or"    -> MoreOr(parse, in, s)
          [] what = "and"        -> FindAnd(parse, s)
          [] what = "more and"   -> MoreAnd(parse, in, s)
          [] what = "simple"     -> FindSimple(parse, in, s)
          [] what = "phrase"     -> FindPhrase(parse, in, s)
          [] what = "more words" -> MoreWords(parse, in, s)
      result == parse["or", [location |-> 1, match_and |-> FALSE]]
  IN  [accepted |-> result.ok /\ result.s.location = Len(in) + 1, out |-> result.out]
----------------------------------------------------------------------------
(* The words of a query, or of what it was understood as. *)

WordChar(c) == c \in Relevant \ (Operators \union {"-"})

WordsOf(chars) ==
  LET starts == {i \in 1..Len(chars) : WordChar(chars[i]) /\ (i = 1 \/ ~WordChar(chars[i - 1]))}
      Word(i) == [j \in 1..Skip(chars, i, WordChar) - i |-> Lower(chars[i + j - 1])]
  IN  [n \in 1..Cardinality(starts) |->
         Word(CHOOSE i \in starts : Cardinality({j \in starts : j <= i}) = n)]

Count(chars, c) == Cardinality({i \in 1..Len(chars) : chars[i] = c})

Balanced(query) == Count(query, "\"") = 0 /\ Count(query, "(") = Count(query, ")")

\* An "&" in front of a parenthesis, or of one that is excluded.
AndOpens(query) ==
  \E i, j \in 1..Len(query) : /\ i < j /\ query[i] = "&" /\ query[j] = "("
                             /\ \A k \in i + 1..j - 1 : query[k] \in {" ", "-"}

\* query_parser.cpp:12-15: the terms of a list stand behind each other, with an <AndOp> or
\* without, and a term may be an <OrConstraint> in parentheses.  A query without quotes
\* that is accepted and closes its parentheses keeps every word.
AllWordsAreKept(query) ==
  Parse(query).accepted /\ Balanced(query) => WordsOf(Parse(query).out) = WordsOf(query)

\* A query without quotes that is accepted and closes its parentheses keeps every word, in
\* its order (query_parser.cpp:38, 62): a failed alternative consumes what it has read and
\* the parser goes on behind it, and a term is looked for twice behind an "&".  Left out
\* is an "&" in front of a parenthesis, whose flag the list inside takes for its own.
AcceptedQueryKeepsItsWords(query) == ~AndOpens(query) => AllWordsAreKept(query)

\* A query of nothing but words is accepted, unless it ends in a word of one character
\* (query_parser.cpp:71): then the rest is taken for consumed before it is.
PlainQueryIsAccepted(query) ==
  LET words == WordsOf(query)
  IN  (\A i \in 1..Len(query) : query[i] = " " \/ WordChar(query[i])) /\ words # <<>>
        /\ (Last(query) = " " \/ Len(Last(words)) > 1)
      => Parse(query).accepted
=============================================================================
