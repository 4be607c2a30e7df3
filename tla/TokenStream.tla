---------------------------- MODULE TokenStream ----------------------------
(***************************************************************************)
(* The reader of a robots.txt (src/src/TokenStream.cpp): characters are    *)
(* peeked at from a list of pages, which are read when the first of their  *)
(* characters is wanted and deleted when the lexeme before them has been   *)
(* consumed.  A stream is a record, an operation takes it to the next.     *)
(* Pages are numbered in the order they are read; the list holds first to  *)
(* last, and front and back are iterators: a page, or 0 for End.           *)
(***************************************************************************)
EXTENDS Integers, Sequences

CONSTANT BufferSize  \* characters of a page: 4096 in the code

ASSUME BufferAssumption == BufferSize \in Nat \ {0}

\* next and matched are what the last peek and the last match have returned, and text is the
\* string.
Open(in) ==
  [in |-> in, lexemeStart |-> 0, peekIndex |-> 0, lastIndex |-> -1,
   first |-> 1, last |-> 0, front |-> 0, back |-> 0,
   next |-> "eof", matched |-> FALSE, text |-> <<>>]

Empty(s)   == s.first > s.last
GetBack(s) == IF Empty(s) THEN 0 ELSE s.last

\* What a page has at an index; "garbage" where nothing was read, or the page was deleted.
CharAt(s, page, index) ==
  LET place == (page - 1) * BufferSize + index + 1
  IN  IF page \in s.first..s.last /\ place <= Len(s.in) THEN s.in[place] ELSE "garbage"

\* A page that was read before is gone to, a new one is read.  From a page that was deleted
\* nothing leads on.
AddPage(s) ==
  LET page      == s.last + 1
      rest      == Len(s.in) - s.last * BufferSize
      bytesRead == IF rest >= BufferSize THEN BufferSize ELSE IF rest > 0 THEN rest ELSE 0
  IN  IF s.back # GetBack(s)
      THEN [s EXCEPT !.back = IF @ \in s.first..s.last THEN @ + 1 ELSE 0]
      ELSE [s EXCEPT !.lastIndex = IF bytesRead # BufferSize THEN bytesRead ELSE @,
                     !.last = page, !.back = page, !.front = s.first]

\* On the page that is wanted.
PeekAt(s, i) ==
  IF (i = s.lastIndex /\ s.back = GetBack(s)) \/ s.back = 0
  THEN [s EXCEPT !.next = "eof"]
  ELSE [s EXCEPT !.next = CharAt(s, s.back, i), !.peekIndex = @ + 1]

PeekNext(s) ==
  LET i == s.peekIndex % BufferSize
  IN  PeekAt(IF i = 0 /\ (s.peekIndex # 0 \/ Empty(s)) THEN AddPage(s) ELSE s, i)

ResetPeek(s) == [s EXCEPT !.peekIndex = s.lexemeStart, !.back = s.front]

\* Mutant: back stays on its page.
DecrementIndex(s) == IF s.peekIndex = s.lexemeStart THEN s ELSE [s EXCEPT !.peekIndex = @ - 1]

\* Before the first character of a page, back is on the page before.
DecrementPeek(s) ==
  IF s.peekIndex = s.lexemeStart THEN s
  ELSE [s EXCEPT !.peekIndex = @ - 1,
                 !.back = IF (s.peekIndex - 1) % BufferSize # 0 THEN @
                          ELSE IF @ \in s.first + 1..s.last THEN @ - 1 ELSE 0]

\* The pages before back are deleted.
ConsumeLexeme(s) ==
  [s EXCEPT !.lexemeStart = s.peekIndex, !.front = s.back,
            !.first = IF s.back = 0 THEN s.last + 1 ELSE s.back]

\* The characters are copied from the page at front on, which is deleted when i reaches
\* BufferSize * pages - lexemeStart % BufferSize.  back is left where it is.
ConsumeLexemeToString(s) ==
  LET length == s.peekIndex - s.lexemeStart
      Left(i) == ((s.lexemeStart % BufferSize) + i) \div BufferSize
      Copied(i) == CharAt(s, s.front + Left(i), (s.lexemeStart + i) % BufferSize)
  IN  IF length = 0 THEN [s EXCEPT !.text = <<>>]
      ELSE [s EXCEPT !.text = [i \in 1..length |-> Copied(i - 1)], !.lexemeStart = s.peekIndex,
                     !.front = @ + Left(length - 1), !.first = @ + Left(length - 1)]
----------------------------------------------------------------------------
Whitespace == {" ", "\t", "\r"}
IsWhitespace(c) == c \in Whitespace

\* Peeks on while the characters are among chars, or while they are not; the end or the
\* character that stops it is peeked at, too.
RECURSIVE PeekWhile(_, _, _)
PeekWhile(s, chars, among) ==
  LET n == PeekNext(s)
  IN  IF n.next # "eof" /\ (n.next \in chars) = among THEN PeekWhile(n, chars, among) ELSE n

\* The end of the text is not given back.
GiveBack(s) == IF s.next = "eof" THEN s ELSE DecrementPeek(s)

\* Peeks until the keyword is complete or the next character is not the keyword's.
RECURSIVE PeekKeyword(_, _)
PeekKeyword(s, keyword) ==
  LET n == PeekNext(s)
  IN  IF keyword = <<>> THEN [s EXCEPT !.matched = TRUE]
      ELSE IF n.next # Head(keyword) THEN [n EXCEPT !.matched = FALSE]
      ELSE PeekKeyword(n, Tail(keyword))

DiscardWhitespace(s) == ConsumeLexeme(GiveBack(PeekWhile(s, Whitespace, TRUE)))

MatchKeyword(s, keyword) ==
  LET n == PeekKeyword(s, keyword) IN IF n.matched THEN ConsumeLexeme(n) ELSE ResetPeek(n)

MatchEndline(s) ==
  LET one  == PeekNext(s)
      two  == IF one.next = "\r" THEN PeekNext(one) ELSE one
      ends == one.next \in {"eof", "\n"} \/ (one.next = "\r" /\ two.next = "\n")
  IN  [(IF ends THEN ConsumeLexeme(two) ELSE ResetPeek(two)) EXCEPT !.matched = ends]

MatchPath(s) ==
  LET one == PeekNext(s)
      end == PeekWhile(one, Whitespace \union {"\n"}, FALSE)
  IN  IF one.next # "/" THEN [ResetPeek(one) EXCEPT !.text = <<>>]
      ELSE ConsumeLexemeToString(GiveBack(end))

RECURSIVE DecrementPeekBy(_, _)
DecrementPeekBy(s, i) == IF i = 0 THEN s ELSE DecrementPeekBy(DecrementPeek(s), i - 1)

\* Wherever in a line the keyword is.  After a keyword that was begun, what was peeked at
\* behind its first character is given back.
RECURSIVE MatchNextKeyword(_, _)
MatchNextKeyword(s, keyword) ==
  LET begun == PeekNext(s)
      n     == PeekKeyword(begun, Tail(keyword))
  IN  IF begun.next = "eof" THEN [begun EXCEPT !.matched = FALSE]
      ELSE IF begun.next # Head(keyword) THEN MatchNextKeyword(begun, keyword)
      ELSE IF n.next = "eof" THEN [n EXCEPT !.matched = FALSE]
      ELSE IF n.matched THEN ConsumeLexeme(n)
      ELSE MatchNextKeyword(DecrementPeekBy(n, n.peekIndex - begun.peekIndex), keyword)

MatchNextEndline(s) == ConsumeLexeme(PeekWhile(s, {"\n"}, FALSE))
=============================================================================
