------------------------------ MODULE HtmlParser ------------------------------
(***************************************************************************)
(* LinkFinder::parse_html (src/src/Parser.cpp): the words and the links of *)
(* a page.  A page is a sequence of characters, in which the names script, *)
(* style, title, html, href= and lang= are one character each, and letters *)
(* are lower case.                                                         *)
(***************************************************************************)
EXTENDS Integers, Sequences, FiniteSets, SequencesExt

Char(html, at) == IF at <= Len(html) THEN html[at] ELSE "end"

IsSpace(c)        == c \in {" ", "\n", "end"}
IsRelevantChar(c) == c \notin {"<", ">", "/", "\"", "end"}

\* The first place from at on that satisfies P, or behind the end.
To(html, at, P(_)) ==
  IF at > Len(html) THEN at
  ELSE CHOOSE i \in at..Len(html) + 1 : /\ i > Len(html) \/ P(html[i])
                                        /\ \A j \in at..i - 1 : ~P(html[j])

Closing(c) == c = ">"

\* find_string: behind the first place where the string ends.  A character that does not
\* continue it is not tried as its first.
FindString(html, at, string) ==
  LET find[i \in Nat, counter \in Nat] ==
        IF i > Len(html) \/ counter = Len(string) THEN i
        ELSE find[i + 1, IF html[i] = string[counter + 1] THEN counter + 1 ELSE 0]
  IN  find[at, 0]

\* find_link: the same, up to the end of the tag.
FindLink(html, at, string) ==
  LET end == To(html, at, Closing)
      has == {i \in at..end - 1 : html[i] = string}
  IN  IF has = {} THEN [found |-> FALSE, at |-> end]
      ELSE [found |-> TRUE, at |-> 1 + CHOOSE i \in has : \A j \in has : i <= j]
----------------------------------------------------------------------------
(* Words.  A document has the words, with their types, the links, and the words of the text *)
(* of the last links.                                                                       *)

NoDocument == [words |-> <<>>, links |-> <<>>, isLink |-> FALSE]

\* Mutant: without the test that the link of the text has a url.
GivesToTheLast(doc, word, type) ==
  [doc EXCEPT !.words = Append(@, [word |-> word, type |-> type]),
              !.links = IF type = "a" /\ @ # <<>>
                        THEN [@ EXCEPT ![Len(@)].anchor = Append(@, word)] ELSE @]

NewWord(doc, word, type) ==
  [doc EXCEPT !.words = Append(@, [word |-> word, type |-> type]),
              !.links = IF type = "a" /\ doc.isLink
                        THEN [@ EXCEPT ![Len(@)].anchor = Append(@, word)] ELSE @]

WordEnd(c) == IsSpace(c) \/ ~IsRelevantChar(c)

\* add_char_to_word: a word up to its end, none if a character is not ASCII; or one character.
AddCharToWord(html, at, doc, type) ==
  LET end  == To(html, at, WordEnd)
      word == SubSeq(html, at, end - 1)
  IN  IF WordEnd(html[at]) \/ html[at] = "-" THEN [at |-> at + 1, doc |-> doc]
      ELSE [at |-> end, doc |-> IF Contains(word, "non-ascii") THEN doc
                                ELSE NewWord(doc, word, type)]

RECURSIVE GetWords(_, _, _, _), GetAnchorText(_, _, _, _)

GetWords(html, at, doc, type) ==
  LET next == AddCharToWord(html, at, doc, type)
  IN  IF Char(html, at) \in {"<", "end"} THEN [at |-> at, doc |-> doc]
      ELSE GetWords(html, next.at, next.doc, type)

\* The words of a link, up to stop: inner tags are skipped.
GetAnchorText(html, at, stop, doc) ==
  LET text == IF Char(html, at) = "<" THEN To(html, at, Closing) + 1 ELSE at
      read == GetWords(html, text, doc, "a")
  IN  IF at > Len(html) \/ at >= stop THEN [at |-> stop, doc |-> doc]
      ELSE GetAnchorText(html, read.at, stop, read.doc)

\* Mutant: without the test for a link that has no parent.
StopAtTheParent(reset, end) == 1

\* find_closing_a_tag: find_open_tag never finds the parent, whose end is then the first
\* place; the test against an infinite loop makes it the place of the next "</a>", or what
\* would be that at the end.
StopIndex(reset, end) == IF 1 <= reset THEN end - 4 ELSE 1

FindClosingATag(html, close, doc) ==
  LET reset == close + 1
      end   == FindString(html, reset, <<"<", "/", "a", ">">>)
  IN  GetAnchorText(html, reset, StopIndex(reset, end), doc)

\* <a: the link, if there is one, and its text.  Behind the end of the file the url goes on
\* with what is in memory: it ends there.
Link(html, at, doc) ==
  LET href  == FindLink(html, at, "href=")
      url   == SelectSeq(SubSeq(html, href.at, To(html, href.at, LAMBDA c : c \in {" ", ">"}) - 1),
                         LAMBDA c : c # "\"")
      with  == IF href.found
               THEN [doc EXCEPT !.links = Append(@, [url |-> url, anchor |-> <<>>]),
                                !.isLink = url # <<>>]
               ELSE [doc EXCEPT !.isLink = FALSE]
      close == To(html, at, Closing)
      text  == FindClosingATag(html, close, with)
  IN  [at |-> To(html, text.at, Closing) + 1, doc |-> text.doc]

\* <html: whether a language is given that is not English.
Foreign(html, lang) ==
  /\ lang.found /\ lang.at + 3 <= Len(html)
  /\ LET quoted == IF html[lang.at] = "\"" THEN 1 ELSE 0
     IN  SubSeq(html, lang.at + quoted, lang.at + quoted + 1) # <<"e", "n">>

\* One turn of the loop of parse_html.
Step(html, at, doc) ==
  LET name   == Char(html, at + 1)
      none   == [doc EXCEPT !.isLink = FALSE]
      Past(i, string) == [at |-> FindString(html, i, string), doc |-> none]
      lang   == FindLink(html, at + 1, "lang=")
      short  == ~lang.found \/ lang.at + 3 > Len(html)
  IN  CASE html[at] # "<" -> GetWords(html, at, doc, "b")
        [] html[at] = "<" /\ name = "a" /\ Char(html, at + 2) = " " -> Link(html, at + 1, doc)
        [] html[at] = "<" /\ name \in {"script", "style"} ->
             Past(at + 1, <<"<", "/", name, ">">>)
        [] html[at] = "<" /\ name = "title" -> GetWords(html, at + 3, none, "t")
        [] html[at] = "<" /\ name = "html" /\ Foreign(html, lang) ->
             [at |-> Len(html) + 1, doc |-> none]
        [] html[at] = "<" /\ name = "html" /\ ~Foreign(html, lang) ->
             Past(IF short THEN lang.at ELSE at + 1, <<">">>)
        [] OTHER -> Past(at + 1, <<">">>)

RECURSIVE ParseFrom(_, _, _)
ParseFrom(html, at, doc) ==
  LET next == Step(html, at, doc)
  IN  IF at > Len(html) THEN doc ELSE ParseFrom(html, next.at, next.doc)

ParseHtml(html) == ParseFrom(html, 1, NoDocument)
----------------------------------------------------------------------------
\* Of a page put together from pieces, each with its own tags closed, the parser finds the
\* words and links of the pieces, every one once, in their order and with its type
\* (Parser.cpp:165, 428): nothing that a script or a tag hides, nothing read twice behind
\* a link, no word of a link that is given to another.
PiecesAreRead(pieces) ==
  LET doc == ParseHtml(FlattenSeq([i \in DOMAIN pieces |-> pieces[i].html]))
  IN  /\ doc.words = FlattenSeq([i \in DOMAIN pieces |-> pieces[i].words])
      /\ doc.links = FlattenSeq([i \in DOMAIN pieces |-> pieces[i].links])

\* Wherever the parser is in whatever page, its next turn ends behind that place: it reaches
\* the end, though the search for the end of a link goes back (Parser.cpp:459, 498).
ParserMovesOn(html) == \A at \in DOMAIN html : Step(html, at, NoDocument).at > at
=============================================================================
