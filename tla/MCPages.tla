------------------------------- MODULE MCPages -------------------------------
(***************************************************************************)
(* The way of a page, for TLC: the exchange with its server, the urls it   *)
(* links to, its words and those of its url, and the store.  A behaviour   *)
(* is of one of them, chosen at the start.                                 *)
(***************************************************************************)
EXTENDS MCPageStore, HttpExchange, RelativeUrls, HtmlParser, UrlWords

CONSTANTS PathLength, HtmlLength, UrlLength

VARIABLES
  part,
  link,    \* a page and the path of a link on it
  html, pieces, url

\* Servers that send all of an answer, less, or more than they announce.
SomeServers ==
  {s \in [secure : BOOLEAN, lead : {2, 3}, text : BOOLEAN, gzip : BOOLEAN, header : {2, 3},
          body : {0, 4}, length : {None, 0, 4, 5, Chunked}, sends : {1, 3, 6, 7}, closes : BOOLEAN] :
     /\ s.sends <= s.header + s.body + 1
     /\ s.lead = 3 => s.text /\ ~s.gzip}

Strings(symbols, n) == UNION {[1..k -> symbols] : k \in 0..n}

Links ==
  {[page |-> [scheme |-> "http", host |-> <<"h">>, path |-> p, query |-> q], path |-> new] :
     p   \in {p \in Strings({"/", ".", "a"}, 4) : p = <<>> \/ p[1] = "/"},
     q   \in {<<>>, <<"?", "a">>, <<"?", "/", "a">>},
     new \in Strings({"/", ".", "a"}, PathLength)}

Word(word, type) == [word |-> word, type |-> type]
Piece(chars, words, links) == [html |-> chars, words |-> words, links |-> links]

Pieces == {
  Piece(<<"w", " ">>, <<Word(<<"w">>, "b")>>, <<>>),
  Piece(<<"-", "w", "-", "e", " ">>, <<Word(<<"w", "-", "e">>, "b")>>, <<>>),
  Piece(<<"w", "non-ascii", " ">>, <<>>, <<>>),
  Piece(<<"<", "e", ">", "w", "<", "/", "e", ">">>, <<Word(<<"w">>, "b")>>, <<>>),
  Piece(<<"<", "script", ">", "w", "<", " ", "<", "/", "script", ">">>, <<>>, <<>>),
  Piece(<<"<", "style", ">", "w", "<", "/", "style", ">">>, <<>>, <<>>),
  Piece(<<"<", "title", ">", "w", "<", "/", "title", ">">>, <<Word(<<"w">>, "t")>>, <<>>),
  Piece(<<"<", "html", " ", "lang=", "\"", "e", "n", "\"", ">">>, <<>>, <<>>),
  Piece(<<"<", "html", ">">>, <<>>, <<>>),
  Piece(<<"<", "a", " ", "href=", "\"", "w", "\"", ">", "e", "<", "/", "a", ">">>,
        <<Word(<<"e">>, "a")>>, <<[url |-> <<"w">>, anchor |-> << <<"e">> >>]>>),
  Piece(<<"<", "a", " ", "href=", "n", " ", ">", "<", "e", ">", "w", "<", "/", "e", ">", "n",
          "<", "/", "a", ">">>,
        <<Word(<<"w">>, "a"), Word(<<"n">>, "a")>>,
        <<[url |-> <<"n">>, anchor |-> << <<"w">>, <<"n">> >>]>>),
  Piece(<<"<", "a", " ", ">", "w", "<", "/", "a", ">">>, <<Word(<<"w">>, "a")>>, <<>>),
  Piece(<<"<", "a", " ", "href=", ">", "w", "<", "/", "a", ">">>,
        <<Word(<<"w">>, "a")>>, <<[url |-> <<>>, anchor |-> <<>>]>>)}

SomeDomains == {<<"o", "k", "o">>}
SomeRanks   == [word \in {<<"o", "k">>, <<"o", "o">>, <<"o", "k", "o">>} |->
                  CASE word = <<"o", "k">> -> 3 [] word = <<"o", "o">> -> 2 [] OTHER -> 1]

UrlParts == {<<"o", "k">>, <<"o", "o">>, <<"o", "k", "o">>, <<"k", "k", "k", "k", "o">>,
             <<"k", "k", "k", "o">>, <<"w", "w", "w">>, <<"1">>, <<"/">>, <<".">>, <<"o">>}

NoLink == [page |-> [scheme |-> "http", host |-> <<"h">>, path |-> <<"/">>, query |-> <<>>],
           path |-> <<"a">>]

storeVars == vars

InitPages ==
  /\ part \in {"store", "exchange", "link", "html", "pieces", "url"}
  /\ Init
  /\ IF part = "exchange" THEN InitExchange
     ELSE /\ robots = FALSE /\ at = "resolve" /\ client = NewClient(0) /\ sockets = [open |-> 0, held |-> 0]
          /\ server = CHOOSE s \in Servers : TRUE
  /\ link \in (IF part = "link" THEN Links ELSE {NoLink})
  /\ html \in (IF part = "html" THEN Strings({"<", ">", "a", " ", "/", "href=", "html"}, HtmlLength)
               ELSE {<<>>})
  /\ pieces \in (IF part = "pieces" THEN Strings(Pieces, 3) ELSE {<<>>})
  /\ url \in (IF part = "url"
              THEN Strings({"o", "k", "/", "1"}, UrlLength)
                     \union {FlattenSeq(parts) : parts \in Strings(UrlParts, 4)}
              ELSE {<<>>})

NextPages ==
  /\ UNCHANGED <<part, link, html, pieces, url>>
  /\ \/ part = "store" /\ Next /\ UNCHANGED exchangeVars
     \/ part = "exchange" /\ NextExchange /\ UNCHANGED storeVars

SpecPages ==
  InitPages /\ [][NextPages]_<<part, link, html, pieces, url, storeVars, exchangeVars>>

\* RelativePathsAreWalked of the link (http.cpp:505, 522, 547).
LinksAreResolved == RelativePathsAreWalked(link.page, link.path)

\* PiecesAreRead of the page (Parser.cpp:165, 428).
PagesAreReadPieceByPiece == PiecesAreRead(pieces)

\* ParserMovesOn in whatever comes as a page (Parser.cpp:459, 498).
ParsingEnds == ParserMovesOn(html)

\* UrlIsReadAsWords of the url of a page (Parser.cpp:25, 93).
UrlsAreReadAsWords == UrlIsReadAsWords(url)
=============================================================================
