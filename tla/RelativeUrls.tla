---------------------------- MODULE RelativeUrls ----------------------------
(***************************************************************************)
(* HTTPClient::resolveRelativeUrl (src/src/http.cpp): the url a link leads *)
(* to from the page it is on.  A url has a scheme, a host, a path and a    *)
(* query, the last three sequences of characters, and no fragment.         *)
(***************************************************************************)
EXTENDS Integers, Sequences, FiniteSets, SequencesExt

\* A result: the scheme, and the characters behind the "://".
Text(url) == [scheme |-> url.scheme, rest |-> url.host \o url.path \o url.query]

\* HTTPRequest::uri.  Whatever the query is, "query" is written.
Uri(url) ==
  [scheme |-> url.scheme,
   rest   |-> url.host \o (IF url.path = <<>> THEN <<"/">> ELSE url.path)
                \o (IF url.query # <<>> THEN <<"?", "query">> ELSE <<>>)]

LastSlash(chars) ==
  LET slashes == {i \in DOMAIN chars : chars[i] = "/"}
  IN  IF slashes = {} THEN 0 ELSE CHOOSE i \in slashes : \A j \in slashes : j <= i

\* The first place of some characters in others, 0 when there is none.
PlaceOf(chars, part) ==
  LET found == {i \in DOMAIN chars : IsPrefix(part, SubSeq(chars, i, Len(chars)))}
  IN  IF found = {} THEN 0 ELSE CHOOSE i \in found : \A j \in found : i <= j

\* a) and b): the text of the base up to its last slash, wherever it is, in front of the
\* path of the reference, parsed again.
Merge(base, path) ==
  LET slash == PlaceOf(path, <<"/">>)
      end   == IF slash = 0 THEN Len(path) ELSE slash - 1
  IN  IF LastSlash(base.query) # 0
      THEN [base EXCEPT !.query = SubSeq(@, 1, LastSlash(@)) \o path]
      ELSE IF base.path # <<>>
      THEN [base EXCEPT !.path = SubSeq(@, 1, LastSlash(@)) \o path, !.query = <<>>]
      ELSE [base EXCEPT !.host = SubSeq(path, 1, end), !.query = <<>>,
                        !.path = SubSeq(path, end + 1, Len(path))]
----------------------------------------------------------------------------
Forever == <<"forever">>

RECURSIVE WithoutDots(_), UpToTheFirstSlash(_), WithoutParents(_), StripParents(_)

\* c)  Of d) nothing is left: the test reads the last character twice.
WithoutDots(path) ==
  LET at == PlaceOf(path, <<"/", ".", "/">>)
  IN  IF at = 0 THEN path
      ELSE WithoutDots(SubSeq(path, 1, at) \o SubSeq(path, at + 3, Len(path)))

\* Mutant: a ".." takes all the segments in front of it.
UpToTheFirstSlash(path) ==
  LET at == PlaceOf(path, <<"/", ".", ".", "/">>)
  IN  IF at = 0 THEN path ELSE IF at = 1 THEN Forever
      ELSE UpToTheFirstSlash(<<"/">> \o SubSeq(path, at + 4, Len(path)))

\* e)  With no segment in front of the first "/../" the loop goes on as it is.  Of f) there
\* is nothing: a ".." at the end is no "/../".
WithoutParents(path) ==
  LET at    == PlaceOf(path, <<"/", ".", ".", "/">>)
      slash == LastSlash(SubSeq(path, 1, at - 1))
  IN  IF at = 0 THEN path
      ELSE IF slash = 0 \/ SubSeq(path, 1, slash - 1) = <<".", ".">> THEN Forever
      ELSE WithoutParents(SubSeq(path, 1, slash) \o SubSeq(path, at + 4, Len(path)))

\* g)
StripParents(path) ==
  IF IsPrefix(<<"/", ".", ".">>, path) THEN StripParents(SubSeq(path, 4, Len(path))) ELSE path

ResolveRelativeUrl(base, new) ==
  LET merged == Merge(base, new.path)
      path   == WithoutParents(WithoutDots(merged.path))
  IN  IF new = [scheme |-> "", host |-> <<>>, path |-> <<>>, query |-> <<>>]
      THEN Uri([base EXCEPT !.query = <<>>])
      ELSE IF new.scheme # "" THEN Text(new)
      ELSE IF new.host # <<>> THEN Text(base)
      ELSE IF new.path # <<>> /\ new.path[1] = "/"
      THEN Uri([new EXCEPT !.scheme = base.scheme, !.host = base.host])
      ELSE IF path = Forever THEN [scheme |-> "", rest |-> Forever]
      ELSE Uri([merged EXCEPT !.path = StripParents(path)])
----------------------------------------------------------------------------
(* The same, segment by segment. *)

Parts(chars) ==
  LET ends == {i \in DOMAIN chars : chars[i] = "/"} \union {Len(chars) + 1}
      Nth(n) == CHOOSE i \in ends : Cardinality({j \in ends : j <= i}) = n
  IN  [n \in 1..Cardinality(ends) |->
         SubSeq(chars, IF n = 1 THEN 1 ELSE Nth(n - 1) + 1, Nth(n) - 1)]

\* The directories that are left of some, one after the other, and whether ".." ever
\* leads above the root.
Walk(dirs) ==
  FoldLeft(LAMBDA at, dir : CASE dir = <<".">> -> at
                              [] dir = <<".", ".">> ->
                                   IF at.dirs = <<>> THEN [at EXCEPT !.above = TRUE]
                                   ELSE [at EXCEPT !.dirs = Front(@)]
                              [] OTHER -> [at EXCEPT !.dirs = Append(@, dir)],
           [dirs |-> <<>>, above |-> FALSE], dirs)

\* The segments from the root to where the link points, and the path of a directory.
Way(base, path) == Parts(SubSeq(base.path, 2, LastSlash(base.path)) \o path)
Directory(dirs) == <<"/">> \o FlattenSeq([i \in DOMAIN dirs |-> Append(dirs[i], "/")])

Dots == {<<".">>, <<".", ".">>}

\* The page has a path and no slash in its query, and the path of the link is relative.
IsRelative(base, path) ==
  path # <<>> /\ path[1] # "/" /\ base.path # <<>> /\ LastSlash(base.query) = 0

Resolved(base, path) ==
  ResolveRelativeUrl(base, [scheme |-> "", host |-> <<>>, path |-> path, query |-> <<>>])

LeadsTo(base, path, to) == Resolved(base, path) = [scheme |-> base.scheme, rest |-> base.host \o to]

\* A link with a relative path leads to the host of the page, to the directory that is
\* reached from that of the page by going through the path segment by segment, and to the
\* last segment there, and the loops that remove segments end (http.cpp:505, 522, 547).
\* This is said of links that go nowhere above the root, and whose last segment is neither
\* "." nor ".." nor the first one of all and begins with "..".
RelativePathsAreWalked(base, path) ==
  LET way  == Way(base, path)
      walk == Walk(Front(way))
  IN  /\ IsRelative(base, path) /\ ~walk.above /\ Last(way) \notin Dots
      /\ ~(walk.dirs = <<>> /\ IsPrefix(<<".", ".">>, Last(way)))
      /\ ~(walk.dirs # <<>> /\ IsPrefix(<<".", ".">>, Head(walk.dirs)))
      => LeadsTo(base, path, Directory(walk.dirs) \o Last(way))
=============================================================================
