---------------------------- MODULE RobotsParser ----------------------------
(***************************************************************************)
(* The rules a robots.txt has for this crawler: FindUserAgentRules and     *)
(* ReadNextRule (src/src/DomainRules.cpp) over a TokenStream.              *)
(***************************************************************************)
EXTENDS TokenStream, FiniteSets, SequencesExt

CONSTANTS UserAgentCommand, UserAgentName, AllowCommand, DisallowCommand

\* To the line behind the one that names the agent.  FindName is behind a command, FindEnd
\* behind a name.
RECURSIVE FindUserAgentRules(_)

FindEnd(name) ==
  LET end == MatchEndline(DiscardWhitespace(name))
  IN  IF name.matched /\ end.matched THEN [s |-> end, found |-> TRUE]
      ELSE FindUserAgentRules(IF name.matched THEN end ELSE name)

FindName(command) ==
  IF command.matched THEN FindEnd(MatchKeyword(DiscardWhitespace(command), UserAgentName))
  ELSE [s |-> command, found |-> FALSE]

FindUserAgentRules(s) == FindName(MatchNextKeyword(s, UserAgentCommand))

\* The calls of ReadNextRule until it returns no path: ReadDisallow and ReadAllow are behind
\* the keyword if it matched, ReadPath behind the blanks that follow it.  "from" is the place of the path.
RECURSIVE ReadRules(_)

ReadPath(start, allowed) ==
  LET path == MatchPath(start)
      rule == [path |-> path.text, from |-> start.lexemeStart, allowed |-> allowed]
  IN  (IF path.text = <<>> THEN <<>> ELSE <<rule>>) \o ReadRules(MatchNextEndline(path))

ReadAllow(command) ==
  IF command.matched THEN ReadPath(DiscardWhitespace(command), TRUE)
  ELSE ReadRules(MatchNextEndline(command))

ReadDisallow(command) ==
  IF command.matched THEN ReadPath(DiscardWhitespace(command), FALSE)
  ELSE ReadAllow(MatchKeyword(command, AllowCommand))

ReadLine(end) ==
  IF end.matched THEN <<>> ELSE ReadDisallow(MatchKeyword(end, DisallowCommand))

ReadRules(s) == ReadLine(MatchEndline(s))

RulesOfGroup(group) == IF group.found THEN ReadRules(group.s) ELSE <<>>

DomainRulesOf(in) == RulesOfGroup(FindUserAgentRules(Open(in)))
----------------------------------------------------------------------------
(* The same, line by line. *)

IsAt(line, i, word) == IsPrefix(word, SubSeq(line, i, Len(line)))

LinesOf(in) ==
  LET ends == {i \in 1..Len(in) : in[i] = "\n"} \union {Len(in) + 1}
      Nth(n) == CHOOSE i \in ends : Cardinality({j \in ends : j <= i}) = n
  IN  [n \in 1..Cardinality(ends) |->
         SubSeq(in, IF n = 1 THEN 1 ELSE Nth(n - 1) + 1, Nth(n) - 1)]

Blank(in) == \A i \in DOMAIN in : IsWhitespace(in[i])

\* A line ends in the command, the name, and blanks around the name.
NamesTheAgent(line) ==
  \E i, j \in 1..Len(line) :
    /\ IsAt(line, i, UserAgentCommand) /\ i + Len(UserAgentCommand) <= j
    /\ Blank(SubSeq(line, i + Len(UserAgentCommand), j - 1))
    /\ IsAt(line, j, UserAgentName)
    /\ Blank(SubSeq(line, j + Len(UserAgentName), Len(line)))

\* The path of a line that begins with the command, blanks before the path.
PathsOf(line, command) ==
  {SubSeq(line, i, j) : <<i, j>> \in
     {p \in (1..Len(line)) \X (1..Len(line)) :
        /\ IsAt(line, 1, command) /\ p[1] > Len(command) /\ p[1] <= p[2] /\ line[p[1]] = "/"
        /\ Blank(SubSeq(line, Len(command) + 1, p[1] - 1))
        /\ \A k \in p[1]..p[2] : ~IsWhitespace(line[k])
        /\ p[2] = Len(line) \/ IsWhitespace(line[p[2] + 1])}}

RulesOf(line) ==
  {[path |-> path, allowed |-> TRUE] : path \in PathsOf(line, AllowCommand)}
    \union {[path |-> path, allowed |-> FALSE] : path \in PathsOf(line, DisallowCommand)}

\* The lines behind the first that names the agent, to the next empty one.
Group(in) ==
  LET lines  == LinesOf(in)
      agents == {i \in DOMAIN lines : NamesTheAgent(lines[i])}
      first  == CHOOSE i \in agents : \A j \in agents : i <= j
  IN  IF agents = {} THEN <<>>
      ELSE LET rest  == SubSeq(lines, first + 1, Len(lines))
               empty == {i \in DOMAIN rest : rest[i] = <<>> \/ rest[i] = <<"\r">>}
           IN  IF empty = {} THEN rest
               ELSE SubSeq(rest, 1, (CHOOSE i \in empty : \A j \in empty : i <= j) - 1)

\* One for one and in their order.  A path that is the first thing on a page is copied from
\* the page before, and only its length is right.
AreThoseOf(read, lines) ==
  /\ Len(read) = Len(lines)
  /\ \A i \in DOMAIN read : \E rule \in RulesOf(lines[i]) :
       /\ read[i].allowed = rule.allowed /\ Len(read[i].path) = Len(rule.path)
       /\ read[i].from % BufferSize = 0 \/ read[i].path = rule.path

\* The rules read are those of the lines behind the first line that names the agent
\* (DomainRules.cpp:68, 88), each with its path: blanks, lines that are no rules, ends of
\* lines in either form and the ends of pages, wherever they fall, make no difference
\* (TokenStream.cpp:146-225).
RulesAreThoseOfTheLines(in) ==
  AreThoseOf(DomainRulesOf(in), SelectSeq(Group(in), LAMBDA line : RulesOf(line) # {}))
=============================================================================
