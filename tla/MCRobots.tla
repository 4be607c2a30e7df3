------------------------------ MODULE MCRobots ------------------------------
(***************************************************************************)
(* What is behind a robots.txt, for TLC: the text, the tree of rules with  *)
(* its file, and the store of the rules of all domains.  They share        *)
(* nothing, so a behaviour is of one of Parts, chosen at the start.        *)
(***************************************************************************)
EXTENDS MCDirectoryRules, RulesFile, RobotsParser, RobotsStore

CONSTANTS Parts, MaxLines

VARIABLES part, text

MCName == [d \in MCDirs |-> IF d = <<>> THEN "/" ELSE d[Len(d)]]

\* The words of a robots.txt, two characters each.
Agent    == <<"u", ":">>
Star     == <<"*">>
Allow    == <<"a", ":">>
Disallow == <<"d", ":">>

AgentLines ==
  {Agent \o Star, <<"x">> \o Agent \o <<" ">> \o Star \o <<" ">>,
   Agent \o Star \o Agent \o Star \o <<"\r">>}

SomeLines ==
  AgentLines \union
  {Agent \o <<"b">>, Allow \o <<"/", "b">>,
   Disallow \o <<" ", "/", " ", "c">>, Disallow \o <<"/", "b", "c", "b", "b", "c", "c", "\r">>,
   Disallow, <<" ">>, <<>>, <<"\r">>, <<"x">> \o Allow \o <<"/">>}

\* Texts of a few lines, the last one with or without its end.  Those of the most lines start
\* with the one that names the agent.
Lines(n) == {lines \in [1..n -> SomeLines] : n = MaxLines => lines[1] \in AgentLines}
Texts(n) ==
  {SubSeq(t, 1, Len(t) - cut) : <<t, cut>> \in
     {FlattenSeq([i \in 1..n |-> Append(lines[i], "\n")]) : lines \in Lines(n)} \X {0, 1}}

treeVars  == vars

InitParts ==
  /\ Init
  /\ InitRobots
  /\ part \in Parts
  /\ IF part = "text" THEN \E n \in 1..MaxLines : text \in Texts(n) ELSE text = <<>>

NextParts ==
  /\ UNCHANGED <<part, text>>
  /\ \/ part = "tree" /\ Next /\ UNCHANGED storeStateVars
     \/ part = "store" /\ NextRobots /\ UNCHANGED treeVars

SpecParts == InitParts /\ [][NextParts]_<<part, text, treeVars, storeStateVars>>

\* RulesAreThoseOfTheLines of the text that is read (DomainRules.cpp:68, 88).
RulesAreRead == part = "text" => RulesAreThoseOfTheLines(text)
=============================================================================
