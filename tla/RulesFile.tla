------------------------------ MODULE RulesFile ------------------------------
(***************************************************************************)
(* The rules of a domain in a file: DirectoryRules::SaveToFile             *)
(* (src/src/DirectoryRules.cpp) and what RobotsTxt reads back from it      *)
(* (src/src/RobotsTxt.cpp).  A line is the name of a directory, a blank,   *)
(* its verdict, whether it has a rule, and the numbers of the lines of its *)
(* children, a blank behind each; a name is one character here.            *)
(***************************************************************************)
EXTENDS DirectoryRules, Integers, Sequences, FiniteSets, SequencesExt

CONSTANTS
  Name,  \* the last part of the path of a directory
  Radix  \* of the numbers: 10 in the code

ASSUME FileAssumption == Name \in [Dirs -> STRING \ {" "}] /\ Radix \in Nat \ {0, 1}

Parent(d) == Deepest(Above[d] \ {d})

\* GetVectorizedRules: the nodes, each in front of its subtree; those of a parent in the order
\* of their creation, whatever it is.
Vectorized ==
  LET Children(d) == SetToSeq({e \in tree \ {Root} : Parent(e) = d})
      order[d \in Dirs] ==
        <<d>> \o FlattenSeq([i \in DOMAIN Children(d) |-> order[Children(d)[i]]])
  IN  order[Root]

\* childIndicesInDstVec: lines are counted from 0.
ChildIndices(rules, d) ==
  SelectSeq([i \in DOMAIN rules |-> i - 1],
            LAMBDA i : rules[i + 1] # Root /\ Parent(rules[i + 1]) = d)

Digit(n) == ToString(n)
Bit(b)   == IF b THEN "1" ELSE "0"

Printed[n \in Nat] ==
  IF n < Radix THEN <<Digit(n)>> ELSE Append(Printed[n \div Radix], Digit(n % Radix))

SaveRulesVector(rules, d) ==
  LET indices == ChildIndices(rules, d)
  IN  <<Name[d], " ", Bit(isAllowed[d]), Bit(d \in hasRule)>>
        \o FlattenSeq([i \in DOMAIN indices |-> Append(Printed[indices[i]], " ")]) \o <<"\n">>

SaveToFile(rules) == FlattenSeq([i \in DOMAIN rules |-> SaveRulesVector(rules, rules[i])])
----------------------------------------------------------------------------
\* Mutant: a number is one digit, as it would be in a small robots.txt.
ReadOneDigit(file, at) ==
  LET end == CHOOSE i \in at + 1..Len(file) : /\ file[i] = " "
                                              /\ \A j \in at + 1..i - 1 : file[j] # " "
  IN  [index |-> CHOOSE n \in 0..Radix - 1 : Digit(n) = file[at], next |-> end + 1]

\* A number, up to the blank, from its first digit on.
ReadIndex(file, at) ==
  LET end    == CHOOSE i \in at + 1..Len(file) : /\ file[i] = " "
                                                 /\ \A j \in at + 1..i - 1 : file[j] # " "
      digits == SubSeq(file, at, end - 1)
  IN  [index |-> FoldLeft(LAMBDA index, c : index * Radix
                                              + (CHOOSE n \in 0..Radix - 1 : Digit(n) = c),
                          0, digits),
       next  |-> end + 1]

\* ReadRulesFromDisc: name, blank, two bits, numbers until the end of the line.
ReadRulesFromDisc(file) ==
  LET indices[at \in Nat] ==
        LET read == ReadIndex(file, at)
        IN  IF file[at] = "\n" THEN [all |-> <<>>, next |-> at + 1]
            ELSE [indices[read.next] EXCEPT !.all = <<read.index>> \o @]
      lines[at \in Nat] ==
        LET children == indices[at + 4]
        IN  IF at > Len(file) THEN <<>>
            ELSE <<[name |-> file[at], isAllowed |-> file[at + 2] = "1",
                    hasRule |-> file[at + 3] = "1", children |-> children.all]>>
                   \o lines[children.next]
  IN  lines[1]

\* CreateDirectoryRuleTree: the directories of the lines, by the way to them from the first.
DirectoriesOf(rules) ==
  LET dir[i \in DOMAIN rules] ==
        IF i = 1 THEN {Root}
        ELSE {d \in Dirs \ {Root} :
                /\ Name[d] = rules[i].name
                /\ \E p \in 1..i - 1 : Contains(rules[p].children, i - 1) /\ Parent(d) \in dir[p]}
  IN  dir
----------------------------------------------------------------------------
\* A tree of rules that was saved is read back as it was: every node below the same parent,
\* with its verdict, and protected or not from the rules above it (DirectoryRules.cpp:133,
\* RobotsTxt.cpp:36, 103), whatever the order and the number of its children.
SavedTreeIsReadBack ==
  LET saved == Vectorized
      rules == ReadRulesFromDisc(SaveToFile(saved))
      dirs  == DirectoriesOf(rules)
  IN  /\ {dirs[i] : i \in DOMAIN rules} = {{d} : d \in tree} /\ Len(rules) = Cardinality(tree)
      /\ \A i \in DOMAIN rules : \A d \in dirs[i] : /\ rules[i].isAllowed = isAllowed[d]
                                                     /\ rules[i].hasRule <=> d \in hasRule
=============================================================================
