--------------------------- MODULE DirectoryRules ---------------------------
(***************************************************************************)
(* The tree of directories in which DomainRules keeps the rules of a       *)
(* robots.txt (src/src/DirectoryRules.cpp, src/src/DomainRules.cpp).       *)
(*                                                                         *)
(* A node carries its own verdict, so a question reads one node only.  The *)
(* price is in the updates: a node is created when it is first asked about *)
(* and copies the verdict of its parent, and a rule is written into every  *)
(* node below that no rule of its own protects.                            *)
(***************************************************************************)
EXTENDS Directories

VARIABLES
  tree,       \* the directories that have a node
  hasRule,    \* those for which a rule was given
  isAllowed,  \* the verdict of each node (TRUE where there is none)
  answer      \* the last question to IsAllowed, and its answer

vars == <<tree, hasRule, isAllowed, answer>>

Rules == INSTANCE RobotsRules WITH rules <- [d \in hasRule |-> isAllowed[d]]

Init ==
  /\ tree = {Root}
  /\ hasRule = {}
  /\ isAllowed = [d \in Dirs |-> TRUE]
  /\ answer = Rules!NoAnswer

\* FindOrCreateChild(d): the walk from the root creates the nodes that are missing, each
\* with the verdict of its parent: that of the last node that was there.
LastKnown(d) == Deepest(Above[d] \cap tree)

\* Mutant: a new node is allowed, whatever its parent is.
DefaultVerdicts(d) ==
  [e \in Dirs |-> IF e \in Above[d] \ tree THEN TRUE ELSE isAllowed[e]]

Verdicts(d) ==
  [e \in Dirs |-> IF e \in Above[d] \ tree THEN isAllowed[LastKnown(d)] ELSE isAllowed[e]]

Find(d) == tree' = tree \cup Above[d]

\* Mutant: SetAllowedForSubtree does not stop at the nodes that have a rule.
WholeSubtree(d) == {e \in tree \cup Above[d] : d \in Above[e]}

\* SetAllowed(d): SetAllowedForSubtree descends from d and stops at every node that has a
\* rule, so it reaches the nodes with no such node between d and them.
Subtree(d) ==
  {e \in tree \cup Above[d] :
     d \in Above[e] /\ \A r \in hasRule \ {d} : ~ (d \in Above[r] /\ r \in Above[e])}

\* Mutant: the rule is recorded for a directory that has no node.
AddRuleOnly(d, allow) ==
  /\ hasRule' = hasRule \cup {d}
  /\ UNCHANGED <<tree, isAllowed, answer>>

\* DomainRules::AddRule
AddRule(d, allow) ==
  /\ Find(d)
  /\ isAllowed' = [e \in Dirs |-> IF e \in Subtree(d) THEN allow ELSE Verdicts(d)[e]]
  /\ hasRule' = hasRule \cup {d}
  /\ UNCHANGED answer

\* DomainRules::IsAllowed, which adds nodes to the tree as well.
IsAllowed(d) ==
  /\ Find(d)
  /\ isAllowed' = Verdicts(d)
  /\ answer' = [dir |-> d, allowed |-> Verdicts(d)[d]]
  /\ UNCHANGED hasRule

Next == \E d \in Dirs : IsAllowed(d) \/ \E allow \in BOOLEAN : AddRule(d, allow)

Spec == Init /\ [][Next]_vars
----------------------------------------------------------------------------
(* Properties *)

TypeOK ==
  /\ tree \in SUBSET Dirs
  /\ hasRule \in SUBSET tree
  /\ isAllowed \in [Dirs -> BOOLEAN]
  /\ answer \in [dir : Dirs, allowed : BOOLEAN]

\* Every node, however late it was created and whatever rules came before and after, has
\* the verdict of the nearest rule above it: there is a node above it with the same verdict,
\* to which every rule above it applies as well, and which has a rule or is the root
\* with the verdict it was made with.
Governs(r, d) ==
  /\ r \in Above[d]
  /\ isAllowed[r] = isAllowed[d]
  /\ hasRule \cap Above[d] \subseteq Above[r]
  /\ r \in hasRule \/ (r = Root /\ isAllowed[r])
NearestRuleGoverns == \A d \in tree : \E r \in tree : Governs(r, d)

\* The tree answers every question as RobotsRules does.
ImplementsRobotsRules == Rules!Spec
=============================================================================
