---------------------------- MODULE RobotsProofs ----------------------------
(***************************************************************************)
(* The rules of robots.txt, for any set of directories and of domains.     *)
(***************************************************************************)
EXTENDS DirectoryRules, RobotsStore, FiniteSetTheorems, TLAPS

(***************************************************************************)
(* The tree of nodes implements RobotsRules.                               *)
(*                                                                         *)
(* The invariant is NearestRuleGoverns: each node has a node above it that *)
(* governs it.  A rule for d makes d govern the nodes it is written into;  *)
(* a node it does not reach is not below d, or is protected by a rule      *)
(* between, and keeps its governor.                                        *)
(***************************************************************************)
\* With a node come the nodes of all the directories on its path.
TreeIsClosed == Root \in tree /\ \A d \in tree : Above[d] \subseteq tree

IInv == TypeOK /\ TreeIsClosed /\ NearestRuleGoverns

\* The deepest of a set of directories on one path is one of them, below all the others.
LEMMA DeepestIsBelow ==
  ASSUME NEW d \in Dirs, NEW S \in SUBSET Above[d], S # {}
  PROVE  Deepest(S) \in S /\ S \subseteq Above[Deepest(S)]
<1>1. \E e \in S : S \subseteq Above[e]
  BY DirsAssumption
<1>. QED
  BY <1>1 DEF Deepest

\* There is only one such directory.
LEMMA DeepestIsUnique ==
  ASSUME NEW d \in Dirs, NEW S \in SUBSET Above[d], NEW e \in S, S \subseteq Above[e]
  PROVE  Deepest(S) = e
<1>1. S # {} /\ S \subseteq Dirs
  BY DirsAssumption
<1>2. Deepest(S) \in S /\ S \subseteq Above[Deepest(S)]
  BY <1>1, DeepestIsBelow
<1>. QED
  BY <1>1, <1>2, DirsAssumption

\* Of two directories on one path, one is above the other.
LEMMA PathIsChain ==
  ASSUME NEW d \in Dirs, NEW e \in Above[d], NEW f \in Above[d]
  PROVE  e \in Above[f] \/ f \in Above[e]
<1> DEFINE S == {e, f}
<1>1. S \in SUBSET Above[d] /\ S # {}
  OBVIOUS
<1>2. \E g \in S : S \subseteq Above[g]
  <2> HIDE DEF S
  <2>. QED
    BY <1>1, DirsAssumption
<1>. QED
  BY <1>2

\* The invariant holds of the root alone, without rules.
LEMMA IInvInit == Init => IInv
BY DirsAssumption
   DEF Init, IInv, TypeOK, TreeIsClosed, NearestRuleGoverns, Governs, Rules!NoAnswer

\* The last node on the path of a directory is a node above it.
LEMMA KnownIsAbove ==
  ASSUME IInv, NEW d \in Dirs
  PROVE  /\ LastKnown(d) \in tree /\ LastKnown(d) \in Above[d]
         /\ tree \cap Above[d] \subseteq Above[LastKnown(d)]
<1>1. Root \in Above[d] \cap tree
  BY DirsAssumption DEF IInv, TreeIsClosed
<1>. QED
  BY <1>1, DeepestIsBelow DEF LastKnown

\* FindOrCreateChild leaves every node, old or new, with a governor among the old ones.
LEMMA FindKeepsGovernors ==
  ASSUME IInv, NEW d \in Dirs, NEW e \in tree \cup Above[d]
  PROVE  \E r \in tree : /\ r \in Above[e]
                         /\ isAllowed[r] = Verdicts(d)[e]
                         /\ hasRule \cap Above[e] \subseteq Above[r]
                         /\ r \in hasRule \/ (r = Root /\ isAllowed[r])
<1>. e \in Dirs /\ hasRule \subseteq tree /\ tree \subseteq Dirs
  BY DirsAssumption DEF IInv, TypeOK
<1>1. CASE e \in tree
  <2>1. Verdicts(d)[e] = isAllowed[e]
    BY <1>1 DEF Verdicts
  <2>. QED
    BY <1>1, <2>1 DEF IInv, NearestRuleGoverns, Governs
<1>2. CASE e \in Above[d] \ tree
  <2>1. /\ LastKnown(d) \in tree /\ LastKnown(d) \in Above[d]
        /\ tree \cap Above[d] \subseteq Above[LastKnown(d)]
    BY KnownIsAbove
  <2>2. Verdicts(d)[e] = isAllowed[LastKnown(d)]
    BY <1>2 DEF Verdicts
  <2>3. PICK r \in tree : Governs(r, LastKnown(d))
    BY <2>1 DEF IInv, NearestRuleGoverns
  <2>4. LastKnown(d) \in Above[e]
    BY <1>2, <2>1, PathIsChain DEF IInv, TreeIsClosed
  <2>. QED
    BY <1>2, <2>1, <2>2, <2>3, <2>4, DirsAssumption DEF Governs
<1>. QED
  BY <1>1, <1>2

\* What FindOrCreateChild alone does to the tree.
LEMMA FindKeepsTree ==
  ASSUME IInv, NEW d \in Dirs, Find(d)
  PROVE  /\ tree \subseteq tree' /\ tree' \in SUBSET Dirs /\ d \in tree'
         /\ TreeIsClosed'
BY DirsAssumption DEF IInv, TypeOK, TreeIsClosed, Find

\* What FindOrCreateChild leaves in the nodes are verdicts.
LEMMA VerdictsType ==
  ASSUME IInv, NEW d \in Dirs
  PROVE  /\ Verdicts(d) \in [Dirs -> BOOLEAN]
         /\ \A e \in tree : Verdicts(d)[e] = isAllowed[e]
<1>1. LastKnown(d) \in Dirs
  BY KnownIsAbove DEF IInv, TypeOK
<1>. QED
  BY <1>1 DEF Verdicts, IInv, TypeOK

\* A question, which may create nodes, keeps the invariant.
LEMMA IsAllowedPreserves ==
  ASSUME IInv, NEW d \in Dirs, IsAllowed(d)
  PROVE  IInv'
<1>1. /\ tree \subseteq tree' /\ tree' \in SUBSET Dirs /\ d \in tree'
      /\ TreeIsClosed'
  BY FindKeepsTree DEF IsAllowed
<1>2. TypeOK'
  BY <1>1, VerdictsType DEF IsAllowed, IInv, TypeOK
<1>3. ASSUME NEW e \in tree'
      PROVE  \E r \in tree' : Governs(r, e)'
  <2>1. e \in tree \cup Above[d]
    BY <1>3 DEF IsAllowed, Find
  <2>2. PICK r \in tree : /\ r \in Above[e]
                          /\ isAllowed[r] = Verdicts(d)[e]
                          /\ hasRule \cap Above[e] \subseteq Above[r]
                          /\ r \in hasRule \/ (r = Root /\ isAllowed[r])
    BY <2>1, FindKeepsGovernors
  <2>3. isAllowed'[r] = isAllowed[r] /\ hasRule' = hasRule /\ isAllowed' = Verdicts(d)
    BY VerdictsType DEF IsAllowed
  <2>. QED
    BY <1>1, <2>2, <2>3 DEF Governs
<1>. QED
  BY <1>1, <1>2, <1>3 DEF IInv, NearestRuleGoverns

\* A rule, which creates nodes and then overwrites a subtree, keeps the invariant.
LEMMA AddRulePreserves ==
  ASSUME IInv, NEW d \in Dirs, NEW allow \in BOOLEAN, AddRule(d, allow)
  PROVE  IInv'
<1>1. /\ tree \subseteq tree' /\ tree' \in SUBSET Dirs /\ d \in tree'
      /\ TreeIsClosed'
  BY FindKeepsTree DEF AddRule
<1>2. /\ isAllowed' \in [Dirs -> BOOLEAN]
      /\ \A e \in Subtree(d) : isAllowed'[e] = allow
      /\ \A e \in Dirs \ Subtree(d) : isAllowed'[e] = Verdicts(d)[e]
  BY VerdictsType, DirsAssumption DEF AddRule, Subtree, IInv, TypeOK
<1>3. TypeOK'
  BY <1>1, <1>2 DEF AddRule, IInv, TypeOK
<1>4. hasRule' = hasRule \cup {d} /\ tree' = tree \cup Above[d] /\ hasRule \subseteq tree
      /\ tree \subseteq Dirs
  BY DEF AddRule, Find, IInv, TypeOK
<1>5. d \in Subtree(d)
  BY DirsAssumption, <1>4 DEF Subtree
<1>6. ASSUME NEW e \in tree', e \in Subtree(d)
      PROVE  Governs(d, e)'
  <2>1. d \in Above[e] /\ isAllowed'[d] = isAllowed'[e]
    BY <1>2, <1>5, <1>6 DEF Subtree
  <2>2. ASSUME NEW r \in hasRule', r \in Above[e]
        PROVE  r \in Above[d]
    <3>1. r \in Above[d] \/ d \in Above[r]
      BY <1>1, <2>1, <2>2, PathIsChain
    <3>2. r = d \/ d \notin Above[r]
      BY <1>4, <1>6, <2>2 DEF Subtree
    <3>. QED
      BY <3>1, <3>2, DirsAssumption
  <2>. QED
    BY <1>4, <2>1, <2>2 DEF Governs
<1>7. ASSUME NEW e \in tree', e \notin Subtree(d)
      PROVE  \E r \in tree' : Governs(r, e)'
  <2>1. e \in tree \cup Above[d] /\ e \in Dirs
    BY <1>1, <1>4, <1>7
  <2>2. PICK r \in tree : /\ r \in Above[e]
                          /\ isAllowed[r] = Verdicts(d)[e]
                          /\ hasRule \cap Above[e] \subseteq Above[r]
                          /\ r \in hasRule \/ (r = Root /\ isAllowed[r])
    BY <2>1, FindKeepsGovernors
  <2>3. r \in tree' /\ r \in Dirs /\ Verdicts(d)[r] = isAllowed[r]
    BY <1>1, <1>4, VerdictsType
  <2>4. CASE d \notin Above[e]
    <3>1. r \notin Subtree(d)
      BY <2>1, <2>2, <2>3, <2>4, DirsAssumption DEF Subtree
    <3>. QED
      BY <1>2, <1>4, <1>7, <2>1, <2>2, <2>3, <2>4, <3>1 DEF Governs
  <2>5. CASE d \in Above[e]
    <3>1. PICK s \in hasRule \ {d} : d \in Above[s] /\ s \in Above[e]
      BY <1>4, <1>7, <2>1, <2>5 DEF Subtree
    <3>2. s \in Above[r] /\ s \in Dirs
      BY <1>4, <2>2, <3>1
    <3>3. d \in Above[r]
      BY <2>3, <3>1, <3>2, DirsAssumption
    <3>4. r # d
      BY <3>1, <3>2, DirsAssumption
    <3>5. r \notin Subtree(d)
      BY <3>1, <3>2 DEF Subtree
    <3>6. r \in hasRule
      BY <2>2, <3>3, <3>4, DirsAssumption
    <3>. QED
      BY <1>2, <1>4, <1>7, <2>1, <2>2, <2>3, <3>3, <3>5, <3>6 DEF Governs
  <2>. QED
    BY <2>4, <2>5
<1>8. NearestRuleGoverns'
  BY <1>1, <1>6, <1>7 DEF NearestRuleGoverns
<1>. QED
  BY <1>1, <1>3, <1>8 DEF IInv

\* The invariant is inductive.
LEMMA IInvStep == IInv /\ [Next]_vars => IInv'
<1>. SUFFICES ASSUME IInv, [Next]_vars PROVE IInv'
  OBVIOUS
<1>1. CASE Next
  BY <1>1, IsAllowedPreserves, AddRulePreserves DEF Next
<1>2. CASE UNCHANGED vars
  BY <1>2 DEF vars, IInv, TypeOK, TreeIsClosed, NearestRuleGoverns, Governs
<1>. QED
  BY <1>1, <1>2

\* The invariant holds in every behaviour.
LEMMA IInvAlways == Spec => []IInv
BY IInvInit, IInvStep, PTL DEF Spec

\* The nodes of the tree, those with a rule among them and the verdict of every node are
\* what the code takes them for, in every behaviour.
THEOREM RulesTypes == Spec => []TypeOK
<1>1. IInv => TypeOK
  BY DEF IInv
<1>. QED
  BY <1>1, IInvAlways, PTL

\* For any directories and any sequence of rules and questions, every node has the verdict
\* of the nearest rule above it.
THEOREM NearestRuleAlwaysGoverns == Spec => []NearestRuleGoverns
<1>1. IInv => NearestRuleGoverns
  BY DEF IInv
<1>. QED
  BY <1>1, IInvAlways, PTL
----------------------------------------------------------------------------
(***************************************************************************)
(* Refinement.  The rules are the verdicts of the nodes that have one; a   *)
(* rule is never written into another such node, and the decision about a  *)
(* directory is the verdict of its governor.                               *)
(***************************************************************************)
RulesNow == [d \in hasRule |-> isAllowed[d]]

\* The verdict a question finds is the decision by the nearest rule.
LEMMA VerdictIsDecision ==
  ASSUME IInv, NEW d \in Dirs
  PROVE  Verdicts(d)[d] = Rules!Decision(d)
<1> DEFINE ruled == Above[d] \cap hasRule
<1>1. d \in tree \cup Above[d]
  BY DirsAssumption
<1>2. PICK r \in tree : /\ r \in Above[d]
                        /\ isAllowed[r] = Verdicts(d)[d]
                        /\ hasRule \cap Above[d] \subseteq Above[r]
                        /\ r \in hasRule \/ (r = Root /\ isAllowed[r])
  BY <1>1, FindKeepsGovernors
<1>3. hasRule \subseteq Dirs /\ ruled \in SUBSET Above[d] /\ isAllowed \in [Dirs -> BOOLEAN]
  BY DEF IInv, TypeOK
<1>4. Rules!Decision(d) = IF ruled = {} THEN TRUE ELSE RulesNow[Deepest(ruled)]
  BY DEF Rules!Decision, Rules!Deepest, Deepest, RulesNow
<1>5. CASE r \in hasRule
  <2>1. r \in ruled /\ ruled \subseteq Above[r]
    BY <1>2, <1>5
  <2>2. Deepest(ruled) = r
    BY <1>3, <2>1, DeepestIsUnique
  <2>. QED
    BY <1>2, <1>4, <1>5, <2>1, <2>2 DEF RulesNow
<1>6. CASE r \notin hasRule
  <2>1. r = Root /\ isAllowed[r]
    BY <1>2, <1>6
  <2>2. ruled \subseteq {Root}
    BY <1>2, <2>1, DirsAssumption
  <2>3. ruled = {}
    BY <1>6, <2>1, <2>2
  <2>. QED
    BY <1>2, <1>4, <2>1, <2>3
<1>. QED
  BY <1>5, <1>6

\* A new tree is a domain without rules.
LEMMA RefinementInit == Init => Rules!Init
BY DEF Init, Rules!Init, Rules!NoAnswer

\* A rule changes the rules at its own directory and nowhere else.
LEMMA AddRuleRefines ==
  ASSUME IInv, NEW d \in Dirs, NEW allow \in BOOLEAN, AddRule(d, allow)
  PROVE  Rules!AddRule(d, allow)
<1>1. hasRule \subseteq tree /\ tree \subseteq Dirs /\ hasRule' = hasRule \cup {d}
  BY DEF IInv, TypeOK, AddRule
<1>2. isAllowed'[d] = allow
  BY DirsAssumption DEF AddRule, Subtree
<1>3. ASSUME NEW e \in hasRule \ {d}
      PROVE  isAllowed'[e] = isAllowed[e]
  <2>1. e \notin Subtree(d)
    BY <1>1, DirsAssumption DEF Subtree
  <2>2. Verdicts(d)[e] = isAllowed[e]
    BY <1>1, VerdictsType
  <2>. QED
    BY <1>1, <2>1, <2>2 DEF AddRule
<1>4. RulesNow' = [e \in DOMAIN RulesNow \cup {d} |-> IF e = d THEN allow ELSE RulesNow[e]]
  BY <1>1, <1>2, <1>3 DEF RulesNow
<1>. QED
  BY <1>4 DEF Rules!AddRule, AddRule, RulesNow

\* A question changes no verdict of a node that is there, and is answered by the decision.
LEMMA IsAllowedRefines ==
  ASSUME IInv, NEW d \in Dirs, IsAllowed(d)
  PROVE  Rules!IsAllowed(d)
<1>1. hasRule' = hasRule /\ \A e \in hasRule : isAllowed'[e] = isAllowed[e]
  BY VerdictsType DEF IsAllowed, IInv, TypeOK
<1>2. RulesNow' = RulesNow
  BY <1>1 DEF RulesNow
<1>. QED
  BY <1>2, VerdictIsDecision DEF Rules!IsAllowed, IsAllowed, RulesNow

\* Every step of the tree is a step of RobotsRules, or none.
LEMMA RefinementStep == IInv /\ [Next]_vars => [Rules!Next]_(Rules!vars)
<1>. SUFFICES ASSUME IInv, [Next]_vars PROVE [Rules!Next]_(Rules!vars)
  OBVIOUS
<1>1. CASE Next
  <2>1. ASSUME NEW d \in Dirs, NEW allow \in BOOLEAN, AddRule(d, allow)
        PROVE  Rules!Next
    BY <2>1, AddRuleRefines DEF Rules!Next
  <2>2. ASSUME NEW d \in Dirs, IsAllowed(d)
        PROVE  Rules!Next
    BY <2>2, IsAllowedRefines DEF Rules!Next
  <2>. QED
    BY <1>1, <2>1, <2>2 DEF Next
<1>2. CASE UNCHANGED vars
  BY <1>2 DEF vars, Rules!vars
<1>. QED
  BY <1>1, <1>2

\* The tree answers every question as RobotsRules promises, whatever directories there are.
THEOREM TreeImplementsRobotsRules == Spec => ImplementsRobotsRules
<1>1. Init => Rules!Init
  BY RefinementInit
<1>2. IInv /\ [Next]_vars => [Rules!Next]_(Rules!vars)
  BY RefinementStep
<1>. QED
  BY <1>1, <1>2, IInvAlways, PTL DEF Spec, ImplementsRobotsRules, Rules!Spec
-----------------------------------------------------------------------------
(***************************************************************************)
(* The store of the rules: the queue of the LRU cache, and the files       *)
(* behind it.                                                              *)
(***************************************************************************)
DistinctIn(s) == \A i, j \in 1..Len(s) : s[i] = s[j] => i = j

\* A sequence from which one element is taken and put at the end.
LEMMA MovedToTheEnd ==
  ASSUME NEW s \in Seq(Domains), DistinctIn(s), NEW key \in Domains, NEW at \in 1..Len(s),
         \A i \in 1..Len(s) : s[i] = key => i = at
  PROVE  LET used == Append(RemoveAt(s, at), key)
         IN  /\ used \in Seq(Domains) /\ DistinctIn(used) /\ Len(used) = Len(s)
             /\ ToSet(used) \subseteq ToSet(s) \cup {key}
<1>. DEFINE rest   == RemoveAt(s, at)
            used   == Append(rest, key)
            before == SubSeq(s, 1, at - 1)
            after  == SubSeq(s, at + 1, Len(s))
<1>1. /\ before \in Seq(Domains) /\ Len(before) = at - 1
      /\ \A i \in 1..at - 1 : before[i] = s[i]
  OBVIOUS
<1>2. /\ after \in Seq(Domains) /\ Len(after) = Len(s) - at
      /\ \A i \in 1..Len(s) - at : after[i] = s[at + i]
  OBVIOUS
<1>3. rest = before \o after
  BY DEF RemoveAt
<1>4. used = Append(rest, key)
  OBVIOUS
<1>. HIDE DEF before, after, rest, used
<1>5. /\ rest \in Seq(Domains) /\ Len(rest) = Len(s) - 1
      /\ \A i \in 1..Len(rest) : rest[i] = IF i < at THEN before[i] ELSE after[i - (at - 1)]
  <2>. SUFFICES ASSUME before \in Seq(Domains), after \in Seq(Domains)
                PROVE  /\ before \o after \in Seq(Domains)
                       /\ Len(before \o after) = Len(before) + Len(after)
                       /\ \A i \in 1..Len(before) + Len(after) :
                            (before \o after)[i] =
                              IF i <= Len(before) THEN before[i] ELSE after[i - Len(before)]
    <3>1. at \in Nat /\ Len(s) \in Nat
      OBVIOUS
    <3>. QED
      BY <1>1, <1>2, <1>3, <3>1
  <2>. QED
    OBVIOUS
<1>6. ASSUME NEW i \in 1..Len(rest) PROVE rest[i] = s[IF i < at THEN i ELSE i + 1]
  <2>1. CASE i < at
    BY <1>1, <1>5, <2>1
  <2>2. CASE ~(i < at)
    <3>1. i - (at - 1) \in 1..Len(s) - at /\ at + (i - (at - 1)) = i + 1
      BY <1>5, <2>2
    <3>. QED
      BY <1>2, <1>5, <2>2, <3>1
  <2>. QED
    BY <2>1, <2>2
<1>7. /\ used \in Seq(Domains) /\ Len(used) = Len(s)
      /\ \A i \in 1..Len(used) :
           used[i] = IF i = Len(used) THEN key ELSE s[IF i < at THEN i ELSE i + 1]
  BY <1>4, <1>5, <1>6
<1>8. DistinctIn(used)
  BY <1>7 DEF DistinctIn
<1>9. ToSet(used) \subseteq ToSet(s) \cup {key}
  BY <1>7 DEF ToSet
<1>. QED
  BY <1>7, <1>8, <1>9 DEF used, rest

\* The queue after a domain was used.
LEMMA MostRecentlyUsed ==
  ASSUME queue \in Seq(Domains), DistinctIn(queue), ToSet(queue) \subseteq DOMAIN cache,
         NEW key \in Domains, NEW used \in ChangeToMostRecentlyUsed(key)
  PROVE  /\ used \in Seq(Domains) /\ DistinctIn(used)
         /\ ToSet(used) \subseteq ToSet(queue) \cup {key}
         /\ Len(used) = Len(queue) + IF key \in DOMAIN cache THEN 0 ELSE 1
         /\ Len(used) > 0
<1>1. CASE key \in ToSet(queue)
  <2>1. Position(key) \in 1..Len(queue) /\ queue[Position(key)] = key
    BY <1>1 DEF Position, ToSet
  <2>2. used = Append(RemoveAt(queue, Position(key)), key)
    BY <1>1 DEF ChangeToMostRecentlyUsed
  <2>3. \A i \in 1..Len(queue) : queue[i] = key => i = Position(key)
    BY <2>1 DEF DistinctIn
  <2>4. /\ used \in Seq(Domains) /\ DistinctIn(used) /\ Len(used) = Len(queue)
        /\ ToSet(used) \subseteq ToSet(queue) \cup {key}
    BY <2>1, <2>2, <2>3, MovedToTheEnd
  <2>. QED
    BY <1>1, <2>1, <2>4
<1>2. CASE key \notin ToSet(queue) /\ key \in DOMAIN cache
  <2>1. PICK at \in 1..Len(queue) : used = Append(RemoveAt(queue, at), key)
    BY <1>2 DEF ChangeToMostRecentlyUsed
  <2>2. \A i \in 1..Len(queue) : queue[i] # key
    BY <1>2 DEF ToSet
  <2>3. /\ used \in Seq(Domains) /\ DistinctIn(used) /\ Len(used) = Len(queue)
        /\ ToSet(used) \subseteq ToSet(queue) \cup {key}
    BY <2>1, <2>2, MovedToTheEnd
  <2>. QED
    BY <1>2, <2>1, <2>3
<1>3. CASE key \notin ToSet(queue) /\ key \notin DOMAIN cache
  <2>1. used = Append(queue, key)
    BY <1>3 DEF ChangeToMostRecentlyUsed
  <2>2. /\ used \in Seq(Domains) /\ Len(used) = Len(queue) + 1
        /\ \A i \in 1..Len(used) : used[i] = IF i = Len(used) THEN key ELSE queue[i]
    BY <2>1
  <2>3. DistinctIn(used)
    BY <1>3, <2>2 DEF DistinctIn, ToSet
  <2>4. ToSet(used) \subseteq ToSet(queue) \cup {key}
    BY <2>2 DEF ToSet
  <2>. QED
    BY <1>3, <2>2, <2>3, <2>4
<1>. QED
  BY <1>1, <1>2, <1>3

(***************************************************************************)
(* The cache: what is in the queue is cached, with rules that live.  What  *)
(* is cached and not in the queue was left by an erase that did not find   *)
(* its key, or has lost its place.                                         *)
(***************************************************************************)
CacheInv ==
  /\ queue \in Seq(Domains) /\ DistinctIn(queue) /\ ToSet(queue) \subseteq DOMAIN cache
  /\ DOMAIN cache \subseteq Domains /\ IsFiniteSet(DOMAIN cache)
  /\ \A d \in ToSet(queue) : cache[d] \notin freed
  /\ Len(queue) <= Capacity

LEMMA TailOfQueue ==
  ASSUME NEW s \in Seq(Domains), DistinctIn(s), Len(s) > 0
  PROVE  /\ Tail(s) \in Seq(Domains) /\ DistinctIn(Tail(s)) /\ Len(Tail(s)) = Len(s) - 1
         /\ Head(s) \in ToSet(s) /\ ToSet(Tail(s)) \subseteq ToSet(s) \ {Head(s)}
<1>. DEFINE rest == Tail(s)
<1>1. /\ rest \in Seq(Domains) /\ Len(rest) = Len(s) - 1
      /\ \A i \in 1..Len(rest) : rest[i] = s[i + 1]
      /\ Head(s) = s[1]
  OBVIOUS
<1>. HIDE DEF rest
<1>2. DistinctIn(rest)
  BY <1>1 DEF DistinctIn
<1>3. ToSet(rest) \subseteq ToSet(s) \ {Head(s)}
  BY <1>1 DEF ToSet, DistinctIn
<1>. QED
  BY <1>1, <1>2, <1>3 DEF rest, ToSet

\* A queue without repetitions is no longer than the cache it leads to.
LEMMA QueueIsNoLonger ==
  ASSUME CacheInv
  PROVE  Len(queue) <= Cardinality(DOMAIN cache) /\ Cardinality(DOMAIN cache) \in Nat
<1>1. queue \in Injection(1..Len(queue), DOMAIN cache)
  BY DEF CacheInv, DistinctIn, Injection, IsInjective, ToSet
<1>2. IsFiniteSet(1..Len(queue)) /\ Cardinality(1..Len(queue)) = Len(queue)
  <2>1. 1 \in Int /\ Len(queue) \in Nat
    BY DEF CacheInv
  <2>. QED
    BY <2>1, ~(1 > Len(queue)) \/ Len(queue) = 0, FS_Interval
<1>. QED
  BY <1>1, <1>2, FS_Injection, FS_CardinalityType DEF CacheInv

\* Different domains have different rules, so that the rules deleted for one are no other's.
LEMMA PutKeepsCache ==
  ASSUME CacheInv, NEW key \in Domains, NEW val, CachePut(key, val), val \notin freed,
         \A d \in DOMAIN cache : cache[d] # val,
         \A d, e \in DOMAIN cache : cache[d] = cache[e] => d = e
  PROVE  /\ CacheInv'
         /\ ToSet(queue') \subseteq ToSet(queue) \cup {key}
         /\ \A d \in DOMAIN cache' : cache'[d] = IF d = key THEN val ELSE cache[d]
         /\ DOMAIN cache' \subseteq DOMAIN cache \cup {key}
         /\ freed' \subseteq freed \cup {val} \cup {cache[d] : d \in DOMAIN cache}
<1>. DEFINE all    == DOMAIN cache \cup {key}
            values == [d \in all |-> IF d = key THEN val ELSE cache[d]]
<1>1. PICK used \in ChangeToMostRecentlyUsed(key) :
        IF Cardinality(DOMAIN values) > Capacity
        THEN EvictLRU(used, values)
        ELSE queue' = used /\ cache' = values /\ UNCHANGED freed
  BY DEF CachePut
<1>2. /\ used \in Seq(Domains) /\ DistinctIn(used) /\ Len(used) > 0
      /\ ToSet(used) \subseteq ToSet(queue) \cup {key}
      /\ Len(used) = Len(queue) + IF key \in DOMAIN cache THEN 0 ELSE 1
  BY MostRecentlyUsed DEF CacheInv
<1>3. /\ DOMAIN values = all /\ all \subseteq Domains
      /\ \A d \in all : values[d] = IF d = key THEN val ELSE cache[d]
  BY DEF CacheInv
<1>. HIDE DEF values
<1>4. IsFiniteSet(all)
      /\ Cardinality(all) = Cardinality(DOMAIN cache) + IF key \in DOMAIN cache THEN 0 ELSE 1
  <2>1. IsFiniteSet(DOMAIN cache) /\ Cardinality(DOMAIN cache) \in Nat
    BY QueueIsNoLonger DEF CacheInv
  <2>2. /\ IsFiniteSet(all)
        /\ Cardinality(all) = IF key \in DOMAIN cache THEN Cardinality(DOMAIN cache)
                                                      ELSE Cardinality(DOMAIN cache) + 1
    BY <2>1, FS_AddElement
  <2>. QED
    BY <2>1, <2>2
<1>5. \A d \in ToSet(used) : d \in all /\ values[d] \notin freed
  BY <1>2, <1>3 DEF CacheInv
<1>6. \A d, e \in all : values[d] = values[e] => d = e
  BY <1>3
<1>7. CASE ~(Cardinality(all) > Capacity)
  <2>1. queue' = used /\ cache' = values /\ freed' = freed
    BY <1>1, <1>3, <1>7
  <2>2. Len(used) <= Capacity
    BY <1>2, <1>4, <1>7, QueueIsNoLonger, StoreAssumption DEF CacheInv
  <2>3. CacheInv'
    BY <1>2, <1>3, <1>4, <1>5, <2>1, <2>2 DEF CacheInv, DistinctIn, ToSet
  <2>. QED
    BY <1>2, <1>3, <2>1, <2>3 DEF ToSet
<1>8. CASE Cardinality(all) > Capacity
  <2>. DEFINE first == Head(used)
              rest  == Tail(used)
  <2>1. /\ rest \in Seq(Domains) /\ DistinctIn(rest) /\ Len(rest) = Len(used) - 1
        /\ first \in ToSet(used) /\ ToSet(rest) \subseteq ToSet(used) \ {first}
    BY <1>2, TailOfQueue
  <2>2. /\ queue' = rest /\ freed' = freed \cup {values[first]}
        /\ cache' = values \/ cache' = [d \in all \ {first} |-> values[d]]
    BY <1>1, <1>3, <1>8 DEF EvictLRU
  <2>. HIDE DEF first, rest
  <2>3. /\ DOMAIN cache' \subseteq all /\ all \ {first} \subseteq DOMAIN cache'
        /\ \A d \in DOMAIN cache' : cache'[d] = values[d]
    BY <1>3, <2>2
  <2>4. IsFiniteSet(DOMAIN cache')
    BY <1>4, <2>3, FS_Subset
  <2>5. Len(rest) <= Capacity
    BY <1>2, <2>1, StoreAssumption DEF CacheInv
  <2>6. \A d \in ToSet(rest) : d \in DOMAIN cache' /\ cache'[d] \notin freed'
    <3>. SUFFICES ASSUME NEW d \in ToSet(rest)
                  PROVE  d \in DOMAIN cache' /\ cache'[d] \notin freed'
      OBVIOUS
    <3>1. d \in ToSet(used) /\ d # first /\ d \in all /\ first \in all
      BY <1>5, <2>1
    <3>2. values[d] # values[first] /\ values[d] \notin freed
      BY <1>5, <1>6, <3>1
    <3>. QED
      BY <2>2, <2>3, <3>1, <3>2
  <2>7. CacheInv'
    BY <1>3, <2>1, <2>2, <2>3, <2>4, <2>5, <2>6 DEF CacheInv, DistinctIn, ToSet
  <2>8. first \in all /\ values[first] \in {val} \cup {cache[d] : d \in DOMAIN cache}
    BY <1>3, <1>5, <2>1
  <2>9. ToSet(queue') \subseteq ToSet(queue) \cup {key}
    BY <1>2, <2>1, <2>2
  <2>. QED
    BY <1>3, <2>2, <2>3, <2>7, <2>8, <2>9
<1>. QED
  BY <1>7, <1>8

(***************************************************************************)
(* The store.  The one thread that is saving has the last submission: the  *)
(* rules it writes are those of the queue, or their domain was evicted,    *)
(* and no submission that came later is overwritten.                       *)
(***************************************************************************)
PathOf(d) == <<SerializedRulesPath, d>>

ThreadsAreRight ==
  /\ DOMAIN thread = Threads
  /\ \A t \in Threads :
       thread[t].doing = "saving" =>
         LET last == Len(submitted)
         IN  /\ thread[t] = [doing |-> "saving", rules |-> last]
             /\ last > 0
             /\ submitted[last] \in DOMAIN cache => cache[submitted[last]] = last

RulesAreSubmitted ==
  /\ submitted \in Seq(Domains)
  /\ \A d \in DOMAIN cache : cache[d] \in 1..Len(submitted) /\ submitted[cache[d]] = d
  /\ freed \subseteq 1..Len(submitted)

FilesAreOfDomains == \A path \in DOMAIN files : \E d \in Domains : path = PathOf(d)

StoreInv ==
  /\ CacheInv /\ ThreadsAreRight /\ RulesAreSubmitted /\ FilesAreOfDomains
  /\ FileHasTheCachedRules

\* What is written to files lies at no domain's own name.
LEMMA NoFileAtTheName == FilesAreOfDomains => \A d \in Domains : <<d>> \notin DOMAIN files
BY DEF FilesAreOfDomains, PathOf

\* With nothing in memory the invariant is about the names of the files only.
LEMMA NothingInMemory ==
  ASSUME cache = <<>>, queue = <<>>, freed = {}, submitted = <<>>,
         thread = [t \in Threads |-> Idle], FilesAreOfDomains
  PROVE  StoreInv
<1>1. DOMAIN cache = {} /\ IsFiniteSet({})
  BY FS_EmptySet
<1>2. CacheInv
  BY <1>1, StoreAssumption DEF CacheInv, DistinctIn, ToSet
<1>. QED
  BY <1>1, <1>2 DEF StoreInv, ThreadsAreRight, RulesAreSubmitted, FileHasTheCachedRules, Idle,
                    ToSet

LEMMA InitStore == InitRobots => StoreInv
<1>. SUFFICES ASSUME InitRobots PROVE StoreInv
  OBVIOUS
<1>1. FilesAreOfDomains
  BY DEF InitRobots, FilesAreOfDomains
<1>. QED
  BY <1>1, NothingInMemory DEF InitRobots

LEMMA SubmitStep ==
  ASSUME StoreInv, NEW t \in Threads, NEW d \in Domains, SubmitRobotsTxt(t, d)
  PROVE  StoreInv'
<1>. DEFINE n == Len(submitted)
<1>1. /\ CachePut(d, n + 1) /\ submitted' = Append(submitted, d) /\ files' = files
      /\ thread' = [thread EXCEPT ![t] = [doing |-> "saving", rules |-> n + 1]]
      /\ \A u \in Threads : thread[u].doing # "saving"
  BY DEF SubmitRobotsTxt, Locked
<1>2. /\ submitted \in Seq(Domains) /\ n \in Nat /\ DOMAIN thread = Threads
      /\ \A c \in DOMAIN cache : cache[c] \in 1..n /\ submitted[cache[c]] = c
      /\ freed \subseteq 1..n
  BY DEF StoreInv, RulesAreSubmitted, ThreadsAreRight
<1>. HIDE DEF n
<1>3. /\ CacheInv' /\ DOMAIN cache' \subseteq DOMAIN cache \cup {d}
      /\ ToSet(queue') \subseteq ToSet(queue) \cup {d}
      /\ \A c \in DOMAIN cache' : cache'[c] = IF c = d THEN n + 1 ELSE cache[c]
      /\ freed' \subseteq freed \cup {n + 1} \cup {cache[c] : c \in DOMAIN cache}
  <2>1. n + 1 \notin freed /\ \A c \in DOMAIN cache : cache[c] # n + 1
    BY <1>2
  <2>2. \A c, e \in DOMAIN cache : cache[c] = cache[e] => c = e
    BY <1>2
  <2>. QED
    BY <1>1, <2>1, <2>2, PutKeepsCache DEF StoreInv
<1>4. /\ submitted' \in Seq(Domains) /\ Len(submitted') = n + 1 /\ submitted'[n + 1] = d
      /\ \A i \in 1..n : submitted'[i] = submitted[i]
  BY <1>1, <1>2 DEF n
<1>5. /\ thread'[t] = [doing |-> "saving", rules |-> n + 1] /\ DOMAIN thread' = Threads
      /\ \A u \in Threads \ {t} : thread'[u] = thread[u]
  BY <1>1, <1>2
<1>6. ThreadsAreRight'
  BY <1>1, <1>2, <1>3, <1>4, <1>5 DEF ThreadsAreRight
<1>7. RulesAreSubmitted'
  BY <1>2, <1>3, <1>4 DEF RulesAreSubmitted
<1>8. FilesAreOfDomains'
  BY <1>1 DEF StoreInv, FilesAreOfDomains, PathOf
<1>9. FileHasTheCachedRules'
  <2>1. ASSUME NEW c \in ToSet(queue'), c # d
        PROVE  PathOf(c) \in DOMAIN files' /\ files'[PathOf(c)] = cache'[c]
    <3>1. c \in ToSet(queue) /\ c \in DOMAIN cache' /\ cache'[c] = cache[c]
      BY <1>3, <2>1 DEF CacheInv, ToSet
    <3>2. ~\E u \in Threads : thread[u] = [doing |-> "saving", rules |-> cache[c]]
      BY <1>1
    <3>3. PathOf(c) \in DOMAIN files /\ files[PathOf(c)] = cache[c]
      BY <3>1, <3>2, Zenon DEF StoreInv, FileHasTheCachedRules, PathOf
    <3>. QED
      BY <1>1, <3>1, <3>3
  <2>2. d \in DOMAIN cache' => thread'[t] = [doing |-> "saving", rules |-> cache'[d]]
    BY <1>3, <1>5
  <2>3. ToSet(queue') \subseteq DOMAIN cache'
    BY <1>3 DEF CacheInv, ToSet
  <2>. QED
    BY <2>1, <2>2, <2>3 DEF FileHasTheCachedRules, PathOf, ToSet
<1>. QED
  BY <1>3, <1>6, <1>7, <1>8, <1>9 DEF StoreInv

LEMMA WriteStep ==
  ASSUME StoreInv, NEW t \in Threads, WriteRulesToDisc(t)
  PROVE  StoreInv'
<1>. DEFINE n    == Len(submitted)
            d    == submitted[n]
            path == PathOf(d)
<1>1. /\ UNCHANGED <<cache, queue, freed, submitted>> /\ thread[t].doing = "saving"
      /\ thread' = [thread EXCEPT ![t] = Idle]
      /\ LET rules == thread[t].rules
             at    == PathOf(submitted[rules])
         IN  \E written \in IF rules \in freed THEN {rules, 0} ELSE {rules} :
               files' = [p \in DOMAIN files \union {at} |-> IF p = at THEN written ELSE files[p]]
  BY DEF WriteRulesToDisc, PathOf
<1>2. /\ submitted \in Seq(Domains) /\ DOMAIN thread = Threads
      /\ \A u \in Threads :
           thread[u].doing = "saving" =>
             /\ thread[u] = [doing |-> "saving", rules |-> n] /\ n > 0
             /\ d \in DOMAIN cache => cache[d] = n
  BY DEF StoreInv, RulesAreSubmitted, ThreadsAreRight
<1>3. /\ thread[t] = [doing |-> "saving", rules |-> n] /\ n > 0
      /\ d \in DOMAIN cache => cache[d] = n
  BY <1>1, <1>2
<1>4. thread[t].rules = n
  BY <1>3
<1>5. d \in Domains
  BY <1>2, <1>3
<1>6. PICK written \in IF n \in freed THEN {n, 0} ELSE {n} :
        files' = [p \in DOMAIN files \union {path} |-> IF p = path THEN written ELSE files[p]]
  BY <1>1, <1>4
<1>7. /\ thread'[t] = Idle /\ DOMAIN thread' = Threads
      /\ \A u \in Threads \ {t} : thread'[u] = thread[u]
  BY <1>1, <1>2
<1>8. ThreadsAreRight'
  BY <1>1, <1>7 DEF StoreInv, ThreadsAreRight, Idle
<1>9. FilesAreOfDomains'
  BY <1>5, <1>6 DEF StoreInv, FilesAreOfDomains, PathOf
<1>10. FileHasTheCachedRules'
  <2>. SUFFICES ASSUME NEW c \in ToSet(queue)
                PROVE  PathOf(c) \in DOMAIN files' /\ files'[PathOf(c)] = cache[c]
    BY <1>1, queue' = queue, cache' = cache DEF FileHasTheCachedRules, PathOf
  <2>0. c \in DOMAIN cache /\ cache[c] \notin freed
    BY DEF StoreInv, CacheInv
  <2>1. CASE c = d
    BY <1>3, <1>6, <2>0, <2>1
  <2>2. CASE c # d
    <3>1. PathOf(c) # path
      BY <2>2 DEF PathOf
    <3>2. cache[c] \in 1..n /\ submitted[cache[c]] = c
      BY <2>0 DEF StoreInv, RulesAreSubmitted
    <3>3. ASSUME NEW u \in Threads, thread[u] = [doing |-> "saving", rules |-> cache[c]]
          PROVE  FALSE
      <4>1. thread[u].doing = "saving" /\ thread[u].rules = cache[c]
        BY <3>3
      <4>2. thread[u].rules = n
        BY <1>2, <4>1
      <4>. QED
        BY <2>2, <3>2, <4>1, <4>2
    <3>4. PathOf(c) \in DOMAIN files /\ files[PathOf(c)] = cache[c]
      BY <3>3, Zenon DEF StoreInv, FileHasTheCachedRules, PathOf
    <3>. QED
      BY <1>6, <3>1, <3>4
  <2>. QED
    BY <2>1, <2>2
<1>11. CacheInv'
  BY <1>1 DEF StoreInv, CacheInv, DistinctIn, ToSet
<1>12. RulesAreSubmitted'
  BY <1>1 DEF StoreInv, RulesAreSubmitted
<1>. QED
  BY <1>8, <1>9, <1>10, <1>11, <1>12 DEF StoreInv

\* A question changes the order of the queue, and nothing else of the cache.
LEMMA GetRuleStep ==
  ASSUME StoreInv, NEW d \in Domains, GetRule(d)
  PROVE  StoreInv'
<1>1. /\ UNCHANGED <<cache, freed, files, submitted, thread>>
      /\ \/ queue' = queue
         \/ d \in ToSet(queue) /\ queue' \in ChangeToMostRecentlyUsed(d)
  BY NoFileAtTheName DEF GetRule, StoreInv
<1>2. CacheInv' /\ ToSet(queue') \subseteq ToSet(queue)
  <2>1. CASE queue' = queue
    BY <1>1, <2>1 DEF StoreInv, CacheInv, DistinctIn, ToSet
  <2>2. CASE d \in ToSet(queue) /\ queue' \in ChangeToMostRecentlyUsed(d)
    <3>1. /\ queue' \in Seq(Domains) /\ DistinctIn(queue')
          /\ ToSet(queue') \subseteq ToSet(queue) \cup {d} /\ Len(queue') = Len(queue)
      BY <2>2, MostRecentlyUsed DEF StoreInv, CacheInv
    <3>. QED
      BY <1>1, <2>2, <3>1 DEF StoreInv, CacheInv, DistinctIn, ToSet
  <2>. QED
    BY <1>1, <2>1, <2>2
<1>. QED
  BY <1>1, <1>2 DEF StoreInv, ThreadsAreRight, RulesAreSubmitted, FilesAreOfDomains, PathOf,
                    FileHasTheCachedRules, ToSet

\* After a restart the files are there, and nothing else.
LEMMA RestartStep == StoreInv /\ Restart => StoreInv'
<1>. SUFFICES ASSUME StoreInv, Restart PROVE StoreInv'
  OBVIOUS
<1>1. /\ cache' = <<>> /\ queue' = <<>> /\ freed' = {} /\ submitted' = <<>>
      /\ thread' = [t \in Threads |-> Idle] /\ DOMAIN files' = DOMAIN files
  BY DEF Restart
<1>2. FilesAreOfDomains'
  BY <1>1 DEF StoreInv, FilesAreOfDomains, PathOf
<1>3. DOMAIN cache' = {} /\ IsFiniteSet({})
  BY <1>1, FS_EmptySet
<1>4. CacheInv'
  BY <1>1, <1>3, StoreAssumption DEF CacheInv, DistinctIn, ToSet
<1>. QED
  BY <1>1, <1>2, <1>3, <1>4 DEF StoreInv, ThreadsAreRight, RulesAreSubmitted,
                                FileHasTheCachedRules, Idle, ToSet

LEMMA StepStore == StoreInv /\ [NextRobots]_storeStateVars => StoreInv'
<1>. SUFFICES ASSUME StoreInv, [NextRobots]_storeStateVars PROVE StoreInv'
  OBVIOUS
<1>1. CASE UNCHANGED storeStateVars
  BY <1>1 DEF storeStateVars, StoreInv, CacheInv, DistinctIn, ToSet, ThreadsAreRight,
              RulesAreSubmitted, FilesAreOfDomains, PathOf, FileHasTheCachedRules
<1>. QED
  BY <1>1, SubmitStep, GetRuleStep, WriteStep, RestartStep DEF NextRobots

THEOREM StoreIsRight == SpecRobots => []StoreInv
BY InitStore, StepStore, PTL DEF SpecRobots

\* No rules are deleted twice: the queue has no domain twice and leads to live rules only,
\* whether EvictLRU finds the key it reads in freed memory or not, and whichever domain
\* loses its place when such a key is used again (LRUCacheCrawler.hpp:45-58).
THEOREM QueueIsRight == SpecRobots => []QueueIsOfLiveRules
<1>1. StoreInv => QueueIsOfLiveRules
  BY DEF StoreInv, CacheInv, DistinctIn, QueueIsOfLiveRules
<1>. QED
  BY <1>1, StoreIsRight, PTL

\* The file of a domain in the queue has the rules that are in the cache, or is being
\* written: of two submissions the later one is in both places (http.cpp:415-417).
THEOREM FilesAreRight == SpecRobots => []FileHasTheCachedRules
<1>1. StoreInv => FileHasTheCachedRules
  BY DEF StoreInv
<1>. QED
  BY <1>1, StoreIsRight, PTL
=============================================================================
