---------------------------- MODULE RobotsRules ----------------------------
(***************************************************************************)
(* What the robots rules of one domain promise: the rule that decides      *)
(* about a directory is the one of its nearest ancestor that has a rule    *)
(* (the directory itself included), the last rule given for a directory is *)
(* the one that counts, and without any rule everything is allowed.        *)
(* DirectoryRules implements this module.                                  *)
(***************************************************************************)
EXTENDS Directories

VARIABLES
  rules,   \* the rules given so far: directory -> allowed or not
  answer   \* the last question about a directory, and its answer

vars == <<rules, answer>>

NoAnswer == [dir |-> Root, allowed |-> TRUE]

Decision(d) ==
  LET ruled == Above[d] \cap DOMAIN rules IN
  IF ruled = {} THEN TRUE ELSE rules[Deepest(ruled)]

Init ==
  /\ rules = [d \in {} |-> TRUE]
  /\ answer = NoAnswer

AddRule(d, allow) ==
  /\ rules' = [e \in DOMAIN rules \cup {d} |-> IF e = d THEN allow ELSE rules[e]]
  /\ UNCHANGED answer

IsAllowed(d) ==
  /\ answer' = [dir |-> d, allowed |-> Decision(d)]
  /\ UNCHANGED rules

Next == \E d \in Dirs : IsAllowed(d) \/ \E allow \in BOOLEAN : AddRule(d, allow)

Spec == Init /\ [][Next]_vars
=============================================================================
