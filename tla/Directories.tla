---------------------------- MODULE Directories ----------------------------
(***************************************************************************)
(* The directories and files of a domain.  A path is never taken apart:    *)
(* all that matters is which directories lie on it.                        *)
(***************************************************************************)
CONSTANTS
  Dirs,   \* directories and files, by their path from the root
  Root,   \* "/"
  Above   \* directory -> the directories on its path, the root and itself included

ASSUME DirsAssumption ==
  /\ Root \in Dirs
  /\ Above \in [Dirs -> SUBSET Dirs]
  /\ Above[Root] = {Root}
  /\ \A d \in Dirs : Root \in Above[d] /\ d \in Above[d]
  /\ \A d, e, f \in Dirs : f \in Above[e] /\ e \in Above[d] => f \in Above[d]
  /\ \A d, e \in Dirs : d \in Above[e] /\ e \in Above[d] => d = e
  \* a path is finite: any set of directories on it has a deepest one
  /\ \A d \in Dirs : \A S \in SUBSET Above[d] :
       S # {} => \E deepest \in S : S \subseteq Above[deepest]

Deepest(S) == CHOOSE d \in S : S \subseteq Above[d]
=============================================================================
