-------------------------- MODULE MCDirectoryRules --------------------------
(***************************************************************************)
(* A small instance of DirectoryRules: the root, two directories in it,    *)
(* and a path of three below the first of them.                            *)
(***************************************************************************)
EXTENDS DirectoryRules, Sequences, Naturals

MCDirs == {<<>>, <<"a">>, <<"b">>, <<"a", "c">>, <<"a", "d">>, <<"a", "c", "e">>}
MCRoot == <<>>
MCAbove == [d \in MCDirs |-> {SubSeq(d, 1, n) : n \in 0..Len(d)}]
=============================================================================
