---------------------------- MODULE MCPageStore ----------------------------
(***************************************************************************)
(* A small instance of PageStore: names of one and two characters and      *)
(* pages of none and two bytes, so that a backing file holds two records   *)
(* with room to spare, two that fill it exactly, or only one.              *)
(***************************************************************************)
EXTENDS PageStore

CONSTANTS r1, x, y, z, b, c

MCNames == {<<x>>, <<y, z>>}
MCBodies == {<<>>, <<b, c>>}
=============================================================================
