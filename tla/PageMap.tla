------------------------------ MODULE PageMap ------------------------------
(***************************************************************************)
(* What the page store promises: while the process runs, a page is stored  *)
(* once, a second version of it is ignored, and a reader that asks for a   *)
(* page gets all of it or learns that there is none.  A restart forgets    *)
(* the pages, and what is read under the names it damages is arbitrary.    *)
(* PageStore implements this module.                                       *)
(***************************************************************************)
CONSTANTS
  Readers,   \* the threads that read pages
  Names,     \* the file names of pages
  Bodies,    \* the contents of pages
  NoPage     \* not a content

VARIABLES
  pages,    \* name -> content, or NoPage
  damaged,  \* the names under which nothing sensible is read
  got       \* reader -> the page it asked for last and what it got

vars == <<pages, damaged, got>>

Nothing == [name |-> NoPage, body |-> NoPage]

Init ==
  /\ pages = [n \in Names |-> NoPage]
  /\ damaged = {}
  /\ got = [r \in Readers |-> Nothing]

Store(n, body) ==
  /\ n \notin damaged
  /\ pages' = [pages EXCEPT ![n] = IF @ = NoPage THEN body ELSE @]
  /\ UNCHANGED <<damaged, got>>

Read(r, n) ==
  /\ got'[r].name = n
  /\ n \in damaged \/ got'[r].body = pages[n]
  /\ got' = [got EXCEPT ![r] = got'[r]]
  /\ UNCHANGED <<pages, damaged>>

Restart ==
  /\ damaged' \subseteq Names
  /\ pages' = [n \in Names |-> NoPage]
  /\ got' = [r \in Readers |-> Nothing]

Next ==
  \/ \E n \in Names :
       \/ \E body \in Bodies : Store(n, body)
       \/ \E r \in Readers : Read(r, n)
  \/ Restart

Spec == Init /\ [][Next]_vars
=============================================================================
