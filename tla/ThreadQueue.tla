---------------------------- MODULE ThreadQueue ----------------------------
(***************************************************************************)
(* threading::ThreadQueue<T> (src/include/threading.h): a deque guarded by *)
(* one mutex, with one condition variable on which consumers block.        *)
(*                                                                         *)
(* Every method holds m from its first to its last statement and releases  *)
(* it only inside cv.wait, so each method is one step, and a pop that has  *)
(* to block is a step that falls asleep.  A thread that has been woken is  *)
(* a thread inside pop that is not asleep: it competes for m again and     *)
(* re-tests the queue, exactly like a thread that has just called pop.     *)
(*                                                                         *)
(* The module has no Next of its own: the components that own a queue      *)
(* instantiate it and say which of their threads call which method.        *)
(***************************************************************************)
EXTENDS Sequences

VARIABLES q,      \* the deque
          asleep  \* the threads blocked in cv.wait(m)

\* pthread_cond_signal: wakes one of the sleepers, and is lost if there is none.
Signal ==
  \/ /\ asleep = {}
     /\ UNCHANGED asleep
  \/ \E t \in asleep : asleep' = asleep \ {t}

\* Mutant: a push that does not signal.
PushUnsignalled(items) ==
  /\ q' = q \o items
  /\ UNCHANGED asleep

\* push(const std::vector<T>&) and push(Iterator, Iterator): every item goes
\* in under one critical section, followed by ONE signal whatever their number.
PushAll(items) ==
  /\ q' = q \o items
  /\ Signal

\* push(const T&)
Push(d) == PushAll(<<d>>)

\* pop() that finds an item and returns Head(q).
Pop(t) ==
  /\ t \notin asleep
  /\ q # <<>>
  /\ q' = Tail(q)
  /\ UNCHANGED asleep

\* Mutant: pop() waits before it tests the queue.
BlockUntested(t) ==
  /\ t \notin asleep
  /\ asleep' = asleep \cup {t}
  /\ UNCHANGED q

\* pop() that finds the queue empty and blocks in cv.wait(m).
Block(t) ==
  /\ t \notin asleep
  /\ q = <<>>
  /\ asleep' = asleep \cup {t}
  /\ UNCHANGED q

\* pthread_cond_wait may return although nobody signalled.
SpuriousWakeup(t) ==
  /\ t \in asleep
  /\ asleep' = asleep \ {t}
  /\ UNCHANGED q
=============================================================================
