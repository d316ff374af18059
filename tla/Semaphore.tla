------------------------------- MODULE Semaphore -------------------------------
(***************************************************************************)
(* What a counting semaphore promises: a wait() ends by taking one of the  *)
(* tokens that signal() has brought, and while there are both a token and  *)
(* a thread that waits, the token does not stay there.                     *)
(***************************************************************************)
EXTENDS Integers

CONSTANT Waiters

VARIABLES
  value,      \* the number of tokens
  waiting     \* the threads inside wait()

vars == <<value, waiting>>

Init == value = 0 /\ waiting = {}

Wait(i) ==
  /\ i \notin waiting
  /\ waiting' = waiting \cup {i}
  /\ UNCHANGED value

Take(i) ==
  /\ i \in waiting
  /\ value > 0
  /\ value' = value - 1
  /\ waiting' = waiting \ {i}

Signal ==
  /\ value' \in {n \in Nat : n > value}
  /\ UNCHANGED waiting

Next == Signal \/ \E i \in Waiters : Wait(i) \/ Take(i)

Spec == Init /\ [][Next]_vars

Fairness == WF_vars(\E i \in Waiters : Take(i))
================================================================================
