------------------------------ MODULE OrderedLoop ------------------------------
(***************************************************************************)
(* What parallel_for_ordered() promises, from the comment of its class in  *)
(* api.h: it executes                                                      *)
(*                                                                         *)
(*     for i in range(n_iterations):                                       *)
(*         pre-ordered(i);  ordered(i);  post-ordered(i)                   *)
(*                                                                         *)
(* "where pre-ordered and post-ordered are allowed to run in parallel,     *)
(* whereas the ordered(i) parts will run sequentially".                    *)
(*                                                                         *)
(* The stage of an iteration counts what happened to it: 1, 3 and 5 while  *)
(* one of its three functions runs, 2, 4 and 6 when the function is over.  *)
(***************************************************************************)
EXTENDS Integers

CONSTANT MaxIterations      \* the largest number of iterations ever asked for

Iterations == 0 .. MaxIterations - 1

VARIABLES
  n,        \* the number of iterations, as set last
  limit,    \* the largest it has been
  stage,    \* the stage of every iteration
  failed,   \* the iterations whose function threw; their stage stays odd
  result    \* "none" as long as the loop runs, then "done" or "threw"

vars == <<n, limit, stage, failed, result>>

Init ==
  /\ n \in 1 .. MaxIterations
  /\ limit = n
  /\ stage = [j \in Iterations |-> 0]
  /\ failed = {}
  /\ result = "none"

\* set_n_iterations()
Resize(m) ==
  /\ result = "none"
  /\ n' = m
  /\ limit' = IF m > limit THEN m ELSE limit
  /\ UNCHANGED <<stage, failed, result>>

\* The next function of iteration j is called; `ordered` only when it has returned
\* in all the iterations before.
Call(j) ==
  /\ result = "none"
  /\ j < limit
  /\ stage[j] \in {0, 2, 4}
  /\ stage[j] = 2 => \A k \in 0 .. j - 1 : stage[k] >= 4
  /\ stage' = [stage EXCEPT ![j] = @ + 1]
  /\ UNCHANGED <<n, limit, failed, result>>

Running(j) == stage[j] \in {1, 3, 5} /\ j \notin failed

Return(j) ==
  /\ Running(j)
  /\ stage' = [stage EXCEPT ![j] = @ + 1]
  /\ UNCHANGED <<n, limit, failed, result>>

Throw(j) ==
  /\ Running(j)
  /\ failed' = failed \cup {j}
  /\ UNCHANGED <<n, limit, stage, result>>

\* The loop ends when no function runs; unless one threw, it is complete.
End ==
  /\ result = "none"
  /\ \A j \in Iterations : ~Running(j)
  /\ IF failed = {}
       THEN result' = "done" /\ \A j \in 0 .. n - 1 : stage[j] = 6
       ELSE result' = "threw"
  /\ UNCHANGED <<n, limit, stage, failed>>

Next ==
  \/ \E m \in 0 .. MaxIterations : Resize(m)
  \/ \E j \in Iterations : Call(j) \/ Return(j) \/ Throw(j)
  \/ End

Spec == Init /\ [][Next]_vars
================================================================================
