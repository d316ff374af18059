------------------------------- MODULE ForkJoin -------------------------------
(***************************************************************************)
(* What a parallel region promises to its caller, whatever the thread pool *)
(* does underneath: api.h says "Call function `f` exactly once in each     *)
(* thread", and thread_worker.h says of idle_job::join() that it blocks    *)
(* until all the work is finished and that an exception raised by any of   *)
(* the tasks is rethrown there.                                            *)
(*                                                                         *)
(* The threads of a region of width n are 0 .. n-1.  A call of `f` is      *)
(* finished when it has returned or when its exception has been handed     *)
(* over; a region with a failed call throws, the others return.            *)
(***************************************************************************)
EXTENDS Integers

CONSTANT MaxThreads      \* the largest width of a region

VARIABLES
  width,      \* number of threads of the region in progress, 0 if there is none
  finished,   \* threads whose call of `f` is over
  failed,     \* those of them whose call threw
  threw       \* did the last completed region throw?

vars == <<width, finished, failed, threw>>

Init ==
  /\ width = 0
  /\ finished = {}
  /\ failed = {}
  /\ threw = FALSE

Begin(n) ==
  /\ width = 0
  /\ width' = n
  /\ finished' = {}
  /\ failed' = {}
  /\ UNCHANGED threw

Finish(i, fails) ==
  /\ i \in 0 .. width - 1
  /\ i \notin finished
  /\ finished' = finished \cup {i}
  /\ failed' = IF fails THEN failed \cup {i} ELSE failed
  /\ UNCHANGED <<width, threw>>

Return ==
  /\ width > 0
  /\ finished = 0 .. width - 1
  /\ width' = 0
  /\ threw' = (failed # {})
  /\ UNCHANGED <<finished, failed>>

Work == \E i \in 0 .. MaxThreads - 1, fails \in BOOLEAN : Finish(i, fails)

Next ==
  \/ \E n \in 1 .. MaxThreads : Begin(n)
  \/ Work
  \/ Return

\* A region that was begun goes on: its calls end and it returns.
Fairness == WF_vars(Work) /\ WF_vars(Return)

Spec == Init /\ [][Next]_vars

FairSpec == Spec /\ Fairness
===============================================================================
