----------------------------- MODULE Pool3Loops -----------------------------
(***************************************************************************)
(* The two kinds of jobs that the threads of pool 3 share, for TLC: an     *)
(* ordered loop, or a team with its region and its loops.  One call of the *)
(* API is under way at a time and leaves nothing behind that the next one  *)
(* reads, so that a behaviour is one call.                                 *)
(***************************************************************************)
EXTENDS OrderedScheduler, Sequences

CONSTANTS
  PoolSize, DynamicRows, StaticRows, Chunks, MaxLength, MaxDynamic

VARIABLES
  used,          \* "ordered" or "team"
  entry, script, nthreads_in, nthreads, barrier_counter, nested_scheduler,
  num_iterations, iteration_index, iter, team_pc, at, n_target, times, aborted

teamVars == <<entry, script, nthreads_in, nthreads, barrier_counter, nested_scheduler,
              num_iterations, iteration_index, iter, team_pc, at, n_target, times, aborted>>
allVars == <<vars, teamVars, used>>

Team == INSTANCE ThreadTeam WITH pc <- team_pc

ASSUME LoopsAssumption == Team!TeamAssumption

\* The kind of job that is not used is the least one.
LoopsInit ==
  /\ Init
  /\ Team!Init
  /\ used \in {"ordered", "team"}
  /\ used = "ordered" => entry = "region" /\ script = <<>> /\ nthreads = 1
  /\ used = "team" => n_iterations = 1 /\ n_threads = 0

OfOrdered(A) == used = "ordered" /\ A /\ UNCHANGED <<teamVars, used>>
OfTeam(A) == used = "team" /\ A /\ UNCHANGED <<vars, used>>

LoopsNext == OfOrdered(Next) \/ OfTeam(Team!Next)

\* Every thread goes on in the job it is in, thread 0 also in the loop that it runs alone:
\* it gets the spin_mutex in the end, and the user's functions end, but need not throw or
\* resize.
LoopsFairness ==
  /\ \A i \in Threads : WF_vars(used = "ordered" /\ (Step(i) \/ (i = 0 /\ Loop)))
  /\ \A i \in Team!AllThreads : WF_teamVars(used = "team" /\ Team!Step(i))

LoopsSpec == LoopsInit /\ [][LoopsNext]_allVars /\ LoopsFairness
-----------------------------------------------------------------------------
\* The type invariants of both.
LoopsTypeOK == TypeOK /\ Team!TypeOK

\* No row is executed twice, whoever creates the shared scheduler of a nested loop.
RowsAtMostOnce == Team!RowsAtMostOnce

\* When all threads have left a loop that nobody aborted, every row has been executed.
LoopsAreComplete == Team!LoopsAreComplete

\* Nobody leaves a barrier before all the team has come to it.
BarrierSeparates == Team!BarrierSeparates

\* After abort_execution() nobody gets an iteration of a dynamic loop, and the rows that
\* were executed are the first ones.
AbortStopsLoop == Team!AbortStopsLoop

\* Every call returns: every thread leaves the job of an ordered loop, and comes to the end
\* of a region, or leaves it with an exception.
LoopsReturn ==
  <>(IF used = "ordered" THEN \A i \in Threads : pc[i] = "idle"
     ELSE \A i \in Team!Threads : team_pc[i] \in {"done", "threw"})
=============================================================================
