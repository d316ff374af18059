------------------------------ MODULE Pool1Loops ------------------------------
(***************************************************************************)
(* The parallel loops and the teams of src/parallel/thpool1, run by the    *)
(* threads of that pool: ThreadPool1, ThreadTeam and OrderedScheduler put  *)
(* together.  The pool says when a thread enters the function of a region  *)
(* or asks the scheduler of a loop for a task, the team or the scheduler   *)
(* says what happens then.                                                 *)
(*                                                                         *)
(* The user does one of three things: use the pool freely, with regions    *)
(* that share nothing; make one call, with a loop in it; or call one       *)
(* ordered loop.  The calls are made in a new pool of MaxThreads threads,  *)
(* all of which can be created, and no wait ends for no reason in them.    *)
(***************************************************************************)
EXTENDS ThreadPool1, Sequences

CONSTANTS
  DynamicRows, StaticRows, Chunks, MaxLength, MaxDynamic,   \* see ThreadTeam
  MaxIterations, Resizes, MayThrow, MayRaise                \* see OrderedScheduler

VARIABLES
  entry, script, nthreads_in, nthreads, barrier_counter, nested_scheduler, num_iterations,
  iteration_index, iter, tpc, at, n_target, times, aborted,
  n_tasks, n_threads, n_iterations, state, n_iter, assigned_tasks, next_to_start,
  next_to_order, next_to_finish, istart, iorder, ifinish, ordering_thread_index, osaved,
  opc, arg, thrown, stage, ofailed, limit

Team == INSTANCE ThreadTeam WITH PoolSize <- MaxThreads, pc <- tpc

ASSUME LoopsAssumption ==
  /\ Team!TeamAssumption
  /\ MaxIterations \in Nat \ {0} /\ Resizes \subseteq 0 .. MaxIterations
  /\ MayThrow \in BOOLEAN /\ MayRaise \in BOOLEAN

teamVars == <<entry, script, nthreads_in, nthreads, barrier_counter, nested_scheduler,
              num_iterations, iteration_index, iter, tpc, at, n_target, times, aborted>>

Sch == INSTANCE OrderedScheduler WITH pc <- opc, saved <- osaved, failed <- ofailed

schVars == <<n_tasks, n_threads, n_iterations, state, n_iter, assigned_tasks, next_to_start,
             next_to_order, next_to_finish, istart, iorder, ifinish, ordering_thread_index,
             osaved, opc, arg, thrown, stage, ofailed, limit>>
allVars == <<vars, teamVars, schVars>>

\* A call with a loop or a barrier in it, an ordered loop, or neither.  An ordered loop for
\* at most one thread does without the pool.
Looped == script # <<>>
Ordered == n_threads > 1
Plain == ~Looped /\ ~Ordered

\* A static loop with no chunk to share out is run by the caller, without the pool.
LoopInit ==
  /\ Init
  /\ Team!Init
  /\ Sch!Init
  /\ IF Looped THEN ~Ordered ELSE nthreads = MaxThreads
  /\ Ordered \/ (n_threads = 1 /\ n_iterations = 1)
  /\ Plain \/ requested = MaxThreads
  /\ entry = "static" => Team!ChunksWanted(script[1], nthreads_in) > 0
-----------------------------------------------------------------------------
\* parallel_region(), parallel_for_static() or parallel_for_dynamic() of the master.
CallLoop ==
  /\ nworkers = 0
  /\ ExecuteJob(IF entry = "dynamic" THEN "dynamic" ELSE "once", nthreads)
  /\ UNCHANGED teamVars

\* What the pool does, whatever the job is.
PoolStep(i) ==
  /\ SleepStep(i) \/ FetchCall(i)
  /\ UNCHANGED teamVars

\* The function of the region: a step inside of it, and its end.
InRegion(i) == entry # "dynamic" /\ pc[i] = "call" /\ Team!Step(i) /\ UNCHANGED vars

EndRegion(i) ==
  /\ \/ tpc[i] = "done" /\ Return(i)
     \/ tpc[i] = "threw" /\ Throw(i)
     \/ entry # "dynamic" /\ (TurnToSleep(i) \/ Catch(i) \/ Abort(i))
  /\ UNCHANGED teamVars

\* dynamic_scheduler::get_next_task() of the job: an iteration, or none; a thread beyond
\* the team gets none either.
FetchIteration(i) ==
  /\ InJob(i) /\ job.kind = "dynamic"
  /\ Team!FetchIteration(i)
  /\ Goto(i, "call")
  /\ UNCHANGED <<poolVars, jobVars, controller, master, scheduler, task, history>>

FetchNothing(i) ==
  /\ job.kind = "dynamic"
  /\ SwitchToController(i)
  /\ Team!FetchNothing(i) \/ (tpc[i] = "done" /\ UNCHANGED teamVars)

\* An iteration returns or throws.
EndIteration(i) ==
  /\ entry = "dynamic"
  /\ UNCHANGED failed
  /\ \/ EndCall(i, "fetch") /\ Team!CallIteration(i)
     \/ EndCall(i, "catch") /\ Team!Throw(i)

\* The catch block of run(): worker_controller::catch_exception() saves the exception ...
SaveException(i) ==
  /\ entry = "dynamic"
  /\ Catch(i)
  /\ Team!Goto(i, "abort")
  /\ UNCHANGED <<entry, script, nthreads_in, nthreads, barrier_counter, nested_scheduler,
                 num_iterations, iteration_index, iter, at, n_target, times, aborted>>

\* ... and only then is the loop aborted.
AbortLoop(i) ==
  /\ entry = "dynamic"
  /\ Abort(i)
  /\ Team!AbortExecution
  /\ aborted' = TRUE
  /\ Team!Goto(i, "next")
  /\ UNCHANGED <<entry, script, nthreads_in, nthreads, barrier_counter, nested_scheduler,
                 num_iterations, iter, at, n_target, times>>

LoopStep(i) ==
  \/ PoolStep(i) \/ InRegion(i) \/ EndRegion(i)
  \/ FetchIteration(i) \/ FetchNothing(i) \/ EndIteration(i) \/ SaveException(i)
  \/ AbortLoop(i)
-----------------------------------------------------------------------------
\* parallel_for_ordered() first calls instantiate_threads(), and the last context to be
\* prepared executes the job.
CallOrdered ==
  /\ master = "user"
  /\ IF nworkers = 0
       THEN master' = "spawn" /\ UNCHANGED job
       ELSE /\ \A i \in Workers : opc[i] = "fetch"
            /\ job' = [kind |-> "ordered", n |-> n_threads]
            /\ master' = "lock"
  /\ UNCHANGED <<poolVars, done, controller, threadVars, history, schVars>>

\* ordered_scheduler::get_next_task(): a function of the user to call, ...
GetTask(i) ==
  /\ InJob(i) /\ job.kind = "ordered"
  /\ Sch!FetchOrder(i) \/ Sch!FetchFinish(i) \/ Sch!FetchStart(i)
  /\ Goto(i, "call")
  /\ UNCHANGED <<poolVars, jobVars, controller, master, scheduler, task, history>>

\* ... a wait task, or none.
GetWaitTask(i) == InJob(i) /\ job.kind = "ordered" /\ Sch!FetchWait(i) /\ UNCHANGED vars

GetNothing(i) ==
  /\ job.kind = "ordered"
  /\ SwitchToController(i)
  /\ Sch!FetchNothing(i) \/ Sch!TurnAway(i)

\* ordered_task::execute(), in which set_n_iterations() may be called.
ExecuteTask(i) ==
  /\ pc[i] = "call"
  /\ Sch!Execute(i) \/ \E n \in Resizes : Sch!SetIterations(i, n)
  /\ UNCHANGED vars

EndTask(i) ==
  /\ UNCHANGED failed
  /\ \/ EndCall(i, "fetch") /\ Sch!Return(i)
     \/ EndCall(i, "catch") /\ (Sch!Throw(i) \/ Sch!ExecuteCancelled(i))

\* The exception is saved first, and then the loop is aborted, once.
SaveTaskException(i) ==
  /\ Catch(i)
  /\ Sch!SaveFirst(i)
  /\ opc' = [opc EXCEPT ![i] = "abort"]
  /\ UNCHANGED <<n_tasks, n_threads, n_iterations, state, n_iter, assigned_tasks,
                 next_to_start, next_to_order, next_to_finish, istart, iorder, ifinish,
                 ordering_thread_index, arg, thrown, stage, ofailed, limit>>

AbortOrdered(i) == Abort(i) /\ Sch!AbortAgain(i)

TaskStep(i) ==
  \/ GetTask(i) \/ GetWaitTask(i) \/ GetNothing(i) \/ ExecuteTask(i) \/ EndTask(i)
  \/ SaveTaskException(i) \/ AbortOrdered(i) \/ (SleepStep(i) /\ UNCHANGED schVars)
-----------------------------------------------------------------------------
\* Afterwards the user leaves the pool alone.
Idle == ~Plain /\ master = "user" /\ UNCHANGED allVars

Master == MasterStep /\ UNCHANGED <<teamVars, schVars>>

Thread(i) ==
  \/ Plain /\ WorkerStep(i) /\ UNCHANGED <<teamVars, schVars>>
  \/ Looped /\ LoopStep(i) /\ UNCHANGED schVars
  \/ Ordered /\ TaskStep(i) /\ UNCHANGED teamVars

LoopNext ==
  \/ Plain /\ (ApiCall \/ System) /\ UNCHANGED <<teamVars, schVars>>
  \/ Looped /\ CallLoop /\ UNCHANGED schVars
  \/ Ordered /\ CallOrdered /\ UNCHANGED teamVars
  \/ Master \/ (\E i \in Workers : Thread(i)) \/ Idle

\* Every thread that can go on does; no fairness for waits that end for no reason.
LoopSpec ==
  /\ LoopInit /\ [][LoopNext]_allVars
  /\ WF_allVars(Master) /\ \A i \in Workers : WF_allVars(Thread(i))
-----------------------------------------------------------------------------
\* The call that runs a loop ends.  It throws exactly when a function of the user threw,
\* in whichever thread; otherwise every row of every loop has been executed exactly once.
LoopReturns ==
  [][Looped /\ job # NoJob /\ job' = NoJob =>
       /\ (saved = "current") = (failed # {} \/ aborted)
       /\ \A c \in DOMAIN script : \A r \in DOMAIN times[c] :
            times[c][r] <= 1 /\ (saved = "none" => times[c][r] = 1)]_allVars

OrderedLoop == INSTANCE OrderedLoop WITH
  n <- n_iterations,
  failed <- ofailed,
  result <- IF job # NoJob \/ \E i \in Workers : opc[i] # "idle" THEN "none"
            ELSE IF saved = "none" THEN "done" ELSE "threw"

\* What the caller of parallel_for_ordered() sees: when it gets control back, all three
\* functions have run once for every iteration, in order, or one of them threw, and then the
\* call throws; and none of them runs after that.
ImplementsOrderedLoop == OrderedLoop!Spec
=============================================================================
