------------------------------ MODULE Pool2Loops ------------------------------
(***************************************************************************)
(* The parallel loops and the teams of src/parallel/thpool2, run by the    *)
(* threads of that pool, one of which is the master: ThreadPool2,          *)
(* ThreadTeam and OrderedScheduler put together, as in Pool1Loops.         *)
(*                                                                         *)
(* The user does one of three things: use the pool freely, make one call   *)
(* with a loop or a barrier in it, or call one ordered loop; the last two  *)
(* in a new pool of MaxThreads threads, all of which can be created.       *)
(***************************************************************************)
EXTENDS ThreadPool2, Sequences

CONSTANTS
  DynamicRows, StaticRows, Chunks, MaxLength, MaxDynamic,   \* see ThreadTeam
  MaxIterations, Resizes, MayThrow, MayRaise                \* see OrderedScheduler

VARIABLES
  entry, script, nthreads_in, nthreads, barrier_counter, nested_scheduler, num_iterations,
  iteration_index, iter, tpc, at, n_target, times, aborted,
  n_tasks, n_threads, n_iterations, state, n_iter, assigned_tasks, next_to_start,
  next_to_order, next_to_finish, istart, iorder, ifinish, ordering_thread_index, osaved,
  opc, arg, thrown, stage, ofailed, limit

Team == INSTANCE ThreadTeam WITH PoolSize <- MaxThreads, pc <- tpc

ASSUME LoopsAssumption ==
  /\ Team!TeamAssumption
  /\ MaxIterations \in Nat \ {0} /\ Resizes \subseteq 0 .. MaxIterations
  /\ MayThrow \in BOOLEAN /\ MayRaise \in BOOLEAN

teamVars == <<entry, script, nthreads_in, nthreads, barrier_counter, nested_scheduler,
              num_iterations, iteration_index, iter, tpc, at, n_target, times, aborted>>

Sch == INSTANCE OrderedScheduler WITH pc <- opc, saved <- osaved, failed <- ofailed

schVars == <<n_tasks, n_threads, n_iterations, state, n_iter, assigned_tasks, next_to_start,
             next_to_order, next_to_finish, istart, iorder, ifinish, ordering_thread_index,
             osaved, opc, arg, thrown, stage, ofailed, limit>>
allVars == <<vars, teamVars, schVars>>

\* An ordered loop for at most one thread does without the pool.
Looped == script # <<>>
Ordered == n_threads > 1
Plain == ~Looped /\ ~Ordered

\* Calls with a loop have a team of two threads or more, and a static loop is called outside
\* of a region, where it makes one; the other calls are in Pool3Loops.
LoopInit ==
  /\ Init
  /\ Team!Init
  /\ Sch!Init
  /\ IF Looped THEN ~Ordered ELSE nthreads = MaxThreads
  /\ Ordered \/ (n_threads = 1 /\ n_iterations = 1)
  /\ Plain \/ requested = MaxThreads
  /\ nthreads_in = nthreads
  /\ Looped => nthreads > 1 /\ (entry = "region" => script[1].kind # "static")
-----------------------------------------------------------------------------
\* parallel_region() and parallel_for_static() of the master ...
CallRegion == nworkers = 0 /\ entry # "dynamic" /\ Pool!ParallelRegion(nthreads)

\* ... and parallel_for_dynamic().
CallDynamic ==
  /\ pc[0] = "user"
  /\ nworkers = 0
  /\ entry = "dynamic"
  /\ team' = nthreads
  /\ job' = [kind |-> "dynamic", n |-> nthreads]
  /\ Goto(0, "spawn")
  /\ UNCHANGED <<nworkers, requested, done, idleVars, scheduler, task, history>>

\* The once_scheduler of a region: the function of the region begins, takes a step, and ends.
BeginRegion(i) == Pool!FetchCall(i) /\ UNCHANGED teamVars

InRegion(i) == entry # "dynamic" /\ pc[i] = "call" /\ Team!Step(i) /\ UNCHANGED vars

EndRegion(i) ==
  /\ \/ tpc[i] = "done" /\ Pool!Return(i)
     \/ tpc[i] = "threw" /\ Pool!Throw(i)
     \/ entry # "dynamic" /\ (Catch(i) \/ Abort(i))
  /\ UNCHANGED teamVars

\* Without a task a worker turns to the idle job, the master to join().
LeaveJob(i) ==
  /\ Pool!InJob(i)
  /\ IF i = 0 THEN Goto(i, "join") /\ UNCHANGED scheduler
              ELSE scheduler' = [scheduler EXCEPT ![i] = "idle"] /\ UNCHANGED pc
  /\ UNCHANGED <<poolVars, jobVars, idleVars, task, history>>

LeaveRegion(i) == Pool!NoMoreTasks(i) /\ LeaveJob(i) /\ UNCHANGED teamVars

\* dynamic_scheduler::get_next_task() of the job: an iteration, or none; a thread beyond
\* the team gets none either.
FetchIteration(i) ==
  /\ Pool!InJob(i) /\ job.kind = "dynamic"
  /\ Team!FetchIteration(i)
  /\ Goto(i, "call")
  /\ UNCHANGED <<poolVars, jobVars, idleVars, scheduler, task, history>>

FetchNothing(i) ==
  /\ job.kind = "dynamic"
  /\ LeaveJob(i)
  /\ Team!FetchNothing(i) \/ (tpc[i] = "done" /\ UNCHANGED teamVars)

\* An iteration returns or throws.
EndIteration(i) ==
  /\ entry = "dynamic" /\ pc[i] = "call"
  /\ \/ Team!CallIteration(i) /\ Goto(i, "fetch")
     \/ Team!Throw(i) /\ Goto(i, "catch")
  /\ UNCHANGED <<poolVars, jobVars, idleVars, scheduler, task, history>>

\* catch_exception() aborts the job it finds in prev_sleep_task, if there is one; run() and
\* run_master() abort the job of the thread.
JobPublished == next[Prev] = "job"

CatchInLoop(i) == JobPublished /\ Catch(i) /\ Team!Catch(i)

AbortLoop(i) == entry = "dynamic" /\ Abort(i) /\ Team!AbortAgain(i)

LoopStep(i) ==
  \/ BeginRegion(i) \/ InRegion(i) \/ EndRegion(i) \/ LeaveRegion(i)
  \/ FetchIteration(i) \/ FetchNothing(i) \/ EndIteration(i) \/ CatchInLoop(i)
  \/ AbortLoop(i)
-----------------------------------------------------------------------------
\* parallel_for_ordered() first calls instantiate_threads(), ...
InstantiateThreads ==
  /\ pc[0] = "user"
  /\ nworkers = 0
  /\ Goto(0, "spawn")
  /\ UNCHANGED <<poolVars, jobVars, idleVars, scheduler, task, history>>

\* ... and the last context executes the job.
ExecuteJob ==
  /\ pc[0] = "user"
  /\ nworkers > 0
  /\ \A i \in Threads : opc[i] = "fetch"
  /\ team' = n_threads
  /\ job' = [kind |-> "ordered", n |-> n_threads]
  /\ Goto(0, "swap")
  /\ UNCHANGED <<nworkers, requested, done, idleVars, scheduler, task, history>>

\* Thread i gets a task from the job.
GetTask(i) ==
  /\ Pool!InJob(i) /\ job.kind = "ordered"
  /\ Sch!FetchOrder(i) \/ Sch!FetchFinish(i) \/ Sch!FetchStart(i)
  /\ Goto(i, "call")
  /\ UNCHANGED <<poolVars, jobVars, idleVars, scheduler, task, history>>

GetWaitTask(i) ==
  /\ Pool!InJob(i) /\ job.kind = "ordered"
  /\ Sch!FetchWait(i)
  /\ UNCHANGED vars

\* ... or none.
GetNothing(i) == job.kind = "ordered" /\ LeaveJob(i) /\ (Sch!FetchNothing(i) \/ Sch!TurnAway(i))

\* The task calls a function of the user, which may change the number of iterations, ...
Execute(i) ==
  /\ pc[i] = "call"
  /\ Sch!Execute(i) \/ \E n \in Resizes : Sch!SetIterations(i, n)
  /\ UNCHANGED vars

\* ... and ends.
EndTask(i) ==
  /\ pc[i] = "call"
  /\ \/ Sch!Return(i) /\ Goto(i, "fetch")
     \/ (Sch!Throw(i) \/ Sch!ExecuteCancelled(i)) /\ Goto(i, "catch")
  /\ UNCHANGED <<poolVars, jobVars, idleVars, scheduler, task, history>>

\* The loop is aborted through prev_sleep_task, and then through the thread's scheduler.
CatchAndAbort(i) == JobPublished /\ Catch(i) /\ Sch!Catch(i)

AbortAgain(i) == Abort(i) /\ Sch!AbortAgain(i)

TaskStep(i) ==
  \/ GetTask(i) \/ GetWaitTask(i) \/ GetNothing(i) \/ Execute(i) \/ EndTask(i)
  \/ CatchAndAbort(i) \/ AbortAgain(i)
-----------------------------------------------------------------------------
\* A parallel loop that is not a region returns or throws.
JoinLoop ==
  /\ pc[0] = "join"
  /\ job.kind \in {"dynamic", "ordered"}
  /\ Pool!AllStopped
  /\ next' = [next EXCEPT ![Prev] = "null"]
  /\ Pool!ReturnToUser
  /\ UNCHANGED <<nworkers, requested, done, curr, running, saved, scheduler, task, history>>

\* A thread inside a job.
InLoop(i) ==
  \/ Looped /\ LoopStep(i) /\ UNCHANGED schVars
  \/ Ordered /\ TaskStep(i) /\ UNCHANGED teamVars

LoopWorker(i) == InLoop(i) \/ (SleepStep(i) /\ UNCHANGED <<teamVars, schVars>>)

LoopMaster ==
  \/ InLoop(0)
  \/ (ResizeStep \/ AwakenStep \/ Pool!JoinRegion \/ JoinLoop) /\ UNCHANGED <<teamVars, schVars>>
  \/ Ordered /\ (InstantiateThreads \/ ExecuteJob) /\ UNCHANGED <<teamVars, schVars>>

\* The caller of a loop that is not ordered.
Call == Looped /\ (CallRegion \/ CallDynamic) /\ UNCHANGED <<teamVars, schVars>>

\* Afterwards the user leaves the pool alone.
Idle == pc[0] = "user" /\ UNCHANGED allVars

LoopNext ==
  \/ Plain /\ Next /\ UNCHANGED <<teamVars, schVars>>
  \/ ~Plain /\ (Call \/ LoopMaster)
  \/ ~Plain /\ \E i \in Workers : LoopWorker(i)
  \/ ~Plain /\ \E i \in Workers : DeepSleep(i) /\ UNCHANGED <<teamVars, schVars>>
  \/ ~Plain /\ Idle

\* Every thread that can go on does: no fairness for giving up the light sleep, nor for waits
\* that end for no reason.
LoopFairness ==
  /\ WF_allVars(Plain /\ MasterStep /\ UNCHANGED <<teamVars, schVars>>)
  /\ WF_allVars(~Plain /\ LoopMaster)
  /\ \A i \in Workers :
       /\ WF_allVars(Plain /\ WorkerStep(i) /\ UNCHANGED <<teamVars, schVars>>)
       /\ WF_allVars(~Plain /\ LoopWorker(i))

LoopSpec == LoopInit /\ [][LoopNext]_allVars /\ LoopFairness
-----------------------------------------------------------------------------
\* The call that runs a loop ends.  It throws exactly when a function of the user threw,
\* in whichever thread; otherwise every row of every loop has been executed exactly once.
LoopReturns ==
  [][Looped /\ job # NoJob /\ job' = NoJob =>
       /\ (saved = "current") = (failed # {} \/ aborted)
       /\ \A c \in DOMAIN script : \A r \in DOMAIN times[c] :
            times[c][r] <= 1 /\ (saved = "none" => times[c][r] = 1)]_allVars

Loop == INSTANCE OrderedLoop WITH
  n <- n_iterations,
  failed <- ofailed,
  result <- IF job # NoJob \/ \E i \in Threads : opc[i] # "idle" THEN "none"
            ELSE IF saved = "none" THEN "done" ELSE "threw"

\* What the caller of parallel_for_ordered() sees: when it gets control back, all three
\* functions have run once for every iteration, in order, or one of them threw, and then the
\* call throws; and none of them runs after that.
ImplementsOrderedLoop == Loop!Spec
=============================================================================
