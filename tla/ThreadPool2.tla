----------------------------- MODULE ThreadPool2 -----------------------------
(***************************************************************************)
(* The thread pool of src/parallel/thpool2.  Its thread_pool, the loops of *)
(* thread_worker, once_scheduler and thread_shutdown_scheduler are those   *)
(* of thpool3, which were made from them: what they share is taken from    *)
(* ThreadPool3.  What differs is how threads sleep and wake up: a          *)
(* sleep_task has no semaphore, a worker first polls next_scheduler for a  *)
(* while (light sleep), and then waits on one condition variable of the    *)
(* idle_job (deep sleep); and n_threads_running is set, not increased.     *)
(***************************************************************************)
EXTENDS Integers, FiniteSets

CONSTANTS MaxThreads, SpawnMayFail      \* see ThreadPool3

ASSUME MaxThreadsAssumption == MaxThreads \in Nat \ {0}

VARIABLES
  nworkers, requested, team, job, done, curr, next, running, saved, pc, scheduler, task,
  calls, failed, outcome, resized, leaked

Pool == INSTANCE ThreadPool3 WITH sem <- [t \in 0 .. 1 |-> 0]

poolVars == <<nworkers, requested, team>>
jobVars == <<job, done>>
idleVars == <<curr, next, running, saved>>
threadVars == <<pc, scheduler, task>>
history == <<calls, failed, outcome, resized, leaked>>
vars == <<poolVars, jobVars, idleVars, threadVars, history>>

Threads == 0 .. MaxThreads - 1
Workers == 1 .. MaxThreads - 1
Prev == 1 - curr
NoJob == [kind |-> "none", n |-> 0]
Goto(i, label) == pc' = [pc EXCEPT ![i] = label]

Init == Pool!Init
-----------------------------------------------------------------------------
(***************************************************************************)
(* idle_job::awaken_and_run(), up to the call of run_master().             *)
(***************************************************************************)
\* The master never goes to sleep.
SleepersAndMaster == nworkers
Sleepers == nworkers - 1

CountRunning ==
  /\ pc[0] = "swap"
  /\ running' = Sleepers
  /\ saved' = "none"
  /\ Goto(0, "count")
  /\ UNCHANGED <<poolVars, jobVars, curr, next, scheduler, task, history>>

\* Under the mutex of the idle_job: the sleep tasks change places ...
Held == pc[0] = "post"

SwapSleepTasks ==
  /\ pc[0] = "count"
  /\ curr' = Prev
  /\ next' = [next EXCEPT ![Prev] = "null"]
  /\ Goto(0, "post")
  /\ UNCHANGED <<poolVars, jobVars, running, saved, scheduler, task, history>>

\* ... and the job is published, to the threads in light sleep at once.
PostJob ==
  /\ pc[0] = "post"
  /\ next' = [next EXCEPT ![Prev] = "job"]
  /\ Goto(0, "signal")
  /\ UNCHANGED <<poolVars, jobVars, curr, running, saved, scheduler, task, history>>

\* wakeup_all_threads_cv.notify_all(), without the mutex.
NotifyAll ==
  /\ pc[0] = "signal"
  /\ pc' = [i \in Threads |-> IF i = 0 THEN "fetch"
                              ELSE IF pc[i] = "deep" THEN "woken" ELSE pc[i]]
  /\ UNCHANGED <<poolVars, jobVars, idleVars, scheduler, task, history>>
-----------------------------------------------------------------------------
(***************************************************************************)
(* sleep_task::execute(), after n_threads_running--.                       *)
(***************************************************************************)
Sleep(i, label) ==
  /\ Goto(i, label)
  /\ UNCHANGED <<poolVars, jobVars, idleVars, scheduler, task, history>>

\* Light sleep: the worker sees the job ...
LightWake(i) == pc[i] = "asleep" /\ next[task[i]] = "job" /\ Sleep(i, "awake")

\* ... or gives up, and looks again with the mutex in its hands.  A job it finds there it
\* takes as in light sleep.
LookUnlocked(i) == TRUE
LookLocked(i) == ~Held /\ next[task[i]] = "null"

DeepSleep(i) == pc[i] = "asleep" /\ LookLocked(i) /\ Sleep(i, "deep")

\* The wait on the condition variable may end for no reason.
SpuriousWake(i) == pc[i] = "deep" /\ Sleep(i, "woken")

WakeUp(i) ==
  /\ pc[i] = "woken" /\ ~Held
  /\ Sleep(i, IF next[task[i]] = "job" THEN "awake" ELSE "deep")
-----------------------------------------------------------------------------
(***************************************************************************)
(* idle_job::catch_exception() saves the first exception and aborts the    *)
(* job that runs, under the mutex; the catch block of run() or             *)
(* run_master() aborts it once more.  Here abort_execution() is empty.     *)
(***************************************************************************)
Catch(i) ==
  /\ pc[i] = "catch" /\ ~Held
  /\ saved' = IF saved = "none" THEN "current" ELSE saved
  /\ Goto(i, "abort")
  /\ UNCHANGED <<poolVars, jobVars, curr, next, running, scheduler, task, history>>

Abort(i) ==
  /\ pc[i] = "abort"
  /\ Goto(i, "fetch")
  /\ UNCHANGED <<poolVars, jobVars, idleVars, scheduler, task, history>>
-----------------------------------------------------------------------------
(***************************************************************************)
(* What is as in thpool3: see there.                                       *)
(***************************************************************************)
\* thread_worker::run(), the schedulers of the pool's own jobs, the user's function.
CallStep(i) == Pool!FetchCall(i) \/ Pool!Return(i) \/ Pool!Throw(i) \/ Catch(i) \/ Abort(i)

SleepStep(i) ==
  \/ Pool!FetchShutdown(i) \/ Pool!ExitThread(i) \/ Pool!FetchSleep(i)
  \/ Pool!AnnounceSleep(i) \/ LightWake(i) \/ WakeUp(i) \/ Pool!TakeJob(i)

WorkerStep(i) == CallStep(i) \/ SleepStep(i) \/ Pool!TurnToIdle(i)

\* instantiate_threads(), awaken_and_run(), join() and ~thread_worker().
ResizeStep ==
  \/ Pool!SpawnMaster \/ Pool!Spawn \/ Pool!JoinSpawnedByResize
  \/ Pool!JoinSpawnedByRegion \/ Pool!JoinShutdown \/ Pool!Reap

AwakenStep == CountRunning \/ SwapSleepTasks \/ PostJob \/ NotifyAll

MasterStep == ResizeStep \/ AwakenStep \/ Pool!LeaveRunMaster \/ Pool!JoinRegion \/ CallStep(0)

\* What the system may do, and need not.
System == Pool!SpawnFails \/ \E i \in Workers : DeepSleep(i) \/ SpuriousWake(i)

\* parallel_region(), resize() and _child_cleanup_after_fork().
ApiCall == Pool!ApiCall

Next == ApiCall \/ MasterStep \/ System \/ \E i \in Workers : WorkerStep(i)
-----------------------------------------------------------------------------
(***************************************************************************)
(* Properties.                                                             *)
(***************************************************************************)
\* The type invariant.
TypeOK ==
  /\ nworkers \in 0 .. MaxThreads /\ requested \in 1 .. MaxThreads /\ team \in 0 .. MaxThreads
  /\ job \in [kind : {"none", "once", "shutdown", "dynamic", "ordered"}, n : 0 .. MaxThreads]
  /\ done \in [Threads -> BOOLEAN]
  /\ curr \in 0 .. 1
  /\ next \in [0 .. 1 -> {"null", "job"}]
  /\ running \in 0 .. MaxThreads - 1
  /\ saved \in Pool!Exceptions
  /\ pc \in [Threads -> Pool!MasterLabels \cup Pool!WorkerLabels \cup {"abort", "deep", "woken"}]
  /\ scheduler \in [Threads -> {"null", "idle", "job"}]
  /\ task \in [Workers -> 0 .. 1]
  /\ calls \in [Threads -> Nat] /\ failed \subseteq Threads
  /\ outcome \in Pool!Exceptions /\ resized \in Pool!Exceptions /\ leaked \in Nat

\* The workers that n_threads_running stands for.  Those still in the previous sleep task
\* are among them once the number is set, though they may not have noticed yet.
Awake ==
  {i \in Workers :
     \/ pc[i] \in {"fetch", "call", "catch", "abort", "drowsy", "awake"}
     \/ pc[i] \in {"asleep", "deep", "woken"} /\ (task[i] # curr \/ pc[0] = "count")}

\* n_threads_running is overwritten by awaken_and_run(), and yet it is exact: join() returns
\* when all workers are in the current sleep task and the job is not used any more, neither
\* earlier nor later.
RunningCount ==
  /\ running = Cardinality(Awake) + leaked
  /\ pc[0] \in {"user", "swap"} => \A i \in Workers : scheduler[i] # "job"

\* parallel_region() calls `f` exactly once in each thread of the region, returns only
\* after all the calls, and throws exactly when one of them threw.
ImplementsForkJoin == Pool!ImplementsForkJoin

\* Every call of the API comes back, unless a thread could not be created: no wake-up is
\* missed between the light sleep and the deep one.
EveryCallReturns == pc[0] # "user" ~> (pc[0] = "user" \/ leaked > 0)
=============================================================================
