----------------------------- MODULE ThreadPool3 -----------------------------
(***************************************************************************)
(* The thread pool of src/parallel/thpool3: thread_pool, its workers, the  *)
(* idle_job that puts them to sleep and wakes them up, and the two jobs    *)
(* the pool itself runs: the once_scheduler of a parallel region and the   *)
(* thread_shutdown_scheduler of a shrinking resize.                        *)
(*                                                                         *)
(* Thread 0 is the master, the only thread that calls the pool's API; it   *)
(* is at "user" between two calls.  Thread i > 0 runs thread_worker::run() *)
(* and is at "none" when there is no such thread.  A step of the model is  *)
(* the code of one thread from one access of shared state to the next.     *)
(*                                                                         *)
(* idle_job owns two sleep tasks.  They are numbered 0 and 1; `curr` is    *)
(* the one behind curr_sleep_task, Prev the one behind prev_sleep_task.    *)
(* The LightweightSemaphore inside a sleep task is a plain counter here.   *)
(***************************************************************************)
EXTENDS Integers, FiniteSets

CONSTANTS
  MaxThreads,     \* the largest pool the user asks for
  SpawnMayFail    \* may std::thread(...) throw?

ASSUME MaxThreadsAssumption == MaxThreads \in Nat \ {0}
ASSUME SpawnMayFailAssumption == SpawnMayFail \in BOOLEAN

Threads == 0 .. MaxThreads - 1
Workers == 1 .. MaxThreads - 1

VARIABLES
  \* thread_pool
  nworkers,    \* workers.size()
  requested,   \* num_threads_requested
  team,        \* current_team->size(), 0 when current_team is nullptr
  \* the job on the master's stack
  job,         \* its class and its n: `nthreads` or `n_threads_to_keep`
  done,        \* once_scheduler::done
  \* idle_job
  curr,        \* curr_sleep_task
  next,        \* sleep_task::next_scheduler: "null" or "job"
  sem,         \* sleep_task::semaphore
  running,     \* n_threads_running
  saved,       \* saved_exception: "none", or whose exception it holds
  \* threads
  pc,
  scheduler,   \* thread_worker::scheduler; the master has none ("null")
  task,        \* the sleep task a worker fetched last
  \* what happened, read by no action
  calls,       \* how often thread i called `f` in this region
  failed,      \* the threads whose call of `f` threw
  outcome,     \* the exception that left the last parallel_region()
  resized,     \* the exception that left the last resize()
  leaked       \* how many threads could not be created

poolVars == <<nworkers, requested, team>>
jobVars == <<job, done>>
idleVars == <<curr, next, sem, running, saved>>
threadVars == <<pc, scheduler, task>>
history == <<calls, failed, outcome, resized, leaked>>
vars == <<poolVars, jobVars, idleVars, threadVars, history>>

Prev == 1 - curr

NoJob == [kind |-> "none", n |-> 0]

Exceptions == {"none", "current", "earlier"}

Init ==
  /\ nworkers = 0
  /\ requested \in 1 .. MaxThreads
  /\ team = 0
  /\ job = NoJob
  /\ done = [i \in Threads |-> FALSE]
  /\ curr = 0
  /\ next = [t \in 0 .. 1 |-> "null"]
  /\ sem = [t \in 0 .. 1 |-> 0]
  /\ running = 0
  /\ saved = "none"
  /\ pc = [i \in Threads |-> IF i = 0 THEN "user" ELSE "none"]
  /\ scheduler = [i \in Threads |-> "null"]
  /\ task = [i \in Workers |-> 0]
  /\ calls = [i \in Threads |-> 0]
  /\ failed = {}
  /\ outcome = "none"
  /\ resized = "none"
  /\ leaked = 0
-----------------------------------------------------------------------------
(***************************************************************************)
(* The API calls of the master.                                            *)
(***************************************************************************)
Goto(i, label) == pc' = [pc EXCEPT ![i] = label]

\* An exception still held when a new call starts belongs to an earlier one.
Aged(e) == IF e = "current" THEN "earlier" ELSE e

\* thread_pool::resize() of a pool without workers, or to the size it has.
ResizeLazily(n) ==
  /\ pc[0] = "user"
  /\ nworkers \in {0, n}
  /\ requested' = n
  /\ saved' = Aged(saved)
  /\ resized' = "none"
  /\ UNCHANGED <<nworkers, team, jobVars, curr, next, sem, running, threadVars,
                 calls, failed, outcome, leaked>>

\* thread_pool::resize() to more threads: go and create them.
ResizeUp(n) ==
  /\ pc[0] = "user"
  /\ 0 < nworkers /\ nworkers < n
  /\ requested' = n
  /\ saved' = Aged(saved)
  /\ Goto(0, "spawn")
  /\ UNCHANGED <<nworkers, team, jobVars, curr, next, sem, running, scheduler, task,
                 history>>

\* thread_pool::resize() to fewer threads: run a shutdown job in all of them.
ResizeDown(n) ==
  /\ pc[0] = "user"
  /\ n < nworkers
  /\ requested' = n
  /\ team' = n
  /\ job' = [kind |-> "shutdown", n |-> n]
  /\ saved' = Aged(saved)
  /\ Goto(0, "swap")
  /\ UNCHANGED <<nworkers, done, curr, next, sem, running, scheduler, task, history>>

\* parallel_region(): a width of 0, or above the pool's, means the pool's.
RegionWidth(n) == IF n = 0 \/ n > requested THEN requested ELSE n

ParallelRegion(n) ==
  /\ pc[0] = "user"
  /\ team' = RegionWidth(n)
  /\ job' = [kind |-> "once", n |-> RegionWidth(n)]
  /\ done' = [i \in Threads |-> FALSE]
  /\ saved' = Aged(saved)
  /\ Goto(0, IF nworkers = 0 THEN "spawn" ELSE "swap")
  /\ calls' = [i \in Threads |-> 0]
  /\ failed' = {}
  /\ UNCHANGED <<nworkers, requested, curr, next, sem, running, scheduler, task,
                 outcome, resized, leaked>>

\* _child_cleanup_after_fork(): the child goes on with a new pool, and none of
\* the parent's worker threads exists in it.
ForkChild ==
  /\ pc[0] = "user"
  /\ nworkers' = 0
  /\ curr' = 0
  /\ next' = [t \in 0 .. 1 |-> "null"]
  /\ sem' = [t \in 0 .. 1 |-> 0]
  /\ running' = 0
  /\ saved' = "none"
  /\ pc' = [i \in Threads |-> IF i = 0 THEN "user" ELSE "none"]
  /\ scheduler' = [i \in Threads |-> "null"]
  /\ task' = [i \in Workers |-> 0]
  /\ leaked' = 0
  /\ UNCHANGED <<requested, team, jobVars, calls, failed, outcome, resized>>
-----------------------------------------------------------------------------
(***************************************************************************)
(* instantiate_threads(), the growing half.                                *)
(***************************************************************************)
\* on_before_thread_added() and on_before_thread_removed().
ThreadAddedUncounted == UNCHANGED running
OnBeforeThreadAdded == running' = running + 1
OnBeforeThreadRemoved == running' = running - 1

\* The busy wait of join().
AllButOneStopped == running <= 1
AllStopped == running = 0

\* The first worker stands for the master and gets no thread ...
SpawnMaster ==
  /\ pc[0] = "spawn"
  /\ nworkers = 0
  /\ nworkers' = 1
  /\ UNCHANGED <<requested, team, jobVars, idleVars, threadVars, history>>

\* ... the others do.
Spawn ==
  /\ pc[0] = "spawn"
  /\ 0 < nworkers /\ nworkers < requested
  /\ nworkers' = nworkers + 1
  /\ OnBeforeThreadAdded
  /\ Goto(nworkers, "fetch")
  /\ scheduler' = [scheduler EXCEPT ![nworkers] = "idle"]
  /\ UNCHANGED <<requested, team, jobVars, curr, next, sem, saved, task, history>>

\* on_before_thread_added() has been called when std::thread() throws.
SpawnFails ==
  /\ SpawnMayFail
  /\ pc[0] = "spawn"
  /\ 0 < nworkers /\ nworkers < requested
  /\ OnBeforeThreadAdded
  /\ requested' = nworkers
  /\ leaked' = leaked + 1
  /\ UNCHANGED <<nworkers, team, jobVars, curr, next, sem, saved, threadVars,
                 calls, failed, outcome, resized>>

\* The stack frames of the API call are unwound: thread_team is destroyed.
ReturnToUser ==
  /\ Goto(0, "user")
  /\ team' = 0
  /\ job' = NoJob

\* idle_job::join() at the end of instantiate_threads(), called by resize() ...
JoinSpawnedByResize ==
  /\ pc[0] = "spawn"
  /\ job = NoJob
  /\ nworkers >= requested
  /\ AllStopped
  /\ next' = [next EXCEPT ![Prev] = "null"]
  /\ resized' = saved
  /\ ReturnToUser
  /\ UNCHANGED <<nworkers, requested, done, curr, sem, running, saved, scheduler, task,
                 calls, failed, outcome, leaked>>

\* ... or by the first execute_job() of the pool.
JoinSpawnedByRegion ==
  /\ pc[0] = "spawn"
  /\ job # NoJob
  /\ nworkers >= requested
  /\ AllStopped
  /\ next' = [next EXCEPT ![Prev] = "null"]
  /\ IF saved = "none"
       THEN Goto(0, "swap") /\ UNCHANGED <<team, job, outcome>>
       ELSE ReturnToUser /\ outcome' = saved
  /\ UNCHANGED <<nworkers, requested, done, curr, sem, running, saved, scheduler, task,
                 calls, failed, resized, leaked>>
-----------------------------------------------------------------------------
(***************************************************************************)
(* idle_job::awaken_and_run(), up to the call of run_master(), and join(). *)
(***************************************************************************)
\* The threads to be awakened: all but the master.
SleepersAndMaster == nworkers
Sleepers == nworkers - 1

\* The exception of an earlier job is forgotten.
ExceptionKept == UNCHANGED saved
ForgetException == saved' = "none"

SwapSleepTasks ==
  /\ pc[0] = "swap"
  /\ curr' = Prev
  /\ Goto(0, "count")
  /\ UNCHANGED <<poolVars, jobVars, next, sem, running, saved, scheduler, task, history>>

CountRunning ==
  /\ pc[0] = "count"
  /\ running' = running + Sleepers
  /\ ForgetException
  /\ Goto(0, "post")
  /\ UNCHANGED <<poolVars, jobVars, curr, next, sem, scheduler, task, history>>

PostJob ==
  /\ pc[0] = "post"
  /\ next' = [next EXCEPT ![Prev] = "job"]
  /\ Goto(0, "signal")
  /\ UNCHANGED <<poolVars, jobVars, curr, sem, running, saved, scheduler, task, history>>

SignalSleepers ==
  /\ pc[0] = "signal"
  /\ sem' = [sem EXCEPT ![Prev] = @ + Sleepers]
  /\ Goto(0, "fetch")
  /\ UNCHANGED <<poolVars, jobVars, curr, next, running, saved, scheduler, task, history>>

\* idle_job::join() of a region.
JoinRegion ==
  /\ pc[0] = "join"
  /\ job.kind = "once"
  /\ AllStopped
  /\ next' = [next EXCEPT ![Prev] = "null"]
  /\ outcome' = saved
  /\ ReturnToUser
  /\ UNCHANGED <<nworkers, requested, done, curr, sem, running, saved, scheduler, task,
                 calls, failed, resized, leaked>>

\* idle_job::join() of a shrinking resize().
JoinShutdown ==
  /\ pc[0] = "join"
  /\ job.kind = "shutdown"
  /\ AllStopped
  /\ next' = [next EXCEPT ![Prev] = "null"]
  /\ resized' = saved
  /\ IF saved = "none"
       THEN Goto(0, "reap") /\ UNCHANGED <<team, job>>
       ELSE ReturnToUser
  /\ UNCHANGED <<nworkers, requested, done, curr, sem, running, saved, scheduler, task,
                 calls, failed, outcome, leaked>>

\* instantiate_threads(), the shrinking half: ~thread_worker() joins a thread.
Reap ==
  /\ pc[0] = "reap"
  /\ \A i \in requested .. nworkers - 1 : pc[i] = "exited"
  /\ pc' = [i \in Threads |->
              IF i = 0 THEN "user" ELSE IF pc[i] = "exited" THEN "none" ELSE pc[i]]
  /\ nworkers' = requested
  /\ team' = 0
  /\ job' = NoJob
  /\ UNCHANGED <<requested, done, idleVars, scheduler, task, history>>
-----------------------------------------------------------------------------
(***************************************************************************)
(* thread_worker::run() and run_master(): fetch a task, execute it.        *)
(***************************************************************************)
InJob(i) == pc[i] = "fetch" /\ (i = 0 \/ scheduler[i] = "job")

\* once_scheduler::get_next_task() and thread_shutdown_scheduler::get_next_task():
\* is there a task for thread i?
OnceAlways(i) == i < job.n
OnceHasTask(i) == i < job.n /\ ~done[i]
ShutdownHasTask(i) == i >= job.n
NoMoreTasks(i) ==
  \/ job.kind = "once" /\ ~OnceHasTask(i)
  \/ job.kind = "shutdown" /\ ~ShutdownHasTask(i)

\* Without a task a worker turns to the idle job, and the master leaves
\* run_master() for join().
TurnToIdle(i) ==
  /\ InJob(i)
  /\ NoMoreTasks(i)
  /\ scheduler' = [scheduler EXCEPT ![i] = "idle"]
  /\ UNCHANGED <<poolVars, jobVars, idleVars, pc, task, history>>

LeaveRunMaster ==
  /\ InJob(0)
  /\ NoMoreTasks(0)
  /\ Goto(0, "join")
  /\ UNCHANGED <<poolVars, jobVars, idleVars, scheduler, task, history>>

\* The task of a once_scheduler: a call of `f`.
FetchCall(i) ==
  /\ InJob(i)
  /\ job.kind = "once"
  /\ OnceHasTask(i)
  /\ done' = [done EXCEPT ![i] = TRUE]
  /\ calls' = [calls EXCEPT ![i] = @ + 1]
  /\ Goto(i, "call")
  /\ UNCHANGED <<poolVars, job, idleVars, scheduler, task, failed, outcome, resized, leaked>>

\* simple_task::execute(): the user's function returns ...
Return(i) ==
  /\ pc[i] = "call"
  /\ Goto(i, "fetch")
  /\ UNCHANGED <<poolVars, jobVars, idleVars, scheduler, task, history>>

\* ... or throws, a nested thread_team's RuntimeError included.
Throw(i) ==
  /\ pc[i] = "call"
  /\ failed' = failed \cup {i}
  /\ Goto(i, "catch")
  /\ UNCHANGED <<poolVars, jobVars, idleVars, scheduler, task, calls, outcome, resized,
                 leaked>>

\* idle_job::catch_exception(), in the scope of its lock_guard.  The two jobs of
\* this module inherit the empty abort_execution().
Catch(i) ==
  /\ pc[i] = "catch"
  /\ saved' = IF saved = "none" THEN "current" ELSE saved
  /\ Goto(i, "fetch")
  /\ UNCHANGED <<poolVars, jobVars, curr, next, sem, running, scheduler, task, history>>

\* The task of a thread_shutdown_scheduler: the end of the thread, which stops
\* being counted as running here.
FetchShutdown(i) ==
  /\ InJob(i)
  /\ job.kind = "shutdown"
  /\ ShutdownHasTask(i)
  /\ OnBeforeThreadRemoved
  /\ Goto(i, "shutdown")
  /\ UNCHANGED <<poolVars, jobVars, curr, next, sem, saved, scheduler, task, history>>

\* shutdown_task::execute(), and the loop of run() ends.
ExitThread(i) ==
  /\ pc[i] = "shutdown"
  /\ scheduler' = [scheduler EXCEPT ![i] = "null"]
  /\ Goto(i, "exited")
  /\ UNCHANGED <<poolVars, jobVars, idleVars, task, history>>

\* idle_job::get_next_task()
FetchSleep(i) ==
  /\ pc[i] = "fetch"
  /\ scheduler[i] = "idle"
  /\ task' = [task EXCEPT ![i] = curr]
  /\ Goto(i, "drowsy")
  /\ UNCHANGED <<poolVars, jobVars, idleVars, scheduler, history>>

\* sleep_task::execute(): the thread says it no longer runs, ...
AnnounceSleep(i) ==
  /\ pc[i] = "drowsy"
  /\ running' = running - 1
  /\ Goto(i, "asleep")
  /\ UNCHANGED <<poolVars, jobVars, curr, next, sem, saved, scheduler, task, history>>

\* ... waits for its semaphore, ...
WaitSemaphore(i) ==
  /\ pc[i] = "asleep"
  /\ sem[task[i]] > 0
  /\ sem' = [sem EXCEPT ![task[i]] = @ - 1]
  /\ Goto(i, "awake")
  /\ UNCHANGED <<poolVars, jobVars, curr, next, running, saved, scheduler, task, history>>

\* ... and takes the job.  With a null pointer run() would end.
TakeJob(i) ==
  /\ pc[i] = "awake"
  /\ scheduler' = [scheduler EXCEPT ![i] = next[task[i]]]
  /\ Goto(i, IF next[task[i]] = "null" THEN "exited" ELSE "fetch")
  /\ UNCHANGED <<poolVars, jobVars, idleVars, task, history>>
-----------------------------------------------------------------------------
\* A step of the worker thread i.
WorkerStep(i) ==
  \/ FetchCall(i) \/ Return(i) \/ Throw(i) \/ Catch(i)
  \/ FetchShutdown(i) \/ ExitThread(i) \/ TurnToIdle(i)
  \/ FetchSleep(i) \/ AnnounceSleep(i) \/ WaitSemaphore(i) \/ TakeJob(i)

\* A step of the master inside an API call.
MasterStep ==
  \/ SpawnMaster \/ Spawn \/ SpawnFails \/ JoinSpawnedByResize \/ JoinSpawnedByRegion
  \/ SwapSleepTasks \/ CountRunning \/ PostJob \/ SignalSleepers
  \/ FetchCall(0) \/ Return(0) \/ Throw(0) \/ Catch(0) \/ LeaveRunMaster
  \/ JoinRegion \/ JoinShutdown \/ Reap

\* The user's program calls the pool.
ApiCall ==
  \/ \E n \in 1 .. MaxThreads : ResizeLazily(n) \/ ResizeUp(n) \/ ResizeDown(n)
  \/ \E n \in 0 .. MaxThreads : ParallelRegion(n)
  \/ ForkChild

Next == ApiCall \/ MasterStep \/ \E i \in Workers : WorkerStep(i)

Spec == Init /\ [][Next]_vars

\* The operating system runs every thread that can go on, and the user's function
\* ends; nothing obliges the user to call the pool.
Fairness == WF_vars(MasterStep) /\ \A i \in Workers : WF_vars(WorkerStep(i))

FairSpec == Spec /\ Fairness
-----------------------------------------------------------------------------
(***************************************************************************)
(* Safety.                                                                 *)
(***************************************************************************)
\* Where a worker can be between two steps, and where the master can be.
WorkerLabels == {"none", "fetch", "call", "catch", "shutdown", "exited", "drowsy",
                 "asleep", "awake"}
MasterLabels == {"user", "spawn", "swap", "count", "post", "signal", "fetch", "call",
                 "catch", "join", "reap"}

\* The type invariant.
TypeOK ==
  /\ nworkers \in 0 .. MaxThreads
  /\ requested \in 1 .. MaxThreads
  /\ team \in 0 .. MaxThreads
  /\ job \in [kind : {"none", "once", "shutdown"}, n : 0 .. MaxThreads]
  /\ done \in [Threads -> BOOLEAN]
  /\ curr \in 0 .. 1
  /\ next \in [0 .. 1 -> {"null", "job"}]
  /\ sem \in [0 .. 1 -> Nat]
  /\ running \in Nat
  /\ saved \in Exceptions
  /\ pc \in [Threads -> MasterLabels \cup WorkerLabels]
  /\ pc[0] \in MasterLabels
  /\ \A i \in Workers : pc[i] \in WorkerLabels
  /\ scheduler \in [Threads -> {"null", "idle", "job"}]
  /\ task \in [Workers -> 0 .. 1]
  /\ calls \in [Threads -> Nat]
  /\ failed \subseteq Threads
  /\ outcome \in Exceptions
  /\ resized \in Exceptions
  /\ leaked \in Nat

\* The workers that n_threads_running stands for: those outside of a sleep task,
\* and those still in the previous one, which the master has counted already so
\* that a late wake-up cannot be missed by join() (comment of awaken_and_run).
Awake ==
  {i \in Workers :
     \/ pc[i] \in {"fetch", "call", "catch", "drowsy", "awake"}
     \/ pc[i] = "asleep" /\ task[i] # curr /\ pc[0] # "count"}

\* n_threads_running counts the awake workers, and forever those that could not
\* be created: join() returns when all are asleep, neither earlier nor later.
RunningCount == running = Cardinality(Awake) + leaked

SleepersOn(t) == {i \in Workers : pc[i] = "asleep" /\ task[i] = t}

\* Nobody can pass the semaphore of the current sleep task, and that of the previous
\* one lets through exactly the workers that have not left it yet: no wake-up is
\* lost, and none is left over for the day the two tasks are swapped again.
TokenCount ==
  /\ sem[curr] = 0
  /\ sem[Prev] = IF pc[0] \in {"count", "post", "signal"}
                   THEN 0
                   ELSE Cardinality(SleepersOn(Prev))

\* What awaken_and_run() relies on (its comment and its first four assertions),
\* and what every API call leaves behind: all workers are inside the current
\* sleep task, no job is posted, and the pool has the size that was asked for.
AtRest ==
  pc[0] \in {"user", "swap"} =>
    /\ nworkers \in {0, requested} \/ job.kind = "shutdown"
    /\ \A i \in Workers :
         IF i < nworkers
           THEN pc[i] = "asleep" /\ scheduler[i] = "idle" /\ task[i] = curr
           ELSE pc[i] = "none"
    /\ \A t \in 0 .. 1 : next[t] = "null"
    /\ running = 0

\* sleep_task::execute() asserts that a worker that wakes up finds a job.  Without
\* one its loop in run() would end, and nobody would notice.
WakesToJob == \A i \in Workers : pc[i] = "awake" => next[task[i]] = "job"

\* The job is an object on the stack of the master's call: while a worker or a
\* sleep task points to it, the call has not returned.
JobOutlivesWorkers ==
  (\/ \E i \in Workers : scheduler[i] = "job"
   \/ \E t \in 0 .. 1 : next[t] = "job")
     => job # NoJob /\ pc[0] # "user"

\* A region throws exactly when a call of `f` threw in that region, and what it
\* throws was raised there, whatever the calls before it left in saved_exception.
RegionThrowsItsOwn ==
  [][job.kind = "once" /\ job' = NoJob =>
       outcome' = IF failed = {} THEN "none" ELSE "current"]_vars

\* resize() never throws an exception raised in an earlier region: idle_job saves
\* an exception "so that it can be re-thrown after the parallel region exits".
ResizeThrowsNothingOld == [][resized' # "earlier"]_vars
-----------------------------------------------------------------------------
(***************************************************************************)
(* The abstract specification, and liveness.                               *)
(***************************************************************************)
ForkJoin == INSTANCE ForkJoin WITH
  width <- IF job.kind = "once" THEN job.n ELSE 0,
  finished <- {i \in Threads : calls[i] = 1 /\ pc[i] \notin {"call", "catch"}},
  failed <- {i \in failed : pc[i] # "catch"},
  threw <- outcome # "none"

\* parallel_region() calls `f` exactly once in each thread of the region, returns
\* only after all the calls, and throws exactly when one of them threw.
ImplementsForkJoin == ForkJoin!Spec

\* Every call of the API comes back to the user.
EveryCallReturns == pc[0] # "user" ~> pc[0] = "user"

\* Every call of the API comes back to the user, a region after all of its calls; only a
\* thread that could not be created keeps it from it.
CallsReturn == pc[0] # "user" ~> pc[0] = "user" \/ leaked > 0
=============================================================================
