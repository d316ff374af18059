----------------------------- MODULE ThreadPool1 -----------------------------
(***************************************************************************)
(* The thread pool of src/parallel/thpool1: thread_pool, thread_worker,    *)
(* the worker_controller that puts the workers to sleep on a condition     *)
(* variable, and the two jobs that the pool itself runs, once_scheduler    *)
(* and thread_shutdown_scheduler.                                          *)
(*                                                                         *)
(* The master is not a worker here: `master` is where it is in its call,   *)
(* "user" between two calls.  Worker i runs thread_worker::run().  A       *)
(* critical section under the mutex of a sleep task is one step, except    *)
(* for the one in awaken_and_run(), which get_next_task() can see from     *)
(* outside: it reads `index` without the mutex.                            *)
(***************************************************************************)
EXTENDS Integers, FiniteSets

CONSTANTS
  MaxThreads,       \* the largest pool the user asks for
  SpawnMayFail,     \* may std::thread(...) throw?
  GrowAfterShrink   \* may a pool grow right after it has shrunk?

ASSUME MaxThreadsAssumption == MaxThreads \in Nat \ {0}
ASSUME FlagsAssumption == SpawnMayFail \in BOOLEAN /\ GrowAfterShrink \in BOOLEAN

Workers == 0 .. MaxThreads - 1
SleepTasks == 0 .. 1

VARIABLES
  \* thread_pool
  nworkers,    \* workers.size()
  requested,   \* num_threads_requested
  \* the job on the master's stack: its class and its number of threads
  job,
  done,        \* once_scheduler::done
  \* worker_controller
  index,
  next,        \* sleep_task::next_scheduler
  sleeping,    \* sleep_task::n_threads_sleeping
  saved,       \* saved_exception: "none", or whose exception it holds
  \* threads
  master,
  pc,
  scheduler,   \* thread_worker::scheduler
  task,        \* the sleep task a worker fetched last
  \* what happened, read by no action
  calls,       \* how often worker i called `f` in this region
  failed,      \* the workers whose call of `f` threw
  outcome      \* the exception that left the last region

poolVars == <<nworkers, requested>>
jobVars == <<job, done>>
controller == <<index, next, sleeping, saved>>
threadVars == <<pc, scheduler, task>>
history == <<calls, failed, outcome>>
vars == <<poolVars, jobVars, controller, master, threadVars, history>>

Prev == 1 - index

NoJob == [kind |-> "none", n |-> 0]

Init ==
  /\ nworkers = 0
  /\ requested \in 0 .. MaxThreads
  /\ job = NoJob
  /\ done = [i \in Workers |-> FALSE]
  /\ index = 0
  /\ next = [t \in SleepTasks |-> "null"]
  /\ sleeping = [t \in SleepTasks |-> 0]
  /\ saved = "none"
  /\ master = "user"
  /\ pc = [i \in Workers |-> "none"]
  /\ scheduler = [i \in Workers |-> "null"]
  /\ task = [i \in Workers |-> 0]
  /\ calls = [i \in Workers |-> 0]
  /\ failed = {}
  /\ outcome = "none"
-----------------------------------------------------------------------------
(***************************************************************************)
(* The API calls.                                                          *)
(***************************************************************************)
Goto(i, label) == pc' = [pc EXCEPT ![i] = label]

\* An exception still held when a new call starts belongs to an earlier one.
Aged(e) == IF e = "current" THEN "earlier" ELSE e

\* The workers that exited in a shrinking resize() are still counted as sleeping, until
\* the next job.
CountsExited == sleeping[index] > nworkers
MayGrow == GrowAfterShrink \/ ~CountsExited

\* thread_pool::resize()
ResizeLazily(n) ==
  /\ master = "user"
  /\ nworkers \in {0, n}
  /\ requested' = n
  /\ UNCHANGED <<nworkers, jobVars, controller, master, threadVars, history>>

ResizeUp(n) ==
  /\ master = "user"
  /\ 0 < nworkers /\ nworkers < n
  /\ MayGrow
  /\ requested' = n
  /\ master' = "spawn"
  /\ UNCHANGED <<nworkers, jobVars, controller, threadVars, history>>

ResizeDown(n) ==
  /\ master = "user"
  /\ n < nworkers
  /\ requested' = n
  /\ job' = [kind |-> "shutdown", n |-> n]
  /\ saved' = Aged(saved)
  /\ master' = "lock"
  /\ UNCHANGED <<nworkers, done, index, next, sleeping, threadVars, history>>

\* A new job for the workers; the first one creates them.
ExecuteJob(kind, n) ==
  /\ master = "user"
  /\ nworkers > 0 \/ requested = 0 \/ MayGrow
  /\ job' = [kind |-> kind, n |-> n]
  /\ done' = [i \in Workers |-> FALSE]
  /\ saved' = Aged(saved)
  /\ master' = IF nworkers = 0 /\ requested > 0 THEN "spawn" ELSE "lock"
  /\ UNCHANGED <<poolVars, index, next, sleeping, threadVars, history>>

\* parallel_region(): a width of 0, or above the pool's, means the pool's.
RegionWidth(n) == IF n = 0 \/ n > requested THEN requested ELSE n

ParallelRegion(n) == ExecuteJob("once", RegionWidth(n))

\* _child_cleanup_after_fork()
ForkChild ==
  /\ master = "user"
  /\ nworkers' = 0
  /\ index' = 0
  /\ next' = [t \in SleepTasks |-> "null"]
  /\ sleeping' = [t \in SleepTasks |-> 0]
  /\ saved' = "none"
  /\ pc' = [i \in Workers |-> "none"]
  /\ scheduler' = [i \in Workers |-> "null"]
  /\ task' = [i \in Workers |-> 0]
  /\ UNCHANGED <<requested, jobVars, master, history>>
-----------------------------------------------------------------------------
(***************************************************************************)
(* instantiate_threads()                                                   *)
(***************************************************************************)
Spawn ==
  /\ master = "spawn"
  /\ nworkers < requested
  /\ nworkers' = nworkers + 1
  /\ Goto(nworkers, "fetch")
  /\ scheduler' = [scheduler EXCEPT ![nworkers] = "controller"]
  /\ UNCHANGED <<requested, jobVars, controller, master, task, history>>

\* std::thread() throws: the pool goes on with the threads it has.
SpawnFails ==
  /\ SpawnMayFail
  /\ master = "spawn"
  /\ nworkers < requested
  /\ requested' = nworkers
  /\ UNCHANGED <<nworkers, jobVars, controller, master, threadVars, history>>

\* The busy wait of join(n), which reads the count under the mutex of the task.
AllButOneAsleep(n) == sleeping[index] >= n - 1
AllAsleep(n) == sleeping[index] >= n

ReturnToUser ==
  /\ master' = "user"
  /\ job' = NoJob

\* join(n) of the new workers: before the first job, or for resize() alone.
JoinSpawned ==
  /\ master = "spawn"
  /\ nworkers = requested
  /\ AllAsleep(nworkers)
  /\ next' = [next EXCEPT ![Prev] = "null"]
  /\ IF job # NoJob /\ saved = "none"
       THEN master' = "lock" /\ UNCHANGED job
       ELSE ReturnToUser
  /\ UNCHANGED <<poolVars, done, index, sleeping, saved, threadVars, history>>
-----------------------------------------------------------------------------
(***************************************************************************)
(* worker_controller::awaken_and_run() and join()                          *)
(***************************************************************************)
\* A region runs in the threads that could be created: not in all that were asked for, and
\* in none after resize(0).
Width ==
  IF job.kind # "once" THEN 0 ELSE IF job.n < nworkers THEN job.n ELSE nworkers

\* The mutex of sleep task t is held by awaken_and_run(); next_scheduler is set first.
Held(t) == master \in {"reset", "switch"} /\ t = index

PostJob ==
  /\ master = "lock"
  /\ next' = [next EXCEPT ![index] = "job"]
  /\ master' = "reset"
  /\ IF Width > 0 THEN calls' = [i \in Workers |-> 0] /\ failed' = {}
                  ELSE UNCHANGED <<calls, failed>>
  /\ UNCHANGED <<poolVars, jobVars, index, sleeping, saved, threadVars, outcome>>

\* The other sleep task, whose last count is that of the job before.
ResetTask ==
  /\ master = "reset"
  /\ next' = [next EXCEPT ![Prev] = "null"]
  /\ sleeping' = [sleeping EXCEPT ![Prev] = 0]
  /\ master' = "switch"
  /\ UNCHANGED <<poolVars, jobVars, index, saved, threadVars, history>>

ExceptionKept == UNCHANGED saved
ForgetException == saved' = "none"

SwitchTask ==
  /\ master = "switch"
  /\ index' = Prev
  /\ ForgetException
  /\ master' = "notify"
  /\ UNCHANGED <<poolVars, jobVars, next, sleeping, threadVars, history>>

NotifyAll ==
  /\ master = "notify"
  /\ pc' = [i \in Workers |->
              IF pc[i] = "asleep" /\ task[i] = Prev THEN "woken" ELSE pc[i]]
  /\ master' = "join"
  /\ UNCHANGED <<poolVars, jobVars, controller, scheduler, task, history>>

JoinJob ==
  /\ master = "join"
  /\ job.kind # "shutdown"
  /\ AllAsleep(nworkers)
  /\ next' = [next EXCEPT ![Prev] = "null"]
  /\ outcome' = IF Width = 0 THEN outcome ELSE saved
  /\ ReturnToUser
  /\ UNCHANGED <<poolVars, done, index, sleeping, saved, threadVars, calls, failed>>

JoinShutdown ==
  /\ master = "join"
  /\ job.kind = "shutdown"
  /\ AllAsleep(nworkers)
  /\ next' = [next EXCEPT ![Prev] = "null"]
  /\ IF saved = "none" THEN master' = "reap" /\ UNCHANGED job ELSE ReturnToUser
  /\ UNCHANGED <<poolVars, done, index, sleeping, saved, threadVars, history>>

\* ~thread_worker() joins the threads that exit.
Reap ==
  /\ master = "reap"
  /\ \A i \in requested .. nworkers - 1 : pc[i] = "exited"
  /\ pc' = [i \in Workers |-> IF pc[i] = "exited" THEN "none" ELSE pc[i]]
  /\ nworkers' = requested
  /\ ReturnToUser
  /\ UNCHANGED <<requested, done, controller, scheduler, task, history>>
-----------------------------------------------------------------------------
(***************************************************************************)
(* thread_worker::run()                                                    *)
(***************************************************************************)
InJob(i) == pc[i] = "fetch" /\ scheduler[i] = "job"

OnceAlways(i) == i < job.n
OnceHasTask(i) == i < job.n /\ ~done[i]
ShutdownSparesOne(i) == i > job.n
ShutdownHasTask(i) == i >= job.n
NoMoreTasks(i) ==
  \/ job.kind = "once" /\ ~OnceHasTask(i)
  \/ job.kind = "shutdown" /\ ~ShutdownHasTask(i)

\* A null task: back to the controller.
SwitchToController(i) ==
  /\ InJob(i)
  /\ scheduler' = [scheduler EXCEPT ![i] = "controller"]
  /\ UNCHANGED <<poolVars, jobVars, controller, master, pc, task, history>>

TurnToSleep(i) == NoMoreTasks(i) /\ SwitchToController(i)

FetchCall(i) ==
  /\ InJob(i)
  /\ job.kind = "once"
  /\ OnceHasTask(i)
  /\ done' = [done EXCEPT ![i] = TRUE]
  /\ calls' = [calls EXCEPT ![i] = @ + 1]
  /\ Goto(i, "call")
  /\ UNCHANGED <<poolVars, job, controller, master, scheduler, task, failed, outcome>>

\* The user's function returns ...
EndCall(i, label) ==
  /\ pc[i] = "call"
  /\ Goto(i, label)
  /\ UNCHANGED <<poolVars, jobVars, controller, master, scheduler, task, calls, outcome>>

Return(i) == EndCall(i, "fetch") /\ UNCHANGED failed

\* ... or throws.
Throw(i) == EndCall(i, "catch") /\ failed' = failed \cup {i}

\* worker_controller::catch_exception(), ...
Catch(i) ==
  /\ pc[i] = "catch"
  /\ saved' = IF saved = "none" THEN "current" ELSE saved
  /\ Goto(i, "abort")
  /\ UNCHANGED <<poolVars, jobVars, index, next, sleeping, master, scheduler, task, history>>

\* ... and the job's abort_execution(), which is empty in the jobs of this module.
Abort(i) ==
  /\ pc[i] = "abort"
  /\ Goto(i, "fetch")
  /\ UNCHANGED <<poolVars, jobVars, controller, master, scheduler, task, history>>

\* thread_shutdown_scheduler::get_next_task() calls pretend_thread_went_to_sleep().
FetchShutdown(i) ==
  /\ InJob(i)
  /\ job.kind = "shutdown"
  /\ ShutdownHasTask(i)
  /\ sleeping' = [sleeping EXCEPT ![index] = @ + 1]
  /\ Goto(i, "shutdown")
  /\ UNCHANGED <<poolVars, jobVars, index, next, saved, master, scheduler, task, history>>

ExitThread(i) ==
  /\ pc[i] = "shutdown"
  /\ scheduler' = [scheduler EXCEPT ![i] = "null"]
  /\ Goto(i, "exited")
  /\ UNCHANGED <<poolVars, jobVars, controller, master, task, history>>

\* worker_controller::get_next_task()
FetchSleep(i) ==
  /\ pc[i] = "fetch"
  /\ scheduler[i] = "controller"
  /\ task' = [task EXCEPT ![i] = index]
  /\ Goto(i, "drowsy")
  /\ UNCHANGED <<poolVars, jobVars, controller, master, scheduler, history>>

\* The loop of sleep_task::execute(), under the mutex: n threads sleep, this one counted.
WaitOrTake(i, n) ==
  /\ ~Held(task[i])
  /\ IF next[task[i]] = "null"
       THEN /\ Goto(i, "asleep")
            /\ sleeping' = [sleeping EXCEPT ![task[i]] = n]
            /\ UNCHANGED scheduler
       ELSE /\ Goto(i, "fetch")
            /\ sleeping' = [sleeping EXCEPT ![task[i]] = n - 1]
            /\ scheduler' = [scheduler EXCEPT ![i] = "job"]
  /\ UNCHANGED <<poolVars, jobVars, index, next, saved, master, task, history>>

FallAsleep(i) == pc[i] = "drowsy" /\ WaitOrTake(i, sleeping[task[i]] + 1)

WakeUpCounted(i) == pc[i] = "woken" /\ WaitOrTake(i, sleeping[task[i]] + 1)
WakeUp(i) == pc[i] = "woken" /\ WaitOrTake(i, sleeping[task[i]])

\* The wait on the condition variable may end for no reason.
SpuriousWake(i) ==
  /\ pc[i] = "asleep"
  /\ Goto(i, "woken")
  /\ UNCHANGED <<poolVars, jobVars, controller, master, scheduler, task, history>>
-----------------------------------------------------------------------------
SleepStep(i) ==
  FetchShutdown(i) \/ ExitThread(i) \/ FetchSleep(i) \/ FallAsleep(i) \/ WakeUp(i)

WorkerStep(i) ==
  \/ SleepStep(i) \/ TurnToSleep(i)
  \/ FetchCall(i) \/ Return(i) \/ Throw(i) \/ Catch(i) \/ Abort(i)

MasterStep ==
  \/ Spawn \/ JoinSpawned
  \/ PostJob \/ ResetTask \/ SwitchTask \/ NotifyAll
  \/ JoinJob \/ JoinShutdown \/ Reap

ApiCall ==
  \/ \E n \in 0 .. MaxThreads : \/ ResizeLazily(n) \/ ResizeUp(n) \/ ResizeDown(n)
                                \/ ParallelRegion(n)
  \/ ForkChild

\* What the system may do, and need not.
System == SpawnFails \/ \E i \in Workers : SpuriousWake(i)

Next == ApiCall \/ MasterStep \/ System \/ \E i \in Workers : WorkerStep(i)

Spec == Init /\ [][Next]_vars
-----------------------------------------------------------------------------
(***************************************************************************)
(* Properties.                                                             *)
(***************************************************************************)
\* The type invariant.
TypeOK ==
  /\ nworkers \in 0 .. MaxThreads /\ requested \in 0 .. MaxThreads
  /\ job \in [kind : {"none", "once", "shutdown", "dynamic", "ordered"}, n : 0 .. MaxThreads]
  /\ done \in [Workers -> BOOLEAN]
  /\ index \in SleepTasks
  /\ next \in [SleepTasks -> {"null", "job"}]
  /\ sleeping \in [SleepTasks -> 0 .. MaxThreads]
  /\ saved \in {"none", "current", "earlier"}
  /\ master \in {"user", "spawn", "lock", "reset", "switch", "notify", "join", "reap"}
  /\ pc \in [Workers -> {"none", "fetch", "call", "catch", "abort", "shutdown", "exited",
                         "drowsy", "asleep", "woken"}]
  /\ scheduler \in [Workers -> {"null", "controller", "job"}]
  /\ task \in [Workers -> SleepTasks]
  /\ calls \in [Workers -> Nat]
  /\ failed \subseteq Workers
  /\ outcome \in {"none", "current", "earlier"}

\* "Precondition: that all threads in the pool are currently sleeping" (thread_worker.h, of
\* awaken_and_run), and what every call leaves behind: all workers wait on the current sleep
\* task, none is left of those that were shut down, and nobody holds a job.
AtRest ==
  master \in {"user", "lock"} =>
    /\ \A i \in Workers :
         IF i < nworkers
           THEN pc[i] \in {"asleep", "woken"} /\ scheduler[i] = "controller"
                /\ task[i] = index
           ELSE pc[i] = "none"
    /\ \A t \in SleepTasks : next[t] = "null"

ForkJoin == INSTANCE ForkJoin WITH
  width <- IF master \in {"spawn", "lock"} THEN 0 ELSE Width,
  finished <- {i \in Workers : calls[i] = 1 /\ pc[i] \notin {"call", "catch"}},
  failed <- {i \in failed : pc[i] # "catch"},
  threw <- outcome # "none"

\* parallel_region() calls `f` exactly once in each thread of the region, returns only
\* after all the calls, and throws exactly when one of them threw.
ImplementsForkJoin == ForkJoin!Spec

\* Every call of the API comes back: no wake-up is missed, whoever falls asleep late and
\* whoever wakes up for no reason.
EveryCallReturns == master # "user" ~> master = "user"
=============================================================================
