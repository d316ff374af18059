--------------------------- MODULE OrderedScheduler ---------------------------
(***************************************************************************)
(* parallel_for_ordered() of src/parallel/thpool3: the ordered_scheduler,  *)
(* its ordered_tasks, and the threads of the pool that execute it. (The    *)
(* file is the same in thpool1 and thpool2.)                               *)
(*                                                                         *)
(* The module starts where the last context has been prepared and the      *)
(* scheduler is handed to execute_job(); a thread that the pool wakes up   *)
(* late is one that does not move for a while.  It ends when every thread  *)
(* has been told that there is no more work; ThreadPool3 has the rest.     *)
(*                                                                         *)
(* A task is a context with three functions in it. Iteration j runs in the *)
(* context j % n_tasks.  get_next_task() and abort_execution() hold the    *)
(* scheduler's mutex, ordered_task::execute() does not.                    *)
(***************************************************************************)
EXTENDS Integers, FiniteSets

CONSTANTS
  MaxThreads,      \* the size of the pool
  MaxIterations,   \* the largest number of iterations
  Resizes,         \* the arguments the user gives to set_n_iterations()
  MayThrow,        \* may a function of the user throw?
  MayRaise         \* may the user raise the number of iterations after an abort?

ASSUME MaxThreadsAssumption == MaxThreads \in Nat \ {0}
ASSUME MaxIterationsAssumption == MaxIterations \in Nat \ {0}
ASSUME ResizesAssumption == Resizes \subseteq 0 .. MaxIterations
ASSUME FlagsAssumption == MayThrow \in BOOLEAN /\ MayRaise \in BOOLEAN

Threads == 0 .. MaxThreads - 1
Iterations == 0 .. MaxIterations - 1

\* ordered_task::state.  CANCELLED stands for 42 and for what advance_state() makes of it.
READY_TO_START == 0
STARTING == 1
READY_TO_ORDER == 2
ORDERING == 3
READY_TO_FINISH == 4
FINISHING == 5
CANCELLED == 42

\* ordering_thread_index, and the task of a thread that waits.
NO_THREAD == -1
INVALID_THREAD == -2
waittask == -1

VARIABLES
  \* ordered_scheduler
  n_tasks, n_threads, n_iterations,
  state,                  \* the state of every task
  n_iter,                 \* the iteration it was given
  assigned_tasks,
  next_to_start, next_to_order, next_to_finish,
  istart, iorder, ifinish,
  ordering_thread_index,
  \* idle_job
  saved,                  \* saved_exception: "none", "user" or "invalid"
  \* threads
  pc,
  arg,                    \* the argument of the user's function that runs
  thrown,                 \* the exception that is being handled
  \* what happened, read by no action
  stage,                  \* see OrderedLoop
  failed,
  limit

shape == <<n_tasks, n_threads>>
taskVars == <<state, n_iter, assigned_tasks>>
queues == <<next_to_start, next_to_order, next_to_finish, istart, iorder, ifinish>>
vars == <<shape, n_iterations, taskVars, queues, ordering_thread_index, saved, pc, arg,
          thrown, stage, failed, limit>>

Least(a, b) == IF a < b THEN a ELSE b

\* parallel_for_ordered(niters, nthreads): how many contexts and threads there are.
\* With at most one thread the master runs the loop itself.
Init ==
  \E niters \in 1 .. MaxIterations, nthreads \in 0 .. MaxThreads :
    /\ n_iterations = niters
    /\ n_tasks = IF nthreads = 0 THEN 1 ELSE Least(niters, nthreads * 2)
    /\ n_threads = Least(nthreads, n_tasks)
    /\ limit = niters
    /\ state = [t \in 0 .. n_tasks - 1 |-> READY_TO_START]
    /\ n_iter = [t \in 0 .. n_tasks - 1 |-> 0]
    /\ assigned_tasks = [i \in Threads |-> waittask]
    /\ next_to_start = 0 /\ next_to_order = 0 /\ next_to_finish = 0
    /\ istart = 0 /\ iorder = 0 /\ ifinish = 0
    /\ ordering_thread_index = NO_THREAD
    /\ saved = "none"
    /\ pc = [i \in Threads |->
               IF n_threads > 1 THEN "fetch" ELSE IF i = 0 THEN "loop" ELSE "idle"]
    /\ arg = [i \in Threads |-> 0]
    /\ thrown = [i \in Threads |-> "none"]
    /\ stage = [j \in Iterations |-> 0]
    /\ failed = {}
-----------------------------------------------------------------------------
(***************************************************************************)
(* ordered_scheduler::get_next_task(), one action per outcome.             *)
(***************************************************************************)
\* ordered_task::advance_state(); a wait_task's state is ignored.
AdvanceOnly(s) == IF s = CANCELLED THEN s ELSE s + 1
Advance(s) == IF s = CANCELLED THEN s ELSE (s + 1) % 6

\* The tasks once the one that thread i has executed is advanced ...
Advanced(i) ==
  IF assigned_tasks[i] = waittask THEN state
  ELSE [state EXCEPT ![assigned_tasks[i]] = Advance(@)]

\* ... and the thread that orders, once i is known to have finished its task.
Orderer(i) == IF ordering_thread_index = i THEN NO_THREAD ELSE ordering_thread_index

CanOrderConcurrently(i) ==
  /\ next_to_order < n_iterations
  /\ Advanced(i)[iorder] = READY_TO_ORDER
CanOrder(i) ==
  /\ Orderer(i) = NO_THREAD
  /\ next_to_order < n_iterations
  /\ Advanced(i)[iorder] = READY_TO_ORDER

CanFinish(i) ==
  /\ next_to_finish < n_iterations
  /\ Advanced(i)[ifinish] = READY_TO_FINISH

CanStartAnytime(i) == next_to_start < n_iterations
CanStart(i) ==
  /\ next_to_start < n_iterations
  /\ Advanced(i)[istart] = READY_TO_START

\* Thread i, in get_next_task(), and its index is below n_threads.
Fetching(i) == pc[i] = "fetch" /\ i < n_threads

\* ordered_task::start_iteration()
Assign(i, t, j) ==
  /\ state' = [Advanced(i) EXCEPT ![t] = @ + 1]
  /\ n_iter' = [n_iter EXCEPT ![t] = j]
  /\ assigned_tasks' = [assigned_tasks EXCEPT ![i] = t]
  /\ pc' = [pc EXCEPT ![i] = "execute"]
  /\ UNCHANGED <<shape, n_iterations, saved, arg, thrown, stage, failed, limit>>

FetchOrder(i) ==
  /\ Fetching(i)
  /\ CanOrder(i)
  /\ ordering_thread_index' = i
  /\ Assign(i, iorder, next_to_order)
  /\ next_to_order' = next_to_order + 1
  /\ iorder' = (next_to_order + 1) % n_tasks
  /\ UNCHANGED <<next_to_start, next_to_finish, istart, ifinish>>

FetchFinish(i) ==
  /\ Fetching(i)
  /\ ~CanOrder(i) /\ CanFinish(i)
  /\ ordering_thread_index' = Orderer(i)
  /\ Assign(i, ifinish, next_to_finish)
  /\ next_to_finish' = next_to_finish + 1
  /\ ifinish' = (next_to_finish + 1) % n_tasks
  /\ UNCHANGED <<next_to_start, next_to_order, istart, iorder>>

FetchStart(i) ==
  /\ Fetching(i)
  /\ ~CanOrder(i) /\ ~CanFinish(i) /\ CanStart(i)
  /\ ordering_thread_index' = Orderer(i)
  /\ Assign(i, istart, next_to_start)
  /\ next_to_start' = next_to_start + 1
  /\ istart' = (next_to_start + 1) % n_tasks
  /\ UNCHANGED <<next_to_order, next_to_finish, iorder, ifinish>>

NothingToDo(i) == ~CanOrder(i) /\ ~CanFinish(i) /\ ~CanStart(i)

\* wait_task::execute() only yields: the thread is back at once.
FetchWait(i) ==
  /\ Fetching(i)
  /\ NothingToDo(i)
  /\ next_to_finish < n_iterations
  /\ state' = Advanced(i)
  /\ ordering_thread_index' = Orderer(i)
  /\ assigned_tasks' = [assigned_tasks EXCEPT ![i] = waittask]
  /\ UNCHANGED <<shape, n_iterations, n_iter, queues, saved, pc, arg, thrown, stage, failed,
                 limit>>

\* A null pointer: the thread leaves the job.
FetchNothing(i) ==
  /\ Fetching(i)
  /\ NothingToDo(i)
  /\ next_to_finish >= n_iterations
  /\ state' = Advanced(i)
  /\ ordering_thread_index' = Orderer(i)
  /\ pc' = [pc EXCEPT ![i] = "idle"]
  /\ UNCHANGED <<shape, n_iterations, n_iter, assigned_tasks, queues, saved, arg, thrown,
                 stage, failed, limit>>

\* A thread of the pool that the loop has no use for.
TurnAway(i) ==
  /\ pc[i] = "fetch" /\ i >= n_threads
  /\ pc' = [pc EXCEPT ![i] = "idle"]
  /\ UNCHANGED <<shape, n_iterations, taskVars, queues, ordering_thread_index, saved, arg,
                 thrown, stage, failed, limit>>
-----------------------------------------------------------------------------
(***************************************************************************)
(* ordered_task::execute(), the user's functions, and exceptions.          *)
(***************************************************************************)
\* The user's function for the task's state is called with the task's iteration.
Execute(i) ==
  /\ pc[i] = "execute"
  /\ state[assigned_tasks[i]] \in {STARTING, ORDERING, FINISHING}
  /\ LET j == n_iter[assigned_tasks[i]]
     IN  /\ arg' = [arg EXCEPT ![i] = j]
         /\ stage' = [stage EXCEPT ![j] = state[assigned_tasks[i]]]
  /\ pc' = [pc EXCEPT ![i] = "call"]
  /\ UNCHANGED <<shape, n_iterations, taskVars, queues, ordering_thread_index, saved,
                 thrown, failed, limit>>

\* Somebody has cancelled the task since it was fetched: "Invalid state".
ExecuteCancelled(i) ==
  /\ pc[i] = "execute"
  /\ state[assigned_tasks[i]] \notin {STARTING, ORDERING, FINISHING}
  /\ thrown' = [thrown EXCEPT ![i] = "invalid"]
  /\ pc' = [pc EXCEPT ![i] = "catch"]
  /\ UNCHANGED <<shape, n_iterations, taskVars, queues, ordering_thread_index, saved, arg,
                 stage, failed, limit>>

Return(i) ==
  /\ pc[i] = "call"
  /\ stage' = [stage EXCEPT ![arg[i]] = @ + 1]
  /\ pc' = [pc EXCEPT ![i] = "fetch"]
  /\ UNCHANGED <<shape, n_iterations, taskVars, queues, ordering_thread_index, saved, arg,
                 thrown, failed, limit>>

Throw(i) ==
  /\ MayThrow
  /\ pc[i] = "call"
  /\ failed' = failed \cup {arg[i]}
  /\ thrown' = [thrown EXCEPT ![i] = "user"]
  /\ pc' = [pc EXCEPT ![i] = "catch"]
  /\ UNCHANGED <<shape, n_iterations, taskVars, queues, ordering_thread_index, saved, arg,
                 stage, limit>>

\* ordered::set_n_iterations(), called by one of the user's functions.
SetIterations(i, n) ==
  /\ pc[i] \in {"call", "loopcall"}
  /\ MayRaise \/ n < n_iterations \/ ordering_thread_index # INVALID_THREAD
  /\ n_iterations' = n
  /\ limit' = IF n > limit THEN n ELSE limit
  /\ UNCHANGED <<shape, taskVars, queues, ordering_thread_index, saved, pc, arg, thrown,
                 stage, failed>>

\* ordered_scheduler::abort_execution()
AbortAllButFinishes ==
  /\ next_to_start' = n_iterations
  /\ ordering_thread_index' = INVALID_THREAD
  /\ state' = [state EXCEPT ![iorder] = CANCELLED]
  /\ UNCHANGED next_to_finish
AbortAllButStarts ==
  /\ next_to_finish' = n_iterations
  /\ ordering_thread_index' = INVALID_THREAD
  /\ state' = [state EXCEPT ![iorder] = CANCELLED]
  /\ UNCHANGED next_to_start
AbortExecution ==
  /\ next_to_start' = n_iterations
  /\ next_to_finish' = n_iterations
  /\ ordering_thread_index' = INVALID_THREAD
  /\ state' = [state EXCEPT ![iorder] = CANCELLED]

\* idle_job::catch_exception() saves the first exception and aborts the job ...
SaveLast(i) == saved' = thrown[i]
SaveFirst(i) == saved' = IF saved = "none" THEN thrown[i] ELSE saved

Catch(i) ==
  /\ pc[i] = "catch"
  /\ SaveFirst(i)
  /\ AbortExecution
  /\ pc' = [pc EXCEPT ![i] = "abort"]
  /\ UNCHANGED <<shape, n_iterations, n_iter, assigned_tasks, next_to_order, istart, iorder,
                 ifinish, arg, thrown, stage, failed, limit>>

\* ... and the loop of thread_worker::run() or run_master() aborts it once more.
AbortAgain(i) ==
  /\ pc[i] = "abort"
  /\ AbortExecution
  /\ thrown' = [thrown EXCEPT ![i] = "none"]
  /\ pc' = [pc EXCEPT ![i] = "fetch"]
  /\ UNCHANGED <<shape, n_iterations, n_iter, assigned_tasks, next_to_order, istart, iorder,
                 ifinish, saved, arg, stage, failed, limit>>
-----------------------------------------------------------------------------
(***************************************************************************)
(* ordered::parallel() with at most one thread: a loop in the master, whose *)
(* exceptions go straight to the caller.                                   *)
(***************************************************************************)
LoopFrame == UNCHANGED <<shape, n_iterations, taskVars, queues, ordering_thread_index, limit>>

LoopCall ==
  /\ pc[0] = "loop"
  /\ arg[0] < n_iterations
  /\ stage' = [stage EXCEPT ![arg[0]] = @ + 1]
  /\ pc' = [pc EXCEPT ![0] = "loopcall"]
  /\ LoopFrame /\ UNCHANGED <<saved, arg, thrown, failed>>

LoopReturn ==
  /\ pc[0] = "loopcall"
  /\ stage' = [stage EXCEPT ![arg[0]] = @ + 1]
  /\ arg' = [arg EXCEPT ![0] = IF stage[arg[0]] = FINISHING THEN @ + 1 ELSE @]
  /\ pc' = [pc EXCEPT ![0] = "loop"]
  /\ LoopFrame /\ UNCHANGED <<saved, thrown, failed>>

LoopThrow ==
  /\ MayThrow
  /\ pc[0] = "loopcall"
  /\ failed' = failed \cup {arg[0]}
  /\ saved' = "user"
  /\ pc' = [pc EXCEPT ![0] = "unwind"]
  /\ LoopFrame /\ UNCHANGED <<arg, thrown, stage>>

LoopEnd ==
  /\ pc[0] = "unwind" \/ (pc[0] = "loop" /\ arg[0] >= n_iterations)
  /\ pc' = [pc EXCEPT ![0] = "idle"]
  /\ LoopFrame /\ UNCHANGED <<saved, arg, thrown, stage, failed>>
-----------------------------------------------------------------------------
Step(i) ==
  \/ FetchOrder(i) \/ FetchFinish(i) \/ FetchStart(i) \/ FetchWait(i) \/ FetchNothing(i)
  \/ TurnAway(i)
  \/ Execute(i) \/ ExecuteCancelled(i) \/ Return(i) \/ Throw(i) \/ Catch(i) \/ AbortAgain(i)

Loop == LoopCall \/ LoopReturn \/ LoopThrow \/ LoopEnd

Next ==
  \/ \E i \in Threads : Step(i)
  \/ Loop
  \/ \E i \in Threads, n \in Resizes : SetIterations(i, n)

Spec == Init /\ [][Next]_vars
-----------------------------------------------------------------------------
(***************************************************************************)
(* Properties.                                                             *)
(***************************************************************************)
\* The type invariant.
TypeOK ==
  /\ n_threads \in 0 .. MaxThreads
  /\ n_tasks \in 1 .. MaxIterations /\ n_threads <= n_tasks
  /\ n_iterations \in 0 .. MaxIterations /\ limit \in n_iterations .. MaxIterations
  /\ state \in [0 .. n_tasks - 1 -> (READY_TO_START .. FINISHING) \cup {CANCELLED}]
  /\ n_iter \in [0 .. n_tasks - 1 -> Iterations]
  /\ assigned_tasks \in [Threads -> {waittask} \cup (0 .. n_tasks - 1)]
  /\ next_to_start \in 0 .. MaxIterations
  /\ next_to_order \in 0 .. MaxIterations
  /\ next_to_finish \in 0 .. MaxIterations
  /\ istart \in 0 .. n_tasks - 1 /\ iorder \in 0 .. n_tasks - 1 /\ ifinish \in 0 .. n_tasks - 1
  /\ ordering_thread_index \in {NO_THREAD, INVALID_THREAD} \cup Threads
  /\ saved \in {"none", "user", "invalid"}
  /\ pc \in [Threads -> {"fetch", "execute", "call", "catch", "abort", "idle",
                         "loop", "loopcall", "unwind"}]
  /\ arg \in [Threads -> 0 .. MaxIterations]
  /\ thrown \in [Threads -> {"none", "user", "invalid"}]
  /\ stage \in [Iterations -> 0 .. 6]
  /\ failed \subseteq Iterations

\* A context is not made for two threads at a time: while a thread executes one of its
\* functions, or is about to, nobody else does, whatever the number of contexts.
ContextIsPrivate ==
  \A i, k \in Threads :
    i # k /\ pc[i] \in {"execute", "call"} /\ pc[k] \in {"execute", "call"}
      => assigned_tasks[i] # assigned_tasks[k]

\* cancel() writes the state of a task that another thread may have fetched and not
\* looked at yet.  The "Invalid state" this raises in execute() never gets to the
\* caller in place of the exception that caused the cancellation.
UserExceptionIsThrown == saved # "invalid"

\* abort_execution() cancels all pending tasks: a thread that fetches a task after it
\* gets none (comment of thread_scheduler::abort_execution).
AbortCancels ==
  [][ordering_thread_index = INVALID_THREAD =>
       \A i \in Threads : pc[i] = "fetch" => pc'[i] \in {"fetch", "idle"}]_vars

OrderedLoop == INSTANCE OrderedLoop WITH
  n <- n_iterations,
  result <- IF \E i \in Threads : pc[i] # "idle" THEN "none"
            ELSE IF saved = "none" THEN "done" ELSE "threw"

\* The loop runs the three functions of each iteration once and in order, `ordered` one
\* iteration after the other, and ends when all is done, or when a function threw.
ImplementsOrderedLoop == OrderedLoop!Spec
=============================================================================
