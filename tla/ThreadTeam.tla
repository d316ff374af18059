------------------------------ MODULE ThreadTeam ------------------------------
(***************************************************************************)
(* What the threads of one thread_team share in src/parallel/thpool3: the  *)
(* barrier_counter and the nested_scheduler of the team, and the           *)
(* dynamic_scheduler of a parallel_for_dynamic().  (The files are the same *)
(* in thpool1 and thpool2.)                                                *)
(*                                                                         *)
(* A team comes to life in one of three ways: through parallel_region(),   *)
(* whose function, the same for all threads, is a sequence of barriers and *)
(* of parallel loops; through parallel_for_dynamic(), where a              *)
(* dynamic_scheduler is the job itself; or through parallel_for_static(),  *)
(* whose region has the one loop in it.                                    *)
(*                                                                         *)
(* Threads start when they like: ThreadPool3 says how they wake up and     *)
(* what becomes of those that the team has no use for.                     *)
(***************************************************************************)
EXTENDS Integers, Sequences, FiniteSets

CONSTANTS
  PoolSize,     \* thpool->size()
  DynamicRows,  \* the lengths of the dynamic loops
  StaticRows,   \* the lengths of the static loops
  Chunks,       \* the values of min_chunk_size
  MaxLength,    \* how many barriers and loops a region has at most
  MaxDynamic    \* and how many nested parallel_for_dynamic()

\* What the code may count on.
TeamAssumption ==
  /\ PoolSize \in Nat \ {0}
  /\ DynamicRows \subseteq Nat /\ StaticRows \subseteq Nat /\ Chunks \subseteq Nat \ {0}
  /\ MaxLength \in Nat /\ MaxDynamic \in Nat

AllThreads == 0 .. PoolSize - 1

Barrier == [kind |-> "barrier", rows |-> 0, chunk |-> 1]
Dynamic(n) == [kind |-> "dynamic", rows |-> n, chunk |-> 1]
Static(n, chunk) == [kind |-> "static", rows |-> n, chunk |-> chunk]

Constructs ==
  {Barrier} \cup {Dynamic(n) : n \in DynamicRows}
            \cup {Static(n, c) : n \in StaticRows, c \in Chunks}

\* The functions of a region.
Scripts ==
  {s \in UNION {[1 .. n -> Constructs] : n \in 0 .. MaxLength} :
     Cardinality({c \in DOMAIN s : s[c].kind = "dynamic"}) <= MaxDynamic}

VARIABLES
  entry,             \* "region", "dynamic" or "static"
  script,            \* the function of the region, or its one loop
  nthreads_in,       \* how many threads were asked for
  \* thread_team
  nthreads,
  barrier_counter,
  nested_scheduler,  \* is there one?
  \* dynamic_scheduler
  num_iterations, iteration_index,
  iter,              \* the iteration in the dynamic_task of every thread
  \* threads
  pc,
  at,                \* the construct that a thread is in, or has left last
  n_target,          \* what a thread at the barrier waits for
  \* what happened, read by no action
  times,             \* how often each row of a construct was executed
  aborted            \* has abort_execution() been called?

team == <<entry, script, nthreads_in, nthreads>>
sched == <<nested_scheduler, num_iterations, iteration_index, iter>>
vars == <<team, barrier_counter, sched, pc, at, n_target, times, aborted>>

Threads == 0 .. nthreads - 1

Least(a, b) == IF a < b THEN a ELSE b
-----------------------------------------------------------------------------
(***************************************************************************)
(* _parallel_for_static(): who executes which row.                         *)
(***************************************************************************)
\* The number of chunks asked for; 0 means that thread 0 does it all.  No number of
\* threads stands for that of the pool.
ChunksWanted(s, threads) ==
  Least(s.rows \div s.chunk, IF threads = 0 THEN PoolSize ELSE threads)

\* The last chunk has the rows that are left.
ChunkEndEven(s, size, j) == (j + 1) * size
ChunkEnd(s, size, j) ==
  IF j = s.rows \div size - 1 THEN s.rows ELSE (j + 1) * size

\* How often thread i executes row r: the chunks go round nth threads.
Visits(s, k, nth, i, r) ==
  IF k = 0 THEN IF i = 0 THEN 1 ELSE 0
  ELSE LET size == s.rows \div k
       IN  Cardinality({j \in 0 .. s.rows \div size - 1 :
                          j % nth = i /\ j * size <= r /\ r < ChunkEnd(s, size, j)})
-----------------------------------------------------------------------------
\* The threads of the team; the others get nothing from the job's scheduler.
StartAt(label, c) ==
  /\ pc = [i \in AllThreads |-> IF i \in Threads THEN label ELSE "done"]
  /\ at = [i \in AllThreads |-> c]

\* parallel_region(nthreads, f)
InitRegion ==
  /\ entry = "region"
  /\ script \in Scripts
  /\ nthreads \in 1 .. PoolSize
  /\ nthreads_in = nthreads
  /\ num_iterations = 0
  /\ StartAt("between", 0)

\* parallel_for_dynamic() outside of a parallel region
InitDynamic ==
  /\ entry = "dynamic"
  /\ script \in {<<Dynamic(n)>> : n \in DynamicRows}
  /\ nthreads_in \in 0 .. PoolSize + 1
  /\ nthreads = IF nthreads_in = 0 THEN PoolSize ELSE Least(nthreads_in, PoolSize)
  /\ num_iterations = script[1].rows
  /\ StartAt("next", 1)

\* _parallel_for_static() outside of a parallel region: a region of as many threads as
\* there are chunks; with no chunk to share, the caller alone.
InitStatic ==
  /\ entry = "static"
  /\ script \in {<<Static(n, c)>> : n \in StaticRows, c \in Chunks}
  /\ nthreads_in \in 0 .. PoolSize + 1
  /\ LET k == ChunksWanted(script[1], nthreads_in)
     IN  nthreads = IF k = 0 THEN 1 ELSE Least(k, PoolSize)
  /\ num_iterations = 0
  /\ StartAt("between", 0)

Init ==
  /\ InitRegion \/ InitDynamic \/ InitStatic
  /\ barrier_counter = 0
  /\ nested_scheduler = FALSE
  /\ iteration_index = 0
  /\ iter = [i \in AllThreads |-> 0]
  /\ n_target = [i \in AllThreads |-> 0]
  /\ times = [c \in DOMAIN script |-> [r \in 0 .. script[c].rows - 1 |-> 0]]
  /\ aborted = FALSE
-----------------------------------------------------------------------------
Goto(i, label) == pc' = [pc EXCEPT ![i] = label]

\* Thread i comes to the next construct of the region, of the given kind.
Enter(i, kind) ==
  /\ pc[i] = "between"
  /\ at[i] < Len(script)
  /\ script[at[i] + 1].kind = kind
  /\ at' = [at EXCEPT ![i] = @ + 1]

\* The function of the region returns.
Leave(i) ==
  /\ pc[i] = "between"
  /\ at[i] = Len(script)
  /\ Goto(i, "done")
  /\ UNCHANGED <<team, barrier_counter, sched, at, n_target, times, aborted>>
-----------------------------------------------------------------------------
(***************************************************************************)
(* thread_team::wait_at_barrier()                                          *)
(***************************************************************************)
NextMultiple(n) == n + nthreads
Target(n) == n - (n % nthreads) + nthreads

AllButLast(i) == barrier_counter >= n_target[i] - 1
AllArrived(i) == barrier_counter >= n_target[i]

ArriveAtBarrier(i) ==
  /\ Enter(i, "barrier")
  /\ barrier_counter' = barrier_counter + 1
  /\ n_target' = [n_target EXCEPT ![i] = Target(barrier_counter)]
  /\ Goto(i, "barrier")
  /\ UNCHANGED <<team, sched, times, aborted>>

PassBarrier(i) ==
  /\ pc[i] = "barrier"
  /\ AllArrived(i)
  /\ Goto(i, "between")
  /\ UNCHANGED <<team, barrier_counter, sched, at, n_target, times, aborted>>
-----------------------------------------------------------------------------
\* A parallel_for_static() of the region, or the region of a parallel_for_static().  The
\* threads share nothing there: one step stands for all the rows of a thread.
StaticLoop(i) ==
  /\ Enter(i, "static")
  /\ LET s == script[at[i] + 1]
         k == ChunksWanted(s, nthreads_in)
     IN  times' = [times EXCEPT ![at[i] + 1] =
                     [r \in DOMAIN @ |-> @[r] + Visits(s, k, nthreads, i, r)]]
  /\ UNCHANGED <<team, barrier_counter, sched, pc, n_target, aborted>>
-----------------------------------------------------------------------------
(***************************************************************************)
(* parallel_for_dynamic() inside a region, and dynamic_scheduler.          *)
(***************************************************************************)
\* thread_team::shared_scheduler(): a first look without the mutex ...
LookUpScheduler(i) ==
  /\ Enter(i, "dynamic")
  /\ Goto(i, IF nested_scheduler THEN "next" ELSE "create")
  /\ UNCHANGED <<team, barrier_counter, sched, n_target, times, aborted>>

\* ... and a second one with it.  The iterations are those of the caller's loop.
MakeScheduler(i) ==
  /\ nested_scheduler' = TRUE
  /\ num_iterations' = script[at[i]].rows
  /\ iteration_index' = 0
CreateAlways(i) == MakeScheduler(i)
CreateOnce(i) ==
  IF nested_scheduler
    THEN UNCHANGED <<nested_scheduler, num_iterations, iteration_index>>
    ELSE MakeScheduler(i)

CreateScheduler(i) ==
  /\ pc[i] = "create"
  /\ CreateOnce(i)
  /\ Goto(i, "next")
  /\ UNCHANGED <<team, barrier_counter, iter, at, n_target, times, aborted>>

\* dynamic_scheduler::get_next_task(): an iteration, taken with fetch_add() ...
HasOneMore == iteration_index <= num_iterations
HasIteration == iteration_index < num_iterations

FetchIteration(i) ==
  /\ pc[i] = "next"
  /\ HasIteration
  /\ iteration_index' = iteration_index + 1
  /\ iter' = [iter EXCEPT ![i] = iteration_index]
  /\ Goto(i, "call")
  /\ UNCHANGED <<team, barrier_counter, nested_scheduler, num_iterations, at, n_target, times,
                 aborted>>

\* ... or none: back to the function of the region, or to sleep.
FetchNothing(i) ==
  /\ pc[i] = "next"
  /\ ~HasIteration
  /\ iteration_index' = iteration_index + 1
  /\ Goto(i, IF entry = "dynamic" THEN "done" ELSE "between")
  /\ UNCHANGED <<team, barrier_counter, nested_scheduler, num_iterations, iter, at, n_target,
                 times, aborted>>

\* dynamic_task::execute()
CallIteration(i) ==
  /\ pc[i] = "call"
  /\ times' = [times EXCEPT ![at[i]][iter[i]] = @ + 1]
  /\ Goto(i, "next")
  /\ UNCHANGED <<team, barrier_counter, sched, at, n_target, aborted>>

\* The iteration throws, and the job is a dynamic_scheduler: the thread goes on after
\* it has called catch_exception().
Throw(i) ==
  /\ entry = "dynamic"
  /\ pc[i] = "call"
  /\ times' = [times EXCEPT ![at[i]][iter[i]] = @ + 1]
  /\ Goto(i, "catch")
  /\ UNCHANGED <<team, barrier_counter, sched, at, n_target, aborted>>

\* A function throws inside a region: the exception leaves all loops, and the thread has
\* no other task.  "It is the user's responsibility to ensure that all threads CAN arrive
\* at the barrier" (api.h), so that no barrier may be ahead.
ThrowInRegion(i) ==
  /\ entry # "dynamic"
  /\ pc[i] \in {"between", "call"}
  /\ \A c \in at[i] + 1 .. Len(script) : script[c].kind # "barrier"
  /\ times' = IF pc[i] = "call" THEN [times EXCEPT ![at[i]][iter[i]] = @ + 1] ELSE times
  /\ Goto(i, "threw")
  /\ UNCHANGED <<team, barrier_counter, sched, at, n_target, aborted>>

\* dynamic_scheduler::abort_execution(), called by catch_exception() ...
AbortNothing == UNCHANGED iteration_index
AbortExecution == iteration_index' = num_iterations

Catch(i) ==
  /\ pc[i] = "catch"
  /\ AbortExecution
  /\ aborted' = TRUE
  /\ Goto(i, "abort")
  /\ UNCHANGED <<team, barrier_counter, nested_scheduler, num_iterations, iter, at, n_target,
                 times>>

\* ... and once more by the loop of the worker.
AbortAgain(i) ==
  /\ pc[i] = "abort"
  /\ AbortExecution
  /\ Goto(i, "next")
  /\ UNCHANGED <<team, barrier_counter, nested_scheduler, num_iterations, iter, at, n_target,
                 times, aborted>>
-----------------------------------------------------------------------------
Step(i) ==
  \/ Leave(i) \/ ArriveAtBarrier(i) \/ PassBarrier(i) \/ StaticLoop(i)
  \/ LookUpScheduler(i) \/ CreateScheduler(i) \/ FetchIteration(i) \/ FetchNothing(i)
  \/ CallIteration(i) \/ Throw(i) \/ Catch(i) \/ AbortAgain(i) \/ ThrowInRegion(i)

Next == \E i \in AllThreads : Step(i)

Spec == Init /\ [][Next]_vars

-----------------------------------------------------------------------------
(***************************************************************************)
(* Properties.                                                             *)
(***************************************************************************)
\* The type invariant.
TypeOK ==
  /\ nthreads \in 1 .. PoolSize
  /\ nthreads_in \in 0 .. PoolSize + 1
  /\ barrier_counter \in Nat
  /\ nested_scheduler \in BOOLEAN
  /\ num_iterations \in Nat /\ iteration_index \in Nat
  /\ iter \in [AllThreads -> Nat]
  /\ \A i \in AllThreads : pc[i] = "call" => iter[i] < num_iterations
  /\ pc \in [AllThreads -> {"between", "barrier", "create", "next", "call", "catch", "abort",
                            "done", "threw"}]
  /\ at \in [AllThreads -> 0 .. Len(script)]
  /\ n_target \in [AllThreads -> Nat]
  /\ aborted \in BOOLEAN

\* What a loop is for: no row is executed twice, whoever creates the shared scheduler,
\* and however the chunks fall.
RowsAtMostOnce ==
  \A c \in DOMAIN script : \A r \in DOMAIN times[c] : times[c][r] <= 1

\* Thread i has left construct c as it should.
Past(i, c) == at[i] > c \/ (at[i] = c /\ pc[i] \in {"between", "done"})

Complete(c) == \A r \in DOMAIN times[c] : times[c][r] = 1

\* ... and when all the threads have left it, every row has been executed, unless the
\* loop was aborted.  A dynamic loop in a region stays complete when threads leave it with
\* an exception, as long as one is left; a static one has their rows missing.
LoopsAreComplete ==
  \A c \in DOMAIN script :
    /\ \A i \in Threads : Past(i, c) \/ (pc[i] = "threw" /\ script[c].kind = "dynamic")
    /\ \E i \in Threads : Past(i, c)
    /\ ~aborted
    => Complete(c)

\* Nobody leaves a barrier before all the team has come to it, in this round and not in
\* the one before; so that all the loops before it are complete as well.
BarrierSeparates ==
  \A c \in DOMAIN script : \A i \in Threads :
    script[c].kind = "barrier" /\ Past(i, c) =>
      /\ \A k \in Threads : at[k] >= c
      /\ \A d \in 1 .. c - 1 : Complete(d)

\* abort_execution() does stop a dynamic loop: nobody gets an iteration any more, and
\* the rows executed are the first ones, without a gap.
AbortStopsLoop ==
  aborted =>
    /\ iteration_index >= num_iterations
    /\ (\A i \in Threads : pc[i] = "done") =>
         \A r \in DOMAIN times[1] : \A q \in 0 .. r : times[1][r] = 1 => times[1][q] = 1
=============================================================================
