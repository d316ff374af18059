# A TLA+ model of datatable-lab

The repository holds two experiments. `src/parallel` has three implementations of a
thread pool with parallel regions, parallel loops, barriers and locks on top, and a
benchmark that compares them. `src/sort` has sorting routines that are timed against each
other. This directory has TLA+ specifications of that code, TLC configurations that check
them on small instances, and TLAPS proofs of the main results for every size.

Paths below are relative to the repository: `src/parallel/...` is named `parallel/...`.

## 1. Inventory

### Components

The pools `thpool1`, `thpool2` and `thpool3` are three stages of one design. They have the
same API and differ in how workers sleep and are woken up. `thpool3` is the newest.

| Component | State | Operations | Hard about it | What makes it correct |
|---|---|---|---|---|
| thread pool 3 (`thread_pool`, `thread_worker`, `idle_job`, `parallel_region`) | vector of workers, number of threads asked for, current team, two sleep tasks with a semaphore each, `n_threads_running`, `saved_exception` | `parallel_region`, `resize`, `execute_job`, fork handler; workers: fetch a task, run it, fall asleep, wake up, exit | master and workers share everything without a lock; late wake-ups; exceptions; threads that cannot be created | every thread of a region calls the function exactly once, before the call returns; no wake-up lost, none left over; the exception of a region leaves that region |
| thread pool 1 | mutex and condition variable per sleep task, `index`, `n_threads_sleeping`; a master that is not a worker | as thread pool 3 | `index` is read without the mutex; threads that exit are counted as sleeping | as thread pool 3 |
| thread pool 2 | light sleep (polling), deep sleep (one condition variable), `n_threads_running` set anew for each job | as thread pool 3 | the change from one sleep to the other | as thread pool 3 |
| ordered loop (`ordered_scheduler`, `ordered_task`; the text is the same in all pools) | contexts in a ring, three cursors, who is ordering, number of iterations | `get_next_task`, `abort_execution`, `set_n_iterations`, `ordered_task::execute` | contexts are used outside the mutex; abort and resize in the middle | three functions per iteration in order, `ordered` sequentially, an end |
| thread team (`thread_team`; the same in all pools) | `barrier_counter`, `nested_scheduler` | `wait_at_barrier`, `shared_scheduler` | a counter that is never reset; creation with double-checked locking | rounds do not mix; one scheduler per loop |
| static and dynamic loops (the same in all pools) | `iteration_index`; none | `_parallel_for_static`, `dynamic_scheduler` | rounding; abort while others fetch | every row exactly once |
| semaphore (`LightweightSemaphore`) | `m_count`, the semaphore of the system under it | `wait` (spin, then sleep), `try_wait`, `signal(n)` | `signal` between the last spin and the sleep | it is a counting semaphore |
| locks (`spin_mutex`, `shared_mutex`, `shared_bmutex`, `shared_lock`) | a flag; a state word with a writer's bit and a count of readers; two gates | lock, unlock, shared and exclusive, upgrade and downgrade | readers that count themselves too late; which gate to notify | exclusion; nobody left asleep; writers get in |
| insertion, counting, merge and radix sorts | arrays, temporary buffers, TimSort's stack of runs | the sorts | boundaries, shared buffers, bits of keys | a stable ordering of the data |
| sort benchmark | algorithm, number of bits, data | `main()` chooses, `test()` fills and measures | which calls it makes | the calls are within what the sorts can do |
| atomic floats, monitor thread, utilities, pool benchmark, build files | | | | not modelled, section 7 |

### How they interact

An API call of the master puts a *job* (a `thread_scheduler`) on its stack and hands it to
`thread_pool::execute_job()`. In pool 3 that creates workers if there are none, then calls
`idle_job::awaken_and_run()`: swap the two sleep tasks, add the number of sleepers to
`n_threads_running`, store the address of the job in the old sleep task, signal its
semaphore. Every worker, once through the semaphore, takes the job, executes its tasks until
there are none, returns to the idle job, decrements the counter and waits at the other
semaphore. The master executes its own tasks in `run_master()` and then spins in `join()`
until the counter is zero; it rethrows what a worker saved. Pool 2 does the same with polling
and a condition variable in place of the semaphores. In pool 1 the master does not take part:
it wakes all workers with the condition variable of the sleep task and waits until the
other one has counted them all. `parallel_for_dynamic()` and
`parallel_for_ordered()` are jobs with other schedulers; a parallel loop called inside a
region executes its scheduler in each thread separately and shares it through the team.
Growing uses `join()` alone; shrinking runs a job that tells some of the workers to exit.

The locks are used by nobody but `spin_mutex`, which guards `get_next_task()` of the ordered
loop. The sorts are a program of their own, without threads: `main()` picks one function per
`--algo`, and the radix sorts call insertion and counting sorts on parts of the arrays, with
the buffers `tmp1`, `tmp2` and `tmp3` shared by all.

What is hard in this code, line by line, is the list of hazards in PROJECT.json.

## 2. Modules

| Module | What it is |
|---|---|
| `ForkJoin` | abstract: a region of `width` threads begins, each call finishes once or fails, the region returns or throws |
| `ThreadPool3` | thread pool 3; implements `ForkJoin` |
| `ThreadPool3Proofs` | inductive invariant of `ThreadPool3`, its safety invariants, and that it implements `ForkJoin` |
| `ThreadPool1`, `ThreadPool2` | the other two pools; implement `ForkJoin` |
| `OrderedLoop` | abstract: the three functions of each iteration, in the order api.h promises |
| `OrderedScheduler` | `parallel_for_ordered.cc` and the threads that execute it; implements `OrderedLoop` |
| `OrderedProofs` | who holds a context holds it alone, the user's exception, the abort; the ring of contexts; `OrderedScheduler` implements `OrderedLoop`: for any number of threads and iterations |
| `ThreadTeam` | barriers, shared scheduler, static and dynamic loops of one team |
| `TeamProofs` | rounds of the barrier, rows of the loops: for any number of threads, rows and constructs |
| `Pool1Loops`, `Pool2Loops` | pools 1 and 2 composed with `ThreadTeam` and `OrderedScheduler`: loops run by the threads of the pool |
| `Pool1Proofs`, `Pool2Proofs` | inductive invariants of `Pool1Loops` and `Pool2Loops`; the pools, with their loops, implement `ForkJoin`; their loops come back complete or throw, and implement `OrderedLoop` |
| `Pool3Loops` | an ordered loop, or a team, for TLC |
| `LoopsProofs` | what `OrderedProofs` and `TeamProofs` say, for `Pool3Loops` |
| `Semaphore` | abstract: a counting semaphore with a set of threads that wait |
| `LightweightSemaphore` | `thpool3/semaphore.h`; implements `Semaphore` |
| `ReadWriteLock` | abstract: readers together, a writer alone, a claim before it |
| `Locks` | the three locks and `shared_lock`; each implements `ReadWriteLock` |
| `Primitives` | the semaphore or the locks, for TLC |
| `PrimitivesProofs` | inductive invariants of both, and that each implements its abstract specification, for any set of threads |
| `SortItems` | what all sorts have in common: items, the insertion of one, which of two goes first |
| `StableSorts` | `insert_sort0`, `mergesort1` and `timsort`, loop turn by loop turn |
| `StableSortsProofs` | their inductive invariant: they sort arrays of any length, stably, and the stack of runs shrinks |
| `SortFunctions` | the other sorts, as functions of a sequence of items |
| `Sorting` | one call of the benchmark, of any of the sorts |

The `map` of PROJECT.json has the lines that every definition models.

The modules meet at narrow interfaces. `ThreadPool3` takes the semaphores as counters; that
this is all they are is what `PrimitivesProofs` proves of the real code. For pool 3,
`OrderedScheduler` and `ThreadTeam` start when a job has been handed to the pool and end
when every thread has got "no more task". For pools 1 and 2 the two sides are put together:
in `Pool1Loops` and `Pool2Loops` a thread enters the scheduler when the pool's model says
so, an exception goes through `catch_exception()` and `abort_execution()` in the pool's own
order, and what is stated is what the caller sees when it gets control back.
As loops and teams have the same text in all pools, both compositions instantiate the modules
written for pool 3, and their `map` names the lines of their own pool.

### ThreadPool3

One variable per field, named like it (`curr` is `curr_sleep_task`, `running` is
`n_threads_running`, `sem[t]` the semaphore of sleep task `t`). `pc` is where a thread is.
Thread 0 is the master; the order of its labels is the order of the code:

    user -> [spawn] -> swap -> count -> post -> signal -> fetch/call/catch -> join -> [reap] -> user

One action is one access to something shared, so that all interleavings of the four
statements of `awaken_and_run()` with the steps of the workers occur. Workers go from
`fetch` to `call`, `catch` or `shutdown`, back to `fetch` with the idle job, and through
`drowsy` (the counter is about to be decremented), `asleep` (in the semaphore) and `awake`
(job not yet read). Creation of a thread may fail when `SpawnMayFail`; the system's refusal
is an action of its own. An exception is `"current"` while its region is the last one, and
`"earlier"` after the next call has begun: this is all that the properties ask of it.
`calls`, `failed`, `outcome`, `resized` and `leaked` record what happened, and no action
reads them.

### ThreadPool1 and ThreadPool2

`ThreadPool1` has the master outside of the workers (`master` is its label: `lock`, `reset`,
`switch`, `notify`, `join`). A critical section is one step, except for the one of
`awaken_and_run()`: `index` changes inside of it and is read by workers without the mutex, so
it is three steps, and `Held` keeps those out who would need the mutex. A woken worker
must get the mutex before it looks (`woken`); `SpuriousWake` is the condition variable's. With
`GrowAfterShrink = FALSE` the user does not let a pool grow right after it has shrunk; finding 5 says
why there is such a constant.

`ThreadPool2` takes `thread_pool`, `run()` and `run_master()` from `ThreadPool3` and has its own
sleep: `asleep` is the light sleep, `deep` and `woken` the deep one. How long a worker polls is not
modelled, it may give up at any time (`DeepSleep`, without fairness).

### OrderedScheduler

`FetchOrder`, `FetchFinish`, `FetchStart`, `FetchWait`, `FetchNothing` and `TurnAway` are the
outcomes of `get_next_task()`, which holds the mutex; `Execute` and what follows do not.
The state of a context counts as in the code, with the cancelled state 42 as one value: the
values `advance_state()` makes of it are never tested for. `SetIterations` may be called from
within any function the user supplies. With at most one thread the master runs the plain
loop (`LoopCall` ... `LoopEnd`).

### ThreadTeam

The region's function is a sequence of constructs, the same in every thread, chosen in
`Init` among all sequences up to a length. `times` counts how often each row was executed.
A barrier is two steps, arrival and passage. The look-up of the shared scheduler is two
steps, the look without the mutex and the one with it. The rows a thread executes of a
static loop are disjoint from all that others touch, so they are one step.

### LightweightSemaphore and Locks

Every atomic operation is a step: in the semaphore the load, the compare-and-exchange (which
fails when the count has changed since), the `fetch_sub` before sleep, the system's semaphore,
the `fetch_add` of `signal()`, and each of the posts that follow it. In `Locks` the variable
`kind` says which lock it is; `shared_mutex` works in sections under its `std::mutex`, each of
them one step up to the wait in it, `shared_bmutex` in atomic operations. `goal` is where
`shared_lock` goes on after an unlock: out, or to the other lock when it upgrades or downgrades.

### StableSorts, SortFunctions and Sorting

The arrays `x` and `o` are one sequence of items `[x, o]`, and so are the buffers `tmp1` and `tmp2`.
Three sorts are machines in `StableSorts`, one action per turn of a loop. `InsertNext` puts one more
item in its place, for `insert_sort0` and for the minruns of the other two. `mergesort1` goes through
its passes between the arrays and the buffers (`Pass`, `NextPair`, `EndPass`, `CopyBack`), `timsort`
finds runs and keeps their ends on the stack (`FindRun`, `PushRun`, `MergeAB`, `MergeBC`, `StackSettled`,
`FinalMerge`). Both merge with `TakeLeft`, `TakeRight` and `EndMerge`: `InPlace` says whether the
left part is in the buffers and the result goes over both parts, as in `merge_chunks()`, or all goes
from one array to the other. The two insertion sorts with indices, the top-down merge sort and the
counting and radix sorts have no intermediate state that anything else sees; they are functions in
`SortFunctions`. `Sorting` has the initial states of `test()` and the calls of `main()`: its steps are
those of `StableSorts`, or a function applied to the arrays. `InsertLimit`, `RunLimit` and
`MergeLimit` are lengths in the code at which one method gives way to another.

## 3. Runs

| Run | Configuration | Shows |
|---|---|---|
| `pool3` | pool of up to 4 threads, creation may fail | types; the two counters are exact; between calls all workers are at rest; nobody points to a job that has ended; a region throws what was raised in it; `ForkJoin`; every call returns unless a thread could not be created |
| `pool3_stale_exception` | up to 2 threads | finding 1 |
| `pool3_spawn_failure` | up to 2 threads | finding 2 |
| `pool3_loops` | ordered loop: 3 threads, 3 iterations, resizes to 1 and 3; or a team: pool of 3, regions of up to 3 constructs, one of them dynamic | `OrderedLoop`, private contexts, the user's exception survives, abort cancels; no row twice, none left out, barriers separate, abort stops; every call returns |
| `ordered_raise` | 2 threads, resize to 3 after an abort allowed | finding 3 |
| `team_nested_dynamic` | pool of 2, two dynamic loops | finding 4 |
| `primitives` | semaphore: 3 waiters, 1 spin, signals of up to 3; or locks: 3 threads | a counting semaphore, exact queue, tokens are taken; read-write locks, exact word, nobody asleep in vain, writers get in |
| `pool1` | up to 3 threads, creation may fail, spurious wake-ups; or a loop in a pool of 3 | workers at rest before every call, `ForkJoin`, every call returns; loops complete or throw; `OrderedLoop` as the caller sees it |
| `pool1_grow_after_shrink` | up to 3 threads | finding 5 |
| `pool2` | up to 3 threads, creation may fail, light and deep sleep; or a loop in a pool of 3 | count of running threads exact, `ForkJoin`, calls return; loops complete or throw; `OrderedLoop` as the caller sees it |
| `sort` | all arrays of up to 7 items, keys 0, 1 and 3 | the ordering is the stable one; blocks and runs are sorted where the code says; the stack of runs shrinks |
| `sort_radix` | arrays of up to 6 items, keys of 2 and 3 bits | findings 6 and 7 |

Two systems that have nothing to do with each other share a run where that saves one: a
behaviour of `pool3_loops`, `primitives`, `pool1` or `pool2` uses one of them, chosen in the
initial state, and leaves the other in its least state.

### Bounds, and why they are enough

* *Four threads* in `pool3` have regions narrower than the pool, pools that shrink to
  something other than one thread, and workers in three different places while the master is in
  a fourth. The number of calls is not bounded: the state space is finite as it is, so
  shrink, grow, fork and region follow one another without limit. The proofs remove the bound
  for the safety properties. Pools 1 and 2 have more steps per sleep, and three threads:
  one that is late, one that is on time, and a region narrower than the pool.
* *Ordered loops* with two threads or more have as many
  contexts as there are iterations at first, here two or three; a loop that starts with two
  iterations and is raised to three uses the first context a second time, and takes the
  cursors round the ring. Pools are larger than the loop needs, so that threads are turned away.
  One thread, or one iteration, is the loop of the master. `Resizes` has a number below and
  the largest one; a function that runs can call `set_n_iterations()` at any point.
  In pools 1 and 2 two iterations and three threads are left: what the composition adds is how
  the pool's order of steps meets the loop's, above all in exceptions.
* *Row counts.* Static loops of 5 rows with chunks of 1 and of 6 give: no chunk at all
  (`k = 0`), more chunks than threads, a last chunk longer than the others, and more chunks
  than were asked for. Dynamic loops have 0 or 2 rows for up to 3 threads. Three constructs
  allow two barriers in a row, and a loop before, between or after them. `Pool1Loops` and
  `Pool2Loops` have one construct per call, since what follows it in the region is the same team's.
* *One spin* already has both ends of the loop (the code spins ten million times, semaphore.h:205); tokens
  are capped by `MaxTokens` in the guard of `Signal` so that the count is finite. Nothing in
  the proof depends on the values.
* *Three threads* at a lock are a writer inside, one that waits, and a reader that comes and goes.
  The proofs remove the bound.
* *Sorts.* The limits of the code, 12 and more for insertion sort, 16 for runs, are scaled down
  to 2, so that arrays of seven items have four runs and three levels of merges, with a last
  block that is short or has no neighbour. Keys 0, 1 and 3 of 2 or 3 bits: equal keys, and keys
  that differ in the first bits or the last. In `sort` two inputs are left out by constants:
  `MaskCovers = TRUE` has no radix sort with more than twice its first bits, `LongParts =
  FALSE` no part of `radix_sort1` that goes to the counting sort. These are the two bugs of
  `sort_radix`; the run shows that nothing else is wrong.

`CHECK_DEADLOCK FALSE` is used where the modelled thing ends (a team, an ordered loop, a sort),
where nobody has to call (`primitives`), and in the runs where a thread that could not be created
leaves the master in `join()` (`pool3`, `pool3_spawn_failure`, `pool2`); the latter is finding 2.
In `pool3_stale_exception`, `pool1` and `pool1_grow_after_shrink` deadlock is checked.

### Fairness

Weak fairness of every thread's step, nothing stronger. The operating system schedules
each thread in the end, and the functions of the user are assumed to end, which the library
needs as well. Actions that somebody may or may not call (API calls, `Signal`, `Wait`,
`SetIterations`, taking a lock) have no fairness, nor has the failure of a thread's creation,
a wait that ends for no reason, a weak exchange that fails for no reason, or giving up the
light sleep. Who holds a lock is assumed to give it up. Weak fairness
of a step that needs the scheduler's `spin_mutex` assumes that a thread gets that mutex when
it tries for long enough; with pure spinning the code does not guarantee this by itself,
it rests on the others being out of the critical section most of the time.
A thread whose exchange fails again and again exhausts its spins, which are counted, and
goes to sleep. `WritersGetIn` is stated for a writer that has set its bit only: before that,
the comment of `shared_bmutex::lock_shared()` itself concedes that readers may keep it out.

### Findings

1. `resize()` to more threads throws the exception of an earlier region a second time:
   `join()` does not clear `saved_exception` (`parallel/thpool3/thread_worker.cc:189`).
2. When `std::thread` throws, the thread has already been counted as running, and `join()`
   spins forever, although the comment says that the pool goes on with the threads it has
   (`parallel/thpool3/thread_worker.cc:44`, `thread_pool.cc:85`).
3. `set_n_iterations()` with a larger number, called by a function that still runs when
   another has thrown, revives an aborted loop, and `post_ordered` runs for an iteration
   whose other functions never ran (`parallel/thpool3/parallel_for_ordered.cc:321`).
4. A second `parallel_for_dynamic()` in the same region executes no row, because the team
   keeps the scheduler of the first (`parallel/thpool3/thread_team.h:46`).
5. Pool 1, after a `resize()` that shrinks it, counts the threads that have exited as sleeping. When
   the pool grows next, `join(n)` does not wait for the new threads, they miss the next job, and
   a region goes on without threads of its team (`parallel/thpool1/thread_worker.cc:150`).
6. `radix_sort1` and `radix_sort3` keep `tmp0` low bits for the second stage, which has
   `K - tmp0` bits to sort: with `K > 2 * tmp0` the result is not sorted
   (`sort/radix_sort.cc:173`). With `Algorithms = {10}` in the configuration of `sort_radix` TLC
   shows this one.
7. `radix_sort1` keeps its histogram in `tmp3`, and `count_sort0`, called for a long part,
   overwrites it (`sort/radix_sort.cc:239`). This is what `sort_radix` shows as it stands.

Three observations that no property is about. Batches after the first of the sort benchmark
time arrays that are sorted already, as the copies are made in batch 0 only (`sort/main.cc:69`).
`merge_sort0` copies the rest of a half back with the size of an `int`, whatever the type of the
elements (`sort/merge_sort.cc:82`). TimSort's `merge_stack()` restores "each run is longer than
the next two together" for the top three runs only; what is left everywhere, and stated by
`RunsShrink`, is that each run is longer than the next.

## 4. Proofs

All theorems hold for every value of the constants that satisfies the assumptions at the head of
the modules: `MaxThreads` a positive number, `SpawnMayFail` a Boolean, `Waiters` a finite set,
`SpinCount`, `MaxSignal` and `MaxTokens` natural numbers, `MaxIterations` a positive number,
`Resizes` a set of numbers up to it; rows and chunks of the loops sets of numbers, chunks not
zero. `Threads` of the locks is any set; `RunLimit` of the sorts a natural number other than 0 and 1, and
their data any sequence of natural numbers that is not empty.

Some theorems have a hypothesis, written at the theorem as `ASSUME ... PROVE`. There are three,
and each is the other side of a finding, where a run shows that the theorem fails without it:

| Hypothesis | Theorems | Without it |
|---|---|---|
| `MayRaise = FALSE`: `set_n_iterations()` does not raise the number after an abort | of `OrderedProofs`: `AbortsCancel`, `RingInvariance`, `TypeCorrectness`, `Refinement`; `LoopsTypeCorrectness`; `OrderedLoopsRefined` of `Pool1Proofs` and `Pool2Proofs` | finding 3, `ordered_raise` |
| `MaxDynamic <= 1`: a region has at most one dynamic loop | all of `TeamProofs` and `LoopsProofs` about rows; `LoopsReturnInOrder` of `Pool1Proofs` and `Pool2Proofs` | finding 4, `team_nested_dynamic` |
| `GrowAfterShrink = FALSE`: no pool grows right after it has shrunk | all of `Pool1Proofs` | finding 5, `pool1_grow_after_shrink` |

Those about pool 3, the regions of pool 2, the semaphore, the locks, the sorts, the barrier
(`TypeCorrectness` and `BarriersHold` of `TeamProofs`), private contexts and the user's exception
have none.

**ThreadPool3Proofs.** `TypeOK` and the two counts are not inductive: that `running` is
never negative needs to know that a worker which decrements it was counted, and that is a
statement about where all the others are. The inductive invariant `IInv` is
`TypeInt` (types, counters in `Int`), `MasterInv` (what the master's label says of the job
and the sleep tasks), `WorkerInv` (where each worker can be for each label of the master),
`RunningCount` and `TokenCount`. The step lemmas go by kind of action (`ApiCall`,
`MasterStep`, `WorkerStep`) and by conjunct. The heart of the argument is `StoppedMeansAsleep`:
the counter is the cardinality of the set of workers that are awake, so when `join()` reads
zero the set is empty, and every worker is in the sleep task that is current. From
`Invariance` follow

* `TypeCorrectness` (`TypeOK`), `CountIsExact` (`RunningCount`), `TokensAreExact` (`TokenCount`),
* `RestBetweenCalls` (`AtRest`), `WakeUpsHaveJobs` (`WakesToJob`),
  `NoDanglingJob` (`JobOutlivesWorkers`). `WakesToJob` is the code's own assertion in
  `sleep_task::execute()`; it is proved and in no run.

Its second part is about regions. `RegionInv` adds what a region has done: who has called the
function, whose call threw, and what is in `saved_exception`. With it, `RegionsThrowTheirOwn`
(an action property) and `Refinement`: every step of the pool is a step of `ForkJoin` or leaves
its variables unchanged. The critical step is `JoinRegion`, the return, which `ForkJoin` allows
only after all calls.

**PrimitivesProofs**, on the semaphore: `SemaphoreInv` is `TypeOK`, `CountIsQueue` and "an exchange is
tried with a positive count only". `QueueIsCounted` and `SemaphoreRefinement` follow: `m_count`
plus the number of threads in the queue is the value of the abstract semaphore.

On the locks: `LockInv` has, beside `LockTypeOK`, `StateIsExact` and `NobodySleepsInVain`, that the
set of counted readers is finite (threads come one by one, whatever set they are from),
`Places` (where a thread can be, for each kind of lock) and `Exclusion`: while one thread writes,
none reads. `Exclusion` is what the abstract lock promises; it is inductive only
together with the exact word, since a writer enters when it reads zero readers. The steps
are grouped by what they do to the word: leave it alone (`Quiet`), set or clear the bit
(`Claims`, `Unclaims`), count a reader in or out (`CountsIn`, `CountsOut`). Theorems:
`WordIsExact` (`StateIsExact`), `NoLostWakeUp` (`NobodySleepsInVain`), `LockRefinement`
(`ImplementsReadWriteLock`). `PrimitivesInvariance` puts the two together, for the specification
that TLC runs.

**OrderedProofs.** That two threads never execute the same context does not depend on how the three cursors go
round the ring. `IInv` says that the context a thread has been given, until it comes back with it,
is in a state that `get_next_task()` hands out to nobody: starting, ordering, finishing or
cancelled (`HeldIsBusy`). Hence nobody else gets it (`HeldApart`); `ContextsArePrivate` is
the part of this about threads that execute. A context is cancelled only after an exception has
been saved (`CancelledLate`), so that the "Invalid state" it provokes is never the first:
`UsersExceptionSurvives`. `AbortsCancel` says that nothing is handed out any more after an
abort; it has the hypothesis `MayRaise = FALSE`, without which it is false (finding of
`ordered_raise`), and needs `NothingPending`: after an abort no cursor is below the number of
iterations. The case of `FetchTask` is one lemma for the three ways to get a task: the one thing
they have in common is that the task was ready, and that is all the invariant needs.

The second part of the module is the ring. `RInv` adds to `IInv` where every context is: iteration
`j` runs in context `j % n_tasks`; iterations from `next_to_finish` to `next_to_order` are being
ordered or wait to be finished, those from there to `next_to_start` are being started or wait
to be ordered, and the remaining contexts are free or being finished (`RingTasks`). So a cursor that
finds its context ready has found its own iteration, and not the one of another lap; that is
what two numbers less than `n_tasks` apart never sharing a remainder is needed for
(`DivisionIsUnique` and what follows from it, the only arithmetic that is not linear). `Finished`
and `BusyIsHeld` say that what is not ready is held by a thread, so that nothing is left when all
the threads have gone (`Complete`). After an abort the ring is no longer kept; what survives
is what is known of a held context (`Held`) and of the functions that run (`Calls`).
`TypeCorrectness` (`TypeOK`, with the bounds of the cursors) and `Refinement`
(`ImplementsOrderedLoop`) follow; the loop the master runs alone is in `Alone`.

**TeamProofs.** `TypeInv` says which label goes with which construct of the region. `Rounds` is the
barrier: there is a `k` such that all threads have come to `k` barriers, those in `Arrived(k)`
wait at the next one, and `barrier_counter` is `nthreads * k` plus their number. The counter
is never reset, and still the remainder that `wait_at_barrier()` computes its target from is the
number of threads that have arrived (`RemainderOf`). `Rows` says how often each row has been
executed: of a static loop by those who have passed it (`Statics`), of a dynamic loop as
far as the iterations have been handed out, each to one thread that has executed it or is about
to (`Dynamics`). Theorems: `TypeCorrectness`, `BarriersHold`, `RowsExecutedOnce`
(`RowsAtMostOnce`), `EveryRowExecuted` (`LoopsAreComplete`), `BarriersSeparate`
(`BarrierSeparates`), `AbortsStopLoops` (`AbortStopsLoop`). That chunks cover each row once is
proved from division alone.

**LoopsProofs.** `Pool3Loops`, which TLC runs, has an ordered loop or a team; each of its behaviours
is one of `OrderedScheduler` and one of `ThreadTeam`. The team's theorems are instantiated
(`TeamOf == INSTANCE TeamProofs`), after the definitions of `TeamOf` are shown to be those
of the team that `Pool3Loops` has.

**Pool1Proofs.** The subject is `Pool1Loops`, the pool together with the loops in it. `PoolInv` has
one conjunct per phase of the master. Between calls every worker waits on the current sleep task
(`Resting`); while a job runs whoever falls asleep does so on the current one, whoever is still on the
other will be woken (`Running`), and the count `join()` looks at is the number of those asleep there
and of those that have exited (`Counts`); a worker that wakes up finds the job where it waited
(`NextTask`). The exited ones in that count are the reason for the hypothesis: `Resting` has
`>=` where `Spawning` needs `=`. The steps of teams and schedulers are first shown to be steps of
the pool. Then `TypeCorrectness`, `WorkersAtRest` (`AtRest`) and, with `RegionInv`,
`RegionsForkAndJoin`: every step of pool and loops is one of `ForkJoin` or a stutter.

**Pool2Proofs** is about `Pool2Loops`. The steps of the three uses of the pool (free, one loop, one
ordered loop) are reduced to steps of the pool (`PoolStep`, lemma `StepsOfPool`), so that the teams and
the scheduler need not be looked at again. `WorkerAt` says where a worker is for each place of
the master, with the light and the deep sleep as one (`Dozing`). `n_threads_running` is
overwritten by `awaken_and_run()`; `Counted` is kept because all workers are at rest then. For the
upper bound in `TypeOK` one more fact is needed: a failed creation of a thread, which is counted all
the same, is the last attempt (`Leak`). Theorems: `TypeCorrectness`, `CountIsExact`
(`RunningCount`), `RegionsForkAndJoin`.

*The loops in pools 1 and 2.* The last part of both modules is about the composition. Its behaviours
are first shown to be behaviours of `ThreadTeam` and of `OrderedScheduler` (`TeamBehaves`,
`LoopBehaves`), whose theorems are then instantiated, as `LoopsProofs` does for pool 3. What is left is the
link between the two sides, `LoopInv`, which `LoopInvariance` proves: a thread that is back from the job
(`Back`) has no more to do in the loop; the exception that the pool has saved is the loop's, and in
a dynamic loop it was saved before the loop was aborted; what `done` and `failed` say of a call of `f` is
what the team says of the thread that made it. As `join()` waits until everybody is back, the loop has
come to its end when the caller gets control. `LoopsReturnInOrder` (`LoopReturns`, an action
property) takes from the team that all rows have been executed, and `OrderedLoopsRefined`
(`ImplementsOrderedLoop`) from the ring that the three functions have run in order. In pool 1,
`Crew` says in addition that a loop is run by a pool of full size: the master is none of
its threads, and pool 1 catches an exception of a dynamic loop in two steps, between which it is
saved and the loop is not yet aborted (`Caught`).

**StableSortsProofs.** That a sort sorts is a statement about data, where one would use induction over the
arrays. The loops are modelled turn by turn instead, so that the induction is the one over
steps, and what has to be known of an array at once comes from the least counterexample: every
nonempty set of natural numbers has a least element (`LeastOf`) and a bounded one a greatest
(`MaxOf`), and so neighbours in order make a sequence in order (`AscendsAll`, `DescendsAll`).
From these follow lemmas about the operators of the model: `InsertSorts` for one turn of an insertion,
the run that `find_next_run_length()` finds and, when it descends strictly, reverses, `Taken` for a merge. `Taken`
says of a merge under way that what has been taken is in order and before all that has not, and
that every position of the input is in exactly the places it should be: in the result, or in one of
the rests. In a merge in place it also has to be known that the result never reaches the
items of the right part that are still to be read. `IInv` then has one conjunct per phase: `StartInv`,
`InsertInv`, `MergeInv`, `PassInv` (which blocks are sorted in which of the two arrays, before and
after the pair that is being merged), `TimSortInv` and `DoneInv`. Part of `TimSortInv` is `Shrinks`:
every run on the stack is longer than the next, except for the two on top while `merge_stack()` is at
work. It is inductive although `merge_stack()` looks at three runs only: a merge shortens the stack, so
that the exception moves down with it, and the loop ends only when the three on top are in order, of
which the lowest is shorter than the run below it already. Theorems: `Invariance`, `SortsSort` (`RunsAreSorted`: stable, in the
right array, with `o` as the ordering) and `StackStaysShort` (`RunsShrink`), for every array and every
`RunLimit`. They are about `StableSpec`, which has any data; a behaviour of `Sorting` that calls one of
these three sorts has the same steps.

Only model-checked:

* all liveness (`CallsReturn`, `EveryCallReturns`, `LoopsReturn`, `TokensAreTaken`, `WritersGetIn`), which
  is out of the prover's reach;
* `OrderIsStable`, for the sorts in `SortFunctions`: these are folds and recursive functions over
  sequences, and what they compute for every input needs an induction that takes an operator. For
  `insert_sort0`, `mergesort1` and `timsort` it says what `RunsAreSorted` says of the end.

## 5. Assumptions of the models

* Memory is sequentially consistent. The pool uses default (seq_cst) atomics for its counter;
  `semaphore.h` uses weaker orders, whose effects are not modelled.
  `next_scheduler` and `curr_sleep_task` are plain fields in the code, written by the master
  before `signal()`, or after all workers were seen asleep.
* One master. API calls of a region's functions are in `ThreadTeam` and `OrderedScheduler`; a
  `parallel_region()` inside a region violates the assertion at the head of the function
  (`thpool3/parallel_region.cc`), and the model makes no such call.
* `resize(0)` is left out in pools 2 and 3; the benchmarks resize to one thread at the end (`scenario.cc:139`
  and 154). A pool told to shrink to nothing hands the master a shutdown task again and again.
* `fork()` happens while no API call is in progress.
* The functions of a region throw only where no barrier is ahead of them (`ThreadTeam`):
  api.h:95-97 makes it the user's duty that every thread can arrive.
* The function that initialises the contexts of an ordered loop neither throws nor calls
  `set_n_iterations()`.
* The calls with loops in `Pool1Loops` and `Pool2Loops` are made in a new pool whose threads can all be
  created; what a pool does after failures is in the free use of it, without loops.
* There are fewer threads than a lock's word can count, 2^63 - 1.
* Elements of the sorts have the size of an `int`, and the buffers are large enough, as
  `main()` makes them.

## 6. Plan

Modelled: all three pools, their loops and teams; the semaphore; the locks; the sorts. Proved: all
invariants and all safety action properties that the passing runs check, but for `OrderIsStable`; the three
refinements of `ForkJoin` and those of `Semaphore`, `ReadWriteLock` and, for all pools, `OrderedLoop`. What
could follow:

1. `merge_sort0` and the counting and radix sorts turn by turn, as in `StableSorts`; then
   `OrderIsStable` could be proved as `RunsAreSorted` is.
2. `resize(0)`, and a region's function that throws before a barrier: both end in threads that spin
   (hazards without a property in PROJECT.json).

## 7. Not modelled

* *`atomic.h`*: used by nobody; its overloads of `compare_exchange_weak()` do not compile when
  used.
* *Monitor thread*: its construction is commented out (`thpool3/thread_worker.cc:132`).
* *Pool benchmark, timing loop of the sort benchmark, `munch.py`, Makefiles, utilities*: timing,
  printing and helpers without state. The benchmarks tell which calls occur.
* *`std_sort`* is a call of the library.
* *`bestsort1`, `bestsort_k10`, `bestsort_k12`*: what a radix sort does with parts that have nine bits
  and more left; keys of that length are out of TLC's reach. *`omem`*, the memory behind the buffers, is
  taken as large enough.
* *The same text in another pool*: locks and `atomic.h` of pools 1 and 2 are those of pool 3.
* *Formatting of messages, names and alignment of fields*: no property is about them.
