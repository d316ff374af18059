------------------------------ MODULE Pool1Proofs ------------------------------
(***************************************************************************)
(* Proofs about the pool of thpool1 and what runs in it, for pools and     *)
(* loops of every size, as long as no pool grows right after it has shrunk *)
(* (GrowAfterShrink = FALSE; see pool1_grow for what happens otherwise).   *)
(*                                                                         *)
(* The inductive invariant, PoolInv, says of every worker where it can be  *)
(* while the master is where it is: on which sleep task it waits, which    *)
(* scheduler it asks, what the two counts of sleeping threads amount to,   *)
(* and what the sleep tasks hold in store for those who wake up.           *)
(* RegionInv adds who has called `f` and who is still going to.            *)
(***************************************************************************)
EXTENDS Pool1Loops, TLAPS, FiniteSetTheorems

\* The threads that sleep, or have been woken and not looked yet, in sleep task t, and those
\* that a shutdown has taken out.
In(t) == {i \in Workers : pc[i] \in {"asleep", "woken"} /\ task[i] = t}
Left == {i \in Workers : pc[i] \in {"shutdown", "exited"}}

\* Thread i has not come to the job yet.
Waits(i) == pc[i] \in {"asleep", "woken"} /\ task[i] = Prev

\* A worker that runs has been created, sleeps on behalf of the controller, and is in the job
\* only between SwitchTask and the end of join().
Places ==
  \A i \in Workers :
    /\ i >= nworkers <=> pc[i] = "none"
    /\ pc[i] \in {"asleep", "woken", "drowsy"} => scheduler[i] = "controller"
    /\ pc[i] \in {"call", "catch", "abort", "shutdown"} => scheduler[i] = "job"
    /\ pc[i] = "fetch" => scheduler[i] \in {"controller", "job"}
    /\ pc[i] # "none" /\ scheduler[i] = "job" => master \in {"notify", "join", "reap"}

\* Between two jobs all workers sleep in the current sleep task; those that have exited may
\* still be counted there.
Resting ==
  master \in {"user", "lock", "reset", "switch"} =>
    /\ \A i \in Workers : pc[i] # "none" => pc[i] \in {"asleep", "woken"} /\ task[i] = index
    /\ sleeping[index] >= nworkers

\* New workers go to sleep in the current sleep task.
Spawning ==
  master = "spawn" =>
    /\ \A i \in Workers : pc[i] # "none" =>
         /\ scheduler[i] = "controller" /\ pc[i] # "exited"
         /\ pc[i] # "fetch" => task[i] = index
    /\ nworkers <= requested
    /\ job.kind # "shutdown"

\* During a job: whoever falls asleep does so in the current sleep task; who still waits in the
\* previous one will be woken; and a shutdown takes out the threads from job.n on, no other.
Running ==
  master \in {"notify", "join", "reap"} =>
    /\ \A i \in Workers :
         /\ pc[i] = "drowsy" => task[i] = index
         /\ Waits(i) => master # "reap" /\ (pc[i] = "asleep" => master = "notify")
         /\ i \in Left => job.kind = "shutdown" /\ i >= job.n
         /\ job.kind = "shutdown" /\ i >= job.n /\ pc[i] # "none" /\ scheduler[i] = "controller"
              => Waits(i)
         /\ job.kind = "shutdown" => pc[i] \notin {"call", "catch", "abort"}
         /\ master = "reap" /\ pc[i] # "none" => IF i < job.n THEN i \in In(index) ELSE i \in Left
    /\ job.kind = "shutdown" => saved = "none"
    /\ master = "reap" => job.kind = "shutdown"

\* What join() waits for: the current sleep task counts exactly those that sleep there, and
\* those that have exited.
Counts ==
  /\ master = "spawn" => sleeping[index] = Cardinality(In(index))
  /\ master \in {"notify", "join", "reap"} =>
       /\ sleeping[index] = Cardinality(In(index) \cup Left)
       /\ sleeping[Prev] >= Cardinality(In(Prev))

\* Where a thread that wakes up finds the job: nowhere between two jobs, then in the sleep task
\* that it waits on.
NextTask ==
  /\ master \in {"user", "spawn", "lock", "reap"} => \A t \in SleepTasks : next[t] = "null"
  /\ master \in {"reset", "switch"} => next[index] = "job" /\ next[Prev] = "null"
  /\ master = "switch" => sleeping[Prev] = 0
  /\ master \in {"notify", "join"} => next[Prev] = "job" /\ next[index] = "null"

\* The job on the master's stack.
Jobs ==
  /\ master = "user" => job = NoJob
  /\ master \notin {"user", "spawn"} => job.kind # "none"
  /\ job.kind = "none" => job = NoJob
  /\ job.kind = "shutdown" => requested = job.n /\ job.n < nworkers

PoolInv == TypeOK /\ Places /\ Resting /\ Spawning /\ Running /\ Counts /\ NextTask /\ Jobs
-----------------------------------------------------------------------------
(***************************************************************************)
(* Counting workers.                                                       *)
(***************************************************************************)
\* The steps below add a worker to a set, or take one out.
LEMMA SetOfWorkers ==
  ASSUME NEW S \in SUBSET Workers
  PROVE  IsFiniteSet(S) /\ Cardinality(S) \in 0 .. MaxThreads
<1>1. IsFiniteSet(Workers) /\ Cardinality(Workers) = MaxThreads
  BY MaxThreadsAssumption, FS_Interval DEF Workers
<1>2. IsFiniteSet(S) /\ Cardinality(S) <= Cardinality(Workers)
  BY <1>1, FS_Subset
<1>3. Cardinality(S) \in Nat
  BY <1>2, FS_CardinalityType
<1>4. QED
  BY <1>1, <1>2, <1>3, MaxThreadsAssumption

LEMMA OneMore ==
  ASSUME NEW S \in SUBSET Workers, NEW i \in Workers \ S
  PROVE  Cardinality(S \cup {i}) = Cardinality(S) + 1 /\ Cardinality(S) + 1 <= MaxThreads
<1>1. Cardinality(S \cup {i}) = Cardinality(S) + 1
  BY SetOfWorkers, FS_AddElement
<1>2. S \cup {i} \in SUBSET Workers
  OBVIOUS
<1>3. Cardinality(S \cup {i}) \in 0 .. MaxThreads
  BY <1>2, SetOfWorkers
<1>4. QED
  BY <1>1, <1>3, MaxThreadsAssumption

LEMMA OneLess ==
  ASSUME NEW S \in SUBSET Workers, NEW i \in S
  PROVE  Cardinality(S \ {i}) = Cardinality(S) - 1 /\ Cardinality(S) >= 1
<1>1. S \ {i} \in SUBSET Workers /\ i \in Workers \ (S \ {i}) /\ (S \ {i}) \cup {i} = S
  OBVIOUS
<1>2. Cardinality(S) = Cardinality(S \ {i}) + 1
  BY <1>1, OneMore
<1>3. Cardinality(S \ {i}) \in 0 .. MaxThreads
  BY <1>1, SetOfWorkers
<1>4. QED
  BY <1>2, <1>3, MaxThreadsAssumption

LEMMA FirstWorkers ==
  ASSUME NEW n \in 0 .. MaxThreads
  PROVE  0 .. n - 1 \subseteq Workers /\ Cardinality(0 .. n - 1) = n
<1>1. n \in Nat /\ n <= MaxThreads
  BY MaxThreadsAssumption
<1>2. Cardinality(0 .. n - 1) = n
  BY <1>1, FS_Interval
<1>3. 0 .. n - 1 \subseteq Workers
  BY <1>1, MaxThreadsAssumption DEF Workers
<1>4. QED
  BY <1>2, <1>3

\* As many as all of the first n: all of them.
LEMMA AllCounted ==
  ASSUME NEW n \in 0 .. MaxThreads, NEW S \in SUBSET (0 .. n - 1), Cardinality(S) >= n
  PROVE  S = 0 .. n - 1
<1>1. IsFiniteSet(0 .. n - 1) /\ Cardinality(0 .. n - 1) = n
  BY FirstWorkers, SetOfWorkers
<1>2. Cardinality(S) <= Cardinality(0 .. n - 1) /\ Cardinality(S) \in Nat
  BY <1>1, FS_Subset, FS_CardinalityType
<1>3. Cardinality(S) = Cardinality(0 .. n - 1)
  BY <1>1, <1>2, MaxThreadsAssumption
<1>4. QED
  BY <1>1, <1>3, FS_Subset

\* The workers that have been created are the first nworkers; all others are in no set.
LEMMA Living ==
  ASSUME PoolInv
  PROVE  /\ \A i \in Workers : pc[i] # "none" <=> i \in 0 .. nworkers - 1
         /\ \A t \in SleepTasks : In(t) \subseteq 0 .. nworkers - 1 /\ In(t) \in SUBSET Workers
         /\ Left \subseteq 0 .. nworkers - 1 /\ Left \in SUBSET Workers
         /\ nworkers \in 0 .. MaxThreads /\ MaxThreads \in Nat /\ nworkers \in Nat
         /\ index \in SleepTasks /\ Prev \in SleepTasks /\ Prev # index
<1>1. nworkers \in 0 .. MaxThreads /\ MaxThreads \in Nat /\ nworkers \in Nat
  BY MaxThreadsAssumption DEF PoolInv, TypeOK
<1>2. \A i \in Workers : pc[i] # "none" <=> i \in 0 .. nworkers - 1
  BY <1>1 DEF PoolInv, Places, Workers
<1>3. index \in SleepTasks /\ Prev \in SleepTasks /\ Prev # index
  BY DEF PoolInv, TypeOK, SleepTasks, Prev
<1>4. QED
  BY <1>1, <1>2, <1>3 DEF In, Left
-----------------------------------------------------------------------------
(***************************************************************************)
(* The steps of the workers.  The lemma XKeeps says that step X preserves  *)
(* PoolInv.                                                                *)
(***************************************************************************)
\* A step of worker i within the job.
LEMMA InsideJob ==
  ASSUME PoolInv, NEW i \in Workers, job.kind # "shutdown",
         scheduler[i] = "job", pc[i] \in {"fetch", "call", "catch", "abort"},
         NEW l \in {"fetch", "call", "catch", "abort"}, pc' = [pc EXCEPT ![i] = l],
         UNCHANGED <<poolVars, job, index, next, sleeping, master, scheduler, task>>,
         saved' \in {"none", "current", "earlier"}, done' \in [Workers -> BOOLEAN],
         calls' \in [Workers -> Nat], failed' \subseteq Workers, UNCHANGED outcome
  PROVE  PoolInv'
<1>1. master \in {"notify", "join"}
  BY DEF PoolInv, Places, Running
<1>2. UNCHANGED <<nworkers, requested, job, index, next, sleeping, master, scheduler, task>>
  BY DEF poolVars
<1>3. /\ \A k \in Workers : pc'[k] = IF k = i THEN l ELSE pc[k]
      /\ pc' \in [Workers -> {"none", "fetch", "call", "catch", "abort", "shutdown", "exited",
                              "drowsy", "asleep", "woken"}]
  BY DEF PoolInv, TypeOK
<1>4. /\ \A t \in SleepTasks : In(t)' = In(t)
      /\ Left' = Left /\ Prev' = Prev /\ \A k \in Workers : Waits(k)' <=> Waits(k)
  BY <1>2, <1>3 DEF In, Left, Prev, Waits
<1>5. TypeOK'
  BY <1>2, <1>3 DEF PoolInv, TypeOK
<1>6. Places'
  BY <1>1, <1>2, <1>3 DEF PoolInv, Places
<1>7. Resting' /\ Spawning'
  BY <1>1, <1>2 DEF Resting, Spawning
<1>8. Running' /\ Counts'
  <2>1. index \in SleepTasks /\ Prev \in SleepTasks
    BY Living
  <2>2. Counts'
    BY <1>1, <1>2, <1>4, <2>1 DEF PoolInv, Counts
  <2>3. Running'
    BY <1>1, <1>2, <1>3, <1>4, <2>1 DEF PoolInv, Running
  <2>4. QED
    BY <2>2, <2>3
<1>9. NextTask' /\ Jobs'
  BY <1>2 DEF PoolInv, NextTask, Jobs, Prev, NoJob
<1>10. QED
  BY <1>5, <1>6, <1>7, <1>8, <1>9 DEF PoolInv

\* ... and its way back to the controller.
LEMMA BackToController ==
  ASSUME PoolInv, NEW i \in Workers, SwitchToController(i),
         job.kind = "shutdown" => i < job.n
  PROVE  PoolInv'
<1>1. pc[i] = "fetch" /\ scheduler[i] = "job" /\ master \in {"notify", "join"}
  BY DEF SwitchToController, InJob, PoolInv, Places, Running, In, Left
<1>2. UNCHANGED <<nworkers, requested, job, done, index, next, sleeping, saved, master, pc,
                  task, calls, failed, outcome>>
  BY DEF SwitchToController, poolVars, jobVars, controller, history
<1>3. /\ \A k \in Workers : scheduler'[k] = IF k = i THEN "controller" ELSE scheduler[k]
      /\ scheduler' \in [Workers -> {"null", "controller", "job"}]
  BY DEF PoolInv, TypeOK, SwitchToController
<1>4. /\ \A t \in SleepTasks : In(t)' = In(t)
      /\ Left' = Left /\ Prev' = Prev /\ \A k \in Workers : Waits(k)' <=> Waits(k)
  BY <1>2 DEF In, Left, Prev, Waits
<1>5. TypeOK'
  BY <1>2, <1>3 DEF PoolInv, TypeOK
<1>6. Places'
  BY <1>1, <1>2, <1>3 DEF PoolInv, Places
<1>7. Resting' /\ Spawning'
  BY <1>1, <1>2 DEF Resting, Spawning
<1>8. Running' /\ Counts'
  <2>1. index \in SleepTasks /\ Prev \in SleepTasks /\ i \in Int /\ job.n \in Int
    BY Living, MaxThreadsAssumption DEF Workers, PoolInv, TypeOK
  <2>2. Counts'
    BY <1>1, <1>2, <1>4, <2>1 DEF PoolInv, Counts
  <2>3. Running'
    BY <1>1, <1>2, <1>3, <1>4, <2>1 DEF PoolInv, Running
  <2>4. QED
    BY <2>2, <2>3
<1>9. NextTask' /\ Jobs'
  BY <1>2 DEF PoolInv, NextTask, Jobs, Prev, NoJob
<1>10. QED
  BY <1>5, <1>6, <1>7, <1>8, <1>9 DEF PoolInv

\* A worker is taken out by the shutdown, and counted as one that sleeps.
LEMMA FetchShutdownKeeps == ASSUME PoolInv, NEW i \in Workers, FetchShutdown(i) PROVE PoolInv'
<1>1. /\ pc[i] = "fetch" /\ scheduler[i] = "job" /\ master \in {"notify", "join"}
      /\ job.kind = "shutdown" /\ i >= job.n
  BY DEF FetchShutdown, InJob, ShutdownHasTask, PoolInv, Places, Running, In, Left
<1>2. UNCHANGED <<nworkers, requested, job, done, index, next, saved, master, scheduler,
                  task, calls, failed, outcome>>
  BY DEF FetchShutdown, poolVars, jobVars, history
<1>3. /\ \A k \in Workers : pc'[k] = IF k = i THEN "shutdown" ELSE pc[k]
      /\ pc' \in [Workers -> {"none", "fetch", "call", "catch", "abort", "shutdown", "exited",
                              "drowsy", "asleep", "woken"}]
  BY DEF PoolInv, TypeOK, FetchShutdown, Goto
<1>4. /\ \A t \in SleepTasks : In(t)' = In(t)
      /\ Left' = Left \cup {i} /\ Prev' = Prev /\ \A k \in Workers : Waits(k)' <=> Waits(k)
  BY <1>1, <1>2, <1>3 DEF In, Left, Prev, Waits
<1>5. index \in SleepTasks /\ Prev \in SleepTasks /\ Prev # index
  BY Living
<1>6. i \notin In(index) \cup Left /\ In(index) \cup Left \in SUBSET Workers
  BY <1>1 DEF In, Left
<1>7. /\ sleeping'[index] = Cardinality(In(index) \cup Left) + 1
      /\ sleeping'[Prev] = sleeping[Prev]
      /\ \A t \in SleepTasks : sleeping'[t] = IF t = index THEN sleeping[t] + 1 ELSE sleeping[t]
      /\ sleeping' = [t \in SleepTasks |-> sleeping'[t]]
  BY <1>1, <1>5 DEF FetchShutdown, PoolInv, TypeOK, Counts
<1>8. Cardinality((In(index) \cup Left) \cup {i}) = Cardinality(In(index) \cup Left) + 1
      /\ sleeping'[index] \in 0 .. MaxThreads
  <2>1. /\ Cardinality((In(index) \cup Left) \cup {i}) = Cardinality(In(index) \cup Left) + 1
        /\ Cardinality(In(index) \cup Left) + 1 <= MaxThreads
    BY <1>6, OneMore
  <2>2. Cardinality(In(index) \cup Left) \in 0 .. MaxThreads
    BY <1>6, SetOfWorkers
  <2>3. QED
    BY <1>7, <2>1, <2>2, MaxThreadsAssumption
<1>9. TypeOK'
  <2>1. \A t \in SleepTasks : sleeping'[t] \in 0 .. MaxThreads
    BY <1>7, <1>8 DEF PoolInv, TypeOK
  <2>2. sleeping' \in [SleepTasks -> 0 .. MaxThreads]
    BY <1>7, <2>1
  <2>3. QED
    BY <1>2, <1>3, <2>2 DEF PoolInv, TypeOK
<1>10. Places'
  BY <1>1, <1>2, <1>3 DEF PoolInv, Places
<1>11. Resting' /\ Spawning'
  BY <1>1, <1>2 DEF Resting, Spawning
<1>12. Counts'
  <2>1. (In(index) \cup Left)' = (In(index) \cup Left) \cup {i}
    BY <1>2, <1>4, <1>5
  <2>2. In(Prev)' = In(Prev)
    BY <1>2, <1>4, <1>5
  <2>3. QED
    BY <1>1, <1>2, <1>4, <1>5, <1>7, <1>8, <2>1, <2>2 DEF PoolInv, Counts
<1>13. Running'
  BY <1>1, <1>2, <1>3, <1>4, <1>5 DEF PoolInv, Running
<1>14. NextTask' /\ Jobs'
  BY <1>1, <1>2 DEF PoolInv, NextTask, Jobs, Prev, NoJob
<1>15. QED
  BY <1>9, <1>10, <1>11, <1>12, <1>13, <1>14 DEF PoolInv

\* A step that changes neither the counts nor who is counted.
LEMMA ExitThreadKeeps == ASSUME PoolInv, NEW i \in Workers, ExitThread(i) PROVE PoolInv'
<1>1. /\ pc[i] = "shutdown" /\ scheduler[i] = "job" /\ master \in {"notify", "join", "reap"}
  BY DEF ExitThread, PoolInv, Places
<1>2. UNCHANGED <<nworkers, requested, job, done, index, next, sleeping, saved, master,
                  task, calls, failed, outcome>>
  BY DEF ExitThread, poolVars, jobVars, controller, history
<1>3. /\ \A k \in Workers : pc'[k] = IF k = i THEN "exited" ELSE pc[k]
      /\ \A k \in Workers : scheduler'[k] = IF k = i THEN "null" ELSE scheduler[k]
      /\ pc' \in [Workers -> {"none", "fetch", "call", "catch", "abort", "shutdown", "exited",
                              "drowsy", "asleep", "woken"}]
      /\ scheduler' \in [Workers -> {"null", "controller", "job"}]
  BY DEF PoolInv, TypeOK, ExitThread, Goto
<1>4. /\ \A t \in SleepTasks : In(t)' = In(t)
      /\ Left' = Left /\ Prev' = Prev /\ \A k \in Workers : Waits(k)' <=> Waits(k)
  BY <1>1, <1>2, <1>3 DEF In, Left, Prev, Waits
<1>5. index \in SleepTasks /\ Prev \in SleepTasks /\ Prev # index
  BY Living
<1>6. TypeOK'
  BY <1>2, <1>3 DEF PoolInv, TypeOK
<1>7. Places'
  BY <1>1, <1>2, <1>3 DEF PoolInv, Places
<1>8. Resting' /\ Spawning'
  BY <1>1, <1>2 DEF Resting, Spawning
<1>9. Counts'
  BY <1>1, <1>2, <1>4, <1>5 DEF PoolInv, Counts
<1>10. Running'
  BY <1>1, <1>2, <1>3, <1>4, <1>5 DEF PoolInv, Running
<1>11. NextTask' /\ Jobs'
  BY <1>1, <1>2 DEF PoolInv, NextTask, Jobs, Prev, NoJob
<1>12. QED
  BY <1>6, <1>7, <1>8, <1>9, <1>10, <1>11 DEF PoolInv

LEMMA FetchSleepKeeps == ASSUME PoolInv, NEW i \in Workers, FetchSleep(i) PROVE PoolInv'
<1>1. /\ pc[i] = "fetch" /\ scheduler[i] = "controller" /\ master \in {"spawn", "notify", "join"}
  BY DEF FetchSleep, PoolInv, TypeOK, Resting, Running, In, Left
<1>2. UNCHANGED <<nworkers, requested, job, done, index, next, sleeping, saved, master,
                  scheduler, calls, failed, outcome>>
  BY DEF FetchSleep, poolVars, jobVars, controller, history
<1>3. /\ \A k \in Workers : pc'[k] = IF k = i THEN "drowsy" ELSE pc[k]
      /\ \A k \in Workers : task'[k] = IF k = i THEN index ELSE task[k]
      /\ pc' \in [Workers -> {"none", "fetch", "call", "catch", "abort", "shutdown", "exited",
                              "drowsy", "asleep", "woken"}]
      /\ task' \in [Workers -> SleepTasks]
  BY DEF PoolInv, TypeOK, FetchSleep, Goto
<1>4. /\ \A t \in SleepTasks : In(t)' = In(t)
      /\ Left' = Left /\ Prev' = Prev /\ \A k \in Workers : Waits(k)' <=> Waits(k)
  BY <1>1, <1>2, <1>3 DEF In, Left, Prev, Waits
<1>5. index \in SleepTasks /\ Prev \in SleepTasks /\ Prev # index
  BY Living
<1>6. TypeOK'
  BY <1>2, <1>3 DEF PoolInv, TypeOK
<1>7. Places'
  BY <1>1, <1>2, <1>3 DEF PoolInv, Places
<1>8. Resting' /\ Spawning'
  BY <1>1, <1>2, <1>3 DEF PoolInv, Resting, Spawning
<1>9. Counts'
  BY <1>1, <1>2, <1>4, <1>5 DEF PoolInv, Counts
<1>10. Running'
  BY <1>1, <1>2, <1>3, <1>4, <1>5 DEF PoolInv, Running
<1>11. NextTask' /\ Jobs'
  BY <1>1, <1>2 DEF PoolInv, NextTask, Jobs, Prev, NoJob
<1>12. QED
  BY <1>6, <1>7, <1>8, <1>9, <1>10, <1>11 DEF PoolInv

LEMMA SpuriousWakeKeeps == ASSUME PoolInv, NEW i \in Workers, SpuriousWake(i) PROVE PoolInv'
<1>1. pc[i] = "asleep"
  BY DEF SpuriousWake
<1>2. UNCHANGED <<nworkers, requested, job, done, index, next, sleeping, saved, master,
                  scheduler, task, calls, failed, outcome>>
  BY DEF SpuriousWake, poolVars, jobVars, controller, history
<1>3. /\ \A k \in Workers : pc'[k] = IF k = i THEN "woken" ELSE pc[k]
      /\ pc' \in [Workers -> {"none", "fetch", "call", "catch", "abort", "shutdown", "exited",
                              "drowsy", "asleep", "woken"}]
  BY DEF PoolInv, TypeOK, SpuriousWake, Goto
<1>4. /\ \A t \in SleepTasks : In(t)' = In(t)
      /\ Left' = Left /\ Prev' = Prev /\ \A k \in Workers : Waits(k)' <=> Waits(k)
  BY <1>1, <1>2, <1>3 DEF In, Left, Prev, Waits
<1>5. index \in SleepTasks /\ Prev \in SleepTasks /\ Prev # index
  BY Living
<1>6. TypeOK'
  BY <1>2, <1>3 DEF PoolInv, TypeOK
<1>7. Places'
  BY <1>1, <1>2, <1>3 DEF PoolInv, Places
<1>8. Resting' /\ Spawning'
  BY <1>1, <1>2, <1>3 DEF PoolInv, Resting, Spawning
<1>9. Counts'
  BY <1>1, <1>2, <1>4, <1>5 DEF PoolInv, Counts
<1>10. Running'
  BY <1>1, <1>2, <1>3, <1>4, <1>5 DEF PoolInv, Running
<1>11. NextTask' /\ Jobs'
  BY <1>1, <1>2 DEF PoolInv, NextTask, Jobs, Prev, NoJob
<1>12. QED
  BY <1>6, <1>7, <1>8, <1>9, <1>10, <1>11 DEF PoolInv

LEMMA FallAsleepKeeps == ASSUME PoolInv, NEW i \in Workers, FallAsleep(i) PROVE PoolInv'
<1>1. /\ pc[i] = "drowsy" /\ scheduler[i] = "controller" /\ master \in {"spawn", "notify", "join"}
      /\ task[i] = index
  BY DEF FallAsleep, PoolInv, TypeOK, Places, Resting, Spawning, Running, In, Left
<1>2. index \in SleepTasks /\ Prev \in SleepTasks /\ Prev # index
  BY Living
<1>3. next[index] = "null"
  BY <1>1, <1>2 DEF PoolInv, NextTask
<1>4. UNCHANGED <<nworkers, requested, job, done, index, next, saved, master, task,
                  scheduler, calls, failed, outcome>>
  BY <1>1, <1>3 DEF FallAsleep, WaitOrTake, poolVars, jobVars, history
<1>5. /\ \A k \in Workers : pc'[k] = IF k = i THEN "asleep" ELSE pc[k]
      /\ pc' \in [Workers -> {"none", "fetch", "call", "catch", "abort", "shutdown", "exited",
                              "drowsy", "asleep", "woken"}]
  BY <1>1, <1>3 DEF PoolInv, TypeOK, FallAsleep, WaitOrTake, Goto
<1>6. /\ sleeping' = [t \in SleepTasks |-> sleeping'[t]]
      /\ \A t \in SleepTasks : sleeping'[t] = IF t = index THEN sleeping[t] + 1 ELSE sleeping[t]
  BY <1>1, <1>2, <1>3 DEF FallAsleep, WaitOrTake, PoolInv, TypeOK
<1>7. /\ \A t \in SleepTasks : In(t)' = IF t = index THEN In(t) \cup {i} ELSE In(t)
      /\ Left' = Left /\ Prev' = Prev /\ \A k \in Workers : Waits(k)' <=> Waits(k)
      /\ i \notin In(index) \cup Left /\ In(index) \in SUBSET Workers
      /\ In(index) \cup Left \in SUBSET Workers
  BY <1>1, <1>2, <1>4, <1>5 DEF In, Left, Prev, Waits
<1>8. /\ (In(index) \cup Left)' = (In(index) \cup Left) \cup {i}
      /\ In(index)' = In(index) \cup {i} /\ In(Prev)' = In(Prev)
  BY <1>2, <1>4, <1>7
<1>9. /\ Cardinality(In(index) \cup {i}) = Cardinality(In(index)) + 1
      /\ Cardinality((In(index) \cup Left) \cup {i}) = Cardinality(In(index) \cup Left) + 1
      /\ Cardinality(In(index)) + 1 <= MaxThreads
      /\ Cardinality(In(index) \cup Left) + 1 <= MaxThreads
      /\ Cardinality(In(index)) \in 0 .. MaxThreads
      /\ Cardinality(In(index) \cup Left) \in 0 .. MaxThreads
  BY <1>7, OneMore, SetOfWorkers
<1>10. TypeOK'
  <2>1. sleeping[index] + 1 \in 0 .. MaxThreads
    BY <1>1, <1>9, MaxThreadsAssumption DEF PoolInv, Counts
  <2>2. \A t \in SleepTasks : sleeping'[t] \in 0 .. MaxThreads
    BY <1>6, <2>1 DEF PoolInv, TypeOK
  <2>3. sleeping' \in [SleepTasks -> 0 .. MaxThreads]
    BY <1>6, <2>2
  <2>4. QED
    BY <1>4, <1>5, <2>3 DEF PoolInv, TypeOK
<1>11. Places'
  BY <1>1, <1>4, <1>5 DEF PoolInv, Places
<1>12. Resting' /\ Spawning'
  BY <1>1, <1>4, <1>5 DEF PoolInv, Resting, Spawning
<1>13. Counts'
  <2>1. sleeping'[index] = sleeping[index] + 1 /\ sleeping'[Prev] = sleeping[Prev]
    BY <1>2, <1>6
  <2>2. QED
    BY <1>1, <1>4, <1>7, <1>8, <1>9, <2>1 DEF PoolInv, Counts
<1>14. Running'
  <2>1. ~Waits(i) /\ i \notin Left
    BY <1>1 DEF Waits, Left
  <2>2. ASSUME master \in {"notify", "join"}
        PROVE  \A k \in Workers :
                 /\ pc'[k] = "drowsy" => task[k] = index
                 /\ Waits(k)' => (pc'[k] = "asleep" => master = "notify")
                 /\ k \in Left => job.kind = "shutdown" /\ k >= job.n
                 /\ job.kind = "shutdown" /\ k >= job.n /\ pc'[k] # "none"
                      /\ scheduler[k] = "controller" => Waits(k)
                 /\ job.kind = "shutdown" => pc'[k] \notin {"call", "catch", "abort"}
    BY <1>1, <1>5, <1>7, <2>1, <2>2 DEF PoolInv, Running
  <2>3. QED
    BY <1>1, <1>4, <1>7, <2>2 DEF PoolInv, Running
<1>15. NextTask' /\ Jobs'
  BY <1>1, <1>2, <1>4, <1>6 DEF PoolInv, NextTask, Jobs, Prev, NoJob
<1>16. QED
  BY <1>10, <1>11, <1>12, <1>13, <1>14, <1>15 DEF PoolInv

\* A thread that has been woken: back to sleep, for no reason or too early ...
LEMMA SleepOnKeeps ==
  ASSUME PoolInv, NEW i \in Workers, WakeUp(i), next[task[i]] = "null" PROVE PoolInv'
<1>1. pc[i] = "woken" /\ scheduler[i] = "controller" /\ task[i] \in SleepTasks
      /\ (master \in {"notify", "join"} => task[i] = index)
  BY DEF WakeUp, PoolInv, TypeOK, Places, NextTask, SleepTasks, Prev
<1>2. UNCHANGED <<nworkers, requested, job, done, index, next, saved, master, task,
                  scheduler, calls, failed, outcome>>
  BY DEF WakeUp, WaitOrTake, poolVars, jobVars, history
<1>3. /\ \A k \in Workers : pc'[k] = IF k = i THEN "asleep" ELSE pc[k]
      /\ pc' \in [Workers -> {"none", "fetch", "call", "catch", "abort", "shutdown", "exited",
                              "drowsy", "asleep", "woken"}]
      /\ sleeping' = sleeping
  BY <1>1 DEF PoolInv, TypeOK, WakeUp, WaitOrTake, Goto
<1>4. /\ \A t \in SleepTasks : In(t)' = In(t)
      /\ Left' = Left /\ Prev' = Prev /\ \A k \in Workers : Waits(k)' <=> Waits(k)
  BY <1>1, <1>2, <1>3 DEF In, Left, Prev, Waits
<1>5. index \in SleepTasks /\ Prev \in SleepTasks /\ Prev # index
  BY Living
<1>6. TypeOK'
  BY <1>2, <1>3 DEF PoolInv, TypeOK
<1>7. Places'
  BY <1>1, <1>2, <1>3 DEF PoolInv, Places
<1>8. Resting' /\ Spawning'
  BY <1>1, <1>2, <1>3 DEF PoolInv, Resting, Spawning
<1>9. Counts'
  BY <1>1, <1>2, <1>3, <1>4, <1>5 DEF PoolInv, Counts
<1>10. Running'
  BY <1>1, <1>2, <1>3, <1>4, <1>5 DEF PoolInv, Running, Waits
<1>11. NextTask' /\ Jobs'
  BY <1>1, <1>2, <1>3 DEF PoolInv, NextTask, Jobs, Prev, NoJob
<1>12. QED
  BY <1>6, <1>7, <1>8, <1>9, <1>10, <1>11 DEF PoolInv

\* ... or into the job.
LEMMA TakeJobKeeps ==
  ASSUME PoolInv, NEW i \in Workers, WakeUp(i), next[task[i]] # "null" PROVE PoolInv'
<1>1. /\ pc[i] = "woken" /\ scheduler[i] = "controller" /\ task[i] \in SleepTasks
      /\ index \in SleepTasks /\ Prev \in SleepTasks /\ Prev # index
  BY Living DEF WakeUp, PoolInv, TypeOK, Places
<1>2. master \in {"notify", "join"} /\ task[i] = Prev
  <2>1. ~Held(task[i])
    BY DEF WakeUp, WaitOrTake
  <2>2. master \notin {"reset", "switch"}
    BY <1>1, <2>1 DEF Held, PoolInv, Resting
  <2>3. QED
    BY <1>1, <2>2 DEF PoolInv, TypeOK, NextTask, SleepTasks, Prev
<1>3. UNCHANGED <<nworkers, requested, job, done, index, next, saved, master, task,
                  calls, failed, outcome>>
  BY DEF WakeUp, WaitOrTake, poolVars, jobVars, history
<1>4. /\ \A k \in Workers : pc'[k] = IF k = i THEN "fetch" ELSE pc[k]
      /\ \A k \in Workers : scheduler'[k] = IF k = i THEN "job" ELSE scheduler[k]
      /\ pc' \in [Workers -> {"none", "fetch", "call", "catch", "abort", "shutdown", "exited",
                              "drowsy", "asleep", "woken"}]
      /\ scheduler' \in [Workers -> {"null", "controller", "job"}]
  BY <1>1 DEF PoolInv, TypeOK, WakeUp, WaitOrTake, Goto
<1>5. /\ sleeping' = [t \in SleepTasks |-> sleeping'[t]]
      /\ \A t \in SleepTasks : sleeping'[t] = IF t = Prev THEN sleeping[t] - 1 ELSE sleeping[t]
  BY <1>1, <1>2 DEF WakeUp, WaitOrTake, PoolInv, TypeOK
<1>6. /\ In(index)' = In(index) /\ In(Prev)' = In(Prev) \ {i} /\ Left' = Left /\ Prev' = Prev
      /\ \A k \in Workers : Waits(k)' => Waits(k)
      /\ \A k \in Workers \ {i} : Waits(k)' <=> Waits(k)
      /\ i \in In(Prev) /\ In(Prev) \in SUBSET Workers
  BY <1>1, <1>2, <1>3, <1>4 DEF In, Left, Prev, Waits
<1>7. /\ Cardinality(In(Prev) \ {i}) = Cardinality(In(Prev)) - 1
      /\ Cardinality(In(Prev)) >= 1 /\ Cardinality(In(Prev)) \in 0 .. MaxThreads
      /\ sleeping[Prev] >= Cardinality(In(Prev)) /\ sleeping[Prev] \in 0 .. MaxThreads
      /\ MaxThreads \in Nat
  BY <1>1, <1>2, <1>6, OneLess, SetOfWorkers, MaxThreadsAssumption DEF PoolInv, TypeOK, Counts
<1>8. TypeOK'
  <2>1. sleeping[Prev] - 1 \in 0 .. MaxThreads
    BY <1>7
  <2>2. \A t \in SleepTasks : sleeping'[t] \in 0 .. MaxThreads
    BY <1>5, <2>1 DEF PoolInv, TypeOK
  <2>3. sleeping' \in [SleepTasks -> 0 .. MaxThreads]
    BY <1>5, <2>2
  <2>4. QED
    BY <1>3, <1>4, <2>3 DEF PoolInv, TypeOK
<1>9. Places'
  BY <1>1, <1>2, <1>3, <1>4 DEF PoolInv, Places
<1>10. Resting' /\ Spawning'
  BY <1>2, <1>3 DEF PoolInv, Resting, Spawning
<1>11. Counts'
  <2>1. sleeping'[index] = sleeping[index] /\ sleeping'[Prev] = sleeping[Prev] - 1
    BY <1>1, <1>5
  <2>2. sleeping'[Prev] >= Cardinality(In(Prev) \ {i})
    BY <1>7, <2>1
  <2>3. sleeping'[index] = Cardinality(In(index) \cup Left)
    BY <1>2, <2>1 DEF PoolInv, Counts
  <2>4. index' = index /\ (In(index) \cup Left)' = In(index) \cup Left
        /\ In(Prev)' = In(Prev) \ {i} /\ master' = master /\ Prev' = Prev
    BY <1>3, <1>6
  <2>5. QED
    BY <1>2, <2>2, <2>3, <2>4 DEF Counts
<1>12. Running'
  BY <1>1, <1>2, <1>3, <1>4, <1>6 DEF PoolInv, Running
<1>13. NextTask' /\ Jobs'
  BY <1>2, <1>3 DEF PoolInv, NextTask, Jobs, Prev, NoJob
<1>14. QED
  BY <1>8, <1>9, <1>10, <1>11, <1>12, <1>13 DEF PoolInv

LEMMA SleepStepKeeps == ASSUME PoolInv, NEW i \in Workers, SleepStep(i) PROVE PoolInv'
BY FetchShutdownKeeps, ExitThreadKeeps, FetchSleepKeeps, FallAsleepKeeps, SleepOnKeeps,
   TakeJobKeeps DEF SleepStep

LEMMA JobStepKeeps ==
  ASSUME PoolInv, NEW i \in Workers,
         TurnToSleep(i) \/ FetchCall(i) \/ Return(i) \/ Throw(i) \/ Catch(i) \/ Abort(i)
  PROVE  PoolInv'
<1>1. CASE TurnToSleep(i)
  <2>1. job.kind = "shutdown" => i < job.n
    BY <1>1, MaxThreadsAssumption
       DEF TurnToSleep, NoMoreTasks, ShutdownHasTask, Workers, PoolInv, TypeOK
  <2>2. QED
    BY <1>1, <2>1, BackToController DEF TurnToSleep
<1>2. CASE FetchCall(i)
  <2>1. done' \in [Workers -> BOOLEAN] /\ calls' \in [Workers -> Nat]
    BY <1>2 DEF FetchCall, PoolInv, TypeOK
  <2>2. QED
    BY <1>2, <2>1, InsideJob DEF FetchCall, InJob, Goto, controller, PoolInv, TypeOK
<1>3. CASE Return(i) \/ Throw(i) \/ Catch(i) \/ Abort(i)
  <2>1. pc[i] \in {"call", "catch", "abort"} /\ scheduler[i] = "job" /\ job.kind # "shutdown"
    <3>1. pc[i] \in {"call", "catch", "abort"} /\ scheduler[i] = "job"
      BY <1>3 DEF Return, Throw, Catch, Abort, EndCall, PoolInv, Places
    <3>2. QED
      BY <3>1 DEF PoolInv, Places, Running
  <2>2. \E l \in {"fetch", "call", "catch", "abort"} : pc' = [pc EXCEPT ![i] = l]
    BY <1>3 DEF Return, Throw, Catch, Abort, EndCall, Goto
  <2>3. /\ UNCHANGED <<poolVars, job, done, index, next, sleeping, master, scheduler, task, calls,
                       outcome>>
        /\ saved' \in {"none", "current", "earlier"} /\ failed' \subseteq Workers
    BY <1>3 DEF Return, Throw, Catch, Abort, EndCall, jobVars, controller, history, PoolInv, TypeOK
  <2>4. QED
    BY <2>1, <2>2, <2>3, InsideJob DEF PoolInv, TypeOK
<1>4. QED
  BY <1>1, <1>2, <1>3
-----------------------------------------------------------------------------
(***************************************************************************)
(* The steps of the master, and of whoever calls it.                       *)
(***************************************************************************)
LEMMA SpawnKeeps == ASSUME PoolInv, Spawn PROVE PoolInv'
<1>1. /\ master = "spawn" /\ nworkers < requested /\ nworkers \in Nat /\ MaxThreads \in Nat
      /\ requested \in Nat /\ requested <= MaxThreads /\ job.kind # "shutdown"
  BY Living DEF Spawn, PoolInv, TypeOK, Spawning
<1>2. nworkers \in Workers /\ pc[nworkers] = "none"
  BY <1>1 DEF Workers, PoolInv, Places
<1>3. UNCHANGED <<requested, job, done, index, next, sleeping, saved, master, task, calls, failed,
                  outcome>> /\ nworkers' = nworkers + 1
  BY DEF Spawn, jobVars, controller, history
<1>4. /\ \A k \in Workers : pc'[k] = IF k = nworkers THEN "fetch" ELSE pc[k]
      /\ \A k \in Workers : scheduler'[k] = IF k = nworkers THEN "controller" ELSE scheduler[k]
      /\ pc' \in [Workers -> {"none", "fetch", "call", "catch", "abort", "shutdown", "exited",
                              "drowsy", "asleep", "woken"}]
      /\ scheduler' \in [Workers -> {"null", "controller", "job"}]
  BY <1>2 DEF PoolInv, TypeOK, Spawn, Goto
<1>5. index \in SleepTasks /\ In(index)' = In(index)
  BY <1>2, <1>3, <1>4, Living DEF In
<1>6. TypeOK'
  BY <1>1, <1>3, <1>4 DEF PoolInv, TypeOK
<1>7. Places'
  <2>1. \A k \in Workers : k >= nworkers + 1 <=> (k >= nworkers /\ k # nworkers)
    BY <1>1 DEF Workers
  <2>2. QED
    BY <1>1, <1>2, <1>3, <1>4, <2>1 DEF PoolInv, Places
<1>8. Resting' /\ Running' /\ NextTask' /\ Jobs'
  BY <1>1, <1>3 DEF PoolInv, Resting, Running, NextTask, Jobs, Prev, NoJob
<1>9. Spawning'
  BY <1>1, <1>2, <1>3, <1>4 DEF PoolInv, Spawning
<1>10. Counts'
  BY <1>1, <1>3, <1>5 DEF PoolInv, Counts
<1>11. QED
  BY <1>6, <1>7, <1>8, <1>9, <1>10 DEF PoolInv

LEMMA SpawnFailsKeeps == ASSUME PoolInv, SpawnFails PROVE PoolInv'
<1>1. master = "spawn" /\ nworkers \in 0 .. MaxThreads /\ nworkers \in Nat /\ job.kind # "shutdown"
  BY Living DEF SpawnFails, PoolInv, Spawning
<1>2. UNCHANGED <<nworkers, job, done, index, next, sleeping, saved, master, pc, scheduler, task,
                  calls, failed, outcome>> /\ requested' = nworkers
  BY DEF SpawnFails, jobVars, controller, threadVars, history
<1>3. In(index)' = In(index)
  BY <1>2 DEF In
<1>4. QED
  BY <1>1, <1>2, <1>3 DEF PoolInv, TypeOK, Places, Resting, Spawning, Running, Counts, NextTask,
     Jobs, Prev, NoJob

\* When join() has counted them all, every worker sleeps where it should.
LEMMA AllJoined ==
  ASSUME PoolInv, AllAsleep(nworkers),
         master = "spawn" \/ (master = "join" /\ job.kind # "shutdown")
  PROVE  /\ \A k \in Workers : pc[k] # "none" => pc[k] \in {"asleep", "woken"} /\ task[k] = index
         /\ sleeping[index] >= nworkers
<1>1. sleeping[index] >= nworkers /\ nworkers \in 0 .. MaxThreads /\ index \in SleepTasks
  BY Living DEF AllAsleep
<1>2. sleeping[index] = Cardinality(In(index))
  <2>1. CASE master = "spawn"
    BY <2>1 DEF PoolInv, Counts
  <2>2. CASE master = "join" /\ job.kind # "shutdown"
    <3>1. Left = {}
      BY <2>2 DEF PoolInv, Running, Left
    <3>2. In(index) \cup Left = In(index)
      BY <3>1
    <3>3. QED
      BY <2>2, <3>2 DEF PoolInv, Counts
  <2>3. QED
    BY <2>1, <2>2
<1>3. In(index) \subseteq 0 .. nworkers - 1
  BY <1>1, Living
<1>4. In(index) = 0 .. nworkers - 1
  BY <1>1, <1>2, <1>3, AllCounted
<1>5. QED
  BY <1>1, <1>4, Living DEF In

LEMMA JoinSpawnedKeeps == ASSUME PoolInv, JoinSpawned PROVE PoolInv'
<1>1. /\ master = "spawn" /\ job.kind # "shutdown"
      /\ \A t \in SleepTasks : next[t] = "null"
      /\ index \in SleepTasks /\ Prev \in SleepTasks
  BY Living DEF JoinSpawned, PoolInv, Spawning, NextTask
<1>2. /\ \A k \in Workers : pc[k] # "none" => pc[k] \in {"asleep", "woken"} /\ task[k] = index
      /\ sleeping[index] >= nworkers
  BY <1>1, AllJoined DEF JoinSpawned
<1>3. UNCHANGED <<nworkers, requested, done, index, sleeping, saved, pc, scheduler, task, calls,
                  failed, outcome>>
  BY DEF JoinSpawned, poolVars, threadVars, history
<1>4. /\ (master' = "lock" /\ job' = job /\ job # NoJob) \/ (master' = "user" /\ job' = NoJob)
      /\ \A t \in SleepTasks : next'[t] = "null"
      /\ next' \in [SleepTasks -> {"null", "job"}]
  BY <1>1 DEF JoinSpawned, ReturnToUser, PoolInv, TypeOK
<1>5. TypeOK'
  BY <1>3, <1>4, MaxThreadsAssumption DEF PoolInv, TypeOK, NoJob
<1>6. Places'
  BY <1>1, <1>2, <1>3, <1>4 DEF PoolInv, Places
<1>7. Resting' /\ Spawning' /\ Running' /\ Counts' /\ NextTask'
  BY <1>2, <1>3, <1>4 DEF Resting, Spawning, Running, Counts, NextTask
<1>8. Jobs'
  BY <1>1, <1>3, <1>4 DEF PoolInv, Jobs, NoJob
<1>9. QED
  BY <1>5, <1>6, <1>7, <1>8 DEF PoolInv

LEMMA PostJobKeeps == ASSUME PoolInv, PostJob PROVE PoolInv'
<1>1. /\ master = "lock" /\ index \in SleepTasks /\ Prev \in SleepTasks /\ Prev # index
      /\ \A t \in SleepTasks : next[t] = "null"
  BY Living DEF PostJob, PoolInv, NextTask
<1>2. UNCHANGED <<nworkers, requested, job, done, index, sleeping, saved, pc, scheduler, task,
                  outcome>> /\ master' = "reset"
  BY DEF PostJob, poolVars, jobVars, threadVars
<1>3. /\ next'[index] = "job" /\ next'[Prev] = "null" /\ next' \in [SleepTasks -> {"null", "job"}]
      /\ calls' \in [Workers -> Nat] /\ failed' \subseteq Workers
  BY <1>1 DEF PostJob, PoolInv, TypeOK
<1>4. TypeOK'
  BY <1>2, <1>3 DEF PoolInv, TypeOK
<1>5. Places' /\ Resting' /\ Spawning' /\ Running' /\ Counts'
  BY <1>1, <1>2 DEF PoolInv, Places, Resting, Spawning, Running, Counts
<1>6. NextTask' /\ Jobs'
  BY <1>1, <1>2, <1>3 DEF PoolInv, NextTask, Jobs, Prev, NoJob
<1>7. QED
  BY <1>4, <1>5, <1>6 DEF PoolInv

LEMMA ResetTaskKeeps == ASSUME PoolInv, ResetTask PROVE PoolInv'
<1>1. /\ master = "reset" /\ index \in SleepTasks /\ Prev \in SleepTasks /\ Prev # index
      /\ next[index] = "job" /\ MaxThreads \in Nat
  BY Living DEF ResetTask, PoolInv, NextTask
<1>2. UNCHANGED <<nworkers, requested, job, done, index, saved, pc, scheduler, task,
                  calls, failed, outcome>> /\ master' = "switch"
  BY DEF ResetTask, poolVars, jobVars, threadVars, history
<1>3. /\ next'[index] = "job" /\ next'[Prev] = "null" /\ next' \in [SleepTasks -> {"null", "job"}]
      /\ sleeping'[Prev] = 0 /\ sleeping'[index] = sleeping[index]
      /\ sleeping' \in [SleepTasks -> 0 .. MaxThreads]
  BY <1>1 DEF ResetTask, PoolInv, TypeOK
<1>4. TypeOK'
  BY <1>2, <1>3 DEF PoolInv, TypeOK
<1>5. Places' /\ Resting' /\ Spawning' /\ Running' /\ Counts'
  BY <1>1, <1>2, <1>3 DEF PoolInv, Places, Resting, Spawning, Running, Counts
<1>6. NextTask' /\ Jobs'
  BY <1>1, <1>2, <1>3 DEF PoolInv, NextTask, Jobs, Prev, NoJob
<1>7. QED
  BY <1>4, <1>5, <1>6 DEF PoolInv

LEMMA SwitchTaskKeeps == ASSUME PoolInv, SwitchTask PROVE PoolInv'
<1>1. /\ master = "switch" /\ index \in SleepTasks /\ Prev \in SleepTasks /\ Prev # index
      /\ next[index] = "job" /\ next[Prev] = "null" /\ sleeping[Prev] = 0
      /\ sleeping[index] >= nworkers /\ nworkers \in 0 .. MaxThreads /\ MaxThreads \in Nat
  BY Living DEF SwitchTask, PoolInv, NextTask, Resting
<1>2. UNCHANGED <<nworkers, requested, job, done, next, sleeping, pc, scheduler, task,
                  calls, failed, outcome>> /\ master' = "notify" /\ saved' = "none"
  BY DEF SwitchTask, poolVars, jobVars, threadVars, history, ForgetException
<1>3. index' = Prev /\ Prev' = index
  BY <1>1 DEF SwitchTask, Prev, SleepTasks
<1>4. \A k \in Workers : pc[k] # "none" =>
        pc[k] \in {"asleep", "woken"} /\ task[k] = index /\ scheduler[k] = "controller"
  BY <1>1 DEF PoolInv, Resting, Places
<1>5. (In(index) \cup Left)' = {} /\ In(Prev)' = In(index)
  BY <1>1, <1>2, <1>3, <1>4 DEF In, Left
<1>6. Cardinality(In(index)) <= nworkers /\ Cardinality({}) = 0
  <2>1. In(index) \subseteq 0 .. nworkers - 1
    BY <1>1, Living
  <2>2. QED
    BY <1>1, <2>1, FirstWorkers, SetOfWorkers, FS_Subset, FS_EmptySet
<1>7. TypeOK'
  BY <1>1, <1>2, <1>3 DEF PoolInv, TypeOK
<1>8. Places'
  BY <1>2, <1>4 DEF PoolInv, Places
<1>9. Running'
  <2>1. \A k \in Workers : pc[k] # "none" => Waits(k)'
    BY <1>2, <1>3, <1>4 DEF Waits
  <2>2. \A k \in Workers : k \notin Left'
    BY <1>2, <1>4 DEF Left
  <2>3. \A k \in Workers : pc'[k] \notin {"call", "catch", "abort", "drowsy"}
    BY <1>2, <1>4
  <2>4. QED
    BY <1>2, <2>1, <2>2, <2>3 DEF Running
<1>10. Counts'
  <2>1. sleeping'[index'] = 0 /\ sleeping'[Prev'] = sleeping[index]
    BY <1>1, <1>2, <1>3
  <2>2. /\ sleeping[index] \in Nat /\ nworkers \in Nat /\ Cardinality(In(index)) \in Nat
    BY <1>1, SetOfWorkers, Living DEF PoolInv, TypeOK
  <2>3. sleeping[index] >= Cardinality(In(index))
    BY <1>1, <1>6, <2>2
  <2>4. Cardinality(In(index) \cup Left)' = 0 /\ Cardinality(In(Prev))' = Cardinality(In(index))
    BY <1>5, <1>6
  <2>5. QED
    BY <1>2, <2>1, <2>3, <2>4 DEF Counts
<1>11. Resting' /\ Spawning' /\ NextTask' /\ Jobs'
  BY <1>1, <1>2, <1>3 DEF PoolInv, Resting, Spawning, NextTask, Jobs, NoJob
<1>12. QED
  BY <1>7, <1>8, <1>9, <1>10, <1>11 DEF PoolInv

LEMMA NotifyAllKeeps == ASSUME PoolInv, NotifyAll PROVE PoolInv'
<1>1. master = "notify" /\ index \in SleepTasks /\ Prev \in SleepTasks /\ Prev # index
  BY Living DEF NotifyAll
<1>2. UNCHANGED <<nworkers, requested, job, done, index, next, sleeping, saved, scheduler, task,
                  calls, failed, outcome>> /\ master' = "join"
  BY DEF NotifyAll, poolVars, jobVars, controller, history
<1>3. /\ \A k \in Workers :
           pc'[k] = IF pc[k] = "asleep" /\ task[k] = Prev THEN "woken" ELSE pc[k]
      /\ pc' \in [Workers -> {"none", "fetch", "call", "catch", "abort", "shutdown", "exited",
                              "drowsy", "asleep", "woken"}]
  BY DEF PoolInv, TypeOK, NotifyAll
<1>4. /\ \A t \in SleepTasks : In(t)' = In(t)
      /\ Left' = Left /\ Prev' = Prev /\ \A k \in Workers : Waits(k)' <=> Waits(k)
  BY <1>1, <1>2, <1>3 DEF In, Left, Prev, Waits
<1>5. TypeOK'
  BY <1>2, <1>3 DEF PoolInv, TypeOK
<1>6. Places'
  BY <1>1, <1>2, <1>3 DEF PoolInv, Places
<1>7. Counts'
  BY <1>1, <1>2, <1>4 DEF PoolInv, Counts
<1>8. Running'
  <2>1. \A k \in Workers : Waits(k)' => pc'[k] # "asleep"
    BY <1>3, <1>4 DEF Waits
  <2>2. QED
    BY <1>1, <1>2, <1>3, <1>4, <2>1 DEF PoolInv, Running
<1>9. Resting' /\ Spawning' /\ NextTask' /\ Jobs'
  BY <1>1, <1>2, <1>4 DEF PoolInv, Resting, Spawning, NextTask, Jobs, NoJob
<1>10. QED
  BY <1>5, <1>6, <1>7, <1>8, <1>9 DEF PoolInv

LEMMA JoinJobKeeps == ASSUME PoolInv, JoinJob PROVE PoolInv'
<1>1. /\ master = "join" /\ job.kind # "shutdown"
      /\ next[Prev] = "job" /\ next[index] = "null"
      /\ index \in SleepTasks /\ Prev \in SleepTasks
  BY Living DEF JoinJob, PoolInv, NextTask
<1>2. /\ \A k \in Workers : pc[k] # "none" => pc[k] \in {"asleep", "woken"} /\ task[k] = index
      /\ sleeping[index] >= nworkers
  BY <1>1, AllJoined DEF JoinJob
<1>3. UNCHANGED <<nworkers, requested, done, index, sleeping, saved, pc, scheduler, task, calls,
                  failed>> /\ master' = "user" /\ job' = NoJob
  BY DEF JoinJob, ReturnToUser, poolVars, threadVars
<1>4. /\ \A t \in SleepTasks : next'[t] = "null"
      /\ next' \in [SleepTasks -> {"null", "job"}]
      /\ outcome' \in {"none", "current", "earlier"}
  BY <1>1 DEF JoinJob, PoolInv, TypeOK, SleepTasks, Prev
<1>5. TypeOK'
  BY <1>3, <1>4, MaxThreadsAssumption DEF PoolInv, TypeOK, NoJob
<1>6. Places'
  BY <1>1, <1>2, <1>3 DEF PoolInv, Places
<1>7. Resting' /\ Spawning' /\ Running' /\ Counts' /\ NextTask'
  BY <1>2, <1>3, <1>4 DEF Resting, Spawning, Running, Counts, NextTask
<1>8. Jobs'
  BY <1>3 DEF Jobs, NoJob
<1>9. QED
  BY <1>5, <1>6, <1>7, <1>8 DEF PoolInv

LEMMA JoinShutdownKeeps == ASSUME PoolInv, JoinShutdown PROVE PoolInv'
<1>1. /\ master = "join" /\ job.kind = "shutdown" /\ saved = "none"
      /\ next[Prev] = "job" /\ next[index] = "null"
      /\ index \in SleepTasks /\ Prev \in SleepTasks /\ Prev # index
      /\ nworkers \in 0 .. MaxThreads /\ sleeping[index] >= nworkers
      /\ job.n \in Int /\ \A k \in Workers : k \in Int
  <2>1. master = "join" /\ job.kind = "shutdown" /\ sleeping[index] >= nworkers
    BY DEF JoinShutdown, AllAsleep
  <2>2. saved = "none" /\ next[Prev] = "job" /\ next[index] = "null"
    BY <2>1 DEF PoolInv, NextTask, Running
  <2>3. job.n \in Int /\ \A k \in Workers : k \in Int
    BY MaxThreadsAssumption DEF PoolInv, TypeOK, Workers
  <2>4. QED
    BY <2>1, <2>2, <2>3, Living
<1>2. UNCHANGED <<nworkers, requested, job, done, index, sleeping, saved, pc, scheduler, task,
                  calls, failed, outcome>> /\ master' = "reap"
  BY <1>1 DEF JoinShutdown, poolVars, threadVars, history
<1>3. /\ \A t \in SleepTasks : next'[t] = "null"
      /\ next' \in [SleepTasks -> {"null", "job"}]
  BY <1>1 DEF JoinShutdown, PoolInv, TypeOK, SleepTasks, Prev
<1>4. In(index) \cup Left = 0 .. nworkers - 1
  <2>1. In(index) \cup Left \subseteq 0 .. nworkers - 1
    BY <1>1, Living
  <2>2. Cardinality(In(index) \cup Left) >= nworkers
    BY <1>1 DEF PoolInv, Counts
  <2>3. QED
    BY <1>1, <2>1, <2>2, AllCounted
<1>5. \A k \in Workers : pc[k] # "none" =>
        /\ ~Waits(k) /\ pc[k] # "drowsy"
        /\ IF k < job.n THEN k \in In(index) ELSE k \in Left
  <2> SUFFICES ASSUME NEW k \in Workers, pc[k] # "none"
               PROVE  /\ ~Waits(k) /\ pc[k] # "drowsy"
                      /\ IF k < job.n THEN k \in In(index) ELSE k \in Left
    OBVIOUS
  <2>1. k \in In(index) \/ k \in Left
    BY <1>4, Living
  <2>2. ~Waits(k) /\ pc[k] # "drowsy"
    BY <1>1, <2>1 DEF In, Left, Waits
  <2>3. k \in Left => ~(k < job.n)
    BY <1>1 DEF PoolInv, Running
  <2>4. k \in In(index) => k < job.n
    BY <1>1, <2>2 DEF PoolInv, Running, Places, In
  <2>5. QED
    BY <2>1, <2>2, <2>3, <2>4
<1>6. /\ In(index)' = In(index) /\ In(Prev)' = In(Prev) /\ Left' = Left /\ Prev' = Prev
      /\ (In(index) \cup Left)' = In(index) \cup Left
      /\ \A k \in Workers : Waits(k)' <=> Waits(k)
  BY <1>2 DEF In, Left, Prev, Waits
<1>7. TypeOK'
  BY <1>2, <1>3 DEF PoolInv, TypeOK
<1>8. Places'
  BY <1>1, <1>2 DEF PoolInv, Places
<1>9. Counts'
  BY <1>1, <1>2, <1>6 DEF PoolInv, Counts
<1>10. Running'
  <2>1. \A k \in Workers : Waits(k) \/ k \in Left => pc[k] # "none"
    BY DEF Waits, Left
  <2>2. QED
    BY <1>1, <1>2, <1>5, <1>6, <2>1 DEF PoolInv, Running
<1>11. Resting' /\ Spawning' /\ NextTask' /\ Jobs'
  BY <1>1, <1>2, <1>3 DEF PoolInv, Resting, Spawning, NextTask, Jobs, NoJob
<1>12. QED
  BY <1>7, <1>8, <1>9, <1>10, <1>11 DEF PoolInv

LEMMA ReapKeeps == ASSUME PoolInv, Reap PROVE PoolInv'
<1>1. /\ master = "reap" /\ job.kind = "shutdown" /\ requested = job.n /\ job.n < nworkers
      /\ index \in SleepTasks /\ Prev \in SleepTasks /\ Prev # index
      /\ nworkers \in 0 .. MaxThreads /\ nworkers \in Nat /\ requested \in 0 .. MaxThreads
      /\ MaxThreads \in Nat /\ requested \in Nat
      /\ \A t \in SleepTasks : next[t] = "null"
  BY Living DEF Reap, PoolInv, NextTask, Running, Jobs, TypeOK
<1>2. UNCHANGED <<requested, done, index, next, sleeping, saved, scheduler, task,
                  calls, failed, outcome>> /\ master' = "user" /\ job' = NoJob
      /\ nworkers' = requested
  BY DEF Reap, ReturnToUser, controller, history
<1>3. \A k \in Workers :
        /\ k \in Int
        /\ k >= nworkers <=> pc[k] = "none"
        /\ k < requested => k \in In(index)
        /\ k >= requested /\ k < nworkers => pc[k] = "exited"
  <2>1. \A k \in Workers : k \in Int
    BY <1>1 DEF Workers
  <2>2. \A k \in Workers : k >= nworkers <=> pc[k] = "none"
    BY DEF PoolInv, Places
  <2>3. \A k \in Workers : k < requested => k \in In(index)
    BY <1>1, <2>1, <2>2 DEF PoolInv, Running
  <2>4. \A k \in requested .. nworkers - 1 : pc[k] = "exited"
    BY DEF Reap
  <2>5. QED
    BY <1>1, <2>1, <2>2, <2>3, <2>4
<1>4. /\ \A k \in Workers : pc'[k] = IF k < requested THEN pc[k] ELSE "none"
      /\ \A k \in Workers : k < requested => pc[k] \in {"asleep", "woken"} /\ task[k] = index
      /\ pc' \in [Workers -> {"none", "fetch", "call", "catch", "abort", "shutdown", "exited",
                              "drowsy", "asleep", "woken"}]
  BY <1>1, <1>3 DEF PoolInv, TypeOK, Reap, In
<1>5. sleeping[index] >= requested
  <2>1. 0 .. requested - 1 \subseteq In(index) \cup Left
    BY <1>1, <1>3 DEF Workers
  <2>2. In(index) \cup Left \in SUBSET Workers
    BY DEF In, Left
  <2>3. requested <= Cardinality(In(index) \cup Left)
    <3>1. Cardinality(0 .. requested - 1) = requested
      BY <1>1, FirstWorkers
    <3>2. IsFiniteSet(In(index) \cup Left)
      BY <2>2, SetOfWorkers
    <3>3. QED
      BY <2>1, <3>1, <3>2, FS_Subset
  <2>4. QED
    BY <1>1, <2>3 DEF PoolInv, Counts
<1>6. TypeOK'
  BY <1>1, <1>2, <1>4, MaxThreadsAssumption DEF PoolInv, TypeOK, NoJob
<1>7. Places'
  <2>1. \A k \in Workers : k < requested => scheduler[k] = "controller"
    BY <1>4 DEF PoolInv, Places
  <2>2. \A k \in Workers : k >= requested <=> pc'[k] = "none"
    BY <1>1, <1>3, <1>4
  <2>3. QED
    BY <1>1, <1>2, <1>3, <1>4, <2>1, <2>2 DEF Places
<1>8. Resting' /\ Spawning' /\ Running' /\ Counts' /\ NextTask'
  BY <1>1, <1>2, <1>4, <1>5 DEF Resting, Spawning, Running, Counts, NextTask
<1>9. Jobs'
  BY <1>2 DEF Jobs, NoJob
<1>10. QED
  BY <1>6, <1>7, <1>8, <1>9 DEF PoolInv

\* The calls of the user find every worker asleep.
LEMMA CalledAtRest ==
  ASSUME PoolInv, master = "user"
  PROVE  /\ job = NoJob /\ job.kind = "none" /\ index \in SleepTasks /\ MaxThreads \in Nat
         /\ nworkers \in Nat /\ nworkers <= MaxThreads /\ sleeping[index] \in Nat
         /\ sleeping[index] >= nworkers
         /\ \A t \in SleepTasks : next[t] = "null"
         /\ \A k \in Workers : pc[k] # "none" =>
              /\ pc[k] \in {"asleep", "woken"} /\ task[k] = index
              /\ scheduler[k] = "controller"
         /\ sleeping[index] <= nworkers => sleeping[index] = Cardinality(In(index))
<1>1. /\ job = NoJob /\ job.kind = "none" /\ index \in SleepTasks /\ MaxThreads \in Nat
      /\ nworkers \in Nat /\ nworkers <= MaxThreads /\ sleeping[index] \in Nat
      /\ sleeping[index] >= nworkers /\ nworkers \in 0 .. MaxThreads
      /\ \A t \in SleepTasks : next[t] = "null"
  BY Living DEF PoolInv, Jobs, NoJob, TypeOK, NextTask, Resting
<1>2. \A k \in Workers : pc[k] # "none" =>
        pc[k] \in {"asleep", "woken"} /\ task[k] = index /\ scheduler[k] = "controller"
  BY DEF PoolInv, Resting, Places
<1>3. Cardinality(In(index)) = nworkers
  <2>1. In(index) = {k \in Workers : pc[k] # "none"}
    BY <1>2 DEF In
  <2>2. {k \in Workers : pc[k] # "none"} = 0 .. nworkers - 1
    BY <1>1, Living, FirstWorkers
  <2>3. QED
    BY <1>1, <2>1, <2>2, FirstWorkers
<1>4. QED
  BY <1>1, <1>2, <1>3

\* What a call that starts a job or more threads leaves alone.
LEMMA StartKeeps ==
  ASSUME PoolInv, master = "user", master' \in {"user", "spawn", "lock"},
         UNCHANGED <<nworkers, index, next, sleeping, threadVars, history>>,
         requested' \in 0 .. MaxThreads, done' \in [Workers -> BOOLEAN],
         saved' \in {"none", "current", "earlier"},
         job' \in [kind : {"none", "once", "shutdown", "dynamic", "ordered"}, n : 0 .. MaxThreads],
         master' = "user" => job' = NoJob,
         master' = "lock" => job'.kind # "none",
         master' = "spawn" => /\ job'.kind # "shutdown" /\ nworkers <= requested'
                              /\ sleeping[index] <= nworkers,
         job'.kind = "none" => job' = NoJob,
         job'.kind = "shutdown" => requested' = job'.n /\ job'.n < nworkers
  PROVE  PoolInv'
<1>1. UNCHANGED <<nworkers, index, next, sleeping, pc, scheduler, task, calls, failed, outcome>>
  BY DEF threadVars, history
<1>2. In(index)' = In(index)
  BY <1>1 DEF In
<1>3. TypeOK'
  BY <1>1 DEF PoolInv, TypeOK
<1>4. Places'
  BY <1>1, CalledAtRest DEF PoolInv, Places
<1>5. Resting' /\ Spawning' /\ Running' /\ NextTask'
  BY <1>1, CalledAtRest DEF Resting, Spawning, Running, NextTask
<1>6. Counts' /\ Jobs'
  BY <1>1, <1>2, CalledAtRest DEF Counts, Jobs, NoJob
<1>7. QED
  BY <1>3, <1>4, <1>5, <1>6 DEF PoolInv

LEMMA ResizeKeeps ==
  ASSUME PoolInv, GrowAfterShrink = FALSE, NEW n \in 0 .. MaxThreads,
         ResizeLazily(n) \/ ResizeUp(n) \/ ResizeDown(n)
  PROVE  PoolInv'
<1>1. master = "user" /\ job = NoJob /\ job.kind = "none" /\ sleeping[index] \in Nat
      /\ nworkers \in Nat
  BY CalledAtRest DEF ResizeLazily, ResizeUp, ResizeDown
<1>2. CASE ResizeLazily(n)
  BY <1>1, <1>2, StartKeeps DEF ResizeLazily, jobVars, controller, PoolInv, TypeOK
<1>3. CASE ResizeUp(n)
  <2>1. sleeping[index] <= nworkers /\ nworkers <= n
    BY <1>1, <1>3, MaxThreadsAssumption DEF ResizeUp, MayGrow, CountsExited
  <2>2. QED
    BY <1>1, <1>3, <2>1, StartKeeps DEF ResizeUp, jobVars, controller, PoolInv, TypeOK
<1>4. CASE ResizeDown(n)
  <2>1. /\ job' = [kind |-> "shutdown", n |-> n] /\ job'.kind = "shutdown" /\ job'.n = n
        /\ saved' \in {"none", "current", "earlier"} /\ requested' = n /\ n < nworkers
        /\ master' = "lock"
        /\ UNCHANGED <<nworkers, done, index, next, sleeping, threadVars, history>>
    BY <1>4 DEF ResizeDown, Aged, PoolInv, TypeOK
  <2>2. QED
    BY <1>1, <2>1, StartKeeps DEF PoolInv, TypeOK
<1>5. QED
  BY <1>2, <1>3, <1>4

LEMMA ExecuteJobKeeps ==
  ASSUME PoolInv, GrowAfterShrink = FALSE, NEW n \in 0 .. MaxThreads,
         NEW kind \in {"once", "dynamic", "ordered"}, ExecuteJob(kind, n)
  PROVE  PoolInv'
<1>1. /\ master = "user" /\ sleeping[index] \in Nat /\ nworkers \in Nat
      /\ requested \in 0 .. MaxThreads
  BY CalledAtRest DEF ExecuteJob, PoolInv, TypeOK
<1>2. /\ job' = [kind |-> kind, n |-> n] /\ job'.kind = kind /\ job'.n = n
      /\ saved' \in {"none", "current", "earlier"} /\ done' \in [Workers -> BOOLEAN]
      /\ UNCHANGED <<nworkers, requested, index, next, sleeping, threadVars, history>>
      /\ master' = "lock" \/ (master' = "spawn" /\ nworkers = 0 /\ requested > 0)
  BY DEF ExecuteJob, Aged, PoolInv, TypeOK, poolVars
<1>3. master' = "spawn" => sleeping[index] <= nworkers /\ nworkers <= requested'
  BY <1>1, <1>2, MaxThreadsAssumption DEF ExecuteJob, MayGrow, CountsExited
<1>4. QED
  BY <1>1, <1>2, <1>3, StartKeeps

LEMMA ForkChildKeeps == ASSUME PoolInv, ForkChild PROVE PoolInv'
<1>1. /\ master = "user" /\ job = NoJob /\ job.kind = "none" /\ MaxThreads \in Nat
      /\ \A k \in Workers : k \in Nat
  BY CalledAtRest DEF ForkChild, Workers
<1>2. /\ UNCHANGED <<requested, job, done, master, calls, failed, outcome>>
      /\ nworkers' = 0 /\ index' = 0 /\ saved' = "none"
      /\ next' = [t \in SleepTasks |-> "null"] /\ sleeping' = [t \in SleepTasks |-> 0]
      /\ pc' = [i \in Workers |-> "none"] /\ scheduler' = [i \in Workers |-> "null"]
      /\ task' = [i \in Workers |-> 0]
  BY DEF ForkChild, jobVars, history
<1>3. TypeOK'
  BY <1>1, <1>2 DEF PoolInv, TypeOK, SleepTasks
<1>4. QED
  BY <1>1, <1>2, <1>3 DEF PoolInv, Places, Resting, Spawning, Running, Counts, NextTask, Jobs,
     SleepTasks, NoJob

LEMMA MasterStepKeeps == ASSUME PoolInv, MasterStep PROVE PoolInv'
BY SpawnKeeps, JoinSpawnedKeeps, PostJobKeeps, ResetTaskKeeps, SwitchTaskKeeps, NotifyAllKeeps,
   JoinJobKeeps, JoinShutdownKeeps, ReapKeeps DEF MasterStep

LEMMA ApiCallKeeps == ASSUME PoolInv, GrowAfterShrink = FALSE, ApiCall PROVE PoolInv'
<1>1. ASSUME NEW n \in 0 .. MaxThreads, ParallelRegion(n) PROVE PoolInv'
  <2>1. RegionWidth(n) \in 0 .. MaxThreads
    BY DEF RegionWidth, PoolInv, TypeOK
  <2>2. QED
    BY <1>1, <2>1, ExecuteJobKeeps DEF ParallelRegion
<1>2. QED
  BY <1>1, ResizeKeeps, ForkChildKeeps DEF ApiCall

LEMMA SystemKeeps == ASSUME PoolInv, System PROVE PoolInv'
BY SpawnFailsKeeps, SpuriousWakeKeeps DEF System

LEMMA WorkerStepKeeps == ASSUME PoolInv, NEW i \in Workers, WorkerStep(i) PROVE PoolInv'
BY SleepStepKeeps, JobStepKeeps DEF WorkerStep
-----------------------------------------------------------------------------
(***************************************************************************)
(* The loops and the teams.                                                *)
(***************************************************************************)
\* What makes a behaviour one with a loop, with an ordered loop, or with neither.
shape == <<entry, script, nthreads, n_threads>>

\* A loop finds a pool that has never been shrunk.
FullPool ==
  /\ nthreads \in 1 .. MaxThreads /\ n_threads \in 0 .. MaxThreads
  /\ ~Plain =>
       /\ requested = MaxThreads
       /\ nworkers = 0 => master \in {"user", "spawn"} /\ sleeping[index] = 0

LEMMA TeamStepShape ==
  ASSUME NEW i,
         Team!Step(i) \/ Team!FetchIteration(i) \/ Team!FetchNothing(i) \/ Team!CallIteration(i)
           \/ Team!Throw(i)
  PROVE  UNCHANGED <<entry, script, nthreads>>
BY DEF Team!Step, Team!Leave, Team!ArriveAtBarrier, Team!PassBarrier, Team!StaticLoop,
   Team!LookUpScheduler, Team!CreateScheduler, Team!FetchIteration, Team!FetchNothing,
   Team!CallIteration, Team!Throw, Team!Catch, Team!AbortAgain, Team!ThrowInRegion, Team!team

LEMMA TaskShape ==
  ASSUME NEW i,
         \/ Sch!FetchOrder(i) \/ Sch!FetchFinish(i) \/ Sch!FetchStart(i) \/ Sch!FetchWait(i)
         \/ Sch!FetchNothing(i) \/ Sch!TurnAway(i) \/ Sch!Execute(i)
         \/ (\E n \in Resizes : Sch!SetIterations(i, n))
         \/ Sch!Return(i) \/ Sch!Throw(i) \/ Sch!ExecuteCancelled(i) \/ Sch!AbortAgain(i)
  PROVE  UNCHANGED n_threads
BY DEF Sch!FetchOrder, Sch!FetchFinish, Sch!FetchStart, Sch!FetchWait, Sch!FetchNothing,
   Sch!TurnAway, Sch!Execute, Sch!SetIterations, Sch!Return, Sch!Throw, Sch!ExecuteCancelled,
   Sch!AbortAgain, Sch!Assign, Sch!shape

LEMMA LoopStepShape ==
  ASSUME NEW i, LoopStep(i)
  PROVE  UNCHANGED <<entry, script, nthreads>>
<1>1. CASE PoolStep(i) \/ EndRegion(i)
  BY <1>1 DEF PoolStep, EndRegion, teamVars
<1>2. CASE InRegion(i) \/ FetchIteration(i) \/ EndIteration(i)
  BY <1>2, TeamStepShape DEF InRegion, FetchIteration, EndIteration
<1>3. CASE FetchNothing(i)
  BY <1>3, TeamStepShape DEF FetchNothing, teamVars
<1>4. CASE SaveException(i) \/ AbortLoop(i)
  BY <1>4 DEF SaveException, AbortLoop
<1>5. QED
  BY <1>1, <1>2, <1>3, <1>4 DEF LoopStep

LEMMA TaskStepShape == ASSUME NEW i, TaskStep(i) PROVE UNCHANGED n_threads
<1>1. CASE GetTask(i) \/ GetWaitTask(i) \/ GetNothing(i) \/ ExecuteTask(i)
  BY <1>1, TaskShape DEF GetTask, GetWaitTask, GetNothing, ExecuteTask
<1>2. CASE EndTask(i) \/ AbortOrdered(i)
  BY <1>2, TaskShape DEF EndTask, AbortOrdered
<1>3. CASE SaveTaskException(i) \/ UNCHANGED schVars
  BY <1>3 DEF SaveTaskException, schVars
<1>4. QED
  BY <1>1, <1>2, <1>3 DEF TaskStep

LEMMA ShapeKept == [LoopNext]_allVars => UNCHANGED shape
<1>1. ASSUME UNCHANGED <<teamVars, schVars>> PROVE UNCHANGED shape
  BY <1>1 DEF teamVars, schVars, shape
<1>2. ASSUME NEW i \in Workers, Thread(i) PROVE UNCHANGED shape
  BY <1>1, <1>2, LoopStepShape, TaskStepShape DEF Thread, teamVars, schVars, shape
<1>3. ASSUME CallLoop, UNCHANGED schVars PROVE UNCHANGED shape
  BY <1>1, <1>3 DEF CallLoop
<1>4. ASSUME CallOrdered, UNCHANGED teamVars PROVE UNCHANGED shape
  BY <1>1, <1>4 DEF CallOrdered
<1>5. QED
  BY <1>1, <1>2, <1>3, <1>4 DEF LoopNext, Master, Idle, allVars

\* What a worker does is done by a thread of the pool, and leaves the pool as it is.
LEMMA WorkerIsAlive ==
  ASSUME PoolInv, NEW i \in Workers, pc[i] # "none"
  PROVE  nworkers # 0
BY MaxThreadsAssumption DEF PoolInv, Places, Workers

LEMMA SleepStepPool ==
  ASSUME NEW i, SleepStep(i)
  PROVE  /\ pc[i] # "none"
         /\ UNCHANGED <<nworkers, requested, job, done, index, master, calls, failed>>
BY DEF SleepStep, FetchShutdown, ExitThread, FetchSleep, FallAsleep, WakeUp, WaitOrTake, InJob,
   poolVars, jobVars, controller, history

LEMMA JobStepPool ==
  ASSUME NEW i, TurnToSleep(i) \/ SwitchToController(i) \/ FetchCall(i) \/ Return(i) \/ Throw(i)
                  \/ Catch(i) \/ Abort(i)
  PROVE  pc[i] # "none" /\ UNCHANGED <<nworkers, requested, job, index, next, sleeping, master>>
BY DEF TurnToSleep, SwitchToController, FetchCall, Return, Throw, Catch, Abort, EndCall, InJob,
   poolVars, jobVars, controller, history

LEMMA LoopStepKeeps ==
  ASSUME PoolInv, NEW i \in Workers, LoopStep(i)
  PROVE  PoolInv' /\ pc[i] # "none" /\ UNCHANGED <<nworkers, requested>>
<1>1. CASE PoolStep(i)
  BY <1>1, SleepStepKeeps, JobStepKeeps, SleepStepPool, JobStepPool DEF PoolStep
<1>2. CASE EndRegion(i)
  BY <1>2, JobStepKeeps, JobStepPool DEF EndRegion
<1>3. CASE InRegion(i)
  <2>1. UNCHANGED vars /\ pc[i] = "call"
    BY <1>3 DEF InRegion
  <2>2. QED
    BY <2>1 DEF vars, poolVars, jobVars, controller, threadVars, history, PoolInv, TypeOK, Places,
       Resting, Spawning, Running, Counts, NextTask, Jobs, In, Left, Prev, Waits
<1>4. CASE FetchIteration(i)
  <2>1. /\ pc[i] = "fetch" /\ scheduler[i] = "job" /\ job.kind # "shutdown"
        /\ pc' = [pc EXCEPT ![i] = "call"]
        /\ UNCHANGED <<poolVars, job, done, index, next, sleeping, saved, master, scheduler, task,
                       calls, failed, outcome>>
    BY <1>4 DEF FetchIteration, InJob, Goto, jobVars, controller, history
  <2>2. /\ saved' \in {"none", "current", "earlier"} /\ done' \in [Workers -> BOOLEAN]
        /\ calls' \in [Workers -> Nat] /\ failed' \subseteq Workers
    BY <2>1 DEF PoolInv, TypeOK
  <2>3. PoolInv'
    BY <2>1, <2>2, InsideJob
  <2>4. QED
    BY <2>1, <2>3 DEF poolVars
<1>5. CASE FetchNothing(i)
  BY <1>5, BackToController, JobStepPool DEF FetchNothing
<1>6. CASE EndIteration(i)
  <2>1. /\ pc[i] = "call" /\ \E l \in {"fetch", "catch"} : pc' = [pc EXCEPT ![i] = l]
        /\ UNCHANGED <<poolVars, job, done, index, next, sleeping, saved, master, scheduler, task,
                       calls, failed, outcome>>
    BY <1>6 DEF EndIteration, EndCall, Goto, jobVars, controller
  <2>2. scheduler[i] = "job" /\ job.kind # "shutdown"
    BY <2>1 DEF PoolInv, Places, Running
  <2>3. /\ saved' \in {"none", "current", "earlier"} /\ done' \in [Workers -> BOOLEAN]
        /\ calls' \in [Workers -> Nat] /\ failed' \subseteq Workers
    BY <2>1 DEF PoolInv, TypeOK
  <2>4. PICK l \in {"fetch", "catch"} : pc' = [pc EXCEPT ![i] = l]
    BY <2>1
  <2>5. PoolInv'
    BY <2>1, <2>2, <2>3, <2>4, InsideJob
  <2>6. QED
    BY <2>1, <2>5 DEF poolVars
<1>7. CASE SaveException(i) \/ AbortLoop(i)
  BY <1>7, JobStepKeeps, JobStepPool DEF SaveException, AbortLoop
<1>8. QED
  BY <1>1, <1>2, <1>3, <1>4, <1>5, <1>6, <1>7 DEF LoopStep

LEMMA TaskStepKeeps ==
  ASSUME PoolInv, NEW i \in Workers, TaskStep(i)
  PROVE  PoolInv' /\ pc[i] # "none" /\ UNCHANGED <<nworkers, requested>>
<1>1. CASE GetTask(i)
  <2>1. /\ pc[i] = "fetch" /\ scheduler[i] = "job" /\ job.kind # "shutdown"
        /\ pc' = [pc EXCEPT ![i] = "call"]
        /\ UNCHANGED <<poolVars, job, done, index, next, sleeping, saved, master, scheduler, task,
                       calls, failed, outcome>>
    BY <1>1 DEF GetTask, InJob, Goto, jobVars, controller, history
  <2>2. /\ saved' \in {"none", "current", "earlier"} /\ done' \in [Workers -> BOOLEAN]
        /\ calls' \in [Workers -> Nat] /\ failed' \subseteq Workers
    BY <2>1 DEF PoolInv, TypeOK
  <2>3. PoolInv'
    BY <2>1, <2>2, InsideJob
  <2>4. QED
    BY <2>1, <2>3 DEF poolVars
<1>2. CASE GetWaitTask(i) \/ ExecuteTask(i)
  <2>1. UNCHANGED vars /\ pc[i] \in {"fetch", "call"}
    BY <1>2 DEF GetWaitTask, ExecuteTask, InJob
  <2>2. QED
    BY <2>1 DEF vars, poolVars, jobVars, controller, threadVars, history, PoolInv, TypeOK, Places,
       Resting, Spawning, Running, Counts, NextTask, Jobs, In, Left, Prev, Waits
<1>3. CASE GetNothing(i)
  BY <1>3, BackToController, JobStepPool DEF GetNothing
<1>4. CASE EndTask(i)
  <2>1. /\ pc[i] = "call" /\ \E l \in {"fetch", "catch"} : pc' = [pc EXCEPT ![i] = l]
        /\ UNCHANGED <<poolVars, job, done, index, next, sleeping, saved, master, scheduler, task,
                       calls, failed, outcome>>
    BY <1>4 DEF EndTask, EndCall, Goto, jobVars, controller
  <2>2. scheduler[i] = "job" /\ job.kind # "shutdown"
    BY <2>1 DEF PoolInv, Places, Running
  <2>3. /\ saved' \in {"none", "current", "earlier"} /\ done' \in [Workers -> BOOLEAN]
        /\ calls' \in [Workers -> Nat] /\ failed' \subseteq Workers
    BY <2>1 DEF PoolInv, TypeOK
  <2>4. PICK l \in {"fetch", "catch"} : pc' = [pc EXCEPT ![i] = l]
    BY <2>1
  <2>5. PoolInv'
    BY <2>1, <2>2, <2>3, <2>4, InsideJob
  <2>6. QED
    BY <2>1, <2>5 DEF poolVars
<1>5. CASE SaveTaskException(i) \/ AbortOrdered(i)
  BY <1>5, JobStepKeeps, JobStepPool DEF SaveTaskException, AbortOrdered
<1>6. CASE SleepStep(i)
  BY <1>6, SleepStepKeeps, SleepStepPool
<1>7. QED
  BY <1>1, <1>2, <1>3, <1>4, <1>5, <1>6 DEF TaskStep

LEMMA ThreadKeeps ==
  ASSUME PoolInv, NEW i \in Workers, Thread(i)
  PROVE  PoolInv' /\ nworkers # 0 /\ UNCHANGED <<nworkers, requested>>
<1>1. CASE WorkerStep(i)
  <2>1. pc[i] # "none" /\ UNCHANGED <<nworkers, requested>>
    BY <1>1, SleepStepPool, JobStepPool DEF WorkerStep
  <2>2. QED
    BY <1>1, <2>1, WorkerIsAlive, WorkerStepKeeps
<1>2. CASE LoopStep(i)
  BY <1>2, LoopStepKeeps, WorkerIsAlive
<1>3. CASE TaskStep(i)
  BY <1>3, TaskStepKeeps, WorkerIsAlive
<1>4. QED
  BY <1>1, <1>2, <1>3 DEF Thread

LEMMA CallOrderedKeeps ==
  ASSUME PoolInv, FullPool, Ordered, CallOrdered
  PROVE  PoolInv'
<1>1. /\ master = "user" /\ nworkers \in Nat /\ n_threads \in 0 .. MaxThreads
      /\ job = NoJob /\ job.kind = "none" /\ sleeping[index] \in Nat
      /\ UNCHANGED <<nworkers, requested, index, next, sleeping, threadVars, history, done, saved>>
  BY CalledAtRest DEF CallOrdered, FullPool, poolVars, controller
<1>2. CASE nworkers = 0
  <2>1. sleeping[index] <= nworkers /\ nworkers <= requested /\ requested' = requested
    BY <1>1, <1>2, MaxThreadsAssumption DEF FullPool, Plain
  <2>2. master' = "spawn" /\ job' = job
    BY <1>2 DEF CallOrdered
  <2>3. QED
    BY <1>1, <2>1, <2>2, StartKeeps DEF PoolInv, TypeOK
<1>3. CASE nworkers # 0
  <2>1. /\ job' = [kind |-> "ordered", n |-> n_threads] /\ job'.kind = "ordered"
        /\ master' = "lock"
    BY <1>3 DEF CallOrdered
  <2>2. QED
    BY <1>1, <2>1, StartKeeps DEF PoolInv, TypeOK
<1>4. QED
  BY <1>2, <1>3

LEMMA CallLoopKeeps ==
  ASSUME PoolInv, FullPool, GrowAfterShrink = FALSE, CallLoop
  PROVE  PoolInv'
<1>1. nthreads \in 0 .. MaxThreads
  BY MaxThreadsAssumption DEF FullPool
<1>2. QED
  BY <1>1, ExecuteJobKeeps DEF CallLoop

LEMMA InitIsFine == LoopInit => PoolInv /\ FullPool
<1> SUFFICES ASSUME LoopInit PROVE PoolInv /\ FullPool
  OBVIOUS
<1> USE MaxThreadsAssumption
<1>1. nworkers = 0 /\ master = "user" /\ index = 0 /\ job = NoJob /\ requested \in 0 .. MaxThreads
      /\ next = [t \in SleepTasks |-> "null"] /\ sleeping = [t \in SleepTasks |-> 0]
      /\ pc = [i \in Workers |-> "none"] /\ scheduler = [i \in Workers |-> "null"]
  BY DEF LoopInit, Init
<1>2. PoolInv
  <2>1. TypeOK
    BY <1>1 DEF LoopInit, Init, TypeOK, NoJob, SleepTasks
  <2>2. \A i \in Workers : i >= nworkers
    BY <1>1 DEF Workers
  <2>3. QED
    BY <1>1, <2>1, <2>2 DEF PoolInv, Places, Resting, Spawning, Running, Counts, NextTask, Jobs,
       NoJob, SleepTasks
<1>3. nthreads \in 1 .. MaxThreads
  <2>1. Team!Init /\ Team!TeamAssumption
    BY LoopsAssumption DEF LoopInit
  <2>2. CASE Team!InitRegion
    BY <2>2 DEF Team!InitRegion
  <2>3. CASE Team!InitDynamic
    BY <2>3 DEF Team!InitDynamic, Team!Least
  <2>4. CASE Team!InitStatic
    <3>1. PICK n \in StaticRows, c \in Chunks : script = <<Team!Static(n, c)>>
      BY <2>4 DEF Team!InitStatic
    <3>2. n \in Nat /\ c \in Nat \ {0} /\ nthreads_in \in Nat
      BY <2>1, <2>4 DEF Team!InitStatic, Team!TeamAssumption
    <3>3. n \div c \in Nat
      BY <3>2
    <3>4. Team!ChunksWanted(script[1], nthreads_in) \in Nat
      BY <3>1, <3>2, <3>3 DEF Team!ChunksWanted, Team!Static, Team!Least
    <3>5. QED
      BY <2>4, <3>4 DEF Team!InitStatic, Team!Least
  <2>5. QED
    BY <2>1, <2>2, <2>3, <2>4 DEF Team!Init
<1>4. n_threads \in 0 .. MaxThreads
  <2>1. Sch!Init /\ MaxIterations \in Nat \ {0}
    BY LoopsAssumption DEF LoopInit
  <2>2. PICK niters \in 1 .. MaxIterations, nth \in 0 .. MaxThreads :
          /\ n_tasks = IF nth = 0 THEN 1 ELSE Sch!Least(niters, nth * 2)
          /\ n_threads = Sch!Least(nth, n_tasks)
    BY <2>1 DEF Sch!Init
  <2>3. n_tasks \in Nat
    BY <2>1, <2>2 DEF Sch!Least
  <2>4. QED
    BY <2>2, <2>3 DEF Sch!Least
<1>5. ~Plain => requested = MaxThreads
  BY DEF LoopInit
<1>6. sleeping[index] = 0
  BY <1>1 DEF SleepTasks
<1>7. QED
  BY <1>1, <1>2, <1>3, <1>4, <1>5, <1>6 DEF FullPool

LEMMA StepKeepsPool ==
  ASSUME PoolInv, FullPool, GrowAfterShrink = FALSE, [LoopNext]_allVars
  PROVE  PoolInv'
<1>1. CASE UNCHANGED vars
  BY <1>1 DEF vars, poolVars, jobVars, controller, threadVars, history, PoolInv, TypeOK, Places,
     Resting, Spawning, Running, Counts, NextTask, Jobs, In, Left, Prev, Waits
<1>2. CASE LoopNext
  <2>1. CASE ApiCall \/ System
    BY <2>1, ApiCallKeeps, SystemKeeps
  <2>2. CASE CallLoop
    BY <2>2, CallLoopKeeps
  <2>3. CASE Ordered /\ CallOrdered
    BY <2>3, CallOrderedKeeps
  <2>4. CASE Master
    BY <2>4, MasterStepKeeps DEF Master
  <2>5. CASE \E i \in Workers : Thread(i)
    BY <2>5, ThreadKeeps
  <2>6. CASE Idle
    BY <1>1, <2>6 DEF Idle, allVars
  <2>7. QED
    BY <1>2, <2>1, <2>2, <2>3, <2>4, <2>5, <2>6 DEF LoopNext
<1>3. QED
  BY <1>1, <1>2 DEF allVars

LEMMA StepKeepsFull ==
  ASSUME PoolInv, FullPool, [LoopNext]_allVars
  PROVE  FullPool'
<1>1. UNCHANGED <<nthreads, n_threads>> /\ Plain' = Plain
  BY ShapeKept DEF shape, Plain, Looped, Ordered
<1>2. ASSUME ~Plain
      PROVE  /\ requested' = MaxThreads
             /\ nworkers' = 0 => master' \in {"user", "spawn"} /\ sleeping'[index'] = 0
  <2>1. requested = MaxThreads /\ MaxThreads \in Nat \ {0}
        /\ (nworkers = 0 => master \in {"user", "spawn"} /\ sleeping[index] = 0)
    BY <1>2, MaxThreadsAssumption DEF FullPool
  <2>2. CASE Looped /\ CallLoop
    BY <2>1, <2>2 DEF CallLoop, ExecuteJob, poolVars
  <2>3. CASE Ordered /\ CallOrdered
    BY <2>1, <2>3 DEF CallOrdered, poolVars, controller
  <2>4. CASE Master
    <3>1. CASE Spawn
      <4>1. nworkers' = nworkers + 1 /\ nworkers \in Nat /\ requested' = requested
        BY <3>1, Living DEF Spawn
      <4>2. QED
        BY <2>1, <4>1
    <3>2. CASE JoinSpawned
      BY <2>1, <3>2 DEF JoinSpawned, poolVars
    <3>3. CASE PostJob \/ ResetTask \/ SwitchTask \/ NotifyAll \/ JoinJob \/ JoinShutdown
      BY <2>1, <3>3 DEF PostJob, ResetTask, SwitchTask, NotifyAll, JoinJob, JoinShutdown, poolVars
    <3>4. CASE Reap
      BY <2>1, <3>4 DEF Reap
    <3>5. QED
      BY <2>4, <3>1, <3>2, <3>3, <3>4 DEF Master, MasterStep
  <2>5. CASE \E i \in Workers : Thread(i)
    BY <2>1, <2>5, ThreadKeeps
  <2>6. CASE UNCHANGED allVars
    BY <2>1, <2>6 DEF allVars, vars, poolVars, controller
  <2>7. QED
    BY <1>2, <2>2, <2>3, <2>4, <2>5, <2>6 DEF LoopNext, Idle
<1>3. QED
  BY <1>1, <1>2 DEF FullPool

\* The inductive invariant: the workers are where the job, the master and the two sleep tasks
\* say, the count that join() looks at is exact, and a loop finds a pool of full size.
THEOREM PoolInvariance ==
  ASSUME GrowAfterShrink = FALSE PROVE LoopSpec => [](PoolInv /\ FullPool)
<1>1. LoopInit => PoolInv /\ FullPool
  BY InitIsFine
<1>2. PoolInv /\ FullPool /\ [LoopNext]_allVars => (PoolInv /\ FullPool)'
  BY StepKeepsPool, StepKeepsFull
<1>3. QED
  BY <1>1, <1>2, PTL DEF LoopSpec

\* In every pool the variables keep their types; above all, the two counts of sleeping threads
\* never become negative, nor larger than the pool can be, though the counts are read and
\* changed by threads of different jobs.
THEOREM TypeCorrectness ==
  ASSUME GrowAfterShrink = FALSE PROVE LoopSpec => []TypeOK
<1>1. PoolInv => TypeOK
  BY DEF PoolInv
<1>2. QED
  BY <1>1, PoolInvariance, PTL

\* What awaken_and_run() supposes, and what every call leaves behind: all workers sleep in the
\* current sleep task when the master is in the user's code, or about to post a job.
THEOREM WorkersAtRest ==
  ASSUME GrowAfterShrink = FALSE PROVE LoopSpec => []AtRest
<1>1. ASSUME PoolInv PROVE AtRest
  <2> SUFFICES ASSUME master \in {"user", "lock"} PROVE AtRest
    BY DEF AtRest
  <2>1. \A t \in SleepTasks : next[t] = "null"
    BY <1>1 DEF PoolInv, NextTask
  <2>2. \A i \in Workers : i < nworkers <=> pc[i] # "none"
    BY <1>1, Living, MaxThreadsAssumption DEF PoolInv, Places, Workers
  <2>3. QED
    BY <1>1, <2>1, <2>2 DEF AtRest, PoolInv, Resting, Places
<1>2. QED
  BY <1>1, PoolInvariance, PTL
-----------------------------------------------------------------------------
(***************************************************************************)
(* parallel_region() as a fork and a join.                                 *)
(***************************************************************************)
\* What a region looks like from outside.
Seen == IF master \in {"spawn", "lock"} THEN 0 ELSE Width
Finished == {i \in Workers : calls[i] = 1 /\ pc[i] \notin {"call", "catch"}}
Failed == {i \in failed : pc[i] # "catch"}

\* Which jobs there are, in a pool used freely, with a loop, or with an ordered loop.  Only
\* the first and the loops that are regions call a function `f`.
Kinds ==
  /\ Looped => ~Ordered
  /\ Plain => job.kind \in {"none", "once", "shutdown"}
  /\ Looped /\ entry # "dynamic" => job.kind \in {"none", "once"}
  /\ Looped /\ entry = "dynamic" => job.kind \in {"none", "dynamic"}
  /\ Ordered => job.kind \in {"none", "ordered"}
  /\ Ordered \/ (Looped /\ entry = "dynamic") =>
       (\A i \in Workers : calls[i] = 0) /\ failed = {}
  /\ Looped /\ entry = "dynamic" =>
       /\ tpc = [i \in Workers |-> tpc[i]]
       /\ \A i \in Workers : tpc[i] # "threw"

\* Thread i has called `f` once it has left the tasks of the job; a call is going on, has
\* returned, or has thrown; and the first exception that was handed over is kept.
Called(i) ==
  /\ calls[i] = IF done[i] THEN 1 ELSE 0
  /\ done[i] => i < Width
  /\ i \in failed => done[i]
  /\ pc[i] \in {"call", "catch", "abort"} => done[i]
  /\ pc[i] = "call" => i \notin failed
  /\ pc[i] = "catch" => i \in failed

Came(i) == i < Width /\ scheduler[i] = "controller" /\ ~Waits(i) => done[i]

Region ==
  /\ job.kind = "once" /\ master \in {"spawn", "lock", "reset", "switch"} =>
       \A i \in Workers : ~done[i]
  /\ Width > 0 /\ master \in {"reset", "switch", "notify", "join"} =>
       \A i \in Workers : Called(i)
  /\ Width > 0 /\ master \in {"notify", "join"} =>
       /\ \A i \in Workers : Came(i)
       /\ saved = IF Failed # {} THEN "current" ELSE "none"
  /\ job.kind = "once" /\ Width = 0 => \A i \in Workers : pc[i] \notin {"call", "catch"}

RegionInv == PoolInv /\ FullPool /\ Kinds /\ Region
-----------------------------------------------------------------------------
\* The function of a region runs only while the master waits for it.
LEMMA InsideRegion ==
  ASSUME PoolInv, master \notin {"notify", "join"}
  PROVE  \A i \in Workers : pc[i] \notin {"call", "catch", "abort"}
BY DEF PoolInv, TypeOK, Places, Running

LEMMA WidthIs ==
  ASSUME PoolInv
  PROVE  /\ Width \in 0 .. MaxThreads /\ Width \in Nat /\ Width <= nworkers
         /\ \A i \in Workers : i \in Nat /\ (i < Width => pc[i] # "none")
         /\ Width > 0 => job.kind = "once"
         /\ \A i \in Workers : job.kind = "once" /\ i < job.n /\ pc[i] # "none" => i < Width
<1>1. nworkers \in Nat /\ job.n \in 0 .. MaxThreads /\ MaxThreads \in Nat /\ nworkers <= MaxThreads
      /\ job.n \in Nat
  BY Living, MaxThreadsAssumption DEF PoolInv, TypeOK
<1>2. \A i \in Workers : i \in Nat /\ (i >= nworkers <=> pc[i] = "none")
  BY MaxThreadsAssumption DEF PoolInv, Places, Workers
<1>3. QED
  BY <1>1, <1>2 DEF Width

\* A step that no call of `f` has a part in.
LEMMA QuietStep ==
  ASSUME PoolInv, UNCHANGED <<calls, failed>>,
         \A i \in Workers : pc'[i] = pc[i] \/ (pc[i] \notin {"call", "catch", "abort"}
                                                /\ pc'[i] \notin {"call", "catch", "abort"})
  PROVE  Finished' = Finished /\ Failed' = Failed
<1>1. failed \subseteq Workers
  BY DEF PoolInv, TypeOK
<1>2. QED
  BY <1>1 DEF Finished, Failed

\* The four ways in which a step of the pool looks from outside.
LEMMA Stutters ==
  ASSUME Seen' = Seen, Finished' = Finished, Failed' = Failed, outcome' = outcome
  PROVE  [ForkJoin!Next]_(ForkJoin!vars)
BY DEF Seen, Finished, Failed, ForkJoin!vars

LEMMA Begins ==
  ASSUME Seen = 0, NEW n \in 1 .. MaxThreads, Seen' = n, Finished' = {}, Failed' = {},
         outcome' = outcome
  PROVE  [ForkJoin!Next]_(ForkJoin!vars)
BY DEF Seen, Finished, Failed, ForkJoin!Next, ForkJoin!Begin

LEMMA Finishes ==
  ASSUME NEW i \in Workers, i \in 0 .. Seen - 1, i \notin Finished, NEW fails \in BOOLEAN,
         Finished' = Finished \cup {i}, Failed' = IF fails THEN Failed \cup {i} ELSE Failed,
         Seen' = Seen, outcome' = outcome
  PROVE  [ForkJoin!Next]_(ForkJoin!vars)
<1>1. ForkJoin!Finish(i, fails)
  BY DEF Seen, Finished, Failed, ForkJoin!Finish
<1>2. QED
  BY <1>1 DEF ForkJoin!Next, ForkJoin!Work, Workers

LEMMA Returns ==
  ASSUME Seen > 0, Finished = 0 .. Seen - 1, Seen' = 0, Finished' = Finished, Failed' = Failed,
         (outcome' # "none") = (Failed # {})
  PROVE  [ForkJoin!Next]_(ForkJoin!vars)
BY DEF Seen, Finished, Failed, ForkJoin!Next, ForkJoin!Return
-----------------------------------------------------------------------------
\* A call of the user: a region has not begun.
LEMMA ApiStep ==
  ASSUME RegionInv, PoolInv', [LoopNext]_allVars, master = "user",
         master' \in {"user", "spawn", "lock"},
         UNCHANGED history, job'.kind = "once" => \A i \in Workers : ~done'[i],
         \A i \in Workers : pc'[i] = pc[i] \/ pc'[i] = "none"
  PROVE  Region' /\ [ForkJoin!Next]_(ForkJoin!vars)
<1>1. UNCHANGED <<calls, failed, outcome>>
  BY DEF history
<1>2. Region'
  <2>1. \A i \in Workers : pc'[i] \notin {"call", "catch"}
    BY InsideRegion DEF RegionInv
  <2>2. QED
    BY <2>1 DEF Region
<1>3. Seen = 0 /\ Seen' = 0
  BY CalledAtRest DEF Seen, Width, RegionInv, PoolInv, Jobs, NoJob
<1>4. Finished' = Finished /\ Failed' = Failed
  <2>1. \A i \in Workers : pc[i] \notin {"call", "catch", "abort"}
    BY InsideRegion DEF RegionInv
  <2>2. QED
    BY <1>1, <2>1, QuietStep DEF RegionInv
<1>5. QED
  BY <1>1, <1>2, <1>3, <1>4, Stutters

\* The master goes through awaken_and_run() and join(), or creates threads.
LEMMA MasterQuiet ==
  ASSUME PoolInv, MasterStep
  PROVE  /\ UNCHANGED done
         /\ \A i \in Workers : pc'[i] = pc[i] \/ (pc[i] \notin {"call", "catch", "abort"}
                                                   /\ pc'[i] \notin {"call", "catch", "abort"})
         /\ ~PostJob => UNCHANGED <<calls, failed>>
         /\ ~JoinJob => UNCHANGED outcome
         /\ job' = job \/ job' = NoJob
<1>1. CASE Spawn
  <2>1. nworkers \in Workers /\ pc[nworkers] = "none" /\ \A i \in Workers : i \in Int
    BY <1>1, Living, MaxThreadsAssumption DEF Spawn, PoolInv, TypeOK, Places, Workers
  <2>2. \A i \in Workers : pc'[i] = IF i = nworkers THEN "fetch" ELSE pc[i]
    BY <1>1, <2>1 DEF Spawn, Goto, PoolInv, TypeOK
  <2>3. UNCHANGED <<job, done, calls, failed, outcome>>
    BY <1>1 DEF Spawn, jobVars, history
  <2>4. QED
    BY <2>1, <2>2, <2>3
<1>2. CASE JoinSpawned \/ PostJob \/ ResetTask \/ SwitchTask \/ JoinJob \/ JoinShutdown
  BY <1>2 DEF JoinSpawned, PostJob, ResetTask, SwitchTask, JoinJob, JoinShutdown, ReturnToUser,
     threadVars, history, jobVars
<1>3. CASE NotifyAll \/ Reap
  BY <1>3 DEF NotifyAll, Reap, ReturnToUser, jobVars, history, PoolInv, TypeOK
<1>4. QED
  BY <1>1, <1>2, <1>3 DEF MasterStep

\* PostJob begins a region, if it is one.
LEMMA PostStep ==
  ASSUME RegionInv, PostJob
  PROVE  Region' /\ [ForkJoin!Next]_(ForkJoin!vars)
<1>1. /\ master = "lock" /\ master' = "reset"
      /\ UNCHANGED <<nworkers, job, done, index, pc, scheduler, task, outcome>>
  BY DEF PostJob, poolVars, jobVars, threadVars
<1>2. PoolInv /\ Width' = Width /\ Width \in 0 .. MaxThreads /\ (Width > 0 => job.kind = "once")
      /\ Seen = 0 /\ Seen' = Width /\ MaxThreads \in Nat
      /\ \A i \in Workers : pc[i] \notin {"call", "catch", "abort"}
  BY <1>1, WidthIs, InsideRegion, MaxThreadsAssumption DEF RegionInv, Width, Seen
<1>3. CASE Width > 0
  <2>1. calls' = [i \in Workers |-> 0] /\ failed' = {}
    BY <1>3 DEF PostJob
  <2>2. \A i \in Workers : ~done[i]
    BY <1>1, <1>2, <1>3 DEF RegionInv, Region
  <2>3. Finished' = {} /\ Failed' = {}
    BY <2>1 DEF Finished, Failed
  <2>4. Region'
    BY <1>1, <1>2, <2>1, <2>2 DEF Region, Called
  <2>5. Width \in 1 .. MaxThreads
    BY <1>2, <1>3
  <2>6. QED
    BY <1>1, <1>2, <2>3, <2>4, <2>5, Begins
<1>4. CASE ~(Width > 0)
  <2>1. UNCHANGED <<calls, failed>>
    BY <1>4 DEF PostJob
  <2>2. Finished' = Finished /\ Failed' = Failed
    BY <1>1, <1>2, <2>1, QuietStep
  <2>3. Width = 0
    BY <1>2, <1>4
  <2>4. Region'
    BY <1>1, <1>2, <2>3 DEF Region, RegionInv
  <2>5. QED
    BY <1>1, <1>2, <2>2, <2>3, <2>4, Stutters
<1>5. QED
  BY <1>3, <1>4

\* Then the workers are called, and have all been told.
LEMMA AwakenStep ==
  ASSUME RegionInv, ResetTask \/ SwitchTask \/ NotifyAll
  PROVE  Region' /\ [ForkJoin!Next]_(ForkJoin!vars)
<1>1. /\ UNCHANGED <<nworkers, job, done, scheduler, task, calls, failed, outcome>>
      /\ master \in {"reset", "switch", "notify"} /\ master' \in {"switch", "notify", "join"}
      /\ PoolInv
      /\ \A i \in Workers : pc'[i] = pc[i] \/ (pc[i] \notin {"call", "catch", "abort"}
                                                /\ pc'[i] \notin {"call", "catch", "abort"})
  <2>1. PoolInv /\ MasterStep
    BY DEF RegionInv, MasterStep
  <2>2. QED
    BY <2>1, MasterQuiet
       DEF ResetTask, SwitchTask, NotifyAll, poolVars, jobVars, threadVars, history
<1>2. Finished' = Finished /\ Failed' = Failed /\ Width' = Width /\ Seen' = Seen
  BY <1>1, QuietStep DEF Width, Seen
<1>3. [ForkJoin!Next]_(ForkJoin!vars)
  BY <1>1, <1>2, Stutters
<1>4. Width > 0 => /\ job.kind = "once"
                   /\ \A i \in Workers : Called(i)'
  <2>1. ASSUME Width > 0 PROVE \A i \in Workers : Called(i)
    BY <1>1, <2>1 DEF RegionInv, Region
  <2>2. \A i \in Workers : Called(i) => Called(i)'
    BY <1>1, <1>2 DEF Called
  <2>3. QED
    BY <1>1, <2>1, <2>2, WidthIs
<1>5. \A i \in Workers : job.kind = "once" /\ Width = 0 => pc'[i] \notin {"call", "catch"}
  BY <1>1 DEF RegionInv, Region
<1>6. CASE ResetTask
  <2>1. master = "reset" /\ master' = "switch"
    BY <1>6 DEF ResetTask
  <2>2. QED
    BY <1>1, <1>2, <1>3, <1>4, <1>5, <2>1 DEF Region, RegionInv
<1>7. CASE SwitchTask
  <2>1. master = "switch" /\ master' = "notify" /\ saved' = "none" /\ pc' = pc
        /\ index' = Prev /\ index \in SleepTasks
    BY <1>1, <1>7, Living DEF SwitchTask, ForgetException, threadVars
  <2>2. Prev' = index
    BY <2>1 DEF Prev, SleepTasks
  <2>3. ASSUME Width > 0
        PROVE  (\A i \in Workers : Came(i)') /\ Failed' = {}
    <3>1. job.kind = "once" /\ \A i \in Workers : ~done[i] /\ Called(i)
      BY <1>1, <1>4, <2>1, <2>3 DEF RegionInv, Region
    <3>2. Failed = {}
      BY <1>1, <3>1 DEF Failed, Called, PoolInv, TypeOK
    <3>3. \A i \in Workers : i < Width => Waits(i)'
      BY <1>1, <2>1, <2>2, WidthIs DEF PoolInv, Resting, Waits
    <3>4. QED
      BY <1>2, <3>2, <3>3 DEF Came
  <2>4. QED
    BY <1>1, <1>2, <1>3, <1>4, <1>5, <2>1, <2>3 DEF Region
<1>8. CASE NotifyAll
  <2>1. master = "notify" /\ master' = "join" /\ saved' = saved /\ index' = index
    BY <1>8 DEF NotifyAll, controller
  <2>2. \A i \in Workers : Waits(i)' <=> Waits(i)
    BY <1>1, <1>8, <2>1 DEF NotifyAll, Waits, Prev
  <2>3. \A i \in Workers : Came(i) => Came(i)'
    BY <1>1, <1>2, <2>2 DEF Came
  <2>4. QED
    BY <1>1, <1>2, <1>3, <1>4, <1>5, <2>1, <2>3 DEF Region, RegionInv
<1>9. QED
  BY <1>6, <1>7, <1>8

\* The region returns when all have called, and passes on the exception of one of them.
LEMMA JoinStep ==
  ASSUME RegionInv, JoinJob
  PROVE  Region' /\ [ForkJoin!Next]_(ForkJoin!vars)
<1>1. /\ master = "join" /\ master' = "user" /\ job' = NoJob /\ job.kind # "shutdown"
      /\ UNCHANGED <<nworkers, done, index, saved, pc, scheduler, task, calls, failed>>
      /\ AllAsleep(nworkers) /\ PoolInv
  BY DEF JoinJob, ReturnToUser, poolVars, threadVars, RegionInv
<1>2. Finished' = Finished /\ Failed' = Failed
  BY <1>1 DEF Finished, Failed
<1>3. Seen' = 0 /\ Seen = Width
  BY <1>1 DEF Seen, Width, NoJob
<1>4. Region'
  BY <1>1 DEF Region, Width, NoJob
<1>5. CASE Width = 0
  <2>1. outcome' = outcome
    BY <1>5 DEF JoinJob
  <2>2. QED
    BY <1>2, <1>3, <1>4, <1>5, <2>1, Stutters
<1>6. CASE Width # 0
  <2>1. Width > 0 /\ Width \in Nat /\ Width <= MaxThreads /\ MaxThreads \in Nat
    BY <1>1, <1>6, WidthIs, MaxThreadsAssumption
  <2>2. /\ \A i \in Workers : Called(i) /\ Came(i)
        /\ saved = IF Failed # {} THEN "current" ELSE "none"
    BY <1>1, <2>1 DEF RegionInv, Region
  <2>3. \A i \in Workers : i < Width =>
          pc[i] \in {"asleep", "woken"} /\ scheduler[i] = "controller" /\ ~Waits(i)
    <3>1. \A i \in Workers : i < Width => pc[i] \in {"asleep", "woken"} /\ task[i] = index
      BY <1>1, AllJoined, WidthIs
    <3>2. Prev # index
      BY <1>1, Living
    <3>3. QED
      BY <1>1, <3>1, <3>2 DEF PoolInv, Places, Waits
  <2>4. Finished = 0 .. Width - 1
    <3>1. ASSUME NEW i \in 0 .. Width - 1 PROVE i \in Finished
      <4>1. i \in Workers /\ i < Width
        BY <2>1 DEF Workers
      <4>2. QED
        BY <2>2, <2>3, <4>1 DEF Finished, Called, Came
    <3>2. ASSUME NEW i \in Finished PROVE i \in 0 .. Width - 1
      <4>1. i \in Workers /\ calls[i] = 1
        BY DEF Finished
      <4>2. done[i]
        BY <2>2, <4>1 DEF Called
      <4>3. QED
        BY <1>1, <2>1, <2>2, <4>1, <4>2, WidthIs DEF Called
    <3>3. QED
      BY <3>1, <3>2
  <2>5. (outcome' # "none") = (Failed # {})
    BY <1>6, <2>2 DEF JoinJob
  <2>6. QED
    BY <1>2, <1>3, <1>4, <2>1, <2>4, <2>5, Returns
<1>7. QED
  BY <1>5, <1>6

LEMMA OtherMasterStep ==
  ASSUME RegionInv, Spawn \/ JoinSpawned \/ JoinShutdown \/ Reap
  PROVE  Region' /\ [ForkJoin!Next]_(ForkJoin!vars)
<1>1. /\ PoolInv /\ MasterStep /\ ~PostJob /\ ~JoinJob
  BY DEF RegionInv, MasterStep, Spawn, JoinSpawned, JoinShutdown, Reap, PostJob, JoinJob
<1>2. /\ UNCHANGED <<done, calls, failed, outcome>>
      /\ \A i \in Workers : pc'[i] = pc[i] \/ (pc[i] \notin {"call", "catch", "abort"}
                                                /\ pc'[i] \notin {"call", "catch", "abort"})
      /\ job' = job \/ job' = NoJob
  BY <1>1, MasterQuiet
<1>3. Finished' = Finished /\ Failed' = Failed
  BY <1>1, <1>2, QuietStep
<1>4. CASE Spawn \/ JoinSpawned
  <2>1. /\ master = "spawn" /\ master' \in {"spawn", "lock", "user"}
        /\ master' = "user" => job' = NoJob
    BY <1>4 DEF Spawn, JoinSpawned, ReturnToUser
  <2>2. \A i \in Workers : pc'[i] \notin {"call", "catch"}
    BY <1>1, <1>2, <2>1, InsideRegion
  <2>3. Seen = 0 /\ Seen' = 0
    BY <2>1 DEF Seen, Width, NoJob
  <2>4. Region'
    BY <1>2, <2>1, <2>2 DEF RegionInv, Region, NoJob
  <2>5. QED
    BY <1>2, <1>3, <2>3, <2>4, Stutters
<1>5. CASE JoinShutdown \/ Reap
  <2>1. job.kind = "shutdown" /\ master \notin {"spawn", "lock"} /\ master' \notin {"spawn", "lock"}
    BY <1>1, <1>5 DEF JoinShutdown, Reap, ReturnToUser, PoolInv, Running
  <2>2. Seen = 0 /\ Seen' = 0 /\ job'.kind # "once" /\ Width' = 0
    BY <1>2, <2>1 DEF Seen, Width, NoJob
  <2>3. Region'
    BY <2>2 DEF Region
  <2>4. QED
    BY <1>2, <1>3, <2>2, <2>3, Stutters
<1>6. QED
  BY <1>4, <1>5
-----------------------------------------------------------------------------
(***************************************************************************)
(* The workers.                                                            *)
(***************************************************************************)
\* A worker that goes to sleep, or wakes up, has called `f` before, or will.
LEMMA SleeperCame ==
  ASSUME PoolInv, job.kind # "shutdown", master \in {"notify", "join"}, NEW i \in Workers,
         SleepStep(i) \/ SpuriousWake(i)
  PROVE  \A k \in Workers :
           scheduler'[k] = "controller" /\ ~Waits(k)' => scheduler[k] = "controller" /\ ~Waits(k)
<1>1. /\ pc = [k \in Workers |-> pc[k]] /\ scheduler = [k \in Workers |-> scheduler[k]]
      /\ task = [k \in Workers |-> task[k]]
  BY DEF PoolInv, TypeOK
<1>2. CASE FetchShutdown(i) \/ ExitThread(i)
  <2>1. i \notin Left
    BY DEF PoolInv, Running
  <2>2. QED
    BY <1>2, <2>1 DEF FetchShutdown, ExitThread, Left
<1>3. CASE FetchSleep(i)
  <2>1. /\ pc[i] = "fetch" /\ scheduler' = scheduler /\ index' = index
        /\ \A k \in Workers : pc'[k] = IF k = i THEN "drowsy" ELSE pc[k]
        /\ \A k \in Workers : k # i => task'[k] = task[k]
    BY <1>1, <1>3 DEF FetchSleep, Goto, controller
  <2>2. QED
    BY <2>1 DEF Waits, Prev
<1>4. CASE FallAsleep(i) \/ WakeUp(i)
  <2>1. /\ pc[i] \in {"drowsy", "woken"} /\ task' = task /\ index' = index
        /\ scheduler[i] = "controller"
        /\ \A k \in Workers : k # i => pc'[k] = pc[k] /\ scheduler'[k] = scheduler[k]
        /\ \/ pc'[i] = "asleep" /\ scheduler' = scheduler
           \/ scheduler'[i] = "job"
    BY <1>1, <1>4 DEF FallAsleep, WakeUp, WaitOrTake, Goto, PoolInv, Places
  <2>2. \A k \in Workers : k # i => (Waits(k)' <=> Waits(k))
    BY <2>1 DEF Waits, Prev
  <2>3. Waits(i) /\ pc'[i] = "asleep" => Waits(i)'
    BY <2>1 DEF Waits, Prev
  <2>4. QED
    BY <2>1, <2>2, <2>3
<1>5. CASE SpuriousWake(i)
  <2>1. /\ pc[i] = "asleep" /\ task' = task /\ index' = index /\ scheduler' = scheduler
        /\ \A k \in Workers : pc'[k] = IF k = i THEN "woken" ELSE pc[k]
    BY <1>1, <1>5 DEF SpuriousWake, Goto, controller
  <2>2. \A k \in Workers : Waits(k)' <=> Waits(k)
    BY <2>1 DEF Waits, Prev
  <2>3. QED
    BY <2>1, <2>2
<1>6. QED
  BY <1>2, <1>3, <1>4, <1>5 DEF SleepStep

LEMMA SleeperQuiet ==
  ASSUME PoolInv, NEW i \in Workers, SleepStep(i) \/ SpuriousWake(i)
  PROVE  /\ UNCHANGED <<nworkers, requested, job, done, index, saved, master, calls, failed,
                         outcome>>
         /\ \A k \in Workers : pc'[k] = pc[k] \/ (pc[k] \notin {"call", "catch", "abort"}
                                                   /\ pc'[k] \notin {"call", "catch", "abort"})
<1>1. pc = [k \in Workers |-> pc[k]]
  BY DEF PoolInv, TypeOK
<1>2. UNCHANGED <<nworkers, requested, job, done, index, saved, master, calls, failed, outcome>>
  BY DEF SleepStep, SpuriousWake, FetchShutdown, ExitThread, FetchSleep, FallAsleep, WakeUp,
     WaitOrTake, poolVars, jobVars, controller, history
<1>3. /\ pc[i] \notin {"call", "catch", "abort"} /\ pc'[i] \notin {"call", "catch", "abort"}
      /\ \A k \in Workers : k # i => pc'[k] = pc[k]
  BY <1>1 DEF SleepStep, SpuriousWake, FetchShutdown, ExitThread, FetchSleep, FallAsleep, WakeUp,
     WaitOrTake, Goto, InJob
<1>4. QED
  BY <1>2, <1>3

LEMMA SleeperStep ==
  ASSUME RegionInv, NEW i \in Workers, SleepStep(i) \/ SpuriousWake(i)
  PROVE  Region' /\ [ForkJoin!Next]_(ForkJoin!vars)
<1>1. /\ PoolInv
      /\ UNCHANGED <<nworkers, requested, job, done, index, saved, master, calls, failed, outcome>>
      /\ \A k \in Workers : pc'[k] = pc[k] \/ (pc[k] \notin {"call", "catch", "abort"}
                                                /\ pc'[k] \notin {"call", "catch", "abort"})
  BY SleeperQuiet DEF RegionInv
<1>2. Finished' = Finished /\ Failed' = Failed /\ Width' = Width /\ Seen' = Seen
  BY <1>1, QuietStep DEF Width, Seen
<1>3. [ForkJoin!Next]_(ForkJoin!vars)
  BY <1>1, <1>2, Stutters
<1>4. \A k \in Workers : Called(k) => Called(k)'
  BY <1>1, <1>2 DEF Called
<1>5. ASSUME Width > 0, master \in {"notify", "join"}
      PROVE  \A k \in Workers : Came(k) => Came(k)'
  <2>1. job.kind = "once"
    BY <1>1, <1>5, WidthIs
  <2>2. QED
    BY <1>1, <1>2, <1>5, <2>1, SleeperCame DEF Came
<1>6. Region'
  BY <1>1, <1>2, <1>4, <1>5 DEF RegionInv, Region
<1>7. QED
  BY <1>3, <1>6

\* What the threads do in a region.
LEMMA CallerStep ==
  ASSUME RegionInv, NEW i \in Workers, job.kind = "once",
         TurnToSleep(i) \/ FetchCall(i) \/ Return(i) \/ Throw(i) \/ Catch(i) \/ Abort(i)
  PROVE  Region' /\ [ForkJoin!Next]_(ForkJoin!vars)
<1>1. /\ PoolInv /\ pc[i] # "none" /\ i \in Nat
      /\ UNCHANGED <<nworkers, requested, job, index, master, outcome>>
      /\ pc = [k \in Workers |-> pc[k]]
  <2>1. PoolInv
    BY DEF RegionInv
  <2>2. outcome' = outcome
    BY DEF TurnToSleep, SwitchToController, FetchCall, Return, Throw, Catch, Abort, EndCall, history
  <2>3. QED
    BY <2>1, <2>2, JobStepPool, WidthIs DEF PoolInv, TypeOK
<1>2. master \in {"notify", "join"} /\ scheduler[i] = "job"
  <2>1. scheduler[i] = "job"
    BY <1>1 DEF TurnToSleep, SwitchToController, FetchCall, Return, Throw, Catch, Abort, EndCall,
       InJob, PoolInv, Places
  <2>2. QED
    BY <1>1, <2>1 DEF PoolInv, Places, Running
<1>3. Width' = Width /\ Seen = Width /\ Seen' = Seen /\ Width \in Nat
  BY <1>1, <1>2, WidthIs DEF Width, Seen
<1>4. CASE Width = 0
  <2>1. ~FetchCall(i)
    BY <1>1, <1>3, <1>4, WidthIs DEF FetchCall, OnceHasTask
  <2>2. pc[i] \notin {"call", "catch"}
    BY <1>4 DEF RegionInv, Region
  <2>3. /\ \A k \in Workers : pc'[k] # pc[k] => pc[k] = "abort" /\ pc'[k] = "fetch"
        /\ UNCHANGED <<calls, failed>>
    BY <1>1, <2>1, <2>2 DEF TurnToSleep, SwitchToController, Return, Throw, Catch, Abort, EndCall,
       Goto, history
  <2>4. Finished' = Finished /\ Failed' = Failed
    <3>1. failed \subseteq Workers
      BY <1>1 DEF PoolInv, TypeOK
    <3>2. QED
      BY <2>3, <3>1 DEF Finished, Failed
  <2>5. Region'
    BY <1>1, <1>2, <1>3, <1>4, <2>3 DEF RegionInv, Region
  <2>6. QED
    BY <1>1, <1>3, <2>4, <2>5, Stutters
<1>5. CASE Width > 0
  <2>1. /\ \A k \in Workers : Called(k) /\ Came(k)
        /\ saved = IF Failed # {} THEN "current" ELSE "none"
        /\ failed \subseteq Workers
    BY <1>1, <1>2, <1>5 DEF RegionInv, Region, PoolInv, TypeOK
  <2>2. ASSUME \A k \in Workers : Called(k)' /\ Came(k)',
               saved' = IF Failed' # {} THEN "current" ELSE "none"
        PROVE  Region'
    BY <1>1, <1>2, <1>3, <1>5, <2>2 DEF Region
  <2>3. CASE TurnToSleep(i)
    <3>1. /\ UNCHANGED <<done, saved, pc, task, calls, failed>> /\ ~OnceHasTask(i)
          /\ \A k \in Workers : k # i => scheduler'[k] = scheduler[k]
      BY <2>3 DEF TurnToSleep, SwitchToController, NoMoreTasks, jobVars, controller, history,
         PoolInv, TypeOK
    <3>2. i < Width => done[i]
      <4>1. job.n \in Nat /\ nworkers \in Nat
        BY <1>1, Living, MaxThreadsAssumption DEF PoolInv, TypeOK
      <4>2. QED
        BY <1>1, <1>3, <3>1, <4>1 DEF OnceHasTask, Width
    <3>3. Finished' = Finished /\ Failed' = Failed
      BY <3>1 DEF Finished, Failed
    <3>4. \A k \in Workers : Called(k)'
      BY <1>3, <2>1, <3>1 DEF Called
    <3>5. \A k \in Workers : Came(k)'
      <4>1. \A k \in Workers : Waits(k)' <=> Waits(k)
        BY <1>1, <3>1 DEF Waits, Prev
      <4>2. QED
        BY <1>3, <2>1, <3>1, <3>2, <4>1 DEF Came
    <3>6. QED
      BY <1>1, <1>3, <2>1, <2>2, <3>1, <3>3, <3>4, <3>5, Stutters
  <2>4. CASE FetchCall(i)
    <3>1. /\ UNCHANGED <<saved, scheduler, task, failed>> /\ ~done[i] /\ pc[i] = "fetch"
          /\ \A k \in Workers : k # i => /\ pc'[k] = pc[k] /\ done'[k] = done[k]
                                         /\ calls'[k] = calls[k]
          /\ pc'[i] = "call" /\ done'[i] = TRUE /\ calls'[i] = calls[i] + 1
          /\ i < Width
      <4>1. i < job.n
        BY <2>4 DEF FetchCall, OnceHasTask
      <4>2. i < Width
        BY <1>1, <4>1, WidthIs
      <4>3. QED
        BY <1>1, <2>4, <4>2 DEF FetchCall, InJob, OnceHasTask, Goto, controller, PoolInv, TypeOK
    <3>2. calls[i] = 0 /\ calls'[i] = 1 /\ i \notin failed
      BY <2>1, <3>1 DEF Called
    <3>3. Finished' = Finished /\ Failed' = Failed
      BY <2>1, <3>1, <3>2 DEF Finished, Failed
    <3>4. \A k \in Workers : Called(k)'
      <4>1. \A k \in Workers : k # i => Called(k)'
        BY <1>3, <2>1, <3>1 DEF Called
      <4>2. Called(i)'
        BY <1>3, <3>1, <3>2 DEF Called
      <4>3. QED
        BY <4>1, <4>2
    <3>5. \A k \in Workers : Came(k)'
      <4>1. \A k \in Workers : k # i => (Waits(k)' <=> Waits(k))
        BY <1>1, <3>1 DEF Waits, Prev
      <4>2. QED
        BY <1>3, <2>1, <3>1, <4>1 DEF Came
    <3>6. QED
      BY <1>1, <1>3, <2>1, <2>2, <3>1, <3>3, <3>4, <3>5, Stutters
  <2>5. CASE Return(i)
    <3>1. /\ UNCHANGED <<done, saved, scheduler, task, calls, failed>> /\ pc[i] = "call"
          /\ \A k \in Workers : pc'[k] = IF k = i THEN "fetch" ELSE pc[k]
      BY <1>1, <2>5 DEF Return, EndCall, Goto, jobVars, controller
    <3>2. done[i] /\ calls[i] = 1 /\ i < Width /\ i \notin failed
      BY <2>1, <3>1 DEF Called
    <3>3. Finished' = Finished \cup {i} /\ Failed' = Failed /\ i \notin Finished
      BY <2>1, <3>1, <3>2 DEF Finished, Failed
    <3>4. \A k \in Workers : Called(k)'
      BY <1>3, <2>1, <3>1, <3>2 DEF Called
    <3>5. \A k \in Workers : Came(k)'
      <4>1. \A k \in Workers : k # i => (Waits(k)' <=> Waits(k))
        BY <1>1, <3>1 DEF Waits, Prev
      <4>2. QED
        BY <1>3, <2>1, <3>1, <3>2, <4>1 DEF Came
    <3>6. i \in 0 .. Seen - 1
      BY <1>1, <1>3, <3>2
    <3>7. [ForkJoin!Next]_(ForkJoin!vars)
      BY <1>1, <1>3, <3>3, <3>6, Finishes
    <3>8. QED
      BY <2>1, <2>2, <3>1, <3>3, <3>4, <3>5, <3>7
  <2>6. CASE Throw(i)
    <3>1. /\ UNCHANGED <<done, saved, scheduler, task, calls>> /\ pc[i] = "call"
          /\ failed' = failed \cup {i}
          /\ \A k \in Workers : pc'[k] = IF k = i THEN "catch" ELSE pc[k]
      BY <1>1, <2>6 DEF Throw, EndCall, Goto, jobVars, controller
    <3>2. done[i] /\ calls[i] = 1 /\ i < Width /\ i \notin failed
      BY <2>1, <3>1 DEF Called
    <3>3. Finished' = Finished /\ Failed' = Failed
      BY <2>1, <3>1, <3>2 DEF Finished, Failed
    <3>4. \A k \in Workers : Called(k)'
      BY <1>3, <2>1, <3>1, <3>2 DEF Called
    <3>5. \A k \in Workers : Came(k)'
      <4>1. \A k \in Workers : k # i => (Waits(k)' <=> Waits(k))
        BY <1>1, <3>1 DEF Waits, Prev
      <4>2. QED
        BY <1>3, <2>1, <3>1, <3>2, <4>1 DEF Came
    <3>6. QED
      BY <1>1, <1>3, <2>1, <2>2, <3>1, <3>3, <3>4, <3>5, Stutters
  <2>7. CASE Catch(i)
    <3>1. /\ UNCHANGED <<done, scheduler, task, calls, failed>> /\ pc[i] = "catch"
          /\ saved' = IF saved = "none" THEN "current" ELSE saved
          /\ \A k \in Workers : pc'[k] = IF k = i THEN "abort" ELSE pc[k]
      BY <1>1, <2>7 DEF Catch, Goto, jobVars, history
    <3>2. done[i] /\ calls[i] = 1 /\ i < Width /\ i \in failed
      BY <2>1, <3>1 DEF Called
    <3>3. Finished' = Finished \cup {i} /\ Failed' = Failed \cup {i} /\ i \notin Finished
      BY <2>1, <3>1, <3>2 DEF Finished, Failed
    <3>4. \A k \in Workers : Called(k)'
      BY <1>3, <2>1, <3>1, <3>2 DEF Called
    <3>5. \A k \in Workers : Came(k)'
      <4>1. \A k \in Workers : k # i => (Waits(k)' <=> Waits(k))
        BY <1>1, <3>1 DEF Waits, Prev
      <4>2. QED
        BY <1>3, <2>1, <3>1, <3>2, <4>1 DEF Came
    <3>6. saved' = "current" /\ Failed' # {}
      BY <2>1, <3>1, <3>3
    <3>7. i \in 0 .. Seen - 1
      BY <1>1, <1>3, <3>2
    <3>8. [ForkJoin!Next]_(ForkJoin!vars)
      BY <1>1, <1>3, <3>3, <3>7, Finishes
    <3>9. QED
      BY <2>2, <3>4, <3>5, <3>6, <3>8
  <2>8. CASE Abort(i)
    <3>1. /\ UNCHANGED <<done, saved, scheduler, task, calls, failed>> /\ pc[i] = "abort"
          /\ \A k \in Workers : pc'[k] = IF k = i THEN "fetch" ELSE pc[k]
      BY <1>1, <2>8 DEF Abort, Goto, jobVars, controller, history
    <3>2. Finished' = Finished /\ Failed' = Failed
      BY <2>1, <3>1 DEF Finished, Failed
    <3>3. \A k \in Workers : Called(k)'
      BY <1>3, <2>1, <3>1 DEF Called
    <3>4. done[i]
      BY <2>1, <3>1 DEF Called
    <3>5. \A k \in Workers : Came(k)'
      <4>1. \A k \in Workers : k # i => (Waits(k)' <=> Waits(k))
        BY <1>1, <3>1 DEF Waits, Prev
      <4>2. QED
        BY <1>3, <2>1, <3>1, <3>4, <4>1 DEF Came
    <3>6. QED
      BY <1>1, <1>3, <2>1, <2>2, <3>1, <3>2, <3>3, <3>5, Stutters
  <2>9. QED
    BY <2>3, <2>4, <2>5, <2>6, <2>7, <2>8
<1>6. QED
  BY <1>3, <1>4, <1>5
-----------------------------------------------------------------------------
(***************************************************************************)
(* The loops, which call no `f`, and all steps together.                   *)
(***************************************************************************)
NoCalls == Ordered \/ (Looped /\ entry = "dynamic")

LEMMA NoCallsStep ==
  ASSUME RegionInv, NoCalls, job' = job, UNCHANGED <<calls, failed, outcome>>
  PROVE  Region' /\ [ForkJoin!Next]_(ForkJoin!vars)
<1>1. job.kind # "once" /\ (\A i \in Workers : calls[i] = 0) /\ failed = {}
  BY DEF RegionInv, Kinds, NoCalls
<1>2. Finished = {} /\ Finished' = {} /\ Failed = {} /\ Failed' = {}
  BY <1>1 DEF Finished, Failed
<1>3. Seen = 0 /\ Seen' = 0 /\ Region'
  BY <1>1 DEF Seen, Width, Region
<1>4. QED
  BY <1>2, <1>3, Stutters

LEMMA DynamicStep ==
  ASSUME RegionInv, NEW i \in Workers, Looped, entry = "dynamic", LoopStep(i)
  PROVE  /\ UNCHANGED <<job, calls, failed, outcome>>
         /\ tpc' = [k \in Workers |-> tpc'[k]] /\ \A k \in Workers : tpc'[k] # "threw"
<1>1. /\ job.kind \in {"none", "dynamic"} /\ tpc = [k \in Workers |-> tpc[k]]
      /\ \A k \in Workers : tpc[k] # "threw"
  BY DEF RegionInv, Kinds
<1>2. CASE PoolStep(i)
  <2>1. SleepStep(i)
    BY <1>1, <1>2 DEF PoolStep, FetchCall
  <2>2. UNCHANGED <<job, calls, failed, outcome>>
    BY <2>1, SleeperQuiet DEF RegionInv
  <2>3. QED
    BY <1>1, <1>2, <2>2 DEF PoolStep, teamVars
<1>3. CASE EndRegion(i)
  <2>1. Return(i) /\ UNCHANGED tpc
    BY <1>1, <1>3 DEF EndRegion, teamVars
  <2>2. UNCHANGED <<job, calls, failed, outcome>>
    BY <2>1 DEF Return, EndCall, jobVars
  <2>3. QED
    BY <1>1, <2>1, <2>2
<1>4. CASE FetchIteration(i)
  <2>1. tpc' = [tpc EXCEPT ![i] = "call"]
    BY <1>4 DEF FetchIteration, Team!FetchIteration, Team!Goto
  <2>2. UNCHANGED <<job, calls, failed, outcome>>
    BY <1>4 DEF FetchIteration, jobVars, history
  <2>3. QED
    BY <1>1, <2>1, <2>2
<1>5. CASE FetchNothing(i)
  <2>1. tpc' = [tpc EXCEPT ![i] = "done"] \/ tpc' = tpc
    BY <1>5 DEF FetchNothing, Team!FetchNothing, Team!Goto, teamVars
  <2>2. UNCHANGED <<job, calls, failed, outcome>>
    BY <1>5 DEF FetchNothing, SwitchToController, jobVars, history
  <2>3. QED
    BY <1>1, <2>1, <2>2
<1>6. CASE EndIteration(i)
  <2>1. tpc' = [tpc EXCEPT ![i] = "next"] \/ tpc' = [tpc EXCEPT ![i] = "catch"]
    BY <1>6 DEF EndIteration, Team!CallIteration, Team!Throw, Team!Goto
  <2>2. UNCHANGED <<job, calls, failed, outcome>>
    BY <1>6 DEF EndIteration, EndCall, jobVars
  <2>3. QED
    BY <1>1, <2>1, <2>2
<1>7. CASE SaveException(i) \/ AbortLoop(i)
  <2>1. tpc' = [tpc EXCEPT ![i] = "abort"] \/ tpc' = [tpc EXCEPT ![i] = "next"]
    BY <1>7 DEF SaveException, AbortLoop, Team!Goto
  <2>2. UNCHANGED <<job, calls, failed, outcome>>
    BY <1>7 DEF SaveException, AbortLoop, Catch, Abort, jobVars, history
  <2>3. QED
    BY <1>1, <2>1, <2>2
<1>8. QED
  BY <1>2, <1>3, <1>4, <1>5, <1>6, <1>7 DEF LoopStep, InRegion

LEMMA OrderedStep ==
  ASSUME RegionInv, NEW i \in Workers, TaskStep(i)
  PROVE  UNCHANGED <<job, calls, failed, outcome>>
<1>1. CASE GetTask(i) \/ GetNothing(i)
  BY <1>1 DEF GetTask, GetNothing, SwitchToController, jobVars, history
<1>2. CASE GetWaitTask(i) \/ ExecuteTask(i)
  BY <1>2 DEF GetWaitTask, ExecuteTask, vars, jobVars, history
<1>3. CASE EndTask(i)
  BY <1>3 DEF EndTask, EndCall, jobVars
<1>4. CASE SaveTaskException(i) \/ AbortOrdered(i)
  BY <1>4 DEF SaveTaskException, AbortOrdered, Catch, Abort, jobVars, history
<1>5. CASE SleepStep(i)
  BY <1>5, SleeperQuiet DEF RegionInv
<1>6. QED
  BY <1>1, <1>2, <1>3, <1>4, <1>5 DEF TaskStep

\* A thread that has fetched something is in the job.
LEMMA BusyInJob ==
  ASSUME RegionInv, NEW i \in Workers,
         TurnToSleep(i) \/ FetchCall(i) \/ Return(i) \/ Throw(i) \/ Catch(i) \/ Abort(i)
  PROVE  job.kind # "none" /\ (TurnToSleep(i) \/ job.kind # "shutdown")
<1>1. PoolInv
  BY DEF RegionInv
<1>2. pc[i] # "none" /\ scheduler[i] = "job"
  BY <1>1 DEF TurnToSleep, SwitchToController, FetchCall, Return, Throw, Catch, Abort, EndCall,
     InJob, PoolInv, Places
<1>3. master \in {"notify", "join", "reap"}
  BY <1>1, <1>2 DEF PoolInv, Places
<1>4. ~TurnToSleep(i) => job.kind # "shutdown"
  BY <1>1, <1>3 DEF FetchCall, Return, Throw, Catch, Abort, EndCall, PoolInv, Running
<1>5. QED
  BY <1>1, <1>3, <1>4 DEF PoolInv, Jobs

LEMMA PlainWorkerStep ==
  ASSUME RegionInv, NEW i \in Workers, Plain, WorkerStep(i)
  PROVE  job' = job /\ Region' /\ [ForkJoin!Next]_(ForkJoin!vars)
<1>1. PoolInv
  BY DEF RegionInv
<1>2. CASE SleepStep(i)
  BY <1>1, <1>2, SleeperStep, SleeperQuiet
<1>3. CASE ~SleepStep(i)
  <2>1. TurnToSleep(i) \/ FetchCall(i) \/ Return(i) \/ Throw(i) \/ Catch(i) \/ Abort(i)
    BY <1>3 DEF WorkerStep
  <2>2. job' = job /\ job.kind \in {"once", "shutdown"}
    BY <2>1, BusyInJob, JobStepPool DEF RegionInv, Kinds
  <2>3. CASE job.kind = "once"
    BY <2>1, <2>2, <2>3, CallerStep
  <2>4. CASE job.kind = "shutdown"
    <3>1. TurnToSleep(i)
      BY <2>1, <2>4, BusyInJob
    <3>2. UNCHANGED <<pc, calls, failed, outcome>>
      BY <3>1 DEF TurnToSleep, SwitchToController, history
    <3>3. Finished' = Finished /\ Failed' = Failed
      BY <3>2 DEF Finished, Failed
    <3>4. Seen' = Seen /\ Region'
      BY <2>2, <2>4 DEF Seen, Width, Region
    <3>5. QED
      BY <2>2, <3>2, <3>3, <3>4, Stutters
  <2>5. QED
    BY <2>2, <2>3, <2>4
<1>4. QED
  BY <1>2, <1>3

LEMMA NothingChanges ==
  ASSUME RegionInv, UNCHANGED vars
  PROVE  Region' /\ [ForkJoin!Next]_(ForkJoin!vars)
<1>1. UNCHANGED <<nworkers, job, done, index, saved, master, pc, scheduler, task, calls, failed,
                  outcome>>
  BY DEF vars, poolVars, jobVars, controller, threadVars, history
<1>2. Finished' = Finished /\ Failed' = Failed /\ Width' = Width
      /\ \A i \in Workers : (Called(i)' <=> Called(i)) /\ (Came(i)' <=> Came(i))
  BY <1>1 DEF Finished, Failed, Width, Called, Came, Waits, Prev
<1>3. Seen' = Seen /\ Region'
  BY <1>1, <1>2 DEF Seen, RegionInv, Region
<1>4. QED
  BY <1>1, <1>2, <1>3, Stutters

\* The threads of a region with loops and barriers in its function.
LEMMA RegionStep ==
  ASSUME RegionInv, NEW i \in Workers, Looped, entry # "dynamic", LoopStep(i)
  PROVE  job' = job /\ Region' /\ [ForkJoin!Next]_(ForkJoin!vars)
<1>1. job.kind \in {"none", "once"} /\ PoolInv
  BY DEF RegionInv, Kinds
<1>2. CASE SleepStep(i)
  BY <1>1, <1>2, SleeperStep, SleeperQuiet
<1>3. CASE TurnToSleep(i) \/ FetchCall(i) \/ Return(i) \/ Throw(i) \/ Catch(i) \/ Abort(i)
  <2>1. job.kind = "once"
    BY <1>1, <1>3, BusyInJob
  <2>2. QED
    BY <1>3, <2>1, CallerStep, JobStepPool
<1>4. CASE InRegion(i)
  BY <1>4, NothingChanges DEF InRegion, vars, jobVars
<1>5. QED
  BY <1>1, <1>2, <1>3, <1>4
     DEF LoopStep, PoolStep, EndRegion, FetchIteration, FetchNothing, EndIteration, SaveException,
         AbortLoop

LEMMA ApiCallStep ==
  ASSUME RegionInv, PoolInv', [LoopNext]_allVars, ApiCall \/ CallLoop
  PROVE  Region' /\ [ForkJoin!Next]_(ForkJoin!vars)
<1>1. PoolInv
  BY DEF RegionInv
<1>2. ASSUME NEW kind, NEW n, ExecuteJob(kind, n)
      PROVE  /\ master = "user" /\ master' \in {"spawn", "lock"} /\ UNCHANGED <<history, pc>>
             /\ \A i \in Workers : ~done'[i]
  BY <1>2 DEF ExecuteJob, threadVars
<1>3. ASSUME NEW n, ResizeLazily(n) \/ ResizeUp(n) \/ ResizeDown(n)
      PROVE  /\ master = "user" /\ master' \in {"user", "spawn", "lock"}
             /\ UNCHANGED <<history, pc>> /\ (job' = job \/ job'.kind = "shutdown")
  BY <1>3 DEF ResizeLazily, ResizeUp, ResizeDown, threadVars, jobVars
<1>4. CASE ForkChild
  <2>1. /\ master = "user" /\ master' = master /\ UNCHANGED history /\ job' = job
        /\ \A i \in Workers : pc'[i] = "none"
    BY <1>4 DEF ForkChild, jobVars
  <2>2. job.kind = "none"
    BY <1>1, <2>1, CalledAtRest
  <2>3. QED
    BY <2>1, <2>2, ApiStep
<1>5. CASE \E kind, n : ExecuteJob(kind, n)
  BY <1>2, <1>5, ApiStep
<1>6. CASE \E n : ResizeLazily(n) \/ ResizeUp(n) \/ ResizeDown(n)
  <2>1. /\ master = "user" /\ master' \in {"user", "spawn", "lock"}
        /\ UNCHANGED <<history, pc>> /\ (job' = job \/ job'.kind = "shutdown")
    BY <1>3, <1>6
  <2>2. job'.kind # "once"
    BY <1>1, <2>1, CalledAtRest
  <2>3. QED
    BY <2>1, <2>2, ApiStep
<1>7. QED
  BY <1>4, <1>5, <1>6 DEF ApiCall, CallLoop, ParallelRegion

LEMMA SpawnFailsStep ==
  ASSUME RegionInv, SpawnFails
  PROVE  Region' /\ [ForkJoin!Next]_(ForkJoin!vars)
<1>1. UNCHANGED <<nworkers, job, done, index, saved, master, pc, scheduler, task, calls, failed,
                  outcome>>
  BY DEF SpawnFails, jobVars, controller, threadVars, history
<1>2. Finished' = Finished /\ Failed' = Failed /\ Width' = Width
      /\ \A i \in Workers : (Called(i)' <=> Called(i)) /\ (Came(i)' <=> Came(i))
  BY <1>1 DEF Finished, Failed, Width, Called, Came, Waits, Prev
<1>3. Seen' = Seen /\ Region'
  BY <1>1, <1>2 DEF Seen, RegionInv, Region
<1>4. QED
  BY <1>1, <1>2, <1>3, Stutters

LEMMA MasterRegionStep ==
  ASSUME RegionInv, MasterStep
  PROVE  Region' /\ [ForkJoin!Next]_(ForkJoin!vars)
BY PostStep, AwakenStep, JoinStep, OtherMasterStep DEF MasterStep

LEMMA ThreadStep ==
  ASSUME RegionInv, NEW i \in Workers, Thread(i)
  PROVE  job' = job /\ Region' /\ [ForkJoin!Next]_(ForkJoin!vars)
<1>1. CASE Plain /\ WorkerStep(i)
  BY <1>1, PlainWorkerStep
<1>2. CASE Looped /\ LoopStep(i) /\ entry # "dynamic"
  BY <1>2, RegionStep
<1>3. CASE Looped /\ LoopStep(i) /\ entry = "dynamic"
  BY <1>3, DynamicStep, NoCallsStep DEF NoCalls
<1>4. CASE Ordered /\ TaskStep(i)
  BY <1>4, OrderedStep, NoCallsStep DEF NoCalls
<1>5. QED
  BY <1>1, <1>2, <1>3, <1>4 DEF Thread

\* Every step of the pool is one of ForkJoin, or none.
LEMMA StepRefines ==
  ASSUME RegionInv, PoolInv', [LoopNext]_allVars
  PROVE  Region' /\ [ForkJoin!Next]_(ForkJoin!vars)
<1>1. CASE ApiCall \/ CallLoop
  BY <1>1, ApiCallStep
<1>2. CASE System
  <2>1. CASE SpawnFails
    BY <2>1, SpawnFailsStep
  <2>2. CASE \E i \in Workers : SpuriousWake(i)
    BY <2>2, SleeperStep
  <2>3. QED
    BY <1>2, <2>1, <2>2 DEF System
<1>3. CASE Ordered /\ CallOrdered
  <2>1. /\ master = "user" /\ master' \in {"spawn", "lock"} /\ UNCHANGED <<history, pc>>
        /\ (job' = job \/ job'.kind = "ordered")
    BY <1>3 DEF CallOrdered, threadVars
  <2>2. job'.kind # "once"
    BY <2>1, CalledAtRest DEF RegionInv
  <2>3. QED
    BY <2>1, <2>2, ApiStep
<1>4. CASE Master
  BY <1>4, MasterRegionStep DEF Master
<1>5. CASE \E i \in Workers : Thread(i)
  BY <1>5, ThreadStep
<1>6. CASE UNCHANGED allVars
  BY <1>6, NothingChanges DEF allVars
<1>7. QED
  BY <1>1, <1>2, <1>3, <1>4, <1>5, <1>6 DEF LoopNext, Idle

LEMMA StepKeepsKinds ==
  ASSUME RegionInv, [LoopNext]_allVars
  PROVE  Kinds'
<1>1. Plain' = Plain /\ Looped' = Looped /\ Ordered' = Ordered /\ entry' = entry /\ Kinds
  BY ShapeKept DEF shape, Plain, Looped, Ordered, RegionInv
<1> DEFINE Quiet == NoCalls =>
      /\ \A i \in Workers : calls'[i] = 0
      /\ failed' = {}
      /\ Looped => tpc' = [i \in Workers |-> tpc'[i]] /\ \A i \in Workers : tpc'[i] # "threw"
<1>2. ASSUME UNCHANGED <<calls, failed, tpc>> PROVE Quiet
  BY <1>1, <1>2 DEF Kinds, NoCalls
<1>3. ASSUME Quiet, job'.kind \in {job.kind, "none"} PROVE Kinds'
  BY <1>1, <1>3 DEF Kinds, NoCalls
<1>4. ASSUME NEW kind, NEW n, ExecuteJob(kind, n)
      PROVE  job'.kind = kind /\ UNCHANGED <<calls, failed>>
  BY <1>4 DEF ExecuteJob, history
<1>5. CASE Plain /\ (ApiCall \/ System) /\ UNCHANGED <<teamVars, schVars>>
  <2>1. job'.kind \in {job.kind, "once", "shutdown"}
    BY <1>4, <1>5 DEF ApiCall, System, SpawnFails, SpuriousWake, ResizeLazily, ResizeUp, ResizeDown,
       ForkChild, ParallelRegion, jobVars
  <2>2. QED
    BY <1>1, <1>5, <2>1 DEF Kinds, Plain
<1>6. CASE Looped /\ CallLoop
  <2>1. /\ UNCHANGED <<calls, failed, tpc>>
        /\ job'.kind = IF entry = "dynamic" THEN "dynamic" ELSE "once"
    BY <1>4, <1>6 DEF CallLoop, teamVars
  <2>2. QED
    BY <1>1, <1>6, <2>1 DEF Kinds, Plain
<1>7. CASE Ordered /\ CallOrdered
  <2>1. UNCHANGED <<calls, failed>> /\ job'.kind \in {job.kind, "ordered"}
    BY <1>7 DEF CallOrdered, history
  <2>2. QED
    BY <1>1, <1>7, <2>1 DEF Kinds, Plain
<1>8. CASE Master
  <2>1. PoolInv /\ MasterStep /\ UNCHANGED tpc
    BY <1>8 DEF RegionInv, Master, teamVars
  <2>2. (UNCHANGED <<calls, failed>>) \/ (calls' = [i \in Workers |-> 0] /\ failed' = {})
    BY <2>1, MasterQuiet DEF PostJob
  <2>3. Quiet
    BY <1>1, <1>2, <2>1, <2>2 DEF Kinds, NoCalls
  <2>4. job'.kind \in {job.kind, "none"}
    BY <2>1, MasterQuiet DEF NoJob
  <2>5. QED
    BY <1>3, <2>3, <2>4
<1>9. CASE \E i \in Workers : Thread(i)
  <2>1. PICK i \in Workers : Thread(i)
    BY <1>9
  <2>2. job' = job
    BY <2>1, ThreadStep
  <2>3. CASE Plain
    BY <1>1, <2>2, <2>3 DEF Kinds, Plain, NoCalls
  <2>4. CASE Looped /\ LoopStep(i)
    <3>1. Quiet
      BY <1>1, <2>4, DynamicStep DEF Kinds, NoCalls
    <3>2. QED
      BY <1>3, <2>2, <3>1
  <2>5. CASE Ordered /\ TaskStep(i)
    <3>1. Quiet
      BY <1>1, <2>5, OrderedStep DEF Kinds, NoCalls
    <3>2. QED
      BY <1>3, <2>2, <3>1
  <2>6. QED
    BY <2>1, <2>3, <2>4, <2>5 DEF Thread
<1>10. CASE UNCHANGED allVars
  <2>1. UNCHANGED <<calls, failed, tpc, job>>
    BY <1>10 DEF allVars, vars, history, jobVars, teamVars
  <2>2. QED
    BY <1>2, <1>3, <2>1
<1>11. QED
  BY <1>5, <1>6, <1>7, <1>8, <1>9, <1>10 DEF LoopNext, Idle

LEMMA InitRefines == LoopInit => Kinds /\ Region /\ ForkJoin!Init
<1> SUFFICES ASSUME LoopInit PROVE Kinds /\ Region /\ ForkJoin!Init
  OBVIOUS
<1>1. /\ job = NoJob /\ job.kind = "none" /\ master = "user" /\ failed = {} /\ outcome = "none"
      /\ calls = [i \in Workers |-> 0]
  BY DEF LoopInit, Init, NoJob
<1>2. Looped => ~Ordered
  BY DEF LoopInit
<1>3. entry = "dynamic" =>
        tpc = [i \in Workers |-> tpc[i]] /\ \A i \in Workers : tpc[i] # "threw"
  <2> SUFFICES ASSUME entry = "dynamic"
               PROVE  tpc = [i \in Workers |-> tpc[i]] /\ \A i \in Workers : tpc[i] # "threw"
    OBVIOUS
  <2>1. tpc = [i \in Team!AllThreads |-> IF i \in Team!Threads THEN "next" ELSE "done"]
    BY DEF LoopInit, Team!Init, Team!InitRegion, Team!InitDynamic, Team!InitStatic, Team!StartAt
  <2>2. Team!AllThreads = Workers
    BY DEF Team!AllThreads, Workers
  <2>3. QED
    BY <2>1, <2>2
<1>4. Kinds
  BY <1>1, <1>2, <1>3 DEF Kinds
<1>5. Width = 0 /\ Region
  BY <1>1 DEF Width, Region
<1>6. ForkJoin!Init
  BY <1>1, <1>5 DEF ForkJoin!Init
<1>7. QED
  BY <1>4, <1>5, <1>6

\* The invariant of the regions: which threads have called `f`, which of the calls threw, and
\* whose exception worker_controller::saved_exception holds.
THEOREM RegionInvariance ==
  ASSUME GrowAfterShrink = FALSE PROVE LoopSpec => []RegionInv
<1>1. LoopInit => RegionInv
  BY InitIsFine, InitRefines DEF RegionInv
<1>2. RegionInv /\ [LoopNext]_allVars => RegionInv'
  <2> SUFFICES ASSUME RegionInv, [LoopNext]_allVars PROVE RegionInv'
    OBVIOUS
  <2>1. PoolInv' /\ FullPool'
    BY StepKeepsPool, StepKeepsFull DEF RegionInv
  <2>2. QED
    BY <2>1, StepKeepsKinds, StepRefines DEF RegionInv
<1>3. QED
  BY <1>1, <1>2, PTL DEF LoopSpec

\* parallel_region() calls `f` exactly once in each thread of the region, returns only after
\* all the calls, and throws exactly when one of them threw.
THEOREM RegionsForkAndJoin ==
  ASSUME GrowAfterShrink = FALSE PROVE LoopSpec => ImplementsForkJoin
<1>1. LoopInit => ForkJoin!Init
  BY InitRefines
<1>2. RegionInv /\ PoolInv' /\ [LoopNext]_allVars => [ForkJoin!Next]_(ForkJoin!vars)
  BY StepRefines
<1>3. RegionInv => PoolInv
  BY DEF RegionInv
<1>4. QED
  BY <1>1, <1>2, <1>3, RegionInvariance, PTL DEF LoopSpec, ImplementsForkJoin, ForkJoin!Spec
-----------------------------------------------------------------------------
(***************************************************************************)
(* What a loop has to do with the job that runs it: a thread that is back  *)
(* from the job has no more to do in the loop, and the exception that the  *)
(* pool has saved is that of the loop.                                     *)
(***************************************************************************)
InProgress == {"notify", "join"}

\* Worker i is back from the job that is in progress.
Back(i) == scheduler[i] = "controller" /\ ~Waits(i)

\* A loop is run by a pool of full size.
Crew ==
  ~Plain => nworkers = MaxThreads \/ master = "spawn" \/ (master = "user" /\ nworkers = 0)

\* The exception of a loop is saved before the loop is aborted.
Caught == aborted \/ \E i \in Workers : tpc[i] = "abort"

InDynamicLoop ==
  Looped /\ entry = "dynamic" =>
    /\ saved = IF Caught THEN "current" ELSE "none"
    /\ IF master \in InProgress THEN \A i \in Workers : Back(i) => tpc[i] = "done"
       ELSE Caught => master = "user" /\ nworkers > 0
    /\ \A i \in Workers : pc[i] \in {"catch", "abort"} => tpc[i] = pc[i]

InOrderedLoop ==
  IF Ordered
    THEN /\ saved = IF osaved = "none" THEN "none" ELSE "current"
         /\ master = "spawn" => job = NoJob
         /\ IF master \in InProgress THEN \A i \in Workers : Back(i) => opc[i] = "idle"
            ELSE \/ osaved = "none" /\ \A i \in Workers : opc[i] = "fetch"
                 \/ master = "user" /\ nworkers > 0 /\ \A i \in Workers : opc[i] = "idle"
         /\ \A i \in Workers : pc[i] = "catch" => opc[i] = "catch"
    ELSE opc[0] = "loop"

\* The call of `f` in a thread ends as the function of the region does there.
InRegionOfTeam ==
  Looped /\ entry # "dynamic" =>
    /\ tpc = [i \in Workers |-> tpc[i]]
    /\ job # NoJob => job.n = nthreads
    /\ master = "spawn" \/ (master = "user" /\ nworkers = 0) => saved = "none"
    /\ \A i \in Workers : done[i] /\ pc[i] # "call" =>
         tpc[i] \in {"done", "threw"} /\ (tpc[i] = "threw" <=> i \in failed)

LoopInv == Crew /\ InDynamicLoop /\ InOrderedLoop /\ InRegionOfTeam
-----------------------------------------------------------------------------
\* The same definitions as those of Team and Sch, with what is proved of them.
TeamOf == INSTANCE TeamProofs WITH PoolSize <- MaxThreads, pc <- tpc
SchOf == INSTANCE OrderedProofs WITH pc <- opc, saved <- osaved, failed <- ofailed

LEMMA SameTeamInit == Team!Init => TeamOf!Init
BY DEF Team!Init, Team!InitRegion, Team!InitDynamic, Team!InitStatic, Team!StartAt,
   Team!AllThreads, Team!Threads, Team!Scripts, Team!Constructs, Team!Barrier, Team!Dynamic,
   Team!Static, Team!ChunksWanted, Team!Least, Team!Cardinality,
   TeamOf!Init, TeamOf!InitRegion, TeamOf!InitDynamic, TeamOf!InitStatic, TeamOf!StartAt,
   TeamOf!AllThreads, TeamOf!Threads, TeamOf!Scripts, TeamOf!Constructs, TeamOf!Barrier,
   TeamOf!Dynamic, TeamOf!Static, TeamOf!ChunksWanted, TeamOf!Least, TeamOf!Cardinality

LEMMA SameTeamStep == ASSUME NEW i, Team!Step(i) PROVE TeamOf!Step(i)
BY DEF Team!Step, Team!Leave, Team!ArriveAtBarrier, Team!PassBarrier, Team!StaticLoop,
   Team!LookUpScheduler, Team!CreateScheduler, Team!CreateOnce, Team!MakeScheduler,
   Team!FetchIteration, Team!FetchNothing, Team!CallIteration, Team!Throw, Team!Catch,
   Team!AbortAgain, Team!AbortExecution, Team!ThrowInRegion, Team!Goto, Team!Enter,
   Team!Target, Team!AllArrived, Team!HasIteration, Team!ChunksWanted, Team!Least,
   Team!Visits, Team!ChunkEnd, Team!Cardinality, Team!team, Team!sched,
   TeamOf!Step, TeamOf!Leave, TeamOf!ArriveAtBarrier, TeamOf!PassBarrier, TeamOf!StaticLoop,
   TeamOf!LookUpScheduler, TeamOf!CreateScheduler, TeamOf!CreateOnce, TeamOf!MakeScheduler,
   TeamOf!FetchIteration, TeamOf!FetchNothing, TeamOf!CallIteration, TeamOf!Throw,
   TeamOf!Catch, TeamOf!AbortAgain, TeamOf!AbortExecution, TeamOf!ThrowInRegion,
   TeamOf!Goto, TeamOf!Enter, TeamOf!Target, TeamOf!AllArrived, TeamOf!HasIteration,
   TeamOf!ChunksWanted, TeamOf!Least, TeamOf!Visits, TeamOf!ChunkEnd, TeamOf!Cardinality,
   TeamOf!team, TeamOf!sched

LEMMA SameSchInit == Sch!Init => SchOf!Init
BY DEF Sch!Init, Sch!Least, Sch!Threads, Sch!Iterations, Sch!READY_TO_START, Sch!waittask,
   Sch!NO_THREAD,
   SchOf!Init, SchOf!Least, SchOf!Threads, SchOf!Iterations, SchOf!READY_TO_START,
   SchOf!waittask, SchOf!NO_THREAD

LEMMA SameSchStep == ASSUME NEW i, Sch!Step(i) PROVE SchOf!Step(i)
BY DEF Sch!Step, Sch!FetchOrder, Sch!FetchFinish, Sch!FetchStart, Sch!FetchWait,
   Sch!FetchNothing, Sch!TurnAway, Sch!Execute, Sch!ExecuteCancelled, Sch!Return, Sch!Throw,
   Sch!Catch, Sch!AbortAgain, Sch!AbortExecution, Sch!SaveFirst, Sch!Assign, Sch!Fetching,
   Sch!CanOrder, Sch!CanFinish, Sch!CanStart, Sch!NothingToDo, Sch!Advanced, Sch!Advance,
   Sch!Orderer, Sch!shape, Sch!taskVars, Sch!queues, Sch!waittask, Sch!NO_THREAD,
   Sch!INVALID_THREAD, Sch!READY_TO_START, Sch!STARTING, Sch!READY_TO_ORDER, Sch!ORDERING,
   Sch!READY_TO_FINISH, Sch!FINISHING, Sch!CANCELLED,
   SchOf!Step, SchOf!FetchOrder, SchOf!FetchFinish, SchOf!FetchStart, SchOf!FetchWait,
   SchOf!FetchNothing, SchOf!TurnAway, SchOf!Execute, SchOf!ExecuteCancelled, SchOf!Return,
   SchOf!Throw, SchOf!Catch, SchOf!AbortAgain, SchOf!AbortExecution, SchOf!SaveFirst,
   SchOf!Assign, SchOf!Fetching, SchOf!CanOrder, SchOf!CanFinish, SchOf!CanStart,
   SchOf!NothingToDo, SchOf!Advanced, SchOf!Advance, SchOf!Orderer, SchOf!shape,
   SchOf!taskVars, SchOf!queues, SchOf!waittask, SchOf!NO_THREAD, SchOf!INVALID_THREAD,
   SchOf!READY_TO_START, SchOf!STARTING, SchOf!READY_TO_ORDER, SchOf!ORDERING,
   SchOf!READY_TO_FINISH, SchOf!FINISHING, SchOf!CANCELLED

LEMMA SameResize ==
  ASSUME NEW i, NEW n, Sch!SetIterations(i, n)
  PROVE  SchOf!SetIterations(i, n)
BY DEF Sch!SetIterations, Sch!shape, Sch!taskVars, Sch!queues, Sch!INVALID_THREAD,
   SchOf!SetIterations, SchOf!shape, SchOf!taskVars, SchOf!queues, SchOf!INVALID_THREAD

LEMMA Assumptions ==
  /\ TeamOf!TeamAssumption
  /\ MaxIterations \in Nat \ {0} /\ Resizes \subseteq 0 .. MaxIterations
  /\ MayThrow \in BOOLEAN /\ MayRaise \in BOOLEAN
BY LoopsAssumption DEF Team!TeamAssumption, TeamOf!TeamAssumption

LEMMA LoopStepOfTeam ==
  ASSUME LoopInv, Looped, NEW i \in Workers, LoopStep(i), TeamOf!TeamInv
  PROVE  \/ TeamOf!Step(i) /\ (tpc[i] = "abort" => aborted)
         \/ TeamOf!Handles(i)
         \/ UNCHANGED teamVars
<1>1. CASE PoolStep(i) \/ EndRegion(i)
  BY <1>1 DEF PoolStep, EndRegion
<1>2. CASE InRegion(i)
  <2>1. TeamOf!Step(i) /\ entry # "dynamic"
    BY <1>2, SameTeamStep DEF InRegion
  <2>2. i \in TeamOf!AllThreads
    BY DEF TeamOf!AllThreads, Workers
  <2>3. tpc[i] # "abort"
    BY <2>1, <2>2 DEF TeamOf!TeamInv, TeamOf!TypeInv, TeamOf!Where
  <2>4. QED
    BY <2>1, <2>3
<1>3. CASE FetchIteration(i)
  <2>1. Team!Step(i) /\ tpc[i] = "next"
    BY <1>3 DEF FetchIteration, Team!FetchIteration, Team!Step
  <2>2. QED
    BY <2>1, SameTeamStep
<1>4. CASE FetchNothing(i)
  <2>1. (Team!Step(i) /\ tpc[i] = "next") \/ UNCHANGED teamVars
    BY <1>4 DEF FetchNothing, Team!FetchNothing, Team!Step
  <2>2. QED
    BY <2>1, SameTeamStep
<1>5. CASE EndIteration(i)
  <2>1. Team!Step(i) /\ tpc[i] = "call"
    BY <1>5 DEF EndIteration, Team!CallIteration, Team!Throw, Team!Step
  <2>2. QED
    BY <2>1, SameTeamStep
<1>6. CASE SaveException(i)
  <2>1. tpc[i] = "catch"
    BY <1>6 DEF SaveException, Catch, LoopInv, InDynamicLoop
  <2>2. TeamOf!Handles(i)
    BY <1>6, <2>1 DEF SaveException, TeamOf!Handles, Team!Goto, TeamOf!Goto, TeamOf!team
  <2>3. QED
    BY <2>2
<1>7. CASE AbortLoop(i)
  <2>1. tpc[i] = "abort"
    BY <1>7 DEF AbortLoop, Abort, LoopInv, InDynamicLoop
  <2>2. TeamOf!Handles(i)
    BY <1>7, <2>1 DEF AbortLoop, TeamOf!Handles, Team!Goto, TeamOf!Goto, TeamOf!team,
       Team!AbortExecution, TeamOf!AbortExecution
  <2>3. QED
    BY <2>2
<1>8. QED
  BY <1>1, <1>2, <1>3, <1>4, <1>5, <1>6, <1>7 DEF LoopStep

LEMMA TaskStepOfLoop ==
  ASSUME LoopInv, Ordered, NEW i \in Workers, TaskStep(i)
  PROVE  \/ SchOf!Step(i)
         \/ \E n \in Resizes : SchOf!SetIterations(i, n)
         \/ SchOf!Saves(i)
         \/ UNCHANGED schVars
<1>1. CASE GetTask(i) \/ GetWaitTask(i) \/ GetNothing(i)
  BY <1>1, SameSchStep DEF GetTask, GetWaitTask, GetNothing, Sch!Step
<1>2. CASE ExecuteTask(i)
  BY <1>2, SameSchStep, SameResize DEF ExecuteTask, Sch!Step
<1>3. CASE EndTask(i) \/ AbortOrdered(i)
  BY <1>3, SameSchStep DEF EndTask, AbortOrdered, Sch!Step
<1>4. CASE SaveTaskException(i)
  <2>1. opc[i] = "catch"
    BY <1>4 DEF SaveTaskException, Catch, LoopInv, InOrderedLoop
  <2>2. SchOf!Saves(i)
    BY <1>4, <2>1 DEF SaveTaskException, SchOf!Saves, Sch!SaveFirst, SchOf!SaveFirst
  <2>3. QED
    BY <2>2
<1>5. QED
  BY <1>1, <1>2, <1>3, <1>4 DEF TaskStep

\* A step of the whole, as one of a thread in a loop, or of nobody in one.
LEMMA WholeStep ==
  ASSUME [LoopNext]_allVars
  PROVE  \/ UNCHANGED <<teamVars, schVars>>
         \/ \E i \in Workers : Looped /\ LoopStep(i) /\ UNCHANGED schVars
         \/ \E i \in Workers : Ordered /\ TaskStep(i) /\ UNCHANGED teamVars
BY DEF LoopNext, CallLoop, CallOrdered, Master, Thread, Idle, allVars

\* A step of worker i within the job leaves the others where they are.
LEMMA OthersBack ==
  ASSUME PoolInv, NEW i \in Workers, UNCHANGED <<index, task>>,
         \A k \in Workers : k # i => pc'[k] = pc[k] /\ scheduler'[k] = scheduler[k]
  PROVE  /\ \A k \in Workers : k # i => (Back(k)' <=> Back(k))
         /\ scheduler'[i] = "job" => ~Back(i)'
<1>1. Prev' = Prev
  BY DEF Prev
<1>2. QED
  BY <1>1 DEF Back, Waits

LEMMA JobInProgress ==
  ASSUME PoolInv, NEW i \in Workers, scheduler[i] = "job", pc[i] # "none",
         job.kind # "shutdown"
  PROVE  master \in InProgress
BY DEF PoolInv, Places, Running, InProgress

\* The steps of the master, when the pool runs a loop: it creates threads, publishes the job,
\* starts it, and joins the threads.
LEMMA MasterMoves ==
  ASSUME RegionInv, Crew, ~Plain, MasterStep
  PROVE  /\ UNCHANGED done
         /\ \A k \in Workers : (pc'[k] = pc[k]) \/ (pc[k] \notin {"call", "catch", "abort"}
                                                     /\ pc'[k] \notin {"call", "catch", "abort"})
         /\ failed' = failed \/ (PostJob /\ failed' = {})
         /\ \/ /\ master = "spawn" /\ master' \in {"spawn", "lock", "user"}
               /\ job' \in {job, NoJob} /\ saved' = saved
               /\ master' # "spawn" => nworkers' = MaxThreads
               /\ saved = "none" => job' = job
               /\ master' = "user" => saved # "none" \/ job = NoJob
            \/ /\ master \in {"lock", "reset"} /\ master' \in {"reset", "switch"}
               /\ UNCHANGED <<nworkers, job, saved>>
            \/ /\ master = "switch" /\ master' = "notify"
               /\ UNCHANGED <<nworkers, job>> /\ saved' = "none"
               /\ \A k \in Workers : ~Back(k)'
            \/ /\ master = "notify" /\ master' = "join"
               /\ UNCHANGED <<nworkers, job, saved>>
               /\ \A k \in Workers : Back(k)' <=> Back(k)
            \/ /\ master = "join" /\ master' = "user"
               /\ UNCHANGED <<nworkers, saved>> /\ job' = NoJob
               /\ \A k \in Workers : pc[k] \in {"asleep", "woken"} /\ Back(k)
<1>1. /\ PoolInv /\ FullPool /\ job.kind # "shutdown" /\ requested = MaxThreads
      /\ pc = [k \in Workers |-> pc[k]] /\ MaxThreads \in Nat \ {0} /\ nworkers \in Nat
      /\ index \in SleepTasks /\ Prev \in SleepTasks /\ Prev # index
  BY Living, MaxThreadsAssumption DEF RegionInv, FullPool, Kinds, Plain, PoolInv, TypeOK
<1>2. /\ UNCHANGED done
      /\ \A k \in Workers : (pc'[k] = pc[k]) \/ (pc[k] \notin {"call", "catch", "abort"}
                                                  /\ pc'[k] \notin {"call", "catch", "abort"})
      /\ failed' = failed \/ (PostJob /\ failed' = {})
  BY <1>1, MasterQuiet DEF PostJob
<1>3. nworkers = MaxThreads \/ master \in {"spawn", "user"}
  BY DEF Crew
<1>4. nworkers = MaxThreads => \A k \in Workers : pc[k] # "none"
  BY <1>1, Living, MaxThreadsAssumption DEF Workers
<1>5. CASE Spawn
  <2>1. master = "spawn" /\ UNCHANGED <<master, job, saved, task>>
    BY <1>5 DEF Spawn, jobVars, controller
  <2>2. QED
    BY <1>2, <1>5, <2>1 DEF Spawn
<1>6. CASE JoinSpawned
  <2>1. /\ master = "spawn" /\ master' \in {"lock", "user"} /\ nworkers' = MaxThreads
        /\ UNCHANGED <<saved, scheduler, task>>
    BY <1>1, <1>6 DEF JoinSpawned, ReturnToUser, poolVars, threadVars
  <2>2. /\ job' \in {job, NoJob} /\ (saved = "none" => job' = job)
        /\ master' = "user" => saved # "none" \/ job = NoJob
    BY <1>6 DEF JoinSpawned, ReturnToUser, NoJob
  <2>3. QED
    BY <1>2, <2>1, <2>2
<1>7. CASE PostJob \/ ResetTask
  <2>1. /\ master \in {"lock", "reset"} /\ master' \in {"reset", "switch"}
        /\ UNCHANGED <<nworkers, job, saved, scheduler, task>>
    BY <1>7 DEF PostJob, ResetTask, poolVars, jobVars, threadVars
  <2>2. QED
    BY <1>2, <2>1
<1>8. CASE SwitchTask
  <2>1. /\ master = "switch" /\ master' = "notify" /\ saved' = "none" /\ index' = Prev
        /\ UNCHANGED <<nworkers, job, pc, scheduler, task>>
    BY <1>8 DEF SwitchTask, ForgetException, poolVars, jobVars, threadVars
  <2>2. Prev' = index
    BY <1>1, <2>1 DEF Prev, SleepTasks
  <2>3. \A k \in Workers : pc[k] \in {"asleep", "woken"} /\ task[k] = index
    BY <1>1, <1>3, <1>4, <2>1 DEF PoolInv, Resting
  <2>4. \A k \in Workers : ~Back(k)'
    BY <2>1, <2>2, <2>3 DEF Back, Waits
  <2>5. QED
    BY <1>2, <2>1, <2>4
<1>9. CASE NotifyAll
  <2>1. /\ master = "notify" /\ master' = "join"
        /\ UNCHANGED <<nworkers, job, saved, index, scheduler, task>>
        /\ \A k \in Workers : pc'[k] = pc[k] \/ (pc[k] = "asleep" /\ pc'[k] = "woken")
    BY <1>9 DEF NotifyAll, poolVars, jobVars, controller
  <2>2. \A k \in Workers : Back(k)' <=> Back(k)
    BY <2>1 DEF Back, Waits, Prev
  <2>3. QED
    BY <1>2, <2>1, <2>2
<1>10. CASE JoinJob
  <2>1. /\ master = "join" /\ master' = "user" /\ job' = NoJob
        /\ UNCHANGED <<nworkers, saved, pc, scheduler, task>>
    BY <1>10 DEF JoinJob, ReturnToUser, poolVars, threadVars
  <2>2. \A k \in Workers : pc[k] \in {"asleep", "woken"} /\ task[k] = index
    BY <1>1, <1>3, <1>4, <1>10, <2>1, AllJoined DEF JoinJob
  <2>3. \A k \in Workers : Back(k)
    BY <1>1, <2>2 DEF Back, Waits, PoolInv, Places
  <2>4. QED
    BY <1>2, <2>1, <2>2, <2>3
<1>11. ~JoinShutdown /\ ~Reap
  BY <1>1 DEF JoinShutdown, Reap, PoolInv, Running
<1>12. QED
  BY <1>5, <1>6, <1>7, <1>8, <1>9, <1>10, <1>11 DEF MasterStep

LEMMA MasterKeepsLoop ==
  ASSUME RegionInv, LoopInv, ~Plain, MasterStep, UNCHANGED <<teamVars, schVars>>
  PROVE  LoopInv'
<1>1. /\ Looped' = Looped /\ Ordered' = Ordered /\ Plain' = Plain
      /\ UNCHANGED <<entry, nthreads, aborted, tpc, opc, osaved>> /\ Caught' = Caught
      /\ NoJob' = NoJob
  BY DEF teamVars, schVars, Looped, Ordered, Plain, Caught, NoJob
<1>2. /\ UNCHANGED done
      /\ \A k \in Workers : (pc'[k] = pc[k]) \/ (pc[k] \notin {"call", "catch", "abort"}
                                                  /\ pc'[k] \notin {"call", "catch", "abort"})
      /\ failed' = failed \/ (PostJob /\ failed' = {})
      /\ Crew /\ MaxThreads \in Nat \ {0}
  BY MasterMoves, MaxThreadsAssumption DEF LoopInv
<1>3. \A i \in Workers : /\ pc'[i] \in {"catch", "abort"} => tpc'[i] = pc'[i] \/ Ordered
                                                          \/ entry # "dynamic"
                         /\ pc'[i] = "catch" => opc'[i] = "catch" \/ ~Ordered
  BY <1>1, <1>2 DEF LoopInv, InDynamicLoop, InOrderedLoop, RegionInv, Kinds, Plain
<1> USE DEF InProgress
<1>4. ASSUME master = "spawn", master' \in {"spawn", "lock", "user"},
             job' \in {job, NoJob}, saved' = saved,
             master' # "spawn" => nworkers' = MaxThreads,
             saved = "none" => job' = job
      PROVE  Crew' /\ InDynamicLoop' /\ InOrderedLoop'
  BY <1>1, <1>2, <1>3, <1>4 DEF LoopInv, Crew, InDynamicLoop, InOrderedLoop
<1>5. ASSUME master \in {"lock", "reset"}, master' \in {"reset", "switch"},
             UNCHANGED <<nworkers, job, saved>>
      PROVE  Crew' /\ InDynamicLoop' /\ InOrderedLoop'
  BY <1>1, <1>2, <1>3, <1>5 DEF LoopInv, Crew, InDynamicLoop, InOrderedLoop
<1>6. ASSUME master = "switch", master' = "notify", UNCHANGED <<nworkers, job>>,
             saved' = "none", \A k \in Workers : ~Back(k)'
      PROVE  Crew' /\ InDynamicLoop' /\ InOrderedLoop'
  BY <1>1, <1>2, <1>3, <1>6 DEF LoopInv, Crew, InDynamicLoop, InOrderedLoop
<1>7. ASSUME master = "notify", master' = "join", UNCHANGED <<nworkers, job, saved>>,
             \A k \in Workers : Back(k)' <=> Back(k)
      PROVE  Crew' /\ InDynamicLoop' /\ InOrderedLoop'
  BY <1>1, <1>2, <1>3, <1>7 DEF LoopInv, Crew, InDynamicLoop, InOrderedLoop
<1>8. ASSUME master = "join", master' = "user", UNCHANGED <<nworkers, saved>>, job' = NoJob,
             \A k \in Workers : Back(k)
      PROVE  Crew' /\ InDynamicLoop' /\ InOrderedLoop'
  BY <1>1, <1>2, <1>3, <1>8 DEF LoopInv, Crew, InDynamicLoop, InOrderedLoop
<1>9. Crew' /\ InDynamicLoop' /\ InOrderedLoop'
  BY <1>2, <1>4, <1>5, <1>6, <1>7, <1>8, MasterMoves
<1>10. InRegionOfTeam'
  <2> SUFFICES ASSUME Looped, entry # "dynamic" PROVE InRegionOfTeam'
    BY <1>1 DEF InRegionOfTeam
  <2>1. /\ tpc' = [i \in Workers |-> tpc'[i]]
        /\ job' # NoJob => job'.n = nthreads
        /\ master' = "spawn" \/ (master' = "user" /\ nworkers' = 0) => saved' = "none"
    BY <1>1, <1>2, MasterMoves DEF LoopInv, InRegionOfTeam, Crew
  <2>2. ASSUME NEW i \in Workers, done[i], pc'[i] # "call"
        PROVE  tpc[i] \in {"done", "threw"} /\ (tpc[i] = "threw" <=> i \in failed')
    <3>1. tpc[i] \in {"done", "threw"} /\ (tpc[i] = "threw" <=> i \in failed)
      BY <1>2, <2>2 DEF LoopInv, InRegionOfTeam
    <3>2. CASE PostJob
      <4>1. job.kind = "once"
        BY <3>2 DEF PostJob, RegionInv, Kinds, PoolInv, Jobs
      <4>2. QED
        BY <2>2, <3>2, <4>1 DEF PostJob, RegionInv, Region
    <3>3. QED
      BY <1>2, <3>1, <3>2
  <2>3. QED
    BY <1>1, <1>2, <2>1, <2>2 DEF InRegionOfTeam
<1>11. QED
  BY <1>9, <1>10 DEF LoopInv

\* The call of the user that starts the loop.
LEMMA CallKeepsLoop ==
  ASSUME RegionInv, LoopInv,
         \/ Looped /\ CallLoop
         \/ Ordered /\ CallOrdered,
         UNCHANGED <<teamVars, schVars>>
  PROVE  LoopInv'
<1>1. /\ Looped' = Looped /\ Ordered' = Ordered /\ Plain' = Plain
      /\ UNCHANGED <<entry, nthreads, aborted, tpc, opc, osaved>> /\ Caught' = Caught
      /\ NoJob' = NoJob
  BY DEF teamVars, schVars, Looped, Ordered, Plain, Caught, NoJob
<1>2. /\ Looped => ~Ordered
      /\ requested = MaxThreads /\ MaxThreads \in Nat \ {0}
      /\ master = "user" /\ job = NoJob
  <2>1. master = "user" /\ ~Plain
    BY DEF CallLoop, CallOrdered, ExecuteJob, Plain
  <2>2. QED
    BY <2>1, MaxThreadsAssumption DEF RegionInv, Kinds, FullPool, PoolInv, Jobs
<1> USE DEF InProgress
<1>3. CASE Looped /\ CallLoop
  <2>1. /\ nworkers = 0 /\ nworkers' = 0 /\ master' = "spawn" /\ saved' = Aged(saved)
        /\ job' = [kind |-> IF entry = "dynamic" THEN "dynamic" ELSE "once", n |-> nthreads]
        /\ \A i \in Workers : ~done'[i]
        /\ UNCHANGED <<pc, failed>>
    BY <1>2, <1>3 DEF CallLoop, ExecuteJob, poolVars, threadVars, history
  <2>2. job'.n = nthreads
    BY <2>1
  <2>3. saved = "none" /\ saved' = "none" /\ (entry = "dynamic" => ~Caught)
    BY <1>2, <1>3, <2>1 DEF Aged, LoopInv, InDynamicLoop, InRegionOfTeam
  <2>4. Crew' /\ InDynamicLoop' /\ InRegionOfTeam'
    BY <1>1, <1>2, <2>1, <2>2, <2>3 DEF LoopInv, Crew, InDynamicLoop, InRegionOfTeam
  <2>5. InOrderedLoop'
    BY <1>1, <1>2, <1>3 DEF LoopInv, InOrderedLoop
  <2>6. QED
    BY <2>4, <2>5 DEF LoopInv
<1>4. CASE Ordered /\ CallOrdered
  <2>1. /\ master' \in {"spawn", "lock"} /\ UNCHANGED <<nworkers, saved, pc>>
        /\ master' = "spawn" => job' = NoJob /\ nworkers = 0
        /\ master' = "lock" => nworkers # 0 /\ \A i \in Workers : opc[i] = "fetch"
    BY <1>2, <1>4 DEF CallOrdered, poolVars, controller, threadVars
  <2>2. Crew'
    BY <1>1, <1>2, <2>1 DEF LoopInv, Crew
  <2>3. osaved = "none" /\ \A i \in Workers : opc[i] = "fetch"
    <3>1. 0 \in Workers
      BY <1>2 DEF Workers
    <3>2. \/ osaved = "none" /\ \A i \in Workers : opc[i] = "fetch"
          \/ nworkers > 0 /\ \A i \in Workers : opc[i] = "idle"
      BY <1>2, <1>4 DEF LoopInv, InOrderedLoop
    <3>3. nworkers # 0 => \A i \in Workers : opc[i] = "fetch"
      BY <1>4 DEF CallOrdered
    <3>4. QED
      BY <3>1, <3>2, <3>3
  <2>4. InOrderedLoop'
    BY <1>1, <1>4, <2>1, <2>3 DEF LoopInv, InOrderedLoop
  <2>5. QED
    BY <1>1, <1>2, <1>4, <2>2, <2>4 DEF LoopInv, InDynamicLoop, InRegionOfTeam
<1>5. QED
  BY <1>3, <1>4

\* A worker falls asleep, or wakes up.
LEMMA SleepKeepsLoop ==
  ASSUME RegionInv, LoopInv, ~Plain, NEW i \in Workers, SleepStep(i),
         UNCHANGED <<teamVars, schVars>>
  PROVE  LoopInv'
<1>1. /\ Looped' = Looped /\ Ordered' = Ordered /\ Plain' = Plain
      /\ UNCHANGED <<entry, nthreads, aborted, tpc, opc, osaved>> /\ Caught' = Caught
      /\ NoJob' = NoJob
  BY DEF teamVars, schVars, Looped, Ordered, Plain, Caught, NoJob
<1>2. /\ UNCHANGED <<nworkers, job, done, saved, master, failed>>
      /\ \A k \in Workers : pc'[k] = pc[k] \/ (pc[k] \notin {"call", "catch", "abort"}
                                                /\ pc'[k] \notin {"call", "catch", "abort"})
  BY SleeperQuiet DEF RegionInv
<1>3. master \in InProgress => \A k \in Workers : Back(k)' => Back(k)
  <2>1. job.kind # "shutdown"
    BY DEF RegionInv, Kinds, Plain
  <2>2. QED
    BY <2>1, SleeperCame DEF RegionInv, Back, InProgress
<1>4. Crew' /\ InDynamicLoop'
  BY <1>1, <1>2, <1>3 DEF LoopInv, Crew, InDynamicLoop
<1>5. InOrderedLoop'
  BY <1>1, <1>2, <1>3 DEF LoopInv, InOrderedLoop
<1>6. InRegionOfTeam'
  BY <1>1, <1>2 DEF LoopInv, InRegionOfTeam
<1>7. QED
  BY <1>4, <1>5, <1>6 DEF LoopInv

\* A thread in a dynamic loop.
LEMMA DynamicKeepsLoop ==
  ASSUME RegionInv, LoopInv, Looped, entry = "dynamic", NEW i \in Workers, LoopStep(i),
         UNCHANGED schVars
  PROVE  LoopInv'
<1>1. /\ PoolInv /\ ~Plain /\ ~Ordered /\ job.kind \in {"none", "dynamic"} /\ opc[0] = "loop"
      /\ pc = [k \in Workers |-> pc[k]] /\ scheduler = [k \in Workers |-> scheduler[k]]
      /\ tpc = [k \in Workers |-> tpc[k]] /\ \A k \in Workers : tpc[k] # "threw"
      /\ saved = IF Caught THEN "current" ELSE "none"
      /\ pc[i] \in {"catch", "abort"} => tpc[i] = pc[i]
  BY DEF RegionInv, Kinds, PoolInv, TypeOK, Plain, LoopInv, InOrderedLoop, InDynamicLoop
<1>2. /\ Looped' /\ ~Ordered' /\ ~Plain' /\ entry' = "dynamic" /\ opc' = opc
  BY <1>1, LoopStepShape DEF Looped, Ordered, Plain, schVars
<1>3. InOrderedLoop' /\ InRegionOfTeam'
  BY <1>1, <1>2 DEF InOrderedLoop, InRegionOfTeam
<1>4. CASE SleepStep(i) /\ UNCHANGED teamVars
  BY <1>1, <1>4, SleepKeepsLoop
<1> DEFINE Own ==
      /\ UNCHANGED <<nworkers, index, master, task>>
      /\ pc[i] # "none" /\ scheduler[i] = "job"
      /\ \A k \in Workers : k # i => /\ pc'[k] = pc[k] /\ scheduler'[k] = scheduler[k]
                                     /\ tpc'[k] = tpc[k]
      /\ saved' = IF Caught' THEN "current" ELSE "none"
      /\ scheduler'[i] = "job" \/ tpc'[i] = "done"
      /\ pc'[i] \in {"catch", "abort"} => tpc'[i] = pc'[i]
<1> USE DEF Goto, poolVars, controller, teamVars
<1>5. ASSUME EndRegion(i) PROVE Own
  <2>1. Return(i) /\ UNCHANGED teamVars
    BY <1>1, <1>5 DEF EndRegion
  <2>2. pc[i] = "call" /\ pc' = [pc EXCEPT ![i] = "fetch"] /\ UNCHANGED <<saved, scheduler>>
        /\ UNCHANGED <<nworkers, index, master, task>>
    BY <2>1 DEF Return, EndCall
  <2>3. scheduler[i] = "job"
    BY <1>1, <2>2 DEF PoolInv, Places
  <2>4. QED
    BY <1>1, <2>1, <2>2, <2>3 DEF Caught
<1>6. ASSUME FetchIteration(i) PROVE Own
  <2>1. /\ pc[i] = "fetch" /\ scheduler[i] = "job" /\ pc' = [pc EXCEPT ![i] = "call"]
        /\ UNCHANGED <<saved, scheduler, aborted, nworkers, index, master, task>>
        /\ tpc[i] = "next" /\ tpc' = [tpc EXCEPT ![i] = "call"]
    BY <1>6 DEF FetchIteration, InJob, Team!FetchIteration, Team!Goto
  <2>2. Caught' <=> Caught
    BY <1>1, <2>1 DEF Caught
  <2>3. QED
    BY <1>1, <2>1, <2>2
<1>7. ASSUME FetchNothing(i) PROVE Own
  <2>1. /\ pc[i] = "fetch" /\ scheduler[i] = "job" /\ pc' = pc
        /\ scheduler' = [scheduler EXCEPT ![i] = "controller"]
        /\ UNCHANGED <<saved, nworkers, index, master, task>>
    BY <1>7 DEF FetchNothing, SwitchToController, InJob
  <2>2. /\ aborted' = aborted /\ \A k \in Workers : k # i => tpc'[k] = tpc[k]
        /\ tpc'[i] = "done" /\ tpc[i] \in {"next", "done"}
    BY <1>1, <1>7 DEF FetchNothing, Team!FetchNothing, Team!Goto
  <2>3. Caught' <=> Caught
    BY <2>2 DEF Caught
  <2>4. QED
    BY <1>1, <2>1, <2>2, <2>3
<1>8. ASSUME EndIteration(i) PROVE Own
  <2>1. /\ pc[i] = "call" /\ UNCHANGED <<saved, scheduler, nworkers, index, master, task>>
        /\ tpc[i] = "call" /\ aborted' = aborted
        /\ \/ pc' = [pc EXCEPT ![i] = "fetch"] /\ tpc' = [tpc EXCEPT ![i] = "next"]
           \/ pc' = [pc EXCEPT ![i] = "catch"] /\ tpc' = [tpc EXCEPT ![i] = "catch"]
    BY <1>8 DEF EndIteration, EndCall, Team!CallIteration, Team!Throw, Team!Goto
  <2>2. scheduler[i] = "job"
    BY <1>1, <2>1 DEF PoolInv, Places
  <2>3. /\ \A k \in Workers : k # i => pc'[k] = pc[k] /\ tpc'[k] = tpc[k]
        /\ pc'[i] \in {"fetch", "catch"} /\ tpc'[i] \in {"next", "catch"}
        /\ pc'[i] = "catch" => tpc'[i] = "catch"
    BY <1>1, <2>1
  <2>4. Caught' <=> Caught
    BY <2>1, <2>3 DEF Caught
  <2>5. QED
    BY <1>1, <2>1, <2>2, <2>3, <2>4
<1>9. ASSUME SaveException(i) PROVE Own
  <2>1. /\ pc[i] = "catch" /\ UNCHANGED <<scheduler, nworkers, index, master, task>>
        /\ saved' = IF saved = "none" THEN "current" ELSE saved
        /\ pc' = [pc EXCEPT ![i] = "abort"] /\ tpc' = [tpc EXCEPT ![i] = "abort"]
    BY <1>9 DEF SaveException, Catch, Team!Goto
  <2>2. scheduler[i] = "job"
    BY <1>1, <2>1 DEF PoolInv, Places
  <2>3. Caught' /\ saved' = "current"
    BY <1>1, <2>1 DEF Caught
  <2>4. QED
    BY <1>1, <2>1, <2>2, <2>3
<1>10. ASSUME AbortLoop(i) PROVE Own
  <2>1. /\ pc[i] = "abort" /\ UNCHANGED <<saved, scheduler, nworkers, index, master, task>>
        /\ aborted' = TRUE
        /\ pc' = [pc EXCEPT ![i] = "fetch"] /\ tpc' = [tpc EXCEPT ![i] = "next"]
    BY <1>10 DEF AbortLoop, Abort, Team!Goto
  <2>2. scheduler[i] = "job"
    BY <1>1, <2>1 DEF PoolInv, Places
  <2>3. Caught' /\ Caught /\ saved = "current"
    BY <1>1, <2>1 DEF Caught
  <2>4. QED
    BY <1>1, <2>1, <2>2, <2>3
<1>11. (SleepStep(i) /\ UNCHANGED teamVars) \/ Own
  <2>1. ~FetchCall(i) /\ ~InRegion(i)
    BY <1>1 DEF FetchCall, InRegion
  <2>2. QED
    BY <2>1, <1>5, <1>6, <1>7, <1>8, <1>9, <1>10 DEF LoopStep, PoolStep
<1> HIDE DEF Own
<1>12. CASE Own
  <2>1. /\ \A k \in Workers : k # i => (Back(k)' <=> Back(k))
        /\ scheduler'[i] = "job" => ~Back(i)'
    BY <1>1, <1>12, OthersBack DEF Own
  <2>2. master \in InProgress
    BY <1>1, <1>12, JobInProgress DEF Own
  <2>3. Crew'
    BY <1>1, <1>12, <2>2 DEF Own, LoopInv, Crew, InProgress
  <2>4. InDynamicLoop'
    <3>1. \A k \in Workers : Back(k)' => tpc'[k] = "done"
      BY <1>12, <2>1, <2>2 DEF Own, LoopInv, InDynamicLoop
    <3>2. \A k \in Workers : pc'[k] \in {"catch", "abort"} => tpc'[k] = pc'[k]
      BY <1>12 DEF Own, LoopInv, InDynamicLoop
    <3>3. QED
      BY <1>2, <1>12, <2>2, <3>1, <3>2 DEF Own, InDynamicLoop
  <2>5. QED
    BY <1>3, <2>3, <2>4 DEF LoopInv
<1>13. QED
  BY <1>4, <1>11, <1>12

\* A step inside of a region, or of a loop, moves the thread that takes it.
LEMMA TeamStepMoves ==
  ASSUME NEW i, Team!Step(i), tpc = [k \in Workers |-> tpc[k]]
  PROVE  /\ tpc' = [k \in Workers |-> tpc'[k]]
         /\ \A k \in Workers : k # i => tpc'[k] = tpc[k]
<1>1. tpc' = tpc \/ \E label : tpc' = [tpc EXCEPT ![i] = label]
  BY DEF Team!Step, Team!Leave, Team!ArriveAtBarrier, Team!PassBarrier, Team!StaticLoop,
     Team!LookUpScheduler, Team!CreateScheduler, Team!FetchIteration, Team!FetchNothing,
     Team!CallIteration, Team!Throw, Team!Catch, Team!AbortAgain, Team!ThrowInRegion, Team!Goto
<1>2. QED
  BY <1>1

\* A thread that is in `f` is in a region that the master waits for.
LEMMA InFunction ==
  ASSUME RegionInv, LoopInv, Looped, entry # "dynamic", NEW i \in Workers,
         Return(i) \/ Throw(i) \/ Catch(i) \/ Abort(i)
  PROVE  Called(i) /\ Width > 0 /\ master \in InProgress
<1>1. /\ PoolInv /\ pc[i] # "none" /\ scheduler[i] = "job"
      /\ job.kind = "once" /\ job.n = nthreads /\ nthreads \in Nat \ {0} /\ nworkers \in Nat
  <2>1. PoolInv /\ nthreads \in 1 .. MaxThreads /\ nworkers \in 0 .. MaxThreads
    BY DEF RegionInv, FullPool, PoolInv, TypeOK
  <2>2. pc[i] # "none" /\ scheduler[i] = "job"
    BY <2>1 DEF Return, Throw, Catch, Abort, EndCall, PoolInv, Places
  <2>3. job.kind = "once"
    BY BusyInJob DEF RegionInv, Kinds
  <2>4. job.n = nthreads
    BY <2>3 DEF LoopInv, InRegionOfTeam, NoJob
  <2>5. QED
    BY <2>1, <2>2, <2>3, <2>4, MaxThreadsAssumption
<1>2. master \in InProgress
  BY <1>1, JobInProgress
<1>3. Width > 0
  BY <1>1, WorkerIsAlive DEF Width
<1>4. QED
  BY <1>2, <1>3 DEF RegionInv, Region, InProgress

\* A thread in a region, with or without a loop in it.
LEMMA RegionKeepsLoop ==
  ASSUME RegionInv, LoopInv, Looped, entry # "dynamic", NEW i \in Workers, LoopStep(i),
         UNCHANGED schVars
  PROVE  LoopInv'
<1>1. /\ PoolInv /\ ~Plain /\ ~Ordered /\ job.kind \in {"none", "once"} /\ opc[0] = "loop"
      /\ pc = [k \in Workers |-> pc[k]] /\ tpc = [k \in Workers |-> tpc[k]]
      /\ done \in [Workers -> BOOLEAN]
  BY DEF RegionInv, Kinds, PoolInv, TypeOK, Plain, LoopInv, InOrderedLoop, InRegionOfTeam
<1>2. /\ Looped' /\ ~Ordered' /\ ~Plain' /\ entry' # "dynamic"
      /\ UNCHANGED <<opc, nthreads>> /\ NoJob' = NoJob
  BY <1>1, LoopStepShape DEF Looped, Ordered, Plain, schVars, NoJob
<1>3. InOrderedLoop' /\ InDynamicLoop'
  BY <1>1, <1>2 DEF InOrderedLoop, InDynamicLoop
<1>4. CASE SleepStep(i) /\ UNCHANGED teamVars
  BY <1>1, <1>4, SleepKeepsLoop
<1> DEFINE Ended(k) ==
      done[k] /\ pc[k] # "call" =>
        tpc[k] \in {"done", "threw"} /\ (tpc[k] = "threw" <=> k \in failed)
<1> DEFINE Own ==
      /\ UNCHANGED <<nworkers, job, master>>
      /\ saved' = saved \/ master \in InProgress
      /\ tpc' = [k \in Workers |-> tpc'[k]]
      /\ \A k \in Workers : Ended(k)'
<1>5. \A k \in Workers : Ended(k)
  BY DEF LoopInv, InRegionOfTeam
<1> USE DEF Goto, poolVars, jobVars, controller, teamVars, history
<1>6. ASSUME InRegion(i) PROVE Own
  <2>1. /\ pc[i] = "call" /\ UNCHANGED <<nworkers, job, master, saved, pc, done, failed>>
        /\ tpc' = [k \in Workers |-> tpc'[k]] /\ \A k \in Workers : k # i => tpc'[k] = tpc[k]
    <3>1. Team!Step(i) /\ UNCHANGED vars
      BY <1>6 DEF InRegion
    <3>2. pc[i] = "call" /\ UNCHANGED <<nworkers, job, master, saved, pc, done, failed>>
      BY <1>6, <3>1 DEF InRegion, vars, threadVars
    <3>3. QED
      BY <1>1, <3>1, <3>2, TeamStepMoves
  <2>2. QED
    BY <1>1, <1>5, <2>1
<1>7. ASSUME FetchCall(i), UNCHANGED teamVars PROVE Own
  <2>1. /\ UNCHANGED <<nworkers, job, master, saved, failed, tpc>>
        /\ pc' = [pc EXCEPT ![i] = "call"] /\ done' = [done EXCEPT ![i] = TRUE]
    BY <1>7 DEF FetchCall
  <2>2. /\ pc'[i] = "call"
        /\ \A k \in Workers : k # i => pc'[k] = pc[k] /\ done'[k] = done[k]
    BY <1>1, <2>1
  <2>3. QED
    BY <1>1, <1>5, <2>1, <2>2
<1>8. ASSUME EndRegion(i) PROVE Own
  <2>1. CASE tpc[i] = "done" /\ Return(i)
    <3>1. /\ UNCHANGED <<nworkers, job, master, saved, failed, done, tpc>>
          /\ pc[i] = "call" /\ pc' = [pc EXCEPT ![i] = "fetch"]
      BY <1>8, <2>1 DEF EndRegion, Return, EndCall
    <3>2. i \notin failed /\ \A k \in Workers : k # i => pc'[k] = pc[k]
      BY <1>1, <2>1, <3>1, InFunction DEF Called
    <3>3. QED
      BY <1>1, <1>5, <2>1, <3>1, <3>2
  <2>2. CASE tpc[i] = "threw" /\ Throw(i)
    <3>1. /\ UNCHANGED <<nworkers, job, master, saved, done, tpc>>
          /\ pc[i] = "call" /\ pc' = [pc EXCEPT ![i] = "catch"] /\ failed' = failed \cup {i}
      BY <1>8, <2>2 DEF EndRegion, Throw, EndCall
    <3>2. \A k \in Workers : k # i => pc'[k] = pc[k]
      BY <1>1, <3>1
    <3>3. QED
      BY <1>1, <1>5, <2>2, <3>1, <3>2
  <2>3. CASE TurnToSleep(i)
    <3>1. UNCHANGED <<nworkers, job, master, saved, done, tpc, pc, failed>>
      BY <1>8, <2>3 DEF EndRegion, TurnToSleep, SwitchToController
    <3>2. QED
      BY <1>1, <1>5, <3>1
  <2>4. CASE Catch(i) \/ Abort(i)
    <3>1. /\ UNCHANGED <<nworkers, job, master, done, tpc, failed>>
          /\ pc[i] # "call" /\ \E l : pc' = [pc EXCEPT ![i] = l]
      BY <1>8, <2>4 DEF EndRegion, Catch, Abort
    <3>2. master \in InProgress /\ \A k \in Workers : k # i => pc'[k] = pc[k]
      BY <1>1, <2>4, <3>1, InFunction
    <3>3. QED
      BY <1>1, <1>5, <3>1, <3>2
  <2>5. QED
    BY <1>8, <2>1, <2>2, <2>3, <2>4 DEF EndRegion
<1>9. (SleepStep(i) /\ UNCHANGED teamVars) \/ Own
  <2>1. ~FetchIteration(i) /\ ~FetchNothing(i)
    BY <1>1 DEF FetchIteration, FetchNothing
  <2>2. ~EndIteration(i) /\ ~SaveException(i) /\ ~AbortLoop(i)
    BY DEF EndIteration, SaveException, AbortLoop
  <2>3. QED
    BY <2>1, <2>2, <1>6, <1>7, <1>8 DEF LoopStep, PoolStep
<1>10. CASE Own
  <2>1. Crew'
    BY <1>1, <1>2, <1>10 DEF LoopInv, Crew
  <2>2. InRegionOfTeam'
    BY <1>1, <1>2, <1>10 DEF LoopInv, InRegionOfTeam, InProgress
  <2>3. QED
    BY <1>3, <2>1, <2>2 DEF LoopInv
<1> HIDE DEF Own
<1>11. QED
  BY <1>4, <1>9, <1>10

\* A thread in an ordered loop.
LEMMA OrderedKeepsLoop ==
  ASSUME RegionInv, LoopInv, SchOf!IInv, Ordered, NEW i \in Workers, TaskStep(i),
         UNCHANGED teamVars
  PROVE  LoopInv'
<1>1. /\ PoolInv /\ ~Plain /\ ~Looped /\ job.kind \in {"none", "ordered"}
      /\ pc = [k \in Workers |-> pc[k]] /\ scheduler = [k \in Workers |-> scheduler[k]]
      /\ saved = IF osaved = "none" THEN "none" ELSE "current"
  BY DEF RegionInv, Kinds, PoolInv, TypeOK, Plain, LoopInv, InOrderedLoop
<1>2. /\ opc = [k \in Workers |-> opc[k]]
      /\ opc[i] = "catch" => thrown[i] # "none"
  BY DEF SchOf!IInv, SchOf!Types, SchOf!CancelledLate, SchOf!Threads, Workers
<1>3. /\ Ordered' /\ ~Looped' /\ ~Plain'
      /\ InDynamicLoop' /\ InRegionOfTeam'
  <2>1. Ordered' /\ ~Looped' /\ ~Plain'
    BY <1>1, TaskStepShape DEF Looped, Ordered, Plain, teamVars
  <2>2. QED
    BY <2>1 DEF InDynamicLoop, InRegionOfTeam
<1>4. CASE SleepStep(i) /\ UNCHANGED schVars
  BY <1>1, <1>4, SleepKeepsLoop
<1> DEFINE Own ==
      /\ UNCHANGED <<nworkers, index, master, task>>
      /\ pc[i] # "none" /\ scheduler[i] = "job"
      /\ \A k \in Workers : k # i => /\ pc'[k] = pc[k] /\ scheduler'[k] = scheduler[k]
                                     /\ opc'[k] = opc[k]
      /\ saved' = IF osaved' = "none" THEN "none" ELSE "current"
      /\ scheduler'[i] = "job" \/ opc'[i] = "idle"
      /\ pc'[i] = "catch" => opc'[i] = "catch"
<1> USE DEF Goto, poolVars, jobVars, controller
<1>5. ASSUME GetTask(i) PROVE Own
  <2>1. /\ pc[i] = "fetch" /\ scheduler[i] = "job" /\ pc' = [pc EXCEPT ![i] = "call"]
        /\ UNCHANGED <<saved, scheduler, nworkers, index, master, task>>
    BY <1>5 DEF GetTask, InJob
  <2>2. osaved' = osaved /\ opc' = [opc EXCEPT ![i] = "execute"]
    BY <1>5 DEF GetTask, Sch!FetchOrder, Sch!FetchFinish, Sch!FetchStart, Sch!Assign
  <2>3. QED
    BY <1>1, <1>2, <2>1, <2>2
<1>6. ASSUME GetWaitTask(i) PROVE Own
  <2>1. /\ pc[i] = "fetch" /\ scheduler[i] = "job"
        /\ UNCHANGED <<saved, pc, scheduler, nworkers, index, master, task>>
    BY <1>6 DEF GetWaitTask, InJob, vars, threadVars
  <2>2. UNCHANGED <<osaved, opc>>
    BY <1>6 DEF GetWaitTask, Sch!FetchWait
  <2>3. QED
    BY <1>1, <1>2, <2>1, <2>2
<1>7. ASSUME GetNothing(i) PROVE Own
  <2>1. /\ pc[i] = "fetch" /\ scheduler[i] = "job" /\ pc' = pc
        /\ scheduler' = [scheduler EXCEPT ![i] = "controller"]
        /\ UNCHANGED <<saved, nworkers, index, master, task>>
    BY <1>7 DEF GetNothing, SwitchToController, InJob
  <2>2. osaved' = osaved /\ opc' = [opc EXCEPT ![i] = "idle"]
    BY <1>7 DEF GetNothing, Sch!FetchNothing, Sch!TurnAway
  <2>3. QED
    BY <1>1, <1>2, <2>1, <2>2
<1>8. ASSUME ExecuteTask(i) PROVE Own
  <2>1. /\ pc[i] = "call" /\ UNCHANGED <<saved, pc, scheduler, nworkers, index, master, task>>
    BY <1>8 DEF ExecuteTask, vars, threadVars
  <2>2. osaved' = osaved /\ (opc' = opc \/ opc' = [opc EXCEPT ![i] = "call"])
    BY <1>8 DEF ExecuteTask, Sch!Execute, Sch!SetIterations
  <2>3. scheduler[i] = "job"
    BY <1>1, <2>1 DEF PoolInv, Places
  <2>4. QED
    BY <1>1, <1>2, <2>1, <2>2, <2>3
<1>9. ASSUME EndTask(i) PROVE Own
  <2>1. /\ pc[i] = "call" /\ UNCHANGED <<saved, scheduler, nworkers, index, master, task>>
        /\ osaved' = osaved
        /\ \/ pc' = [pc EXCEPT ![i] = "fetch"] /\ opc' = [opc EXCEPT ![i] = "fetch"]
           \/ pc' = [pc EXCEPT ![i] = "catch"] /\ opc' = [opc EXCEPT ![i] = "catch"]
    BY <1>9 DEF EndTask, EndCall, Sch!Return, Sch!Throw, Sch!ExecuteCancelled
  <2>2. scheduler[i] = "job"
    BY <1>1, <2>1 DEF PoolInv, Places
  <2>3. QED
    BY <1>1, <1>2, <2>1, <2>2
<1>10. ASSUME SaveTaskException(i) PROVE Own
  <2>1. /\ pc[i] = "catch" /\ UNCHANGED <<scheduler, nworkers, index, master, task>>
        /\ saved' = IF saved = "none" THEN "current" ELSE saved
        /\ pc' = [pc EXCEPT ![i] = "abort"] /\ opc' = [opc EXCEPT ![i] = "abort"]
        /\ osaved' = IF osaved = "none" THEN thrown[i] ELSE osaved
    BY <1>10 DEF SaveTaskException, Catch, Sch!SaveFirst
  <2>2. scheduler[i] = "job" /\ thrown[i] # "none"
    BY <1>1, <1>2, <2>1 DEF PoolInv, Places, LoopInv, InOrderedLoop
  <2>3. QED
    BY <1>1, <1>2, <2>1, <2>2
<1>11. ASSUME AbortOrdered(i) PROVE Own
  <2>1. /\ pc[i] = "abort" /\ UNCHANGED <<saved, scheduler, nworkers, index, master, task>>
        /\ pc' = [pc EXCEPT ![i] = "fetch"] /\ opc' = [opc EXCEPT ![i] = "fetch"]
        /\ osaved' = osaved
    BY <1>11 DEF AbortOrdered, Abort, Sch!AbortAgain
  <2>2. scheduler[i] = "job"
    BY <1>1, <2>1 DEF PoolInv, Places
  <2>3. QED
    BY <1>1, <1>2, <2>1, <2>2
<1>12. (SleepStep(i) /\ UNCHANGED schVars) \/ Own
  BY <1>5, <1>6, <1>7, <1>8, <1>9, <1>10, <1>11 DEF TaskStep
<1> HIDE DEF Own
<1>13. CASE Own
  <2>1. /\ \A k \in Workers : k # i => (Back(k)' <=> Back(k))
        /\ scheduler'[i] = "job" => ~Back(i)'
    BY <1>1, <1>13, OthersBack DEF Own
  <2>2. master \in InProgress
    BY <1>1, <1>13, JobInProgress DEF Own
  <2>3. Crew'
    BY <1>1, <1>13, <2>2 DEF Own, LoopInv, Crew, InProgress
  <2>4. InOrderedLoop'
    <3>1. \A k \in Workers : Back(k)' => opc'[k] = "idle"
      BY <1>13, <2>1, <2>2 DEF Own, LoopInv, InOrderedLoop
    <3>2. \A k \in Workers : pc'[k] = "catch" => opc'[k] = "catch"
      BY <1>13 DEF Own, LoopInv, InOrderedLoop
    <3>3. QED
      BY <1>3, <1>13, <2>2, <3>1, <3>2 DEF Own, InOrderedLoop, InProgress
  <2>5. QED
    BY <1>3, <2>3, <2>4 DEF LoopInv
<1>14. QED
  BY <1>4, <1>12, <1>13

LEMMA LoopInvInit == ASSUME LoopInit PROVE LoopInv
<1>1. /\ nworkers = 0 /\ job = NoJob /\ saved = "none" /\ master = "user"
      /\ pc = [i \in Workers |-> "none"] /\ done = [i \in Workers |-> FALSE]
  BY DEF LoopInit, Init
<1>2. tpc = [i \in Workers |-> tpc[i]] /\ ~aborted
  <2>1. Team!Init /\ Workers = Team!AllThreads
    BY DEF LoopInit, Workers, Team!AllThreads
  <2>2. Team!StartAt("between", 0) \/ Team!StartAt("next", 1)
    BY <2>1 DEF Team!Init, Team!InitRegion, Team!InitDynamic, Team!InitStatic
  <2>3. ~aborted
    BY <2>1 DEF Team!Init
  <2>4. QED
    BY <2>1, <2>2, <2>3 DEF Team!StartAt
<1>3. Looped /\ entry = "dynamic" => ~Caught
  <2>1. ASSUME entry = "dynamic", NEW i \in Workers PROVE tpc[i] # "abort"
    <3>1. tpc = [k \in Workers |-> IF k \in Team!Threads THEN "next" ELSE "done"]
      BY <2>1 DEF LoopInit, Team!Init, Team!InitRegion, Team!InitDynamic, Team!InitStatic,
         Team!StartAt, Team!AllThreads, Workers
    <3>2. QED
      BY <3>1
  <2>2. QED
    BY <1>2, <2>1 DEF Caught
<1>4. /\ opc = [i \in Workers |->
                  IF n_threads > 1 THEN "fetch" ELSE IF i = 0 THEN "loop" ELSE "idle"]
      /\ osaved = "none"
  BY Zenon DEF LoopInit, Sch!Init, Sch!Threads, Workers
<1>5. Crew /\ InDynamicLoop /\ InRegionOfTeam
  BY <1>1, <1>2, <1>3 DEF Crew, InDynamicLoop, InRegionOfTeam, InProgress
<1>6. InOrderedLoop
  BY <1>1, <1>4, MaxThreadsAssumption DEF InOrderedLoop, Ordered, InProgress, Workers
<1>7. QED
  BY <1>5, <1>6 DEF LoopInv

LEMMA StepKeepsLoop ==
  ASSUME RegionInv, LoopInv, SchOf!IInv, [LoopNext]_allVars
  PROVE  LoopInv'
<1>1. CASE UNCHANGED allVars
  <2>1. UNCHANGED <<nworkers, job, done, index, saved, master, pc, scheduler, task, failed,
                    teamVars, schVars>>
    BY <1>1 DEF allVars, vars, poolVars, jobVars, controller, threadVars, history
  <2>2. UNCHANGED <<entry, script, nthreads, n_threads, aborted, tpc, opc, osaved>>
    BY <2>1 DEF teamVars, schVars
  <2>3. /\ Plain' = Plain /\ Looped' = Looped /\ Ordered' = Ordered /\ Caught' = Caught
        /\ NoJob' = NoJob /\ \A k \in Workers : Back(k)' <=> Back(k)
    BY <2>1, <2>2 DEF Plain, Looped, Ordered, Caught, NoJob, Back, Waits, Prev
  <2>4. QED
    BY <2>1, <2>2, <2>3 DEF LoopInv, Crew, InDynamicLoop, InOrderedLoop, InRegionOfTeam
<1>2. CASE Plain /\ UNCHANGED <<teamVars, schVars>>
  <2>1. UNCHANGED <<entry, script, n_threads, opc>>
    BY <1>2 DEF teamVars, schVars
  <2>2. Plain' /\ ~Looped' /\ ~Ordered' /\ ~Looped /\ ~Ordered
    BY <1>2, <2>1 DEF Plain, Looped, Ordered
  <2>3. QED
    BY <2>1, <2>2 DEF LoopInv, Crew, InDynamicLoop, InOrderedLoop, InRegionOfTeam
<1>3. CASE ~Plain /\ Master
  BY <1>3, MasterKeepsLoop DEF Master
<1>4. ASSUME NEW i \in Workers, ~Plain, Thread(i) PROVE LoopInv'
  <2>1. CASE Looped /\ LoopStep(i) /\ UNCHANGED schVars
    BY <2>1, DynamicKeepsLoop, RegionKeepsLoop
  <2>2. CASE Ordered /\ TaskStep(i) /\ UNCHANGED teamVars
    BY <2>2, OrderedKeepsLoop
  <2>3. QED
    BY <1>4, <2>1, <2>2 DEF Thread
<1>5. CASE (Looped /\ CallLoop /\ UNCHANGED schVars) \/ (Ordered /\ CallOrdered /\ UNCHANGED teamVars)
  <2>1. UNCHANGED <<teamVars, schVars>>
    BY <1>5 DEF CallLoop, CallOrdered
  <2>2. QED
    BY <1>5, <2>1, CallKeepsLoop
<1>6. ASSUME NEW i \in Workers, Plain, Thread(i) PROVE UNCHANGED <<teamVars, schVars>>
  BY <1>6 DEF Thread, Plain
<1>7. QED
  BY <1>1, <1>2, <1>3, <1>4, <1>5, <1>6 DEF LoopNext, Master, Idle

\* The ordered loop keeps its own invariant in the threads of the pool.
LEMMA LoopsTogether ==
  ASSUME RegionInv, LoopInv, SchOf!IInv, [LoopNext]_allVars
  PROVE  SchOf!IInv'
<1>1. ASSUME [SchOf!Next]_(SchOf!vars) PROVE SchOf!IInv'
  BY <1>1, Assumptions, MaxThreadsAssumption, SchOf!StepInv
<1>2. CASE UNCHANGED schVars
  BY <1>1, <1>2 DEF schVars, SchOf!vars, SchOf!shape, SchOf!taskVars, SchOf!queues
<1>3. ASSUME NEW i \in Workers, Ordered, TaskStep(i) PROVE SchOf!IInv'
  <2>1. i \in SchOf!Threads
    BY DEF SchOf!Threads, Workers
  <2>2. CASE SchOf!Saves(i)
    BY <2>1, <2>2, Assumptions, MaxThreadsAssumption, SchOf!SavesInv
  <2>3. CASE SchOf!Step(i) \/ \E n \in Resizes : SchOf!SetIterations(i, n)
    BY <1>1, <2>1, <2>3 DEF SchOf!Next
  <2>4. QED
    BY <1>2, <1>3, <2>2, <2>3, TaskStepOfLoop
<1>4. QED
  BY <1>2, <1>3, WholeStep

\* The invariant that links the pool and what runs in it: while a job is in progress a thread
\* that is back from it has no more to do in the loop, and the exception that the pool holds
\* is that of the loop.
THEOREM LoopInvariance ==
  ASSUME GrowAfterShrink = FALSE PROVE LoopSpec => []LoopInv
<1>1. LoopInit => LoopInv /\ SchOf!IInv
  <2>1. SchOf!Init => SchOf!IInv
    BY Assumptions, MaxThreadsAssumption, SchOf!InitInv
  <2>2. QED
    BY <2>1, LoopInvInit, SameSchInit DEF LoopInit
<1>2. RegionInv /\ LoopInv /\ SchOf!IInv /\ [LoopNext]_allVars => LoopInv' /\ SchOf!IInv'
  BY StepKeepsLoop, LoopsTogether
<1>3. QED
  BY <1>1, <1>2, RegionInvariance, PTL DEF LoopSpec
-----------------------------------------------------------------------------
(***************************************************************************)
(* The rows of the loops, and the calls that run them.                     *)
(***************************************************************************)
\* What is proved of the rows of a team, and of the ring of an ordered loop, holds in this
\* pool too, although it saves an exception before it aborts the loop.
LEMMA TeamSteps ==
  ASSUME LoopInv, TeamOf!TeamInv, [LoopNext]_allVars
  PROVE  TeamOf!TeamInv'
<1>1. CASE UNCHANGED teamVars
  BY <1>1, Assumptions, TeamOf!TeamStays
     DEF teamVars, TeamOf!vars, TeamOf!team, TeamOf!sched
<1>2. ASSUME NEW i \in Workers, Looped, LoopStep(i) PROVE TeamOf!TeamInv'
  <2>1. i \in TeamOf!AllThreads
    BY DEF TeamOf!AllThreads, Workers
  <2>2. CASE TeamOf!Step(i) /\ (tpc[i] = "abort" => aborted)
    BY <2>1, <2>2, Assumptions, TeamOf!TeamStep
  <2>3. CASE TeamOf!Handles(i)
    BY <2>1, <2>3, Assumptions, TeamOf!HandledStep
  <2>4. QED
    BY <1>1, <1>2, <2>2, <2>3, LoopStepOfTeam
<1>3. QED
  BY <1>1, <1>2, WholeStep

LEMMA RingSteps ==
  ASSUME MayRaise = FALSE, LoopInv, SchOf!RInv, [LoopNext]_allVars
  PROVE  SchOf!RInv'
<1>1. ASSUME [SchOf!Next]_(SchOf!vars) PROVE SchOf!RInv'
  BY <1>1, Assumptions, MaxThreadsAssumption, SchOf!RingStep
<1>2. CASE UNCHANGED schVars
  BY <1>1, <1>2 DEF schVars, SchOf!vars, SchOf!shape, SchOf!taskVars, SchOf!queues
<1>3. ASSUME NEW i \in Workers, Ordered, TaskStep(i) PROVE SchOf!RInv'
  <2>1. i \in SchOf!Threads
    BY DEF SchOf!Threads, Workers
  <2>2. CASE SchOf!Saves(i)
    BY <2>1, <2>2, Assumptions, MaxThreadsAssumption, SchOf!SavesRing
  <2>3. CASE SchOf!Step(i) \/ \E n \in Resizes : SchOf!SetIterations(i, n)
    BY <1>1, <2>1, <2>3 DEF SchOf!Next
  <2>4. QED
    BY <1>2, <1>3, <2>2, <2>3, TaskStepOfLoop
<1>4. QED
  BY <1>2, <1>3, WholeStep

LEMMA TeamIsSound ==
  ASSUME MaxDynamic <= 1, GrowAfterShrink = FALSE PROVE LoopSpec => []TeamOf!TeamInv
<1>1. LoopInit => TeamOf!TeamInv
  <2>1. TeamOf!Init => TeamOf!TeamInv
    BY Assumptions, TeamOf!TypeInit, TeamOf!RoundsInit, TeamOf!RowsInit DEF TeamOf!TeamInv
  <2>2. QED
    BY <2>1, SameTeamInit DEF LoopInit
<1>2. LoopInv /\ TeamOf!TeamInv /\ [LoopNext]_allVars => TeamOf!TeamInv'
  BY TeamSteps
<1>3. QED
  BY <1>1, <1>2, LoopInvariance, PTL DEF LoopSpec

LEMMA LoopIsSound ==
  ASSUME MayRaise = FALSE, GrowAfterShrink = FALSE PROVE LoopSpec => []SchOf!RInv
<1>1. LoopInit => SchOf!RInv
  <2>1. SchOf!Init => SchOf!RInv
    BY Assumptions, MaxThreadsAssumption, SchOf!RingInit
  <2>2. QED
    BY <2>1, SameSchInit DEF LoopInit
<1>2. LoopInv /\ SchOf!RInv /\ [LoopNext]_allVars => SchOf!RInv'
  BY RingSteps
<1>3. QED
  BY <1>1, <1>2, LoopInvariance, PTL DEF LoopSpec

\* A call that runs a loop ends when everybody is back.
LEMMA LoopJoined ==
  ASSUME RegionInv, LoopInv, ~Plain, LoopNext, job # NoJob, job' = NoJob
  PROVE  /\ UNCHANGED <<teamVars, schVars, saved>> /\ job' = NoJob
         /\ master = "join" /\ nworkers = MaxThreads
         /\ \A k \in Workers : pc[k] \in {"asleep", "woken"} /\ Back(k)
<1>1. PoolInv /\ Crew /\ master # "user"
  BY DEF RegionInv, PoolInv, Jobs, LoopInv
<1>2. \A i \in Workers : ~Thread(i)
  BY ThreadStep
<1>3. Master
  BY <1>1, <1>2 DEF LoopNext, CallLoop, ExecuteJob, CallOrdered, Idle
<1>4. ~(master = "spawn" /\ (saved = "none" => job' = job))
  BY <1>1 DEF LoopInv, InDynamicLoop, InOrderedLoop, InRegionOfTeam, InProgress, Plain
<1>5. /\ master = "join" /\ saved' = saved
      /\ \A k \in Workers : pc[k] \in {"asleep", "woken"} /\ Back(k)
  BY <1>1, <1>3, <1>4, MasterMoves DEF Master
<1>6. QED
  BY <1>1, <1>3, <1>5 DEF Master, Crew

\* What the caller of a loop finds, once everybody is back.
LEMMA LoopEnds ==
  ASSUME RegionInv, LoopInv, TeamOf!TeamInv, LoopNext, Looped, job # NoJob, job' = NoJob
  PROVE  /\ (saved = "current") = (failed # {} \/ aborted)
         /\ \A c \in DOMAIN script : \A r \in DOMAIN times[c] :
              times[c][r] <= 1 /\ (saved = "none" => times[c][r] = 1)
<1>1. /\ master = "join" /\ master \in InProgress /\ nworkers = MaxThreads
      /\ \A k \in Workers : pc[k] \in {"asleep", "woken"} /\ Back(k)
  BY LoopJoined DEF Plain, InProgress
<1>2. /\ job.kind # "none" /\ nthreads \in 1 .. MaxThreads /\ failed \subseteq Workers
      /\ Kinds /\ Region /\ MaxThreads \in Nat \ {0}
  BY MaxThreadsAssumption DEF RegionInv, FullPool, PoolInv, TypeOK, Jobs
<1>3. TeamOf!RowsAtMostOnce /\ TeamOf!LoopsAreComplete
  BY Assumptions, TeamOf!RowsOnce, TeamOf!Completeness
<1>4. /\ TeamOf!Scripted /\ TeamOf!Where /\ TeamOf!TypeOK
      /\ TeamOf!Threads \subseteq Workers /\ 0 \in TeamOf!Threads
      /\ \A i \in Workers : i \in TeamOf!AllThreads
      /\ \A i \in TeamOf!Threads : i \in Nat /\ i < nthreads
  BY <1>2 DEF TeamOf!TeamInv, TeamOf!TypeInv, TeamOf!Threads, TeamOf!AllThreads, Workers
<1>5. ASSUME ~aborted, \A i \in TeamOf!Threads : tpc[i] = "done"
      PROVE  \A c \in DOMAIN script : \A r \in DOMAIN times[c] : times[c][r] = 1
  <2>1. ASSUME NEW c \in DOMAIN script, NEW i \in TeamOf!Threads PROVE TeamOf!Past(i, c)
    <3>1. at[i] = Len(script) /\ c \in 1 .. Len(script) /\ Len(script) \in Nat
      BY <1>4, <1>5, <2>1 DEF TeamOf!Where, TeamOf!Scripted
    <3>2. QED
      BY <1>5, <3>1 DEF TeamOf!Past
  <2>2. QED
    BY <1>3, <1>4, <1>5, <2>1 DEF TeamOf!LoopsAreComplete, TeamOf!Complete
<1>6. CASE entry = "dynamic"
  <2>1. \A i \in Workers : tpc[i] = "done"
    BY <1>1, <1>6 DEF LoopInv, InDynamicLoop
  <2>2. saved = IF aborted THEN "current" ELSE "none"
    BY <1>6, <2>1 DEF LoopInv, InDynamicLoop, Caught
  <2>3. failed = {} /\ aborted \in BOOLEAN
    BY <1>2, <1>4, <1>6 DEF Kinds, TeamOf!TypeOK
  <2>4. saved = "none" => \A c \in DOMAIN script : \A r \in DOMAIN times[c] : times[c][r] = 1
    BY <1>4, <1>5, <2>1, <2>2
  <2>5. QED
    BY <1>3, <2>2, <2>3, <2>4 DEF TeamOf!RowsAtMostOnce
<1>7. CASE entry # "dynamic"
  <2>1. job.kind = "once" /\ job.n = nthreads /\ ~aborted
    BY <1>2, <1>4, <1>7 DEF Kinds, LoopInv, InRegionOfTeam, TeamOf!Where
  <2>2. Width = nthreads /\ Width > 0
    BY <1>1, <1>2, <2>1 DEF Width
  <2>3. Failed = failed
    BY <1>1, <1>2 DEF Failed
  <2>4. saved = IF failed # {} THEN "current" ELSE "none"
    BY <1>1, <1>2, <2>2, <2>3 DEF Region
  <2>5. ASSUME NEW i \in TeamOf!Threads PROVE tpc[i] = "done" \/ i \in failed
    <3>1. i \in Workers /\ i < Width /\ Back(i) /\ pc[i] # "call"
      BY <1>1, <1>4, <2>2
    <3>2. done[i]
      BY <1>1, <1>2, <2>2, <3>1 DEF Region, Came, Back
    <3>3. QED
      BY <1>7, <3>1, <3>2 DEF LoopInv, InRegionOfTeam
  <2>6. saved = "none" => \A c \in DOMAIN script : \A r \in DOMAIN times[c] : times[c][r] = 1
    BY <1>5, <2>1, <2>4, <2>5
  <2>7. QED
    BY <1>3, <2>1, <2>4, <2>6 DEF TeamOf!RowsAtMostOnce
<1>8. QED
  BY <1>6, <1>7

\* A call with loops in it throws exactly when a function of the user threw, in whichever
\* thread; otherwise every row of every loop has been executed exactly once when it returns.
THEOREM LoopsReturnInOrder ==
  ASSUME MaxDynamic <= 1, GrowAfterShrink = FALSE PROVE LoopSpec => LoopReturns
<1>1. RegionInv /\ LoopInv /\ TeamOf!TeamInv /\ [LoopNext]_allVars =>
        [Looped /\ job # NoJob /\ job' = NoJob =>
           /\ (saved = "current") = (failed # {} \/ aborted)
           /\ \A c \in DOMAIN script : \A r \in DOMAIN times[c] :
                times[c][r] <= 1 /\ (saved = "none" => times[c][r] = 1)]_allVars
  BY LoopEnds
<1>2. QED
  BY <1>1, RegionInvariance, LoopInvariance, TeamIsSound, PTL DEF LoopSpec, LoopReturns
-----------------------------------------------------------------------------
(***************************************************************************)
(* parallel_for_ordered() in the pool: the caller has the result when the  *)
(* master has joined the threads.                                          *)
(***************************************************************************)
\* OrderedLoop!result, in a name of its own.
LoopResult ==
  IF job # NoJob \/ \E i \in Workers : opc[i] # "idle" THEN "none"
  ELSE IF saved = "none" THEN "done" ELSE "threw"

LEMMA LoopStutters ==
  ASSUME UNCHANGED <<n_iterations, limit, stage, ofailed>>, LoopResult' = LoopResult
  PROVE  UNCHANGED OrderedLoop!vars
BY DEF OrderedLoop!vars, LoopResult

\* A thread that takes a step in the loop is in the job, which goes on.
LEMMA TaskInJob ==
  ASSUME RegionInv, NEW i \in Workers, TaskStep(i), ~UNCHANGED schVars
  PROVE  job # NoJob /\ job' = job
<1>1. job' = job /\ PoolInv
  BY OrderedStep DEF RegionInv
<1>2. /\ pc[i] # "none" /\ scheduler[i] = "job"
  <2>1. pc[i] \in {"call", "catch", "abort"} \/ (pc[i] = "fetch" /\ scheduler[i] = "job")
    BY DEF TaskStep, GetTask, GetWaitTask, GetNothing, ExecuteTask, EndTask, SaveTaskException,
       AbortOrdered, SwitchToController, InJob, EndCall, Catch, Abort
  <2>2. QED
    BY <1>1, <2>1 DEF PoolInv, Places
<1>3. master \in {"notify", "join", "reap"}
  BY <1>1, <1>2 DEF PoolInv, Places
<1>4. QED
  BY <1>1, <1>3 DEF PoolInv, Jobs, NoJob

\* While the job runs, the loop is that of the scheduler.
LEMMA TaskRefined ==
  ASSUME RegionInv, LoopInv, SchOf!RInv, SchOf!RInv', Ordered, NEW i \in Workers, TaskStep(i),
         ~UNCHANGED schVars
  PROVE  OrderedLoop!Next \/ UNCHANGED OrderedLoop!vars
<1>1. MaxIterations \in Nat \ {0}
  BY LoopsAssumption
<1>2. job # NoJob /\ job' = job
  BY TaskInJob
<1>3. LoopResult = "none" /\ LoopResult' = "none" /\ NoJob' = NoJob
  BY <1>2 DEF LoopResult, NoJob
<1>4. CASE UNCHANGED <<n_iterations, limit, stage, ofailed>>
  BY <1>3, <1>4, LoopStutters
<1>5. CASE SchOf!Saves(i)
  BY <1>4, <1>5 DEF SchOf!Saves
<1>6. CASE SchOf!Step(i) \/ \E n \in Resizes : SchOf!SetIterations(i, n)
  <2>1. [SchOf!OrderedLoop!Next]_(SchOf!OrderedLoop!vars)
    <3>1. [SchOf!Next]_(SchOf!vars)
      BY <1>6 DEF SchOf!Next, SchOf!Threads, Workers
    <3>2. QED
      BY <3>1, Assumptions, MaxThreadsAssumption, SchOf!StepRefined
  <2>2. ASSUME NEW m \in 0 .. MaxIterations, SchOf!OrderedLoop!Resize(m) PROVE OrderedLoop!Next
    <3>1. OrderedLoop!Resize(m)
      BY <1>3, <2>2 DEF SchOf!OrderedLoop!Resize, OrderedLoop!Resize, LoopResult
    <3>2. QED
      BY <3>1 DEF OrderedLoop!Next
  <2>3. ASSUME NEW j \in SchOf!OrderedLoop!Iterations,
               \/ SchOf!OrderedLoop!Call(j) \/ SchOf!OrderedLoop!Return(j)
               \/ SchOf!OrderedLoop!Throw(j)
        PROVE  OrderedLoop!Next
    <3>1. j \in OrderedLoop!Iterations
      BY DEF SchOf!OrderedLoop!Iterations, OrderedLoop!Iterations
    <3>2. SchOf!OrderedLoop!Call(j) => OrderedLoop!Call(j)
      BY <1>3 DEF SchOf!OrderedLoop!Call, OrderedLoop!Call, LoopResult
    <3>3. SchOf!OrderedLoop!Return(j) => OrderedLoop!Return(j)
      BY <1>3 DEF SchOf!OrderedLoop!Return, SchOf!OrderedLoop!Running, OrderedLoop!Return,
         OrderedLoop!Running, LoopResult
    <3>4. SchOf!OrderedLoop!Throw(j) => OrderedLoop!Throw(j)
      BY <1>3 DEF SchOf!OrderedLoop!Throw, SchOf!OrderedLoop!Running, OrderedLoop!Throw,
         OrderedLoop!Running, LoopResult
    <3>5. QED
      BY <2>3, <3>1, <3>2, <3>3, <3>4 DEF OrderedLoop!Next
  <2>4. CASE SchOf!OrderedLoop!End
    BY <1>4, <2>4 DEF SchOf!OrderedLoop!End
  <2>5. QED
    BY <2>1, <1>4, <2>2, <2>3, <2>4 DEF SchOf!OrderedLoop!Next, SchOf!OrderedLoop!vars
<1>7. QED
  BY <1>5, <1>6, TaskStepOfLoop

\* The call returns or throws: no function runs any more, and if none threw then all
\* iterations are done.
LEMMA EndOfLoop ==
  ASSUME RegionInv, LoopInv, SchOf!RInv, Ordered, LoopNext, job # NoJob, job' = NoJob
  PROVE  OrderedLoop!Next
<1>1. /\ master \in InProgress /\ \A k \in Workers : Back(k)
      /\ UNCHANGED <<schVars, saved>>
  BY LoopJoined DEF Plain, InProgress
<1>2. /\ saved = IF osaved = "none" THEN "none" ELSE "current"
      /\ \A k \in Workers : opc[k] = "idle"
  BY <1>1 DEF LoopInv, InOrderedLoop
<1>3. /\ \A j \in SchOf!Iterations : ~(stage[j] \in {1, 3, 5} /\ j \notin ofailed)
      /\ ofailed = {} <=> osaved = "none"
      /\ ofailed = {} => \A j \in 0 .. n_iterations - 1 : stage[j] = 6
  <2>1. \A k \in SchOf!Threads : opc[k] = "idle"
    BY <1>2 DEF SchOf!Threads, Workers
  <2>2. QED
    BY <2>1, Assumptions, MaxThreadsAssumption, SchOf!AllLeft DEF Ordered
<1>4. /\ LoopResult = "none"
      /\ LoopResult' = IF ofailed = {} THEN "done" ELSE "threw"
      /\ UNCHANGED <<n_iterations, limit, stage, ofailed>>
  BY <1>1, <1>2, <1>3 DEF LoopResult, schVars, NoJob
<1>5. OrderedLoop!End
  BY <1>3, <1>4 DEF OrderedLoop!End, OrderedLoop!Running, OrderedLoop!Iterations,
     SchOf!Iterations, LoopResult
<1>6. QED
  BY <1>5 DEF OrderedLoop!Next

\* Before the job and after it nothing happens to the loop, and the result stays.
LEMMA OutsideOfLoop ==
  ASSUME RegionInv, LoopInv, Ordered, LoopNext, job = NoJob, UNCHANGED <<teamVars, schVars>>
  PROVE  UNCHANGED OrderedLoop!vars
<1>1. UNCHANGED <<n_iterations, limit, stage, ofailed, opc>> /\ NoJob' = NoJob
  BY DEF schVars, NoJob
<1>2. /\ PoolInv /\ Crew /\ ~Plain /\ ~Looped /\ 0 \in Workers
      /\ master \in {"user", "spawn"} /\ master \notin InProgress
  BY MaxThreadsAssumption
     DEF RegionInv, PoolInv, TypeOK, Jobs, Kinds, Plain, NoJob, InProgress, LoopInv, Workers
<1>3. CASE \A k \in Workers : opc[k] = "fetch"
  BY <1>1, <1>2, <1>3, LoopStutters DEF LoopResult
<1>4. CASE master = "user" /\ nworkers > 0 /\ \A k \in Workers : opc[k] = "idle"
  <2>1. ~CallOrdered
    BY <1>2, <1>4 DEF CallOrdered, PoolInv, TypeOK
  <2>2. ~Master
    BY <1>4 DEF Master, MasterStep, Spawn, JoinSpawned, PostJob, ResetTask, SwitchTask,
       NotifyAll, JoinJob, JoinShutdown, Reap
  <2>3. ASSUME NEW k \in Workers, Thread(k) PROVE UNCHANGED <<job, saved>>
    <3>1. TaskStep(k)
      BY <1>2, <2>3 DEF Thread
    <3>2. CASE SleepStep(k)
      BY <1>2, <3>2, SleeperQuiet
    <3>3. CASE ~SleepStep(k)
      <4>1. pc[k] \in {"call", "catch", "abort"} \/ (pc[k] = "fetch" /\ scheduler[k] = "job")
        BY <3>1, <3>3 DEF TaskStep, GetTask, GetWaitTask, GetNothing, ExecuteTask, EndTask,
           SaveTaskException, AbortOrdered, SwitchToController, InJob, EndCall, Catch, Abort
      <4>2. QED
        BY <1>2, <1>4, <4>1 DEF PoolInv, Places
    <3>4. QED
      BY <3>2, <3>3
  <2>4. UNCHANGED <<job, saved>>
    <3>1. CASE Idle
      BY <3>1 DEF Idle, allVars, vars, jobVars, controller
    <3>2. QED
      BY <1>2, <2>1, <2>2, <2>3, <3>1 DEF LoopNext
  <2>5. QED
    BY <1>1, <2>4, LoopStutters DEF LoopResult
<1>5. QED
  BY <1>2, <1>3, <1>4 DEF LoopInv, InOrderedLoop

LEMMA LoopStepRefined ==
  ASSUME RegionInv, LoopInv, SchOf!RInv, SchOf!RInv', [LoopNext]_allVars
  PROVE  [OrderedLoop!Next]_(OrderedLoop!vars)
<1>1. CASE UNCHANGED allVars
  <2>1. UNCHANGED <<n_iterations, limit, stage, ofailed>> /\ LoopResult' = LoopResult
    BY <1>1 DEF allVars, vars, jobVars, controller, schVars, LoopResult, NoJob
  <2>2. QED
    BY <2>1, LoopStutters
<1>2. 0 \in Workers
  BY MaxThreadsAssumption DEF Workers
<1>3. CASE LoopNext /\ UNCHANGED <<teamVars, schVars>>
  <2>1. UNCHANGED <<n_iterations, limit, stage, ofailed, opc>>
    BY <1>3 DEF schVars
  <2>2. CASE ~Ordered
    <3>1. opc[0] = "loop"
      BY <2>2 DEF LoopInv, InOrderedLoop
    <3>2. QED
      BY <1>2, <2>1, <3>1, LoopStutters DEF LoopResult
  <2>3. CASE Ordered /\ job = NoJob
    BY <1>3, <2>3, OutsideOfLoop
  <2>4. CASE Ordered /\ job # NoJob /\ job' = NoJob
    BY <1>3, <2>4, EndOfLoop
  <2>5. CASE job # NoJob /\ job' # NoJob
    <3>1. LoopResult = "none" /\ LoopResult' = "none"
      BY <2>5 DEF LoopResult, NoJob
    <3>2. QED
      BY <2>1, <3>1, LoopStutters
  <2>6. QED
    BY <2>2, <2>3, <2>4, <2>5
<1>4. CASE \E i \in Workers : Looped /\ LoopStep(i) /\ UNCHANGED schVars
  <2>1. ~Ordered
    BY <1>4 DEF RegionInv, Kinds
  <2>2. opc[0] = "loop" /\ UNCHANGED <<n_iterations, limit, stage, ofailed, opc>>
    BY <1>4, <2>1 DEF LoopInv, InOrderedLoop, schVars
  <2>3. QED
    BY <1>2, <2>2, LoopStutters DEF LoopResult
<1>5. ASSUME NEW i \in Workers, Ordered, TaskStep(i), UNCHANGED teamVars
      PROVE  [OrderedLoop!Next]_(OrderedLoop!vars)
  BY <1>1, <1>3, <1>5, TaskRefined
<1>6. QED
  BY <1>1, <1>3, <1>4, <1>5, WholeStep

\* What the caller of parallel_for_ordered() sees: when it gets control back, all three
\* functions have run once for every iteration, in order, or one of them threw, and then the
\* call throws; none of them runs after that.
THEOREM OrderedLoopsRefined ==
  ASSUME MayRaise = FALSE, GrowAfterShrink = FALSE PROVE LoopSpec => ImplementsOrderedLoop
<1>1. LoopInit => OrderedLoop!Init
  <2> SUFFICES ASSUME LoopInit PROVE OrderedLoop!Init
    OBVIOUS
  <2>1. SchOf!OrderedLoop!Init
    BY Assumptions, MaxThreadsAssumption, SameSchInit, SchOf!LoopStarts DEF LoopInit
  <2>2. LoopInv /\ master = "user" /\ nworkers = 0 /\ 0 \in Workers
    BY LoopInvInit, MaxThreadsAssumption DEF LoopInit, Init, Workers
  <2>3. opc[0] # "idle"
    BY <2>2 DEF LoopInv, InOrderedLoop, InProgress
  <2>4. LoopResult = "none"
    BY <2>2, <2>3 DEF LoopResult
  <2>5. QED
    BY <2>1, <2>4 DEF SchOf!OrderedLoop!Init, SchOf!OrderedLoop!Iterations, OrderedLoop!Init,
       OrderedLoop!Iterations, LoopResult
<1>2. RegionInv /\ LoopInv /\ SchOf!RInv /\ SchOf!RInv' /\ [LoopNext]_allVars
        => [OrderedLoop!Next]_(OrderedLoop!vars)
  BY LoopStepRefined
<1>3. QED
  BY <1>1, <1>2, RegionInvariance, LoopInvariance, LoopIsSound, PTL
     DEF LoopSpec, ImplementsOrderedLoop, OrderedLoop!Spec
==============================================================================
