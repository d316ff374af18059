-------------------------- MODULE ThreadPool3Proofs --------------------------
(***************************************************************************)
(* Proofs about ThreadPool3, for every MaxThreads, whether or not threads  *)
(* can fail to be created.                                                 *)
(*                                                                         *)
(* The inductive invariant says where each worker can be, given where the  *)
(* master is; the two counts (n_threads_running, the semaphore's tokens)   *)
(* follow the workers one at a time, and carry the information back: when  *)
(* the master has seen a zero, every worker is in the current sleep task.  *)
(* The second part builds the refinement of ForkJoin upon it.              *)
(***************************************************************************)
EXTENDS ThreadPool3, FiniteSetTheorems, TLAPS

\* TypeOK without what takes counting: that n_threads_running and the number of
\* tokens never become negative.
TypeInt ==
  /\ nworkers \in 0 .. MaxThreads
  /\ requested \in 1 .. MaxThreads
  /\ team \in 0 .. MaxThreads
  /\ job \in [kind : {"none", "once", "shutdown"}, n : 0 .. MaxThreads]
  /\ done \in [Threads -> BOOLEAN]
  /\ curr \in 0 .. 1
  /\ next \in [0 .. 1 -> {"null", "job"}]
  /\ sem \in [0 .. 1 -> Int]
  /\ running \in Int
  /\ saved \in Exceptions
  /\ pc \in [Threads -> MasterLabels \cup WorkerLabels]
  /\ pc[0] \in MasterLabels
  /\ \A i \in Workers : pc[i] \in WorkerLabels
  /\ scheduler \in [Threads -> {"null", "idle", "job"}]
  /\ task \in [Workers -> 0 .. 1]
  /\ calls \in [Threads -> Nat]
  /\ failed \subseteq Threads
  /\ outcome \in Exceptions
  /\ resized \in Exceptions
  /\ leaked \in Nat

\* The job is posted in the previous sleep task, from PostJob to join().
Posted == pc[0] \in {"signal", "fetch", "call", "catch", "join"}

\* What the master's place says of the pool.
MasterInv ==
  /\ pc[0] = "user" => job = NoJob
  /\ pc[0] \notin {"user", "spawn"} => job.kind \in {"once", "shutdown"} /\ nworkers > 0
  /\ job.kind = "none" => job = NoJob
  /\ pc[0] = "reap" => job.kind = "shutdown"
  /\ job.kind = "shutdown" =>
       pc[0] # "spawn" /\ job.n = requested /\ requested < nworkers
  /\ pc[0] = "spawn" => nworkers <= requested
  /\ pc[0] # "spawn" /\ job.kind # "shutdown" => nworkers \in {0, requested}
  /\ job.kind = "shutdown" /\ pc[0] \notin {"swap", "count"} => saved = "none"
  /\ pc[0] \in {"call", "catch"} => job.kind = "once"
  /\ pc[0] # "spawn" => leaked = 0
  /\ next[curr] = "null"
  /\ next[Prev] = IF Posted THEN "job" ELSE "null"

\* Where a worker can be.
Absent(i) == pc[i] = "none" /\ scheduler[i] = "null"
Resting(i) == pc[i] = "asleep" /\ scheduler[i] = "idle" /\ task[i] = curr
Waiting(i) == pc[i] = "asleep" /\ scheduler[i] = "idle" /\ task[i] = Prev
Waking(i) == pc[i] = "awake" /\ scheduler[i] = "idle" /\ task[i] = Prev
OnJob(i) ==
  /\ pc[i] \in {"fetch", "call", "catch"}
  /\ scheduler[i] = "job"
  /\ pc[i] # "fetch" => job.kind = "once"
Settling(i) ==
  /\ pc[i] \in {"fetch", "drowsy"}
  /\ scheduler[i] = "idle"
  /\ pc[i] = "drowsy" => task[i] = curr
Leaving(i) ==
  \/ pc[i] = "shutdown" /\ scheduler[i] = "job"
  \/ pc[i] = "exited" /\ scheduler[i] = "null"

\* ... and where it is while the master is at a given place.
Discharged(i) == job.kind = "shutdown" /\ i >= job.n

WorkerAt(i) ==
  /\ i >= nworkers => Absent(i)
  /\ i < nworkers =>
       /\ pc[0] \in {"user", "swap"} => Resting(i)
       /\ pc[0] = "spawn" => Resting(i) \/ Settling(i)
       /\ pc[0] \in {"count", "post", "signal"} => Waiting(i)
       /\ pc[0] \in {"fetch", "call", "catch", "join"} =>
            \/ Waiting(i) \/ Waking(i) \/ OnJob(i)
            \/ ~Discharged(i) /\ (Settling(i) \/ Resting(i))
            \/ Discharged(i) /\ Leaving(i)
       /\ pc[0] = "reap" => IF Discharged(i) THEN Leaving(i) ELSE Resting(i)

WorkerInv == \A i \in Workers : WorkerAt(i)

IInv == TypeInt /\ MasterInv /\ WorkerInv /\ RunningCount /\ TokenCount
-----------------------------------------------------------------------------
(***************************************************************************)
(* The type invariant, up to the signs of the counters.                    *)
(***************************************************************************)
LEMMA TypeInit == Init => TypeInt
BY MaxThreadsAssumption
   DEF Init, TypeInt, NoJob, Threads, Workers, MasterLabels, WorkerLabels, Exceptions

LEMMA ApiCallType == TypeInt /\ ApiCall => TypeInt'
<1> SUFFICES ASSUME TypeInt, ApiCall PROVE TypeInt'
  OBVIOUS
<1> USE MaxThreadsAssumption
     DEF TypeInt, Threads, Workers, MasterLabels, WorkerLabels, Exceptions, Goto, Prev,
         Aged, poolVars, jobVars, idleVars, threadVars, history
<1>1. ASSUME NEW n \in 1 .. MaxThreads, ResizeLazily(n) PROVE TypeInt'
  BY <1>1 DEF ResizeLazily
<1>2. ASSUME NEW n \in 1 .. MaxThreads, ResizeUp(n) PROVE TypeInt'
  BY <1>2 DEF ResizeUp
<1>3. ASSUME NEW n \in 1 .. MaxThreads, ResizeDown(n) PROVE TypeInt'
  BY <1>3 DEF ResizeDown
<1>4. ASSUME NEW n \in 0 .. MaxThreads, ParallelRegion(n) PROVE TypeInt'
  BY <1>4 DEF ParallelRegion, RegionWidth
<1>5. CASE ForkChild
  BY <1>5 DEF ForkChild
<1>6. QED
  BY <1>1, <1>2, <1>3, <1>4, <1>5 DEF ApiCall

LEMMA MasterType == TypeInt /\ MasterStep => TypeInt'
<1> SUFFICES ASSUME TypeInt, MasterStep PROVE TypeInt'
  OBVIOUS
<1> USE MaxThreadsAssumption
     DEF TypeInt, Threads, Workers, MasterLabels, WorkerLabels, Exceptions, Goto, Prev,
         Aged, poolVars, jobVars, idleVars, threadVars, history
<1>1. CASE SpawnMaster
  BY <1>1 DEF SpawnMaster
<1>2. CASE Spawn
  BY <1>2 DEF Spawn, OnBeforeThreadAdded
<1>3. CASE SpawnFails
  BY <1>3 DEF SpawnFails, OnBeforeThreadAdded
<1>4. CASE JoinSpawnedByResize
  BY <1>4 DEF JoinSpawnedByResize, ReturnToUser, NoJob
<1>5. CASE JoinSpawnedByRegion
  <2>1. CASE saved = "none"
    <3>1. pc' = [pc EXCEPT ![0] = "swap"] /\ UNCHANGED <<team, job, outcome>>
      BY <1>5, <2>1 DEF JoinSpawnedByRegion
    <3>2. QED
      BY <1>5, <3>1 DEF JoinSpawnedByRegion
  <2>2. CASE saved # "none"
    BY <1>5, <2>2 DEF JoinSpawnedByRegion, ReturnToUser, NoJob
  <2>3. QED
    BY <2>1, <2>2
<1>6. CASE SwapSleepTasks
  BY <1>6 DEF SwapSleepTasks
<1>7. CASE CountRunning
  BY <1>7 DEF CountRunning, Sleepers, ForgetException
<1>8. CASE PostJob
  BY <1>8 DEF PostJob
<1>9. CASE SignalSleepers
  BY SMTT(30), <1>9 DEF SignalSleepers, Sleepers
<1>10. CASE FetchCall(0)
  BY <1>10 DEF FetchCall
<1>11. CASE Return(0)
  BY <1>11 DEF Return
<1>12. CASE Throw(0)
  BY <1>12 DEF Throw
<1>13. CASE Catch(0)
  BY <1>13 DEF Catch
<1>14. CASE LeaveRunMaster
  BY <1>14 DEF LeaveRunMaster
<1>15. CASE JoinRegion
  BY <1>15 DEF JoinRegion, ReturnToUser, NoJob
<1>16. CASE JoinShutdown
  <2>1. CASE saved = "none"
    <3>1. pc' = [pc EXCEPT ![0] = "reap"] /\ UNCHANGED <<team, job>>
      BY <1>16, <2>1 DEF JoinShutdown
    <3>2. QED
      BY <1>16, <3>1 DEF JoinShutdown
  <2>2. CASE saved # "none"
    BY SMTT(30), <1>16, <2>2 DEF JoinShutdown, ReturnToUser, NoJob
  <2>3. QED
    BY <2>1, <2>2
<1>17. CASE Reap
  BY <1>17 DEF Reap, NoJob
<1>18. QED
  BY <1>1, <1>2, <1>3, <1>4, <1>5, <1>6, <1>7, <1>8, <1>9, <1>10, <1>11, <1>12, <1>13,
     <1>14, <1>15, <1>16, <1>17 DEF MasterStep

LEMMA WorkerType ==
  ASSUME NEW i \in Workers, TypeInt, WorkerStep(i)
  PROVE  TypeInt'
<1> USE MaxThreadsAssumption
     DEF TypeInt, Threads, Workers, MasterLabels, WorkerLabels, Exceptions, Goto, Prev,
         Aged, poolVars, jobVars, idleVars, threadVars, history
<1>1. CASE FetchCall(i)
  BY <1>1 DEF FetchCall
<1>2. CASE Return(i)
  BY <1>2 DEF Return
<1>3. CASE Throw(i)
  BY <1>3 DEF Throw
<1>4. CASE Catch(i)
  BY <1>4 DEF Catch
<1>5. CASE FetchShutdown(i)
  BY <1>5 DEF FetchShutdown, OnBeforeThreadRemoved
<1>6. CASE ExitThread(i)
  BY <1>6 DEF ExitThread
<1>7. CASE TurnToIdle(i)
  BY <1>7 DEF TurnToIdle
<1>8. CASE FetchSleep(i)
  BY <1>8 DEF FetchSleep
<1>9. CASE AnnounceSleep(i)
  BY <1>9 DEF AnnounceSleep
<1>10. CASE WaitSemaphore(i)
  BY SMTT(30), <1>10 DEF WaitSemaphore
<1>11. CASE TakeJob(i)
  BY <1>11 DEF TakeJob
<1>12. QED
  BY <1>1, <1>2, <1>3, <1>4, <1>5, <1>6, <1>7, <1>8, <1>9, <1>10, <1>11 DEF WorkerStep
-----------------------------------------------------------------------------
(***************************************************************************)
(* What join() learns from a zero count.                                   *)
(***************************************************************************)
LEMMA WorkersFinite ==
  /\ IsFiniteSet(Workers)
  /\ \A S \in SUBSET Workers : IsFiniteSet(S) /\ Cardinality(S) \in Nat
<1>1. IsFiniteSet(Workers)
  BY MaxThreadsAssumption, FS_Interval DEF Workers
<1>2. ASSUME NEW S \in SUBSET Workers PROVE IsFiniteSet(S) /\ Cardinality(S) \in Nat
  BY <1>1, FS_Subset, FS_CardinalityType
<1>3. QED
  BY <1>1, <1>2

LEMMA CountsAreFinite ==
  /\ IsFiniteSet(Awake) /\ Cardinality(Awake) \in Nat
  /\ \A t : IsFiniteSet(SleepersOn(t)) /\ Cardinality(SleepersOn(t)) \in Nat
<1>1. Awake \in SUBSET Workers
  BY DEF Awake
<1>2. \A t : SleepersOn(t) \in SUBSET Workers
  BY DEF SleepersOn
<1>3. QED
  BY <1>1, <1>2, WorkersFinite

LEMMA StoppedMeansAsleep ==
  ASSUME TypeInt, RunningCount, running = 0
  PROVE  /\ leaked = 0
         /\ Awake = {}
         /\ \A j \in Workers :
              /\ pc[j] \notin {"fetch", "call", "catch", "drowsy", "awake"}
              /\ pc[j] = "asleep" => task[j] = curr \/ pc[0] = "count"
<1>1. IsFiniteSet(Awake) /\ Cardinality(Awake) \in Nat
  BY CountsAreFinite
<1>2. leaked = 0 /\ Cardinality(Awake) = 0
  BY <1>1 DEF TypeInt, RunningCount
<1>3. Awake = {}
  BY <1>1, <1>2, FS_EmptySet
<1>4. QED
  BY <1>2, <1>3 DEF Awake
-----------------------------------------------------------------------------
(***************************************************************************)
(* The master's place.                                                     *)
(***************************************************************************)
LEMMA ApiCallMaster == TypeInt /\ MasterInv /\ ApiCall => MasterInv'
<1> SUFFICES ASSUME TypeInt, MasterInv, ApiCall PROVE MasterInv'
  OBVIOUS
<1> USE MaxThreadsAssumption
     DEF TypeInt, MasterInv, Posted, Threads, Workers, MasterLabels, WorkerLabels, Goto,
         Prev, poolVars, jobVars, idleVars, threadVars, history, NoJob
<1>1. ASSUME NEW n \in 1 .. MaxThreads, ResizeLazily(n) PROVE MasterInv'
  BY <1>1 DEF ResizeLazily
<1>2. ASSUME NEW n \in 1 .. MaxThreads, ResizeUp(n) PROVE MasterInv'
  BY <1>2 DEF ResizeUp
<1>3. ASSUME NEW n \in 1 .. MaxThreads, ResizeDown(n) PROVE MasterInv'
  BY <1>3 DEF ResizeDown
<1>4. ASSUME NEW n \in 0 .. MaxThreads, ParallelRegion(n) PROVE MasterInv'
  BY <1>4 DEF ParallelRegion, RegionWidth
<1>5. CASE ForkChild
  BY <1>5 DEF ForkChild
<1>6. QED
  BY <1>1, <1>2, <1>3, <1>4, <1>5 DEF ApiCall

LEMMA MasterMaster == TypeInt /\ MasterInv /\ RunningCount /\ MasterStep => MasterInv'
<1> SUFFICES ASSUME TypeInt, MasterInv, RunningCount, MasterStep PROVE MasterInv'
  OBVIOUS
<1> USE MaxThreadsAssumption
     DEF TypeInt, MasterInv, Posted, Threads, Workers, MasterLabels, WorkerLabels, Goto,
         Prev, poolVars, jobVars, idleVars, threadVars, history, NoJob
<1>1. CASE SpawnMaster
  BY <1>1 DEF SpawnMaster
<1>2. CASE Spawn
  BY <1>2 DEF Spawn, OnBeforeThreadAdded
<1>3. CASE SpawnFails
  BY <1>3 DEF SpawnFails, OnBeforeThreadAdded
<1>4. CASE JoinSpawnedByResize
  <2>1. leaked = 0
    BY <1>4, StoppedMeansAsleep DEF JoinSpawnedByResize, AllStopped
  <2>2. QED
    BY <1>4, <2>1 DEF JoinSpawnedByResize, ReturnToUser
<1>5. CASE JoinSpawnedByRegion
  <2>1. leaked = 0
    BY <1>5, StoppedMeansAsleep DEF JoinSpawnedByRegion, AllStopped
  <2>2. CASE saved = "none"
    <3>1. pc' = [pc EXCEPT ![0] = "swap"] /\ UNCHANGED <<team, job, outcome>>
      BY <1>5, <2>2 DEF JoinSpawnedByRegion
    <3>2. QED
      BY <1>5, <2>1, <3>1 DEF JoinSpawnedByRegion
  <2>3. CASE saved # "none"
    BY SMTT(30), <1>5, <2>1, <2>3 DEF JoinSpawnedByRegion, ReturnToUser
  <2>4. QED
    BY <2>2, <2>3
<1>6. CASE SwapSleepTasks
  BY <1>6 DEF SwapSleepTasks
<1>7. CASE CountRunning
  BY <1>7 DEF CountRunning, Sleepers, ForgetException
<1>8. CASE PostJob
  BY <1>8 DEF PostJob
<1>9. CASE SignalSleepers
  BY <1>9 DEF SignalSleepers, Sleepers
<1>10. CASE FetchCall(0)
  BY <1>10 DEF FetchCall, InJob
<1>11. CASE Return(0)
  BY <1>11 DEF Return
<1>12. CASE Throw(0)
  BY <1>12 DEF Throw
<1>13. CASE Catch(0)
  BY <1>13 DEF Catch
<1>14. CASE LeaveRunMaster
  BY <1>14 DEF LeaveRunMaster, InJob
<1>15. CASE JoinRegion
  BY <1>15 DEF JoinRegion, ReturnToUser
<1>16. CASE JoinShutdown
  <2>1. CASE saved = "none"
    <3>1. pc' = [pc EXCEPT ![0] = "reap"] /\ UNCHANGED <<team, job>>
      BY <1>16, <2>1 DEF JoinShutdown
    <3>2. QED
      BY <1>16, <3>1 DEF JoinShutdown
  <2>2. CASE saved # "none"
    BY <1>16, <2>2 DEF JoinShutdown, ReturnToUser, NoJob
  <2>3. QED
    BY <2>1, <2>2
<1>17. CASE Reap
  BY <1>17 DEF Reap
<1>18. QED
  BY <1>1, <1>2, <1>3, <1>4, <1>5, <1>6, <1>7, <1>8, <1>9, <1>10, <1>11, <1>12, <1>13,
     <1>14, <1>15, <1>16, <1>17 DEF MasterStep

LEMMA WorkerMaster ==
  ASSUME NEW i \in Workers, TypeInt, MasterInv, WorkerInv, WorkerStep(i)
  PROVE  MasterInv'
<1> USE MaxThreadsAssumption
     DEF TypeInt, MasterInv, Posted, Threads, Workers, MasterLabels, WorkerLabels, Goto,
         Prev, poolVars, jobVars, idleVars, threadVars, history, NoJob
<1>1. CASE FetchCall(i)
  BY <1>1 DEF FetchCall, InJob
<1>2. CASE Return(i)
  BY <1>2 DEF Return
<1>3. CASE Throw(i)
  BY <1>3 DEF Throw
<1>4. CASE Catch(i)
  BY SMTT(30), <1>4, WorkerInv
     DEF Catch, WorkerInv, WorkerAt, Absent, Resting, Waiting, Waking, OnJob, Settling,
         Leaving
<1>5. CASE FetchShutdown(i)
  BY <1>5 DEF FetchShutdown, OnBeforeThreadRemoved, InJob, ShutdownHasTask
<1>6. CASE ExitThread(i)
  BY <1>6 DEF ExitThread
<1>7. CASE TurnToIdle(i)
  BY <1>7 DEF TurnToIdle, InJob, NoMoreTasks, ShutdownHasTask
<1>8. CASE FetchSleep(i)
  BY <1>8 DEF FetchSleep
<1>9. CASE AnnounceSleep(i)
  BY <1>9 DEF AnnounceSleep
<1>10. CASE WaitSemaphore(i)
  BY <1>10 DEF WaitSemaphore
<1>11. CASE TakeJob(i)
  BY <1>11 DEF TakeJob
<1>12. QED
  BY <1>1, <1>2, <1>3, <1>4, <1>5, <1>6, <1>7, <1>8, <1>9, <1>10, <1>11 DEF WorkerStep
-----------------------------------------------------------------------------
(***************************************************************************)
(* The workers' places.                                                    *)
(***************************************************************************)
LEMMA ApiCallWorkers == TypeInt /\ MasterInv /\ WorkerInv /\ ApiCall => WorkerInv'
<1> SUFFICES ASSUME TypeInt, MasterInv, WorkerInv, ApiCall PROVE WorkerInv'
  OBVIOUS
<1> USE MaxThreadsAssumption
     DEF TypeInt, MasterInv, WorkerInv, WorkerAt, Absent, Resting, Waiting, Waking, OnJob,
         Settling, Leaving, Discharged, Posted, Threads, Workers, MasterLabels,
         WorkerLabels, Goto, Prev, poolVars, jobVars, idleVars, threadVars, history, NoJob
<1>1. ASSUME NEW n \in 1 .. MaxThreads, ResizeLazily(n) PROVE WorkerInv'
  BY <1>1 DEF ResizeLazily
<1>2. ASSUME NEW n \in 1 .. MaxThreads, ResizeUp(n) PROVE WorkerInv'
  BY <1>2 DEF ResizeUp
<1>3. ASSUME NEW n \in 1 .. MaxThreads, ResizeDown(n) PROVE WorkerInv'
  BY <1>3 DEF ResizeDown
<1>4. ASSUME NEW n \in 0 .. MaxThreads, ParallelRegion(n) PROVE WorkerInv'
  BY <1>4 DEF ParallelRegion, RegionWidth
<1>5. CASE ForkChild
  BY <1>5 DEF ForkChild
<1>6. QED
  BY <1>1, <1>2, <1>3, <1>4, <1>5 DEF ApiCall

LEMMA JoinedWorkers ==
  ASSUME TypeInt, WorkerInv, RunningCount, running = 0, pc[0] \in {"spawn", "join"}
  PROVE  \A j \in Workers : j < nworkers => Resting(j) \/ (Discharged(j) /\ Leaving(j))
<1> SUFFICES ASSUME NEW j \in Workers, j < nworkers
             PROVE  Resting(j) \/ (Discharged(j) /\ Leaving(j))
  OBVIOUS
<1>1. /\ pc[j] \notin {"fetch", "call", "catch", "drowsy", "awake"}
      /\ pc[j] = "asleep" => task[j] = curr
  BY StoppedMeansAsleep
<1>2. curr # Prev
  BY DEF TypeInt, Prev
<1>3. WorkerAt(j)
  BY DEF WorkerInv
<1>4. QED
  BY <1>1, <1>2, <1>3
     DEF WorkerAt, Resting, Waiting, Waking, OnJob, Settling, Leaving, Discharged

LEMMA MasterWorkers == IInv /\ MasterStep => WorkerInv'
<1> SUFFICES ASSUME IInv, MasterStep PROVE WorkerInv'
  OBVIOUS
<1> TypeInt /\ MasterInv /\ WorkerInv /\ RunningCount /\ TokenCount
  BY DEF IInv
<1> USE MaxThreadsAssumption
     DEF TypeInt, MasterInv, WorkerInv, WorkerAt, Absent, Resting, Waiting, Waking, OnJob,
         Settling, Leaving, Discharged, Posted, Threads, Workers, MasterLabels,
         WorkerLabels, Goto, Prev, poolVars, jobVars, idleVars, threadVars, history, NoJob
<1>1. CASE SpawnMaster
  BY <1>1 DEF SpawnMaster
<1>2. CASE Spawn
  BY <1>2 DEF Spawn, OnBeforeThreadAdded
<1>3. CASE SpawnFails
  BY <1>3 DEF SpawnFails, OnBeforeThreadAdded
<1>4. CASE JoinSpawnedByResize
  <2>1. \A j \in Workers : j < nworkers =>
          Resting(j) \/ (Discharged(j) /\ Leaving(j))
    BY <1>4, JoinedWorkers DEF JoinSpawnedByResize, AllStopped
  <2>2. QED
    BY <1>4, <2>1 DEF JoinSpawnedByResize, ReturnToUser
<1>5. CASE JoinSpawnedByRegion
  <2>1. \A j \in Workers : j < nworkers =>
          Resting(j) \/ (Discharged(j) /\ Leaving(j))
    BY <1>5, JoinedWorkers DEF JoinSpawnedByRegion, AllStopped
  <2>2. QED
    BY SMTT(30), <1>5, <2>1 DEF JoinSpawnedByRegion, ReturnToUser
<1>6. CASE SwapSleepTasks
  BY <1>6 DEF SwapSleepTasks
<1>7. CASE CountRunning
  BY <1>7 DEF CountRunning, Sleepers, ForgetException
<1>8. CASE PostJob
  BY <1>8 DEF PostJob
<1>9. CASE SignalSleepers
  BY <1>9 DEF SignalSleepers, Sleepers
<1>10. CASE FetchCall(0)
  BY <1>10 DEF FetchCall, InJob
<1>11. CASE Return(0)
  BY <1>11 DEF Return
<1>12. CASE Throw(0)
  BY <1>12 DEF Throw
<1>13. CASE Catch(0)
  BY <1>13 DEF Catch
<1>14. CASE LeaveRunMaster
  BY <1>14 DEF LeaveRunMaster, InJob
<1>15. CASE JoinRegion
  <2>1. \A j \in Workers : j < nworkers =>
          Resting(j) \/ (Discharged(j) /\ Leaving(j))
    BY <1>15, JoinedWorkers DEF JoinRegion, AllStopped
  <2>2. QED
    BY <1>15, <2>1 DEF JoinRegion, ReturnToUser
<1>16. CASE JoinShutdown
  <2>1. \A j \in Workers : j < nworkers =>
          Resting(j) \/ (Discharged(j) /\ Leaving(j))
    BY <1>16, JoinedWorkers DEF JoinShutdown, AllStopped
  <2>2. QED
    BY SMTT(30), <1>16, <2>1 DEF JoinShutdown, ReturnToUser
<1>17. CASE Reap
  BY <1>17 DEF Reap
<1>18. QED
  BY <1>1, <1>2, <1>3, <1>4, <1>5, <1>6, <1>7, <1>8, <1>9, <1>10, <1>11, <1>12, <1>13,
     <1>14, <1>15, <1>16, <1>17 DEF MasterStep

\* A worker that a step leaves where it is, with the master where it is.
LEMMA OtherWorker ==
  ASSUME NEW j \in Workers, WorkerAt(j), UNCHANGED <<nworkers, job, curr>>,
         pc'[0] = pc[0], pc'[j] = pc[j], scheduler'[j] = scheduler[j], task'[j] = task[j]
  PROVE  WorkerAt(j)'
BY DEF WorkerAt, Absent, Resting, Waiting, Waking, OnJob, Settling, Leaving, Discharged, Prev

\* Some labels tell where their worker is.
LEMMA PlaceByLabel ==
  ASSUME NEW i \in Workers, WorkerAt(i), TypeInt
  PROVE  /\ pc[i] = "awake" =>
              i < nworkers /\ Waking(i) /\ pc[0] \in {"fetch", "call", "catch", "join"}
         /\ pc[i] \in {"call", "catch"} =>
              i < nworkers /\ OnJob(i) /\ pc[0] \in {"fetch", "call", "catch", "join"}
         /\ pc[i] = "shutdown" =>
              /\ i < nworkers /\ Discharged(i) /\ Leaving(i)
              /\ pc[0] \in {"fetch", "call", "catch", "join", "reap"}
BY DEF WorkerAt, Absent, Resting, Waiting, Waking, OnJob, Settling, Leaving, TypeInt,
       MasterLabels, Workers

LEMMA WorkerWorkers ==
  ASSUME NEW i \in Workers, TypeInt, MasterInv, WorkerInv, TokenCount, WorkerStep(i)
  PROVE  WorkerInv'
<1> USE MaxThreadsAssumption
     DEF TypeInt, MasterInv, WorkerInv, WorkerAt, Absent, Resting, Waiting, Waking, OnJob,
         Settling, Leaving, Discharged, Posted, Threads, Workers, MasterLabels,
         WorkerLabels, Goto, Prev, poolVars, jobVars, idleVars, threadVars, history, NoJob
<1>1. CASE FetchCall(i)
  <2>1. WorkerAt(i)'
    BY <1>1, PlaceByLabel DEF FetchCall, InJob
  <2>2. ASSUME NEW j \in Workers, j # i PROVE WorkerAt(j)'
    BY <1>1, <2>2, OtherWorker DEF FetchCall
  <2>3. QED
    BY <2>1, <2>2
<1>2. CASE Return(i)
  <2>1. WorkerAt(i)'
    BY <1>2, PlaceByLabel DEF Return
  <2>2. ASSUME NEW j \in Workers, j # i PROVE WorkerAt(j)'
    BY <1>2, <2>2, OtherWorker DEF Return
  <2>3. QED
    BY <2>1, <2>2
<1>3. CASE Throw(i)
  <2>1. WorkerAt(i)'
    BY <1>3, PlaceByLabel DEF Throw
  <2>2. ASSUME NEW j \in Workers, j # i PROVE WorkerAt(j)'
    BY <1>3, <2>2, OtherWorker DEF Throw
  <2>3. QED
    BY <2>1, <2>2
<1>4. CASE Catch(i)
  <2>1. WorkerAt(i)'
    BY <1>4, PlaceByLabel DEF Catch
  <2>2. ASSUME NEW j \in Workers, j # i PROVE WorkerAt(j)'
    BY <1>4, <2>2, OtherWorker DEF Catch
  <2>3. QED
    BY <2>1, <2>2
<1>5. CASE FetchShutdown(i)
  <2>1. WorkerAt(i)'
    BY <1>5, PlaceByLabel DEF FetchShutdown, InJob, ShutdownHasTask,
           OnBeforeThreadRemoved
  <2>2. ASSUME NEW j \in Workers, j # i PROVE WorkerAt(j)'
    BY SMTT(30), <1>5, <2>2, OtherWorker DEF FetchShutdown
  <2>3. QED
    BY <2>1, <2>2
<1>6. CASE ExitThread(i)
  <2>1. WorkerAt(i)'
    <3>1. /\ pc'[i] = "exited" /\ scheduler'[i] = "null" /\ pc'[0] = pc[0]
          /\ UNCHANGED <<nworkers, job>>
      BY <1>6 DEF ExitThread
    <3>2. i < nworkers /\ Discharged(i) /\ pc[0] \in {"fetch", "call", "catch", "join", "reap"}
      BY <1>6, PlaceByLabel DEF ExitThread
    <3>3. QED
      BY <3>1, <3>2
  <2>2. ASSUME NEW j \in Workers, j # i PROVE WorkerAt(j)'
    BY <1>6, <2>2, OtherWorker DEF ExitThread
  <2>3. QED
    BY <2>1, <2>2
<1>7. CASE TurnToIdle(i)
  <2>1. WorkerAt(i)'
    BY <1>7, PlaceByLabel DEF TurnToIdle, InJob, NoMoreTasks, ShutdownHasTask
  <2>2. ASSUME NEW j \in Workers, j # i PROVE WorkerAt(j)'
    BY <1>7, <2>2, OtherWorker DEF TurnToIdle
  <2>3. QED
    BY <2>1, <2>2
<1>8. CASE FetchSleep(i)
  <2>1. WorkerAt(i)'
    BY SMTT(30), <1>8, PlaceByLabel DEF FetchSleep
  <2>2. ASSUME NEW j \in Workers, j # i PROVE WorkerAt(j)'
    BY <1>8, <2>2, OtherWorker DEF FetchSleep
  <2>3. QED
    BY <2>1, <2>2
<1>9. CASE AnnounceSleep(i)
  <2>1. WorkerAt(i)'
    BY SMTT(30), <1>9, PlaceByLabel DEF AnnounceSleep
  <2>2. ASSUME NEW j \in Workers, j # i PROVE WorkerAt(j)'
    BY <1>9, <2>2, OtherWorker DEF AnnounceSleep
  <2>3. QED
    BY <2>1, <2>2
<1>10. CASE WaitSemaphore(i)
  <2>1. task[i] = Prev /\ pc[0] \in {"fetch", "call", "catch", "join"}
    BY SMTT(30), <1>10 DEF WaitSemaphore, TokenCount
  <2>2. WorkerAt(i)'
    BY SMTT(30), <1>10, <2>1 DEF WaitSemaphore
  <2>3. ASSUME NEW j \in Workers, j # i PROVE WorkerAt(j)'
    BY SMTT(30), <1>10, <2>3 DEF WaitSemaphore
  <2>4. QED
    BY <2>2, <2>3
<1>11. CASE TakeJob(i)
  <2>1. WorkerAt(i)'
    <3>1. i < nworkers /\ Waking(i) /\ pc[0] \in {"fetch", "call", "catch", "join"}
      BY <1>11, PlaceByLabel DEF TakeJob
    <3>2. next[task[i]] = "job"
      BY <3>1
    <3>3. /\ pc'[i] = "fetch" /\ scheduler'[i] = "job" /\ pc'[0] = pc[0]
          /\ UNCHANGED <<nworkers, job>>
      BY <1>11, <3>2 DEF TakeJob
    <3>4. QED
      BY <3>1, <3>3
  <2>2. ASSUME NEW j \in Workers, j # i PROVE WorkerAt(j)'
    BY SMTT(30), <1>11, <2>2, OtherWorker DEF TakeJob
  <2>3. QED
    BY <2>1, <2>2
<1>12. QED
  BY <1>1, <1>2, <1>3, <1>4, <1>5, <1>6, <1>7, <1>8, <1>9, <1>10, <1>11 DEF WorkerStep
-----------------------------------------------------------------------------
(***************************************************************************)
(* The two counts.                                                         *)
(***************************************************************************)
\* Steps that move no worker in or out of a sleep task touch neither count.
Busy == {"fetch", "call", "catch", "drowsy", "awake"}
Gone == {"none", "shutdown", "exited"}

LEMMA QuietStep ==
  ASSUME RunningCount, TokenCount, UNCHANGED <<curr, sem, running, leaked>>,
         pc'[0] = "count" <=> pc[0] = "count",
         pc'[0] \in {"count", "post", "signal"} <=> pc[0] \in {"count", "post", "signal"},
         \A j \in Workers :
           \/ pc'[j] = pc[j] /\ task'[j] = task[j]
           \/ pc[j] \in Busy /\ pc'[j] \in Busy
           \/ pc[j] \in Gone /\ pc'[j] \in Gone
  PROVE  RunningCount' /\ TokenCount'
<1>1. Awake' = Awake
  BY DEF Awake, Busy, Gone
<1>2. \A t \in 0 .. 1 : SleepersOn(t)' = SleepersOn(t)
  BY DEF SleepersOn, Busy, Gone
<1>3. RunningCount'
  BY <1>1 DEF RunningCount
<1>4. SleepersOn(Prev)' = SleepersOn(Prev)
  BY DEF SleepersOn, Busy, Gone, Prev
<1>5. TokenCount'
  BY <1>4 DEF TokenCount, Prev
<1>6. QED
  BY <1>3, <1>5

LEMMA ApiCallCounts == IInv /\ ApiCall => RunningCount' /\ TokenCount'
<1> SUFFICES ASSUME IInv, ApiCall PROVE RunningCount' /\ TokenCount'
  OBVIOUS
<1> TypeInt /\ RunningCount /\ TokenCount
  BY DEF IInv
<1> USE DEF TypeInt, Goto, Threads, Workers, poolVars, jobVars, idleVars, threadVars, history
<1>1. ASSUME NEW n \in 1 .. MaxThreads, ResizeLazily(n) PROVE RunningCount' /\ TokenCount'
  BY <1>1, QuietStep DEF ResizeLazily
<1>2. ASSUME NEW n \in 1 .. MaxThreads, ResizeUp(n) PROVE RunningCount' /\ TokenCount'
  BY <1>2, QuietStep DEF ResizeUp
<1>3. ASSUME NEW n \in 1 .. MaxThreads, ResizeDown(n) PROVE RunningCount' /\ TokenCount'
  BY <1>3, QuietStep DEF ResizeDown
<1>4. ASSUME NEW n \in 0 .. MaxThreads, ParallelRegion(n)
      PROVE  RunningCount' /\ TokenCount'
  BY <1>4, QuietStep DEF ParallelRegion
<1>5. CASE ForkChild
  <2>1. Awake' = {} /\ SleepersOn(Prev)' = {}
    BY <1>5 DEF ForkChild, Awake, SleepersOn
  <2>2. RunningCount'
    BY <1>5, <2>1, FS_EmptySet DEF ForkChild, RunningCount
  <2>3. pc'[0] = "user" /\ sem'[curr'] = 0 /\ sem'[Prev'] = 0
    BY <1>5, MaxThreadsAssumption DEF ForkChild, Prev
  <2>4. TokenCount'
    BY <2>1, <2>3, FS_EmptySet DEF TokenCount
  <2>5. QED
    BY <2>2, <2>4
<1>6. QED
  BY <1>1, <1>2, <1>3, <1>4, <1>5 DEF ApiCall

LEMMA MasterCounts == IInv /\ MasterStep => RunningCount' /\ TokenCount'
<1> SUFFICES ASSUME IInv, MasterStep PROVE RunningCount' /\ TokenCount'
  OBVIOUS
<1> TypeInt /\ MasterInv /\ WorkerInv /\ RunningCount /\ TokenCount
  BY DEF IInv
<1> USE MaxThreadsAssumption
     DEF TypeInt, Goto, Threads, Workers, poolVars, jobVars, idleVars, threadVars, history
<1>1. CASE SpawnMaster
  BY <1>1, QuietStep DEF SpawnMaster
<1>2. CASE Spawn
  <2>1. nworkers \in Workers /\ pc[nworkers] = "none"
    BY <1>2 DEF Spawn, WorkerInv, WorkerAt, Absent
  <2>2. Awake' = Awake \cup {nworkers} /\ nworkers \notin Awake
    BY <1>2, <2>1 DEF Spawn, Awake
  <2>3. Cardinality(Awake') = Cardinality(Awake) + 1
    BY <2>2, CountsAreFinite, FS_AddElement
  <2>4. RunningCount'
    BY <1>2, <2>3, CountsAreFinite
       DEF Spawn, OnBeforeThreadAdded, RunningCount
  <2>5. SleepersOn(Prev)' = SleepersOn(Prev)
    BY <1>2, <2>1 DEF Spawn, SleepersOn, Prev
  <2>6. TokenCount'
    BY <1>2, <2>5 DEF Spawn, TokenCount, Prev
  <2>7. QED
    BY <2>4, <2>6
<1>3. CASE SpawnFails
  <2>1. Awake' = Awake /\ SleepersOn(Prev)' = SleepersOn(Prev)
    BY <1>3 DEF SpawnFails, Awake, SleepersOn, Prev
  <2>2. RunningCount'
    BY <1>3, <2>1, CountsAreFinite
       DEF SpawnFails, OnBeforeThreadAdded, RunningCount
  <2>3. TokenCount'
    BY <1>3, <2>1 DEF SpawnFails, TokenCount, Prev
  <2>4. QED
    BY <2>2, <2>3
<1>4. CASE JoinSpawnedByResize
  BY <1>4, QuietStep DEF JoinSpawnedByResize, ReturnToUser
<1>5. CASE JoinSpawnedByRegion
  BY <1>5, QuietStep DEF JoinSpawnedByRegion, ReturnToUser
<1>6. CASE SwapSleepTasks
  <2>1. \A j \in Workers : pc[j] = "none" \/ (pc[j] = "asleep" /\ task[j] = curr)
    BY <1>6 DEF SwapSleepTasks, WorkerInv, WorkerAt, Absent, Resting
  <2>2. Awake = {} /\ SleepersOn(Prev) = {} /\ Awake' = {}
    BY SMTT(30), <1>6, <2>1 DEF SwapSleepTasks, Awake, SleepersOn, Prev
  <2>3. RunningCount'
    BY <1>6, <2>2 DEF SwapSleepTasks, RunningCount
  <2>4. sem[curr] = 0 /\ sem[Prev] = 0
    BY <1>6, <2>2, FS_EmptySet DEF SwapSleepTasks, TokenCount
  <2>5. TokenCount'
    BY <1>6, <2>4 DEF SwapSleepTasks, TokenCount, Prev
  <2>6. QED
    BY <2>3, <2>5
<1>7. CASE CountRunning
  <2>1. \A j \in Workers :
          IF j < nworkers THEN pc[j] = "asleep" /\ task[j] = Prev ELSE pc[j] = "none"
    BY <1>7 DEF CountRunning, WorkerInv, WorkerAt, Absent, Waiting
  <2>2. Awake = {} /\ Awake' = 1 .. Sleepers
    <3>1. Awake = {}
      BY <1>7, <2>1 DEF CountRunning, Awake
    <3>2. Awake' = {j \in Workers : j < nworkers}
      BY <1>7, <2>1 DEF CountRunning, Awake, Prev
    <3>3. QED
      BY <3>1, <3>2 DEF Sleepers
  <2>3. Cardinality(Awake) = 0 /\ Cardinality(Awake') = Sleepers
    BY <1>7, <2>2, FS_EmptySet, FS_Interval DEF CountRunning, Sleepers, MasterInv
  <2>4. RunningCount'
    BY <1>7, <2>3 DEF CountRunning, RunningCount, Sleepers
  <2>5. TokenCount'
    BY <1>7 DEF CountRunning, TokenCount, Prev
  <2>6. QED
    BY <2>4, <2>5
<1>8. CASE PostJob
  BY <1>8, QuietStep DEF PostJob
<1>9. CASE SignalSleepers
  <2>1. \A j \in Workers :
          IF j < nworkers THEN pc[j] = "asleep" /\ task[j] = Prev ELSE pc[j] = "none"
    BY <1>9 DEF SignalSleepers, WorkerInv, WorkerAt, Absent, Waiting
  <2>2. Awake' = Awake /\ SleepersOn(Prev)' = 1 .. Sleepers
    BY SMTT(30), <1>9, <2>1 DEF SignalSleepers, Awake, SleepersOn, Prev, Sleepers
  <2>3. RunningCount'
    BY <1>9, <2>2 DEF SignalSleepers, RunningCount
  <2>4. Cardinality(SleepersOn(Prev)') = Sleepers
    BY <1>9, <2>2, FS_Interval DEF SignalSleepers, Sleepers, MasterInv
  <2>5. TokenCount'
    BY <1>9, <2>4 DEF SignalSleepers, TokenCount, Prev, Sleepers
  <2>6. QED
    BY <2>3, <2>5
<1>10. CASE FetchCall(0)
  BY <1>10, QuietStep DEF FetchCall, InJob
<1>11. CASE Return(0)
  BY <1>11, QuietStep DEF Return
<1>12. CASE Throw(0)
  BY <1>12, QuietStep DEF Throw
<1>13. CASE Catch(0)
  BY <1>13, QuietStep DEF Catch
<1>14. CASE LeaveRunMaster
  BY <1>14, QuietStep DEF LeaveRunMaster, InJob
<1>15. CASE JoinRegion
  BY <1>15, QuietStep DEF JoinRegion, ReturnToUser
<1>16. CASE JoinShutdown
  BY <1>16, QuietStep DEF JoinShutdown, ReturnToUser
<1>17. CASE Reap
  BY <1>17, QuietStep DEF Reap, Gone
<1>18. QED
  BY <1>1, <1>2, <1>3, <1>4, <1>5, <1>6, <1>7, <1>8, <1>9, <1>10, <1>11, <1>12, <1>13,
     <1>14, <1>15, <1>16, <1>17 DEF MasterStep

LEMMA WorkerCounts ==
  ASSUME NEW i \in Workers, IInv, WorkerStep(i)
  PROVE  RunningCount' /\ TokenCount'
<1> TypeInt /\ MasterInv /\ WorkerInv /\ RunningCount /\ TokenCount
  BY DEF IInv
<1> USE DEF TypeInt, Goto, Threads, Workers, poolVars, jobVars, idleVars, threadVars, history
<1>1. CASE FetchCall(i)
  BY <1>1, QuietStep DEF FetchCall, InJob, Busy
<1>2. CASE Return(i)
  BY <1>2, QuietStep DEF Return, Busy
<1>3. CASE Throw(i)
  BY <1>3, QuietStep DEF Throw, Busy
<1>4. CASE Catch(i)
  BY <1>4, QuietStep DEF Catch, Busy
<1>5. CASE FetchShutdown(i)
  <2>1. Awake' = Awake \ {i} /\ i \in Awake
    BY <1>5 DEF FetchShutdown, InJob, Awake
  <2>2. Cardinality(Awake') = Cardinality(Awake) - 1
    BY <2>1, CountsAreFinite, FS_RemoveElement
  <2>3. RunningCount'
    BY <1>5, <2>2, CountsAreFinite
       DEF FetchShutdown, OnBeforeThreadRemoved, RunningCount
  <2>4. SleepersOn(Prev)' = SleepersOn(Prev)
    BY <1>5 DEF FetchShutdown, InJob, SleepersOn, Prev
  <2>5. TokenCount'
    BY <1>5, <2>4 DEF FetchShutdown, TokenCount, Prev
  <2>6. QED
    BY <2>3, <2>5
<1>6. CASE ExitThread(i)
  BY <1>6, QuietStep DEF ExitThread, Gone
<1>7. CASE TurnToIdle(i)
  BY <1>7, QuietStep DEF TurnToIdle
<1>8. CASE FetchSleep(i)
  BY <1>8, QuietStep DEF FetchSleep, Busy
<1>9. CASE AnnounceSleep(i)
  <2>1. task[i] = curr
    BY <1>9 DEF AnnounceSleep, WorkerInv, WorkerAt, Absent, Resting, Waiting, Waking, OnJob,
             Settling, Leaving, MasterLabels
  <2>2. Awake' = Awake \ {i} /\ i \in Awake
    BY <1>9, <2>1 DEF AnnounceSleep, Awake
  <2>3. Cardinality(Awake') = Cardinality(Awake) - 1
    BY <2>2, CountsAreFinite, FS_RemoveElement
  <2>4. RunningCount'
    BY <1>9, <2>3, CountsAreFinite DEF AnnounceSleep, RunningCount
  <2>5. SleepersOn(Prev)' = SleepersOn(Prev)
    BY <1>9, <2>1 DEF AnnounceSleep, SleepersOn, Prev
  <2>6. TokenCount'
    BY <1>9, <2>5 DEF AnnounceSleep, TokenCount, Prev
  <2>7. QED
    BY <2>4, <2>6
<1>10. CASE WaitSemaphore(i)
  <2>1. task[i] = Prev /\ task[i] # curr /\ pc[0] \notin {"count", "post", "signal"}
    BY <1>10 DEF WaitSemaphore, TokenCount, Prev
  <2>2. Awake' = Awake
    BY <1>10, <2>1 DEF WaitSemaphore, Awake
  <2>3. RunningCount'
    BY <1>10, <2>2 DEF WaitSemaphore, RunningCount
  <2>4. SleepersOn(Prev)' = SleepersOn(Prev) \ {i} /\ i \in SleepersOn(Prev)
    BY <1>10, <2>1 DEF WaitSemaphore, SleepersOn, Prev
  <2>5. Cardinality(SleepersOn(Prev)') = Cardinality(SleepersOn(Prev)) - 1
    BY <2>4, CountsAreFinite, FS_RemoveElement
  <2>6. TokenCount'
    BY <1>10, <2>1, <2>5, CountsAreFinite DEF WaitSemaphore, TokenCount, Prev
  <2>7. QED
    BY <2>3, <2>6
<1>11. CASE TakeJob(i)
  <2>1. next[task[i]] = "job"
    BY <1>11, PlaceByLabel DEF TakeJob, WorkerInv, MasterInv, Waking, Posted
  <2>2. QED
    BY <1>11, <2>1, QuietStep DEF TakeJob, Busy
<1>12. QED
  BY <1>1, <1>2, <1>3, <1>4, <1>5, <1>6, <1>7, <1>8, <1>9, <1>10, <1>11 DEF WorkerStep
-----------------------------------------------------------------------------
(***************************************************************************)
(* The invariant is inductive.                                             *)
(***************************************************************************)
LEMMA InitInv == Init => IInv
<1> SUFFICES ASSUME Init PROVE IInv
  OBVIOUS
<1>1. TypeInt
  BY TypeInit
<1>2. MasterInv
  BY MaxThreadsAssumption
     DEF Init, MasterInv, Posted, Prev, Threads, Workers, NoJob
<1>3. WorkerInv
  BY MaxThreadsAssumption
     DEF Init, WorkerInv, WorkerAt, Absent, Threads, Workers
<1>4. Awake = {} /\ SleepersOn(Prev) = {}
  BY DEF Init, Awake, SleepersOn, Threads, Workers
<1>5. RunningCount
  BY <1>4, FS_EmptySet DEF Init, RunningCount
<1>6. sem[curr] = 0 /\ sem[Prev] = 0
  BY DEF Init, Prev
<1>7. TokenCount
  BY <1>1, <1>4, <1>6, FS_EmptySet DEF TokenCount
<1>8. QED
  BY <1>1, <1>2, <1>3, <1>5, <1>7 DEF IInv

LEMMA NextInv == IInv /\ [Next]_vars => IInv'
<1> SUFFICES ASSUME IInv, [Next]_vars PROVE IInv'
  OBVIOUS
<1> TypeInt /\ MasterInv /\ WorkerInv /\ TokenCount
  BY DEF IInv
<1>1. CASE ApiCall
  BY <1>1, ApiCallType, ApiCallMaster, ApiCallWorkers, ApiCallCounts DEF IInv
<1>2. CASE MasterStep
  BY <1>2, MasterType, MasterMaster, MasterWorkers, MasterCounts DEF IInv
<1>3. ASSUME NEW i \in Workers, WorkerStep(i) PROVE IInv'
  BY <1>3, WorkerType, WorkerMaster, WorkerWorkers, WorkerCounts DEF IInv
<1>4. CASE UNCHANGED vars
  BY <1>4
     DEF IInv, vars, poolVars, jobVars, idleVars, threadVars, history, TypeInt, MasterInv,
         Posted, WorkerInv, WorkerAt, Absent, Resting, Waiting, Waking, OnJob, Settling,
         Leaving, Discharged, Prev, RunningCount, Awake, TokenCount, SleepersOn
<1>5. QED
  BY <1>1, <1>2, <1>3, <1>4 DEF Next

THEOREM Invariance == Spec => []IInv
BY InitInv, NextInv, PTL DEF Spec
-----------------------------------------------------------------------------
(***************************************************************************)
(* What follows from it.                                                   *)
(***************************************************************************)
\* Every variable keeps its type; n_threads_running and the semaphores never become
\* negative, although every thread decrements them on its own.
THEOREM TypeCorrectness == Spec => []TypeOK
<1>1. IInv => TypeOK
  <2> SUFFICES ASSUME IInv PROVE TypeOK
    OBVIOUS
  <2>1. TypeInt
    BY DEF IInv
  <2>2. running \in Nat
    BY <2>1, CountsAreFinite DEF IInv, RunningCount, TypeInt
  <2>3. sem[curr] \in Nat /\ sem[Prev] \in Nat
    BY CountsAreFinite DEF IInv, TokenCount
  <2>4. sem \in [0 .. 1 -> Nat]
    BY <2>1, <2>3 DEF TypeInt, Prev
  <2>5. QED
    BY <2>1, <2>2, <2>4 DEF TypeInt, TypeOK
<1>2. QED
  BY <1>1, Invariance, PTL

\* n_threads_running is the number of awake workers, in every interleaving.
THEOREM CountIsExact == Spec => []RunningCount
<1>1. IInv => RunningCount
  BY DEF IInv
<1>2. QED
  BY <1>1, Invariance, PTL

\* No wake-up is lost and none is left over.
THEOREM TokensAreExact == Spec => []TokenCount
<1>1. IInv => TokenCount
  BY DEF IInv
<1>2. QED
  BY <1>1, Invariance, PTL

\* awaken_and_run() finds all workers asleep, and every API call leaves them so.
THEOREM RestBetweenCalls == Spec => []AtRest
<1>1. IInv => AtRest
  <2> SUFFICES ASSUME IInv, pc[0] \in {"user", "swap"} PROVE AtRest
    BY DEF AtRest
  <2> TypeInt /\ MasterInv /\ WorkerInv /\ RunningCount
    BY DEF IInv
  <2>1. nworkers \in {0, requested} \/ job.kind = "shutdown"
    BY DEF MasterInv
  <2>2. \A i \in Workers :
          IF i < nworkers
            THEN pc[i] = "asleep" /\ scheduler[i] = "idle" /\ task[i] = curr
            ELSE pc[i] = "none"
    BY DEF WorkerInv, WorkerAt, Absent, Resting, TypeInt, Workers
  <2>3. \A t \in 0 .. 1 : next[t] = "null"
    BY DEF MasterInv, Posted, Prev, TypeInt
  <2>4. Awake = {}
    BY <2>2 DEF Awake, TypeInt
  <2>5. running = 0
    BY <2>4, FS_EmptySet DEF RunningCount, MasterInv
  <2>6. QED
    BY <2>1, <2>2, <2>3, <2>5 DEF AtRest
<1>2. QED
  BY <1>1, Invariance, PTL

\* sleep_task::execute() finds a job when its semaphore lets it through.
THEOREM WakeUpsHaveJobs == Spec => []WakesToJob
<1>1. IInv => WakesToJob
  <2> SUFFICES ASSUME IInv, NEW i \in Workers, pc[i] = "awake" PROVE next[task[i]] = "job"
    BY DEF WakesToJob
  <2>1. Waking(i) /\ pc[0] \in {"fetch", "call", "catch", "join"}
    BY PlaceByLabel DEF IInv, WorkerInv
  <2>2. QED
    BY <2>1 DEF IInv, MasterInv, Waking, Posted
<1>2. QED
  BY <1>1, Invariance, PTL

\* No worker and no sleep task keeps a pointer to a job whose frame is gone.
THEOREM NoDanglingJob == Spec => []JobOutlivesWorkers
<1>1. IInv => JobOutlivesWorkers
  <2> SUFFICES ASSUME IInv PROVE JobOutlivesWorkers
    OBVIOUS
  <2> TypeInt /\ MasterInv /\ WorkerInv
    BY DEF IInv
  <2>1. ASSUME NEW i \in Workers, scheduler[i] = "job"
        PROVE  pc[0] \in {"fetch", "call", "catch", "join", "reap"}
    BY <2>1 DEF WorkerInv, WorkerAt, Absent, Resting, Waiting, Waking, OnJob, Settling,
                Leaving, TypeInt, MasterLabels, Workers
  <2>2. ASSUME NEW t \in 0 .. 1, next[t] = "job" PROVE Posted
    BY <2>2 DEF MasterInv, Prev, TypeInt
  <2>3. pc[0] \notin {"user", "spawn"} => job # NoJob
    BY DEF MasterInv, NoJob
  <2>4. QED
    BY <2>1, <2>2, <2>3 DEF JobOutlivesWorkers, Posted
<1>2. QED
  BY <1>1, Invariance, PTL
-----------------------------------------------------------------------------
(***************************************************************************)
(* ThreadPool3 implements ForkJoin, for every MaxThreads.                  *)
(*                                                                         *)
(* The invariant above says where the threads are; RegionInv says what a   *)
(* region has done by then: who has called `f`, whose call threw, and      *)
(* whose exception is kept.                                                *)
(***************************************************************************)
\* Before the first thread of the region can have fetched a task.
NotYet == pc[0] \in {"spawn", "swap", "count", "post", "signal"}

CallsInv ==
  /\ \A i \in Threads : calls[i] = IF done[i] THEN 1 ELSE 0
  /\ \A i \in Threads : done[i] => i < job.n
  /\ NotYet => \A i \in Threads : ~done[i]
  /\ \A i \in Threads : pc[i] \in {"call", "catch"} => done[i]
  /\ pc[0] = "join" => done[0]
  /\ \A i \in Workers :
       i < job.n /\ pc[0] \in {"fetch", "call", "catch", "join"}
                 /\ (Settling(i) \/ Resting(i)) => done[i]

FailedInv ==
  /\ \A i \in failed : done[i] /\ pc[i] # "call"
  /\ \A i \in Threads : pc[i] = "catch" => i \in failed
  /\ pc[0] = "spawn" => saved = "none"
  /\ pc[0] \notin {"spawn", "swap", "count"} =>
       saved = IF \E i \in failed : pc[i] # "catch" THEN "current" ELSE "none"

RegionInv ==
  /\ nworkers = 0 => saved = "none"
  /\ job.kind # "once" => \A i \in Threads : pc[i] \notin {"call", "catch"}
  /\ job.kind = "once" =>
       /\ 0 < job.n
       /\ leaked = 0 => job.n <= requested
       /\ CallsInv
       /\ FailedInv
-----------------------------------------------------------------------------
(***************************************************************************)
(* RegionInv is an invariant.                                              *)
(***************************************************************************)
LEMMA RegionInit == Init => RegionInv
BY DEF Init, RegionInv, NoJob, Threads

LEMMA ApiCallRegion == IInv /\ RegionInv /\ ApiCall => RegionInv'
<1> SUFFICES ASSUME IInv, RegionInv, ApiCall PROVE RegionInv'
  OBVIOUS
<1> /\ pc \in [Threads -> MasterLabels \cup WorkerLabels]
    /\ done \in [Threads -> BOOLEAN] /\ calls \in [Threads -> Nat]
    /\ scheduler \in [Threads -> {"null", "idle", "job"}]
    /\ task \in [Workers -> 0 .. 1] /\ curr \in 0 .. 1
    /\ job \in [kind : {"none", "once", "shutdown"}, n : 0 .. MaxThreads]
    /\ nworkers \in 0 .. MaxThreads /\ requested \in 1 .. MaxThreads
    /\ saved \in Exceptions /\ failed \subseteq Threads /\ leaked \in Nat
  BY DEF IInv, TypeInt
<1> 0 \in Threads /\ 0 \notin Workers /\ \A j \in Workers : j \in Threads /\ j # 0
  BY MaxThreadsAssumption DEF Threads, Workers
<1> pc[0] = "user" => job = NoJob
  BY DEF IInv, MasterInv
<1> USE DEF Goto, RegionInv, CallsInv, FailedInv, NotYet, Settling, Resting, Exceptions,
         poolVars, jobVars, idleVars, threadVars, history
<1>1. ASSUME NEW n \in 1 .. MaxThreads, ResizeLazily(n) PROVE RegionInv'
  BY <1>1 DEF ResizeLazily, Aged, NoJob
<1>2. ASSUME NEW n \in 1 .. MaxThreads, ResizeUp(n) PROVE RegionInv'
  BY <1>2 DEF ResizeUp, NoJob
<1>3. ASSUME NEW n \in 1 .. MaxThreads, ResizeDown(n) PROVE RegionInv'
  BY <1>3 DEF ResizeDown, NoJob
<1>4. ASSUME NEW n \in 0 .. MaxThreads, ParallelRegion(n) PROVE RegionInv'
  BY <1>4 DEF ParallelRegion, RegionWidth, Aged, NoJob
<1>5. CASE ForkChild
  BY <1>5 DEF ForkChild, NoJob
<1>6. QED
  BY <1>1, <1>2, <1>3, <1>4, <1>5 DEF ApiCall

LEMMA MasterRegion == IInv /\ RegionInv /\ MasterStep => RegionInv'
<1> SUFFICES ASSUME IInv, RegionInv, MasterStep PROVE RegionInv'
  OBVIOUS
<1> /\ pc \in [Threads -> MasterLabels \cup WorkerLabels]
    /\ done \in [Threads -> BOOLEAN] /\ calls \in [Threads -> Nat]
    /\ scheduler \in [Threads -> {"null", "idle", "job"}]
    /\ task \in [Workers -> 0 .. 1] /\ curr \in 0 .. 1
    /\ job \in [kind : {"none", "once", "shutdown"}, n : 0 .. MaxThreads]
    /\ nworkers \in 0 .. MaxThreads /\ requested \in 1 .. MaxThreads
    /\ saved \in Exceptions /\ failed \subseteq Threads /\ leaked \in Nat
  BY DEF IInv, TypeInt
<1> 0 \in Threads /\ 0 \notin Workers /\ \A j \in Workers : j \in Threads /\ j # 0
  BY MaxThreadsAssumption DEF Threads, Workers
<1> USE DEF Goto, RegionInv, CallsInv, FailedInv, NotYet, Settling, Resting, Exceptions,
         poolVars, jobVars, idleVars, threadVars, history
<1>1. CASE SpawnMaster
  BY <1>1 DEF SpawnMaster
<1>2. CASE Spawn
  BY <1>2 DEF Spawn, OnBeforeThreadAdded
<1>3. CASE SpawnFails
  BY <1>3 DEF SpawnFails, OnBeforeThreadAdded
<1>4. CASE JoinSpawnedByResize
  BY <1>4 DEF JoinSpawnedByResize, ReturnToUser, NoJob
<1>5. CASE JoinSpawnedByRegion
  <2>1. job.kind = "once"
    BY <1>5 DEF JoinSpawnedByRegion, IInv, MasterInv
  <2>2. saved = "none"
    BY <1>5, <2>1 DEF JoinSpawnedByRegion
  <2>3. pc' = [pc EXCEPT ![0] = "swap"] /\ UNCHANGED <<team, job, outcome>>
    BY <1>5, <2>2 DEF JoinSpawnedByRegion
  <2>4. QED
    BY <1>5, <2>1, <2>2, <2>3 DEF JoinSpawnedByRegion
<1>6. CASE SwapSleepTasks
  BY <1>6 DEF SwapSleepTasks
<1>7. CASE CountRunning
  BY <1>7 DEF CountRunning, ForgetException
<1>8. CASE PostJob
  BY <1>8 DEF PostJob
<1>9. CASE SignalSleepers
  <2>1. ASSUME NEW j \in Workers PROVE ~Resting(j) /\ ~Settling(j)
    <3>1. Absent(j) \/ Waiting(j)
      <4>1. pc[0] = "signal" /\ WorkerAt(j)
        BY <1>9 DEF SignalSleepers, IInv, WorkerInv
      <4>2. j \in Int
        BY DEF Workers
      <4>3. QED
        BY <4>1, <4>2 DEF WorkerAt
    <3>2. curr # Prev
      BY DEF Prev
    <3>3. QED
      BY <3>1, <3>2 DEF Absent, Waiting
  <2>2. /\ pc[0] = "signal" /\ pc' = [pc EXCEPT ![0] = "fetch"]
        /\ UNCHANGED <<job, done, calls, failed, saved, scheduler, task, curr, requested,
                       leaked, nworkers>>
    BY <1>9 DEF SignalSleepers
  <2>3. job.kind = "once" => CallsInv'
    BY <2>1, <2>2
  <2>4. job.kind = "once" => FailedInv'
    BY <2>2
  <2>5. QED
    BY <2>2, <2>3, <2>4
<1>10. CASE FetchCall(0)
  BY <1>10 DEF FetchCall, InJob, OnceHasTask
<1>11. CASE Return(0)
  BY <1>11 DEF Return
<1>12. CASE Throw(0)
  BY <1>12 DEF Throw
<1>13. CASE Catch(0)
  <2>1. /\ pc[0] = "catch" /\ pc' = [pc EXCEPT ![0] = "fetch"]
        /\ saved' = IF saved = "none" THEN "current" ELSE saved
        /\ UNCHANGED <<job, done, calls, failed, scheduler, task, curr, requested, leaked,
                       nworkers>>
    BY <1>13 DEF Catch
  <2>2. job.kind = "once"
    BY <2>1
  <2>3. CallsInv'
    BY <2>1, <2>2
  <2>4. FailedInv'
    <3>1. 0 \in failed /\ pc'[0] # "catch"
      BY <2>1, <2>2
    <3>2. pc[0] \notin {"spawn", "swap", "count"} /\ pc'[0] \notin {"spawn", "swap", "count"}
      BY <2>1, <2>2
    <3>3. saved' = "current"
      BY <2>1, <2>2, <3>2
    <3>4. QED
      BY <2>1, <2>2, <3>1, <3>2, <3>3
  <2>5. nworkers # 0
    BY <2>1 DEF IInv, MasterInv
  <2>6. QED
    BY <2>1, <2>2, <2>3, <2>4, <2>5
<1>14. CASE LeaveRunMaster
  BY <1>14 DEF LeaveRunMaster, InJob, NoMoreTasks, OnceHasTask
<1>15. CASE JoinRegion
  <2>1. \A j \in Workers : pc[j] \notin {"call", "catch"}
    BY <1>15, StoppedMeansAsleep DEF JoinRegion, AllStopped, IInv
  <2>2. nworkers # 0
    BY <1>15 DEF JoinRegion, IInv, MasterInv
  <2>3. QED
    BY <1>15, <2>1, <2>2 DEF JoinRegion, ReturnToUser, NoJob, Threads, Workers
<1>16. CASE JoinShutdown
  <2>1. nworkers # 0 /\ saved = "none"
    BY <1>16 DEF JoinShutdown, IInv, MasterInv
  <2>2. pc' = [pc EXCEPT ![0] = "reap"] /\ UNCHANGED <<team, job>>
    BY <1>16, <2>1 DEF JoinShutdown
  <2>3. QED
    BY <1>16, <2>1, <2>2 DEF JoinShutdown
<1>17. CASE Reap
  <2>1. nworkers # 0 /\ saved = "none" /\ \A j \in Threads : pc[j] \notin {"call", "catch"}
    BY <1>17 DEF Reap, IInv, MasterInv
  <2>2. /\ job' = NoJob /\ saved' = saved
        /\ \A j \in Threads : pc'[j] \in {"user", "none", pc[j]}
    BY <1>17 DEF Reap
  <2>3. QED
    BY <2>1, <2>2 DEF NoJob
<1>18. QED
  BY <1>1, <1>2, <1>3, <1>4, <1>5, <1>6, <1>7, <1>8, <1>9, <1>10, <1>11, <1>12, <1>13,
     <1>14, <1>15, <1>16, <1>17 DEF MasterStep

LEMMA WorkerRegion ==
  ASSUME NEW i \in Workers, IInv, RegionInv, WorkerStep(i)
  PROVE  RegionInv'
<1> /\ pc \in [Threads -> MasterLabels \cup WorkerLabels]
    /\ done \in [Threads -> BOOLEAN] /\ calls \in [Threads -> Nat]
    /\ scheduler \in [Threads -> {"null", "idle", "job"}]
    /\ task \in [Workers -> 0 .. 1] /\ curr \in 0 .. 1
    /\ job \in [kind : {"none", "once", "shutdown"}, n : 0 .. MaxThreads]
    /\ nworkers \in 0 .. MaxThreads /\ requested \in 1 .. MaxThreads
    /\ saved \in Exceptions /\ failed \subseteq Threads /\ leaked \in Nat
  BY DEF IInv, TypeInt
<1> 0 \in Threads /\ 0 \notin Workers /\ \A j \in Workers : j \in Threads /\ j # 0
  BY MaxThreadsAssumption DEF Threads, Workers
<1> USE DEF Goto, RegionInv, CallsInv, FailedInv, NotYet, Settling, Resting, Exceptions,
         poolVars, jobVars, idleVars, threadVars, history
<1>0. \/ pc[i] \in {"call", "catch", "awake"}
      \/ pc[i] = "fetch" /\ scheduler[i] = "job"
      => nworkers # 0 /\ pc[0] \in {"fetch", "call", "catch", "join"}
  <2>1. WorkerAt(i) /\ i \in Nat \ {0} /\ pc[0] \in MasterLabels
    BY DEF IInv, TypeInt, WorkerInv, Workers
  <2>2. QED
    BY <2>1 DEF WorkerAt, Absent, Waiting, Waking, OnJob, Leaving, MasterLabels
<1>1. CASE FetchCall(i)
  <2>1. /\ job.kind = "once" /\ i < job.n /\ ~done[i] /\ pc[i] = "fetch"
        /\ scheduler[i] = "job"
        /\ done' = [done EXCEPT ![i] = TRUE] /\ calls' = [calls EXCEPT ![i] = @ + 1]
        /\ pc' = [pc EXCEPT ![i] = "call"]
        /\ UNCHANGED <<job, saved, failed, scheduler, task, curr, requested, leaked, nworkers>>
    BY <1>1 DEF FetchCall, InJob, OnceHasTask
  <2>2. pc[0] \in {"fetch", "call", "catch", "join"} /\ pc'[0] = pc[0]
    BY <1>0, <1>1, <2>1 DEF FetchCall
  <2>3. CallsInv'
    BY <2>1, <2>2
  <2>4. FailedInv'
    BY <2>1, <2>2
  <2>5. QED
    BY <2>1, <2>3, <2>4
<1>2. CASE Return(i)
  BY <1>2 DEF Return
<1>3. CASE Throw(i)
  BY <1>3 DEF Throw
<1>4. CASE Catch(i)
  <2>1. /\ pc[i] = "catch" /\ pc' = [pc EXCEPT ![i] = "fetch"]
        /\ saved' = IF saved = "none" THEN "current" ELSE saved
        /\ UNCHANGED <<job, done, calls, failed, scheduler, task, curr, requested, leaked,
                       nworkers>>
    BY <1>4 DEF Catch
  <2>2. job.kind = "once"
    BY <2>1
  <2>3. CallsInv'
    BY <2>1, <2>2, <1>0
  <2>4. FailedInv'
    <3>1. i \in failed /\ pc'[i] # "catch"
      BY <2>1, <2>2
    <3>2. pc[0] \notin {"spawn", "swap", "count"} /\ pc'[0] \notin {"spawn", "swap", "count"}
      BY <2>1, <2>2, <1>0
    <3>3. saved' = "current"
      BY <2>1, <2>2, <3>2
    <3>4. QED
      BY <2>1, <2>2, <3>1, <3>2, <3>3
  <2>5. nworkers # 0
    BY <2>1, <1>0
  <2>6. QED
    BY <2>1, <2>2, <2>3, <2>4, <2>5
<1>5. CASE FetchShutdown(i)
  BY <1>5 DEF FetchShutdown, InJob, OnBeforeThreadRemoved
<1>6. CASE ExitThread(i)
  BY <1>6 DEF ExitThread
<1>7. CASE TurnToIdle(i)
  BY <1>7 DEF TurnToIdle, InJob, NoMoreTasks, OnceHasTask
<1>8. CASE FetchSleep(i)
  BY <1>8 DEF FetchSleep
<1>9. CASE AnnounceSleep(i)
  BY <1>9 DEF AnnounceSleep
<1>10. CASE WaitSemaphore(i)
  BY <1>10 DEF WaitSemaphore
<1>11. CASE TakeJob(i)
  <2>1. next[task[i]] = "job"
    BY <1>11, PlaceByLabel DEF TakeJob, IInv, WorkerInv, MasterInv, Waking, Posted
  <2>2. /\ pc[i] = "awake" /\ pc' = [pc EXCEPT ![i] = "fetch"]
        /\ scheduler' = [scheduler EXCEPT ![i] = "job"]
        /\ UNCHANGED <<job, done, calls, failed, saved, task, curr, requested, leaked, nworkers>>
    BY <1>11, <2>1 DEF TakeJob
  <2>3. job.kind = "once" => CallsInv'
    BY <2>2
  <2>4. job.kind = "once" => FailedInv'
    BY <2>2
  <2>5. QED
    BY <2>2, <2>3, <2>4
<1>12. QED
  BY <1>1, <1>2, <1>3, <1>4, <1>5, <1>6, <1>7, <1>8, <1>9, <1>10, <1>11 DEF WorkerStep

LEMMA NextRegion == IInv /\ RegionInv /\ [Next]_vars => RegionInv'
<1> SUFFICES ASSUME IInv, RegionInv, [Next]_vars PROVE RegionInv'
  OBVIOUS
<1>1. CASE UNCHANGED vars
  BY <1>1 DEF vars, poolVars, jobVars, idleVars, threadVars, history, RegionInv, CallsInv,
              FailedInv, NotYet, Settling, Resting
<1>2. CASE Next
  BY <1>2, ApiCallRegion, MasterRegion, WorkerRegion DEF Next
<1>3. QED
  BY <1>1, <1>2

\* What a region has done so far, at every moment of every behaviour.
THEOREM RegionInvariance == Spec => [](IInv /\ RegionInv)
<1>1. Init => IInv /\ RegionInv
  BY InitInv, RegionInit
<1>2. (IInv /\ RegionInv) /\ [Next]_vars => (IInv /\ RegionInv)'
  BY NextInv, NextRegion
<1>3. QED
  BY <1>1, <1>2, PTL DEF Spec
-----------------------------------------------------------------------------
(***************************************************************************)
(* The end of a region.                                                    *)
(***************************************************************************)
\* When the master has left join(), the calls of the region have all been made,
\* and the exception is kept exactly when one of them threw.
LEMMA RegionIsOver ==
  ASSUME IInv, RegionInv, JoinRegion
  PROVE  /\ \A i \in Threads : pc[i] \notin {"call", "catch"}
         /\ \A i \in Threads : calls[i] = IF i < job.n THEN 1 ELSE 0
         /\ saved = IF failed = {} THEN "none" ELSE "current"
<1> /\ pc[0] = "join" /\ job.kind = "once" /\ running = 0
  BY DEF JoinRegion, AllStopped
<1> CallsInv /\ FailedInv
  BY DEF RegionInv
<1>1. \A i \in Workers : pc[i] \notin {"call", "catch"}
  BY StoppedMeansAsleep DEF IInv
<1>2. \A i \in Threads : i = 0 \/ i \in Workers
  BY MaxThreadsAssumption DEF Threads, Workers
<1>3. \A i \in Threads : pc[i] \notin {"call", "catch"}
  BY <1>1, <1>2
<1>4. job.n <= nworkers
  <2>1. leaked = 0
    BY StoppedMeansAsleep DEF IInv
  <2>2. nworkers = requested
    BY DEF IInv, MasterInv, TypeInt
  <2>3. QED
    BY <2>1, <2>2 DEF RegionInv
<1>5. ASSUME NEW i \in Threads, i < job.n PROVE done[i]
  <2>1. CASE i = 0
    BY <2>1 DEF CallsInv
  <2>2. CASE i \in Workers
    <3>1. i < nworkers
      BY <1>4, <1>5, <2>2 DEF IInv, TypeInt, Workers
    <3>2. Resting(i)
      BY <2>2, <3>1, JoinedWorkers DEF IInv, Discharged
    <3>3. QED
      BY <1>5, <2>2, <3>2 DEF CallsInv
  <2>3. QED
    BY <1>2, <2>1, <2>2
<1>6. \A i \in Threads : calls[i] = IF i < job.n THEN 1 ELSE 0
  BY <1>5 DEF CallsInv
<1>7. saved = IF failed = {} THEN "none" ELSE "current"
  <2>1. saved = IF \E i \in failed : pc[i] # "catch" THEN "current" ELSE "none"
    BY DEF FailedInv
  <2>2. \A i \in failed : pc[i] # "catch"
    BY <1>3 DEF IInv, TypeInt
  <2>3. QED
    BY <2>1, <2>2
<1>8. QED
  BY <1>3, <1>6, <1>7

\* A region can only be given up by JoinRegion: the exception that instantiate_threads()
\* might have rethrown was forgotten before.
LEMMA SpawnedWithoutException ==
  ASSUME IInv, RegionInv, JoinSpawnedByRegion
  PROVE  saved = "none" /\ pc' = [pc EXCEPT ![0] = "swap"] /\ UNCHANGED <<team, job, outcome>>
<1>1. pc[0] = "spawn" /\ job.kind = "once"
  BY DEF JoinSpawnedByRegion, IInv, TypeInt, MasterInv
<1>2. saved = "none"
  BY <1>1 DEF RegionInv, FailedInv
<1>3. QED
  BY <1>2 DEF JoinSpawnedByRegion, Goto

LEMMA OnlyJoinEndsRegions ==
  ASSUME IInv, RegionInv, [Next]_vars, job.kind = "once", job' = NoJob
  PROVE  JoinRegion
<1> /\ job # NoJob /\ job' # job /\ pc[0] # "user"
  BY DEF NoJob, IInv, MasterInv
<1>1. ~UNCHANGED vars
  BY DEF vars, jobVars
<1>2. ~ApiCall
  BY DEF ApiCall, ResizeLazily, ResizeUp, ResizeDown, ParallelRegion, ForkChild
<1>3. ASSUME NEW i \in Workers PROVE ~WorkerStep(i)
  BY DEF WorkerStep, FetchCall, Return, Throw, Catch, FetchShutdown, ExitThread, TurnToIdle,
         FetchSleep, AnnounceSleep, WaitSemaphore, TakeJob, jobVars
<1>4. ~JoinSpawnedByRegion
  BY SpawnedWithoutException
<1>5. ~JoinShutdown /\ ~Reap
  BY DEF JoinShutdown, Reap, IInv, MasterInv
<1>6. MasterStep
  BY <1>1, <1>2, <1>3 DEF Next
<1>7. QED
  BY <1>4, <1>5, <1>6
     DEF MasterStep, SpawnMaster, Spawn, SpawnFails, JoinSpawnedByResize, SwapSleepTasks,
         CountRunning, PostJob, SignalSleepers, FetchCall, Return, Throw, Catch,
         LeaveRunMaster, jobVars

\* RegionThrowsItsOwn: parallel_region() rethrows exactly what was raised in it.
THEOREM RegionsThrowTheirOwn == Spec => RegionThrowsItsOwn
<1>1. IInv /\ RegionInv /\ [Next]_vars =>
        [job.kind = "once" /\ job' = NoJob =>
           outcome' = IF failed = {} THEN "none" ELSE "current"]_vars
  <2> SUFFICES ASSUME IInv, RegionInv, [Next]_vars, job.kind = "once", job' = NoJob
               PROVE  outcome' = IF failed = {} THEN "none" ELSE "current"
    OBVIOUS
  <2>1. JoinRegion
    BY OnlyJoinEndsRegions
  <2>2. QED
    BY <2>1, RegionIsOver DEF JoinRegion
<1>2. QED
  BY <1>1, RegionInvariance, PTL DEF Spec, RegionThrowsItsOwn
-----------------------------------------------------------------------------
(***************************************************************************)
(* The refinement.                                                         *)
(***************************************************************************)
\* A step that starts or ends no call and no region is a stutter.
LEMMA Stutters ==
  ASSUME UNCHANGED <<job, calls, failed, outcome>>,
         \A i \in Threads :
           /\ pc'[i] \in {"call", "catch"} <=> pc[i] \in {"call", "catch"}
           /\ pc'[i] = "catch" <=> pc[i] = "catch",
         failed \subseteq Threads
  PROVE  UNCHANGED ForkJoin!vars
BY DEF ForkJoin!vars

LEMMA RefinementInit == Init => ForkJoin!Init
BY DEF Init, ForkJoin!Init, NoJob, Threads

LEMMA ApiCallRefines == IInv /\ RegionInv /\ ApiCall => [ForkJoin!Next]_(ForkJoin!vars)
<1> SUFFICES ASSUME IInv, RegionInv, ApiCall PROVE [ForkJoin!Next]_(ForkJoin!vars)
  OBVIOUS
<1>1. /\ pc[0] = "user" /\ job = NoJob /\ failed \subseteq Threads
      /\ pc \in [Threads -> MasterLabels \cup WorkerLabels] /\ 0 \in Threads
      /\ \A i \in Threads : pc[i] \notin {"call", "catch"}
  BY MaxThreadsAssumption
     DEF ApiCall, ResizeLazily, ResizeUp, ResizeDown, ParallelRegion, ForkChild, IInv,
         TypeInt, MasterInv, RegionInv, NoJob, Threads
<1>2. ASSUME NEW n \in 1 .. MaxThreads, ResizeLazily(n) PROVE UNCHANGED ForkJoin!vars
  BY <1>2, <1>1, Stutters DEF ResizeLazily, jobVars, threadVars
<1>3. ASSUME NEW n \in 1 .. MaxThreads, ResizeUp(n) PROVE UNCHANGED ForkJoin!vars
  BY <1>3, <1>1, Stutters DEF ResizeUp, jobVars, history, Goto
<1>4. ASSUME NEW n \in 1 .. MaxThreads, ResizeDown(n) PROVE UNCHANGED ForkJoin!vars
  BY <1>4, <1>1 DEF ResizeDown, history, Goto, NoJob, ForkJoin!vars
<1>5. ASSUME NEW n \in 0 .. MaxThreads, ParallelRegion(n) PROVE ForkJoin!Next
  <2>1. PICK m \in 1 .. MaxThreads : m = RegionWidth(n)
    BY DEF RegionWidth, IInv, TypeInt
  <2>2. /\ job' = [kind |-> "once", n |-> m]
        /\ calls' = [i \in Threads |-> 0] /\ failed' = {} /\ outcome' = outcome
    BY <1>5, <2>1 DEF ParallelRegion
  <2>3. ForkJoin!Begin(m)
    BY <1>1, <2>2 DEF ForkJoin!Begin, NoJob
  <2>4. QED
    BY <2>1, <2>3 DEF ForkJoin!Next
<1>6. CASE ForkChild
  BY <1>6, <1>1, Stutters DEF ForkChild, jobVars
<1>7. QED
  BY <1>2, <1>3, <1>4, <1>5, <1>6 DEF ApiCall

\* The steps of a call of `f`, by a worker or by the master.
LEMMA CallRefines ==
  ASSUME IInv, RegionInv, NEW i \in Threads,
         FetchCall(i) \/ Return(i) \/ Throw(i) \/ Catch(i)
  PROVE  [ForkJoin!Next]_(ForkJoin!vars)
<1>1. /\ pc \in [Threads -> MasterLabels \cup WorkerLabels] /\ failed \subseteq Threads
      /\ calls \in [Threads -> Nat] /\ job.n \in 0 .. MaxThreads
      /\ i \in 0 .. MaxThreads - 1
  BY DEF IInv, TypeInt, Threads
<1>2. job.kind = "once" /\ CallsInv /\ FailedInv
  BY DEF FetchCall, Return, Throw, Catch, RegionInv
<1>3. CASE FetchCall(i)
  <2>1. /\ calls[i] = 0 /\ i \notin failed /\ pc[i] = "fetch"
        /\ pc' = [pc EXCEPT ![i] = "call"] /\ calls' = [calls EXCEPT ![i] = @ + 1]
        /\ UNCHANGED <<job, failed, outcome>>
    BY <1>2, <1>3 DEF FetchCall, InJob, OnceHasTask, CallsInv, FailedInv, Goto
  <2>2. QED
    BY <1>1, <2>1 DEF ForkJoin!vars
<1>4. CASE Return(i)
  <2>1. /\ i < job.n /\ calls[i] = 1 /\ i \notin failed /\ pc[i] = "call"
        /\ pc' = [pc EXCEPT ![i] = "fetch"] /\ UNCHANGED <<job, calls, failed, outcome>>
    BY <1>2, <1>4 DEF Return, CallsInv, FailedInv, Goto, jobVars, history
  <2>2. ForkJoin!Finish(i, FALSE)
    BY <1>1, <1>2, <2>1 DEF ForkJoin!Finish
  <2>3. QED
    BY <1>1, <2>2 DEF ForkJoin!Next, ForkJoin!Work
<1>5. CASE Throw(i)
  <2>1. /\ pc[i] = "call" /\ pc' = [pc EXCEPT ![i] = "catch"]
        /\ failed' = failed \cup {i} /\ UNCHANGED <<job, calls, outcome>>
    BY <1>5 DEF Throw, Goto, jobVars
  <2>2. i \notin failed
    BY <1>2, <2>1 DEF FailedInv
  <2>3. {j \in failed' : pc'[j] # "catch"} = {j \in failed : pc[j] # "catch"}
    BY <1>1, <2>1, <2>2
  <2>4. {j \in Threads : calls'[j] = 1 /\ pc'[j] \notin {"call", "catch"}}
          = {j \in Threads : calls[j] = 1 /\ pc[j] \notin {"call", "catch"}}
    BY <1>1, <2>1
  <2>5. QED
    BY <2>1, <2>3, <2>4 DEF ForkJoin!vars
<1>6. CASE Catch(i)
  <2>1. /\ i < job.n /\ calls[i] = 1 /\ i \in failed /\ pc[i] = "catch"
        /\ pc' = [pc EXCEPT ![i] = "fetch"] /\ UNCHANGED <<job, calls, failed, outcome>>
    BY <1>2, <1>6 DEF Catch, CallsInv, FailedInv, Goto, jobVars, history
  <2>2. ForkJoin!Finish(i, TRUE)
    BY <1>1, <1>2, <2>1 DEF ForkJoin!Finish
  <2>3. QED
    BY <1>1, <2>2 DEF ForkJoin!Next, ForkJoin!Work
<1>7. QED
  BY <1>3, <1>4, <1>5, <1>6

LEMMA JoinRefines ==
  ASSUME IInv, RegionInv, JoinRegion
  PROVE  ForkJoin!Return
<1>1. /\ job.kind = "once" /\ 0 < job.n /\ job.n \in 0 .. MaxThreads
      /\ failed \subseteq Threads /\ pc[0] = "join"
      /\ pc \in [Threads -> MasterLabels \cup WorkerLabels] /\ 0 \in Threads
  BY MaxThreadsAssumption DEF JoinRegion, RegionInv, IInv, TypeInt, Threads
<1>2. /\ pc' = [pc EXCEPT ![0] = "user"] /\ job' = NoJob /\ outcome' = saved
      /\ UNCHANGED <<calls, failed>>
  BY DEF JoinRegion, ReturnToUser, Goto
<1>3. {i \in Threads : calls[i] = 1 /\ pc[i] \notin {"call", "catch"}} = 0 .. job.n - 1
  <2>1. \A i \in Threads :
          (calls[i] = 1 /\ pc[i] \notin {"call", "catch"}) <=> i < job.n
    BY RegionIsOver
  <2>2. \A i : (i \in Threads /\ i < job.n) <=> i \in 0 .. job.n - 1
    BY <1>1, MaxThreadsAssumption DEF Threads
  <2>3. QED
    BY <2>1, <2>2
<1>4. {i \in failed : pc[i] # "catch"} = failed
  BY <1>1, RegionIsOver
<1>5. (outcome' # "none") = (failed # {})
  BY <1>2, RegionIsOver
<1>6. \A i \in Threads : pc'[i] \notin {"call", "catch"}
  BY <1>1, <1>2, RegionIsOver
<1>7. QED
  BY <1>1, <1>2, <1>3, <1>4, <1>5, <1>6, RegionIsOver DEF ForkJoin!Return, NoJob

LEMMA MasterRefines == IInv /\ RegionInv /\ MasterStep => [ForkJoin!Next]_(ForkJoin!vars)
<1> SUFFICES ASSUME IInv, RegionInv, MasterStep PROVE [ForkJoin!Next]_(ForkJoin!vars)
  OBVIOUS
<1>0. /\ pc \in [Threads -> MasterLabels \cup WorkerLabels] /\ failed \subseteq Threads
      /\ 0 \in Threads /\ nworkers \in Nat
      /\ \A i \in Threads : i >= nworkers /\ i # 0 => pc[i] = "none"
  BY MaxThreadsAssumption DEF IInv, TypeInt, WorkerInv, WorkerAt, Absent, Threads, Workers
<1> USE DEF Goto, poolVars, jobVars, idleVars, threadVars, history
<1>1. CASE SpawnMaster
  BY <1>1, <1>0, Stutters DEF SpawnMaster
<1>2. CASE Spawn
  BY <1>2, <1>0, Stutters DEF Spawn
<1>3. CASE SpawnFails
  BY <1>3, <1>0, Stutters DEF SpawnFails
<1>4. CASE JoinSpawnedByResize
  BY <1>4, <1>0, Stutters DEF JoinSpawnedByResize, ReturnToUser
<1>5. CASE JoinSpawnedByRegion
  BY <1>5, <1>0, SpawnedWithoutException, Stutters DEF JoinSpawnedByRegion
<1>6. CASE SwapSleepTasks
  BY <1>6, <1>0, Stutters DEF SwapSleepTasks
<1>7. CASE CountRunning
  BY <1>7, <1>0, Stutters DEF CountRunning
<1>8. CASE PostJob
  BY <1>8, <1>0, Stutters DEF PostJob
<1>9. CASE SignalSleepers
  BY <1>9, <1>0, Stutters DEF SignalSleepers
<1>10. CASE LeaveRunMaster
  BY <1>10, <1>0, Stutters DEF LeaveRunMaster, InJob
<1>11. CASE FetchCall(0) \/ Return(0) \/ Throw(0) \/ Catch(0)
  BY <1>11, <1>0, CallRefines
<1>12. CASE JoinRegion
  BY <1>12, JoinRefines DEF ForkJoin!Next
<1>13. CASE JoinShutdown
  <2>1. saved = "none"
    BY <1>13 DEF JoinShutdown, IInv, MasterInv
  <2>2. pc[0] = "join" /\ pc' = [pc EXCEPT ![0] = "reap"] /\ UNCHANGED <<job, calls, failed, outcome>>
    BY <1>13, <2>1 DEF JoinShutdown
  <2>3. QED
    BY <1>0, <2>2, Stutters
<1>14. CASE Reap
  <2>1. job.kind = "shutdown" /\ job' = NoJob /\ UNCHANGED <<calls, failed, outcome>>
    BY <1>14 DEF Reap, IInv, MasterInv
  <2>2. \A i \in Threads : pc[i] \notin {"call", "catch"} /\ pc'[i] \notin {"call", "catch"}
    BY <1>14, <2>1 DEF Reap, RegionInv
  <2>3. QED
    BY <1>0, <2>1, <2>2 DEF NoJob, ForkJoin!vars
<1>15. QED
  BY <1>1, <1>2, <1>3, <1>4, <1>5, <1>6, <1>7, <1>8, <1>9, <1>10, <1>11, <1>12, <1>13, <1>14 DEF MasterStep

LEMMA WorkerRefines ==
  ASSUME IInv, RegionInv, NEW i \in Workers, WorkerStep(i)
  PROVE  [ForkJoin!Next]_(ForkJoin!vars)
<1>0. /\ pc \in [Threads -> MasterLabels \cup WorkerLabels] /\ failed \subseteq Threads
      /\ i \in Threads
  BY DEF IInv, TypeInt, Threads, Workers
<1> USE DEF Goto, poolVars, jobVars, idleVars, threadVars, history
<1>1. CASE FetchCall(i) \/ Return(i) \/ Throw(i) \/ Catch(i)
  BY <1>1, <1>0, CallRefines
<1>2. CASE FetchShutdown(i)
  BY <1>2, <1>0, Stutters DEF FetchShutdown, InJob
<1>3. CASE ExitThread(i)
  BY <1>3, <1>0, Stutters DEF ExitThread
<1>4. CASE TurnToIdle(i)
  BY <1>4, <1>0, Stutters DEF TurnToIdle
<1>5. CASE FetchSleep(i)
  BY <1>5, <1>0, Stutters DEF FetchSleep
<1>6. CASE AnnounceSleep(i)
  BY <1>6, <1>0, Stutters DEF AnnounceSleep
<1>7. CASE WaitSemaphore(i)
  BY <1>7, <1>0, Stutters DEF WaitSemaphore
<1>8. CASE TakeJob(i)
  BY <1>8, <1>0, Stutters DEF TakeJob
<1>9. QED
  BY <1>1, <1>2, <1>3, <1>4, <1>5, <1>6, <1>7, <1>8 DEF WorkerStep

LEMMA StepRefines == IInv /\ RegionInv /\ [Next]_vars => [ForkJoin!Next]_(ForkJoin!vars)
<1> SUFFICES ASSUME IInv, RegionInv, [Next]_vars PROVE [ForkJoin!Next]_(ForkJoin!vars)
  OBVIOUS
<1>1. CASE UNCHANGED vars
  BY <1>1, Stutters DEF vars, jobVars, threadVars, history, IInv, TypeInt
<1>2. CASE Next
  BY <1>2, ApiCallRefines, MasterRefines, WorkerRefines DEF Next
<1>3. QED
  BY <1>1, <1>2

\* ImplementsForkJoin: parallel_region() calls `f` exactly once in each thread of the
\* region, returns only when all the calls are over, and throws exactly when one threw.
THEOREM Refinement == Spec => ImplementsForkJoin
<1>1. Spec => ForkJoin!Init /\ [][ForkJoin!Next]_(ForkJoin!vars)
  BY RefinementInit, StepRefines, RegionInvariance, PTL DEF Spec
<1>2. QED
  BY <1>1 DEF ImplementsForkJoin, ForkJoin!Spec
==============================================================================
