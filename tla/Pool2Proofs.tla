------------------------------ MODULE Pool2Proofs ------------------------------
(***************************************************************************)
(* Proofs about the pool of thpool2 and what runs in it, for pools and     *)
(* loops of every size.                                                    *)
(*                                                                         *)
(* The inductive invariant, IInv, says of every worker where it can be     *)
(* while the master is where it is (WorkerAt): that is what makes          *)
(* n_threads_running exact, although awaken_and_run() overwrites it, and   *)
(* join() right when it reads zero.  Region adds who has called `f`, which *)
(* calls threw, and whose exception idle_job::saved_exception holds.       *)
(* The loops, the teams and the ordered scheduler enter only as steps of   *)
(* the pool (PoolStep).                                                    *)
(***************************************************************************)
EXTENDS Pool2Loops, TLAPS, FiniteSetTheorems

\* A worker in light sleep, in deep sleep, or woken from it.
Dozing == {"asleep", "deep", "woken"}
\* A thread in the tasks of a job.
Calling == {"call", "catch", "abort"}
\* The master has published the job, or has not done so yet.
InProgress == {"signal", "fetch", "call", "catch", "abort", "join"}

\* TypeOK without what takes counting.
TypeInt ==
  /\ nworkers \in 0 .. MaxThreads /\ requested \in 1 .. MaxThreads /\ team \in 0 .. MaxThreads
  /\ job \in [kind : {"none", "once", "shutdown", "dynamic", "ordered"}, n : 0 .. MaxThreads]
  /\ done \in [Threads -> BOOLEAN]
  /\ curr \in 0 .. 1
  /\ next \in [0 .. 1 -> {"null", "job"}]
  /\ running \in Int
  /\ saved \in Pool!Exceptions
  /\ pc \in [Threads ->
               Pool!MasterLabels \cup Pool!WorkerLabels \cup {"abort", "deep", "woken"}]
  /\ pc[0] \in Pool!MasterLabels \cup {"abort"}
  /\ \A i \in Workers : pc[i] \in Pool!WorkerLabels \cup {"abort", "deep", "woken"}
  /\ scheduler \in [Threads -> {"null", "idle", "job"}]
  /\ task \in [Workers -> 0 .. 1]
  /\ calls \in [Threads -> Nat] /\ failed \subseteq Threads
  /\ outcome \in Pool!Exceptions /\ resized \in Pool!Exceptions /\ leaked \in Nat

\* What the master's place says of the pool.
MasterInv ==
  /\ pc[0] = "user" => job = NoJob
  /\ pc[0] \notin {"user", "spawn"} => job.kind # "none" /\ nworkers > 0
  /\ job.kind = "none" => job = NoJob
  /\ pc[0] = "reap" => job.kind = "shutdown"
  /\ job.kind = "shutdown" =>
       /\ pc[0] \notin {"spawn", "call", "catch", "abort"}
       /\ job.n = requested /\ requested < nworkers
       /\ pc[0] # "swap" => saved = "none"
  /\ pc[0] = "spawn" => nworkers <= requested
  /\ pc[0] # "spawn" /\ job.kind # "shutdown" => nworkers \in {0, requested}
  /\ pc[0] # "spawn" => leaked = 0
  /\ next[curr] = "null"
  /\ next[Prev] = IF pc[0] \in InProgress THEN "job" ELSE "null"

\* Where a worker can be.
Absent(i) == pc[i] = "none" /\ scheduler[i] = "null"
Resting(i) == pc[i] \in Dozing /\ scheduler[i] = "idle" /\ task[i] = curr
Waiting(i) == pc[i] \in Dozing /\ scheduler[i] = "idle" /\ task[i] = Prev
Waking(i) == pc[i] = "awake" /\ scheduler[i] = "idle" /\ task[i] = Prev
OnJob(i) ==
  /\ pc[i] \in {"fetch"} \cup Calling
  /\ scheduler[i] = "job"
  /\ pc[i] # "fetch" => job.kind # "shutdown"
Settling(i) ==
  /\ pc[i] \in {"fetch", "drowsy"}
  /\ scheduler[i] = "idle"
  /\ pc[i] = "drowsy" => task[i] = curr
Leaving(i) ==
  \/ pc[i] = "shutdown" /\ scheduler[i] = "job"
  \/ pc[i] = "exited" /\ scheduler[i] = "null"

Discharged(i) == job.kind = "shutdown" /\ i >= job.n

\* ... and where it is while the master is at a given place.
WorkerAt(i) ==
  /\ i >= nworkers => Absent(i)
  /\ i < nworkers =>
       /\ pc[0] \in {"user", "swap", "count"} => Resting(i)
       /\ pc[0] = "spawn" => Resting(i) \/ Settling(i)
       /\ pc[0] = "post" => Waiting(i)
       /\ pc[0] \in InProgress =>
            \/ Waiting(i) \/ Waking(i) \/ OnJob(i)
            \/ ~Discharged(i) /\ (Settling(i) \/ Resting(i))
            \/ Discharged(i) /\ Leaving(i)
       /\ pc[0] = "reap" => IF Discharged(i) THEN Leaving(i) ELSE Resting(i)

WorkerInv == \A i \in Workers : WorkerAt(i)

Counted == running = Cardinality(Awake) + leaked

PoolInv == TypeInt /\ MasterInv /\ WorkerInv /\ Counted

FullPool ==
  /\ nthreads \in 1 .. MaxThreads /\ n_threads \in 0 .. MaxThreads
  /\ ~Plain => requested = MaxThreads

NoCalls == Ordered \/ (Looped /\ entry = "dynamic")

Kinds ==
  /\ Looped => ~Ordered
  /\ Plain => job.kind \in {"none", "once", "shutdown"}
  /\ Looped /\ entry # "dynamic" => job.kind \in {"none", "once"}
  /\ Looped /\ entry = "dynamic" => job.kind \in {"none", "dynamic"}
  /\ Ordered => job.kind \in {"none", "ordered"}
  /\ NoCalls => (\A i \in Threads : calls[i] = 0) /\ failed = {}
  /\ Looped /\ entry = "dynamic" =>
       /\ tpc = [i \in Threads |-> tpc[i]]
       /\ \A i \in Threads : tpc[i] # "threw"

Called(i) ==
  /\ calls[i] = IF done[i] THEN 1 ELSE 0
  /\ done[i] => i < job.n /\ pc[0] \in InProgress
  /\ i \in failed => done[i]
  /\ pc[i] \in Calling => done[i]
  /\ pc[i] = "call" => i \notin failed
  /\ pc[i] = "catch" => i \in failed

\* A thread of the region that is back with the idle job, or in join(), has called f.
Back(i) == IF i = 0 THEN pc[0] = "join" ELSE Settling(i) \/ Resting(i)
Came(i) == i < job.n /\ pc[0] \in InProgress /\ Back(i) => done[i]

Failed == {i \in failed : pc[i] # "catch"}

Region ==
  /\ nworkers = 0 => saved = "none"
  /\ pc[0] = "spawn" /\ job # NoJob => saved = "none"
  /\ job.kind = "once" =>
       /\ 0 < job.n
       /\ leaked = 0 => job.n <= requested
       /\ \A i \in Threads : Called(i) /\ Came(i)
       /\ pc[0] \notin {"spawn", "swap"} => saved = IF Failed # {} THEN "current" ELSE "none"

\* A thread that could not be created stops the creation of threads.
Leak == leaked > 0 => leaked = 1 /\ nworkers = requested /\ nworkers < MaxThreads

IInv == PoolInv /\ FullPool /\ Kinds /\ Region /\ Leak
-----------------------------------------------------------------------------
(***************************************************************************)
(* The steps of the three uses of the pool, as steps of the pool.          *)
(***************************************************************************)
\* A call of the user that runs a job, or creates the threads for one.
Start(j) ==
  /\ pc[0] = "user"
  /\ job' = j /\ j.kind # "shutdown"
  /\ j.kind = "none" => j = NoJob /\ nworkers = 0
  /\ Goto(0, IF nworkers = 0 THEN "spawn" ELSE "swap")
  /\ team' \in 0 .. MaxThreads
  /\ UNCHANGED <<nworkers, requested, curr, next, running, scheduler, task, outcome, resized,
                 leaked>>

CallLoop ==
  /\ \E j \in [kind : {"none", "dynamic", "ordered"}, n : 0 .. MaxThreads] :
       /\ Start(j)
       /\ j.kind = "dynamic" => Looped /\ entry = "dynamic"
       /\ j.kind = "ordered" => Ordered
  /\ UNCHANGED <<done, saved, calls, failed>>

\* A function of the user in a region, and the tasks of a loop.
Calls(i) == ~NoCalls /\ (Pool!FetchCall(i) \/ Pool!Return(i) \/ Pool!Throw(i))

Iterate(i) ==
  /\ NoCalls
  /\ \/ Pool!InJob(i) /\ job.kind # "shutdown" /\ Goto(i, "call")
     \/ pc[i] = "call" /\ (Goto(i, "fetch") \/ Goto(i, "catch"))
  /\ UNCHANGED <<poolVars, jobVars, idleVars, scheduler, task, history>>

\* The end of the thread's part in the job.
Leave(i) == LeaveJob(i) /\ ~Discharged(i) /\ (job.kind = "once" => ~Pool!OnceHasTask(i))

JobStep(i) ==
  Calls(i) \/ Iterate(i) \/ Catch(i) \/ Abort(i) \/ Leave(i) \/ UNCHANGED vars

WholeMaster == ResizeStep \/ AwakenStep \/ Pool!JoinRegion \/ JoinLoop

Sleeping(i) == SleepStep(i) \/ DeepSleep(i) \/ SpuriousWake(i)

PoolStep ==
  \/ (Plain /\ ApiCall) \/ (Looped /\ CallRegion) \/ CallLoop \/ WholeMaster
  \/ (Plain /\ Pool!SpawnFails)
  \/ (\E i \in Threads : JobStep(i))
  \/ (\E i \in Workers : Sleeping(i))

LEMMA Indices ==
  /\ 0 \in Threads /\ 0 \notin Workers
  /\ \A i \in Workers : i \in Threads /\ i # 0
  /\ \A i \in Threads : i \in Nat /\ (i = 0 \/ i \in Workers)
BY MaxThreadsAssumption DEF Threads, Workers

LEMMA TurnsToIdle ==
  ASSUME NEW i \in Threads,
         (i \in Workers /\ Pool!TurnToIdle(i)) \/ (i = 0 /\ Pool!LeaveRunMaster)
  PROVE  Leave(i)
<1>1. Pool!InJob(i) /\ Pool!NoMoreTasks(i)
  BY DEF Pool!TurnToIdle, Pool!LeaveRunMaster
<1>2. LeaveJob(i)
  <2>1. CASE i \in Workers /\ Pool!TurnToIdle(i)
    BY <1>1, <2>1, Indices
       DEF Pool!TurnToIdle, LeaveJob, Pool!poolVars, Pool!jobVars, Pool!idleVars, Pool!history,
           poolVars, jobVars, idleVars, history
  <2>2. CASE i = 0 /\ Pool!LeaveRunMaster
    BY <1>1, <2>2
       DEF Pool!LeaveRunMaster, LeaveJob, Pool!Goto, Goto, Pool!poolVars, Pool!jobVars,
           Pool!idleVars, Pool!history, poolVars, jobVars, idleVars, history
  <2>3. QED
    BY <2>1, <2>2
<1>3. QED
  BY <1>1, <1>2 DEF Leave, Discharged, Pool!NoMoreTasks, Pool!ShutdownHasTask

\* A thread of a region or of a dynamic loop ...
LEMMA LoopSteps ==
  ASSUME Kinds, Looped, NEW i \in Threads, LoopStep(i)
  PROVE  JobStep(i)
<1>1. /\ entry # "dynamic" => job.kind \in {"none", "once"} /\ ~NoCalls
      /\ entry = "dynamic" => job.kind \in {"none", "dynamic"} /\ tpc[i] # "threw" /\ NoCalls
      /\ entry = "dynamic" \/ entry # "dynamic"
  BY DEF Kinds, NoCalls
<1>2. CASE BeginRegion(i)
  BY <1>1, <1>2 DEF BeginRegion, JobStep, Calls, Pool!FetchCall
<1>3. CASE InRegion(i)
  BY <1>3 DEF InRegion, JobStep
<1>4. CASE EndRegion(i)
  <2>1. CASE Pool!Return(i) /\ entry = "dynamic"
    BY <1>1, <2>1
       DEF Pool!Return, Pool!Goto, JobStep, Iterate, Goto, Pool!poolVars, Pool!jobVars,
           Pool!idleVars, Pool!history, poolVars, jobVars, idleVars, history
  <2>2. QED
    BY <1>1, <1>4, <2>1 DEF EndRegion, JobStep, Calls
<1>5. CASE LeaveRegion(i)
  BY <1>5 DEF LeaveRegion, JobStep, Leave, Discharged, Pool!NoMoreTasks, Pool!ShutdownHasTask
<1>6. CASE FetchIteration(i)
  BY <1>1, <1>6 DEF FetchIteration, JobStep, Iterate
<1>7. CASE FetchNothing(i)
  BY <1>7 DEF FetchNothing, JobStep, Leave, Discharged
<1>8. CASE EndIteration(i)
  BY <1>1, <1>8 DEF EndIteration, JobStep, Iterate
<1>9. CASE CatchInLoop(i) \/ AbortLoop(i)
  BY <1>9 DEF CatchInLoop, AbortLoop, JobStep
<1>10. QED
  BY <1>2, <1>3, <1>4, <1>5, <1>6, <1>7, <1>8, <1>9 DEF LoopStep

\* ... and of an ordered loop.
LEMMA TaskSteps ==
  ASSUME Kinds, Ordered, NEW i \in Threads, TaskStep(i)
  PROVE  JobStep(i)
<1>1. NoCalls
  BY DEF NoCalls
<1>2. CASE GetTask(i)
  BY <1>1, <1>2 DEF GetTask, JobStep, Iterate
<1>3. CASE GetWaitTask(i) \/ Execute(i)
  BY <1>3 DEF GetWaitTask, Execute, JobStep
<1>4. CASE GetNothing(i)
  BY <1>4 DEF GetNothing, JobStep, Leave, Discharged
<1>5. CASE EndTask(i)
  BY <1>1, <1>5 DEF EndTask, JobStep, Iterate
<1>6. CASE CatchAndAbort(i) \/ AbortAgain(i)
  BY <1>6 DEF CatchAndAbort, AbortAgain, JobStep
<1>7. QED
  BY <1>2, <1>3, <1>4, <1>5, <1>6 DEF TaskStep

LEMMA LoopCalls ==
  ASSUME FullPool, PoolInv, ~Plain,
         (Looped /\ CallDynamic) \/ (Ordered /\ (InstantiateThreads \/ ExecuteJob))
  PROVE  CallLoop
<1>1. nworkers \in Nat /\ nthreads \in 0 .. MaxThreads /\ n_threads \in 0 .. MaxThreads
      /\ team \in 0 .. MaxThreads /\ 0 \in 0 .. MaxThreads
  BY MaxThreadsAssumption DEF FullPool, PoolInv, TypeInt
<1>2. CASE Looped /\ CallDynamic
  <2>1. Start([kind |-> "dynamic", n |-> nthreads])
    BY <1>1, <1>2 DEF CallDynamic, Start, Goto, idleVars, history
  <2>2. QED
    BY <1>1, <1>2, <2>1 DEF CallDynamic, CallLoop, idleVars, history
<1>3. CASE Ordered /\ InstantiateThreads
  <2>1. job = NoJob
    BY <1>3 DEF InstantiateThreads, PoolInv, MasterInv
  <2>2. Start(NoJob)
    BY <1>1, <1>3, <2>1
       DEF InstantiateThreads, Start, Goto, poolVars, jobVars, idleVars, history, NoJob
  <2>3. QED
    BY <1>1, <1>3, <2>2
       DEF InstantiateThreads, CallLoop, jobVars, idleVars, history, NoJob
<1>4. CASE Ordered /\ ExecuteJob
  <2>0. nworkers # 0
    BY <1>1, <1>4 DEF ExecuteJob
  <2>1. Start([kind |-> "ordered", n |-> n_threads])
    BY <1>1, <1>4, <2>0 DEF ExecuteJob, Start, Goto, idleVars, history
  <2>2. QED
    BY <1>1, <1>4, <2>1 DEF ExecuteJob, CallLoop, idleVars, history
<1>5. QED
  BY <1>2, <1>3, <1>4

LEMMA StepsOfPool ==
  ASSUME IInv, [LoopNext]_allVars
  PROVE  PoolStep
<1>1. Kinds /\ FullPool /\ PoolInv
  BY DEF IInv
<1>2. CASE UNCHANGED vars
  BY <1>2, Indices DEF PoolStep, JobStep
<1>3. CASE Plain /\ Next
  <2>1. ~NoCalls
    BY <1>3 DEF Plain, NoCalls
  <2>2. ASSUME NEW i \in Threads, CallStep(i) PROVE JobStep(i)
    BY <2>1, <2>2 DEF CallStep, JobStep, Calls
  <2>3. CASE MasterStep
    BY <2>2, <2>3, TurnsToIdle, Indices DEF MasterStep, PoolStep, WholeMaster, JobStep
  <2>4. CASE System
    BY <1>3, <2>4 DEF System, PoolStep, Sleeping
  <2>5. ASSUME NEW i \in Workers, WorkerStep(i) PROVE PoolStep
    BY <2>2, <2>5, TurnsToIdle, Indices DEF WorkerStep, PoolStep, Sleeping, JobStep
  <2>6. QED
    BY <1>3, <2>3, <2>4, <2>5 DEF Next, PoolStep
<1>4. CASE ~Plain /\ Call
  BY <1>1, <1>4, LoopCalls DEF Call, PoolStep
<1>5. ASSUME NEW i \in Threads, InLoop(i) PROVE JobStep(i)
  BY <1>1, <1>5, LoopSteps, TaskSteps DEF InLoop
<1>6. CASE ~Plain /\ LoopMaster
  BY <1>1, <1>5, <1>6, LoopCalls, Indices DEF LoopMaster, PoolStep, WholeMaster
<1>7. CASE \E i \in Workers : LoopWorker(i) \/ DeepSleep(i)
  BY <1>5, <1>7, Indices DEF LoopWorker, PoolStep, Sleeping
<1>8. QED
  BY <1>2, <1>3, <1>4, <1>6, <1>7 DEF LoopNext, Idle, allVars
-----------------------------------------------------------------------------
(***************************************************************************)
(* The type invariant, up to the sign of the counter.                      *)
(***************************************************************************)
LEMMA ApiType ==
  ASSUME TypeInt, FullPool, ApiCall \/ CallRegion \/ CallLoop
  PROVE  TypeInt'
<1> USE MaxThreadsAssumption, Indices
     DEF TypeInt, Pool!MasterLabels, Pool!WorkerLabels, Pool!Exceptions, Pool!Goto, Goto,
         Pool!Aged, Pool!poolVars, Pool!jobVars, Pool!idleVars, Pool!threadVars, Pool!history,
         Pool!Threads, Threads, Pool!Workers, Workers
<1>1. ASSUME NEW n \in 1 .. MaxThreads, Pool!ResizeLazily(n) PROVE TypeInt'
  BY <1>1 DEF Pool!ResizeLazily
<1>2. ASSUME NEW n \in 1 .. MaxThreads, Pool!ResizeUp(n) PROVE TypeInt'
  BY <1>2 DEF Pool!ResizeUp
<1>3. ASSUME NEW n \in 1 .. MaxThreads, Pool!ResizeDown(n) PROVE TypeInt'
  BY <1>3 DEF Pool!ResizeDown
<1>4. ASSUME NEW n \in 0 .. MaxThreads, Pool!ParallelRegion(n) PROVE TypeInt'
  BY <1>4 DEF Pool!ParallelRegion, Pool!RegionWidth
<1>5. CASE Pool!ForkChild
  BY <1>5 DEF Pool!ForkChild
<1>6. CASE CallRegion
  <2>1. nthreads \in 0 .. MaxThreads
    BY DEF FullPool
  <2>2. Pool!ParallelRegion(nthreads)
    BY <1>6 DEF CallRegion
  <2>3. QED
    BY <1>4, <2>1, <2>2
<1>7. CASE CallLoop
  BY <1>7 DEF CallLoop, Start
<1>8. QED
  BY <1>1, <1>2, <1>3, <1>4, <1>5, <1>6, <1>7 DEF ApiCall, Pool!ApiCall

LEMMA MasterType == ASSUME TypeInt, WholeMaster \/ Pool!SpawnFails PROVE TypeInt'
<1> USE MaxThreadsAssumption, Indices
     DEF TypeInt, Pool!MasterLabels, Pool!WorkerLabels, Pool!Exceptions, Pool!Goto, Goto,
         Pool!poolVars, Pool!jobVars, Pool!idleVars, Pool!threadVars, Pool!history,
         poolVars, jobVars, idleVars, threadVars, history, NoJob, Pool!NoJob,
         Pool!Threads, Threads, Pool!Workers, Workers, Pool!Prev, Prev
<1>1. CASE Pool!SpawnMaster
  BY <1>1 DEF Pool!SpawnMaster
<1>2. CASE Pool!Spawn
  BY <1>2 DEF Pool!Spawn, Pool!OnBeforeThreadAdded
<1>3. CASE Pool!SpawnFails
  BY <1>3 DEF Pool!SpawnFails, Pool!OnBeforeThreadAdded
<1>4. CASE Pool!JoinSpawnedByResize
  BY <1>4 DEF Pool!JoinSpawnedByResize, Pool!ReturnToUser
<1>5. CASE Pool!JoinSpawnedByRegion
  <2>1. CASE saved = "none"
    <3>1. pc' = [pc EXCEPT ![0] = "swap"] /\ UNCHANGED <<team, job, outcome>>
      BY <1>5, <2>1 DEF Pool!JoinSpawnedByRegion
    <3>2. QED
      BY <1>5, <3>1 DEF Pool!JoinSpawnedByRegion
  <2>2. CASE saved # "none"
    BY <1>5, <2>2 DEF Pool!JoinSpawnedByRegion, Pool!ReturnToUser
  <2>3. QED
    BY <2>1, <2>2
<1>6. CASE CountRunning
  BY <1>6 DEF CountRunning, Sleepers
<1>7. CASE SwapSleepTasks
  BY <1>7 DEF SwapSleepTasks
<1>8. CASE PostJob
  BY <1>8 DEF PostJob
<1>9. CASE NotifyAll
  BY <1>9 DEF NotifyAll
<1>10. CASE Pool!JoinRegion
  BY <1>10 DEF Pool!JoinRegion, Pool!ReturnToUser
<1>11. CASE JoinLoop
  BY <1>11 DEF JoinLoop, Pool!ReturnToUser
<1>12. CASE Pool!JoinShutdown
  <2>1. CASE saved = "none"
    <3>1. pc' = [pc EXCEPT ![0] = "reap"] /\ UNCHANGED <<team, job>>
      BY <1>12, <2>1 DEF Pool!JoinShutdown
    <3>2. QED
      BY <1>12, <3>1 DEF Pool!JoinShutdown
  <2>2. CASE saved # "none"
    BY SMTT(30), <1>12, <2>2 DEF Pool!JoinShutdown, Pool!ReturnToUser
  <2>3. QED
    BY <2>1, <2>2
<1>13. CASE Pool!Reap
  BY <1>13 DEF Pool!Reap
<1>14. QED
  BY <1>1, <1>2, <1>3, <1>4, <1>5, <1>6, <1>7, <1>8, <1>9, <1>10, <1>11, <1>12, <1>13
     DEF WholeMaster, ResizeStep, AwakenStep

LEMMA JobType == ASSUME TypeInt, NEW i \in Threads, JobStep(i) PROVE TypeInt'
<1> USE MaxThreadsAssumption, Indices
     DEF TypeInt, Pool!MasterLabels, Pool!WorkerLabels, Pool!Exceptions, Pool!Goto, Goto,
         Pool!poolVars, Pool!jobVars, Pool!idleVars, Pool!history,
         poolVars, jobVars, idleVars, threadVars, history
<1>1. CASE Pool!FetchCall(i)
  BY <1>1 DEF Pool!FetchCall
<1>2. CASE Pool!Return(i)
  BY <1>2 DEF Pool!Return
<1>3. CASE Pool!Throw(i)
  BY <1>3 DEF Pool!Throw
<1>4. CASE Iterate(i)
  BY <1>4 DEF Iterate
<1>5. CASE Catch(i)
  BY <1>5 DEF Catch
<1>6. CASE Abort(i)
  BY <1>6 DEF Abort
<1>7. CASE Leave(i)
  BY <1>7 DEF Leave, LeaveJob
<1>8. CASE UNCHANGED vars
  BY <1>8 DEF vars
<1>9. QED
  BY <1>1, <1>2, <1>3, <1>4, <1>5, <1>6, <1>7, <1>8 DEF JobStep, Calls

LEMMA SleepType == ASSUME TypeInt, NEW i \in Workers, Sleeping(i) PROVE TypeInt'
<1> USE MaxThreadsAssumption, Indices
     DEF TypeInt, Pool!MasterLabels, Pool!WorkerLabels, Pool!Exceptions, Pool!Goto, Goto,
         Pool!poolVars, Pool!jobVars, Pool!idleVars, Pool!history,
         poolVars, jobVars, idleVars, threadVars, history
<1>1. CASE Pool!FetchShutdown(i)
  BY <1>1 DEF Pool!FetchShutdown, Pool!OnBeforeThreadRemoved
<1>2. CASE Pool!ExitThread(i)
  BY <1>2 DEF Pool!ExitThread
<1>3. CASE Pool!FetchSleep(i)
  BY <1>3 DEF Pool!FetchSleep
<1>4. CASE Pool!AnnounceSleep(i)
  BY <1>4 DEF Pool!AnnounceSleep
<1>5. CASE LightWake(i) \/ WakeUp(i) \/ DeepSleep(i) \/ SpuriousWake(i)
  BY <1>5 DEF LightWake, WakeUp, DeepSleep, SpuriousWake, Sleep
<1>6. CASE Pool!TakeJob(i)
  BY <1>6 DEF Pool!TakeJob
<1>7. QED
  BY <1>1, <1>2, <1>3, <1>4, <1>5, <1>6 DEF Sleeping, SleepStep

LEMMA StepType == ASSUME TypeInt, FullPool, PoolStep PROVE TypeInt'
BY ApiType, MasterType, JobType, SleepType DEF PoolStep
-----------------------------------------------------------------------------
(***************************************************************************)
(* The part of a thread in a job, for what the pool sees of it.            *)
(***************************************************************************)
Aboard == {"fetch"} \cup Calling

Inside(i) ==
  /\ UNCHANGED <<nworkers, requested, job, curr, next, running, task, leaked>>
  /\ \A j \in Threads : j # i => pc'[j] = pc[j] /\ scheduler'[j] = scheduler[j]
  /\ pc[i] \in Aboard
  /\ pc[i] = "fetch" => i = 0 \/ scheduler[i] = "job"
  /\ saved' # saved => pc[i] = "catch"
  /\ \/ /\ pc'[i] \in Aboard /\ scheduler'[i] = scheduler[i]
        /\ pc[i] = "fetch" => job.kind # "shutdown"
     \/ /\ pc[i] = "fetch" /\ ~Discharged(i)
        /\ IF i = 0 THEN pc'[i] = "join" /\ scheduler'[i] = scheduler[i]
                    ELSE pc'[i] = "fetch" /\ scheduler'[i] = "idle"

LEMMA JobIsInside ==
  ASSUME TypeInt, NEW i \in Threads, JobStep(i)
  PROVE  Inside(i) \/ UNCHANGED vars
<1> USE Indices
     DEF Inside, Aboard, Calling, TypeInt, Pool!Goto, Goto, Pool!InJob,
         Pool!poolVars, Pool!jobVars, Pool!idleVars, Pool!history,
         poolVars, jobVars, idleVars, threadVars, history
<1>1. CASE Pool!FetchCall(i)
  BY <1>1 DEF Pool!FetchCall
<1>2. CASE Pool!Return(i)
  BY <1>2 DEF Pool!Return
<1>3. CASE Pool!Throw(i)
  BY <1>3 DEF Pool!Throw
<1>4. CASE Iterate(i)
  BY <1>4 DEF Iterate
<1>5. CASE Catch(i)
  BY <1>5 DEF Catch
<1>6. CASE Abort(i)
  BY <1>6 DEF Abort
<1>7. CASE Leave(i)
  BY <1>7 DEF Leave, LeaveJob
<1>8. QED
  BY <1>1, <1>2, <1>3, <1>4, <1>5, <1>6, <1>7 DEF JobStep, Calls

\* Some labels tell where their worker is.
LEMMA PlaceByLabel ==
  ASSUME NEW i \in Workers, WorkerAt(i), TypeInt
  PROVE  /\ pc[i] = "awake" => i < nworkers /\ Waking(i) /\ pc[0] \in InProgress
         /\ pc[i] \in Aboard /\ (pc[i] = "fetch" => scheduler[i] = "job") =>
              i < nworkers /\ OnJob(i) /\ pc[0] \in InProgress
         /\ pc[i] = "shutdown" =>
              /\ i < nworkers /\ Discharged(i) /\ Leaving(i)
              /\ pc[0] \in InProgress \cup {"reap"}
         /\ pc[i] = "drowsy" =>
              /\ i < nworkers /\ Settling(i) /\ pc[0] \in InProgress \cup {"spawn"}
              /\ ~(pc[0] # "spawn" /\ Discharged(i))
         /\ pc[i] = "fetch" /\ scheduler[i] = "idle" =>
              /\ i < nworkers /\ Settling(i) /\ pc[0] \in InProgress \cup {"spawn"}
              /\ ~(pc[0] # "spawn" /\ Discharged(i))
         /\ pc[i] \in Dozing => i < nworkers /\ (Resting(i) \/ Waiting(i))
BY DEF WorkerAt, Absent, Resting, Waiting, Waking, OnJob, Settling, Leaving, TypeInt,
       InProgress, Aboard, Calling, Dozing, Pool!MasterLabels, Workers

\* A thread takes part in a job only while there is one.
LEMMA InsideAJob ==
  ASSUME TypeInt, WorkerInv, NEW i \in Threads, Inside(i)
  PROVE  pc[0] \in InProgress /\ pc'[0] \in InProgress
<1>1. CASE i = 0
  BY <1>1 DEF Inside, Aboard, Calling, InProgress
<1>2. CASE i \in Workers
  BY <1>2, Indices, PlaceByLabel DEF Inside, WorkerInv
<1>3. QED
  BY <1>1, <1>2, Indices
-----------------------------------------------------------------------------
(***************************************************************************)
(* What join() learns from a zero count.                                   *)
(***************************************************************************)
LEMMA AwakeIsFinite == IsFiniteSet(Awake) /\ Cardinality(Awake) \in Nat
<1>1. IsFiniteSet(Workers)
  BY MaxThreadsAssumption, FS_Interval DEF Workers
<1>2. Awake \in SUBSET Workers
  BY DEF Awake
<1>3. QED
  BY <1>1, <1>2, FS_Subset, FS_CardinalityType

LEMMA StoppedMeansAsleep ==
  ASSUME TypeInt, Counted, running = 0
  PROVE  /\ leaked = 0
         /\ Awake = {}
         /\ \A j \in Workers :
              /\ pc[j] \notin {"fetch", "call", "catch", "abort", "drowsy", "awake"}
              /\ pc[j] \in Dozing => task[j] = curr /\ pc[0] # "count"
<1>1. IsFiniteSet(Awake) /\ Cardinality(Awake) \in Nat
  BY AwakeIsFinite
<1>2. leaked = 0 /\ Cardinality(Awake) = 0
  BY <1>1 DEF TypeInt, Counted
<1>3. Awake = {}
  BY <1>1, <1>2, FS_EmptySet
<1>4. QED
  BY <1>2, <1>3 DEF Awake, Dozing

LEMMA JoinedWorkers ==
  ASSUME TypeInt, WorkerInv, Counted, running = 0, pc[0] \in {"spawn", "join"}
  PROVE  \A j \in Workers : j < nworkers => Resting(j) \/ (Discharged(j) /\ Leaving(j))
<1> SUFFICES ASSUME NEW j \in Workers, j < nworkers
             PROVE  Resting(j) \/ (Discharged(j) /\ Leaving(j))
  OBVIOUS
<1>1. /\ pc[j] \notin {"fetch", "call", "catch", "abort", "drowsy", "awake"}
      /\ pc[j] \in Dozing => task[j] = curr
  BY StoppedMeansAsleep
<1>2. curr # Prev
  BY DEF TypeInt, Prev
<1>3. WorkerAt(j)
  BY DEF WorkerInv
<1>4. QED
  BY <1>1, <1>2, <1>3
     DEF WorkerAt, InProgress, Resting, Waiting, Waking, OnJob, Calling, Settling, Leaving,
         Discharged
-----------------------------------------------------------------------------
(***************************************************************************)
(* The master's place.                                                     *)
(***************************************************************************)
LEMMA ApiMaster ==
  ASSUME TypeInt, FullPool, MasterInv, ApiCall \/ CallRegion \/ CallLoop
  PROVE  MasterInv'
<1> USE MaxThreadsAssumption, Indices
     DEF TypeInt, MasterInv, InProgress, Pool!Goto, Goto, Prev,
         Pool!poolVars, Pool!jobVars, Pool!idleVars, Pool!threadVars, Pool!history, NoJob,
         Pool!Threads, Threads
<1>1. ASSUME NEW n \in 1 .. MaxThreads, Pool!ResizeLazily(n) PROVE MasterInv'
  BY <1>1 DEF Pool!ResizeLazily
<1>2. ASSUME NEW n \in 1 .. MaxThreads, Pool!ResizeUp(n) PROVE MasterInv'
  BY <1>2 DEF Pool!ResizeUp
<1>3. ASSUME NEW n \in 1 .. MaxThreads, Pool!ResizeDown(n) PROVE MasterInv'
  BY <1>3 DEF Pool!ResizeDown
<1>4. ASSUME NEW n \in 0 .. MaxThreads, Pool!ParallelRegion(n) PROVE MasterInv'
  BY <1>4 DEF Pool!ParallelRegion, Pool!RegionWidth
<1>5. CASE Pool!ForkChild
  BY <1>5 DEF Pool!ForkChild
<1>6. CASE CallRegion
  <2>1. nthreads \in 0 .. MaxThreads
    BY DEF FullPool
  <2>2. Pool!ParallelRegion(nthreads)
    BY <1>6 DEF CallRegion
  <2>3. QED
    BY <1>4, <2>1, <2>2
<1>7. CASE CallLoop
  <2>1. PICK j : Start(j)
    BY <1>7 DEF CallLoop
  <2>2. QED
    BY <2>1 DEF Start
<1>8. QED
  BY <1>1, <1>2, <1>3, <1>4, <1>5, <1>6, <1>7 DEF ApiCall, Pool!ApiCall

LEMMA MasterMaster ==
  ASSUME TypeInt, MasterInv, Counted, WholeMaster \/ Pool!SpawnFails
  PROVE  MasterInv'
<1> USE MaxThreadsAssumption, Indices
     DEF TypeInt, MasterInv, InProgress, Pool!Goto, Goto, Prev, Pool!Prev, Pool!AllStopped,
         Pool!poolVars, Pool!jobVars, Pool!idleVars, Pool!threadVars, Pool!history,
         poolVars, jobVars, idleVars, history, NoJob, Pool!NoJob, Pool!Threads, Threads, Workers
<1>1. CASE Pool!SpawnMaster
  BY <1>1 DEF Pool!SpawnMaster
<1>2. CASE Pool!Spawn
  BY <1>2 DEF Pool!Spawn, Pool!OnBeforeThreadAdded
<1>3. CASE Pool!SpawnFails
  BY <1>3 DEF Pool!SpawnFails, Pool!OnBeforeThreadAdded
<1>4. CASE Pool!JoinSpawnedByResize
  <2>1. leaked = 0
    BY <1>4, StoppedMeansAsleep DEF Pool!JoinSpawnedByResize
  <2>2. QED
    BY <1>4, <2>1 DEF Pool!JoinSpawnedByResize, Pool!ReturnToUser
<1>5. CASE Pool!JoinSpawnedByRegion
  <2>1. leaked = 0
    BY <1>5, StoppedMeansAsleep DEF Pool!JoinSpawnedByRegion
  <2>2. CASE saved = "none"
    <3>1. pc' = [pc EXCEPT ![0] = "swap"] /\ UNCHANGED <<team, job, outcome>>
      BY <1>5, <2>2 DEF Pool!JoinSpawnedByRegion
    <3>2. QED
      BY <1>5, <2>1, <3>1 DEF Pool!JoinSpawnedByRegion
  <2>3. CASE saved # "none"
    BY <1>5, <2>1, <2>3 DEF Pool!JoinSpawnedByRegion, Pool!ReturnToUser
  <2>4. QED
    BY <2>2, <2>3
<1>6. CASE CountRunning
  BY <1>6 DEF CountRunning, Sleepers
<1>7. CASE SwapSleepTasks
  BY <1>7 DEF SwapSleepTasks
<1>8. CASE PostJob
  BY <1>8 DEF PostJob
<1>9. CASE NotifyAll
  BY <1>9 DEF NotifyAll
<1>10. CASE Pool!JoinRegion
  BY <1>10 DEF Pool!JoinRegion, Pool!ReturnToUser
<1>11. CASE JoinLoop
  BY <1>11 DEF JoinLoop, Pool!ReturnToUser
<1>12. CASE Pool!JoinShutdown
  <2>1. CASE saved = "none"
    <3>1. pc' = [pc EXCEPT ![0] = "reap"] /\ UNCHANGED <<team, job>>
      BY <1>12, <2>1 DEF Pool!JoinShutdown
    <3>2. QED
      BY <1>12, <3>1 DEF Pool!JoinShutdown
  <2>2. CASE saved # "none"
    BY <1>12, <2>2 DEF Pool!JoinShutdown, Pool!ReturnToUser
  <2>3. QED
    BY <2>1, <2>2
<1>13. CASE Pool!Reap
  BY <1>13 DEF Pool!Reap
<1>14. QED
  BY <1>1, <1>2, <1>3, <1>4, <1>5, <1>6, <1>7, <1>8, <1>9, <1>10, <1>11, <1>12, <1>13
     DEF WholeMaster, ResizeStep, AwakenStep

LEMMA JobMaster ==
  ASSUME TypeInt, MasterInv, WorkerInv, NEW i \in Threads, Inside(i)
  PROVE  MasterInv'
<1>1. CASE i = 0
  <2>1. pc[0] \in Aboard \ {"join"} /\ pc'[0] \in Aboard \cup {"join"}
    BY <1>1 DEF Inside, Aboard, Calling
  <2>2. job.kind = "shutdown" => saved' = saved /\ pc'[0] \notin Calling
    BY <1>1 DEF Inside, Aboard, Calling, MasterInv
  <2>3. QED
    BY <1>1, <2>1, <2>2 DEF Inside, MasterInv, InProgress, Aboard, Calling, Prev
<1>2. CASE i \in Workers
  <2>1. pc'[0] = pc[0]
    BY <1>2, Indices DEF Inside
  <2>2. WorkerAt(i)
    BY <1>2 DEF WorkerInv
  <2>3. OnJob(i) /\ pc[0] \in InProgress
    BY <1>2, <2>2, PlaceByLabel, Indices DEF Inside
  <2>4. job.kind = "shutdown" => saved' = saved
    BY <2>3 DEF OnJob, Inside
  <2>5. QED
    BY <2>1, <2>4 DEF Inside, MasterInv, InProgress, Prev
<1>3. QED
  BY <1>1, <1>2, Indices

LEMMA SleepMaster == ASSUME TypeInt, MasterInv, NEW i \in Workers, Sleeping(i) PROVE MasterInv'
<1>1. /\ UNCHANGED <<nworkers, requested, job, curr, next, saved, leaked>>
      /\ pc'[0] = pc[0]
  BY Indices
     DEF Sleeping, SleepStep, Pool!FetchShutdown, Pool!OnBeforeThreadRemoved, Pool!ExitThread,
         Pool!FetchSleep, Pool!AnnounceSleep, LightWake, WakeUp, DeepSleep, SpuriousWake,
         Sleep, Pool!TakeJob, TypeInt, Pool!Goto, Goto, Pool!poolVars, Pool!jobVars,
         Pool!idleVars, Pool!history, poolVars, jobVars, idleVars, history
<1>2. QED
  BY <1>1 DEF MasterInv, InProgress, Prev
-----------------------------------------------------------------------------
(***************************************************************************)
(* The workers' places.                                                    *)
(***************************************************************************)
\* A worker that a step leaves where it is, with the master where it is.
LEMMA OtherWorker ==
  ASSUME NEW j \in Workers, WorkerAt(j), UNCHANGED <<nworkers, job, curr>>,
         pc'[0] = pc[0], pc'[j] = pc[j], scheduler'[j] = scheduler[j], task'[j] = task[j]
  PROVE  WorkerAt(j)'
BY DEF WorkerAt, InProgress, Absent, Resting, Waiting, Waking, OnJob, Calling, Settling,
       Leaving, Discharged, Prev

LEMMA ApiWorkers ==
  ASSUME TypeInt, FullPool, MasterInv, WorkerInv, ApiCall \/ CallRegion \/ CallLoop
  PROVE  WorkerInv'
<1> USE MaxThreadsAssumption, Indices
     DEF TypeInt, MasterInv, InProgress, Pool!Goto, Goto, Prev,
         Pool!poolVars, Pool!jobVars, Pool!idleVars, Pool!threadVars, Pool!history, NoJob,
         Pool!Threads, Threads, Pool!Workers, Workers, WorkerInv, WorkerAt, Absent, Resting,
         Waiting, Waking, OnJob, Calling, Settling, Leaving, Discharged
<1>1. ASSUME NEW n \in 1 .. MaxThreads, Pool!ResizeLazily(n) PROVE WorkerInv'
  BY <1>1 DEF Pool!ResizeLazily
<1>2. ASSUME NEW n \in 1 .. MaxThreads, Pool!ResizeUp(n) PROVE WorkerInv'
  BY <1>2 DEF Pool!ResizeUp
<1>3. ASSUME NEW n \in 1 .. MaxThreads, Pool!ResizeDown(n) PROVE WorkerInv'
  BY <1>3 DEF Pool!ResizeDown
<1>4. ASSUME NEW n \in 0 .. MaxThreads, Pool!ParallelRegion(n) PROVE WorkerInv'
  BY <1>4 DEF Pool!ParallelRegion, Pool!RegionWidth
<1>5. CASE Pool!ForkChild
  BY <1>5 DEF Pool!ForkChild
<1>6. CASE CallRegion
  <2>1. nthreads \in 0 .. MaxThreads
    BY DEF FullPool
  <2>2. Pool!ParallelRegion(nthreads)
    BY <1>6 DEF CallRegion
  <2>3. QED
    BY <1>4, <2>1, <2>2
<1>7. CASE CallLoop
  <2>1. PICK j : Start(j)
    BY <1>7 DEF CallLoop
  <2>2. QED
    BY <2>1 DEF Start
<1>8. QED
  BY <1>1, <1>2, <1>3, <1>4, <1>5, <1>6, <1>7 DEF ApiCall, Pool!ApiCall

LEMMA MasterWorkers ==
  ASSUME TypeInt, MasterInv, WorkerInv, Counted, WholeMaster \/ Pool!SpawnFails
  PROVE  WorkerInv'
<1> USE MaxThreadsAssumption, Indices
     DEF TypeInt, MasterInv, InProgress, Pool!Goto, Goto, Prev, Pool!Prev, Pool!AllStopped,
         Pool!poolVars, Pool!jobVars, Pool!idleVars, Pool!threadVars, Pool!history,
         poolVars, jobVars, idleVars, history, NoJob, Pool!NoJob, Pool!Threads, Threads, Workers,
         WorkerInv, WorkerAt, Absent, Resting, Waiting, Waking, OnJob, Calling, Settling,
         Leaving, Discharged
<1>1. CASE Pool!SpawnMaster
  BY <1>1 DEF Pool!SpawnMaster
<1>2. CASE Pool!Spawn
  BY <1>2 DEF Pool!Spawn, Pool!OnBeforeThreadAdded
<1>3. CASE Pool!SpawnFails
  BY <1>3 DEF Pool!SpawnFails, Pool!OnBeforeThreadAdded
<1>4. CASE Pool!JoinSpawnedByResize
  <2>1. \A j \in Workers : j < nworkers => Resting(j) \/ (Discharged(j) /\ Leaving(j))
    BY <1>4, JoinedWorkers DEF Pool!JoinSpawnedByResize
  <2>2. QED
    BY <1>4, <2>1 DEF Pool!JoinSpawnedByResize, Pool!ReturnToUser
<1>5. CASE Pool!JoinSpawnedByRegion
  <2>1. \A j \in Workers : j < nworkers => Resting(j) \/ (Discharged(j) /\ Leaving(j))
    BY <1>5, JoinedWorkers DEF Pool!JoinSpawnedByRegion
  <2>2. QED
    BY <1>5, <2>1 DEF Pool!JoinSpawnedByRegion, Pool!ReturnToUser
<1>6. CASE CountRunning
  BY <1>6 DEF CountRunning, Sleepers
<1>7. CASE SwapSleepTasks
  BY <1>7 DEF SwapSleepTasks
<1>8. CASE PostJob
  BY <1>8 DEF PostJob
<1>9. CASE NotifyAll
  <2>1. \A j \in Workers : /\ pc'[j] = pc[j] \/ (pc[j] = "deep" /\ pc'[j] = "woken")
                           /\ pc[j] \in Dozing => pc'[j] \in Dozing
    BY <1>9 DEF NotifyAll, Dozing
  <2>2. pc[0] = "signal" /\ pc'[0] = "fetch" /\ UNCHANGED <<nworkers, job, curr, scheduler, task>>
    BY <1>9 DEF NotifyAll
  <2>3. ASSUME NEW j \in Workers PROVE WorkerAt(j)'
    <3>1. CASE pc[j] \in Dozing
      <4>1. pc'[j] \in Dozing /\ j < nworkers /\ (Resting(j) \/ Waiting(j))
        BY <2>1, <3>1, PlaceByLabel
      <4>2. QED
        BY <2>2, <3>1, <4>1 DEF Dozing
    <3>2. CASE pc[j] \notin Dozing
      <4>1. pc'[j] = pc[j]
        BY <2>1, <3>2 DEF Dozing
      <4>2. QED
        BY <2>2, <3>2, <4>1
    <3>3. QED
      BY <3>1, <3>2
  <2>4. QED
    BY <2>3
<1>10. CASE Pool!JoinRegion
  <2>1. \A j \in Workers : j < nworkers => Resting(j) \/ (Discharged(j) /\ Leaving(j))
    BY <1>10, JoinedWorkers DEF Pool!JoinRegion
  <2>2. QED
    BY <1>10, <2>1 DEF Pool!JoinRegion, Pool!ReturnToUser
<1>11. CASE JoinLoop
  <2>1. \A j \in Workers : j < nworkers => Resting(j) \/ (Discharged(j) /\ Leaving(j))
    BY <1>11, JoinedWorkers DEF JoinLoop
  <2>2. QED
    BY <1>11, <2>1 DEF JoinLoop, Pool!ReturnToUser
<1>12. CASE Pool!JoinShutdown
  <2>1. \A j \in Workers : j < nworkers => Resting(j) \/ (Discharged(j) /\ Leaving(j))
    BY <1>12, JoinedWorkers DEF Pool!JoinShutdown
  <2>2. saved = "none"
    BY <1>12 DEF Pool!JoinShutdown
  <2>3. pc' = [pc EXCEPT ![0] = "reap"] /\ UNCHANGED job
    BY <1>12, <2>2 DEF Pool!JoinShutdown
  <2>4. QED
    BY <1>12, <2>1, <2>3 DEF Pool!JoinShutdown, Dozing
<1>13. CASE Pool!Reap
  <2>1. \A j \in Workers : IF pc[j] = "exited" THEN pc'[j] = "none" ELSE pc'[j] = pc[j]
    BY <1>13 DEF Pool!Reap
  <2>2. nworkers' = requested /\ pc'[0] = "user" /\ UNCHANGED <<curr, scheduler, task>>
    BY <1>13 DEF Pool!Reap
  <2>3. job.n = requested /\ requested < nworkers /\ pc[0] = "reap" /\ job.kind = "shutdown"
    BY <1>13 DEF Pool!Reap
  <2>4. \A j \in Workers : j >= requested /\ j < nworkers => pc[j] = "exited"
    BY <1>13 DEF Pool!Reap
  <2>5. QED
    BY <2>1, <2>2, <2>3, <2>4 DEF Dozing
<1>14. QED
  BY <1>1, <1>2, <1>3, <1>4, <1>5, <1>6, <1>7, <1>8, <1>9, <1>10, <1>11, <1>12, <1>13
     DEF WholeMaster, ResizeStep, AwakenStep

LEMMA JobWorkers ==
  ASSUME TypeInt, WorkerInv, NEW i \in Threads, Inside(i)
  PROVE  WorkerInv'
<1>1. ASSUME NEW j \in Workers, j # i PROVE WorkerAt(j)'
  <2>1. WorkerAt(j)
    BY DEF WorkerInv
  <2>2. pc'[j] = pc[j] /\ scheduler'[j] = scheduler[j] /\ UNCHANGED <<nworkers, job, curr, task>>
    BY <1>1, Indices DEF Inside
  <2>3. pc'[0] = pc[0] \/ (pc[0] \in InProgress /\ pc'[0] \in InProgress)
    BY Indices DEF Inside, Aboard, Calling, InProgress
  <2>4. CASE pc'[0] = pc[0]
    BY <2>1, <2>2, <2>4, OtherWorker
  <2>5. CASE pc[0] \in InProgress /\ pc'[0] \in InProgress
    BY <2>1, <2>2, <2>5
       DEF WorkerAt, InProgress, Absent, Resting, Waiting, Waking, OnJob, Calling, Settling,
           Leaving, Discharged, Prev
  <2>6. QED
    BY <2>3, <2>4, <2>5
<1>2. ASSUME i \in Workers PROVE WorkerAt(i)'
  <2>1. WorkerAt(i)
    BY <1>2 DEF WorkerInv
  <2>2. i < nworkers /\ OnJob(i) /\ pc[0] \in InProgress
    BY <1>2, <2>1, PlaceByLabel, Indices DEF Inside
  <2>3. pc'[0] = pc[0] /\ UNCHANGED <<nworkers, job>>
    BY <1>2, Indices DEF Inside
  <2>4. CASE pc'[i] \in Aboard /\ scheduler'[i] = scheduler[i]
             /\ (pc[i] = "fetch" => job.kind # "shutdown")
    <3>1. OnJob(i)'
      BY <2>2, <2>3, <2>4 DEF OnJob, Aboard, Calling
    <3>2. QED
      BY <1>2, <2>2, <2>3, <3>1, Indices DEF WorkerAt, InProgress, TypeInt
  <2>5. CASE ~Discharged(i) /\ pc'[i] = "fetch" /\ scheduler'[i] = "idle"
    <3>1. Settling(i)' /\ ~Discharged(i)'
      BY <2>3, <2>5 DEF Settling, Discharged
    <3>2. QED
      BY <1>2, <2>2, <2>3, <3>1, Indices DEF WorkerAt, InProgress, TypeInt
  <2>6. QED
    BY <1>2, <2>4, <2>5, Indices DEF Inside
<1>3. QED
  BY <1>1, <1>2 DEF WorkerInv

LEMMA SleepWorkers ==
  ASSUME TypeInt, MasterInv, WorkerInv, NEW i \in Workers, Sleeping(i)
  PROVE  WorkerInv'
<1> USE Indices DEF TypeInt, Pool!Goto, Goto, Pool!poolVars, Pool!jobVars, Pool!idleVars,
        Pool!history, poolVars, jobVars, idleVars, history
<1>0. WorkerAt(i)
  BY DEF WorkerInv
<1>1. /\ UNCHANGED <<nworkers, job, curr, next>> /\ pc'[0] = pc[0]
      /\ \A j \in Workers : j # i =>
           pc'[j] = pc[j] /\ scheduler'[j] = scheduler[j] /\ task'[j] = task[j]
  BY DEF Sleeping, SleepStep, Pool!FetchShutdown, Pool!OnBeforeThreadRemoved, Pool!ExitThread,
         Pool!FetchSleep, Pool!AnnounceSleep, LightWake, WakeUp, DeepSleep, SpuriousWake,
         Sleep, Pool!TakeJob
<1>2. ASSUME NEW j \in Workers, j # i PROVE WorkerAt(j)'
  BY <1>1, <1>2, OtherWorker DEF WorkerInv
<1> SUFFICES WorkerAt(i)'
  BY <1>2 DEF WorkerInv
<1> USE DEF Absent, Resting, Waiting, Waking, OnJob, Calling, Settling, Leaving, Discharged,
        InProgress
<1>3. CASE Pool!FetchShutdown(i)
  <2>1. i < nworkers /\ OnJob(i) /\ pc[0] \in InProgress
    BY <1>0, <1>3, PlaceByLabel DEF Pool!FetchShutdown, Pool!InJob, Aboard
  <2>2. Discharged(i)' /\ Leaving(i)'
    BY <1>3, <2>1 DEF Pool!FetchShutdown, Pool!InJob, Pool!ShutdownHasTask
  <2>3. QED
    BY <1>1, <2>1, <2>2 DEF WorkerAt
<1>4. CASE Pool!ExitThread(i)
  <2>1. i < nworkers /\ Discharged(i) /\ pc[0] \in InProgress \cup {"reap"}
    BY <1>0, <1>4, PlaceByLabel DEF Pool!ExitThread
  <2>2. Discharged(i)' /\ Leaving(i)'
    BY <1>4, <2>1 DEF Pool!ExitThread
  <2>3. QED
    BY <1>1, <2>1, <2>2 DEF WorkerAt
<1>5. CASE Pool!FetchSleep(i)
  <2>1. i < nworkers /\ pc[0] \in InProgress \cup {"spawn"} /\ ~(pc[0] # "spawn" /\ Discharged(i))
    BY <1>0, <1>5, PlaceByLabel DEF Pool!FetchSleep
  <2>2. Settling(i)' /\ (Discharged(i)' <=> Discharged(i))
    BY <1>1, <1>5 DEF Pool!FetchSleep
  <2>3. QED
    BY <1>1, <2>1, <2>2 DEF WorkerAt
<1>6. CASE Pool!AnnounceSleep(i)
  <2>1. /\ i < nworkers /\ Settling(i) /\ pc[0] \in InProgress \cup {"spawn"}
        /\ ~(pc[0] # "spawn" /\ Discharged(i))
    BY <1>0, <1>6, PlaceByLabel DEF Pool!AnnounceSleep
  <2>2. Resting(i)' /\ (Discharged(i)' <=> Discharged(i))
    BY <1>1, <1>6, <2>1 DEF Pool!AnnounceSleep, Dozing
  <2>3. QED
    BY <1>1, <2>1, <2>2 DEF WorkerAt
<1>7. CASE LightWake(i) \/ WakeUp(i) \/ DeepSleep(i) \/ SpuriousWake(i)
  <2>1. pc[i] \in Dozing /\ UNCHANGED <<scheduler, task>>
    BY <1>7 DEF LightWake, WakeUp, DeepSleep, SpuriousWake, Sleep, Dozing
  <2>2. i < nworkers /\ (Resting(i) \/ Waiting(i))
    BY <1>0, <2>1, PlaceByLabel
  <2>3. pc'[i] \in Dozing \/ (pc'[i] = "awake" /\ next[task[i]] = "job")
    BY <1>7 DEF LightWake, WakeUp, DeepSleep, SpuriousWake, Sleep, Dozing
  <2>4. CASE pc'[i] \in Dozing
    <3>1. (Resting(i) => Resting(i)') /\ (Waiting(i) => Waiting(i)')
      BY <1>1, <2>1, <2>4 DEF Prev
    <3>2. /\ Resting(i) => ~Waking(i) /\ ~OnJob(i) /\ ~Settling(i) /\ ~Leaving(i) /\ ~Waiting(i)
          /\ Waiting(i) => ~Waking(i) /\ ~OnJob(i) /\ ~Settling(i) /\ ~Leaving(i)
      BY DEF Dozing, Prev
    <3>3. QED
      BY <1>0, <1>1, <2>2, <3>1, <3>2 DEF WorkerAt
  <2>5. CASE pc'[i] = "awake" /\ next[task[i]] = "job"
    <3>1. task[i] = Prev /\ pc[0] \in InProgress
      BY <2>2, <2>5 DEF MasterInv
    <3>2. Waking(i)'
      BY <1>1, <2>1, <2>2, <2>5, <3>1 DEF Prev
    <3>3. QED
      BY <1>1, <2>2, <3>1, <3>2 DEF WorkerAt
  <2>6. QED
    BY <2>3, <2>4, <2>5
<1>8. CASE Pool!TakeJob(i)
  <2>1. i < nworkers /\ Waking(i) /\ pc[0] \in InProgress
    BY <1>0, <1>8, PlaceByLabel DEF Pool!TakeJob
  <2>2. next[task[i]] = "job"
    BY <2>1 DEF MasterInv
  <2>3. OnJob(i)'
    BY <1>8, <2>2 DEF Pool!TakeJob
  <2>4. QED
    BY <1>1, <2>1, <2>3 DEF WorkerAt
<1>9. QED
  BY <1>3, <1>4, <1>5, <1>6, <1>7, <1>8 DEF Sleeping, SleepStep
-----------------------------------------------------------------------------
(***************************************************************************)
(* The count.                                                              *)
(***************************************************************************)
\* A worker that is counted, whatever its sleep task, and one that is not.
Busy == {"fetch", "call", "catch", "abort", "drowsy", "awake"}
Gone == {"none", "shutdown", "exited"}

\* Steps that move no worker in or out of a sleep task do not touch the count.
LEMMA QuietStep ==
  ASSUME Counted, UNCHANGED <<curr, running, leaked>>, pc'[0] = "count" <=> pc[0] = "count",
         \A j \in Workers :
           \/ pc'[j] = pc[j] /\ task'[j] = task[j]
           \/ pc[j] \in Busy /\ pc'[j] \in Busy
           \/ pc[j] \in Gone /\ pc'[j] \in Gone
           \/ pc[j] \in Dozing /\ pc'[j] \in Dozing /\ task'[j] = task[j]
  PROVE  Counted'
<1>1. Awake' = Awake
  BY DEF Awake, Busy, Gone, Dozing
<1>2. QED
  BY <1>1 DEF Counted

LEMMA ApiCount ==
  ASSUME TypeInt, FullPool, Counted, ApiCall \/ CallRegion \/ CallLoop
  PROVE  Counted'
<1> USE Indices
     DEF TypeInt, Pool!Goto, Goto, Pool!poolVars, Pool!jobVars, Pool!idleVars, Pool!threadVars,
         Pool!history, Pool!Threads, Threads, Pool!Workers, Workers
<1>1. ASSUME NEW n \in 1 .. MaxThreads, Pool!ResizeLazily(n) PROVE Counted'
  BY <1>1, QuietStep DEF Pool!ResizeLazily
<1>2. ASSUME NEW n \in 1 .. MaxThreads, Pool!ResizeUp(n) PROVE Counted'
  BY <1>2, QuietStep DEF Pool!ResizeUp
<1>3. ASSUME NEW n \in 1 .. MaxThreads, Pool!ResizeDown(n) PROVE Counted'
  BY <1>3, QuietStep DEF Pool!ResizeDown
<1>4. ASSUME NEW n \in 0 .. MaxThreads, Pool!ParallelRegion(n) PROVE Counted'
  BY <1>4, QuietStep DEF Pool!ParallelRegion
<1>5. CASE Pool!ForkChild
  <2>1. Awake' = {}
    BY <1>5 DEF Pool!ForkChild, Awake
  <2>2. QED
    BY <1>5, <2>1, FS_EmptySet DEF Pool!ForkChild, Counted
<1>6. CASE CallRegion
  <2>1. nthreads \in 0 .. MaxThreads
    BY DEF FullPool
  <2>2. Pool!ParallelRegion(nthreads)
    BY <1>6 DEF CallRegion
  <2>3. QED
    BY <1>4, <2>1, <2>2
<1>7. CASE CallLoop
  <2>1. PICK j : Start(j)
    BY <1>7 DEF CallLoop
  <2>2. QED
    BY <2>1, QuietStep DEF Start
<1>8. QED
  BY <1>1, <1>2, <1>3, <1>4, <1>5, <1>6, <1>7 DEF ApiCall, Pool!ApiCall

LEMMA MasterCount ==
  ASSUME TypeInt, MasterInv, WorkerInv, Counted, WholeMaster \/ Pool!SpawnFails
  PROVE  Counted'
<1> USE MaxThreadsAssumption, Indices
     DEF TypeInt, Pool!Goto, Goto, Pool!poolVars, Pool!jobVars, Pool!idleVars, Pool!threadVars,
         Pool!history, poolVars, jobVars, idleVars, history, Pool!Threads, Threads, Workers
<1>1. CASE Pool!SpawnMaster
  BY <1>1, QuietStep DEF Pool!SpawnMaster
<1>2. CASE Pool!Spawn
  <2>1. nworkers \in Workers /\ pc[nworkers] = "none"
    BY <1>2 DEF Pool!Spawn, WorkerInv, WorkerAt, Absent
  <2>2. Awake' = Awake \cup {nworkers} /\ nworkers \notin Awake
    BY <1>2, <2>1 DEF Pool!Spawn, Awake
  <2>3. Cardinality(Awake') = Cardinality(Awake) + 1
    BY <2>2, AwakeIsFinite, FS_AddElement
  <2>4. QED
    BY <1>2, <2>3, AwakeIsFinite DEF Pool!Spawn, Pool!OnBeforeThreadAdded, Counted
<1>3. CASE Pool!SpawnFails
  <2>1. Awake' = Awake
    BY <1>3 DEF Pool!SpawnFails, Awake
  <2>2. QED
    BY <1>3, <2>1, AwakeIsFinite DEF Pool!SpawnFails, Pool!OnBeforeThreadAdded, Counted
<1>4. CASE Pool!JoinSpawnedByResize
  BY <1>4, QuietStep DEF Pool!JoinSpawnedByResize, Pool!ReturnToUser
<1>5. CASE Pool!JoinSpawnedByRegion
  BY <1>5, QuietStep DEF Pool!JoinSpawnedByRegion, Pool!ReturnToUser
<1>6. CASE CountRunning
  <2>1. pc[0] = "swap" /\ pc'[0] = "count" /\ nworkers > 0 /\ leaked = 0
    BY <1>6 DEF CountRunning, MasterInv
  <2>2. \A j \in Workers : IF j < nworkers THEN pc[j] \in Dozing ELSE pc[j] = "none"
    BY <2>1 DEF WorkerInv, WorkerAt, Absent, Resting
  <2>3. \A j \in Workers : pc'[j] = pc[j]
    BY <1>6 DEF CountRunning
  <2>4. Awake' = {j \in Workers : j < nworkers}
    BY <2>1, <2>2, <2>3 DEF Awake, Dozing
  <2>5. Awake' = 1 .. nworkers - 1
    BY <2>4
  <2>6. Cardinality(Awake') = nworkers - 1
    BY <2>1, <2>5, FS_Interval
  <2>7. QED
    BY <1>6, <2>1, <2>6 DEF CountRunning, Sleepers, Counted
<1>7. CASE SwapSleepTasks
  <2>1. pc[0] = "count" /\ pc'[0] = "post" /\ curr' = Prev /\ curr # Prev
    BY <1>7 DEF SwapSleepTasks, Prev
  <2>2. \A j \in Workers :
          /\ pc'[j] = pc[j] /\ task'[j] = task[j]
          /\ (pc[j] \in Dozing /\ task[j] = curr) \/ pc[j] = "none"
    BY <1>7, <2>1 DEF SwapSleepTasks, WorkerInv, WorkerAt, Absent, Resting
  <2>3. Awake' = Awake
    BY <2>1, <2>2 DEF Awake, Dozing
  <2>4. QED
    BY <1>7, <2>3 DEF SwapSleepTasks, Counted
<1>8. CASE PostJob
  BY <1>8, QuietStep DEF PostJob
<1>9. CASE NotifyAll
  <2>1. \A j \in Workers : pc'[j] = pc[j] \/ (pc[j] = "deep" /\ pc'[j] = "woken")
    BY <1>9 DEF NotifyAll
  <2>2. pc[0] = "signal" /\ pc'[0] = "fetch" /\ UNCHANGED <<curr, running, leaked, task>>
    BY <1>9 DEF NotifyAll
  <2>3. QED
    BY <2>1, <2>2, QuietStep DEF Dozing
<1>10. CASE Pool!JoinRegion
  BY <1>10, QuietStep DEF Pool!JoinRegion, Pool!ReturnToUser
<1>11. CASE JoinLoop
  BY <1>11, QuietStep DEF JoinLoop, Pool!ReturnToUser
<1>12. CASE Pool!JoinShutdown
  BY <1>12, QuietStep DEF Pool!JoinShutdown, Pool!ReturnToUser
<1>13. CASE Pool!Reap
  BY <1>13, QuietStep DEF Pool!Reap, Gone
<1>14. QED
  BY <1>1, <1>2, <1>3, <1>4, <1>5, <1>6, <1>7, <1>8, <1>9, <1>10, <1>11, <1>12, <1>13
     DEF WholeMaster, ResizeStep, AwakenStep

LEMMA JobCount == ASSUME TypeInt, Counted, NEW i \in Threads, Inside(i) PROVE Counted'
<1>1. UNCHANGED <<curr, running, leaked, task>>
  BY DEF Inside
<1>2. pc'[0] = "count" <=> pc[0] = "count"
  BY Indices DEF Inside, Aboard, Calling
<1>3. \A j \in Workers : pc'[j] = pc[j] \/ (pc[j] \in Busy /\ pc'[j] \in Busy)
  BY Indices DEF Inside, Aboard, Calling, Busy
<1>4. QED
  BY <1>1, <1>2, <1>3, QuietStep

LEMMA SleepCount ==
  ASSUME TypeInt, MasterInv, WorkerInv, Counted, NEW i \in Workers, Sleeping(i)
  PROVE  Counted'
<1> USE Indices DEF TypeInt, Pool!Goto, Goto, Pool!poolVars, Pool!jobVars, Pool!idleVars,
        Pool!history, poolVars, jobVars, idleVars, history
<1>0. WorkerAt(i)
  BY DEF WorkerInv
<1>1. CASE Pool!FetchShutdown(i)
  <2>1. Awake' = Awake \ {i} /\ i \in Awake
    BY <1>1 DEF Pool!FetchShutdown, Pool!InJob, Awake
  <2>2. Cardinality(Awake') = Cardinality(Awake) - 1
    BY <2>1, AwakeIsFinite, FS_RemoveElement
  <2>3. QED
    BY <1>1, <2>2, AwakeIsFinite DEF Pool!FetchShutdown, Pool!OnBeforeThreadRemoved, Counted
<1>2. CASE Pool!ExitThread(i)
  BY <1>2, QuietStep DEF Pool!ExitThread, Gone
<1>3. CASE Pool!FetchSleep(i)
  BY <1>3, QuietStep DEF Pool!FetchSleep, Busy
<1>4. CASE Pool!AnnounceSleep(i)
  <2>1. task[i] = curr /\ pc[0] # "count"
    BY <1>0, <1>4, PlaceByLabel DEF Pool!AnnounceSleep, Settling, InProgress
  <2>2. Awake' = Awake \ {i} /\ i \in Awake
    BY <1>4, <2>1 DEF Pool!AnnounceSleep, Awake
  <2>3. Cardinality(Awake') = Cardinality(Awake) - 1
    BY <2>2, AwakeIsFinite, FS_RemoveElement
  <2>4. QED
    BY <1>4, <2>3, AwakeIsFinite DEF Pool!AnnounceSleep, Counted
<1>5. CASE LightWake(i) \/ WakeUp(i) \/ DeepSleep(i) \/ SpuriousWake(i)
  <2>1. /\ UNCHANGED <<curr, running, leaked, task>> /\ pc[i] \in Dozing /\ pc'[0] = pc[0]
        /\ \A j \in Workers : j # i => pc'[j] = pc[j]
    BY <1>5 DEF LightWake, WakeUp, DeepSleep, SpuriousWake, Sleep, Dozing
  <2>2. pc'[i] \in Dozing \/ (pc'[i] = "awake" /\ next[task[i]] = "job")
    BY <1>5 DEF LightWake, WakeUp, DeepSleep, SpuriousWake, Sleep, Dozing
  <2>3. CASE pc'[i] \in Dozing
    BY <2>1, <2>3, QuietStep
  <2>4. CASE pc'[i] = "awake" /\ next[task[i]] = "job"
    <3>1. task[i] # curr
      BY <2>4 DEF MasterInv
    <3>2. Awake' = Awake
      BY <2>1, <2>4, <3>1 DEF Awake, Dozing
    <3>3. QED
      BY <2>1, <3>2 DEF Counted
  <2>5. QED
    BY <2>2, <2>3, <2>4
<1>6. CASE Pool!TakeJob(i)
  <2>1. Waking(i) /\ pc[0] \in InProgress
    BY <1>0, <1>6, PlaceByLabel DEF Pool!TakeJob
  <2>2. next[task[i]] = "job"
    BY <2>1 DEF MasterInv, Waking
  <2>3. QED
    BY <1>6, <2>2, QuietStep DEF Pool!TakeJob, Busy
<1>7. QED
  BY <1>1, <1>2, <1>3, <1>4, <1>5, <1>6 DEF Sleeping, SleepStep

LEMMA StepKeepsPoolInv == ASSUME IInv, PoolStep PROVE PoolInv'
<1>0. TypeInt /\ MasterInv /\ WorkerInv /\ Counted /\ FullPool
  BY DEF IInv, PoolInv
<1>1. TypeInt'
  BY <1>0, StepType
<1>2. CASE ApiCall \/ CallRegion \/ CallLoop
  BY <1>0, <1>1, <1>2, ApiMaster, ApiWorkers, ApiCount DEF PoolInv
<1>3. CASE WholeMaster \/ Pool!SpawnFails
  BY <1>0, <1>1, <1>3, MasterMaster, MasterWorkers, MasterCount DEF PoolInv
<1>4. CASE UNCHANGED vars
  BY <1>0, <1>4
     DEF PoolInv, vars, poolVars, jobVars, idleVars, threadVars, history, TypeInt, MasterInv,
         WorkerInv, WorkerAt, Absent, Resting, Waiting, Waking, OnJob, Settling, Leaving,
         Discharged, Prev, Counted, Awake
<1>5. ASSUME NEW i \in Threads, JobStep(i) PROVE PoolInv'
  <2>1. Inside(i) \/ UNCHANGED vars
    BY <1>0, <1>5, JobIsInside
  <2>2. CASE Inside(i)
    BY <1>0, <1>1, <2>2, JobMaster, JobWorkers, JobCount DEF PoolInv
  <2>3. QED
    BY <1>4, <2>1, <2>2
<1>6. ASSUME NEW i \in Workers, Sleeping(i) PROVE PoolInv'
  BY <1>0, <1>1, <1>6, SleepMaster, SleepWorkers, SleepCount DEF PoolInv
<1>7. QED
  BY <1>2, <1>3, <1>5, <1>6 DEF PoolStep
-----------------------------------------------------------------------------
(***************************************************************************)
(* The loops and the teams.                                                *)
(***************************************************************************)
\* What makes a behaviour one with a loop, with an ordered loop, or with neither.
shape == <<entry, script, nthreads, n_threads>>

LEMMA TeamStepShape ==
  ASSUME NEW i,
         Team!Step(i) \/ Team!FetchIteration(i) \/ Team!FetchNothing(i) \/ Team!CallIteration(i)
           \/ Team!Throw(i) \/ Team!Catch(i) \/ Team!AbortAgain(i)
  PROVE  UNCHANGED <<entry, script, nthreads>>
BY DEF Team!Step, Team!Leave, Team!ArriveAtBarrier, Team!PassBarrier, Team!StaticLoop,
   Team!LookUpScheduler, Team!CreateScheduler, Team!FetchIteration, Team!FetchNothing,
   Team!CallIteration, Team!Throw, Team!Catch, Team!AbortAgain, Team!ThrowInRegion, Team!team

LEMMA LoopStepShape == ASSUME NEW i, LoopStep(i) PROVE UNCHANGED <<entry, script, nthreads>>
<1>1. CASE BeginRegion(i) \/ EndRegion(i) \/ LeaveRegion(i)
  BY <1>1 DEF BeginRegion, EndRegion, LeaveRegion, teamVars
<1>2. CASE InRegion(i) \/ FetchIteration(i) \/ EndIteration(i)
  BY <1>2, TeamStepShape DEF InRegion, FetchIteration, EndIteration
<1>3. CASE FetchNothing(i)
  BY <1>3, TeamStepShape DEF FetchNothing, teamVars
<1>4. CASE CatchInLoop(i) \/ AbortLoop(i)
  BY <1>4, TeamStepShape DEF CatchInLoop, AbortLoop
<1>5. QED
  BY <1>1, <1>2, <1>3, <1>4 DEF LoopStep

LEMMA TaskShape ==
  ASSUME NEW i,
         \/ Sch!FetchOrder(i) \/ Sch!FetchFinish(i) \/ Sch!FetchStart(i) \/ Sch!FetchWait(i)
         \/ Sch!FetchNothing(i) \/ Sch!TurnAway(i) \/ Sch!Execute(i)
         \/ (\E n \in Resizes : Sch!SetIterations(i, n))
         \/ Sch!Return(i) \/ Sch!Throw(i) \/ Sch!ExecuteCancelled(i) \/ Sch!AbortAgain(i)
  PROVE  UNCHANGED n_threads
BY DEF Sch!FetchOrder, Sch!FetchFinish, Sch!FetchStart, Sch!FetchWait, Sch!FetchNothing,
   Sch!TurnAway, Sch!Execute, Sch!SetIterations, Sch!Return, Sch!Throw, Sch!ExecuteCancelled,
   Sch!AbortAgain, Sch!Assign, Sch!shape

LEMMA TaskStepShape == ASSUME NEW i, TaskStep(i) PROVE UNCHANGED n_threads
<1>1. CASE GetTask(i) \/ GetWaitTask(i) \/ GetNothing(i) \/ Execute(i)
  BY <1>1, TaskShape DEF GetTask, GetWaitTask, GetNothing, Execute
<1>2. CASE EndTask(i) \/ AbortAgain(i)
  BY <1>2, TaskShape DEF EndTask, AbortAgain
<1>3. CASE CatchAndAbort(i)
  BY <1>3 DEF CatchAndAbort, Sch!Catch, Sch!shape
<1>4. QED
  BY <1>1, <1>2, <1>3 DEF TaskStep

LEMMA ShapeKept == [LoopNext]_allVars => UNCHANGED shape
<1>1. ASSUME UNCHANGED <<teamVars, schVars>> PROVE UNCHANGED shape
  BY <1>1 DEF teamVars, schVars, shape
<1>2. ASSUME NEW i \in Threads, InLoop(i) PROVE UNCHANGED shape
  BY <1>1, <1>2, LoopStepShape, TaskStepShape DEF InLoop, teamVars, schVars, shape
<1>3. ASSUME LoopMaster PROVE UNCHANGED shape
  BY <1>1, <1>2, <1>3, Indices DEF LoopMaster
<1>4. ASSUME NEW i \in Workers, LoopWorker(i) PROVE UNCHANGED shape
  BY <1>1, <1>2, <1>4, Indices DEF LoopWorker
<1>5. QED
  BY <1>1, <1>3, <1>4 DEF LoopNext, Call, Idle, allVars

\* What the steps of the pool do to the job, the size of the pool and the calls.
LEMMA ApiFrame ==
  ASSUME ApiCall \/ CallRegion
  PROVE  pc[0] = "user" /\ (job' = job \/ job'.kind \in {"once", "shutdown"})
BY DEF ApiCall, Pool!ApiCall, CallRegion, Pool!ResizeLazily, Pool!ResizeUp, Pool!ResizeDown,
   Pool!ParallelRegion, Pool!ForkChild, Pool!jobVars

LEMMA MasterFrame ==
  ASSUME WholeMaster \/ Pool!SpawnFails
  PROVE  /\ UNCHANGED <<calls, failed, done>>
         /\ job' = job \/ job' = NoJob
         /\ WholeMaster => UNCHANGED requested
BY DEF WholeMaster, ResizeStep, AwakenStep, Pool!SpawnMaster, Pool!Spawn, Pool!SpawnFails,
   Pool!JoinSpawnedByResize, Pool!JoinSpawnedByRegion, Pool!JoinShutdown, Pool!Reap,
   CountRunning, SwapSleepTasks, PostJob, NotifyAll, Pool!JoinRegion, JoinLoop,
   Pool!ReturnToUser, Pool!poolVars, Pool!jobVars, Pool!history, poolVars, jobVars, history,
   Pool!NoJob, NoJob

LEMMA JobFrame ==
  ASSUME TypeInt, NEW i \in Threads, JobStep(i)
  PROVE  UNCHANGED <<job, requested, nworkers>> /\ (NoCalls => UNCHANGED <<calls, failed>>)
<1>1. UNCHANGED <<job, requested, nworkers>>
  BY JobIsInside DEF Inside, vars, poolVars, jobVars
<1>2. ASSUME NoCalls PROVE UNCHANGED <<calls, failed>>
  BY <1>2 DEF JobStep, Calls, Iterate, Catch, Abort, Leave, LeaveJob, vars, history
<1>3. QED
  BY <1>1, <1>2

LEMMA SleepFrame ==
  ASSUME TypeInt, NEW i \in Workers, Sleeping(i)
  PROVE  UNCHANGED <<job, requested, nworkers, calls, failed, done, outcome>>
BY DEF Sleeping, SleepStep, Pool!FetchShutdown, Pool!ExitThread, Pool!FetchSleep,
   Pool!AnnounceSleep, LightWake, WakeUp, DeepSleep, SpuriousWake, Sleep, Pool!TakeJob,
   Pool!poolVars, Pool!jobVars, Pool!history, poolVars, jobVars, history

LEMMA StepKeepsFull == ASSUME IInv, [LoopNext]_allVars, PoolStep PROVE FullPool'
<1>1. UNCHANGED <<nthreads, n_threads>> /\ Plain' = Plain
  BY ShapeKept DEF shape, Plain, Looped, Ordered
<1>2. ASSUME ~Plain PROVE UNCHANGED requested
  <2>1. TypeInt
    BY DEF IInv, PoolInv
  <2>2. CASE CallRegion
    BY <2>2 DEF CallRegion, Pool!ParallelRegion
  <2>3. CASE CallLoop
    BY <2>3 DEF CallLoop, Start
  <2>4. QED
    BY <1>2, <2>1, <2>2, <2>3, MasterFrame, JobFrame, SleepFrame DEF PoolStep
<1>3. QED
  BY <1>1, <1>2 DEF IInv, FullPool

LEMMA DynamicStep ==
  ASSUME NEW i \in Threads, entry = "dynamic", LoopStep(i),
         tpc = [k \in Threads |-> tpc[k]], \A k \in Threads : tpc[k] # "threw"
  PROVE  tpc' = [k \in Threads |-> tpc'[k]] /\ \A k \in Threads : tpc'[k] # "threw"
<1>1. CASE BeginRegion(i) \/ EndRegion(i) \/ LeaveRegion(i)
  BY <1>1 DEF BeginRegion, EndRegion, LeaveRegion, teamVars
<1>2. CASE FetchIteration(i)
  BY <1>2 DEF FetchIteration, Team!FetchIteration, Team!Goto
<1>3. CASE FetchNothing(i)
  BY <1>3 DEF FetchNothing, Team!FetchNothing, Team!Goto, teamVars
<1>4. CASE EndIteration(i)
  BY <1>4 DEF EndIteration, Team!CallIteration, Team!Throw, Team!Goto
<1>5. CASE CatchInLoop(i) \/ AbortLoop(i)
  BY <1>5 DEF CatchInLoop, AbortLoop, Team!Catch, Team!AbortAgain, Team!Goto
<1>6. QED
  BY <1>1, <1>2, <1>3, <1>4, <1>5 DEF LoopStep, InRegion

LEMMA StepKeepsTeam ==
  ASSUME [LoopNext]_allVars, Looped, ~Ordered, entry = "dynamic",
         tpc = [k \in Threads |-> tpc[k]], \A k \in Threads : tpc[k] # "threw"
  PROVE  tpc' = [k \in Threads |-> tpc'[k]] /\ \A k \in Threads : tpc'[k] # "threw"
<1>1. CASE UNCHANGED teamVars
  BY <1>1 DEF teamVars
<1>2. ASSUME NEW i \in Threads, InLoop(i) PROVE UNCHANGED teamVars \/ LoopStep(i)
  BY <1>2 DEF InLoop
<1>3. CASE \E i \in Threads : LoopStep(i)
  BY <1>3, DynamicStep
<1>4. CASE LoopMaster
  BY <1>1, <1>2, <1>3, <1>4, Indices DEF LoopMaster
<1>5. ASSUME NEW i \in Workers, LoopWorker(i)
      PROVE  UNCHANGED teamVars \/ \E k \in Threads : LoopStep(k)
  BY <1>2, <1>5, Indices DEF LoopWorker
<1>6. QED
  BY <1>1, <1>3, <1>4, <1>5 DEF LoopNext, Call, Idle, allVars, Plain

LEMMA StepKeepsKinds == ASSUME IInv, [LoopNext]_allVars, PoolStep PROVE Kinds'
<1>1. /\ Plain' = Plain /\ Looped' = Looped /\ Ordered' = Ordered /\ entry' = entry
      /\ NoCalls' = NoCalls
  BY ShapeKept DEF shape, Plain, Looped, Ordered, NoCalls
<1>2. Kinds /\ TypeInt /\ (NoCalls => ~Plain)
  BY DEF IInv, PoolInv, NoCalls, Plain
<1>3. Looped /\ entry = "dynamic" =>
        tpc' = [k \in Threads |-> tpc'[k]] /\ \A k \in Threads : tpc'[k] # "threw"
  BY <1>2, StepKeepsTeam DEF Kinds
<1>4. NoCalls => UNCHANGED <<calls, failed>>
  <2>1. ASSUME CallLoop PROVE UNCHANGED <<calls, failed>>
    BY <2>1 DEF CallLoop
  <2>2. ASSUME NEW i \in Threads, JobStep(i), NoCalls PROVE UNCHANGED <<calls, failed>>
    BY <1>2, <2>2, JobFrame
  <2>3. ASSUME Looped, CallRegion PROVE ~NoCalls
    BY <1>2, <2>3 DEF CallRegion, NoCalls, Kinds
  <2>4. QED
    BY <1>2, <2>1, <2>2, <2>3, MasterFrame, SleepFrame DEF PoolStep
<1>5. \/ job'.kind \in {job.kind, "none"}
      \/ Plain /\ job'.kind \in {"once", "shutdown"}
      \/ Looped /\ entry # "dynamic" /\ job'.kind = "once"
      \/ Looped /\ entry = "dynamic" /\ job'.kind = "dynamic"
      \/ Ordered /\ job'.kind = "ordered"
  <2>1. CASE Plain /\ ApiCall
    BY <2>1, ApiFrame
  <2>2. CASE Looped /\ CallRegion
    BY <2>2 DEF CallRegion, Pool!ParallelRegion
  <2>3. CASE CallLoop
    BY <2>3 DEF CallLoop, Start
  <2>4. QED
    BY <1>2, <2>1, <2>2, <2>3, MasterFrame, JobFrame, SleepFrame DEF PoolStep, NoJob
<1>6. Plain => ~Looped /\ ~Ordered
  BY DEF Plain
<1>7. QED
  BY <1>1, <1>2, <1>3, <1>4, <1>5, <1>6 DEF Kinds
-----------------------------------------------------------------------------
(***************************************************************************)
(* parallel_region() as a fork and a join.                                 *)
(***************************************************************************)
\* What a region looks like from outside.
Seen == IF job.kind = "once" THEN job.n ELSE 0
Finished == {i \in Threads : calls[i] = 1 /\ pc[i] \notin {"call", "catch"}}

\* The ways in which a step of the pool looks from outside.
LEMMA Stutters ==
  ASSUME Seen' = Seen, Finished' = Finished, Failed' = Failed, outcome' = outcome
  PROVE  [Pool!ForkJoin!Next]_(Pool!ForkJoin!vars)
BY DEF Seen, Finished, Failed, Pool!ForkJoin!vars, Pool!Threads, Threads

LEMMA Begins ==
  ASSUME Seen = 0, NEW n \in 1 .. MaxThreads, Seen' = n, Finished' = {}, Failed' = {},
         outcome' = outcome
  PROVE  [Pool!ForkJoin!Next]_(Pool!ForkJoin!vars)
BY DEF Seen, Finished, Failed, Pool!ForkJoin!Next, Pool!ForkJoin!Begin, Pool!Threads, Threads

LEMMA Finishes ==
  ASSUME NEW i \in Threads, i \in 0 .. Seen - 1, i \notin Finished, NEW fails \in BOOLEAN,
         Finished' = Finished \cup {i}, Failed' = IF fails THEN Failed \cup {i} ELSE Failed,
         Seen' = Seen, outcome' = outcome
  PROVE  [Pool!ForkJoin!Next]_(Pool!ForkJoin!vars)
<1>1. Pool!ForkJoin!Finish(i, fails)
  BY DEF Seen, Finished, Failed, Pool!ForkJoin!Finish, Pool!Threads, Threads
<1>2. QED
  BY <1>1 DEF Pool!ForkJoin!Next, Pool!ForkJoin!Work, Threads

LEMMA Returns ==
  ASSUME Seen > 0, Finished = 0 .. Seen - 1, Seen' = 0, Finished' = Finished, Failed' = Failed,
         (outcome' # "none") = (Failed # {})
  PROVE  [Pool!ForkJoin!Next]_(Pool!ForkJoin!vars)
BY DEF Seen, Finished, Failed, Pool!ForkJoin!Next, Pool!ForkJoin!Return, Pool!Threads, Threads

\* A step that no call of `f` has a part in.
LEMMA QuietForRegion ==
  ASSUME TypeInt, UNCHANGED <<calls, failed>>,
         \A i \in Threads : pc'[i] = pc[i] \/ {pc[i], pc'[i]} \cap {"call", "catch"} = {}
  PROVE  Finished' = Finished /\ Failed' = Failed
<1>1. failed \subseteq Threads
  BY DEF TypeInt
<1>2. ASSUME NEW i \in Threads
      PROVE  /\ pc'[i] \in {"call", "catch"} <=> pc[i] \in {"call", "catch"}
             /\ pc'[i] = "catch" <=> pc[i] = "catch"
  <2>1. CASE pc'[i] = pc[i]
    BY <2>1
  <2>2. CASE pc[i] \notin {"call", "catch"} /\ pc'[i] \notin {"call", "catch"}
    BY <2>2
  <2>3. QED
    BY <2>1, <2>2
<1>3. QED
  BY <1>1, <1>2 DEF Finished, Failed

\* A step outside of all regions.
LEMMA NoRegion ==
  ASSUME TypeInt, job.kind # "once", job'.kind # "once", UNCHANGED <<calls, failed, outcome>>,
         \A i \in Threads : pc'[i] = pc[i] \/ {pc[i], pc'[i]} \cap {"call", "catch"} = {},
         nworkers' = 0 => saved' = "none",
         pc'[0] = "spawn" /\ job' # NoJob => saved' = "none"
  PROVE  Region' /\ [Pool!ForkJoin!Next]_(Pool!ForkJoin!vars)
BY QuietForRegion, Stutters DEF Region, Seen

\* A call of the user finds no thread in a job.
LEMMA AllCalm ==
  ASSUME PoolInv, pc[0] \notin InProgress
  PROVE  /\ \A i \in Threads : pc[i] \notin Calling /\ pc[i] \notin {"call", "catch"}
         /\ \A i \in Workers : ~OnJob(i)
<1>1. pc[0] \notin Calling
  BY DEF InProgress, Calling
<1>2. ASSUME NEW i \in Workers PROVE pc[i] \notin Calling /\ ~OnJob(i)
  <2>1. WorkerAt(i) /\ i \in Int /\ nworkers \in Int
    BY MaxThreadsAssumption DEF PoolInv, WorkerInv, TypeInt, Workers
  <2>2. pc[0] \in {"user", "spawn", "swap", "count", "post", "reap"}
    BY DEF PoolInv, TypeInt, Pool!MasterLabels, InProgress
  <2>3. Absent(i) \/ Resting(i) \/ Waiting(i) \/ Settling(i) \/ Leaving(i)
    BY <2>1, <2>2 DEF WorkerAt
  <2>4. QED
    BY <2>3 DEF Absent, Resting, Waiting, Settling, Leaving, OnJob, Dozing, Calling
<1>3. QED
  BY <1>1, <1>2, Indices DEF Calling

\* parallel_region() begins.
LEMMA RegionBegins ==
  ASSUME IInv, PoolInv', NEW n \in 0 .. MaxThreads, Pool!ParallelRegion(n)
  PROVE  Region' /\ [Pool!ForkJoin!Next]_(Pool!ForkJoin!vars)
<1> USE Indices
<1>0. /\ TypeInt /\ PoolInv /\ Region
      /\ pc[0] = "user" /\ job = NoJob /\ requested \in 1 .. MaxThreads
      /\ leaked = 0 /\ MaxThreads \in Nat \ {0}
  BY MaxThreadsAssumption DEF IInv, PoolInv, TypeInt, MasterInv, Pool!ParallelRegion
<1>1. Pool!RegionWidth(n) \in 1 .. requested
  BY <1>0 DEF Pool!RegionWidth
<1> DEFINE w == Pool!RegionWidth(n)
<1>2. /\ job' = [kind |-> "once", n |-> w] /\ requested' = requested /\ nworkers' = nworkers
      /\ done' = [i \in Threads |-> FALSE] /\ calls' = [i \in Threads |-> 0] /\ failed' = {}
      /\ outcome' = outcome
      /\ pc'[0] \in {"spawn", "swap"} /\ (pc'[0] = "spawn" => nworkers = 0)
      /\ \A i \in Threads : i # 0 => pc'[i] = pc[i]
      /\ saved = "none" => saved' = "none"
      /\ leaked' = leaked
  BY <1>0 DEF Pool!ParallelRegion, Pool!Goto, TypeInt, Pool!Aged, Pool!Threads, Threads
<1> HIDE DEF w
<1>3. \A i \in Threads : pc'[i] \notin Calling
  BY <1>0, <1>2, AllCalm DEF InProgress, Calling
<1>4. Finished' = {} /\ Failed' = {} /\ Seen = 0 /\ Seen' = w
  BY <1>0, <1>2 DEF Finished, Failed, Seen, NoJob
<1>5. w \in 1 .. MaxThreads
  BY <1>0, <1>1 DEF w
<1>6. \A i \in Threads : Called(i)' /\ Came(i)'
  <2> SUFFICES ASSUME NEW i \in Threads PROVE Called(i)' /\ Came(i)'
    OBVIOUS
  <2>1. pc'[i] \notin Calling
    BY <1>3
  <2>2. Called(i)'
    BY <1>2, <2>1 DEF Called, Calling
  <2>3. pc'[0] \notin InProgress
    BY <1>2 DEF InProgress
  <2>4. QED
    BY <2>2, <2>3 DEF Came
<1>7. Region'
  <2>1. w > 0 /\ w <= requested
    BY <1>0, <1>1 DEF w
  <2>2. (nworkers' = 0 => saved' = "none") /\ (pc'[0] = "spawn" => saved' = "none")
    BY <1>0, <1>2 DEF Region
  <2>3. QED
    BY <1>2, <1>6, <2>1, <2>2 DEF Region
<1>8. QED
  BY <1>2, <1>4, <1>5, <1>7, Begins

\* Any other call of the user is none.
LEMMA CallsOfUser ==
  ASSUME IInv, PoolInv', ApiCall \/ CallRegion \/ CallLoop
  PROVE  Region' /\ [Pool!ForkJoin!Next]_(Pool!ForkJoin!vars)
<1> USE Indices
<1>1. TypeInt /\ PoolInv /\ Region /\ FullPool
  BY DEF IInv, PoolInv
<1>2. CASE pc[0] # "user"
  BY <1>2 DEF ApiCall, Pool!ApiCall, CallRegion, CallLoop, Start, Pool!ResizeLazily,
     Pool!ResizeUp, Pool!ResizeDown, Pool!ParallelRegion, Pool!ForkChild
<1> SUFFICES ASSUME pc[0] = "user" PROVE Region' /\ [Pool!ForkJoin!Next]_(Pool!ForkJoin!vars)
  BY <1>2
<1>3. /\ job = NoJob /\ job.kind # "once"
      /\ \A i \in Threads : {pc[i]} \cap {"call", "catch"} = {}
  BY <1>1, AllCalm DEF PoolInv, MasterInv, NoJob, InProgress
<1>4. nworkers = 0 => Pool!Aged(saved) = "none"
  BY <1>1 DEF Region, Pool!Aged
<1> USE DEF Pool!Goto, Goto, Pool!poolVars, Pool!jobVars, Pool!idleVars, Pool!threadVars,
        Pool!history
<1>5. ASSUME NEW n \in 1 .. MaxThreads,
             Pool!ResizeLazily(n) \/ Pool!ResizeUp(n) \/ Pool!ResizeDown(n)
      PROVE  Region' /\ [Pool!ForkJoin!Next]_(Pool!ForkJoin!vars)
  <2>1. UNCHANGED <<calls, failed, outcome, nworkers>> /\ saved' = Pool!Aged(saved)
    BY <1>5 DEF Pool!ResizeLazily, Pool!ResizeUp, Pool!ResizeDown
  <2>2. job'.kind # "once" /\ (pc'[0] = "spawn" => job' = NoJob)
    BY <1>1, <1>3, <1>5 DEF Pool!ResizeLazily, Pool!ResizeUp, Pool!ResizeDown, TypeInt
  <2>3. \A i \in Threads : pc'[i] = pc[i] \/ {pc[i], pc'[i]} \cap {"call", "catch"} = {}
    BY <1>1, <1>5 DEF Pool!ResizeLazily, Pool!ResizeUp, Pool!ResizeDown, TypeInt
  <2>4. QED
    BY <1>1, <1>3, <1>4, <2>1, <2>2, <2>3, NoRegion
<1>6. CASE Pool!ForkChild
  <2>1. UNCHANGED <<calls, failed, outcome, job>> /\ saved' = "none"
    BY <1>6 DEF Pool!ForkChild
  <2>2. \A i \in Threads : {pc[i], pc'[i]} \cap {"call", "catch"} = {}
    BY <1>3, <1>6 DEF Pool!ForkChild, Pool!Threads, Threads
  <2>3. QED
    BY <1>1, <1>3, <2>1, <2>2, NoRegion
<1>7. CASE CallRegion
  <2>1. nthreads \in 0 .. MaxThreads
    BY <1>1 DEF FullPool
  <2>2. Pool!ParallelRegion(nthreads)
    BY <1>7 DEF CallRegion
  <2>3. QED
    BY <2>1, <2>2, RegionBegins
<1>8. CASE CallLoop
  <2>1. PICK j \in [kind : {"none", "dynamic", "ordered"}, n : 0 .. MaxThreads] : Start(j)
    BY <1>8 DEF CallLoop
  <2>2. UNCHANGED <<calls, failed, outcome, nworkers, saved>>
    BY <1>8, <2>1 DEF CallLoop, Start
  <2>3. job'.kind # "once"
    BY <2>1 DEF Start
  <2>4. pc'[0] = "spawn" => nworkers = 0
    BY <1>1, <2>1 DEF Start, TypeInt
  <2>5. \A i \in Threads : pc'[i] = pc[i] \/ {pc[i], pc'[i]} \cap {"call", "catch"} = {}
    BY <1>1, <2>1 DEF Start, TypeInt
  <2>6. nworkers = 0 => saved = "none"
    BY <1>1 DEF Region
  <2>7. QED
    BY <1>1, <1>3, <2>2, <2>3, <2>4, <2>5, <2>6, NoRegion
<1>9. QED
  BY <1>5, <1>6, <1>7, <1>8, RegionBegins DEF ApiCall, Pool!ApiCall

\* A step that changes neither the job nor the calls.
LEMMA KeepsRegion ==
  ASSUME TypeInt, Region, UNCHANGED <<job, done, calls, failed, outcome>>,
         leaked' = 0 => leaked = 0 /\ requested' = requested,
         nworkers' = 0 => saved' = "none",
         pc'[0] = "spawn" /\ job # NoJob => saved' = "none",
         pc[0] \in InProgress => pc'[0] \in InProgress,
         \A i \in Threads : pc'[i] = pc[i] \/ (pc[i] \notin Calling /\ pc'[i] \notin Calling),
         job.kind = "once" /\ pc'[0] \notin {"spawn", "swap"} =>
           saved' = IF Failed # {} THEN "current" ELSE "none",
         \A i \in Threads : job.kind = "once" /\ pc'[0] \in InProgress /\ Back(i)' =>
           pc[0] \in InProgress /\ Back(i)
  PROVE  Region' /\ [Pool!ForkJoin!Next]_(Pool!ForkJoin!vars)
<1>1. \A i \in Threads : pc'[i] = pc[i] \/ {pc[i], pc'[i]} \cap {"call", "catch"} = {}
  BY DEF Calling
<1>2. Finished' = Finished /\ Failed' = Failed /\ Seen' = Seen
  BY <1>1, QuietForRegion DEF Seen
<1>3. ASSUME job.kind = "once", NEW i \in Threads PROVE Called(i)' /\ Came(i)'
  <2>1. Called(i) /\ Came(i)
    BY <1>3 DEF Region
  <2>2. Called(i)'
    <3>1. CASE pc'[i] = pc[i]
      BY <2>1, <3>1 DEF Called
    <3>2. CASE pc'[i] \notin Calling
      BY <2>1, <3>2 DEF Called, Calling
    <3>3. QED
      BY <3>1, <3>2
  <2>3. Came(i)'
    BY <1>3, <2>1 DEF Came
  <2>4. QED
    BY <2>2, <2>3
<1>4. Region'
  BY <1>2, <1>3 DEF Region
<1>5. QED
  BY <1>2, <1>4, Stutters

\* A region that is not under way has no calls.
LEMMA NoCallsYet ==
  ASSUME TypeInt, Region, job.kind = "once", pc[0] \notin InProgress
  PROVE  (\A i \in Threads : ~done[i]) /\ failed = {} /\ Failed = {}
BY DEF Region, Called, TypeInt, Failed

\* A step of the master before it fetches a task.
LEMMA MasterEnters ==
  ASSUME IInv, PoolInv', AwakenStep
  PROVE  Region' /\ [Pool!ForkJoin!Next]_(Pool!ForkJoin!vars)
<1> USE Indices
<1>1. TypeInt /\ PoolInv /\ Region /\ MasterInv /\ WorkerInv
  BY DEF IInv, PoolInv
<1>2. /\ UNCHANGED <<job, done, calls, failed, outcome, leaked, requested, nworkers>>
      /\ pc[0] \in {"swap", "count", "post", "signal"}
      /\ pc'[0] \in {"count", "post", "signal", "fetch"}
      /\ saved' = saved \/ (saved' = "none" /\ pc[0] = "swap")
      /\ pc[0] = "swap" => saved' = "none"
  BY <1>1 DEF AwakenStep, CountRunning, SwapSleepTasks, PostJob, NotifyAll, poolVars, jobVars,
         idleVars, history, TypeInt, Goto
<1>3. nworkers # 0
  BY <1>1, <1>2 DEF MasterInv, TypeInt
<1>4. \A i \in Threads : pc'[i] = pc[i] \/ (pc[i] \notin Calling /\ pc'[i] \notin Calling)
  BY <1>1, <1>2 DEF AwakenStep, CountRunning, SwapSleepTasks, PostJob, NotifyAll, TypeInt, Goto,
         Calling
<1>5. job.kind = "once" => saved' = IF Failed # {} THEN "current" ELSE "none"
  <2>1. CASE pc[0] = "swap"
    BY <1>1, <1>2, <2>1, NoCallsYet DEF InProgress
  <2>2. CASE pc[0] # "swap"
    BY <1>1, <1>2, <2>2 DEF Region
  <2>3. QED
    BY <2>1, <2>2
<1>6. pc[0] \in InProgress => pc'[0] \in InProgress
  BY <1>2, <1>1 DEF AwakenStep, CountRunning, SwapSleepTasks, PostJob, NotifyAll, TypeInt,
         InProgress
<1>7. ASSUME NEW i \in Threads, pc'[0] \in InProgress, Back(i)'
      PROVE  pc[0] \in InProgress /\ Back(i)
  <2>1. i \in Workers
    BY <1>2, <1>7 DEF Back
  <2>2. CASE NotifyAll
    <3>1. pc'[i] = pc[i] \/ (pc[i] = "deep" /\ pc'[i] = "woken")
      BY <2>1, <2>2 DEF NotifyAll
    <3>2. pc[0] = "signal" /\ UNCHANGED <<curr, scheduler, task>>
      BY <2>2 DEF NotifyAll, idleVars
    <3>3. QED
      BY <1>7, <2>1, <3>1, <3>2 DEF Back, Settling, Resting, Dozing, InProgress
  <2>3. CASE PostJob
    <3>1. pc[0] = "post" /\ WorkerAt(i)
      BY <1>1, <2>1, <2>3 DEF PostJob, WorkerInv
    <3>2. Absent(i) \/ Waiting(i)
      BY <1>1, <2>1, <3>1 DEF WorkerAt, TypeInt, Workers
    <3>3. pc'[i] = pc[i] /\ UNCHANGED <<curr, scheduler, task>>
      BY <1>1, <2>1, <2>3 DEF PostJob, Goto, TypeInt
    <3>4. ~Back(i)'
      BY <1>1, <2>1, <3>2, <3>3 DEF Back, Settling, Resting, Dozing, Absent, Waiting, Prev, TypeInt
    <3>5. QED
      BY <1>7, <3>4
  <2>4. CASE CountRunning \/ SwapSleepTasks
    BY <1>1, <1>7, <2>4 DEF CountRunning, SwapSleepTasks, Goto, TypeInt, InProgress
  <2>5. QED
    BY <2>2, <2>3, <2>4 DEF AwakenStep
<1>8. QED
  BY <1>1, <1>2, <1>3, <1>4, <1>5, <1>6, <1>7, KeepsRegion

\* A step of the master while the threads of the pool are created.
LEMMA MasterSpawns ==
  ASSUME IInv, PoolInv',
         Pool!SpawnMaster \/ Pool!Spawn \/ Pool!SpawnFails \/ Pool!JoinSpawnedByRegion
  PROVE  Region' /\ [Pool!ForkJoin!Next]_(Pool!ForkJoin!vars)
<1> USE Indices, MaxThreadsAssumption
<1>1. TypeInt /\ PoolInv /\ Region /\ MasterInv /\ WorkerInv /\ pc[0] = "spawn"
  BY DEF IInv, PoolInv, Pool!SpawnMaster, Pool!Spawn, Pool!SpawnFails, Pool!JoinSpawnedByRegion
<1>2. CASE Pool!JoinSpawnedByRegion
  <2>1. saved = "none"
    BY <1>1, <1>2 DEF Pool!JoinSpawnedByRegion, Region, Pool!NoJob, NoJob
  <2>2. /\ UNCHANGED <<job, done, calls, failed, outcome, leaked, requested, nworkers, saved>>
        /\ pc' = [pc EXCEPT ![0] = "swap"]
    BY <1>1, <1>2, <2>1 DEF Pool!JoinSpawnedByRegion, Pool!Goto
  <2>3. /\ pc'[0] = "swap"
        /\ \A i \in Threads : pc'[i] = pc[i] \/ (pc[i] \notin Calling /\ pc'[i] \notin Calling)
    BY <1>1, <2>2 DEF TypeInt, Calling
  <2>4. QED
    BY <1>1, <2>1, <2>2, <2>3, KeepsRegion DEF InProgress
<1>3. CASE Pool!SpawnMaster \/ Pool!Spawn \/ Pool!SpawnFails
  <2>1. /\ UNCHANGED <<job, done, calls, failed, outcome, saved>>
        /\ leaked' = 0 => leaked = 0 /\ requested' = requested
        /\ nworkers' = 0 => nworkers = 0
    BY <1>1, <1>3
       DEF Pool!SpawnMaster, Pool!Spawn, Pool!SpawnFails, TypeInt, Pool!poolVars, Pool!jobVars,
           Pool!idleVars, Pool!history
  <2>2. /\ pc'[0] = "spawn"
        /\ \A i \in Threads : pc'[i] = pc[i] \/ (pc[i] \notin Calling /\ pc'[i] \notin Calling)
    <3>1. CASE Pool!Spawn
      <4>1. nworkers \in Workers /\ pc' = [pc EXCEPT ![nworkers] = "fetch"]
        BY <1>1, <3>1 DEF Pool!Spawn, Pool!Goto, TypeInt, Workers
      <4>2. WorkerAt(nworkers) /\ nworkers >= nworkers
        BY <1>1, <4>1 DEF WorkerInv, TypeInt
      <4>3. pc[nworkers] = "none"
        BY <4>2 DEF WorkerAt, Absent
      <4>4. QED
        BY <1>1, <4>1, <4>3 DEF TypeInt, Calling
    <3>2. CASE Pool!SpawnMaster \/ Pool!SpawnFails
      BY <1>1, <3>2 DEF Pool!SpawnMaster, Pool!SpawnFails, Pool!threadVars
    <3>3. QED
      BY <1>3, <3>1, <3>2
  <2>3. nworkers = 0 => saved = "none"
    BY <1>1 DEF Region
  <2>4. pc[0] = "spawn" /\ job # NoJob => saved = "none"
    BY <1>1 DEF Region
  <2>5. QED
    BY <1>1, <2>1, <2>2, <2>3, <2>4, KeepsRegion DEF InProgress
<1>4. QED
  BY <1>2, <1>3

\* The region is over.
LEMMA RegionEnds ==
  ASSUME IInv, PoolInv', Pool!JoinRegion
  PROVE  Region' /\ [Pool!ForkJoin!Next]_(Pool!ForkJoin!vars)
<1> USE Indices, MaxThreadsAssumption
<1>1. /\ TypeInt /\ PoolInv /\ Region /\ MasterInv /\ WorkerInv /\ Counted
      /\ pc[0] = "join" /\ job.kind = "once" /\ running = 0
  BY DEF IInv, PoolInv, Pool!JoinRegion, Pool!AllStopped
<1>2. leaked = 0 /\ nworkers = requested /\ nworkers \in 1 .. MaxThreads
      /\ job.n \in 1 .. nworkers
  <2>1. leaked = 0 /\ nworkers = requested
    BY <1>1 DEF MasterInv, TypeInt
  <2>2. job.n \in 0 .. MaxThreads /\ 0 < job.n /\ job.n <= requested
    BY <1>1, <2>1 DEF Region, TypeInt
  <2>3. QED
    BY <1>1, <2>1, <2>2 DEF TypeInt
<1>3. ASSUME NEW i \in Workers PROVE pc[i] \in Dozing \cup {"none"} /\ (i < nworkers => Resting(i))
  <2>1. i < nworkers => Resting(i)
    BY <1>1, JoinedWorkers DEF Discharged
  <2>2. i >= nworkers => Absent(i)
    BY <1>1 DEF WorkerInv, WorkerAt
  <2>3. QED
    BY <1>2, <2>1, <2>2 DEF Resting, Absent, Workers
<1>4. ASSUME NEW i \in Threads PROVE done[i] <=> i < job.n
  <2>1. Called(i) /\ Came(i)
    BY <1>1 DEF Region
  <2>2. done[i] => i < job.n
    BY <2>1 DEF Called
  <2>3. i < job.n => Back(i)
    BY <1>1, <1>2, <1>3 DEF Back
  <2>4. QED
    BY <1>1, <2>1, <2>2, <2>3 DEF Came, InProgress
<1>5. \A i \in Threads : pc[i] \notin {"call", "catch"}
  BY <1>1, <1>3 DEF Dozing
<1>6. Finished = 0 .. job.n - 1
  <2>1. \A i \in Threads : calls[i] = 1 <=> i < job.n
    BY <1>1, <1>4 DEF Region, Called
  <2>2. Finished = {i \in Threads : i < job.n}
    BY <1>5, <2>1 DEF Finished
  <2>3. QED
    BY <1>2, <2>2 DEF Threads
<1>7. /\ pc' = [pc EXCEPT ![0] = "user"] /\ job' = NoJob /\ outcome' = saved
      /\ UNCHANGED <<calls, failed, nworkers>>
  BY DEF Pool!JoinRegion, Pool!ReturnToUser, Pool!Goto, Pool!NoJob, NoJob
<1>8. Finished' = Finished /\ Failed' = Failed
  <2>1. \A i \in Threads : {pc[i], pc'[i]} \cap {"call", "catch"} = {}
    BY <1>1, <1>5, <1>7 DEF TypeInt
  <2>2. QED
    BY <1>1, <1>7, <2>1, QuietForRegion
<1>9. saved = IF Failed # {} THEN "current" ELSE "none"
  BY <1>1 DEF Region
<1>10. Seen = job.n /\ Seen' = 0
  BY <1>1, <1>7 DEF Seen, NoJob
<1>11. Region'
  BY <1>1, <1>2, <1>7 DEF Region, NoJob, TypeInt
<1>12. QED
  BY <1>2, <1>6, <1>7, <1>8, <1>9, <1>10, <1>11, Returns

\* The other steps of the master have no part in a region.
LEMMA OtherReturns ==
  ASSUME IInv, PoolInv',
         Pool!JoinSpawnedByResize \/ JoinLoop \/ Pool!JoinShutdown \/ Pool!Reap
  PROVE  Region' /\ [Pool!ForkJoin!Next]_(Pool!ForkJoin!vars)
<1> USE Indices, MaxThreadsAssumption
<1>1. TypeInt /\ Region /\ MasterInv
  BY DEF IInv, PoolInv
<1>2. job.kind # "once" /\ job'.kind # "once" /\ UNCHANGED <<calls, failed, outcome, saved>>
  BY <1>1 DEF Pool!JoinSpawnedByResize, JoinLoop, Pool!JoinShutdown, Pool!Reap, Pool!ReturnToUser,
         Pool!NoJob, NoJob, MasterInv, Pool!idleVars, Pool!history, history, jobVars
<1>3. pc[0] \in {"spawn", "join", "reap"} /\ pc'[0] \in {"user", "reap"}
  BY <1>1 DEF Pool!JoinSpawnedByResize, JoinLoop, Pool!JoinShutdown, Pool!Reap, Pool!ReturnToUser,
         Pool!Goto, TypeInt, Pool!Threads, Threads
<1>4. \A i \in Threads : pc'[i] = pc[i] \/ {pc[i], pc'[i]} \cap {"call", "catch"} = {}
  BY <1>1, <1>3 DEF Pool!JoinSpawnedByResize, JoinLoop, Pool!JoinShutdown, Pool!Reap,
         Pool!ReturnToUser, Pool!Goto, TypeInt, Pool!Threads, Threads
<1>5. nworkers' # 0
  BY <1>1 DEF Pool!JoinSpawnedByResize, JoinLoop, Pool!JoinShutdown, Pool!Reap, MasterInv, TypeInt
<1>6. QED
  BY <1>1, <1>2, <1>3, <1>4, <1>5, NoRegion

\* A worker that goes to sleep or wakes up.
LEMMA SleeperFrame ==
  ASSUME IInv, NEW i \in Workers, Sleeping(i)
  PROVE  /\ UNCHANGED <<nworkers, requested, job, done, calls, failed, outcome, saved, leaked,
                        curr>>
         /\ pc'[0] = pc[0]
         /\ \A k \in Threads : pc'[k] = pc[k] \/ (pc[k] \notin Calling /\ pc'[k] \notin Calling)
         /\ \A k \in Threads : Back(k)' => Back(k)
<1> USE Indices
<1>1. TypeInt /\ PoolInv /\ MasterInv /\ WorkerInv /\ WorkerAt(i)
  BY DEF IInv, PoolInv, WorkerInv
<1>2. /\ UNCHANGED <<nworkers, requested, job, done, calls, failed, outcome, saved, leaked, curr>>
      /\ pc'[0] = pc[0]
      /\ \A k \in Threads : k # i =>
           pc'[k] = pc[k] /\ scheduler'[k] = scheduler[k] /\ (k \in Workers => task'[k] = task[k])
  BY <1>1 DEF Sleeping, SleepStep, Pool!FetchShutdown, Pool!OnBeforeThreadRemoved,
         Pool!ExitThread, Pool!FetchSleep, Pool!AnnounceSleep, LightWake, WakeUp, DeepSleep,
         SpuriousWake, Sleep, Pool!TakeJob, TypeInt, Pool!Goto, Goto, Pool!poolVars,
         Pool!jobVars, Pool!idleVars, Pool!history, poolVars, jobVars, idleVars, history
<1>3. pc[i] \notin Calling /\ pc'[i] \notin Calling
  BY <1>1 DEF Sleeping, SleepStep, Pool!FetchShutdown, Pool!ExitThread, Pool!FetchSleep,
         Pool!AnnounceSleep, Pool!InJob, LightWake, WakeUp, DeepSleep, SpuriousWake, Sleep,
         Pool!TakeJob, TypeInt, Pool!Goto, Goto, Calling
<1>4. ASSUME Back(i)' PROVE Back(i)
  <2>1. i # 0 /\ (Settling(i)' \/ Resting(i)')
    BY <1>4 DEF Back
  <2>2. CASE Pool!FetchShutdown(i)
    BY <1>1, <2>1, <2>2 DEF Pool!FetchShutdown, Pool!Goto, TypeInt, Settling, Resting, Dozing
  <2>3. CASE Pool!ExitThread(i)
    BY <1>1, <2>1, <2>3 DEF Pool!ExitThread, Pool!Goto, TypeInt, Settling, Resting, Dozing
  <2>4. CASE Pool!FetchSleep(i)
    BY <2>1, <2>4 DEF Pool!FetchSleep, Back, Settling
  <2>5. CASE Pool!AnnounceSleep(i)
    BY <1>1, <2>1, <2>5, PlaceByLabel DEF Pool!AnnounceSleep, Back
  <2>6. CASE LightWake(i) \/ WakeUp(i) \/ DeepSleep(i) \/ SpuriousWake(i)
    <3>1. pc[i] \in Dozing /\ UNCHANGED <<scheduler, task>> /\ pc'[i] \in Dozing \cup {"awake"}
      BY <1>1, <2>6 DEF LightWake, WakeUp, DeepSleep, SpuriousWake, Sleep, Dozing, Goto, TypeInt
    <3>2. Resting(i)'
      BY <2>1, <3>1 DEF Settling, Dozing
    <3>3. QED
      BY <1>2, <2>1, <3>1, <3>2 DEF Resting, Back
  <2>7. CASE Pool!TakeJob(i)
    <3>1. Waking(i) /\ pc[0] \in InProgress
      BY <1>1, <2>7, PlaceByLabel DEF Pool!TakeJob
    <3>2. next[task[i]] = "job"
      BY <1>1, <3>1 DEF MasterInv, Waking
    <3>3. scheduler'[i] = "job"
      BY <1>1, <2>7, <3>2 DEF Pool!TakeJob, TypeInt
    <3>4. QED
      BY <2>1, <3>3 DEF Settling, Resting
  <2>8. QED
    BY <2>2, <2>3, <2>4, <2>5, <2>6, <2>7 DEF Sleeping, SleepStep
<1>5. ASSUME NEW k \in Threads, Back(k)' PROVE Back(k)
  BY <1>2, <1>4, <1>5 DEF Back, Settling, Resting
<1>6. \A k \in Threads : pc'[k] = pc[k] \/ (pc[k] \notin Calling /\ pc'[k] \notin Calling)
  BY <1>2, <1>3
<1>7. QED
  BY <1>2, <1>5, <1>6

LEMMA WorkerSleeps ==
  ASSUME IInv, PoolInv', NEW i \in Workers, Sleeping(i)
  PROVE  Region' /\ [Pool!ForkJoin!Next]_(Pool!ForkJoin!vars)
<1> USE Indices
<1>1. TypeInt /\ Region /\ MasterInv
  BY DEF IInv, PoolInv
<1>2. /\ nworkers = 0 => saved = "none"
      /\ pc[0] = "spawn" /\ job # NoJob => saved = "none"
      /\ job.kind = "once" /\ pc[0] \notin {"spawn", "swap"} =>
           saved = IF Failed # {} THEN "current" ELSE "none"
  BY <1>1 DEF Region
<1>3. QED
  BY <1>1, <1>2, SleeperFrame, KeepsRegion

\* The part of a thread in a job that is not a region.
LEMMA LoopJobStep ==
  ASSUME IInv, PoolInv', NEW i \in Threads, Inside(i), NoCalls,
         UNCHANGED <<calls, failed, outcome>>
  PROVE  Region' /\ [Pool!ForkJoin!Next]_(Pool!ForkJoin!vars)
<1> USE Indices
<1>1. /\ TypeInt /\ PoolInv /\ MasterInv /\ WorkerInv /\ job.kind # "once" /\ job' = job
      /\ nworkers' = nworkers /\ (\A k \in Threads : calls[k] = 0) /\ failed = {}
  BY DEF IInv, PoolInv, Kinds, NoCalls, Inside
<1>2. Finished = {} /\ Finished' = {} /\ Failed = {} /\ Failed' = {}
  BY <1>1 DEF Finished, Failed
<1>3. pc[0] \in InProgress /\ pc'[0] \in InProgress
  BY <1>1, InsideAJob
<1>4. nworkers' # 0 /\ pc'[0] # "spawn"
  BY <1>1, <1>3 DEF MasterInv, InProgress, TypeInt
<1>5. QED
  BY <1>1, <1>2, <1>4, Stutters DEF Region, Seen

\* A thread of the region that is in the tasks of its job, or fetches one.
LEMMA InTheRegion ==
  ASSUME IInv, NEW i \in Threads, Inside(i), ~NoCalls, pc[i] # "fetch"
  PROVE  job.kind = "once" /\ done[i] /\ calls[i] = 1 /\ i < job.n /\ i \in 0 .. Seen - 1
<1> USE Indices
<1>1. TypeInt /\ PoolInv /\ Region /\ MasterInv /\ WorkerInv /\ Kinds
  BY DEF IInv, PoolInv
<1>2. pc[i] \in Calling
  BY DEF Inside, Aboard
<1>3. job.kind \notin {"none", "shutdown"}
  <2>1. CASE i = 0
    BY <1>1, <1>2, <2>1 DEF MasterInv, Calling
  <2>2. CASE i \in Workers
    BY <1>1, <1>2, <2>2, PlaceByLabel DEF Inside, WorkerInv, OnJob, MasterInv, InProgress
  <2>3. QED
    BY <2>1, <2>2
<1>4. job.kind = "once"
  BY <1>1, <1>3 DEF Kinds, NoCalls, Plain
<1>5. Called(i)
  BY <1>1, <1>4 DEF Region
<1>6. job.n \in 0 .. MaxThreads
  BY <1>1 DEF TypeInt
<1>7. QED
  BY <1>2, <1>4, <1>5, <1>6, MaxThreadsAssumption DEF Called, Seen

\* Its step leaves the other threads of the region as they are.
LEMMA OthersStay ==
  ASSUME IInv, NEW i \in Threads, Inside(i), job.kind = "once", NEW k \in Threads, k # i,
         done'[k] = done[k], calls'[k] = calls[k], k \in failed' <=> k \in failed
  PROVE  Called(k)' /\ Came(k)'
<1> USE Indices
<1>1. TypeInt /\ WorkerInv /\ Called(k) /\ Came(k)
  BY DEF IInv, PoolInv, Region
<1>2. pc'[k] = pc[k] /\ scheduler'[k] = scheduler[k] /\ UNCHANGED <<job, curr, task>>
  BY DEF Inside
<1>3. pc[0] \in InProgress /\ pc'[0] \in InProgress
  BY <1>1, InsideAJob
<1>4. Called(k)'
  BY <1>1, <1>2, <1>3 DEF Called
<1>5. Back(k)' => Back(k)
  BY <1>2 DEF Back, Settling, Resting
<1>6. QED
  BY <1>1, <1>2, <1>3, <1>4, <1>5 DEF Came

\* What is left to show of a thread's step in a region: the thread itself, and the exception.
LEMMA OwnStep ==
  ASSUME IInv, NEW i \in Threads, Inside(i), job.kind = "once",
         \A k \in Threads : k # i => /\ done'[k] = done[k] /\ calls'[k] = calls[k]
                                     /\ k \in failed' <=> k \in failed,
         Called(i)', Came(i)', saved' = IF Failed' # {} THEN "current" ELSE "none"
  PROVE  Region'
<1> USE Indices
<1>1. TypeInt /\ Region /\ MasterInv /\ WorkerInv
  BY DEF IInv, PoolInv
<1>2. UNCHANGED <<job, leaked, requested, nworkers>>
  BY DEF Inside
<1>3. pc[0] \in InProgress /\ pc'[0] \in InProgress
  BY <1>1, InsideAJob
<1>4. nworkers' # 0 /\ pc'[0] # "spawn"
  BY <1>1, <1>2, <1>3 DEF MasterInv, InProgress, TypeInt
<1>5. \A k \in Threads : Called(k)' /\ Came(k)'
  BY <1>1, OthersStay
<1>6. QED
  BY <1>1, <1>2, <1>4, <1>5 DEF Region

LEMMA RegionJobStep ==
  ASSUME IInv, PoolInv', NEW i \in Threads, Inside(i), ~NoCalls, JobStep(i), ~UNCHANGED vars
  PROVE  Region' /\ [Pool!ForkJoin!Next]_(Pool!ForkJoin!vars)
<1> USE Indices
<1>1. /\ TypeInt /\ PoolInv /\ Region /\ MasterInv /\ WorkerInv /\ Kinds
      /\ UNCHANGED <<job, curr, task>>
      /\ \A k \in Threads : k # i => pc'[k] = pc[k] /\ scheduler'[k] = scheduler[k]
  BY DEF IInv, PoolInv, Inside
<1>2. pc[0] \in InProgress
  BY <1>1, InsideAJob
<1>3. job.kind = "once" => /\ \A k \in Threads : Called(k) /\ Came(k)
                           /\ saved = IF Failed # {} THEN "current" ELSE "none"
  BY <1>1, <1>2 DEF Region, InProgress
<1>4. Seen' = Seen
  BY <1>1 DEF Seen
<1>5. CASE Pool!FetchCall(i)
  <2>1. /\ pc[i] = "fetch" /\ job.kind = "once" /\ i < job.n /\ ~done[i] /\ pc'[i] = "call"
        /\ done'[i] = TRUE /\ calls'[i] = calls[i] + 1
        /\ UNCHANGED <<failed, outcome, saved, scheduler>>
        /\ \A k \in Threads : k # i => done'[k] = done[k] /\ calls'[k] = calls[k]
    BY <1>1, <1>5 DEF Pool!FetchCall, Pool!InJob, Pool!OnceHasTask, Pool!Goto, TypeInt,
           Pool!idleVars
  <2>2. Called(i) /\ calls[i] = 0 /\ i \notin failed
    BY <1>3, <2>1 DEF Called
  <2>3. Finished' = Finished
    BY <1>1, <2>1, <2>2 DEF Finished
  <2>4. Failed' = Failed
    BY <1>1, <2>1, <2>2 DEF Failed, TypeInt
  <2>5. pc'[0] \in InProgress
    BY <1>1, <1>2, <2>1 DEF InProgress
  <2>6. Called(i)' /\ Came(i)'
    BY <1>1, <2>1, <2>2, <2>5 DEF Called, Came
  <2>7. Region'
    BY <1>3, <2>1, <2>4, <2>6, OwnStep
  <2>8. QED
    BY <1>4, <2>1, <2>3, <2>4, <2>7, Stutters
<1>6. CASE Pool!Return(i)
  <2>1. /\ pc[i] = "call" /\ pc'[i] = "fetch"
        /\ UNCHANGED <<done, calls, failed, outcome, saved, scheduler>>
    BY <1>1, <1>6 DEF Pool!Return, Pool!Goto, TypeInt, Pool!jobVars, Pool!idleVars, Pool!history
  <2>2. job.kind = "once" /\ done[i] /\ calls[i] = 1 /\ i < job.n /\ i \in 0 .. Seen - 1
    BY <2>1, InTheRegion
  <2>3. Called(i) /\ i \notin failed
    BY <1>3, <2>1, <2>2 DEF Called
  <2>4. Finished' = Finished \cup {i} /\ i \notin Finished
    BY <1>1, <2>1, <2>2 DEF Finished
  <2>5. Failed' = Failed
    BY <1>1, <2>1, <2>3 DEF Failed, TypeInt
  <2>6. pc'[0] \in InProgress
    BY <1>1, <1>2, <2>1 DEF InProgress
  <2>7. Called(i)' /\ Came(i)'
    BY <1>1, <2>1, <2>2, <2>3, <2>6 DEF Called, Came, Calling
  <2>8. Region'
    BY <1>3, <2>1, <2>2, <2>5, <2>7, OwnStep
  <2>9. QED
    BY <1>4, <2>1, <2>2, <2>4, <2>5, <2>8, Finishes
<1>7. CASE Pool!Throw(i)
  <2>1. /\ pc[i] = "call" /\ pc'[i] = "catch" /\ failed' = failed \cup {i}
        /\ UNCHANGED <<done, calls, outcome, saved, scheduler>>
    BY <1>1, <1>7 DEF Pool!Throw, Pool!Goto, TypeInt, Pool!jobVars, Pool!idleVars
  <2>2. job.kind = "once" /\ done[i] /\ calls[i] = 1 /\ i < job.n
    BY <2>1, InTheRegion
  <2>3. Called(i) /\ i \notin failed
    BY <1>3, <2>1, <2>2 DEF Called
  <2>4. Finished' = Finished
    BY <1>1, <2>1, <2>2 DEF Finished
  <2>5. Failed' = Failed
    BY <1>1, <2>1, <2>3 DEF Failed, TypeInt
  <2>6. pc'[0] \in InProgress
    BY <1>1, <1>2, <2>1 DEF InProgress
  <2>7. Called(i)' /\ Came(i)'
    BY <1>1, <2>1, <2>2, <2>3, <2>6 DEF Called, Came, Calling
  <2>8. Region'
    BY <1>3, <2>1, <2>2, <2>5, <2>7, OwnStep
  <2>9. QED
    BY <1>4, <2>1, <2>4, <2>5, <2>8, Stutters
<1>8. CASE Catch(i)
  <2>1. /\ pc[i] = "catch" /\ pc'[i] = "abort"
        /\ saved' = (IF saved = "none" THEN "current" ELSE saved)
        /\ UNCHANGED <<done, calls, failed, outcome, scheduler>>
    BY <1>1, <1>8 DEF Catch, Goto, TypeInt, jobVars, history
  <2>2. job.kind = "once" /\ done[i] /\ calls[i] = 1 /\ i < job.n /\ i \in 0 .. Seen - 1
    BY <2>1, InTheRegion
  <2>3. Called(i) /\ i \in failed
    BY <1>3, <2>1, <2>2 DEF Called
  <2>4. Finished' = Finished \cup {i} /\ i \notin Finished
    BY <1>1, <2>1, <2>2 DEF Finished
  <2>5. Failed' = Failed \cup {i}
    BY <1>1, <2>1, <2>3 DEF Failed, TypeInt
  <2>6. pc'[0] \in InProgress
    BY <1>1, <1>2, <2>1 DEF InProgress
  <2>7. Called(i)' /\ Came(i)'
    BY <1>1, <2>1, <2>2, <2>3, <2>6 DEF Called, Came, Calling
  <2>8. saved' = IF Failed' # {} THEN "current" ELSE "none"
    BY <1>3, <2>1, <2>2, <2>5
  <2>9. Region'
    BY <2>1, <2>2, <2>7, <2>8, OwnStep
  <2>10. QED
    BY <1>4, <2>1, <2>2, <2>4, <2>5, <2>9, Finishes
<1>9. CASE Abort(i)
  <2>1. /\ pc[i] = "abort" /\ pc'[i] = "fetch"
        /\ UNCHANGED <<done, calls, failed, outcome, saved, scheduler>>
    BY <1>1, <1>9 DEF Abort, Goto, TypeInt, jobVars, idleVars, history
  <2>2. job.kind = "once" /\ done[i] /\ calls[i] = 1 /\ i < job.n
    BY <2>1, InTheRegion
  <2>3. Called(i)
    BY <1>3, <2>2
  <2>4. Finished' = Finished
    BY <1>1, <2>1 DEF Finished
  <2>5. Failed' = Failed
    BY <1>1, <2>1 DEF Failed, TypeInt
  <2>6. pc'[0] \in InProgress
    BY <1>1, <1>2, <2>1 DEF InProgress
  <2>7. Called(i)' /\ Came(i)'
    BY <1>1, <2>1, <2>2, <2>3, <2>6 DEF Called, Came, Calling
  <2>8. Region'
    BY <1>3, <2>1, <2>2, <2>5, <2>7, OwnStep
  <2>9. QED
    BY <1>4, <2>1, <2>4, <2>5, <2>8, Stutters
<1>10. CASE Leave(i)
  <2>1. /\ pc[i] = "fetch" /\ pc'[i] \in {"fetch", "join"}
        /\ UNCHANGED <<done, calls, failed, outcome, saved>>
        /\ job.kind = "once" => i >= job.n \/ done[i]
    BY <1>1, <1>10
       DEF Leave, LeaveJob, Pool!InJob, Pool!OnceHasTask, Goto, TypeInt, jobVars, idleVars,
            history
  <2>2. Finished' = Finished
    BY <1>1, <2>1 DEF Finished
  <2>3. Failed' = Failed
    BY <1>1, <2>1 DEF Failed, TypeInt
  <2>4. CASE job.kind = "once"
    <3>1. Called(i) /\ (i < job.n => done[i]) /\ job.n \in Int
      BY <1>1, <1>3, <2>1, <2>4 DEF TypeInt
    <3>2. pc'[0] \in InProgress
      BY <1>1, <1>2, <2>1 DEF InProgress
    <3>3. Called(i)' /\ Came(i)'
      BY <1>1, <2>1, <3>1, <3>2 DEF Called, Came, Calling
    <3>4. Region'
      BY <1>3, <2>1, <2>3, <2>4, <3>3, OwnStep
    <3>5. QED
      BY <1>4, <2>1, <2>2, <2>3, <3>4, Stutters
  <2>5. CASE job.kind # "once"
    <3>1. nworkers' # 0 /\ pc'[0] # "spawn"
      BY <1>1, <1>2, <2>1 DEF MasterInv, InProgress, TypeInt, Inside
    <3>2. Region'
      BY <1>1, <2>5, <3>1 DEF Region
    <3>3. QED
      BY <1>4, <2>1, <2>2, <2>3, <3>2, Stutters
  <2>6. QED
    BY <2>4, <2>5
<1>11. QED
  BY <1>5, <1>6, <1>7, <1>8, <1>9, <1>10 DEF JobStep, Calls, Iterate

LEMMA JobInRegion ==
  ASSUME IInv, PoolInv', NEW i \in Threads, JobStep(i)
  PROVE  Region' /\ [Pool!ForkJoin!Next]_(Pool!ForkJoin!vars)
<1>1. TypeInt /\ Region
  BY DEF IInv, PoolInv
<1>2. CASE UNCHANGED vars
  <2>1. UNCHANGED <<job, done, calls, failed, outcome, saved, pc, leaked, requested, nworkers,
                    scheduler, task, curr>>
    BY <1>2 DEF vars, poolVars, jobVars, idleVars, threadVars, history
  <2>2. \A k \in Threads : Back(k)' <=> Back(k)
    BY <2>1 DEF Back, Settling, Resting
  <2>3. /\ nworkers = 0 => saved = "none"
        /\ pc[0] = "spawn" /\ job # NoJob => saved = "none"
        /\ job.kind = "once" /\ pc[0] \notin {"spawn", "swap"} =>
             saved = IF Failed # {} THEN "current" ELSE "none"
    BY <1>1 DEF Region
  <2>4. QED
    BY <1>1, <2>1, <2>2, <2>3, KeepsRegion
<1>3. CASE ~UNCHANGED vars
  <2>1. Inside(i)
    BY <1>1, <1>3, JobIsInside
  <2>2. CASE NoCalls
    <3>1. UNCHANGED <<calls, failed, outcome>>
      BY <2>2 DEF JobStep, Calls, Iterate, Catch, Abort, Leave, LeaveJob, vars, history
    <3>2. QED
      BY <2>1, <2>2, <3>1, LoopJobStep
  <2>3. QED
    BY <1>3, <2>1, <2>2, RegionJobStep
<1>4. QED
  BY <1>2, <1>3

LEMMA StepRefines ==
  ASSUME IInv, PoolInv', PoolStep
  PROVE  Region' /\ [Pool!ForkJoin!Next]_(Pool!ForkJoin!vars)
<1>1. CASE ApiCall \/ CallRegion \/ CallLoop
  BY <1>1, CallsOfUser
<1>2. CASE WholeMaster \/ Pool!SpawnFails
  BY <1>2, MasterEnters, MasterSpawns, RegionEnds, OtherReturns DEF WholeMaster, ResizeStep
<1>3. QED
  BY <1>1, <1>2, JobInRegion, WorkerSleeps DEF PoolStep
-----------------------------------------------------------------------------
(***************************************************************************)
(* The theorems.                                                           *)
(***************************************************************************)
LEMMA StepKeepsLeak == ASSUME IInv, PoolStep PROVE Leak'
<1>0. TypeInt /\ MasterInv /\ Leak
  BY DEF IInv, PoolInv
<1>1. nworkers \in Nat /\ requested \in 1 .. MaxThreads /\ leaked \in Nat
  BY <1>0 DEF TypeInt
<1>2. CASE ApiCall \/ CallRegion \/ CallLoop
  <2>1. pc[0] = "user"
    BY <1>2, ApiFrame DEF CallLoop, Start
  <2>2. leaked = 0
    BY <1>0, <2>1 DEF MasterInv
  <2>3. leaked' \in {0, leaked}
    BY <1>2 DEF ApiCall, Pool!ApiCall, CallRegion, CallLoop, Start, Pool!ResizeLazily,
       Pool!ResizeUp, Pool!ResizeDown, Pool!ParallelRegion, Pool!ForkChild, Pool!history
  <2>4. QED
    BY <2>2, <2>3 DEF Leak
<1>3. CASE Pool!SpawnFails
  <2>1. /\ nworkers < requested /\ nworkers' = nworkers
        /\ requested' = nworkers /\ leaked' = leaked + 1
    BY <1>3 DEF Pool!SpawnFails
  <2>2. leaked = 0
    BY <1>0, <1>1, <2>1 DEF Leak
  <2>3. nworkers < MaxThreads
    BY <1>1, <2>1, MaxThreadsAssumption
  <2>4. QED
    BY <2>1, <2>2, <2>3 DEF Leak
<1>4. CASE WholeMaster
  <2>1. leaked' = leaked
    BY <1>4 DEF WholeMaster, ResizeStep, AwakenStep, Pool!SpawnMaster, Pool!Spawn,
       Pool!JoinSpawnedByResize, Pool!JoinSpawnedByRegion, Pool!JoinShutdown, Pool!Reap,
       Pool!JoinRegion, CountRunning, SwapSleepTasks, PostJob, NotifyAll, JoinLoop,
       Pool!history, history
  <2>2. requested' = requested
    BY <1>4, MasterFrame
  <2>3. CASE leaked = 0
    BY <2>1, <2>3 DEF Leak
  <2>4. CASE leaked > 0
    <3>1. pc[0] = "spawn" /\ nworkers = requested /\ nworkers # 0
      BY <1>0, <1>1, <2>4 DEF MasterInv, Leak
    <3>2. nworkers' = nworkers
      BY <1>1, <1>4, <3>1 DEF WholeMaster, ResizeStep, AwakenStep, Pool!SpawnMaster, Pool!Spawn,
         Pool!JoinSpawnedByResize, Pool!JoinSpawnedByRegion, Pool!JoinShutdown, Pool!Reap,
         Pool!JoinRegion, CountRunning, SwapSleepTasks, PostJob, NotifyAll, JoinLoop
    <3>3. QED
      BY <1>0, <2>1, <2>2, <3>2 DEF Leak
  <2>5. QED
    BY <1>1, <2>3, <2>4
<1>5. ASSUME NEW i \in Threads, JobStep(i) PROVE Leak'
  <2>1. leaked' = leaked
    BY <1>0, <1>5, JobIsInside DEF Inside, vars, history
  <2>2. UNCHANGED <<requested, nworkers>>
    BY <1>0, <1>5, JobFrame
  <2>3. QED
    BY <1>0, <2>1, <2>2 DEF Leak
<1>6. ASSUME NEW i \in Workers, Sleeping(i) PROVE Leak'
  <2>1. leaked' = leaked
    BY <1>6 DEF Sleeping, SleepStep, Pool!FetchShutdown, Pool!ExitThread, Pool!FetchSleep,
       Pool!AnnounceSleep, LightWake, WakeUp, DeepSleep, SpuriousWake, Sleep, Pool!TakeJob,
       Pool!history, history
  <2>2. UNCHANGED <<requested, nworkers>>
    BY <1>0, <1>6, SleepFrame
  <2>3. QED
    BY <1>0, <2>1, <2>2 DEF Leak
<1>7. QED
  BY <1>2, <1>3, <1>4, <1>5, <1>6 DEF PoolStep

LEMMA InitIsFine == LoopInit => IInv /\ Pool!ForkJoin!Init
<1> SUFFICES ASSUME LoopInit PROVE IInv /\ Pool!ForkJoin!Init
  OBVIOUS
<1> USE MaxThreadsAssumption
<1>1. /\ nworkers = 0 /\ requested \in 1 .. MaxThreads /\ team = 0
      /\ job = NoJob /\ job.kind = "none" /\ job.n = 0
      /\ done = [i \in Threads |-> FALSE]
      /\ curr = 0 /\ next = [t \in 0 .. 1 |-> "null"] /\ running = 0 /\ saved = "none"
      /\ pc = [i \in Threads |-> IF i = 0 THEN "user" ELSE "none"]
      /\ scheduler = [i \in Threads |-> "null"] /\ task = [i \in Workers |-> 0]
      /\ calls = [i \in Threads |-> 0] /\ failed = {}
      /\ outcome = "none" /\ resized = "none" /\ leaked = 0
  BY DEF LoopInit, Init, Pool!Init, NoJob, Pool!NoJob, Pool!Threads, Threads, Pool!Workers,
     Workers
<1>2. pc[0] = "user" /\ \A i \in Workers : pc[i] = "none" /\ scheduler[i] = "null" /\ i >= nworkers
  BY <1>1, Indices DEF Workers
<1>3. TypeInt
  <2>1. pc \in [Threads ->
                  Pool!MasterLabels \cup Pool!WorkerLabels \cup {"abort", "deep", "woken"}]
    BY <1>1 DEF Pool!MasterLabels, Pool!WorkerLabels
  <2>2. pc[0] \in Pool!MasterLabels
    BY <1>2 DEF Pool!MasterLabels
  <2>3. \A i \in Workers : pc[i] \in Pool!WorkerLabels
    BY <1>2 DEF Pool!WorkerLabels
  <2>4. job \in [kind : {"none", "once", "shutdown", "dynamic", "ordered"}, n : 0 .. MaxThreads]
    BY <1>1 DEF NoJob
  <2>5. QED
    BY <1>1, <2>1, <2>2, <2>3, <2>4 DEF TypeInt, Pool!Exceptions
<1>4. MasterInv
  BY <1>1, <1>2 DEF MasterInv, InProgress, Prev
<1>5. WorkerInv
  <2>1. ASSUME NEW i \in Workers PROVE i >= nworkers /\ ~(i < nworkers) /\ Absent(i)
    BY SMTT(30), <1>1, <1>2 DEF Absent, Workers
  <2>2. QED
    BY <2>1 DEF WorkerInv, WorkerAt
<1>6. Counted
  <2>1. Awake = {}
    BY <1>2 DEF Awake
  <2>2. QED
    BY <1>1, <2>1, FS_EmptySet DEF Counted
<1>7. nthreads \in 1 .. MaxThreads
  <2>1. Team!Init /\ Team!TeamAssumption
    BY LoopsAssumption DEF LoopInit
  <2>2. CASE Team!InitRegion
    BY <2>2 DEF Team!InitRegion
  <2>3. CASE Team!InitDynamic
    BY <2>3 DEF Team!InitDynamic, Team!Least
  <2>4. CASE Team!InitStatic
    <3>1. PICK n \in StaticRows, c \in Chunks : script = <<Team!Static(n, c)>>
      BY <2>4 DEF Team!InitStatic
    <3>2. n \in Nat /\ c \in Nat \ {0} /\ nthreads_in \in Nat
      BY <2>1, <2>4 DEF Team!InitStatic, Team!TeamAssumption
    <3>3. n \div c \in Nat
      BY <3>2
    <3>4. Team!ChunksWanted(script[1], nthreads_in) \in Nat
      BY <3>1, <3>2, <3>3 DEF Team!ChunksWanted, Team!Static, Team!Least
    <3>5. QED
      BY <2>4, <3>4 DEF Team!InitStatic, Team!Least
  <2>5. QED
    BY <2>1, <2>2, <2>3, <2>4 DEF Team!Init
<1>8. n_threads \in 0 .. MaxThreads
  <2>1. Sch!Init /\ MaxIterations \in Nat \ {0}
    BY LoopsAssumption DEF LoopInit
  <2>2. PICK niters \in 1 .. MaxIterations, nth \in 0 .. MaxThreads :
          /\ n_tasks = IF nth = 0 THEN 1 ELSE Sch!Least(niters, nth * 2)
          /\ n_threads = Sch!Least(nth, n_tasks)
    BY <2>1 DEF Sch!Init
  <2>3. n_tasks \in Nat
    BY <2>1, <2>2 DEF Sch!Least
  <2>4. QED
    BY <2>2, <2>3 DEF Sch!Least
<1>9. FullPool
  BY <1>7, <1>8 DEF FullPool, LoopInit
<1>10. Kinds
  <2>1. Looped => ~Ordered
    BY DEF LoopInit
  <2>2. ASSUME entry = "dynamic"
        PROVE  tpc = [i \in Threads |-> tpc[i]] /\ \A i \in Threads : tpc[i] # "threw"
    <3>1. tpc = [i \in Team!AllThreads |-> IF i \in Team!Threads THEN "next" ELSE "done"]
      BY <2>2 DEF LoopInit, Team!Init, Team!InitRegion, Team!InitDynamic, Team!InitStatic,
         Team!StartAt
    <3>2. Team!AllThreads = Threads
      BY DEF Team!AllThreads, Threads
    <3>3. QED
      BY <3>1, <3>2
  <2>3. QED
    BY <1>1, <2>1, <2>2 DEF Kinds
<1>11. Region /\ Leak
  BY <1>1 DEF Region, Leak
<1>12. Pool!ForkJoin!Init
  <2>1. Pool!Threads = Threads /\ \A i \in Threads : calls[i] # 1
    BY <1>1 DEF Pool!Threads, Threads
  <2>2. QED
    BY <1>1, <2>1 DEF Pool!ForkJoin!Init
<1>13. QED
  BY <1>3, <1>4, <1>5, <1>6, <1>9, <1>10, <1>11, <1>12 DEF IInv, PoolInv

LEMMA StepKeepsInv ==
  ASSUME IInv, [LoopNext]_allVars
  PROVE  IInv' /\ [Pool!ForkJoin!Next]_(Pool!ForkJoin!vars)
<1>1. PoolStep
  BY StepsOfPool
<1>2. PoolInv' /\ Leak'
  BY <1>1, StepKeepsPoolInv, StepKeepsLeak
<1>3. FullPool' /\ Kinds'
  BY <1>1, StepKeepsFull, StepKeepsKinds
<1>4. QED
  BY <1>1, <1>2, <1>3, StepRefines DEF IInv

\* The inductive invariant: where each worker is for each place of the master, what
\* n_threads_running counts, and what a region has come to.
THEOREM Invariance == LoopSpec => []IInv
<1>1. LoopInit => IInv
  BY InitIsFine
<1>2. IInv /\ [LoopNext]_allVars => IInv'
  BY StepKeepsInv
<1>3. QED
  BY <1>1, <1>2, PTL DEF LoopSpec

\* The variables keep their types; in particular n_threads_running, which awaken_and_run() sets
\* and the workers decrement, never leaves 0 .. MaxThreads - 1.
THEOREM TypeCorrectness == LoopSpec => []TypeOK
<1>1. IInv => TypeOK
  <2> SUFFICES ASSUME IInv PROVE TypeOK
    OBVIOUS
  <2>1. TypeInt /\ MasterInv /\ WorkerInv /\ Counted /\ Leak
    BY DEF IInv, PoolInv
  <2>2. leaked \in Nat /\ nworkers \in 0 .. MaxThreads /\ requested \in 1 .. MaxThreads
    BY <2>1 DEF TypeInt
  <2>3. IsFiniteSet(Awake) /\ Cardinality(Awake) \in Nat
    BY AwakeIsFinite
  <2>4. ASSUME NEW n \in 1 .. MaxThreads, nworkers <= n PROVE Cardinality(Awake) <= n - 1
    <3>1. Awake \subseteq 1 .. n - 1
      <4> SUFFICES ASSUME NEW i \in Awake PROVE i \in 1 .. n - 1
        OBVIOUS
      <4>1. i \in Workers /\ pc[i] # "none" /\ WorkerAt(i)
        BY <2>1 DEF Awake, WorkerInv
      <4>2. i < nworkers
        BY <2>2, <4>1 DEF WorkerAt, Absent, Workers
      <4>3. QED
        BY <2>2, <2>4, <4>1, <4>2 DEF Workers
    <3>2. IsFiniteSet(1 .. n - 1) /\ Cardinality(1 .. n - 1) = n - 1
      <4>1. n - 1 \in Int /\ 1 <= n
        OBVIOUS
      <4>2. IsFiniteSet(1 .. n - 1)
            /\ Cardinality(1 .. n - 1) = IF 1 > n - 1 THEN 0 ELSE (n - 1) - 1 + 1
        BY <4>1, FS_Interval
      <4>3. QED
        BY <4>1, <4>2
    <3>3. QED
      BY <3>1, <3>2, FS_Subset
  <2>5. running \in 0 .. MaxThreads - 1
    <3>1. CASE leaked = 0
      <4>1. Cardinality(Awake) <= MaxThreads - 1
        BY <2>2, <2>4, MaxThreadsAssumption
      <4>2. QED
        BY <2>1, <2>3, <3>1, <4>1, MaxThreadsAssumption DEF Counted
    <3>2. CASE leaked > 0
      <4>1. leaked = 1 /\ nworkers = requested /\ nworkers < MaxThreads
        BY <2>1, <3>2 DEF Leak
      <4>2. Cardinality(Awake) <= nworkers - 1
        BY <2>2, <2>4, <4>1
      <4>3. QED
        BY <2>1, <2>2, <2>3, <4>1, <4>2, MaxThreadsAssumption DEF Counted
    <3>3. QED
      BY <2>2, <3>1, <3>2
  <2>6. QED
    BY <2>1, <2>5 DEF TypeInt, TypeOK
<1>2. QED
  BY <1>1, Invariance, PTL

\* n_threads_running is exact, though awaken_and_run() overwrites it: it counts the workers that
\* are awake or must still wake up, and while no job runs no worker holds a scheduler of one.
THEOREM CountIsExact == LoopSpec => []RunningCount
<1>1. IInv => RunningCount
  <2> SUFFICES ASSUME IInv PROVE RunningCount
    OBVIOUS
  <2>1. WorkerInv /\ Counted
    BY DEF IInv, PoolInv
  <2>2. ASSUME pc[0] \in {"user", "swap"}, NEW i \in Workers PROVE scheduler[i] # "job"
    <3>1. WorkerAt(i) /\ (i >= nworkers \/ i < nworkers)
      BY <2>1 DEF WorkerInv, IInv, PoolInv, TypeInt, Workers
    <3>2. QED
      BY <2>2, <3>1 DEF WorkerAt, Absent, Resting
  <2>3. QED
    BY <2>1, <2>2 DEF RunningCount, Counted
<1>2. QED
  BY <1>1, Invariance, PTL

\* parallel_region() calls `f` exactly once in each thread of the region, returns only after
\* all the calls, and throws exactly when one of them threw.
THEOREM RegionsForkAndJoin == LoopSpec => ImplementsForkJoin
<1>1. LoopInit => Pool!ForkJoin!Init
  BY InitIsFine
<1>2. IInv /\ [LoopNext]_allVars => [Pool!ForkJoin!Next]_(Pool!ForkJoin!vars)
  BY StepKeepsInv
<1>3. QED
  BY <1>1, <1>2, Invariance, PTL
     DEF LoopSpec, ImplementsForkJoin, Pool!ImplementsForkJoin, Pool!ForkJoin!Spec
-----------------------------------------------------------------------------
(***************************************************************************)
(* Every behaviour is one of a team, and one of an ordered loop: what is   *)
(* proved of the two holds in the pool.                                    *)
(***************************************************************************)
\* The same definitions as those of Team and Sch, with what is proved of them.
TeamOf == INSTANCE TeamProofs WITH PoolSize <- MaxThreads, pc <- tpc
SchOf == INSTANCE OrderedProofs WITH pc <- opc, saved <- osaved, failed <- ofailed

LEMMA SameTeamInit == Team!Init => TeamOf!Init
BY DEF Team!Init, Team!InitRegion, Team!InitDynamic, Team!InitStatic, Team!StartAt,
   Team!AllThreads, Team!Threads, Team!Scripts, Team!Constructs, Team!Barrier, Team!Dynamic,
   Team!Static, Team!ChunksWanted, Team!Least, Team!Cardinality,
   TeamOf!Init, TeamOf!InitRegion, TeamOf!InitDynamic, TeamOf!InitStatic, TeamOf!StartAt,
   TeamOf!AllThreads, TeamOf!Threads, TeamOf!Scripts, TeamOf!Constructs, TeamOf!Barrier,
   TeamOf!Dynamic, TeamOf!Static, TeamOf!ChunksWanted, TeamOf!Least, TeamOf!Cardinality

LEMMA SameTeamStep == ASSUME NEW i, Team!Step(i) PROVE TeamOf!Step(i)
BY DEF Team!Step, Team!Leave, Team!ArriveAtBarrier, Team!PassBarrier, Team!StaticLoop,
   Team!LookUpScheduler, Team!CreateScheduler, Team!CreateOnce, Team!MakeScheduler,
   Team!FetchIteration, Team!FetchNothing, Team!CallIteration, Team!Throw, Team!Catch,
   Team!AbortAgain, Team!AbortExecution, Team!ThrowInRegion, Team!Goto, Team!Enter,
   Team!Target, Team!AllArrived, Team!HasIteration, Team!ChunksWanted, Team!Least,
   Team!Visits, Team!ChunkEnd, Team!Cardinality, Team!team, Team!sched,
   TeamOf!Step, TeamOf!Leave, TeamOf!ArriveAtBarrier, TeamOf!PassBarrier, TeamOf!StaticLoop,
   TeamOf!LookUpScheduler, TeamOf!CreateScheduler, TeamOf!CreateOnce, TeamOf!MakeScheduler,
   TeamOf!FetchIteration, TeamOf!FetchNothing, TeamOf!CallIteration, TeamOf!Throw,
   TeamOf!Catch, TeamOf!AbortAgain, TeamOf!AbortExecution, TeamOf!ThrowInRegion,
   TeamOf!Goto, TeamOf!Enter, TeamOf!Target, TeamOf!AllArrived, TeamOf!HasIteration,
   TeamOf!ChunksWanted, TeamOf!Least, TeamOf!Visits, TeamOf!ChunkEnd, TeamOf!Cardinality,
   TeamOf!team, TeamOf!sched

LEMMA SameSchInit == Sch!Init => SchOf!Init
BY DEF Sch!Init, Sch!Least, Sch!Threads, Sch!Iterations, Sch!READY_TO_START, Sch!waittask,
   Sch!NO_THREAD,
   SchOf!Init, SchOf!Least, SchOf!Threads, SchOf!Iterations, SchOf!READY_TO_START,
   SchOf!waittask, SchOf!NO_THREAD

LEMMA SameSchStep == ASSUME NEW i, Sch!Step(i) PROVE SchOf!Step(i)
BY DEF Sch!Step, Sch!FetchOrder, Sch!FetchFinish, Sch!FetchStart, Sch!FetchWait,
   Sch!FetchNothing, Sch!TurnAway, Sch!Execute, Sch!ExecuteCancelled, Sch!Return, Sch!Throw,
   Sch!Catch, Sch!AbortAgain, Sch!AbortExecution, Sch!SaveFirst, Sch!Assign, Sch!Fetching,
   Sch!CanOrder, Sch!CanFinish, Sch!CanStart, Sch!NothingToDo, Sch!Advanced, Sch!Advance,
   Sch!Orderer, Sch!shape, Sch!taskVars, Sch!queues, Sch!waittask, Sch!NO_THREAD,
   Sch!INVALID_THREAD, Sch!READY_TO_START, Sch!STARTING, Sch!READY_TO_ORDER, Sch!ORDERING,
   Sch!READY_TO_FINISH, Sch!FINISHING, Sch!CANCELLED,
   SchOf!Step, SchOf!FetchOrder, SchOf!FetchFinish, SchOf!FetchStart, SchOf!FetchWait,
   SchOf!FetchNothing, SchOf!TurnAway, SchOf!Execute, SchOf!ExecuteCancelled, SchOf!Return,
   SchOf!Throw, SchOf!Catch, SchOf!AbortAgain, SchOf!AbortExecution, SchOf!SaveFirst,
   SchOf!Assign, SchOf!Fetching, SchOf!CanOrder, SchOf!CanFinish, SchOf!CanStart,
   SchOf!NothingToDo, SchOf!Advanced, SchOf!Advance, SchOf!Orderer, SchOf!shape,
   SchOf!taskVars, SchOf!queues, SchOf!waittask, SchOf!NO_THREAD, SchOf!INVALID_THREAD,
   SchOf!READY_TO_START, SchOf!STARTING, SchOf!READY_TO_ORDER, SchOf!ORDERING,
   SchOf!READY_TO_FINISH, SchOf!FINISHING, SchOf!CANCELLED

LEMMA SameResize ==
  ASSUME NEW i, NEW n, Sch!SetIterations(i, n)
  PROVE  SchOf!SetIterations(i, n)
BY DEF Sch!SetIterations, Sch!shape, Sch!taskVars, Sch!queues, Sch!INVALID_THREAD,
   SchOf!SetIterations, SchOf!shape, SchOf!taskVars, SchOf!queues, SchOf!INVALID_THREAD

\* A step of a thread in a loop, for the team and for the ordered loop.
LEMMA LoopStepOfTeam ==
  ASSUME NEW i \in Threads, LoopStep(i)
  PROVE  TeamOf!Step(i) \/ UNCHANGED teamVars
<1>1. CASE BeginRegion(i) \/ EndRegion(i) \/ LeaveRegion(i)
  BY <1>1 DEF BeginRegion, EndRegion, LeaveRegion
<1>2. CASE InRegion(i)
  BY <1>2, SameTeamStep DEF InRegion
<1>3. CASE FetchIteration(i) \/ FetchNothing(i) \/ EndIteration(i)
  BY <1>3, SameTeamStep DEF FetchIteration, FetchNothing, EndIteration, Team!Step
<1>4. CASE CatchInLoop(i) \/ AbortLoop(i)
  BY <1>4, SameTeamStep DEF CatchInLoop, AbortLoop, Team!Step
<1>5. QED
  BY <1>1, <1>2, <1>3, <1>4 DEF LoopStep

LEMMA TaskStepOfLoop ==
  ASSUME NEW i \in Threads, TaskStep(i)
  PROVE  SchOf!Step(i) \/ \E n \in Resizes : SchOf!SetIterations(i, n)
<1>1. CASE GetTask(i) \/ GetWaitTask(i) \/ GetNothing(i)
  BY <1>1, SameSchStep DEF GetTask, GetWaitTask, GetNothing, Sch!Step
<1>2. CASE Execute(i)
  BY <1>2, SameSchStep, SameResize DEF Execute, Sch!Step
<1>3. CASE EndTask(i) \/ CatchAndAbort(i) \/ AbortAgain(i)
  BY <1>3, SameSchStep DEF EndTask, CatchAndAbort, AbortAgain, Sch!Step
<1>4. QED
  BY <1>1, <1>2, <1>3 DEF TaskStep

\* A step of the whole, as one of a thread in a loop, or of nobody in one.
LEMMA WholeStep ==
  ASSUME [LoopNext]_allVars
  PROVE  \/ UNCHANGED <<teamVars, schVars>>
         \/ \E i \in Threads : Looped /\ LoopStep(i) /\ UNCHANGED schVars
         \/ \E i \in Threads : Ordered /\ TaskStep(i) /\ UNCHANGED teamVars
<1>1. CASE LoopMaster
  BY <1>1, Indices DEF LoopMaster, InLoop
<1>2. CASE \E i \in Workers : LoopWorker(i)
  BY <1>2, Indices DEF LoopWorker, InLoop
<1>3. QED
  BY <1>1, <1>2 DEF LoopNext, Call, Idle, allVars

LEMMA TeamBehaves == LoopSpec => TeamOf!Spec
<1>1. LoopInit => TeamOf!Init
  BY SameTeamInit DEF LoopInit
<1>2. [LoopNext]_allVars => [TeamOf!Next]_(TeamOf!vars)
  <2> SUFFICES ASSUME [LoopNext]_allVars PROVE [TeamOf!Next]_(TeamOf!vars)
    OBVIOUS
  <2>1. CASE UNCHANGED teamVars
    BY <2>1 DEF teamVars, TeamOf!vars, TeamOf!team, TeamOf!sched
  <2>2. ASSUME NEW i \in Threads, LoopStep(i) PROVE TeamOf!Next \/ UNCHANGED teamVars
    BY <2>2, LoopStepOfTeam DEF TeamOf!Next, TeamOf!AllThreads, Threads
  <2>3. QED
    BY <2>1, <2>2, WholeStep
<1>3. QED
  BY <1>1, <1>2, PTL DEF LoopSpec, TeamOf!Spec

LEMMA LoopBehaves == LoopSpec => SchOf!Spec
<1>1. LoopInit => SchOf!Init
  BY SameSchInit DEF LoopInit
<1>2. [LoopNext]_allVars => [SchOf!Next]_(SchOf!vars)
  <2> SUFFICES ASSUME [LoopNext]_allVars PROVE [SchOf!Next]_(SchOf!vars)
    OBVIOUS
  <2>1. CASE UNCHANGED schVars
    BY <2>1 DEF schVars, SchOf!vars, SchOf!shape, SchOf!taskVars, SchOf!queues
  <2>2. ASSUME NEW i \in Threads, TaskStep(i) PROVE SchOf!Next
    BY <2>2, TaskStepOfLoop DEF SchOf!Next, SchOf!Threads, Threads
  <2>3. QED
    BY <2>1, <2>2, WholeStep
<1>3. QED
  BY <1>1, <1>2, PTL DEF LoopSpec, SchOf!Spec

LEMMA Assumptions ==
  /\ TeamOf!TeamAssumption
  /\ MaxIterations \in Nat \ {0} /\ Resizes \subseteq 0 .. MaxIterations
  /\ MayThrow \in BOOLEAN /\ MayRaise \in BOOLEAN
BY LoopsAssumption DEF Team!TeamAssumption, TeamOf!TeamAssumption

\* What is proved of the rows of a team, and of the ring of an ordered loop.
LEMMA TeamIsSound == ASSUME MaxDynamic <= 1 PROVE LoopSpec => []TeamOf!TeamInv
<1>1. TeamOf!Spec => []TeamOf!TeamInv
  BY Assumptions, TeamOf!TeamInvariance
<1>2. QED
  BY <1>1, TeamBehaves, PTL

LEMMA LoopIsSound == ASSUME MayRaise = FALSE PROVE LoopSpec => []SchOf!RInv
<1>1. SchOf!Spec => []SchOf!RInv
  BY Assumptions, MaxThreadsAssumption, SchOf!RingInvariance
<1>2. QED
  BY <1>1, LoopBehaves, PTL
-----------------------------------------------------------------------------
(***************************************************************************)
(* The calls that run a loop.                                              *)
(***************************************************************************)
\* The exception of a dynamic or of an ordered loop is saved when the loop is aborted; a
\* thread is back from the job when its scheduler has nothing for it any more.
InDynamicLoop ==
  Looped /\ entry = "dynamic" =>
    /\ saved = IF aborted THEN "current" ELSE "none"
    /\ IF pc[0] \in InProgress THEN \A i \in Threads : Back(i) => tpc[i] = "done"
       ELSE aborted => pc[0] = "user" /\ nworkers > 0

InOrderedLoop ==
  IF Ordered
    THEN /\ saved = IF osaved = "none" THEN "none" ELSE "current"
         /\ pc[0] = "spawn" => job = NoJob
         /\ IF pc[0] \in InProgress THEN \A i \in Threads : Back(i) => opc[i] = "idle"
            ELSE \/ osaved = "none" /\ \A i \in Threads : opc[i] = "fetch"
                 \/ pc[0] = "user" /\ nworkers > 0 /\ \A i \in Threads : opc[i] = "idle"
    ELSE opc[0] = "loop"

\* The call of `f` in a thread ends as the function of the region does there.
InRegionOfTeam ==
  Looped /\ entry # "dynamic" =>
    /\ job # NoJob => job.n = nthreads
    /\ \A i \in Threads : done[i] /\ pc[i] # "call" =>
         tpc[i] \in {"done", "threw"} /\ (tpc[i] = "threw" <=> i \in failed)

LoopInv == InDynamicLoop /\ InOrderedLoop /\ InRegionOfTeam

\* A thread in the job leaves the others where they are; it is back when it has left the job.
LEMMA InsideBack ==
  ASSUME TypeInt, WorkerInv, NEW i \in Threads, Inside(i)
  PROVE  /\ \A k \in Threads : k # i /\ Back(k)' => Back(k)
         /\ pc'[i] \in Aboard /\ scheduler'[i] = scheduler[i] => ~Back(i)'
<1> USE Indices
<1>1. ASSUME NEW k \in Threads, k # i, Back(k)' PROVE Back(k)
  BY <1>1 DEF Inside, Back, Settling, Resting
<1>2. ASSUME pc'[i] \in Aboard, scheduler'[i] = scheduler[i] PROVE ~Back(i)'
  <2>1. CASE i = 0
    BY <1>2, <2>1 DEF Back, Aboard, Calling
  <2>2. CASE i \in Workers
    <3>1. scheduler'[i] = "job"
      BY <1>2, <2>2, PlaceByLabel DEF Inside, WorkerInv, OnJob
    <3>2. QED
      BY <2>2, <3>1 DEF Back, Settling, Resting
  <2>3. QED
    BY <2>1, <2>2
<1>3. QED
  BY <1>1, <1>2

\* When the master is in join() and nothing runs, everybody is back.
LEMMA AllBack ==
  ASSUME IInv, ~Plain, pc[0] = "join", running = 0
  PROVE  nworkers > 0 /\ \A k \in Threads : Back(k)
<1> USE Indices
<1>1. /\ TypeInt /\ MasterInv /\ WorkerInv /\ Counted /\ job.kind # "shutdown"
      /\ requested = MaxThreads
  BY DEF IInv, PoolInv, FullPool, Kinds, Plain
<1>2. nworkers = MaxThreads /\ nworkers > 0
  BY <1>1, MaxThreadsAssumption DEF MasterInv
<1>3. ASSUME NEW k \in Workers PROVE Resting(k)
  <2>1. k < nworkers
    BY <1>2, MaxThreadsAssumption DEF Workers
  <2>2. QED
    BY <1>1, <2>1, JoinedWorkers DEF Discharged
<1>4. QED
  BY <1>2, <1>3 DEF Back

\* The steps of the master outside of the job: before it is published, while it is in
\* progress, and when it is over.
LEMMA MasterMoves ==
  ASSUME IInv, ~Plain, WholeMaster
  PROVE  /\ UNCHANGED <<done, failed>>
         /\ \A k \in Threads : pc[k] = "call" => pc'[k] = "call"
         /\ \A k \in Threads : pc'[k] = "call" => pc[k] = "call"
         /\ \/ /\ pc[0] \notin InProgress /\ pc[0] # "user" /\ pc'[0] \notin InProgress
               /\ pc'[0] = "spawn" => pc[0] = "spawn"
               /\ job' = job /\ saved' \in {saved, "none"}
            \/ /\ pc[0] \in InProgress \cup {"post"} /\ pc'[0] \in InProgress
               /\ job' = job /\ saved' = saved
               /\ \A k \in Threads : Back(k)' => pc[0] \in InProgress /\ Back(k)
            \/ /\ pc[0] = "join" /\ pc'[0] = "user" /\ running = 0
               /\ job' = NoJob /\ saved' = saved /\ nworkers' = nworkers
<1> USE Indices
<1>1. /\ TypeInt /\ MasterInv /\ WorkerInv /\ Region /\ job.kind # "shutdown"
      /\ pc \in [Threads ->
                   Pool!MasterLabels \cup Pool!WorkerLabels \cup {"abort", "deep", "woken"}]
      /\ curr \in 0 .. 1
  BY DEF IInv, PoolInv, TypeInt, Kinds, Plain
<1>2. CASE Pool!SpawnMaster \/ Pool!Spawn
  <2>1. /\ pc[0] = "spawn" /\ UNCHANGED <<done, failed, job, saved>>
    BY <1>2 DEF Pool!SpawnMaster, Pool!Spawn, Pool!jobVars, Pool!idleVars, Pool!history
  <2>2. pc' = pc \/ (nworkers \in Workers /\ pc' = [pc EXCEPT ![nworkers] = "fetch"])
    BY <1>1, <1>2 DEF Pool!SpawnMaster, Pool!Spawn, Pool!threadVars, Pool!Goto, TypeInt, Workers
  <2>3. nworkers \in Workers /\ Pool!Spawn => pc[nworkers] # "call"
    BY <1>1 DEF WorkerInv, WorkerAt, Absent, TypeInt
  <2>4. QED
    BY <1>1, <1>2, <2>1, <2>2, <2>3 DEF InProgress, Pool!SpawnMaster, Pool!threadVars
<1>3. CASE Pool!JoinSpawnedByResize \/ Pool!JoinSpawnedByRegion
  <2>1. /\ pc[0] = "spawn" /\ UNCHANGED <<done, failed, saved>> /\ job' = job
        /\ pc'[0] \in {"user", "swap"} /\ \A k \in Workers : pc'[k] = pc[k]
    BY <1>1, <1>3 DEF Pool!JoinSpawnedByResize, Pool!JoinSpawnedByRegion, Pool!ReturnToUser,
       Pool!Goto, Pool!NoJob, NoJob, Region
  <2>2. QED
    BY <2>1 DEF InProgress
<1>4. CASE Pool!JoinShutdown \/ Pool!Reap
  BY <1>1, <1>4 DEF Pool!JoinShutdown, Pool!Reap, MasterInv
<1>5. CASE CountRunning \/ SwapSleepTasks
  <2>1. /\ pc[0] \in {"swap", "count"} /\ UNCHANGED <<done, failed, job>>
        /\ saved' \in {saved, "none"} /\ pc'[0] \in {"count", "post"}
        /\ \A k \in Workers : pc'[k] = pc[k]
    BY <1>1, <1>5 DEF CountRunning, SwapSleepTasks, Goto, jobVars, history
  <2>2. QED
    BY <2>1 DEF InProgress
<1>6. CASE PostJob
  <2>1. /\ pc[0] = "post" /\ pc'[0] = "signal" /\ UNCHANGED <<done, failed, job, saved>>
        /\ \A k \in Workers : pc'[k] = pc[k]
        /\ UNCHANGED <<curr, scheduler, task>>
    BY <1>1, <1>6 DEF PostJob, Goto, jobVars, history
  <2>2. ASSUME NEW k \in Workers PROVE Absent(k) \/ Waiting(k)
    BY <1>1, <2>1 DEF WorkerInv, WorkerAt, TypeInt, Workers
  <2>3. ASSUME NEW k \in Workers PROVE ~Back(k)'
    <3>1. curr # Prev
      BY <1>1 DEF Prev
    <3>2. QED
      BY <2>1, <2>2, <3>1 DEF Back, Settling, Resting, Absent, Waiting, Dozing
  <2>4. ~Back(0)'
    BY <2>1 DEF Back
  <2>5. QED
    BY <2>1, <2>3, <2>4 DEF InProgress
<1>7. CASE NotifyAll
  <2>1. /\ pc[0] = "signal" /\ pc'[0] = "fetch" /\ UNCHANGED <<done, failed, job, saved>>
        /\ \A k \in Workers : pc'[k] = IF pc[k] = "deep" THEN "woken" ELSE pc[k]
        /\ UNCHANGED <<curr, scheduler, task>>
    BY <1>1, <1>7 DEF NotifyAll, jobVars, idleVars, history
  <2>2. ASSUME NEW k \in Workers, Back(k)' PROVE Back(k)
    BY <2>1, <2>2 DEF Back, Settling, Resting, Dozing
  <2>3. ~Back(0)'
    BY <2>1 DEF Back
  <2>4. QED
    BY <2>1, <2>2, <2>3 DEF InProgress
<1>8. CASE Pool!JoinRegion \/ JoinLoop
  <2>1. /\ pc[0] = "join" /\ pc'[0] = "user" /\ running = 0 /\ \A k \in Workers : pc'[k] = pc[k]
        /\ job' = NoJob /\ UNCHANGED <<done, failed, saved, nworkers>>
    BY <1>1, <1>8 DEF Pool!JoinRegion, JoinLoop, Pool!ReturnToUser, Pool!AllStopped, Pool!Goto,
       Pool!NoJob, NoJob, history
  <2>2. QED
    BY <2>1
<1>9. QED
  BY <1>2, <1>3, <1>4, <1>5, <1>6, <1>7, <1>8 DEF WholeMaster, ResizeStep, AwakenStep

LEMMA MasterKeepsLoop ==
  ASSUME IInv, LoopInv, ~Plain, WholeMaster, UNCHANGED <<teamVars, schVars>>
  PROVE  LoopInv'
<1>1. /\ Looped' = Looped /\ Ordered' = Ordered
      /\ UNCHANGED <<entry, nthreads, aborted, tpc, opc, osaved>>
  BY DEF teamVars, schVars, Looped, Ordered
<1>2. MasterInv /\ 0 \in Threads
  BY Indices DEF IInv, PoolInv
<1>3. ASSUME pc[0] \notin InProgress, pc[0] # "user", pc'[0] \notin InProgress,
             pc'[0] = "spawn" => pc[0] = "spawn",
             job' = job, saved' \in {saved, "none"}
      PROVE  InDynamicLoop' /\ InOrderedLoop'
  BY <1>1, <1>3 DEF LoopInv, InDynamicLoop, InOrderedLoop
<1>4. ASSUME pc[0] \in InProgress \cup {"post"}, pc'[0] \in InProgress,
             job' = job, saved' = saved,
             \A k \in Threads : Back(k)' => pc[0] \in InProgress /\ Back(k)
      PROVE  InDynamicLoop' /\ InOrderedLoop'
  <2>1. pc'[0] # "spawn"
    BY <1>4 DEF InProgress
  <2>2. QED
    BY <1>1, <1>4, <2>1 DEF LoopInv, InDynamicLoop, InOrderedLoop
<1>5. ASSUME pc[0] = "join", pc'[0] = "user", running = 0,
             job' = NoJob, saved' = saved, nworkers' = nworkers
      PROVE  InDynamicLoop' /\ InOrderedLoop'
  <2>1. nworkers > 0 /\ \A k \in Threads : Back(k)
    BY <1>5, AllBack
  <2>2. pc[0] \in InProgress /\ pc'[0] \notin InProgress
    BY <1>5 DEF InProgress
  <2>3. QED
    BY <1>1, <1>5, <2>1, <2>2 DEF LoopInv, InDynamicLoop, InOrderedLoop
<1>6. InDynamicLoop' /\ InOrderedLoop'
  BY <1>3, <1>4, <1>5, MasterMoves DEF LoopInv
<1>7. InRegionOfTeam'
  <2>1. job' \in {job, NoJob}
    BY MasterMoves
  <2>2. QED
    BY <1>1, <2>1, MasterMoves DEF LoopInv, InRegionOfTeam
<1>8. QED
  BY <1>6, <1>7 DEF LoopInv

\* A call of the user, which comes before the loop.
LEMMA CallKeepsLoop ==
  ASSUME IInv, LoopInv, ~Plain, Call \/ (Ordered /\ (InstantiateThreads \/ ExecuteJob)),
         UNCHANGED <<teamVars, schVars>>
  PROVE  LoopInv'
<1> USE Indices
<1>1. /\ Looped' = Looped /\ Ordered' = Ordered
      /\ UNCHANGED <<entry, nthreads, aborted, tpc, opc, osaved>>
  BY DEF teamVars, schVars, Looped, Ordered
<1>2. /\ MasterInv /\ TypeInt /\ requested = MaxThreads /\ nthreads \in 1 .. MaxThreads
      /\ Looped => ~Ordered
  BY DEF IInv, PoolInv, FullPool, Kinds
<1>3. CASE Looped /\ CallRegion
  <2>1. /\ job'.n = nthreads /\ \A i \in Threads : ~done'[i]
    BY <1>2, <1>3, MaxThreadsAssumption
       DEF CallRegion, Pool!ParallelRegion, Pool!RegionWidth, Pool!Threads, Threads
  <2>2. entry # "dynamic"
    BY <1>3 DEF CallRegion
  <2>3. QED
    BY <1>1, <1>2, <1>3, <2>1, <2>2 DEF LoopInv, InDynamicLoop, InOrderedLoop, InRegionOfTeam
<1>4. CASE Looped /\ CallDynamic
  <2>1. /\ pc[0] = "user" /\ pc'[0] = "spawn" /\ nworkers = 0 /\ saved' = saved
        /\ entry = "dynamic"
    BY <1>2, <1>4 DEF CallDynamic, Goto, TypeInt, idleVars
  <2>2. pc[0] \notin InProgress /\ pc'[0] \notin InProgress
    BY <2>1 DEF InProgress
  <2>3. QED
    BY <1>1, <1>2, <1>4, <2>1, <2>2 DEF LoopInv, InDynamicLoop, InOrderedLoop, InRegionOfTeam
<1>5. CASE Ordered /\ InstantiateThreads
  <2>1. /\ pc[0] = "user" /\ pc'[0] = "spawn" /\ nworkers = 0 /\ saved' = saved /\ job' = NoJob
    BY <1>2, <1>5 DEF InstantiateThreads, Goto, TypeInt, idleVars, jobVars, MasterInv
  <2>2. pc[0] \notin InProgress /\ pc'[0] \notin InProgress
    BY <2>1 DEF InProgress
  <2>3. QED
    BY <1>1, <1>2, <1>5, <2>1, <2>2 DEF LoopInv, InDynamicLoop, InOrderedLoop, InRegionOfTeam
<1>6. CASE Ordered /\ ExecuteJob
  <2>1. /\ pc[0] = "user" /\ pc'[0] = "swap" /\ saved' = saved
        /\ \A i \in Threads : opc[i] = "fetch"
    BY <1>2, <1>6 DEF ExecuteJob, Goto, TypeInt, idleVars
  <2>2. pc[0] \notin InProgress /\ pc'[0] \notin InProgress
    BY <2>1 DEF InProgress
  <2>3. QED
    BY <1>1, <1>2, <1>6, <2>1, <2>2 DEF LoopInv, InDynamicLoop, InOrderedLoop, InRegionOfTeam
<1>7. QED
  BY <1>3, <1>4, <1>5, <1>6 DEF Call

LEMMA SleepKeepsLoop ==
  ASSUME IInv, LoopInv, NEW i \in Workers, Sleeping(i), UNCHANGED <<teamVars, schVars>>
  PROVE  LoopInv'
<1>1. /\ Looped' = Looped /\ Ordered' = Ordered
      /\ UNCHANGED <<entry, nthreads, aborted, tpc, opc, osaved>>
  BY DEF teamVars, schVars, Looped, Ordered
<1>2. /\ UNCHANGED <<nworkers, job, done, failed, saved>> /\ pc'[0] = pc[0]
      /\ \A k \in Threads : pc'[k] = pc[k] \/ (pc[k] # "call" /\ pc'[k] # "call")
      /\ \A k \in Threads : Back(k)' => Back(k)
  BY SleeperFrame DEF Calling
<1>3. InDynamicLoop' /\ InOrderedLoop'
  BY <1>1, <1>2 DEF LoopInv, InDynamicLoop, InOrderedLoop
<1>4. InRegionOfTeam'
  BY <1>1, <1>2 DEF LoopInv, InRegionOfTeam
<1>5. QED
  BY <1>3, <1>4 DEF LoopInv

\* A thread in a dynamic loop.
LEMMA DynamicKeepsLoop ==
  ASSUME IInv, LoopInv, Looped, entry = "dynamic", NEW i \in Threads, LoopStep(i),
         UNCHANGED schVars
  PROVE  LoopInv'
<1> USE Indices
<1>1. /\ TypeInt /\ WorkerInv /\ Kinds /\ ~Ordered /\ job.kind \in {"none", "dynamic"}
      /\ opc[0] = "loop"
  BY DEF IInv, PoolInv, Kinds, LoopInv, InOrderedLoop
<1>2. /\ Looped' /\ ~Ordered' /\ entry' = "dynamic" /\ opc' = opc
  BY <1>1, LoopStepShape DEF Looped, Ordered, schVars
<1>3. InOrderedLoop' /\ InRegionOfTeam'
  BY <1>1, <1>2 DEF InOrderedLoop, InRegionOfTeam
<1>4. JobStep(i)
  BY <1>1, LoopSteps
<1>5. /\ pc \in [Threads -> Pool!MasterLabels \cup Pool!WorkerLabels \cup {"abort", "deep", "woken"}]
      /\ scheduler \in [Threads -> {"null", "idle", "job"}]
      /\ tpc = [k \in Threads |-> tpc[k]] /\ tpc[i] # "threw"
      /\ saved = IF aborted THEN "current" ELSE "none"
  BY <1>1 DEF TypeInt, Kinds, LoopInv, InDynamicLoop
<1> DEFINE Own == /\ saved' = IF aborted' THEN "current" ELSE "none"
                  /\ \A k \in Threads : k # i => tpc'[k] = tpc[k]
                  /\ tpc'[i] = "done" \/ (pc'[i] \in Aboard /\ scheduler'[i] = scheduler[i])
                  /\ pc'[i] # pc[i] \/ scheduler'[i] # scheduler[i]
<1> USE DEF Aboard, Calling, Goto, idleVars
<1>6. ASSUME EndRegion(i) PROVE Own
  BY <1>1, <1>5, <1>6 DEF EndRegion, Pool!Return, Pool!Goto, Pool!idleVars, teamVars
<1>7. ASSUME FetchIteration(i) PROVE Own
  BY <1>1, <1>5, <1>7
     DEF FetchIteration, Team!FetchIteration, Team!Goto, Pool!InJob
<1>8. ASSUME FetchNothing(i) PROVE Own
  BY <1>1, <1>5, <1>8
     DEF FetchNothing, LeaveJob, Team!FetchNothing, Team!Goto, Pool!InJob, teamVars
<1>9. ASSUME EndIteration(i) PROVE Own
  BY <1>1, <1>5, <1>9 DEF EndIteration, Team!CallIteration, Team!Throw, Team!Goto
<1>10. ASSUME CatchInLoop(i) PROVE Own
  BY <1>1, <1>5, <1>10 DEF CatchInLoop, Catch, Team!Catch, Team!Goto
<1>11. ASSUME AbortLoop(i) PROVE Own
  BY <1>1, <1>5, <1>11 DEF AbortLoop, Abort, Team!AbortAgain, Team!Goto
<1>12. ~BeginRegion(i) /\ ~InRegion(i) /\ ~LeaveRegion(i)
  BY <1>1 DEF BeginRegion, InRegion, LeaveRegion, Pool!FetchCall, Pool!NoMoreTasks
<1>13. Own
  BY <1>6, <1>7, <1>8, <1>9, <1>10, <1>11, <1>12 DEF LoopStep
<1> HIDE DEF Own
<1>14. Inside(i)
  <2>1. ~UNCHANGED vars
    BY <1>13 DEF Own, vars, threadVars
  <2>2. QED
    BY <1>1, <1>4, <2>1, JobIsInside
<1>15. /\ pc[0] \in InProgress /\ pc'[0] \in InProgress
       /\ \A k \in Threads : k # i /\ Back(k)' => Back(k)
       /\ pc'[i] \in Aboard /\ scheduler'[i] = scheduler[i] => ~Back(i)'
  BY <1>1, <1>14, InsideAJob, InsideBack
<1>16. InDynamicLoop'
  BY <1>2, <1>13, <1>15 DEF Own, LoopInv, InDynamicLoop
<1>17. QED
  BY <1>3, <1>16 DEF LoopInv

\* A thread in the region of a team.
LEMMA TeamStepMoves ==
  ASSUME NEW i \in Threads, Team!Step(i), TeamOf!TypeOK, NEW k \in Threads, k # i
  PROVE  tpc'[k] = tpc[k]
<1>1. k \in DOMAIN tpc
  BY DEF TeamOf!TypeOK, TeamOf!AllThreads, Threads
<1>2. \/ tpc' = tpc
      \/ \E label : tpc' = [tpc EXCEPT ![i] = label]
  BY DEF Team!Step, Team!Leave, Team!ArriveAtBarrier, Team!PassBarrier, Team!StaticLoop,
     Team!LookUpScheduler, Team!CreateScheduler, Team!FetchIteration, Team!FetchNothing,
     Team!CallIteration, Team!Throw, Team!Catch, Team!AbortAgain, Team!ThrowInRegion, Team!Goto
<1>3. QED
  BY <1>1, <1>2

LEMMA RegionKeepsLoop ==
  ASSUME IInv, LoopInv, TeamOf!TypeOK, Looped, entry # "dynamic", NEW i \in Threads,
         LoopStep(i), UNCHANGED schVars
  PROVE  LoopInv'
<1> USE Indices
<1>1. /\ TypeInt /\ Kinds /\ Region /\ ~Ordered /\ ~NoCalls /\ job.kind \in {"none", "once"}
      /\ opc[0] = "loop" /\ pc \in [Threads -> {pc[k] : k \in Threads}]
  BY DEF IInv, PoolInv, TypeInt, Kinds, NoCalls, LoopInv, InOrderedLoop
<1>2. /\ Looped' /\ ~Ordered' /\ entry' = entry /\ nthreads' = nthreads /\ opc' = opc
  BY <1>1, LoopStepShape DEF Looped, Ordered, schVars
<1>3. JobStep(i)
  BY <1>1, LoopSteps
<1>4. job' = job
  BY <1>1, <1>3, JobFrame
<1>5. ASSUME pc[i] \in Calling PROVE done[i] /\ (pc[i] = "call" => i \notin failed)
  <2>1. Inside(i) \/ UNCHANGED vars
    BY <1>1, <1>3, JobIsInside
  <2>2. job.kind = "once"
    <3>1. WorkerInv /\ MasterInv
      BY DEF IInv, PoolInv
    <3>2. pc[0] \in InProgress
      <4>1. CASE i = 0
        BY <1>5, <4>1 DEF Calling, InProgress
      <4>2. CASE i \in Workers
        BY <1>1, <1>5, <3>1, <4>2, PlaceByLabel DEF WorkerInv, Aboard, Calling
      <4>3. QED
        BY <4>1, <4>2
    <3>3. QED
      BY <1>1, <3>1, <3>2 DEF MasterInv, InProgress
  <2>3. QED
    BY <1>1, <1>5, <2>2 DEF Region, Called
<1>6. ~FetchIteration(i) /\ ~FetchNothing(i) /\ ~EndIteration(i) /\ ~AbortLoop(i)
  BY <1>1 DEF FetchIteration, FetchNothing, EndIteration, AbortLoop
<1>7. ~CatchInLoop(i)
  <2>1. CatchInLoop(i) => pc[i] = "catch" /\ tpc[i] = "catch"
    BY DEF CatchInLoop, Catch, Team!Catch
  <2>2. QED
    BY <1>5, <2>1 DEF LoopInv, InRegionOfTeam, Calling
<1>8. ASSUME NEW k \in Threads, done'[k], pc'[k] # "call"
      PROVE  tpc'[k] \in {"done", "threw"} /\ (tpc'[k] = "threw" <=> k \in failed')
  <2>1. done[k] /\ pc[k] # "call"
          => tpc[k] \in {"done", "threw"} /\ (tpc[k] = "threw" <=> k \in failed)
    BY DEF LoopInv, InRegionOfTeam
  <2>2. CASE BeginRegion(i)
    BY <1>1, <1>8, <2>1, <2>2
       DEF BeginRegion, Pool!FetchCall, Pool!Goto, TypeInt, teamVars, Pool!threadVars
  <2>3. CASE InRegion(i)
    BY <1>8, <2>1, <2>3, TeamStepMoves DEF InRegion, vars, jobVars, threadVars, history
  <2>4. CASE EndRegion(i)
    <3>1. CASE tpc[i] = "done" /\ Pool!Return(i)
      BY <1>1, <1>5, <1>8, <2>1, <2>4, <3>1
         DEF EndRegion, Pool!Return, Pool!Goto, Pool!jobVars, Pool!history, teamVars, Calling
    <3>2. CASE tpc[i] = "threw" /\ Pool!Throw(i)
      BY <1>1, <1>5, <1>8, <2>1, <2>4, <3>2
         DEF EndRegion, Pool!Throw, Pool!Goto, Pool!jobVars, teamVars, Calling
    <3>3. CASE Catch(i) \/ Abort(i)
      BY <1>1, <1>8, <2>1, <2>4, <3>3
         DEF EndRegion, Catch, Abort, Goto, jobVars, history, teamVars
    <3>4. QED
      BY <2>4, <3>1, <3>2, <3>3 DEF EndRegion
  <2>5. CASE LeaveRegion(i)
    BY <1>1, <1>8, <2>1, <2>5
       DEF LeaveRegion, LeaveJob, Pool!InJob, Goto, jobVars, history, teamVars
  <2>6. QED
    BY <1>6, <1>7, <2>2, <2>3, <2>4, <2>5 DEF LoopStep
<1>9. QED
  BY <1>1, <1>2, <1>4, <1>8 DEF LoopInv, InDynamicLoop, InOrderedLoop, InRegionOfTeam

\* A thread in an ordered loop.
LEMMA TaskIsInside == ASSUME IInv, Ordered, NEW i \in Threads, TaskStep(i) PROVE Inside(i)
<1> USE Indices
<1>1. /\ TypeInt /\ WorkerInv /\ Kinds
      /\ pc \in [Threads ->
                   Pool!MasterLabels \cup Pool!WorkerLabels \cup {"abort", "deep", "woken"}]
      /\ scheduler \in [Threads -> {"null", "idle", "job"}]
  BY DEF IInv, PoolInv, TypeInt
<1> USE DEF Aboard, Calling, Goto, vars, threadVars, idleVars
<1>2. CASE GetWaitTask(i) \/ Execute(i)
  BY <1>2
     DEF GetWaitTask, Execute, Inside, Pool!InJob, poolVars, jobVars, history
<1>3. CASE ~UNCHANGED vars
  BY <1>1, <1>3, JobIsInside, TaskSteps
<1>4. CASE GetTask(i) \/ GetNothing(i) \/ EndTask(i) \/ CatchAndAbort(i) \/ AbortAgain(i)
  <2>1. pc'[i] # pc[i] \/ scheduler'[i] # scheduler[i]
    BY <1>1, <1>4 DEF GetTask, GetNothing, LeaveJob, EndTask, CatchAndAbort, Catch, AbortAgain,
       Abort, Pool!InJob, Sch!Throw
  <2>2. QED
    BY <1>3, <2>1
<1>5. QED
  BY <1>2, <1>4 DEF TaskStep

LEMMA OrderedKeepsLoop ==
  ASSUME IInv, LoopInv, SchOf!IInv, Ordered, NEW i \in Threads, TaskStep(i), UNCHANGED teamVars
  PROVE  LoopInv'
<1> USE Indices
<1>1. /\ TypeInt /\ WorkerInv /\ Kinds /\ ~Looped
      /\ pc \in [Threads ->
                   Pool!MasterLabels \cup Pool!WorkerLabels \cup {"abort", "deep", "woken"}]
      /\ scheduler \in [Threads -> {"null", "idle", "job"}]
      /\ saved = IF osaved = "none" THEN "none" ELSE "current"
  BY DEF IInv, PoolInv, TypeInt, Kinds, LoopInv, InOrderedLoop
<1>2. Ordered' /\ ~Looped'
  BY <1>1, TaskStepShape DEF Looped, Ordered, teamVars
<1>3. InDynamicLoop' /\ InRegionOfTeam'
  BY <1>2 DEF InDynamicLoop, InRegionOfTeam
<1>4. /\ opc \in [Threads -> SchOf!Labels]
      /\ opc[i] = "catch" => thrown[i] # "none"
  BY DEF SchOf!IInv, SchOf!Types, SchOf!CancelledLate, SchOf!Threads, Threads
<1> DEFINE Own == /\ saved' = IF osaved' = "none" THEN "none" ELSE "current"
                  /\ \A k \in Threads : k # i => opc'[k] = opc[k]
                  /\ opc'[i] = "idle" \/ (pc'[i] \in Aboard /\ scheduler'[i] = scheduler[i])
<1> USE DEF Aboard, Calling, Goto, vars, threadVars, idleVars
<1>5. ASSUME GetTask(i) PROVE Own
  BY <1>1, <1>4, <1>5
     DEF GetTask, Sch!FetchOrder, Sch!FetchFinish, Sch!FetchStart, Sch!Assign, Pool!InJob
<1>6. ASSUME GetWaitTask(i) PROVE Own
  BY <1>1, <1>4, <1>6 DEF GetWaitTask, Sch!FetchWait, Pool!InJob
<1>7. ASSUME GetNothing(i) PROVE Own
  BY <1>1, <1>4, <1>7 DEF GetNothing, LeaveJob, Sch!FetchNothing, Sch!TurnAway, Pool!InJob
<1>8. ASSUME Execute(i) PROVE Own
  BY <1>1, <1>4, <1>8 DEF Execute, Sch!Execute, Sch!SetIterations
<1>9. ASSUME EndTask(i) PROVE Own
  BY <1>1, <1>4, <1>9 DEF EndTask, Sch!Return, Sch!Throw, Sch!ExecuteCancelled
<1>10. ASSUME CatchAndAbort(i) PROVE Own
  BY <1>1, <1>4, <1>10 DEF CatchAndAbort, Catch, Sch!Catch, Sch!SaveFirst
<1>11. ASSUME AbortAgain(i) PROVE Own
  BY <1>1, <1>4, <1>11 DEF AbortAgain, Abort, Sch!AbortAgain
<1>12. Own
  BY <1>5, <1>6, <1>7, <1>8, <1>9, <1>10, <1>11 DEF TaskStep
<1> HIDE DEF Own
<1>13. Inside(i)
  BY TaskIsInside
<1>14. /\ pc[0] \in InProgress /\ pc'[0] \in InProgress /\ pc'[0] # "spawn"
       /\ \A k \in Threads : k # i /\ Back(k)' => Back(k)
       /\ pc'[i] \in Aboard /\ scheduler'[i] = scheduler[i] => ~Back(i)'
  BY <1>1, <1>13, InsideAJob, InsideBack DEF InProgress
<1>15. InOrderedLoop'
  BY <1>2, <1>12, <1>14 DEF Own, LoopInv, InOrderedLoop
<1>16. QED
  BY <1>3, <1>15 DEF LoopInv

LEMMA LoopInvInit == ASSUME LoopInit PROVE LoopInv
<1> USE Indices
<1>1. /\ nworkers = 0 /\ job = NoJob /\ saved = "none" /\ pc[0] = "user"
      /\ \A i \in Threads : ~done[i]
  BY DEF LoopInit, Init, Pool!Init, NoJob, Pool!NoJob, Pool!Threads, Threads, Pool!Workers,
     Workers
<1>2. pc[0] \notin InProgress /\ pc[0] # "spawn"
  BY <1>1 DEF InProgress
<1>3. ~aborted
  BY DEF LoopInit, Team!Init
<1>4. /\ opc = [i \in Threads |->
                  IF n_threads > 1 THEN "fetch" ELSE IF i = 0 THEN "loop" ELSE "idle"]
      /\ osaved = "none"
  BY Zenon DEF LoopInit, Sch!Init, Sch!Threads, Threads
<1>5. InDynamicLoop /\ InRegionOfTeam
  BY <1>1, <1>2, <1>3 DEF InDynamicLoop, InRegionOfTeam
<1>6. InOrderedLoop
  BY <1>1, <1>2, <1>4 DEF InOrderedLoop, Ordered
<1>7. QED
  BY <1>5, <1>6 DEF LoopInv

LEMMA StepKeepsLoop ==
  ASSUME IInv, LoopInv, TeamOf!TypeOK, SchOf!IInv, [LoopNext]_allVars
  PROVE  LoopInv'
<1>1. CASE UNCHANGED allVars
  BY <1>1 DEF allVars, vars, poolVars, jobVars, idleVars, threadVars, history, teamVars,
     schVars, LoopInv, InDynamicLoop, InOrderedLoop, InRegionOfTeam, Looped, Ordered, Back,
     Settling, Resting
<1>2. CASE Plain /\ UNCHANGED <<teamVars, schVars>>
  BY <1>2 DEF Plain, teamVars, schVars, LoopInv, InDynamicLoop, InOrderedLoop, InRegionOfTeam,
     Looped, Ordered
<1>3. ASSUME NEW i \in Threads, InLoop(i) PROVE LoopInv'
  BY <1>3, DynamicKeepsLoop, RegionKeepsLoop, OrderedKeepsLoop DEF InLoop
<1>4. CASE ~Plain /\ Call
  BY <1>4, CallKeepsLoop DEF Call
<1>5. CASE ~Plain /\ LoopMaster
  BY <1>3, <1>5, MasterKeepsLoop, CallKeepsLoop, Indices DEF LoopMaster, WholeMaster
<1>6. ASSUME NEW i \in Workers, LoopWorker(i) \/ (DeepSleep(i) /\ UNCHANGED <<teamVars, schVars>>)
      PROVE  LoopInv'
  BY <1>3, <1>6, SleepKeepsLoop, Indices DEF LoopWorker, Sleeping
<1>7. QED
  BY <1>1, <1>2, <1>4, <1>5, <1>6 DEF LoopNext, Idle

\* The invariant that links the pool and what runs in it: while a job is in progress a thread
\* that is back from it has no more to do in the loop, and the exception that the pool holds
\* is that of the loop.
THEOREM LoopInvariance == LoopSpec => []LoopInv
<1>1. LoopSpec => []TeamOf!TypeOK
  <2>1. TeamOf!Spec => []TeamOf!TypeOK
    BY Assumptions, TeamOf!TypeCorrectness
  <2>2. QED
    BY <2>1, TeamBehaves, PTL
<1>2. LoopSpec => []SchOf!IInv
  <2>1. SchOf!Spec => []SchOf!IInv
    BY Assumptions, MaxThreadsAssumption, SchOf!Invariance
  <2>2. QED
    BY <2>1, LoopBehaves, PTL
<1>3. LoopInit => LoopInv
  BY LoopInvInit
<1>4. IInv /\ LoopInv /\ TeamOf!TypeOK /\ SchOf!IInv /\ [LoopNext]_allVars => LoopInv'
  BY StepKeepsLoop
<1>5. QED
  BY <1>1, <1>2, <1>3, <1>4, Invariance, PTL DEF LoopSpec

\* A call that runs a loop ends when everybody is back.
LEMMA LoopJoined ==
  ASSUME IInv, ~Plain, LoopNext, job # NoJob, job' = NoJob
  PROVE  /\ WholeMaster /\ UNCHANGED <<teamVars, schVars, saved, failed, done>>
         /\ pc[0] = "join" /\ pc'[0] = "user" /\ job' = NoJob
         /\ \A k \in Threads : Back(k)
<1> USE Indices
<1>1. TypeInt /\ MasterInv /\ Kinds
  BY DEF IInv, PoolInv
<1>2. pc[0] # "user"
  BY <1>1 DEF MasterInv
<1>3. ASSUME NEW i \in Threads, InLoop(i) PROVE FALSE
  <2>1. JobStep(i)
    BY <1>1, <1>3, LoopSteps, TaskSteps DEF InLoop
  <2>2. QED
    BY <1>1, <2>1, JobFrame
<1>4. ASSUME NEW i \in Workers, LoopWorker(i) \/ DeepSleep(i) PROVE FALSE
  BY <1>3, <1>4, SleeperFrame DEF LoopWorker, Sleeping
<1>5. WholeMaster /\ UNCHANGED <<teamVars, schVars>>
  BY <1>2, <1>3, <1>4 DEF LoopNext, Call, CallRegion, Pool!ParallelRegion, CallDynamic, Idle,
     LoopMaster, InstantiateThreads, ExecuteJob, WholeMaster
<1>6. /\ pc[0] = "join" /\ pc'[0] = "user" /\ running = 0
      /\ UNCHANGED <<saved, failed, done>>
  BY <1>5, MasterMoves
<1>7. QED
  BY <1>5, <1>6, AllBack

\* What the caller of a loop finds, once everybody is back.
LEMMA LoopEnds ==
  ASSUME IInv, LoopInv, TeamOf!TeamInv, LoopNext, Looped, job # NoJob, job' = NoJob
  PROVE  /\ (saved = "current") = (failed # {} \/ aborted)
         /\ \A c \in DOMAIN script : \A r \in DOMAIN times[c] :
              times[c][r] <= 1 /\ (saved = "none" => times[c][r] = 1)
<1> USE Indices
<1>1. /\ pc[0] = "join" /\ pc[0] \in InProgress /\ \A k \in Threads : Back(k)
  BY LoopJoined DEF Plain, InProgress
<1>2. /\ TypeInt /\ MasterInv /\ Kinds /\ Region /\ job.kind # "none"
      /\ nthreads \in 1 .. MaxThreads
  BY DEF IInv, PoolInv, MasterInv, FullPool
<1>3. TeamOf!RowsAtMostOnce /\ TeamOf!LoopsAreComplete
  BY Assumptions, TeamOf!RowsOnce, TeamOf!Completeness
<1>4. /\ TeamOf!Scripted /\ TeamOf!Where /\ TeamOf!TypeOK
      /\ TeamOf!Threads \subseteq Threads /\ 0 \in TeamOf!Threads
      /\ \A i \in Threads : i \in TeamOf!AllThreads
      /\ \A i \in TeamOf!Threads : i \in Nat /\ i < nthreads
  BY <1>2, MaxThreadsAssumption
     DEF TeamOf!TeamInv, TeamOf!TypeInv, TeamOf!Threads, TeamOf!AllThreads, Threads
<1>5. ASSUME NEW k \in Threads PROVE pc[k] \notin Calling
  BY <1>1 DEF Back, Settling, Resting, Dozing, Calling
<1>6. ASSUME ~aborted, \A i \in TeamOf!Threads : tpc[i] = "done"
      PROVE  \A c \in DOMAIN script : \A r \in DOMAIN times[c] : times[c][r] = 1
  <2>1. ASSUME NEW c \in DOMAIN script, NEW i \in TeamOf!Threads PROVE TeamOf!Past(i, c)
    <3>1. at[i] = Len(script) /\ c \in 1 .. Len(script) /\ Len(script) \in Nat
      BY <1>4, <1>6, <2>1 DEF TeamOf!Where, TeamOf!Scripted
    <3>2. QED
      BY <1>6, <3>1 DEF TeamOf!Past
  <2>2. QED
    BY <1>3, <1>4, <1>6, <2>1 DEF TeamOf!LoopsAreComplete, TeamOf!Complete
<1>7. CASE entry = "dynamic"
  <2>1. saved = (IF aborted THEN "current" ELSE "none") /\ \A i \in Threads : tpc[i] = "done"
    BY <1>1, <1>7 DEF LoopInv, InDynamicLoop
  <2>2. failed = {} /\ aborted \in BOOLEAN
    BY <1>2, <1>4, <1>7 DEF Kinds, NoCalls, TeamOf!TypeOK
  <2>3. saved = "none" => \A c \in DOMAIN script : \A r \in DOMAIN times[c] : times[c][r] = 1
    BY <1>4, <1>6, <2>1
  <2>4. QED
    BY <1>3, <2>1, <2>2, <2>3 DEF TeamOf!RowsAtMostOnce
<1>8. CASE entry # "dynamic"
  <2>1. job.kind = "once" /\ job.n = nthreads /\ ~aborted
    BY <1>2, <1>4, <1>8 DEF Kinds, LoopInv, InRegionOfTeam, TeamOf!Where
  <2>2. Failed = failed
    BY <1>2, <1>5 DEF Failed, TypeInt, Calling
  <2>3. saved = IF failed # {} THEN "current" ELSE "none"
    BY <1>1, <1>2, <2>1, <2>2 DEF Region
  <2>4. ASSUME NEW i \in TeamOf!Threads PROVE tpc[i] = "done" \/ i \in failed
    <3>1. i \in Threads /\ done[i] /\ pc[i] # "call"
      BY <1>1, <1>2, <1>4, <1>5, <2>1 DEF Region, Came, Calling
    <3>2. QED
      BY <1>8, <3>1 DEF LoopInv, InRegionOfTeam
  <2>5. saved = "none" => \A c \in DOMAIN script : \A r \in DOMAIN times[c] : times[c][r] = 1
    BY <1>6, <2>1, <2>3, <2>4
  <2>6. QED
    BY <1>3, <2>1, <2>3, <2>5 DEF TeamOf!RowsAtMostOnce
<1>9. QED
  BY <1>7, <1>8

\* A call with loops in it throws exactly when a function of the user threw, in whichever
\* thread; otherwise every row of every loop has been executed exactly once when it returns.
THEOREM LoopsReturnInOrder == ASSUME MaxDynamic <= 1 PROVE LoopSpec => LoopReturns
<1>1. IInv /\ LoopInv /\ TeamOf!TeamInv /\ [LoopNext]_allVars =>
        [Looped /\ job # NoJob /\ job' = NoJob =>
           /\ (saved = "current") = (failed # {} \/ aborted)
           /\ \A c \in DOMAIN script : \A r \in DOMAIN times[c] :
                times[c][r] <= 1 /\ (saved = "none" => times[c][r] = 1)]_allVars
  BY LoopEnds
<1>2. QED
  BY <1>1, Invariance, LoopInvariance, TeamIsSound, PTL DEF LoopSpec, LoopReturns
-----------------------------------------------------------------------------
(***************************************************************************)
(* parallel_for_ordered() in the pool: the caller has the result when the  *)
(* master has joined the threads.                                          *)
(***************************************************************************)
\* Loop!result, in a name of its own.
LoopResult ==
  IF job # NoJob \/ \E i \in Threads : opc[i] # "idle" THEN "none"
  ELSE IF saved = "none" THEN "done" ELSE "threw"

LEMMA LoopStutters ==
  ASSUME UNCHANGED <<n_iterations, limit, stage, ofailed>>, LoopResult' = LoopResult
  PROVE  UNCHANGED Loop!vars
BY DEF Loop!vars, LoopResult

\* While the job runs, the loop is that of the scheduler.
LEMMA TaskRefined ==
  ASSUME IInv, LoopInv, SchOf!RInv, SchOf!RInv', Ordered, NEW i \in Threads, TaskStep(i)
  PROVE  Loop!Next \/ UNCHANGED Loop!vars
<1> USE Indices
<1>1. /\ TypeInt /\ WorkerInv /\ MasterInv /\ Kinds
      /\ MaxIterations \in Nat \ {0}
  BY LoopsAssumption DEF IInv, PoolInv
<1>2. Inside(i) /\ pc[0] \in InProgress
  BY <1>1, TaskIsInside, InsideAJob
<1>3. job # NoJob /\ job' = job
  BY <1>1, <1>2 DEF Inside, MasterInv, InProgress, NoJob, jobVars
<1>4. LoopResult = "none" /\ LoopResult' = "none" /\ NoJob' = NoJob
  BY <1>3 DEF LoopResult, NoJob
<1>5. [SchOf!OrderedLoop!Next]_(SchOf!OrderedLoop!vars)
  <2>1. [SchOf!Next]_(SchOf!vars)
    BY TaskStepOfLoop DEF SchOf!Next, SchOf!Threads, Threads
  <2>2. QED
    BY <2>1, Assumptions, MaxThreadsAssumption, SchOf!StepRefined
<1>6. CASE UNCHANGED <<n_iterations, limit, stage, ofailed>>
  BY <1>4, <1>6, LoopStutters
<1>7. ASSUME NEW m \in 0 .. MaxIterations, SchOf!OrderedLoop!Resize(m) PROVE Loop!Next
  <2>1. Loop!Resize(m)
    BY <1>4, <1>7 DEF SchOf!OrderedLoop!Resize, Loop!Resize, LoopResult
  <2>2. QED
    BY <2>1 DEF Loop!Next
<1>8. ASSUME NEW j \in SchOf!OrderedLoop!Iterations,
             \/ SchOf!OrderedLoop!Call(j) \/ SchOf!OrderedLoop!Return(j)
             \/ SchOf!OrderedLoop!Throw(j)
      PROVE  Loop!Next
  <2>1. j \in Loop!Iterations
    BY DEF SchOf!OrderedLoop!Iterations, Loop!Iterations
  <2>2. SchOf!OrderedLoop!Call(j) => Loop!Call(j)
    BY <1>4 DEF SchOf!OrderedLoop!Call, Loop!Call, LoopResult
  <2>3. SchOf!OrderedLoop!Return(j) => Loop!Return(j)
    BY <1>4 DEF SchOf!OrderedLoop!Return, SchOf!OrderedLoop!Running, Loop!Return,
       Loop!Running, LoopResult
  <2>4. SchOf!OrderedLoop!Throw(j) => Loop!Throw(j)
    BY <1>4 DEF SchOf!OrderedLoop!Throw, SchOf!OrderedLoop!Running, Loop!Throw,
       Loop!Running, LoopResult
  <2>5. QED
    BY <1>8, <2>1, <2>2, <2>3, <2>4 DEF Loop!Next
<1>9. CASE SchOf!OrderedLoop!End
  BY <1>6, <1>9 DEF SchOf!OrderedLoop!End
<1>10. QED
  BY <1>5, <1>6, <1>7, <1>8, <1>9 DEF SchOf!OrderedLoop!Next, SchOf!OrderedLoop!vars

\* The call returns or throws: no function runs any more, and if none threw then all
\* iterations are done.
LEMMA EndOfLoop ==
  ASSUME IInv, LoopInv, SchOf!RInv, Ordered, LoopNext, job # NoJob, job' = NoJob
  PROVE  Loop!Next
<1>1. /\ pc[0] = "join" /\ pc[0] \in InProgress /\ \A k \in Threads : Back(k)
      /\ UNCHANGED <<schVars, saved>>
  BY LoopJoined DEF Plain, InProgress
<1>2. /\ saved = IF osaved = "none" THEN "none" ELSE "current"
      /\ \A k \in Threads : opc[k] = "idle"
  BY <1>1 DEF LoopInv, InOrderedLoop
<1>3. /\ \A j \in SchOf!Iterations : ~(stage[j] \in {1, 3, 5} /\ j \notin ofailed)
      /\ ofailed = {} <=> osaved = "none"
      /\ ofailed = {} => \A j \in 0 .. n_iterations - 1 : stage[j] = 6
  <2>1. \A k \in SchOf!Threads : opc[k] = "idle"
    BY <1>2 DEF SchOf!Threads, Threads
  <2>2. QED
    BY <2>1, Assumptions, MaxThreadsAssumption, SchOf!AllLeft DEF Ordered
<1>4. /\ LoopResult = "none"
      /\ LoopResult' = IF ofailed = {} THEN "done" ELSE "threw"
      /\ UNCHANGED <<n_iterations, limit, stage, ofailed>>
  BY <1>1, <1>2, <1>3 DEF LoopResult, schVars, NoJob, Threads
<1>5. Loop!End
  BY <1>3, <1>4 DEF Loop!End, Loop!Running, Loop!Iterations, SchOf!Iterations, LoopResult
<1>6. QED
  BY <1>5 DEF Loop!Next

\* Before the job and after it nothing happens to the loop, and the result stays.
LEMMA OutsideOfLoop ==
  ASSUME IInv, LoopInv, Ordered, LoopNext, job = NoJob, UNCHANGED <<teamVars, schVars>>
  PROVE  UNCHANGED Loop!vars
<1> USE Indices
<1>1. /\ UNCHANGED <<n_iterations, limit, stage, ofailed, opc>> /\ NoJob' = NoJob
  BY DEF schVars, NoJob
<1>2. /\ TypeInt /\ MasterInv /\ Kinds /\ ~Plain /\ ~Looped
      /\ pc[0] \in {"user", "spawn"} /\ pc[0] \notin InProgress
  BY DEF IInv, PoolInv, MasterInv, Kinds, Plain, NoJob, InProgress
<1>3. CASE \A k \in Threads : opc[k] = "fetch"
  BY <1>1, <1>3, LoopStutters DEF LoopResult, Threads
<1>4. CASE pc[0] = "user" /\ nworkers > 0 /\ \A k \in Threads : opc[k] = "idle"
  <2>1. ASSUME NEW k \in Threads PROVE ~InLoop(k)
    <3>1. ASSUME TaskStep(k) PROVE FALSE
      <4>1. WorkerInv /\ Inside(k)
        BY <3>1, TaskIsInside DEF IInv, PoolInv
      <4>2. QED
        BY <1>2, <4>1, InsideAJob
    <3>2. QED
      BY <1>2, <3>1 DEF InLoop
  <2>2. ~InstantiateThreads /\ ~ExecuteJob
    BY <1>2, <1>4 DEF InstantiateThreads, ExecuteJob, TypeInt
  <2>3. ~WholeMaster
    BY <1>2, <1>4, MasterMoves DEF InProgress
  <2>4. UNCHANGED <<job, saved>>
    <3>1. ASSUME NEW k \in Workers, Sleeping(k) PROVE UNCHANGED <<job, saved>>
      BY <3>1, SleeperFrame
    <3>2. CASE Idle
      BY <3>2 DEF Idle, allVars, vars, jobVars, idleVars
    <3>3. QED
      BY <1>2, <2>1, <2>2, <2>3, <3>1, <3>2
         DEF LoopNext, Call, LoopMaster, WholeMaster, LoopWorker, Sleeping
  <2>5. QED
    BY <1>1, <2>4, LoopStutters DEF LoopResult, Threads
<1>5. QED
  BY <1>2, <1>3, <1>4 DEF LoopInv, InOrderedLoop

LEMMA LoopStepRefined ==
  ASSUME IInv, LoopInv, SchOf!RInv, SchOf!RInv', [LoopNext]_allVars
  PROVE  [Loop!Next]_(Loop!vars)
<1> USE Indices
<1>1. CASE UNCHANGED allVars
  <2>1. UNCHANGED <<n_iterations, limit, stage, ofailed>> /\ LoopResult' = LoopResult
    BY <1>1 DEF allVars, vars, jobVars, idleVars, schVars, LoopResult, NoJob, Threads
  <2>2. QED
    BY <2>1, LoopStutters
<1>2. CASE LoopNext /\ UNCHANGED <<teamVars, schVars>>
  <2>1. UNCHANGED <<n_iterations, limit, stage, ofailed, opc>>
    BY <1>2 DEF schVars
  <2>2. CASE ~Ordered
    <3>1. opc[0] = "loop"
      BY <2>2 DEF LoopInv, InOrderedLoop
    <3>2. QED
      BY <2>1, <3>1, LoopStutters DEF LoopResult, Threads
  <2>3. CASE Ordered /\ job = NoJob
    BY <1>2, <2>3, OutsideOfLoop
  <2>4. CASE Ordered /\ job # NoJob /\ job' = NoJob
    BY <1>2, <2>4, EndOfLoop
  <2>5. CASE job # NoJob /\ job' # NoJob
    <3>1. LoopResult = "none" /\ LoopResult' = "none"
      BY <2>5 DEF LoopResult, NoJob
    <3>2. QED
      BY <2>1, <3>1, LoopStutters
  <2>6. QED
    BY <2>2, <2>3, <2>4, <2>5
<1>3. CASE \E i \in Threads : Looped /\ LoopStep(i) /\ UNCHANGED schVars
  <2>1. ~Ordered
    BY <1>3 DEF IInv, Kinds
  <2>2. opc[0] = "loop" /\ UNCHANGED <<n_iterations, limit, stage, ofailed, opc>>
    BY <1>3, <2>1 DEF LoopInv, InOrderedLoop, schVars
  <2>3. QED
    BY <2>2, LoopStutters DEF LoopResult, Threads
<1>4. ASSUME NEW i \in Threads, Ordered, TaskStep(i) PROVE [Loop!Next]_(Loop!vars)
  BY <1>4, TaskRefined
<1>5. QED
  BY <1>1, <1>2, <1>3, <1>4, WholeStep

\* What the caller of parallel_for_ordered() sees: when it gets control back, all three
\* functions have run once for every iteration, in order, or one of them threw, and then the
\* call throws; none of them runs after that.
THEOREM OrderedLoopsRefined ==
  ASSUME MayRaise = FALSE PROVE LoopSpec => ImplementsOrderedLoop
<1>1. LoopInit => Loop!Init
  <2> SUFFICES ASSUME LoopInit PROVE Loop!Init
    OBVIOUS
  <2>1. SchOf!OrderedLoop!Init
    BY Assumptions, MaxThreadsAssumption, SameSchInit, SchOf!LoopStarts DEF LoopInit
  <2>2. LoopInv /\ pc[0] = "user"
    BY LoopInvInit, Indices DEF LoopInit, Init, Pool!Init, Pool!Threads, Threads
  <2>3. job = NoJob /\ nworkers = 0
    BY DEF LoopInit, Init, Pool!Init, NoJob, Pool!NoJob
  <2>4. opc[0] # "idle"
    BY <2>2, <2>3, Indices DEF LoopInv, InOrderedLoop, InProgress
  <2>5. LoopResult = "none"
    BY <2>4, Indices DEF LoopResult
  <2>6. QED
    BY <2>1, <2>5 DEF SchOf!OrderedLoop!Init, SchOf!OrderedLoop!Iterations, Loop!Init,
       Loop!Iterations, LoopResult
<1>2. IInv /\ LoopInv /\ SchOf!RInv /\ SchOf!RInv' /\ [LoopNext]_allVars
        => [Loop!Next]_(Loop!vars)
  BY LoopStepRefined
<1>3. QED
  BY <1>1, <1>2, Invariance, LoopInvariance, LoopIsSound, PTL
     DEF LoopSpec, ImplementsOrderedLoop, Loop!Spec
================================================================================
