---------------------------- MODULE OrderedProofs ----------------------------
(***************************************************************************)
(* For any number of threads and of iterations: no two threads are given   *)
(* the same context, the exception that a caller of parallel_for_ordered() *)
(* gets is one of the user's, and an abort cancels what is pending.        *)
(*                                                                         *)
(* None of this depends on how the three cursors go round the contexts:    *)
(* it follows from what get_next_task() tests of a single context.  The    *)
(* second part is about the ring, and what the whole loop promises.        *)
(***************************************************************************)
EXTENDS OrderedScheduler, TLAPS

Tasks == 0 .. n_tasks - 1
States == (READY_TO_START .. FINISHING) \cup {CANCELLED}
Ready == {READY_TO_START, READY_TO_ORDER, READY_TO_FINISH}
Busy == {STARTING, ORDERING, FINISHING}

Labels == {"fetch", "execute", "call", "catch", "abort", "idle", "loop", "loopcall", "unwind"}

\* The part of TypeOK that the steps of get_next_task() depend on, without bounds.
Types ==
  /\ n_tasks \in Nat \ {0} /\ n_threads \in Nat /\ n_iterations \in Nat
  /\ state \in [Tasks -> States]
  /\ assigned_tasks \in [Threads -> {waittask} \cup Tasks]
  /\ next_to_start \in Nat /\ next_to_order \in Nat /\ next_to_finish \in Nat
  /\ istart \in Tasks /\ iorder \in Tasks /\ ifinish \in Tasks
  /\ ordering_thread_index \in {NO_THREAD, INVALID_THREAD} \cup Threads
  /\ saved \in {"none", "user", "invalid"}
  /\ pc \in [Threads -> Labels]
  /\ thrown \in [Threads -> {"none", "user", "invalid"}]

\* Thread i has been given a context, and has not yet come back to the scheduler with it.
Holds(i) ==
  /\ pc[i] \in {"fetch", "execute", "call", "catch", "abort"}
  /\ assigned_tasks[i] # waittask

Executing == \A i \in Threads : pc[i] \in {"execute", "call"} => assigned_tasks[i] # waittask

\* A context that somebody holds has a state that get_next_task() hands out to nobody ...
HeldIsBusy == \A i \in Threads : Holds(i) => state[assigned_tasks[i]] \in Busy \cup {CANCELLED}

\* ... so that nobody else gets it.
HeldApart ==
  \A i, k \in Threads : i # k /\ Holds(i) /\ Holds(k) => assigned_tasks[i] # assigned_tasks[k]

\* A context is cancelled only after an exception of the user has been saved; "Invalid state"
\* is thrown because of a cancelled context.
CancelledLate ==
  /\ \A t \in Tasks : state[t] = CANCELLED => saved = "user"
  /\ \A i \in Threads :
       /\ thrown[i] = "invalid" => saved = "user"
       /\ pc[i] = "catch" => thrown[i] # "none"
       /\ pc[i] = "abort" => saved = "user"

IInv ==
  Types /\ Executing /\ HeldIsBusy /\ HeldApart /\ CancelledLate /\ UserExceptionIsThrown
-----------------------------------------------------------------------------
LEMMA Remainder == ASSUME NEW x \in Nat, NEW n \in Nat \ {0} PROVE x % n \in 0 .. n - 1
BY SMT

LEMMA InitInv == Init => IInv
<1> SUFFICES ASSUME Init PROVE IInv
  OBVIOUS
<1>1. PICK niters \in 1 .. MaxIterations, nthreads \in 0 .. MaxThreads :
        /\ n_iterations = niters
        /\ n_tasks = IF nthreads = 0 THEN 1 ELSE Least(niters, nthreads * 2)
        /\ n_threads = Least(nthreads, n_tasks)
        /\ state = [t \in 0 .. n_tasks - 1 |-> READY_TO_START]
        /\ assigned_tasks = [i \in Threads |-> waittask]
        /\ next_to_start = 0 /\ next_to_order = 0 /\ next_to_finish = 0
        /\ istart = 0 /\ iorder = 0 /\ ifinish = 0
        /\ ordering_thread_index = NO_THREAD
        /\ saved = "none"
        /\ pc = [i \in Threads |->
                   IF n_threads > 1 THEN "fetch" ELSE IF i = 0 THEN "loop" ELSE "idle"]
        /\ thrown = [i \in Threads |-> "none"]
  BY Zenon DEF Init
<1>2. niters \in Nat \ {0} /\ nthreads \in Nat
  BY MaxIterationsAssumption, MaxThreadsAssumption
<1>3. n_tasks \in Nat \ {0} /\ n_threads \in Nat /\ n_iterations \in Nat
  BY <1>1, <1>2 DEF Least
<1>4. Types
  BY <1>1, <1>3 DEF Types, Tasks, States, Labels, READY_TO_START, FINISHING
<1>5. Executing /\ HeldIsBusy /\ HeldApart
  BY <1>1 DEF Executing, HeldIsBusy, HeldApart, Holds
<1>6. CancelledLate /\ UserExceptionIsThrown
  BY <1>1 DEF CancelledLate, UserExceptionIsThrown, Tasks, READY_TO_START, CANCELLED
<1>7. QED
  BY <1>4, <1>5, <1>6 DEF IInv

\* What becomes of the contexts when thread i comes back with its own.
LEMMA AdvancedIsNearby ==
  ASSUME NEW i \in Threads, IInv
  PROVE  /\ Advanced(i) \in [Tasks -> States]
         /\ \A t \in Tasks :
              /\ t # assigned_tasks[i] => Advanced(i)[t] = state[t]
              /\ Advanced(i)[t] = CANCELLED => state[t] = CANCELLED
<1>1. \A s \in States : Advance(s) \in States /\ (Advance(s) = CANCELLED => s = CANCELLED)
  BY DEF Advance, States, READY_TO_START, FINISHING, CANCELLED
<1>2. CASE assigned_tasks[i] = waittask
  BY <1>2 DEF Advanced, IInv, Types
<1>3. CASE assigned_tasks[i] # waittask
  <2>1. Advanced(i) = [state EXCEPT ![assigned_tasks[i]] = Advance(state[assigned_tasks[i]])]
    BY <1>3 DEF Advanced
  <2>2. QED
    BY <1>1, <1>3, <2>1 DEF IInv, Types
<1>4. QED
  BY <1>2, <1>3

\* A context that is ready, once thread i has come back, is held by nobody else.
LEMMA ReadyIsFree ==
  ASSUME NEW i \in Threads, NEW t \in Tasks, IInv, Fetching(i), Advanced(i)[t] \in Ready
  PROVE  \A k \in Threads \ {i} : Holds(k) => assigned_tasks[k] # t
<1> SUFFICES ASSUME NEW k \in Threads \ {i}, Holds(k), assigned_tasks[k] = t PROVE FALSE
  OBVIOUS
<1>1. state[t] \in Busy \cup {CANCELLED}
  BY DEF IInv, HeldIsBusy
<1>2. t # assigned_tasks[i]
  <2>1. t # waittask
    BY DEF Holds
  <2>2. assigned_tasks[i] = t => Holds(i)
    BY <2>1 DEF Holds, Fetching
  <2>3. QED
    BY <2>2 DEF IInv, HeldApart
<1>3. Advanced(i)[t] = state[t]
  BY <1>2, AdvancedIsNearby
<1>4. QED
  BY <1>1, <1>3 DEF Busy, Ready, STARTING, ORDERING, FINISHING, CANCELLED, READY_TO_START,
     READY_TO_ORDER, READY_TO_FINISH
-----------------------------------------------------------------------------
\* get_next_task() hands out a context.
FetchTask(i) == FetchOrder(i) \/ FetchFinish(i) \/ FetchStart(i)

LEMMA FetchTaskAssigns ==
  ASSUME NEW i \in Threads, IInv, FetchTask(i)
  PROVE  /\ Fetching(i)
         /\ \E t \in Tasks, j \in Nat : Advanced(i)[t] \in Ready /\ Assign(i, t, j)
         /\ next_to_start' \in Nat /\ next_to_order' \in Nat /\ next_to_finish' \in Nat
         /\ istart' \in Tasks /\ iorder' \in Tasks /\ ifinish' \in Tasks
         /\ ordering_thread_index' \in {NO_THREAD, INVALID_THREAD} \cup Threads
<1> USE DEF IInv, Types, Tasks, Ready
<1>1. CASE FetchOrder(i)
  BY <1>1, Remainder DEF FetchOrder, CanOrder
<1>2. CASE FetchFinish(i)
  BY <1>2, Remainder DEF FetchFinish, CanFinish, Orderer
<1>3. CASE FetchStart(i)
  BY <1>3, Remainder DEF FetchStart, CanStart, Orderer
<1>4. QED
  BY <1>1, <1>2, <1>3 DEF FetchTask

LEMMA FetchTaskInv == ASSUME NEW i \in Threads, IInv, FetchTask(i) PROVE IInv'
<1>1. PICK t \in Tasks, j \in Nat : Advanced(i)[t] \in Ready /\ Assign(i, t, j)
  BY FetchTaskAssigns
<1>2. Fetching(i) /\ Tasks' = Tasks
  BY <1>1, FetchTaskAssigns DEF Assign, shape, Tasks
<1>3. /\ state' = [Advanced(i) EXCEPT ![t] = Advanced(i)[t] + 1]
      /\ assigned_tasks' = [assigned_tasks EXCEPT ![i] = t]
      /\ pc' = [pc EXCEPT ![i] = "execute"]
      /\ UNCHANGED <<n_tasks, n_threads, n_iterations, saved, thrown>>
  BY <1>1 DEF Assign, shape
<1>4. Advanced(i)[t] + 1 \in Busy /\ Busy \subseteq States
  BY <1>1 DEF Ready, Busy, States, READY_TO_START, STARTING, READY_TO_ORDER, ORDERING,
     READY_TO_FINISH, FINISHING
<1>5. /\ Advanced(i) \in [Tasks -> States]
      /\ state' \in [Tasks -> States]
      /\ state'[t] \in Busy
      /\ \A u \in Tasks : u # t => state'[u] = Advanced(i)[u]
  BY <1>3, <1>4, AdvancedIsNearby
<1>6. /\ assigned_tasks' \in [Threads -> {waittask} \cup Tasks]
      /\ assigned_tasks'[i] = t
      /\ \A k \in Threads \ {i} : assigned_tasks'[k] = assigned_tasks[k]
  BY <1>3 DEF IInv, Types
<1>7. /\ pc' \in [Threads -> Labels] /\ pc'[i] = "execute"
      /\ \A k \in Threads \ {i} : pc'[k] = pc[k]
  BY <1>3 DEF IInv, Types, Labels
<1>8. Types'
  BY <1>2, <1>3, <1>5, <1>6, <1>7, FetchTaskAssigns DEF IInv, Types
<1>9. t # waittask
  BY DEF Tasks, waittask
<1>10. \A k \in Threads \ {i} :
         /\ Holds(k)' <=> Holds(k)
         /\ Holds(k) => assigned_tasks[k] # t
  <2>1. \A k \in Threads \ {i} : Holds(k)' <=> Holds(k)
    BY <1>6, <1>7 DEF Holds
  <2>2. QED
    BY <1>1, <1>2, <2>1, ReadyIsFree
<1>11. Executing'
  BY <1>6, <1>7, <1>9 DEF IInv, Executing
<1>12. HeldApart'
  BY <1>6, <1>10 DEF IInv, HeldApart
<1>13. HeldIsBusy'
  <2> SUFFICES ASSUME NEW k \in Threads, Holds(k)'
               PROVE  state'[assigned_tasks'[k]] \in Busy \cup {CANCELLED}
    BY DEF HeldIsBusy
  <2>1. CASE k = i
    BY <2>1, <1>5, <1>6
  <2>2. CASE k # i
    <3> DEFINE u == assigned_tasks[k]
    <3>1. Holds(k) /\ assigned_tasks'[k] = u /\ u # t
      BY <2>2, <1>6, <1>10
    <3>2. u \in Tasks
      BY <3>1 DEF Holds, IInv, Types
    <3>3. u # assigned_tasks[i]
      <4>1. assigned_tasks[i] # waittask => Holds(i)
        BY <1>2 DEF Holds, Fetching
      <4>2. u # waittask
        BY <3>1 DEF Holds
      <4>3. QED
        BY <2>2, <3>1, <4>1, <4>2 DEF IInv, HeldApart
    <3>4. state'[u] = state[u]
      BY <3>1, <3>2, <3>3, <1>5, AdvancedIsNearby
    <3>5. QED
      BY <3>1, <3>4 DEF IInv, HeldIsBusy
  <2>3. QED
    BY <2>1, <2>2
<1>14. CancelledLate'
  <2>1. \A u \in Tasks : state'[u] = CANCELLED => state[u] = CANCELLED
    <3>1. state'[t] # CANCELLED
      BY <1>5 DEF Busy, STARTING, ORDERING, FINISHING, CANCELLED
    <3>2. QED
      BY <3>1, <1>5, AdvancedIsNearby
  <2>2. QED
    BY <2>1, <1>2, <1>3, <1>7 DEF IInv, CancelledLate
<1>15. UserExceptionIsThrown'
  BY <1>3 DEF IInv, UserExceptionIsThrown
<1>16. QED
  BY <1>8, <1>11, <1>12, <1>13, <1>14, <1>15 DEF IInv
-----------------------------------------------------------------------------
\* There is nothing to hand out: the thread has given its context back.
FetchNone(i) == FetchWait(i) \/ FetchNothing(i)

LEMMA FetchNoneInv == ASSUME NEW i \in Threads, IInv, FetchNone(i) PROVE IInv'
<1>1. /\ Fetching(i) /\ state' = Advanced(i) /\ ordering_thread_index' = Orderer(i)
      /\ UNCHANGED <<n_tasks, n_threads, n_iterations, queues, saved, thrown>>
      /\ \/ assigned_tasks' = [assigned_tasks EXCEPT ![i] = waittask] /\ UNCHANGED pc
         \/ pc' = [pc EXCEPT ![i] = "idle"] /\ UNCHANGED assigned_tasks
  BY DEF FetchNone, FetchWait, FetchNothing, shape
<1>2. Tasks' = Tasks
  BY <1>1 DEF Tasks
<1>3. /\ assigned_tasks' \in [Threads -> {waittask} \cup Tasks]
      /\ pc' \in [Threads -> Labels]
      /\ pc'[i] \in {"fetch", "idle"}
      /\ ~Holds(i)'
      /\ \A k \in Threads \ {i} : assigned_tasks'[k] = assigned_tasks[k] /\ pc'[k] = pc[k]
  BY <1>1 DEF IInv, Types, Labels, Fetching, Holds
<1>4. ordering_thread_index' \in {NO_THREAD, INVALID_THREAD} \cup Threads
  BY <1>1 DEF Orderer, IInv, Types
<1>5. Types'
  BY <1>1, <1>2, <1>3, <1>4, AdvancedIsNearby DEF IInv, Types, queues
<1>6. \A k \in Threads : Holds(k)' => k # i /\ Holds(k) /\ assigned_tasks'[k] = assigned_tasks[k]
  BY <1>3 DEF Holds
<1>7. Executing'
  BY <1>3 DEF IInv, Executing
<1>8. HeldApart'
  BY <1>6 DEF IInv, HeldApart
<1>9. HeldIsBusy'
  <2> SUFFICES ASSUME NEW k \in Threads, Holds(k)'
               PROVE  state'[assigned_tasks'[k]] \in Busy \cup {CANCELLED}
    BY DEF HeldIsBusy
  <2> DEFINE u == assigned_tasks[k]
  <2>1. k # i /\ Holds(k) /\ assigned_tasks'[k] = u /\ u # waittask
    BY <1>6 DEF Holds
  <2>2. u \in Tasks
    BY <2>1 DEF IInv, Types
  <2>3. u # assigned_tasks[i]
    <3>1. assigned_tasks[i] # waittask => Holds(i)
      BY <1>1 DEF Holds, Fetching
    <3>2. QED
      BY <2>1, <3>1 DEF IInv, HeldApart
  <2>4. state'[u] = state[u]
    BY <1>1, <2>2, <2>3, AdvancedIsNearby
  <2>5. QED
    BY <2>1, <2>4 DEF IInv, HeldIsBusy
<1>10. CancelledLate'
  BY <1>1, <1>2, <1>3, AdvancedIsNearby DEF IInv, CancelledLate
<1>11. UserExceptionIsThrown'
  BY <1>1 DEF IInv, UserExceptionIsThrown
<1>12. QED
  BY <1>5, <1>7, <1>8, <1>9, <1>10, <1>11 DEF IInv
-----------------------------------------------------------------------------
\* Steps of a thread outside of the scheduler, which leave all contexts as they are.
Outside(i) ==
  \/ TurnAway(i) \/ Execute(i) \/ ExecuteCancelled(i) \/ Return(i) \/ Throw(i)
  \/ \E n \in Resizes : SetIterations(i, n)

LEMMA CancelledIsSaved ==
  ASSUME NEW i \in Threads, IInv, ExecuteCancelled(i) PROVE saved = "user"
<1>1. Holds(i) /\ assigned_tasks[i] \in Tasks
  BY DEF ExecuteCancelled, Holds, IInv, Executing, Types
<1>2. state[assigned_tasks[i]] = CANCELLED
  BY <1>1 DEF ExecuteCancelled, IInv, HeldIsBusy, Busy
<1>3. QED
  BY <1>1, <1>2 DEF IInv, CancelledLate

LEMMA OutsideInv == ASSUME NEW i \in Threads, IInv, Outside(i) PROVE IInv'
<1>1. /\ UNCHANGED <<n_tasks, n_threads, taskVars, queues, ordering_thread_index, saved>>
      /\ n_iterations' \in Nat
  BY ResizesAssumption, MaxIterationsAssumption
     DEF Outside, TurnAway, Execute, ExecuteCancelled, Return, Throw, SetIterations, shape,
         IInv, Types
<1>2. /\ pc' \in [Threads -> Labels]
      /\ \A k \in Threads \ {i} : pc'[k] = pc[k]
      /\ \/ pc'[i] = pc[i]
         \/ pc'[i] = "idle"
         \/ pc[i] = "execute" /\ pc'[i] = "call"
         \/ pc[i] \in {"execute", "call"} /\ pc'[i] \in {"fetch", "catch"}
  BY DEF Outside, TurnAway, Execute, ExecuteCancelled, Return, Throw, SetIterations,
         IInv, Types, Labels
<1>3. /\ thrown' \in [Threads -> {"none", "user", "invalid"}]
      /\ \A k \in Threads : thrown'[k] = "invalid" => saved = "user"
      /\ \A k \in Threads : pc'[k] = "catch" => thrown'[k] # "none"
  <2>1. CASE ExecuteCancelled(i)
    BY <2>1, CancelledIsSaved DEF ExecuteCancelled, IInv, Types, CancelledLate
  <2>2. CASE Throw(i)
    BY <2>2 DEF Throw, IInv, Types, CancelledLate
  <2>3. CASE TurnAway(i) \/ Execute(i) \/ Return(i) \/ \E n \in Resizes : SetIterations(i, n)
    BY <2>3 DEF TurnAway, Execute, Return, SetIterations, IInv, Types, CancelledLate
  <2>4. QED
    BY <2>1, <2>2, <2>3 DEF Outside
<1>4. Tasks' = Tasks
  BY <1>1 DEF Tasks
<1>5. Types'
  BY <1>1, <1>2, <1>3, <1>4 DEF IInv, Types, taskVars, queues
<1>6. \A k \in Threads : Holds(k)' => Holds(k)
  BY <1>1, <1>2 DEF Holds, taskVars, IInv, Executing
<1>7. Executing' /\ HeldIsBusy' /\ HeldApart'
  BY <1>1, <1>2, <1>6 DEF IInv, Executing, HeldIsBusy, HeldApart, taskVars
<1>8. CancelledLate' /\ UserExceptionIsThrown'
  BY <1>1, <1>2, <1>3, <1>4 DEF IInv, CancelledLate, UserExceptionIsThrown, taskVars
<1>9. QED
  BY <1>5, <1>7, <1>8 DEF IInv
-----------------------------------------------------------------------------
\* An exception is saved, if it is the first one, and what is pending is cancelled.
Aborts(i) == Catch(i) \/ AbortAgain(i)

LEMMA AbortsInv == ASSUME NEW i \in Threads, IInv, Aborts(i) PROVE IInv'
<1>1. /\ AbortExecution
      /\ UNCHANGED <<n_tasks, n_threads, n_iterations, assigned_tasks, next_to_order, istart,
                     iorder, ifinish>>
      /\ \/ pc[i] = "catch" /\ pc' = [pc EXCEPT ![i] = "abort"] /\ SaveFirst(i)
            /\ UNCHANGED thrown
         \/ pc[i] = "abort" /\ pc' = [pc EXCEPT ![i] = "fetch"] /\ UNCHANGED saved
            /\ thrown' = [thrown EXCEPT ![i] = "none"]
  BY DEF Aborts, Catch, AbortAgain, shape
<1>2. saved' = "user"
  BY <1>1 DEF SaveFirst, IInv, Types, CancelledLate, UserExceptionIsThrown
<1>3. saved = "user" => saved' = "user"
  BY <1>2
<1>4. Tasks' = Tasks
  BY <1>1 DEF Tasks
<1>5. /\ state' \in [Tasks -> States]
      /\ state'[iorder] = CANCELLED
      /\ \A t \in Tasks \ {iorder} : state'[t] = state[t]
  BY <1>1 DEF AbortExecution, IInv, Types, States
<1>6. /\ pc' \in [Threads -> Labels]
      /\ pc'[i] \in {"abort", "fetch"} /\ pc[i] \in {"catch", "abort"}
      /\ \A k \in Threads \ {i} : pc'[k] = pc[k]
  BY <1>1 DEF IInv, Types, Labels
<1>7. /\ thrown' \in [Threads -> {"none", "user", "invalid"}]
      /\ \A k \in Threads \ {i} : thrown'[k] = thrown[k]
  BY <1>1 DEF IInv, Types
<1>8. Types'
  BY <1>1, <1>2, <1>4, <1>5, <1>6, <1>7 DEF AbortExecution, IInv, Types
<1>9. \A k \in Threads : Holds(k)' <=> Holds(k)
  BY <1>1, <1>6 DEF Holds
<1>10. Executing' /\ HeldApart'
  BY <1>1, <1>6, <1>9 DEF IInv, Executing, HeldApart
<1>11. HeldIsBusy'
  BY <1>1, <1>5, <1>9 DEF IInv, HeldIsBusy, Holds, Types
<1>12. CancelledLate' /\ UserExceptionIsThrown'
  BY <1>2, <1>6, <1>7 DEF IInv, CancelledLate, UserExceptionIsThrown
<1>13. QED
  BY <1>8, <1>10, <1>11, <1>12 DEF IInv

\* The first pool saves the exception before it cancels anything; AbortAgain is its abort.
Saves(i) ==
  /\ pc[i] = "catch"
  /\ SaveFirst(i)
  /\ pc' = [pc EXCEPT ![i] = "abort"]
  /\ UNCHANGED <<n_tasks, n_threads, n_iterations, state, n_iter, assigned_tasks,
                 next_to_start, next_to_order, next_to_finish, istart, iorder, ifinish,
                 ordering_thread_index, arg, thrown, stage, failed, limit>>

LEMMA SavesEffect ==
  ASSUME NEW i \in Threads, IInv, Saves(i)
  PROVE  /\ saved' = "user"
         /\ pc' \in [Threads -> Labels]
         /\ pc'[i] = "abort" /\ pc[i] = "catch"
         /\ \A k \in Threads \ {i} : pc'[k] = pc[k]
<1>1. /\ pc \in [Threads -> Labels] /\ pc[i] = "catch" /\ pc' = [pc EXCEPT ![i] = "abort"]
  BY DEF Saves, IInv, Types
<1>2. saved' = "user"
  BY DEF Saves, SaveFirst, IInv, Types, CancelledLate, UserExceptionIsThrown
<1>3. QED
  BY <1>1, <1>2 DEF Labels

LEMMA SavesInv == ASSUME NEW i \in Threads, IInv, Saves(i) PROVE IInv'
<1>1. /\ saved' = "user"
      /\ pc' \in [Threads -> Labels]
      /\ pc'[i] = "abort" /\ pc[i] = "catch"
      /\ \A k \in Threads \ {i} : pc'[k] = pc[k]
  BY SavesEffect
<1>2. Tasks' = Tasks
  BY DEF Tasks, Saves
<1>3. \A k \in Threads : Holds(k)' <=> Holds(k)
  BY <1>1 DEF Holds, Saves
<1>4. Types'
  BY <1>1, <1>2 DEF Saves, IInv, Types
<1>5. Executing' /\ HeldApart' /\ HeldIsBusy'
  BY <1>1, <1>3 DEF Saves, IInv, Executing, HeldApart, HeldIsBusy
<1>6. CancelledLate' /\ UserExceptionIsThrown'
  BY <1>1, <1>2 DEF Saves, IInv, CancelledLate, UserExceptionIsThrown
<1>7. QED
  BY <1>4, <1>5, <1>6 DEF IInv

\* The loop that the master runs alone has neither contexts nor an abort.
LEMMA LoopInv == ASSUME IInv, Loop PROVE IInv'
<1>1. 0 \in Threads
  BY MaxThreadsAssumption DEF Threads
<1>2. /\ UNCHANGED <<n_tasks, n_threads, n_iterations, state, assigned_tasks, queues,
                     ordering_thread_index, thrown>>
      /\ saved' = saved \/ saved' = "user"
      /\ pc[0] \in {"loop", "loopcall", "unwind"}
      /\ \/ pc' = [pc EXCEPT ![0] = "loop"] \/ pc' = [pc EXCEPT ![0] = "loopcall"]
         \/ pc' = [pc EXCEPT ![0] = "unwind"] \/ pc' = [pc EXCEPT ![0] = "idle"]
  BY DEF Loop, LoopCall, LoopReturn, LoopThrow, LoopEnd, LoopFrame, shape, taskVars
<1>3. /\ pc' \in [Threads -> Labels]
      /\ pc'[0] \in {"loop", "loopcall", "unwind", "idle"}
      /\ \A k \in Threads \ {0} : pc'[k] = pc[k]
  BY <1>1, <1>2 DEF IInv, Types, Labels
<1>4. Tasks' = Tasks
  BY <1>2 DEF Tasks
<1>5. Types'
  BY <1>2, <1>3, <1>4 DEF IInv, Types, queues
<1>6. \A k \in Threads : Holds(k)' => Holds(k)
  BY <1>2, <1>3 DEF Holds
<1>7. Executing' /\ HeldIsBusy' /\ HeldApart'
  BY <1>2, <1>3, <1>6 DEF IInv, Executing, HeldIsBusy, HeldApart
<1>8. CancelledLate' /\ UserExceptionIsThrown'
  BY <1>2, <1>3, <1>4 DEF IInv, CancelledLate, UserExceptionIsThrown
<1>9. QED
  BY <1>5, <1>7, <1>8 DEF IInv

LEMMA StepKinds ==
  Next => Loop \/ \E i \in Threads : FetchTask(i) \/ FetchNone(i) \/ Outside(i) \/ Aborts(i)
BY DEF Next, Step, FetchTask, FetchNone, Outside, Aborts

LEMMA StepInv == IInv /\ [Next]_vars => IInv'
<1> SUFFICES ASSUME IInv, [Next]_vars PROVE IInv'
  OBVIOUS
<1>1. CASE Loop
  BY <1>1, LoopInv
<1>2. ASSUME NEW i \in Threads, FetchTask(i) \/ FetchNone(i) \/ Outside(i) \/ Aborts(i) PROVE IInv'
  BY <1>2, FetchTaskInv, FetchNoneInv, OutsideInv, AbortsInv
<1>3. CASE UNCHANGED vars
  BY <1>3 DEF vars, shape, taskVars, queues, IInv, Types, Tasks, Executing, HeldIsBusy, HeldApart,
     Holds, CancelledLate, UserExceptionIsThrown
<1>4. QED
  BY <1>1, <1>2, <1>3, StepKinds

\* The invariant holds, for any number of threads and of iterations.
THEOREM Invariance == Spec => []IInv
BY InitInv, StepInv, PTL DEF Spec

\* No context is executed by two threads at a time, though execute() reads it without the
\* mutex of the scheduler.
THEOREM ContextsArePrivate == Spec => []ContextIsPrivate
<1>1. IInv => ContextIsPrivate
  BY DEF IInv, HeldApart, Executing, Holds, ContextIsPrivate
<1>2. QED
  BY <1>1, Invariance, PTL

\* The exception thrown to the caller is the user's, and not the "Invalid state" that
\* cancel() provokes in the thread that has fetched the cancelled context.
THEOREM UsersExceptionSurvives == Spec => []UserExceptionIsThrown
<1>1. IInv => UserExceptionIsThrown
  BY DEF IInv
<1>2. QED
  BY <1>1, Invariance, PTL
-----------------------------------------------------------------------------
\* After an abort no cursor is below the number of iterations, provided that nobody raises
\* that number any more: there is nothing to start, to order or to finish.
NothingPending ==
  ordering_thread_index = INVALID_THREAD =>
    next_to_start >= n_iterations /\ next_to_finish >= n_iterations

LEMMA PendingInit == Init => NothingPending
BY DEF Init, NothingPending, NO_THREAD, INVALID_THREAD

LEMMA AbortedStaysAborted ==
  ASSUME NEW i \in Threads, IInv, NothingPending, Fetching(i), ordering_thread_index = INVALID_THREAD
  PROVE  /\ ~CanOrder(i) /\ ~CanFinish(i) /\ ~CanStart(i)
         /\ Orderer(i) = INVALID_THREAD
<1>1. Orderer(i) = INVALID_THREAD
  BY DEF Orderer, Threads, INVALID_THREAD, NO_THREAD
<1>2. QED
  BY <1>1 DEF NothingPending, CanOrder, CanFinish, CanStart, NO_THREAD, INVALID_THREAD, IInv, Types

LEMMA PendingStep ==
  ASSUME MayRaise = FALSE, IInv, NothingPending, [Next]_vars PROVE NothingPending'
<1> SUFFICES ASSUME ordering_thread_index' = INVALID_THREAD
             PROVE  next_to_start' >= n_iterations' /\ next_to_finish' >= n_iterations'
  BY DEF NothingPending
<1>1. ASSUME NEW i \in Threads, FetchTask(i) PROVE FALSE
  <2>1. Fetching(i) /\ ordering_thread_index # INVALID_THREAD
    BY <1>1, AbortedStaysAborted DEF FetchTask, FetchOrder, FetchFinish, FetchStart
  <2>2. Orderer(i) # INVALID_THREAD /\ i # INVALID_THREAD
    BY <2>1 DEF Orderer, Threads, NO_THREAD, INVALID_THREAD
  <2>3. QED
    BY <1>1, <2>2 DEF FetchTask, FetchOrder, FetchFinish, FetchStart
<1>2. ASSUME NEW i \in Threads, FetchNone(i)
      PROVE  next_to_start' >= n_iterations' /\ next_to_finish' >= n_iterations'
  <2>1. Orderer(i) = INVALID_THREAD => ordering_thread_index = INVALID_THREAD
    BY DEF Orderer, NO_THREAD, INVALID_THREAD
  <2>2. QED
    BY <1>2, <2>1 DEF FetchNone, FetchWait, FetchNothing, queues, NothingPending
<1>3. ASSUME NEW i \in Threads, Outside(i)
      PROVE  next_to_start' >= n_iterations' /\ next_to_finish' >= n_iterations'
  <2>1. CASE \E n \in Resizes : SetIterations(i, n)
    <3>1. PICK n \in Resizes : SetIterations(i, n)
      BY <2>1
    <3>2. n \in Nat /\ n_iterations' = n /\ n < n_iterations
      BY <3>1, ResizesAssumption, MaxIterationsAssumption DEF SetIterations
    <3>3. QED
      BY <3>1, <3>2 DEF SetIterations, queues, NothingPending, IInv, Types
  <2>2. CASE TurnAway(i) \/ Execute(i) \/ ExecuteCancelled(i) \/ Return(i) \/ Throw(i)
    BY <2>2 DEF TurnAway, Execute, ExecuteCancelled, Return, Throw, queues, NothingPending
  <2>3. QED
    BY <1>3, <2>1, <2>2 DEF Outside
<1>4. ASSUME NEW i \in Threads, Aborts(i)
      PROVE  next_to_start' >= n_iterations' /\ next_to_finish' >= n_iterations'
  BY <1>4 DEF Aborts, Catch, AbortAgain, AbortExecution, IInv, Types
<1>5. CASE Loop
  BY <1>5 DEF Loop, LoopCall, LoopReturn, LoopThrow, LoopEnd, LoopFrame, queues, NothingPending
<1>6. CASE UNCHANGED vars
  BY <1>6 DEF vars, queues, NothingPending
<1>7. QED
  BY <1>1, <1>2, <1>3, <1>4, <1>5, <1>6, StepKinds

\* Once an exception has been caught, a thread that asks for a task gets none, or a wait
\* task; provided that the user does not raise the number of iterations after that.
THEOREM AbortsCancel == ASSUME MayRaise = FALSE PROVE Spec => AbortCancels
<1>1. IInv /\ NothingPending /\ [Next]_vars =>
        (ordering_thread_index = INVALID_THREAD =>
           \A i \in Threads : pc[i] = "fetch" => pc'[i] \in {"fetch", "idle"})
  <2> SUFFICES ASSUME IInv, NothingPending, [Next]_vars,
                      ordering_thread_index = INVALID_THREAD,
                      NEW i \in Threads, pc[i] = "fetch"
               PROVE  pc'[i] \in {"fetch", "idle"}
    OBVIOUS
  <2>1. CASE UNCHANGED vars
    BY <2>1 DEF vars
  <2>2. CASE Loop
    BY <2>2 DEF Loop, LoopCall, LoopReturn, LoopThrow, LoopEnd, IInv, Types
  <2>3. ASSUME NEW k \in Threads, FetchTask(k) PROVE FALSE
    BY <2>3, AbortedStaysAborted, FetchTaskAssigns
       DEF FetchTask, FetchOrder, FetchFinish, FetchStart
  <2>4. ASSUME NEW k \in Threads, FetchNone(k) \/ Outside(k) \/ Aborts(k)
        PROVE  pc'[i] \in {"fetch", "idle"}
    BY <2>4 DEF FetchNone, FetchWait, FetchNothing, Outside, TurnAway, Execute, ExecuteCancelled,
       Return, Throw, SetIterations, Aborts, Catch, AbortAgain, IInv, Types
  <2>5. QED
    BY <2>1, <2>2, <2>3, <2>4, StepKinds
<1>2. NothingPending /\ IInv /\ [Next]_vars => NothingPending'
  BY PendingStep
<1>3. QED
  BY <1>1, <1>2, PendingInit, Invariance, PTL DEF Spec, AbortCancels
-----------------------------------------------------------------------------
(***************************************************************************)
(* The ring of contexts, and that parallel_for_ordered() does what its     *)
(* comment promises, for any number of threads and of iterations.          *)
(*                                                                         *)
(* Iteration j runs in the context j % n_tasks.  The three cursors divide  *)
(* the last n_tasks iterations: those from next_to_finish to next_to_order *)
(* wait for their post-ordered function, those from there to next_to_start *)
(* for their ordered one, and the remaining contexts are free, or finish.  *)
(* As the invariant says where each context is, a cursor that finds its    *)
(* own ready has found the context of its own iteration, and not the one   *)
(* of an earlier or later lap.                                             *)
(*                                                                         *)
(* All of it supposes that the user does not raise the number of           *)
(* iterations once the loop has been aborted (MayRaise = FALSE).           *)
(***************************************************************************)
\* Nobody has aborted the loop.
InOrder == ordering_thread_index # INVALID_THREAD

\* The iteration that thread i executes a function of, and the state of its context.
Number(i) == n_iter[assigned_tasks[i]]
StateOf(i) == state[assigned_tasks[i]]

\* What Types leaves out of TypeOK.
Bounds ==
  /\ n_tasks <= MaxIterations /\ n_threads <= n_tasks /\ n_threads <= MaxThreads
  /\ limit \in n_iterations .. MaxIterations
  /\ n_iter \in [Tasks -> Iterations]
  /\ next_to_start <= MaxIterations /\ next_to_order <= MaxIterations
  /\ next_to_finish <= MaxIterations
  /\ arg \in [Threads -> 0 .. MaxIterations]
  /\ stage \in [Iterations -> 0 .. 6]
  /\ failed \subseteq Iterations

RingCursors ==
  /\ next_to_finish <= next_to_order /\ next_to_order <= next_to_start
  /\ next_to_start <= next_to_finish + n_tasks
  /\ next_to_start <= limit
  /\ istart = next_to_start % n_tasks
  /\ iorder = next_to_order % n_tasks
  /\ ifinish = next_to_finish % n_tasks

\* st: the states of the contexts.  A context that waits for a function is in the stage
\* that the function before has ended.
RingTasks(st) ==
  /\ \A j \in next_to_finish .. next_to_order - 1 :
       /\ n_iter[j % n_tasks] = j
       /\ \/ st[j % n_tasks] = ORDERING
          \/ st[j % n_tasks] = READY_TO_FINISH /\ stage[j] = 4
  /\ \A j \in next_to_order .. next_to_start - 1 :
       /\ n_iter[j % n_tasks] = j
       /\ \/ st[j % n_tasks] = STARTING
          \/ st[j % n_tasks] = READY_TO_ORDER /\ stage[j] = 2
  /\ \A j \in next_to_start .. next_to_finish + n_tasks - 1 :
       st[j % n_tasks] \in {READY_TO_START, FINISHING}

\* What has not been started is untouched, what has been given to be finished is finished
\* or on its way, and every context that is not ready has a thread that holds it.
\* W: the threads that may still hold one.
Untouched == \A j \in Iterations : j >= next_to_start => stage[j] = 0

Finished(st, W) ==
  \A j \in 0 .. next_to_finish - 1 :
    \/ stage[j] = 6
    \/ /\ stage[j] \in {4, 5}
       /\ \E i \in W : Holds(i) /\ Number(i) = j /\ st[assigned_tasks[i]] = FINISHING

BusyIsHeld(st, W) ==
  \A t \in Tasks : st[t] \in Busy => \E i \in W : Holds(i) /\ assigned_tasks[i] = t

\* The context that thread i holds lies in the part of the ring its state says; only the
\* ordering thread orders.
InPlace(i, st, orderer) ==
  Holds(i) =>
    /\ st[assigned_tasks[i]] = STARTING => Number(i) \in next_to_order .. next_to_start - 1
    /\ st[assigned_tasks[i]] = ORDERING =>
         Number(i) \in next_to_finish .. next_to_order - 1 /\ orderer = i
    /\ st[assigned_tasks[i]] = FINISHING => Number(i) < next_to_finish
    /\ st[assigned_tasks[i]] \in Busy
    /\ pc[i] = "fetch" => stage[Number(i)] = st[assigned_tasks[i]] + 1

RingOf(st, orderer, W) ==
  /\ RingCursors /\ RingTasks(st) /\ Untouched /\ Finished(st, W) /\ BusyIsHeld(st, W)
  /\ \A i \in W : InPlace(i, st, orderer)

Ring == n_threads > 1 /\ InOrder => RingOf(state, ordering_thread_index, Threads)

\* The threads leave when everything has been given out.
Complete ==
  n_threads > 1 /\ InOrder /\ (\A i \in 0 .. n_threads - 1 : pc[i] = "idle") =>
    next_to_finish >= n_iterations

\* About a context that is held; this is true after an abort, too.
Held ==
  \A i \in Threads : Holds(i) =>
    /\ i < n_threads /\ Number(i) % n_tasks = assigned_tasks[i] /\ Number(i) < limit
    /\ pc[i] = "execute" /\ StateOf(i) # CANCELLED =>
         /\ stage[Number(i)] = StateOf(i) - 1
         /\ StateOf(i) = ORDERING => \A k \in 0 .. Number(i) - 1 : stage[k] >= 4
    /\ pc[i] = "call" =>
         arg[i] = Number(i) /\ (StateOf(i) = CANCELLED \/ stage[Number(i)] = StateOf(i))

\* An iteration is in an odd stage while somebody runs its function, and for ever if the
\* function threw.
Calling(i) == pc[i] \in {"call", "loopcall"}

Calls ==
  /\ \A i \in Threads : Calling(i) =>
       arg[i] \in 0 .. limit - 1 /\ arg[i] \notin failed /\ stage[arg[i]] \in {1, 3, 5}
  /\ \A j \in Iterations : stage[j] \in {1, 3, 5} /\ j \notin failed =>
       \E i \in Threads : Calling(i) /\ arg[i] = j
  /\ \A j \in failed : stage[j] \in {1, 3, 5}

\* An exception is saved, or handled, or it is about to be.
Failures ==
  /\ ~InOrder => saved = "user"
  /\ saved # "none" => failed # {}
  /\ \A i \in Threads : thrown[i] # "none" => failed # {}
  /\ failed # {} => saved # "none" \/ \E i \in Threads : pc[i] = "catch"

\* The loop that the master runs alone.
Alone ==
  /\ n_threads > 1 => \A i \in Threads : pc[i] \notin {"loop", "loopcall", "unwind"}
  /\ n_threads <= 1 =>
       /\ \A i \in Threads \ {0} : pc[i] = "idle"
       /\ pc[0] \in {"loop", "loopcall", "unwind", "idle"}
       /\ arg[0] <= limit
       /\ \A j \in 0 .. arg[0] - 1 : stage[j] = 6
       /\ \A j \in Iterations : j > arg[0] => stage[j] = 0
       /\ pc[0] = "loop" => failed = {} /\ (arg[0] < MaxIterations => stage[arg[0]] \in {0, 2, 4})
       /\ pc[0] = "loopcall" => failed = {}
       /\ pc[0] = "unwind" => saved = "user"

RInv ==
  IInv /\ NothingPending /\ Bounds /\ Ring /\ Complete /\ Held /\ Calls /\ Failures /\ Alone
-----------------------------------------------------------------------------
\* Two iterations less than n apart never share a context, of n.
LEMMA DivisionIsUnique ==
  ASSUME NEW n \in Nat \ {0}, NEW p \in Int, NEW q \in Int,
         NEW a \in 0 .. n - 1, NEW b \in 0 .. n - 1, n * p + a = n * q + b
  PROVE  p = q /\ a = b
<1> SUFFICES ASSUME p # q PROVE FALSE
  OBVIOUS
<1>1. n * (p - q) = b - a
  OBVIOUS
<1>2. CASE p - q >= 1
  <2>1. n * (p - q) >= n
    BY <1>2
  <2>2. QED
    BY <1>1, <2>1
<1>3. CASE p - q <= -1
  <2>1. n * (p - q) <= -n
    BY <1>3
  <2>2. QED
    BY <1>1, <2>1
<1>4. QED
  BY <1>2, <1>3

LEMMA Division ==
  ASSUME NEW n \in Nat \ {0}, NEW x \in Nat
  PROVE  /\ x = n * (x \div n) + (x % n)
         /\ x \div n \in Int /\ x % n \in 0 .. n - 1
OBVIOUS

LEMMA SlotsRepeat == ASSUME NEW n \in Nat \ {0}, NEW x \in Nat PROVE (x + n) % n = x % n
<1> DEFINE p == (x + n) \div n
           q == x \div n
           a == (x + n) % n
           b == x % n
<1>1. p \in Int /\ q \in Int /\ a \in 0 .. n - 1 /\ b \in 0 .. n - 1
  BY Division
<1>2. x + n = n * p + a /\ x = n * q + b
  BY Division
<1> HIDE DEF p, q, a, b
<1>3. n * p + a = n * (q + 1) + b
  BY <1>1, <1>2
<1>4. a = b
  BY <1>1, <1>3, DivisionIsUnique, q + 1 \in Int
<1>5. QED
  BY <1>4 DEF a, b

LEMMA SlotsDiffer ==
  ASSUME NEW n \in Nat \ {0}, NEW x \in Nat, NEW y \in Nat, x < y, y < x + n
  PROVE  x % n # y % n
<1> SUFFICES ASSUME x % n = y % n PROVE FALSE
  OBVIOUS
<1>1. PICK p \in Int, q \in Int, a \in 0 .. n - 1 : x = n * p + a /\ y = n * q + a
  BY Division
<1>2. n * (q - p) = y - x
  BY <1>1
<1>3. CASE q - p >= 1
  <2>1. n * (q - p) >= n
    BY <1>3
  <2>2. QED
    BY <1>2, <2>1
<1>4. CASE q - p <= 0
  <2>1. n * (q - p) <= 0
    BY <1>4
  <2>2. QED
    BY <1>2, <2>1
<1>5. QED
  BY <1>3, <1>4
-----------------------------------------------------------------------------
LEMMA RingInit == Init => RInv
<1> SUFFICES ASSUME Init PROVE RInv
  OBVIOUS
<1>1. PICK niters \in 1 .. MaxIterations, nthreads \in 0 .. MaxThreads :
        /\ n_iterations = niters
        /\ n_tasks = IF nthreads = 0 THEN 1 ELSE Least(niters, nthreads * 2)
        /\ n_threads = Least(nthreads, n_tasks)
        /\ limit = niters
        /\ state = [t \in 0 .. n_tasks - 1 |-> READY_TO_START]
        /\ n_iter = [t \in 0 .. n_tasks - 1 |-> 0]
        /\ assigned_tasks = [i \in Threads |-> waittask]
        /\ next_to_start = 0 /\ next_to_order = 0 /\ next_to_finish = 0
        /\ istart = 0 /\ iorder = 0 /\ ifinish = 0
        /\ ordering_thread_index = NO_THREAD
        /\ saved = "none"
        /\ pc = [i \in Threads |->
                   IF n_threads > 1 THEN "fetch" ELSE IF i = 0 THEN "loop" ELSE "idle"]
        /\ arg = [i \in Threads |-> 0]
        /\ thrown = [i \in Threads |-> "none"]
        /\ stage = [j \in Iterations |-> 0]
        /\ failed = {}
  BY Zenon DEF Init
<1>2. niters \in Nat \ {0} /\ nthreads \in Nat /\ MaxIterations \in Nat \ {0} /\ 0 \in Threads
      /\ 0 \in Iterations
  BY MaxIterationsAssumption, MaxThreadsAssumption DEF Threads, Iterations
<1>3. n_tasks \in 1 .. MaxIterations /\ n_threads \in Nat /\ n_threads <= n_tasks
      /\ n_threads <= MaxThreads
  BY <1>1, <1>2, MaxThreadsAssumption DEF Least
<1>4. Bounds
  BY <1>1, <1>2, <1>3 DEF Bounds, Tasks
<1>5. Ring
  <2> SUFFICES ASSUME n_threads > 1 PROVE RingOf(state, ordering_thread_index, Threads)
    BY DEF Ring
  <2>1. RingCursors
    BY <1>1, <1>2, <1>3 DEF RingCursors
  <2>2. RingTasks(state)
    <3>1. \A j \in 0 .. n_tasks - 1 : j % n_tasks \in Tasks
      BY <1>2, <1>3, Division DEF Tasks
    <3>2. QED
      BY <1>1, <1>3, <3>1 DEF RingTasks, Tasks
  <2>3. Untouched /\ Finished(state, Threads)
    BY <1>1 DEF Untouched, Finished
  <2>4. BusyIsHeld(state, Threads)
    BY <1>1 DEF BusyIsHeld, Tasks, Busy, READY_TO_START, STARTING, ORDERING, FINISHING
  <2>5. \A i \in Threads : InPlace(i, state, ordering_thread_index)
    BY <1>1 DEF InPlace, Holds
  <2>6. QED
    BY <2>1, <2>2, <2>3, <2>4, <2>5 DEF RingOf
<1>6. Complete
  BY <1>1, <1>2, <1>3 DEF Complete, Threads
<1>7. Held
  BY <1>1 DEF Held, Holds
<1>8. Calls
  BY <1>1 DEF Calls, Calling
<1>9. Failures
  BY <1>1 DEF Failures, InOrder, NO_THREAD, INVALID_THREAD
<1>10. Alone
  BY <1>1, <1>2, <1>3 DEF Alone
<1>11. QED
  BY <1>4, <1>5, <1>6, <1>7, <1>8, <1>9, <1>10, InitInv, PendingInit DEF RInv
-----------------------------------------------------------------------------
\* Thread i comes back to the scheduler: the ring is as if it had never had its task.
LEMMA AdvancedTask ==
  ASSUME NEW i \in Threads, IInv, Ring, n_threads > 1, InOrder, Fetching(i), Holds(i)
  PROVE  /\ StateOf(i) \in Busy
         /\ Advanced(i)[assigned_tasks[i]] = (StateOf(i) + 1) % 6
         /\ stage[Number(i)] = StateOf(i) + 1
<1>1. InPlace(i, state, ordering_thread_index)
  BY DEF Ring, RingOf
<1>2. StateOf(i) \in Busy /\ stage[Number(i)] = StateOf(i) + 1
  BY <1>1 DEF InPlace, Fetching, StateOf
<1>3. assigned_tasks[i] # waittask /\ assigned_tasks[i] \in Tasks
  BY DEF Holds, IInv, Types
<1>4. Advanced(i)[assigned_tasks[i]] = Advance(StateOf(i))
  BY <1>3 DEF Advanced, StateOf, IInv, Types
<1>5. QED
  BY <1>2, <1>4 DEF Advance, Busy, STARTING, ORDERING, FINISHING, CANCELLED

LEMMA AdvancedRing ==
  ASSUME NEW i \in Threads, IInv, Bounds, Ring, n_threads > 1, InOrder, Fetching(i)
  PROVE  RingOf(Advanced(i), Orderer(i), Threads \ {i})
<1> DEFINE t == assigned_tasks[i]
           A == Advanced(i)
           s == next_to_start
           o == next_to_order
           f == next_to_finish
<1>1. RingOf(state, ordering_thread_index, Threads)
  BY DEF Ring
<1>2. /\ A \in [Tasks -> States]
      /\ \A u \in Tasks : u # t => A[u] = state[u]
  BY AdvancedIsNearby
<1>3. t # waittask => /\ Holds(i) /\ t \in Tasks /\ state[t] \in Busy /\ A[t] = (state[t] + 1) % 6
                      /\ stage[Number(i)] = state[t] + 1
  BY AdvancedTask DEF Holds, Fetching, StateOf, IInv, Types
<1>4. \A k \in Threads \ {i} : Holds(k) =>
        /\ assigned_tasks[k] # t /\ assigned_tasks[k] \in Tasks
        /\ A[assigned_tasks[k]] = state[assigned_tasks[k]]
  BY <1>2, <1>3 DEF Holds, IInv, HeldApart, Types
<1>5. t = waittask => A = state
  BY DEF Advanced
<1>6. t # waittask => \/ state[t] = STARTING /\ A[t] = READY_TO_ORDER /\ stage[n_iter[t]] = 2
                      \/ state[t] = ORDERING /\ A[t] = READY_TO_FINISH /\ stage[n_iter[t]] = 4
                      \/ state[t] = FINISHING /\ A[t] = READY_TO_START /\ stage[n_iter[t]] = 6
  BY <1>3 DEF Busy, STARTING, ORDERING, FINISHING, READY_TO_ORDER, READY_TO_FINISH,
     READY_TO_START, Number
<1> n_tasks \in Nat \ {0} /\ s \in Nat /\ o \in Nat /\ f \in Nat
  BY DEF IInv, Types
<1> HIDE DEF A
<1>7. RingTasks(A)
  <2>1. \A j \in Nat : j % n_tasks \in Tasks
    BY Division DEF Tasks
  <2>2. ASSUME NEW j \in f .. o - 1
        PROVE  /\ n_iter[j % n_tasks] = j
               /\ \/ A[j % n_tasks] = ORDERING
                  \/ A[j % n_tasks] = READY_TO_FINISH /\ stage[j] = 4
    <3>1. /\ n_iter[j % n_tasks] = j
          /\ \/ state[j % n_tasks] = ORDERING
             \/ state[j % n_tasks] = READY_TO_FINISH /\ stage[j] = 4
      BY <1>1 DEF RingOf, RingTasks
    <3>2. CASE j % n_tasks = t
      <4>1. t # waittask
        BY <2>1, <3>2 DEF Tasks, waittask
      <4>2. QED
        BY <1>6, <3>1, <3>2, <4>1 DEF STARTING, ORDERING, READY_TO_FINISH, FINISHING
    <3>3. CASE j % n_tasks # t
      BY <1>2, <2>1, <3>1, <3>3
    <3>4. QED
      BY <3>2, <3>3
  <2>3. ASSUME NEW j \in o .. s - 1
        PROVE  /\ n_iter[j % n_tasks] = j
               /\ \/ A[j % n_tasks] = STARTING
                  \/ A[j % n_tasks] = READY_TO_ORDER /\ stage[j] = 2
    <3>1. /\ n_iter[j % n_tasks] = j
          /\ \/ state[j % n_tasks] = STARTING
             \/ state[j % n_tasks] = READY_TO_ORDER /\ stage[j] = 2
      BY <1>1 DEF RingOf, RingTasks
    <3>2. CASE j % n_tasks = t
      <4>1. t # waittask
        BY <2>1, <3>2 DEF Tasks, waittask
      <4>2. QED
        BY <1>6, <3>1, <3>2, <4>1 DEF STARTING, ORDERING, READY_TO_ORDER, FINISHING
    <3>3. CASE j % n_tasks # t
      BY <1>2, <2>1, <3>1, <3>3
    <3>4. QED
      BY <3>2, <3>3
  <2>4. ASSUME NEW j \in s .. f + n_tasks - 1
        PROVE  A[j % n_tasks] \in {READY_TO_START, FINISHING}
    <3>1. state[j % n_tasks] \in {READY_TO_START, FINISHING}
      BY <1>1 DEF RingOf, RingTasks
    <3>2. CASE j % n_tasks = t
      <4>1. t # waittask
        BY <2>1, <3>2 DEF Tasks, waittask
      <4>2. QED
        BY <1>6, <3>1, <3>2, <4>1 DEF STARTING, ORDERING, FINISHING, READY_TO_START
    <3>3. CASE j % n_tasks # t
      BY <1>2, <2>1, <3>1, <3>3
    <3>4. QED
      BY <3>2, <3>3
  <2>5. QED
    BY <2>2, <2>3, <2>4 DEF RingTasks
<1>8. Finished(A, Threads \ {i})
  <2> SUFFICES ASSUME NEW j \in 0 .. f - 1
               PROVE \/ stage[j] = 6
                     \/ /\ stage[j] \in {4, 5}
                        /\ \E k \in Threads \ {i} :
                             Holds(k) /\ Number(k) = j /\ A[assigned_tasks[k]] = FINISHING
    BY DEF Finished
  <2>1. CASE stage[j] = 6
    BY <2>1
  <2>2. CASE stage[j] # 6
    <3>1. PICK k \in Threads : Holds(k) /\ Number(k) = j /\ state[assigned_tasks[k]] = FINISHING
      BY <1>1, <2>2 DEF RingOf, Finished
    <3>2. k # i
      BY <1>6, <2>2, <3>1 DEF Holds, Number, STARTING, ORDERING, FINISHING
    <3>3. stage[j] \in {4, 5}
      BY <1>1, <2>2 DEF RingOf, Finished
    <3>4. QED
      BY <1>4, <3>1, <3>2, <3>3
  <2>3. QED
    BY <2>1, <2>2
<1>9. BusyIsHeld(A, Threads \ {i})
  <2> SUFFICES ASSUME NEW u \in Tasks, A[u] \in Busy
               PROVE \E k \in Threads \ {i} : Holds(k) /\ assigned_tasks[k] = u
    BY DEF BusyIsHeld
  <2>1. u # t
    <3>1. u # waittask
      BY DEF Tasks, waittask
    <3>2. QED
      BY <1>6, <3>1 DEF Busy, STARTING, ORDERING, FINISHING, READY_TO_START, READY_TO_ORDER,
                        READY_TO_FINISH
  <2>2. state[u] \in Busy
    BY <1>2, <2>1
  <2>3. PICK k \in Threads : Holds(k) /\ assigned_tasks[k] = u
    BY <1>1, <2>2 DEF RingOf, BusyIsHeld
  <2>4. QED
    BY <2>1, <2>3
<1>10. ASSUME NEW k \in Threads \ {i} PROVE InPlace(k, A, Orderer(i))
  <2> SUFFICES ASSUME Holds(k) PROVE InPlace(k, A, Orderer(i))
    BY DEF InPlace
  <2>1. InPlace(k, state, ordering_thread_index) /\ A[assigned_tasks[k]] = state[assigned_tasks[k]]
    BY <1>1, <1>4 DEF RingOf
  <2>2. ordering_thread_index = k => Orderer(i) = k
    BY DEF Orderer
  <2>3. QED
    BY <2>1, <2>2 DEF InPlace
<1>11. QED
  BY <1>1, <1>7, <1>8, <1>9, <1>10 DEF RingOf, A
-----------------------------------------------------------------------------
LEMMA FetchingInRing ==
  ASSUME NEW i \in Threads, RInv, Fetching(i)
  PROVE  n_threads > 1
BY MaxThreadsAssumption DEF RInv, Alone, Fetching, Threads, IInv, Types

LEMMA FetchTaskInOrder ==
  ASSUME NEW i \in Threads, RInv, FetchTask(i)
  PROVE  InOrder /\ n_threads > 1 /\ Fetching(i) /\ RingOf(Advanced(i), Orderer(i), Threads \ {i})
<1>1. Fetching(i)
  BY DEF FetchTask, FetchOrder, FetchFinish, FetchStart
<1>2. InOrder
  BY <1>1, AbortedStaysAborted DEF FetchTask, FetchOrder, FetchFinish, FetchStart, RInv, InOrder
<1>3. QED
  BY <1>1, <1>2, FetchingInRing, AdvancedRing DEF RInv

\* What all three ways to get a task have in common.
LEMMA AssignEffect ==
  ASSUME NEW i \in Threads, RInv, FetchTask(i), NEW t \in Tasks, NEW j \in Nat,
         Advanced(i)[t] \in Ready, Assign(i, t, j)
  PROVE  /\ Tasks' = Tasks
         /\ state'[t] = Advanced(i)[t] + 1 /\ state'[t] \in Busy
         /\ \A u \in Tasks : u # t => state'[u] = Advanced(i)[u]
         /\ n_iter'[t] = j
         /\ \A u \in Tasks : u # t => n_iter'[u] = n_iter[u]
         /\ assigned_tasks'[i] = t /\ pc'[i] = "execute" /\ Holds(i)'
         /\ \A k \in Threads \ {i} :
              /\ pc'[k] = pc[k] /\ assigned_tasks'[k] = assigned_tasks[k]
              /\ Holds(k)' <=> Holds(k)
              /\ Holds(k) => assigned_tasks[k] \in Tasks \ {t}
         /\ UNCHANGED <<n_tasks, n_threads, n_iterations, saved, arg, thrown, stage, failed, limit>>
<1>1. /\ state' = [Advanced(i) EXCEPT ![t] = Advanced(i)[t] + 1]
      /\ n_iter' = [n_iter EXCEPT ![t] = j]
      /\ assigned_tasks' = [assigned_tasks EXCEPT ![i] = t]
      /\ pc' = [pc EXCEPT ![i] = "execute"]
      /\ UNCHANGED <<n_tasks, n_threads, n_iterations, saved, arg, thrown, stage, failed, limit>>
  BY DEF Assign, shape
<1>2. Advanced(i) \in [Tasks -> States]
  BY AdvancedIsNearby DEF RInv
<1>3. n_iter \in [Tasks -> Iterations] /\ assigned_tasks \in [Threads -> {waittask} \cup Tasks]
      /\ pc \in [Threads -> Labels]
  BY DEF RInv, Bounds, IInv, Types
<1>4. Tasks' = Tasks /\ t # waittask
  BY <1>1 DEF Tasks, waittask
<1>5. Advanced(i)[t] + 1 \in Busy
  BY DEF Ready, Busy, READY_TO_START, STARTING, READY_TO_ORDER, ORDERING, READY_TO_FINISH, FINISHING
<1>6. \A k \in Threads \ {i} : Holds(k) => assigned_tasks[k] \in Tasks \ {t}
  BY <1>3, ReadyIsFree, FetchTaskInOrder DEF RInv, Holds
<1>7. \A k \in Threads \ {i} : pc'[k] = pc[k] /\ assigned_tasks'[k] = assigned_tasks[k]
  BY <1>1, <1>3
<1>8. assigned_tasks'[i] = t /\ pc'[i] = "execute"
  BY <1>1, <1>3
<1>9. Holds(i)' /\ \A k \in Threads \ {i} : Holds(k)' <=> Holds(k)
  BY <1>4, <1>7, <1>8 DEF Holds
<1>10. QED
  BY <1>1, <1>2, <1>3, <1>4, <1>5, <1>6, <1>7, <1>8, <1>9

LEMMA FetchOrderRing ==
  ASSUME NEW i \in Threads, RInv, FetchOrder(i)
  PROVE  /\ next_to_order < next_to_start
         /\ stage[next_to_order] = 2
         /\ \A k \in 0 .. next_to_order - 1 : stage[k] >= 4
         /\ RingOf(state, ordering_thread_index, Threads)'
<1> DEFINE A == Advanced(i)
           s == next_to_start
           o == next_to_order
           f == next_to_finish
           N == n_tasks
           W == Threads \ {i}
<1>1. RingOf(A, Orderer(i), W) /\ FetchTask(i)
  BY FetchTaskInOrder DEF FetchTask
<1>2. /\ Orderer(i) = NO_THREAD /\ A[iorder] = READY_TO_ORDER /\ ordering_thread_index' = i
      /\ Assign(i, iorder, o) /\ o' = o + 1 /\ iorder' = (o + 1) % N
      /\ s' = s /\ f' = f /\ istart' = istart /\ ifinish' = ifinish
  BY DEF FetchOrder, CanOrder
<1>3. /\ N \in Nat \ {0} /\ s \in Nat /\ o \in Nat /\ f \in Nat /\ iorder \in Tasks
      /\ stage \in [Iterations -> 0 .. 6] /\ n_iter \in [Tasks -> Iterations]
      /\ f <= o /\ o <= s /\ s <= f + N /\ s <= limit /\ iorder = o % N
      /\ istart = s % N /\ ifinish = f % N /\ limit <= MaxIterations /\ limit \in Nat
  BY <1>1, MaxIterationsAssumption DEF RInv, IInv, Types, Bounds, RingOf, RingCursors
<1> HIDE DEF A, W
<1>4. /\ N' = N /\ Tasks' = Tasks /\ stage' = stage /\ limit' = limit
      /\ state'[iorder] = ORDERING
      /\ \A u \in Tasks : u # iorder => state'[u] = A[u] /\ n_iter'[u] = n_iter[u]
      /\ n_iter'[iorder] = o
      /\ assigned_tasks'[i] = iorder /\ pc'[i] = "execute" /\ Holds(i)'
      /\ \A k \in W :
           /\ pc'[k] = pc[k] /\ assigned_tasks'[k] = assigned_tasks[k]
           /\ Holds(k)' <=> Holds(k)
           /\ Holds(k) => assigned_tasks[k] \in Tasks \ {iorder}
  <2>1. Advanced(i)[iorder] \in Ready /\ READY_TO_ORDER + 1 = ORDERING
    BY <1>2 DEF A, Ready, READY_TO_ORDER, ORDERING
  <2>2. QED
    BY <1>1, <1>2, <1>3, <2>1, AssignEffect DEF A, W
<1>5. RingTasks(A) /\ Untouched /\ Finished(A, W) /\ BusyIsHeld(A, W)
      /\ \A k \in W : InPlace(k, A, Orderer(i))
  BY <1>1 DEF RingOf
<1>6. o < s
  <2> SUFFICES ASSUME o = s PROVE FALSE
    BY <1>3
  <2>1. CASE s < f + N
    <3>1. A[s % N] \in {READY_TO_START, FINISHING}
      BY <2>1, <1>3, <1>5 DEF RingTasks
    <3>2. QED
      BY <3>1, <1>2, <1>3 DEF READY_TO_START, FINISHING, READY_TO_ORDER
  <2>2. CASE s = f + N
    <3>1. s % N = f % N
      BY <2>2, <1>3, SlotsRepeat
    <3>2. A[f % N] \in {ORDERING, READY_TO_FINISH}
      <4>1. f \in f .. o - 1
        BY <2>2, <1>3
      <4>2. QED
        BY <4>1, <1>5 DEF RingTasks
    <3>3. QED
      BY <3>1, <3>2, <1>2, <1>3 DEF ORDERING, READY_TO_FINISH, READY_TO_ORDER
  <2>3. QED
    BY <2>1, <2>2, <1>3
<1>7. stage[o] = 2 /\ n_iter[iorder] = o
  BY <1>2, <1>3, <1>5, <1>6 DEF RingTasks, READY_TO_ORDER, STARTING
<1>8. \A u \in Tasks : A[u] # ORDERING
  <2> SUFFICES ASSUME NEW u \in Tasks, A[u] = ORDERING PROVE FALSE
    OBVIOUS
  <2>1. PICK k \in W : Holds(k) /\ assigned_tasks[k] = u
    BY <1>5 DEF BusyIsHeld, Busy
  <2>2. Orderer(i) = k
    BY <1>5, <2>1 DEF InPlace
  <2>3. QED
    BY <1>2, <2>2 DEF NO_THREAD, W, Threads
<1>9. ASSUME NEW k \in 0 .. o - 1 PROVE stage[k] >= 4
  <2>1. CASE k < f
    BY <2>1, <1>5, <1>3 DEF Finished
  <2>2. CASE k >= f
    <3>1. k % N \in Tasks
      BY <1>3, Division DEF Tasks
    <3>2. QED
      BY <2>2, <3>1, <1>3, <1>5, <1>8 DEF RingTasks
  <2>3. QED
    BY <2>1, <2>2, <1>3
<1>10. n_iter' = n_iter
  BY <1>2, <1>3, <1>7 DEF Assign
<1>11. \A j \in f .. f + N - 1 : j # o => j % N # iorder /\ j % N \in Tasks
  <2> SUFFICES ASSUME NEW j \in f .. f + N - 1, j # o PROVE j % N # iorder /\ j % N \in Tasks
    OBVIOUS
  <2>1. j \in Nat /\ ((j < o /\ o < j + N) \/ (o < j /\ j < o + N))
    BY <1>3, <1>6
  <2>2. QED
    BY <2>1, <1>3, SlotsDiffer, Division DEF Tasks
<1>12. RingCursors'
  BY <1>2, <1>3, <1>4, <1>6 DEF RingCursors
<1>13. RingTasks(state)'
  <2>1. ASSUME NEW j \in f .. o
        PROVE  /\ n_iter[j % N] = j
               /\ \/ state'[j % N] = ORDERING
                  \/ state'[j % N] = READY_TO_FINISH /\ stage[j] = 4
    <3>1. CASE j = o
      BY <3>1, <1>3, <1>4, <1>7
    <3>2. CASE j # o
      <4>1. j \in f .. o - 1 /\ j \in f .. f + N - 1
        BY <3>2, <1>3, <1>6
      <4>2. j % N # iorder /\ j % N \in Tasks
        BY <4>1, <3>2, <1>11
      <4>3. QED
        BY <4>1, <4>2, <1>4, <1>5 DEF RingTasks
    <3>3. QED
      BY <3>1, <3>2
  <2>2. \A j \in o + 1 .. s - 1 :
          /\ n_iter[j % N] = j
          /\ \/ state'[j % N] = STARTING
             \/ state'[j % N] = READY_TO_ORDER /\ stage[j] = 2
    BY <1>3, <1>4, <1>5, <1>6, <1>11 DEF RingTasks
  <2>3. \A j \in s .. f + N - 1 : state'[j % N] \in {READY_TO_START, FINISHING}
    BY <1>3, <1>4, <1>5, <1>6, <1>11 DEF RingTasks
  <2>4. QED
    BY <1>2, <1>3, <1>4, <1>10, <2>1, <2>2, <2>3 DEF RingTasks
<1>14. Untouched'
  BY <1>2, <1>4, <1>5 DEF Untouched
<1>15. Finished(state, Threads)'
  BY <1>2, <1>4, <1>5, <1>10 DEF Finished, Number, W
<1>16. BusyIsHeld(state, Threads)'
  BY <1>4, <1>5 DEF BusyIsHeld, W
<1>17. ASSUME NEW k \in Threads PROVE InPlace(k, state, ordering_thread_index)'
  <2>1. CASE k = i
    BY <2>1, <1>2, <1>3, <1>4 DEF InPlace, Number, Busy, STARTING, ORDERING, FINISHING
  <2>2. CASE k # i
    <3>1. k \in W
      BY <2>2 DEF W
    <3>2. InPlace(k, A, Orderer(i)) /\ pc'[k] = pc[k] /\ (Holds(k)' <=> Holds(k))
      BY <3>1, <1>4, <1>5
    <3> SUFFICES ASSUME Holds(k) PROVE InPlace(k, state, ordering_thread_index)'
      BY <3>2 DEF InPlace
    <3>3. /\ assigned_tasks[k] \in Tasks \ {iorder} /\ assigned_tasks'[k] = assigned_tasks[k]
          /\ Number(k) % N = assigned_tasks[k] /\ Number(k) \in Nat
      BY <3>1, <1>4 DEF RInv, Held, Bounds, Number, Iterations
    <3>4. /\ state'[assigned_tasks'[k]] = A[assigned_tasks[k]]
          /\ A[assigned_tasks[k]] # ORDERING /\ Number(k)' = Number(k)
      BY <3>3, <1>4, <1>8 DEF Number
    <3>5. Number(k) # o
      BY <3>3, <1>3
    <3>6. A[assigned_tasks[k]] = STARTING => Number(k) \in o + 1 .. s - 1
      BY <3>2, <3>3, <3>5, <1>3 DEF InPlace
    <3>7. QED
      BY <3>2, <3>4, <3>6, <1>2, <1>4 DEF InPlace
  <2>3. QED
    BY <2>1, <2>2
<1>18. QED
  BY <1>6, <1>7, <1>9, <1>12, <1>13, <1>14, <1>15, <1>16, <1>17 DEF RingOf

LEMMA FetchFinishRing ==
  ASSUME NEW i \in Threads, RInv, FetchFinish(i)
  PROVE  /\ next_to_finish < next_to_order
         /\ stage[next_to_finish] = 4
         /\ RingOf(state, ordering_thread_index, Threads)'
<1> DEFINE A == Advanced(i)
           s == next_to_start
           o == next_to_order
           f == next_to_finish
           N == n_tasks
           W == Threads \ {i}
<1>1. RingOf(A, Orderer(i), W) /\ FetchTask(i)
  BY FetchTaskInOrder DEF FetchTask
<1>2. /\ A[ifinish] = READY_TO_FINISH /\ ordering_thread_index' = Orderer(i)
      /\ Assign(i, ifinish, f) /\ f' = f + 1 /\ ifinish' = (f + 1) % N
      /\ s' = s /\ o' = o /\ istart' = istart /\ iorder' = iorder
  BY DEF FetchFinish, CanFinish
<1>3. /\ N \in Nat \ {0} /\ s \in Nat /\ o \in Nat /\ f \in Nat /\ ifinish \in Tasks
      /\ stage \in [Iterations -> 0 .. 6] /\ n_iter \in [Tasks -> Iterations]
      /\ f <= o /\ o <= s /\ s <= f + N /\ s <= limit /\ iorder = o % N
      /\ istart = s % N /\ ifinish = f % N /\ limit <= MaxIterations /\ limit \in Nat
  BY <1>1, MaxIterationsAssumption DEF RInv, IInv, Types, Bounds, RingOf, RingCursors
<1> HIDE DEF A, W
<1>4. /\ N' = N /\ Tasks' = Tasks /\ stage' = stage /\ limit' = limit
      /\ state'[ifinish] = FINISHING
      /\ \A u \in Tasks : u # ifinish => state'[u] = A[u] /\ n_iter'[u] = n_iter[u]
      /\ n_iter'[ifinish] = f
      /\ assigned_tasks'[i] = ifinish /\ pc'[i] = "execute" /\ Holds(i)'
      /\ \A k \in W :
           /\ pc'[k] = pc[k] /\ assigned_tasks'[k] = assigned_tasks[k]
           /\ Holds(k)' <=> Holds(k)
           /\ Holds(k) => assigned_tasks[k] \in Tasks \ {ifinish}
  <2>1. Advanced(i)[ifinish] \in Ready /\ READY_TO_FINISH + 1 = FINISHING
    BY <1>2 DEF A, Ready, READY_TO_FINISH, FINISHING
  <2>2. QED
    BY <1>1, <1>2, <1>3, <2>1, AssignEffect DEF A, W
<1>5. RingTasks(A) /\ Untouched /\ Finished(A, W) /\ BusyIsHeld(A, W)
      /\ \A k \in W : InPlace(k, A, Orderer(i))
  BY <1>1 DEF RingOf
<1>6. f < o
  <2> SUFFICES ASSUME f = o PROVE FALSE
    BY <1>3
  <2>1. A[f % N] = READY_TO_FINISH
    BY <1>2, <1>3
  <2>2. CASE f < s
    <3>1. f \in o .. s - 1
      BY <2>2, <1>3
    <3>2. A[f % N] \in {STARTING, READY_TO_ORDER}
      BY <3>1, <1>5 DEF RingTasks
    <3>3. QED
      BY <3>2, <2>1 DEF READY_TO_ORDER, STARTING, READY_TO_FINISH
  <2>3. CASE f = s
    <3>1. f \in s .. f + N - 1
      BY <2>3, <1>3
    <3>2. A[f % N] \in {READY_TO_START, FINISHING}
      BY <3>1, <1>5 DEF RingTasks
    <3>3. QED
      BY <3>2, <2>1 DEF READY_TO_START, FINISHING, READY_TO_FINISH
  <2>4. QED
    BY <2>2, <2>3, <1>3
<1>7. stage[f] = 4 /\ n_iter[ifinish] = f
  BY <1>2, <1>3, <1>5, <1>6 DEF RingTasks, READY_TO_FINISH, ORDERING
<1>8. n_iter' = n_iter
  BY <1>2, <1>3, <1>7 DEF Assign
<1>9. \A j \in f + 1 .. f + N - 1 : j % N # ifinish /\ j % N \in Tasks
  <2> SUFFICES ASSUME NEW j \in f + 1 .. f + N - 1 PROVE j % N # ifinish /\ j % N \in Tasks
    OBVIOUS
  <2>1. j \in Nat /\ f < j /\ j < f + N
    BY <1>3
  <2>2. QED
    BY <2>1, <1>3, SlotsDiffer, Division DEF Tasks
<1>10. RingCursors'
  BY <1>2, <1>3, <1>4, <1>6 DEF RingCursors
<1>11. RingTasks(state)'
  <2>1. ASSUME NEW j \in f + 1 .. o - 1
        PROVE  /\ n_iter[j % N] = j
               /\ \/ state'[j % N] = ORDERING
                  \/ state'[j % N] = READY_TO_FINISH /\ stage[j] = 4
    <3>1. j \in f .. o - 1 /\ j \in f + 1 .. f + N - 1
      BY <1>3, <1>6
    <3>2. j % N # ifinish /\ j % N \in Tasks
      BY <3>1, <1>9
    <3>3. QED
      BY <3>1, <3>2, <1>4, <1>5 DEF RingTasks
  <2>2. ASSUME NEW j \in o .. s - 1
        PROVE  /\ n_iter[j % N] = j
               /\ \/ state'[j % N] = STARTING
                  \/ state'[j % N] = READY_TO_ORDER /\ stage[j] = 2
    <3>1. j \in f + 1 .. f + N - 1
      BY <1>3, <1>6
    <3>2. j % N # ifinish /\ j % N \in Tasks
      BY <3>1, <1>9
    <3>3. QED
      BY <3>2, <1>4, <1>5 DEF RingTasks
  <2>3. ASSUME NEW j \in s .. f + N PROVE state'[j % N] \in {READY_TO_START, FINISHING}
    <3>1. CASE j = f + N
      BY <3>1, <1>3, <1>4, SlotsRepeat
    <3>2. CASE j # f + N
      <4>1. j \in s .. f + N - 1 /\ j \in f + 1 .. f + N - 1
        BY <3>2, <1>3, <1>6
      <4>2. j % N # ifinish /\ j % N \in Tasks
        BY <4>1, <1>9
      <4>3. QED
        BY <4>1, <4>2, <1>4, <1>5 DEF RingTasks
    <3>3. QED
      BY <3>1, <3>2
  <2>4. f' = f + 1 /\ o' = o /\ s' = s /\ f' + N' - 1 = f + N /\ stage' = stage /\ N' = N
    BY <1>2, <1>3, <1>4
  <2>5. QED
    BY <1>8, <2>1, <2>2, <2>3, <2>4 DEF RingTasks
<1>12. Untouched'
  BY <1>2, <1>4, <1>5 DEF Untouched
<1>13. Finished(state, Threads)'
  <2> SUFFICES ASSUME NEW j \in 0 .. f
               PROVE  \/ stage[j] = 6
                      \/ /\ stage[j] \in {4, 5}
                         /\ \E k \in Threads : /\ Holds(k)' /\ Number(k)' = j
                                               /\ state'[assigned_tasks'[k]] = FINISHING
    BY <1>2, <1>3, <1>4 DEF Finished
  <2>1. CASE j = f
    BY <2>1, <1>4, <1>7 DEF Number
  <2>2. CASE j # f
    <3>1. j \in 0 .. f - 1
      BY <2>2, <1>3
    <3>2. \/ stage[j] = 6
          \/ /\ stage[j] \in {4, 5}
             /\ \E k \in W : Holds(k) /\ Number(k) = j /\ A[assigned_tasks[k]] = FINISHING
      BY <3>1, <1>5 DEF Finished
    <3>3. QED
      BY <3>2, <1>4, <1>8 DEF Number, W
  <2>3. QED
    BY <2>1, <2>2
<1>14. BusyIsHeld(state, Threads)'
  BY <1>4, <1>5 DEF BusyIsHeld, W
<1>15. ASSUME NEW k \in Threads PROVE InPlace(k, state, ordering_thread_index)'
  <2>1. CASE k = i
    BY <2>1, <1>2, <1>3, <1>4 DEF InPlace, Number, Busy, STARTING, ORDERING, FINISHING
  <2>2. CASE k # i
    <3>1. k \in W
      BY <2>2 DEF W
    <3>2. Holds(k)' => /\ assigned_tasks[k] \in Tasks
                       /\ state'[assigned_tasks'[k]] = A[assigned_tasks[k]]
                       /\ Number(k)' = Number(k) /\ Number(k) # f /\ Number(k) \in Nat
      <4>1. Holds(k) => Number(k) % N = assigned_tasks[k]
        BY DEF RInv, Held
      <4>2. QED
        BY <3>1, <4>1, <1>3, <1>4, <1>8 DEF Number, Iterations
    <3>3. InPlace(k, A, Orderer(i)) /\ pc'[k] = pc[k] /\ (Holds(k)' <=> Holds(k))
      BY <3>1, <1>4, <1>5
    <3>4. QED
      BY <3>2, <3>3, <1>2, <1>3, <1>4 DEF InPlace
  <2>3. QED
    BY <2>1, <2>2
<1>16. QED
  BY <1>6, <1>7, <1>10, <1>11, <1>12, <1>13, <1>14, <1>15 DEF RingOf

LEMMA FetchStartRing ==
  ASSUME NEW i \in Threads, RInv, FetchStart(i)
  PROVE  /\ stage[next_to_start] = 0
         /\ RingOf(state, ordering_thread_index, Threads)'
<1> DEFINE A == Advanced(i)
           s == next_to_start
           o == next_to_order
           f == next_to_finish
           N == n_tasks
           W == Threads \ {i}
<1>1. RingOf(A, Orderer(i), W) /\ FetchTask(i)
  BY FetchTaskInOrder DEF FetchTask
<1>2. /\ A[istart] = READY_TO_START /\ ordering_thread_index' = Orderer(i) /\ s < n_iterations
      /\ Assign(i, istart, s) /\ s' = s + 1 /\ istart' = (s + 1) % N
      /\ f' = f /\ o' = o /\ ifinish' = ifinish /\ iorder' = iorder
  BY DEF FetchStart, CanStart
<1>3. /\ N \in Nat \ {0} /\ s \in Nat /\ o \in Nat /\ f \in Nat /\ istart \in Tasks
      /\ stage \in [Iterations -> 0 .. 6] /\ n_iter \in [Tasks -> Iterations]
      /\ f <= o /\ o <= s /\ s <= f + N /\ s < limit /\ iorder = o % N
      /\ istart = s % N /\ ifinish = f % N /\ limit <= MaxIterations /\ limit \in Nat
      /\ s \in Iterations
  BY <1>1, <1>2, MaxIterationsAssumption
     DEF RInv, IInv, Types, Bounds, RingOf, RingCursors, Iterations
<1> HIDE DEF A, W
<1>4. /\ N' = N /\ Tasks' = Tasks /\ stage' = stage /\ limit' = limit
      /\ state'[istart] = STARTING
      /\ \A u \in Tasks : u # istart => state'[u] = A[u] /\ n_iter'[u] = n_iter[u]
      /\ n_iter'[istart] = s
      /\ assigned_tasks'[i] = istart /\ pc'[i] = "execute" /\ Holds(i)'
      /\ \A k \in W :
           /\ pc'[k] = pc[k] /\ assigned_tasks'[k] = assigned_tasks[k]
           /\ Holds(k)' <=> Holds(k)
           /\ Holds(k) => assigned_tasks[k] \in Tasks \ {istart}
  <2>1. Advanced(i)[istart] \in Ready /\ READY_TO_START + 1 = STARTING
    BY <1>2 DEF A, Ready, READY_TO_START, STARTING
  <2>2. QED
    BY <1>1, <1>2, <1>3, <2>1, AssignEffect DEF A, W
<1>5. RingTasks(A) /\ Untouched /\ Finished(A, W) /\ BusyIsHeld(A, W)
      /\ \A k \in W : InPlace(k, A, Orderer(i))
  BY <1>1 DEF RingOf
<1>6. s < f + N
  <2> SUFFICES ASSUME s = f + N PROVE FALSE
    BY <1>3
  <2>1. A[f % N] = READY_TO_START
    BY <1>2, <1>3, SlotsRepeat
  <2>2. CASE f < o
    <3>1. f \in f .. o - 1
      BY <2>2, <1>3
    <3>2. A[f % N] \in {ORDERING, READY_TO_FINISH}
      BY <3>1, <1>5 DEF RingTasks
    <3>3. QED
      BY <3>2, <2>1 DEF READY_TO_START, ORDERING, READY_TO_FINISH
  <2>3. CASE f = o
    <3>1. f \in o .. s - 1
      BY <2>3, <1>3
    <3>2. A[f % N] \in {STARTING, READY_TO_ORDER}
      BY <3>1, <1>5 DEF RingTasks
    <3>3. QED
      BY <3>2, <2>1 DEF READY_TO_START, STARTING, READY_TO_ORDER
  <2>4. QED
    BY <2>2, <2>3, <1>3
<1>7. stage[s] = 0
  BY <1>3, <1>5 DEF Untouched
<1>8. \A j \in f .. f + N - 1 : j # s => j % N # istart /\ j % N \in Tasks
  <2> SUFFICES ASSUME NEW j \in f .. f + N - 1, j # s PROVE j % N # istart /\ j % N \in Tasks
    OBVIOUS
  <2>1. j \in Nat /\ ((j < s /\ s < j + N) \/ (s < j /\ j < s + N))
    BY <1>3, <1>6
  <2>2. QED
    BY <2>1, <1>3, SlotsDiffer, Division DEF Tasks
<1>9. RingCursors'
  BY <1>2, <1>3, <1>4, <1>6 DEF RingCursors
<1>10. RingTasks(state)'
  <2>1. ASSUME NEW j \in f .. o - 1
        PROVE  /\ n_iter'[j % N] = j
               /\ \/ state'[j % N] = ORDERING
                  \/ state'[j % N] = READY_TO_FINISH /\ stage[j] = 4
    <3>1. j \in f .. f + N - 1 /\ j # s
      BY <1>3, <1>6
    <3>2. j % N # istart /\ j % N \in Tasks
      BY <3>1, <1>8
    <3>3. QED
      BY <3>2, <1>4, <1>5 DEF RingTasks
  <2>2. ASSUME NEW j \in o .. s
        PROVE  /\ n_iter'[j % N] = j
               /\ \/ state'[j % N] = STARTING
                  \/ state'[j % N] = READY_TO_ORDER /\ stage[j] = 2
    <3>1. CASE j = s
      BY <3>1, <1>3, <1>4
    <3>2. CASE j # s
      <4>1. j \in f .. f + N - 1 /\ j \in o .. s - 1
        BY <3>2, <1>3, <1>6
      <4>2. j % N # istart /\ j % N \in Tasks
        BY <4>1, <3>2, <1>8
      <4>3. QED
        BY <4>1, <4>2, <1>4, <1>5 DEF RingTasks
    <3>3. QED
      BY <3>1, <3>2
  <2>3. ASSUME NEW j \in s + 1 .. f + N - 1 PROVE state'[j % N] \in {READY_TO_START, FINISHING}
    <3>1. j \in f .. f + N - 1 /\ j # s /\ j \in s .. f + N - 1
      BY <1>3
    <3>2. j % N # istart /\ j % N \in Tasks
      BY <3>1, <1>8
    <3>3. QED
      BY <3>1, <3>2, <1>4, <1>5 DEF RingTasks
  <2>4. f' = f /\ o' = o /\ s' = s + 1 /\ s' - 1 = s /\ stage' = stage /\ N' = N
    BY <1>2, <1>3, <1>4
  <2>5. QED
    BY <2>1, <2>2, <2>3, <2>4 DEF RingTasks
<1>11. Untouched'
  BY <1>2, <1>3, <1>4, <1>5 DEF Untouched, Iterations
<1>12. \A k \in W : Holds(k) => Number(k)' = Number(k)
  BY <1>4 DEF Number
<1>13. Finished(state, Threads)'
  <2> SUFFICES ASSUME NEW j \in 0 .. f - 1
               PROVE  \/ stage[j] = 6
                      \/ /\ stage[j] \in {4, 5}
                         /\ \E k \in Threads : /\ Holds(k)' /\ Number(k)' = j
                                               /\ state'[assigned_tasks'[k]] = FINISHING
    BY <1>2, <1>3, <1>4 DEF Finished
  <2>1. \/ stage[j] = 6
        \/ /\ stage[j] \in {4, 5}
           /\ \E k \in W : Holds(k) /\ Number(k) = j /\ A[assigned_tasks[k]] = FINISHING
    BY <1>5 DEF Finished
  <2>2. QED
    BY <2>1, <1>4, <1>12 DEF W
<1>14. BusyIsHeld(state, Threads)'
  BY <1>4, <1>5 DEF BusyIsHeld, W
<1>15. ASSUME NEW k \in Threads PROVE InPlace(k, state, ordering_thread_index)'
  <2>1. CASE k = i
    BY <2>1, <1>2, <1>3, <1>4 DEF InPlace, Number, Busy, STARTING, ORDERING, FINISHING
  <2>2. CASE k # i
    <3>1. k \in W
      BY <2>2 DEF W
    <3>2. Holds(k)' => /\ assigned_tasks[k] \in Tasks
                       /\ state'[assigned_tasks'[k]] = A[assigned_tasks[k]]
                       /\ Number(k)' = Number(k) /\ Number(k) \in Nat
      BY <3>1, <1>3, <1>4, <1>12 DEF Number, Iterations
    <3>3. InPlace(k, A, Orderer(i)) /\ pc'[k] = pc[k] /\ (Holds(k)' <=> Holds(k))
      BY <3>1, <1>4, <1>5
    <3>4. QED
      BY <3>2, <3>3, <1>2, <1>3, <1>4 DEF InPlace
  <2>3. QED
    BY <2>1, <2>2
<1>16. QED
  BY <1>7, <1>9, <1>10, <1>11, <1>13, <1>14, <1>15 DEF RingOf
-----------------------------------------------------------------------------
\* Whatever thread i is given: it is the next iteration's turn, and it goes into its place.
LEMMA FetchTaskEffect ==
  ASSUME NEW i \in Threads, RInv, FetchTask(i)
  PROVE  /\ \E t \in Tasks, j \in Iterations :
              /\ Advanced(i)[t] \in Ready /\ Assign(i, t, j)
              /\ j % n_tasks = t /\ j < limit
              /\ stage[j] = Advanced(i)[t]
              /\ Advanced(i)[t] = READY_TO_ORDER => \A k \in 0 .. j - 1 : stage[k] >= 4
         /\ RingOf(state, ordering_thread_index, Threads)'
         /\ next_to_start' <= MaxIterations /\ next_to_order' <= MaxIterations
         /\ next_to_finish' <= MaxIterations
<1> DEFINE A == Advanced(i)
           s == next_to_start
           o == next_to_order
           f == next_to_finish
           N == n_tasks
<1>1. RingCursors
  BY FetchTaskInOrder DEF RingOf
<1>2. /\ N \in Nat \ {0} /\ s \in Nat /\ o \in Nat /\ f \in Nat
      /\ istart \in Tasks /\ iorder \in Tasks /\ ifinish \in Tasks
      /\ f <= o /\ o <= s /\ s <= limit /\ iorder = o % N
      /\ istart = s % N /\ ifinish = f % N /\ limit <= MaxIterations /\ limit \in Nat
      /\ n_iterations \in Nat /\ n_iterations <= limit /\ MaxIterations \in Nat
  BY <1>1, MaxIterationsAssumption DEF RInv, IInv, Types, Bounds, RingCursors
<1> HIDE DEF A
<1>3. CASE FetchOrder(i)
  <2>1. /\ A[iorder] = READY_TO_ORDER /\ Assign(i, iorder, o) /\ o' = o + 1 /\ s' = s /\ f' = f
    BY <1>3 DEF FetchOrder, CanOrder, A
  <2>2. /\ o < s /\ stage[o] = 2 /\ \A k \in 0 .. o - 1 : stage[k] >= 4
        /\ RingOf(state, ordering_thread_index, Threads)'
    BY <1>3, FetchOrderRing
  <2>3. o \in Iterations /\ o < limit /\ o' <= MaxIterations /\ s' <= MaxIterations
        /\ f' <= MaxIterations
    BY <1>2, <2>1, <2>2 DEF Iterations
  <2>4. A[iorder] \in Ready /\ stage[o] = A[iorder]
    BY <2>1, <2>2 DEF Ready, READY_TO_ORDER
  <2>5. QED
    BY <1>2, <2>1, <2>2, <2>3, <2>4 DEF A
<1>4. CASE FetchFinish(i)
  <2>1. /\ A[ifinish] = READY_TO_FINISH /\ Assign(i, ifinish, f) /\ f' = f + 1 /\ s' = s /\ o' = o
    BY <1>4 DEF FetchFinish, CanFinish, A
  <2>2. f < o /\ stage[f] = 4 /\ RingOf(state, ordering_thread_index, Threads)'
    BY <1>4, FetchFinishRing
  <2>3. f \in Iterations /\ f < limit /\ o' <= MaxIterations /\ s' <= MaxIterations
        /\ f' <= MaxIterations
    BY <1>2, <2>1, <2>2 DEF Iterations
  <2>4. A[ifinish] \in Ready /\ stage[f] = A[ifinish] /\ A[ifinish] # READY_TO_ORDER
    BY <2>1, <2>2 DEF Ready, READY_TO_FINISH, READY_TO_ORDER
  <2>5. QED
    BY <1>2, <2>1, <2>2, <2>3, <2>4 DEF A
<1>5. CASE FetchStart(i)
  <2>1. /\ A[istart] = READY_TO_START /\ Assign(i, istart, s) /\ s' = s + 1 /\ f' = f /\ o' = o
        /\ s < n_iterations
    BY <1>5 DEF FetchStart, CanStart, A
  <2>2. stage[s] = 0 /\ RingOf(state, ordering_thread_index, Threads)'
    BY <1>5, FetchStartRing
  <2>3. s \in Iterations /\ s < limit /\ o' <= MaxIterations /\ s' <= MaxIterations
        /\ f' <= MaxIterations
    BY <1>2, <2>1 DEF Iterations
  <2>4. A[istart] \in Ready /\ stage[s] = A[istart] /\ A[istart] # READY_TO_ORDER
    BY <2>1, <2>2 DEF Ready, READY_TO_START, READY_TO_ORDER
  <2>5. QED
    BY <1>2, <2>1, <2>2, <2>3, <2>4 DEF A
<1>6. QED
  BY <1>3, <1>4, <1>5 DEF FetchTask

\* Thread i only advances its own task.
LEMMA OthersUnmoved ==
  ASSUME NEW i \in Threads, IInv, Fetching(i), NEW k \in Threads \ {i}, Holds(k)
  PROVE  /\ assigned_tasks[k] \in Tasks
         /\ Advanced(i)[assigned_tasks[k]] = state[assigned_tasks[k]]
<1>1. assigned_tasks[k] \in Tasks
  BY DEF Holds, IInv, Types
<1>2. assigned_tasks[k] # assigned_tasks[i]
  BY DEF Holds, Fetching, IInv, HeldApart
<1>3. QED
  BY <1>1, <1>2, AdvancedIsNearby

LEMMA FetchTaskRest ==
  ASSUME NEW i \in Threads, RInv, FetchTask(i)
  PROVE  Bounds' /\ Ring' /\ Complete' /\ Held' /\ Calls' /\ Failures' /\ Alone'
<1>1. PICK t \in Tasks, j \in Iterations :
        /\ Advanced(i)[t] \in Ready /\ Assign(i, t, j)
        /\ j % n_tasks = t /\ j < limit
        /\ stage[j] = Advanced(i)[t]
        /\ Advanced(i)[t] = READY_TO_ORDER => \A k \in 0 .. j - 1 : stage[k] >= 4
  BY FetchTaskEffect
<1>2. j \in Nat
  BY DEF Iterations
<1>3. /\ Tasks' = Tasks
      /\ state'[t] = Advanced(i)[t] + 1
      /\ \A u \in Tasks : u # t => state'[u] = Advanced(i)[u]
      /\ n_iter'[t] = j
      /\ \A u \in Tasks : u # t => n_iter'[u] = n_iter[u]
      /\ assigned_tasks'[i] = t /\ pc'[i] = "execute" /\ Holds(i)'
      /\ \A k \in Threads \ {i} :
           /\ pc'[k] = pc[k] /\ assigned_tasks'[k] = assigned_tasks[k]
           /\ Holds(k)' <=> Holds(k)
           /\ Holds(k) => assigned_tasks[k] \in Tasks \ {t}
      /\ UNCHANGED <<n_tasks, n_threads, n_iterations, saved, arg, thrown, stage, failed, limit>>
  BY <1>1, <1>2, AssignEffect
<1>4. n_threads > 1 /\ InOrder /\ Fetching(i)
  BY FetchTaskInOrder
<1>5. InOrder'
  BY <1>4 DEF FetchTask, FetchOrder, FetchFinish, FetchStart, InOrder, Orderer, Threads,
     NO_THREAD, INVALID_THREAD
<1>6. n_iter' = [n_iter EXCEPT ![t] = j]
  BY <1>1 DEF Assign
<1>7. Bounds'
  BY <1>3, <1>6, FetchTaskEffect DEF RInv, Bounds
<1>8. Ring'
  BY FetchTaskEffect DEF Ring
<1>9. Complete'
  <2>1. i \in 0 .. n_threads - 1
    BY <1>4 DEF Fetching, Threads, RInv, IInv, Types
  <2>2. QED
    BY <1>3, <2>1 DEF Complete
<1>10. Held'
  <2> SUFFICES ASSUME NEW k \in Threads, Holds(k)'
               PROVE  /\ k < n_threads /\ Number(k)' % n_tasks = assigned_tasks'[k]
                      /\ Number(k)' < limit
                      /\ pc'[k] = "execute" /\ StateOf(k)' # CANCELLED =>
                           /\ stage[Number(k)'] = StateOf(k)' - 1
                           /\ StateOf(k)' = ORDERING =>
                                \A h \in 0 .. Number(k)' - 1 : stage[h] >= 4
                      /\ pc'[k] = "call" =>
                           /\ arg[k] = Number(k)'
                           /\ StateOf(k)' = CANCELLED \/ stage[Number(k)'] = StateOf(k)'
    BY <1>3 DEF Held
  <2>1. CASE k = i
    <3>1. Number(k)' = j /\ StateOf(k)' = Advanced(i)[t] + 1
      BY <2>1, <1>3 DEF Number, StateOf
    <3>2. Advanced(i)[t] \in Nat
      BY <1>1 DEF Ready, READY_TO_START, READY_TO_ORDER, READY_TO_FINISH
    <3>3. Advanced(i)[t] + 1 = ORDERING => Advanced(i)[t] = READY_TO_ORDER
      BY <3>2 DEF ORDERING, READY_TO_ORDER
    <3>4. QED
      BY <2>1, <3>1, <3>2, <3>3, <1>1, <1>3, <1>4 DEF Fetching
  <2>2. CASE k # i
    <3>1. Holds(k) /\ assigned_tasks[k] \in Tasks \ {t} /\ pc'[k] = pc[k]
          /\ assigned_tasks'[k] = assigned_tasks[k]
      BY <2>2, <1>3
    <3>2. Number(k)' = Number(k) /\ StateOf(k)' = StateOf(k)
      BY <2>2, <3>1, <1>3, <1>4, OthersUnmoved DEF Number, StateOf, RInv
    <3>3. QED
      BY <3>1, <3>2 DEF RInv, Held
  <2>3. QED
    BY <2>1, <2>2
<1>11. Calls'
  <2>1. \A k \in Threads : Calling(k)' <=> Calling(k)
    BY <1>3, <1>4 DEF Calling, Fetching
  <2>2. QED
    BY <2>1, <1>3 DEF RInv, Calls
<1>12. Failures'
  <2>1. \A k \in Threads : pc'[k] = "catch" <=> pc[k] = "catch"
    BY <1>3, <1>4 DEF Fetching
  <2>2. QED
    BY <2>1, <1>3, <1>5 DEF RInv, Failures
<1>13. Alone'
  BY <1>3, <1>4 DEF RInv, Alone, IInv, Types
<1>14. QED
  BY <1>7, <1>8, <1>9, <1>10, <1>11, <1>12, <1>13

LEMMA FetchNoneRest ==
  ASSUME NEW i \in Threads, RInv, FetchNone(i)
  PROVE  Bounds' /\ Ring' /\ Complete' /\ Held' /\ Calls' /\ Failures' /\ Alone'
<1>1. /\ Fetching(i) /\ state' = Advanced(i) /\ ordering_thread_index' = Orderer(i)
      /\ UNCHANGED <<n_tasks, n_threads, n_iterations, n_iter, next_to_start, next_to_order,
                     next_to_finish, istart, iorder, ifinish, saved, thrown, arg, stage, failed,
                     limit>>
      /\ \/ assigned_tasks' = [assigned_tasks EXCEPT ![i] = waittask] /\ UNCHANGED pc
         \/ /\ pc' = [pc EXCEPT ![i] = "idle"] /\ UNCHANGED assigned_tasks
            /\ next_to_finish >= n_iterations
  BY DEF FetchNone, FetchWait, FetchNothing, shape, queues
<1>2. Tasks' = Tasks /\ n_threads > 1
  BY <1>1, FetchingInRing DEF Tasks
<1>3. /\ pc[i] = "fetch" /\ pc'[i] \in {"fetch", "idle"}
      /\ pc'[i] = "idle" => next_to_finish >= n_iterations
      /\ ~Holds(i)'
      /\ \A k \in Threads \ {i} : assigned_tasks'[k] = assigned_tasks[k] /\ pc'[k] = pc[k]
      /\ \A k \in Threads \ {i} : Holds(k)' <=> Holds(k)
  BY <1>1 DEF RInv, IInv, Types, Fetching, Holds
<1>4. InOrder' <=> InOrder
  BY <1>1 DEF InOrder, Orderer, Threads, NO_THREAD, INVALID_THREAD
<1>5. \A k \in Threads \ {i} : Holds(k) =>
        /\ assigned_tasks[k] \in Tasks
        /\ Number(k)' = Number(k) /\ StateOf(k)' = StateOf(k)
  BY <1>1, <1>3, OthersUnmoved DEF Number, StateOf, RInv
<1>6. Bounds'
  BY <1>1, <1>2 DEF RInv, Bounds
<1>7. Ring'
  <2> SUFFICES ASSUME InOrder PROVE RingOf(state, ordering_thread_index, Threads)'
    BY <1>4 DEF Ring
  <2>1. RingOf(Advanced(i), Orderer(i), Threads \ {i})
    BY <1>1, <1>2, AdvancedRing DEF RInv
  <2>2. RingCursors' /\ RingTasks(state)' /\ Untouched'
    BY <1>1, <2>1 DEF RingOf, RingCursors, RingTasks, Untouched
  <2>3. Finished(state, Threads)'
    BY <1>1, <1>3, <1>5, <2>1 DEF RingOf, Finished
  <2>4. BusyIsHeld(state, Threads)'
    BY <1>1, <1>2, <1>3, <2>1 DEF RingOf, BusyIsHeld
  <2>5. ASSUME NEW k \in Threads PROVE InPlace(k, state, ordering_thread_index)'
    <3>1. CASE k = i
      BY <3>1, <1>3 DEF InPlace
    <3>2. CASE k # i
      <4>1. InPlace(k, Advanced(i), Orderer(i))
        BY <3>2, <2>1 DEF RingOf
      <4>2. QED
        BY <3>2, <4>1, <1>1, <1>3, <1>5 DEF InPlace
    <3>3. QED
      BY <3>1, <3>2
  <2>6. QED
    BY <2>2, <2>3, <2>4, <2>5 DEF RingOf
<1>8. Complete'
  <2>1. i \in 0 .. n_threads - 1
    BY <1>1 DEF Fetching, Threads, RInv, IInv, Types
  <2>2. QED
    BY <1>1, <1>3, <2>1 DEF Complete
<1>9. Held'
  BY <1>1, <1>3, <1>5 DEF RInv, Held
<1>10. Calls'
  <2>1. \A k \in Threads : Calling(k)' <=> Calling(k)
    BY <1>3 DEF Calling
  <2>2. QED
    BY <2>1, <1>1 DEF RInv, Calls
<1>11. Failures'
  <2>1. \A k \in Threads : pc'[k] = "catch" <=> pc[k] = "catch"
    BY <1>3
  <2>2. QED
    BY <2>1, <1>1, <1>4 DEF RInv, Failures
<1>12. Alone'
  BY <1>1, <1>2, <1>3 DEF RInv, Alone, IInv, Types
<1>13. QED
  BY <1>6, <1>7, <1>8, <1>9, <1>10, <1>11, <1>12
-----------------------------------------------------------------------------
\* Two threads never have the same iteration in hand.
LEMMA NumbersDiffer ==
  ASSUME NEW i \in Threads, NEW k \in Threads, i # k, RInv, Holds(i), Holds(k)
  PROVE  Number(i) # Number(k)
BY DEF RInv, IInv, HeldApart, Held

LEMMA HeldTask ==
  ASSUME NEW i \in Threads, RInv, Holds(i)
  PROVE  /\ n_threads > 1 /\ i < n_threads
         /\ assigned_tasks[i] \in Tasks /\ StateOf(i) \in Busy \cup {CANCELLED}
         /\ Number(i) \in Iterations /\ Number(i) \in 0 .. limit - 1
         /\ Number(i) % n_tasks = assigned_tasks[i]
<1>1. assigned_tasks[i] \in Tasks /\ StateOf(i) \in Busy \cup {CANCELLED}
  BY DEF RInv, IInv, Types, HeldIsBusy, Holds, StateOf
<1>2. n_threads > 1
  BY DEF RInv, Alone, IInv, Types, Holds, Threads
<1>3. QED
  BY <1>1, <1>2, MaxIterationsAssumption DEF RInv, Held, Bounds, Number, Iterations, IInv, Types

\* The ring does not care that an iteration whose task is held enters its next stage.
LEMMA StageRing ==
  ASSUME NEW i \in Threads, RInv, Holds(i), NEW j \in Iterations, Number(i) = j,
         InOrder => stage[j] \in {StateOf(i) - 1, StateOf(i)},
         stage' = [stage EXCEPT ![j] = stage[j] + 1],
         Holds(i)', pc'[i] # "fetch" \/ (InOrder => stage[j] = StateOf(i)),
         \A k \in Threads \ {i} : pc'[k] = pc[k],
         UNCHANGED <<n_tasks, n_threads, state, n_iter, assigned_tasks, next_to_start,
                     next_to_order, next_to_finish, istart, iorder, ifinish,
                     ordering_thread_index, limit>>
  PROVE  Ring'
<1> SUFFICES ASSUME InOrder PROVE RingOf(state, ordering_thread_index, Threads)'
  BY DEF Ring, InOrder
<1> DEFINE s == next_to_start
           o == next_to_order
           f == next_to_finish
           N == n_tasks
<1>1. n_threads > 1 /\ RingOf(state, ordering_thread_index, Threads)
  BY HeldTask DEF RInv, Ring
<1>2. /\ InPlace(i, state, ordering_thread_index)
      /\ assigned_tasks[i] \in Tasks /\ j % N = assigned_tasks[i]
  BY <1>1, HeldTask DEF RingOf
<1>3. StateOf(i) \in Busy
  BY <1>2 DEF InPlace, StateOf
<1>4. /\ N \in Nat \ {0} /\ s \in Nat /\ o \in Nat /\ f \in Nat /\ f <= o /\ o <= s
      /\ stage \in [Iterations -> 0 .. 6] /\ j \in Nat
  BY <1>1 DEF RInv, IInv, Types, Bounds, RingOf, RingCursors, Iterations
<1>5. j < s
  BY <1>2, <1>3, <1>4 DEF InPlace, StateOf, Busy, STARTING, ORDERING, FINISHING
<1>6. stage'[j] = stage[j] + 1 /\ \A k \in Iterations \ {j} : stage'[k] = stage[k]
  BY <1>4
<1>7. \A k \in Threads : Holds(k)' <=> Holds(k)
  BY DEF Holds
<1>8. Tasks' = Tasks /\ \A k \in Threads : Number(k)' = Number(k)
  BY DEF Tasks, Number
<1>9. RingCursors' /\ BusyIsHeld(state, Threads)'
  BY <1>1, <1>7, <1>8 DEF RingOf, RingCursors, BusyIsHeld
<1>10. RingTasks(state)'
  <2>1. \A k \in Nat : k = j \/ k \notin Iterations \/ stage'[k] = stage[k]
    BY <1>6
  <2>2. s <= MaxIterations /\ MaxIterations \in Nat
    BY MaxIterationsAssumption DEF RInv, Bounds
  <2>3. ASSUME NEW k \in f .. o - 1
        PROVE  /\ n_iter[k % N] = k
               /\ state[k % N] = ORDERING \/ (state[k % N] = READY_TO_FINISH /\ stage'[k] = 4)
    <3>1. /\ n_iter[k % N] = k
          /\ state[k % N] = ORDERING \/ (state[k % N] = READY_TO_FINISH /\ stage[k] = 4)
      BY <1>1 DEF RingOf, RingTasks
    <3>2. k \in Iterations
      BY <1>4, <2>2 DEF Iterations
    <3>3. k = j => state[k % N] \in Busy
      BY <1>2, <1>3 DEF StateOf
    <3>4. QED
      BY <3>1, <3>2, <3>3, <1>6 DEF Busy, STARTING, ORDERING, FINISHING, READY_TO_FINISH
  <2>4. ASSUME NEW k \in o .. s - 1
        PROVE  /\ n_iter[k % N] = k
               /\ state[k % N] = STARTING \/ (state[k % N] = READY_TO_ORDER /\ stage'[k] = 2)
    <3>1. /\ n_iter[k % N] = k
          /\ state[k % N] = STARTING \/ (state[k % N] = READY_TO_ORDER /\ stage[k] = 2)
      BY <1>1 DEF RingOf, RingTasks
    <3>2. k \in Iterations
      BY <1>4, <2>2 DEF Iterations
    <3>3. k = j => state[k % N] \in Busy
      BY <1>2, <1>3 DEF StateOf
    <3>4. QED
      BY <3>1, <3>2, <3>3, <1>6 DEF Busy, STARTING, ORDERING, FINISHING, READY_TO_ORDER
  <2>5. QED
    BY <1>1, <2>3, <2>4 DEF RingOf, RingTasks
<1>11. Untouched'
  BY <1>1, <1>4, <1>5, <1>6 DEF RingOf, Untouched
<1>12. Finished(state, Threads)'
  <2> SUFFICES ASSUME NEW h \in 0 .. f - 1
               PROVE  \/ stage'[h] = 6
                      \/ /\ stage'[h] \in {4, 5}
                         /\ \E k \in Threads : /\ Holds(k) /\ Number(k) = h
                                               /\ state[assigned_tasks[k]] = FINISHING
    BY <1>7, <1>8 DEF Finished
  <2>1. \/ stage[h] = 6
        \/ /\ stage[h] \in {4, 5}
           /\ \E k \in Threads : /\ Holds(k) /\ Number(k) = h
                                 /\ state[assigned_tasks[k]] = FINISHING
    BY <1>1 DEF RingOf, Finished
  <2>2. h \in Iterations
    BY <1>4, MaxIterationsAssumption DEF Iterations, RInv, Bounds
  <2>3. CASE h = j
    <3>1. stage[j] # 6
      BY <1>3 DEF Busy, STARTING, ORDERING, FINISHING
    <3>2. StateOf(i) = FINISHING
      BY <2>1, <2>3, <3>1, NumbersDiffer DEF StateOf
    <3>3. stage[j] \in {4, 5}
      BY <3>2 DEF FINISHING
    <3>4. QED
      BY <2>3, <3>2, <3>3, <1>6 DEF StateOf
  <2>4. CASE h # j
    BY <2>1, <2>2, <2>4, <1>6
  <2>5. QED
    BY <2>3, <2>4
<1>13. ASSUME NEW k \in Threads PROVE InPlace(k, state, ordering_thread_index)'
  <2>1. InPlace(k, state, ordering_thread_index)
    BY <1>1 DEF RingOf
  <2>2. CASE k = i
    <3>1. pc'[i] = "fetch" => stage'[j] = StateOf(i) + 1
      BY <1>6
    <3>2. QED
      BY <2>1, <2>2, <3>1, <1>8 DEF InPlace, StateOf
  <2>3. CASE k # i
    <3>1. Holds(k) => Number(k) \in Iterations \ {j}
      BY <2>3, HeldTask, NumbersDiffer
    <3>2. QED
      BY <2>1, <2>3, <3>1, <1>6, <1>7, <1>8 DEF InPlace
  <2>4. QED
    BY <2>2, <2>3
<1>14. QED
  BY <1>9, <1>10, <1>11, <1>12, <1>13 DEF RingOf

LEMMA ExecuteEffect ==
  ASSUME NEW i \in Threads, RInv, Execute(i)
  PROVE  /\ Holds(i) /\ Number(i) \in Iterations /\ Number(i) \in 0 .. limit - 1
         /\ StateOf(i) \in Busy /\ n_threads > 1
         /\ stage[Number(i)] = StateOf(i) - 1
         /\ stage' = [stage EXCEPT ![Number(i)] = stage[Number(i)] + 1]
         /\ arg' = [arg EXCEPT ![i] = Number(i)]
         /\ pc' = [pc EXCEPT ![i] = "call"]
<1>1. Holds(i)
  BY DEF Execute, Holds, RInv, IInv, Executing
<1>2. StateOf(i) \in Busy /\ StateOf(i) # CANCELLED
  BY DEF Execute, StateOf, Busy, STARTING, ORDERING, FINISHING, CANCELLED
<1>3. stage[Number(i)] = StateOf(i) - 1
  BY <1>1, <1>2 DEF RInv, Held, Execute
<1>4. StateOf(i) = stage[Number(i)] + 1
  BY <1>2, <1>3 DEF Busy, STARTING, ORDERING, FINISHING
<1>5. QED
  BY <1>1, <1>2, <1>3, <1>4, HeldTask DEF Execute, Number, StateOf

LEMMA ExecuteRest ==
  ASSUME NEW i \in Threads, RInv, Execute(i)
  PROVE  Bounds' /\ Ring' /\ Complete' /\ Held' /\ Calls' /\ Failures' /\ Alone'
<1> DEFINE j == Number(i)
<1>1. /\ Holds(i) /\ j \in Iterations /\ j \in 0 .. limit - 1
      /\ StateOf(i) \in Busy /\ n_threads > 1
      /\ stage[j] = StateOf(i) - 1
      /\ stage' = [stage EXCEPT ![j] = stage[j] + 1]
      /\ arg' = [arg EXCEPT ![i] = j]
      /\ pc' = [pc EXCEPT ![i] = "call"]
  BY ExecuteEffect
<1>2. /\ pc[i] = "execute"
      /\ UNCHANGED <<n_tasks, n_threads, n_iterations, state, n_iter, assigned_tasks,
                     next_to_start, next_to_order, next_to_finish, istart, iorder, ifinish,
                     ordering_thread_index, saved, thrown, failed, limit>>
  BY DEF Execute, shape, taskVars, queues
<1>3. /\ pc \in [Threads -> Labels] /\ arg \in [Threads -> 0 .. MaxIterations]
      /\ stage \in [Iterations -> 0 .. 6] /\ j \in Nat /\ limit \in Nat /\ n_threads \in Nat
      /\ limit <= MaxIterations /\ n_iterations \in Nat /\ n_iterations <= limit
      /\ MaxIterations \in Nat
  BY <1>1, MaxIterationsAssumption DEF RInv, IInv, Types, Bounds, Iterations
<1>4. stage[j] \in {0, 2, 4} /\ StateOf(i) # CANCELLED
  BY <1>1 DEF Busy, STARTING, ORDERING, FINISHING, CANCELLED
<1> HIDE DEF j
<1>5. /\ stage'[j] = stage[j] + 1
      /\ \A k \in Iterations \ {j} : stage'[k] = stage[k]
      /\ arg'[i] = j /\ \A k \in Threads \ {i} : arg'[k] = arg[k]
      /\ pc'[i] = "call" /\ \A k \in Threads \ {i} : pc'[k] = pc[k]
  BY <1>1, <1>3
<1>6. Holds(i)' /\ \A k \in Threads : Holds(k)' <=> Holds(k)
  BY <1>1, <1>2, <1>5 DEF Holds
<1>7. Tasks' = Tasks /\ \A k \in Threads : Number(k)' = Number(k) /\ StateOf(k)' = StateOf(k)
  BY <1>2 DEF Tasks, Number, StateOf
<1>8. Bounds'
  <2>1. j \in 0 .. MaxIterations /\ stage[j] + 1 \in 0 .. 6
    BY <1>1, <1>3, <1>4
  <2>2. arg' \in [Threads -> 0 .. MaxIterations] /\ stage' \in [Iterations -> 0 .. 6]
    BY <1>1, <1>3, <2>1
  <2>3. QED
    BY <1>2, <1>7, <2>2 DEF RInv, Bounds
<1>9. Ring'
  BY <1>1, <1>2, <1>5, <1>6, StageRing DEF j
<1>10. Complete'
  <2>1. i \in 0 .. n_threads - 1
    BY <1>1, <1>3, HeldTask DEF Threads
  <2>2. QED
    BY <1>2, <1>5, <2>1 DEF Complete
<1>11. Held'
  <2>1. \A k \in Threads \ {i} : Holds(k) => Number(k) \in Iterations \ {j}
    BY <1>1, HeldTask, NumbersDiffer DEF j
  <2>2. ASSUME NEW k \in Threads, Holds(k), NEW h \in 0 .. Number(k) - 1, stage[h] >= 4
        PROVE  stage'[h] >= 4
    <3>1. Number(k) \in Iterations
      BY <2>2, HeldTask
    <3>2. h \in Iterations
      BY <3>1, MaxIterationsAssumption DEF Iterations
    <3>3. QED
      BY <2>2, <3>2, <1>3, <1>5
  <2>3. ASSUME NEW k \in Threads, Holds(k)
        PROVE  /\ k < n_threads /\ Number(k) % n_tasks = assigned_tasks[k] /\ Number(k) < limit
               /\ pc'[k] = "execute" /\ StateOf(k) # CANCELLED =>
                    /\ stage'[Number(k)] = StateOf(k) - 1
                    /\ StateOf(k) = ORDERING => \A h \in 0 .. Number(k) - 1 : stage'[h] >= 4
               /\ pc'[k] = "call" =>
                    /\ arg'[k] = Number(k)
                    /\ StateOf(k) = CANCELLED \/ stage'[Number(k)] = StateOf(k)
    <3>1. CASE k = i
      <4>1. stage'[j] = StateOf(i)
        BY <1>1, <1>5 DEF Busy, STARTING, ORDERING, FINISHING
      <4>2. QED
        BY <3>1, <4>1, <1>1, <1>5 DEF RInv, Held, j
    <3>2. CASE k # i
      <4>1. stage'[Number(k)] = stage[Number(k)] /\ pc'[k] = pc[k] /\ arg'[k] = arg[k]
        BY <2>1, <2>3, <3>2, <1>5
      <4>2. QED
        BY <2>2, <2>3, <4>1 DEF RInv, Held
    <3>3. QED
      BY <3>1, <3>2
  <2>4. QED
    BY <1>2, <1>6, <1>7, <2>3 DEF Held
<1>12. Calls'
  <2>1. Calling(i)' /\ ~Calling(i) /\ \A k \in Threads \ {i} : Calling(k)' <=> Calling(k)
    BY <1>2, <1>5 DEF Calling
  <2>2. stage'[j] \in {1, 3, 5} /\ j \notin failed
    BY <1>4, <1>5 DEF RInv, Calls
  <2>3. ASSUME NEW k \in Threads, Calling(k)'
        PROVE  arg'[k] \in 0 .. limit - 1 /\ arg'[k] \notin failed /\ stage'[arg'[k]] \in {1, 3, 5}
    <3>1. CASE k = i
      BY <3>1, <2>2, <1>1, <1>5
    <3>2. CASE k # i
      <4>1. arg[k] \in 0 .. limit - 1 /\ arg[k] \notin failed /\ stage[arg[k]] \in {1, 3, 5}
        BY <2>1, <2>3, <3>2 DEF RInv, Calls
      <4>2. arg[k] \in Iterations \ {j}
        BY <4>1, <1>3, <1>4, MaxIterationsAssumption DEF Iterations
      <4>3. QED
        BY <3>2, <4>1, <4>2, <1>5
    <3>3. QED
      BY <3>1, <3>2
  <2>4. ASSUME NEW h \in Iterations, stage'[h] \in {1, 3, 5}, h \notin failed
        PROVE  \E k \in Threads : Calling(k)' /\ arg'[k] = h
    <3>1. CASE h = j
      BY <3>1, <2>1, <1>5
    <3>2. CASE h # j
      <4>1. PICK k \in Threads : Calling(k) /\ arg[k] = h
        BY <2>4, <3>2, <1>5 DEF RInv, Calls
      <4>2. QED
        BY <4>1, <2>1, <1>5
    <3>3. QED
      BY <3>1, <3>2
  <2>5. \A h \in failed : stage'[h] \in {1, 3, 5}
    BY <2>2, <1>5 DEF RInv, Calls, Bounds
  <2>6. QED
    BY <1>2, <2>3, <2>4, <2>5 DEF Calls
<1>13. Failures'
  <2>1. \A k \in Threads : pc'[k] = "catch" <=> pc[k] = "catch"
    BY <1>2, <1>5
  <2>2. QED
    BY <2>1, <1>2 DEF RInv, Failures, InOrder
<1>14. Alone'
  BY <1>1, <1>2, <1>3, <1>5 DEF RInv, Alone
<1>15. QED
  BY <1>8, <1>9, <1>10, <1>11, <1>12, <1>13, <1>14

\* A thread that executes a task of the scheduler; not the master alone.
LEMMA CallEffect ==
  ASSUME NEW i \in Threads, RInv, pc[i] = "call"
  PROVE  /\ Holds(i) /\ n_threads > 1 /\ i < n_threads
         /\ Number(i) = arg[i] /\ arg[i] \in Iterations /\ arg[i] \notin failed
         /\ stage[arg[i]] \in {1, 3, 5}
         /\ InOrder => stage[arg[i]] = StateOf(i)
         /\ \A k \in Threads \ {i} : Calling(k) => arg[k] # arg[i]
<1>1. Holds(i)
  BY DEF Holds, RInv, IInv, Executing
<1>2. /\ n_threads > 1 /\ i < n_threads /\ Number(i) \in Iterations
  BY <1>1, HeldTask
<1>3. Number(i) = arg[i] /\ arg[i] \notin failed /\ stage[arg[i]] \in {1, 3, 5}
  BY <1>1 DEF RInv, Held, Calls, Calling
<1>4. InOrder => stage[arg[i]] = StateOf(i)
  <2> SUFFICES ASSUME InOrder PROVE StateOf(i) # CANCELLED
    BY <1>1, <1>3 DEF RInv, Held
  <2>1. StateOf(i) \in Busy
    BY <1>1, <1>2 DEF RInv, Ring, RingOf, InPlace, StateOf
  <2>2. QED
    BY <2>1 DEF Busy, STARTING, ORDERING, FINISHING, CANCELLED
<1>5. \A k \in Threads \ {i} : Calling(k) => arg[k] # arg[i]
  <2> SUFFICES ASSUME NEW k \in Threads \ {i}, Calling(k) PROVE arg[k] # arg[i]
    OBVIOUS
  <2>1. pc[k] = "call"
    BY <1>2 DEF Calling, RInv, Alone
  <2>2. Holds(k)
    BY <2>1 DEF Holds, RInv, IInv, Executing
  <2>3. arg[k] = Number(k)
    BY <2>1, <2>2 DEF RInv, Held
  <2>4. QED
    BY <1>1, <1>3, <2>2, <2>3, NumbersDiffer
<1>6. QED
  BY <1>1, <1>2, <1>3, <1>4, <1>5

LEMMA ReturnRest ==
  ASSUME NEW i \in Threads, RInv, Return(i)
  PROVE  Bounds' /\ Ring' /\ Complete' /\ Held' /\ Calls' /\ Failures' /\ Alone'
<1> DEFINE j == arg[i]
<1>1. /\ pc[i] = "call" /\ stage' = [stage EXCEPT ![j] = stage[j] + 1]
      /\ pc' = [pc EXCEPT ![i] = "fetch"]
      /\ UNCHANGED <<n_tasks, n_threads, n_iterations, state, n_iter, assigned_tasks,
                     next_to_start, next_to_order, next_to_finish, istart, iorder, ifinish,
                     ordering_thread_index, saved, arg, thrown, failed, limit>>
  BY DEF Return, shape, taskVars, queues
<1>2. /\ Holds(i) /\ n_threads > 1 /\ i < n_threads
      /\ Number(i) = j /\ j \in Iterations /\ j \notin failed
      /\ stage[j] \in {1, 3, 5}
      /\ InOrder => stage[j] = StateOf(i)
      /\ \A k \in Threads \ {i} : Calling(k) => arg[k] # j
  BY <1>1, CallEffect
<1>3. /\ pc \in [Threads -> Labels] /\ stage \in [Iterations -> 0 .. 6] /\ n_threads \in Nat
      /\ j \in Nat /\ limit \in Nat /\ limit <= MaxIterations
  BY <1>2, MaxIterationsAssumption DEF RInv, IInv, Types, Bounds, Iterations
<1> HIDE DEF j
<1>4. /\ stage'[j] = stage[j] + 1
      /\ \A k \in Iterations \ {j} : stage'[k] = stage[k]
      /\ pc'[i] = "fetch" /\ \A k \in Threads \ {i} : pc'[k] = pc[k]
  BY <1>1, <1>2, <1>3
<1>5. Holds(i)' /\ \A k \in Threads : Holds(k)' <=> Holds(k)
  BY <1>1, <1>2, <1>4 DEF Holds
<1>6. Tasks' = Tasks /\ \A k \in Threads : Number(k)' = Number(k) /\ StateOf(k)' = StateOf(k)
  BY <1>1 DEF Tasks, Number, StateOf
<1>7. Bounds'
  <2>1. stage' \in [Iterations -> 0 .. 6]
    BY <1>1, <1>2, <1>3
  <2>2. QED
    BY <1>1, <1>6, <2>1 DEF RInv, Bounds
<1>8. Ring'
  <2>1. InOrder => stage[j] \in {StateOf(i) - 1, StateOf(i)}
    BY <1>2
  <2>2. QED
    BY <1>1, <1>2, <1>4, <1>5, <2>1, StageRing
<1>9. Complete'
  <2>1. i \in 0 .. n_threads - 1
    BY <1>2, <1>3 DEF Threads
  <2>2. QED
    BY <1>1, <1>4, <2>1 DEF Complete
<1>10. Held'
  <2>1. ASSUME NEW k \in Threads, Holds(k), NEW h \in 0 .. Number(k) - 1, stage[h] >= 4
        PROVE  stage'[h] >= 4
    <3>1. Number(k) \in Iterations
      BY <2>1, HeldTask
    <3>2. h \in Iterations
      BY <3>1, MaxIterationsAssumption DEF Iterations
    <3>3. QED
      BY <2>1, <3>2, <1>3, <1>4
  <2>2. ASSUME NEW k \in Threads, Holds(k)
        PROVE  /\ k < n_threads /\ Number(k) % n_tasks = assigned_tasks[k] /\ Number(k) < limit
               /\ pc'[k] = "execute" /\ StateOf(k) # CANCELLED =>
                    /\ stage'[Number(k)] = StateOf(k) - 1
                    /\ StateOf(k) = ORDERING => \A h \in 0 .. Number(k) - 1 : stage'[h] >= 4
               /\ pc'[k] = "call" =>
                    /\ arg[k] = Number(k)
                    /\ StateOf(k) = CANCELLED \/ stage'[Number(k)] = StateOf(k)
    <3>1. CASE k = i
      BY <3>1, <2>2, <1>4 DEF RInv, Held
    <3>2. CASE k # i
      <4>1. Number(k) \in Iterations \ {j}
        BY <2>2, <3>2, <1>2, HeldTask, NumbersDiffer
      <4>2. stage'[Number(k)] = stage[Number(k)] /\ pc'[k] = pc[k]
        BY <3>2, <4>1, <1>4
      <4>3. QED
        BY <2>1, <2>2, <4>2 DEF RInv, Held
    <3>3. QED
      BY <3>1, <3>2
  <2>3. QED
    BY <1>1, <1>5, <1>6, <2>2 DEF Held
<1>11. Calls'
  <2>1. ~Calling(i)' /\ \A k \in Threads \ {i} : Calling(k)' <=> Calling(k)
    BY <1>4 DEF Calling
  <2>2. ASSUME NEW k \in Threads, Calling(k)'
        PROVE  arg[k] \in 0 .. limit - 1 /\ arg[k] \notin failed /\ stage'[arg[k]] \in {1, 3, 5}
    <3>1. arg[k] \in 0 .. limit - 1 /\ arg[k] \notin failed /\ stage[arg[k]] \in {1, 3, 5}
      BY <2>1, <2>2 DEF RInv, Calls
    <3>2. arg[k] \in Iterations \ {j}
      BY <2>1, <2>2, <3>1, <1>2, <1>3, MaxIterationsAssumption DEF Iterations
    <3>3. QED
      BY <3>1, <3>2, <1>4
  <2>3. ASSUME NEW h \in Iterations, stage'[h] \in {1, 3, 5}, h \notin failed
        PROVE  \E k \in Threads : Calling(k)' /\ arg[k] = h
    <3>1. h # j
      BY <2>3, <1>2, <1>4
    <3>2. PICK k \in Threads : Calling(k) /\ arg[k] = h
      BY <2>3, <3>1, <1>4 DEF RInv, Calls
    <3>3. QED
      BY <3>1, <3>2, <2>1 DEF j
  <2>4. \A h \in failed : stage'[h] \in {1, 3, 5}
    BY <1>2, <1>4 DEF RInv, Calls, Bounds
  <2>5. QED
    BY <1>1, <2>2, <2>3, <2>4 DEF Calls
<1>12. Failures'
  <2>1. \A k \in Threads : pc'[k] = "catch" <=> pc[k] = "catch"
    BY <1>1, <1>4
  <2>2. QED
    BY <2>1, <1>1 DEF RInv, Failures, InOrder
<1>13. Alone'
  BY <1>1, <1>2, <1>3, <1>4 DEF RInv, Alone
<1>14. QED
  BY <1>7, <1>8, <1>9, <1>10, <1>11, <1>12, <1>13

LEMMA ThrowRest ==
  ASSUME NEW i \in Threads, RInv, Throw(i)
  PROVE  Bounds' /\ Ring' /\ Complete' /\ Held' /\ Calls' /\ Failures' /\ Alone'
<1> DEFINE j == arg[i]
<1>1. /\ pc[i] = "call" /\ failed' = failed \cup {j} /\ thrown' = [thrown EXCEPT ![i] = "user"]
      /\ pc' = [pc EXCEPT ![i] = "catch"]
      /\ UNCHANGED <<n_tasks, n_threads, n_iterations, state, n_iter, assigned_tasks,
                     next_to_start, next_to_order, next_to_finish, istart, iorder, ifinish,
                     ordering_thread_index, saved, arg, stage, limit>>
  BY DEF Throw, shape, taskVars, queues
<1>2. /\ Holds(i) /\ n_threads > 1 /\ i < n_threads /\ j \in Iterations
      /\ stage[j] \in {1, 3, 5}
      /\ \A k \in Threads \ {i} : Calling(k) => arg[k] # j
  BY <1>1, CallEffect
<1>3. /\ pc'[i] = "catch" /\ \A k \in Threads \ {i} : pc'[k] = pc[k] /\ thrown'[k] = thrown[k]
  BY <1>1 DEF RInv, IInv, Types
<1> HIDE DEF j
<1>4. Holds(i)' /\ \A k \in Threads : Holds(k)' <=> Holds(k)
  BY <1>1, <1>2, <1>3 DEF Holds
<1>5. Tasks' = Tasks /\ \A k \in Threads : Number(k)' = Number(k) /\ StateOf(k)' = StateOf(k)
  BY <1>1 DEF Tasks, Number, StateOf
<1>6. Bounds'
  BY <1>1, <1>2, <1>5 DEF RInv, Bounds
<1>7. Ring'
  BY <1>1, <1>3, <1>4, <1>5 DEF RInv, Ring, InOrder, RingOf, RingCursors, RingTasks, Untouched,
     Finished, BusyIsHeld, InPlace
<1>8. Complete'
  <2>1. i \in 0 .. n_threads - 1
    BY <1>2 DEF Threads, RInv, IInv, Types
  <2>2. QED
    BY <1>1, <1>3, <2>1 DEF Complete
<1>9. Held'
  BY <1>1, <1>3, <1>4, <1>5 DEF RInv, Held
<1>10. Calls'
  <2>1. ~Calling(i)' /\ \A k \in Threads \ {i} : Calling(k)' <=> Calling(k)
    BY <1>3 DEF Calling
  <2>2. \A k \in Threads \ {i} : Calling(k) => arg[k] \notin failed'
    BY <1>1, <1>2 DEF RInv, Calls
  <2>3. \A h \in Iterations : stage[h] \in {1, 3, 5} /\ h \notin failed' =>
          \E k \in Threads \ {i} : Calling(k) /\ arg[k] = h
    BY <1>1 DEF RInv, Calls, j
  <2>4. \A h \in failed' : stage[h] \in {1, 3, 5}
    BY <1>1, <1>2 DEF RInv, Calls
  <2>5. QED
    BY <1>1, <2>1, <2>2, <2>3, <2>4 DEF RInv, Calls
<1>11. Failures'
  BY <1>1, <1>3 DEF RInv, Failures, InOrder
<1>12. Alone'
  BY <1>1, <1>2, <1>3 DEF RInv, Alone, IInv, Types
<1>13. QED
  BY <1>6, <1>7, <1>8, <1>9, <1>10, <1>11, <1>12

LEMMA ExecuteCancelledRest ==
  ASSUME NEW i \in Threads, RInv, ExecuteCancelled(i)
  PROVE  Bounds' /\ Ring' /\ Complete' /\ Held' /\ Calls' /\ Failures' /\ Alone'
<1>1. /\ pc[i] = "execute" /\ thrown' = [thrown EXCEPT ![i] = "invalid"]
      /\ pc' = [pc EXCEPT ![i] = "catch"]
      /\ UNCHANGED <<n_tasks, n_threads, n_iterations, state, n_iter, assigned_tasks,
                     next_to_start, next_to_order, next_to_finish, istart, iorder, ifinish,
                     ordering_thread_index, saved, arg, stage, failed, limit>>
  BY DEF ExecuteCancelled, shape, taskVars, queues
<1>2. Holds(i)
  BY <1>1 DEF Holds, RInv, IInv, Executing
<1>3. n_threads > 1 /\ i < n_threads
  BY <1>2, HeldTask
<1>4. /\ pc'[i] = "catch" /\ \A k \in Threads \ {i} : pc'[k] = pc[k] /\ thrown'[k] = thrown[k]
  BY <1>1 DEF RInv, IInv, Types
<1>5. Holds(i)' /\ \A k \in Threads : Holds(k)' <=> Holds(k)
  BY <1>1, <1>2, <1>4 DEF Holds
<1>6. Tasks' = Tasks /\ \A k \in Threads : Number(k)' = Number(k) /\ StateOf(k)' = StateOf(k)
  BY <1>1 DEF Tasks, Number, StateOf
<1>7. Bounds'
  BY <1>1, <1>6 DEF RInv, Bounds
<1>8. Ring'
  BY <1>1, <1>4, <1>5, <1>6 DEF RInv, Ring, InOrder, RingOf, RingCursors, RingTasks, Untouched,
     Finished, BusyIsHeld, InPlace
<1>9. Complete'
  <2>1. i \in 0 .. n_threads - 1
    BY <1>3 DEF Threads, RInv, IInv, Types
  <2>2. QED
    BY <1>1, <1>4, <2>1 DEF Complete
<1>10. Held'
  BY <1>1, <1>4, <1>5, <1>6 DEF RInv, Held
<1>11. Calls'
  <2>1. \A k \in Threads : Calling(k)' <=> Calling(k)
    BY <1>1, <1>4 DEF Calling
  <2>2. QED
    BY <1>1, <2>1 DEF RInv, Calls
<1>12. Failures'
  <2>1. failed # {}
    BY CancelledIsSaved DEF RInv, Failures
  <2>2. QED
    BY <1>1, <1>4, <2>1 DEF RInv, Failures, InOrder
<1>13. Alone'
  BY <1>1, <1>3, <1>4 DEF RInv, Alone, IInv, Types
<1>14. QED
  BY <1>7, <1>8, <1>9, <1>10, <1>11, <1>12, <1>13

LEMMA TurnAwayRest ==
  ASSUME NEW i \in Threads, RInv, TurnAway(i)
  PROVE  Bounds' /\ Ring' /\ Complete' /\ Held' /\ Calls' /\ Failures' /\ Alone'
<1>1. /\ pc[i] = "fetch" /\ i >= n_threads /\ pc' = [pc EXCEPT ![i] = "idle"]
      /\ UNCHANGED <<n_tasks, n_threads, n_iterations, state, n_iter, assigned_tasks,
                     next_to_start, next_to_order, next_to_finish, istart, iorder, ifinish,
                     ordering_thread_index, saved, arg, thrown, stage, failed, limit>>
  BY DEF TurnAway, shape, taskVars, queues
<1>2. n_threads \in Nat /\ n_threads > 1 /\ i \in Nat
  BY <1>1 DEF RInv, Alone, IInv, Types, Threads
<1>3. /\ pc'[i] = "idle" /\ \A k \in Threads \ {i} : pc'[k] = pc[k]
  BY <1>1 DEF RInv, IInv, Types
<1>4. \A k \in Threads : Holds(k)' <=> Holds(k)
  <2>1. ~Holds(i)
    BY <1>1, <1>2, HeldTask
  <2>2. QED
    BY <1>1, <1>3, <2>1 DEF Holds
<1>5. Tasks' = Tasks /\ \A k \in Threads : Number(k)' = Number(k) /\ StateOf(k)' = StateOf(k)
  BY <1>1 DEF Tasks, Number, StateOf
<1>6. Bounds'
  BY <1>1, <1>5 DEF RInv, Bounds
<1>7. Ring'
  BY <1>1, <1>3, <1>4, <1>5 DEF RInv, Ring, InOrder, RingOf, RingCursors, RingTasks, Untouched,
     Finished, BusyIsHeld, InPlace
<1>8. Complete'
  <2>1. \A k \in 0 .. n_threads - 1 : k \in Threads \ {i}
    BY <1>1, <1>2, MaxThreadsAssumption DEF RInv, Bounds, Threads
  <2>2. QED
    BY <1>1, <1>3, <2>1 DEF RInv, Complete, InOrder
<1>9. Held'
  BY <1>1, <1>3, <1>4, <1>5 DEF RInv, Held
<1>10. Calls'
  <2>1. \A k \in Threads : Calling(k)' <=> Calling(k)
    BY <1>1, <1>3 DEF Calling
  <2>2. QED
    BY <1>1, <2>1 DEF RInv, Calls
<1>11. Failures'
  BY <1>1, <1>3 DEF RInv, Failures, InOrder
<1>12. Alone'
  BY <1>1, <1>2, <1>3 DEF RInv, Alone, IInv, Types
<1>13. QED
  BY <1>6, <1>7, <1>8, <1>9, <1>10, <1>11, <1>12

LEMMA SetIterationsRest ==
  ASSUME NEW i \in Threads, RInv, NEW n \in Resizes, SetIterations(i, n)
  PROVE  Bounds' /\ Ring' /\ Complete' /\ Held' /\ Calls' /\ Failures' /\ Alone'
<1>1. /\ Calling(i) /\ n_iterations' = n
      /\ limit' = IF n > limit THEN n ELSE limit
      /\ UNCHANGED <<n_tasks, n_threads, state, n_iter, assigned_tasks,
                     next_to_start, next_to_order, next_to_finish, istart, iorder, ifinish,
                     ordering_thread_index, saved, pc, arg, thrown, stage, failed>>
  BY DEF SetIterations, Calling, shape, taskVars, queues
<1>2. /\ n \in 0 .. MaxIterations /\ MaxIterations \in Nat /\ limit \in 0 .. MaxIterations
      /\ n_tasks \in Nat \ {0} /\ next_to_start \in Nat
  BY ResizesAssumption, MaxIterationsAssumption DEF RInv, Bounds, IInv, Types
<1>3. limit' \in n .. MaxIterations /\ limit' >= limit /\ limit' \in Nat
  BY <1>1, <1>2
<1>4. \A k \in Threads : (Holds(k)' <=> Holds(k)) /\ (Calling(k)' <=> Calling(k))
  BY <1>1 DEF Holds, Calling
<1>5. Tasks' = Tasks /\ \A k \in Threads : Number(k)' = Number(k) /\ StateOf(k)' = StateOf(k)
  BY <1>1 DEF Tasks, Number, StateOf
<1>6. Bounds'
  BY <1>1, <1>3, <1>5 DEF RInv, Bounds
<1>7. Ring'
  <2>1. RingCursors => RingCursors'
    BY <1>1, <1>2, <1>3 DEF RingCursors
  <2>2. QED
    BY <1>1, <1>4, <1>5, <2>1 DEF RInv, Ring, InOrder, RingOf, RingTasks, Untouched, Finished,
       BusyIsHeld, InPlace
<1>8. Complete'
  <2> SUFFICES ASSUME n_threads > 1 PROVE \E k \in 0 .. n_threads - 1 : pc[k] # "idle"
    BY <1>1 DEF Complete
  <2>1. pc[i] = "call"
    BY <1>1 DEF Calling, RInv, Alone
  <2>2. i < n_threads
    BY <2>1, CallEffect
  <2>3. QED
    BY <2>1, <2>2 DEF Threads, RInv, IInv, Types
<1>9. Held'
  <2>1. \A k \in Threads : Holds(k) => Number(k) < limit'
    BY <1>2, <1>3, HeldTask
  <2>2. QED
    BY <1>1, <1>4, <1>5, <2>1 DEF RInv, Held
<1>10. Calls'
  <2>1. \A k \in Threads : arg[k] \in 0 .. limit - 1 => arg[k] \in 0 .. limit' - 1
    BY <1>2, <1>3
  <2>2. QED
    BY <1>1, <1>4, <2>1 DEF RInv, Calls
<1>11. Failures'
  BY <1>1 DEF RInv, Failures, InOrder
<1>12. Alone'
  <2>1. 0 \in Threads
    BY MaxThreadsAssumption DEF Threads
  <2>2. arg[0] \in Nat
    BY <1>2, <2>1 DEF RInv, Bounds
  <2>3. QED
    BY <1>1, <1>2, <1>3, <2>2 DEF RInv, Alone
<1>13. QED
  BY <1>6, <1>7, <1>8, <1>9, <1>10, <1>11, <1>12

LEMMA AbortsRest ==
  ASSUME NEW i \in Threads, RInv, Aborts(i)
  PROVE  Bounds' /\ Ring' /\ Complete' /\ Held' /\ Calls' /\ Failures' /\ Alone'
<1>1. /\ AbortExecution
      /\ UNCHANGED <<n_tasks, n_threads, n_iterations, n_iter, assigned_tasks, next_to_order,
                     arg, stage, failed, limit>>
      /\ \/ pc[i] = "catch" /\ pc' = [pc EXCEPT ![i] = "abort"] /\ SaveFirst(i)
            /\ UNCHANGED thrown
         \/ pc[i] = "abort" /\ pc' = [pc EXCEPT ![i] = "fetch"] /\ UNCHANGED saved
            /\ thrown' = [thrown EXCEPT ![i] = "none"]
  BY DEF Aborts, Catch, AbortAgain, shape
<1>2. /\ pc'[i] \in {"abort", "fetch"} /\ pc[i] \in {"catch", "abort"}
      /\ \A k \in Threads \ {i} : pc'[k] = pc[k]
      /\ \A k \in Threads : thrown'[k] \in {"none", thrown[k]}
  BY <1>1 DEF RInv, IInv, Types
<1>3. saved' = "user" /\ failed # {}
  BY <1>1 DEF SaveFirst, RInv, IInv, Types, CancelledLate, UserExceptionIsThrown, Failures
<1>4. ordering_thread_index' = INVALID_THREAD /\ next_to_start' = n_iterations
      /\ next_to_finish' = n_iterations
  BY <1>1 DEF AbortExecution
<1>5. /\ n_threads > 1 /\ n_iterations \in Nat /\ n_iterations <= MaxIterations
      /\ MaxIterations \in Nat /\ n_threads \in Nat
  BY <1>2, MaxIterationsAssumption, MaxThreadsAssumption
     DEF RInv, Alone, Bounds, IInv, Types, Threads
<1>6. \A k \in Threads : (Holds(k)' <=> Holds(k)) /\ (Calling(k)' <=> Calling(k))
  BY <1>1, <1>2 DEF Holds, Calling
<1>7. Tasks' = Tasks /\ \A k \in Threads : Number(k)' = Number(k)
  BY <1>1 DEF Tasks, Number
<1>8. \A k \in Threads : Holds(k) => StateOf(k)' \in {StateOf(k), CANCELLED}
  BY <1>1, HeldTask DEF AbortExecution, StateOf, RInv, IInv, Types
<1>9. Bounds'
  BY <1>1, <1>4, <1>5, <1>7 DEF RInv, Bounds
<1>10. Ring' /\ Complete'
  BY <1>4 DEF Ring, Complete, InOrder
<1>11. Held'
  <2>1. \A k \in Threads : pc'[k] \in {"execute", "call"} => pc'[k] = pc[k]
    BY <1>2
  <2>2. QED
    BY <1>1, <1>6, <1>7, <1>8, <2>1 DEF RInv, Held
<1>12. Calls'
  BY <1>1, <1>6 DEF RInv, Calls
<1>13. Failures'
  BY <1>1, <1>3 DEF Failures
<1>14. Alone'
  BY <1>1, <1>2, <1>5 DEF RInv, Alone, IInv, Types
<1>15. QED
  BY <1>9, <1>10, <1>11, <1>12, <1>13, <1>14

\* The exception is saved, and the ring stays as it is.
LEMMA SavesRing == ASSUME NEW i \in Threads, RInv, Saves(i) PROVE RInv'
<1>1. IInv' /\ saved' = "user" /\ pc'[i] = "abort" /\ pc[i] = "catch"
      /\ \A k \in Threads \ {i} : pc'[k] = pc[k]
  BY SavesInv, SavesEffect DEF RInv
<1>2. UNCHANGED <<n_tasks, n_threads, n_iterations, state, n_iter, assigned_tasks,
                  next_to_start, next_to_order, next_to_finish, istart, iorder, ifinish,
                  ordering_thread_index, arg, thrown, stage, failed, limit>>
  BY DEF Saves
<1>3. failed # {}
  BY <1>1 DEF RInv, IInv, CancelledLate, Failures
<1>4. \A k \in Threads : /\ Holds(k)' <=> Holds(k)
                         /\ Number(k)' = Number(k) /\ StateOf(k)' = StateOf(k)
                         /\ Calling(k)' <=> Calling(k)
                         /\ pc'[k] \in {"fetch", "execute", "call", "idle"} => pc'[k] = pc[k]
  BY <1>1, <1>2 DEF Holds, Number, StateOf, Calling
<1>5. NothingPending' /\ Bounds'
  BY <1>2 DEF RInv, NothingPending, Bounds, Tasks
<1>6. Ring'
  BY <1>1, <1>2, <1>4 DEF RInv, Ring, InOrder, RingOf, RingCursors, RingTasks, Untouched,
     Finished, BusyIsHeld, InPlace, Tasks
<1>7. Complete'
  <2>1. 0 .. n_threads - 1 \subseteq Threads
    BY MaxThreadsAssumption DEF RInv, Bounds, IInv, Types, Threads
  <2>2. (\A k \in 0 .. n_threads - 1 : pc'[k] = "idle") =>
          \A k \in 0 .. n_threads - 1 : pc[k] = "idle"
    BY <1>4, <2>1
  <2>3. QED
    BY <1>2, <2>2 DEF RInv, Complete, InOrder
<1>8. Held'
  BY <1>2, <1>4 DEF RInv, Held
<1>9. Calls' /\ Failures'
  BY <1>1, <1>2, <1>3, <1>4 DEF RInv, Calls, Failures, InOrder
<1>10. Alone'
  BY <1>1, <1>2 DEF RInv, Alone, IInv, Types
<1>11. QED
  BY <1>1, <1>5, <1>6, <1>7, <1>8, <1>9, <1>10 DEF RInv

\* The master alone: what its four steps have in common.
LEMMA LoopAlone ==
  ASSUME RInv, Loop
  PROVE  /\ n_threads <= 1 /\ n_threads \in Nat /\ 0 \in Threads
         /\ \A k \in Threads \ {0} : pc[k] = "idle" /\ pc'[k] = "idle"
         /\ pc'[0] \in {"loop", "loopcall", "unwind", "idle"}
         /\ arg[0] \in Nat /\ limit \in Nat /\ n_iterations \in Nat /\ arg[0] <= limit
         /\ n_iterations <= limit /\ limit <= MaxIterations /\ MaxIterations \in Nat
         /\ pc[0] = "loopcall" => /\ arg[0] < limit /\ arg[0] \in Iterations
                                  /\ stage[arg[0]] \in {1, 3, 5} /\ failed = {}
         /\ Tasks' = Tasks
         /\ UNCHANGED <<n_tasks, n_threads, n_iterations, state, n_iter, assigned_tasks,
                        next_to_start, next_to_order, next_to_finish, istart, iorder, ifinish,
                        ordering_thread_index, thrown, limit>>
<1>1. 0 \in Threads
  BY MaxThreadsAssumption DEF Threads
<1>2. /\ UNCHANGED <<n_tasks, n_threads, n_iterations, state, n_iter, assigned_tasks,
                     next_to_start, next_to_order, next_to_finish, istart, iorder, ifinish,
                     ordering_thread_index, thrown, limit>>
      /\ pc[0] \in {"loop", "loopcall", "unwind"}
      /\ \/ pc' = [pc EXCEPT ![0] = "loop"] \/ pc' = [pc EXCEPT ![0] = "loopcall"]
         \/ pc' = [pc EXCEPT ![0] = "unwind"] \/ pc' = [pc EXCEPT ![0] = "idle"]
  BY DEF Loop, LoopCall, LoopReturn, LoopThrow, LoopEnd, LoopFrame, shape, taskVars, queues
<1>3. n_threads <= 1 /\ n_threads \in Nat /\ \A k \in Threads \ {0} : pc[k] = "idle"
  BY <1>1, <1>2 DEF RInv, Alone, IInv, Types
<1>4. /\ \A k \in Threads \ {0} : pc'[k] = "idle"
      /\ pc'[0] \in {"loop", "loopcall", "unwind", "idle"}
  BY <1>1, <1>2, <1>3 DEF RInv, IInv, Types
<1>5. /\ arg[0] \in Nat /\ limit \in Nat /\ n_iterations \in Nat /\ n_iterations <= limit
      /\ limit <= MaxIterations /\ MaxIterations \in Nat /\ arg[0] <= limit
  BY <1>1, <1>3, MaxIterationsAssumption DEF RInv, Bounds, Alone, IInv, Types
<1>6. pc[0] = "loopcall" => /\ arg[0] < limit /\ arg[0] \in Iterations
                            /\ stage[arg[0]] \in {1, 3, 5} /\ failed = {}
  BY <1>1, <1>3, <1>5 DEF RInv, Calls, Calling, Alone, Iterations
<1>7. QED
  BY <1>1, <1>2, <1>3, <1>4, <1>5, <1>6 DEF Tasks

LEMMA LoopRest ==
  ASSUME RInv, Loop
  PROVE  Bounds' /\ Ring' /\ Complete' /\ Held' /\ Calls' /\ Failures' /\ Alone'
<1> DEFINE a == arg[0]
<1>1. /\ n_threads <= 1 /\ n_threads \in Nat /\ 0 \in Threads
      /\ \A k \in Threads \ {0} : pc[k] = "idle" /\ pc'[k] = "idle"
      /\ pc'[0] \in {"loop", "loopcall", "unwind", "idle"}
      /\ a \in Nat /\ limit \in Nat /\ n_iterations \in Nat /\ a <= limit
      /\ n_iterations <= limit /\ limit <= MaxIterations /\ MaxIterations \in Nat
      /\ pc[0] = "loopcall" => /\ a < limit /\ a \in Iterations
                               /\ stage[a] \in {1, 3, 5} /\ failed = {}
      /\ Tasks' = Tasks
      /\ UNCHANGED <<n_tasks, n_threads, n_iterations, state, n_iter, assigned_tasks,
                     next_to_start, next_to_order, next_to_finish, istart, iorder, ifinish,
                     ordering_thread_index, thrown, limit>>
  BY LoopAlone
<1>2. Ring' /\ Complete'
  BY <1>1 DEF Ring, Complete
<1>3. Held'
  <2>1. \A k \in Threads : ~Holds(k)'
    BY <1>1 DEF Holds
  <2>2. QED
    BY <2>1 DEF Held
<1>4. /\ pc \in [Threads -> Labels] /\ arg \in [Threads -> 0 .. MaxIterations]
      /\ stage \in [Iterations -> 0 .. 6] /\ failed \subseteq Iterations
      /\ \A j \in 0 .. a - 1 : stage[j] = 6
      /\ \A j \in Iterations : j > a => stage[j] = 0
      /\ \A j \in failed : stage[j] \in {1, 3, 5}
      /\ pc[0] = "loop" => failed = {} /\ (a < MaxIterations => stage[a] \in {0, 2, 4})
      /\ pc[0] = "unwind" => saved = "user"
      /\ \A k \in Threads : thrown[k] # "none" => failed # {}
      /\ saved # "none" => failed # {}
      /\ failed # {} => saved # "none"
      /\ \A j \in Iterations : stage[j] \in {1, 3, 5} /\ j \notin failed =>
                                  pc[0] = "loopcall" /\ a = j
  BY <1>1 DEF RInv, IInv, Types, Bounds, Alone, Failures, Calls, Calling
<1> SUFFICES Bounds' /\ Calls' /\ Failures' /\ Alone'
  BY <1>2, <1>3
<1>5. CASE LoopCall
  <2>1. /\ pc[0] = "loop" /\ a < n_iterations /\ stage' = [stage EXCEPT ![a] = stage[a] + 1]
        /\ pc'[0] = "loopcall" /\ UNCHANGED <<saved, arg, failed>>
    BY <1>1, <1>4, <1>5 DEF LoopCall
  <2>2. a \in Iterations /\ a \in 0 .. limit - 1 /\ stage[a] \in {0, 2, 4} /\ failed = {}
    BY <1>1, <1>4, <2>1 DEF Iterations
  <2>3. /\ stage'[a] \in {1, 3, 5} /\ stage' \in [Iterations -> 0 .. 6]
        /\ \A j \in Iterations \ {a} : stage'[j] = stage[j]
    BY <1>4, <2>1, <2>2
  <2>4. Bounds'
    BY <1>1, <2>1, <2>3 DEF RInv, Bounds
  <2>5. Calls'
    <3>1. \A k \in Threads : Calling(k)' <=> k = 0
      BY <1>1, <2>1 DEF Calling
    <3>2. \A j \in Iterations : stage'[j] \in {1, 3, 5} => j = a
      BY <1>4, <2>1, <2>2, <2>3
    <3>3. QED
      BY <3>1, <3>2, <1>1, <2>1, <2>2, <2>3 DEF Calls
  <2>6. Failures'
    BY <1>1, <1>4, <2>1 DEF RInv, Failures, InOrder
  <2>7. Alone'
    <3>1. \A j \in 0 .. a - 1 : j \in Iterations \ {a}
      BY <1>1, <2>2 DEF Iterations
    <3>2. QED
      BY <3>1, <1>1, <1>4, <2>1, <2>2, <2>3 DEF Alone, Iterations
  <2>8. QED
    BY <2>4, <2>5, <2>6, <2>7
<1>6. CASE LoopReturn
  <2>1. /\ pc[0] = "loopcall" /\ stage' = [stage EXCEPT ![a] = stage[a] + 1]
        /\ arg' = [arg EXCEPT ![0] = IF stage[a] = FINISHING THEN a + 1 ELSE a]
        /\ pc'[0] = "loop" /\ UNCHANGED <<saved, failed>>
    BY <1>1, <1>4, <1>6 DEF LoopReturn
  <2>2. a \in Iterations /\ a < limit /\ stage[a] \in {1, 3, 5} /\ failed = {}
    BY <1>1, <2>1
  <2>3. /\ stage'[a] = stage[a] + 1 /\ stage' \in [Iterations -> 0 .. 6]
        /\ \A j \in Iterations \ {a} : stage'[j] = stage[j]
    BY <1>4, <2>1, <2>2
  <2>4. /\ arg'[0] = IF stage[a] = 5 THEN a + 1 ELSE a
        /\ arg' \in [Threads -> 0 .. MaxIterations] /\ arg'[0] \in Nat /\ arg'[0] <= limit
    BY <1>1, <1>4, <2>1, <2>2 DEF FINISHING
  <2>5. Bounds'
    BY <1>1, <2>1, <2>3, <2>4 DEF RInv, Bounds
  <2>6. \A j \in Iterations : stage'[j] \notin {1, 3, 5}
    BY <1>4, <2>2, <2>3
  <2>7. Calls'
    <3>1. \A k \in Threads : ~Calling(k)'
      BY <1>1, <2>1 DEF Calling
    <3>2. QED
      BY <3>1, <2>1, <2>2, <2>6 DEF Calls
  <2>8. Failures'
    BY <1>1, <1>4, <2>1 DEF RInv, Failures, InOrder
  <2>9. \A j \in 0 .. arg'[0] - 1 : stage'[j] = 6
    <3> SUFFICES ASSUME NEW j \in 0 .. arg'[0] - 1 PROVE stage'[j] = 6
      OBVIOUS
    <3>1. CASE j = a
      BY <3>1, <1>1, <2>2, <2>3, <2>4
    <3>2. CASE j # a
      <4>1. j \in 0 .. a - 1 /\ j \in Iterations
        BY <3>2, <1>1, <2>2, <2>4 DEF Iterations
      <4>2. QED
        BY <3>2, <4>1, <1>4, <2>3
    <3>3. QED
      BY <3>1, <3>2
  <2>10. \A j \in Iterations : j > arg'[0] => stage'[j] = 0
    BY <1>1, <1>4, <2>2, <2>3, <2>4 DEF Iterations
  <2>11. arg'[0] < MaxIterations => stage'[arg'[0]] \in {0, 2, 4}
    <3>1. CASE stage[a] = 5
      <4>1. arg'[0] < MaxIterations => a + 1 \in Iterations \ {a}
        BY <3>1, <1>1, <2>4 DEF Iterations
      <4>2. QED
        BY <3>1, <4>1, <1>1, <1>4, <2>3, <2>4
    <3>2. CASE stage[a] # 5
      BY <3>2, <2>2, <2>3, <2>4
    <3>3. QED
      BY <3>1, <3>2
  <2>12. Alone'
    BY <1>1, <2>1, <2>2, <2>4, <2>9, <2>10, <2>11 DEF Alone
  <2>13. QED
    BY <2>5, <2>7, <2>8, <2>12
<1>7. CASE LoopThrow
  <2>1. /\ pc[0] = "loopcall" /\ failed' = failed \cup {a} /\ saved' = "user"
        /\ pc'[0] = "unwind" /\ UNCHANGED <<arg, stage>>
    BY <1>1, <1>4, <1>7 DEF LoopThrow
  <2>2. Bounds'
    BY <1>1, <1>4, <2>1 DEF RInv, Bounds
  <2>3. Calls'
    <3>1. \A k \in Threads : ~Calling(k)'
      BY <1>1, <2>1 DEF Calling
    <3>2. QED
      BY <3>1, <1>1, <1>4, <2>1 DEF Calls
  <2>4. Failures'
    BY <1>1, <1>4, <2>1 DEF Failures
  <2>5. Alone'
    BY <1>1, <1>4, <2>1 DEF Alone
  <2>6. QED
    BY <2>2, <2>3, <2>4, <2>5
<1>8. CASE LoopEnd
  <2>1. /\ pc[0] # "loopcall" /\ pc'[0] = "idle" /\ UNCHANGED <<saved, arg, stage, failed>>
    BY <1>1, <1>4, <1>8 DEF LoopEnd
  <2>2. Bounds'
    BY <1>1, <2>1 DEF RInv, Bounds
  <2>3. Calls'
    <3>1. \A k \in Threads : ~Calling(k)'
      BY <1>1, <2>1 DEF Calling
    <3>2. QED
      BY <3>1, <1>1, <1>4, <2>1 DEF Calls
  <2>4. Failures'
    BY <1>1, <1>4, <2>1 DEF RInv, Failures, InOrder
  <2>5. Alone'
    BY <1>1, <1>4, <2>1 DEF Alone
  <2>6. QED
    BY <2>2, <2>3, <2>4, <2>5
<1>9. QED
  BY <1>5, <1>6, <1>7, <1>8 DEF Loop
-----------------------------------------------------------------------------
\* Every step preserves the ring.
LEMMA RingStep == ASSUME MayRaise = FALSE, RInv, [Next]_vars PROVE RInv'
<1>1. IInv' /\ NothingPending'
  BY StepInv, PendingStep DEF RInv
<1>2. CASE Loop
  BY <1>1, <1>2, LoopRest DEF RInv
<1>3. ASSUME NEW i \in Threads, FetchTask(i) \/ FetchNone(i) \/ Outside(i) \/ Aborts(i) PROVE RInv'
  <2>1. CASE FetchTask(i) \/ FetchNone(i) \/ Aborts(i)
    BY <2>1, <1>1, FetchTaskRest, FetchNoneRest, AbortsRest DEF RInv
  <2>2. CASE Outside(i)
    BY <2>2, <1>1, TurnAwayRest, ExecuteRest, ExecuteCancelledRest, ReturnRest, ThrowRest,
       SetIterationsRest DEF RInv, Outside
  <2>3. QED
    BY <1>3, <2>1, <2>2
<1>4. CASE UNCHANGED vars
  <2>1. UNCHANGED <<n_tasks, n_threads, n_iterations, state, n_iter, assigned_tasks,
                    next_to_start, next_to_order, next_to_finish, istart, iorder, ifinish,
                    ordering_thread_index, saved, pc, arg, thrown, stage, failed, limit>>
    BY <1>4 DEF vars, shape, taskVars, queues
  <2>2. \A k \in Threads : /\ Holds(k)' <=> Holds(k)
                           /\ Number(k)' = Number(k) /\ StateOf(k)' = StateOf(k)
                           /\ Calling(k)' <=> Calling(k)
    BY <2>1 DEF Holds, Number, StateOf, Calling
  <2>3. Bounds' /\ Complete' /\ Held' /\ Calls' /\ Failures' /\ Alone'
    BY <2>1, <2>2 DEF RInv, Bounds, Tasks, Complete, InOrder, Held, Calls, Failures, Alone
  <2>4. Ring'
    BY <2>1, <2>2 DEF RInv, Ring, InOrder, RingOf, RingCursors, RingTasks, Untouched,
       Finished, BusyIsHeld, InPlace, Tasks
  <2>5. QED
    BY <1>1, <2>3, <2>4 DEF RInv
<1>5. QED
  BY <1>2, <1>3, <1>4, StepKinds

\* The ring is in order until somebody aborts, and after that the held contexts are.
THEOREM RingInvariance == ASSUME MayRaise = FALSE PROVE Spec => []RInv
<1>1. RInv /\ [Next]_vars => RInv'
  BY RingStep
<1>2. QED
  BY <1>1, RingInit, PTL DEF Spec

\* The type invariant: no cursor passes the largest number of iterations ever asked for.
THEOREM TypeCorrectness == ASSUME MayRaise = FALSE PROVE Spec => []TypeOK
<1>1. RInv => TypeOK
  BY MaxIterationsAssumption, MaxThreadsAssumption
     DEF RInv, IInv, Types, Bounds, TypeOK, Tasks, States, Labels
<1>2. QED
  BY <1>1, RingInvariance, PTL
-----------------------------------------------------------------------------
\* OrderedLoop!result, in a name of its own.
Result ==
  IF \E i \in Threads : pc[i] # "idle" THEN "none"
  ELSE IF saved = "none" THEN "done" ELSE "threw"

\* A step that no reader of the stages sees.
LEMMA Stutters ==
  ASSUME UNCHANGED <<n_iterations, limit, stage, failed>>, Result' = Result
  PROVE  UNCHANGED OrderedLoop!vars
BY DEF OrderedLoop!vars, Result

LEMMA NotOver ==
  ASSUME NEW i \in Threads, NEW k \in Threads, pc[i] # "idle", pc'[k] # "idle"
  PROVE  Result = "none" /\ Result' = "none"
BY DEF Result

LEMMA LoopStarts == Init => OrderedLoop!Init
<1> SUFFICES ASSUME Init PROVE OrderedLoop!Init
  OBVIOUS
<1>1. /\ n_iterations \in 1 .. MaxIterations /\ limit = n_iterations
      /\ stage = [j \in Iterations |-> 0] /\ failed = {}
      /\ pc = [i \in Threads |->
                 IF n_threads > 1 THEN "fetch" ELSE IF i = 0 THEN "loop" ELSE "idle"]
  BY Zenon DEF Init
<1>2. 0 \in Threads
  BY MaxThreadsAssumption DEF Threads
<1>3. pc[0] # "idle"
  BY <1>1, <1>2
<1>4. Result = "none"
  BY <1>2, <1>3 DEF Result
<1>5. QED
  BY <1>1, <1>4 DEF OrderedLoop!Init, OrderedLoop!Iterations, Iterations, Result

LEMMA CallRefined ==
  ASSUME NEW j \in Iterations, Result = "none", Result' = "none", j < limit,
         stage[j] \in {0, 2, 4},
         stage[j] = 2 => \A k \in 0 .. j - 1 : stage[k] >= 4,
         stage' = [stage EXCEPT ![j] = stage[j] + 1],
         UNCHANGED <<n_iterations, limit, failed>>
  PROVE  OrderedLoop!Next
<1>1. OrderedLoop!Call(j)
  BY DEF OrderedLoop!Call, Result
<1>2. QED
  BY <1>1 DEF OrderedLoop!Next, OrderedLoop!Iterations, Iterations

LEMMA ReturnRefined ==
  ASSUME NEW j \in Iterations, Result' = Result, stage[j] \in {1, 3, 5}, j \notin failed,
         stage' = [stage EXCEPT ![j] = stage[j] + 1],
         UNCHANGED <<n_iterations, limit, failed>>
  PROVE  OrderedLoop!Next
<1>1. OrderedLoop!Return(j)
  BY DEF OrderedLoop!Return, OrderedLoop!Running, Result
<1>2. QED
  BY <1>1 DEF OrderedLoop!Next, OrderedLoop!Iterations, Iterations

LEMMA ThrowRefined ==
  ASSUME NEW j \in Iterations, Result' = Result, stage[j] \in {1, 3, 5}, j \notin failed,
         failed' = failed \cup {j},
         UNCHANGED <<n_iterations, limit, stage>>
  PROVE  OrderedLoop!Next
<1>1. OrderedLoop!Throw(j)
  BY DEF OrderedLoop!Throw, OrderedLoop!Running, Result
<1>2. QED
  BY <1>1 DEF OrderedLoop!Next, OrderedLoop!Iterations, Iterations

\* The last thread leaves: no function runs, and if none threw then all iterations are done.
LEMMA EndRefined ==
  ASSUME RInv', NEW i \in Threads, pc[i] # "idle", \A k \in Threads : pc'[k] = "idle",
         failed = {} => \A j \in 0 .. n_iterations - 1 : stage[j] = 6,
         UNCHANGED <<n_iterations, limit, stage, failed>>
  PROVE  OrderedLoop!Next
<1>1. Result = "none" /\ Result' = IF saved' = "none" THEN "done" ELSE "threw"
  BY DEF Result
<1>2. \A j \in Iterations : ~(stage[j] \in {1, 3, 5} /\ j \notin failed)
  BY DEF RInv, Calls, Calling
<1>3. failed = {} <=> saved' = "none"
  BY DEF RInv, Failures
<1>4. OrderedLoop!End
  BY <1>1, <1>2, <1>3
     DEF OrderedLoop!End, OrderedLoop!Running, OrderedLoop!Iterations, Iterations, Result
<1>5. QED
  BY <1>4 DEF OrderedLoop!Next

LEMMA RangeIn == ASSUME NEW a \in Nat, NEW b \in Nat, a <= b PROVE 0 .. a - 1 \subseteq 0 .. b - 1
OBVIOUS

\* A thread leaves the scheduler's loop.
LEMMA LeaveRefined ==
  ASSUME RInv', NEW i \in Threads, pc[i] # "idle", n_threads' > 1,
         UNCHANGED <<n_iterations, limit, stage, failed>>
  PROVE  OrderedLoop!Next \/ UNCHANGED OrderedLoop!vars
<1>1. CASE \E k \in Threads : pc'[k] # "idle"
  BY <1>1, NotOver, Stutters
<1>2. CASE \A k \in Threads : pc'[k] = "idle"
  <2>1. failed = {} => \A j \in 0 .. n_iterations - 1 : stage[j] = 6
    <3> SUFFICES ASSUME failed = {}, NEW j \in 0 .. n_iterations - 1 PROVE stage[j] = 6
      OBVIOUS
    <3>1. InOrder'
      BY DEF RInv, Failures
    <3>2. next_to_finish' >= n_iterations' /\ next_to_finish' \in Nat /\ n_iterations' \in Nat
      <4>1. n_threads' \in Nat /\ n_threads' <= MaxThreads
        BY DEF RInv, Bounds, IInv, Types
      <4>2. 0 .. n_threads' - 1 \subseteq Threads
        BY <4>1, MaxThreadsAssumption, RangeIn DEF Threads
      <4>3. QED
        BY <1>2, <3>1, <4>2 DEF RInv, Complete, IInv, Types
    <3>3. \A k \in Threads : ~Holds(k)'
      BY <1>2 DEF Holds
    <3>4. j \in 0 .. next_to_finish' - 1
      <4>1. n_iterations' = n_iterations
        OBVIOUS
      <4>2. 0 .. n_iterations' - 1 \subseteq 0 .. next_to_finish' - 1
        BY <3>2, RangeIn
      <4>3. QED
        BY <4>1, <4>2
    <3>5. Finished(state, Threads)'
      BY <3>1 DEF RInv, Ring, RingOf
    <3>6. QED
      BY <3>3, <3>4, <3>5 DEF Finished
  <2>2. QED
    BY <1>2, <2>1, EndRefined
<1>3. QED
  BY <1>1, <1>2

\* When all threads have left, no function runs; if none threw then all iterations are done.
LEMMA AllLeft ==
  ASSUME RInv, n_threads > 1, \A k \in Threads : pc[k] = "idle"
  PROVE  /\ \A j \in Iterations : ~(stage[j] \in {1, 3, 5} /\ j \notin failed)
         /\ failed = {} <=> saved = "none"
         /\ failed = {} => \A j \in 0 .. n_iterations - 1 : stage[j] = 6
<1>1. \A j \in Iterations : ~(stage[j] \in {1, 3, 5} /\ j \notin failed)
  BY DEF RInv, Calls, Calling
<1>2. failed = {} <=> saved = "none"
  BY DEF RInv, Failures
<1>3. ASSUME failed = {}, NEW j \in 0 .. n_iterations - 1 PROVE stage[j] = 6
  <2>1. InOrder
    BY <1>3 DEF RInv, Failures
  <2>2. next_to_finish >= n_iterations /\ next_to_finish \in Nat /\ n_iterations \in Nat
    <3>1. n_threads \in Nat /\ n_threads <= MaxThreads
      BY DEF RInv, Bounds, IInv, Types
    <3>2. 0 .. n_threads - 1 \subseteq Threads
      BY <3>1, MaxThreadsAssumption, RangeIn DEF Threads
    <3>3. QED
      BY <2>1, <3>2 DEF RInv, Complete, IInv, Types
  <2>3. \A k \in Threads : ~Holds(k)
    BY DEF Holds
  <2>4. j \in 0 .. next_to_finish - 1
    BY <1>3, <2>2, RangeIn
  <2>5. Finished(state, Threads)
    BY <2>1 DEF RInv, Ring, RingOf
  <2>6. QED
    BY <2>3, <2>4, <2>5 DEF Finished
<1>4. QED
  BY <1>1, <1>2, <1>3

LEMMA OutsideRefined ==
  ASSUME NEW i \in Threads, RInv, RInv', Outside(i)
  PROVE  OrderedLoop!Next \/ UNCHANGED OrderedLoop!vars
<1>1. CASE TurnAway(i)
  <2>1. n_threads' > 1
    BY <1>1 DEF TurnAway, shape, RInv, Alone, IInv, Types
  <2>2. QED
    BY <1>1, <2>1, LeaveRefined DEF TurnAway
<1>2. CASE Execute(i)
  <2>1. pc[i] # "idle" /\ pc'[i] # "idle"
    BY <1>2 DEF Execute, RInv, IInv, Types
  <2>2. Result = "none" /\ Result' = "none"
    BY <2>1, NotOver
  <2>3. /\ Holds(i) /\ Number(i) \in Iterations /\ Number(i) \in 0 .. limit - 1
        /\ StateOf(i) \in Busy /\ stage[Number(i)] = StateOf(i) - 1
        /\ stage' = [stage EXCEPT ![Number(i)] = stage[Number(i)] + 1]
    BY <1>2, ExecuteEffect
  <2>4. stage[Number(i)] \in {0, 2, 4} /\ Number(i) < limit
    BY <2>3 DEF Busy, STARTING, ORDERING, FINISHING, RInv, Held
  <2>5. stage[Number(i)] = 2 => \A k \in 0 .. Number(i) - 1 : stage[k] >= 4
    <3>1. StateOf(i) # CANCELLED /\ (stage[Number(i)] = 2 => StateOf(i) = ORDERING)
      BY <2>3 DEF Busy, STARTING, ORDERING, FINISHING, CANCELLED
    <3>2. QED
      BY <1>2, <2>3, <3>1 DEF RInv, Held, Execute
  <2>6. QED
    BY <1>2, <2>2, <2>3, <2>4, <2>5, CallRefined DEF Execute
<1>3. CASE Return(i)
  <2>1. pc[i] # "idle" /\ pc'[i] # "idle" /\ pc[i] = "call"
    BY <1>3 DEF Return, RInv, IInv, Types
  <2>2. QED
    BY <1>3, <2>1, NotOver, CallEffect, ReturnRefined DEF Return
<1>4. CASE Throw(i)
  <2>1. pc[i] # "idle" /\ pc'[i] # "idle" /\ pc[i] = "call"
    BY <1>4 DEF Throw, RInv, IInv, Types
  <2>2. QED
    BY <1>4, <2>1, NotOver, CallEffect, ThrowRefined DEF Throw
<1>5. CASE ExecuteCancelled(i)
  <2>1. pc[i] # "idle" /\ pc'[i] # "idle"
    BY <1>5 DEF ExecuteCancelled, RInv, IInv, Types
  <2>2. QED
    BY <1>5, <2>1, NotOver, Stutters DEF ExecuteCancelled
<1>6. ASSUME NEW n \in Resizes, SetIterations(i, n) PROVE OrderedLoop!Next
  <2>1. pc[i] # "idle" /\ pc' = pc
    BY <1>6 DEF SetIterations
  <2>2. Result = "none" /\ Result' = "none"
    BY <2>1, NotOver
  <2>3. n \in 0 .. MaxIterations
    BY ResizesAssumption
  <2>4. OrderedLoop!Resize(n)
    BY <1>6, <2>2 DEF SetIterations, OrderedLoop!Resize, Result
  <2>5. QED
    BY <2>3, <2>4 DEF OrderedLoop!Next
<1>7. QED
  BY <1>1, <1>2, <1>3, <1>4, <1>5, <1>6 DEF Outside

LEMMA LoopRefined ==
  ASSUME RInv, RInv', Loop
  PROVE  OrderedLoop!Next \/ UNCHANGED OrderedLoop!vars
<1> DEFINE a == arg[0]
<1>1. /\ n_threads <= 1 /\ 0 \in Threads /\ a \in Nat
      /\ limit \in Nat /\ n_iterations \in Nat /\ n_iterations <= limit
      /\ limit <= MaxIterations /\ MaxIterations \in Nat
      /\ \A k \in Threads \ {0} : pc'[k] = "idle"
      /\ pc[0] = "loopcall" => /\ a < limit /\ a \in Iterations
                               /\ stage[a] \in {1, 3, 5} /\ failed = {}
      /\ UNCHANGED <<n_iterations, limit>>
  BY LoopAlone
<1>2. /\ \A j \in 0 .. a - 1 : stage[j] = 6
      /\ pc[0] = "loop" => failed = {} /\ (a < MaxIterations => stage[a] \in {0, 2, 4})
      /\ pc[0] = "unwind" => failed # {}
  BY <1>1 DEF RInv, Alone, Failures
<1>3. pc \in [Threads -> Labels]
  BY DEF RInv, IInv, Types
<1>4. CASE LoopCall
  <2>1. /\ pc[0] = "loop" /\ a < n_iterations /\ stage' = [stage EXCEPT ![a] = stage[a] + 1]
        /\ pc'[0] # "idle" /\ UNCHANGED failed
    BY <1>1, <1>3, <1>4 DEF LoopCall
  <2>2. a \in Iterations /\ a < limit /\ stage[a] \in {0, 2, 4}
    BY <1>1, <1>2, <2>1 DEF Iterations
  <2>3. Result = "none" /\ Result' = "none"
    BY <1>1, <2>1, NotOver
  <2>4. \A k \in 0 .. a - 1 : stage[k] >= 4
    BY <1>2
  <2>5. QED
    BY <1>1, <2>1, <2>2, <2>3, <2>4, CallRefined
<1>5. CASE LoopReturn
  <2>1. /\ pc[0] = "loopcall" /\ stage' = [stage EXCEPT ![a] = stage[a] + 1]
        /\ pc'[0] # "idle" /\ UNCHANGED failed
    BY <1>1, <1>3, <1>5 DEF LoopReturn
  <2>2. Result' = Result
    BY <1>1, <2>1, NotOver
  <2>3. QED
    BY <1>1, <2>1, <2>2, ReturnRefined
<1>6. CASE LoopThrow
  <2>1. /\ pc[0] = "loopcall" /\ failed' = failed \cup {a} /\ pc'[0] # "idle" /\ UNCHANGED stage
    BY <1>1, <1>3, <1>6 DEF LoopThrow
  <2>2. Result' = Result
    BY <1>1, <2>1, NotOver
  <2>3. QED
    BY <1>1, <2>1, <2>2, ThrowRefined
<1>7. CASE LoopEnd
  <2>1. /\ pc[0] = "unwind" \/ (pc[0] = "loop" /\ a >= n_iterations)
        /\ pc'[0] = "idle" /\ UNCHANGED <<stage, failed>>
    BY <1>1, <1>3, <1>7 DEF LoopEnd
  <2>2. \A k \in Threads : pc'[k] = "idle"
    BY <1>1, <2>1
  <2>3. failed = {} => \A j \in 0 .. n_iterations - 1 : stage[j] = 6
    BY <1>1, <1>2, <2>1
  <2>4. pc[0] # "idle"
    BY <2>1
  <2>5. QED
    BY <1>1, <2>1, <2>2, <2>3, <2>4, EndRefined
<1>8. QED
  BY <1>4, <1>5, <1>6, <1>7 DEF Loop

LEMMA StepRefined ==
  ASSUME RInv, RInv', [Next]_vars
  PROVE  [OrderedLoop!Next]_(OrderedLoop!vars)
<1>1. CASE Loop
  BY <1>1, LoopRefined
<1>2. ASSUME NEW i \in Threads, FetchTask(i)
      PROVE  UNCHANGED OrderedLoop!vars
  <2>1. pc[i] # "idle" /\ pc'[i] # "idle" /\ UNCHANGED <<n_iterations, limit, stage, failed>>
    BY <1>2, FetchTaskAssigns DEF Fetching, Assign, RInv, IInv, Types
  <2>2. QED
    BY <2>1, NotOver, Stutters
<1>3. ASSUME NEW i \in Threads, FetchNone(i)
      PROVE  OrderedLoop!Next \/ UNCHANGED OrderedLoop!vars
  <2>1. /\ Fetching(i) /\ pc[i] # "idle"
        /\ UNCHANGED <<n_threads, n_iterations, limit, stage, failed>>
    BY <1>3 DEF FetchNone, FetchWait, FetchNothing, Fetching, shape
  <2>2. n_threads' > 1
    BY <2>1, FetchingInRing
  <2>3. QED
    BY <2>1, <2>2, LeaveRefined
<1>4. ASSUME NEW i \in Threads, Aborts(i) PROVE UNCHANGED OrderedLoop!vars
  <2>1. pc[i] # "idle" /\ pc'[i] # "idle" /\ UNCHANGED <<n_iterations, limit, stage, failed>>
    BY <1>4 DEF Aborts, Catch, AbortAgain, RInv, IInv, Types
  <2>2. QED
    BY <2>1, NotOver, Stutters
<1>5. CASE UNCHANGED vars
  BY <1>5, Stutters DEF vars, Result
<1>6. QED
  BY <1>1, <1>2, <1>3, <1>4, <1>5, OutsideRefined, StepKinds

\* Every iteration runs its three functions once and in this order, `ordered` one iteration
\* after the other; the loop returns when all is done, or throws when a function has thrown
\* and no other is running.
THEOREM Refinement == ASSUME MayRaise = FALSE PROVE Spec => ImplementsOrderedLoop
<1>1. RInv /\ RInv' /\ [Next]_vars => [OrderedLoop!Next]_(OrderedLoop!vars)
  BY StepRefined
<1>2. QED
  BY <1>1, LoopStarts, RingInvariance, PTL DEF Spec, ImplementsOrderedLoop, OrderedLoop!Spec
==============================================================================
