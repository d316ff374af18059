------------------------------ MODULE TeamProofs ------------------------------
(***************************************************************************)
(* Proofs about ThreadTeam, for any number of threads, rows and            *)
(* constructs.                                                             *)
(*                                                                         *)
(* Three invariants carry them.  TypeInv says where a thread may be.       *)
(* Rounds says that the barrier_counter is exactly the number of threads   *)
(* that have come to a barrier: all of them k times, and Arrived(k) once   *)
(* more.  Rows says what the rows of every loop have been through: a row   *)
(* of a static loop is executed when its owner passes, and of a dynamic    *)
(* loop the first m rows have been handed out, each to one thread.         *)
(***************************************************************************)
EXTENDS ThreadTeam, TLAPS, FiniteSetTheorems, SequenceTheorems

Kinds == {"barrier", "dynamic", "static"}
\* A thread with pc in here asks the scheduler for iterations, or executes one.
InScheduler == {"next", "call", "catch", "abort"}

\* What is known of the function of the region, and stays so.
Scripted ==
  /\ Len(script) \in Nat /\ DOMAIN script = 1 .. Len(script)
  /\ \A c \in DOMAIN script :
       /\ script[c].kind \in Kinds /\ script[c].rows \in Nat /\ script[c].chunk \in Nat \ {0}
       /\ script[c].kind = "barrier" => script[c].rows = 0
  /\ entry \in {"region", "dynamic", "static"}
  /\ entry # "region" => Len(script) = 1 /\ script[1].kind = entry

\* A scheduler has been made for the rows.
Started == nested_scheduler \/ entry = "dynamic"

\* What a thread does fits in with the construct that it is in.
Where ==
  /\ \A i \in AllThreads :
       /\ i \notin Threads => pc[i] = "done"
       /\ pc[i] \in InScheduler \cup {"create"} =>
            at[i] \in DOMAIN script /\ script[at[i]].kind = "dynamic"
       /\ pc[i] \in InScheduler => Started
       /\ pc[i] \in {"catch", "abort"} => entry = "dynamic"
       /\ pc[i] = "barrier" => at[i] \in DOMAIN script /\ script[at[i]].kind = "barrier"
       /\ entry = "dynamic" => at[i] = 1 /\ pc[i] \in InScheduler \cup {"done"}
       /\ pc[i] = "done" /\ i \in Threads => at[i] = Len(script)
  /\ aborted => entry = "dynamic"
  /\ ~Started => iteration_index = 0 /\ num_iterations = 0

TypeInv == Scripted /\ TypeOK /\ Where
-----------------------------------------------------------------------------
LEMMA ConstructsAreFine ==
  ASSUME TeamAssumption, NEW x \in Constructs
  PROVE  /\ x.kind \in Kinds /\ x.rows \in Nat /\ x.chunk \in Nat \ {0}
         /\ x.kind = "barrier" => x.rows = 0
BY DEF TeamAssumption, Constructs, Barrier, Dynamic, Static, Kinds

LEMMA InitFacts ==
  ASSUME TeamAssumption, Init
  PROVE  /\ Scripted
         /\ nthreads \in 1 .. PoolSize /\ nthreads_in \in 0 .. PoolSize + 1
         /\ entry = "dynamic" =>
              /\ num_iterations = script[1].rows
              /\ pc = [i \in AllThreads |-> IF i \in Threads THEN "next" ELSE "done"]
              /\ at = [i \in AllThreads |-> 1]
         /\ entry # "dynamic" =>
              /\ num_iterations = 0
              /\ pc = [i \in AllThreads |-> IF i \in Threads THEN "between" ELSE "done"]
              /\ at = [i \in AllThreads |-> 0]
<1>1. CASE InitRegion
  <2>1. PICK n \in 0 .. MaxLength : script \in [1 .. n -> Constructs]
    BY <1>1 DEF InitRegion, Scripts
  <2>2. n \in Nat
    BY DEF TeamAssumption
  <2>3. Len(script) = n /\ DOMAIN script = 1 .. n /\ \A c \in 1 .. n : script[c] \in Constructs
    BY <2>1, <2>2
  <2>4. Scripted
    BY <1>1, <2>2, <2>3, ConstructsAreFine DEF InitRegion, Scripted
  <2>5. QED
    BY <1>1, <2>4 DEF InitRegion, StartAt, TeamAssumption
<1>2. CASE InitDynamic
  <2>1. PICK n \in DynamicRows : script = <<Dynamic(n)>>
    BY <1>2 DEF InitDynamic
  <2>2. Len(script) = 1 /\ DOMAIN script = 1 .. 1 /\ script[1] = Dynamic(n)
    BY <2>1
  <2>3. Dynamic(n) \in Constructs /\ Dynamic(n).kind = "dynamic"
    BY DEF Constructs, Dynamic
  <2>4. Scripted
    BY <1>2, <2>2, <2>3, ConstructsAreFine DEF InitDynamic, Scripted
  <2>5. nthreads \in 1 .. PoolSize
    BY <1>2 DEF InitDynamic, Least, TeamAssumption
  <2>6. QED
    BY <1>2, <2>4, <2>5 DEF InitDynamic, StartAt
<1>3. CASE InitStatic
  <2>1. PICK n \in StaticRows, c \in Chunks : script = <<Static(n, c)>>
    BY <1>3 DEF InitStatic
  <2>2. Len(script) = 1 /\ DOMAIN script = 1 .. 1 /\ script[1] = Static(n, c)
    BY <2>1
  <2>3. Static(n, c) \in Constructs /\ Static(n, c).kind = "static"
    BY DEF Constructs, Static
  <2>4. Scripted
    BY <1>3, <2>2, <2>3, ConstructsAreFine DEF InitStatic, Scripted
  <2>5. nthreads \in 1 .. PoolSize
    <3>1. n \in Nat /\ c \in Nat \ {0} /\ PoolSize \in Nat \ {0} /\ nthreads_in \in Nat
      BY <1>3 DEF InitStatic, TeamAssumption
    <3>2. n \div c \in Nat
      BY <3>1
    <3>3. ChunksWanted(script[1], nthreads_in) \in Nat
      BY <2>2, <3>1, <3>2 DEF ChunksWanted, Least, Static
    <3>4. QED
      BY <1>3, <3>1, <3>3 DEF InitStatic, Least
  <2>6. QED
    BY <1>3, <2>4, <2>5 DEF InitStatic, StartAt
<1>4. QED
  BY <1>1, <1>2, <1>3 DEF Init

LEMMA TypeInit == ASSUME TeamAssumption, Init PROVE TypeInv
<1>1. Scripted
  BY InitFacts
<1>2. /\ barrier_counter = 0 /\ nested_scheduler = FALSE /\ iteration_index = 0
      /\ iter = [i \in AllThreads |-> 0] /\ n_target = [i \in AllThreads |-> 0]
      /\ aborted = FALSE
  BY DEF Init
<1>3. /\ num_iterations \in Nat
      /\ at \in [AllThreads -> 0 .. Len(script)]
      /\ pc \in [AllThreads -> {"between", "next", "done"}]
      /\ \A i \in AllThreads : /\ i \notin Threads => pc[i] = "done"
                               /\ pc[i] = "next" => at[i] = 1 /\ entry = "dynamic"
                               /\ entry = "dynamic" => at[i] = 1 /\ pc[i] \in {"next", "done"}
      /\ entry # "dynamic" => num_iterations = 0
  <2>1. CASE entry = "dynamic"
    <3>1. script[1].rows \in Nat /\ 1 \in 0 .. Len(script)
      BY <1>1, <2>1 DEF Scripted
    <3>2. QED
      BY <2>1, <3>1, InitFacts
  <2>2. CASE entry # "dynamic"
    <3>1. 0 \in 0 .. Len(script)
      BY <1>1 DEF Scripted
    <3>2. QED
      BY <2>2, <3>1, InitFacts
  <2>3. QED
    BY <2>1, <2>2
<1>4. TypeOK
  BY <1>2, <1>3, InitFacts DEF TypeOK
<1>5. Where
  <2>1. entry = "dynamic" => 1 \in DOMAIN script /\ script[1].kind = "dynamic"
    BY <1>1 DEF Scripted
  <2>2. Threads \subseteq AllThreads /\ \A i \in Threads : pc[i] # "done"
    BY <1>2, InitFacts DEF Threads, AllThreads, TeamAssumption
  <2>3. QED
    BY <1>2, <1>3, <2>1, <2>2 DEF Where, Started, InScheduler
<1>6. QED
  BY <1>1, <1>4, <1>5 DEF TypeInv

LEMMA TypeStep == ASSUME TeamAssumption, TypeInv, [Next]_vars PROVE TypeInv'
<1> USE DEF TypeInv
<1>1. CASE UNCHANGED vars
  BY <1>1 DEF vars, team, sched, Scripted, TypeOK, Where, AllThreads, Threads, Started
<1>2. ASSUME NEW i \in AllThreads, Step(i) PROVE TypeInv'
  <2>1. /\ UNCHANGED <<entry, script, nthreads_in, nthreads>>
        /\ Threads' = Threads
    BY <1>2 DEF Step, Leave, ArriveAtBarrier, PassBarrier, StaticLoop, LookUpScheduler,
       CreateScheduler, FetchIteration, FetchNothing, CallIteration, Throw, Catch, AbortAgain,
       ThrowInRegion, team, Threads
  <2>2. Scripted'
    BY <2>1 DEF Scripted
  <2>3. i \in Threads
    BY <1>2 DEF Where, Step, Leave, ArriveAtBarrier, PassBarrier, StaticLoop, LookUpScheduler,
       CreateScheduler, FetchIteration, FetchNothing, CallIteration, Throw, Catch, AbortAgain,
       ThrowInRegion, Enter
  <2> USE DEF Goto
  <2>4. CASE Leave(i) \/ PassBarrier(i)
    <3>1. /\ pc[i] \in {"between", "barrier"}
          /\ \/ pc' = [pc EXCEPT ![i] = "done"] /\ at[i] = Len(script)
             \/ pc' = [pc EXCEPT ![i] = "between"]
          /\ UNCHANGED <<barrier_counter, nested_scheduler, num_iterations, iteration_index, iter,
                         at, n_target, aborted>>
      BY <2>4 DEF Leave, PassBarrier, sched
    <3>2. TypeOK'
      BY <2>1, <3>1 DEF TypeOK
    <3>3. entry # "dynamic"
      BY <3>1 DEF Where, InScheduler
    <3>4. Where'
      BY <2>1, <2>3, <3>1, <3>3 DEF TypeOK, Where, Started, InScheduler
    <3>5. QED
      BY <2>2, <3>2, <3>4
  <2>5. CASE ArriveAtBarrier(i)
    <3>1. Target(barrier_counter) \in Nat
      BY DEF Target, TypeOK, TeamAssumption
    <3>2. at[i] + 1 \in DOMAIN script
      BY <2>5 DEF ArriveAtBarrier, Enter, Scripted, TypeOK
    <3>3. TypeOK'
      BY <2>1, <2>5, <3>1, <3>2 DEF ArriveAtBarrier, Enter, TypeOK, Scripted, sched
    <3>4. Where'
      BY <2>1, <2>3, <2>5, <3>2
         DEF ArriveAtBarrier, Enter, TypeOK, Where, Scripted, Started, sched, InScheduler
    <3>5. QED
      BY <2>2, <3>3, <3>4
  <2>6. CASE StaticLoop(i)
    <3>1. at[i] + 1 \in DOMAIN script
      BY <2>6 DEF StaticLoop, Enter, Scripted, TypeOK
    <3>2. TypeOK'
      BY <2>1, <2>6, <3>1 DEF StaticLoop, Enter, TypeOK, Scripted, sched
    <3>3. Where'
      BY <2>1, <2>3, <2>6, <3>1
         DEF StaticLoop, Enter, TypeOK, Where, Scripted, Started, sched, InScheduler
    <3>4. QED
      BY <2>2, <3>2, <3>3
  <2>7. CASE LookUpScheduler(i)
    <3>1. at[i] + 1 \in DOMAIN script
      BY <2>7 DEF LookUpScheduler, Enter, Scripted, TypeOK
    <3>2. TypeOK'
      BY <2>1, <2>7, <3>1 DEF LookUpScheduler, Enter, TypeOK, Scripted, sched
    <3>3. Where'
      BY <2>1, <2>3, <2>7, <3>1
         DEF LookUpScheduler, Enter, TypeOK, Where, Scripted, Started, sched, InScheduler
    <3>4. QED
      BY <2>2, <3>2, <3>3
  <2>8. CASE CreateScheduler(i)
    <3>1. pc[i] = "create" /\ script[at[i]].rows \in Nat /\ entry # "dynamic"
      BY <2>8 DEF CreateScheduler, Where, Scripted, InScheduler
    <3>2. TypeOK'
      <4>1. nested_scheduler' \in BOOLEAN /\ num_iterations' \in Nat /\ iteration_index' \in Nat
        <5>1. CASE nested_scheduler
          BY <2>8, <5>1 DEF CreateScheduler, CreateOnce, TypeOK
        <5>2. CASE ~nested_scheduler
          BY <2>8, <3>1, <5>2 DEF CreateScheduler, CreateOnce, MakeScheduler, TypeOK
        <5>3. QED
          BY <5>1, <5>2
      <4>2. \A k \in AllThreads : pc'[k] = "call" => iter[k] < num_iterations'
        <5>1. CASE nested_scheduler
          BY <2>8, <5>1 DEF CreateScheduler, CreateOnce, TypeOK
        <5>2. CASE ~nested_scheduler
          BY <2>8, <3>1, <5>2 DEF CreateScheduler, TypeOK, Where, Started, InScheduler
        <5>3. QED
          BY <5>1, <5>2
      <4>3. QED
        BY <2>1, <2>8, <4>1, <4>2 DEF CreateScheduler, TypeOK
    <3>3. Where'
      BY <2>1, <2>3, <2>8, <3>1 DEF CreateScheduler, CreateOnce, MakeScheduler, TypeOK, Where,
         Started, InScheduler
    <3>4. QED
      BY <2>2, <3>2, <3>3
  <2>9. CASE FetchIteration(i) \/ FetchNothing(i)
    <3>1. pc[i] = "next" /\ Started
      BY <2>9 DEF FetchIteration, FetchNothing, Where, InScheduler
    <3>2. TypeOK'
      <4>1. CASE FetchIteration(i)
        BY <2>1, <4>1 DEF FetchIteration, HasIteration, TypeOK
      <4>2. CASE FetchNothing(i)
        BY <2>1, <4>2 DEF FetchNothing, TypeOK
      <4>3. QED
        BY <2>9, <4>1, <4>2
    <3>3. Where'
      <4>1. CASE FetchIteration(i)
        BY <2>1, <2>3, <4>1, <3>1 DEF FetchIteration, TypeOK, Where, Started, InScheduler
      <4>2. CASE FetchNothing(i)
        BY <2>1, <2>3, <4>2, <3>1
           DEF FetchNothing, TypeOK, Where, Started, InScheduler, Scripted
      <4>3. QED
        BY <2>9, <4>1, <4>2
    <3>4. QED
      BY <2>2, <3>2, <3>3
  <2>10. CASE CallIteration(i) \/ Throw(i)
    <3>1. TypeOK'
      BY <2>1, <2>10 DEF CallIteration, Throw, TypeOK, sched
    <3>2. Where'
      BY <2>1, <2>3, <2>10 DEF CallIteration, Throw, TypeOK, Where, Started, InScheduler, sched
    <3>3. QED
      BY <2>2, <3>1, <3>2
  <2>11. CASE Catch(i) \/ AbortAgain(i)
    <3>1. Started /\ entry = "dynamic"
      BY <2>11 DEF Catch, AbortAgain, Where, InScheduler
    <3>2. TypeOK'
      BY <2>1, <2>11 DEF Catch, AbortAgain, AbortExecution, TypeOK
    <3>3. Where'
      BY <2>1, <2>3, <2>11, <3>1
         DEF Catch, AbortAgain, AbortExecution, TypeOK, Where, Started, InScheduler
    <3>4. QED
      BY <2>2, <3>2, <3>3
  <2>12. CASE ThrowInRegion(i)
    <3>1. TypeOK'
      BY <2>1, <2>12 DEF ThrowInRegion, TypeOK, sched
    <3>2. Where'
      BY <2>1, <2>3, <2>12 DEF ThrowInRegion, TypeOK, Where, Started, InScheduler, sched
    <3>3. QED
      BY <2>2, <3>1, <3>2
  <2>13. QED
    BY <1>2, <2>4, <2>5, <2>6, <2>7, <2>8, <2>9, <2>10, <2>11, <2>12 DEF Step
<1>3. QED
  BY <1>1, <1>2 DEF Next

\* The type invariant holds, however many dynamic loops a region has.
THEOREM TypeCorrectness == ASSUME TeamAssumption PROVE Spec => []TypeOK
<1>1. Spec => []TypeInv
  BY TypeInit, TypeStep, PTL DEF Spec
<1>2. TypeInv => TypeOK
  BY DEF TypeInv
<1>3. QED
  BY <1>1, <1>2, PTL
-----------------------------------------------------------------------------
(***************************************************************************)
(* The barrier: the threads go through it in rounds.                       *)
(***************************************************************************)
\* How many barriers there are up to construct c of s.
Barriers(s, c) == Cardinality({d \in 1 .. c : s[d].kind = "barrier"})

\* In round k, these threads have come to the next barrier; they wait there for the others.
Arrived(k) == {i \in Threads : Barriers(script, at[i]) = k + 1}

Round(k) ==
  /\ barrier_counter = nthreads * k + Cardinality(Arrived(k))
  /\ Cardinality(Arrived(k)) < nthreads
  /\ \A i \in Threads :
       /\ Barriers(script, at[i]) \in {k, k + 1}
       /\ Barriers(script, at[i]) = k + 1 => pc[i] = "barrier"
       /\ pc[i] = "barrier" => n_target[i] = nthreads * Barriers(script, at[i])

Rounds == \E k \in Nat : Round(k)

LEMMA BarriersFinite ==
  ASSUME NEW c \in Nat
  PROVE  /\ IsFiniteSet({d \in 1 .. c : script[d].kind = "barrier"})
         /\ Barriers(script, c) \in Nat
<1>1. IsFiniteSet(1 .. c)
  BY FS_Interval
<1>2. IsFiniteSet({d \in 1 .. c : script[d].kind = "barrier"})
  BY <1>1, FS_Subset
<1>3. QED
  BY <1>2, FS_CardinalityType DEF Barriers

LEMMA BarriersNext ==
  ASSUME NEW c \in Nat
  PROVE  Barriers(script, c + 1) =
           Barriers(script, c) + IF script[c + 1].kind = "barrier" THEN 1 ELSE 0
<1> DEFINE B(b) == {d \in 1 .. b : script[d].kind = "barrier"}
<1>1. IsFiniteSet(B(c)) /\ Cardinality(B(c)) \in Nat
  BY BarriersFinite DEF Barriers
<1>2. CASE script[c + 1].kind = "barrier"
  <2>1. B(c + 1) = B(c) \cup {c + 1} /\ c + 1 \notin B(c)
    BY <1>2
  <2>2. Cardinality(B(c + 1)) = Cardinality(B(c)) + 1
    BY <1>1, <2>1, FS_AddElement
  <2>3. QED
    BY <1>2, <2>2 DEF Barriers
<1>3. CASE script[c + 1].kind # "barrier"
  <2>1. B(c + 1) = B(c)
    BY <1>3
  <2>2. Barriers(script, c) \in Nat /\ Barriers(script, c + 1) = Barriers(script, c)
    BY <1>1, <2>1 DEF Barriers
  <2>3. QED
    BY <1>3, <2>2
<1>4. QED
  BY <1>2, <1>3

LEMMA BarriersMonotone ==
  ASSUME NEW a \in Nat, NEW b \in Nat, a <= b
  PROVE  /\ Barriers(script, a) <= Barriers(script, b)
         /\ a < b /\ script[b].kind = "barrier" => Barriers(script, a) < Barriers(script, b)
<1>1. ASSUME NEW c \in Nat, a <= c PROVE Barriers(script, a) <= Barriers(script, c)
  <2>1. {d \in 1 .. a : script[d].kind = "barrier"}
          \subseteq {d \in 1 .. c : script[d].kind = "barrier"}
    BY <1>1
  <2>2. QED
    BY <2>1, BarriersFinite, FS_Subset DEF Barriers
<1>2. ASSUME a < b, script[b].kind = "barrier" PROVE Barriers(script, a) < Barriers(script, b)
  <2>1. b - 1 \in Nat /\ a <= b - 1 /\ (b - 1) + 1 = b
    BY <1>2
  <2>2. Barriers(script, b) = Barriers(script, b - 1) + 1
    BY <1>2, <2>1, BarriersNext
  <2>3. Barriers(script, a) <= Barriers(script, b - 1)
    BY <2>1, <1>1
  <2>4. Barriers(script, a) \in Nat /\ Barriers(script, b - 1) \in Nat
    BY <2>1, BarriersFinite
  <2>5. QED
    BY <2>2, <2>3, <2>4
<1>3. QED
  BY <1>1, <1>2

LEMMA ArrivedFinite ==
  ASSUME TeamAssumption, TypeInv, NEW k \in Nat
  PROVE  IsFiniteSet(Arrived(k)) /\ Cardinality(Arrived(k)) \in Nat
<1>1. IsFiniteSet(Threads)
  BY FS_Interval DEF Threads, TypeInv, TypeOK, TeamAssumption
<1>2. QED
  BY <1>1, FS_Subset, FS_CardinalityType DEF Arrived

LEMMA RemainderOf ==
  ASSUME NEW n \in Nat \ {0}, NEW k \in Nat, NEW a \in 0 .. n - 1
  PROVE  (n * k + a) % n = a
<1> DEFINE x == n * k + a
           q == x \div n
           b == x % n
<1>1. x \in Nat /\ n * k \in Nat
  OBVIOUS
<1>2. x = n * q + b /\ q \in Int /\ b \in 0 .. n - 1
  BY <1>1
<1> HIDE DEF q, b
<1>3. n * (q - k) = a - b
  BY <1>2
<1>4. CASE q - k >= 1
  <2>1. n * (q - k) >= n
    BY <1>2, <1>4
  <2>2. QED
    BY <1>2, <1>3, <2>1
<1>5. CASE q - k <= -1
  <2>1. n * (q - k) <= -n
    BY <1>2, <1>5
  <2>2. QED
    BY <1>2, <1>3, <2>1
<1>6. CASE q = k
  BY <1>2, <1>3, <1>6 DEF b
<1>7. QED
  BY <1>2, <1>4, <1>5, <1>6

LEMMA RoundsInit == ASSUME TeamAssumption, Init PROVE Rounds
<1>1. TypeInv
  BY TypeInit
<1>2. \A i \in Threads : Barriers(script, at[i]) = 0 /\ pc[i] # "barrier"
  <2>1. nthreads <= PoolSize /\ Threads \subseteq AllThreads
    BY <1>1 DEF TypeInv, TypeOK, Threads, AllThreads, TeamAssumption
  <2>2. CASE entry = "dynamic"
    <3>1. {d \in 1 .. 1 : script[d].kind = "barrier"} = {}
      BY <1>1, <2>2 DEF TypeInv, Scripted
    <3>2. QED
      BY <2>1, <2>2, <3>1, InitFacts, FS_EmptySet DEF Barriers
  <2>3. CASE entry # "dynamic"
    <3>1. {d \in 1 .. 0 : script[d].kind = "barrier"} = {}
      OBVIOUS
    <3>2. QED
      BY <2>1, <2>3, <3>1, InitFacts, FS_EmptySet DEF Barriers
  <2>4. QED
    BY <2>2, <2>3
<1>3. Arrived(0) = {}
  BY <1>2 DEF Arrived
<1>4. nthreads \in Nat \ {0} /\ Cardinality(Arrived(0)) = 0 /\ nthreads * 0 = 0
  <2>1. nthreads \in Nat \ {0}
    BY <1>1 DEF TypeInv, TypeOK, TeamAssumption
  <2>2. Cardinality(Arrived(0)) = 0
    BY <1>3, FS_EmptySet
  <2>3. QED
    BY <2>1, <2>2
<1>5. barrier_counter = nthreads * 0 + Cardinality(Arrived(0))
  BY <1>4 DEF Init
<1>6. Round(0)
  BY <1>2, <1>4, <1>5 DEF Round
<1>7. QED
  BY <1>6 DEF Rounds


\* A step of thread i that neither comes to a barrier nor stays at one.
LEMMA RoundKeeps ==
  ASSUME NEW k \in Nat, Round(k), NEW i \in Threads,
         UNCHANGED <<script, nthreads, barrier_counter, n_target>>,
         \A h \in Threads \ {i} : pc'[h] = pc[h] /\ at'[h] = at[h],
         Barriers(script, at[i]) = k, Barriers(script, at'[i]) = k, pc'[i] # "barrier"
  PROVE  Round(k)'
<1>1. Threads' = Threads
  BY DEF Threads
<1>2. \A h \in Threads : Barriers(script', at'[h]) = Barriers(script, at[h])
  OBVIOUS
<1>3. Arrived(k)' = Arrived(k)
  BY <1>1, <1>2 DEF Arrived
<1>4. ASSUME NEW h \in Threads
      PROVE  /\ Barriers(script', at'[h]) \in {k, k + 1}
             /\ Barriers(script', at'[h]) = k + 1 => pc'[h] = "barrier"
             /\ pc'[h] = "barrier" => n_target'[h] = nthreads' * Barriers(script', at'[h])
  <2>1. CASE h = i
    BY <2>1, <1>2
  <2>2. CASE h # i
    BY <2>2, <1>2 DEF Round
  <2>3. QED
    BY <2>1, <2>2
<1>5. QED
  BY <1>1, <1>3, <1>4 DEF Round

\* Who is not at a barrier has been through all that the others are through.
LEMMA NotArrived ==
  ASSUME NEW k \in Nat, Round(k), NEW i \in Threads, pc[i] # "barrier"
  PROVE  Barriers(script, at[i]) = k
BY DEF Round

LEMMA RoundArrives ==
  ASSUME TeamAssumption, TypeInv, NEW k \in Nat, Round(k), NEW i \in Threads, ArriveAtBarrier(i)
  PROVE  Rounds'
<1> DEFINE N == nthreads
           C == Cardinality(Arrived(k))
           P == nthreads * k
<1>1. /\ pc[i] = "between" /\ at[i] \in Nat /\ at[i] + 1 \in DOMAIN script
      /\ script[at[i] + 1].kind = "barrier"
      /\ at'[i] = at[i] + 1 /\ \A h \in Threads \ {i} : at'[h] = at[h]
      /\ pc'[i] = "barrier" /\ \A h \in Threads \ {i} : pc'[h] = pc[h]
      /\ barrier_counter' = barrier_counter + 1
      /\ n_target'[i] = Target(barrier_counter)
      /\ \A h \in Threads \ {i} : n_target'[h] = n_target[h]
      /\ script' = script /\ N' = N /\ Threads' = Threads
  <2>1. Threads \subseteq AllThreads
    BY DEF TypeInv, TypeOK, Threads, AllThreads, TeamAssumption
  <2>2. QED
    BY <2>1 DEF ArriveAtBarrier, Enter, Goto, TypeInv, TypeOK, Scripted, team, Threads
<1>2. C \in Nat /\ N \in Nat \ {0} /\ P \in Nat /\ C < N /\ N * (k + 1) = P + N
      /\ barrier_counter = P + C /\ IsFiniteSet(Arrived(k))
  BY ArrivedFinite DEF Round, TypeInv, TypeOK
<1>3. Barriers(script, at[i]) = k /\ Barriers(script, at'[i]) = k + 1
  BY <1>1, NotArrived, BarriersNext
<1>4. n_target'[i] = N * (k + 1)
  <2>1. barrier_counter % N = C
    BY <1>2, RemainderOf
  <2> HIDE DEF P, C
  <2>2. QED
    BY <1>1, <1>2, <2>1 DEF Target
<1>5. \A h \in Threads \ {i} : Barriers(script', at'[h]) = Barriers(script, at[h])
  BY <1>1
<1>6. i \notin Arrived(k) /\ Arrived(k)' = Arrived(k) \cup {i}
  BY <1>1, <1>3, <1>5 DEF Arrived
<1>7. Cardinality(Arrived(k)') = C + 1
  BY <1>2, <1>6, FS_AddElement
<1>8. \A h \in Threads :
        /\ Barriers(script', at'[h]) \in {k, k + 1}
        /\ Barriers(script', at'[h]) = k + 1 => pc'[h] = "barrier"
        /\ pc'[h] = "barrier" => n_target'[h] = N * Barriers(script', at'[h])
  BY <1>1, <1>3, <1>4, <1>5 DEF Round
<1> HIDE DEF C, P
<1>9. CASE C + 1 < N
  <2>1. barrier_counter' = N * k + Cardinality(Arrived(k)')
    BY <1>1, <1>2, <1>7 DEF P
  <2>2. Round(k)'
    BY <2>1, <1>1, <1>7, <1>8, <1>9 DEF Round
  <2>3. QED
    BY <2>2 DEF Rounds
<1>10. CASE C + 1 = N
  <2>1. Arrived(k)' = Threads
    <3>1. IsFiniteSet(Threads) /\ Cardinality(Threads) = N
      BY FS_Interval, <1>2 DEF Threads
    <3>2. Arrived(k)' \subseteq Threads
      BY <1>1 DEF Arrived
    <3>3. QED
      BY <3>1, <3>2, <1>7, <1>10, FS_Subset
  <2>2. \A h \in Threads : Barriers(script', at'[h]) = k + 1
    BY <2>1, <1>1 DEF Arrived
  <2>3. Arrived(k + 1)' = {}
    BY <2>2, <1>1 DEF Arrived
  <2>4. barrier_counter' = N * (k + 1) + 0
    BY <1>1, <1>2, <1>10
  <2>5. Round(k + 1)'
    <3>1. Cardinality(Arrived(k + 1)') = 0 /\ 0 < N'
      <4>1. Cardinality(Arrived(k + 1)') = 0
        BY <2>3, FS_EmptySet
      <4>2. QED
        BY <4>1, <1>1, <1>2
    <3>2. barrier_counter' = N' * (k + 1) + Cardinality(Arrived(k + 1)')
      BY <3>1, <2>4, <1>1
    <3>3. ASSUME NEW h \in Threads'
          PROVE  /\ Barriers(script', at'[h]) \in {k + 1, (k + 1) + 1}
                 /\ Barriers(script', at'[h]) = (k + 1) + 1 => pc'[h] = "barrier"
                 /\ pc'[h] = "barrier" => n_target'[h] = N' * Barriers(script', at'[h])
      <4>1. h \in Threads
        BY <1>1
      <4>2. Barriers(script', at'[h]) = k + 1 /\ k + 1 # (k + 1) + 1
        BY <4>1, <2>2
      <4>3. QED
        BY <4>1, <4>2, <1>1, <1>8
    <3>4. QED
      BY <3>1, <3>2, <3>3 DEF Round
  <2>6. QED
    BY <2>5 DEF Rounds
<1>11. QED
  BY <1>2, <1>9, <1>10

LEMMA RoundsStep == ASSUME TeamAssumption, TypeInv, Rounds, [Next]_vars PROVE Rounds'
<1>1. PICK k \in Nat : Round(k)
  BY DEF Rounds
<1>2. CASE UNCHANGED vars
  <2>1. Round(k)'
    BY <1>1, <1>2 DEF vars, team, Round, Arrived, Threads
  <2>2. QED
    BY <2>1 DEF Rounds
<1>3. ASSUME NEW i \in AllThreads, Step(i) PROVE Rounds'
  <2>1. i \in Threads
    BY <1>3 DEF TypeInv, Where, Step, Leave, ArriveAtBarrier, PassBarrier, StaticLoop,
       LookUpScheduler, CreateScheduler, FetchIteration, FetchNothing, CallIteration, Throw,
       Catch, AbortAgain, ThrowInRegion, Enter
  <2>2. CASE ArriveAtBarrier(i)
    BY <1>1, <2>1, <2>2, RoundArrives
  <2>3. CASE ~ArriveAtBarrier(i)
    <3>1. /\ UNCHANGED <<script, nthreads, barrier_counter, n_target>>
          /\ \A h \in Threads \ {i} : pc'[h] = pc[h] /\ at'[h] = at[h]
          /\ pc'[i] # "barrier"
      <4>1. Threads \subseteq AllThreads
        BY DEF TypeInv, TypeOK, Threads, AllThreads, TeamAssumption
      <4>2. QED
        BY <1>3, <2>3, <4>1 DEF TypeInv, TypeOK, Step, Leave, PassBarrier, StaticLoop,
           LookUpScheduler, CreateScheduler, FetchIteration, FetchNothing, CallIteration, Throw,
           Catch, AbortAgain, ThrowInRegion, Enter, Goto, team
    <3>2. Barriers(script, at[i]) = k
      <4>1. CASE PassBarrier(i)
        <5>1. barrier_counter >= nthreads * Barriers(script, at[i])
          BY <1>1, <2>1, <4>1 DEF PassBarrier, AllArrived, Round
        <5>2. barrier_counter < nthreads * (k + 1)
          <6>1. /\ nthreads \in Nat /\ Cardinality(Arrived(k)) \in Nat /\ nthreads * k \in Nat
                /\ nthreads * (k + 1) = nthreads * k + nthreads
            <7>1. nthreads \in Nat /\ Cardinality(Arrived(k)) \in Nat
              BY ArrivedFinite DEF TypeInv, TypeOK
            <7>2. QED
              BY <7>1
          <6>2. /\ barrier_counter = nthreads * k + Cardinality(Arrived(k))
                /\ Cardinality(Arrived(k)) < nthreads
            BY <1>1 DEF Round
          <6>3. QED
            BY <6>1, <6>2
        <5>3. barrier_counter \in Nat /\ nthreads * (k + 1) \in Nat
          BY DEF TypeInv, TypeOK
        <5>4. Barriers(script, at[i]) # k + 1
          BY <5>1, <5>2, <5>3
        <5>5. QED
          BY <5>4, <1>1, <2>1 DEF Round
      <4>2. CASE ~PassBarrier(i)
        <5>1. pc[i] # "barrier"
          BY <1>3, <2>3, <4>2 DEF Step, Leave, StaticLoop, LookUpScheduler, CreateScheduler,
             FetchIteration, FetchNothing, CallIteration, Throw, Catch, AbortAgain,
             ThrowInRegion, Enter
        <5>2. QED
          BY <5>1, <1>1, <2>1, NotArrived
      <4>3. QED
        BY <4>1, <4>2
    <3>3. Barriers(script, at'[i]) = k
      <4>1. \/ at'[i] = at[i]
            \/ at'[i] = at[i] + 1 /\ script[at[i] + 1].kind \in {"static", "dynamic"}
        BY <1>3, <2>3 DEF TypeInv, TypeOK, Step, Leave, PassBarrier, StaticLoop,
           LookUpScheduler, CreateScheduler, FetchIteration, FetchNothing, CallIteration, Throw,
           Catch, AbortAgain, ThrowInRegion, Enter
      <4>2. at[i] \in Nat
        BY <1>3 DEF TypeInv, TypeOK, Scripted
      <4>3. at'[i] = at[i] + 1 => Barriers(script, at[i] + 1) = Barriers(script, at[i]) + 0
        BY <4>1, <4>2, BarriersNext
      <4>4. QED
        BY <4>1, <4>3, <3>2
    <3>4. Round(k)'
      BY <1>1, <2>1, <3>1, <3>2, <3>3, RoundKeeps
    <3>5. QED
      BY <3>4 DEF Rounds
  <2>4. QED
    BY <2>2, <2>3
<1>4. QED
  BY <1>2, <1>3 DEF Next
-----------------------------------------------------------------------------
(***************************************************************************)
(* The rows of a static loop: each belongs to one thread.                  *)
(***************************************************************************)
\* What a division leaves.
LEMMA Quotient ==
  ASSUME NEW n \in Nat, NEW m \in Nat \ {0}
  PROVE  n \div m \in Nat /\ (n \div m) * m <= n /\ n < (n \div m + 1) * m
OBVIOUS

LEMMA Multiples ==
  ASSUME NEW s \in Nat \ {0}, NEW a \in Nat, NEW b \in Nat, a <= b
  PROVE  a * s <= b * s
<1>1. PICK d \in Nat : b = a + d
  <2>1. b - a \in Nat /\ b = a + (b - a)
    OBVIOUS
  <2>2. QED
    BY <2>1
<1>2. b * s = a * s + d * s /\ a * s \in Nat /\ d * s \in Nat
  BY <1>1
<1>3. QED
  BY <1>2

\* Row r lies in the multiple of s that the quotient says, and in no other.
LEMMA RowInChunk ==
  ASSUME NEW s \in Nat \ {0}, NEW r \in Nat, NEW j \in Nat
  PROVE  /\ j * s <= r <=> j <= r \div s
         /\ r < (j + 1) * s <=> r \div s <= j
<1> DEFINE q == r \div s
<1>1. q \in Nat /\ q * s <= r /\ r < (q + 1) * s
  BY Quotient
<1> HIDE DEF q
<1>2. q * s \in Nat /\ (q + 1) * s \in Nat /\ j * s \in Nat /\ (j + 1) * s \in Nat
  BY <1>1
<1>3. ASSUME j <= q PROVE j * s <= r
  <2>1. j * s <= q * s
    BY <1>1, <1>3, Multiples
  <2>2. QED
    BY <1>1, <1>2, <2>1
<1>4. ASSUME q + 1 <= j PROVE r < j * s
  <2>1. (q + 1) * s <= j * s
    BY <1>1, <1>4, Multiples
  <2>2. QED
    BY <1>1, <1>2, <2>1
<1>5. ASSUME q <= j PROVE r < (j + 1) * s
  <2>1. (q + 1) * s <= (j + 1) * s
    BY <1>1, <1>5, Multiples
  <2>2. QED
    BY <1>1, <1>2, <2>1
<1>6. ASSUME j + 1 <= q PROVE (j + 1) * s <= r
  <2>1. (j + 1) * s <= q * s
    BY <1>1, <1>6, Multiples
  <2>2. QED
    BY <1>1, <1>2, <2>1
<1>7. QED
  BY <1>1, <1>2, <1>3, <1>4, <1>5, <1>6 DEF q

\* Thread o, and nobody else, executes row r of the static loop c, and does so once.
Owns(o, c, r) ==
  \A i \in Threads :
    Visits(script[c], ChunksWanted(script[c], nthreads_in), nthreads, i, r) =
      IF i = o THEN 1 ELSE 0

LEMMA StaticRowHasOwner ==
  ASSUME TeamAssumption, TypeInv, NEW c \in DOMAIN script, NEW r \in 0 .. script[c].rows - 1
  PROVE  \E o \in Threads : Owns(o, c, r)
<1> DEFINE s == script[c]
           n == s.rows
           k == ChunksWanted(s, nthreads_in)
           size == n \div k
           J == n \div size
           q == r \div size
           j0 == Least(q, J - 1)
           o == j0 % nthreads
           Chunk(i) == {j \in 0 .. J - 1 : j % nthreads = i /\ j * size <= r
                                           /\ r < ChunkEnd(s, size, j)}
<1>1. n \in Nat \ {0} /\ s.chunk \in Nat \ {0} /\ r \in Nat /\ r < n
      /\ nthreads \in Nat \ {0} /\ nthreads_in \in Nat /\ PoolSize \in Nat \ {0}
  BY DEF TypeInv, Scripted, TypeOK, TeamAssumption
<1>2. k \in Nat /\ k <= n
  <2>1. n \div s.chunk \in Nat /\ n \div s.chunk <= n
    <3>1. n \div s.chunk \in Nat /\ (n \div s.chunk) * s.chunk <= n
      BY <1>1, Quotient
    <3>2. ASSUME NEW x \in Nat, NEW y \in Nat \ {0} PROVE x <= x * y
      <4>1. y - 1 \in Nat /\ x * y = x + x * (y - 1)
        BY <3>2
      <4>2. x * (y - 1) \in Nat
        BY <4>1, <3>2
      <4>3. QED
        BY <4>1, <4>2
    <3>3. n \div s.chunk <= (n \div s.chunk) * s.chunk
      BY <3>1, <3>2, <1>1
    <3>4. QED
      BY <3>1, <3>3, <1>1
  <2>2. QED
    BY <1>1, <2>1 DEF ChunksWanted, Least
<1>3. CASE k = 0
  <2>1. 0 \in Threads
    BY <1>1 DEF Threads
  <2>2. Owns(0, c, r)
    BY <1>3 DEF Owns, Visits
  <2>3. QED
    BY <2>1, <2>2
<1>4. CASE k # 0
  <2> HIDE DEF k
  <2>1. size \in Nat \ {0}
    <3>1. size \in Nat /\ n < (size + 1) * k
      BY <1>1, <1>2, <1>4, Quotient
    <3>2. size # 0
      BY <3>1, <1>1, <1>2
    <3>3. QED
      BY <3>1, <3>2
  <2>2. J \in Nat \ {0}
    <3>1. size <= n
      <4>1. size * k <= n /\ k * size = size * k /\ k * size \in Nat
        BY <1>1, <1>2, <1>4, <2>1, Quotient
      <4>2. 1 * size <= k * size
        BY <1>2, <1>4, <2>1, Multiples
      <4>3. QED
        BY <4>1, <4>2, <2>1, <1>1
    <3>2. J \in Nat /\ n < (J + 1) * size
      BY <1>1, <2>1, Quotient
    <3>3. J # 0
      BY <3>1, <3>2, <1>1, <2>1
    <3>4. QED
      BY <3>2, <3>3
  <2>3. q \in Nat
    BY <1>1, <2>1, Quotient
  <2>4. j0 \in 0 .. J - 1
    BY <2>2, <2>3 DEF Least
  <2>5. ASSUME NEW j \in 0 .. J - 1
        PROVE  j * size <= r /\ r < ChunkEnd(s, size, j) <=> j = j0
    <3>1. /\ j * size <= r <=> j <= q
          /\ r < (j + 1) * size <=> q <= j
      BY <1>1, <2>1, <2>2, RowInChunk
    <3> HIDE DEF q
    <3>2. CASE j = J - 1
      <4>1. ChunkEnd(s, size, j) = n
        BY <3>2 DEF ChunkEnd
      <4>2. j * size <= r /\ r < ChunkEnd(s, size, j) <=> j <= q
        BY <3>1, <4>1, <1>1
      <4> HIDE DEF J
      <4>3. j <= q <=> j = j0
        BY <3>2, <2>2, <2>3 DEF Least
      <4>4. QED
        BY <4>2, <4>3
    <3>3. CASE j # J - 1
      <4>1. ChunkEnd(s, size, j) = (j + 1) * size
        BY <3>3 DEF ChunkEnd
      <4>2. j * size <= r /\ r < ChunkEnd(s, size, j) <=> j <= q /\ q <= j
        BY <3>1, <4>1
      <4> HIDE DEF J
      <4>3. j <= q /\ q <= j <=> j = j0
        BY <3>3, <2>2, <2>3 DEF Least
      <4>4. QED
        BY <4>2, <4>3
    <3>4. QED
      BY <3>2, <3>3
  <2>6. o \in Threads
    BY <1>1, <2>2, <2>4 DEF Threads
  <2> HIDE DEF j0
  <2>7. ASSUME NEW i \in Threads
        PROVE  Visits(s, k, nthreads, i, r) = IF i = o THEN 1 ELSE 0
    <3>1. Visits(s, k, nthreads, i, r) = Cardinality(Chunk(i))
      BY <1>4 DEF Visits
    <3>2. CASE i = o
      <4>1. Chunk(i) = {j0}
        BY <3>2, <2>4, <2>5
      <4>2. QED
        BY <3>1, <3>2, <4>1, FS_Singleton
    <3>3. CASE i # o
      <4>1. Chunk(i) = {}
        BY <3>3, <2>4, <2>5
      <4>2. QED
        BY <3>1, <3>3, <4>1, FS_EmptySet
    <3>4. QED
      BY <3>2, <3>3
  <2>8. Owns(o, c, r)
    BY <2>7 DEF Owns, k
  <2>9. QED
    BY <2>6, <2>8
<1>5. QED
  BY <1>3, <1>4
-----------------------------------------------------------------------------
(***************************************************************************)
(* How often the rows have been executed.                                  *)
(***************************************************************************)
\* One parallel_for_dynamic() at most.
OneDynamic ==
  \A c, d \in DOMAIN script : script[c].kind = "dynamic" /\ script[d].kind = "dynamic" => c = d

Counted ==
  /\ DOMAIN times = DOMAIN script
  /\ \A c \in DOMAIN script : times[c] \in [0 .. script[c].rows - 1 -> Nat]

Statics ==
  \A c \in DOMAIN script : script[c].kind = "static" =>
    \A r \in 0 .. script[c].rows - 1 :
      \E o \in Threads : Owns(o, c, r) /\ times[c][r] = IF at[o] >= c THEN 1 ELSE 0

Calls(i, r) == pc[i] = "call" /\ iter[i] = r

\* The first m rows of the dynamic loop c have been handed out, each to one thread, and
\* have been executed but for those that the threads are about to call.
Handed(c, m) ==
  /\ Started => num_iterations = script[c].rows
  /\ m <= num_iterations
  /\ ~aborted => m = Least(iteration_index, num_iterations)
  /\ aborted => iteration_index >= num_iterations
  /\ \A r \in 0 .. script[c].rows - 1 :
       times[c][r] = IF r < m /\ ~\E i \in AllThreads : Calls(i, r) THEN 1 ELSE 0
  /\ \A i \in AllThreads : pc[i] = "call" => iter[i] < m
  /\ \A i, k \in AllThreads : i # k /\ pc[i] = "call" /\ pc[k] = "call" => iter[i] # iter[k]
  /\ \A i \in Threads : Past(i, c) => Started /\ iteration_index >= num_iterations

Dynamics ==
  \A c \in DOMAIN script : script[c].kind = "dynamic" => \E m \in Nat : Handed(c, m)

Rows == Counted /\ Statics /\ OneDynamic /\ Dynamics

LEMMA OneDynamicInit == ASSUME TeamAssumption, MaxDynamic <= 1, Init PROVE OneDynamic
<1>1. CASE InitRegion
  <2> DEFINE S == {c \in DOMAIN script : script[c].kind = "dynamic"}
  <2>1. PICK n \in 0 .. MaxLength : script \in [1 .. n -> Constructs]
    BY <1>1 DEF InitRegion, Scripts
  <2>2. DOMAIN script = 1 .. n /\ n \in Nat
    BY <2>1 DEF TeamAssumption
  <2>3. IsFiniteSet(DOMAIN script)
    BY <2>2, FS_Interval
  <2>4. IsFiniteSet(S) /\ Cardinality(S) \in Nat
    BY <2>3, FS_Subset, FS_CardinalityType
  <2>5. Cardinality(S) <= 1
    <3>1. Cardinality(S) <= MaxDynamic /\ MaxDynamic \in Nat
      BY <1>1 DEF InitRegion, Scripts, TeamAssumption
    <3>2. QED
      BY <2>4, <3>1
  <2>6. ASSUME NEW c \in S, NEW d \in S PROVE c = d
    <3>1. SUFFICES ASSUME c # d PROVE FALSE
      OBVIOUS
    <3>2. IsFiniteSet({c}) /\ Cardinality({c}) = 1
      BY FS_Singleton
    <3>3. Cardinality({c} \cup {d}) = 2
      <4>1. d \notin {c}
        BY <3>1
      <4>2. Cardinality({c} \cup {d}) = Cardinality({c}) + 1
        BY <3>2, <4>1, FS_AddElement
      <4>3. QED
        BY <3>2, <4>2
    <3>4. {c} \cup {d} \subseteq S
      OBVIOUS
    <3>5. Cardinality({c} \cup {d}) <= Cardinality(S)
      BY <2>4, <3>4, FS_Subset
    <3>6. 2 <= Cardinality(S)
      BY <3>3, <3>5
    <3> HIDE DEF S
    <3>7. QED
      BY <2>4, <2>5, <3>6
  <2>7. QED
    BY <2>6 DEF OneDynamic
<1>2. CASE InitDynamic \/ InitStatic
  <2>1. DOMAIN script = 1 .. 1
    BY <1>2 DEF InitDynamic, InitStatic
  <2>2. QED
    BY <2>1 DEF OneDynamic
<1>3. QED
  BY <1>1, <1>2 DEF Init

LEMMA RowsInit == ASSUME TeamAssumption, MaxDynamic <= 1, Init PROVE Rows
<1>1. TypeInv
  BY TypeInit
<1>2. \A c \in DOMAIN script : c \in Nat \ {0} /\ script[c].rows \in Nat
  BY <1>1 DEF TypeInv, Scripted
<1>3. times = [c \in DOMAIN script |-> [r \in 0 .. script[c].rows - 1 |-> 0]]
  BY DEF Init
<1>4. Counted
  BY <1>3 DEF Counted
<1>5. Statics
  <2>1. SUFFICES ASSUME NEW c \in DOMAIN script, script[c].kind = "static",
                        NEW r \in 0 .. script[c].rows - 1
                 PROVE  \E o \in Threads : Owns(o, c, r)
                                           /\ times[c][r] = IF at[o] >= c THEN 1 ELSE 0
    BY DEF Statics
  <2>2. PICK o \in Threads : Owns(o, c, r)
    BY <1>1, StaticRowHasOwner
  <2>3. entry # "dynamic"
    BY <1>1, <2>1 DEF TypeInv, Scripted
  <2>4. at[o] = 0
    <3>1. Threads \subseteq AllThreads
      BY <1>1 DEF TypeInv, TypeOK, Threads, AllThreads, TeamAssumption
    <3>2. QED
      BY <2>3, <3>1, InitFacts
  <2>5. times[c][r] = 0
    BY <1>3
  <2>6. QED
    BY <1>2, <2>2, <2>4, <2>5
<1>6. Dynamics
  <2>1. SUFFICES ASSUME NEW c \in DOMAIN script, script[c].kind = "dynamic"
                 PROVE  Handed(c, 0)
    BY DEF Dynamics
  <2>2. \A i \in AllThreads : pc[i] \in {"between", "next", "done"}
    BY InitFacts
  <2>3. /\ aborted = FALSE /\ iteration_index = 0
        /\ \A r \in 0 .. script[c].rows - 1 : times[c][r] = 0
    BY <1>3 DEF Init
  <2>4. Started => num_iterations = script[c].rows
    <3>1. Started => entry = "dynamic"
      BY DEF Init, Started
    <3>2. entry = "dynamic" => c = 1
      BY <1>1 DEF TypeInv, Scripted
    <3>3. QED
      BY <3>1, <3>2, InitFacts
  <2>5. ASSUME NEW i \in Threads PROVE ~Past(i, c)
    <3>1. i \in AllThreads /\ c \in Nat \ {0}
      BY <1>1, <1>2 DEF TypeInv, TypeOK, Threads, AllThreads, TeamAssumption
    <3>2. CASE entry = "dynamic"
      <4>1. c = 1
        BY <1>1, <3>2 DEF TypeInv, Scripted
      <4>2. QED
        BY <3>1, <3>2, <4>1, InitFacts DEF Past
    <3>3. CASE entry # "dynamic"
      BY <3>1, <3>3, InitFacts DEF Past
    <3>4. QED
      BY <3>2, <3>3
  <2>6. num_iterations \in Nat /\ 0 = Least(iteration_index, num_iterations)
    BY <1>1, <2>3 DEF TypeInv, TypeOK, Least
  <2>7. QED
    BY <2>2, <2>3, <2>4, <2>5, <2>6 DEF Handed
<1>7. QED
  BY <1>4, <1>5, <1>6, OneDynamicInit DEF Rows

\* What a step does to the place of the threads and to the counts.
LEMMA StepEffects ==
  ASSUME TeamAssumption, TypeInv, NEW i \in AllThreads, Step(i)
  PROVE  /\ i \in Threads /\ Threads' = Threads /\ Threads \subseteq AllThreads
         /\ UNCHANGED <<entry, script, nthreads_in, nthreads>>
         /\ \A h \in AllThreads \ {i} : pc'[h] = pc[h] /\ at'[h] = at[h]
         /\ \/ at'[i] = at[i]
            \/ at'[i] = at[i] + 1 /\ pc[i] = "between" /\ at[i] + 1 \in DOMAIN script
         /\ \/ times' = times
            \/ /\ pc[i] = "call" /\ at' = at /\ at[i] \in DOMAIN script
               /\ script[at[i]].kind = "dynamic"
               /\ times' = [times EXCEPT ![at[i]][iter[i]] = @ + 1]
            \/ StaticLoop(i)
         /\ StaticLoop(i) \/ (at'[i] = at[i] + 1 => script[at[i] + 1].kind # "static")
<1>1. i \in Threads /\ Threads \subseteq AllThreads
  <2>1. Threads \subseteq AllThreads
    BY DEF TypeInv, TypeOK, TeamAssumption, AllThreads, Threads
  <2>2. pc[i] # "done"
    BY DEF Step, Leave, ArriveAtBarrier, PassBarrier, StaticLoop, LookUpScheduler,
       CreateScheduler, FetchIteration, FetchNothing, CallIteration, Throw, Catch, AbortAgain,
       ThrowInRegion, Enter
  <2>3. QED
    BY <2>1, <2>2 DEF TypeInv, Where
<1>2. UNCHANGED <<entry, script, nthreads_in, nthreads>> /\ Threads' = Threads
  BY DEF Step, Leave, ArriveAtBarrier, PassBarrier, StaticLoop, LookUpScheduler,
     CreateScheduler, FetchIteration, FetchNothing, CallIteration, Throw, Catch, AbortAgain,
     ThrowInRegion, team, Threads
<1>3. /\ pc = [h \in AllThreads |-> pc[h]] /\ at = [h \in AllThreads |-> at[h]]
      /\ at[i] \in Nat
  BY DEF TypeInv, TypeOK, Scripted
<1>4. \A h \in AllThreads \ {i} : pc'[h] = pc[h] /\ at'[h] = at[h]
  BY <1>3 DEF Step, Leave, ArriveAtBarrier, PassBarrier, StaticLoop, LookUpScheduler,
     CreateScheduler, FetchIteration, FetchNothing, CallIteration, Throw, Catch, AbortAgain,
     ThrowInRegion, Enter, Goto
<1>5. CASE ArriveAtBarrier(i) \/ LookUpScheduler(i) \/ StaticLoop(i)
  <2>1. /\ pc[i] = "between" /\ at[i] < Len(script) /\ at'[i] = at[i] + 1
        /\ StaticLoop(i) \/ (times' = times /\ script[at[i] + 1].kind # "static")
    BY <1>3, <1>5 DEF ArriveAtBarrier, LookUpScheduler, StaticLoop, Enter
  <2>2. at[i] + 1 \in DOMAIN script
    BY <2>1, <1>3 DEF TypeInv, Scripted
  <2>3. QED
    BY <1>1, <1>2, <1>4, <2>1, <2>2
<1>6. CASE CallIteration(i) \/ Throw(i) \/ ThrowInRegion(i)
  <2>1. at' = at
    BY <1>6 DEF CallIteration, Throw, ThrowInRegion
  <2>2. pc[i] = "call" => at[i] \in DOMAIN script /\ script[at[i]].kind = "dynamic"
    BY DEF TypeInv, Where, InScheduler
  <2>3. times' = times \/ (pc[i] = "call" /\ times' = [times EXCEPT ![at[i]][iter[i]] = @ + 1])
    BY <1>6 DEF CallIteration, Throw, ThrowInRegion
  <2>4. at'[i] # at[i] + 1
    BY <2>1, <1>3
  <2>5. QED
    BY <1>1, <1>2, <1>4, <2>1, <2>2, <2>3, <2>4
<1>7. CASE Leave(i) \/ PassBarrier(i) \/ CreateScheduler(i) \/ FetchIteration(i)
           \/ FetchNothing(i) \/ Catch(i) \/ AbortAgain(i)
  <2>1. at' = at /\ times' = times
    BY <1>7 DEF Leave, PassBarrier, CreateScheduler, FetchIteration, FetchNothing, Catch,
       AbortAgain
  <2>2. at'[i] # at[i] + 1
    BY <2>1, <1>3
  <2>3. QED
    BY <1>1, <1>2, <1>4, <2>1, <2>2
<1>8. QED
  BY <1>5, <1>6, <1>7 DEF Step

LEMMA VisitsNat ==
  ASSUME TeamAssumption, TypeInv, NEW c \in DOMAIN script, NEW r \in 0 .. script[c].rows - 1,
         NEW i \in Threads
  PROVE  Visits(script[c], ChunksWanted(script[c], nthreads_in), nthreads, i, r) \in Nat
<1>1. PICK o \in Threads : Owns(o, c, r)
  BY StaticRowHasOwner
<1>2. QED
  BY <1>1 DEF Owns

LEMMA CountedStep ==
  ASSUME TeamAssumption, TypeInv, Counted, NEW i \in AllThreads, Step(i)
  PROVE  Counted'
<1>1. script' = script /\ i \in Threads
  BY StepEffects
<1>2. CASE times' = times
  BY <1>1, <1>2 DEF Counted
<1>3. CASE /\ pc[i] = "call" /\ at[i] \in DOMAIN script
           /\ times' = [times EXCEPT ![at[i]][iter[i]] = @ + 1]
  <2>1. \A c \in DOMAIN script :
          times'[c] = IF c = at[i] THEN [times[c] EXCEPT ![iter[i]] = @ + 1] ELSE times[c]
    BY <1>3 DEF Counted
  <2>2. DOMAIN times' = DOMAIN script
    BY <1>3 DEF Counted
  <2>3. times'[at[i]] \in [0 .. script[at[i]].rows - 1 -> Nat]
    <3> DEFINE R == 0 .. script[at[i]].rows - 1
               f == times[at[i]]
    <3>1. f \in [R -> Nat]
      BY <1>3 DEF Counted
    <3>2. times'[at[i]] = [f EXCEPT ![iter[i]] = @ + 1]
      BY <1>3, <2>1
    <3> HIDE DEF R, f
    <3>3. \A r \in R : f[r] \in Nat /\ f[r] + 1 \in Nat
      BY <3>1
    <3>4. [f EXCEPT ![iter[i]] = @ + 1] = [r \in R |-> IF r = iter[i] THEN f[r] + 1 ELSE f[r]]
      BY <3>1
    <3>5. times'[at[i]] \in [R -> Nat]
      BY <3>2, <3>3, <3>4
    <3>6. QED
      BY <3>5 DEF R
  <2>4. QED
    BY <1>1, <2>1, <2>2, <2>3 DEF Counted
<1>4. CASE StaticLoop(i)
  <2> DEFINE c == at[i] + 1
             V(r) == Visits(script[c], ChunksWanted(script[c], nthreads_in), nthreads, i, r)
  <2>1. c \in DOMAIN script
    BY <1>4 DEF StaticLoop, Enter, TypeInv, TypeOK, Scripted
  <2>2. times' = [times EXCEPT ![c] = [r \in DOMAIN @ |-> @[r] + V(r)]]
    BY <1>4 DEF StaticLoop
  <2>3. \A r \in 0 .. script[c].rows - 1 : V(r) \in Nat
    BY <1>1, <2>1, VisitsNat
  <2> HIDE DEF V, c
  <2>4. \A d \in DOMAIN script : d # c => times'[d] = times[d]
    BY <2>2 DEF Counted
  <2>5. DOMAIN times' = DOMAIN script
    BY <2>2 DEF Counted
  <2>6. times'[c] = [r \in 0 .. script[c].rows - 1 |-> times[c][r] + V(r)]
    BY <2>1, <2>2 DEF Counted
  <2>7. times'[c] \in [0 .. script[c].rows - 1 -> Nat]
    <3>1. \A r \in 0 .. script[c].rows - 1 : times[c][r] + V(r) \in Nat
      <4>1. ASSUME NEW r \in 0 .. script[c].rows - 1 PROVE times[c][r] + V(r) \in Nat
        <5>1. times[c][r] \in Nat /\ V(r) \in Nat
          BY <2>1, <2>3 DEF Counted
        <5>2. QED
          BY <5>1
      <4>2. QED
        BY <4>1
    <3>2. QED
      BY <2>6, <3>1
  <2>8. QED
    BY <1>1, <2>4, <2>5, <2>7 DEF Counted
<1>5. QED
  BY <1>2, <1>3, <1>4, StepEffects

LEMMA StaticsStep ==
  ASSUME TeamAssumption, TypeInv, Counted, Statics, NEW i \in AllThreads, Step(i)
  PROVE  Statics'
<1>1. script' = script /\ i \in Threads /\ Threads' = Threads /\ nthreads' = nthreads
      /\ nthreads_in' = nthreads_in /\ Threads \subseteq AllThreads
  BY StepEffects
<1>2. SUFFICES ASSUME NEW c \in DOMAIN script, script[c].kind = "static",
                      NEW r \in 0 .. script[c].rows - 1, NEW o \in Threads, Owns(o, c, r),
                      times[c][r] = IF at[o] >= c THEN 1 ELSE 0
               PROVE  times'[c][r] = IF at'[o] >= c THEN 1 ELSE 0
  <2>1. ASSUME NEW o \in Threads, NEW c \in DOMAIN script, NEW r \in 0 .. script[c].rows - 1,
               Owns(o, c, r)
        PROVE  Owns(o, c, r)'
    BY <1>1, <2>1 DEF Owns
  <2>2. QED
    BY <1>1, <2>1 DEF Statics
<1>3. c \in Nat /\ at[i] \in Nat /\ at[o] \in Nat
  BY <1>1 DEF TypeInv, TypeOK, Scripted
<1>4. CASE StaticLoop(i) /\ at[i] + 1 = c
  <2>1. at'[i] = c /\ \A h \in AllThreads \ {i} : at'[h] = at[h]
    BY <1>4, <1>1 DEF StaticLoop, Enter, TypeInv, TypeOK
  <2>2. times'[c][r] = times[c][r]
                       + Visits(script[c], ChunksWanted(script[c], nthreads_in), nthreads, i, r)
    BY <1>4 DEF StaticLoop, Counted
  <2>3. times'[c][r] = times[c][r] + IF i = o THEN 1 ELSE 0
    BY <1>1, <2>2, <1>2 DEF Owns
  <2>4. CASE i = o
    BY <2>1, <2>3, <2>4, <1>2, <1>3, <1>4
  <2>5. CASE i # o
    BY <1>1, <2>1, <2>3, <2>5, <1>2
  <2>6. QED
    BY <2>4, <2>5
<1>5. CASE ~(StaticLoop(i) /\ at[i] + 1 = c)
  <2>1. times'[c][r] = times[c][r]
    <3>1. CASE times' = times
      BY <3>1
    <3>2. CASE /\ at[i] \in DOMAIN script /\ script[at[i]].kind = "dynamic"
               /\ times' = [times EXCEPT ![at[i]][iter[i]] = @ + 1]
      BY <3>2, <1>2 DEF Counted
    <3>3. CASE StaticLoop(i)
      BY <3>3, <1>5 DEF StaticLoop, Counted
    <3>4. QED
      BY <3>1, <3>2, <3>3, StepEffects
  <2>2. at'[i] = at[i] \/ (at'[i] = at[i] + 1 /\ at[i] + 1 # c)
    BY <1>2, <1>5, StepEffects
  <2>3. \A h \in AllThreads \ {i} : at'[h] = at[h]
    BY StepEffects
  <2>4. at'[o] >= c <=> at[o] >= c
    BY <1>1, <1>3, <2>2, <2>3
  <2>5. QED
    BY <1>2, <2>1, <2>4
<1>6. QED
  BY <1>4, <1>5

\* An exception of a dynamic loop goes on being handled.
Handles(i) ==
  /\ pc[i] \in {"catch", "abort"}
  /\ \E label \in {"abort", "next"} : Goto(i, label)
  /\ \/ AbortExecution /\ aborted' = TRUE
     \/ UNCHANGED <<iteration_index, aborted>>
  /\ UNCHANGED <<team, barrier_counter, nested_scheduler, num_iterations, iter, at, n_target,
                 times>>

\* A step of thread i that has nothing to do with the rows of c.
LEMMA HandedKeeps ==
  ASSUME NEW c, NEW m, Handed(c, m), NEW i \in AllThreads,
         UNCHANGED <<entry, script, nthreads, nested_scheduler, num_iterations, iteration_index,
                     iter, aborted>>,
         times'[c] = times[c],
         \A h \in AllThreads \ {i} : pc'[h] = pc[h] /\ at'[h] = at[h],
         Threads \subseteq AllThreads,
         pc[i] # "call", pc'[i] # "call",
         Past(i, c)' => Past(i, c)
  PROVE  Handed(c, m)'
<1>1. Threads' = Threads /\ Started' = Started
  BY DEF Threads, Started
<1>2. \A h \in AllThreads : pc'[h] = "call" <=> pc[h] = "call"
  OBVIOUS
<1>3. ASSUME NEW h \in Threads PROVE Past(h, c)' => Past(h, c)
  BY DEF Past
<1>4. \A r \in 0 .. script'[c].rows - 1 :
        times'[c][r] = IF r < m /\ ~\E h \in AllThreads : pc'[h] = "call" /\ iter'[h] = r
                         THEN 1 ELSE 0
  BY <1>2 DEF Handed, Calls
<1>5. /\ Started' => num_iterations' = script'[c].rows
      /\ m <= num_iterations'
      /\ ~aborted' => m = Least(iteration_index', num_iterations')
      /\ aborted' => iteration_index' >= num_iterations'
  BY <1>1 DEF Handed
<1>6. /\ \A h \in AllThreads : pc'[h] = "call" => iter'[h] < m
      /\ \A h, k \in AllThreads :
           h # k /\ pc'[h] = "call" /\ pc'[k] = "call" => iter'[h] # iter'[k]
  BY <1>2 DEF Handed
<1>7. \A h \in Threads' : Past(h, c)' => Started' /\ iteration_index' >= num_iterations'
  BY <1>1, <1>3 DEF Handed
<1>8. QED
  BY <1>4, <1>5, <1>6, <1>7 DEF Handed, Calls

\* A step of an exception that is being handled: it may abort the loop.
LEMMA HandledRows ==
  ASSUME TeamAssumption, TypeInv, OneDynamic, NEW c \in DOMAIN script,
         script[c].kind = "dynamic", NEW m \in Nat, Handed(c, m), NEW i \in AllThreads,
         Handles(i)
  PROVE  Handed(c, m)'
<1>1. /\ UNCHANGED <<entry, script, nthreads, nested_scheduler, num_iterations, iter, at, times>>
      /\ Threads' = Threads /\ Started' = Started
  BY DEF Handles, team, Threads, Started
<1>2. /\ c \in Nat /\ at[i] = c /\ pc[i] \in {"catch", "abort"}
      /\ pc'[i] \in {"abort", "next"}
      /\ \A h \in AllThreads \ {i} : pc'[h] = pc[h]
      /\ num_iterations \in Nat /\ aborted \in BOOLEAN
  BY DEF Handles, Goto, TypeInv, TypeOK, Scripted, Where, InScheduler, OneDynamic
<1>4. \A h \in AllThreads : pc'[h] = "call" <=> pc[h] = "call"
  BY <1>2
<1>5. /\ ~aborted' => ~aborted /\ iteration_index' = iteration_index
      /\ aborted' => iteration_index' >= num_iterations
      /\ iteration_index' = num_iterations \/ iteration_index' = iteration_index
  BY <1>2 DEF Handles, AbortExecution, Handed
<1>6. \A h \in Threads : Past(h, c)' => Past(h, c)
  BY <1>1, <1>2 DEF Past, Threads, AllThreads, TypeInv, TypeOK, TeamAssumption
<1>7. \A h \in Threads : Past(h, c)' => Started' /\ iteration_index' >= num_iterations'
  BY <1>1, <1>2, <1>5, <1>6 DEF Handed
<1>8. \A r \in 0 .. script'[c].rows - 1 :
        times'[c][r] = IF r < m /\ ~\E h \in AllThreads : Calls(h, r)' THEN 1 ELSE 0
  BY <1>1, <1>4 DEF Handed, Calls
<1>9. /\ \A h \in AllThreads : pc'[h] = "call" => iter'[h] < m
      /\ \A h, k \in AllThreads :
           h # k /\ pc'[h] = "call" /\ pc'[k] = "call" => iter'[h] # iter'[k]
  BY <1>1, <1>4 DEF Handed
<1>10. /\ Started' => num_iterations' = script'[c].rows
       /\ m <= num_iterations'
       /\ ~aborted' => m = Least(iteration_index', num_iterations')
       /\ aborted' => iteration_index' >= num_iterations'
  BY <1>1, <1>5 DEF Handed
<1>11. QED
  BY <1>1, <1>7, <1>8, <1>9, <1>10 DEF Handed

LEMMA HandedStep ==
  ASSUME TeamAssumption, TypeInv, Counted, OneDynamic,
         NEW c \in DOMAIN script, script[c].kind = "dynamic",
         NEW m \in Nat, Handed(c, m), NEW i \in AllThreads, Step(i),
         pc[i] = "abort" => aborted
  PROVE  \E n \in Nat : Handed(c, n)'
<1>1. /\ i \in Threads /\ Threads' = Threads /\ Threads \subseteq AllThreads
      /\ UNCHANGED <<entry, script, nthreads_in, nthreads>>
      /\ \A h \in AllThreads \ {i} : pc'[h] = pc[h] /\ at'[h] = at[h]
  BY StepEffects
<1>2. /\ c \in Nat \ {0} /\ at[i] \in Nat /\ script[c].rows \in Nat
      /\ num_iterations \in Nat /\ iteration_index \in Nat
      /\ pc = [h \in AllThreads |-> pc[h]] /\ at = [h \in AllThreads |-> at[h]]
      /\ iter = [h \in AllThreads |-> iter[h]] /\ \A h \in AllThreads : iter[h] \in Nat
  BY DEF TypeInv, TypeOK, Scripted
<1>3. pc[i] \in InScheduler \cup {"create"} => at[i] = c
  BY DEF TypeInv, Where, OneDynamic
<1>4. \A h \in Threads \ {i} : Past(h, c)' <=> Past(h, c)
  BY <1>1 DEF Past
<1>5. CASE \/ Leave(i) \/ ArriveAtBarrier(i) \/ PassBarrier(i) \/ StaticLoop(i)
           \/ LookUpScheduler(i)
           \/ CreateScheduler(i) /\ nested_scheduler
           \/ ThrowInRegion(i) /\ pc[i] = "between"
  <2>1. UNCHANGED <<nested_scheduler, num_iterations, iteration_index, iter, aborted>>
    BY <1>5 DEF Leave, ArriveAtBarrier, PassBarrier, StaticLoop, LookUpScheduler,
       CreateScheduler, CreateOnce, ThrowInRegion, sched
  <2>2. pc[i] \in {"between", "barrier", "create"}
        /\ pc'[i] \in {"between", "barrier", "create", "next", "done", "threw"}
    BY <1>2, <1>5 DEF Leave, ArriveAtBarrier, PassBarrier, StaticLoop, LookUpScheduler,
       CreateScheduler, ThrowInRegion, Enter, Goto
  <2>3. times'[c] = times[c]
    <3>1. CASE StaticLoop(i)
      <4>1. at[i] + 1 # c
        BY <3>1 DEF StaticLoop, Enter
      <4>2. QED
        BY <3>1, <4>1 DEF StaticLoop, Counted
    <3>2. CASE ~StaticLoop(i)
      BY <1>5, <3>2 DEF Leave, ArriveAtBarrier, PassBarrier, LookUpScheduler, CreateScheduler,
         ThrowInRegion
    <3>3. QED
      BY <3>1, <3>2
  <2>4. Past(i, c)' => Past(i, c)
    <3>1. CASE ArriveAtBarrier(i) \/ StaticLoop(i)
      <4>1. /\ pc[i] = "between" /\ at'[i] = at[i] + 1
            /\ script[at[i] + 1].kind # "dynamic"
        BY <1>2, <3>1 DEF ArriveAtBarrier, StaticLoop, Enter
      <4>2. at[i] + 1 # c
        BY <4>1
      <4>3. QED
        BY <4>1, <4>2, <1>2 DEF Past
    <3>2. CASE LookUpScheduler(i)
      <4>1. /\ pc[i] = "between" /\ at'[i] = at[i] + 1 /\ pc'[i] \in {"next", "create"}
        BY <1>2, <3>2 DEF LookUpScheduler, Enter, Goto
      <4>2. QED
        BY <4>1, <1>2 DEF Past
    <3>3. CASE Leave(i) \/ (ThrowInRegion(i) /\ pc[i] = "between")
      BY <3>3, <1>2 DEF Leave, ThrowInRegion, Goto, Past
    <3>4. CASE PassBarrier(i)
      <4>1. at[i] # c /\ at' = at
        BY <3>4 DEF PassBarrier, TypeInv, Where
      <4>2. QED
        BY <4>1 DEF Past
    <3>5. CASE CreateScheduler(i)
      <4>1. at'[i] = c /\ pc'[i] = "next"
        BY <3>5, <1>2, <1>3 DEF CreateScheduler, Goto
      <4>2. QED
        BY <4>1, <1>2 DEF Past
    <3>6. QED
      BY <1>5, <3>1, <3>2, <3>3, <3>4, <3>5
  <2>5. Handed(c, m)'
    BY <1>1, <2>1, <2>2, <2>3, <2>4, HandedKeeps
  <2>6. QED
    BY <2>5
<1>6. CASE CreateScheduler(i) /\ ~nested_scheduler
  <2>1. pc[i] = "create" /\ at[i] = c /\ at' = at /\ iter' = iter /\ times' = times
        /\ aborted' = aborted /\ pc'[i] = "next"
    BY <1>2, <1>3, <1>6 DEF CreateScheduler, Goto
  <2>2. entry # "dynamic" /\ ~Started /\ ~aborted /\ iteration_index = 0 /\ num_iterations = 0
    BY <1>6, <2>1 DEF TypeInv, Where, Started, InScheduler
  <2>3. nested_scheduler' = TRUE /\ num_iterations' = script[c].rows /\ iteration_index' = 0
    BY <1>6, <2>1 DEF CreateScheduler, CreateOnce, MakeScheduler
  <2>4. m = 0
    BY <2>2 DEF Handed, Least
  <2>5. \A h \in AllThreads : pc[h] # "call" /\ pc'[h] # "call"
    BY <1>1, <2>1, <2>2 DEF TypeInv, Where, InScheduler
  <2>6. \A h \in Threads : ~Past(h, c)'
    <3>1. ~Past(i, c)'
      BY <1>2, <2>1 DEF Past
    <3>2. \A h \in Threads : ~Past(h, c)
      BY <2>2 DEF Handed
    <3>3. QED
      BY <1>4, <3>1, <3>2
  <2>7. \A r \in 0 .. script[c].rows - 1 : times'[c][r] = 0
    BY <2>1, <2>4 DEF Handed
  <2>8. Least(iteration_index', num_iterations') = 0 /\ 0 <= num_iterations'
    BY <1>2, <2>3 DEF Least
  <2>9. Handed(c, 0)'
    BY <1>1, <1>2, <2>1, <2>2, <2>3, <2>5, <2>6, <2>7, <2>8 DEF Handed, Calls
  <2>10. QED
    BY <2>9
<1>7. CASE FetchIteration(i)
  <2>1. /\ pc[i] = "next" /\ at[i] = c /\ iteration_index < num_iterations
        /\ iteration_index' = iteration_index + 1
        /\ iter'[i] = iteration_index /\ \A h \in AllThreads \ {i} : iter'[h] = iter[h]
        /\ pc'[i] = "call"
        /\ UNCHANGED <<nested_scheduler, num_iterations, at, times, aborted>>
    BY <1>2, <1>3, <1>7 DEF FetchIteration, HasIteration, Goto, InScheduler
  <2>2. ~aborted /\ m = iteration_index /\ m + 1 <= num_iterations
    BY <1>2, <2>1 DEF Handed, Least
  <2>3. Started' = Started /\ Started
    BY <1>1, <2>1 DEF Started, TypeInv, Where, InScheduler
  <2>4. \A h \in Threads : ~Past(h, c)'
    <3>1. ~Past(i, c)'
      BY <1>2, <2>1 DEF Past
    <3>2. \A h \in Threads : ~Past(h, c)
      BY <1>2, <2>1 DEF Handed
    <3>3. QED
      BY <1>4, <3>1, <3>2
  <2>5. ASSUME NEW r \in 0 .. script[c].rows - 1
        PROVE  times'[c][r] = IF r < m + 1 /\ ~\E h \in AllThreads : Calls(h, r)' THEN 1 ELSE 0
    <3>1. times'[c][r] = IF r < m /\ ~\E h \in AllThreads : Calls(h, r) THEN 1 ELSE 0
      BY <2>1 DEF Handed
    <3>2. r < m + 1 <=> r < m \/ r = m
      BY <1>2
    <3>3. CASE r = m
      <4>1. Calls(i, r)'
        BY <2>1, <2>2, <3>3 DEF Calls
      <4>2. QED
        BY <3>1, <3>3, <4>1
    <3>4. CASE r # m
      <4>1. \A h \in AllThreads : Calls(h, r)' <=> Calls(h, r)
        BY <1>1, <2>1, <2>2, <3>4 DEF Calls
      <4>2. QED
        BY <3>1, <3>2, <3>4, <4>1
    <3>5. QED
      BY <3>3, <3>4
  <2>6. \A h \in AllThreads : pc'[h] = "call" => iter'[h] < m + 1
    <3>1. \A h \in AllThreads : pc[h] = "call" => iter[h] < m
      BY DEF Handed
    <3>2. QED
      BY <1>1, <1>2, <2>1, <2>2, <3>1
  <2>7. \A h, k \in AllThreads :
          h # k /\ pc'[h] = "call" /\ pc'[k] = "call" => iter'[h] # iter'[k]
    <3>1. \A h \in AllThreads \ {i} : pc'[h] = "call" => iter'[h] < m
      BY <1>1, <2>1 DEF Handed
    <3>2. iter'[i] = m
      BY <2>1, <2>2
    <3>3. \A h, k \in AllThreads \ {i} :
            h # k /\ pc'[h] = "call" /\ pc'[k] = "call" => iter'[h] # iter'[k]
      BY <1>1, <2>1 DEF Handed
    <3>4. QED
      BY <3>1, <3>2, <3>3
  <2>8. m + 1 = Least(iteration_index', num_iterations') /\ ~aborted'
    BY <1>2, <2>1, <2>2 DEF Least
  <2>9. num_iterations' = script'[c].rows
    BY <1>1, <2>1, <2>3 DEF Handed
  <2>10. Handed(c, m + 1)'
    BY <1>1, <2>1, <2>2, <2>4, <2>5, <2>6, <2>7, <2>8, <2>9 DEF Handed
  <2>11. QED
    BY <2>10
<1>8. CASE FetchNothing(i)
  <2>1. /\ pc[i] = "next" /\ at[i] = c /\ iteration_index >= num_iterations
        /\ iteration_index' = iteration_index + 1
        /\ pc'[i] \in {"between", "done"}
        /\ UNCHANGED <<nested_scheduler, num_iterations, iter, at, times, aborted>>
    BY <1>2, <1>3, <1>8 DEF FetchNothing, HasIteration, Goto, InScheduler
  <2>2. iteration_index' >= num_iterations'
    BY <1>2, <2>1
  <2>3. Started' /\ num_iterations' = script'[c].rows
    BY <1>1, <2>1 DEF Started, TypeInv, Where, InScheduler, Handed
  <2>4. m <= num_iterations' /\ (~aborted' => m = Least(iteration_index', num_iterations'))
    BY <1>2, <2>1, <2>2 DEF Handed, Least
  <2>5. \A h \in AllThreads : pc'[h] = "call" <=> pc[h] = "call"
    BY <1>1, <2>1
  <2>6. /\ \A h \in AllThreads : pc'[h] = "call" => iter'[h] < m
        /\ \A h, k \in AllThreads :
             h # k /\ pc'[h] = "call" /\ pc'[k] = "call" => iter'[h] # iter'[k]
    BY <2>1, <2>5 DEF Handed
  <2>7. \A r \in 0 .. script'[c].rows - 1 :
          times'[c][r] = IF r < m /\ ~\E h \in AllThreads : Calls(h, r)' THEN 1 ELSE 0
    BY <1>1, <2>1, <2>5 DEF Handed, Calls
  <2>8. Handed(c, m)'
    BY <2>2, <2>3, <2>4, <2>6, <2>7 DEF Handed
  <2>9. QED
    BY <2>8
<1>9. CASE CallIteration(i) \/ Throw(i) \/ (ThrowInRegion(i) /\ pc[i] # "between")
  <2>1. /\ pc[i] = "call" /\ at[i] = c
        /\ pc'[i] \in {"next", "catch", "threw"}
        /\ times' = [times EXCEPT ![c][iter[i]] = @ + 1]
        /\ UNCHANGED <<nested_scheduler, num_iterations, iteration_index, iter, at, aborted>>
    BY <1>2, <1>3, <1>9 DEF CallIteration, Throw, ThrowInRegion, Goto, InScheduler, sched
  <2>2. iter[i] < m /\ \A h \in AllThreads \ {i} : pc[h] = "call" => iter[h] # iter[i]
    BY <2>1 DEF Handed
  <2>3. ASSUME NEW r \in 0 .. script[c].rows - 1
        PROVE  times'[c][r] = IF r < m /\ ~\E h \in AllThreads : Calls(h, r)' THEN 1 ELSE 0
    <3>1. times[c][r] = IF r < m /\ ~\E h \in AllThreads : Calls(h, r) THEN 1 ELSE 0
      BY DEF Handed
    <3>2. times'[c][r] = IF r = iter[i] THEN times[c][r] + 1 ELSE times[c][r]
      BY <2>1 DEF Counted
    <3>3. CASE r = iter[i]
      <4>1. Calls(i, r) /\ \A h \in AllThreads : ~Calls(h, r)'
        BY <1>1, <2>1, <2>2, <3>3 DEF Calls
      <4>2. QED
        BY <3>1, <3>2, <3>3, <4>1, <2>2
    <3>4. CASE r # iter[i]
      <4>1. \A h \in AllThreads : Calls(h, r)' <=> Calls(h, r)
        BY <1>1, <2>1, <3>4 DEF Calls
      <4>2. QED
        BY <3>1, <3>2, <3>4, <4>1
    <3>5. QED
      BY <3>3, <3>4
  <2>4. \A h \in AllThreads : pc'[h] = "call" => pc[h] = "call"
    BY <1>1, <2>1
  <2>5. /\ \A h \in AllThreads : pc'[h] = "call" => iter'[h] < m
        /\ \A h, k \in AllThreads :
             h # k /\ pc'[h] = "call" /\ pc'[k] = "call" => iter'[h] # iter'[k]
    BY <2>1, <2>4 DEF Handed
  <2>6. Started' = Started
    BY <1>1, <2>1 DEF Started
  <2>7. \A h \in Threads : Past(h, c)' => Started' /\ iteration_index' >= num_iterations'
    <3>1. ~Past(i, c)'
      BY <1>2, <2>1 DEF Past
    <3>2. QED
      BY <1>4, <2>1, <2>6, <3>1 DEF Handed
  <2>8. /\ Started' => num_iterations' = script'[c].rows
        /\ m <= num_iterations'
        /\ ~aborted' => m = Least(iteration_index', num_iterations')
        /\ aborted' => iteration_index' >= num_iterations'
    BY <1>1, <2>1, <2>6 DEF Handed
  <2>9. Handed(c, m)'
    BY <1>1, <2>3, <2>5, <2>7, <2>8 DEF Handed
  <2>10. QED
    BY <2>9
<1>10. CASE Catch(i) \/ AbortAgain(i)
  <2>1. Handles(i)
    BY <1>10 DEF Catch, AbortAgain, Handles
  <2>2. QED
    BY <2>1, HandledRows
<1>11. QED
  BY <1>5, <1>6, <1>7, <1>8, <1>9, <1>10 DEF Step

LEMMA RowsOfStep ==
  ASSUME TeamAssumption, TypeInv, Rows, NEW i \in AllThreads, Step(i), pc[i] = "abort" => aborted
  PROVE  Rows'
<1>1. script' = script
  BY StepEffects
<1>2. Dynamics'
  BY <1>1, HandedStep DEF Rows, Dynamics
<1>3. QED
  BY <1>1, <1>2, CountedStep, StaticsStep DEF Rows, OneDynamic

\* The rows depend on the team, the scheduler and the places of the threads only.
LEMMA RowsStay == ASSUME Rows, UNCHANGED vars PROVE Rows'
<1>1. Counted' /\ OneDynamic'
  BY DEF Rows, Counted, OneDynamic, vars, team
<1>2. Statics'
  <2>1. ASSUME NEW o \in Threads, NEW c \in DOMAIN script, NEW r \in 0 .. script[c].rows - 1,
               Owns(o, c, r)
        PROVE  Owns(o, c, r)'
    BY <2>1 DEF Owns, vars, team, Threads
  <2>2. QED
    BY <2>1 DEF Rows, Statics, vars, team, Threads
<1>3. Dynamics'
  <2>1. ASSUME NEW c \in DOMAIN script, NEW m \in Nat, Handed(c, m) PROVE Handed(c, m)'
    BY <2>1 DEF Handed, Started, Calls, Past, Threads, vars, team, sched
  <2>2. QED
    BY <2>1 DEF Rows, Dynamics, vars, team
<1>4. QED
  BY <1>1, <1>2, <1>3 DEF Rows

\* The inductive invariant, when there is one dynamic loop at most.
TeamInv == TypeInv /\ Rounds /\ Rows

\* In this module a loop is aborted as soon as an exception is caught.
AbortedInCatch == \A i \in AllThreads : pc[i] = "abort" => aborted

LEMMA AbortedStep ==
  ASSUME TeamAssumption, TypeInv, AbortedInCatch, [Next]_vars PROVE AbortedInCatch'
<1>1. CASE UNCHANGED vars
  BY <1>1 DEF vars, AbortedInCatch
<1>2. ASSUME NEW i \in AllThreads, Step(i) PROVE AbortedInCatch'
  <2>1. /\ \A h \in AllThreads \ {i} : pc'[h] = pc[h]
        /\ pc \in [AllThreads -> {pc[h] : h \in AllThreads}]
    BY <1>2, StepEffects DEF TypeInv, TypeOK
  <2>2. CASE Catch(i)
    BY <2>1, <2>2 DEF Catch, AbortedInCatch
  <2>3. CASE ~Catch(i)
    <3>1. pc'[i] # "abort" /\ aborted' = aborted
      BY <1>2, <2>1, <2>3 DEF Step, Leave, ArriveAtBarrier, PassBarrier, StaticLoop,
         LookUpScheduler, CreateScheduler, FetchIteration, FetchNothing, CallIteration, Throw,
         AbortAgain, ThrowInRegion, Enter, Goto
    <3>2. QED
      BY <2>1, <3>1 DEF AbortedInCatch
  <2>4. QED
    BY <2>2, <2>3
<1>3. QED
  BY <1>1, <1>2 DEF Next

\* A step of a thread in the team, when the loop has been aborted where it should ...
LEMMA TeamStep ==
  ASSUME TeamAssumption, TeamInv, NEW i \in AllThreads, Step(i), pc[i] = "abort" => aborted
  PROVE  TeamInv'
<1>1. Next
  BY DEF Next
<1>2. QED
  BY <1>1, TypeStep, RoundsStep, RowsOfStep DEF TeamInv

LEMMA TeamStays == ASSUME TeamAssumption, TeamInv, UNCHANGED vars PROVE TeamInv'
BY TypeStep, RoundsStep, RowsStay DEF TeamInv

\* ... and one that handles an exception: a pool may save it first, and abort the loop then.
LEMMA HandledStep ==
  ASSUME TeamAssumption, TeamInv, NEW i \in AllThreads, Handles(i)
  PROVE  TeamInv'
<1>1. TypeInv /\ Rounds /\ Rows
  BY DEF TeamInv
<1>2. /\ UNCHANGED <<entry, script, nthreads_in, nthreads, barrier_counter, nested_scheduler,
                     num_iterations, iter, at, n_target, times>>
      /\ Threads' = Threads /\ Started' = Started
  BY DEF Handles, team, Threads, Started
<1>3. /\ i \in Threads /\ Threads \subseteq AllThreads
      /\ pc[i] \in {"catch", "abort"} /\ pc'[i] \in {"abort", "next"}
      /\ \A h \in AllThreads \ {i} : pc'[h] = pc[h]
      /\ pc' \in [AllThreads -> {"between", "barrier", "create", "next", "call", "catch", "abort",
                                 "done", "threw"}]
  <2>1. pc \in [AllThreads -> {"between", "barrier", "create", "next", "call", "catch", "abort",
                               "done", "threw"}]
    BY <1>1 DEF TypeInv, TypeOK
  <2>2. pc[i] \in {"catch", "abort"}
    BY DEF Handles
  <2>3. PICK label \in {"abort", "next"} : pc' = [pc EXCEPT ![i] = label]
    BY DEF Handles, Goto
  <2>4. i \in Threads /\ Threads \subseteq AllThreads
    BY <1>1, <2>2 DEF TypeInv, TypeOK, Where, Threads, AllThreads, TeamAssumption
  <2>5. QED
    BY <2>1, <2>2, <2>3, <2>4
<1>4. entry = "dynamic" /\ Started
  BY <1>1, <1>3 DEF TypeInv, Where, InScheduler
<1>5. iteration_index' \in Nat /\ aborted' \in BOOLEAN
  BY <1>1 DEF Handles, AbortExecution, TypeInv, TypeOK
<1>6. Scripted'
  BY <1>1, <1>2 DEF TypeInv, Scripted
<1>7. TypeOK'
  BY <1>1, <1>2, <1>3, <1>5 DEF TypeInv, TypeOK
<1>8. Where'
  BY <1>1, <1>2, <1>3, <1>4 DEF TypeInv, Where, InScheduler
<1>9. Rounds'
  <2>1. PICK k \in Nat : Round(k)
    BY <1>1 DEF Rounds
  <2>2. Barriers(script, at[i]) = k
    BY <1>3, <2>1, NotArrived
  <2>3. Round(k)'
    BY <1>2, <1>3, <2>1, <2>2, RoundKeeps
  <2>4. QED
    BY <2>3 DEF Rounds
<1>10. Counted' /\ OneDynamic'
  BY <1>1, <1>2 DEF Rows, Counted, OneDynamic
<1>11. Statics'
  <2>1. ASSUME NEW o \in Threads, NEW c \in DOMAIN script, NEW r \in 0 .. script[c].rows - 1,
               Owns(o, c, r)
        PROVE  Owns(o, c, r)'
    BY <1>2, <2>1 DEF Owns
  <2>2. QED
    BY <1>1, <1>2, <2>1 DEF Rows, Statics
<1>12. Dynamics'
  <2>1. ASSUME NEW c \in DOMAIN script, script[c].kind = "dynamic", NEW m \in Nat, Handed(c, m)
        PROVE  Handed(c, m)'
    BY <1>1, <2>1, HandledRows DEF Rows
  <2>2. QED
    BY <1>1, <1>2, <2>1 DEF Rows, Dynamics
<1>13. QED
  BY <1>6, <1>7, <1>8, <1>9, <1>10, <1>11, <1>12 DEF TeamInv, TypeInv, Rows

\* The invariant holds in every state.
THEOREM TeamInvariance == ASSUME TeamAssumption, MaxDynamic <= 1 PROVE Spec => []TeamInv
<1>1. Init => TeamInv /\ AbortedInCatch
  <2>1. ASSUME Init PROVE \A i \in AllThreads : pc[i] # "abort"
    BY <2>1, InitFacts
  <2>2. QED
    BY <2>1, TypeInit, RoundsInit, RowsInit DEF TeamInv, AbortedInCatch
<1>2. TeamInv /\ AbortedInCatch /\ [Next]_vars => (TeamInv /\ AbortedInCatch)'
  <2> SUFFICES ASSUME TeamInv, AbortedInCatch, [Next]_vars PROVE TeamInv' /\ AbortedInCatch'
    OBVIOUS
  <2>1. TypeInv' /\ Rounds' /\ AbortedInCatch'
    BY TypeStep, RoundsStep, AbortedStep DEF TeamInv
  <2>2. ASSUME NEW i \in AllThreads, Step(i) PROVE Rows'
    BY <2>2, RowsOfStep DEF TeamInv, AbortedInCatch
  <2>3. QED
    BY <2>1, <2>2, RowsStay DEF TeamInv, Next
<1>3. QED
  BY <1>1, <1>2, PTL DEF Spec

LEMMA RowsOnce == ASSUME TeamInv PROVE RowsAtMostOnce
<1>1. SUFFICES ASSUME NEW c \in DOMAIN script, NEW r \in DOMAIN times[c]
               PROVE  times[c][r] <= 1
  BY DEF RowsAtMostOnce
<1>2. r \in 0 .. script[c].rows - 1
  BY DEF TeamInv, Rows, Counted
<1>3. CASE script[c].kind = "barrier"
  BY <1>2, <1>3 DEF TeamInv, TypeInv, Scripted
<1>4. CASE script[c].kind = "static"
  BY <1>2, <1>4 DEF TeamInv, Rows, Statics
<1>5. CASE script[c].kind = "dynamic"
  <2>1. PICK m \in Nat : Handed(c, m)
    BY <1>5 DEF TeamInv, Rows, Dynamics
  <2>2. QED
    BY <1>2, <2>1 DEF Handed
<1>6. QED
  BY <1>3, <1>4, <1>5 DEF TeamInv, TypeInv, Scripted, Kinds

LEMMA Completeness == ASSUME TeamAssumption, TeamInv PROVE LoopsAreComplete
<1>1. SUFFICES ASSUME NEW c \in DOMAIN script,
                      \A i \in Threads :
                        Past(i, c) \/ (pc[i] = "threw" /\ script[c].kind = "dynamic"),
                      \E i \in Threads : Past(i, c), ~aborted,
                      NEW r \in DOMAIN times[c]
               PROVE  times[c][r] = 1
  BY DEF LoopsAreComplete, Complete
<1>2. r \in 0 .. script[c].rows - 1 /\ c \in Nat /\ script[c].rows \in Nat
  BY DEF TeamInv, Rows, Counted, TypeInv, Scripted
<1>3. Threads \subseteq AllThreads /\ \A i \in AllThreads : at[i] \in Nat
  <2>1. Threads \subseteq AllThreads
    BY DEF TeamInv, TypeInv, TypeOK, Threads, AllThreads, TeamAssumption
  <2>2. QED
    BY <2>1 DEF TeamInv, TypeInv, TypeOK, Scripted
<1>4. CASE script[c].kind = "barrier"
  BY <1>2, <1>4 DEF TeamInv, TypeInv, Scripted
<1>5. CASE script[c].kind = "static"
  <2>1. PICK o \in Threads : times[c][r] = IF at[o] >= c THEN 1 ELSE 0
    BY <1>2, <1>5 DEF TeamInv, Rows, Statics
  <2>2. at[o] >= c
    BY <1>1, <1>2, <1>3, <1>5 DEF Past
  <2>3. QED
    BY <2>1, <2>2
<1>6. CASE script[c].kind = "dynamic"
  <2>1. PICK m \in Nat : Handed(c, m)
    BY <1>6 DEF TeamInv, Rows, Dynamics
  <2>2. iteration_index >= num_iterations /\ num_iterations = script[c].rows
    BY <1>1, <2>1 DEF Handed
  <2>3. m = script[c].rows
    <3>1. num_iterations \in Nat /\ iteration_index \in Nat
      BY DEF TeamInv, TypeInv, TypeOK
    <3>2. QED
      BY <1>1, <2>1, <2>2, <3>1 DEF Handed, Least
  <2>4. \A i \in AllThreads : ~Calls(i, r)
    <3>1. SUFFICES ASSUME NEW i \in AllThreads, pc[i] = "call" PROVE FALSE
      BY DEF Calls
    <3>2. i \in Threads /\ at[i] = c
      BY <1>6, <3>1 DEF TeamInv, TypeInv, Where, InScheduler, Rows, OneDynamic
    <3>3. QED
      BY <1>1, <1>2, <3>1, <3>2 DEF Past
  <2>5. QED
    BY <1>2, <2>1, <2>3, <2>4 DEF Handed
<1>7. QED
  BY <1>4, <1>5, <1>6 DEF TeamInv, TypeInv, Scripted, Kinds

\* What the barrier itself does, whatever the loops are.
AllHaveCome ==
  \A c \in DOMAIN script : \A i \in Threads :
    script[c].kind = "barrier" /\ Past(i, c) => \A h \in Threads : at[h] >= c

LEMMA RoundsKeepTogether == ASSUME TeamAssumption, TypeInv, Rounds PROVE AllHaveCome
<1>1. SUFFICES ASSUME NEW c \in DOMAIN script, NEW i \in Threads,
                      script[c].kind = "barrier", Past(i, c)
               PROVE  \A h \in Threads : at[h] >= c
  BY DEF AllHaveCome
<1>2. PICK k \in Nat : Round(k)
  BY DEF Rounds
<1>3. c \in Nat \ {0} /\ DOMAIN script = 1 .. Len(script) /\ Len(script) \in Nat
  BY DEF TypeInv, Scripted
<1>4. ASSUME NEW h \in Threads
      PROVE  at[h] \in Nat /\ Barriers(script, at[h]) \in {k, k + 1}
             /\ (Barriers(script, at[h]) = k + 1 =>
                   pc[h] = "barrier" /\ script[at[h]].kind = "barrier")
  <2>1. h \in AllThreads
    BY <1>4 DEF TypeInv, TypeOK, Threads, AllThreads, TeamAssumption
  <2>2. QED
    BY <1>2, <2>1 DEF Round, TypeInv, TypeOK, Scripted, Where
<1>5. Barriers(script, c) <= k
  <2>1. Barriers(script, c) \in Nat
    BY <1>3, BarriersFinite
  <2>2. CASE at[i] > c
    <3>1. CASE Barriers(script, at[i]) = k
      <4>1. Barriers(script, c) <= Barriers(script, at[i])
        BY <1>3, <1>4, <2>2, BarriersMonotone
      <4>2. QED
        BY <3>1, <4>1
    <3>2. CASE Barriers(script, at[i]) = k + 1
      <4>1. Barriers(script, c) < Barriers(script, at[i])
        BY <1>3, <1>4, <2>2, <3>2, BarriersMonotone
      <4>2. QED
        BY <2>1, <3>2, <4>1
    <3>3. QED
      BY <1>4, <3>1, <3>2
  <2>3. CASE at[i] = c /\ pc[i] \in {"between", "done"}
    BY <1>4, <2>1, <2>3
  <2>4. QED
    BY <1>1, <2>2, <2>3 DEF Past
<1>6. ASSUME NEW h \in Threads PROVE at[h] >= c
  <2>1. SUFFICES ASSUME at[h] < c PROVE FALSE
    BY <1>3, <1>4
  <2>2. Barriers(script, at[h]) < Barriers(script, c)
    BY <1>1, <1>3, <1>4, <2>1, BarriersMonotone
  <2>3. Barriers(script, c) \in Nat
    BY <1>3, BarriersFinite
  <2>4. QED
    BY <1>4, <1>5, <2>2, <2>3
<1>7. QED
  BY <1>6

LEMMA Separation == ASSUME TeamAssumption, TeamInv PROVE BarrierSeparates
<1>1. SUFFICES ASSUME NEW c \in DOMAIN script, NEW i \in Threads,
                      script[c].kind = "barrier", Past(i, c)
               PROVE  /\ \A h \in Threads : at[h] >= c
                      /\ \A d \in 1 .. c - 1 : Complete(d)
  BY DEF BarrierSeparates
<1>2. \A h \in Threads : at[h] >= c
  BY <1>1, RoundsKeepTogether DEF TeamInv, AllHaveCome
<1>3. /\ c \in Nat \ {0} /\ DOMAIN script = 1 .. Len(script) /\ Len(script) \in Nat
      /\ \A h \in Threads : at[h] \in Nat
  <2>1. Threads \subseteq AllThreads
    BY DEF TeamInv, TypeInv, TypeOK, Threads, AllThreads, TeamAssumption
  <2>2. QED
    BY <2>1 DEF TeamInv, TypeInv, TypeOK, Scripted
<1>4. ASSUME NEW d \in 1 .. c - 1 PROVE Complete(d)
  <2>1. d \in DOMAIN script /\ d < c
    BY <1>3
  <2>2. \A h \in Threads : Past(h, d)
    BY <1>2, <1>3, <2>1 DEF Past
  <2>3. ~aborted
    <3>1. entry # "dynamic"
      BY <1>1, <1>3 DEF TeamInv, TypeInv, Scripted
    <3>2. QED
      BY <3>1 DEF TeamInv, TypeInv, Where
  <2>4. QED
    BY <1>1, <2>1, <2>2, <2>3, Completeness DEF LoopsAreComplete
<1>5. QED
  BY <1>2, <1>4

LEMMA AbortStops == ASSUME TeamAssumption, TeamInv PROVE AbortStopsLoop
<1>1. SUFFICES ASSUME aborted
               PROVE  /\ iteration_index >= num_iterations
                      /\ (\A i \in Threads : pc[i] = "done") =>
                           \A r \in DOMAIN times[1] : \A q \in 0 .. r :
                             times[1][r] = 1 => times[1][q] = 1
  BY DEF AbortStopsLoop
<1>2. 1 \in DOMAIN script /\ script[1].kind = "dynamic"
  BY <1>1 DEF TeamInv, TypeInv, Where, Scripted
<1>3. PICK m \in Nat : Handed(1, m)
  BY <1>2 DEF TeamInv, Rows, Dynamics
<1>4. ASSUME \A i \in Threads : pc[i] = "done",
             NEW r \in DOMAIN times[1], NEW q \in 0 .. r, times[1][r] = 1
      PROVE  times[1][q] = 1
  <2>1. r \in 0 .. script[1].rows - 1 /\ script[1].rows \in Nat
    BY <1>2 DEF TeamInv, Rows, Counted, TypeInv, Scripted
  <2>2. q \in 0 .. script[1].rows - 1 /\ q <= r /\ q \in Nat /\ r \in Nat
    BY <2>1
  <2>3. \A i \in AllThreads : ~Calls(i, q)
    BY <1>4 DEF TeamInv, TypeInv, Where, Calls
  <2>4. r < m
    BY <1>3, <1>4, <2>1 DEF Handed
  <2>5. q < m
    BY <2>2, <2>4
  <2>6. QED
    BY <1>3, <2>2, <2>3, <2>5 DEF Handed
<1>5. QED
  BY <1>1, <1>3, <1>4 DEF Handed
-----------------------------------------------------------------------------
\* No row is executed twice, whoever makes the shared scheduler and however the chunks fall.
\* With two dynamic loops in a region this is false: the second one gets the scheduler of
\* the first.
THEOREM RowsExecutedOnce ==
  ASSUME TeamAssumption, MaxDynamic <= 1 PROVE Spec => []RowsAtMostOnce
<1>1. TeamInv => RowsAtMostOnce
  BY RowsOnce
<1>2. QED
  BY <1>1, TeamInvariance, PTL

\* When all the threads have left a loop that nobody aborted, every row has been executed.
THEOREM EveryRowExecuted ==
  ASSUME TeamAssumption, MaxDynamic <= 1 PROVE Spec => []LoopsAreComplete
<1>1. TeamInv => LoopsAreComplete
  BY Completeness
<1>2. QED
  BY <1>1, TeamInvariance, PTL

\* Nobody leaves a barrier of thread_team::wait_at_barrier() before all the team has come to
\* it, however many barriers there are and however many dynamic loops between them.
THEOREM BarriersHold == ASSUME TeamAssumption PROVE Spec => []AllHaveCome
<1>1. Init => TypeInv /\ Rounds
  BY TypeInit, RoundsInit
<1>2. TypeInv /\ Rounds /\ [Next]_vars => (TypeInv /\ Rounds)'
  BY TypeStep, RoundsStep
<1>3. TypeInv /\ Rounds => AllHaveCome
  BY RoundsKeepTogether
<1>4. QED
  BY <1>1, <1>2, <1>3, PTL DEF Spec

\* ... and the loops before the barrier are complete then.
THEOREM BarriersSeparate ==
  ASSUME TeamAssumption, MaxDynamic <= 1 PROVE Spec => []BarrierSeparates
<1>1. TeamInv => BarrierSeparates
  BY Separation
<1>2. QED
  BY <1>1, TeamInvariance, PTL

\* After abort_execution() nobody gets an iteration any more, and the rows that have been
\* executed in the end are the first ones.
THEOREM AbortsStopLoops ==
  ASSUME TeamAssumption, MaxDynamic <= 1 PROVE Spec => []AbortStopsLoop
<1>1. TeamInv => AbortStopsLoop
  BY AbortStops
<1>2. QED
  BY <1>1, TeamInvariance, PTL
=============================================================================
