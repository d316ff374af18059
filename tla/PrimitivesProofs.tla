--------------------------- MODULE PrimitivesProofs ---------------------------
(***************************************************************************)
(* The LightweightSemaphore implements the abstract Semaphore, for every   *)
(* number of waiters, every spin count and every release_count.  For any   *)
(* set of threads, the three locks implement ReadWriteLock, the word       *)
(* `state` is exact, and nobody sleeps without somebody to wake it.        *)
(***************************************************************************)
EXTENDS Primitives, FiniteSetTheorems, TLAPS

(***************************************************************************)
(* The semaphore.  What has to be known is how many threads are in the     *)
(* queue (CountIsQueue), and that an exchange is tried with a positive     *)
(* value only.                                                             *)
(***************************************************************************)
SemaphoreInv ==
  /\ TypeOK
  /\ CountIsQueue
  /\ \A i \in Waiters : pc[i] = "exchange" => old[i] > 0

LEMMA BlockedFinite == IsFiniteSet(Blocked) /\ Cardinality(Blocked) \in Nat
<1>1. Blocked \subseteq Waiters
  BY DEF Blocked
<1>2. QED
  BY <1>1, WaitersAssumption, FS_Subset, FS_CardinalityType

LEMMA SemaphoreInitInv == Init => SemaphoreInv
<1> SUFFICES ASSUME Init PROVE SemaphoreInv
  OBVIOUS
<1>1. TypeOK /\ \A i \in Waiters : pc[i] = "exchange" => old[i] > 0
  BY SpinCountAssumption DEF Init, TypeOK
<1>2. Blocked = {}
  BY DEF Init, Blocked
<1>3. CountIsQueue
  BY <1>2, FS_EmptySet DEF Init, CountIsQueue
<1>4. QED
  BY <1>1, <1>3 DEF SemaphoreInv

\* A retry moves the thread to "load" or to "subtract", and counts down.
LEMMA RetryMoves ==
  ASSUME NEW i \in Waiters, TypeOK, Retry(i)
  PROVE  /\ spins' \in [Waiters -> 0 .. SpinCount]
         /\ pc' = [pc EXCEPT ![i] = "load"] \/ pc' = [pc EXCEPT ![i] = "subtract"]
<1>1. CASE spins[i] > 0
  BY <1>1, SpinCountAssumption DEF Retry, TypeOK
<1>2. CASE ~(spins[i] > 0)
  BY <1>2 DEF Retry, TypeOK
<1>3. QED
  BY <1>1, <1>2

\* The steps that leave the queue as it is.
LEMMA SameQueue ==
  ASSUME NEW i \in Waiters, NEW label, label # "blocked", pc[i] # "blocked", TypeOK,
         pc' = [pc EXCEPT ![i] = label]
  PROVE  Blocked' = Blocked
BY DEF Blocked, TypeOK

\* The fetch_sub() of a waiter.
LEMMA SubtractInv == ASSUME NEW i \in Waiters, SemaphoreInv, Subtract(i) PROVE SemaphoreInv'
<1> USE DEF SemaphoreInv
<1>1. TypeOK' /\ \A j \in Waiters : pc'[j] = "exchange" => old'[j] > 0
  BY DEF Subtract, TypeOK
<1>2. CASE m_count > 0
  <2>1. Blocked' = Blocked
    BY <1>2, SameQueue DEF Subtract, GotToken
  <2>2. QED
    BY <1>1, <1>2, <2>1 DEF CountIsQueue, Subtract, TypeOK
<1>3. CASE ~(m_count > 0)
  <2>1. Blocked' = Blocked \cup {i} /\ i \notin Blocked
    BY <1>3 DEF Subtract, Blocked, TypeOK, GotToken
  <2>2. Cardinality(Blocked') = Cardinality(Blocked) + 1
    BY <2>1, BlockedFinite, FS_AddElement
  <2>3. QED
    BY <1>1, <1>3, <2>2, BlockedFinite DEF CountIsQueue, Subtract, TypeOK
<1>4. QED
  BY <1>2, <1>3

\* The return of a waiter from the queue.
LEMMA UnblockInv ==
  ASSUME NEW i \in Waiters, SemaphoreInv, Unblock(i)
  PROVE  SemaphoreInv' /\ Cardinality(Blocked') = Cardinality(Blocked) - 1
<1> USE DEF SemaphoreInv
<1>1. TypeOK' /\ \A j \in Waiters : pc'[j] = "exchange" => old'[j] > 0
  BY DEF Unblock, TypeOK
<1>2. Blocked' = Blocked \ {i} /\ i \in Blocked
  BY DEF Unblock, Blocked, TypeOK
<1>3. Cardinality(Blocked') = Cardinality(Blocked) - 1
  BY <1>2, BlockedFinite, FS_RemoveElement
<1>4. QED
  BY <1>1, <1>3, BlockedFinite DEF CountIsQueue, Unblock, TypeOK

LEMMA SemaphoreStepInv == SemaphoreInv /\ [Next]_vars => SemaphoreInv'
<1> SUFFICES ASSUME SemaphoreInv, [Next]_vars PROVE SemaphoreInv'
  OBVIOUS
<1> USE DEF SemaphoreInv
<1>1. ASSUME NEW n \in 1 .. MaxSignal, Signal(n) PROVE SemaphoreInv'
  <2>1. Blocked' = Blocked
    BY <1>1 DEF Signal, Blocked
  <2>2. QED
    BY <1>1, <2>1, BlockedFinite
       DEF Signal, ToRelease, Least, CountIsQueue, TypeOK
<1>2. CASE Post
  <2>1. Blocked' = Blocked
    BY <1>2 DEF Post, Blocked
  <2>2. QED
    BY <1>2, <2>1 DEF Post, CountIsQueue, TypeOK
<1>3. ASSUME NEW i \in Waiters, Wait(i) PROVE SemaphoreInv'
  <2>1. Blocked' = Blocked
    BY <1>3, SameQueue DEF Wait
  <2>2. QED
    BY <1>3, <2>1, SpinCountAssumption DEF Wait, CountIsQueue, TypeOK
<1>4. ASSUME NEW i \in Waiters, LoadPositive(i) PROVE SemaphoreInv'
  <2>1. Blocked' = Blocked
    BY <1>4, SameQueue DEF LoadPositive
  <2>2. QED
    BY <1>4, <2>1 DEF LoadPositive, CountIsQueue, TypeOK
<1>5. ASSUME NEW i \in Waiters, LoadNothing(i) PROVE SemaphoreInv'
  <2>1. Blocked' = Blocked
    BY <1>5, RetryMoves, SameQueue DEF LoadNothing
  <2>2. QED
    BY <1>5, <2>1, RetryMoves DEF LoadNothing, CountIsQueue, TypeOK
<1>6. ASSUME NEW i \in Waiters, ExchangeSucceeds(i) PROVE SemaphoreInv'
  <2>1. Blocked' = Blocked
    BY <1>6, SameQueue DEF ExchangeSucceeds
  <2>2. QED
    BY <1>6, <2>1 DEF ExchangeSucceeds, CountIsQueue, TypeOK
<1>7. ASSUME NEW i \in Waiters, ExchangeFails(i) PROVE SemaphoreInv'
  <2>1. Blocked' = Blocked
    BY <1>7, RetryMoves, SameQueue DEF ExchangeFails
  <2>2. QED
    BY <1>7, <2>1, RetryMoves DEF ExchangeFails, CountIsQueue, TypeOK
<1>8. CASE UNCHANGED vars
  BY <1>8 DEF vars, CountIsQueue, Blocked, TypeOK
<1>9. QED
  BY <1>1, <1>2, <1>3, <1>4, <1>5, <1>6, <1>7, <1>8, SubtractInv, UnblockInv DEF Next, Step

THEOREM SemaphoreInvariance == Spec => []SemaphoreInv
BY SemaphoreInitInv, SemaphoreStepInv, PTL DEF Spec

\* CountIsQueue, and that neither the posted nor the unposted tokens become negative.
THEOREM QueueIsCounted == Spec => []CountIsQueue
<1>1. SemaphoreInv => CountIsQueue
  BY DEF SemaphoreInv
<1>2. QED
  BY <1>1, SemaphoreInvariance, PTL
-----------------------------------------------------------------------------
(***************************************************************************)
(* The refinement.                                                         *)
(***************************************************************************)
Inside == {i \in Waiters : pc[i] # "out"}

\* A waiter that stays inside, without touching a token.
LEMMA StaysInside ==
  ASSUME NEW i \in Waiters, NEW label, label \notin {"out", "blocked"},
         pc[i] \notin {"out", "blocked"}, TypeOK, pc' = [pc EXCEPT ![i] = label],
         m_count' = m_count
  PROVE  UNCHANGED Semaphore!vars
<1>1. Blocked' = Blocked
  BY SameQueue
<1>2. Inside' = Inside
  BY DEF Inside, TypeOK
<1>3. QED
  BY <1>1, <1>2 DEF Semaphore!vars, Tokens, Inside

LEMMA TakesToken ==
  ASSUME NEW i \in Waiters, TypeOK, pc[i] # "out", pc' = [pc EXCEPT ![i] = "out"],
         Tokens > 0, Tokens' = Tokens - 1
  PROVE  Semaphore!Take(i)
<1>1. Inside' = Inside \ {i} /\ i \in Inside
  BY DEF Inside, TypeOK
<1>2. QED
  BY <1>1 DEF Semaphore!Take, Inside

LEMMA SemaphoreStepRefines == SemaphoreInv /\ [Next]_vars => [Semaphore!Next]_(Semaphore!vars)
<1> SUFFICES ASSUME SemaphoreInv, [Next]_vars PROVE [Semaphore!Next]_(Semaphore!vars)
  OBVIOUS
<1> TypeOK /\ CountIsQueue /\ Cardinality(Blocked) \in Nat /\ m_count \in Int
  BY BlockedFinite DEF SemaphoreInv, TypeOK
<1>1. ASSUME NEW n \in 1 .. MaxSignal, Signal(n) PROVE Semaphore!Next
  <2>1. Blocked' = Blocked /\ Inside' = Inside
    BY <1>1 DEF Signal, Blocked, Inside
  <2>2. Tokens' = Tokens + n /\ Tokens \in Nat
    BY <1>1, <2>1 DEF Signal, Tokens, CountIsQueue, TypeOK
  <2>3. Tokens' \in Nat /\ Tokens' > Tokens
    BY <2>2
  <2>4. QED
    BY <2>1, <2>3 DEF Semaphore!Next, Semaphore!Signal, Inside
<1>2. CASE Post
  BY <1>2 DEF Post, Semaphore!vars, Tokens, Blocked
<1>3. ASSUME NEW i \in Waiters, Wait(i) PROVE Semaphore!Next
  <2>1. Blocked' = Blocked
    BY <1>3, SameQueue DEF Wait
  <2>2. Inside' = Inside \cup {i} /\ i \notin Inside
    BY <1>3 DEF Wait, Inside, TypeOK
  <2>3. Semaphore!Wait(i)
    BY <1>3, <2>1, <2>2 DEF Wait, Semaphore!Wait, Tokens, Inside
  <2>4. QED
    BY <2>3 DEF Semaphore!Next
<1>4. ASSUME NEW i \in Waiters, LoadPositive(i) PROVE UNCHANGED Semaphore!vars
  BY <1>4, StaysInside DEF LoadPositive
<1>5. ASSUME NEW i \in Waiters, LoadNothing(i) PROVE UNCHANGED Semaphore!vars
  BY <1>5, RetryMoves, StaysInside DEF LoadNothing
<1>6. ASSUME NEW i \in Waiters, ExchangeSucceeds(i) PROVE Semaphore!Next
  <2>1. m_count > 0 /\ m_count' = m_count - 1 /\ Blocked' = Blocked
    BY <1>6, SameQueue DEF ExchangeSucceeds, SemaphoreInv
  <2>2. Tokens > 0 /\ Tokens' = Tokens - 1
    BY <2>1 DEF Tokens
  <2>3. pc[i] # "out" /\ pc' = [pc EXCEPT ![i] = "out"]
    BY <1>6 DEF ExchangeSucceeds
  <2>4. Semaphore!Take(i)
    BY <2>2, <2>3, TakesToken
  <2>5. QED
    BY <2>4 DEF Semaphore!Next
<1>7. ASSUME NEW i \in Waiters, ExchangeFails(i) PROVE UNCHANGED Semaphore!vars
  BY <1>7, RetryMoves, StaysInside DEF ExchangeFails
<1>8. ASSUME NEW i \in Waiters, Subtract(i) PROVE [Semaphore!Next]_(Semaphore!vars)
  <2>1. CASE m_count > 0
    <3>1. Blocked' = Blocked
      BY <1>8, <2>1, SameQueue DEF Subtract, GotToken
    <3>2. Tokens > 0 /\ Tokens' = Tokens - 1
      BY <1>8, <2>1, <3>1 DEF Subtract, Tokens
    <3>3. pc[i] # "out" /\ pc' = [pc EXCEPT ![i] = "out"]
      BY <1>8, <2>1 DEF Subtract, GotToken
    <3>4. Semaphore!Take(i)
      BY <3>2, <3>3, TakesToken
    <3>5. QED
      BY <3>4 DEF Semaphore!Next
  <2>2. CASE ~(m_count > 0)
    <3>1. Blocked' = Blocked \cup {i} /\ i \notin Blocked
      BY <1>8, <2>2 DEF Subtract, Blocked, TypeOK, GotToken
    <3>2. Cardinality(Blocked') = Cardinality(Blocked) + 1
      BY <3>1, BlockedFinite, FS_AddElement
    <3>3. Tokens' = Tokens
      BY <1>8, <3>2 DEF Subtract, Tokens
    <3>4. Inside' = Inside
      BY <1>8, <2>2 DEF Subtract, Inside, TypeOK, GotToken
    <3>5. QED
      BY <3>3, <3>4 DEF Semaphore!vars, Inside
  <2>3. QED
    BY <2>1, <2>2
<1>9. ASSUME NEW i \in Waiters, Unblock(i) PROVE Semaphore!Next
  <2>1. Cardinality(Blocked') = Cardinality(Blocked) - 1 /\ m_count' = m_count
    BY <1>9, UnblockInv DEF Unblock
  <2>2. Tokens > 0
    BY <1>9 DEF Unblock, CountIsQueue, Tokens, TypeOK
  <2>3. Tokens' = Tokens - 1
    BY <2>1 DEF Tokens
  <2>4. pc[i] # "out" /\ pc' = [pc EXCEPT ![i] = "out"]
    BY <1>9 DEF Unblock
  <2>5. Semaphore!Take(i)
    BY <2>2, <2>3, <2>4, TakesToken
  <2>6. QED
    BY <2>5 DEF Semaphore!Next
<1>10. CASE UNCHANGED vars
  BY <1>10 DEF vars, Semaphore!vars, Tokens, Blocked
<1>11. QED
  BY <1>1, <1>2, <1>3, <1>4, <1>5, <1>6, <1>7, <1>8, <1>9, <1>10 DEF Next, Step

\* ImplementsSemaphore: the counter, the spinning and the queue together are a counting
\* semaphore, which is what ThreadPool3 takes a sleep task's semaphore to be.
THEOREM SemaphoreRefinement == Spec => ImplementsSemaphore
<1>1. Init => Semaphore!Init
  <2> SUFFICES ASSUME Init PROVE Semaphore!Init
    OBVIOUS
  <2>1. Blocked = {}
    BY DEF Init, Blocked
  <2>2. QED
    BY <2>1, FS_EmptySet DEF Init, Semaphore!Init, Tokens
<1>2. Spec => Semaphore!Init /\ [][Semaphore!Next]_(Semaphore!vars)
  BY <1>1, SemaphoreStepRefines, SemaphoreInvariance, PTL DEF Spec
<1>3. QED
  BY <1>2 DEF ImplementsSemaphore, Semaphore!Spec
-----------------------------------------------------------------------------
(***************************************************************************)
(* The locks.  The word and the places of the threads say the same only    *)
(* while the readers are counted one by one, so that the invariant is      *)
(* about the finite set of threads that the word counts.                   *)
(***************************************************************************)
Reading == {"shared", "unlock_shared"}
Writing == {"exclusive", "unlock"}

\* Where the threads of each kind of lock can be.
Places ==
  /\ kind = "shared_mutex" => \A i \in Threads : at[i] \notin {"add", "relinquish"}
  /\ kind = "shared_bmutex" => \A i \in Threads : at[i] \notin {"wgate", "wgate_shared", "rgate"}
  /\ kind = "spin_mutex" => \A i \in Threads : at[i] \in {"out", "lock"} \cup Writing

\* Nobody reads while somebody writes.
Exclusion ==
  \A i, k \in Threads : at[i] \in Writing => at[k] \notin Reading

LockInv ==
  /\ LockTypeOK
  /\ IsFiniteSet(Counted)
  /\ StateIsExact
  /\ Places
  /\ Exclusion
  /\ NobodySleepsInVain

LEMMA LockInitInv == LockInit => LockInv
<1> SUFFICES ASSUME LockInit PROVE LockInv
  OBVIOUS
<1>1. Counted = {} /\ Entered = {}
  BY DEF LockInit, Counted, Entered
<1>2. LockTypeOK /\ Places /\ Exclusion /\ NobodySleepsInVain
  BY DEF LockInit, LockTypeOK, Free, Places, Exclusion, NobodySleepsInVain, Reading, Writing
<1>3. StateIsExact /\ IsFiniteSet(Counted)
  BY <1>1, FS_EmptySet DEF LockInit, Free, StateIsExact
<1>4. QED
  BY <1>2, <1>3 DEF LockInv

\* One thread comes to the counted ones, or leaves them, or does neither.
LEMMA CountChange ==
  ASSUME NEW i \in Threads, LockInv,
         \A k \in Threads \ {i} : k \in Counted' <=> k \in Counted
  PROVE  /\ IsFiniteSet(Counted')
         /\ Cardinality(Counted') \in Nat
         /\ i \in Counted /\ i \notin Counted' =>
              /\ Cardinality(Counted) > 0
              /\ Cardinality(Counted') = Cardinality(Counted) - 1
         /\ i \notin Counted /\ i \in Counted' => Cardinality(Counted') = Cardinality(Counted) + 1
         /\ (i \in Counted <=> i \in Counted') => Counted' = Counted
<1>1. Counted \subseteq Threads /\ Counted' \subseteq Threads
  BY DEF Counted
<1>2. IsFiniteSet(Counted) /\ Cardinality(Counted) \in Nat
  BY FS_CardinalityType DEF LockInv
<1>3. CASE i \in Counted /\ i \notin Counted'
  <2>1. Counted' = Counted \ {i}
    BY <1>1, <1>3
  <2>2. Cardinality(Counted) > 0
    BY <1>2, <1>3, FS_EmptySet
  <2>3. QED
    BY <2>1, <2>2, <1>2, <1>3, FS_RemoveElement
<1>4. CASE i \notin Counted /\ i \in Counted'
  <2>1. Counted' = Counted \cup {i}
    BY <1>1, <1>4
  <2>2. QED
    BY <2>1, <1>2, <1>4, FS_AddElement
<1>5. CASE i \in Counted <=> i \in Counted'
  <2>1. Counted' = Counted
    BY <1>1, <1>5
  <2>2. QED
    BY <2>1, <1>2, <1>5
<1>6. QED
  BY <1>3, <1>4, <1>5

\* The word counts nobody exactly when nobody is counted.
LEMMA NobodyCounted == LockInv => (state.readers = 0 <=> Counted = {})
BY FS_EmptySet DEF LockInv, StateIsExact
-----------------------------------------------------------------------------
\* Steps that leave the word alone.
Quiet(i) ==
  \/ \E exclusive \in BOOLEAN : Construct(i, exclusive)
  \/ Destroy(i) \/ ExclusiveStart(i) \/ ExclusiveEnd(i)
  \/ WaitToWrite(i) \/ WaitToRead(i) \/ Drained(i) \/ SpuriousWake(i)
  \/ WeakExchangeFails(i) \/ EnterBusy(i) \/ SeeUnlocked(i)

\* Steps that set the bit, ...
Claims(i) == Enter(i) \/ WeakExchange(i) \/ TestAndSet(i)

\* ... clear it, ...
Unclaims(i) == Unlock(i) \/ UnlockBusy(i) \/ Clear(i)

\* ... and count a reader in or out.
CountsIn(i) == LockShared(i) \/ AddReader(i)
CountsOut(i) == UnlockShared(i) \/ Relinquish(i) \/ UnlockSharedBusy(i)

LEMMA StepKinds ==
  ASSUME LockNext
  PROVE  \E i \in Threads : Quiet(i) \/ Claims(i) \/ Unclaims(i) \/ CountsIn(i) \/ CountsOut(i)
<1>1. PICK i \in Threads : UserCall(i) \/ LockStep(i) \/ SpuriousWake(i) \/ WeakExchangeFails(i)
  BY DEF LockNext
<1>2. UserCall(i) => Quiet(i)
  BY DEF UserCall, Quiet
<1>3. LockStep(i) => Quiet(i) \/ Claims(i) \/ Unclaims(i) \/ CountsIn(i) \/ CountsOut(i)
  BY DEF LockStep, Quiet, Claims, Unclaims, CountsIn, CountsOut
<1>4. SpuriousWake(i) \/ WeakExchangeFails(i) => Quiet(i)
  BY DEF Quiet
<1>5. QED
  BY <1>1, <1>2, <1>3, <1>4

LEMMA QuietTypes ==
  ASSUME NEW i \in Threads, LockInv, Quiet(i)
  PROVE  LockTypeOK' /\ state' = state /\ kind' = kind
         /\ \A k \in Threads \ {i} : at'[k] = at[k]
BY DEF Quiet, Construct, Destroy, ExclusiveStart, ExclusiveEnd, Release, WaitToWrite, WaitToRead, Drained,
       SpuriousWake, WeakExchangeFails, EnterBusy, SeeUnlocked, Stay, Go, MoveTo, Awake, LockTypeOK, LockInv

\* Who is counted and who has entered stays, and who begins to write found nobody counted.
LEMMA QuietPlaces ==
  ASSUME NEW i \in Threads, LockInv, Quiet(i)
  PROVE  /\ \A k \in Threads : (k \in Counted' <=> k \in Counted) /\ (k \in Entered' <=> k \in Entered)
         /\ Places'
         /\ at'[i] \in Reading => at[i] \in Reading
         /\ at'[i] \in Writing => at[i] \in Writing \/ state.readers = 0
         /\ at'[i] \in {"wgate", "wgate_shared"} => state.entered
         /\ at'[i] = "rgate" => state.readers > 0
<1>1. CASE (\E exclusive \in BOOLEAN : Construct(i, exclusive))
  BY <1>1 DEF Construct, Go, MoveTo, LockTypeOK, LockInv, Counted, Entered, Places, Reading, Writing
<1>2. CASE Destroy(i) \/ ExclusiveStart(i) \/ ExclusiveEnd(i)
  BY <1>2 DEF Destroy, ExclusiveStart, ExclusiveEnd, Release, Go, MoveTo, LockTypeOK, LockInv,
              Counted, Entered, Places, Reading, Writing
<1>3. CASE WaitToWrite(i) \/ WaitToRead(i) \/ Drained(i)
  BY <1>3 DEF WaitToWrite, WaitToRead, Drained, Mutex, Stay, Go, MoveTo, LockTypeOK, LockInv,
              Counted, Entered, Places, Reading, Writing
<1>4. CASE SpuriousWake(i)
  BY <1>4 DEF SpuriousWake, MoveTo, Awake, LockTypeOK, LockInv, Counted, Entered, Places, Reading, Writing
<1>5. CASE WeakExchangeFails(i) \/ EnterBusy(i) \/ SeeUnlocked(i)
  BY <1>5 DEF WeakExchangeFails, EnterBusy, SeeUnlocked, Busy, NoReaders, Stay, Go, MoveTo, LockTypeOK,
              LockInv, Counted, Entered, Places, Reading, Writing
<1>6. QED
  BY <1>1, <1>2, <1>3, <1>4, <1>5 DEF Quiet

LEMMA QuietInv == ASSUME NEW i \in Threads, LockInv, Quiet(i) PROVE LockInv'
<1>1. LockTypeOK' /\ state' = state /\ \A k \in Threads \ {i} : at'[k] = at[k]
  BY QuietTypes
<1>2. Counted' = Counted /\ Entered' = Entered
  BY QuietPlaces DEF Counted, Entered
<1>3. IsFiniteSet(Counted') /\ StateIsExact'
  BY <1>1, <1>2 DEF LockInv, StateIsExact
<1>4. state.readers = 0 => \A k \in Threads : at[k] \notin Reading
  BY NobodyCounted DEF Counted, Reading
<1>5. Exclusion'
  BY <1>1, <1>4, QuietPlaces DEF LockInv, Exclusion, Reading, Writing
<1>6. NobodySleepsInVain'
  BY <1>1, QuietPlaces DEF LockInv, NobodySleepsInVain
<1>7. QED
  BY <1>1, <1>3, <1>5, <1>6, QuietPlaces DEF LockInv
-----------------------------------------------------------------------------
LEMMA ClaimsInv == ASSUME NEW i \in Threads, LockInv, Claims(i) PROVE LockInv'
<1>1. /\ LockTypeOK' /\ ~state.entered /\ state'.entered /\ state'.readers = state.readers
      /\ kind' = kind
      /\ at[i] = "lock" /\ at'[i] \in {"rgate", "drain", "exclusive"}
      /\ at'[i] = "rgate" => kind = "shared_mutex" /\ state.readers > 0
      /\ at'[i] = "drain" => kind = "shared_bmutex"
      /\ at'[i] = "exclusive" => kind = "spin_mutex" \/ state.readers = 0
      /\ \A k \in Threads \ {i} : at'[k] = at[k]
  <2>1. state' = [state EXCEPT !.entered = TRUE] /\ kind' = kind /\ goal' = goal
    BY DEF Claims, Enter, WeakExchange, TestAndSet
  <2>2. state' \in [entered : BOOLEAN, readers : Nat]
        /\ state'.entered = TRUE /\ state'.readers = state.readers
    BY <2>1 DEF LockTypeOK, LockInv
  <2>3. CASE Enter(i)
    BY <2>1, <2>2, <2>3 DEF Enter, Mutex, Go, MoveTo, LockTypeOK, LockInv
  <2>4. CASE WeakExchange(i)
    BY <2>1, <2>2, <2>4 DEF WeakExchange, Busy, Go, MoveTo, LockTypeOK, LockInv
  <2>5. CASE TestAndSet(i)
    BY <2>1, <2>2, <2>5 DEF TestAndSet, Spin, Go, MoveTo, LockTypeOK, LockInv
  <2>6. QED
    BY <2>3, <2>4, <2>5 DEF Claims
<1>2. Counted' = Counted
  BY <1>1 DEF Counted
<1>3. Entered = {} /\ Entered' = {i}
  <2>1. Entered = {}
    BY <1>1 DEF LockInv, StateIsExact, Entered
  <2>2. QED
    BY <1>1, <2>1 DEF Entered
<1>4. IsFiniteSet(Counted') /\ StateIsExact'
  BY <1>1, <1>2, <1>3 DEF LockInv, StateIsExact
<1>5. Places'
  BY <1>1 DEF LockInv, Places, Writing
<1>6. kind = "spin_mutex" \/ state.readers = 0 => \A k \in Threads : at[k] \notin Reading
  BY NobodyCounted DEF Counted, Reading, Writing, LockInv, Places
<1>7. Exclusion'
  BY <1>1, <1>6 DEF LockInv, Exclusion, Reading, Writing
<1>8. NobodySleepsInVain'
  BY <1>1 DEF LockInv, NobodySleepsInVain
<1>9. QED
  BY <1>1, <1>4, <1>5, <1>7, <1>8 DEF LockInv

LEMMA UnclaimsInv == ASSUME NEW i \in Threads, LockInv, Unclaims(i) PROVE LockInv'
<1>1. at[i] = "unlock" /\ i \in Entered /\ Entered = {i}
  BY DEF Unclaims, Unlock, UnlockBusy, Clear, Go, LockInv, StateIsExact, Entered
<1>2. \A k \in Threads : NotifyWgate(at[k]) =
         IF at[k] = "wgate" THEN "lock" ELSE IF at[k] = "wgate_shared" THEN "lock_shared" ELSE at[k]
  BY DEF NotifyWgate, Awake
<1>3. /\ LockTypeOK' /\ kind' = kind /\ state'.entered = FALSE
      /\ at'[i] \in {"out", "lock", "lock_shared"}
      /\ \A k \in Threads \ {i} :
           at'[k] = IF kind = "shared_mutex" THEN NotifyWgate(at[k]) ELSE at[k]
      /\ state'.readers = IF kind = "spin_mutex" THEN 0 ELSE state.readers
      /\ kind = "spin_mutex" => at'[i] = "out"
  <2>1. CASE Unlock(i)
    <3>1. /\ state' = [state EXCEPT !.entered = FALSE] /\ kind' = kind /\ kind = "shared_mutex"
          /\ goal' = [goal EXCEPT ![i] = "out"] /\ expected' = expected
          /\ at' = [k \in Threads |-> IF k = i THEN goal[i] ELSE NotifyWgate(at[k])]
      BY <2>1 DEF Unlock, Mutex
    <3>2. state' \in [entered : BOOLEAN, readers : Nat] /\ state'.entered = FALSE
          /\ state'.readers = state.readers
      BY <3>1 DEF LockTypeOK, LockInv
    <3>3. QED
      BY <1>2, <3>1, <3>2 DEF LockTypeOK, LockInv
  <2>2. CASE UnlockBusy(i)
    BY <2>2 DEF UnlockBusy, Busy, ClearBit, Go, MoveTo, LockTypeOK, LockInv
  <2>3. CASE Clear(i)
    BY <2>3 DEF Clear, Spin, Free, Go, MoveTo, LockTypeOK, LockInv
  <2>4. QED
    BY <2>1, <2>2, <2>3 DEF Unclaims
<1>4. Counted' = Counted /\ Entered' = {}
  <2>1. \A k \in Threads : (k \in Counted' <=> k \in Counted) /\ k \notin Entered'
    BY <1>1, <1>2, <1>3 DEF Counted, Entered
  <2>2. QED
    BY <2>1 DEF Counted, Entered
<1>5. kind = "spin_mutex" => state.readers = 0
  BY NobodyCounted DEF Counted, Writing, LockInv, Places
<1>6. IsFiniteSet(Counted') /\ StateIsExact'
  BY <1>3, <1>4, <1>5 DEF LockInv, StateIsExact
<1>7. Places'
  BY <1>2, <1>3 DEF LockInv, Places, Writing
<1>8. Exclusion'
  BY <1>4 DEF Exclusion, Entered, Writing
<1>9. NobodySleepsInVain'
  <2>1. \A k \in Threads : at'[k] \notin {"wgate", "wgate_shared", "rgate"}
    BY <1>1, <1>2, <1>3 DEF LockInv, Places, Writing, Entered, LockTypeOK
  <2>2. QED
    BY <2>1 DEF NobodySleepsInVain
<1>10. QED
  BY <1>3, <1>6, <1>7, <1>8, <1>9 DEF LockInv

LEMMA CountsInInv == ASSUME NEW i \in Threads, LockInv, CountsIn(i) PROVE LockInv'
<1>1. /\ LockTypeOK' /\ kind' = kind /\ kind # "spin_mutex"
      /\ state'.entered = state.entered /\ state'.readers = state.readers + 1
      /\ at[i] \in {"lock_shared", "add"}
      /\ \/ at'[i] = "shared" /\ ~state.entered
         \/ at'[i] = "relinquish" /\ kind = "shared_bmutex"
      /\ \A k \in Threads \ {i} : at'[k] = at[k]
  <2>1. state' = [state EXCEPT !.readers = @ + 1] /\ kind' = kind /\ goal' = goal
        /\ expected' = expected
    BY DEF CountsIn, LockShared, AddReader
  <2>2. state' \in [entered : BOOLEAN, readers : Nat]
        /\ state'.entered = state.entered /\ state'.readers = state.readers + 1
    BY <2>1 DEF LockTypeOK, LockInv
  <2>3. CASE LockShared(i)
    BY <2>1, <2>2, <2>3 DEF LockShared, Mutex, Go, MoveTo, LockTypeOK, LockInv
  <2>4. CASE AddReader(i)
    BY <2>1, <2>2, <2>4 DEF AddReader, Busy, Go, MoveTo, LockTypeOK, LockInv
  <2>5. QED
    BY <2>3, <2>4 DEF CountsIn
<1>2. i \notin Counted /\ i \in Counted' /\ \A k \in Threads \ {i} : k \in Counted' <=> k \in Counted
  BY <1>1 DEF Counted
<1>3. Entered' = Entered
  BY <1>1 DEF Entered
<1>4. IsFiniteSet(Counted') /\ StateIsExact'
  BY <1>1, <1>2, <1>3, CountChange DEF LockInv, StateIsExact
<1>5. Places'
  BY <1>1 DEF LockInv, Places
<1>6. Exclusion'
  <2>1. at'[i] \in Reading => \A k \in Threads : at[k] \notin Writing
    BY <1>1 DEF LockInv, StateIsExact, Entered, Reading, Writing
  <2>2. at'[i] \notin Writing
    BY <1>1 DEF Writing
  <2>3. QED
    BY <1>1, <2>1, <2>2 DEF LockInv, Exclusion
<1>7. NobodySleepsInVain'
  BY <1>1 DEF LockInv, NobodySleepsInVain, LockTypeOK
<1>8. QED
  BY <1>1, <1>4, <1>5, <1>6, <1>7 DEF LockInv

LEMMA CountsOutInv == ASSUME NEW i \in Threads, LockInv, CountsOut(i) PROVE LockInv'
<1>1. at[i] \in {"unlock_shared", "relinquish"} /\ i \in Counted /\ Cardinality(Counted) \in Nat
      /\ Cardinality(Counted) > 0
  <2>1. at[i] \in {"unlock_shared", "relinquish"} /\ i \in Counted
    BY DEF CountsOut, UnlockShared, Relinquish, UnlockSharedBusy, TakeBack, Go, Counted
  <2>2. QED
    BY <2>1, FS_EmptySet, FS_CardinalityType DEF LockInv
<1>2. state.readers > 0
  BY <1>1 DEF LockInv, StateIsExact
<1>3. \A k \in Threads : NotifyRgate(at[k]) = IF at[k] = "rgate" THEN "drain" ELSE at[k]
  BY DEF NotifyRgate, Awake
<1>4. /\ LockTypeOK' /\ kind' = kind
      /\ state'.entered = state.entered /\ state'.readers = state.readers - 1
      /\ at'[i] \in {"out", "lock", "lock_shared"}
      /\ \A k \in Threads \ {i} :
           at'[k] = IF kind = "shared_mutex" /\ state.entered THEN NotifyRgate(at[k]) ELSE at[k]
  <2>1. state' = [state EXCEPT !.readers = @ - 1] /\ kind' = kind
        /\ goal' = [goal EXCEPT ![i] = "out"] /\ expected' = expected
    BY DEF CountsOut, UnlockShared, Relinquish, UnlockSharedBusy, TakeBack
  <2>2. state' \in [entered : BOOLEAN, readers : Nat]
        /\ state'.entered = state.entered /\ state'.readers = state.readers - 1
    BY <1>2, <2>1 DEF LockTypeOK, LockInv
  <2>3. CASE UnlockShared(i)
    <3>1. kind = "shared_mutex"
          /\ at' = [k \in Threads |-> IF k = i THEN goal[i]
                                      ELSE IF state.entered THEN NotifyRgate(at[k]) ELSE at[k]]
      BY <2>3 DEF UnlockShared, Mutex
    <3>2. QED
      BY <1>3, <2>1, <2>2, <3>1 DEF LockTypeOK, LockInv
  <2>4. CASE Relinquish(i) \/ UnlockSharedBusy(i)
    BY <2>1, <2>2, <2>4 DEF Relinquish, UnlockSharedBusy, TakeBack, Busy, Go, MoveTo, LockTypeOK, LockInv
  <2>5. QED
    BY <2>3, <2>4 DEF CountsOut
<1>5. \A k \in Threads \ {i} : (k \in Counted' <=> k \in Counted) /\ (k \in Entered' <=> k \in Entered)
  BY <1>3, <1>4 DEF Counted, Entered
<1>6. i \notin Counted' /\ i \notin Entered /\ i \notin Entered'
  BY <1>1, <1>4 DEF Counted, Entered
<1>7. Entered' = Entered
  BY <1>5, <1>6 DEF Entered
<1>8. IsFiniteSet(Counted') /\ StateIsExact'
  BY <1>1, <1>4, <1>5, <1>6, <1>7, CountChange DEF LockInv, StateIsExact
<1>9. Places'
  BY <1>1, <1>3, <1>4 DEF LockInv, Places, Writing
<1>10. Exclusion'
  BY <1>3, <1>4 DEF LockInv, Exclusion, Reading, Writing
<1>11. NobodySleepsInVain'
  BY <1>3, <1>4 DEF LockInv, NobodySleepsInVain, Places, StateIsExact, Entered, LockTypeOK, Writing
<1>12. QED
  BY <1>4, <1>8, <1>9, <1>10, <1>11 DEF LockInv

LEMMA LockStepInv == LockInv /\ [LockNext]_lockVars => LockInv'
<1> SUFFICES ASSUME LockInv, [LockNext]_lockVars PROVE LockInv'
  OBVIOUS
<1>1. CASE LockNext
  BY <1>1, StepKinds, QuietInv, ClaimsInv, UnclaimsInv, CountsInInv, CountsOutInv
<1>2. CASE UNCHANGED lockVars
  BY <1>2 DEF lockVars, LockInv, LockTypeOK, Counted, Entered, StateIsExact, Places, Exclusion,
              NobodySleepsInVain
<1>3. QED
  BY <1>1, <1>2

\* The inductive invariant: the word and the places of the threads agree, and nobody reads
\* while somebody writes.
THEOREM LockInvariance == LockSpec => []LockInv
BY LockInitInv, LockStepInv, PTL DEF LockSpec

\* For any number of threads, the word counts the readers and has the bit of one writer.
THEOREM WordIsExact == LockSpec => []StateIsExact
<1>1. LockInv => StateIsExact
  BY DEF LockInv
<1>2. QED
  BY <1>1, LockInvariance, PTL

\* Nobody waits at a gate of a shared_mutex that nobody will open.
THEOREM NoLostWakeUp == LockSpec => []NobodySleepsInVain
<1>1. LockInv => NobodySleepsInVain
  BY DEF LockInv
<1>2. QED
  BY <1>1, LockInvariance, PTL
-----------------------------------------------------------------------------
(***************************************************************************)
(* The refinement.  What a ReadWriteLock has as sets of threads is where   *)
(* the threads are.                                                        *)
(***************************************************************************)
Readers == {i \in Threads : at[i] \in Reading}
Writers == {i \in Threads : at[i] \in Writing}

\* The step of one thread, as a step of the ReadWriteLock.
AbstractStep(i) ==
  \/ Readers' = Readers /\ Entered' = Entered /\ Writers' = Writers
  \/ Entered = {} /\ Readers' = Readers \cup {i} /\ Entered' = Entered /\ Writers' = Writers
  \/ i \in Readers /\ Readers' = Readers \ {i} /\ Entered' = Entered /\ Writers' = Writers
  \/ Entered = {} /\ i \notin Readers /\ Entered' = {i} /\ Readers' = Readers /\ Writers' = Writers
  \/ i \in Entered /\ Readers = {} /\ Writers' = {i} /\ Readers' = Readers /\ Entered' = Entered
  \/ Entered = {} /\ Readers = {} /\ Entered' = {i} /\ Writers' = {i} /\ Readers' = Readers
  \/ i \in Writers /\ Entered' = {} /\ Writers' = {} /\ Readers' = Readers

LEMMA AbstractStepIsStep ==
  ASSUME NEW i \in Threads, AbstractStep(i)
  PROVE  [ReadWriteLock!Next]_(ReadWriteLock!vars)
<1> USE DEF ReadWriteLock!vars
<1>1. Readers = {k \in Threads : at[k] \in {"shared", "unlock_shared"}}
      /\ Writers = {k \in Threads : at[k] \in {"exclusive", "unlock"}}
  BY DEF Readers, Writers, Reading, Writing
<1>2. /\ Readers' = {k \in Threads : at'[k] \in {"shared", "unlock_shared"}}
      /\ Writers' = {k \in Threads : at'[k] \in {"exclusive", "unlock"}}
  BY DEF Readers, Writers, Reading, Writing
<1>3. QED
  BY <1>1, <1>2 DEF AbstractStep, ReadWriteLock!Next, ReadWriteLock!Read, ReadWriteLock!EndRead,
     ReadWriteLock!Claim, ReadWriteLock!Write, ReadWriteLock!ClaimAndWrite, ReadWriteLock!EndWrite

\* The writer is one of those that have set the bit, of which there is one at most.
LEMMA OneWriter == ASSUME LockInv, NEW i \in Entered PROVE Entered = {i} /\ Writers \subseteq {i}
BY DEF LockInv, StateIsExact, Entered, Writers, Writing

LEMMA NobodyReads == ASSUME LockInv, state.readers = 0 PROVE Readers = {}
BY NobodyCounted DEF Counted, Readers, Reading

LEMMA QuietRefines == ASSUME NEW i \in Threads, LockInv, Quiet(i) PROVE AbstractStep(i)
<1>1. \A k \in Threads \ {i} : at'[k] = at[k]
  BY QuietTypes
<1>2. Entered' = Entered
  BY QuietPlaces DEF Entered
<1>3. at[i] \in Reading <=> at'[i] \in Reading
  <2>1. at'[i] \in Reading => at[i] \in Reading
    BY QuietPlaces
  <2>2. at[i] \in Reading => i \in Counted
    BY DEF Reading, Counted
  <2>3. i \in Counted => i \in Counted'
    BY QuietPlaces
  <2>4. i \in Counted' => at'[i] \in Reading \/ at'[i] = "relinquish"
    BY DEF Reading, Counted
  <2>5. at'[i] = "relinquish" => at[i] = "relinquish"
    BY DEF Quiet, Construct, Destroy, ExclusiveStart, ExclusiveEnd, Release, WaitToWrite, WaitToRead,
           Drained, SpuriousWake, Awake, WeakExchangeFails, EnterBusy, SeeUnlocked, Stay, Go, MoveTo,
           LockTypeOK, LockInv
  <2>6. QED
    BY <2>1, <2>2, <2>3, <2>4, <2>5 DEF Reading
<1>4. Readers' = Readers
  BY <1>1, <1>3 DEF Readers
<1>5. CASE at[i] \in Writing <=> at'[i] \in Writing
  <2>1. Writers' = Writers
    BY <1>1, <1>5 DEF Writers
  <2>2. QED
    BY <2>1, <1>2, <1>4 DEF AbstractStep
<1>6. CASE at[i] \notin Writing /\ at'[i] \in Writing
  <2>1. state.readers = 0
    BY <1>6, QuietPlaces
  <2>2. i \in Entered
    BY <1>2, <1>6 DEF Entered, Writing
  <2>3. Writers' = {i}
    BY <1>1, <1>6, <2>2, OneWriter DEF Writers
  <2>4. QED
    BY <1>2, <1>4, <2>1, <2>2, <2>3, NobodyReads DEF AbstractStep
<1>7. CASE at[i] \in Writing /\ at'[i] \notin Writing
  BY <1>7 DEF Quiet, Construct, Destroy, ExclusiveStart, ExclusiveEnd, Release, WaitToWrite, WaitToRead,
              Drained, SpuriousWake, Awake, WeakExchangeFails, EnterBusy, SeeUnlocked, Stay, Go, MoveTo,
              LockTypeOK, LockInv, Writing
<1>8. QED
  BY <1>5, <1>6, <1>7

LEMMA ClaimsRefines == ASSUME NEW i \in Threads, LockInv, Claims(i) PROVE AbstractStep(i)
<1>1. /\ ~state.entered /\ at[i] = "lock"
      /\ \A k \in Threads \ {i} : at'[k] = at[k]
      /\ \/ at'[i] \in {"rgate", "drain"}
         \/ at'[i] = "exclusive" /\ (kind = "spin_mutex" \/ state.readers = 0)
  BY DEF Claims, Enter, WeakExchange, TestAndSet, Spin, Go, MoveTo, LockTypeOK, LockInv
<1>2. Entered = {}
  BY <1>1 DEF LockInv, StateIsExact, Entered
<1>3. Entered' = {i}
  BY <1>1, <1>2 DEF Entered
<1>4. Readers' = Readers /\ i \notin Readers
  BY <1>1 DEF Readers, Reading
<1>5. Writers = {}
  BY <1>2 DEF Writers, Writing, Entered
<1>6. CASE at'[i] \in {"rgate", "drain"}
  <2>1. Writers' = Writers
    BY <1>1, <1>6 DEF Writers, Writing
  <2>2. QED
    BY <1>2, <1>3, <1>4, <2>1 DEF AbstractStep
<1>7. CASE at'[i] = "exclusive" /\ (kind = "spin_mutex" \/ state.readers = 0)
  <2>1. Writers' = {i}
    BY <1>1, <1>5, <1>7 DEF Writers, Writing
  <2>2. kind = "spin_mutex" => Readers = {}
    BY DEF LockInv, Places, Readers, Reading, Writing
  <2>3. QED
    BY <1>2, <1>3, <1>4, <1>7, <2>1, <2>2, NobodyReads DEF AbstractStep
<1>8. QED
  BY <1>1, <1>6, <1>7

LEMMA UnclaimsRefines == ASSUME NEW i \in Threads, LockInv, Unclaims(i) PROVE AbstractStep(i)
<1>1. at[i] = "unlock"
  BY DEF Unclaims, Unlock, UnlockBusy, Clear, Go
<1>2. i \in Writers /\ i \in Entered
  BY <1>1 DEF Writers, Writing, Entered
<1>3. at'[i] \in {"out", "lock", "lock_shared"}
  BY DEF Unclaims, Unlock, UnlockBusy, Clear, Go, MoveTo, LockTypeOK, LockInv
<1>4. \A k \in Threads : NotifyWgate(at[k]) =
         IF at[k] = "wgate" THEN "lock" ELSE IF at[k] = "wgate_shared" THEN "lock_shared" ELSE at[k]
  BY DEF NotifyWgate, Awake
<1>5. \A k \in Threads \ {i} : at'[k] = at[k] \/ at'[k] = NotifyWgate(at[k])
  BY DEF Unclaims, Unlock, UnlockBusy, Clear, Go, MoveTo, LockTypeOK, LockInv
<1>6. Readers' = Readers
  <2>1. \A k \in Threads : at'[k] \in Reading <=> at[k] \in Reading
    BY <1>1, <1>3, <1>4, <1>5 DEF Reading
  <2>2. QED
    BY <2>1 DEF Readers
<1>7. Entered' = {} /\ Writers' = {}
  <2>1. Entered = {i}
    BY <1>2, OneWriter
  <2>2. \A k \in Threads : k \notin Entered'
    BY <1>3, <1>4, <1>5, <2>1 DEF Entered
  <2>3. QED
    BY <2>2 DEF Entered, Writers, Writing
<1>8. QED
  BY <1>2, <1>6, <1>7 DEF AbstractStep

LEMMA CountsInRefines == ASSUME NEW i \in Threads, LockInv, CountsIn(i) PROVE AbstractStep(i)
<1>1. /\ at[i] \in {"lock_shared", "add"}
      /\ (at'[i] = "shared" /\ ~state.entered) \/ at'[i] = "relinquish"
      /\ \A k \in Threads \ {i} : at'[k] = at[k]
  BY DEF CountsIn, LockShared, AddReader, Go, MoveTo, LockTypeOK, LockInv
<1>2. Entered' = Entered /\ Writers' = Writers
  BY <1>1 DEF Entered, Writers, Writing
<1>3. CASE at'[i] = "shared" /\ ~state.entered
  <2>1. Readers' = Readers \cup {i}
    BY <1>1, <1>3 DEF Readers, Reading
  <2>2. Entered = {}
    BY <1>3 DEF LockInv, StateIsExact, Entered
  <2>3. QED
    BY <1>2, <2>1, <2>2 DEF AbstractStep
<1>4. CASE at'[i] = "relinquish"
  <2>1. Readers' = Readers
    BY <1>1, <1>4 DEF Readers, Reading
  <2>2. QED
    BY <1>2, <2>1 DEF AbstractStep
<1>5. QED
  BY <1>1, <1>3, <1>4

LEMMA CountsOutRefines == ASSUME NEW i \in Threads, LockInv, CountsOut(i) PROVE AbstractStep(i)
<1>1. at[i] \in {"unlock_shared", "relinquish"} /\ at'[i] \in {"out", "lock", "lock_shared"}
  BY DEF CountsOut, UnlockShared, Relinquish, UnlockSharedBusy, TakeBack, Go, MoveTo, LockTypeOK, LockInv
<1>2. \A k \in Threads : NotifyRgate(at[k]) = IF at[k] = "rgate" THEN "drain" ELSE at[k]
  BY DEF NotifyRgate, Awake
<1>3. \A k \in Threads \ {i} : at'[k] = at[k] \/ at'[k] = NotifyRgate(at[k])
  BY DEF CountsOut, UnlockShared, Relinquish, UnlockSharedBusy, TakeBack, Go, MoveTo, LockTypeOK, LockInv
<1>4. Entered' = Entered /\ Writers' = Writers
  <2>1. \A k \in Threads : /\ k \in Entered' <=> k \in Entered
                           /\ k \in Writers' <=> k \in Writers
    BY <1>1, <1>2, <1>3 DEF Entered, Writers, Writing
  <2>2. QED
    BY <2>1 DEF Entered, Writers
<1>5. \A k \in Threads \ {i} : at'[k] \in Reading <=> at[k] \in Reading
  BY <1>2, <1>3 DEF Reading
<1>6. CASE at[i] = "unlock_shared"
  <2>1. i \in Readers /\ Readers' = Readers \ {i}
    BY <1>1, <1>5, <1>6 DEF Readers, Reading
  <2>2. QED
    BY <1>4, <2>1 DEF AbstractStep
<1>7. CASE at[i] = "relinquish"
  <2>1. Readers' = Readers
    BY <1>1, <1>5, <1>7 DEF Readers, Reading
  <2>2. QED
    BY <1>4, <2>1 DEF AbstractStep
<1>8. QED
  BY <1>1, <1>6, <1>7

LEMMA InitRefines == LockInit => ReadWriteLock!Init
BY DEF LockInit, ReadWriteLock!Init, Entered

LEMMA LockStepRefines == LockInv /\ [LockNext]_lockVars => [ReadWriteLock!Next]_(ReadWriteLock!vars)
<1> SUFFICES ASSUME LockInv, [LockNext]_lockVars PROVE [ReadWriteLock!Next]_(ReadWriteLock!vars)
  OBVIOUS
<1>1. CASE LockNext
  <2>1. PICK i \in Threads :
          Quiet(i) \/ Claims(i) \/ Unclaims(i) \/ CountsIn(i) \/ CountsOut(i)
    BY <1>1, StepKinds
  <2>2. AbstractStep(i)
    BY <2>1, QuietRefines, ClaimsRefines, UnclaimsRefines, CountsInRefines, CountsOutRefines
  <2>3. QED
    BY <2>2, AbstractStepIsStep
<1>2. CASE UNCHANGED lockVars
  BY <1>2 DEF lockVars, ReadWriteLock!vars, Entered
<1>3. QED
  BY <1>1, <1>2

\* The locks of the pool are read-write locks, whatever the number of threads: writing is
\* exclusive, a claim keeps later readers out, and an upgrade or a downgrade gives the lock
\* up in between.
THEOREM LockRefinement == LockSpec => ImplementsReadWriteLock
<1>1. LockInit => ReadWriteLock!Init
  BY InitRefines
<1>2. LockInv /\ [LockNext]_lockVars => [ReadWriteLock!Next]_(ReadWriteLock!vars)
  BY LockStepRefines
<1>3. QED
  BY <1>1, <1>2, LockInvariance, PTL DEF LockSpec, ImplementsReadWriteLock, ReadWriteLock!Spec
-----------------------------------------------------------------------------
(***************************************************************************)
(* Both                                                                    *)
(***************************************************************************)
\* What TLC checks of the two together, for any number of threads: the semaphore of a sleep
\* task keeps its account, and the locks theirs, whichever is used.
THEOREM PrimitivesInvariance == PrimitiveSpec => [](SemaphoreInv /\ LockInv)
<1>1. PrimitiveInit => SemaphoreInv /\ LockInv
  BY SemaphoreInitInv, LockInitInv DEF PrimitiveInit
<1>2. SemaphoreInv /\ LockInv /\ [PrimitiveNext]_allVars => (SemaphoreInv /\ LockInv)'
  <2> SUFFICES ASSUME SemaphoreInv, LockInv, [PrimitiveNext]_allVars
               PROVE  (SemaphoreInv /\ LockInv)'
    OBVIOUS
  <2>1. [Next]_vars
    BY DEF PrimitiveNext, OfSemaphore, OfLock, allVars
  <2>2. [LockNext]_lockVars
    BY DEF PrimitiveNext, OfSemaphore, OfLock, allVars
  <2>3. QED
    BY <2>1, <2>2, SemaphoreStepInv, LockStepInv
<1>3. QED
  BY <1>1, <1>2, PTL DEF PrimitiveSpec
=============================================================================
