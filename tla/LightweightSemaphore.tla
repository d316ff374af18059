------------------------- MODULE LightweightSemaphore -------------------------
(***************************************************************************)
(* The LightweightSemaphore of src/parallel/thpool3/semaphore.h, on which  *)
(* the workers of the pool sleep: an atomic counter in front of a          *)
(* semaphore of the operating system.  Any number of threads wait; only    *)
(* the master signals (idle_job::awaken_and_run), one call at a time.      *)
(*                                                                         *)
(* Memory is sequentially consistent here: the orders the code asks for    *)
(* concern the data around the semaphore, the counter itself is atomic.    *)
(***************************************************************************)
EXTENDS Integers, FiniteSets

CONSTANTS
  Waiters,      \* the threads that wait
  SpinCount,    \* spin_count: how often a waiter retries; 10000000 in the code
  MaxSignal,    \* the largest release_count
  MaxTokens     \* bounds the tokens that nobody has taken

ASSUME WaitersAssumption == IsFiniteSet(Waiters)
ASSUME SpinCountAssumption == SpinCount \in Nat
ASSUME BoundsAssumption == MaxSignal \in Nat /\ MaxTokens \in Nat

VARIABLES
  m_count,
  m_sema,        \* the tokens in the semaphore of the system
  to_release,    \* how many of them the current signal() has still to post
  pc,            \* where in wait() a thread is; "out" when it is not there
  old,           \* what try_wait() has read
  spins          \* how many more times a waiter will retry

vars == <<m_count, m_sema, to_release, pc, old, spins>>

Init ==
  /\ m_count = 0
  /\ m_sema = 0
  /\ to_release = 0
  /\ pc = [i \in Waiters |-> "out"]
  /\ old = [i \in Waiters |-> 0]
  /\ spins = [i \in Waiters |-> 0]
-----------------------------------------------------------------------------
(***************************************************************************)
(* wait()                                                                  *)
(***************************************************************************)
Wait(i) ==
  /\ pc[i] = "out"
  /\ spins' = [spins EXCEPT ![i] = SpinCount]
  /\ pc' = [pc EXCEPT ![i] = "load"]
  /\ UNCHANGED <<m_count, m_sema, to_release, old>>

\* A try_wait() that came to nothing is repeated, until the spins are used up.
RetryOnceMore(i) ==
  IF spins[i] >= 0
    THEN /\ spins' = [spins EXCEPT ![i] = @ - 1]
         /\ pc' = [pc EXCEPT ![i] = "load"]
    ELSE /\ pc' = [pc EXCEPT ![i] = "subtract"]
         /\ UNCHANGED spins
Retry(i) ==
  IF spins[i] > 0
    THEN /\ spins' = [spins EXCEPT ![i] = @ - 1]
         /\ pc' = [pc EXCEPT ![i] = "load"]
    ELSE /\ pc' = [pc EXCEPT ![i] = "subtract"]
         /\ UNCHANGED spins

LoadPositive(i) ==
  /\ pc[i] = "load"
  /\ m_count > 0
  /\ old' = [old EXCEPT ![i] = m_count]
  /\ pc' = [pc EXCEPT ![i] = "exchange"]
  /\ UNCHANGED <<m_count, m_sema, to_release, spins>>

LoadNothing(i) ==
  /\ pc[i] = "load"
  /\ m_count <= 0
  /\ old' = [old EXCEPT ![i] = m_count]
  /\ Retry(i)
  /\ UNCHANGED <<m_count, m_sema, to_release>>

\* compare_exchange_strong()
ExchangeSucceeds(i) ==
  /\ pc[i] = "exchange"
  /\ m_count = old[i]
  /\ m_count' = old[i] - 1
  /\ pc' = [pc EXCEPT ![i] = "out"]
  /\ UNCHANGED <<m_sema, to_release, old, spins>>

ExchangeFails(i) ==
  /\ pc[i] = "exchange"
  /\ m_count # old[i]
  /\ Retry(i)
  /\ UNCHANGED <<m_count, m_sema, to_release, old>>

\* The fetch_sub() of a thread that gives up spinning: a token may have come just then.
GotTokenOrZero(count) == count >= 0
GotToken(count) == count > 0

Subtract(i) ==
  /\ pc[i] = "subtract"
  /\ m_count' = m_count - 1
  /\ pc' = [pc EXCEPT ![i] = IF GotToken(m_count) THEN "out" ELSE "blocked"]
  /\ UNCHANGED <<m_sema, to_release, old, spins>>

\* m_sema.wait()
Unblock(i) ==
  /\ pc[i] = "blocked"
  /\ m_sema > 0
  /\ m_sema' = m_sema - 1
  /\ pc' = [pc EXCEPT ![i] = "out"]
  /\ UNCHANGED <<m_count, to_release, old, spins>>
-----------------------------------------------------------------------------
(***************************************************************************)
(* signal(release_count)                                                   *)
(***************************************************************************)
Least(a, b) == IF a < b THEN a ELSE b

\* The threads in the queue that this signal() is for.
ReleaseOne(count, n) == IF count < 0 THEN 1 ELSE 0
ReleaseAll(count, n) == IF count < 0 THEN n ELSE 0
ToRelease(count, n) == IF count < 0 THEN Least(-count, n) ELSE 0

Signal(n) ==
  /\ to_release = 0
  /\ m_count + n <= MaxTokens
  /\ m_count' = m_count + n
  /\ to_release' = ToRelease(m_count, n)
  /\ UNCHANGED <<m_sema, pc, old, spins>>

\* One sem_post() of the loop in m_sema.signal(to_release).
Post ==
  /\ to_release > 0
  /\ m_sema' = m_sema + 1
  /\ to_release' = to_release - 1
  /\ UNCHANGED <<m_count, pc, old, spins>>
-----------------------------------------------------------------------------
Step(i) ==
  \/ LoadPositive(i) \/ LoadNothing(i) \/ ExchangeSucceeds(i) \/ ExchangeFails(i)
  \/ Subtract(i) \/ Unblock(i)

Next ==
  \/ \E n \in 1 .. MaxSignal : Signal(n)
  \/ Post
  \/ \E i \in Waiters : Wait(i) \/ Step(i)

Spec == Init /\ [][Next]_vars

\* Threads inside wait() and signal() go on; nobody is obliged to call them.
FairSpec == Spec /\ WF_vars(Post) /\ \A i \in Waiters : WF_vars(Step(i))
-----------------------------------------------------------------------------
(***************************************************************************)
(* Properties.                                                             *)
(***************************************************************************)
\* The type invariant.
TypeOK ==
  /\ m_count \in Int
  /\ m_sema \in Nat
  /\ to_release \in Nat
  /\ pc \in [Waiters -> {"out", "load", "exchange", "subtract", "blocked"}]
  /\ old \in [Waiters -> Int]
  /\ spins \in [Waiters -> 0 .. SpinCount]

Blocked == {i \in Waiters : pc[i] = "blocked"}

\* "if negative: -(how many threads are waiting in the semaphore's queue)", says the
\* comment of m_count; more exactly, of the threads in the queue that many have no
\* token of the system yet, and there is no such token that is for nobody.
CountIsQueue ==
  Cardinality(Blocked) = m_sema + to_release + (IF m_count < 0 THEN -m_count ELSE 0)

Tokens == m_count + Cardinality(Blocked)

Semaphore == INSTANCE Semaphore WITH
  value <- Tokens,
  waiting <- {i \in Waiters : pc[i] # "out"}

\* To its callers the counter, the spinning and the queue are a counting semaphore ...
ImplementsSemaphore == Semaphore!Spec

\* ... and no wake-up is lost: a token is taken as long as somebody waits.
TokensAreTaken == Semaphore!Fairness
=============================================================================
