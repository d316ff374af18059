-------------------------------- MODULE Locks --------------------------------
(***************************************************************************)
(* The locks of src/parallel/thpool3: shared_mutex and shared_bmutex, used *)
(* through shared_lock, and spin_mutex.  `kind` says which one it is.      *)
(*                                                                         *)
(* The word `state` is the bit WRITE_ENTERED and the number of readers     *)
(* below it; there are fewer than 2^63 - 1 threads, so that the number     *)
(* never runs into the bit.  Memory is sequentially consistent.  A section *)
(* under the std::mutex of a shared_mutex, from locking it to a wait or to *)
(* unlocking it, is one step.                                              *)
(***************************************************************************)
EXTENDS Integers, FiniteSets

CONSTANT Threads

VARIABLES
  kind,
  state,
  at,       \* where a thread is: "out", inside an operation, or "shared", "exclusive"
  goal,     \* where it goes after unlock() or unlock_shared(), "out" when it is in neither
  expected  \* the readers compare_exchange_weak() expects, zero outside of lock()

lockVars == <<kind, state, at, goal, expected>>

Free == [entered |-> FALSE, readers |-> 0]

LockInit ==
  /\ kind \in {"shared_mutex", "shared_bmutex", "spin_mutex"}
  /\ state = Free
  /\ at = [i \in Threads |-> "out"]
  /\ goal = [i \in Threads |-> "out"]
  /\ expected = [i \in Threads |-> 0]

MoveTo(i, label) == at' = [at EXCEPT ![i] = label]
Go(i, from, to) == at[i] = from /\ MoveTo(i, to)
-----------------------------------------------------------------------------
(***************************************************************************)
(* shared_lock: the constructor, the destructor, exclusive_start() and     *)
(* exclusive_end().  A spin_mutex is taken with std::lock_guard.           *)
(***************************************************************************)
Construct(i, exclusive) ==
  /\ exclusive \/ kind # "spin_mutex"
  /\ Go(i, "out", IF exclusive THEN "lock" ELSE "lock_shared")
  /\ UNCHANGED <<kind, state, goal, expected>>

Release(i, to) ==
  /\ Go(i, "shared", "unlock_shared") \/ Go(i, "exclusive", "unlock")
  /\ goal' = [goal EXCEPT ![i] = to]
  /\ UNCHANGED <<kind, state, expected>>

Destroy(i) == Release(i, "out")
ExclusiveStart(i) == at[i] = "shared" /\ Release(i, "lock")
ExclusiveEnd(i) == kind # "spin_mutex" /\ at[i] = "exclusive" /\ Release(i, "lock_shared")
-----------------------------------------------------------------------------
(***************************************************************************)
(* shared_mutex.  "lock" and "lock_shared" are where a thread tests the    *)
(* state, the first time or after a wait.                                  *)
(***************************************************************************)
Mutex == kind = "shared_mutex"

Stay(i, from, gate) ==
  /\ Go(i, from, gate)
  /\ UNCHANGED <<kind, state, goal, expected>>

\* wgate.wait(), in lock() and in lock_shared()
WaitToWrite(i) == Mutex /\ state.entered /\ Stay(i, "lock", "wgate")
WaitToRead(i) == Mutex /\ state.entered /\ Stay(i, "lock_shared", "wgate_shared")

\* The writer flag is set; with readers inside, rgate.wait().
Enter(i) ==
  /\ Mutex
  /\ ~state.entered
  /\ state' = [state EXCEPT !.entered = TRUE]
  /\ Go(i, "lock", IF state.readers > 0 THEN "rgate" ELSE "exclusive")
  /\ UNCHANGED <<kind, goal, expected>>

Drained(i) ==
  /\ Mutex
  /\ Stay(i, "drain", IF state.readers > 0 THEN "rgate" ELSE "exclusive")

LockShared(i) ==
  /\ Mutex
  /\ ~state.entered
  /\ state' = [state EXCEPT !.readers = @ + 1]
  /\ Go(i, "lock_shared", "shared")
  /\ UNCHANGED <<kind, goal, expected>>

\* A thread after its wait.
Awake(label) ==
  CASE label = "wgate" -> "lock"
    [] label = "wgate_shared" -> "lock_shared"
    [] label = "rgate" -> "drain"
    [] OTHER -> label

NotifyNobody(label) == label
NotifyWgate(label) == IF label \in {"wgate", "wgate_shared"} THEN Awake(label) ELSE label

Unlock(i) ==
  /\ Mutex
  /\ at[i] = "unlock"
  /\ state' = [state EXCEPT !.entered = FALSE]
  /\ at' = [k \in Threads |-> IF k = i THEN goal[i] ELSE NotifyWgate(at[k])]
  /\ goal' = [goal EXCEPT ![i] = "out"]
  /\ UNCHANGED <<kind, expected>>

\* rgate.notify_one(): only the thread that has set the flag can be waiting there.
NotifyRgate(label) == IF label = "rgate" THEN Awake(label) ELSE label

UnlockShared(i) ==
  /\ Mutex
  /\ at[i] = "unlock_shared"
  /\ state' = [state EXCEPT !.readers = @ - 1]
  /\ at' = [k \in Threads |-> IF k = i THEN goal[i]
                              ELSE IF state.entered THEN NotifyRgate(at[k]) ELSE at[k]]
  /\ goal' = [goal EXCEPT ![i] = "out"]
  /\ UNCHANGED <<kind, expected>>

\* A wait may end for no reason.
SpuriousWake(i) ==
  /\ at[i] \in {"wgate", "wgate_shared", "rgate"}
  /\ MoveTo(i, Awake(at[i]))
  /\ UNCHANGED <<kind, state, goal, expected>>
-----------------------------------------------------------------------------
(***************************************************************************)
(* shared_bmutex                                                           *)
(***************************************************************************)
Busy == kind = "shared_bmutex"

\* compare_exchange_weak(state_old, state_old | WRITE_ENTERED)
WeakExchange(i) ==
  /\ Busy
  /\ state = [entered |-> FALSE, readers |-> expected[i]]
  /\ state' = [state EXCEPT !.entered = TRUE]
  /\ Go(i, "lock", "drain")
  /\ expected' = [expected EXCEPT ![i] = 0]
  /\ UNCHANGED <<kind, goal>>

\* It fails, sometimes for no reason: state_old = state & ~WRITE_ENTERED.
WeakExchangeFails(i) ==
  /\ Busy
  /\ Go(i, "lock", "lock")
  /\ expected' = [expected EXCEPT ![i] = state.readers]
  /\ UNCHANGED <<kind, state, goal>>

\* The loop until state = WRITE_ENTERED ends.
Undrained == state.entered
NoReaders == state = [entered |-> TRUE, readers |-> 0]

EnterBusy(i) == Busy /\ NoReaders /\ Stay(i, "drain", "exclusive")

\* "One can not simply set state to 0": a reader may just have counted itself.
SetToZero == Free
ClearBit == [state EXCEPT !.entered = FALSE]

UnlockBusy(i) ==
  /\ Busy
  /\ state' = ClearBit
  /\ Go(i, "unlock", goal[i])
  /\ goal' = [goal EXCEPT ![i] = "out"]
  /\ UNCHANGED <<kind, expected>>

\* lock_shared(): the loop until the bit is clear, fetch_add(), fetch_sub() and once more.
NoTest == TRUE
NotEntered == ~state.entered

SeeUnlocked(i) == Busy /\ NotEntered /\ Stay(i, "lock_shared", "add")

AddReader(i) ==
  /\ Busy
  /\ state' = [state EXCEPT !.readers = @ + 1]
  /\ Go(i, "add", IF state.entered THEN "relinquish" ELSE "shared")
  /\ UNCHANGED <<kind, goal, expected>>

TakeBack(i, from, to) ==
  /\ Busy
  /\ state' = [state EXCEPT !.readers = @ - 1]
  /\ Go(i, from, to)
  /\ goal' = [goal EXCEPT ![i] = "out"]
  /\ UNCHANGED <<kind, expected>>

Relinquish(i) == TakeBack(i, "relinquish", "lock_shared")
UnlockSharedBusy(i) == TakeBack(i, "unlock_shared", goal[i])
-----------------------------------------------------------------------------
(***************************************************************************)
(* spin_mutex, whose flag is the one bit of `state`                        *)
(***************************************************************************)
Spin == kind = "spin_mutex"

TestAndSet(i) ==
  /\ Spin
  /\ ~state.entered
  /\ state' = [state EXCEPT !.entered = TRUE]
  /\ Go(i, "lock", "exclusive")
  /\ UNCHANGED <<kind, goal, expected>>

Clear(i) ==
  /\ Spin
  /\ state' = Free
  /\ Go(i, "unlock", "out")
  /\ UNCHANGED <<kind, goal, expected>>
-----------------------------------------------------------------------------
UserCall(i) ==
  \/ Construct(i, TRUE) \/ Construct(i, FALSE)
  \/ Destroy(i) \/ ExclusiveStart(i) \/ ExclusiveEnd(i)

LockStep(i) ==
  \/ WaitToWrite(i) \/ WaitToRead(i) \/ Enter(i) \/ Drained(i) \/ LockShared(i)
  \/ Unlock(i) \/ UnlockShared(i)
  \/ WeakExchange(i) \/ EnterBusy(i) \/ UnlockBusy(i)
  \/ SeeUnlocked(i) \/ AddReader(i) \/ Relinquish(i) \/ UnlockSharedBusy(i)
  \/ TestAndSet(i) \/ Clear(i)

LockNext ==
  \E i \in Threads : UserCall(i) \/ LockStep(i) \/ SpuriousWake(i) \/ WeakExchangeFails(i)

LockSpec == LockInit /\ [][LockNext]_lockVars
-----------------------------------------------------------------------------
(***************************************************************************)
(* Properties.                                                             *)
(***************************************************************************)
\* The threads that `state` stands for: those it counts as readers, and the one that has set
\* the bit.
Counted == {i \in Threads : at[i] \in {"shared", "unlock_shared", "relinquish"}}
Entered == {i \in Threads : at[i] \in {"rgate", "drain", "exclusive", "unlock"}}

\* The type invariant.
LockTypeOK ==
  /\ kind \in {"shared_mutex", "shared_bmutex", "spin_mutex"}
  /\ state \in [entered : BOOLEAN, readers : Nat]
  /\ at \in [Threads -> {"out", "lock", "lock_shared", "wgate", "wgate_shared", "rgate",
                         "drain", "add", "relinquish", "exclusive", "shared", "unlock",
                         "unlock_shared"}]
  /\ goal \in [Threads -> {"out", "lock", "lock_shared"}]
  /\ expected \in [Threads -> Nat]

\* "If the mutex is unlocked, the state is 0", and "the remaining bits of state count how
\* many threads has requested a reader access" (comment of shared_bmutex::state): the word
\* is exact at all times, though readers come and go while a writer holds the bit.
StateIsExact ==
  /\ state.readers = Cardinality(Counted)
  /\ state.entered = (Entered # {})
  /\ \A i, k \in Entered : i = k

ReadWriteLock == INSTANCE ReadWriteLock WITH
  readers <- {i \in Threads : at[i] \in {"shared", "unlock_shared"}},
  claimed <- Entered,
  writers <- {i \in Threads : at[i] \in {"exclusive", "unlock"}}

\* All three are read-write locks, and who calls exclusive_start() while reading gives up
\* the lock before it gets it again.
ImplementsReadWriteLock == ReadWriteLock!Spec

\* Nobody is asleep in a shared_mutex without somebody inside who will notify it: no wake-up
\* is lost, neither between the test and the wait nor by notifying the wrong gate.
NobodySleepsInVain ==
  \A i \in Threads :
    /\ at[i] \in {"wgate", "wgate_shared"} => state.entered
    /\ at[i] = "rgate" => state.readers > 0

\* The comment of shared_bmutex::lock_shared() admits that readers may keep a writer from
\* entering, and says that this resolves itself.  A writer that has set the bit gets in, once
\* the readers inside have left, whatever the others do.
WritersGetIn == \A i \in Threads : at[i] \in {"rgate", "drain"} ~> at[i] = "exclusive"
=============================================================================
