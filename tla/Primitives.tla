------------------------------ MODULE Primitives ------------------------------
(***************************************************************************)
(* The semaphore the pool sleeps on and the locks, for TLC: two systems    *)
(* that have nothing to do with each other, of which a behaviour uses one. *)
(* Their type invariants are part of those of the proofs.                  *)
(***************************************************************************)
EXTENDS LightweightSemaphore, Locks

VARIABLE used       \* "semaphore" or "lock"

allVars == <<vars, lockVars, used>>

PrimitiveInit ==
  /\ Init
  /\ LockInit
  /\ used \in {"semaphore", "lock"}
  /\ used = "semaphore" => kind = "spin_mutex"

OfSemaphore(A) == used = "semaphore" /\ A /\ UNCHANGED <<lockVars, used>>
OfLock(A) == used = "lock" /\ A /\ UNCHANGED <<vars, used>>

PrimitiveNext == OfSemaphore(Next) \/ OfLock(LockNext)

\* Threads inside an operation go on, and who holds a lock gives it up or trades it; nobody
\* has to start an operation.
PrimitiveFairness ==
  /\ WF_allVars(OfSemaphore(Post))
  /\ \A i \in Waiters : WF_allVars(OfSemaphore(Step(i)))
  /\ \A i \in Threads :
       /\ WF_allVars(OfLock(LockStep(i)))
       /\ WF_allVars(OfLock(Destroy(i) \/ ExclusiveStart(i) \/ ExclusiveEnd(i)))

PrimitiveSpec == PrimitiveInit /\ [][PrimitiveNext]_allVars /\ PrimitiveFairness
=============================================================================
