---------------------------- MODULE ReadWriteLock ----------------------------
(***************************************************************************)
(* What a read-write lock promises: "Multiple threads can hold read lock   *)
(* at the same time, whereas writing is exclusive" (shared_mutex.h).  A    *)
(* writer first claims the lock: from then on nobody else gets it, and it  *)
(* enters when the readers that are there have left.                       *)
(***************************************************************************)
CONSTANT Threads

VARIABLES
  readers,    \* the threads that hold the lock for reading
  claimed,    \* the thread that has claimed the lock for writing, if any, ...
  writers     \* ... and once more, when it is allowed to write

vars == <<readers, claimed, writers>>

Init == readers = {} /\ claimed = {} /\ writers = {}

Read(i) ==
  /\ claimed = {}
  /\ readers' = readers \cup {i}
  /\ UNCHANGED <<claimed, writers>>

EndRead(i) ==
  /\ i \in readers
  /\ readers' = readers \ {i}
  /\ UNCHANGED <<claimed, writers>>

Claim(i) ==
  /\ claimed = {}
  /\ i \notin readers
  /\ claimed' = {i}
  /\ UNCHANGED <<readers, writers>>

Write(i) ==
  /\ i \in claimed
  /\ readers = {}
  /\ writers' = {i}
  /\ UNCHANGED <<readers, claimed>>

\* Claim and enter at once.
ClaimAndWrite(i) ==
  /\ claimed = {} /\ readers = {}
  /\ claimed' = {i} /\ writers' = {i}
  /\ UNCHANGED readers

EndWrite(i) ==
  /\ i \in writers
  /\ claimed' = {} /\ writers' = {}
  /\ UNCHANGED readers

Next ==
  \E i \in Threads :
    Read(i) \/ EndRead(i) \/ Claim(i) \/ Write(i) \/ ClaimAndWrite(i) \/ EndWrite(i)

Spec == Init /\ [][Next]_vars
=============================================================================
