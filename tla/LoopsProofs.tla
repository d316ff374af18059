----------------------------- MODULE LoopsProofs -----------------------------
(***************************************************************************)
(* What is proved of an ordered loop and of a team, for the specification  *)
(* that has both: every behaviour of LoopsSpec is one of the ordered loop, *)
(* and one of the team.                                                    *)
(***************************************************************************)
EXTENDS Pool3Loops, OrderedProofs

\* The team, with what is proved of it: the same definitions as those of Team.
TeamOf == INSTANCE TeamProofs WITH pc <- team_pc

LEMMA SameCardinality == ASSUME NEW S PROVE Team!Cardinality(S) = TeamOf!Cardinality(S)
BY DEF Team!Cardinality, TeamOf!Cardinality

LEMMA SameScripts == Team!Scripts = TeamOf!Scripts
<1>1. Team!Constructs = TeamOf!Constructs
  BY DEF Team!Constructs, TeamOf!Constructs, Team!Barrier, TeamOf!Barrier,
     Team!Dynamic, TeamOf!Dynamic, Team!Static, TeamOf!Static
<1>2. \A s : Team!Cardinality({c \in DOMAIN s : s[c].kind = "dynamic"})
             = TeamOf!Cardinality({c \in DOMAIN s : s[c].kind = "dynamic"})
  BY SameCardinality
<1>3. QED
  BY <1>1, <1>2 DEF Team!Scripts, TeamOf!Scripts

LEMMA SameChunks ==
  ASSUME NEW s, NEW threads
  PROVE  Team!ChunksWanted(s, threads) = TeamOf!ChunksWanted(s, threads)
BY DEF Team!ChunksWanted, TeamOf!ChunksWanted, Team!Least, TeamOf!Least

LEMMA SameVisits ==
  ASSUME NEW s, NEW k, NEW nth, NEW i, NEW r
  PROVE  Team!Visits(s, k, nth, i, r) = TeamOf!Visits(s, k, nth, i, r)
<1> DEFINE size == s.rows \div k
           Chunk == {j \in 0 .. s.rows \div size - 1 :
                       j % nth = i /\ j * size <= r /\ r < Team!ChunkEnd(s, size, j)}
<1>1. \A j : Team!ChunkEnd(s, size, j) = TeamOf!ChunkEnd(s, size, j)
  BY DEF Team!ChunkEnd, TeamOf!ChunkEnd
<1>2. Chunk = {j \in 0 .. s.rows \div size - 1 :
                 j % nth = i /\ j * size <= r /\ r < TeamOf!ChunkEnd(s, size, j)}
  BY <1>1
<1>3. Team!Visits(s, k, nth, i, r) =
        IF k = 0 THEN IF i = 0 THEN 1 ELSE 0 ELSE Team!Cardinality(Chunk)
  BY DEF Team!Visits
<1>4. TeamOf!Visits(s, k, nth, i, r) =
        IF k = 0 THEN IF i = 0 THEN 1 ELSE 0 ELSE TeamOf!Cardinality(Chunk)
  BY <1>2 DEF TeamOf!Visits
<1>5. QED
  BY <1>3, <1>4, SameCardinality

LEMMA SameInit == Team!Init => TeamOf!Init
<1> USE DEF Team!StartAt, TeamOf!StartAt, Team!AllThreads, TeamOf!AllThreads,
            Team!Threads, TeamOf!Threads
<1>1. Team!InitRegion => TeamOf!InitRegion
  BY SameScripts DEF Team!InitRegion, TeamOf!InitRegion
<1>2. Team!InitDynamic => TeamOf!InitDynamic
  BY DEF Team!InitDynamic, TeamOf!InitDynamic, Team!Dynamic, TeamOf!Dynamic, Team!Least,
     TeamOf!Least
<1>3. Team!InitStatic => TeamOf!InitStatic
  BY SameChunks DEF Team!InitStatic, TeamOf!InitStatic, Team!Static, TeamOf!Static, Team!Least,
     TeamOf!Least
<1>4. QED
  BY <1>1, <1>2, <1>3 DEF Team!Init, TeamOf!Init

LEMMA SameEnter == ASSUME NEW i, NEW kind, Team!Enter(i, kind) PROVE TeamOf!Enter(i, kind)
BY DEF Team!Enter, TeamOf!Enter

LEMMA SameStep == ASSUME NEW i, Team!Step(i) PROVE TeamOf!Step(i)
<1> USE DEF Team!Goto, TeamOf!Goto, Team!team, TeamOf!team, Team!sched, TeamOf!sched
<1>1. Team!Leave(i) => TeamOf!Leave(i)
  BY DEF Team!Leave, TeamOf!Leave
<1>2. Team!ArriveAtBarrier(i) => TeamOf!ArriveAtBarrier(i)
  BY SameEnter DEF Team!ArriveAtBarrier, TeamOf!ArriveAtBarrier, Team!Target, TeamOf!Target
<1>3. Team!PassBarrier(i) => TeamOf!PassBarrier(i)
  BY DEF Team!PassBarrier, TeamOf!PassBarrier, Team!AllArrived, TeamOf!AllArrived
<1>4. Team!StaticLoop(i) => TeamOf!StaticLoop(i)
  BY SameEnter, SameChunks, SameVisits DEF Team!StaticLoop, TeamOf!StaticLoop
<1>5. Team!LookUpScheduler(i) => TeamOf!LookUpScheduler(i)
  BY SameEnter DEF Team!LookUpScheduler, TeamOf!LookUpScheduler
<1>6. Team!CreateScheduler(i) => TeamOf!CreateScheduler(i)
  BY DEF Team!CreateScheduler, TeamOf!CreateScheduler, Team!CreateOnce, TeamOf!CreateOnce,
     Team!MakeScheduler, TeamOf!MakeScheduler
<1>7. Team!FetchIteration(i) => TeamOf!FetchIteration(i)
  BY DEF Team!FetchIteration, TeamOf!FetchIteration, Team!HasIteration, TeamOf!HasIteration
<1>8. Team!FetchNothing(i) => TeamOf!FetchNothing(i)
  BY DEF Team!FetchNothing, TeamOf!FetchNothing, Team!HasIteration, TeamOf!HasIteration
<1>9. Team!CallIteration(i) => TeamOf!CallIteration(i)
  BY DEF Team!CallIteration, TeamOf!CallIteration
<1>10. Team!Throw(i) => TeamOf!Throw(i)
  BY DEF Team!Throw, TeamOf!Throw
<1>11. Team!Catch(i) => TeamOf!Catch(i)
  BY DEF Team!Catch, TeamOf!Catch, Team!AbortExecution, TeamOf!AbortExecution
<1>12. Team!AbortAgain(i) => TeamOf!AbortAgain(i)
  BY DEF Team!AbortAgain, TeamOf!AbortAgain, Team!AbortExecution, TeamOf!AbortExecution
<1>13. Team!ThrowInRegion(i) => TeamOf!ThrowInRegion(i)
  BY DEF Team!ThrowInRegion, TeamOf!ThrowInRegion
<1>14. QED
  BY <1>1, <1>2, <1>3, <1>4, <1>5, <1>6, <1>7, <1>8, <1>9, <1>10, <1>11, <1>12, <1>13
     DEF Team!Step, TeamOf!Step

-----------------------------------------------------------------------------
\* LoopsSpec has the behaviours of a team ...
LEMMA TeamBehaves == LoopsSpec => TeamOf!Spec
<1>1. LoopsInit => TeamOf!Init
  BY SameInit DEF LoopsInit
<1>2. [LoopsNext]_allVars => [TeamOf!Next]_(TeamOf!vars)
  <2>1. Team!Next => TeamOf!Next
    BY SameStep DEF Team!Next, TeamOf!Next, Team!AllThreads, TeamOf!AllThreads
  <2>2. UNCHANGED teamVars => UNCHANGED TeamOf!vars
    BY DEF teamVars, TeamOf!vars, TeamOf!team, TeamOf!sched
  <2>3. QED
    BY <2>1, <2>2 DEF LoopsNext, OfOrdered, OfTeam, allVars
<1>3. QED
  BY <1>1, <1>2, PTL DEF LoopsSpec, TeamOf!Spec

\* ... and of an ordered loop.
LEMMA OrderedLoopBehaves == LoopsSpec => Spec
<1>1. LoopsInit => Init
  BY DEF LoopsInit
<1>2. [LoopsNext]_allVars => [Next]_vars
  BY DEF LoopsNext, OfOrdered, OfTeam, allVars
<1>3. QED
  BY <1>1, <1>2, PTL DEF LoopsSpec, Spec
-----------------------------------------------------------------------------
LEMMA TeamIsFine == TeamOf!TeamAssumption
BY LoopsAssumption DEF Team!TeamAssumption, TeamOf!TeamAssumption

\* Both type invariants hold, as long as the user does not raise the number of iterations of
\* an ordered loop that has been aborted.
THEOREM LoopsTypeCorrectness == ASSUME MayRaise = FALSE PROVE LoopsSpec => []LoopsTypeOK
<1>1. LoopsSpec => []TypeOK
  BY OrderedLoopBehaves, TypeCorrectness, PTL
<1>2. LoopsSpec => []TeamOf!TypeOK
  <2>1. TeamOf!Spec => []TeamOf!TypeOK
    BY TeamIsFine, TeamOf!TypeCorrectness
  <2>2. QED
    BY <2>1, TeamBehaves, PTL
<1>3. TypeOK /\ TeamOf!TypeOK => LoopsTypeOK
  BY DEF LoopsTypeOK, Team!TypeOK, TeamOf!TypeOK, Team!AllThreads, TeamOf!AllThreads
<1>4. QED
  BY <1>1, <1>2, <1>3, PTL

\* No row of a loop is executed twice, when a region has one dynamic loop at most.
THEOREM RowsExecutedOnce == ASSUME MaxDynamic <= 1 PROVE LoopsSpec => []RowsAtMostOnce
<1>1. TeamOf!Spec => []TeamOf!RowsAtMostOnce
  BY TeamIsFine, TeamOf!RowsExecutedOnce
<1>2. TeamOf!RowsAtMostOnce => RowsAtMostOnce
  BY DEF TeamOf!RowsAtMostOnce, RowsAtMostOnce, Team!RowsAtMostOnce
<1>3. QED
  BY <1>1, <1>2, TeamBehaves, PTL

\* ... and none is left out when all the threads have left the loop.
THEOREM EveryRowExecuted == ASSUME MaxDynamic <= 1 PROVE LoopsSpec => []LoopsAreComplete
<1>1. TeamOf!Spec => []TeamOf!LoopsAreComplete
  BY TeamIsFine, TeamOf!EveryRowExecuted
<1>2. TeamOf!LoopsAreComplete => LoopsAreComplete
  BY DEF TeamOf!LoopsAreComplete, LoopsAreComplete, Team!LoopsAreComplete,
     Team!Complete, TeamOf!Complete, Team!Past, TeamOf!Past, Team!Threads, TeamOf!Threads
<1>3. QED
  BY <1>1, <1>2, TeamBehaves, PTL

\* Nobody leaves wait_at_barrier() before all the team has come there and has completed the
\* loops before it.
THEOREM BarriersSeparate == ASSUME MaxDynamic <= 1 PROVE LoopsSpec => []BarrierSeparates
<1>1. TeamOf!Spec => []TeamOf!BarrierSeparates
  BY TeamIsFine, TeamOf!BarriersSeparate
<1>2. TeamOf!BarrierSeparates => BarrierSeparates
  BY DEF TeamOf!BarrierSeparates, BarrierSeparates, Team!BarrierSeparates,
     Team!Complete, TeamOf!Complete, Team!Past, TeamOf!Past, Team!Threads, TeamOf!Threads
<1>3. QED
  BY <1>1, <1>2, TeamBehaves, PTL

\* dynamic_scheduler::abort_execution() stops the loop, and leaves no gap.
THEOREM AbortsStopLoops == ASSUME MaxDynamic <= 1 PROVE LoopsSpec => []AbortStopsLoop
<1>1. TeamOf!Spec => []TeamOf!AbortStopsLoop
  BY TeamIsFine, TeamOf!AbortsStopLoops
<1>2. TeamOf!AbortStopsLoop => AbortStopsLoop
  BY DEF TeamOf!AbortStopsLoop, AbortStopsLoop, Team!AbortStopsLoop, Team!Threads, TeamOf!Threads
<1>3. QED
  BY <1>1, <1>2, TeamBehaves, PTL
=============================================================================
