-------------------- MODULE MemberActionExecutor_proof --------------------
(***************************************************************************)
(* Theorems about MemberActionExecutor, for every set of items and every   *)
(* bound: the typing of the state, that the counters of the job row agree  *)
(* with its items, and that a stored result is never revised; and, on top  *)
(* of that invariant, what becomes of the results a run obtains, when a    *)
(* job may be called complete, and which row of the job each place of the  *)
(* coroutine goes with.                                                    *)
(***************************************************************************)
EXTENDS MemberActionExecutor, FiniteSetTheorems, WellFoundedInduction, TLAPS

(* Where the coroutine works on a candidate, a flush or an event write on  *)
(* behalf of one of these steps included.                                  *)
CandidateLabels == {"schedule", "rpc", "backoff", "flood_retry", "flood_state", "flood_wait",
                    "pause_retry", "pause_account", "pause_state"}
AtCandidate == pc \in CandidateLabels \/ (pc \in {"flush", "event"} /\ after \in CandidateLabels)

(* Nothing is buffered or queued between runs. *)
NothingBetweenRuns ==
    pc \in {"idle", "down", "begin"} => inflight = Nothing /\ buffer = Nothing

(* An awaited write returns to the run or ends it, an awaited read to the  *)
(* loop or to the pop that needs its rows.                                 *)
EventsReturn ==
    /\ pc \in {"event", "flush"} => after \notin {"down", "begin", "fill"}
    /\ pc = "fill" => after \in {"loop", "pop"}

(* Results on their way belong to items popped already ... *)
ResultsArePopped ==
    \A i \in Items : inflight[i] # NoResult \/ buffer[i] # NoResult => i <= pos

(* ... and the candidate is the last one popped, without a result yet, so  *)
(* submit_mark_retry cannot hit a settled item.                            *)
CandidateIsOpen ==
    /\ AtCandidate => cand # NoItem
    /\ cand # NoItem => /\ cand <= pos
                        /\ Open(cand)
                        /\ inflight[cand] = NoResult
                        /\ buffer[cand] = NoResult

(* What the candidate buffer holds, and what a read ahead has returned,    *)
(* lies beyond the items popped and is open.                               *)
WindowIsAhead ==
    /\ pos <= lastLoaded
    /\ \A i \in queue : pos < i /\ i <= lastLoaded /\ Open(i)
    /\ \A i \in chunk : lastLoaded < i /\ Open(i)

RunInv ==
    /\ NothingBetweenRuns
    /\ EventsReturn
    /\ ResultsArePopped
    /\ CandidateIsOpen
    /\ WindowIsAhead

IInv == TypeOK /\ CountersMatchItems /\ RunInv
-----------------------------------------------------------------------------
(* The errors. *)

(* A candidate settled by an error is skipped or failed. *)
LEMMA SettledType == \A x : ItemStateOf(Map(x)) \in Results
BY DEF ItemStateOf, Results

(* The wait of an error is a number of ticks. *)
LEMMA WaitType == \A x \in Errors : x.wait \in Nat
BY ExecutorAssumption DEF Exceptions

-----------------------------------------------------------------------------
(* The candidate buffer. *)

(* A finite set of numbers that is not empty has a largest element. *)
LEMMA LargestExists ==
    ASSUME NEW S \in SUBSET Nat, IsFiniteSet(S), S # {}
    PROVE  \E i \in S : \A j \in S : j <= i
<1>. DEFINE above(i) == {j \in S : j > i}
            T == {above(i) : i \in S}
<1>1. IsWellFoundedOn(StrictSubsetOrdering(S), SUBSET S)
  BY FS_StrictSubsetOrderingWellFounded, FS_FiniteSubsetsOfFinite
<1>2. T \subseteq SUBSET S /\ T # {}
  OBVIOUS
<1>3. PICK t \in T : \A u \in T : ~(<<u, t>> \in StrictSubsetOrdering(S))
  BY <1>1, <1>2, WFMin
<1>4. PICK i \in S : t = above(i)
  OBVIOUS
<1>5. ASSUME NEW j \in S, j > i
      PROVE  FALSE
  <2>1. above(j) \subseteq above(i) /\ above(j) # above(i)
    <3>1. j \in above(i) /\ j \notin above(j)
      BY <1>5
    <3>2. \A k \in above(j) : k \in above(i)
      BY <1>5
    <3>. QED  BY <3>1, <3>2
  <2>2. above(j) \in SUBSET S /\ above(i) \in SUBSET S /\ above(j) \in T
    OBVIOUS
  <2>. QED  BY <1>3, <1>4, <2>1, <2>2 DEF StrictSubsetOrdering
<1>6. \A j \in S : j <= i
  BY <1>5
<1>. QED  BY <1>6

(* What is loaded next is open, and lies beyond the last ordinal loaded.   *)
LEMMA ChunkIsAhead == \A i \in Chunk : i \in Items /\ i > lastLoaded /\ Open(i)
BY DEF Chunk, Open, Results

(* The last ordinal loaded becomes the largest of the rows. *)
LEMMA FilledToLargest ==
    ASSUME NEW rows \in SUBSET Items, rows # {}
    PROVE  FilledTo(rows) \in rows /\ \A i \in rows : i <= FilledTo(rows)
<1>1. rows \in SUBSET Nat /\ IsFiniteSet(rows)
  BY ExecutorAssumption, FS_Subset
<1>. QED  BY <1>1, LargestExists DEF FilledTo

-----------------------------------------------------------------------------
(* The writes. *)

(* The items of a state are finitely many. *)
LEMMA SubsetOfItems ==
    ASSUME NEW S \in SUBSET Items
    PROVE  IsFiniteSet(S) /\ Cardinality(S) \in Nat
BY ExecutorAssumption, FS_Subset, FS_CardinalityType

(* Results put behind others are results. *)
LEMMA BehindType ==
    ASSUME NEW first \in ResultBuffers, NEW second \in ResultBuffers
    PROVE  Behind(first, second) \in ResultBuffers
BY DEF Behind, ResultBuffers

(* The empty buffer is a buffer of results. *)
LEMMA NothingType == Nothing \in ResultBuffers
BY DEF Nothing, ResultBuffers

(* What a routine write makes of the rows and counters keeps their types. *)
LEMMA WrittenType ==
    ASSUME TypeOK, NEW results \in ResultBuffers
    PROVE  /\ Applied(results) \in [Items -> ItemStates]
           /\ Counted(results) \in [Results -> Nat]
<1>1. Applied(results) \in [Items -> ItemStates]
  BY DEF TypeOK, Applied, Fresh, Held, ItemStates, ResultBuffers
<1>2. ASSUME NEW r \in Results
      PROVE  counter[r] + Cardinality({i \in Fresh(results) : results[i] = r}) \in Nat
  <2>1. {i \in Fresh(results) : results[i] = r} \in SUBSET Items
    BY DEF Fresh, Held
  <2>. QED  BY <2>1, SubsetOfItems DEF TypeOK
<1>. QED  BY <1>1, <1>2 DEF Counted

(* The routine write of a batch keeps the types of the rows (submit_results). *)
LEMMA ApplyType ==
    ASSUME TypeOK, NEW results \in ResultBuffers, ApplyResults(results)
    PROVE  /\ itemState' \in [Items -> ItemStates]
           /\ counter' \in [Results -> Nat]
           /\ inflight' \in ResultBuffers
BY WrittenType, NothingType DEF ApplyResults

(* An awaited critical write first applies what is queued; the rows keep their types. *)
LEMMA BarrierType ==
    ASSUME TypeOK, Barrier
    PROVE  /\ itemState' \in [Items -> ItemStates]
           /\ counter' \in [Results -> Nat]
           /\ inflight' \in ResultBuffers
BY ApplyType DEF Barrier, TypeOK

(* submit_mark_retry keeps the types of the rows. *)
LEMMA MarkRetryType ==
    ASSUME TypeOK, NEW i, MarkRetry(i)
    PROVE  /\ itemState' \in [Items -> ItemStates]
           /\ counter' \in [Results -> Nat]
           /\ inflight' \in ResultBuffers
<1>1. inflight \in ResultBuffers
  BY DEF TypeOK
<1>. QED  BY <1>1, WrittenType, NothingType DEF MarkRetry, ItemStates

(* The end of a run, whichever way it comes. *)
LEMMA ForgetRunType ==
    ASSUME ForgetRun
    PROVE  /\ after' \in Labels
           /\ cand' \in Items \cup {NoItem} /\ pos' \in Items \cup {0}
           /\ failures' \in Nat /\ final' \in JobStates
           /\ buffer' \in ResultBuffers /\ serverWait' \in Nat
           /\ loading' \in {"none", "queued", "read", "failed"} /\ chunk' \subseteq Items
           /\ queue' \subseteq Items /\ lastLoaded' \in Items \cup {0}
           /\ authError' \in BOOLEAN /\ restricted' \in BOOLEAN
           /\ flushTimer' \in BOOLEAN /\ exhausted' \in BOOLEAN
           /\ stopEvent' \in BOOLEAN /\ pauseEvent' \in BOOLEAN
<1>1. /\ authError' \in BOOLEAN /\ restricted' \in BOOLEAN
      /\ flushTimer' \in BOOLEAN /\ exhausted' \in BOOLEAN
  BY DEF ForgetRun
<1>2. stopEvent' \in BOOLEAN /\ pauseEvent' \in BOOLEAN
  BY DEF ForgetRun
<1>3. /\ after' \in Labels
      /\ cand' \in Items \cup {NoItem} /\ pos' \in Items \cup {0}
      /\ failures' \in Nat /\ final' \in JobStates
      /\ buffer' \in ResultBuffers /\ serverWait' \in Nat
      /\ loading' \in {"none", "queued", "read", "failed"} /\ chunk' \subseteq Items
      /\ queue' \subseteq Items /\ lastLoaded' \in Items \cup {0}
  BY NothingType DEF ForgetRun, Labels, NoItem, JobStates
<1>. QED  BY <1>1, <1>2, <1>3

(* The finally clause of run() leaves a well-typed idle executor. *)
LEMMA EndRunType ==
    ASSUME EndRun
    PROVE  /\ pc' \in Labels /\ after' \in Labels
           /\ cand' \in Items \cup {NoItem} /\ pos' \in Items \cup {0}
           /\ failures' \in Nat /\ final' \in JobStates
           /\ buffer' \in ResultBuffers /\ serverWait' \in Nat
           /\ loading' \in {"none", "queued", "read", "failed"} /\ chunk' \subseteq Items
           /\ queue' \subseteq Items /\ lastLoaded' \in Items \cup {0}
           /\ authError' \in BOOLEAN /\ restricted' \in BOOLEAN
           /\ flushTimer' \in BOOLEAN /\ exhausted' \in BOOLEAN
           /\ stopEvent' \in BOOLEAN /\ pauseEvent' \in BOOLEAN
<1>1. pc' \in Labels
  BY DEF EndRun, Labels
<1>. QED  BY <1>1, ForgetRunType DEF EndRun

(* An exception leads to the except path of run() with well-typed variables. *)
LEMMA RaiseType ==
    ASSUME TypeOK, NEW results \in ResultBuffers, Raise(results)
    PROVE  /\ pc' \in Labels /\ after' \in Labels
           /\ cand' \in Items \cup {NoItem} /\ pos' \in Items \cup {0}
           /\ failures' \in Nat /\ final' \in JobStates
           /\ buffer' \in ResultBuffers /\ serverWait' \in Nat
           /\ loading' \in {"none", "queued", "read", "failed"} /\ chunk' \subseteq Items
           /\ queue' \subseteq Items /\ lastLoaded' \in Items \cup {0}
           /\ authError' \in BOOLEAN /\ restricted' \in BOOLEAN
           /\ flushTimer' \in BOOLEAN /\ exhausted' \in BOOLEAN
           /\ stopEvent' \in BOOLEAN /\ pauseEvent' \in BOOLEAN
<1>1. CASE EndRun
  BY <1>1, EndRunType
<1>2. CASE /\ FlushThen(results, "except_state")
           /\ buffer' = results
           /\ UNCHANGED <<runVars, flushTimer, serverWait, window, events>>
  BY <1>2 DEF TypeOK, FlushThen, Goto, Labels, runVars, verdict, window, events
<1>. QED  BY <1>1, <1>2 DEF Raise

(* What AppendResult makes of the candidate at hand. *)
LEMMA AppendResultType ==
    ASSUME TypeOK, NEW i, NEW result \in Results, AppendResult(i, result)
    PROVE  /\ pc' \in Labels /\ after' \in Labels
           /\ cand' \in Items \cup {NoItem} /\ failures' \in Nat
           /\ buffer' \in ResultBuffers /\ flushTimer' \in BOOLEAN
           /\ answers' \in [Items -> Nat]
<1>1. flushTimer' \in BOOLEAN
  BY DEF AppendResult, TypeOK
<1>2. buffer' \in ResultBuffers
  BY DEF AppendResult, TypeOK, ResultBuffers
<1>3. answers' \in [Items -> Nat]
  <2>1. answers \in [Items -> Nat] /\ answers' = [answers EXCEPT ![i] = @ + 1]
    BY DEF AppendResult, TypeOK
  <2>2. answers' = [j \in Items |-> IF j = i THEN answers[j] + 1 ELSE answers[j]]
    BY <2>1, Zenon
  <2>3. \A j \in Items : (IF j = i THEN answers[j] + 1 ELSE answers[j]) \in Nat
    <3>. TAKE j \in Items
    <3>1. answers[j] \in Nat
      BY <2>1
    <3>. QED  BY <3>1
  <2>. QED  BY <2>2, <2>3
<1>4. /\ pc' \in Labels /\ after' \in Labels
      /\ cand' \in Items \cup {NoItem} /\ failures' \in Nat
  BY DEF AppendResult, TypeOK, Goto, Labels
<1>. QED  BY <1>1, <1>2, <1>3, <1>4

-----------------------------------------------------------------------------
(* The initial state is well-typed. *)
LEMMA TypeInit == Init => TypeOK
<1>. SUFFICES ASSUME Init PROVE TypeOK
  OBVIOUS
<1>1. /\ cancelling \in BOOLEAN /\ authError \in BOOLEAN /\ restricted \in BOOLEAN
      /\ flushTimer \in BOOLEAN /\ exhausted \in BOOLEAN
  BY DEF Init
<1>2. stopEvent \in BOOLEAN /\ pauseEvent \in BOOLEAN
  BY DEF Init
<1>3. inflight \in ResultBuffers /\ buffer \in ResultBuffers
  BY NothingType DEF Init
<1>4. counter \in [Results -> Nat] /\ itemState \in [Items -> ItemStates] /\ answers \in [Items -> Nat]
  BY DEF Init, ItemStates
<1>5. /\ jobState \in JobStates /\ final \in JobStates
      /\ pc \in Labels /\ after \in Labels
      /\ cand \in Items \cup {NoItem} /\ pos \in Items \cup {0}
  BY DEF Init, JobStates, Labels
<1>6. /\ account \in {"READY", "AUTH_REQUIRED"}
      /\ loading \in {"none", "queued", "read", "failed"} /\ chunk \subseteq Items
      /\ queue \subseteq Items /\ lastLoaded \in Items \cup {0}
      /\ waitingUntil \in Nat /\ failures \in Nat /\ serverWait \in Nat
      /\ floodLeft \in Nat /\ floods \in Nat /\ crashes \in Nat /\ faults \in Nat
  BY DEF Init
<1>. QED  BY <1>1, <1>2, <1>3, <1>4, <1>5, <1>6 DEF TypeOK

(* Every step of the executor, of its delayed flush and of its environment keeps the types. *)
LEMMA TypeStep == TypeOK /\ [Next]_vars => TypeOK'
<1>. SUFFICES ASSUME TypeOK, [Next]_vars PROVE TypeOK'
  OBVIOUS
<1>. USE NothingType DEF TypeOK, jobRow, itemRows, dbVars, queued, control, verdict, runVars,
         window, memory, events, budgets, envVars, Labels, NoItem
<1>1. CASE Begin
  BY <1>1, BarrierType DEF Begin, SetJobState, EventThen, JobStates
<1>2. CASE EventWritten
  <2>1. /\ UNCHANGED <<jobRow, account, cancelling, envVars>>
        /\ Barrier
    BY <1>2 DEF EventWritten
  <2>2. CASE EndRun
    BY <2>1, <2>2, BarrierType, EndRunType
  <2>3. CASE pc' = after /\ after' = "idle" /\ UNCHANGED <<runVars, memory, events>>
    BY <2>1, <2>3, BarrierType
  <2>. QED  BY <1>2, <2>2, <2>3 DEF EventWritten
<1>3. CASE FlushResults
  BY <1>3, ApplyType, BehindType DEF FlushResults
<1>4. CASE HandleControl
  BY <1>4 DEF HandleControl, FlushThen, Goto, JobStates
<1>5. CASE ControlState
  BY <1>5, BarrierType DEF ControlState, SetJobState, EventThen
<1>6. CASE BackToRunning
  BY <1>6, BarrierType DEF BackToRunning, SetJobState, Goto, JobStates
<1>7. CASE PopCandidate
  <2>1. PICK i \in queue : Take(i)
    BY <1>7 DEF PopCandidate
  <2>2. /\ UNCHANGED <<dbVars, queued, verdict, final, serverWait, chunk, lastLoaded, exhausted,
                       events, floodLeft, budgets>>
        /\ i \in Items
    BY <1>7 DEF PopCandidate
  <2>3. /\ pos' \in Items \cup {0} /\ queue' \subseteq Items
        /\ loading' \in {"none", "queued", "read", "failed"}
    BY <2>1, <2>2 DEF Take
  <2>4. CASE AppendResult(i, "FAILED")
    BY <2>2, <2>3, <2>4, AppendResultType DEF Results
  <2>5. CASE cand' = i /\ Goto("schedule") /\ UNCHANGED <<failures, buffer, flushTimer, answers>>
    BY <2>2, <2>3, <2>5 DEF Goto
  <2>. QED  BY <2>1, <2>4, <2>5 DEF Take
<1>8. CASE Prime \/ PopWaits \/ BufferExhausted
  BY <1>8 DEF Prime, PopWaits, AwaitFill, BufferExhausted, FlushThen, Goto
<1>9. CASE Attempt
  BY <1>9 DEF Attempt, Goto
<1>10. CASE RpcSettles
  <2>1. PICK result \in Results : AppendResult(cand, result)
    BY <1>10, SettledType DEF RpcSettles, Results
  <2>2. restricted' \in BOOLEAN
    BY <1>10 DEF RpcSettles, Heard
  <2>3. UNCHANGED <<dbVars, queued, pos, authError, final, serverWait, window, events, floodLeft,
                    budgets>>
    BY <1>10 DEF RpcSettles
  <2>. QED  BY <2>1, <2>2, <2>3, AppendResultType
<1>11. CASE RpcFloods
  <2>1. restricted' \in BOOLEAN
    BY <1>11 DEF RpcFloods, Heard
  <2>2. floodLeft' \in Nat /\ serverWait' \in Nat /\ floods' \in Nat
    BY <1>11, WaitType DEF RpcFloods
  <2>3. UNCHANGED <<dbVars, queued, cand, pos, failures, authError, final, buffer, flushTimer,
                    window, events, crashes, faults, answers>>
    BY <1>11 DEF RpcFloods
  <2>4. pc' \in Labels /\ after' \in Labels
    BY <1>11 DEF RpcFloods, FlushThen, Goto
  <2>. QED  BY <2>1, <2>2, <2>3, <2>4
<1>12. CASE FloodRetry
  BY <1>12, MarkRetryType DEF FloodRetry, Goto
<1>13. CASE FloodState
  BY <1>13, BarrierType DEF FloodState, SetJobState, EventThen, JobStates
<1>14. CASE RpcTransient
  <2>1. restricted' \in BOOLEAN
    BY <1>14 DEF RpcTransient, Heard
  <2>. QED  BY <2>1, <1>14 DEF RpcTransient, Goto
<1>15. CASE BackoffOver
  <2>1. UNCHANGED <<dbVars, queued, pos, verdict, final, serverWait, window, events, floodLeft,
                    budgets>>
    BY <1>15 DEF BackoffOver
  <2>2. CASE Goto("schedule") /\ UNCHANGED <<cand, failures, buffer, flushTimer, answers>>
    BY <2>1, <2>2 DEF Goto
  <2>3. CASE AppendResult(cand, "FAILED")
    BY <2>1, <2>3, AppendResultType DEF Results
  <2>. QED  BY <1>15, <2>2, <2>3 DEF BackoffOver
<1>16. CASE RpcPauses
  <2>1. authError' \in BOOLEAN /\ restricted' \in BOOLEAN
    BY <1>16 DEF RpcPauses, Heard
  <2>2. pc' \in Labels /\ after' \in Labels
    BY <1>16 DEF RpcPauses, FlushThen, Goto
  <2>3. UNCHANGED <<dbVars, queued, cand, pos, failures, final, memory, events, envVars>>
    BY <1>16 DEF RpcPauses
  <2>. QED  BY <2>1, <2>2, <2>3
<1>17. CASE PauseRetry
  BY <1>17, MarkRetryType DEF PauseRetry, EventThen
<1>18. CASE PauseAccount
  BY <1>18, BarrierType DEF PauseAccount, Goto
<1>19. CASE PauseState
  BY <1>19, BarrierType DEF PauseState, SetJobState, EndRun, ForgetRun, JobStates
<1>20. CASE Finish
  BY <1>20 DEF Finish, Goto, JobStates
<1>21. CASE FinalState
  BY <1>21, BarrierType DEF FinalState, SetJobState, EventThen
<1>22. CASE FlushFails
  <2>1. Raise(Nothing) /\ UNCHANGED <<jobRow, account, cancelling, floodLeft, floods, crashes, answers>>
    BY <1>22 DEF FlushFails
  <2>2. Barrier \/ (inflight' = Nothing /\ UNCHANGED itemRows)
    BY <1>22 DEF FlushFails
  <2>3. faults' \in Nat
    BY <1>22 DEF FlushFails, Failing
  <2>4. /\ itemState' \in [Items -> ItemStates] /\ counter' \in [Results -> Nat]
        /\ inflight' \in ResultBuffers
    BY <2>2, BarrierType
  <2>. QED  BY <2>1, <2>3, <2>4, RaiseType
<1>23. CASE CriticalFails
  <2>1. Raise(buffer) /\ UNCHANGED <<jobRow, account, cancelling, floodLeft, floods, crashes, answers>>
    BY <1>23 DEF CriticalFails
  <2>2. faults' \in Nat
    BY <1>23 DEF CriticalFails, Failing
  <2>3. Barrier
    BY <1>23 DEF CriticalFails
  <2>. QED  BY <2>1, <2>2, <2>3, RaiseType, BarrierType
<1>24. CASE ExceptState
  BY <1>24, BarrierType DEF ExceptState, SetJobState, EndRun, ForgetRun, JobStates
<1>25. CASE Command
  <2>1. CASE Launch
    BY <2>1 DEF Launch
  <2>2. CASE PauseAction
    BY <2>2 DEF PauseAction
  <2>3. CASE StopRunning
    BY <2>3 DEF StopRunning
  <2>4. CASE StopIdle
    BY <2>4 DEF StopIdle
  <2>. QED
    BY <1>25, <2>1, <2>2, <2>3, <2>4 DEF Command, StartAction, ResumeAction
<1>26. CASE WorkerCancels
  <2>1. cancelling' \in BOOLEAN
     BY <1>26 DEF WorkerCancels
  <2>2. jobState' \in JobStates /\ waitingUntil' \in Nat
     BY <1>26 DEF WorkerCancels, SetJobState, JobStates
  <2>3. UNCHANGED <<account, control, runVars, memory, events, envVars>> /\ Barrier
     BY <1>26 DEF WorkerCancels
  <2>4. QED BY <2>1, <2>2, <2>3, BarrierType
<1>27. CASE DelayedFlush
  <2>1. UNCHANGED <<dbVars, cancelling, control, runVars, serverWait, window, events, envVars>>
    BY <1>27 DEF DelayedFlush
  <2>2. flushTimer' \in BOOLEAN
    BY <1>27 DEF DelayedFlush
  <2>3. inflight' \in ResultBuffers /\ buffer' \in ResultBuffers
    BY <1>27 DEF DelayedFlush
  <2>. QED  BY <2>1, <2>2, <2>3
<1>28. CASE CommitRoutine
  BY <1>28, BarrierType DEF CommitRoutine
<1>29. CASE RoutineFails
  BY <1>29 DEF RoutineFails, Failing
<1>30. CASE Tick
  BY <1>30 DEF Tick, Down
<1>31. CASE Crash
  <2>1. ForgetRun /\ pc' = "down" /\ inflight' = Nothing
        /\ UNCHANGED <<dbVars, floodLeft, floods, faults, answers>>
    BY <1>31 DEF Crash
  <2>2. cancelling' \in BOOLEAN
    BY <1>31 DEF Crash
  <2>3. crashes' \in Nat
    BY <1>31 DEF Crash
  <2>. QED  BY <2>1, <2>2, <2>3, ForgetRunType
<1>32. CASE Recover
  BY <1>32 DEF Recover, SetJobState, Goto, JobStates
<1>33. CASE ReadChunk
  <2>1. chunk' \subseteq Items
    BY <1>33, ChunkIsAhead DEF ReadChunk
  <2>. QED  BY <1>33, <2>1 DEF ReadChunk
<1>34. CASE ReadFails
  BY <1>34 DEF ReadFails, Failing
<1>35. CASE Filled
  <2>1. queue' \subseteq Items /\ chunk' \subseteq Items /\ exhausted' \in BOOLEAN
    BY <1>35 DEF Filled
  <2>2. lastLoaded' \in Items \cup {0}
    BY <1>35, FilledToLargest DEF Filled
  <2>. QED  BY <1>35, <2>1, <2>2 DEF Filled
<1>36. CASE FillFails
  BY <1>36, RaiseType DEF FillFails
<1>37. CASE UNCHANGED vars
  BY <1>37 DEF vars
<1>. QED
  BY <1>1, <1>2, <1>3, <1>4, <1>5, <1>6, <1>7, <1>8, <1>9, <1>10, <1>11, <1>12, <1>13,
     <1>14, <1>15, <1>16, <1>17, <1>18, <1>19, <1>20, <1>21, <1>22, <1>23, <1>24, <1>25,
     <1>26, <1>27, <1>28, <1>29, <1>30, <1>31, <1>32, <1>33, <1>34, <1>35, <1>36, <1>37
  DEF Next, ExecutorStep

(* Every variable has its type in every reachable state of the executor.   *)
THEOREM TypeCorrect == Spec => []TypeOK
BY TypeInit, TypeStep, PTL DEF Spec

-----------------------------------------------------------------------------
(* The counters: what a batch adds to a counter is what it adds to the     *)
(* items of that state.                                                    *)
LEMMA CountSplit ==
    ASSUME TypeOK, NEW results \in ResultBuffers, NEW r \in Results
    PROVE  Cardinality({i \in Items : Applied(results)[i] = r}) =
             Cardinality({i \in Items : itemState[i] = r})
               + Cardinality({i \in Fresh(results) : results[i] = r})
<1>. DEFINE old == {i \in Items : itemState[i] = r}
            new == {i \in Fresh(results) : results[i] = r}
<1>1. old \in SUBSET Items /\ new \in SUBSET Items
  BY DEF Fresh, Held
<1>2. IsFiniteSet(old) /\ IsFiniteSet(new)
  BY <1>1, SubsetOfItems
<1>3. old \cap new = {}
  BY DEF Fresh, Open
<1>4. {i \in Items : Applied(results)[i] = r} = old \cup new
  <2>1. ASSUME NEW i \in Items
        PROVE  Applied(results)[i] = r <=> i \in old \cup new
    <3>1. CASE i \in Fresh(results)
      BY <3>1, <1>3 DEF Applied, Fresh, Open
    <3>2. CASE i \notin Fresh(results)
      BY <3>2 DEF Applied
    <3>. QED  BY <3>1, <3>2
  <2>. QED  BY <2>1, <1>1
<1>5. Cardinality(old \cup new) = Cardinality(old) + Cardinality(new) - Cardinality(old \cap new)
  BY <1>2, FS_Union
<1>6. Cardinality(old) \in Nat /\ Cardinality(new) \in Nat /\ Cardinality(old \cap new) = 0
  BY <1>1, <1>3, SubsetOfItems, FS_EmptySet
<1>7. Cardinality(old \cup new) = Cardinality(old) + Cardinality(new)
  <2>. HIDE DEF old, new
  <2>. QED  BY <1>5, <1>6
<1>. QED  BY <1>4, <1>7

(* The rows of the items change in two ways only. *)
LEMMA RowsStep ==
    ASSUME IInv, [Next]_vars
    PROVE  \/ UNCHANGED itemRows
           \/ \E results \in ResultBuffers : ApplyResults(results)
           \/ pc \in {"flood_retry", "pause_retry"} /\ MarkRetry(cand)
<1>1. Barrier => \E results \in ResultBuffers : ApplyResults(results)
  BY DEF Barrier, IInv, TypeOK
<1>2. CASE FlushResults
  BY <1>2, BehindType DEF FlushResults, IInv, TypeOK
<1>3. CASE FloodRetry \/ PauseRetry
  BY <1>3 DEF FloodRetry, PauseRetry
<1>4. CASE \/ Begin \/ EventWritten \/ ControlState \/ BackToRunning \/ FloodState
           \/ PauseAccount \/ PauseState \/ FinalState \/ CriticalFails \/ ExceptState
           \/ WorkerCancels \/ CommitRoutine
  <2>1. Barrier
    BY <1>4 DEF Begin, EventWritten, ControlState, BackToRunning, FloodState, PauseAccount,
                PauseState, FinalState, CriticalFails, ExceptState, WorkerCancels, CommitRoutine
  <2>. QED  BY <2>1, <1>1
<1>5. CASE FlushFails
  BY <1>5, <1>1 DEF FlushFails
<1>6. CASE \/ HandleControl \/ PopCandidate \/ BufferExhausted \/ Attempt \/ RpcSettles
           \/ RpcFloods \/ RpcTransient \/ BackoffOver \/ RpcPauses \/ Finish
           \/ Prime \/ PopWaits \/ ReadChunk \/ ReadFails \/ Filled \/ FillFails
  BY <1>6 DEF HandleControl, PopCandidate, BufferExhausted, Attempt, RpcSettles, RpcFloods,
              RpcTransient, BackoffOver, RpcPauses, Finish, Prime, PopWaits, ReadChunk,
              ReadFails, Filled, FillFails, dbVars, itemRows
<1>7. CASE Command
  BY <1>7 DEF Command, StartAction, ResumeAction, Launch, PauseAction, StopRunning, StopIdle,
              dbVars, itemRows
<1>8. CASE DelayedFlush \/ RoutineFails \/ Tick \/ Crash \/ Recover
  BY <1>8 DEF DelayedFlush, RoutineFails, Tick, Crash, Recover, dbVars, itemRows
<1>9. CASE UNCHANGED vars
  BY <1>9 DEF vars, itemRows
<1>. QED
  BY <1>2, <1>3, <1>4, <1>5, <1>6, <1>7, <1>8, <1>9 DEF Next, ExecutorStep

(* submit_mark_retry finds its candidate open, before and behind the       *)
(* routine write that its barrier applies.                                 *)
LEMMA RetryOpen ==
    ASSUME IInv, pc \in {"flood_retry", "pause_retry"}
    PROVE  /\ cand \in Items /\ Open(cand)
           /\ Applied(inflight)[cand] = itemState[cand]
<1>1. cand # NoItem
  BY DEF IInv, RunInv, CandidateIsOpen, AtCandidate, CandidateLabels
<1>2. cand \in Items /\ Open(cand) /\ inflight[cand] = NoResult
  BY <1>1 DEF IInv, RunInv, CandidateIsOpen, TypeOK
<1>. QED  BY <1>2 DEF Applied, Fresh, Held

(* Every step keeps the counters of the job in agreement with its items. *)
LEMMA CountersStep ==
    ASSUME IInv, [Next]_vars
    PROVE  CountersMatchItems'
<1>1. CASE UNCHANGED itemRows
  BY <1>1 DEF IInv, CountersMatchItems, itemRows
<1>2. ASSUME NEW results \in ResultBuffers, NEW r \in Results
      PROVE  Counted(results)[r] = Cardinality({i \in Items : Applied(results)[i] = r})
  BY <1>2, CountSplit DEF Counted, IInv, CountersMatchItems
<1>3. CASE \E results \in ResultBuffers : ApplyResults(results)
  BY <1>2, <1>3 DEF ApplyResults, CountersMatchItems
<1>4. CASE pc \in {"flood_retry", "pause_retry"} /\ MarkRetry(cand)
  <2>1. inflight \in ResultBuffers
    BY DEF IInv, TypeOK
  <2>2. cand \in Items /\ Applied(inflight)[cand] \notin Results
    BY <1>4, RetryOpen DEF Open
  <2>3. ASSUME NEW r \in Results, NEW i \in Items
        PROVE  itemState'[i] = r <=> Applied(inflight)[i] = r
    BY <1>4, <2>1, <2>2 DEF MarkRetry, Results, Applied
  <2>4. ASSUME NEW r \in Results
        PROVE  {i \in Items : itemState'[i] = r} = {i \in Items : Applied(inflight)[i] = r}
    BY <2>3
  <2>. QED  BY <1>2, <1>4, <2>1, <2>4 DEF MarkRetry, CountersMatchItems
<1>. QED  BY <1>1, <1>3, <1>4, RowsStep

(* A stored result is not revised by a step. *)
LEMMA ResultsStep ==
    ASSUME IInv, [Next]_vars, NEW i \in Items, ~Open(i)
    PROVE  itemState'[i] = itemState[i]
<1>1. CASE UNCHANGED itemRows
  BY <1>1 DEF itemRows
<1>2. \A results : Applied(results)[i] = itemState[i]
  BY DEF Applied, Fresh
<1>3. CASE \E results \in ResultBuffers : ApplyResults(results)
  BY <1>2, <1>3 DEF ApplyResults
<1>4. CASE pc \in {"flood_retry", "pause_retry"} /\ MarkRetry(cand)
  <2>1. cand # i
    BY <1>4, RetryOpen
  <2>. QED  BY <1>2, <1>4, <2>1 DEF MarkRetry, Applied
<1>. QED  BY <1>1, <1>3, <1>4, RowsStep

-----------------------------------------------------------------------------
(* The run.  A step that keeps the candidate and brings no new result      *)
(* keeps the results behind `pos', the candidate open and the window ahead *)
(* ...                                                                     *)
NoNewResult ==
    /\ pos' = pos /\ cand' = cand
    /\ UNCHANGED <<queue, chunk, lastLoaded>>
    /\ \A i \in Items : inflight[i] = NoResult /\ buffer[i] = NoResult
          => /\ inflight'[i] = NoResult /\ buffer'[i] = NoResult
             /\ Open(i) => Open(i)'

(* The items ahead of the run are not touched by results on their way. *)
LEMMA WindowKept ==
    ASSUME IInv, NoNewResult
    PROVE  WindowIsAhead'
<1>1. pos' = pos /\ lastLoaded' = lastLoaded /\ queue' = queue /\ chunk' = chunk
  BY DEF NoNewResult
<1>2. ASSUME NEW i \in Items, i > pos, Open(i)
      PROVE  Open(i)'
  BY <1>2, ExecutorAssumption DEF IInv, RunInv, ResultsArePopped, NoNewResult, TypeOK
<1>3. ASSUME NEW i \in queue
      PROVE  pos < i /\ i <= lastLoaded /\ Open(i)'
  BY <1>2, <1>3, ExecutorAssumption DEF IInv, RunInv, WindowIsAhead, TypeOK
<1>4. ASSUME NEW i \in chunk
      PROVE  lastLoaded < i /\ Open(i)'
  <2>1. i \in Items /\ lastLoaded < i /\ Open(i) /\ i > pos
    BY <1>4, ExecutorAssumption DEF IInv, RunInv, WindowIsAhead, TypeOK
  <2>. QED  BY <1>2, <2>1
<1>. QED  BY <1>1, <1>3, <1>4 DEF WindowIsAhead, IInv, RunInv

(* A step that brings no result and moves to no candidate keeps the candidate open. *)
LEMMA CandidateKept ==
    ASSUME IInv, NoNewResult, AtCandidate' => AtCandidate
    PROVE  ResultsArePopped' /\ CandidateIsOpen' /\ WindowIsAhead'
<1>1. ResultsArePopped'
  BY DEF IInv, RunInv, ResultsArePopped, NoNewResult
<1>2. AtCandidate' => cand' # NoItem
  BY DEF IInv, RunInv, CandidateIsOpen, NoNewResult
<1>3. ASSUME cand' # NoItem
      PROVE  cand' <= pos' /\ Open(cand)' /\ inflight'[cand'] = NoResult /\ buffer'[cand'] = NoResult
  <2>1. cand \in Items /\ cand' = cand /\ pos' = pos
    BY <1>3 DEF IInv, TypeOK, NoNewResult
  <2>2. cand <= pos /\ Open(cand) /\ inflight[cand] = NoResult /\ buffer[cand] = NoResult
    BY <1>3, <2>1 DEF IInv, RunInv, CandidateIsOpen
  <2>3. inflight'[cand] = NoResult /\ buffer'[cand] = NoResult /\ itemState'[cand] \notin Results
    BY <2>1, <2>2 DEF NoNewResult, Open
  <2>. QED  BY <2>1, <2>2, <2>3 DEF Open
<1>. QED  BY <1>1, <1>2, <1>3, WindowKept DEF CandidateIsOpen

(* ... as an awaited critical write does ... *)
LEMMA BarrierBringsNothing ==
    ASSUME Barrier, UNCHANGED <<pos, cand, buffer, window>>
    PROVE  NoNewResult
BY DEF Barrier, ApplyResults, NoNewResult, Applied, Fresh, Held, Nothing, Open, window

(* ... and a step that writes no result and moves none. *)
LEMMA StillRowsBringNothing ==
    ASSUME UNCHANGED <<pos, cand, itemState, inflight, buffer, queue, chunk, lastLoaded>>
    PROVE  NoNewResult
BY DEF NoNewResult, Open

(* The end of a run leaves nothing behind once the writer has caught up.   *)
LEMMA RunOver ==
    ASSUME ForgetRun, inflight' = Nothing, pc' \in {"idle", "down"}
    PROVE  RunInv'
<1>1. cand' = NoItem /\ buffer' = Nothing /\ inflight' = Nothing
  BY DEF ForgetRun
<1>2. ~AtCandidate'
  BY DEF AtCandidate, CandidateLabels
<1>3. NothingBetweenRuns' /\ EventsReturn'
  BY <1>1 DEF NothingBetweenRuns, EventsReturn
<1>4. ResultsArePopped'
  BY <1>1 DEF ResultsArePopped, Nothing
<1>5. CandidateIsOpen'
  BY <1>1, <1>2 DEF CandidateIsOpen
<1>6. WindowIsAhead'
  BY DEF ForgetRun, WindowIsAhead
<1>. QED  BY <1>3, <1>4, <1>5, <1>6 DEF RunInv

(* A candidate that gets its result is no longer at hand. *)
LEMMA CandidateSettled ==
    ASSUME IInv, NEW i \in Items, NEW result, AppendResult(i, result),
           pc \notin {"flush", "event"}, i <= pos', pos <= pos', pos' \in Nat,
           UNCHANGED <<itemState, inflight>>, WindowIsAhead'
    PROVE  RunInv'
<1>1. pc' \in {"flush", "loop"} /\ (pc' = "flush" => after' = "loop")
  BY DEF AppendResult, Goto
<1>2. ~AtCandidate' /\ cand' = NoItem
  BY <1>1 DEF AtCandidate, CandidateLabels, AppendResult
<1>3. NothingBetweenRuns' /\ EventsReturn'
  BY <1>1 DEF NothingBetweenRuns, EventsReturn
<1>4. ASSUME NEW j \in Items, inflight'[j] # NoResult \/ buffer'[j] # NoResult
      PROVE  j <= pos'
  <2>1. CASE j = i
    BY <2>1
  <2>2. CASE j # i
    <3>1. inflight[j] # NoResult \/ buffer[j] # NoResult
      BY <1>4, <2>2 DEF AppendResult, IInv, TypeOK, ResultBuffers
    <3>2. j <= pos /\ j \in Nat /\ pos \in Nat
      BY <3>1, ExecutorAssumption DEF IInv, RunInv, ResultsArePopped, TypeOK
    <3>. QED  BY <3>2
  <2>. QED  BY <2>1, <2>2
<1>. QED  BY <1>2, <1>3, <1>4 DEF RunInv, ResultsArePopped, CandidateIsOpen

(* Every step keeps what is known of a run in progress. *)
LEMMA RunStep ==
    ASSUME IInv, [Next]_vars
    PROVE  RunInv'
<1>. USE DEF control, verdict, runVars, window, memory, events, dbVars, jobRow, itemRows, queued,
             envVars
<1>i. /\ NothingBetweenRuns /\ EventsReturn /\ ResultsArePopped /\ CandidateIsOpen
      /\ WindowIsAhead /\ TypeOK /\ pos \in Nat /\ lastLoaded \in Nat
  BY ExecutorAssumption DEF IInv, RunInv, TypeOK
<1>k. ASSUME NoNewResult, AtCandidate' => AtCandidate, pc' \notin {"idle", "down", "begin"},
             EventsReturn'
      PROVE  RunInv'
  BY <1>k, CandidateKept DEF RunInv, NothingBetweenRuns
<1>1. CASE Begin
  <2>1. NoNewResult
    BY <1>1, BarrierBringsNothing DEF Begin
  <2>2. pc' = "event" /\ after' \in {"initial_wait", "prime"}
    BY <1>1 DEF Begin, EventThen
  <2>. QED  BY <2>1, <2>2, <1>k DEF AtCandidate, CandidateLabels, EventsReturn
<1>2. CASE EventWritten
  <2>1. Barrier /\ pc = "event"
    BY <1>2 DEF EventWritten
  <2>2. CASE EndRun
    BY <2>1, <2>2, RunOver DEF EndRun, Barrier, ApplyResults
  <2>3. CASE after # "idle" /\ pc' = after /\ after' = "idle" /\ UNCHANGED <<runVars, memory, events>>
    <3>1. NoNewResult
      BY <2>1, <2>3, BarrierBringsNothing
    <3>. QED  BY <2>1, <2>3, <3>1, <1>i, <1>k DEF AtCandidate, CandidateLabels, EventsReturn
  <2>. QED  BY <1>2, <2>2, <2>3 DEF EventWritten
<1>3. CASE FlushResults
  <2>1. NoNewResult
    BY <1>3 DEF FlushResults, NoNewResult, ApplyResults, Applied, Fresh, Held, Behind, Nothing, Open
  <2>2. pc = "flush" /\ pc' = after /\ after' = "idle"
    BY <1>3 DEF FlushResults
  <2>3. AtCandidate' => AtCandidate
    BY <2>2 DEF AtCandidate, CandidateLabels
  <2>4. NothingBetweenRuns' /\ EventsReturn'
    BY <1>3, <2>2, <1>i DEF NothingBetweenRuns, EventsReturn, FlushResults, ApplyResults
  <2>. QED  BY <2>1, <2>3, <2>4, CandidateKept DEF RunInv
<1>4. CASE HandleControl
  <2>1. NoNewResult
    BY <1>4, StillRowsBringNothing DEF HandleControl
  <2>2. pc' = "control_state" \/ (pc' = "flush" /\ after' = "control_state")
    BY <1>4 DEF HandleControl, FlushThen, Goto
  <2>. QED  BY <2>1, <2>2, <1>k DEF AtCandidate, CandidateLabels, EventsReturn
<1>5. CASE ControlState \/ FinalState
  <2>1. NoNewResult
    BY <1>5, BarrierBringsNothing DEF ControlState, FinalState
  <2>2. pc' = "event" /\ after' = "idle"
    BY <1>5 DEF ControlState, FinalState, EventThen
  <2>. QED  BY <2>1, <2>2, <1>k DEF AtCandidate, CandidateLabels, EventsReturn
<1>6. CASE BackToRunning
  <2>1. NoNewResult
    BY <1>6, BarrierBringsNothing DEF BackToRunning
  <2>2. \/ pc = "initial_wait" /\ pc' = "prime"
        \/ pc = "flood_wait" /\ pc' = "schedule"
    BY <1>6 DEF BackToRunning, Goto
  <2>. QED  BY <2>1, <2>2, <1>k DEF AtCandidate, CandidateLabels, EventsReturn
<1>7. CASE PopCandidate
  <2>1. PICK i \in queue : (\A j \in queue : i <= j) /\ Take(i)
    BY <1>7 DEF PopCandidate
  <2>2. i \in Items /\ i \in Nat /\ i > pos /\ i <= lastLoaded /\ Open(i)
    BY <1>i, ExecutorAssumption DEF WindowIsAhead, TypeOK
  <2>3. /\ pc \in {"pop", "loop"} /\ UNCHANGED <<itemState, inflight, chunk, lastLoaded>>
        /\ pos' = i /\ queue' = queue \ {i}
    BY <1>7, <2>1 DEF PopCandidate, Take
  <2>4. WindowIsAhead'
    <3>1. ASSUME NEW j \in queue'
          PROVE  i < j /\ j <= lastLoaded /\ Open(j)
      <4>1. j \in queue /\ j # i /\ j \in Nat
        BY <2>3, <3>1, <1>i, ExecutorAssumption DEF TypeOK
      <4>. QED  BY <2>1, <2>2, <4>1, <1>i DEF WindowIsAhead
    <3>. QED  BY <2>2, <2>3, <3>1, <1>i DEF WindowIsAhead, Open
  <2>5. CASE AppendResult(i, "FAILED")
    BY <2>2, <2>3, <2>4, <2>5, <1>i, CandidateSettled
  <2>6. CASE cand' = i /\ Goto("schedule") /\ UNCHANGED <<failures, buffer, flushTimer, answers>>
    <3>1. NothingBetweenRuns' /\ EventsReturn'
      BY <2>6 DEF NothingBetweenRuns, EventsReturn, Goto
    <3>2. inflight[i] = NoResult /\ buffer[i] = NoResult
      BY <2>2, <1>i DEF ResultsArePopped
    <3>3. CandidateIsOpen'
      BY <2>2, <2>3, <2>6, <3>2, ExecutorAssumption DEF CandidateIsOpen, NoItem, Open
    <3>4. ResultsArePopped'
      <4>. SUFFICES ASSUME NEW j \in Items, inflight[j] # NoResult \/ buffer[j] # NoResult
                    PROVE  j <= i
        BY <2>3, <2>6 DEF ResultsArePopped
      <4>1. j <= pos /\ j \in Nat
        BY <1>i, ExecutorAssumption DEF ResultsArePopped
      <4>. QED  BY <4>1, <2>2, <1>i
    <3>. QED  BY <2>4, <3>1, <3>3, <3>4 DEF RunInv
  <2>. QED  BY <2>1, <2>5, <2>6 DEF Take
<1>8. CASE Prime \/ PopWaits \/ BufferExhausted
  <2>1. NoNewResult
    BY <1>8, StillRowsBringNothing DEF Prime, PopWaits, BufferExhausted
  <2>2. \/ pc' = "fill" /\ after' \in {"loop", "pop"}
        \/ pc' = "finish"
        \/ pc' = "flush" /\ after' = "finish"
    BY <1>8 DEF Prime, PopWaits, AwaitFill, BufferExhausted, FlushThen, Goto
  <2>. QED  BY <2>1, <2>2, <1>k DEF AtCandidate, CandidateLabels, EventsReturn
<1>9. CASE Attempt \/ RpcTransient
  <2>1. NoNewResult
    BY <1>9, StillRowsBringNothing DEF Attempt, RpcTransient
  <2>2. pc \in {"schedule", "rpc"} /\ pc' \in {"rpc", "backoff"}
    BY <1>9 DEF Attempt, RpcTransient, Goto
  <2>. QED  BY <2>1, <2>2, <1>k DEF AtCandidate, CandidateLabels, EventsReturn
<1>10. CASE RpcSettles
  <2>1. pc = "rpc" /\ pos' = pos /\ UNCHANGED <<itemState, inflight>>
    BY <1>10 DEF RpcSettles
  <2>2. cand \in Items /\ cand <= pos
    BY <2>1, <1>i DEF AtCandidate, CandidateLabels, CandidateIsOpen, TypeOK
  <2>3. PICK result \in Results : AppendResult(cand, result)
    BY <1>10, SettledType DEF RpcSettles, Results
  <2>4. WindowIsAhead'
    BY <1>10, <2>1, <1>i DEF RpcSettles, WindowIsAhead, Open
  <2>. QED  BY <2>1, <2>2, <2>3, <2>4, <1>i, CandidateSettled
<1>11. CASE RpcFloods \/ RpcPauses
  <2>1. NoNewResult
    BY <1>11, StillRowsBringNothing DEF RpcFloods, RpcPauses
  <2>2. pc = "rpc" /\ (pc' \in {"flood_retry", "pause_retry"}
                         \/ (pc' = "flush" /\ after' \in {"flood_retry", "pause_retry"}))
    BY <1>11 DEF RpcFloods, RpcPauses, FlushThen, Goto
  <2>. QED  BY <2>1, <2>2, <1>k DEF AtCandidate, CandidateLabels, EventsReturn
<1>12. CASE FloodRetry \/ PauseRetry
  <2>1. pc \in {"flood_retry", "pause_retry"} /\ MarkRetry(cand) /\ UNCHANGED <<pos, cand, buffer, window>>
    BY <1>12 DEF FloodRetry, PauseRetry
  <2>2. NoNewResult
    BY <2>1 DEF MarkRetry, NoNewResult, Applied, Fresh, Held, Nothing, Open, Results
  <2>3. pc' = "flood_state" \/ (pc' = "event" /\ after' \in {"pause_account", "pause_state"})
    BY <1>12 DEF FloodRetry, PauseRetry, Goto, EventThen
  <2>. QED  BY <2>1, <2>2, <2>3, <1>k DEF AtCandidate, CandidateLabels, EventsReturn
<1>13. CASE FloodState \/ PauseAccount
  <2>1. NoNewResult
    BY <1>13, BarrierBringsNothing DEF FloodState, PauseAccount
  <2>2. /\ pc \in {"flood_state", "pause_account"}
        /\ pc' = "pause_state" \/ (pc' = "event" /\ after' = "flood_wait")
    BY <1>13 DEF FloodState, PauseAccount, Goto, EventThen
  <2>. QED  BY <2>1, <2>2, <1>k DEF AtCandidate, CandidateLabels, EventsReturn
<1>14. CASE BackoffOver
  <2>1. pc = "backoff" /\ pos' = pos /\ UNCHANGED <<itemState, inflight>>
    BY <1>14 DEF BackoffOver
  <2>2. cand \in Items /\ cand <= pos
    BY <2>1, <1>i DEF AtCandidate, CandidateLabels, CandidateIsOpen, TypeOK
  <2>3. CASE AppendResult(cand, "FAILED")
    <3>1. WindowIsAhead'
      BY <1>14, <2>1, <1>i DEF BackoffOver, WindowIsAhead, Open
    <3>. QED  BY <2>1, <2>2, <2>3, <3>1, <1>i, CandidateSettled
  <2>4. CASE Goto("schedule") /\ UNCHANGED <<cand, failures, buffer, flushTimer, answers>>
    <3>1. NoNewResult
      BY <1>14, <2>1, <2>4, StillRowsBringNothing DEF BackoffOver
    <3>. QED  BY <2>1, <2>4, <3>1, <1>k DEF Goto, AtCandidate, CandidateLabels, EventsReturn
  <2>. QED  BY <1>14, <2>3, <2>4 DEF BackoffOver
<1>15. CASE PauseState \/ ExceptState
  BY <1>15, RunOver DEF PauseState, ExceptState, EndRun, Barrier, ApplyResults
<1>16. CASE Finish
  <2>1. NoNewResult
    BY <1>16, StillRowsBringNothing DEF Finish
  <2>. QED  BY <2>1, <1>16, <1>k DEF Finish, Goto, AtCandidate, CandidateLabels, EventsReturn
<1>17. CASE FlushFails \/ CriticalFails \/ FillFails
  <2>1. /\ inflight' = Nothing \/ UNCHANGED inflight
        /\ Raise(Nothing) \/ Raise(buffer)
        /\ pc \notin {"idle", "down"}
        /\ Barrier \/ UNCHANGED itemRows
    BY <1>17 DEF FlushFails, CriticalFails, FillFails, Barrier, ApplyResults
  <2>2. CASE EndRun
    <3>1. inflight' = Nothing
      BY <1>17, <2>2 DEF FlushFails, CriticalFails, FillFails, Barrier, ApplyResults, Raise,
                         Handling, EndRun, FlushThen, Goto
    <3>. QED  BY <2>2, <3>1, RunOver DEF EndRun
  <2>3. CASE /\ FlushThen(Nothing, "except_state") \/ FlushThen(buffer, "except_state")
             /\ buffer' \in {Nothing, buffer}
             /\ UNCHANGED <<runVars, flushTimer, serverWait, window, events>>
    <3>1. NoNewResult
      BY <2>1, <2>3 DEF NoNewResult, Barrier, ApplyResults, Applied, Fresh, Held, Nothing, Open
    <3>2. pc' = "except_state" \/ (pc' = "flush" /\ after' = "except_state")
      BY <2>3 DEF FlushThen, Goto
    <3>. QED  BY <3>1, <3>2, <1>k DEF AtCandidate, CandidateLabels, EventsReturn
  <2>. QED  BY <2>1, <2>2, <2>3 DEF Raise
<1>18. CASE Command
  <2>1. UNCHANGED <<pos, cand, itemState, inflight, buffer, window>>
    BY <1>18 DEF Command, StartAction, ResumeAction, Launch, PauseAction, StopRunning, StopIdle
  <2>2. /\ UNCHANGED after
        /\ UNCHANGED pc \/ (pc = "idle" /\ pc' = "begin")
    BY <1>18 DEF Command, StartAction, ResumeAction, Launch, PauseAction, StopRunning, StopIdle
  <2>3. AtCandidate' => AtCandidate
    BY <2>2 DEF AtCandidate, CandidateLabels
  <2>4. NothingBetweenRuns' /\ EventsReturn'
    BY <2>1, <2>2, <1>i DEF NothingBetweenRuns, EventsReturn
  <2>. QED  BY <2>1, <2>3, <2>4, StillRowsBringNothing, CandidateKept DEF RunInv
<1>19. CASE WorkerCancels \/ CommitRoutine \/ DelayedFlush \/ RoutineFails \/ Tick
  <2>1. UNCHANGED <<pc, after, pos, cand, window>>
    BY <1>19 DEF WorkerCancels, CommitRoutine, DelayedFlush, RoutineFails, Tick
  <2>2. CASE WorkerCancels \/ CommitRoutine
    <3>1. Barrier /\ UNCHANGED buffer
      BY <2>2 DEF WorkerCancels, CommitRoutine
    <3>2. NothingBetweenRuns'
      BY <2>1, <3>1, <1>i DEF NothingBetweenRuns, Barrier, ApplyResults
    <3>. QED  BY <2>1, <3>1, <3>2, <1>i, BarrierBringsNothing, CandidateKept
              DEF RunInv, AtCandidate, EventsReturn
  <2>3. CASE DelayedFlush \/ RoutineFails \/ Tick
    <3>1. NoNewResult
      BY <2>1, <2>3 DEF DelayedFlush, RoutineFails, Tick, NoNewResult, Nothing, Open
    <3>2. NothingBetweenRuns'
      BY <2>1, <2>3, <1>i DEF DelayedFlush, RoutineFails, Tick, NothingBetweenRuns
    <3>. QED  BY <2>1, <3>1, <3>2, <1>i, CandidateKept DEF RunInv, AtCandidate, EventsReturn
  <2>. QED  BY <1>19, <2>2, <2>3
<1>20. CASE Crash
  BY <1>20, RunOver DEF Crash
<1>21. CASE Recover
  <2>1. pc = "down" /\ pc' = "idle" /\ UNCHANGED <<after, pos, cand, itemState, inflight, buffer, window>>
    BY <1>21 DEF Recover, Goto
  <2>2. NothingBetweenRuns' /\ EventsReturn' /\ ~AtCandidate'
    BY <2>1, <1>i DEF NothingBetweenRuns, EventsReturn, AtCandidate, CandidateLabels
  <2>. QED  BY <2>1, <2>2, StillRowsBringNothing, CandidateKept DEF RunInv
<1>22. CASE ReadChunk \/ ReadFails
  <2>1. UNCHANGED <<pc, after, pos, cand, itemState, inflight, buffer, queue, lastLoaded>>
    BY <1>22 DEF ReadChunk, ReadFails
  <2>2. \A i \in chunk' : lastLoaded < i /\ Open(i)
    BY <1>22, <1>i, ChunkIsAhead, ExecutorAssumption DEF ReadChunk, ReadFails, WindowIsAhead, TypeOK
  <2>3. WindowIsAhead'
    BY <2>1, <2>2, <1>i DEF WindowIsAhead, Open
  <2>. QED  BY <2>1, <2>3, <1>i DEF RunInv, NothingBetweenRuns, EventsReturn, ResultsArePopped,
                                    CandidateIsOpen, AtCandidate, Open
<1>23. CASE Filled
  <2>1. /\ UNCHANGED <<pos, cand, itemState, inflight, buffer>>
        /\ pc = "fill" /\ pc' = after
    BY <1>23 DEF Filled
  <2>2. WindowIsAhead'
    <3>1. CASE chunk = {}
      BY <1>23, <2>1, <3>1, <1>i DEF Filled, WindowIsAhead, Open
    <3>2. CASE chunk # {}
      <4>1. /\ lastLoaded' \in chunk /\ \A i \in chunk : i <= lastLoaded'
            /\ queue' = queue \cup chunk /\ chunk' = {}
        BY <1>23, <3>2, <1>i, FilledToLargest DEF Filled, TypeOK
      <4>2. lastLoaded' \in Nat /\ lastLoaded < lastLoaded'
        BY <4>1, <1>i, ExecutorAssumption DEF WindowIsAhead, TypeOK
      <4>3. ASSUME NEW i \in queue'
            PROVE  pos < i /\ i <= lastLoaded' /\ Open(i)
        <5>1. i \in Nat
          BY <4>1, <4>3, <1>i, ExecutorAssumption DEF TypeOK
        <5>. QED  BY <4>1, <4>2, <4>3, <5>1, <1>i DEF WindowIsAhead
      <4>. QED  BY <2>1, <4>1, <4>2, <4>3, <1>i DEF WindowIsAhead, Open
    <3>. QED  BY <3>1, <3>2
  <2>3. after \in {"loop", "pop"}
    BY <2>1, <1>i DEF EventsReturn
  <2>. QED  BY <2>1, <2>2, <2>3, <1>i DEF RunInv, NothingBetweenRuns, EventsReturn, ResultsArePopped,
                                    CandidateIsOpen, AtCandidate, CandidateLabels, Open
<1>24. CASE UNCHANGED vars
  BY <1>24 DEF vars, IInv, RunInv, WindowIsAhead, NothingBetweenRuns, EventsReturn, ResultsArePopped,
               CandidateIsOpen, AtCandidate, Open
<1>. QED
  BY <1>1, <1>2, <1>3, <1>4, <1>5, <1>6, <1>7, <1>8, <1>9, <1>10, <1>11, <1>12, <1>13, <1>14,
     <1>15, <1>16, <1>17, <1>18, <1>19, <1>20, <1>21, <1>22,
     <1>23, <1>24 DEF Next, ExecutorStep

-----------------------------------------------------------------------------
(* The strengthening holds at the start. *)
LEMMA InvInit == Init => IInv
<1>. SUFFICES ASSUME Init PROVE IInv
  OBVIOUS
<1>1. TypeOK
  BY TypeInit
<1>2. CountersMatchItems
  <2>1. \A r \in Results : {i \in Items : itemState[i] = r} = {}
    BY DEF Init, Results
  <2>. QED  BY <2>1, FS_EmptySet DEF Init, CountersMatchItems
<1>3. RunInv
  BY DEF Init, RunInv, NothingBetweenRuns, EventsReturn, ResultsArePopped, CandidateIsOpen,
         WindowIsAhead, AtCandidate, CandidateLabels, Nothing
<1>. QED  BY <1>1, <1>2, <1>3 DEF IInv

(* The strengthening is inductive. *)
THEOREM Invariance == Spec => []IInv
<1>1. IInv /\ [Next]_vars => IInv'
  BY TypeStep, CountersStep, RunStep DEF IInv
<1>. QED  BY <1>1, InvInit, PTL DEF Spec

(* The counters of the job row are the numbers of items in each terminal   *)
(* state, for any plan and any number of floods, crashes and failing       *)
(* writes.                                                                 *)
THEOREM CountersCorrect == Spec => []CountersMatchItems
<1>1. IInv => CountersMatchItems
  BY DEF IInv
<1>. QED  BY <1>1, Invariance, PTL

(* No step revises a stored result. *)
THEOREM ResultsFinal == Spec => ResultsAreFinal
<1>1. IInv /\ [Next]_vars => [\A i \in Items : ~Open(i) => itemState'[i] = itemState[i]]_vars
  BY ResultsStep
<1>. QED  BY <1>1, Invariance, PTL DEF Spec, ResultsAreFinal

-----------------------------------------------------------------------------
(* What becomes of the results of a run. *)

(* Where the coroutine is, or will be when the write or read it awaits     *)
(* returns.                                                                *)
Dest == IF pc \in {"event", "flush", "fill"} THEN after ELSE pc

(* An item is settled as far as the process knows: its result is stored or *)
(* on its way to the database.                                             *)
OnItsWay(i) == ~Open(i) \/ inflight[i] # NoResult \/ buffer[i] # NoResult

(* Where an awaited write returns to. *)
AwaitsReturn ==
    /\ pc = "event" => after \in {"idle", "initial_wait", "prime", "flood_wait", "pause_account",
                                  "pause_state"}
    /\ pc = "flush" => after \in {"loop", "control_state", "finish", "flood_retry", "pause_retry",
                                  "except_state"}

-----------------------------------------------------------------------------
(* The results. *)

(* A run that is about to end, or to lose its candidate, has flushed.      *)
EndLabels == {"control_state", "finish", "final_state", "except_state",
              "pause_retry", "pause_account", "pause_state"}
EndsFlushed ==
    (Dest \in EndLabels /\ pc # "flush") \/ (pc = "event" /\ after = "idle") => buffer = Nothing

(* A result that is neither stored nor on its way was lost by a crash or a *)
(* failed write.                                                           *)
LossesExplained ==
    \A i \in Items : answers[i] <= crashes + faults + (IF OnItsWay(i) THEN 1 ELSE 0)

ResultsInv == AwaitsReturn /\ EndsFlushed /\ LossesExplained

-----------------------------------------------------------------------------
(* The candidates. *)

(* No candidate is at hand between two of them. *)
BetweenLabels == {"down", "begin", "initial_wait", "prime", "loop", "pop", "finish", "final_state"}
NoCandidateBetween == Dest \in BetweenLabels \/ pc = "idle" => cand = NoItem

(* What a read has returned are the first open rows beyond the last one    *)
(* loaded, and exhausted means that there are none.                        *)
ReadIsWhole ==
    /\ loading = "read" =>
          \A i \in Items : i > lastLoaded /\ Open(i)
              => chunk # {} /\ (i \in chunk \/ \A j \in chunk : j < i)
    /\ exhausted => \A i \in Items : i > lastLoaded => ~Open(i)

(* pop returns to a window that has rows, unless there are no more. *)
PopHasRows == pc = "pop" => queue # {} \/ exhausted

(* No item is forgotten: it is settled, at hand, in the window or beyond   *)
(* it.  Only a failed write makes it otherwise.                            *)
NoneForgotten ==
    faults = 0 =>
        /\ \A i \in Items : OnItsWay(i) \/ i = cand \/ i \in queue \/ i > lastLoaded
        /\ Dest \in {"finish", "final_state"} => \A i \in Items : OnItsWay(i)

(* A stop or a pause never calls the job complete. *)
ControlIsNoCompletion == Dest = "control_state" => final \in {"CANCELLED", "PAUSED"}

CoverInv ==
    /\ NoCandidateBetween
    /\ ReadIsWhole
    /\ PopHasRows
    /\ NoneForgotten
    /\ ControlIsNoCompletion
    /\ CompletedIsComplete

-----------------------------------------------------------------------------
(* The row of the job, if the user does not resume while a cancellation is *)
(* queued.                                                                 *)
Startable == {"READY", "PAUSED", "WAITING_SERVER"}
WaitLabels == {"initial_wait", "flood_wait"}
WorkLabels == {"prime", "loop", "pop", "schedule", "rpc", "backoff", "pause_retry",
               "pause_account", "pause_state", "finish", "final_state"}
FloodLabels == {"flood_retry", "flood_state"}

(* Each place of the coroutine goes with a state of the row. *)
RowFollowsRun ==
    /\ cancelling => pc = "idle" /\ jobState \in Startable
    /\ pc = "begin" => jobState \in Startable
    /\ Dest \in WaitLabels => jobState = "WAITING_SERVER"
    /\ Dest \in WorkLabels \cup FloodLabels => jobState = "RUNNING"
    /\ Dest = "control_state" => /\ jobState \in {"RUNNING", "WAITING_SERVER"}
                                 /\ final \in {"CANCELLED", "PAUSED"}
    /\ Dest = "final_state" => final \in {"COMPLETED", "COMPLETED_WITH_ERRORS"}

(* The except path is entered by a failure only. *)
ExceptAfterFailure == Dest = "except_state" \/ loading = "failed" => faults > 0

(* The wait in the row, the one of the scheduler and the one of Telegram.  *)
WaitsAgree ==
    /\ jobState = "READY" => waitingUntil = 0
    /\ Running => waitingUntil <= serverWait
    /\ pc = "begin" /\ jobState = "READY" => serverWait = 0
    /\ Dest \in WorkLabels => serverWait = 0
    /\ Dest \in WaitLabels => waitingUntil = serverWait

(* Undisturbed, the scheduler and between runs the row know of the wait    *)
(* that Telegram imposed.                                                  *)
FloodIsKnown ==
    /\ pc = "down" => crashes > 0
    /\ Undisturbed =>
          /\ Running /\ ~(pc = "event" /\ after = "idle") => floodLeft <= serverWait
          /\ Dest \in {"idle", "control_state"}
                => jobState \in TerminalJobStates \/ floodLeft <= waitingUntil

RowInv == RowFollowsRun /\ ExceptAfterFailure /\ WaitsAgree /\ FloodIsKnown

(* A restriction leads to the end of the run. *)
RestrictionEnds ==
    /\ ExceptAfterFailure
    /\ restricted => Dest \in {"pause_retry", "pause_account", "pause_state", "except_state"}
    /\ Dest \in {"pause_account", "pause_state"} => itemState[cand] = "RETRY"

-----------------------------------------------------------------------------
(* The results on their way. *)

(* A step that loses no result. *)
KeepsResults ==
    /\ answers' = answers
    /\ crashes + faults <= crashes' + faults'
    /\ \A i \in Items : OnItsWay(i) => OnItsWay(i)'

(* A step that loses no result explains the losses as before it. *)
LEMMA LossesKept ==
    ASSUME TypeOK, TypeOK', LossesExplained, KeepsResults
    PROVE  LossesExplained'
<1>. SUFFICES ASSUME NEW i \in Items
              PROVE  answers'[i] <= crashes' + faults' + (IF OnItsWay(i)' THEN 1 ELSE 0)
  BY DEF LossesExplained
<1>1. answers[i] \in Nat /\ crashes \in Nat /\ faults \in Nat
  BY DEF TypeOK
<1>2. PICK c \in Nat, f \in Nat : c = crashes' /\ f = faults'
  BY DEF TypeOK
<1>3. answers[i] <= crashes + faults + (IF OnItsWay(i) THEN 1 ELSE 0)
  BY DEF LossesExplained
<1>4. crashes + faults <= c + f
  BY <1>2 DEF KeepsResults
<1>5. OnItsWay(i) => OnItsWay(i)'
  BY DEF KeepsResults
<1>6. \A n, x, y, z, old, new \in Nat : n <= x + y + old /\ x + y <= z + new => n <= z + new + old
  OBVIOUS
<1>7. answers' = answers
  BY DEF KeepsResults
<1>8. CASE OnItsWay(i)
  <2>1. answers[i] <= crashes + faults + 1
    BY <1>3, <1>8
  <2>2. answers[i] <= c + f + 1
    BY <1>1, <1>2, <1>4, <1>6, <2>1
  <2>3. OnItsWay(i)'
    BY <1>5, <1>8
  <2>. QED  BY <1>2, <1>7, <2>2, <2>3
<1>9. CASE ~OnItsWay(i)
  <2>1. answers[i] <= crashes + faults + 0
    BY <1>3, <1>9
  <2>2. answers[i] <= c + f + 0
    BY <1>1, <1>2, <1>4, <1>6, <2>1
  <2>. QED  BY <1>1, <1>2, <1>7, <2>2
<1>. QED  BY <1>8, <1>9

(* A crash or a failure explains one more loss of every item. *)
LEMMA LossesCounted ==
    ASSUME TypeOK, TypeOK', LossesExplained, answers' = answers,
           crashes' + faults' = crashes + faults + 1
    PROVE  LossesExplained'
<1>. SUFFICES ASSUME NEW i \in Items
              PROVE  answers'[i] <= crashes' + faults' + (IF OnItsWay(i)' THEN 1 ELSE 0)
  BY DEF LossesExplained
<1>1. /\ answers[i] \in Nat /\ crashes \in Nat /\ faults \in Nat
      /\ crashes' \in Nat /\ faults' \in Nat
  BY DEF TypeOK
<1>2. answers[i] <= crashes + faults + (IF OnItsWay(i) THEN 1 ELSE 0)
  BY DEF LossesExplained
<1>3. answers[i] <= crashes + faults + 1
  BY <1>1, <1>2
<1>4. answers'[i] <= crashes' + faults'
  BY <1>1, <1>3
<1>. QED  BY <1>1, <1>4

(* An answer for an item that has none on its way is explained by itself. *)
LEMMA LossesGained ==
    ASSUME TypeOK, TypeOK', LossesExplained,
           NEW i \in Items, NEW result \in Results, AppendResult(i, result), ~OnItsWay(i),
           UNCHANGED <<itemState, inflight, crashes, faults>>
    PROVE  LossesExplained'
<1>. SUFFICES ASSUME NEW j \in Items
              PROVE  answers'[j] <= crashes + faults + (IF OnItsWay(j)' THEN 1 ELSE 0)
  BY DEF LossesExplained
<1>1. answers[j] \in Nat /\ crashes \in Nat /\ faults \in Nat
  BY DEF TypeOK
<1>2. answers[j] <= crashes + faults + (IF OnItsWay(j) THEN 1 ELSE 0)
  BY DEF LossesExplained
<1>3. buffer' = [buffer EXCEPT ![i] = result] /\ answers' = [answers EXCEPT ![i] = @ + 1]
  BY DEF AppendResult
<1>4. CASE j = i
  <2>1. buffer'[j] # NoResult
    BY <1>3, <1>4 DEF TypeOK, ResultBuffers, Results, NoResult
  <2>2. OnItsWay(j)'
    BY <2>1 DEF OnItsWay
  <2>3. answers'[j] = answers[j] + 1
    BY <1>3, <1>4 DEF TypeOK
  <2>4. answers[j] <= crashes + faults
    BY <1>1, <1>2, <1>4
  <2>. QED  BY <1>1, <2>2, <2>3, <2>4
<1>5. CASE j # i
  <2>1. buffer'[j] = buffer[j] /\ answers'[j] = answers[j]
    BY <1>3, <1>5 DEF TypeOK, ResultBuffers
  <2>2. OnItsWay(j)' <=> OnItsWay(j)
    BY <2>1 DEF OnItsWay, Open
  <2>. QED  BY <1>2, <2>1, <2>2
<1>. QED  BY <1>4, <1>5

(* What a batch holds is stored by its write. *)
LEMMA AppliedSettles ==
    ASSUME TypeOK, NEW results \in ResultBuffers, NEW i \in Items,
           ~Open(i) \/ results[i] # NoResult
    PROVE  Applied(results)[i] \in Results
<1>1. CASE i \in Fresh(results)
  BY <1>1 DEF Applied, Fresh, Held, ResultBuffers
<1>2. CASE i \notin Fresh(results)
  BY <1>2 DEF Applied, Fresh, Held, Open
<1>. QED  BY <1>1, <1>2

(* An awaited critical write stores what is queued. *)
LEMMA BarrierKeeps ==
    ASSUME TypeOK, Barrier, NEW i \in Items, OnItsWay(i), buffer'[i] = buffer[i]
    PROVE  OnItsWay(i)'
<1>1. inflight \in ResultBuffers /\ itemState' = Applied(inflight)
  BY DEF TypeOK, Barrier, ApplyResults
<1>2. CASE ~Open(i) \/ inflight[i] # NoResult
  BY <1>1, <1>2, AppliedSettles DEF OnItsWay, Open
<1>3. CASE buffer[i] # NoResult
  BY <1>3 DEF OnItsWay
<1>. QED  BY <1>2, <1>3 DEF OnItsWay

(* The candidate has no result yet. *)
LEMMA CandidateNotSettled ==
    ASSUME IInv, pc \in CandidateLabels
    PROVE  cand \in Items /\ ~OnItsWay(cand)
BY DEF IInv, RunInv, CandidateIsOpen, AtCandidate, TypeOK, OnItsWay

(* The rows of the window have no result yet. *)
LEMMA WindowNotSettled ==
    ASSUME IInv, NEW i \in queue
    PROVE  i \in Items /\ ~OnItsWay(i)
<1>1. i \in Items /\ i \in Nat /\ pos \in Nat /\ pos < i /\ Open(i)
  BY ExecutorAssumption DEF IInv, RunInv, WindowIsAhead, TypeOK
<1>2. inflight[i] = NoResult /\ buffer[i] = NoResult
  BY <1>1 DEF IInv, RunInv, ResultsArePopped
<1>. QED  BY <1>1, <1>2 DEF OnItsWay

(* What is on its way stays so until a crash or a failure. *)
LEMMA WayStep ==
    ASSUME IInv, ResultsInv, [Next]_vars, crashes' = crashes, faults' = faults,
           NEW i \in Items, OnItsWay(i)
    PROVE  OnItsWay(i)'
<1>. USE DEF control, verdict, runVars, window, memory, events, dbVars, jobRow, itemRows, queued,
             envVars, budgets
<1>t. TypeOK /\ EndsFlushed /\ crashes \in Nat /\ faults \in Nat
  BY DEF IInv, ResultsInv, TypeOK
<1>b. ASSUME Barrier, UNCHANGED buffer
      PROVE  OnItsWay(i)'
  BY <1>b, <1>t, BarrierKeeps
<1>u. ASSUME UNCHANGED <<itemState, inflight, buffer>>
      PROVE  OnItsWay(i)'
  BY <1>u DEF OnItsWay, Open
<1>a. ASSUME NEW j, NEW result \in Results, AppendResult(j, result), UNCHANGED <<itemState, inflight>>
      PROVE  OnItsWay(i)'
  <2>1. buffer'[i] = buffer[i] \/ buffer'[i] = result
    BY <1>a, <1>t DEF AppendResult, TypeOK, ResultBuffers
  <2>. QED  BY <1>a, <2>1 DEF OnItsWay, Open, Results, NoResult
<1>1. CASE Begin \/ ControlState \/ BackToRunning \/ FloodState \/ PauseAccount \/ FinalState
           \/ WorkerCancels \/ CommitRoutine
  BY <1>1, <1>b DEF Begin, ControlState, BackToRunning, FloodState, PauseAccount, FinalState,
                    WorkerCancels, CommitRoutine
<1>2. CASE EventWritten
  <2>1. CASE after = "idle" /\ EndRun
    <3>1. buffer = Nothing /\ buffer' = Nothing /\ Barrier
      BY <1>2, <2>1, <1>t DEF EventWritten, EndsFlushed, EndRun, ForgetRun
    <3>. QED  BY <3>1, <1>b
  <2>2. CASE UNCHANGED <<runVars, memory, events>>
    BY <1>2, <2>2, <1>b DEF EventWritten
  <2>. QED  BY <1>2, <2>1, <2>2 DEF EventWritten
<1>3. CASE PauseState \/ ExceptState
  <2>1. buffer = Nothing /\ buffer' = Nothing /\ Barrier
    BY <1>3, <1>t DEF PauseState, ExceptState, EndsFlushed, Dest, EndLabels, EndRun, ForgetRun
  <2>. QED  BY <2>1, <1>b
<1>4. CASE FlushResults
  <2>1. Behind(inflight, buffer) \in ResultBuffers
    BY <1>t, BehindType DEF TypeOK
  <2>2. ~Open(i) \/ Behind(inflight, buffer)[i] # NoResult
    BY DEF OnItsWay, Behind
  <2>. QED  BY <1>4, <2>1, <2>2, <1>t, AppliedSettles DEF FlushResults, ApplyResults, OnItsWay, Open
<1>5. CASE FloodRetry \/ PauseRetry
  <2>1. pc \in {"flood_retry", "pause_retry"} /\ MarkRetry(cand) /\ UNCHANGED buffer
    BY <1>5 DEF FloodRetry, PauseRetry
  <2>2. i # cand
    BY <2>1, CandidateNotSettled DEF CandidateLabels
  <2>3. itemState'[i] = Applied(inflight)[i]
    BY <2>1, <2>2 DEF MarkRetry, Applied
  <2>4. CASE ~Open(i) \/ inflight[i] # NoResult
    BY <2>3, <2>4, <1>t, AppliedSettles DEF OnItsWay, Open, TypeOK
  <2>5. CASE buffer[i] # NoResult
    BY <2>1, <2>5 DEF OnItsWay
  <2>. QED  BY <2>4, <2>5 DEF OnItsWay
<1>6. CASE PopCandidate
  <2>1. PICK j \in queue : Take(j)
    BY <1>6 DEF PopCandidate
  <2>2. UNCHANGED <<itemState, inflight>>
    BY <1>6 DEF PopCandidate
  <2>. QED  BY <2>1, <2>2, <1>a, <1>u DEF Take, Results
<1>7. CASE RpcSettles
  <2>1. PICK result \in Results : AppendResult(cand, result)
    BY <1>7, SettledType DEF RpcSettles, Results
  <2>. QED  BY <1>7, <2>1, <1>a DEF RpcSettles
<1>8. CASE BackoffOver
  BY <1>8, <1>a, <1>u DEF BackoffOver, Results
<1>9. CASE HandleControl \/ Prime \/ PopWaits \/ BufferExhausted \/ Attempt \/ RpcFloods
           \/ RpcTransient \/ RpcPauses \/ Finish \/ ReadChunk \/ Filled \/ Tick \/ Recover
  BY <1>9, <1>u DEF HandleControl, Prime, PopWaits, BufferExhausted, Attempt, RpcFloods,
                    RpcTransient, RpcPauses, Finish, ReadChunk, Filled, Tick, Recover
<1>10. CASE Command
  BY <1>10, <1>u DEF Command, StartAction, ResumeAction, Launch, PauseAction, StopRunning, StopIdle
<1>11. CASE FlushFails \/ CriticalFails \/ ReadFails \/ RoutineFails \/ Crash
  BY <1>11, <1>t DEF FlushFails, CriticalFails, ReadFails, RoutineFails, Crash, Failing
<1>12. CASE FillFails
  <2>1. Raise(buffer) /\ ~Handling /\ UNCHANGED <<dbVars, queued, envVars>>
    BY <1>12 DEF FillFails, Handling
  <2>. QED  BY <2>1, <1>u DEF Raise
<1>13. CASE DelayedFlush
  BY <1>13 DEF DelayedFlush, OnItsWay, Open, Nothing
<1>14. CASE UNCHANGED vars
  BY <1>14, <1>u DEF vars
<1>. QED
  BY <1>1, <1>2, <1>3, <1>4, <1>5, <1>6, <1>7, <1>8, <1>9, <1>10, <1>11, <1>12, <1>13, <1>14
  DEF Next, ExecutorStep

(* Every step explains the results it loses. *)
LEMMA LossesStep ==
    ASSUME IInv, IInv', ResultsInv, [Next]_vars
    PROVE  LossesExplained'
<1>. USE DEF control, verdict, runVars, window, memory, events, dbVars, jobRow, itemRows, queued,
             envVars, budgets
<1>t. TypeOK /\ TypeOK' /\ LossesExplained /\ crashes \in Nat /\ faults \in Nat
  BY DEF IInv, ResultsInv, TypeOK
<1>k. ASSUME UNCHANGED <<answers, crashes, faults>>
      PROVE  LossesExplained'
  <2>1. KeepsResults
    BY <1>k, <1>t, WayStep DEF KeepsResults
  <2>. QED  BY <2>1, <1>t, LossesKept
<1>1. CASE PopCandidate
  <2>1. PICK i \in queue : Take(i)
    BY <1>1 DEF PopCandidate
  <2>2. UNCHANGED <<itemState, inflight, crashes, faults>>
    BY <1>1 DEF PopCandidate
  <2>3. i \in Items /\ ~OnItsWay(i)
    BY WindowNotSettled
  <2>4. CASE AppendResult(i, "FAILED")
    BY <2>2, <2>3, <2>4, <1>t, LossesGained DEF Results
  <2>. QED  BY <2>1, <2>2, <2>4, <1>k DEF Take
<1>2. CASE RpcSettles
  <2>1. pc = "rpc" /\ UNCHANGED <<itemState, inflight, crashes, faults>>
    BY <1>2 DEF RpcSettles
  <2>2. PICK result \in Results : AppendResult(cand, result)
    BY <1>2, SettledType DEF RpcSettles, Results
  <2>. QED  BY <2>1, <2>2, <1>t, CandidateNotSettled, LossesGained DEF CandidateLabels
<1>3. CASE BackoffOver
  <2>1. pc = "backoff" /\ UNCHANGED <<itemState, inflight, crashes, faults>>
    BY <1>3 DEF BackoffOver
  <2>2. CASE AppendResult(cand, "FAILED")
    BY <2>1, <2>2, <1>t, CandidateNotSettled, LossesGained DEF CandidateLabels, Results
  <2>. QED  BY <1>3, <2>1, <2>2, <1>k DEF BackoffOver
<1>4. CASE FlushFails \/ CriticalFails \/ ReadFails \/ RoutineFails \/ Crash
  <2>1. answers' = answers /\ \/ crashes' = crashes /\ faults' = faults + 1
                              \/ crashes' = crashes + 1 /\ faults' = faults
    BY <1>4 DEF FlushFails, CriticalFails, ReadFails, RoutineFails, Crash, Failing
  <2>. QED  BY <2>1, <1>t, LossesCounted
<1>5. CASE \/ Begin \/ EventWritten \/ FlushResults \/ HandleControl \/ ControlState
           \/ BackToRunning \/ Prime \/ Filled \/ FillFails \/ PopWaits \/ BufferExhausted
           \/ Attempt \/ RpcFloods \/ FloodRetry \/ FloodState \/ RpcTransient \/ RpcPauses
           \/ PauseRetry \/ PauseAccount \/ PauseState \/ Finish \/ FinalState \/ ExceptState
  BY <1>5, <1>k
  DEF Begin, EventWritten, FlushResults, HandleControl, ControlState, BackToRunning, Prime,
      Filled, FillFails, PopWaits, BufferExhausted, Attempt, RpcFloods, FloodRetry, FloodState,
      RpcTransient, RpcPauses, PauseRetry, PauseAccount, PauseState, Finish, FinalState,
      ExceptState
<1>6. CASE Command
  BY <1>6, <1>k DEF Command, StartAction, ResumeAction, Launch, PauseAction, StopRunning, StopIdle
<1>7. CASE WorkerCancels \/ ReadChunk \/ DelayedFlush \/ CommitRoutine \/ Tick \/ Recover
  BY <1>7, <1>k DEF WorkerCancels, ReadChunk, DelayedFlush, CommitRoutine, Tick, Recover
<1>8. CASE UNCHANGED vars
  BY <1>8, <1>k DEF vars
<1>. QED
  BY <1>1, <1>2, <1>3, <1>4, <1>5, <1>6, <1>7, <1>8 DEF Next, ExecutorStep

-----------------------------------------------------------------------------
(* An exception enters the except path, unless it is in it already. *)
LEMMA RaiseShape ==
    ASSUME NEW results, Raise(results)
    PROVE  \/ Handling /\ EndRun
           \/ /\ ~Handling /\ buffer' = results
              /\ \/ pc' = "flush" /\ after' = "except_state" /\ results # Nothing
                 \/ pc' = "except_state" /\ after' = after /\ results = Nothing
              /\ UNCHANGED <<runVars, flushTimer, serverWait, window, events>>
BY DEF Raise, FlushThen, Goto

(* Every step keeps what is known of the awaits and of the end of a run. *)
LEMMA AwaitsStep ==
    ASSUME IInv, AwaitsReturn, EndsFlushed, [Next]_vars
    PROVE  AwaitsReturn' /\ EndsFlushed'
<1>. USE DEF control, verdict, runVars, window, memory, events, dbVars, jobRow, itemRows, queued,
             envVars, budgets, AwaitsReturn, EndsFlushed, Dest, EndLabels
<1>i. pc = "fill" => after \in {"loop", "pop"}
  BY DEF IInv, RunInv, EventsReturn
<1>1. CASE Begin \/ EventWritten \/ FlushResults \/ HandleControl \/ ControlState \/ BackToRunning
  BY <1>1 DEF Begin, EventThen, EventWritten, EndRun, ForgetRun, FlushResults, HandleControl,
              FlushThen, Goto, ControlState, BackToRunning
<1>2. CASE Prime \/ Filled \/ PopWaits \/ BufferExhausted \/ Attempt
  BY <1>2, <1>i DEF Prime, AwaitFill, Filled, PopWaits, BufferExhausted, FlushThen, Goto, Attempt
<1>3. CASE FillFails \/ FlushFails \/ CriticalFails
  <2>1. Raise(Nothing) \/ Raise(buffer)
    BY <1>3 DEF FillFails, FlushFails, CriticalFails
  <2>. QED  BY <2>1, RaiseShape DEF EndRun, ForgetRun
<1>4. CASE PopCandidate \/ RpcSettles \/ BackoffOver
  <2>1. \/ \E i, result : AppendResult(i, result)
        \/ Goto("schedule")
    BY <1>4 DEF PopCandidate, Take, RpcSettles, BackoffOver
  <2>2. pc \in {"pop", "loop", "rpc", "backoff"}
    BY <1>4 DEF PopCandidate, RpcSettles, BackoffOver
  <2>. QED  BY <2>1, <2>2 DEF AppendResult, Goto
<1>5. CASE RpcFloods \/ RpcTransient \/ RpcPauses
  BY <1>5 DEF RpcFloods, RpcTransient, RpcPauses, FlushThen, Goto
<1>6. CASE FloodRetry \/ FloodState \/ PauseRetry \/ PauseAccount
  BY <1>6 DEF FloodRetry, FloodState, PauseRetry, PauseAccount, Goto, EventThen
<1>7. CASE PauseState \/ ExceptState \/ Crash \/ Recover
  BY <1>7 DEF PauseState, ExceptState, EndRun, ForgetRun, Crash, Recover, Goto
<1>8. CASE Finish \/ FinalState
  BY <1>8 DEF Finish, FinalState, Goto, EventThen
<1>9. CASE Command
  BY <1>9 DEF Command, StartAction, ResumeAction, Launch, PauseAction, StopRunning, StopIdle
<1>10. CASE WorkerCancels \/ ReadChunk \/ ReadFails \/ CommitRoutine \/ RoutineFails \/ Tick
  BY <1>10 DEF WorkerCancels, ReadChunk, ReadFails, CommitRoutine, RoutineFails, Tick
<1>11. CASE DelayedFlush
  BY <1>11 DEF DelayedFlush
<1>12. CASE UNCHANGED vars
  BY <1>12 DEF vars
<1>. QED
  BY <1>1, <1>2, <1>3, <1>4, <1>5, <1>6, <1>7, <1>8, <1>9, <1>10, <1>11, <1>12
  DEF Next, ExecutorStep

(* What is known of results holds from the start and is kept by every step.*)
LEMMA ResultsInvariant == Spec => [](IInv /\ ResultsInv)
<1>1. Init => ResultsInv
  <2>. SUFFICES ASSUME Init PROVE ResultsInv
    OBVIOUS
  <2>1. AwaitsReturn /\ EndsFlushed
    BY DEF Init, AwaitsReturn, EndsFlushed, Dest, EndLabels
  <2>2. LossesExplained
    BY DEF Init, LossesExplained, OnItsWay, Open, Results
  <2>. QED  BY <2>1, <2>2 DEF ResultsInv
<1>2. IInv /\ IInv' /\ ResultsInv /\ [Next]_vars => ResultsInv'
  BY AwaitsStep, LossesStep DEF ResultsInv
<1>. QED  BY <1>1, <1>2, Invariance, PTL DEF Spec

(* A member is settled once, and once more at most for each crash or       *)
(* failed write.                                                           *)
THEOREM SettledOnce == Spec => []SettledOncePerLoss
<1>1. IInv /\ ResultsInv => SettledOncePerLoss
  <2>. SUFFICES ASSUME IInv, LossesExplained, NEW i \in Items
                PROVE  answers[i] <= 1 + crashes + faults
    BY DEF ResultsInv, SettledOncePerLoss
  <2>1. answers[i] \in Nat /\ crashes \in Nat /\ faults \in Nat
    BY DEF IInv, TypeOK
  <2>2. answers[i] <= crashes + faults + (IF OnItsWay(i) THEN 1 ELSE 0)
    BY DEF LossesExplained
  <2>. QED  BY <2>1, <2>2
<1>. QED  BY <1>1, ResultsInvariant, PTL

(* However a run ends without a crash or a failed write, every result it   *)
(* obtained is stored.                                                     *)
THEOREM NothingLeftBehind == Spec => []NoResultLeftBehind
<1>1. IInv /\ ResultsInv => NoResultLeftBehind
  <2>. SUFFICES ASSUME IInv, LossesExplained, pc = "idle", Undisturbed,
                       NEW i \in Items, answers[i] > 0
                PROVE  ~Open(i)
    BY DEF ResultsInv, NoResultLeftBehind
  <2>1. answers[i] \in Nat /\ crashes = 0 /\ faults = 0
    BY DEF IInv, TypeOK, Undisturbed
  <2>2. answers[i] <= crashes + faults + (IF OnItsWay(i) THEN 1 ELSE 0)
    BY DEF LossesExplained
  <2>3. OnItsWay(i)
    BY <2>1, <2>2
  <2>4. inflight[i] = NoResult /\ buffer[i] = NoResult
    BY DEF IInv, RunInv, NothingBetweenRuns, Nothing
  <2>. QED  BY <2>3, <2>4 DEF OnItsWay
<1>. QED  BY <1>1, ResultsInvariant, PTL

-----------------------------------------------------------------------------
(* Candidates. *)

(* A result that is stored stays so. *)
LEMMA ClosedStays ==
    ASSUME IInv, [Next]_vars, NEW i \in Items, ~Open(i)
    PROVE  ~Open(i)'
BY ResultsStep DEF Open

(* A set of numbers that is not empty has a smallest element. *)
LEMMA SmallestExists ==
    ASSUME NEW S \in SUBSET Nat, S # {}
    PROVE  \E n \in S : \A m \in S : n <= m
<1>1. IsWellFoundedOn(OpToRel(<, Nat), Nat)
  BY NatLessThanWellFounded
<1>2. PICK n \in S : \A m \in S : ~(<<m, n>> \in OpToRel(<, Nat))
  BY <1>1, WFMin
<1>3. \A m \in S : ~(m < n)
  BY <1>2 DEF OpToRel
<1>. QED  BY <1>3

(* The rows read next are the first open ones beyond the last one loaded. *)
LEMMA ChunkIsWhole ==
    ASSUME TypeOK, NEW i \in Items, i > lastLoaded, Open(i)
    PROVE  Chunk # {} /\ (i \in Chunk \/ \A j \in Chunk : j < i)
<1>. DEFINE left == {k \in Items : k > lastLoaded /\ itemState[k] \in {"READY", "RETRY"}}
            upTo(k) == {j \in left : j <= k}
<1>1. left \in SUBSET Items /\ left \in SUBSET Nat /\ \A k : upTo(k) \in SUBSET Items
  BY ExecutorAssumption
<1>2. Chunk = {k \in left : Cardinality(upTo(k)) <= ChunkSize}
  BY DEF Chunk
<1>3. i \in left
  BY DEF TypeOK, ItemStates, Open
<1>4. Chunk # {}
  <2>1. PICK m \in left : \A k \in left : m <= k
    BY <1>1, <1>3, SmallestExists
  <2>2. upTo(m) = {m}
    BY <1>1, <2>1
  <2>3. Cardinality(upTo(m)) = 1
    BY <2>2, FS_Singleton
  <2>4. 1 <= ChunkSize
    BY ExecutorAssumption
  <2>. QED  BY <1>2, <2>1, <2>3, <2>4
<1>5. ASSUME NEW j \in Chunk, i \notin Chunk
      PROVE  j < i
  <2>1. j \in left /\ Cardinality(upTo(j)) <= ChunkSize /\ ~(Cardinality(upTo(i)) <= ChunkSize)
    BY <1>2, <1>3, <1>5
  <2>2. Cardinality(upTo(i)) \in Nat /\ Cardinality(upTo(j)) \in Nat /\ IsFiniteSet(upTo(j))
    BY <1>1, SubsetOfItems
  <2>3. ASSUME i <= j
        PROVE  FALSE
    <3>1. upTo(i) \subseteq upTo(j)
      BY <1>1, <1>3, <2>1, <2>3
    <3>2. Cardinality(upTo(i)) <= Cardinality(upTo(j))
      BY <2>2, <3>1, FS_Subset
    <3>. HIDE DEF upTo
    <3>. QED  BY <2>1, <2>2, <3>2, ExecutorAssumption
  <2>4. i \in Nat /\ j \in Nat
    BY <1>1, <1>3, <2>1
  <2>. QED  BY <2>3, <2>4
<1>. QED  BY <1>4, <1>5

(* Every step keeps what is known of the reads. *)
LEMMA ReadStep ==
    ASSUME IInv, ReadIsWhole, [Next]_vars
    PROVE  ReadIsWhole'
<1>. USE DEF control, verdict, runVars, window, memory, events, dbVars, jobRow, itemRows, queued,
             envVars, budgets
<1>t. TypeOK /\ lastLoaded \in Nat
  BY ExecutorAssumption DEF IInv, TypeOK
<1>k. ASSUME UNCHANGED <<chunk, lastLoaded, exhausted>>, loading' = "read" => loading = "read"
      PROVE  ReadIsWhole'
  <2>1. \A i \in Items : Open(i)' => Open(i)
    BY ClosedStays
  <2>. QED  BY <1>k, <2>1 DEF ReadIsWhole, Open
<1>f. ForgetRun => ReadIsWhole'
  BY DEF ForgetRun, ReadIsWhole
<1>1. CASE \/ Begin \/ FlushResults \/ HandleControl \/ ControlState \/ BackToRunning \/ Prime
           \/ PopWaits \/ BufferExhausted \/ Attempt \/ RpcSettles \/ RpcFloods \/ FloodRetry
           \/ FloodState \/ RpcTransient \/ BackoffOver \/ RpcPauses \/ PauseRetry
           \/ PauseAccount \/ Finish \/ FinalState
  BY <1>1, <1>k
  DEF Begin, FlushResults, HandleControl, ControlState, BackToRunning, Prime, AwaitFill,
      PopWaits, BufferExhausted, Attempt, RpcSettles, RpcFloods, FloodRetry, FloodState,
      RpcTransient, BackoffOver, RpcPauses, PauseRetry, PauseAccount, Finish, FinalState
<1>2. CASE EventWritten
  BY <1>2, <1>k, <1>f DEF EventWritten, EndRun
<1>3. CASE PauseState \/ ExceptState \/ Crash
  BY <1>3, <1>f DEF PauseState, ExceptState, EndRun, Crash
<1>4. CASE FlushFails \/ CriticalFails \/ FillFails
  BY <1>4, <1>k, <1>f DEF FlushFails, CriticalFails, FillFails, Raise, EndRun
<1>5. CASE PopCandidate
  BY <1>5, <1>k DEF PopCandidate, Take
<1>6. CASE Filled
  <2>1. ASSUME exhausted', NEW i \in Items, i > lastLoaded'
        PROVE  ~Open(i)'
    <3>1. i \in Nat
      BY ExecutorAssumption
    <3>2. CASE chunk = {}
      BY <1>6, <2>1, <3>2, ClosedStays DEF Filled, ReadIsWhole
    <3>3. CASE chunk # {}
      <4>1. lastLoaded' \in chunk /\ exhausted
        BY <1>6, <2>1, <3>3, <1>t, FilledToLargest DEF Filled, TypeOK
      <4>2. lastLoaded' \in Nat /\ lastLoaded < lastLoaded'
        BY <4>1, <1>t, ExecutorAssumption DEF IInv, RunInv, WindowIsAhead, TypeOK
      <4>3. i > lastLoaded
        BY <2>1, <3>1, <4>2, <1>t
      <4>. QED  BY <4>1, <4>3, ClosedStays DEF ReadIsWhole
    <3>. QED  BY <3>2, <3>3
  <2>2. loading' = "none"
    BY <1>6 DEF Filled
  <2>. QED  BY <2>1, <2>2 DEF ReadIsWhole
<1>7. CASE ReadChunk
  <2>1. UNCHANGED <<itemState, lastLoaded, exhausted>> /\ chunk' = Chunk
    BY <1>7 DEF ReadChunk
  <2>2. ASSUME NEW i \in Items, i > lastLoaded, Open(i)
        PROVE  Chunk # {} /\ (i \in Chunk \/ \A j \in Chunk : j < i)
    BY <2>2, <1>t, ChunkIsWhole
  <2>. QED  BY <2>1, <2>2 DEF ReadIsWhole, Open
<1>8. CASE Command
  BY <1>8, <1>k DEF Command, StartAction, ResumeAction, Launch, PauseAction, StopRunning, StopIdle
<1>9. CASE WorkerCancels \/ ReadFails \/ DelayedFlush \/ CommitRoutine \/ RoutineFails \/ Tick \/ Recover
  BY <1>9, <1>k DEF WorkerCancels, ReadFails, DelayedFlush, CommitRoutine, RoutineFails, Tick, Recover
<1>10. CASE UNCHANGED vars
  BY <1>10, <1>k DEF vars
<1>. QED
  BY <1>1, <1>2, <1>3, <1>4, <1>5, <1>6, <1>7, <1>8, <1>9, <1>10 DEF Next, ExecutorStep

(* Who ends a run, or fails, leaves the candidate and the window. *)
LEMMA EndForgets ==
    ASSUME EndRun
    PROVE  /\ cand' = NoItem /\ lastLoaded' = 0
           /\ pc' = "idle" /\ Dest' = "idle"
BY DEF EndRun, ForgetRun, Dest

(* Every step keeps what is known of the places between two candidates. *)
LEMMA BetweenStep ==
    ASSUME IInv, ResultsInv, NoCandidateBetween, PopHasRows, ControlIsNoCompletion, [Next]_vars
    PROVE  NoCandidateBetween' /\ PopHasRows' /\ ControlIsNoCompletion'
<1>. USE DEF control, verdict, runVars, window, memory, events, dbVars, jobRow, itemRows, queued,
             envVars, budgets, NoCandidateBetween, PopHasRows, ControlIsNoCompletion, Dest,
             BetweenLabels
<1>i. AwaitsReturn /\ (pc = "fill" => after \in {"loop", "pop"})
  BY DEF ResultsInv, IInv, RunInv, EventsReturn
<1>1. CASE Begin \/ FlushResults \/ ControlState \/ BackToRunning
  BY <1>1, <1>i DEF Begin, EventThen, FlushResults, ControlState, BackToRunning, Goto, AwaitsReturn
<1>2. CASE EventWritten
  <2>1. CASE EndRun
    BY <2>1, EndForgets
  <2>2. CASE after # "idle" /\ pc' = after /\ after' = "idle" /\ UNCHANGED <<runVars, memory, events>>
    BY <1>2, <2>2, <1>i DEF EventWritten, AwaitsReturn
  <2>. QED  BY <1>2, <2>1, <2>2 DEF EventWritten
<1>3. CASE HandleControl
  BY <1>3 DEF HandleControl, FlushThen, Goto
<1>4. CASE Filled
  BY <1>4, <1>i DEF Filled
<1>5. CASE Prime \/ PopWaits \/ BufferExhausted \/ Attempt
  BY <1>5 DEF Prime, AwaitFill, PopWaits, BufferExhausted, FlushThen, Goto, Attempt
<1>6. CASE FillFails \/ FlushFails \/ CriticalFails
  <2>1. Raise(Nothing) \/ Raise(buffer)
    BY <1>6 DEF FillFails, FlushFails, CriticalFails
  <2>2. CASE EndRun
    BY <2>2, EndForgets
  <2>3. CASE ~EndRun
    BY <2>1, <2>3, RaiseShape
  <2>. QED  BY <2>2, <2>3
<1>7. CASE PopCandidate \/ RpcSettles \/ BackoffOver
  <2>1. \/ \E i, result : AppendResult(i, result)
        \/ Goto("schedule")
    BY <1>7 DEF PopCandidate, Take, RpcSettles, BackoffOver
  <2>2. pc \in {"pop", "loop", "rpc", "backoff"}
    BY <1>7 DEF PopCandidate, RpcSettles, BackoffOver
  <2>. QED  BY <2>1, <2>2 DEF AppendResult, Goto
<1>8. CASE RpcFloods \/ RpcTransient \/ RpcPauses
  BY <1>8 DEF RpcFloods, RpcTransient, RpcPauses, FlushThen, Goto
<1>9. CASE FloodRetry \/ FloodState \/ PauseRetry \/ PauseAccount
  BY <1>9 DEF FloodRetry, FloodState, PauseRetry, PauseAccount, Goto, EventThen
<1>10. CASE PauseState \/ ExceptState
  BY <1>10, EndForgets DEF PauseState, ExceptState
<1>11. CASE Crash \/ Recover
  BY <1>11 DEF Crash, ForgetRun, Recover, Goto
<1>12. CASE Finish \/ FinalState
  BY <1>12 DEF Finish, FinalState, Goto, EventThen
<1>13. CASE Command
  BY <1>13 DEF Command, StartAction, ResumeAction, Launch, PauseAction, StopRunning, StopIdle
<1>14. CASE WorkerCancels \/ ReadChunk \/ ReadFails \/ CommitRoutine \/ RoutineFails \/ Tick
  BY <1>14 DEF WorkerCancels, ReadChunk, ReadFails, CommitRoutine, RoutineFails, Tick
<1>15. CASE DelayedFlush
  BY <1>15 DEF DelayedFlush
<1>16. CASE UNCHANGED vars
  BY <1>16 DEF vars
<1>. QED
  BY <1>1, <1>2, <1>3, <1>4, <1>5, <1>6, <1>7, <1>8, <1>9, <1>10, <1>11, <1>12, <1>13, <1>14,
     <1>15, <1>16 DEF Next, ExecutorStep

(* The end of the plan is reached only when nothing is left. *)
LEMMA FinishEntered ==
    ASSUME IInv, ResultsInv, [Next]_vars, Dest' \in {"finish", "final_state"}
    PROVE  Dest \in {"finish", "final_state"} \/ BufferExhausted
<1>. USE DEF control, verdict, runVars, window, memory, events, dbVars, jobRow, itemRows, queued,
             envVars, budgets, Dest
<1>i. AwaitsReturn /\ (pc = "fill" => after \in {"loop", "pop"})
  BY DEF ResultsInv, IInv, RunInv, EventsReturn
<1>1. CASE Begin \/ FlushResults \/ ControlState \/ BackToRunning
  BY <1>1, <1>i DEF Begin, EventThen, FlushResults, ControlState, BackToRunning, Goto, AwaitsReturn
<1>2. CASE EventWritten
  <2>1. CASE EndRun
    BY <2>1, EndForgets
  <2>2. CASE after # "idle" /\ pc' = after /\ after' = "idle" /\ UNCHANGED <<runVars, memory, events>>
    BY <1>2, <2>2, <1>i DEF EventWritten, AwaitsReturn
  <2>. QED  BY <1>2, <2>1, <2>2 DEF EventWritten
<1>3. CASE HandleControl
  BY <1>3 DEF HandleControl, FlushThen, Goto
<1>4. CASE Filled
  BY <1>4, <1>i DEF Filled
<1>5. CASE Prime \/ PopWaits \/ Attempt
  BY <1>5 DEF Prime, AwaitFill, PopWaits, Goto, Attempt
<1>6. CASE FillFails \/ FlushFails \/ CriticalFails
  <2>1. Raise(Nothing) \/ Raise(buffer)
    BY <1>6 DEF FillFails, FlushFails, CriticalFails
  <2>2. CASE EndRun
    BY <2>2, EndForgets
  <2>3. CASE ~EndRun
    BY <2>1, <2>3, RaiseShape
  <2>. QED  BY <2>2, <2>3
<1>7. CASE PopCandidate \/ RpcSettles \/ BackoffOver
  <2>1. \/ \E i, result : AppendResult(i, result)
        \/ Goto("schedule")
    BY <1>7 DEF PopCandidate, Take, RpcSettles, BackoffOver
  <2>. QED  BY <1>7, <2>1 DEF AppendResult, Goto, PopCandidate, RpcSettles, BackoffOver
<1>8. CASE RpcFloods \/ RpcTransient \/ RpcPauses
  BY <1>8 DEF RpcFloods, RpcTransient, RpcPauses, FlushThen, Goto
<1>9. CASE FloodRetry \/ FloodState \/ PauseRetry \/ PauseAccount
  BY <1>9 DEF FloodRetry, FloodState, PauseRetry, PauseAccount, Goto, EventThen
<1>10. CASE PauseState \/ ExceptState
  BY <1>10, EndForgets DEF PauseState, ExceptState
<1>11. CASE Crash \/ Recover
  BY <1>11 DEF Crash, ForgetRun, Recover, Goto
<1>12. CASE Finish \/ FinalState
  BY <1>12 DEF Finish, FinalState, Goto, EventThen
<1>13. CASE Command
  BY <1>13 DEF Command, StartAction, ResumeAction, Launch, PauseAction, StopRunning, StopIdle
<1>14. CASE WorkerCancels \/ ReadChunk \/ ReadFails \/ CommitRoutine \/ RoutineFails \/ Tick
  BY <1>14 DEF WorkerCancels, ReadChunk, ReadFails, CommitRoutine, RoutineFails, Tick
<1>15. CASE DelayedFlush
  BY <1>15 DEF DelayedFlush
<1>16. CASE UNCHANGED vars
  BY <1>16 DEF vars
<1>. QED
  BY <1>1, <1>2, <1>3, <1>4, <1>5, <1>6, <1>7, <1>8, <1>9, <1>10, <1>11, <1>12, <1>13, <1>14,
     <1>15, <1>16 DEF Next, ExecutorStep

(* Crashes and failing writes are counted one at a time. *)
LEMMA CrashesStep ==
    ASSUME [Next]_vars
    PROVE  /\ crashes' = crashes \/ Crash
           /\ faults' = faults \/ faults' = faults + 1
<1>. USE DEF envVars, budgets
<1>1. CASE \/ Begin \/ EventWritten \/ FlushResults \/ HandleControl \/ ControlState
           \/ BackToRunning \/ Prime \/ Filled \/ FillFails \/ PopCandidate \/ PopWaits
           \/ BufferExhausted \/ Attempt \/ RpcSettles \/ RpcFloods \/ FloodRetry \/ FloodState
           \/ RpcTransient \/ BackoffOver \/ RpcPauses \/ PauseRetry \/ PauseAccount
           \/ PauseState \/ Finish \/ FinalState \/ ExceptState
  BY <1>1
  DEF Begin, EventWritten, FlushResults, HandleControl, ControlState, BackToRunning, Prime,
      Filled, FillFails, PopCandidate, PopWaits, BufferExhausted, Attempt, RpcSettles, RpcFloods,
      FloodRetry, FloodState, RpcTransient, BackoffOver, RpcPauses, PauseRetry, PauseAccount,
      PauseState, Finish, FinalState, ExceptState
<1>2. CASE FlushFails \/ CriticalFails \/ ReadFails \/ RoutineFails \/ Crash
  BY <1>2 DEF FlushFails, CriticalFails, ReadFails, RoutineFails, Crash, Failing
<1>3. CASE Command
  BY <1>3 DEF Command, StartAction, ResumeAction, Launch, PauseAction, StopRunning, StopIdle
<1>4. CASE WorkerCancels \/ ReadChunk \/ DelayedFlush \/ CommitRoutine \/ Tick \/ Recover
  BY <1>4 DEF WorkerCancels, ReadChunk, DelayedFlush, CommitRoutine, Tick, Recover
<1>5. CASE UNCHANGED vars
  BY <1>5 DEF vars
<1>. QED  BY <1>1, <1>2, <1>3, <1>4, <1>5 DEF Next, ExecutorStep

(* The candidate and the window change where candidates are taken, settled *)
(* or read, and when the run ends.                                         *)
LEMMA WindowChanges ==
    ASSUME IInv, ResultsInv, [Next]_vars
    PROVE  \/ UNCHANGED <<cand, queue, lastLoaded, crashes, faults>>
           \/ PopCandidate \/ RpcSettles \/ BackoffOver \/ Filled
           \/ lastLoaded' = 0
           \/ faults' = faults + 1
<1>. USE DEF control, verdict, runVars, window, memory, events, dbVars, jobRow, itemRows, queued,
             envVars, budgets
<1>1. CASE \/ Begin \/ FlushResults \/ HandleControl \/ ControlState \/ BackToRunning \/ Prime
           \/ PopWaits \/ BufferExhausted \/ Attempt \/ RpcFloods \/ FloodRetry
           \/ FloodState \/ RpcTransient \/ RpcPauses \/ PauseRetry
           \/ PauseAccount \/ Finish \/ FinalState
  BY <1>1
  DEF Begin, FlushResults, HandleControl, ControlState, BackToRunning, Prime, AwaitFill,
      PopWaits, BufferExhausted, Attempt, RpcFloods, FloodRetry, FloodState,
      RpcTransient, RpcPauses, PauseRetry, PauseAccount, Finish, FinalState
<1>2. CASE EventWritten
  BY <1>2, EndForgets DEF EventWritten
<1>3. CASE PauseState \/ ExceptState \/ Crash
  BY <1>3, EndForgets DEF PauseState, ExceptState, Crash, ForgetRun
<1>4. CASE FlushFails \/ CriticalFails \/ ReadFails \/ RoutineFails
  BY <1>4 DEF FlushFails, CriticalFails, ReadFails, RoutineFails, Failing
<1>5. CASE FillFails
  BY <1>5, EndForgets DEF FillFails, Raise
<1>6. CASE Command
  BY <1>6 DEF Command, StartAction, ResumeAction, Launch, PauseAction, StopRunning, StopIdle
<1>7. CASE WorkerCancels \/ ReadChunk \/ DelayedFlush \/ CommitRoutine \/ Tick \/ Recover
  BY <1>7 DEF WorkerCancels, ReadChunk, DelayedFlush, CommitRoutine, Tick, Recover
<1>8. CASE UNCHANGED vars
  BY <1>8 DEF vars
<1>. QED
  BY <1>1, <1>2, <1>3, <1>4, <1>5, <1>6, <1>7, <1>8 DEF Next, ExecutorStep

(* Every step keeps count of the items. *)
LEMMA ForgottenStep ==
    ASSUME IInv, ResultsInv, CoverInv, [Next]_vars
    PROVE  NoneForgotten'
<1>. USE DEF control, verdict, runVars, window, memory, events, dbVars, jobRow, itemRows, queued,
             envVars, budgets
<1>t. TypeOK /\ NoneForgotten /\ ReadIsWhole /\ NoCandidateBetween /\ PopHasRows
  BY DEF IInv, CoverInv
<1>n. /\ lastLoaded \in Nat /\ faults \in Nat /\ crashes \in Nat
      /\ \A i \in Items : i \in Nat /\ i > 0 /\ i # NoItem
  BY <1>t, ExecutorAssumption DEF TypeOK, NoItem
<1>p. ASSUME faults' = 0
      PROVE  faults = 0
  <2>1. faults' = faults \/ faults' = faults + 1
    BY CrashesStep
  <2>. QED  BY <2>1, <1>n, <1>p
<1>. SUFFICES ASSUME faults' = 0
              PROVE  /\ \A i \in Items : OnItsWay(i)' \/ i = cand' \/ i \in queue' \/ i > lastLoaded'
                     /\ Dest' \in {"finish", "final_state"} => \A i \in Items : OnItsWay(i)'
  BY DEF NoneForgotten
<1>1. \A i \in Items : OnItsWay(i) \/ i = cand \/ i \in queue \/ i > lastLoaded
  BY <1>p, <1>t DEF NoneForgotten
<1>w. ASSUME crashes' = crashes, NEW i \in Items, OnItsWay(i)
      PROVE  OnItsWay(i)'
  BY <1>p, <1>w, WayStep
<1>2. ASSUME NEW i \in Items
      PROVE  OnItsWay(i)' \/ i = cand' \/ i \in queue' \/ i > lastLoaded'
  <2>1. CASE UNCHANGED <<cand, queue, lastLoaded, crashes, faults>>
    BY <1>1, <1>w, <2>1
  <2>2. CASE PopCandidate
    <3>1. PICK j \in queue : Take(j)
      BY <2>2 DEF PopCandidate
    <3>2. UNCHANGED <<lastLoaded, crashes>> /\ queue' = queue \ {j} /\ cand = NoItem
      BY <2>2, <3>1, <1>t DEF PopCandidate, Take, NoCandidateBetween, Dest, BetweenLabels
    <3>3. CASE i = j
      <4>1. CASE cand' = i
        BY <4>1
      <4>2. CASE AppendResult(j, "FAILED")
        BY <3>3, <4>2, <1>t DEF AppendResult, OnItsWay, NoResult, TypeOK, ResultBuffers
      <4>. QED  BY <3>1, <3>3, <4>1, <4>2 DEF Take
    <3>4. CASE i # j
      BY <1>1, <1>n, <1>w, <3>2, <3>4
    <3>. QED  BY <3>3, <3>4
  <2>3. CASE RpcSettles \/ BackoffOver
    <3>1. UNCHANGED <<queue, lastLoaded, crashes>>
      BY <2>3 DEF RpcSettles, BackoffOver
    <3>2. UNCHANGED cand \/ \E result \in Results : AppendResult(cand, result)
      BY <2>3, SettledType DEF RpcSettles, BackoffOver, Results
    <3>3. CASE i = cand /\ cand' # cand
      <4>1. PICK result \in Results : AppendResult(cand, result)
        BY <3>2, <3>3
      <4>2. buffer'[i] = result
        BY <3>3, <4>1, <1>t DEF AppendResult, TypeOK, ResultBuffers
      <4>. QED  BY <4>2 DEF OnItsWay, NoResult, Results
    <3>4. CASE ~(i = cand /\ cand' # cand)
      BY <1>1, <1>w, <3>1, <3>4
    <3>. QED  BY <3>3, <3>4
  <2>4. CASE Filled
    <3>1. UNCHANGED <<cand, crashes>>
      BY <2>4 DEF Filled
    <3>2. CASE chunk = {}
      BY <1>1, <1>w, <2>4, <3>1, <3>2 DEF Filled
    <3>3. CASE chunk # {}
      <4>1. /\ queue' = queue \cup chunk
            /\ lastLoaded' \in chunk /\ lastLoaded' \in Nat
        BY <2>4, <3>3, <1>n, <1>t, FilledToLargest DEF Filled, TypeOK
      <4>2. CASE i > lastLoaded /\ Open(i)
        <5>1. i \in chunk \/ lastLoaded' < i
          BY <2>4, <4>1, <4>2, <1>t DEF Filled, ReadIsWhole
        <5>. QED  BY <4>1, <5>1, <1>n
      <4>3. CASE ~(i > lastLoaded /\ Open(i))
        BY <1>1, <1>w, <3>1, <4>1, <4>3 DEF OnItsWay
      <4>. QED  BY <4>2, <4>3
    <3>. QED  BY <3>2, <3>3
  <2>5. CASE lastLoaded' = 0
    BY <1>n, <2>5
  <2>6. CASE faults' = faults + 1
    BY <1>n, <2>6
  <2>. QED  BY WindowChanges, <2>1, <2>2, <2>3, <2>4, <2>5, <2>6
<1>3. ASSUME Dest' \in {"finish", "final_state"}, NEW i \in Items
      PROVE  OnItsWay(i)'
  <2>1. crashes' = crashes
    <3>1. ~Crash
      BY <1>3 DEF Crash, Dest
    <3>. QED  BY <3>1, CrashesStep
  <2>2. OnItsWay(i)
    <3>1. CASE Dest \in {"finish", "final_state"}
      BY <3>1, <1>p, <1>t DEF NoneForgotten
    <3>2. CASE BufferExhausted
      <4>1. queue = {} /\ exhausted /\ cand = NoItem
        BY <3>2, <1>t DEF BufferExhausted, PopHasRows, NoCandidateBetween, Dest, BetweenLabels
      <4>2. i > lastLoaded => ~Open(i)
        BY <4>1, <1>t DEF ReadIsWhole
      <4>. QED  BY <1>1, <1>n, <4>1, <4>2 DEF OnItsWay
    <3>. QED  BY <1>3, <3>1, <3>2, FinishEntered
  <2>. QED  BY <2>1, <2>2, <1>w
<1>. QED  BY <1>2, <1>3

(* Only the end of the plan completes the job. *)
LEMMA CompletedStep ==
    ASSUME IInv, ResultsInv, CoverInv, [Next]_vars
    PROVE  CompletedIsComplete'
<1>. USE DEF control, verdict, runVars, window, memory, events, dbVars, jobRow, itemRows, queued,
             envVars, budgets
<1>t. /\ TypeOK /\ NoneForgotten /\ ControlIsNoCompletion /\ CompletedIsComplete /\ EndsFlushed
      /\ faults \in Nat
  BY DEF IInv, CoverInv, ResultsInv, TypeOK
<1>. DEFINE Completed(state) == state \in {"COMPLETED", "COMPLETED_WITH_ERRORS"}
<1>1. Completed(jobState') => Completed(jobState) \/ FinalState
  <2>1. CASE Begin \/ BackToRunning \/ FloodState \/ PauseState \/ ExceptState \/ WorkerCancels \/ Recover
    BY <2>1 DEF Begin, BackToRunning, FloodState, PauseState, ExceptState, WorkerCancels, Recover,
                SetJobState
  <2>2. CASE ControlState
    BY <2>2, <1>t DEF ControlState, SetJobState, ControlIsNoCompletion, Dest
  <2>3. CASE Command
    BY <2>3 DEF Command, StartAction, ResumeAction, Launch, PauseAction, StopRunning, StopIdle
  <2>4. CASE \/ EventWritten \/ FlushResults \/ HandleControl \/ Prime \/ Filled \/ FillFails
             \/ PopCandidate \/ PopWaits \/ BufferExhausted \/ Attempt \/ RpcSettles \/ RpcFloods
             \/ FloodRetry \/ RpcTransient \/ BackoffOver \/ RpcPauses \/ PauseRetry
             \/ PauseAccount \/ Finish \/ FlushFails \/ CriticalFails
    BY <2>4
    DEF EventWritten, FlushResults, HandleControl, Prime, Filled, FillFails, PopCandidate,
        PopWaits, BufferExhausted, Attempt, RpcSettles, RpcFloods, FloodRetry, RpcTransient,
        BackoffOver, RpcPauses, PauseRetry, PauseAccount, Finish, FlushFails, CriticalFails
  <2>5. CASE ReadChunk \/ ReadFails \/ DelayedFlush \/ CommitRoutine \/ RoutineFails \/ Tick \/ Crash
    BY <2>5 DEF ReadChunk, ReadFails, DelayedFlush, CommitRoutine, RoutineFails, Tick, Crash
  <2>6. CASE UNCHANGED vars
    BY <2>6 DEF vars
  <2>. QED  BY <2>1, <2>2, <2>3, <2>4, <2>5, <2>6 DEF Next, ExecutorStep
<1>2. ASSUME faults' = 0
      PROVE  faults = 0
  <2>1. faults' = faults \/ faults' = faults + 1
    BY CrashesStep
  <2>. QED  BY <2>1, <1>t, <1>2
<1>3. CASE Completed(jobState)
  BY <1>2, <1>3, <1>t, ClosedStays DEF CompletedIsComplete, Open
<1>4. CASE FinalState
  <2>1. Barrier /\ Dest = "final_state" /\ buffer = Nothing /\ faults' = faults
    BY <1>4, <1>t DEF FinalState, Dest, EndsFlushed, EndLabels
  <2>2. ASSUME faults = 0, NEW i \in Items
        PROVE  ~Open(i)'
    <3>1. ~Open(i) \/ inflight[i] # NoResult
      BY <2>1, <2>2, <1>t DEF NoneForgotten, OnItsWay, Nothing
    <3>. QED  BY <2>1, <3>1, <1>t, AppliedSettles DEF Barrier, ApplyResults, Open, TypeOK
  <2>. QED  BY <2>1, <2>2 DEF CompletedIsComplete
<1>. QED  BY <1>1, <1>3, <1>4 DEF CompletedIsComplete

(* Nothing is lost sight of, from the start and by no step. *)
LEMMA CoverInvariant == Spec => [](IInv /\ ResultsInv /\ CoverInv)
<1>1. Init => CoverInv
  <2>. SUFFICES ASSUME Init PROVE CoverInv
    OBVIOUS
  <2>1. NoCandidateBetween /\ ReadIsWhole /\ PopHasRows /\ ControlIsNoCompletion /\ CompletedIsComplete
    BY DEF Init, NoCandidateBetween, ReadIsWhole, PopHasRows, ControlIsNoCompletion,
           CompletedIsComplete, Dest
  <2>2. NoneForgotten
    BY ExecutorAssumption DEF Init, NoneForgotten, Dest
  <2>. QED  BY <2>1, <2>2 DEF CoverInv
<1>2. IInv /\ ResultsInv /\ CoverInv /\ [Next]_vars => CoverInv'
  BY BetweenStep, ReadStep, ForgottenStep, CompletedStep DEF CoverInv
<1>. QED  BY <1>1, <1>2, ResultsInvariant, PTL DEF Spec

(* The job is shown complete only when every candidate has a result, if no *)
(* write failed, whatever was read ahead, paused, resumed or crashed.      *)
THEOREM CompletedComplete == Spec => []CompletedIsComplete
<1>1. CoverInv => CompletedIsComplete
  BY DEF CoverInv
<1>. QED  BY <1>1, CoverInvariant, PTL

-----------------------------------------------------------------------------
(* The row of the job. *)

(* Every step keeps row and run in agreement, if the user is patient. *)
LEMMA RowStep ==
    ASSUME IInv, ResultsInv, RowFollowsRun, ~Impatient, [Next]_vars
    PROVE  RowFollowsRun'
<1>. USE DEF control, verdict, runVars, window, memory, events, dbVars, jobRow, itemRows, queued,
             envVars, budgets, RowFollowsRun, Dest, Startable, WaitLabels, WorkLabels, FloodLabels
<1>i. AwaitsReturn /\ (pc = "fill" => after \in {"loop", "pop"})
  BY DEF ResultsInv, IInv, RunInv, EventsReturn
<1>1. CASE Begin \/ FlushResults \/ BackToRunning
  BY <1>1, <1>i DEF Begin, EventThen, FlushResults, BackToRunning, Goto, SetJobState, AwaitsReturn
<1>2. CASE EventWritten
  <2>1. CASE EndRun
    BY <1>2, <2>1, EndForgets DEF EventWritten, EndRun
  <2>2. CASE after # "idle" /\ pc' = after /\ after' = "idle" /\ UNCHANGED <<runVars, memory, events>>
    BY <1>2, <2>2, <1>i DEF EventWritten, AwaitsReturn
  <2>. QED  BY <1>2, <2>1, <2>2 DEF EventWritten
<1>3. CASE HandleControl \/ ControlState
  BY <1>3 DEF HandleControl, FlushThen, Goto, ControlState, EventThen
<1>4. CASE Filled
  BY <1>4, <1>i DEF Filled
<1>5. CASE Prime \/ PopWaits \/ BufferExhausted \/ Attempt
  BY <1>5 DEF Prime, AwaitFill, PopWaits, BufferExhausted, FlushThen, Goto, Attempt
<1>6. CASE FillFails \/ FlushFails \/ CriticalFails
  <2>1. Raise(Nothing) \/ Raise(buffer)
    BY <1>6 DEF FillFails, FlushFails, CriticalFails
  <2>2. UNCHANGED <<jobState, cancelling>> /\ pc \notin {"idle", "down"}
    BY <1>6 DEF FillFails, FlushFails, CriticalFails
  <2>3. CASE EndRun
    BY <2>2, <2>3, EndForgets
  <2>4. CASE ~EndRun
    BY <2>1, <2>2, <2>4, RaiseShape
  <2>. QED  BY <2>3, <2>4
<1>7. CASE PopCandidate \/ RpcSettles \/ BackoffOver
  <2>1. \/ \E i, result : AppendResult(i, result)
        \/ Goto("schedule")
    BY <1>7 DEF PopCandidate, Take, RpcSettles, BackoffOver
  <2>2. pc \in {"pop", "loop", "rpc", "backoff"} /\ UNCHANGED <<jobState, cancelling, final>>
    BY <1>7 DEF PopCandidate, RpcSettles, BackoffOver
  <2>3. pc' \in {"flush", "loop", "schedule"} /\ (pc' = "flush" => after' = "loop")
    BY <2>1 DEF AppendResult, Goto
  <2>. QED  BY <2>2, <2>3
<1>8. CASE RpcFloods \/ RpcTransient \/ RpcPauses
  BY <1>8 DEF RpcFloods, RpcTransient, RpcPauses, FlushThen, Goto
<1>9. CASE FloodRetry \/ FloodState \/ PauseRetry \/ PauseAccount
  BY <1>9 DEF FloodRetry, FloodState, PauseRetry, PauseAccount, Goto, EventThen, SetJobState
<1>10. CASE PauseState \/ ExceptState
  <2>1. pc' = "idle" /\ Dest' = "idle" /\ cancelling' = cancelling /\ ~cancelling
    BY <1>10, EndForgets DEF PauseState, ExceptState
  <2>. QED  BY <2>1
<1>11. CASE Crash \/ Recover
  BY <1>11 DEF Crash, ForgetRun, Recover, Goto
<1>12. CASE Finish \/ FinalState
  BY <1>12 DEF Finish, FinalState, Goto, EventThen
<1>13. CASE Command
  BY <1>13 DEF Command, StartAction, ResumeAction, Launch, PauseAction, StopRunning, StopIdle
<1>14. CASE WorkerCancels \/ ReadChunk \/ ReadFails \/ CommitRoutine \/ RoutineFails \/ Tick
  BY <1>14 DEF WorkerCancels, ReadChunk, ReadFails, CommitRoutine, RoutineFails, Tick
<1>15. CASE DelayedFlush
  BY <1>15 DEF DelayedFlush
<1>16. CASE UNCHANGED vars
  BY <1>16 DEF vars
<1>. QED
  BY <1>1, <1>2, <1>3, <1>4, <1>5, <1>6, <1>7, <1>8, <1>9, <1>10, <1>11, <1>12, <1>13, <1>14,
     <1>15, <1>16 DEF Next, ExecutorStep

(* The except path is entered by a failure only. *)
LEMMA ExceptStep ==
    ASSUME IInv, ResultsInv, ExceptAfterFailure, [Next]_vars
    PROVE  ExceptAfterFailure'
<1>. USE DEF control, verdict, runVars, window, memory, events, dbVars, jobRow, itemRows, queued,
             envVars, budgets, ExceptAfterFailure, Dest
<1>i. AwaitsReturn /\ (pc = "fill" => after \in {"loop", "pop"}) /\ faults \in Nat
  BY DEF ResultsInv, IInv, RunInv, EventsReturn, TypeOK
<1>f. ASSUME faults' = faults + 1
      PROVE  faults' > 0
  BY <1>f, <1>i
<1>1. CASE Begin \/ FlushResults \/ BackToRunning
  BY <1>1, <1>i DEF Begin, EventThen, FlushResults, BackToRunning, Goto, AwaitsReturn
<1>2. CASE EventWritten
  <2>1. CASE EndRun
    BY <1>2, <2>1, EndForgets DEF EventWritten, EndRun, ForgetRun
  <2>2. CASE after # "idle" /\ pc' = after /\ after' = "idle" /\ UNCHANGED <<runVars, memory, events>>
    BY <1>2, <2>2, <1>i DEF EventWritten, AwaitsReturn
  <2>. QED  BY <1>2, <2>1, <2>2 DEF EventWritten
<1>3. CASE HandleControl \/ ControlState
  BY <1>3 DEF HandleControl, FlushThen, Goto, ControlState, EventThen
<1>4. CASE Filled
  BY <1>4, <1>i DEF Filled
<1>5. CASE Prime \/ PopWaits \/ BufferExhausted \/ Attempt
  BY <1>5 DEF Prime, AwaitFill, PopWaits, BufferExhausted, FlushThen, Goto, Attempt
<1>6. CASE FillFails
  BY <1>6 DEF FillFails
<1>7. CASE PopCandidate \/ RpcSettles \/ BackoffOver
  <2>1. \/ \E i, result : AppendResult(i, result)
        \/ Goto("schedule")
    BY <1>7 DEF PopCandidate, Take, RpcSettles, BackoffOver
  <2>2. pc \in {"pop", "loop", "rpc", "backoff"} /\ (loading' = "failed" => loading = "failed")
    BY <1>7 DEF PopCandidate, Take, RpcSettles, BackoffOver
  <2>3. pc' \in {"flush", "loop", "schedule"} /\ (pc' = "flush" => after' = "loop")
    BY <2>1 DEF AppendResult, Goto
  <2>4. faults' = faults
    BY <1>7 DEF PopCandidate, RpcSettles, BackoffOver
  <2>. QED  BY <2>2, <2>3, <2>4
<1>8. CASE RpcFloods \/ RpcTransient \/ RpcPauses
  BY <1>8 DEF RpcFloods, RpcTransient, RpcPauses, FlushThen, Goto
<1>9. CASE FloodRetry \/ FloodState \/ PauseRetry \/ PauseAccount
  BY <1>9 DEF FloodRetry, FloodState, PauseRetry, PauseAccount, Goto, EventThen
<1>10. CASE PauseState \/ ExceptState
  BY <1>10, EndForgets DEF PauseState, ExceptState, EndRun, ForgetRun
<1>11. CASE Crash \/ Recover
  BY <1>11 DEF Crash, ForgetRun, Recover, Goto
<1>12. CASE Finish \/ FinalState
  BY <1>12 DEF Finish, FinalState, Goto, EventThen
<1>13. CASE Command
  BY <1>13 DEF Command, StartAction, ResumeAction, Launch, PauseAction, StopRunning, StopIdle
<1>14. CASE WorkerCancels \/ ReadChunk \/ CommitRoutine \/ Tick
  BY <1>14 DEF WorkerCancels, ReadChunk, CommitRoutine, Tick
<1>15. CASE FlushFails \/ CriticalFails \/ ReadFails \/ RoutineFails
  BY <1>15, <1>f DEF FlushFails, CriticalFails, ReadFails, RoutineFails, Failing
<1>16. CASE DelayedFlush
  BY <1>16 DEF DelayedFlush
<1>17. CASE UNCHANGED vars
  BY <1>17 DEF vars
<1>. QED
  BY <1>1, <1>2, <1>3, <1>4, <1>5, <1>6, <1>7, <1>8, <1>9, <1>10, <1>11, <1>12, <1>13, <1>14,
     <1>15, <1>16, <1>17 DEF Next, ExecutorStep

(* Only a crash takes the process down. *)
LEMMA DownOnlyByCrash ==
    ASSUME IInv, [Next]_vars, ~Crash, pc' = "down"
    PROVE  pc = "down"
<1>. USE DEF control
<1>i. pc \in {"event", "flush", "fill"} => after # "down"
  BY DEF IInv, RunInv, EventsReturn
<1>1. CASE EventWritten \/ FlushResults \/ Filled
  BY <1>1, <1>i DEF EventWritten, EndRun, FlushResults, Filled
<1>2. CASE FillFails \/ FlushFails \/ CriticalFails
  BY <1>2 DEF FillFails, FlushFails, CriticalFails, Raise, EndRun, FlushThen, Goto
<1>3. CASE \/ Begin \/ HandleControl \/ ControlState \/ BackToRunning \/ Prime \/ PopWaits
           \/ BufferExhausted \/ Attempt \/ RpcFloods \/ FloodRetry \/ FloodState \/ RpcTransient
           \/ RpcPauses \/ PauseRetry \/ PauseAccount \/ PauseState \/ Finish \/ FinalState
           \/ ExceptState
  BY <1>3
  DEF Begin, HandleControl, ControlState, BackToRunning, Prime, AwaitFill, PopWaits,
      BufferExhausted, Attempt, RpcFloods, FloodRetry, FloodState, RpcTransient, RpcPauses,
      PauseRetry, PauseAccount, PauseState, Finish, FinalState, ExceptState, EventThen,
      FlushThen, Goto, EndRun
<1>4. CASE PopCandidate \/ RpcSettles \/ BackoffOver
  BY <1>4 DEF PopCandidate, Take, RpcSettles, BackoffOver, AppendResult, Goto
<1>5. CASE Command
  BY <1>5 DEF Command, StartAction, ResumeAction, Launch, PauseAction, StopRunning, StopIdle
<1>6. CASE WorkerCancels \/ ReadChunk \/ ReadFails \/ CommitRoutine \/ RoutineFails \/ Tick \/ Recover
  BY <1>6 DEF WorkerCancels, ReadChunk, ReadFails, CommitRoutine, RoutineFails, Tick, Recover, Goto
<1>7. CASE DelayedFlush
  BY <1>7 DEF DelayedFlush
<1>8. CASE UNCHANGED vars
  BY <1>8 DEF vars
<1>. QED
  BY <1>1, <1>2, <1>3, <1>4, <1>5, <1>6, <1>7, <1>8 DEF Next, ExecutorStep

(* Time passes for every wait alike. *)
LEMMA DownMonotone ==
    \A m, n \in Nat : Down(m) \in Nat /\ (m <= n => Down(m) <= Down(n)) /\ (m = 0 => Down(m) = 0)
BY DEF Down

(* Every step keeps the waits of row and scheduler in agreement. *)
LEMMA WaitsStep ==
    ASSUME IInv, ResultsInv, RowFollowsRun, WaitsAgree, [Next]_vars
    PROVE  WaitsAgree'
<1>. USE DEF control, verdict, runVars, window, memory, events, dbVars, jobRow, itemRows, queued,
             envVars, budgets, WaitsAgree, Dest, WaitLabels, WorkLabels, Running
<1>i. /\ AwaitsReturn /\ (pc = "fill" => after \in {"loop", "pop"})
      /\ serverWait \in Nat /\ waitingUntil \in Nat
  BY DEF ResultsInv, IInv, RunInv, EventsReturn, TypeOK
<1>z. 0 <= serverWait /\ serverWait <= serverWait
  BY <1>i
<1>1. CASE Begin
  <2>1. CASE serverWait > 0 /\ SetJobState("WAITING_SERVER", serverWait) /\ EventThen("initial_wait")
    BY <1>1, <2>1, <1>i DEF Begin, EventThen, SetJobState
  <2>2. CASE serverWait = 0 /\ SetJobState("RUNNING", waitingUntil) /\ EventThen("prime")
    BY <1>1, <2>2, <1>i DEF Begin, EventThen, SetJobState
  <2>. QED  BY <1>1, <2>1, <2>2 DEF Begin
<1>2. CASE FlushResults
  BY <1>2, <1>i DEF FlushResults, AwaitsReturn
<1>3. CASE BackToRunning
  BY <1>3, <1>i DEF BackToRunning, Goto, SetJobState
<1>4. CASE EventWritten
  <2>1. CASE EndRun
    BY <1>4, <2>1, EndForgets DEF EventWritten
  <2>2. CASE after # "idle" /\ pc' = after /\ after' = "idle" /\ UNCHANGED <<runVars, memory, events>>
    BY <1>4, <2>2, <1>i DEF EventWritten, AwaitsReturn
  <2>. QED  BY <1>4, <2>1, <2>2 DEF EventWritten
<1>5. CASE HandleControl
  BY <1>5 DEF HandleControl, FlushThen, Goto
<1>6. CASE ControlState
  <2>1. /\ pc = "control_state" /\ pc' = "event" /\ after' = "idle" /\ serverWait' = serverWait
        /\ jobState' \in {"CANCELLED", "PAUSED"} /\ waitingUntil' \in {0, waitingUntil}
    BY <1>6 DEF ControlState, SetJobState, EventThen, RowFollowsRun
  <2>2. waitingUntil' <= serverWait'
    BY <2>1, <1>z
  <2>. QED  BY <2>1, <2>2
<1>7. CASE Filled
  BY <1>7, <1>i DEF Filled
<1>8. CASE Prime \/ PopWaits \/ BufferExhausted \/ Attempt
  BY <1>8 DEF Prime, AwaitFill, PopWaits, BufferExhausted, FlushThen, Goto, Attempt
<1>9. CASE FillFails \/ FlushFails \/ CriticalFails
  <2>1. Raise(Nothing) \/ Raise(buffer)
    BY <1>9 DEF FillFails, FlushFails, CriticalFails
  <2>2. UNCHANGED <<jobState, waitingUntil>> /\ pc \notin {"idle", "down"}
    BY <1>9 DEF FillFails, FlushFails, CriticalFails
  <2>3. CASE EndRun
    BY <2>2, <2>3, EndForgets
  <2>4. CASE ~EndRun
    BY <2>1, <2>2, <2>4, RaiseShape
  <2>. QED  BY <2>3, <2>4
<1>10. CASE PopCandidate \/ RpcSettles \/ BackoffOver
  <2>1. \/ \E i, result : AppendResult(i, result)
        \/ Goto("schedule")
    BY <1>10 DEF PopCandidate, Take, RpcSettles, BackoffOver
  <2>2. /\ pc \in {"pop", "loop", "rpc", "backoff"}
        /\ UNCHANGED <<jobState, waitingUntil, serverWait>>
    BY <1>10 DEF PopCandidate, RpcSettles, BackoffOver
  <2>3. pc' \in {"flush", "loop", "schedule"} /\ (pc' = "flush" => after' = "loop")
    BY <2>1 DEF AppendResult, Goto
  <2>. QED  BY <2>2, <2>3
<1>11. CASE RpcFloods
  <2>1. PICK x \in Errors : serverWait' = IF x.wait > serverWait THEN x.wait ELSE serverWait
    BY <1>11 DEF RpcFloods
  <2>2. /\ pc = "rpc" /\ UNCHANGED <<jobState, waitingUntil>>
        /\ pc' \in {"flood_retry", "flush"} /\ (pc' = "flush" => after' = "flood_retry")
    BY <1>11 DEF RpcFloods, FlushThen, Goto
  <2>3. x.wait \in Nat /\ waitingUntil <= serverWait
    BY <2>2, WaitType
  <2>4. waitingUntil <= serverWait'
    BY <2>1, <2>3, <1>i
  <2>. QED  BY <2>2, <2>4
<1>12. CASE RpcTransient \/ RpcPauses
  BY <1>12 DEF RpcTransient, RpcPauses, FlushThen, Goto
<1>13. CASE FloodRetry \/ FloodState \/ PauseRetry \/ PauseAccount
  BY <1>13, <1>z DEF FloodRetry, FloodState, PauseRetry, PauseAccount, Goto, EventThen, SetJobState
<1>14. CASE PauseState \/ ExceptState
  BY <1>14, EndForgets DEF PauseState, ExceptState, SetJobState
<1>15. CASE Crash
  BY <1>15 DEF Crash
<1>16. CASE Recover
  BY <1>16 DEF Recover, Goto, SetJobState
<1>17. CASE Finish
  BY <1>17 DEF Finish, Goto
<1>18. CASE FinalState
  BY <1>18, <1>z DEF FinalState, EventThen, SetJobState, RowFollowsRun
<1>19. CASE Launch
  BY <1>19, <1>i DEF Launch
<1>20. CASE PauseAction \/ StopRunning \/ StopIdle
  BY <1>20 DEF PauseAction, StopRunning, StopIdle
<1>21. CASE WorkerCancels
  BY <1>21 DEF WorkerCancels, SetJobState, RowFollowsRun
<1>22. CASE ReadChunk \/ ReadFails \/ CommitRoutine \/ RoutineFails
  BY <1>22 DEF ReadChunk, ReadFails, CommitRoutine, RoutineFails
<1>23. CASE Tick
  <2>1. /\ serverWait' = Down(serverWait) /\ waitingUntil' = Down(waitingUntil)
        /\ UNCHANGED <<jobState, pc, after>>
    BY <1>23 DEF Tick
  <2>2. /\ waitingUntil <= serverWait => waitingUntil' <= serverWait'
        /\ waitingUntil = serverWait => waitingUntil' = serverWait'
        /\ waitingUntil = 0 => waitingUntil' = 0
        /\ serverWait = 0 => serverWait' = 0
    BY <2>1, <1>i, DownMonotone
  <2>. QED  BY <2>1, <2>2
<1>24. CASE DelayedFlush
  BY <1>24 DEF DelayedFlush
<1>25. CASE UNCHANGED vars
  BY <1>25 DEF vars
<1>. QED
  BY <1>1, <1>2, <1>3, <1>4, <1>5, <1>6, <1>7, <1>8, <1>9, <1>10, <1>11, <1>12, <1>13, <1>14,
     <1>15, <1>16, <1>17, <1>18, <1>19, <1>20, <1>21, <1>22, <1>23, <1>24, <1>25
  DEF Next, ExecutorStep, Command, StartAction, ResumeAction

(* Every step keeps track of the wait that Telegram imposed. *)
LEMMA FloodStep ==
    ASSUME IInv, ResultsInv, RowInv, [Next]_vars
    PROVE  FloodIsKnown'
<1>. USE DEF control, verdict, runVars, window, memory, events, dbVars, jobRow, itemRows, queued,
             envVars, budgets, Dest, Running
<1>i. /\ AwaitsReturn /\ (pc = "fill" => after \in {"loop", "pop"})
      /\ serverWait \in Nat /\ waitingUntil \in Nat /\ floodLeft \in Nat
      /\ crashes \in Nat /\ faults \in Nat
      /\ RowFollowsRun /\ WaitsAgree /\ FloodIsKnown
  BY DEF ResultsInv, IInv, RunInv, EventsReturn, TypeOK, RowInv
<1>d. pc' = "down" => crashes' > 0
  <2>1. CASE Crash
    BY <2>1, <1>i DEF Crash
  <2>2. CASE ~Crash
    <3>1. crashes' = crashes
      BY <2>2, CrashesStep
    <3>2. pc' = "down" => pc = "down"
      BY <2>2, DownOnlyByCrash
    <3>. QED  BY <3>1, <3>2, <1>i DEF FloodIsKnown
  <2>. QED  BY <2>1, <2>2
<1>. SUFFICES ASSUME Undisturbed'
              PROVE  /\ Running' /\ ~(pc' = "event" /\ after' = "idle") => floodLeft' <= serverWait'
                     /\ Dest' \in {"idle", "control_state"}
                          => jobState' \in TerminalJobStates \/ floodLeft' <= waitingUntil'
  BY <1>d DEF FloodIsKnown
<1>u. Undisturbed /\ faults' = faults /\ crashes' = crashes
  <2>1. crashes' = 0 /\ faults' = 0
    BY DEF Undisturbed
  <2>2. faults' = faults
    BY <2>1, <1>i, CrashesStep
  <2>3. ~Crash
    BY <2>1, <1>i DEF Crash
  <2>. QED  BY <2>1, <2>2, <2>3, CrashesStep DEF Undisturbed
<1>k. /\ Running /\ ~(pc = "event" /\ after = "idle") => floodLeft <= serverWait
      /\ Dest \in {"idle", "control_state"} => jobState \in TerminalJobStates \/ floodLeft <= waitingUntil
      /\ Dest \in WorkLabels => serverWait = 0
      /\ Dest \in WaitLabels => waitingUntil = serverWait
      /\ pc # "down"
  BY <1>i, <1>u DEF FloodIsKnown, WaitsAgree, Undisturbed
<1>w. Dest \in WorkLabels => floodLeft = 0
  BY <1>k, <1>i DEF WorkLabels
<1>1. CASE Begin
  BY <1>1, <1>k DEF Begin, EventThen, SetJobState
<1>2. CASE FlushResults
  BY <1>2, <1>k, <1>i DEF FlushResults, AwaitsReturn
<1>3. CASE BackToRunning
  BY <1>3, <1>k DEF BackToRunning, Goto, SetJobState
<1>4. CASE EventWritten
  <2>1. CASE after = "idle" /\ EndRun
    BY <1>4, <2>1, <1>k, EndForgets DEF EventWritten
  <2>2. CASE after # "idle" /\ pc' = after /\ after' = "idle" /\ UNCHANGED <<runVars, memory, events>>
    BY <1>4, <2>2, <1>k, <1>i DEF EventWritten, AwaitsReturn
  <2>. QED  BY <1>4, <2>1, <2>2 DEF EventWritten
<1>5. CASE HandleControl
  <2>1. /\ pc \in {"initial_wait", "loop", "schedule", "backoff", "flood_wait"}
        /\ UNCHANGED <<floodLeft, serverWait, waitingUntil>>
    BY <1>5 DEF HandleControl
  <2>2. floodLeft <= serverWait /\ floodLeft <= waitingUntil
    BY <2>1, <1>k, <1>w, <1>i DEF WorkLabels, WaitLabels
  <2>. QED  BY <2>1, <2>2
<1>6. CASE ControlState
  <2>1. /\ pc = "control_state" /\ pc' = "event" /\ after' = "idle" /\ floodLeft' = floodLeft
        /\ \/ jobState' = "CANCELLED"
           \/ waitingUntil' = waitingUntil /\ jobState \in {"RUNNING", "WAITING_SERVER"}
    BY <1>6, <1>i DEF ControlState, SetJobState, EventThen, RowFollowsRun
  <2>. QED  BY <2>1, <1>k DEF TerminalJobStates
<1>7. CASE Filled
  BY <1>7, <1>k, <1>i DEF Filled
<1>8. CASE Prime \/ PopWaits \/ BufferExhausted \/ Attempt
  BY <1>8, <1>k DEF Prime, AwaitFill, PopWaits, BufferExhausted, FlushThen, Goto, Attempt
<1>9. CASE FillFails
  <2>1. Raise(buffer) /\ ~Handling /\ UNCHANGED <<dbVars, queued, envVars>> /\ pc = "fill"
    BY <1>9 DEF FillFails, Handling
  <2>. QED  BY <2>1, <1>k, RaiseShape
<1>10. CASE FlushFails \/ CriticalFails \/ ReadFails \/ RoutineFails
  BY <1>10, <1>i, <1>u DEF FlushFails, CriticalFails, ReadFails, RoutineFails, Failing
<1>11. CASE PopCandidate \/ RpcSettles \/ BackoffOver
  <2>1. \/ \E i, result : AppendResult(i, result)
        \/ Goto("schedule")
    BY <1>11 DEF PopCandidate, Take, RpcSettles, BackoffOver
  <2>2. /\ pc \in {"pop", "loop", "rpc", "backoff"}
        /\ UNCHANGED <<jobState, waitingUntil, serverWait, floodLeft>>
    BY <1>11 DEF PopCandidate, RpcSettles, BackoffOver
  <2>3. pc' \in {"flush", "loop", "schedule"} /\ (pc' = "flush" => after' = "loop")
    BY <2>1 DEF AppendResult, Goto
  <2>. QED  BY <2>2, <2>3, <1>k
<1>12. CASE RpcFloods
  <2>1. PICK x \in Errors : /\ serverWait' = IF x.wait > serverWait THEN x.wait ELSE serverWait
                            /\ floodLeft' = x.wait
    BY <1>12 DEF RpcFloods
  <2>2. pc' \in {"flood_retry", "flush"} /\ (pc' = "flush" => after' = "flood_retry")
    BY <1>12 DEF RpcFloods, FlushThen, Goto
  <2>3. x.wait \in Nat
    BY WaitType
  <2>4. floodLeft' <= serverWait'
    BY <2>1, <2>3, <1>i
  <2>. QED  BY <2>2, <2>4
<1>13. CASE RpcTransient \/ RpcPauses
  BY <1>13, <1>k DEF RpcTransient, RpcPauses, FlushThen, Goto
<1>14. CASE FloodRetry \/ FloodState \/ PauseRetry \/ PauseAccount
  BY <1>14, <1>k DEF FloodRetry, FloodState, PauseRetry, PauseAccount, Goto, EventThen, SetJobState
<1>15. CASE PauseState
  <2>1. /\ pc = "pause_state" /\ pc' = "idle" /\ Dest' = "idle"
        /\ waitingUntil' = 0 /\ floodLeft' = floodLeft
    BY <1>15, EndForgets DEF PauseState, SetJobState
  <2>2. floodLeft = 0
    BY <2>1, <1>w DEF WorkLabels
  <2>. QED  BY <2>1, <2>2, <1>i
<1>16. CASE ExceptState
  <2>1. pc' = "idle" /\ jobState' = "FAILED"
    BY <1>16, EndForgets DEF ExceptState, SetJobState
  <2>. QED  BY <2>1 DEF TerminalJobStates
<1>17. CASE Crash \/ Recover
  BY <1>17, <1>u, <1>k, <1>i DEF Crash, Recover
<1>18. CASE Finish
  BY <1>18, <1>k DEF Finish, Goto
<1>19. CASE FinalState
  <2>1. pc' = "event" /\ after' = "idle" /\ jobState' \in TerminalJobStates
    BY <1>19, <1>i DEF FinalState, EventThen, SetJobState, RowFollowsRun, TerminalJobStates
  <2>. QED  BY <2>1
<1>20. CASE StartAction \/ ResumeAction
  <2>1. /\ Launch /\ pc = "idle" /\ pc' = "begin" /\ floodLeft' = floodLeft
        /\ jobState \in {"READY", "PAUSED", "WAITING_SERVER"}
    BY <1>20 DEF StartAction, ResumeAction, Launch
  <2>2. floodLeft <= waitingUntil
    BY <2>1, <1>k DEF TerminalJobStates
  <2>3. floodLeft <= serverWait'
    BY <2>1, <2>2, <1>i DEF Launch, WaitsAgree
  <2>. QED  BY <2>1, <2>3
<1>21. CASE PauseAction \/ StopRunning \/ StopIdle
  BY <1>21, <1>k DEF PauseAction, StopRunning, StopIdle
<1>22. CASE WorkerCancels
  <2>1. /\ jobState' = "CANCELLED" /\ cancelling
        /\ UNCHANGED <<pc, after, floodLeft, serverWait>>
    BY <1>22 DEF WorkerCancels, SetJobState
  <2>2. pc = "idle"
    BY <2>1, <1>i DEF RowFollowsRun
  <2>. QED  BY <2>1, <2>2 DEF TerminalJobStates
<1>23. CASE ReadChunk \/ CommitRoutine
  BY <1>23, <1>k DEF ReadChunk, CommitRoutine
<1>24. CASE Tick
  <2>1. /\ serverWait' = Down(serverWait) /\ waitingUntil' = Down(waitingUntil)
        /\ floodLeft' = Down(floodLeft) /\ UNCHANGED <<jobState, pc, after>>
    BY <1>24 DEF Tick
  <2>2. /\ floodLeft <= serverWait => floodLeft' <= serverWait'
        /\ floodLeft <= waitingUntil => floodLeft' <= waitingUntil'
    BY <2>1, <1>i, DownMonotone
  <2>. QED  BY <2>1, <2>2, <1>k
<1>25. CASE DelayedFlush
  BY <1>25, <1>k DEF DelayedFlush
<1>26. CASE UNCHANGED vars
  BY <1>26, <1>k DEF vars
<1>. QED
  BY <1>1, <1>2, <1>3, <1>4, <1>5, <1>6, <1>7, <1>8, <1>9, <1>10, <1>11, <1>12, <1>13, <1>14,
     <1>15, <1>16, <1>17, <1>18, <1>19, <1>20, <1>21, <1>22, <1>23, <1>24, <1>25, <1>26
  DEF Next, ExecutorStep, Command

(* The row agrees with the run, from the start and after every step. *)
LEMMA RowInvariant ==
    ASSUME ~Impatient
    PROVE  Spec => [](IInv /\ ResultsInv /\ RowInv)
<1>1. Init => RowInv
  BY DEF Init, RowInv, RowFollowsRun, ExceptAfterFailure, WaitsAgree, FloodIsKnown, Dest, Running,
         WaitLabels, WorkLabels, FloodLabels, Startable
<1>2. IInv /\ ResultsInv /\ RowInv /\ [Next]_vars => RowInv'
  BY RowStep, ExceptStep, WaitsStep, FloodStep DEF RowInv
<1>. QED  BY <1>1, <1>2, ResultsInvariant, PTL DEF Spec

(* A call is sent only for an item without a stored result and while the   *)
(* database shows the job RUNNING, if the user does not resume a job whose *)
(* cancellation is queued.                                                 *)
THEOREM CallsJustified ==
    ASSUME ~Impatient
    PROVE  Spec => CallsAreJustified
<1>1. IInv /\ ResultsInv /\ RowInv /\ [Next]_vars
        => [pc = "schedule" /\ pc' = "rpc" => Open(cand) /\ jobState = "RUNNING"]_vars
  <2>. SUFFICES ASSUME IInv, RowInv, pc = "schedule"
                PROVE  Open(cand) /\ jobState = "RUNNING"
    OBVIOUS
  <2>1. Open(cand)
    BY DEF IInv, RunInv, CandidateIsOpen, AtCandidate, CandidateLabels
  <2>2. jobState = "RUNNING"
    BY DEF RowInv, RowFollowsRun, Dest, WorkLabels
  <2>. QED  BY <2>1, <2>2
<1>. QED  BY <1>1, RowInvariant, PTL DEF Spec, CallsAreJustified

(* No call is sent during a server wait, neither one the row of the job    *)
(* knows of nor, undisturbed, one that Telegram imposed.                   *)
THEOREM NoCallWhileWaiting ==
    ASSUME ~Impatient
    PROVE  Spec => NoCallDuringServerWait
<1>1. IInv /\ ResultsInv /\ RowInv /\ [Next]_vars
        => [pc = "schedule" /\ pc' = "rpc"
               => waitingUntil = 0 /\ (Undisturbed => floodLeft = 0)]_vars
  <2>. SUFFICES ASSUME IInv, ResultsInv, RowInv, [Next]_vars, pc = "schedule", pc' = "rpc"
                PROVE  waitingUntil = 0 /\ (Undisturbed => floodLeft = 0)
    OBVIOUS
  <2>1. serverWait = 0
    BY DEF RowInv, WaitsAgree, Dest, WorkLabels
  <2>2. waitingUntil \in Nat /\ floodLeft \in Nat
    BY DEF IInv, TypeOK
  <2>3. waitingUntil <= serverWait
    BY DEF RowInv, WaitsAgree, Running
  <2>4. Undisturbed => floodLeft <= serverWait
    BY DEF RowInv, FloodIsKnown, Running
  <2>. QED  BY <2>1, <2>2, <2>3, <2>4
<1>. QED  BY <1>1, RowInvariant, PTL DEF Spec, NoCallDuringServerWait

(* The job changes its state as the state machine has it, but for a launch *)
(* that finds a server wait and the FAILED of a run whose writes fail.     *)
LEMMA RowMoves ==
    ASSUME IInv, ResultsInv, RowInv, [Next]_vars
    PROVE  \/ ValidTransition(jobState, jobState')
           \/ pc = "except_state" /\ (jobState \in TerminalJobStates => faults > 0)
           \/ pc = "begin" /\ jobState = "PAUSED" /\ jobState' = "WAITING_SERVER"
<1>. USE DEF dbVars, jobRow, ValidTransition
<1>i. RowFollowsRun /\ ExceptAfterFailure /\ WaitsAgree
  BY DEF RowInv
<1>. DEFINE terminal == {"COMPLETED", "COMPLETED_WITH_ERRORS", "FAILED", "CANCELLED"}
<1>a. /\ Allowed("READY") = {"RUNNING", "CANCELLED"}
      /\ Allowed("RUNNING") = {"PAUSED", "WAITING_SERVER"} \cup terminal
      /\ Allowed("PAUSED") = {"RUNNING", "CANCELLED", "FAILED"}
      /\ Allowed("WAITING_SERVER") = {"RUNNING", "PAUSED", "CANCELLED", "FAILED"}
  BY DEF Allowed, TerminalJobStates
<1>1. CASE Begin
  <2>1. /\ pc = "begin" /\ jobState \in Startable
        /\ \/ serverWait > 0 /\ jobState' = "WAITING_SERVER"
           \/ jobState' = "RUNNING"
    BY <1>1, <1>i DEF Begin, SetJobState, RowFollowsRun
  <2>2. jobState = "READY" => jobState' = "RUNNING"
    BY <2>1, <1>i DEF WaitsAgree
  <2>. QED  BY <2>1, <2>2, <1>a DEF Startable
<1>2. CASE ControlState
  BY <1>2, <1>a, <1>i DEF ControlState, SetJobState, RowFollowsRun, Dest
<1>3. CASE BackToRunning
  BY <1>3, <1>a, <1>i DEF BackToRunning, SetJobState, RowFollowsRun, Dest, WaitLabels
<1>4. CASE FloodState \/ PauseState \/ FinalState
  <2>1. pc \in {"flood_state", "pause_state", "final_state"} /\ jobState = "RUNNING"
    BY <1>4, <1>i DEF FloodState, PauseState, FinalState, RowFollowsRun, Dest, WorkLabels, FloodLabels
  <2>2. jobState' \in {"WAITING_SERVER", "PAUSED", "COMPLETED", "COMPLETED_WITH_ERRORS"}
    BY <1>4, <1>i DEF FloodState, PauseState, FinalState, SetJobState, RowFollowsRun, Dest
  <2>. QED  BY <2>1, <2>2, <1>a
<1>5. CASE ExceptState
  BY <1>5, <1>i DEF ExceptState, ExceptAfterFailure, Dest
<1>6. CASE WorkerCancels
  <2>1. jobState \in Startable /\ jobState' = "CANCELLED"
    BY <1>6, <1>i DEF WorkerCancels, SetJobState, RowFollowsRun
  <2>. QED  BY <2>1, <1>a DEF Startable
<1>7. CASE Recover
  <2>1. jobState' = jobState \/ (jobState \in {"RUNNING", "WAITING_SERVER"} /\ jobState' = "PAUSED")
    BY <1>7 DEF Recover, SetJobState
  <2>. QED  BY <2>1, <1>a
<1>8. CASE Command
  BY <1>8 DEF Command, StartAction, ResumeAction, Launch, PauseAction, StopRunning, StopIdle
<1>9. CASE \/ EventWritten \/ FlushResults \/ HandleControl \/ Prime \/ Filled \/ FillFails
           \/ PopCandidate \/ PopWaits \/ BufferExhausted \/ Attempt \/ RpcSettles \/ RpcFloods
           \/ FloodRetry \/ RpcTransient \/ BackoffOver \/ RpcPauses \/ PauseRetry
           \/ PauseAccount \/ Finish \/ FlushFails \/ CriticalFails
  BY <1>9
  DEF EventWritten, FlushResults, HandleControl, Prime, Filled, FillFails, PopCandidate,
      PopWaits, BufferExhausted, Attempt, RpcSettles, RpcFloods, FloodRetry, RpcTransient,
      BackoffOver, RpcPauses, PauseRetry, PauseAccount, Finish, FlushFails, CriticalFails
<1>10. CASE ReadChunk \/ ReadFails \/ DelayedFlush \/ CommitRoutine \/ RoutineFails \/ Tick \/ Crash
  BY <1>10 DEF ReadChunk, ReadFails, DelayedFlush, CommitRoutine, RoutineFails, Tick, Crash
<1>11. CASE UNCHANGED vars
  BY <1>11 DEF vars
<1>. QED
  BY <1>1, <1>2, <1>3, <1>4, <1>5, <1>6, <1>7, <1>8, <1>9, <1>10, <1>11 DEF Next, ExecutorStep

(* Job states follow jobs/state_machine.py, and no terminal state is left, *)
(* but for the two exceptions that the code has.                           *)
THEOREM StateMachineFollowed ==
    ASSUME ~Impatient
    PROVE  Spec => RowFollowsStateMachine
<1>1. IInv /\ ResultsInv /\ RowInv /\ [Next]_vars
        => [\/ ValidTransition(jobState, jobState')
            \/ pc = "except_state" /\ (jobState \in TerminalJobStates => faults > 0)
            \/ pc = "begin" /\ jobState = "PAUSED" /\ jobState' = "WAITING_SERVER"]_vars
  BY RowMoves
<1>. QED  BY <1>1, RowInvariant, PTL DEF Spec, RowFollowsStateMachine

-----------------------------------------------------------------------------
(* Restrictions. *)

(* A write for the job leaves the row of its candidate alone. *)
LEMMA CandidateRowKept ==
    ASSUME IInv, AtCandidate, Barrier
    PROVE  itemState'[cand] = itemState[cand]
<1>1. cand \in Items /\ inflight[cand] = NoResult
  BY DEF IInv, RunInv, CandidateIsOpen, TypeOK
<1>. QED  BY <1>1 DEF Barrier, ApplyResults, Applied, Fresh, Held

(* Every step heads for the end once a restriction was met. *)
LEMMA RestrictionStep ==
    ASSUME IInv, ResultsInv, RestrictionEnds, [Next]_vars,
           \A x \in Restrictions : Pauses(x)
    PROVE  RestrictionEnds'
<1>. USE DEF control, verdict, runVars, window, memory, events, dbVars, jobRow, itemRows, queued,
             envVars, budgets, Dest
<1>. DEFINE Ending == {"pause_retry", "pause_account", "pause_state", "except_state"}
            Paused == {"pause_account", "pause_state"}
<1>i. /\ AwaitsReturn /\ (pc = "fill" => after \in {"loop", "pop"})
      /\ ExceptAfterFailure' /\ restricted \in BOOLEAN
  BY ExceptStep DEF ResultsInv, IInv, RunInv, EventsReturn, RestrictionEnds, TypeOK
<1>r. (restricted => Dest \in Ending) /\ (Dest \in Paused => itemState[cand] = "RETRY")
  BY DEF RestrictionEnds
<1>c. Dest \in Paused /\ pc # "fill" => AtCandidate
  BY DEF AtCandidate, CandidateLabels
<1>g. (restricted' => Dest' \in Ending) /\ (Dest' \in Paused => itemState'[cand'] = "RETRY")
        => RestrictionEnds'
  BY <1>i DEF RestrictionEnds
<1>b. ASSUME Barrier, UNCHANGED <<cand, restricted>>, Dest' = Dest \/ (Dest \in Paused /\ Dest' \in Paused)
      PROVE  RestrictionEnds'
  BY <1>b, <1>r, <1>c, <1>g, <1>i, CandidateRowKept
<1>1. CASE Begin \/ ControlState \/ BackToRunning \/ FloodState \/ FinalState
  <2>1. Dest \notin Ending
    BY <1>1 DEF Begin, ControlState, BackToRunning, FloodState, FinalState
  <2>2. Dest' \notin Ending /\ restricted' = restricted
    BY <1>1 DEF Begin, ControlState, BackToRunning, FloodState, FinalState, EventThen, Goto
  <2>. QED  BY <2>1, <2>2, <1>r, <1>g
<1>2. CASE EventWritten
  <2>1. CASE EndRun
    BY <2>1, <1>g, EndForgets DEF EndRun, ForgetRun
  <2>2. CASE after # "idle" /\ pc' = after /\ after' = "idle" /\ UNCHANGED <<runVars, memory, events>>
    BY <1>2, <2>2, <1>b, <1>i DEF EventWritten, AwaitsReturn
  <2>. QED  BY <1>2, <2>1, <2>2 DEF EventWritten
<1>3. CASE FlushResults
  <2>1. Dest' = Dest /\ Dest' \notin Paused /\ UNCHANGED <<cand, restricted>>
    BY <1>3, <1>i DEF FlushResults, AwaitsReturn
  <2>. QED  BY <2>1, <1>r, <1>g
<1>4. CASE HandleControl \/ Finish \/ Attempt \/ Prime \/ PopWaits \/ BufferExhausted
  <2>1. Dest \notin Ending /\ Dest' \notin Ending /\ restricted' = restricted
    BY <1>4 DEF HandleControl, FlushThen, Goto, Finish, Attempt, Prime, PopWaits, AwaitFill,
                BufferExhausted
  <2>. QED  BY <2>1, <1>r, <1>g
<1>5. CASE Filled
  <2>1. Dest \notin Ending /\ Dest' \notin Ending /\ restricted' = restricted
    BY <1>5, <1>i DEF Filled
  <2>. QED  BY <2>1, <1>r, <1>g
<1>6. CASE FillFails \/ FlushFails \/ CriticalFails
  <2>1. Raise(Nothing) \/ Raise(buffer)
    BY <1>6 DEF FillFails, FlushFails, CriticalFails
  <2>2. CASE EndRun
    BY <2>2, <1>g, EndForgets DEF EndRun, ForgetRun
  <2>3. CASE ~EndRun
    <3>1. Dest' = "except_state"
      BY <2>1, <2>3, RaiseShape
    <3>. QED  BY <3>1, <1>g
  <2>. QED  BY <2>2, <2>3
<1>7. CASE PopCandidate \/ BackoffOver
  <2>1. \/ \E i, result : AppendResult(i, result)
        \/ Goto("schedule")
    BY <1>7 DEF PopCandidate, Take, BackoffOver
  <2>2. pc \in {"pop", "loop", "backoff"} /\ restricted' = restricted
    BY <1>7 DEF PopCandidate, BackoffOver
  <2>3. pc' \in {"flush", "loop", "schedule"} /\ (pc' = "flush" => after' = "loop")
    BY <2>1 DEF AppendResult, Goto
  <2>. QED  BY <2>2, <2>3, <1>r, <1>g
<1>8. CASE RpcSettles \/ RpcTransient \/ RpcFloods
  <2>1. pc = "rpc" /\ ~restricted
    BY <1>8, <1>r DEF RpcSettles, RpcTransient, RpcFloods
  <2>2. \A x \in Errors : ~Pauses(x) /\ Heard(x) => ~restricted'
    BY <2>1 DEF Heard
  <2>3. \A x : Transient(Map(x)) => ~Pauses(x)
    BY DEF Transient, Pauses, PausesJob
  <2>4. ~restricted'
    BY <1>8, <2>1, <2>2, <2>3 DEF RpcSettles, RpcTransient, RpcFloods
  <2>5. Dest' \notin Paused
    BY <1>8 DEF RpcSettles, AppendResult, RpcTransient, RpcFloods, FlushThen, Goto
  <2>. QED  BY <2>4, <2>5, <1>g
<1>9. CASE RpcPauses
  <2>1. Dest' = "pause_retry"
    BY <1>9 DEF RpcPauses, FlushThen, Goto
  <2>. QED  BY <2>1, <1>g
<1>10. CASE FloodRetry
  <2>1. Dest \notin Ending /\ Dest' \notin Ending /\ restricted' = restricted
    BY <1>10 DEF FloodRetry, Goto
  <2>. QED  BY <2>1, <1>r, <1>g
<1>11. CASE PauseRetry
  <2>1. pc = "pause_retry" /\ MarkRetry(cand) /\ cand' = cand /\ Dest' \in Paused
    BY <1>11 DEF PauseRetry, EventThen
  <2>2. cand \in Items
    BY <2>1, RetryOpen
  <2>3. itemState'[cand] = "RETRY"
    BY <2>1, <2>2 DEF MarkRetry, Applied
  <2>. QED  BY <2>1, <2>3, <1>g
<1>12. CASE PauseAccount
  BY <1>12, <1>b DEF PauseAccount, Goto
<1>13. CASE PauseState \/ ExceptState
  <2>1. EndRun
    BY <1>13 DEF PauseState, ExceptState
  <2>. QED  BY <2>1, <1>g, EndForgets DEF EndRun, ForgetRun
<1>14. CASE Crash
  BY <1>14, <1>g DEF Crash, ForgetRun
<1>15. CASE Recover
  <2>1. pc = "down" /\ pc' = "idle" /\ restricted' = restricted
    BY <1>15 DEF Recover, Goto
  <2>. QED  BY <2>1, <1>r, <1>g
<1>16. CASE Launch
  <2>1. pc = "idle" /\ pc' = "begin" /\ restricted' = restricted
    BY <1>16 DEF Launch
  <2>. QED  BY <2>1, <1>r, <1>g
<1>17. CASE PauseAction \/ StopRunning \/ StopIdle
  BY <1>17, <1>r, <1>g DEF PauseAction, StopRunning, StopIdle
<1>18. CASE WorkerCancels \/ CommitRoutine
  BY <1>18, <1>b DEF WorkerCancels, CommitRoutine
<1>19. CASE ReadChunk \/ ReadFails \/ RoutineFails \/ Tick \/ DelayedFlush
  <2>1. UNCHANGED <<pc, after, cand, restricted, itemState>>
    BY <1>19 DEF ReadChunk, ReadFails, RoutineFails, Tick, DelayedFlush
  <2>. QED  BY <2>1, <1>r, <1>g
<1>20. CASE UNCHANGED vars
  BY <1>20, <1>r, <1>g DEF vars
<1>. QED
  BY <1>1, <1>2, <1>3, <1>4, <1>5, <1>6, <1>7, <1>8, <1>9, <1>10, <1>11, <1>12, <1>13, <1>14,
     <1>15, <1>16, <1>17, <1>18, <1>19, <1>20
  DEF Next, ExecutorStep, Command, StartAction, ResumeAction

(* A run that met a restriction ends with its job paused. *)
LEMMA RestrictedRunEnds ==
    ASSUME IInv, ResultsInv, RestrictionEnds, [Next]_vars, restricted, pc' = "idle", faults' = 0
    PROVE  jobState' = "PAUSED" /\ itemState'[cand] = "RETRY"
<1>. USE DEF control, Dest
<1>1. faults \in Nat /\ faults = 0
  <2>1. faults \in Nat
    BY DEF IInv, TypeOK
  <2>. QED  BY <2>1, CrashesStep
<1>2. Dest \in {"pause_retry", "pause_account", "pause_state"}
  BY <1>1 DEF RestrictionEnds, ExceptAfterFailure
<1>3. PauseState
  <2>. SUFFICES ASSUME ~PauseState PROVE FALSE
    OBVIOUS
  <2>i. AwaitsReturn /\ pc # "idle" /\ (pc = "fill" => after \in {"loop", "pop"}) /\ pc # "down"
    BY <1>2 DEF ResultsInv, IInv, RunInv, EventsReturn
  <2>1. CASE EventWritten \/ FlushResults
    BY <2>1, <2>i, <1>2 DEF EventWritten, EndRun, FlushResults, AwaitsReturn
  <2>2. CASE FillFails \/ FlushFails \/ CriticalFails
    <3>1. Raise(Nothing) \/ Raise(buffer)
      BY <2>2 DEF FillFails, FlushFails, CriticalFails
    <3>2. EndRun /\ Handling
      BY <3>1, RaiseShape
    <3>. QED  BY <3>2, <1>2 DEF Handling
  <2>3. CASE \/ Begin \/ HandleControl \/ ControlState \/ BackToRunning \/ Prime \/ PopWaits
             \/ Filled \/ BufferExhausted \/ Attempt \/ RpcFloods \/ FloodRetry \/ FloodState
             \/ RpcTransient \/ RpcPauses \/ PauseRetry \/ PauseAccount \/ Finish \/ FinalState
             \/ ExceptState
    BY <2>3, <2>i, <1>2
    DEF Begin, HandleControl, ControlState, BackToRunning, Prime, AwaitFill, PopWaits, Filled,
        BufferExhausted, Attempt, RpcFloods, FloodRetry, FloodState, RpcTransient, RpcPauses,
        PauseRetry, PauseAccount, Finish, FinalState, ExceptState, EventThen, FlushThen, Goto
  <2>4. CASE PopCandidate \/ RpcSettles \/ BackoffOver
    BY <2>4 DEF PopCandidate, Take, RpcSettles, BackoffOver, AppendResult, Goto
  <2>5. CASE Command
    BY <2>5, <2>i DEF Command, StartAction, ResumeAction, Launch, PauseAction, StopRunning, StopIdle
  <2>6. CASE WorkerCancels \/ ReadChunk \/ ReadFails \/ CommitRoutine \/ RoutineFails \/ Tick \/ Crash
             \/ Recover \/ DelayedFlush
    BY <2>6, <2>i DEF WorkerCancels, ReadChunk, ReadFails, CommitRoutine, RoutineFails, Tick, Crash,
                      Recover, DelayedFlush
  <2>7. CASE UNCHANGED vars
    BY <2>7, <2>i DEF vars
  <2>. QED
    BY <2>1, <2>2, <2>3, <2>4, <2>5, <2>6, <2>7 DEF Next, ExecutorStep
<1>4. itemState[cand] = "RETRY" /\ AtCandidate
  BY <1>3 DEF PauseState, RestrictionEnds, AtCandidate, CandidateLabels
<1>. QED  BY <1>3, <1>4, CandidateRowKept DEF PauseState, SetJobState

(* If the errors called restrictions are such that ErrorMapper and         *)
(* classifier pause on them, which the runs check of the exceptions that   *)
(* the documents name, the first one is the last thing a run hears from    *)
(* Telegram: it ends with the job PAUSED and the candidate in RETRY, unless *)
(* a write or a read fails.                                                *)
THEOREM RestrictionsEndRuns ==
    ASSUME \A x \in Restrictions : Pauses(x)
    PROVE  Spec => RestrictionsPause
<1>1. Init => RestrictionEnds
  BY DEF Init, RestrictionEnds, ExceptAfterFailure, Dest
<1>2. IInv /\ ResultsInv /\ RestrictionEnds /\ [Next]_vars => RestrictionEnds'
  BY RestrictionStep
<1>3. IInv /\ ResultsInv /\ RestrictionEnds /\ [Next]_vars
        => [restricted =>
              /\ pc = "schedule" => pc' # "rpc"
              /\ pc' = "idle" /\ faults' = 0 => /\ jobState' = "PAUSED"
                                                /\ itemState'[cand] = "RETRY"]_vars
  <2>1. RestrictionEnds /\ restricted => pc # "schedule"
    BY DEF RestrictionEnds, Dest
  <2>. QED  BY <2>1, RestrictedRunEnds
<1>. QED  BY <1>1, <1>2, <1>3, ResultsInvariant, PTL DEF Spec, RestrictionsPause

=============================================================================
