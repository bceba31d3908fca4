---------------------- MODULE WorkflowCommands_proof ----------------------
(***************************************************************************)
(* Theorems about WorkflowCommands, for any number of jobs, flows, waits,  *)
(* crashes and failing writes.  TypeCorrect and CallsAreSerial hold        *)
(* whatever the user does.  NothingStuck and TerminalRests are about a     *)
(* user who lets each command on a job take effect (~Impatient), with any  *)
(* number of flows at a time; OneAtATime needs one flow at a time besides, *)
(* WaitsRespected that no job is stopped in a call or a wait (~Hasty).     *)
(***************************************************************************)
EXTENDS WorkflowCommands, FiniteSetTheorems, TLAPS

(* Between the acquisition of the lock and the end of run() an executor    *)
(* that works on a candidate is the holder.  An executor that waits may be *)
(* the holder, but is not the holder for sure.                             *)
AtCandidate == {"loop", "call", "flooded"}

WorkerHoldsLock == \A j \in JobIds : run[j] \in AtCandidate => lock = j

LockInv ==
    /\ run \in [JobIds -> RunLabels]
    /\ WorkerHoldsLock

-----------------------------------------------------------------------------
(* An executor that does not reach a candidate, or that was at one, moves  *)
(* while the lock stays where it is.                                       *)
LEMMA MoveKeeps ==
    ASSUME LockInv, NEW j \in JobIds, NEW label \in RunLabels, Move(j, label), lock' = lock,
           label \in AtCandidate => run[j] \in AtCandidate \/ lock = j
    PROVE  LockInv'
BY DEF LockInv, WorkerHoldsLock, Move

(* The lock is released by its holder only, who then works on no candidate.*)
LEMMA LeaveKeeps ==
    ASSUME LockInv, NEW j \in JobIds, NEW label \in RunLabels \ AtCandidate, Move(j, label), Release(j)
    PROVE  LockInv'
BY DEF LockInv, WorkerHoldsLock, Release, Move, AtCandidate

(* Which places of an executor are at a candidate. *)
LEMMA LabelsOK == /\ AtCandidate \subseteq RunLabels
                  /\ {"none", "submitted", "waiting", "lock", "done", "failing", "ended"} \subseteq RunLabels \ AtCandidate
BY DEF AtCandidate, RunLabels

(* Each step of an executor keeps the invariant. *)
LEMMA ExecutorStepKeeps ==
    ASSUME LockInv, NEW j \in JobIds, ExecutorStep(j)
    PROVE  LockInv'
<1>1. CASE RunBegins(j)
  BY <1>1, MoveKeeps, LabelsOK DEF RunBegins
<1>2. CASE WaitOver(j)
  <2>1. PICK label \in {"loop", "lock"} : Move(j, label) /\ (label = "loop" => lock = j)
    BY <1>2 DEF WaitOver
  <2>. QED  BY <1>2, <2>1, MoveKeeps, LabelsOK DEF WaitOver, RunLabels
<1>3. CASE AcquireLock(j)
  <2>1. \A k \in JobIds : k # NoJob
    BY WorkflowAssumption DEF JobIds, NoJob
  <2>2. \A k \in JobIds : run[k] \notin AtCandidate
    BY <1>3, <2>1 DEF AcquireLock, LockInv, WorkerHoldsLock
  <2>. QED  BY <1>3, <2>2, LabelsOK DEF AcquireLock, Move, LockInv, WorkerHoldsLock, RunLabels
<1>4. CASE Obey(j)
  BY <1>4, MoveKeeps, LabelsOK DEF Obey
<1>5. CASE Call(j)
  BY <1>5, MoveKeeps DEF Call, AtCandidate, RunLabels
<1>6. CASE Answered(j)
  BY <1>6, MoveKeeps DEF Answered, AtCandidate, RunLabels
<1>7. CASE Flooded(j)
  BY <1>7, MoveKeeps DEF Flooded, AtCandidate, RunLabels
<1>8. CASE FloodStored(j)
  BY <1>8, MoveKeeps, LabelsOK DEF FloodStored
<1>9. CASE CallPauses(j)
  BY <1>9, LeaveKeeps, LabelsOK DEF CallPauses, Leave
<1>10. CASE Complete(j) \/ RunFails(j)
  BY <1>10, LeaveKeeps, LabelsOK DEF Complete, RunFails
<1>11. CASE Reported(j) \/ RunFailed(j) \/ RunFailureLost(j)
  BY <1>11, LeaveKeeps, LabelsOK DEF Reported, RunFailed, RunFailureLost, Leave
<1>12. CASE Finished(j)
  BY <1>12, MoveKeeps, LabelsOK DEF Finished
<1>. QED  BY <1>1, <1>2, <1>3, <1>4, <1>5, <1>6, <1>7, <1>8, <1>9, <1>10, <1>11, <1>12 DEF ExecutorStep

(* What neither runs an executor nor touches the lock keeps the invariant. *)
LEMMA OthersKeep ==
    ASSUME LockInv, UNCHANGED <<run, lock>>
    PROVE  LockInv'
BY DEF LockInv, WorkerHoldsLock

(* Commands launch an executor, or leave the executors alone. *)
LEMMA CommandKeeps ==
    ASSUME LockInv, NEW j \in JobIds, Command(j)
    PROVE  LockInv'
<1>1. CASE Launch(j)
  <2>1. Move(j, "submitted") /\ lock' = lock
    BY <1>1 DEF Launch, Move
  <2>. QED  BY <2>1, MoveKeeps, LabelsOK
<1>2. ASSUME NEW command, Request(j, command)
      PROVE  LockInv'
  BY <1>2, OthersKeep DEF Request
<1>3. CASE Cancel(j)
  BY <1>3, OthersKeep DEF Cancel, runs
<1>. QED  BY <1>1, <1>2, <1>3 DEF Command

(* Flows leave the executors and the lock alone. *)
LEMMA FlowKeeps ==
    ASSUME LockInv, NEW f \in Flows,
           \/ FlowBegins(f) \/ RequestScan(f) \/ FlowStep(f) \/ \E j \in JobIds : ResumeScan(f, j)
    PROVE  LockInv'
<1>1. CASE FlowStep(f)
  <2>1. UNCHANGED <<run, lock>>
    BY <1>1 DEF FlowStep, FlowGivesUp, FlowFlooded, PrecheckBegins, PrecheckDone,
         PlanCreated, ScanCreated, ScanBegins, ScanEnds, EventStored, ScanReported, FlowBreaksOff, FlowFails,
         FlowFailed, FlowFailureLost, FlowDrops, runs
  <2>. QED  BY <2>1, OthersKeep
<1>2. CASE FlowBegins(f) \/ RequestScan(f) \/ \E j \in JobIds : ResumeScan(f, j)
  BY <1>2, OthersKeep DEF FlowBegins, RequestScan, ResumeScan, runs
<1>. QED  BY <1>1, <1>2

(* The executor that works on a candidate holds the mutation lock: of the  *)
(* account, not of the job, which is what OneCall rests on.                *)
THEOREM LockHeld == Spec => []LockInv
<1>1. Init => LockInv
  BY DEF Init, LockInv, WorkerHoldsLock, RunLabels, AtCandidate
<1>2. LockInv /\ [Next]_vars => LockInv'
  <2>. SUFFICES ASSUME LockInv, [Next]_vars PROVE LockInv'
    OBVIOUS
  <2>1. ASSUME NEW j \in JobIds, Command(j) \/ ExecutorStep(j) \/ WorkerCancels(j)
        PROVE  LockInv'
    BY <2>1, CommandKeeps, ExecutorStepKeeps, OthersKeep DEF WorkerCancels, runs
  <2>2. ASSUME NEW f \in Flows,
               \/ FlowBegins(f) \/ RequestScan(f) \/ FlowStep(f)
               \/ \E j \in JobIds : ResumeScan(f, j)
        PROVE  LockInv'
    BY <2>2, FlowKeeps
  <2>3. CASE Tick \/ Restart
    BY <2>3, OthersKeep DEF Tick, Restart, runs
  <2>4. CASE Crash
    BY <2>4 DEF Crash, LockInv, WorkerHoldsLock, RunLabels, AtCandidate
  <2>5. CASE UNCHANGED vars
    BY <2>5, OthersKeep DEF vars, runs
  <2>. QED  BY <2>1, <2>2, <2>3, <2>4, <2>5 DEF Next
<1>. QED  BY <1>1, <1>2, PTL DEF Spec

(* At most one candidate of the account is in a call, however many flows   *)
(* overlap and whatever the user asks for before the last write is done.   *)
THEOREM CallsAreSerial == Spec => []OneCall
<1>1. LockInv => OneCall
  <2>. SUFFICES ASSUME LockInv PROVE Cardinality({j \in JobIds : run[j] = "call"}) <= 1
    BY DEF OneCall
  <2>. DEFINE calling == {j \in JobIds : run[j] = "call"}
  <2>1. calling \subseteq {lock}
    BY DEF LockInv, WorkerHoldsLock, AtCandidate
  <2>2. calling = {} \/ calling = {lock}
    BY <2>1
  <2>3. Cardinality({}) = 0 /\ Cardinality({lock}) = 1
    BY FS_EmptySet, FS_Singleton
  <2>. QED  BY <2>2, <2>3
<1>. QED  BY <1>1, LockHeld, PTL

-----------------------------------------------------------------------------
(* Types. *)

(* A finite set of numbers that is not empty has a largest element. *)
LEMMA LargestExists ==
    ASSUME NEW S \in SUBSET Nat, IsFiniteSet(S), S # {}
    PROVE  \E i \in S : \A j \in S : j <= i
<1>. DEFINE above(i) == {j \in S : j > i}
            T == {above(i) : i \in S}
<1>1. IsWellFoundedOn(StrictSubsetOrdering(S), SUBSET S)
  BY FS_StrictSubsetOrderingWellFounded, FS_FiniteSubsetsOfFinite
<1>2. T \subseteq SUBSET S /\ T # {}
  OBVIOUS
<1>3. PICK t \in T : \A u \in T : ~(<<u, t>> \in StrictSubsetOrdering(S))
  BY <1>1, <1>2, WFMin
<1>4. PICK i \in S : t = above(i)
  OBVIOUS
<1>5. ASSUME NEW j \in S, j > i
      PROVE  FALSE
  <2>1. above(j) \subseteq above(i) /\ above(j) # above(i)
    <3>1. j \in above(i) /\ j \notin above(j)
      BY <1>5
    <3>2. \A k \in above(j) : k \in above(i)
      BY <1>5
    <3>. QED  BY <3>1, <3>2
  <2>2. above(j) \in SUBSET S /\ above(i) \in SUBSET S /\ above(j) \in T
    OBVIOUS
  <2>. QED  BY <1>3, <1>4, <2>1, <2>2 DEF StrictSubsetOrdering
<1>6. \A j \in S : j <= i
  BY <1>5
<1>. QED  BY <1>6

(* account_waiting_until is the longest of the waits it looks at. *)
LEMMA AccountWaitIsLongest ==
    ASSUME TypeOK
    PROVE  AccountWait \in Waits /\ AccountWait \in Nat /\ \A v \in Waits : v <= AccountWait
<1>. DEFINE waitingJobs == {k \in JobIds :
                Created(k) /\ state[k] \in {"WAITING_SERVER", "PAUSED", "RUNNING"}}
            theirs == {waiting[j] : j \in waitingJobs}
<1>1. IsFiniteSet(waitingJobs)
  <2>1. IsFiniteSet(JobIds)
    BY FS_Interval, WorkflowAssumption DEF JobIds
  <2>. QED  BY <2>1, FS_Subset
<1>2. IsFiniteSet(Waits)
  <2>1. IsFiniteSet(theirs)
    <3>. DEFINE wait == [k \in waitingJobs |-> waiting[k]]
    <3>1. wait \in Surjection(waitingJobs, theirs)
      BY DEF Surjection
    <3>. QED  BY <1>1, <3>1, FS_Surjection
  <2>2. Waits = theirs \cup {0}
    BY DEF Waits
  <2>. QED  BY <2>1, <2>2, FS_AddElement
<1>3. Waits \subseteq Nat /\ 0 \in Waits
  BY DEF Waits, TypeOK
<1>4. \E w \in Waits : \A v \in Waits : v <= w
  BY <1>2, <1>3, LargestExists
<1>. QED  BY <1>3, <1>4 DEF AccountWait

(* What a restart makes of a row is a state of a row. *)
LEMMA NormalizedType ==
    ASSUME TypeOK, NEW j \in JobIds
    PROVE  Normalized(j) \in JobStates /\ NormalizedWait(j) \in Nat
BY DEF TypeOK, Normalized, NormalizedWait, JobStates

(* A command, and the write a worker makes of it, keep the types. *)
LEMMA CommandType ==
    ASSUME TypeOK, NEW j \in JobIds, Command(j) \/ WorkerCancels(j)
    PROVE  TypeOK'
<1>. USE DEF TypeOK, rows, runs, flowVars, env
<1>1. CASE Launch(j)
  <2>1. AccountWait \in Nat
    BY AccountWaitIsLongest
  <2>. QED  BY <1>1, <2>1 DEF Launch, RunLabels
<1>2. ASSUME NEW command \in {"stop", "pause"}, Request(j, command)
      PROVE  TypeOK'
  BY <1>2 DEF Request
<1>3. CASE Cancel(j)
  BY <1>3 DEF Cancel
<1>4. CASE WorkerCancels(j)
  BY <1>4 DEF WorkerCancels, SetState, JobStates
<1>. QED  BY <1>1, <1>2, <1>3, <1>4 DEF Command

(* A step of an executor keeps the types. *)
LEMMA ExecutorType ==
    ASSUME TypeOK, NEW j \in JobIds, ExecutorStep(j)
    PROVE  TypeOK'
<1>. USE DEF TypeOK, rows, runs, flowVars, env, Move, Leave, Release, SetState, RunLabels, JobStates
<1>1. CASE RunBegins(j)
  BY <1>1 DEF RunBegins
<1>2. CASE WaitOver(j) \/ Obey(j)
  BY <1>2 DEF WaitOver, Obey
<1>3. CASE AcquireLock(j) \/ Call(j) \/ Answered(j)
  BY <1>3 DEF AcquireLock, Call, Answered
<1>4. CASE Flooded(j)
  BY <1>4, WorkflowAssumption DEF Flooded, MeetsFlood
<1>5. CASE FloodStored(j)
  BY <1>5 DEF FloodStored
<1>6. CASE CallPauses(j) \/ Complete(j) \/ Reported(j)
  BY <1>6 DEF CallPauses, Complete, Reported
<1>7. CASE RunFails(j) \/ RunFailed(j) \/ RunFailureLost(j)
  BY <1>7 DEF RunFails, RunFailed, RunFailureLost, WriteFails
<1>8. CASE Finished(j)
  BY <1>8 DEF Finished
<1>. QED  BY <1>1, <1>2, <1>3, <1>4, <1>5, <1>6, <1>7, <1>8 DEF ExecutorStep

(* A coroutine that is to write to the row of a job has one. *)
FlowHasJob ==
    \A f \in Flows : flow[f] \notin {"none", "resolve_collect", "resolve_prepare"} => flowJob[f] \in JobIds

(* A step of a flow keeps the types, since it writes to the row of the job it has. *)
LEMMA FlowType ==
    ASSUME TypeOK, FlowHasJob, NEW f \in Flows,
           \/ FlowBegins(f) \/ RequestScan(f) \/ FlowStep(f) \/ \E j \in JobIds : ResumeScan(f, j)
    PROVE  TypeOK' /\ FlowHasJob'
<1>. USE DEF TypeOK, FlowHasJob, rows, runs, flowVars, env, FlowAt, FlowFor, FlowEnds, Create, SetState,
             JobStates, JobTypes, ActionTypes, FlowLabels
<1>1. CASE FlowBegins(f) \/ FlowGivesUp(f)
  BY <1>1 DEF FlowBegins, FlowGivesUp
<1>2. CASE PrecheckBegins(f) \/ ScanCreated(f)
  BY <1>2 DEF PrecheckBegins, ScanCreated
<1>3. CASE PrecheckDone(f) \/ ScanBegins(f) \/ ScanEnds(f)
  BY <1>3 DEF PrecheckDone, ScanBegins, ScanEnds
<1>4. CASE PlanCreated(f) \/ EventStored(f)
  BY <1>4 DEF PlanCreated, EventStored
<1>5. CASE FlowFlooded(f)
  BY <1>5, WorkflowAssumption DEF FlowFlooded, MeetsFlood
<1>6. CASE RequestScan(f)
  BY <1>6 DEF RequestScan
<1>7. CASE \E j \in JobIds : ResumeScan(f, j)
  BY <1>7 DEF ResumeScan
<1>8. CASE ScanReported(f) \/ FlowFailed(f)
  BY <1>8 DEF ScanReported, FlowFailed, FlowDrops
<1>9. CASE FlowBreaksOff(f) \/ FlowFailureLost(f)
  BY <1>9 DEF FlowBreaksOff, FlowFailureLost, FlowDrops, WriteFails
<1>10. CASE FlowFails(f)
  BY <1>10 DEF FlowFails, WriteFails
<1>. QED  BY <1>1, <1>2, <1>3, <1>4, <1>5, <1>6, <1>7, <1>8, <1>9, <1>10 DEF FlowStep

(* Time, a crash and a restart keep the types. *)
LEMMA RestType ==
    ASSUME TypeOK, Tick \/ Crash \/ Restart \/ UNCHANGED vars
    PROVE  TypeOK'
<1>. USE DEF TypeOK, rows, runs, flowVars, env
<1>1. CASE Tick
  BY <1>1 DEF Tick, Down
<1>2. CASE Crash
  <2>1. run' \in [JobIds -> RunLabels] /\ serverWait' \in [JobIds -> Nat]
    BY <1>2 DEF Crash, RunLabels
  <2>2. requests' \in [JobIds -> SUBSET {"stop", "pause"}]
    BY <1>2 DEF Crash
  <2>3. flow' \in [Flows -> FlowLabels] /\ flowJob' \in [Flows -> JobIds \cup {NoJob}]
    BY <1>2 DEF Crash, FlowLabels
  <2>4. cancelling' \subseteq JobIds /\ lock' \in JobIds \cup {NoJob} /\ up' \in BOOLEAN
    BY <1>2 DEF Crash
  <2>5. floodLeft' \in Nat /\ floods' \in Nat /\ crashes' \in Nat
    BY <1>2 DEF Crash
  <2>6. fault' \in [JobIds -> {"none", "caught", "uncaught"}] /\ waitOf' \in JobIds \cup {NoJob}
    BY <1>2 DEF Crash
  <2>7. UNCHANGED rows
    BY <1>2 DEF Crash
  <2>. QED  BY <2>1, <2>2, <2>3, <2>4, <2>5, <2>6, <2>7
<1>3. CASE Restart
  <2>1. state' \in [JobIds -> JobStates] /\ waiting' \in [JobIds -> Nat]
    BY <1>3, NormalizedType DEF Restart
  <2>. QED  BY <1>3, <2>1 DEF Restart
<1>4. CASE UNCHANGED vars
  BY <1>4 DEF vars
<1>. QED  BY <1>1, <1>2, <1>3, <1>4

TypedInv == TypeOK /\ FlowHasJob

(* Every step keeps the types. *)
LEMMA StepType ==
    ASSUME TypedInv, [Next]_vars
    PROVE  TypedInv'
<1>. USE DEF TypedInv
<1>1. ASSUME NEW j \in JobIds, Command(j) \/ ExecutorStep(j) \/ WorkerCancels(j)
      PROVE  TypedInv'
  <2>1. UNCHANGED flowVars
    BY <1>1 DEF Command, ExecutorStep, Launch, Request, Cancel, WorkerCancels, RunBegins, WaitOver, AcquireLock,
                Obey, Call, Answered, Flooded, FloodStored,
         CallPauses, Complete, Reported, RunFails, RunFailed, RunFailureLost, Finished
  <2>2. TypeOK'
    BY <1>1, CommandType, ExecutorType
  <2>. QED  BY <2>1, <2>2 DEF FlowHasJob, flowVars
<1>2. ASSUME NEW f \in Flows,
             \/ FlowBegins(f) \/ RequestScan(f) \/ FlowStep(f) \/ \E j \in JobIds : ResumeScan(f, j)
      PROVE  TypedInv'
  BY <1>2, FlowType
<1>3. CASE Tick \/ Crash \/ Restart \/ UNCHANGED vars
  <2>1. FlowHasJob'
    BY <1>3 DEF FlowHasJob, Tick, Crash, Restart, vars, flowVars
  <2>. QED  BY <1>3, <2>1, RestType
<1>. QED  BY <1>1, <1>2, <1>3 DEF Next

(* Every variable keeps its type, whatever overlaps: a coroutine that      *)
(* writes to a row has a job, and the wait of an account is a number.      *)
THEOREM TypeCorrect == Spec => []TypeOK
<1>1. Init => TypedInv
  BY DEF Init, TypedInv, TypeOK, FlowHasJob, JobTypes, JobStates, RunLabels, FlowLabels, NoJob
<1>2. TypedInv /\ [Next]_vars => TypedInv'
  BY StepType
<1>3. TypedInv => TypeOK
  BY DEF TypedInv
<1>. QED  BY <1>1, <1>2, <1>3, PTL DEF Spec

-----------------------------------------------------------------------------
(* Rows and what works on them.  A command checks the row of a job, and    *)
(* what it sets going writes later; of a user who lets each command on a   *)
(* job take effect the following can be said, however many flows overlap.  *)

Unstarted == {"READY", "PAUSED", "WAITING_SERVER"}
AtWork == {"lock"} \cup AtCandidate

(* Where an executor is, its row shows, or shows the last state before it. *)
RunHasRow ==
    \A j \in Executors :
        /\ up /\ type[j] \in ActionTypes /\ j \notin cancelling
        /\ run[j] = "submitted" => state[j] \in Unstarted
        /\ run[j] = "waiting" => state[j] = "WAITING_SERVER"
        /\ run[j] \in AtWork => state[j] = "RUNNING"
        /\ run[j] = "done" => state[j] \in {"PAUSED"} \cup TerminalJobStates
        /\ run[j] = "failing" => fault[j] = "caught"

(* The queued CANCELLED of a worker is for a job that nobody works on. *)
CancelHasRow ==
    \A j \in cancelling : up /\ type[j] \in ActionTypes \cup {"SCAN"} /\ state[j] \in Unstarted

(* What the row of a coroutine's job says; in an except path an end that   *)
(* is stored already is one whose event has failed.                        *)
Prechecking == {"precheck_created", "precheck", "precheck_done", "precheck_failing", "plan"}
Scanning == {"scan", "scan_started", "scanning", "scan_done", "scan_failing"}
FlowRow(f) ==
    LET s == state[flowJob[f]] IN
    /\ flow[f] \in Prechecking => type[flowJob[f]] = "TARGET_SCAN"
    /\ flow[f] \in {"precheck_created", "precheck", "scan_started", "scanning"} => s = "RUNNING"
    /\ flow[f] \in {"precheck_done", "plan", "scan_done"} => s \in TerminalJobStates
    /\ flow[f] \in {"precheck_failing", "scan_failing"} =>
          s = "RUNNING" \/ (s \in TerminalJobStates /\ fault[flowJob[f]] = "caught")
    /\ flow[f] \in Scanning => type[flowJob[f]] = "SCAN"
    /\ flow[f] = "scan" => s \in {"READY", "PAUSED"} /\ flowJob[f] \notin cancelling

(* The job a coroutine works for; after the precheck it is over.           *)
FlowHasRow ==
    \A f \in Flows :
        /\ flow[f] # "none" => up
        /\ flow[f] \in {"none", "resolve_collect", "resolve_prepare"} <=> flowJob[f] = NoJob
        /\ FlowRow(f)

OneFlowPerJob == \A f, g \in Flows : flowJob[f] = flowJob[g] /\ flowJob[f] # NoJob => f = g

(* Conversely a row that says RUNNING is worked on while the process runs, *)
(* unless a write failed where no except was left; and each type of job    *)
(* has its states.                                                         *)
WritesEnd == {"precheck_created", "precheck", "precheck_failing", "scan_started", "scanning", "scan_failing"}
RowHasRun ==
    \A j \in JobIds :
        /\ ~Created(j) => state[j] = "CREATED"
        /\ Created(j) => state[j] \in Unstarted \cup {"RUNNING"} \cup TerminalJobStates
        /\ type[j] = "SCAN" => state[j] # "WAITING_SERVER"
        /\ type[j] = "TARGET_SCAN" => state[j] \notin Unstarted
        /\ up /\ state[j] = "RUNNING" =>
              \/ run[j] \in AtWork \cup {"failing"} \/ fault[j] = "uncaught"
              \/ \E f \in Flows : flow[f] \in WritesEnd /\ flowJob[f] = j

AgreeInv == TypeOK /\ RunHasRow /\ CancelHasRow /\ FlowHasRow /\ OneFlowPerJob /\ RowHasRun

(* One preparation at a time: the check for a free account still holds     *)
(* when the flow it admitted creates its job.                              *)
OneUnfinished == \A j, k \in JobIds : NonTerminal(j) /\ NonTerminal(k) => j = k
FlowIsAlone ==
    \A f \in Flows : flow[f] \in {"resolve_collect", "resolve_prepare", "precheck_done", "plan"} => AccountFree

AloneInv == AgreeInv /\ OneUnfinished /\ FlowIsAlone

(* The wait that an executor met is known to its job, which is not over:   *)
(* to its scheduler, to its row, or to both; a crash leaves the row.       *)
KnowsWait(j) ==
    /\ type[j] \in ActionTypes /\ NonTerminal(j)
    /\ j \notin cancelling /\ "stop" \notin requests[j]
    /\ \/ run[j] = "flooded"
       \/ state[j] \in {"PAUSED", "WAITING_SERVER"} /\ floodLeft <= waiting[j]
    /\ run[j] \in {"flooded", "submitted", "waiting"} => floodLeft <= serverWait[j]
    /\ run[j] # "failing"

(* stop_action of a user who lets a call end finds the run elsewhere. *)
StopFindsNoCall == \A j \in JobIds : run[j] \in {"call", "flooded"} => "stop" \notin requests[j]

WaitIsKept == floodLeft > 0 /\ waitOf # NoJob => KnowsWait(waitOf)

WaitInv == AloneInv /\ StopFindsNoCall /\ WaitIsKept

-----------------------------------------------------------------------------
(* The agreement of rows and of what works on them, step by step.          *)

AgreeParts == RunHasRow /\ CancelHasRow /\ FlowHasRow /\ OneFlowPerJob /\ RowHasRun

(* A command is given for a job that nothing else is about to write to. *)
LEMMA CommandAgrees ==
    ASSUME AgreeInv, ~Impatient, NEW j \in JobIds, Command(j) \/ WorkerCancels(j)
    PROVE  AgreeParts'
<1>. USE DEF AgreeInv, AgreeParts, rows, runs, flowVars, env, TypeOK, Executors, Created, Unstarted, AtWork, AtCandidate,
             TerminalJobStates, ActionTypes, JobTypes, Settled, NoJob
<1>1. CASE Launch(j)
  <2>. USE <1>1 DEF Launch
  <2>1. RunHasRow' /\ CancelHasRow'
    BY DEF RunHasRow, CancelHasRow
  <2>2. FlowHasRow' /\ OneFlowPerJob'
    BY DEF FlowHasRow, FlowRow, Prechecking, Scanning, OneFlowPerJob
  <2>3. RowHasRun'
    BY DEF RowHasRun
  <2>. QED  BY <2>1, <2>2, <2>3
<1>2. ASSUME NEW command, Request(j, command)
      PROVE  AgreeParts'
  BY <1>2 DEF Request, RunHasRow, CancelHasRow, FlowHasRow, FlowRow, OneFlowPerJob, RowHasRun
<1>3. CASE Cancel(j)
  <2>. USE <1>3 DEF Cancel
  <2>1. run[j] = "none"
    BY DEF RunHasRow, RunLabels
  <2>2. RunHasRow' /\ CancelHasRow'
    BY <2>1 DEF RunHasRow, CancelHasRow, RowHasRun
  <2>3. FlowHasRow' /\ OneFlowPerJob'
    BY DEF FlowHasRow, FlowRow, Prechecking, Scanning, OneFlowPerJob
  <2>4. RowHasRun'
    BY DEF RowHasRun
  <2>. QED  BY <2>2, <2>3, <2>4
<1>4. CASE WorkerCancels(j)
  <2>. USE <1>4 DEF WorkerCancels, SetState
  <2>1. RunHasRow' /\ CancelHasRow'
    BY DEF RunHasRow, CancelHasRow
  <2>2. FlowHasRow' /\ OneFlowPerJob'
    BY DEF FlowHasRow, FlowRow, Prechecking, Scanning, OneFlowPerJob, CancelHasRow
  <2>3. RowHasRun'
    BY DEF RowHasRun, CancelHasRow
  <2>. QED  BY <2>1, <2>2, <2>3
<1>. QED  BY <1>1, <1>2, <1>3, <1>4 DEF Command

(* The job of an executor has no coroutine. *)
LEMMA RunOrFlow ==
    ASSUME AgreeInv, NEW j \in JobIds, run[j] # "none", NEW f \in Flows
    PROVE  flowJob[f] # j
<1>1. type[j] \in ActionTypes /\ j # NoJob
  BY WorkflowAssumption DEF AgreeInv, RunHasRow, Executors, JobIds, NoJob
<1>2. flowJob[f] # NoJob => type[flowJob[f]] \in {"SCAN", "TARGET_SCAN"}
  BY DEF AgreeInv, TypeOK, FlowLabels, FlowHasRow, FlowRow, Prechecking, Scanning
<1>. QED  BY <1>1, <1>2 DEF ActionTypes

(* An executor writes the state that goes with where it moves. *)
LEMMA ExecutorAgrees ==
    ASSUME AgreeInv, NEW j \in JobIds, ExecutorStep(j)
    PROVE  AgreeParts'
<1>. USE DEF AgreeInv, AgreeParts, rows, runs, flowVars, env, TypeOK, Executors, Created, Unstarted, AtWork, AtCandidate,
             TerminalJobStates, ActionTypes, JobTypes, NoJob, SetState, Move, Leave, Release, RunLabels, FlowLabels
<1>1. run[j] # "none" /\ UNCHANGED <<type, cancelling, flowVars, up>>
  BY DEF ExecutorStep, RunBegins, WaitOver, AcquireLock, Obey, Call, Answered, Flooded, FloodStored,
         CallPauses, Complete, Reported, RunFails, RunFailed, RunFailureLost, Finished
<1>2. /\ \A k \in JobIds : k # j => state'[k] = state[k] /\ run'[k] = run[k] /\ fault'[k] = fault[k]
      /\ run'[j] = "waiting" => state'[j] = "WAITING_SERVER"
      /\ run'[j] \in AtWork => state'[j] = "RUNNING"
      /\ run'[j] = "done" => state'[j] \in {"PAUSED"} \cup TerminalJobStates
      /\ run'[j] = "failing" => fault'[j] = "caught"
      /\ run'[j] # "submitted"
      /\ state'[j] = "RUNNING" => run'[j] \in AtWork \cup {"failing"} \/ fault'[j] = "uncaught"
      /\ state'[j] \in Unstarted \cup {"RUNNING"} \cup TerminalJobStates
  <2>. USE DEF RunHasRow, RowHasRun
  <2>1. CASE RunBegins(j) \/ WaitOver(j) \/ AcquireLock(j)
    BY <2>1 DEF RunBegins, WaitOver, AcquireLock
  <2>2. CASE Obey(j) \/ CallPauses(j) \/ Complete(j)
    BY <2>2 DEF Obey, CallPauses, Complete
  <2>3. CASE Call(j) \/ Answered(j) \/ Flooded(j) \/ FloodStored(j)
    BY <2>3 DEF Call, Answered, Flooded, FloodStored
  <2>4. CASE Reported(j) \/ Finished(j)
    <3>1. state[j] = "RUNNING" => fault[j] = "uncaught"
      BY <2>4, <1>1, RunOrFlow DEF Reported, Finished
    <3>. QED  BY <2>4, <3>1 DEF Reported, Finished
  <2>5. CASE RunFails(j) \/ RunFailed(j) \/ RunFailureLost(j)
    BY <2>5 DEF RunFails, RunFailed, RunFailureLost, WriteFails
  <2>. QED  BY <2>1, <2>2, <2>3, <2>4, <2>5 DEF ExecutorStep
<1>3. RunHasRow' /\ CancelHasRow'
  BY <1>1, <1>2 DEF RunHasRow, CancelHasRow
<1>4. FlowHasRow' /\ OneFlowPerJob'
  <2>1. \A f \in Flows : flowJob[f] \in JobIds =>
            /\ state'[flowJob[f]] = state[flowJob[f]] /\ fault'[flowJob[f]] = fault[flowJob[f]]
    BY <1>1, <1>2, RunOrFlow
  <2>2. \A f \in Flows : FlowRow(f)'
    <3>1. \A f \in Flows : flow[f] \notin Prechecking \cup Scanning \/ flowJob[f] \in JobIds
      BY DEF FlowHasRow, Prechecking, Scanning
    <3>. QED  BY <1>1, <2>1, <3>1 DEF FlowHasRow, FlowRow, Prechecking, Scanning
  <2>. QED  BY <1>1, <2>2 DEF FlowHasRow, OneFlowPerJob
<1>5. RowHasRun'
  BY <1>1, <1>2 DEF RunHasRow, RowHasRun
<1>. QED  BY <1>3, <1>4, <1>5

(* A flow writes to its own job, which no executor and no worker has. *)
LEMMA FlowAgrees ==
    ASSUME AgreeInv, ~Impatient, NEW f \in Flows,
           \/ FlowBegins(f) \/ RequestScan(f) \/ FlowStep(f) \/ \E j \in JobIds : ResumeScan(f, j)
    PROVE  AgreeParts'
<1>. USE DEF AgreeInv, AgreeParts, rows, runs, flowVars, env, TypeOK, Executors, Created, Unstarted, AtWork, AtCandidate,
             TerminalJobStates, ActionTypes, JobTypes, NoJob, SetState, Create, FlowAt, FlowFor, FlowEnds, FlowLabels,
             RunHasRow, CancelHasRow, FlowHasRow, FlowRow, Prechecking, Scanning, WritesEnd, OneFlowPerJob, RowHasRun
<1>0. \A k \in JobIds : k # NoJob
  BY WorkflowAssumption DEF JobIds
<1>. USE <1>0
<1>1. CASE FlowBegins(f)
  BY <1>1 DEF FlowBegins
<1>2. CASE FlowGivesUp(f)
  BY <1>2 DEF FlowGivesUp
<1>3. CASE PrecheckBegins(f)
  BY <1>3 DEF PrecheckBegins
<1>4. CASE PrecheckDone(f)
  BY <1>4 DEF PrecheckDone
<1>5. CASE FlowFlooded(f)
  BY <1>5 DEF FlowFlooded
<1>6. CASE PlanCreated(f)
  BY <1>6 DEF PlanCreated
<1>7. CASE ScanCreated(f)
  BY <1>7 DEF ScanCreated
<1>8. CASE ScanBegins(f)
  BY <1>8 DEF ScanBegins
<1>9. CASE ScanEnds(f)
  BY <1>9 DEF ScanEnds
<1>10. CASE RequestScan(f)
  BY <1>10 DEF RequestScan
<1>11. ASSUME NEW j \in JobIds, ResumeScan(f, j)
       PROVE  AgreeParts'
  BY <1>11 DEF ResumeScan, Settled
<1>12. CASE EventStored(f)
  BY <1>12 DEF EventStored
<1>13. CASE ScanReported(f)
  BY <1>13 DEF ScanReported, FlowDrops
<1>14. CASE FlowBreaksOff(f)
  BY <1>14 DEF FlowBreaksOff, FlowDrops, WriteFails
<1>15. CASE FlowFails(f)
  BY <1>15 DEF FlowFails, WriteFails
<1>16. CASE FlowFailed(f)
  BY <1>16 DEF FlowFailed, FlowDrops
<1>17. CASE FlowFailureLost(f)
  BY <1>17 DEF FlowFailureLost, FlowDrops, WriteFails
<1>. QED  BY <1>1, <1>2, <1>3, <1>4, <1>5, <1>6, <1>7, <1>8, <1>9, <1>10, <1>11, <1>12, <1>13, <1>14,
             <1>15, <1>16, <1>17 DEF FlowStep

(* A crash leaves nothing at work, a restart no row that says RUNNING. *)
LEMMA RestAgrees ==
    ASSUME AgreeInv, Tick \/ Crash \/ Restart \/ UNCHANGED vars
    PROVE  AgreeParts'
<1>. USE DEF AgreeInv, AgreeParts, rows, runs, flowVars, env, TypeOK, Executors, Created, Unstarted, AtWork, AtCandidate,
             TerminalJobStates, ActionTypes, JobTypes, NoJob,
             RunHasRow, CancelHasRow, FlowHasRow, FlowRow, Prechecking, Scanning, WritesEnd, OneFlowPerJob, RowHasRun
<1>1. CASE Tick
  BY <1>1 DEF Tick
<1>2. CASE Crash
  BY <1>2 DEF Crash
<1>3. CASE Restart
  <2>1. \A k \in JobIds : run[k] = "none"
    BY <1>3 DEF Restart
  <2>2. cancelling = {} /\ \A f \in Flows : flow[f] = "none" /\ flowJob[f] = NoJob
    BY <1>3 DEF Restart
  <2>. QED  BY <1>3, <2>1, <2>2 DEF Restart, Normalized, Interrupted, KeepsWait
<1>4. CASE UNCHANGED vars
  BY <1>4 DEF vars
<1>. QED  BY <1>1, <1>2, <1>3, <1>4

(* Every step keeps rows and what works on them in agreement. *)
LEMMA StepAgrees ==
    ASSUME AgreeInv, ~Impatient, [Next]_vars
    PROVE  AgreeInv'
<1>1. AgreeParts'
  BY CommandAgrees, ExecutorAgrees, FlowAgrees, RestAgrees DEF Next
<1>2. FlowHasJob
  BY DEF AgreeInv, FlowHasRow, FlowHasJob, TypeOK
<1>3. TypeOK'
  BY <1>2, StepType DEF TypedInv, AgreeInv
<1>. QED  BY <1>1, <1>3 DEF AgreeParts, AgreeInv

(* Without rows and without anything at work there is nothing to disagree. *)
LEMMA InitAgrees == Init => AgreeInv
<1>. SUFFICES ASSUME Init PROVE AgreeInv
  OBVIOUS
<1>1. TypeOK
  BY DEF Init, TypeOK, JobTypes, JobStates, RunLabels, FlowLabels, NoJob
<1>. QED  BY <1>1 DEF Init, AgreeInv, RunHasRow, CancelHasRow, FlowHasRow, FlowRow, Prechecking, Scanning,
                      OneFlowPerJob, RowHasRun, Executors, Created, ActionTypes, Unstarted, AtWork, AtCandidate, NoJob

(* Of a user who lets commands take effect: rows and what works on them    *)
(* agree, for any number of overlapping flows.                             *)
LEMMA AgreeInvariant == ASSUME ~Impatient PROVE Spec => []AgreeInv
BY InitAgrees, StepAgrees, PTL DEF Spec

(* Every job that is not over is worked on or can be stopped by a command: *)
(* a row says RUNNING where nothing runs only after the write of a STARTED *)
(* event, or of FAILED itself, has failed, and every other state is one    *)
(* that cancel_prepared_action, stop_action or stop_scan accepts.          *)
THEOREM NothingStuck == ASSUME ~Impatient PROVE Spec => []NoJobIsStuck
<1>1. AgreeInv => NoJobIsStuck
  BY DEF AgreeInv, RowHasRun, NoJobIsStuck, InProgress, Stoppable, NonTerminal, Executors, Created, TypeOK,
         Unstarted, AtWork, AtCandidate, JobTypes
<1>. QED  BY <1>1, AgreeInvariant, PTL

(* A step of an executor, a coroutine or a worker that writes to a row     *)
(* finds a job there that is not over.                                     *)
LEMMA StepSparesTerminal ==
    ASSUME AgreeInv, [Next]_vars, NEW k \in JobIds, state[k] \in TerminalJobStates
    PROVE  state'[k] = state[k] \/ (state'[k] = "FAILED" /\ fault[k] = "caught")
<1>. USE DEF AgreeInv, TypeOK, TerminalJobStates, SetState, Create, rows
<1>1. ASSUME NEW j \in JobIds, Command(j)
      PROVE  state' = state
  BY <1>1 DEF Command, Launch, Request, Cancel
<1>2. ASSUME NEW j \in JobIds, WorkerCancels(j)
      PROVE  state'[k] = state[k]
  BY <1>2 DEF WorkerCancels, CancelHasRow, Unstarted
<1>3. ASSUME NEW j \in JobIds, ExecutorStep(j)
      PROVE  state'[k] = state[k] \/ (state'[k] = "FAILED" /\ fault[k] = "caught")
  <2>. USE DEF RunHasRow, Executors, Unstarted, AtWork, AtCandidate, Move, Leave
  <2>1. CASE RunBegins(j) \/ WaitOver(j) \/ Obey(j)
    BY <2>1 DEF RunBegins, WaitOver, Obey
  <2>2. CASE AcquireLock(j) \/ Call(j) \/ Answered(j) \/ Flooded(j) \/ Reported(j) \/ Finished(j)
    BY <2>2 DEF AcquireLock, Call, Answered, Flooded, Reported, Finished
  <2>3. CASE FloodStored(j) \/ CallPauses(j) \/ Complete(j)
    BY <2>3 DEF FloodStored, CallPauses, Complete
  <2>4. CASE RunFails(j) \/ RunFailed(j) \/ RunFailureLost(j)
    BY <2>4 DEF RunFails, RunFailed, RunFailureLost
  <2>. QED  BY <1>3, <2>1, <2>2, <2>3, <2>4 DEF ExecutorStep
<1>4. ASSUME NEW f \in Flows,
             \/ FlowBegins(f) \/ RequestScan(f) \/ FlowStep(f) \/ \E j \in JobIds : ResumeScan(f, j)
      PROVE  state'[k] = state[k] \/ (state'[k] = "FAILED" /\ fault[k] = "caught")
  <2>. USE DEF FlowHasRow, FlowRow, Prechecking, Scanning, RowHasRun, Created
  <2>1. CASE FlowBegins(f) \/ RequestScan(f) \/ FlowGivesUp(f) \/ FlowFlooded(f) \/ \E j \in JobIds : ResumeScan(f, j)
    BY <2>1 DEF FlowBegins, RequestScan, FlowGivesUp, FlowFlooded, ResumeScan
  <2>2. CASE PrecheckBegins(f) \/ PlanCreated(f) \/ ScanCreated(f)
    BY <2>2 DEF PrecheckBegins, PlanCreated, ScanCreated
  <2>3. CASE PrecheckDone(f) \/ ScanBegins(f) \/ ScanEnds(f)
    BY <2>3 DEF PrecheckDone, ScanBegins, ScanEnds
  <2>4. CASE EventStored(f) \/ ScanReported(f) \/ FlowBreaksOff(f) \/ FlowFails(f) \/ FlowFailureLost(f)
    BY <2>4 DEF EventStored, ScanReported, FlowBreaksOff, FlowFails, FlowFailureLost
  <2>5. CASE FlowFailed(f)
    BY <2>5 DEF FlowFailed
  <2>. QED  BY <1>4, <2>1, <2>2, <2>3, <2>4, <2>5 DEF FlowStep
<1>5. CASE Tick \/ Crash \/ UNCHANGED vars
  BY <1>5 DEF Tick, Crash, vars
<1>6. CASE Restart
  BY <1>6 DEF Restart, Normalized, Interrupted
<1>. QED  BY <1>1, <1>2, <1>3, <1>4, <1>5, <1>6 DEF Next

(* What was already on its way neither takes up a terminal job again nor   *)
(* tells its end anew: a queued CANCELLED, the end of a run, the coroutine *)
(* of a scan, the normalisation after a restart.  Only the coroutine or    *)
(* run that stored the end may write FAILED after all, when the event that *)
(* reports the end fails.                                                  *)
THEOREM TerminalRests == ASSUME ~Impatient PROVE Spec => TerminalIsFinal
<1>1. AgreeInv /\ [Next]_vars =>
        [\A j \in JobIds : state[j] \in TerminalJobStates =>
            state'[j] = state[j] \/ (state'[j] = "FAILED" /\ fault[j] = "caught")]_vars
  BY StepSparesTerminal
<1>. QED  BY <1>1, AgreeInvariant, PTL DEF Spec, TerminalIsFinal

-----------------------------------------------------------------------------
(* One preparation at a time.                                              *)

OneFlow == \A f, g \in Flows : f = g

(* Rows become unfinished in the coroutine of a flow only. *)
LEMMA OthersFinish ==
    ASSUME AgreeInv,
           \/ \E j \in JobIds : Command(j) \/ ExecutorStep(j) \/ WorkerCancels(j)
           \/ Tick \/ Crash \/ Restart \/ UNCHANGED vars
    PROVE  \A k \in JobIds : NonTerminal(k)' => NonTerminal(k)
<1>. USE DEF rows, NonTerminal, Created
<1>1. UNCHANGED type
  BY DEF Command, ExecutorStep, Launch, Request, Cancel, WorkerCancels, RunBegins, WaitOver, AcquireLock,
         Obey, Call, Answered, Flooded, FloodStored,
         CallPauses, Complete, Reported, RunFails, RunFailed, RunFailureLost, Finished, SetState, Tick, Crash, Restart, vars
<1>2. \A k \in JobIds : state[k] \in TerminalJobStates => state'[k] \in TerminalJobStates
  BY StepSparesTerminal DEF Next, TerminalJobStates
<1>. QED  BY <1>1, <1>2

(* What makes no row unfinished leaves at most one unfinished. *)
LEMMA OthersAlone ==
    ASSUME AloneInv,
           \/ \E j \in JobIds : Command(j) \/ ExecutorStep(j) \/ WorkerCancels(j)
           \/ Tick \/ Crash \/ Restart \/ UNCHANGED vars
    PROVE  OneUnfinished' /\ FlowIsAlone'
<1>1. \A k \in JobIds : NonTerminal(k)' => NonTerminal(k)
  BY OthersFinish DEF AloneInv
<1>2. OneUnfinished'
  BY <1>1 DEF OneUnfinished, AloneInv
<1>3. \A f \in Flows :
        flow'[f] \in {"resolve_collect", "resolve_prepare", "precheck_done", "plan"} => flow'[f] = flow[f]
  BY DEF Command, ExecutorStep, Launch, Request, Cancel, WorkerCancels, RunBegins, WaitOver, AcquireLock, flowVars,
         Obey, Call, Answered, Flooded, FloodStored,
         CallPauses, Complete, Reported, RunFails, RunFailed, RunFailureLost, Finished, Tick, Crash, Restart, vars
<1>4. FlowIsAlone'
  BY <1>1, <1>3 DEF FlowIsAlone, AccountFree, AloneInv
<1>. QED  BY <1>2, <1>4

(* A coroutine creates a job when all the others are over, its own too.    *)
LEMMA FlowAlone ==
    ASSUME AloneInv, OneFlow, NEW f \in Flows,
           \/ FlowBegins(f) \/ RequestScan(f) \/ FlowStep(f) \/ \E j \in JobIds : ResumeScan(f, j)
    PROVE  OneUnfinished' /\ FlowIsAlone'
<1>. USE DEF AloneInv, AgreeInv, TypeOK, OneUnfinished, FlowIsAlone, OneFlow, AccountFree, NonTerminal, Created, rows,
             flowVars, FlowAt, FlowFor, FlowEnds, Create, SetState, TerminalJobStates
<1>1. CASE FlowBegins(f) \/ RequestScan(f) \/ FlowGivesUp(f) \/ \E j \in JobIds : ResumeScan(f, j)
  BY <1>1 DEF FlowBegins, RequestScan, FlowGivesUp, ResumeScan
<1>2. CASE PrecheckBegins(f) \/ PlanCreated(f) \/ ScanCreated(f)
  BY <1>2 DEF PrecheckBegins, PlanCreated, ScanCreated
<1>3. CASE PrecheckDone(f) \/ ScanBegins(f) \/ ScanEnds(f)
  <2>1. flowJob[f] \in JobIds /\ Created(flowJob[f]) /\ NonTerminal(flowJob[f])
    BY <1>3 DEF PrecheckDone, ScanBegins, ScanEnds, FlowHasRow, FlowRow, Prechecking, Scanning, NoJob
  <2>. QED  BY <1>3, <2>1 DEF PrecheckDone, ScanBegins, ScanEnds
<1>4. CASE EventStored(f) \/ FlowFlooded(f) \/ FlowFails(f)
  BY <1>4 DEF EventStored, FlowFlooded, FlowFails
<1>5. CASE ScanReported(f) \/ FlowBreaksOff(f) \/ FlowFailureLost(f)
  BY <1>5 DEF ScanReported, FlowBreaksOff, FlowFailureLost, FlowDrops
<1>6. CASE FlowFailed(f)
  BY <1>6 DEF FlowFailed, FlowDrops
<1>. QED  BY <1>1, <1>2, <1>3, <1>4, <1>5, <1>6 DEF FlowStep

(* At first no row is unfinished. *)
LEMMA InitAlone == Init => AloneInv
BY InitAgrees DEF Init, AloneInv, OneUnfinished, FlowIsAlone, NonTerminal, Created

(* Every step leaves at most one job unfinished. *)
LEMMA StepAlone ==
    ASSUME AloneInv, ~Impatient, OneFlow, [Next]_vars
    PROVE  AloneInv'
<1>1. OneUnfinished' /\ FlowIsAlone'
  BY OthersAlone, FlowAlone DEF Next
<1>2. AgreeInv'
  BY StepAgrees DEF AloneInv
<1>. QED  BY <1>1, <1>2 DEF AloneInv

(* With one flow at a time at most one job is unfinished. *)
LEMMA AloneInvariant == ASSUME ~Impatient, OneFlow PROVE Spec => []AloneInv
BY InitAlone, StepAlone, PTL DEF Spec

(* A set whose members are all the same has at most one. *)
LEMMA AtMostOne ==
    ASSUME NEW S, \A x, y \in S : x = y
    PROVE  Cardinality(S) <= 1
<1>1. CASE S = {}
  BY <1>1, FS_EmptySet
<1>2. ASSUME NEW x \in S
      PROVE  Cardinality(S) <= 1
  <2>1. S = {x}
    OBVIOUS
  <2>2. Cardinality({x}) = 1
    BY FS_Singleton
  <2>. QED  BY <2>1, <2>2
<1>. QED  BY <1>1, <1>2

(* _ensure_account_free: one unfinished action job and one executor at     *)
(* work.  The check is made when no row tells of what was just begun; that *)
(* no second preparation overlaps is what it lacks and what is assumed.    *)
THEOREM OneAtATime == ASSUME ~Impatient, OneFlow PROVE Spec => []OneOfEach
<1>1. AloneInv => OneOfEach
  <2>. SUFFICES ASSUME AloneInv PROVE OneOfEach
    OBVIOUS
  <2>1. OneActionJob
    BY AtMostOne DEF AloneInv, OneUnfinished, OneActionJob
  <2>2. \A j \in Executors : run[j] \notin {"done", "failing", "ended"} => NonTerminal(j)
    BY DEF AloneInv, AgreeInv, TypeOK, RunHasRow, Executors, NonTerminal, Created, ActionTypes, Unstarted,
           AtWork, AtCandidate, RunLabels, TerminalJobStates
  <2>3. OneExecutor
    BY <2>2, AtMostOne DEF AloneInv, OneUnfinished, OneExecutor, Executors
  <2>. QED  BY <2>1, <2>3 DEF OneOfEach, AloneInv, AgreeInv
<1>. QED  BY <1>1, AloneInvariant, PTL

-----------------------------------------------------------------------------
(* The wait of the account.                                                *)

(* NoJob is not a job. *)
LEMMA JobsAreSome == \A j \in JobIds : j # NoJob
BY WorkflowAssumption DEF JobIds, NoJob

(* The wait of the account that an executor has met and no failing write   *)
(* or crash has lost is known to the job.                                  *)
LEMMA WaitIsKnown ==
    ASSUME WaitInv, floodLeft > 0, waitOf # NoJob
    PROVE  waitOf \in JobIds /\ KnowsWait(waitOf)
BY DEF WaitInv, WaitIsKept, AloneInv, AgreeInv, TypeOK

(* While a job knows of the wait it is the only one that could call.       *)
LEMMA NoCallWhileKnown ==
    ASSUME WaitInv, floodLeft > 0, waitOf # NoJob, NEW j \in JobIds, run[j] \in AtWork
    PROVE  run[j] = "flooded"
<1>1. waitOf \in JobIds /\ KnowsWait(waitOf)
  BY WaitIsKnown
<1>2. NonTerminal(j) /\ state[j] = "RUNNING"
  BY DEF WaitInv, AloneInv, AgreeInv, RunHasRow, Executors, NonTerminal, Created, AtWork, AtCandidate, ActionTypes,
         TerminalJobStates
<1>3. j = waitOf
  BY <1>1, <1>2 DEF KnowsWait, WaitInv, AloneInv, OneUnfinished
<1>. QED  BY <1>1, <1>2, <1>3 DEF KnowsWait

(* active_job_for_account and account_waiting_until find the wait.         *)
LEMMA WaitIsSeen ==
    ASSUME WaitInv, floodLeft > 0, waitOf # NoJob, NEW j \in JobIds, state[j] \in Unstarted, NonTerminal(j)
    PROVE  j = waitOf /\ AccountWait >= floodLeft
<1>1. waitOf \in JobIds /\ KnowsWait(waitOf)
  BY WaitIsKnown
<1>2. j = waitOf
  BY <1>1 DEF KnowsWait, WaitInv, AloneInv, OneUnfinished
<1>3. run[j] # "flooded"
  BY DEF WaitInv, AloneInv, AgreeInv, RunHasRow, Executors, AtWork, AtCandidate, Unstarted
<1>4. floodLeft <= waiting[j] /\ state[j] \in {"PAUSED", "WAITING_SERVER"}
  BY <1>1, <1>2, <1>3 DEF KnowsWait
<1>5. waiting[j] \in Waits
  BY <1>4 DEF Waits, NonTerminal
<1>6. TypeOK
  BY DEF WaitInv, AloneInv, AgreeInv
<1>. QED  BY <1>2, <1>4, <1>5, <1>6, AccountWaitIsLongest DEF TypeOK

(* What changes neither the wait nor the job that knows of it.             *)
LEMMA KnownStays ==
    ASSUME NEW j \in JobIds, KnowsWait(j), floodLeft' = floodLeft, type'[j] = type[j],
           state'[j] = state[j], waiting'[j] = waiting[j], run'[j] = run[j], serverWait'[j] = serverWait[j],
           requests'[j] = requests[j], j \notin cancelling'
    PROVE  KnowsWait(j)'
BY DEF KnowsWait, NonTerminal, Created

(* The job that knew of the wait knows of it still. *)
LEMMA KnownIsKept ==
    ASSUME NEW k \in JobIds, waitOf' = k, KnowsWait(k)'
    PROVE  WaitIsKept'
BY DEF WaitIsKept, KnowsWait, NonTerminal, Created

(* A stop or a cancellation is asked for after the wait, a launch takes the wait over. *)
LEMMA CommandKeepsWait ==
    ASSUME WaitInv, ~Impatient, ~Hasty, floodLeft > 0, NEW k \in JobIds, waitOf = k, NEW j \in JobIds,
           Command(j) \/ WorkerCancels(j)
    PROVE  WaitIsKept'
<1>. USE DEF env, rows, runs, flowVars
<1>0. TypeOK
  BY DEF WaitInv, AloneInv, AgreeInv
<1>1. waitOf # NoJob /\ KnowsWait(k)
  BY JobsAreSome, WaitIsKnown
<1>2. UNCHANGED <<floodLeft, waitOf>>
  BY DEF Command, Launch, Request, Cancel, WorkerCancels
<1>. SUFFICES KnowsWait(k)'
  BY <1>2, KnownIsKept
<1>3. CASE Launch(j)
  <2>1. NonTerminal(j) /\ state[j] \in Unstarted
    BY <1>3 DEF Launch, IsActiveJob, Unstarted
  <2>2. j = k /\ AccountWait >= floodLeft
    BY <2>1, <1>1, WaitIsSeen
  <2>3. run'[j] = "submitted" /\ serverWait'[j] = AccountWait /\ run[j] = "none"
    BY <1>0, <1>3 DEF Launch, TypeOK
  <2>4. UNCHANGED <<rows, cancelling, requests>>
    BY <1>3 DEF Launch
  <2>5. NonTerminal(j)'
    BY <2>1, <2>4 DEF NonTerminal, Created
  <2>6. floodLeft' <= serverWait'[j]
    BY <1>2, <2>2, <2>3, <1>0, AccountWaitIsLongest DEF TypeOK
  <2>7. KnowsWait(j)'
    BY <1>1, <1>2, <2>2, <2>3, <2>4, <2>5, <2>6 DEF KnowsWait
  <2>. QED  BY <1>2, <2>2, <2>7
<1>4. CASE Request(j, "pause")
  <2>1. UNCHANGED <<rows, cancelling, run, serverWait>> /\ "stop" \notin requests'[k]
    BY <1>0, <1>1, <1>4 DEF Request, KnowsWait, TypeOK
  <2>2. KnowsWait(k)'
    BY <1>1, <1>2, <2>1 DEF KnowsWait, NonTerminal, Created
  <2>. QED  BY <1>2, <2>2
<1>5. CASE Request(j, "stop")
  <2>1. UNCHANGED <<rows, cancelling, run, serverWait>>
    BY <1>5 DEF Request
  <2>2. CASE j # k \/ run[j] = "submitted"
    <3>1. requests'[k] = requests[k]
      BY <1>0, <1>1, <1>5, <2>2 DEF Request, TypeOK
    <3>2. k \notin cancelling'
      BY <1>1, <2>1 DEF KnowsWait
    <3>. QED  BY <1>1, <1>2, <2>1, <3>1, <3>2, KnownStays
  <2>3. CASE j = k /\ run[j] # "submitted"
    <3>1. AccountWait = 0 /\ run[j] # "flooded"
      BY <1>5 DEF Request
    <3>2. state[j] \in Unstarted /\ NonTerminal(j)
      BY <1>1, <2>3, <3>1 DEF KnowsWait, Unstarted
    <3>3. AccountWait >= floodLeft
      BY <1>1, <3>2, WaitIsSeen
    <3>. QED  BY <3>1, <3>3, <1>0 DEF TypeOK
  <2>. QED  BY <2>2, <2>3
<1>6. CASE Cancel(j)
  <2>1. AccountWait = 0 /\ state[j] \in Unstarted /\ NonTerminal(j)
    BY <1>6 DEF Cancel, Unstarted, NonTerminal, Created, ActionTypes, TerminalJobStates
  <2>2. AccountWait >= floodLeft
    BY <1>1, <2>1, WaitIsSeen
  <2>. QED  BY <2>1, <2>2, <1>0 DEF TypeOK
<1>7. CASE WorkerCancels(j)
  <2>1. j # k
    BY <1>1, <1>7 DEF WorkerCancels, KnowsWait
  <2>2. type'[k] = type[k] /\ UNCHANGED runs
    BY <1>7 DEF WorkerCancels, SetState
  <2>3. state'[k] = state[k] /\ waiting'[k] = waiting[k] /\ k \notin cancelling'
    BY <1>0, <1>1, <1>7, <2>1 DEF WorkerCancels, SetState, TypeOK, KnowsWait
  <2>. QED  BY <1>1, <1>2, <2>2, <2>3, KnownStays
<1>. QED  BY <1>3, <1>4, <1>5, <1>6, <1>7 DEF Command

(* A FloodWait reaches the scheduler of the run at once. *)
LEMMA FloodIsKnown ==
    ASSUME WaitInv, NEW j \in JobIds, Flooded(j)
    PROVE  KnowsWait(j)' /\ waitOf' = j
<1>. USE DEF env, rows, runs, flowVars, Move
<1>0. TypeOK
  BY DEF WaitInv, AloneInv, AgreeInv
<1>1. type[j] \in ActionTypes /\ NonTerminal(j) /\ j \notin cancelling
  BY DEF Flooded, WaitInv, AloneInv, AgreeInv, RunHasRow, Executors, NonTerminal, Created, AtWork, AtCandidate,
         ActionTypes, TerminalJobStates
<1>2. "stop" \notin requests[j]
  BY DEF Flooded, WaitInv, StopFindsNoCall
<1>3. run'[j] = "flooded" /\ serverWait'[j] = floodLeft' /\ floodLeft' \in Nat
  BY <1>0, WorkflowAssumption DEF Flooded, MeetsFlood, TypeOK
<1>4. UNCHANGED <<rows, cancelling, requests>> /\ waitOf' = j
  BY DEF Flooded
<1>. QED  BY <1>1, <1>2, <1>3, <1>4 DEF KnowsWait, NonTerminal, Created

(* The waits of a run: a FloodWait reaches the scheduler at once and the   *)
(* row before the wait begins; what ends the run with the wait outstanding *)
(* leaves it in the row, unless a write has failed.                        *)
LEMMA ExecutorKeepsWait ==
    ASSUME WaitInv, NEW j \in JobIds, ExecutorStep(j)
    PROVE  WaitIsKept'
<1>. USE DEF env, rows, runs, flowVars, SetState, Move, Leave, Release
<1>0. TypeOK
  BY DEF WaitInv, AloneInv, AgreeInv
<1>1. CASE Flooded(j)
  BY <1>1, FloodIsKnown, KnownIsKept
<1>2. CASE ~Flooded(j)
  <2>1. floodLeft' = floodLeft /\ waitOf' \in {waitOf, NoJob}
    BY <1>2 DEF ExecutorStep, RunBegins, WaitOver, AcquireLock, Obey, Call, Answered, FloodStored, CallPauses,
                Complete, Reported, RunFails, RunFailed, RunFailureLost, Finished
  <2>. SUFFICES ASSUME floodLeft > 0, NEW k \in JobIds, waitOf = k, waitOf' = k PROVE KnowsWait(k)'
    BY <1>0, <2>1, KnownIsKept DEF WaitIsKept, TypeOK
  <2>2. waitOf # NoJob /\ KnowsWait(k)
    BY JobsAreSome, WaitIsKnown
  <2>. USE <1>0, <2>1, <2>2 DEF TypeOK, KnowsWait, NonTerminal, Created, TerminalJobStates
  <2>3. CASE j # k
    <3>1. /\ type'[k] = type[k] /\ state'[k] = state[k] /\ waiting'[k] = waiting[k] /\ run'[k] = run[k]
          /\ serverWait'[k] = serverWait[k] /\ requests'[k] = requests[k] /\ cancelling' = cancelling
      BY <1>2, <2>3 DEF ExecutorStep, RunBegins, WaitOver, AcquireLock, Obey, Call, Answered, FloodStored,
                  CallPauses, Complete, Reported, RunFails, RunFailed, RunFailureLost, Finished
    <3>. QED  BY <3>1
  <2>4. CASE j = k /\ (RunBegins(j) \/ WaitOver(j))
    <3>1. CASE RunBegins(j)
      BY <2>4, <3>1 DEF RunBegins
    <3>2. CASE WaitOver(j)
      BY <2>4, <3>2 DEF WaitOver
    <3>. QED  BY <2>4, <3>1, <3>2
  <2>5. CASE j = k /\ Obey(j)
    <3>1. run[j] # "flooded" /\ "stop" \notin requests[j]
      BY <2>5 DEF Obey
    <3>2. KnowsWait(j)'
      BY <2>5, <3>1 DEF Obey
    <3>. QED  BY <2>5, <3>2
  <2>6. CASE j = k /\ FloodStored(j)
    <3>1. KnowsWait(j)'
      BY <2>6 DEF FloodStored
    <3>. QED  BY <2>6, <3>1
  <2>7. CASE j = k /\ (Finished(j) \/ Reported(j))
    <3>1. KnowsWait(j)'
      BY <2>7 DEF Finished, Reported
    <3>. QED  BY <2>7, <3>1
  <2>8. CASE j = k /\ (AcquireLock(j) \/ Call(j) \/ Answered(j) \/ CallPauses(j) \/ Complete(j))
    <3>1. run[j] \in AtWork /\ run[j] # "flooded"
      BY <2>8 DEF AcquireLock, Call, Answered, CallPauses, Complete, AtWork, AtCandidate
    <3>. QED  BY <2>2, <2>8, <3>1, NoCallWhileKnown
  <2>9. CASE j = k /\ RunFails(j)
    BY <2>9 DEF RunFails
  <2>10. CASE j = k /\ (RunFailed(j) \/ RunFailureLost(j))
    BY <2>10 DEF RunFailed, RunFailureLost
  <2>. QED  BY <1>2, <2>3, <2>4, <2>5, <2>6, <2>7, <2>8, <2>9, <2>10 DEF ExecutorStep
<1>. QED  BY <1>1, <1>2

(* A flow touches neither the wait nor the action job that knows of it; a  *)
(* FloodWait of its own is not a wait that any job is to know.             *)
LEMMA FlowKeepsWait ==
    ASSUME WaitInv, NEW f \in Flows,
           \/ FlowBegins(f) \/ RequestScan(f) \/ FlowStep(f) \/ \E j \in JobIds : ResumeScan(f, j)
    PROVE  WaitIsKept'
<1>. USE DEF rows, runs, env, flowVars, FlowAt, FlowFor, FlowEnds, SetState, Create
<1>0. TypeOK
  BY DEF WaitInv, AloneInv, AgreeInv
<1>1. CASE FlowFlooded(f)
  BY <1>1 DEF FlowFlooded, WaitIsKept
<1>2. CASE ~FlowFlooded(f)
  <2>1. UNCHANGED <<floodLeft, waitOf, cancelling, run, serverWait>>
    BY <1>2 DEF FlowStep, FlowBegins, RequestScan, ResumeScan, FlowGivesUp, PrecheckBegins, PrecheckDone,
         PlanCreated, ScanCreated, ScanBegins, ScanEnds, EventStored, ScanReported, FlowBreaksOff, FlowFails,
         FlowFailed, FlowFailureLost, FlowDrops
  <2>. SUFFICES ASSUME floodLeft > 0, NEW k \in JobIds, waitOf = k PROVE KnowsWait(k)'
    BY <1>0, <2>1, KnownIsKept DEF WaitIsKept, TypeOK
  <2>2. k \in JobIds /\ KnowsWait(k)
    BY JobsAreSome, WaitIsKnown
  <2>3. /\ type'[k] = type[k] /\ state'[k] = state[k] /\ waiting'[k] = waiting[k]
        /\ requests'[k] = requests[k]
    <3>. USE <1>0, <2>2 DEF TypeOK, KnowsWait, NonTerminal, Created, WaitInv, AloneInv, AgreeInv, FlowHasRow, FlowRow,
                            Prechecking, Scanning, ActionTypes, NoJob
    <3>1. CASE FlowBegins(f) \/ FlowGivesUp(f) \/ EventStored(f) \/ FlowFails(f) \/ \E j \in JobIds : ResumeScan(f, j)
      BY <3>1 DEF FlowBegins, FlowGivesUp, EventStored, FlowFails, ResumeScan
    <3>2. CASE PrecheckBegins(f) \/ PlanCreated(f) \/ ScanCreated(f)
      BY <3>2 DEF PrecheckBegins, PlanCreated, ScanCreated
    <3>3. CASE PrecheckDone(f) \/ ScanBegins(f) \/ ScanEnds(f)
      BY <3>3 DEF PrecheckDone, ScanBegins, ScanEnds
    <3>4. CASE RequestScan(f)
      BY <3>4 DEF RequestScan
    <3>5. CASE ScanReported(f) \/ FlowBreaksOff(f)
      BY <3>5 DEF ScanReported, FlowBreaksOff, FlowDrops
    <3>6. CASE FlowFailed(f) \/ FlowFailureLost(f)
      BY <3>6 DEF FlowFailed, FlowFailureLost, FlowDrops
    <3>. QED  BY <1>2, <3>1, <3>2, <3>3, <3>4, <3>5, <3>6 DEF FlowStep
  <2>4. k \notin cancelling'
    BY <2>1, <2>2 DEF KnowsWait
  <2>. QED  BY <2>1, <2>2, <2>3, <2>4, KnownStays
<1>. QED  BY <1>1, <1>2

(* Time runs alike for Telegram, the schedulers and the rows. *)
LEMMA TimeKeepsWait ==
    ASSUME WaitInv, Tick
    PROVE  WaitIsKept'
<1>. USE DEF rows, runs, env, flowVars
<1>0. TypeOK
  BY DEF WaitInv, AloneInv, AgreeInv
<1>1. waitOf' # NoJob => /\ waitOf \in JobIds /\ waitOf' = waitOf
                         /\ floodLeft > 0 /\ floodLeft' = floodLeft - 1
  BY <1>0 DEF Tick, Down, TypeOK
<1>. SUFFICES ASSUME floodLeft > 0, NEW k \in JobIds, waitOf = k, waitOf' = k PROVE KnowsWait(k)'
  BY <1>1, KnownIsKept DEF WaitIsKept
<1>2. floodLeft' = floodLeft - 1 /\ KnowsWait(k)
  BY <1>1, JobsAreSome, WaitIsKnown
<1>3. UNCHANGED <<type, state, cancelling, run, requests>>
  BY DEF Tick
<1>4. /\ floodLeft <= waiting[k] => floodLeft' <= waiting'[k]
      /\ floodLeft <= serverWait[k] => floodLeft' <= serverWait'[k]
  BY <1>0, <1>2 DEF Tick, Down, TypeOK
<1>. QED  BY <1>2, <1>3, <1>4 DEF KnowsWait, NonTerminal, Created

(* A wait that was stored outlives a crash in its row, and the             *)
(* normalisation of the restart leaves it there.                           *)
LEMMA RestartKeepsWait ==
    ASSUME WaitInv, Crash \/ Restart
    PROVE  WaitIsKept'
<1>. USE DEF rows, runs, env, flowVars
<1>0. TypeOK
  BY DEF WaitInv, AloneInv, AgreeInv
<1>1. floodLeft' = floodLeft /\ waitOf' \in {waitOf, NoJob}
  BY DEF Crash, Restart
<1>. SUFFICES ASSUME floodLeft > 0, NEW k \in JobIds, waitOf = k, waitOf' = k PROVE KnowsWait(k)'
  BY <1>0, <1>1, KnownIsKept DEF WaitIsKept, TypeOK
<1>2. waitOf # NoJob /\ KnowsWait(k)
  BY JobsAreSome, WaitIsKnown
<1>3. CASE Crash
  <2>1. run[k] # "flooded"
    BY <1>2, <1>3 DEF Crash, Executors
  <2>2. run'[k] = "none" /\ requests'[k] = {} /\ cancelling' = {} /\ UNCHANGED rows
    BY <1>3 DEF Crash
  <2>. QED  BY <1>1, <1>2, <2>1, <2>2 DEF KnowsWait, NonTerminal, Created
<1>4. CASE Restart
  <2>1. run[k] = "none" /\ UNCHANGED <<type, cancelling, run, requests, serverWait>>
    BY <1>0, <1>4 DEF Restart, WaitInv, AloneInv, AgreeInv, RunHasRow, Executors
  <2>2. state[k] \in {"PAUSED", "WAITING_SERVER"} /\ floodLeft <= waiting[k]
    BY <1>2, <2>1 DEF KnowsWait
  <2>3. waiting[k] > 0
    BY <1>0, <2>2 DEF TypeOK
  <2>4. type'[k] = type[k] /\ NonTerminal(k)' /\ waiting'[k] = waiting[k] /\ state'[k] \in {"PAUSED", "WAITING_SERVER"}
    BY <1>0, <1>2, <1>4, <2>2, <2>3
       DEF Restart, Normalized, NormalizedWait, Interrupted, KeepsWait, KnowsWait, ActionTypes, TypeOK,
           NonTerminal, Created, TerminalJobStates
  <2>. QED  BY <1>1, <1>2, <2>1, <2>2, <2>4 DEF KnowsWait
<1>. QED  BY <1>3, <1>4

(* A stop request meets a run outside of a call, which no step then takes  *)
(* into one.                                                               *)
LEMMA StopStaysOutside ==
    ASSUME WaitInv, ~Hasty, [Next]_vars
    PROVE  StopFindsNoCall'
<1>. USE DEF rows, runs, env, flowVars, StopFindsNoCall
<1>0. TypeOK /\ StopFindsNoCall
  BY DEF WaitInv, AloneInv, AgreeInv
<1>1. ASSUME NEW j \in JobIds, Command(j) \/ WorkerCancels(j)
      PROVE  StopFindsNoCall'
  <2>1. CASE Launch(j)
    BY <1>0, <2>1 DEF Launch, TypeOK
  <2>2. ASSUME NEW command \in {"stop", "pause"}, Request(j, command)
        PROVE  StopFindsNoCall'
    <3>1. command = "stop" => run[j] \notin {"call", "flooded"}
      BY <2>2 DEF Request
    <3>. QED  BY <1>0, <2>2, <3>1 DEF Request, TypeOK
  <2>3. CASE Cancel(j) \/ WorkerCancels(j)
    BY <1>0, <2>3 DEF Cancel, WorkerCancels
  <2>. QED  BY <1>1, <2>1, <2>2, <2>3 DEF Command
<1>2. ASSUME NEW j \in JobIds, ExecutorStep(j)
      PROVE  StopFindsNoCall'
  <2>. USE <1>0 DEF Move, Leave, TypeOK
  <2>1. CASE RunBegins(j) \/ WaitOver(j) \/ AcquireLock(j) \/ Obey(j)
    BY <2>1 DEF RunBegins, WaitOver, AcquireLock, Obey
  <2>2. CASE Call(j) \/ Answered(j) \/ Flooded(j) \/ FloodStored(j)
    BY <2>2 DEF Call, Answered, Flooded, FloodStored
  <2>3. CASE CallPauses(j) \/ Complete(j) \/ Reported(j) \/ Finished(j)
    BY <2>3 DEF CallPauses, Complete, Reported, Finished
  <2>4. CASE RunFails(j) \/ RunFailed(j) \/ RunFailureLost(j)
    BY <2>4 DEF RunFails, RunFailed, RunFailureLost
  <2>. QED  BY <1>2, <2>1, <2>2, <2>3, <2>4 DEF ExecutorStep
<1>3. ASSUME NEW f \in Flows,
             \/ FlowBegins(f) \/ RequestScan(f) \/ FlowStep(f) \/ \E j \in JobIds : ResumeScan(f, j)
      PROVE  StopFindsNoCall'
  <2>1. UNCHANGED run
    BY <1>3 DEF FlowStep, FlowBegins, RequestScan, ResumeScan, FlowGivesUp, FlowFlooded, PrecheckBegins, PrecheckDone,
         PlanCreated, ScanCreated, ScanBegins, ScanEnds, EventStored, ScanReported, FlowBreaksOff, FlowFails,
         FlowFailed, FlowFailureLost, FlowDrops
  <2>2. requests' = requests \/ \E s : requests' = [requests EXCEPT ![flowJob[f]] = s]
    BY <1>3 DEF FlowStep, FlowBegins, RequestScan, ResumeScan, FlowGivesUp, FlowFlooded, PrecheckBegins, PrecheckDone,
         PlanCreated, ScanCreated, ScanBegins, ScanEnds, EventStored, ScanReported, FlowBreaksOff, FlowFails,
         FlowFailed, FlowFailureLost, FlowDrops
  <2>3. \A j \in JobIds : run[j] # "none" => requests'[j] = requests[j]
    BY <1>0, <2>2, RunOrFlow DEF WaitInv, AloneInv, TypeOK
  <2>. QED  BY <1>0, <2>1, <2>3
<1>4. CASE Tick \/ Crash \/ Restart \/ UNCHANGED vars
  BY <1>0, <1>4 DEF Tick, Crash, Restart, vars
<1>. QED  BY <1>1, <1>2, <1>3, <1>4 DEF Next

(* Every step leaves the wait known to the job that met it. *)
LEMMA StepKeepsWait ==
    ASSUME WaitInv, ~Impatient, ~Hasty, [Next]_vars
    PROVE  WaitIsKept'
<1>1. ASSUME NEW j \in JobIds, Command(j) \/ WorkerCancels(j)
      PROVE  WaitIsKept'
  <2>1. UNCHANGED <<floodLeft, waitOf>>
    BY <1>1 DEF Command, Launch, Request, Cancel, WorkerCancels, env
  <2>2. CASE floodLeft > 0 /\ waitOf # NoJob
    <3>1. PICK k \in JobIds : waitOf = k
      BY <2>2, WaitIsKnown
    <3>. QED  BY <1>1, <2>2, <3>1, CommandKeepsWait
  <2>. QED  BY <2>1, <2>2 DEF WaitIsKept
<1>2. CASE UNCHANGED vars
  BY <1>2 DEF vars, rows, runs, env, WaitInv, WaitIsKept, KnowsWait, NonTerminal, Created
<1>. QED  BY <1>1, <1>2, ExecutorKeepsWait, FlowKeepsWait, TimeKeepsWait, RestartKeepsWait DEF Next

(* A patient user's account has a job that knows of its wait. *)
LEMMA WaitInvariant == ASSUME ~Impatient, ~Hasty, OneFlow PROVE Spec => []WaitInv
<1>1. Init => WaitInv
  <2>. SUFFICES ASSUME Init PROVE WaitInv
    OBVIOUS
  <2>1. AloneInv
    BY InitAlone
  <2>. QED  BY <2>1 DEF Init, WaitInv, StopFindsNoCall, WaitIsKept
<1>2. WaitInv /\ [Next]_vars => WaitInv'
  <2>. SUFFICES ASSUME WaitInv, [Next]_vars PROVE WaitInv'
    OBVIOUS
  <2>1. AloneInv'
    BY StepAlone DEF WaitInv
  <2>2. StopFindsNoCall' /\ WaitIsKept'
    BY StopStaysOutside, StepKeepsWait
  <2>. QED  BY <2>1, <2>2 DEF WaitInv
<1>. QED  BY <1>1, <1>2, PTL DEF Spec

(* The scheduler of a run begins with the wait of the account and lives    *)
(* no longer than its run; the row keeps the wait from one run to the next *)
(* and across a crash.  So no job calls before the end of a wait that an   *)
(* executor has met, unless a write of the job that met it fails or a      *)
(* crash comes before the wait is stored.                                  *)
THEOREM WaitsRespected == ASSUME ~Impatient, ~Hasty, OneFlow PROVE Spec => NoCallDuringServerWait
<1>1. WaitInv /\ [Next]_vars =>
        [\A j \in JobIds : run[j] = "loop" /\ run'[j] = "call" => floodLeft = 0 \/ waitOf = NoJob]_vars
  <2>. SUFFICES ASSUME WaitInv, NEW j \in JobIds, run[j] = "loop", waitOf # NoJob
                PROVE  floodLeft = 0
    OBVIOUS
  <2>1. floodLeft \in Nat
    BY DEF WaitInv, AloneInv, AgreeInv, TypeOK
  <2>. QED  BY <2>1, NoCallWhileKnown DEF AtWork, AtCandidate
<1>. QED  BY <1>1, WaitInvariant, PTL DEF Spec, NoCallDuringServerWait
=============================================================================
