-------------------------- MODULE WorkflowCommands --------------------------
(***************************************************************************)
(* runtime/handlers/workflow.py, data.py and job.py, workflows/            *)
(* coordinator.py and migration/recovery.py: all the jobs of one account,  *)
(* from the commands of the UI thread to the rows of the jobs table.       *)
(*                                                                         *)
(* The handlers check rows on the UI thread; the rows are written later,   *)
(* by coordinator flows and executors on the network loop and by tasks of  *)
(* the worker pool.  The inside of a run is MemberActionExecutor's and the *)
(* inside of a scan ParticipantScanner's; here a run is the few steps that *)
(* touch what the jobs of an account share.  A row is written by awaited   *)
(* critical operations only, so a write is one step; any of them may fail, *)
(* and so may the event that reports it, which is a step of its own where  *)
(* its failure makes a difference.                                         *)
(***************************************************************************)
EXTENDS Integers, FiniteSets, JobStateMachine

CONSTANTS MaxJobs,     \* bound on the ids of the jobs table
          Flows,       \* coordinator coroutines that may run at the same time
          MaxWait,     \* bound on the duration of a FloodWait, in ticks
          MaxFloods,   \* bound on the number of FloodWaits
          MaxCrashes,  \* bound on the number of process crashes
          MaxFaults,   \* bound on the number of jobs a write of which has failed
          Impatient,   \* TRUE: a command may follow one whose write is still queued
          Hasty        \* TRUE: a job may be stopped in a call or in a server wait

ASSUME WorkflowAssumption ==
    /\ MaxJobs \in Nat \ {0} /\ IsFiniteSet(Flows)
    /\ MaxWait \in Nat \ {0} /\ MaxFloods \in Nat /\ MaxCrashes \in Nat /\ MaxFaults \in Nat
    /\ Impatient \in BOOLEAN /\ Hasty \in BOOLEAN

VARIABLES
    type,        \* jobs.job_type ("none": no such row)
    state,       \* jobs.state
    waiting,     \* ticks until jobs.waiting_until (0: NULL or past)
    cancelling,  \* jobs a queued worker task will write CANCELLED to
    run,         \* where the executor of an action job is ("none": not in _executors)
    serverWait,  \* its scheduler's _server_wait_until, in ticks from now
    requests,    \* the events set in an executor or a scan
    lock,        \* the holder of governor.mutation_lock(account_id)
    flow,        \* where each coordinator coroutine is
    flowJob,     \* the job it works for
    up,          \* the process runs
    fault,       \* history: whether a write failed of the coroutine last at work
                 \* for the job, within a try or where no except was left
    floodLeft,   \* ticks until Telegram accepts calls of the account again
    waitOf,      \* history: the job whose executor met this wait, until a write
                 \* of the job fails or a crash comes before the wait is stored
    floods, crashes

rows == <<type, state, waiting>>
runs == <<run, serverWait, requests, lock>>
flowVars == <<flow, flowJob>>
env == <<fault, floodLeft, waitOf, floods, crashes>>
vars == <<rows, cancelling, runs, flowVars, up, env>>

JobIds == 1..MaxJobs
NoJob == 0
ActionTypes == {"ACTION"}   \* MIGRATION and REMOVE, which are handled alike
JobTypes == ActionTypes \cup {"SCAN", "TARGET_SCAN"}
RunLabels == {"none", "submitted", "waiting", "lock", "loop", "call", "flooded",
              "done", "failing", "ended"}
FlowLabels == {"none", "resolve_collect", "resolve_prepare",
               "precheck_created", "precheck", "precheck_done", "precheck_failing", "plan",
               "scan", "scan_started", "scanning", "scan_done", "scan_failing"}

Created(j) == type[j] # "none"
NonTerminal(j) == Created(j) /\ state[j] \notin TerminalJobStates
Executors == {j \in JobIds : run[j] # "none"}

(* A user who is not impatient lets the last command on a job take effect. *)
Settled(j) ==
    Impatient \/ /\ j \notin cancelling
                 /\ run[j] \notin {"submitted", "done", "failing", "ended"}
                 /\ \A f \in Flows : flow[f] = "scan" => flowJob[f] # j

Init ==
    /\ type = [j \in JobIds |-> "none"]
    /\ state = [j \in JobIds |-> "CREATED"]
    /\ waiting = [j \in JobIds |-> 0]
    /\ cancelling = {}
    /\ run = [j \in JobIds |-> "none"] /\ serverWait = [j \in JobIds |-> 0]
    /\ requests = [j \in JobIds |-> {}] /\ lock = NoJob
    /\ flow = [f \in Flows |-> "none"] /\ flowJob = [f \in Flows |-> NoJob]
    /\ up = TRUE
    /\ fault = [j \in JobIds |-> "none"]
    /\ floodLeft = 0 /\ waitOf = NoJob /\ floods = 0 /\ crashes = 0

-----------------------------------------------------------------------------
(* jobs/repository.py. *)

(* submit_set_state: no condition on the old state. *)
SetState(j, new, wait) ==
    /\ state' = [state EXCEPT ![j] = new]
    /\ waiting' = [waiting EXCEPT ![j] = wait]
    /\ UNCHANGED type

(* submit_create: the id is the next one of the table. *)
Create(j, jobType, new) ==
    /\ ~Created(j) /\ \A k \in 1..(j - 1) : Created(k)
    /\ type' = [type EXCEPT ![j] = jobType]
    /\ state' = [state EXCEPT ![j] = new]
    /\ UNCHANGED waiting

(* active_job_for_account: WAITING_SERVER first, then RUNNING, PAUSED and  *)
(* READY, the latest id among equals.                                      *)
Priority(s) == CASE s = "WAITING_SERVER" -> 0 [] s = "RUNNING" -> 1 [] s = "PAUSED" -> 2
                 [] s = "READY" -> 3 [] OTHER -> 4

Before(j, k) == \/ Priority(state[j]) < Priority(state[k])
                \/ Priority(state[j]) = Priority(state[k]) /\ j > k

IsActiveJob(j) == NonTerminal(j) /\ \A k \in JobIds : NonTerminal(k) /\ k # j => Before(j, k)

(* Mutant: only the jobs that were started count. *)
AccountFreeOfStarted == \A j \in JobIds : ~(NonTerminal(j) /\ state[j] # "READY")

AccountFree == \A j \in JobIds : ~NonTerminal(j)

(* Mutant: the wait of a paused job is forgotten. *)
WaitsOfUnpaused == {0} \cup {waiting[j] : j \in {k \in JobIds :
                      Created(k) /\ state[k] \in {"WAITING_SERVER", "RUNNING"}}}

(* account_waiting_until: READY rows are not looked at. *)
Waits == {0} \cup {waiting[j] : j \in {k \in JobIds :
                      Created(k) /\ state[k] \in {"WAITING_SERVER", "PAUSED", "RUNNING"}}}
AccountWait == CHOOSE w \in Waits : \A v \in Waits : v <= w

(* An awaited operation on the row of a job, or on its events, fails and   *)
(* stores nothing.                                                         *)
WriteFails(j, where) ==
    /\ fault[j] = "none" => Cardinality({k \in JobIds : fault[k] # "none"}) < MaxFaults
    /\ fault' = [fault EXCEPT ![j] = where]

(* Telegram refuses a call of the account and names the time to wait. *)
MeetsFlood ==
    /\ floods < MaxFloods
    /\ floods' = floods + 1
    /\ \E w \in 1..MaxWait : floodLeft' = w

-----------------------------------------------------------------------------
(* Commands on action jobs. *)

(* start_action and resume_action up to _run_persisted_action. *)
Launch(j) ==
    /\ up /\ Settled(j)
    /\ run[j] = "none"
    /\ type[j] \in ActionTypes
    /\ state[j] \in {"READY", "PAUSED", "WAITING_SERVER"}
    /\ IsActiveJob(j)
    /\ run' = [run EXCEPT ![j] = "submitted"]
    /\ serverWait' = [serverWait EXCEPT ![j] = AccountWait]
    /\ fault' = [fault EXCEPT ![j] = "none"]
    /\ UNCHANGED <<rows, cancelling, requests, lock, flowVars, up, floodLeft, waitOf, floods, crashes>>

(* pause_action and stop_action with an executor (its events exist once    *)
(* run() has begun).                                                       *)
Request(j, command) ==
    /\ up /\ Settled(j) /\ j \in Executors
    /\ command = "stop" => Hasty \/ (AccountWait = 0 /\ run[j] \notin {"call", "flooded"})
    /\ requests' = IF run[j] = "submitted" THEN requests
                                           ELSE [requests EXCEPT ![j] = @ \cup {command}]
    /\ UNCHANGED <<rows, cancelling, run, serverWait, lock, flowVars, up, env>>

(* Mutant: the executors are not looked at. *)
CancelUnseen(j) ==
    /\ up /\ Settled(j)
    /\ Hasty \/ AccountWait = 0
    /\ \/ type[j] \in ActionTypes /\ state[j] \in {"READY", "PAUSED", "WAITING_SERVER"}
       \/ type[j] = "SCAN" /\ state[j] \in {"READY", "PAUSED"}
    /\ cancelling' = cancelling \cup {j}
    /\ UNCHANGED <<rows, runs, flowVars, up, env>>

(* stop_action without an executor; cancel_prepared_action, which does not *)
(* look at the executors; stop_scan of a scan that is not RUNNING.         *)
Cancel(j) ==
    /\ up /\ Settled(j)
    /\ Hasty \/ AccountWait = 0
    /\ \/ /\ type[j] \in ActionTypes /\ run[j] = "none"
          /\ state[j] \in {"READY", "PAUSED", "WAITING_SERVER"}
       \/ type[j] \in ActionTypes /\ state[j] = "READY"
       \/ type[j] = "SCAN" /\ state[j] \in {"READY", "PAUSED"}
    /\ cancelling' = cancelling \cup {j}
    /\ UNCHANGED <<rows, runs, flowVars, up, env>>

(* cancel_persisted, on a worker thread; its write may fail.  (A worker    *)
(* that gives up after ten seconds leaves its write in the queue.)         *)
WorkerCancels(j) ==
    /\ j \in cancelling
    /\ cancelling' = cancelling \ {j}
    /\ SetState(j, "CANCELLED", 0) \/ (MaxFaults > 0 /\ UNCHANGED rows)
    /\ UNCHANGED <<runs, flowVars, up, env>>

-----------------------------------------------------------------------------
(* An executor, as far as the jobs of the account see it. *)

Move(j, label) == run' = [run EXCEPT ![j] = label]

Release(j) == lock' = IF lock = j THEN NoJob ELSE lock

(* The end of run(): on_finished is still to come. *)
Leave(j) == Move(j, "ended") /\ Release(j)

RunBegins(j) ==
    /\ run[j] = "submitted"
    /\ \/ /\ serverWait[j] > 0
          /\ SetState(j, "WAITING_SERVER", serverWait[j])
          /\ Move(j, "waiting")
       \/ /\ serverWait[j] = 0
          /\ SetState(j, "RUNNING", waiting[j])
          /\ Move(j, "lock")
    /\ UNCHANGED <<cancelling, serverWait, requests, lock, flowVars, up, env>>

(* The wait is over: before the first candidate the lock is still to come, *)
(* at a candidate the executor has kept it.                                *)
WaitOver(j) ==
    /\ run[j] = "waiting" /\ serverWait[j] = 0 /\ requests[j] = {}
    /\ SetState(j, "RUNNING", 0)
    /\ Move(j, IF lock = j THEN "loop" ELSE "lock")
    /\ UNCHANGED <<cancelling, serverWait, requests, lock, flowVars, up, env>>

(* Mutant: no lock between the executors of an account. *)
AcquireLockUnawaited(j) ==
    /\ run[j] = "lock"
    /\ lock' = j
    /\ Move(j, "loop")
    /\ UNCHANGED <<rows, cancelling, serverWait, requests, flowVars, up, env>>

AcquireLock(j) ==
    /\ run[j] = "lock" /\ lock = NoJob
    /\ lock' = j
    /\ Move(j, "loop")
    /\ UNCHANGED <<rows, cancelling, serverWait, requests, flowVars, up, env>>

(* A stop wins over a pause; a pause keeps waiting_until.  The event that  *)
(* reports it is still to be stored.                                       *)
Obey(j) ==
    /\ run[j] \in {"waiting", "loop"} /\ requests[j] # {}
    /\ IF "stop" \in requests[j] THEN SetState(j, "CANCELLED", 0)
                                 ELSE SetState(j, "PAUSED", waiting[j])
    /\ Move(j, "done")
    /\ UNCHANGED <<cancelling, serverWait, requests, lock, flowVars, up, env>>

Call(j) ==
    /\ run[j] = "loop" /\ requests[j] = {} /\ serverWait[j] = 0
    /\ Move(j, "call")
    /\ UNCHANGED <<rows, cancelling, serverWait, requests, lock, flowVars, up, env>>

(* The item is settled, or a transient error is retried. *)
Answered(j) ==
    /\ run[j] = "call"
    /\ Move(j, "loop")
    /\ UNCHANGED <<rows, cancelling, serverWait, requests, lock, flowVars, up, env>>

Flooded(j) ==
    /\ run[j] = "call" /\ MeetsFlood
    /\ waitOf' = j /\ serverWait' = [serverWait EXCEPT ![j] = floodLeft']
    /\ Move(j, "flooded")
    /\ UNCHANGED <<rows, cancelling, requests, lock, flowVars, up, fault, crashes>>

FloodStored(j) ==
    /\ run[j] = "flooded"
    /\ SetState(j, "WAITING_SERVER", serverWait[j])
    /\ Move(j, "waiting")
    /\ UNCHANGED <<cancelling, serverWait, requests, lock, flowVars, up, env>>

(* The error of a call pauses the job: permission, authorization or a      *)
(* restriction without a duration.                                         *)
CallPauses(j) ==
    /\ run[j] = "call"
    /\ SetState(j, "PAUSED", 0)
    /\ Leave(j)
    /\ UNCHANGED <<cancelling, serverWait, requests, flowVars, up, env>>

(* No candidate is left; ACTION_COMPLETED is still to be stored.  Whether  *)
(* some items failed (COMPLETED_WITH_ERRORS) makes no difference here.     *)
Complete(j) ==
    /\ run[j] = "loop" /\ requests[j] = {}
    /\ SetState(j, "COMPLETED", 0)
    /\ Move(j, "done") /\ Release(j)
    /\ UNCHANGED <<cancelling, serverWait, requests, flowVars, up, env>>

Reported(j) ==
    /\ run[j] = "done"
    /\ Leave(j)
    /\ UNCHANGED <<rows, cancelling, serverWait, requests, flowVars, up, env>>

(* A write of the run fails, or a reading: the except path, whatever the   *)
(* row says by then.                                                       *)
RunFails(j) ==
    /\ run[j] \in {"submitted", "waiting", "lock", "loop", "call", "flooded", "done"}
    /\ WriteFails(j, "caught")
    /\ waitOf' = IF waitOf = j THEN NoJob ELSE waitOf
    /\ Move(j, "failing") /\ Release(j)
    /\ UNCHANGED <<rows, cancelling, serverWait, requests, flowVars, up, floodLeft, floods, crashes>>

(* ACTION_FAILED changes nothing more, stored or not. *)
RunFailed(j) ==
    /\ run[j] = "failing"
    /\ SetState(j, "FAILED", 0)
    /\ Leave(j)
    /\ UNCHANGED <<cancelling, serverWait, requests, flowVars, up, env>>

(* The flush of the except path fails, or FAILED itself. *)
RunFailureLost(j) ==
    /\ run[j] = "failing"
    /\ WriteFails(j, "uncaught")
    /\ Leave(j)
    /\ UNCHANGED <<rows, cancelling, serverWait, requests, flowVars, up, floodLeft, waitOf, floods, crashes>>

(* on_finished drops the executor. *)
Finished(j) ==
    /\ run[j] = "ended"
    /\ Move(j, "none")
    /\ serverWait' = [serverWait EXCEPT ![j] = 0]
    /\ requests' = [requests EXCEPT ![j] = {}]
    /\ UNCHANGED <<rows, cancelling, lock, flowVars, up, env>>

-----------------------------------------------------------------------------
(* The flows of the coordinator. *)

FlowAt(f, label) == flow' = [flow EXCEPT ![f] = label]
FlowFor(f, j) == flowJob' = [flowJob EXCEPT ![f] = j]
FlowEnds(f) == FlowAt(f, "none") /\ FlowFor(f, NoJob)

(* workflow_collect and _prepare_action: _ensure_account_free is the only  *)
(* check, and no row says yet that a flow has begun.                       *)
FlowBegins(f) ==
    /\ up /\ flow[f] = "none"
    /\ AccountFree
    /\ \E label \in {"resolve_collect", "resolve_prepare"} : FlowAt(f, label)
    /\ UNCHANGED <<rows, cancelling, runs, flowJob, up, env>>

(* Not signed in, an unknown group or no permission; a plan that fails. *)
FlowGivesUp(f) ==
    /\ flow[f] \in {"resolve_collect", "resolve_prepare", "plan"}
    /\ FlowEnds(f)
    /\ UNCHANGED <<rows, cancelling, runs, up, env>>

(* A FloodWait is an error like any other here: it ends a resolve and makes *)
(* a scan fail, the precheck swallows it and calls the coverage partial.   *)
(* No row and no scheduler is told of the wait.                            *)
FlowFlooded(f) ==
    /\ MeetsFlood /\ waitOf' = NoJob
    /\ \/ flow[f] \in {"resolve_collect", "resolve_prepare"} /\ FlowEnds(f)
       \/ flow[f] = "precheck" /\ UNCHANGED flowVars
       \/ flow[f] = "scanning" /\ FlowAt(f, "scan_failing") /\ UNCHANGED flowJob
    /\ UNCHANGED <<rows, cancelling, runs, up, fault, crashes>>

(* TARGET_PRECHECK_STARTED is still to be stored. *)
PrecheckBegins(f) ==
    /\ flow[f] = "resolve_prepare"
    /\ \E j \in JobIds : Create(j, "TARGET_SCAN", "RUNNING") /\ FlowFor(f, j)
    /\ FlowAt(f, "precheck_created")
    /\ UNCHANGED <<cancelling, runs, up, env>>

(* Whatever the precheck could list; TARGET_PRECHECK_COMPLETED is still to *)
(* be stored.                                                              *)
PrecheckDone(f) ==
    /\ flow[f] = "precheck"
    /\ SetState(flowJob[f], "COMPLETED", waiting[flowJob[f]])
    /\ FlowAt(f, "precheck_done")
    /\ UNCHANGED <<cancelling, runs, flowJob, up, env>>

(* The planner, on a worker thread. *)
PlanCreated(f) ==
    /\ flow[f] = "plan"
    /\ \E j \in JobIds, jobType \in ActionTypes : Create(j, jobType, "READY")
    /\ FlowEnds(f)
    /\ UNCHANGED <<cancelling, runs, up, env>>

ScanCreated(f) ==
    /\ flow[f] = "resolve_collect"
    /\ \E j \in JobIds : Create(j, "SCAN", "READY") /\ FlowFor(f, j)
    /\ FlowAt(f, "scan")
    /\ UNCHANGED <<cancelling, runs, up, env>>

(* resume_scan of a paused scan: another coroutine for the same job. *)
ResumeScan(f, j) ==
    /\ up /\ Settled(j) /\ flow[f] = "none"
    /\ type[j] = "SCAN" /\ state[j] \in {"READY", "PAUSED"}
    /\ Impatient \/ \A g \in Flows : flowJob[g] # j
    /\ FlowAt(f, "scan") /\ FlowFor(f, j)
    /\ fault' = [fault EXCEPT ![j] = "none"]
    /\ UNCHANGED <<rows, cancelling, runs, up, floodLeft, waitOf, floods, crashes>>

(* SCAN_STARTED is still to be stored. *)
ScanBegins(f) ==
    /\ flow[f] = "scan"
    /\ SetState(flowJob[f], "RUNNING", waiting[flowJob[f]])
    /\ FlowAt(f, "scan_started")
    /\ UNCHANGED <<cancelling, runs, flowJob, up, env>>

(* cancel_scan; stop_scan of a RUNNING scan. *)
RequestScan(f) ==
    /\ up /\ flow[f] \in {"scan_started", "scanning"}
    /\ requests' = [requests EXCEPT ![flowJob[f]] = @ \cup {"stop"}]
    /\ UNCHANGED <<rows, cancelling, run, serverWait, lock, flowVars, up, env>>

(* SCAN_COMPLETED or SCAN_CANCELLED is still to be stored. *)
ScanEnds(f) ==
    /\ flow[f] = "scanning"
    /\ \E final \in {"COMPLETED", "CANCELLED"} :
          /\ final = "CANCELLED" => "stop" \in requests[flowJob[f]]
          /\ SetState(flowJob[f], final, waiting[flowJob[f]])
    /\ FlowAt(f, "scan_done")
    /\ UNCHANGED <<cancelling, runs, flowJob, up, env>>

(* The event a coroutine waits for is stored. *)
EventStored(f) ==
    /\ \/ flow[f] = "precheck_created" /\ FlowAt(f, "precheck")
       \/ flow[f] = "precheck_done" /\ FlowAt(f, "plan")
       \/ flow[f] = "scan_started" /\ FlowAt(f, "scanning")
    /\ UNCHANGED <<rows, cancelling, runs, flowJob, up, env>>

(* A coroutine is over, and the request it may have been sent with it. *)
FlowDrops(f) ==
    /\ requests' = [requests EXCEPT ![flowJob[f]] = {}]
    /\ FlowEnds(f)
    /\ UNCHANGED <<cancelling, run, serverWait, lock, up>>

ScanReported(f) ==
    /\ flow[f] = "scan_done"
    /\ FlowDrops(f)
    /\ UNCHANGED <<rows, env>>

(* RUNNING or a STARTED event fails outside of the try: the coroutine ends *)
(* and the row stays as it is.                                             *)
FlowBreaksOff(f) ==
    /\ flow[f] \in {"precheck_created", "scan", "scan_started"}
    /\ WriteFails(flowJob[f], "uncaught")
    /\ FlowDrops(f)
    /\ UNCHANGED <<rows, floodLeft, waitOf, floods, crashes>>

(* Within the try: the final state or the event after it fails, or a page, *)
(* an ingestion or a checkpoint of a scan.                                 *)
FlowFails(f) ==
    /\ \/ /\ flow[f] \in {"precheck", "precheck_done"}
          /\ WriteFails(flowJob[f], "caught") /\ FlowAt(f, "precheck_failing")
       \/ /\ flow[f] = "scan_done"
          /\ WriteFails(flowJob[f], "caught") /\ FlowAt(f, "scan_failing")
       \/ flow[f] = "scanning" /\ UNCHANGED fault /\ FlowAt(f, "scan_failing")
    /\ UNCHANGED <<rows, cancelling, runs, flowJob, up, floodLeft, waitOf, floods, crashes>>

FlowFailed(f) ==
    /\ flow[f] \in {"precheck_failing", "scan_failing"}
    /\ SetState(flowJob[f], "FAILED", waiting[flowJob[f]])
    /\ FlowDrops(f)
    /\ UNCHANGED env

FlowFailureLost(f) ==
    /\ flow[f] \in {"precheck_failing", "scan_failing"}
    /\ WriteFails(flowJob[f], "uncaught")
    /\ FlowDrops(f)
    /\ UNCHANGED <<rows, floodLeft, waitOf, floods, crashes>>

-----------------------------------------------------------------------------
(* Time, crashes and restarts. *)

Down(t) == IF t > 0 THEN t - 1 ELSE 0

Tick ==
    /\ floodLeft > 0 \/ \E j \in JobIds : serverWait[j] > 0 \/ waiting[j] > 0
    /\ floodLeft' = Down(floodLeft)
    /\ serverWait' = [j \in JobIds |-> Down(serverWait[j])]
    /\ waiting' = [j \in JobIds |-> Down(waiting[j])]
    /\ waitOf' = IF floodLeft' = 0 THEN NoJob ELSE waitOf
    /\ UNCHANGED <<type, state, cancelling, run, requests, lock, flowVars, up, fault, floods, crashes>>

(* Executors, flows and queued tasks die with the process. *)
Crash ==
    /\ up /\ crashes < MaxCrashes
    /\ crashes' = crashes + 1
    /\ up' = FALSE
    /\ cancelling' = {}
    /\ run' = [j \in JobIds |-> "none"] /\ serverWait' = [j \in JobIds |-> 0]
    /\ requests' = [j \in JobIds |-> {}] /\ lock' = NoJob
    /\ flow' = [f \in Flows |-> "none"] /\ flowJob' = [f \in Flows |-> NoJob]
    /\ fault' = [j \in JobIds |-> "none"]
    /\ waitOf' = IF waitOf \in Executors /\ run[waitOf] = "flooded" THEN NoJob ELSE waitOf
    /\ UNCHANGED <<rows, floodLeft, floods>>

(* normalize_after_restart, before the window opens: what it makes of one  *)
(* row.                                                                    *)
Interrupted(j) == Created(j) /\ state[j] \in {"RUNNING", "WAITING_SERVER", "PAUSED"}
KeepsWait(j) == type[j] \in ActionTypes /\ state[j] = "WAITING_SERVER" /\ waiting[j] > 0

(* Mutant: the scan of a target is paused like any job. *)
NormalizedAlike(j) == IF ~Interrupted(j) \/ KeepsWait(j) THEN state[j] ELSE "PAUSED"

Normalized(j) ==
    IF ~Interrupted(j) \/ KeepsWait(j) THEN state[j]
    ELSE IF type[j] = "TARGET_SCAN" THEN "CANCELLED"
    ELSE "PAUSED"

NormalizedWait(j) ==
    IF Interrupted(j) /\ ~KeepsWait(j) /\ (type[j] = "TARGET_SCAN" \/ state[j] = "WAITING_SERVER")
      THEN 0 ELSE waiting[j]

Restart ==
    /\ ~up
    /\ up' = TRUE
    /\ state' = [j \in JobIds |-> Normalized(j)]
    /\ waiting' = [j \in JobIds |-> NormalizedWait(j)]
    /\ UNCHANGED <<type, cancelling, runs, flowVars, env>>

-----------------------------------------------------------------------------
Command(j) == Launch(j) \/ Request(j, "stop") \/ Request(j, "pause") \/ Cancel(j)

ExecutorStep(j) ==
    \/ RunBegins(j) \/ WaitOver(j) \/ AcquireLock(j) \/ Obey(j) \/ Call(j) \/ Answered(j)
    \/ Flooded(j) \/ FloodStored(j) \/ CallPauses(j) \/ Complete(j) \/ Reported(j)
    \/ RunFails(j) \/ RunFailed(j) \/ RunFailureLost(j) \/ Finished(j)

FlowStep(f) ==
    \/ FlowGivesUp(f) \/ FlowFlooded(f) \/ PrecheckBegins(f) \/ PrecheckDone(f) \/ PlanCreated(f)
    \/ ScanCreated(f) \/ ScanBegins(f) \/ ScanEnds(f) \/ EventStored(f) \/ ScanReported(f)
    \/ FlowBreaksOff(f) \/ FlowFails(f) \/ FlowFailed(f) \/ FlowFailureLost(f)

Next ==
    \/ \E j \in JobIds : Command(j) \/ ExecutorStep(j) \/ WorkerCancels(j)
    \/ \E f \in Flows : \/ FlowBegins(f) \/ RequestScan(f) \/ FlowStep(f)
                        \/ \E j \in JobIds : ResumeScan(f, j)
    \/ Tick \/ Crash \/ Restart

Spec == Init /\ [][Next]_vars

-----------------------------------------------------------------------------
TypeOK ==
    /\ type \in [JobIds -> JobTypes \cup {"none"}]
    /\ state \in [JobIds -> JobStates]
    /\ waiting \in [JobIds -> Nat]
    /\ cancelling \subseteq JobIds
    /\ run \in [JobIds -> RunLabels]
    /\ serverWait \in [JobIds -> Nat]
    /\ requests \in [JobIds -> SUBSET {"stop", "pause"}]
    /\ lock \in JobIds \cup {NoJob}
    /\ flow \in [Flows -> FlowLabels]
    /\ flowJob \in [Flows -> JobIds \cup {NoJob}]
    /\ up \in BOOLEAN
    /\ fault \in [JobIds -> {"none", "caught", "uncaught"}]
    /\ floodLeft \in Nat /\ waitOf \in JobIds \cup {NoJob}
    /\ floods \in Nat /\ crashes \in Nat

(* The account is refused a second job while it has an unfinished one      *)
(* (_ensure_account_free), whatever command came first.                    *)
OneActionJob == Cardinality({j \in JobIds : type[j] \in ActionTypes /\ NonTerminal(j)}) <= 1

(* An account has at most one executor at work, although each job has its  *)
(* own and the handlers check rows that do not yet show what was launched. *)
(* (One that has stored its last state or is to store FAILED may linger.)  *)
OneExecutor == Cardinality({j \in Executors : run[j] \notin {"done", "failing", "ended"}}) <= 1

(* The account has one of each at most: an unfinished action job, and an   *)
(* executor at work.                                                       *)
OneOfEach == TypeOK /\ OneActionJob /\ OneExecutor

(* At most one candidate of the account is in a call, even where a user    *)
(* brings two executors about.                                             *)
OneCall == Cardinality({j \in JobIds : run[j] = "call"}) <= 1

(* No job blocks its account for ever: while the process runs, a job that  *)
(* is not terminal is worked on or can be stopped by a command.  The one   *)
(* exception is the coroutine whose write failed where no except is left,  *)
(* on STARTED or on FAILED itself, and a restart ends it: what fails       *)
(* within a try strands nothing.                                           *)
InProgress(j) == j \in Executors \/ j \in cancelling \/ \E f \in Flows : flowJob[f] = j
Stoppable(j) ==
    \/ type[j] \in ActionTypes /\ state[j] \in {"READY", "PAUSED", "WAITING_SERVER"}
    \/ type[j] = "SCAN" /\ state[j] \in {"READY", "PAUSED"}
NoJobIsStuck ==
    up => \A j \in JobIds :
             NonTerminal(j) /\ fault[j] # "uncaught" => InProgress(j) \/ Stoppable(j)

(* A terminal job stays as it is, whatever its type: what was already on   *)
(* its way, a worker's CANCELLED, the end of a run, the coroutine of a     *)
(* scan, neither takes it up again nor tells its end anew.  Only the       *)
(* coroutine that stored the end says FAILED after all, when the event     *)
(* that reports the end fails.                                             *)
TerminalIsFinal ==
    [][\A j \in JobIds : state[j] \in TerminalJobStates =>
          state'[j] = state[j] \/ (state'[j] = "FAILED" /\ fault[j] = "caught")]_vars

(* No call of an action job is sent before the end of a wait that an       *)
(* executor of the account has met, this job's or another's, across pause, *)
(* resumption, crash and restart; unless a write of the job that met it    *)
(* fails, or a crash comes before the wait is stored.  A wait met by a     *)
(* precheck, a scan or a resolve is forgotten, and nothing is said of it.  *)
NoCallDuringServerWait ==
    [][\A j \in JobIds :
          run[j] = "loop" /\ run'[j] = "call" => floodLeft = 0 \/ waitOf = NoJob]_vars
=============================================================================
