------------------------ MODULE MemberActionExecutor ------------------------
(***************************************************************************)
(* migration/executor.py: one invite/remove job, from the commands of the  *)
(* UI thread through MemberActionExecutor.run on the network loop to the   *)
(* rows that jobs/repository.py writes, with crashes and the recovery of   *)
(* migration/recovery.py.  migration/candidate_buffer.py feeds the run,    *)
(* ErrorPolicy says what an exception of a call means for it.              *)
(*                                                                         *)
(* The actors are the user (commands), the executor coroutine, its delayed *)
(* flush task, the worker threads (one reads candidates ahead, one cancels *)
(* an idle job), the SQLite writer and Telegram.  An action of the         *)
(* executor is what it does between two awaits.  An awaited critical write *)
(* first applies the routine writes queued before it (CriticalIsBarrier of *)
(* DBWriter), so it is one step here; a routine write of the delayed flush *)
(* is `inflight' until the writer gets to it.  Telegram's waits are        *)
(* countdowns in Ticks.                                                    *)
(***************************************************************************)
EXTENDS Integers, FiniteSets, JobStateMachine, ErrorPolicy

CONSTANTS Items,        \* the ordinals of the plan
          Unusable,     \* items whose member has no id or no access hash
          FlushBatch,   \* MIGRATION_DB_BATCH_SIZE
          ChunkSize,    \* CandidateBuffer.chunk_size
          LowWatermark, \* CandidateBuffer.low_watermark
          Errors,       \* the exceptions a call may end with; waits are in ticks
          Restrictions, \* those that, by the documents, pause the job
          MaxFloods,    \* bound on the number of FloodWaits
          MaxCrashes,   \* bound on the number of process crashes
          MaxFaults,    \* bound on the number of failing writes
          Impatient     \* TRUE: the user may resume while a cancellation is queued

ASSUME ExecutorAssumption ==
    /\ Items \subseteq Nat \ {0} /\ IsFiniteSet(Items)
    /\ Unusable \subseteq Items
    /\ FlushBatch \in Nat \ {0} /\ ChunkSize \in Nat \ {0} /\ LowWatermark \in Nat
    /\ Errors \subseteq Exceptions /\ Restrictions \subseteq Errors
    /\ MaxFloods \in Nat /\ MaxCrashes \in Nat /\ MaxFaults \in Nat
    /\ Impatient \in BOOLEAN

VARIABLES
    \* the database
    jobState,    \* jobs.state
    waitingUntil,\* ticks until jobs.waiting_until (0: NULL or past)
    counter,     \* jobs.success, jobs.skipped, jobs.failed (processed is their sum)
    itemState,   \* migration_items.state
    account,     \* accounts.state
    \* the writer and the worker pool
    inflight,    \* results queued by the delayed flush, not committed yet
    cancelling,  \* a worker task that will write CANCELLED is queued
    loading,     \* CandidateBuffer._loading: "none", "queued", or done: "read", "failed"
    chunk,       \* the rows a done read has returned
    \* the executor
    pc,          \* where the coroutine is
    after,       \* where it continues after a flush or an event write
    cand,        \* the candidate at hand (0: none)
    pos,         \* history: the ordinal popped last from the candidate buffer
    failures,    \* transient_failures of the candidate
    authError,   \* the error that pauses the candidate is AUTH
    restricted,  \* history: a call of this run met a restriction
    final,       \* the state the ending run is about to write
    buffer,      \* self._result_buffer
    flushTimer,  \* self._flush_task sleeps (it writes while inflight # Nothing)
    serverWait,  \* the scheduler's _server_wait_until, in ticks from now
    queue,       \* CandidateBuffer.queue, which is in the order of the ordinals
    lastLoaded,  \* CandidateBuffer.last_loaded (0: nothing yet)
    exhausted,   \* CandidateBuffer._exhausted
    stopEvent,   \* self._stop_event.is_set()
    pauseEvent,  \* self._pause_event.is_set()
    \* Telegram and the environment
    floodLeft,   \* ticks until Telegram accepts calls again
    floods, crashes, faults,
    answers      \* history: definitive results obtained for each item

jobRow == <<jobState, waitingUntil>>
itemRows == <<counter, itemState>>
dbVars == <<jobRow, itemRows, account>>
queued == <<inflight, cancelling>>
control == <<pc, after>>
verdict == <<authError, restricted>>
runVars == <<cand, pos, failures, verdict, final>>
window == <<loading, chunk, queue, lastLoaded, exhausted>>
memory == <<buffer, flushTimer, serverWait, window>>
events == <<stopEvent, pauseEvent>>
budgets == <<floods, crashes, faults>>
envVars == <<floodLeft, budgets, answers>>
vars == <<jobState, waitingUntil, counter, itemState, account, inflight, cancelling,
          loading, chunk, pc, after, cand, pos, failures, authError, restricted, final,
          buffer, flushTimer, serverWait, queue, lastLoaded, exhausted, stopEvent, pauseEvent,
          floodLeft, floods, crashes, faults, answers>>

Results == {"SUCCESS", "SKIPPED", "FAILED"}       \* TERMINAL_ITEM_STATES
ItemStates == Results \cup {"READY", "RETRY"}
NoResult == "none"
Nothing == [i \in Items |-> NoResult]             \* an empty result buffer
NoItem == 0

Labels == {"idle", "down", "begin", "event", "initial_wait", "prime", "fill", "pop", "loop",
           "schedule", "rpc",
           "backoff", "flush", "flood_retry", "flood_state", "flood_wait", "pause_retry",
           "pause_account", "pause_state", "control_state", "finish", "final_state",
           "except_state"}

Held(results) == {i \in Items : results[i] # NoResult}
Open(i) == itemState[i] \notin Results
Running == pc \notin {"idle", "down"}

Init ==
    /\ jobState = "READY" /\ waitingUntil = 0
    /\ counter = [r \in Results |-> 0]
    /\ itemState = [i \in Items |-> "READY"]
    /\ account = "READY"
    /\ inflight = Nothing /\ cancelling = FALSE
    /\ pc = "idle" /\ after = "idle"
    /\ cand = NoItem /\ pos = 0 /\ failures = 0 /\ final = "COMPLETED"
    /\ authError = FALSE /\ restricted = FALSE
    /\ buffer = Nothing /\ flushTimer = FALSE /\ serverWait = 0
    /\ loading = "none" /\ chunk = {} /\ queue = {} /\ lastLoaded = 0 /\ exhausted = FALSE
    /\ stopEvent = FALSE /\ pauseEvent = FALSE
    /\ floodLeft = 0 /\ floods = 0 /\ crashes = 0 /\ faults = 0
    /\ answers = [i \in Items |-> 0]

-----------------------------------------------------------------------------
(* The writes of the repository. *)

(* submit_update_items_batch: an item that is already terminal is skipped, *)
(* every other one counts.                                                 *)
Fresh(results) == {i \in Held(results) : Open(i)}

Applied(results) ==
    [i \in Items |-> IF i \in Fresh(results) THEN results[i] ELSE itemState[i]]

Counted(results) ==
    [r \in Results |-> counter[r] + Cardinality({i \in Fresh(results) : results[i] = r})]

ApplyResults(results) ==
    /\ itemState' = Applied(results)
    /\ counter' = Counted(results)
    /\ inflight' = Nothing

(* What the queue holds, then what the executor puts behind it. *)
Behind(first, second) ==
    [i \in Items |-> IF first[i] # NoResult THEN first[i] ELSE second[i]]

(* An awaited critical write finds the queued routine write applied. *)
Barrier == ApplyResults(inflight)

(* Mutant of MarkRetry: the UPDATE forgets the ordinal. *)
MarkRetryAll(i) ==
    /\ itemState' = [j \in Items |-> "RETRY"]
    /\ counter' = Counted(inflight)
    /\ inflight' = Nothing

(* submit_mark_retry, behind the barrier; it has no condition on the state.*)
MarkRetry(i) ==
    /\ itemState' = [Applied(inflight) EXCEPT ![i] = "RETRY"]
    /\ counter' = Counted(inflight)
    /\ inflight' = Nothing

(* submit_set_state: no condition on the old state; waiting_until is       *)
(* cleared, replaced or kept.                                              *)
SetJobState(state, waiting) == jobState' = state /\ waitingUntil' = waiting

-----------------------------------------------------------------------------
(* Commands. *)

(* _run_persisted_action: a new executor whose scheduler is told of the    *)
(* wait persisted for the account (account_waiting_until skips READY jobs).*)
Launch ==
    /\ pc = "idle"
    /\ Impatient \/ ~cancelling
    /\ pc' = "begin"
    /\ serverWait' = IF jobState = "READY" THEN 0 ELSE waitingUntil
    /\ UNCHANGED <<dbVars, queued, after, runVars, buffer, flushTimer, window, events, envVars>>

StartAction == jobState = "READY" /\ Launch

ResumeAction == jobState \in {"READY", "PAUSED", "WAITING_SERVER"} /\ Launch

(* A request that reaches the executor before run() has created its events *)
(* is accepted and lost: it changes nothing, and is no step here.          *)
PauseAction ==
    /\ Running /\ pc # "begin"
    /\ pauseEvent' = TRUE
    /\ UNCHANGED <<dbVars, queued, control, runVars, memory, stopEvent, envVars>>

(* stop_action with an executor; before that it is lost as a pause is. *)
StopRunning ==
    /\ Running /\ pc # "begin"
    /\ stopEvent' = TRUE
    /\ UNCHANGED <<dbVars, queued, control, runVars, memory, pauseEvent, envVars>>

(* Mutant of StopIdle: the state of the job is not checked. *)
StopIdleUnchecked ==
    /\ pc = "idle" /\ ~cancelling
    /\ cancelling' = TRUE
    /\ UNCHANGED <<dbVars, inflight, control, runVars, memory, events, envVars>>

(* stop_action and cancel_prepared_action without an executor: the state   *)
(* is checked here, on the UI thread, and written later by a worker.       *)
StopIdle ==
    /\ pc = "idle" /\ ~cancelling
    /\ jobState \in {"READY", "PAUSED", "WAITING_SERVER"}
    /\ cancelling' = TRUE
    /\ UNCHANGED <<dbVars, inflight, control, runVars, memory, events, envVars>>

WorkerCancels ==
    /\ cancelling
    /\ cancelling' = FALSE
    /\ Barrier
    /\ SetJobState("CANCELLED", 0)
    /\ UNCHANGED <<account, control, runVars, memory, events, envVars>>

-----------------------------------------------------------------------------
(* The executor: steps shared by several paths. *)

Goto(label) == pc' = label /\ UNCHANGED after

(* _flush_results(force=True) with `results' in the buffer: the buffer is  *)
(* swapped out at once; there is nothing to await when it is empty.        *)
FlushThen(results, label) ==
    \/ results # Nothing /\ pc' = "flush" /\ after' = label
    \/ results = Nothing /\ Goto(label)

FlushResults ==
    /\ pc = "flush"
    /\ ApplyResults(Behind(inflight, buffer))
    /\ buffer' = Nothing
    /\ pc' = after /\ after' = "idle"
    /\ UNCHANGED <<jobRow, account, cancelling, runVars, flushTimer, serverWait, window, events,
                   envVars>>

(* The end of run(): its finally clause cancels the delayed flush, and     *)
(* on_finished drops the executor with its scheduler and its buffers; a    *)
(* read under way ends for nobody.                                         *)
ForgetRun ==
    /\ after' = "idle"
    /\ cand' = NoItem /\ pos' = 0 /\ failures' = 0 /\ final' = "COMPLETED"
    /\ authError' = FALSE /\ restricted' = FALSE
    /\ buffer' = Nothing /\ flushTimer' = FALSE /\ serverWait' = 0
    /\ loading' = "none" /\ chunk' = {} /\ queue' = {} /\ lastLoaded' = 0 /\ exhausted' = FALSE
    /\ stopEvent' = FALSE /\ pauseEvent' = FALSE

EndRun == pc' = "idle" /\ ForgetRun

EventThen(label) == pc' = "event" /\ after' = label

(* submit_event(critical=True). *)
EventWritten ==
    /\ pc = "event"
    /\ Barrier
    /\ \/ /\ after = "idle"
          /\ EndRun
       \/ /\ after # "idle"
          /\ pc' = after /\ after' = "idle"
          /\ UNCHANGED <<runVars, memory, events>>
    /\ UNCHANGED <<jobRow, account, cancelling, envVars>>

Controlled == stopEvent \/ pauseEvent

(* Mutant of HandleControl: the buffer is not flushed. *)
HandleControlUnflushed ==
    /\ pc \in {"initial_wait", "loop", "schedule", "backoff", "flood_wait"}
    /\ Controlled
    /\ Goto("control_state")
    /\ final' = IF stopEvent THEN "CANCELLED" ELSE "PAUSED"
    /\ UNCHANGED <<dbVars, queued, cand, pos, failures, verdict, memory, events, envVars>>

(* Mutant of HandleControl: the server wait is an uncontrolled sleep. *)
HandleControlAwake ==
    /\ pc \in {"loop", "schedule", "backoff"}
    /\ Controlled
    /\ FlushThen(buffer, "control_state")
    /\ final' = IF stopEvent THEN "CANCELLED" ELSE "PAUSED"
    /\ UNCHANGED <<dbVars, queued, cand, pos, failures, verdict, memory, events, envVars>>

(* _handle_control, entered from a sleep or from the top of the loop; a    *)
(* stop wins over a pause, and what arrives during the flush is not seen.  *)
HandleControl ==
    /\ pc \in {"initial_wait", "loop", "schedule", "backoff", "flood_wait"}
    /\ Controlled
    /\ FlushThen(buffer, "control_state")
    /\ final' = IF stopEvent THEN "CANCELLED" ELSE "PAUSED"
    /\ UNCHANGED <<dbVars, queued, cand, pos, failures, verdict, memory, events, envVars>>

(* A pause of the user keeps waiting_until, a stop clears it. *)
ControlState ==
    /\ pc = "control_state"
    /\ Barrier
    /\ SetJobState(final, IF final = "CANCELLED" THEN 0 ELSE waitingUntil)
    /\ EventThen("idle")
    /\ UNCHANGED <<account, cancelling, runVars, memory, events, envVars>>

(* Mutant of BackToRunning: the job stays WAITING_SERVER. *)
BackToRunningUnseen ==
    /\ pc \in {"initial_wait", "flood_wait"}
    /\ ~Controlled /\ serverWait = 0
    /\ Barrier
    /\ SetJobState(jobState, 0)
    /\ Goto(IF pc = "initial_wait" THEN "prime" ELSE "schedule")
    /\ UNCHANGED <<account, cancelling, runVars, memory, events, envVars>>

(* A server wait has ended, before the first candidate or at one. *)
BackToRunning ==
    /\ pc \in {"initial_wait", "flood_wait"}
    /\ ~Controlled /\ serverWait = 0
    /\ Barrier
    /\ SetJobState("RUNNING", 0)
    /\ Goto(IF pc = "initial_wait" THEN "prime" ELSE "schedule")
    /\ UNCHANGED <<account, cancelling, runVars, memory, events, envVars>>

-----------------------------------------------------------------------------
(* The executor: run and _attempt_candidate. *)

Begin ==
    /\ pc = "begin"
    /\ Barrier
    /\ \/ /\ serverWait > 0
          /\ SetJobState("WAITING_SERVER", serverWait)
          /\ EventThen("initial_wait")
       \/ /\ serverWait = 0
          /\ SetJobState("RUNNING", waitingUntil)
          /\ EventThen("prime")
    /\ UNCHANGED <<account, cancelling, runVars, memory, events, envVars>>

(* CandidateBuffer: _submit_fill unless a read is under way or nothing is  *)
(* left ...                                                                *)
CanFill == loading = "none" /\ ~exhausted

(* ... and the await of _finish_fill. *)
AwaitFill(label) ==
    /\ loading' = IF CanFill THEN "queued" ELSE loading
    /\ pc' = "fill" /\ after' = label

(* prime, before the mutation lock is taken. *)
Prime ==
    /\ pc = "prime"
    /\ AwaitFill("loop")
    /\ UNCHANGED <<dbVars, queued, runVars, buffer, flushTimer, serverWait, chunk, queue,
                   lastLoaded, exhausted, events, envVars>>

(* Mutant of Chunk: a candidate marked RETRY is not loaded again. *)
ChunkOfReady ==
    LET left == {i \in Items : i > lastLoaded /\ itemState[i] = "READY"}
    IN  {i \in left : Cardinality({j \in left : j <= i}) <= ChunkSize}

(* pending_chunk: the first open items beyond the last one loaded. *)
Chunk ==
    LET left == {i \in Items : i > lastLoaded /\ itemState[i] \in {"READY", "RETRY"}}
    IN  {i \in left : Cardinality({j \in left : j <= i}) <= ChunkSize}

(* A worker thread reads, while the run goes on. *)
ReadChunk ==
    /\ loading = "queued"
    /\ loading' = "read" /\ chunk' = Chunk
    /\ UNCHANGED <<dbVars, queued, control, runVars, buffer, flushTimer, serverWait, queue,
                   lastLoaded, exhausted, events, envVars>>

(* Mutant of FilledTo: the next read starts where this one did. *)
FilledToStart(rows) == lastLoaded

FilledTo(rows) == CHOOSE i \in rows : \A j \in rows : j <= i

(* _finish_fill after its await: no rows means that there are no more. *)
Filled ==
    /\ pc = "fill" /\ loading = "read"
    /\ loading' = "none" /\ chunk' = {}
    /\ \/ /\ chunk = {} /\ exhausted' = TRUE
          /\ UNCHANGED <<queue, lastLoaded>>
       \/ /\ chunk # {} /\ queue' = queue \cup chunk /\ lastLoaded' = FilledTo(chunk)
          /\ UNCHANGED exhausted
    /\ pc' = after /\ after' = "idle"
    /\ UNCHANGED <<dbVars, queued, runVars, buffer, flushTimer, serverWait, events, envVars>>

(* A result joins the buffer; _flush_results(force=False) writes it at the *)
(* batch size or when the last flush is a second old, else the delayed     *)
(* flush is scheduled unless one is under way.                             *)
AppendResult(i, result) ==
    /\ buffer' = [buffer EXCEPT ![i] = result]
    /\ answers' = [answers EXCEPT ![i] = @ + 1]
    /\ cand' = NoItem /\ failures' = 0
    /\ \/ /\ pc' = "flush" /\ after' = "loop"
          /\ UNCHANGED flushTimer
       \/ /\ Cardinality(Held(buffer')) < FlushBatch
          /\ Goto("loop")
          /\ flushTimer' = (flushTimer \/ inflight = Nothing)

(* run continues with the next candidate of the buffer. *)
Take(i) ==
    /\ pos' = i
    /\ queue' = queue \ {i}
    /\ loading' = IF Cardinality(queue') <= LowWatermark /\ CanFill THEN "queued" ELSE loading
    /\ \/ /\ i \in Unusable
          /\ AppendResult(i, "FAILED")
       \/ /\ i \notin Unusable
          /\ cand' = i
          /\ Goto("schedule")
          /\ UNCHANGED <<failures, buffer, flushTimer, answers>>

(* pop: the first of the window; the events are looked at before pop, not  *)
(* after its await.                                                        *)
PopCandidate ==
    /\ pc = "pop" \/ (pc = "loop" /\ ~Controlled)
    /\ \E i \in queue :
          /\ \A j \in queue : i <= j
          /\ Take(i)
    /\ UNCHANGED <<dbVars, queued, verdict, final, serverWait, chunk, lastLoaded, exhausted,
                   events, floodLeft, budgets>>

(* pop on an empty window awaits the read under way, or a new one. *)
PopWaits ==
    /\ pc = "loop" /\ ~Controlled
    /\ queue = {} /\ ~exhausted
    /\ AwaitFill("pop")
    /\ UNCHANGED <<dbVars, queued, runVars, buffer, flushTimer, serverWait, chunk, queue,
                   lastLoaded, exhausted, events, envVars>>

BufferExhausted ==
    /\ pc = "pop" \/ (pc = "loop" /\ ~Controlled /\ exhausted)
    /\ queue = {}
    /\ FlushThen(buffer, "finish")
    /\ UNCHANGED <<dbVars, queued, runVars, memory, events, envVars>>

(* The scheduler's delay is over: the RPC is sent. *)
Attempt ==
    /\ pc = "schedule"
    /\ ~Controlled /\ serverWait = 0
    /\ Goto("rpc")
    /\ UNCHANGED <<dbVars, queued, runVars, memory, events, envVars>>

(* The exception a call ends with joins the history. *)
Heard(x) == restricted' = (restricted \/ x \in Restrictions)

(* The guard behind ErrorMapper: a limit without a duration pauses too. *)
Pauses(x) == PausesJob(Map(x)) \/ (Map(x) = "RATE_LIMIT" /\ x.wait = 0)

(* The answer settles the candidate: success, or an error that is neither  *)
(* retried nor a reason to pause.                                          *)
RpcSettles ==
    /\ pc = "rpc"
    /\ \/ AppendResult(cand, "SUCCESS") /\ UNCHANGED restricted
       \/ \E x \in Errors :
             /\ ~Pauses(x) /\ ~Transient(Map(x)) /\ Map(x) # "RATE_LIMIT"
             /\ AppendResult(cand, ItemStateOf(Map(x)))
             /\ Heard(x)
    /\ UNCHANGED <<dbVars, queued, pos, authError, final, serverWait, window, events, floodLeft,
                   budgets>>

(* Mutant of RpcFloods: apply_server_wait is not called. *)
RpcFloodsUnheard ==
    /\ pc = "rpc" /\ floods < MaxFloods
    /\ floods' = floods + 1
    /\ \E x \in Errors :
          /\ Map(x) = "RATE_LIMIT" /\ ~Pauses(x)
          /\ floodLeft' = x.wait
          /\ Heard(x)
    /\ FlushThen(buffer, "flood_retry")
    /\ UNCHANGED <<dbVars, queued, cand, pos, failures, authError, final, memory, events,
                   crashes, faults, answers>>

(* RATE_LIMIT with a duration: apply_server_wait takes the later end. *)
RpcFloods ==
    /\ pc = "rpc" /\ floods < MaxFloods
    /\ floods' = floods + 1
    /\ \E x \in Errors :
          /\ Map(x) = "RATE_LIMIT" /\ ~Pauses(x)
          /\ floodLeft' = x.wait
          /\ serverWait' = IF x.wait > serverWait THEN x.wait ELSE serverWait
          /\ Heard(x)
    /\ FlushThen(buffer, "flood_retry")
    /\ UNCHANGED <<dbVars, queued, cand, pos, failures, authError, final, buffer, flushTimer,
                   window, events, crashes, faults, answers>>

FloodRetry ==
    /\ pc = "flood_retry"
    /\ MarkRetry(cand)
    /\ Goto("flood_state")
    /\ UNCHANGED <<jobRow, account, cancelling, runVars, memory, events, envVars>>

FloodState ==
    /\ pc = "flood_state"
    /\ Barrier
    /\ SetJobState("WAITING_SERVER", serverWait)
    /\ EventThen("flood_wait")
    /\ UNCHANGED <<account, cancelling, runVars, memory, events, envVars>>

(* Mutant of RpcTransient: the failures are not counted. *)
RpcTransientUncounted ==
    /\ pc = "rpc"
    /\ \E x \in Errors : Transient(Map(x)) /\ Heard(x)
    /\ Goto("backoff")
    /\ UNCHANGED <<dbVars, queued, cand, pos, failures, authError, final, memory, events, envVars>>

(* NETWORK_TRANSIENT or SERVER_TRANSIENT, the RPC timeout included. *)
RpcTransient ==
    /\ pc = "rpc"
    /\ \E x \in Errors : Transient(Map(x)) /\ Heard(x)
    /\ failures' = failures + 1
    /\ Goto("backoff")
    /\ UNCHANGED <<dbVars, queued, cand, pos, authError, final, memory, events, envVars>>

(* After 1 s and 2 s the candidate is tried again, after 4 s it has failed.*)
BackoffOver ==
    /\ pc = "backoff" /\ ~Controlled
    /\ \/ /\ failures < 3
          /\ Goto("schedule")
          /\ UNCHANGED <<cand, failures, buffer, flushTimer, answers>>
       \/ /\ failures >= 3
          /\ AppendResult(cand, "FAILED")
    /\ UNCHANGED <<dbVars, queued, pos, verdict, final, serverWait, window, events, floodLeft, budgets>>

(* PERMISSION, AUTH or a limit without a duration: _pause_current_candidate.*)
RpcPauses ==
    /\ pc = "rpc"
    /\ \E x \in Errors :
          /\ Pauses(x)
          /\ authError' = (Map(x) = "AUTH")
          /\ Heard(x)
    /\ FlushThen(buffer, "pause_retry")
    /\ UNCHANGED <<dbVars, queued, cand, pos, failures, final, memory, events, envVars>>

PauseRetry ==
    /\ pc = "pause_retry"
    /\ MarkRetry(cand)
    /\ EventThen(IF authError THEN "pause_account" ELSE "pause_state")
    /\ UNCHANGED <<jobRow, account, cancelling, runVars, memory, events, envVars>>

PauseAccount ==
    /\ pc = "pause_account"
    /\ Barrier
    /\ account' = "AUTH_REQUIRED"
    /\ Goto("pause_state")
    /\ UNCHANGED <<jobRow, cancelling, runVars, memory, events, envVars>>

PauseState ==
    /\ pc = "pause_state"
    /\ Barrier
    /\ SetJobState("PAUSED", 0)
    /\ EndRun
    /\ UNCHANGED <<account, cancelling, envVars>>

(* The summary is read from the database as soon as the forced flush has   *)
(* returned: what the delayed flush still has in flight is not in it.      *)
Finish ==
    /\ pc = "finish"
    /\ final' = IF counter["FAILED"] > 0 THEN "COMPLETED_WITH_ERRORS" ELSE "COMPLETED"
    /\ Goto("final_state")
    /\ UNCHANGED <<dbVars, queued, cand, pos, failures, verdict, memory, events, envVars>>

FinalState ==
    /\ pc = "final_state"
    /\ Barrier
    /\ SetJobState(final, 0)
    /\ EventThen("idle")
    /\ UNCHANGED <<account, cancelling, runVars, memory, events, envVars>>

-----------------------------------------------------------------------------
(* Failing writes: `except Exception' flushes and writes FAILED.  A write  *)
(* that fails inside the handler ends the run with the job as it is.       *)

Failing == faults < MaxFaults /\ faults' = faults + 1

Handling == pc = "except_state" \/ (pc = "flush" /\ after = "except_state")

Raise(results) ==
    \/ /\ Handling
       /\ EndRun
    \/ /\ ~Handling
       /\ FlushThen(results, "except_state")
       /\ buffer' = results
       /\ UNCHANGED <<runVars, flushTimer, serverWait, window, events>>

(* The routine batch the executor awaits is rolled back, alone or together *)
(* with the one of the delayed flush.                                      *)
FlushFails ==
    /\ pc = "flush" /\ Failing
    /\ Barrier \/ (inflight' = Nothing /\ UNCHANGED itemRows)
    /\ Raise(Nothing)
    /\ UNCHANGED <<jobRow, account, cancelling, floodLeft, floods, crashes, answers>>

CriticalFails ==
    /\ \/ pc \in {"begin", "event", "control_state", "flood_retry", "flood_state",
                  "pause_retry", "pause_account", "pause_state", "final_state",
                  "except_state"}
       \/ pc \in {"initial_wait", "flood_wait"} /\ ~Controlled /\ serverWait = 0
    /\ Failing
    /\ Barrier
    /\ Raise(buffer)
    /\ UNCHANGED <<jobRow, account, cancelling, floodLeft, floods, crashes, answers>>

(* A read of the candidates that fails does so when it is awaited. *)
ReadFails ==
    /\ loading = "queued" /\ Failing
    /\ loading' = "failed"
    /\ UNCHANGED <<dbVars, queued, control, runVars, buffer, flushTimer, serverWait, chunk, queue,
                   lastLoaded, exhausted, events, floodLeft, floods, crashes, answers>>

FillFails ==
    /\ pc = "fill" /\ loading = "failed"
    /\ Raise(buffer)
    /\ UNCHANGED <<dbVars, queued, envVars>>

(* ACTION_FAILED changes neither row nor items, and the run ends whether   *)
(* it is stored or not: it is not waited for here.                         *)
ExceptState ==
    /\ pc = "except_state"
    /\ Barrier
    /\ SetJobState("FAILED", 0)
    /\ EndRun
    /\ UNCHANGED <<account, cancelling, envVars>>

-----------------------------------------------------------------------------
(* The delayed flush task and the writer. *)

(* Mutant of DelayedFlush: the buffer is swapped out and never submitted. *)
DelayedFlushLoses ==
    /\ flushTimer /\ inflight = Nothing
    /\ flushTimer' = FALSE
    /\ UNCHANGED inflight
    /\ buffer' = IF pc = "flush" THEN buffer ELSE Nothing
    /\ UNCHANGED <<dbVars, cancelling, control, runVars, serverWait, window, events, envVars>>

(* The timer fires; while the executor awaits its own flush the buffer is  *)
(* already swapped out.                                                    *)
DelayedFlush ==
    /\ flushTimer /\ inflight = Nothing
    /\ flushTimer' = FALSE
    /\ IF pc = "flush"
         THEN UNCHANGED <<inflight, buffer>>
         ELSE inflight' = buffer /\ buffer' = Nothing
    /\ UNCHANGED <<dbVars, cancelling, control, runVars, serverWait, window, events, envVars>>

CommitRoutine ==
    /\ inflight # Nothing
    /\ Barrier
    /\ UNCHANGED <<jobRow, account, cancelling, control, runVars, memory, events, envVars>>

(* Mutant of RoutineFails: the items are updated outside the transaction   *)
(* of the counters.                                                        *)
RoutineFailsHalf ==
    /\ inflight # Nothing /\ Failing
    /\ inflight' = Nothing
    /\ itemState' = Applied(inflight)
    /\ UNCHANGED <<jobRow, counter, account, cancelling, control, runVars, memory, events,
                   floodLeft, floods, crashes, answers>>

(* The exception ends in the delayed task, which nobody awaits. *)
RoutineFails ==
    /\ inflight # Nothing /\ Failing
    /\ inflight' = Nothing
    /\ UNCHANGED <<dbVars, cancelling, control, runVars, memory, events,
                   floodLeft, floods, crashes, answers>>

-----------------------------------------------------------------------------
(* Time, crashes and restarts. *)

Down(t) == IF t > 0 THEN t - 1 ELSE 0

Tick ==
    /\ serverWait > 0 \/ waitingUntil > 0 \/ floodLeft > 0
    /\ serverWait' = Down(serverWait)
    /\ waitingUntil' = Down(waitingUntil)
    /\ floodLeft' = Down(floodLeft)
    /\ UNCHANGED <<jobState, itemRows, account, queued, control, runVars, buffer, flushTimer,
                   window, events, budgets, answers>>

(* Queued writes and tasks die with the process.  An orderly quit is a     *)
(* PauseAction (prepare_shutdown), the writer's commits, then this.        *)
Crash ==
    /\ pc # "down" /\ crashes < MaxCrashes
    /\ crashes' = crashes + 1
    /\ pc' = "down" /\ ForgetRun
    /\ inflight' = Nothing /\ cancelling' = FALSE
    /\ UNCHANGED <<dbVars, floodLeft, floods, faults, answers>>

(* RecoveryService.normalize_after_restart on an action job. *)
Recover ==
    /\ pc = "down"
    /\ Goto("idle")
    /\ LET kept == jobState = "WAITING_SERVER" /\ waitingUntil > 0
       IN  IF jobState \in {"RUNNING", "WAITING_SERVER"} /\ ~kept
             THEN SetJobState("PAUSED", IF jobState = "WAITING_SERVER" THEN 0 ELSE waitingUntil)
             ELSE UNCHANGED jobRow
    /\ UNCHANGED <<itemRows, account, queued, runVars, memory, events, envVars>>

-----------------------------------------------------------------------------
ExecutorStep ==
    \/ Begin \/ EventWritten \/ FlushResults \/ HandleControl \/ ControlState
    \/ BackToRunning \/ Prime \/ Filled \/ FillFails
    \/ PopCandidate \/ PopWaits \/ BufferExhausted \/ Attempt
    \/ RpcSettles \/ RpcFloods \/ FloodRetry \/ FloodState
    \/ RpcTransient \/ BackoffOver
    \/ RpcPauses \/ PauseRetry \/ PauseAccount \/ PauseState
    \/ Finish \/ FinalState
    \/ FlushFails \/ CriticalFails \/ ExceptState

Command == StartAction \/ ResumeAction \/ PauseAction \/ StopRunning \/ StopIdle

Next ==
    \/ ExecutorStep
    \/ Command
    \/ WorkerCancels \/ ReadChunk \/ ReadFails
    \/ DelayedFlush \/ CommitRoutine \/ RoutineFails
    \/ Tick \/ Crash \/ Recover

Spec == Init /\ [][Next]_vars

(* The writer, the worker and the timer threads run, and a write that the  *)
(* executor has sent returns; the user owes nothing, nor does the process  *)
(* owe a crash or a restart.                                               *)
Fairness ==
    /\ WF_vars(DelayedFlush) /\ WF_vars(CommitRoutine) /\ WF_vars(WorkerCancels)
    /\ WF_vars(FlushResults) /\ WF_vars(ReadChunk)

FairSpec == Spec /\ Fairness

(* The executor goes on: a call returns by its 30 s watchdog.              *)
CallsReturn == WF_vars(ExecutorStep)

(* Time passes, so waits end. *)
TimePasses == WF_vars(Tick)

-----------------------------------------------------------------------------
ResultBuffers == [Items -> Results \cup {NoResult}]

TypeOK ==
    /\ jobState \in JobStates /\ waitingUntil \in Nat
    /\ counter \in [Results -> Nat]
    /\ itemState \in [Items -> ItemStates]
    /\ account \in {"READY", "AUTH_REQUIRED"}
    /\ inflight \in ResultBuffers /\ cancelling \in BOOLEAN
    /\ pc \in Labels /\ after \in Labels
    /\ cand \in Items \cup {NoItem} /\ pos \in Items \cup {0}
    /\ failures \in Nat /\ final \in JobStates
    /\ authError \in BOOLEAN /\ restricted \in BOOLEAN
    /\ buffer \in ResultBuffers /\ flushTimer \in BOOLEAN /\ serverWait \in Nat
    /\ loading \in {"none", "queued", "read", "failed"} /\ chunk \subseteq Items
    /\ queue \subseteq Items /\ lastLoaded \in Items \cup {0} /\ exhausted \in BOOLEAN
    /\ stopEvent \in BOOLEAN /\ pauseEvent \in BOOLEAN
    /\ floodLeft \in Nat /\ floods \in Nat /\ crashes \in Nat /\ faults \in Nat
    /\ answers \in [Items -> Nat]

(* The counters of the job row are the numbers of items in each terminal   *)
(* state, whatever was flushed twice, lost, failed or interrupted: they    *)
(* are incremented by deltas in the transaction that changes the items.    *)
CountersMatchItems ==
    \A r \in Results : counter[r] = Cardinality({i \in Items : itemState[i] = r})

(* An exception that the documents name as a reason to pause (a limit      *)
(* without a duration, a missing permission, a session that ended) is the  *)
(* last thing the run hears from Telegram: however the classes overlap, no *)
(* further call is sent and, unless a write or a read fails, the run ends  *)
(* with the job PAUSED and the candidate in RETRY.                         *)
RestrictionsPause ==
    [][restricted =>
          /\ pc = "schedule" => pc' # "rpc"
          /\ pc' = "idle" /\ faults' = 0 => /\ jobState' = "PAUSED"
                                            /\ itemState'[cand] = "RETRY"]_vars

(* Nothing but the user, Telegram and time has interfered so far. *)
Undisturbed == crashes = 0 /\ faults = 0

(* The result of an item is never revised: neither a later batch nor the   *)
(* unconditional UPDATE of submit_mark_retry reopens it.                   *)
ResultsAreFinal ==
    [][\A i \in Items : ~Open(i) => itemState'[i] = itemState[i]]_vars

(* A call is sent only for an item without a stored result and while the   *)
(* database shows the job RUNNING: what the user sees is what happens.     *)
CallsAreJustified ==
    [][pc = "schedule" /\ pc' = "rpc" => Open(cand) /\ jobState = "RUNNING"]_vars

(* No call is sent while the database holds an unexpired waiting_until of  *)
(* the job, whatever crashed or was resumed in between, nor before the end *)
(* of the wait Telegram imposed, as long as no crash or failing write kept *)
(* that wait out of the database.                                          *)
NoCallDuringServerWait ==
    [][pc = "schedule" /\ pc' = "rpc"
          => waitingUntil = 0 /\ (Undisturbed => floodLeft = 0)]_vars

(* A member is settled once, and once more at most for each crash or       *)
(* failed write: only results in the buffer or in flight can be lost.      *)
SettledOncePerLoss == \A i \in Items : answers[i] <= 1 + crashes + faults

(* However a run ends without a crash or a failed write (completion, user  *)
(* pause or stop, pause by an error), every result it obtained is stored.  *)
NoResultLeftBehind ==
    pc = "idle" /\ Undisturbed => \A i \in Items : answers[i] > 0 => ~Open(i)

(* The job is shown complete only when every candidate has a result, if no *)
(* write failed: a failing delayed flush is only logged.                   *)
CompletedIsComplete ==
    jobState \in {"COMPLETED", "COMPLETED_WITH_ERRORS"} /\ faults = 0
        => \A i \in Items : ~Open(i)

(* "Completed" means without failures, "completed with errors" means with. *)
CompletedHasNoFailures == jobState = "COMPLETED" => counter["FAILED"] = 0

(* Job states follow jobs/state_machine.py, which lets no terminal state   *)
(* be left, but for a launch that finds a server wait to respect and for   *)
(* the FAILED of a run whose first or last writes fail.                    *)
RowFollowsStateMachine ==
    [][\/ ValidTransition(jobState, jobState')
       \/ pc = "except_state" /\ (jobState \in TerminalJobStates => faults > 0)
       \/ pc = "begin" /\ jobState = "PAUSED" /\ jobState' = "WAITING_SERVER"]_vars

(* Every run ends: by itself, by a stop, a pause or an error.              *)
RunEnds == CallsReturn /\ TimePasses => (Running ~> ~Running)

(* A stop or a pause is obeyed even in a server wait whose end never       *)
(* comes: the sleep polls the events.                                      *)
RequestIsObeyed == CallsReturn => ((stopEvent \/ pauseEvent) ~> ~Running)

(* Once the delayed flush is scheduled, what is buffered reaches the       *)
(* database although the executor may hang in its next call.               *)
ScheduledFlushSuffices ==
    \A i \in Items : (flushTimer /\ buffer[i] # NoResult) ~> ~Open(i)
=============================================================================
