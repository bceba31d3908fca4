------------------------- MODULE ParticipantScanner -------------------------
(***************************************************************************)
(* telegram/participant_scanner.py: one collect job and the coroutines     *)
(* that scan for it.  A producer fetches pages of the participants, a      *)
(* bounded queue carries them, a consumer removes duplicates and persists  *)
(* batches; a task group cancels one when the other fails.                 *)
(*                                                                         *)
(* The list of participants does not change while it is scanned, and each  *)
(* has a Telegram id, so no member is invalid.  Writes are awaited: a      *)
(* write is one step, and happens even when its waiter is cancelled.        *)
(***************************************************************************)
EXTENDS Integers, Sequences, SequencesExt, FiniteSets, JobStateMachine

CONSTANTS Participants,    \* what Telegram lists, in order, with repetitions
          PageLimit,       \* SCAN_PAGE_LIMIT
          QueueMax,        \* SCAN_PAGE_QUEUE_MAX
          BatchSize,       \* SCAN_DB_BATCH_SIZE
          Scans,           \* coroutines that may scan for the job at one time
          MaxCrashes,      \* bound on the number of process crashes
          MaxRpcFaults,    \* bound on the number of failing page requests
          MaxWriteFaults   \* bound on the number of failing writes

ASSUME ScannerAssumption ==
    /\ Participants \in Seq(Range(Participants))
    /\ PageLimit \in Nat \ {0} /\ QueueMax \in Nat \ {0} /\ BatchSize \in Nat \ {0}
    /\ MaxCrashes \in Nat /\ MaxRpcFaults \in Nat /\ MaxWriteFaults \in Nat

VARIABLES
    jobState,     \* jobs.state
    checkpoint,   \* jobs.checkpoint_json
    dataset,      \* the members of the job's dataset
    cancelling,   \* a queued worker task will write CANCELLED
    registered,   \* whose event _cancel_events holds
    scan,         \* the local state of each coroutine
    up,           \* the process runs
    crashes, rpcFaults, writeFaults

rows == <<jobState, checkpoint, dataset>>
faults == <<rpcFaults, writeFaults>>
vars == <<rows, cancelling, registered, scan, up, crashes, faults>>

NoScan == "none"
Sentinel == 0

(* Where a coroutine is; its producer and its consumer run while it is at  *)
(* "group".                                                                *)
ScanLabels == {"none", "submitted", "running_state", "started_event", "group", "completed",
               "cancelled", "event", "failed", "failed_event"}
ProducerLabels == {"fetch", "put", "sentinel", "failing", "done", "failed", "cancelled"}
ConsumerLabels == {"get", "ingest", "checkpoint", "done", "failed", "cancelled"}
Ended == {"done", "failed", "cancelled"}

(* The members of the pages between two offsets. *)
Listed(from, to) == {Participants[i] : i \in (from + 1)..to}

Fresh(cp) ==
    [at |-> "none", cancel |-> FALSE,
     offset |-> cp.offset, accepted |-> cp.accepted,    \* the ScanCheckpoint
     producer |-> "fetch", fetched |-> cp.offset, queue |-> <<>>,
     consumer |-> "get", batch |-> {}, batchOffset |-> cp.offset, seen |-> {}, drained |-> FALSE]

Idle == Fresh([offset |-> 0, accepted |-> 0])

Init ==
    /\ jobState = "READY"
    /\ checkpoint = [offset |-> 0, accepted |-> 0]
    /\ dataset = {}
    /\ cancelling = FALSE /\ registered = NoScan
    /\ scan = [s \in Scans |-> Idle]
    /\ up = TRUE
    /\ crashes = 0 /\ rpcFaults = 0 /\ writeFaults = 0

At(s, label) == scan[s].at = label
InGroup(s) == At(s, "group")

-----------------------------------------------------------------------------
(* Commands. *)

(* resume_scan, or the coordinator with a new job: the row is read here,   *)
(* the coroutine begins later.                                             *)
ResumeScan(s) ==
    /\ up /\ At(s, "none")
    /\ jobState \in {"READY", "PAUSED"}
    /\ scan' = [scan EXCEPT ![s] = [Fresh(checkpoint) EXCEPT !.at = "submitted"]]
    /\ UNCHANGED <<rows, cancelling, registered, up, crashes, faults>>

(* cancel_scan, and stop_scan of a RUNNING job. *)
CancelScan ==
    /\ up /\ registered # NoScan
    /\ scan' = [scan EXCEPT ![registered].cancel = TRUE]
    /\ UNCHANGED <<rows, cancelling, registered, up, crashes, faults>>

(* stop_scan of any other. *)
StopIdle ==
    /\ up /\ ~cancelling
    /\ jobState \in {"READY", "PAUSED"}
    /\ cancelling' = TRUE
    /\ UNCHANGED <<rows, registered, scan, up, crashes, faults>>

WorkerCancels ==
    /\ cancelling
    /\ cancelling' = FALSE
    /\ jobState' = "CANCELLED"
    /\ UNCHANGED <<checkpoint, dataset, registered, scan, up, crashes, faults>>

-----------------------------------------------------------------------------
(* scan() up to the task group. *)

Goto(s, label) == scan' = [scan EXCEPT ![s].at = label]

Begin(s) ==
    /\ At(s, "submitted")
    /\ registered' = s
    /\ Goto(s, "running_state")
    /\ UNCHANGED <<rows, cancelling, up, crashes, faults>>

(* The checkpoint that the coroutine was given is written back. *)
RunningState(s) ==
    /\ At(s, "running_state")
    /\ jobState' = "RUNNING"
    /\ checkpoint' = [offset |-> scan[s].offset, accepted |-> scan[s].accepted]
    /\ Goto(s, "started_event")
    /\ UNCHANGED <<dataset, cancelling, registered, up, crashes, faults>>

StartedEvent(s) ==
    /\ At(s, "started_event")
    /\ Goto(s, "group")
    /\ UNCHANGED <<rows, cancelling, registered, up, crashes, faults>>

Fault == writeFaults < MaxWriteFaults /\ writeFaults' = writeFaults + 1

(* Neither write is inside the try: nothing unregisters the event.         *)
StartFails(s) ==
    /\ At(s, "running_state") \/ At(s, "started_event")
    /\ Fault
    /\ scan' = [scan EXCEPT ![s] = Idle]
    /\ UNCHANGED <<rows, cancelling, registered, up, crashes, rpcFaults>>

-----------------------------------------------------------------------------
(* The producer. *)

Producer(s, label) == InGroup(s) /\ scan[s].producer = label
ProducerTo(s, label) == scan' = [scan EXCEPT ![s].producer = label]
HasRoom(s) == Len(scan[s].queue) < QueueMax

Fetch(s) ==
    /\ Producer(s, "fetch")
    /\ scan[s].fetched < Len(Participants) /\ ~scan[s].cancel
    /\ LET left == Len(Participants) - scan[s].fetched
           size == IF left < PageLimit THEN left ELSE PageLimit
       IN  scan' = [scan EXCEPT ![s].fetched = @ + size, ![s].producer = "put"]
    /\ UNCHANGED <<rows, cancelling, registered, up, crashes, faults>>

Put(s) ==
    /\ Producer(s, "put") /\ HasRoom(s)
    /\ scan' = [scan EXCEPT ![s].queue = Append(@, scan[s].fetched), ![s].producer = "fetch"]
    /\ UNCHANGED <<rows, cancelling, registered, up, crashes, faults>>

(* An empty page, or the scan was cancelled. *)
FetchEnds(s) ==
    /\ Producer(s, "fetch")
    /\ scan[s].fetched = Len(Participants) \/ scan[s].cancel
    /\ ProducerTo(s, "sentinel")
    /\ UNCHANGED <<rows, cancelling, registered, up, crashes, faults>>

FetchFails(s) ==
    /\ Producer(s, "fetch") /\ rpcFaults < MaxRpcFaults
    /\ rpcFaults' = rpcFaults + 1
    /\ ProducerTo(s, "failing")
    /\ UNCHANGED <<rows, cancelling, registered, up, crashes, writeFaults>>

(* The finally clause. *)
PutSentinel(s) ==
    /\ Producer(s, "sentinel") \/ Producer(s, "failing")
    /\ HasRoom(s)
    /\ scan' = [scan EXCEPT ![s].queue = Append(@, Sentinel),
                            ![s].producer = IF @ = "sentinel" THEN "done" ELSE "failed"]
    /\ UNCHANGED <<rows, cancelling, registered, up, crashes, faults>>

-----------------------------------------------------------------------------
(* The consumer. *)

Consumer(s, label) == InGroup(s) /\ scan[s].consumer = label
ConsumerTo(s, label) == scan' = [scan EXCEPT ![s].consumer = label]

(* A page joins the batch without what was seen in this scan. *)
ConsumePage(s) ==
    /\ Consumer(s, "get") /\ scan[s].queue # <<>> /\ Head(scan[s].queue) # Sentinel
    /\ LET page  == Listed(scan[s].batchOffset, Head(scan[s].queue))
           batch == scan[s].batch \cup (page \ scan[s].seen)
       IN  scan' = [scan EXCEPT ![s].queue = Tail(@), ![s].batchOffset = Head(scan[s].queue),
                                ![s].seen = @ \cup page, ![s].batch = batch,
                                ![s].consumer = IF Cardinality(batch) >= BatchSize
                                                  THEN "ingest" ELSE "get"]
    /\ UNCHANGED <<rows, cancelling, registered, up, crashes, faults>>

(* An empty batch is not persisted. *)
ConsumeSentinel(s) ==
    /\ Consumer(s, "get") /\ scan[s].queue # <<>> /\ Head(scan[s].queue) = Sentinel
    /\ scan' = [scan EXCEPT ![s].queue = Tail(@), ![s].drained = TRUE,
                            ![s].consumer = IF scan[s].batch = {} THEN "done" ELSE "ingest"]
    /\ UNCHANGED <<rows, cancelling, registered, up, crashes, faults>>

(* Mutant: the offset is the one the producer has come to. *)
IngestAhead(s) ==
    /\ Consumer(s, "ingest")
    /\ dataset' = dataset \cup scan[s].batch
    /\ scan' = [scan EXCEPT ![s].accepted = @ + Cardinality(scan[s].batch \ dataset),
                            ![s].offset = scan[s].fetched, ![s].consumer = "checkpoint"]
    /\ UNCHANGED <<jobState, checkpoint, cancelling, registered, up, crashes, faults>>

(* submit_ingest_batch: members that the dataset has are not accepted.     *)
Ingest(s) ==
    /\ Consumer(s, "ingest")
    /\ dataset' = dataset \cup scan[s].batch
    /\ scan' = [scan EXCEPT ![s].accepted = @ + Cardinality(scan[s].batch \ dataset),
                            ![s].offset = scan[s].batchOffset, ![s].consumer = "checkpoint"]
    /\ UNCHANGED <<jobState, checkpoint, cancelling, registered, up, crashes, faults>>

Checkpoint(s) ==
    /\ Consumer(s, "checkpoint")
    /\ checkpoint' = [offset |-> scan[s].offset, accepted |-> scan[s].accepted]
    /\ scan' = [scan EXCEPT ![s].batch = {},
                            ![s].consumer = IF scan[s].drained THEN "done" ELSE "get"]
    /\ UNCHANGED <<jobState, dataset, cancelling, registered, up, crashes, faults>>

PersistFails(s) ==
    /\ Consumer(s, "ingest") \/ Consumer(s, "checkpoint")
    /\ Fault
    /\ ConsumerTo(s, "failed")
    /\ UNCHANGED <<rows, cancelling, registered, up, crashes, rpcFaults>>

-----------------------------------------------------------------------------
(* The task group. *)

(* Mutant: a cancelled producer puts its sentinel all the same. *)
CancelProducerPuts(s) ==
    /\ Consumer(s, "failed") /\ scan[s].producer \notin Ended
    /\ scan[s].producer # "failing"
    /\ ProducerTo(s, "failing")
    /\ UNCHANGED <<rows, cancelling, registered, up, crashes, faults>>

(* The consumer failed: a producer at work is cancelled, and puts no       *)
(* sentinel where nobody reads.                                            *)
CancelProducer(s) ==
    /\ Consumer(s, "failed") /\ scan[s].producer \notin Ended
    /\ ProducerTo(s, "cancelled")
    /\ UNCHANGED <<rows, cancelling, registered, up, crashes, faults>>

(* The producer failed: the consumer is cancelled where it waits.  One     *)
(* that was woken runs first; a write it has submitted still happens.      *)
CancelConsumer(s) ==
    /\ Producer(s, "failed") /\ scan[s].consumer \notin Ended
    /\ scan[s].consumer = "get" => scan[s].queue = <<>>
    /\ ConsumerTo(s, "cancelled")
    /\ dataset' = IF scan[s].consumer = "ingest" THEN dataset \cup scan[s].batch ELSE dataset
    /\ checkpoint' = IF scan[s].consumer = "checkpoint"
                       THEN [offset |-> scan[s].offset, accepted |-> scan[s].accepted]
                       ELSE checkpoint
    /\ UNCHANGED <<jobState, cancelling, registered, up, crashes, faults>>

(* Mutant: the cancellation is not looked at. *)
GroupEndsDeaf(s) ==
    /\ InGroup(s) /\ {scan[s].producer, scan[s].consumer} \subseteq Ended
    /\ Goto(s, IF "failed" \in {scan[s].producer, scan[s].consumer} THEN "failed"
               ELSE "completed")
    /\ UNCHANGED <<rows, cancelling, registered, up, crashes, faults>>

GroupEnds(s) ==
    /\ InGroup(s) /\ {scan[s].producer, scan[s].consumer} \subseteq Ended
    /\ Goto(s, IF "failed" \in {scan[s].producer, scan[s].consumer} THEN "failed"
               ELSE IF scan[s].cancel THEN "cancelled" ELSE "completed")
    /\ UNCHANGED <<rows, cancelling, registered, up, crashes, faults>>

-----------------------------------------------------------------------------
(* The end of scan(). *)

FinalState(s) ==
    /\ At(s, "completed") \/ At(s, "cancelled")
    /\ jobState' = IF At(s, "completed") THEN "COMPLETED" ELSE "CANCELLED"
    /\ checkpoint' = [offset |-> scan[s].offset, accepted |-> scan[s].accepted]
    /\ Goto(s, "event")
    /\ UNCHANGED <<dataset, cancelling, registered, up, crashes, faults>>

FailedState(s) ==
    /\ At(s, "failed")
    /\ jobState' = "FAILED"
    /\ checkpoint' = [offset |-> scan[s].offset, accepted |-> scan[s].accepted]
    /\ Goto(s, "failed_event")
    /\ UNCHANGED <<dataset, cancelling, registered, up, crashes, faults>>

(* The finally clause pops the job's event, whosever it is. *)
Leave(s) == scan' = [scan EXCEPT ![s] = Idle] /\ registered' = NoScan

LastEvent(s) ==
    /\ At(s, "event") \/ At(s, "failed_event")
    /\ Leave(s)
    /\ UNCHANGED <<rows, cancelling, up, crashes, faults>>

(* A failing write inside the try becomes FAILED, one inside the except    *)
(* clause ends the coroutine with the job as it is.                        *)
EndFails(s) ==
    /\ Fault
    /\ \/ /\ At(s, "completed") \/ At(s, "cancelled") \/ At(s, "event")
          /\ Goto(s, "failed") /\ UNCHANGED registered
       \/ /\ At(s, "failed") \/ At(s, "failed_event")
          /\ Leave(s)
    /\ UNCHANGED <<rows, cancelling, up, crashes, rpcFaults>>

-----------------------------------------------------------------------------
(* A quit cancels the coroutines without a write, like a crash. *)
Crash ==
    /\ up /\ crashes < MaxCrashes
    /\ crashes' = crashes + 1
    /\ up' = FALSE
    /\ cancelling' = FALSE /\ registered' = NoScan
    /\ scan' = [s \in Scans |-> Idle]
    /\ UNCHANGED <<rows, faults>>

(* Mutant: an interrupted scan is still RUNNING. *)
RestartAsIs ==
    /\ ~up
    /\ up' = TRUE
    /\ UNCHANGED <<rows, cancelling, registered, scan, crashes, faults>>

(* normalize_after_restart. *)
Restart ==
    /\ ~up
    /\ up' = TRUE
    /\ jobState' = IF jobState = "RUNNING" THEN "PAUSED" ELSE jobState
    /\ UNCHANGED <<checkpoint, dataset, cancelling, registered, scan, crashes, faults>>

ScanStep(s) ==
    \/ Begin(s) \/ RunningState(s) \/ StartedEvent(s) \/ StartFails(s)
    \/ Fetch(s) \/ Put(s) \/ FetchEnds(s) \/ FetchFails(s) \/ PutSentinel(s)
    \/ ConsumePage(s) \/ ConsumeSentinel(s) \/ Ingest(s) \/ Checkpoint(s) \/ PersistFails(s)
    \/ CancelProducer(s) \/ CancelConsumer(s) \/ GroupEnds(s)
    \/ FinalState(s) \/ FailedState(s) \/ LastEvent(s) \/ EndFails(s)

Next ==
    \/ \E s \in Scans : ResumeScan(s) \/ ScanStep(s)
    \/ CancelScan \/ StopIdle \/ WorkerCancels
    \/ Crash \/ Restart

Spec == Init /\ [][Next]_vars

(* The loop runs what is ready, Telegram answers and the writer returns;   *)
(* nobody has to give a command, to crash or to restart.                   *)
FairSpec == Spec /\ \A s \in Scans : WF_vars(ScanStep(s))

-----------------------------------------------------------------------------
Checkpoints == [offset : 0..Len(Participants), accepted : Nat]

TypeOK ==
    /\ jobState \in JobStates
    /\ checkpoint \in Checkpoints
    /\ dataset \subseteq Range(Participants)
    /\ cancelling \in BOOLEAN /\ up \in BOOLEAN
    /\ registered \in Scans \cup {NoScan}
    /\ \A s \in Scans :
          /\ scan[s].at \in ScanLabels /\ scan[s].cancel \in BOOLEAN
          /\ scan[s].offset \in 0..Len(Participants) /\ scan[s].accepted \in Nat
          /\ scan[s].producer \in ProducerLabels
          /\ scan[s].fetched \in 0..Len(Participants)
          /\ scan[s].queue \in Seq(0..Len(Participants)) /\ Len(scan[s].queue) <= QueueMax
          /\ scan[s].consumer \in ConsumerLabels
          /\ scan[s].batch \subseteq scan[s].seen /\ scan[s].seen \subseteq Range(Participants)
          /\ scan[s].batchOffset \in 0..Len(Participants) /\ scan[s].drained \in BOOLEAN
    /\ crashes \in Nat /\ rpcFaults \in Nat /\ writeFaults \in Nat

(* A COMPLETED scan has collected the whole list, over all its resumptions.*)
CompletedIsWhole == jobState = "COMPLETED" => dataset = Range(Participants)

(* The number shown as accepted never exceeds the members of the dataset,  *)
(* although a resumed scan ingests some of them again; without a crash or  *)
(* a failure it is their number.                                           *)
AcceptedIsCounted ==
    /\ checkpoint.accepted <= Cardinality(dataset)
    /\ (jobState = "COMPLETED" /\ crashes = 0) => checkpoint.accepted = Cardinality(dataset)

(* A scan that goes on from the checkpoint misses nobody: whoever is       *)
(* listed before its offset is in the dataset, whatever crashed or failed  *)
(* between the ingest and the checkpoint, and its count is right.          *)
CheckpointIsBehindDataset ==
    TypeOK /\ Listed(0, checkpoint.offset) \subseteq dataset /\ AcceptedIsCounted

(* A scan that is RUNNING can be cancelled: its job has the event of the   *)
(* coroutine that is at work, and of no other (_cancel_events).  A failing *)
(* write of SCAN_STARTED leaves it RUNNING and without a coroutine.        *)
Working == {s \in Scans : scan[s].at \notin {"none", "submitted"}}
RunningCanBeCancelled ==
    up /\ jobState = "RUNNING" /\ writeFaults = 0 => Working = {registered}

(* A scan ends: no failure of one task leaves the other waiting on the     *)
(* bounded queue, and a cancellation is not needed.                        *)
ScanEnds == \A s \in Scans : scan[s].at # "none" ~> scan[s].at = "none"
=============================================================================
