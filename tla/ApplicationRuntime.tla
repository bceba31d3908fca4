------------------------- MODULE ApplicationRuntime -------------------------
(***************************************************************************)
(* runtime/application_runtime.py and what it runs: the import and export  *)
(* tasks of import_export/service.py on the worker pool, their writes and  *)
(* the bounded waits for them, the order in which stop() ends the network  *)
(* loop, the workers and the writer, and the recovery of the jobs at the   *)
(* next start.                                                             *)
(*                                                                         *)
(* An invite/remove run on the network loop shares the pool (it reads      *)
(* candidates there) and the writer; here it is only such a client, its    *)
(* work is MemberActionExecutor's.  The writer answers in the order of its *)
(* queue (DBWriter).  A client waits for its last write only, and changes  *)
(* nothing meanwhile, so what a queued write carries is still in the       *)
(* client's memory when it is committed.                                   *)
(***************************************************************************)
EXTENDS Integers, SequencesExt, JobStateMachine

CONSTANTS Imports, Exports, \* the tasks the user may order, one job each
          Net,              \* the run on the network loop
          Workers,          \* threads of the pool (bootstrap.py: 2)
          Batches,          \* the batches of the file of each import
          MaxFaults,        \* bound on the number of failing writes
          MaxRestarts       \* bound on the number of restarts

Tasks == Imports \cup Exports
Clients == Tasks \cup {Net}

ASSUME RuntimeAssumption ==
    /\ Imports \cap Exports = {} /\ Net \notin Tasks
    /\ Workers \in Nat \ {0}
    /\ Batches \in [Imports -> Nat]
    /\ {MaxFaults, MaxRestarts} \subseteq Nat

VARIABLES
    jobs,     \* the row of the job of each client, and the dataset of an import
    queue,    \* the queue of the writer
    answer,   \* the future of the write a client waits for: "none", "ok", "error"
    pool,     \* the queue of the worker pool
    pc,       \* where a client is; of a write it waits for, its name
    memory,   \* the local variables of a task
    pausing,  \* the pause event of the run
    phase,    \* where the process is: "up", in stop(), "exited" or "down"
    unlucky,  \* history: clients that lost, or gave up, a write
    faults, restarts

rows == <<jobs, queue, answer>>
tasks == <<pool, pc, memory>>
budgets == <<faults, restarts>>
vars == <<rows, tasks, pausing, phase, unlucky, budgets>>

NoJob == [state |-> "none", checkpoint |-> 0, stored |-> 0, spoiled |-> FALSE]
NoMemory == [sent |-> 0, bad |-> FALSE, accepted |-> 0, invalid |-> FALSE]

Init ==
    /\ jobs = [c \in Clients |-> NoJob]
    /\ queue = <<>> /\ answer = [c \in Clients |-> "none"]
    /\ pool = <<>> /\ pc = [c \in Clients |-> "new"]
    /\ memory = [t \in Tasks |-> NoMemory]
    /\ pausing = FALSE /\ phase = "up"
    /\ unlucky = {}
    /\ faults = 0 /\ restarts = 0

TaskWrites == {"dataset", "job", "started", "batch", "final", "finished", "failed", "failure"}
Working == {t \in Tasks : pc[t] \in TaskWrites \cup {"file"}}
Running == pc[Net] \in {"fetch", "reading", "call", "pause"}
Alive == phase \notin {"exited", "down"}

-----------------------------------------------------------------------------
(* The writer. *)

(* A client hands over a write and waits for its answer.  The queue has    *)
(* room: put() on a full one has no timeout, and with a writer that never  *)
(* answers it would keep a worker, and stop() with it, for ever.           *)
Submit(c, what) ==
    /\ queue' = Append(queue, [by |-> c, what |-> what])
    /\ answer' = [answer EXCEPT ![c] = "none"]
    /\ pc' = [pc EXCEPT ![c] = what]

Result(t) == IF memory[t].invalid THEN "COMPLETED_WITH_ERRORS" ELSE "COMPLETED"

(* What a write makes of the row and the dataset; an event changes neither.*)
Applied(w) ==
    LET job == jobs[w.by]
        closed(state) == [job EXCEPT !.state = state, !.checkpoint = memory[w.by].accepted]
    IN  CASE w.what = "job"    -> [job EXCEPT !.state = "RUNNING"]
          [] w.what = "batch"  -> [job EXCEPT !.stored = @ + 1,
                                              !.spoiled = @ \/ memory[w.by].bad]
          [] w.what = "final"  -> closed(Result(w.by))
          [] w.what = "failed" -> closed("FAILED")
          [] w.what = "pause"  -> [job EXCEPT !.state = "PAUSED"]
          [] OTHER             -> job

(* Mutant of Due: critical writes overtake routine ones. *)
DueCritical(q) ==
    LET critical == {i \in DOMAIN q : q[i].what # "batch"}
    IN  IF critical = {} THEN 1 ELSE Min(critical)

Due(q) == 1

Answer(w, result) ==
    /\ queue' = RemoveAt(queue, Due(queue))
    /\ answer' = [answer EXCEPT ![w.by] = IF pc[w.by] = w.what THEN result ELSE @]

Commit ==
    /\ Alive /\ queue # <<>>
    /\ LET w == queue[Due(queue)]
       IN  /\ jobs' = [jobs EXCEPT ![w.by] = Applied(w)]
           /\ Answer(w, "ok")
    /\ UNCHANGED <<tasks, pausing, phase, unlucky, budgets>>

WriteFails ==
    /\ Alive /\ queue # <<>> /\ faults < MaxFaults
    /\ faults' = faults + 1
    /\ LET w == queue[Due(queue)]
       IN  Answer(w, "error") /\ unlucky' = unlucky \cup {w.by}
    /\ UNCHANGED <<jobs, tasks, pausing, phase, restarts>>

-----------------------------------------------------------------------------
(* Commands: data.py orders a task, and drops an export in performance     *)
(* mode, which is on while the run works.                                  *)

OrderImport(t) ==
    /\ phase = "up" /\ t \in Imports /\ pc[t] = "new"
    /\ pc' = [pc EXCEPT ![t] = "queued"] /\ pool' = Append(pool, t)
    /\ UNCHANGED <<rows, memory, pausing, phase, unlucky, budgets>>

OrderExport(t) ==
    /\ phase = "up" /\ t \in Exports /\ pc[t] = "new" /\ ~Running
    /\ pc' = [pc EXCEPT ![t] = "queued"] /\ pool' = Append(pool, t)
    /\ UNCHANGED <<rows, memory, pausing, phase, unlucky, budgets>>

(* The run starts: its row is RUNNING and it asks for its first candidates.*)
StartRun ==
    /\ phase = "up" /\ pc[Net] = "new"
    /\ jobs' = [jobs EXCEPT ![Net].state = "RUNNING"]
    /\ pc' = [pc EXCEPT ![Net] = "fetch"] /\ pool' = Append(pool, Net)
    /\ UNCHANGED <<queue, answer, memory, pausing, phase, unlucky, budgets>>

-----------------------------------------------------------------------------
(* The worker pool and its tasks. *)

(* A free worker takes the next task; an import whose file does not exist  *)
(* ends at once.                                                           *)
TakeTask ==
    /\ Alive /\ pool # <<>>
    /\ Cardinality(Working) + (IF pc[Net] = "reading" THEN 1 ELSE 0) < Workers
    /\ pool' = Tail(pool)
    /\ LET c == Head(pool)
       IN  \/ /\ c \in Imports /\ Submit(c, "dataset")
           \/ /\ c \in Exports /\ Submit(c, "job")
           \/ /\ c \in Imports
              /\ pc' = [pc EXCEPT ![c] = "over"] /\ UNCHANGED <<queue, answer>>
           \/ /\ c = Net
              /\ pc' = [pc EXCEPT ![c] = IF @ = "fetch" THEN "reading" ELSE @]
              /\ UNCHANGED <<queue, answer>>
    /\ UNCHANGED <<jobs, memory, pausing, phase, unlucky, budgets>>

(* Mutant of MoreBatches: the last, shorter batch is forgotten. *)
MoreBatchesFull(t, m) == m.sent + 1 < Batches[t]

MoreBatches(t, m) == m.sent < Batches[t]

(* The loop of import_dataset: another batch, with or without invalid      *)
(* members, the end of the file, or an exception of the reader.            *)
ReadOn(t, m) ==
    \/ /\ MoreBatches(t, m)
       /\ \E bad \in BOOLEAN :
              memory' = [memory EXCEPT ![t] = [m EXCEPT !.sent = @ + 1, !.bad = bad]]
       /\ Submit(t, "batch")
    \/ /\ ~MoreBatches(t, m) /\ Submit(t, "final")
       /\ memory' = [memory EXCEPT ![t] = m]
    \/ /\ Submit(t, "failed")
       /\ memory' = [memory EXCEPT ![t] = m]

Summed(m) == [m EXCEPT !.accepted = @ + 1, !.invalid = @ \/ m.bad]

Ends(c) == pc' = [pc EXCEPT ![c] = "over"] /\ UNCHANGED <<queue, answer>>

(* A write of a task has been answered. *)
GoOn(t) ==
    /\ answer[t] = "ok"
    /\ \/ /\ pc[t] = "dataset" /\ Submit(t, "job") /\ UNCHANGED memory
       \/ /\ pc[t] = "job" /\ Submit(t, "started") /\ UNCHANGED memory
       \/ /\ pc[t] = "started" /\ t \in Imports /\ ReadOn(t, memory[t])
       \/ /\ pc[t] = "started" /\ t \in Exports
          /\ pc' = [pc EXCEPT ![t] = "file"] /\ UNCHANGED <<queue, answer, memory>>
       \/ /\ pc[t] = "batch" /\ ReadOn(t, Summed(memory[t]))
       \/ /\ pc[t] = "final" /\ Submit(t, "finished") /\ UNCHANGED memory
       \/ /\ pc[t] = "failed" /\ Submit(t, "failure") /\ UNCHANGED memory
       \/ /\ pc[t] \in {"finished", "failure"} /\ Ends(t) /\ UNCHANGED memory
    /\ UNCHANGED <<jobs, pool, pausing, phase, unlucky, budgets>>

(* The export has written its file, or failed to. *)
FileWritten(t) ==
    /\ pc[t] = "file"
    /\ Submit(t, "final") \/ Submit(t, "failed")
    /\ UNCHANGED <<jobs, pool, memory, pausing, phase, unlucky, budgets>>

(* Mutant of GivesUp: result() without a timeout. *)
GivesUpNever(c) == answer[c] = "error" /\ UNCHANGED unlucky

(* A wait ends with the exception of the write, or with a timeout while    *)
(* the write stays in the queue.                                           *)
GivesUp(c) ==
    \/ answer[c] = "error" /\ UNCHANGED unlucky
    \/ answer[c] = "none" /\ unlucky' = unlucky \cup {c}

(* The exception leaves the task if it comes before the try or out of the  *)
(* except clause; elsewhere that clause writes FAILED.                     *)
Raises(t) ==
    /\ pc[t] \in TaskWrites /\ GivesUp(t)
    /\ \/ /\ pc[t] \in {"dataset", "job", "started", "failed", "failure"}
          /\ Ends(t)
       \/ /\ pc[t] \in {"batch", "final", "finished"}
          /\ Submit(t, "failed")
    /\ UNCHANGED <<jobs, pool, memory, pausing, phase, budgets>>

-----------------------------------------------------------------------------
(* The run on the network loop. *)

(* A read is done; a pause is heard between two calls, not during a read.  *)
RunReads ==
    /\ pc[Net] = "reading"
    /\ pc' = [pc EXCEPT ![Net] = "call"]
    /\ UNCHANGED <<rows, pool, memory, pausing, phase, unlucky, budgets>>

RunGoesOn ==
    /\ pc[Net] = "call" /\ ~pausing
    /\ pc' = [pc EXCEPT ![Net] = "fetch"] /\ pool' = Append(pool, Net)
    /\ UNCHANGED <<rows, memory, pausing, phase, unlucky, budgets>>

RunPauses ==
    /\ pc[Net] = "call" /\ pausing
    /\ Submit(Net, "pause")
    /\ UNCHANGED <<jobs, pool, memory, pausing, phase, unlucky, budgets>>

RunEnds ==
    /\ pc[Net] = "pause" /\ answer[Net] # "none"
    /\ Ends(Net)
    /\ UNCHANGED <<jobs, pool, memory, pausing, phase, unlucky, budgets>>

-----------------------------------------------------------------------------
(* ApplicationRuntime.stop and the next start. *)

(* aboutToQuit; the first hook is prepare_shutdown, which pauses the run.  *)
Quit ==
    /\ phase = "up"
    /\ phase' = "hooks" /\ pausing' = TRUE
    /\ UNCHANGED <<rows, tasks, unlucky, budgets>>

(* The hooks have returned, or have had their 8 s: the run may be in a     *)
(* call or wait for the pool.  network.stop() cancels what still runs.     *)
NetworkStops ==
    /\ phase = "hooks"
    /\ phase' = "workers"
    /\ pc' = [pc EXCEPT ![Net] = IF Running THEN "killed" ELSE @]
    /\ UNCHANGED <<rows, pool, memory, pausing, unlucky, budgets>>

(* executor.shutdown(wait=True, cancel_futures=True) drops the queue ...   *)
QueueDropped ==
    /\ phase = "workers"
    /\ phase' = "draining"
    /\ pool' = <<>>
    /\ pc' = [c \in Clients |-> IF pc[c] = "queued" THEN "dropped" ELSE pc[c]]
    /\ UNCHANGED <<rows, memory, pausing, unlucky, budgets>>

(* Mutant of WorkersEnd: shutdown(wait=False). *)
WorkersEndUnawaited ==
    /\ phase = "draining"
    /\ phase' = "writer"
    /\ UNCHANGED <<rows, tasks, pausing, unlucky, budgets>>

(* ... and waits for the tasks under way. *)
WorkersEnd ==
    /\ phase = "draining" /\ Working = {}
    /\ phase' = "writer"
    /\ UNCHANGED <<rows, tasks, pausing, unlucky, budgets>>

(* db_writer.stop(): the writer has written everything, or its flush and   *)
(* its end have been waited for for 10 s each; its thread is a daemon.     *)
WriterStops ==
    /\ phase = "writer"
    /\ phase' = "exited"
    /\ UNCHANGED <<rows, tasks, pausing, unlucky, budgets>>

(* What was in memory, queued writes and tasks included, is gone. *)
Forget ==
    /\ queue' = <<>> /\ answer' = [c \in Clients |-> "none"]
    /\ pool' = <<>> /\ memory' = [t \in Tasks |-> NoMemory]
    /\ pc' = [c \in Clients |-> IF pc[c] = "new" THEN "new" ELSE "over"]
    /\ pausing' = FALSE /\ unlucky' = {}

Crash ==
    /\ Alive /\ restarts < MaxRestarts
    /\ phase' = "down"
    /\ Forget
    /\ UNCHANGED <<jobs, budgets>>

(* normalize_after_restart: an import or export cannot be resumed. *)
Recovered(c) ==
    CASE jobs[c].state = "RUNNING" /\ c = Net     -> [jobs[c] EXCEPT !.state = "PAUSED"]
      [] jobs[c].state = "RUNNING" /\ c \in Tasks -> [jobs[c] EXCEPT !.state = "CANCELLED"]
      [] OTHER                                    -> jobs[c]

(* The recovery runs before the first command. *)
Restart ==
    /\ ~Alive /\ restarts < MaxRestarts
    /\ restarts' = restarts + 1
    /\ phase' = "up"
    /\ jobs' = [c \in Clients |-> Recovered(c)]
    /\ Forget
    /\ UNCHANGED faults

-----------------------------------------------------------------------------
WorkerStep(t) == Alive /\ (GoOn(t) \/ FileWritten(t) \/ Raises(t))

RunStep == Alive /\ (RunReads \/ RunGoesOn \/ RunPauses \/ RunEnds)

StopStep == NetworkStops \/ QueueDropped \/ WorkersEnd \/ WriterStops

Next ==
    \/ Commit \/ WriteFails \/ TakeTask
    \/ \E t \in Tasks : OrderImport(t) \/ OrderExport(t) \/ WorkerStep(t)
    \/ StartRun \/ RunStep
    \/ Quit \/ StopStep \/ Crash \/ Restart

Spec == Init /\ [][Next]_vars

(* The thread that calls stop() runs, and so do the workers: a wait that   *)
(* is not answered ends by its timeout.  Nothing is asked of the writer.   *)
Fairness == WF_vars(StopStep) /\ \A t \in Tasks : WF_vars(WorkerStep(t))

FairSpec == Spec /\ Fairness

-----------------------------------------------------------------------------
TypeOK ==
    /\ jobs \in [Clients -> [state : JobStates \cup {"none"}, checkpoint : Nat, stored : Nat,
                             spoiled : BOOLEAN]]
    /\ queue \in Seq([by : Clients, what : TaskWrites \cup {"pause"}])
    /\ answer \in [Clients -> {"none", "ok", "error"}]
    /\ pool \in Seq(Clients)
    /\ pc \in [Clients -> TaskWrites \cup {"new", "queued", "file", "fetch", "reading", "call",
                                           "pause", "over", "killed", "dropped"}]
    /\ memory \in [Tasks -> [sent : Nat, bad : BOOLEAN, accepted : Nat,
                             invalid : BOOLEAN]]
    /\ pausing \in BOOLEAN /\ unlucky \subseteq Clients
    /\ phase \in {"up", "hooks", "workers", "draining", "writer", "exited", "down"}
    /\ faults \in Nat /\ restarts \in Nat

(* An import that is shown as complete is whole: the dataset has every     *)
(* batch of the file, the counts of the job are those of the dataset, and  *)
(* invalid members show in its state, however slow or failing the writer.  *)
CompletedImportIsWhole ==
    TypeOK /\ \A t \in Imports : jobs[t].state \in {"COMPLETED", "COMPLETED_WITH_ERRORS"} =>
        /\ jobs[t].stored = Batches[t] /\ jobs[t].checkpoint = Batches[t]
        /\ jobs[t].spoiled <=> jobs[t].state = "COMPLETED_WITH_ERRORS"

(* Once a job is terminal its dataset grows no more, although a batch the  *)
(* task has given up waiting for is still written; the state changes again *)
(* only to FAILED, when an answer the task waited for failed or was late.  *)
TerminalJobRests ==
    [][\A t \in Tasks : jobs[t].state \in TerminalJobStates =>
          /\ jobs'[t].stored = jobs[t].stored
          /\ \/ jobs'[t].state = jobs[t].state
             \/ jobs'[t].state = "FAILED" /\ t \in unlucky]_vars

(* An unfinished import or export, which locks its account and which no    *)
(* command can end, has a worker at it, after a restart too, and a RUNNING *)
(* run its coroutine, unless a write of theirs failed or was late.         *)
UnfinishedIsWorkedOn ==
    \A c \in Clients \ unlucky :
        /\ jobs[c].state = "RUNNING" => c \in Working \/ (c = Net /\ Running)
        /\ jobs[c].state = "PAUSED" => c = Net

(* A quit cuts no import or export short, and once the writer has got to   *)
(* the end of its queue each of them has its final state in the database,  *)
(* and a run that was paused in time its PAUSED.                           *)
QuitLosesNothing ==
    /\ Working = {}
    /\ queue = <<>> => \A c \in Clients \ unlucky :
                          jobs[c].state = "RUNNING" => c = Net /\ pc[Net] = "killed"

(* What the rows say of unfinished jobs is true while commands rely on it, *)
(* and what they say at the end of the process is all there was to say.    *)
RowsAreTrue ==
    /\ phase = "up" => UnfinishedIsWorkedOn
    /\ phase = "exited" => QuitLosesNothing

(* stop() returns, even if the writer never answers again, as long as its  *)
(* queue has room for what the tasks still submit.                         *)
StopReturns == phase = "hooks" ~> ~Alive
=============================================================================
