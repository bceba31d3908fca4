------------------------------ MODULE DBWriter ------------------------------
(***************************************************************************)
(* runtime/db_writer.py: the single SQLite writer thread, the callers that *)
(* submit write operations to its bounded queue, and stop().               *)
(*                                                                         *)
(* Routine operations are collected in `pending' and committed together;   *)
(* a critical operation first commits what is pending and is then          *)
(* committed alone.  `log' is the content of the database: the operations  *)
(* applied by committed transactions, in order.  The process may be killed *)
(* in any state; what survives is `log' of that state.                     *)
(***************************************************************************)
EXTENDS Naturals, Sequences, FiniteSets, SequencesExt

CONSTANTS Ops,          \* the operations callers may submit, the stop() flush included
          Critical,     \* the operations submitted with critical=True
          FlushOp,      \* the no-op that flush() submits on behalf of stop()
          Abandonable,  \* operations whose awaiting task may be cancelled
          BatchLimit,   \* batch_limit
          QueueLimit,   \* queue_limit
          STOP          \* the sentinel _STOP

ASSUME DBWriterAssumption ==
    /\ Critical \subseteq Ops
    /\ FlushOp \in Critical
    /\ Abandonable \subseteq Ops
    /\ BatchLimit \in Nat \ {0}
    /\ QueueLimit \in Nat \ {0}
    /\ STOP \notin Ops

VARIABLES queue,     \* self._queue
          pending,   \* routine operations read from the queue, not yet committed
          batch,     \* the argument of the running _commit_batch
          held,      \* the critical operation to commit once `pending' is (or <<>>)
          mode,      \* where the writer thread is
          leaving,   \* "no", or why the thread ends after this batch
          cursor,    \* position of the future being resolved in `batch'
          log,       \* operations applied by committed transactions
          accepted,  \* history: operations put into the queue, in order
          future,    \* the Future of each operation, as its caller sees it
          stopped,   \* self._stopped
          stopper    \* where the thread that calls stop() is

writerVars == <<pending, batch, held, mode, leaving, cursor>>
vars == <<queue, writerVars, log, accepted, future, stopped, stopper>>

Modes == {"get", "commit", "resolve", "set_result", "dead"}
FutureStates == {"none", "entering", "pending", "ok", "failed", "cancelled"}

Settled(o) == future[o] \in {"ok", "failed", "cancelled"}
InLog(o) == \E i \in DOMAIN log : log[i] = o

Init ==
    /\ queue = <<>>
    /\ pending = <<>> /\ batch = <<>> /\ held = <<>>
    /\ mode = "get" /\ leaving = "no" /\ cursor = 1
    /\ log = <<>> /\ accepted = <<>>
    /\ future = [o \in Ops |-> "none"]
    /\ stopped = FALSE /\ stopper = "idle"

-----------------------------------------------------------------------------
(* Callers. *)

(* submit() up to the queue: a stopped writer refuses, a dead thread is    *)
(* started again (which clears _stopped).                                  *)
Enter(o) ==
    /\ future[o] = "none"
    /\ o = FlushOp => stopper = "flush"
    /\ IF stopped
         THEN /\ future' = [future EXCEPT ![o] = "failed"]
              /\ UNCHANGED <<mode, leaving>>
         ELSE /\ future' = [future EXCEPT ![o] = "entering"]
              /\ mode' = IF mode = "dead" THEN "get" ELSE mode
              /\ leaving' = IF mode = "dead" THEN "no" ELSE leaving
    /\ UNCHANGED <<queue, pending, batch, held, cursor, log, accepted, stopped, stopper>>

(* submit(), the blocking put: the writer may have been stopped meanwhile. *)
Put(o) ==
    /\ future[o] = "entering"
    /\ Len(queue) < QueueLimit
    /\ queue' = Append(queue, o)
    /\ accepted' = Append(accepted, o)
    /\ future' = [future EXCEPT ![o] = "pending"]
    /\ UNCHANGED <<writerVars, log, stopped, stopper>>

(* The task awaiting wrap_future is cancelled: the future is cancelled     *)
(* with it, the queued operation is not withdrawn.                         *)
Cancel(o) ==
    /\ o \in Abandonable
    /\ future[o] = "pending"
    /\ future' = [future EXCEPT ![o] = "cancelled"]
    /\ UNCHANGED <<queue, writerVars, log, accepted, stopped, stopper>>

-----------------------------------------------------------------------------
(* The writer thread. *)

BeginCommit(tasks) == mode' = "commit" /\ batch' = tasks /\ cursor' = 1

GetStop ==
    /\ mode = "get" /\ queue # <<>> /\ Head(queue) = STOP
    /\ queue' = Tail(queue)
    /\ leaving' = "stop"
    /\ BeginCommit(pending)
    /\ UNCHANGED <<pending, held, log, accepted, future, stopped, stopper>>

(* Mutant of GetCritical: what is pending is not committed first. *)
GetCriticalAhead ==
    /\ mode = "get" /\ queue # <<>> /\ Head(queue) \in Critical
    /\ queue' = Tail(queue)
    /\ BeginCommit(<<Head(queue)>>)
    /\ UNCHANGED <<pending, held, leaving, log, accepted, future, stopped, stopper>>

GetCritical ==
    /\ mode = "get" /\ queue # <<>> /\ Head(queue) \in Critical
    /\ queue' = Tail(queue)
    /\ held' = <<Head(queue)>>
    /\ BeginCommit(pending)
    /\ UNCHANGED <<pending, leaving, log, accepted, future, stopped, stopper>>

GetRoutine ==
    /\ mode = "get" /\ queue # <<>> /\ Head(queue) \in Ops \ Critical
    /\ queue' = Tail(queue)
    /\ pending' = Append(pending, Head(queue))
    /\ IF Len(pending') >= BatchLimit
         THEN BeginCommit(pending')
         ELSE UNCHANGED <<mode, batch, cursor>>
    /\ UNCHANGED <<held, leaving, log, accepted, future, stopped, stopper>>

(* Mutant of FlushInterval: Empty does not flush a batch that is not full. *)
FlushIntervalIfFull ==
    /\ mode = "get" /\ queue = <<>> /\ Len(pending) >= BatchLimit
    /\ BeginCommit(pending)
    /\ UNCHANGED <<queue, pending, held, leaving, log, accepted, future, stopped, stopper>>

(* queue.get timed out with Empty. *)
FlushInterval ==
    /\ mode = "get" /\ queue = <<>> /\ pending # <<>>
    /\ BeginCommit(pending)
    /\ UNCHANGED <<queue, pending, held, leaving, log, accepted, future, stopped, stopper>>

(* Mutant of AfterBatch: pending.clear() is missing. *)
AfterBatchKeeps ==
    /\ pending' = pending
    /\ cursor' = 1
    /\ batch' = held
    /\ held' = <<>>
    /\ mode' = IF held # <<>> THEN "commit" ELSE IF leaving = "no" THEN "get" ELSE "dead"
    /\ leaving' = leaving

(* What the loop does once _commit_batch has returned: pending.clear(),    *)
(* then the held critical operation, the next element, or the exit.        *)
AfterBatch ==
    /\ pending' = <<>>
    /\ cursor' = 1
    /\ batch' = held
    /\ held' = <<>>
    /\ mode' = IF held # <<>> THEN "commit" ELSE IF leaving = "no" THEN "get" ELSE "dead"
    /\ leaving' = leaving

CommitNothing ==
    /\ mode = "commit" /\ batch = <<>>
    /\ AfterBatch
    /\ UNCHANGED <<queue, log, accepted, future, stopped, stopper>>

Commit ==
    /\ mode = "commit" /\ batch # <<>>
    /\ log' = log \o batch
    /\ mode' = "resolve"
    /\ UNCHANGED <<queue, pending, batch, held, leaving, cursor, accepted, future, stopped, stopper>>

(* One operation of the batch raises: rollback, every task of it fails, in *)
(* one step.  (A future cancelled between the done() of _fail_tasks and    *)
(* its set_exception would raise here as it does in SetResultRaises.)      *)
Rollback ==
    /\ mode = "commit" /\ batch # <<>>
    /\ future' = [o \in Ops |-> IF o \in ToSet(batch) /\ ~Settled(o)
                                  THEN "failed" ELSE future[o]]
    /\ AfterBatch
    /\ UNCHANGED <<queue, log, accepted, stopped, stopper>>

(* `if not task.future.done()' ...                                         *)
CheckDone ==
    /\ mode = "resolve" /\ cursor <= Len(batch)
    /\ IF Settled(batch[cursor])
         THEN cursor' = cursor + 1 /\ mode' = mode
         ELSE cursor' = cursor /\ mode' = "set_result"
    /\ UNCHANGED <<queue, pending, batch, held, leaving, log, accepted, future, stopped, stopper>>

(* ... `set_result(result)', outside the lock of the check.                *)
SetResult ==
    /\ mode = "set_result" /\ ~Settled(batch[cursor])
    /\ future' = [future EXCEPT ![batch[cursor]] = "ok"]
    /\ cursor' = cursor + 1
    /\ mode' = "resolve"
    /\ UNCHANGED <<queue, pending, batch, held, leaving, log, accepted, stopped, stopper>>

(* The future was cancelled between the two: InvalidStateError leaves the  *)
(* loop.  The finally clause commits `pending', which the loop had no      *)
(* chance to clear, and the thread dies; a second such error inside the    *)
(* finally clause kills it at once.                                        *)
SetResultRaises ==
    /\ mode = "set_result" /\ Settled(batch[cursor])
    /\ held' = <<>>
    /\ leaving' = "finally"
    /\ \/ /\ pending # <<>> /\ leaving # "finally"
          /\ BeginCommit(pending)
          /\ UNCHANGED pending
       \/ /\ pending = <<>> \/ leaving = "finally"
          /\ mode' = "dead" /\ batch' = <<>> /\ cursor' = 1
          /\ pending' = <<>>
    /\ UNCHANGED <<queue, log, accepted, future, stopped, stopper>>

(* Mutant of Resolved: one future too many is waited for. *)
ResolvedOneLate ==
    /\ mode = "resolve" /\ cursor > Len(batch) + 1
    /\ AfterBatch
    /\ UNCHANGED <<queue, log, accepted, future, stopped, stopper>>

Resolved ==
    /\ mode = "resolve" /\ cursor > Len(batch)
    /\ AfterBatch
    /\ UNCHANGED <<queue, log, accepted, future, stopped, stopper>>

-----------------------------------------------------------------------------
(* stop(): flush (submit and wait, with a timeout), put _STOP, join with a *)
(* timeout, set _stopped.                                                  *)

StopCalled ==
    /\ stopper = "idle"
    /\ stopper' = "flush"
    /\ UNCHANGED <<queue, writerVars, log, accepted, future, stopped>>

(* The flush was answered, or result(timeout) gave up on it. *)
FlushReturned ==
    /\ stopper = "flush"
    /\ future[FlushOp] \in {"pending", "ok", "failed"}
    /\ stopper' = "put"
    /\ UNCHANGED <<queue, writerVars, log, accepted, future, stopped>>

PutStop ==
    /\ stopper = "put"
    /\ Len(queue) < QueueLimit
    /\ queue' = Append(queue, STOP)
    /\ stopper' = "join"
    /\ UNCHANGED <<writerVars, log, accepted, future, stopped>>

(* The thread has ended, or join(timeout) gave up on it. *)
Joined ==
    /\ stopper = "join"
    /\ stopped' = TRUE
    /\ stopper' = "done"
    /\ UNCHANGED <<queue, writerVars, log, accepted, future>>

-----------------------------------------------------------------------------
Writer ==
    \/ GetStop \/ GetCritical \/ GetRoutine \/ FlushInterval
    \/ CommitNothing \/ Commit \/ Rollback
    \/ CheckDone \/ SetResult \/ SetResultRaises \/ Resolved

Stopper == StopCalled \/ FlushReturned \/ PutStop \/ Joined

Next ==
    \/ \E o \in Ops : Enter(o) \/ Put(o) \/ Cancel(o)
    \/ Writer
    \/ Stopper

Spec == Init /\ [][Next]_vars

(* The threads of callers, writer and stop() are scheduled by the OS; a    *)
(* caller decides freely whether to submit, and stop() may never be called.*)
Fairness ==
    /\ WF_vars(Writer)
    /\ \A o \in Ops : WF_vars(Put(o))
    /\ WF_vars(Enter(FlushOp))
    /\ WF_vars(FlushReturned \/ PutStop \/ Joined)

FairSpec == Spec /\ Fairness

-----------------------------------------------------------------------------
TypeOK ==
    /\ queue \in Seq(Ops \cup {STOP})
    /\ pending \in Seq(Ops) /\ batch \in Seq(Ops) /\ held \in Seq(Ops)
    /\ mode \in Modes /\ leaving \in {"no", "stop", "finally"}
    /\ cursor \in Nat \ {0}
    /\ log \in Seq(Ops) /\ accepted \in Seq(Ops)
    /\ future \in [Ops -> FutureStates]
    /\ stopped \in BOOLEAN
    /\ stopper \in {"idle", "flush", "put", "join", "done"}

(* A caller that was told its write succeeded finds it in the database:    *)
(* _commit_batch resolves futures only after conn.commit().                *)
AcknowledgedIsDurable == \A o \in Ops : future[o] = "ok" => InLog(o)

(* A task that awaited a write was cancelled: set_result may then raise    *)
(* out of _commit_batch and end the thread.                                *)
NoneCancelled == \A o \in Ops : future[o] # "cancelled"

(* A caller that was told its write failed does not find it there: a       *)
(* rolled-back batch is never retried by the writer.                       *)
FailedIsNotDurable ==
    NoneCancelled => \A o \in Ops : future[o] = "failed" => ~InLog(o)

(* A critical write is a barrier: once its caller has the answer, every    *)
(* operation accepted before it has been applied or refused.  The member   *)
(* action executor relies on it whenever it awaits set_state after a       *)
(* routine result batch.                                                   *)
CriticalIsBarrier ==
    NoneCancelled =>
        \A j \in DOMAIN accepted :
            accepted[j] \in Critical /\ future[accepted[j]] = "ok"
              => \A i \in 1..(j - 1) : InLog(accepted[i]) \/ future[accepted[i]] = "failed"

(* What a caller was told of its write is true of the database, and true   *)
(* of what was accepted before it.                                         *)
AnswersAreTrue == TypeOK /\ AcknowledgedIsDurable /\ FailedIsNotDurable /\ CriticalIsBarrier

(* An operation put into the queue before stop() puts its sentinel gets an *)
(* answer: the batch limit, the flush interval, a critical operation or    *)
(* the sentinel commits it, unless a cancelled future ended the thread.    *)
QueuedIsAnswered ==
    \A o \in Ops :
        (future[o] = "pending" /\ stopper \in {"idle", "flush"})
            ~> (Settled(o) \/ ~NoneCancelled)

(* stop() returns although the flush may fail and callers keep submitting, *)
(* unless a cancelled future ended the thread.                             *)
StopReturns == (stopper = "flush") ~> (stopper = "done" \/ ~NoneCancelled)

-----------------------------------------------------------------------------
(* The promise of the writer, with the future of an operation that has not *)
(* reached the queue seen as unsent.                                       *)
StatusOf(f) ==
    CASE f \in {"none", "entering"} -> "unsent"
      [] f = "pending" -> "sent"
      [] OTHER -> f

WL == INSTANCE WriteLog WITH status <- [o \in Ops |-> StatusOf(future[o])]

ImplementsWriteLog == WL!Spec
=============================================================================
