--------------------------- MODULE DBWriter_proof ---------------------------
(***************************************************************************)
(* Theorems about DBWriter, for any operations, batch and queue limits:    *)
(* what the callers are told is true, and the writer keeps the promise of  *)
(* WriteLog, the steps that a cancelled future brings about included.      *)
(***************************************************************************)
EXTENDS DBWriter, SequenceTheorems, TLAPS

(* What the writer has read but not dealt with, except what it holds.      *)
Open == IF mode \in {"get", "dead"} THEN pending ELSE batch

(* The transaction of the batch is committed.                              *)
Written == mode \in {"resolve", "set_result"}

(* The first t of the accepted operations have been read; the queue holds  *)
(* the others, and the sentinel at p if p is not 0.                        *)
QueueLayout(t, p) ==
    /\ Len(accepted) = IF p = 0 THEN t + Len(queue) ELSE t + Len(queue) - 1
    /\ \A k \in 1..Len(queue) :
          queue[k] = IF k = p THEN STOP
                     ELSE IF p = 0 \/ k < p THEN accepted[t + k] ELSE accepted[t + k - 1]
    /\ p # 0 => stopper \in {"join", "done"}

(* Of those t, the ones after x are open and held.                         *)
WriterLayout(t, x) ==
    /\ x + Len(Open) + Len(held) <= t
    /\ \A k \in 1..Len(Open) : Open[k] = accepted[x + k]
    /\ held # <<>> => Len(held) = 1 /\ held[1] = accepted[t]
    /\ mode = "get" => held = <<>> /\ x + Len(pending) = t
    /\ mode = "dead" => held = <<>> /\ pending = <<>>
    /\ mode \notin {"get", "dead"} => pending \in {<<>>, batch}
    /\ mode = "commit" => cursor = 1
    /\ mode = "set_result" => cursor <= Len(batch)
    /\ NoneCancelled => x + Len(Open) + Len(held) = t

Answered(o) == (future[o] = "ok" /\ InLog(o)) \/ (future[o] = "failed" /\ ~InLog(o))
Waiting(o) == future[o] = "pending" /\ ~InLog(o)

(* The first x are answered, the others are not, except for what the batch *)
(* has come to.                                                            *)
AnswersLayout(x) ==
    /\ \A i \in 1..Len(accepted) : i <= x => Answered(accepted[i])
    /\ \A i \in 1..Len(accepted) :
          i > (IF Written THEN x + Len(batch) ELSE x) => Waiting(accepted[i])
    /\ Written => \A k \in 1..Len(batch) :
                     future[batch[k]] = IF k < cursor THEN "ok" ELSE "pending"
    /\ WL!InOrder(log)

(* An operation is accepted once, and only what is accepted is written.    *)
Bookkeeping ==
    /\ \A i, j \in 1..Len(accepted) : accepted[i] = accepted[j] => i = j
    /\ \A i \in 1..Len(accepted) : future[accepted[i]] \notin {"none", "entering"}
    /\ \A i \in 1..Len(log) : \E j \in 1..Len(accepted) : log[i] = accepted[j]
    /\ Written => \A k \in 1..Len(batch) : InLog(batch[k])
    /\ AcknowledgedIsDurable

LayoutInv(t, p, x) ==
    /\ QueueLayout(t, p) /\ WriterLayout(t, x)
    /\ NoneCancelled => AnswersLayout(x)

WriterInv ==
    /\ TypeOK /\ Bookkeeping
    /\ \E t, x \in 0..Len(accepted), p \in 0..Len(queue) : LayoutInv(t, p, x)

-----------------------------------------------------------------------------
(* Types. *)

(* The initial state is of its type ... *)
LEMMA TypeInit == Init => TypeOK
<1>1. <<>> \in Seq(Ops) /\ <<>> \in Seq(Ops \cup {STOP})
  BY EmptySeq
<1>2. [o \in Ops |-> "none"] \in [Ops -> FutureStates]
  BY DEF FutureStates
<1>. SUFFICES ASSUME Init PROVE TypeOK
  OBVIOUS
<1>3. /\ queue \in Seq(Ops \cup {STOP}) /\ future \in [Ops -> FutureStates]
      /\ pending \in Seq(Ops) /\ batch \in Seq(Ops) /\ held \in Seq(Ops)
      /\ log \in Seq(Ops) /\ accepted \in Seq(Ops)
  BY <1>1, <1>2 DEF Init
<1>4. /\ mode \in Modes /\ leaving \in {"no", "stop", "finally"}
      /\ stopper \in {"idle", "flush", "put", "join", "done"}
  BY DEF Init, Modes
<1>5. cursor \in Nat \ {0}
  BY DEF Init
<1>6. stopped \in BOOLEAN
  BY DEF Init
<1>. QED  BY <1>3, <1>4, <1>5, <1>6 DEF TypeOK

(* ... what the thread turns to after a batch is ... *)
LEMMA AfterBatchType ==
    ASSUME TypeOK, AfterBatch
    PROVE  /\ pending' \in Seq(Ops) /\ batch' \in Seq(Ops) /\ held' \in Seq(Ops)
           /\ mode' \in Modes /\ leaving' \in {"no", "stop", "finally"} /\ cursor' \in Nat \ {0}
BY EmptySeq DEF TypeOK, AfterBatch, Modes

(* ... the step of a caller keeps the type ... *)
LEMMA CallerType ==
    ASSUME TypeOK, NEW o \in Ops, Enter(o) \/ Put(o) \/ Cancel(o)
    PROVE  TypeOK'
<1>1. CASE Enter(o)
  BY <1>1 DEF Enter, TypeOK, Modes, FutureStates
<1>2. CASE Put(o)
  <2>1. queue' \in Seq(Ops \cup {STOP}) /\ accepted' \in Seq(Ops)
    BY <1>2, AppendProperties DEF Put, TypeOK
  <2>2. future' \in [Ops -> FutureStates]
    BY <1>2 DEF Put, TypeOK, FutureStates
  <2>3. UNCHANGED <<pending, batch, held, mode, leaving, cursor, log, stopped, stopper>>
    BY <1>2 DEF Put, writerVars
  <2>. QED  BY <2>1, <2>2, <2>3 DEF TypeOK
<1>3. CASE Cancel(o)
  BY <1>3 DEF Cancel, TypeOK, FutureStates, writerVars
<1>. QED  BY <1>1, <1>2, <1>3

(* ... so does a step of the thread ... *)
LEMMA WriterType == TypeOK /\ Writer => TypeOK'
<1>. SUFFICES ASSUME TypeOK, Writer PROVE TypeOK'
  OBVIOUS
<1>0. queue # <<>> => Tail(queue) \in Seq(Ops \cup {STOP})
  BY HeadTailProperties DEF TypeOK
<1>1. CASE GetStop \/ GetCritical
  <2>1. queue' \in Seq(Ops \cup {STOP})
    BY <1>0, <1>1 DEF GetStop, GetCritical
  <2>2. held' \in Seq(Ops)
    <3>1. \A o \in Ops : <<o>> \in Seq(Ops)
      OBVIOUS
    <3>. QED  BY <1>1, <3>1, DBWriterAssumption DEF GetStop, GetCritical, TypeOK
  <2>3. /\ batch' \in Seq(Ops) /\ cursor' = 1 /\ mode' \in Modes
        /\ leaving' \in {"no", "stop", "finally"}
        /\ UNCHANGED <<pending, log, accepted, future, stopped, stopper>>
    BY <1>1 DEF GetStop, GetCritical, BeginCommit, TypeOK, Modes
  <2>. QED  BY <2>1, <2>2, <2>3 DEF TypeOK
<1>2. CASE GetRoutine
  <2>1. queue' \in Seq(Ops \cup {STOP})
    BY <1>0, <1>2 DEF GetRoutine
  <2>2. pending' \in Seq(Ops)
    BY <1>2, AppendProperties DEF GetRoutine, TypeOK
  <2>3. /\ batch' \in Seq(Ops) /\ cursor' \in Nat \ {0} /\ mode' \in Modes
    <3>1. \/ mode' = "commit" /\ batch' = pending' /\ cursor' = 1
          \/ UNCHANGED <<mode, batch, cursor>>
      BY <1>2 DEF GetRoutine, BeginCommit
    <3>. QED  BY <2>2, <3>1 DEF TypeOK, Modes
  <2>4. UNCHANGED <<held, leaving, log, accepted, future, stopped, stopper>>
    BY <1>2 DEF GetRoutine
  <2>. QED  BY <2>1, <2>2, <2>3, <2>4 DEF TypeOK
<1>3. CASE FlushInterval
  BY <1>3 DEF FlushInterval, BeginCommit, TypeOK, Modes
<1>4. CASE CommitNothing \/ Resolved
  <2>1. AfterBatch /\ UNCHANGED <<queue, log, accepted, future, stopped, stopper>>
    BY <1>4 DEF CommitNothing, Resolved
  <2>. QED  BY <2>1, AfterBatchType DEF TypeOK
<1>5. CASE Commit
  <2>1. log' \in Seq(Ops)
    BY <1>5, ConcatProperties DEF Commit, TypeOK
  <2>. QED  BY <1>5, <2>1 DEF Commit, TypeOK, Modes
<1>6. CASE Rollback
  <2>1. AfterBatch /\ UNCHANGED <<queue, log, accepted, stopped, stopper>>
    BY <1>6 DEF Rollback
  <2>2. future' \in [Ops -> FutureStates]
    BY <1>6 DEF Rollback, TypeOK, FutureStates
  <2>. QED  BY <2>1, <2>2, AfterBatchType DEF TypeOK
<1>7. CASE CheckDone
  BY <1>7 DEF CheckDone, TypeOK, Modes
<1>8. CASE SetResult
  <2>1. future' \in [Ops -> FutureStates] /\ cursor' \in Nat \ {0} /\ mode' \in Modes
    <3>1. future' \in [Ops -> FutureStates]
      BY <1>8 DEF SetResult, TypeOK, FutureStates
    <3>2. cursor' \in Nat \ {0}
      BY <1>8 DEF SetResult, TypeOK
    <3>3. mode' \in Modes
      BY <1>8 DEF SetResult, Modes
    <3>. QED  BY <3>1, <3>2, <3>3
  <2>. QED  BY <1>8, <2>1 DEF SetResult, TypeOK
<1>9. CASE SetResultRaises
  <2>1. /\ pending' \in Seq(Ops) /\ batch' \in Seq(Ops) /\ held' \in Seq(Ops)
        /\ mode' \in Modes /\ leaving' \in {"no", "stop", "finally"} /\ cursor' = 1
    BY <1>9, EmptySeq DEF SetResultRaises, BeginCommit, TypeOK, Modes
  <2>2. UNCHANGED <<queue, log, accepted, future, stopped, stopper>>
    BY <1>9 DEF SetResultRaises
  <2>. QED  BY <2>1, <2>2 DEF TypeOK
<1>. QED  BY <1>1, <1>2, <1>3, <1>4, <1>5, <1>6, <1>7, <1>8, <1>9 DEF Writer

(* ... and one of stop(). *)
LEMMA StopperType == TypeOK /\ Stopper => TypeOK'
<1>. SUFFICES ASSUME TypeOK, Stopper PROVE TypeOK'
  OBVIOUS
<1>1. CASE PutStop
  <2>1. queue' \in Seq(Ops \cup {STOP})
    BY <1>1, AppendProperties DEF PutStop, TypeOK
  <2>. QED  BY <1>1, <2>1 DEF PutStop, TypeOK, writerVars
<1>2. CASE StopCalled \/ FlushReturned \/ Joined
  BY <1>2 DEF StopCalled, FlushReturned, Joined, TypeOK, writerVars
<1>. QED  BY <1>1, <1>2 DEF Stopper

(* Every step does. *)
LEMMA TypeStep == TypeOK /\ [Next]_vars => TypeOK'
<1>. SUFFICES ASSUME TypeOK, [Next]_vars PROVE TypeOK'
  OBVIOUS
<1>1. CASE UNCHANGED vars
  BY <1>1 DEF vars, writerVars, TypeOK
<1>. QED  BY <1>1, CallerType, WriterType, StopperType DEF Next

(* The answer of a future is for good. *)
LEMMA FuturesSettle ==
    ASSUME TypeOK, Next, NEW o \in Ops
    PROVE  /\ future[o] = "cancelled" => future'[o] = "cancelled"
           /\ future[o] \notin {"none", "entering"} => future'[o] \notin {"none", "entering"}
           /\ future[o] \in {"ok", "failed"} => future'[o] = future[o]
<1>1. CASE \E r \in Ops : Enter(r) \/ Put(r) \/ Cancel(r)
  BY <1>1 DEF Enter, Put, Cancel, TypeOK
<1>2. CASE Writer
  BY <1>2 DEF Writer, GetStop, GetCritical, GetRoutine, FlushInterval, CommitNothing, Commit,
              Rollback, CheckDone, SetResult, SetResultRaises, Resolved, Settled, TypeOK
<1>3. CASE Stopper
  BY <1>3 DEF Stopper, StopCalled, FlushReturned, PutStop, Joined
<1>. QED  BY <1>1, <1>2, <1>3 DEF Next

(* A future that is cancelled stays cancelled. *)
LEMMA CancelledRemains == TypeOK /\ Next /\ NoneCancelled' => NoneCancelled
BY FuturesSettle DEF NoneCancelled

-----------------------------------------------------------------------------
(* The queue. *)

(* The layout of the queue is kept when nothing is put or taken ... *)
LEMMA QueueKept ==
    ASSUME NEW t, NEW p, QueueLayout(t, p), UNCHANGED <<queue, accepted>>,
           stopper' = stopper \/ stopper' = "done" \/ stopper \notin {"join", "done"}
    PROVE  QueueLayout(t, p)'
BY DEF QueueLayout

(* ... when its first element is taken ... *)
LEMMA QueueTaken ==
    ASSUME TypeOK, NEW t \in 0..Len(accepted), NEW p \in 0..Len(queue), QueueLayout(t, p),
           queue # <<>>, queue' = Tail(queue), UNCHANGED <<accepted, stopper>>
    PROVE  /\ Head(queue) = STOP => 0 \in 0..Len(queue') /\ QueueLayout(t, 0)'
           /\ Head(queue) \in Ops =>
                 /\ t + 1 \in 0..Len(accepted') /\ accepted[t + 1] = Head(queue)
                 /\ \E q \in 0..Len(queue') : QueueLayout(t + 1, q)'
<1>1. /\ Len(queue) \in Nat /\ Len(queue) >= 1 /\ Len(accepted) \in Nat
      /\ Len(queue') = Len(queue) - 1
      /\ \A k \in 1..(Len(queue) - 1) : queue'[k] = queue[k + 1]
      /\ Head(queue) = queue[1]
  <2>1. Len(queue) \in Nat /\ Len(queue) # 0 /\ Len(accepted) \in Nat
    BY EmptySeq, LenProperties DEF TypeOK
  <2>2. Len(queue') = Len(queue) - 1 /\ \A k \in 1..Len(queue') : queue'[k] = queue[k + 1]
    BY HeadTailProperties DEF TypeOK
  <2>. QED  BY <2>1, <2>2 DEF TypeOK
<1>2. ASSUME Head(queue) = STOP PROVE 0 \in 0..Len(queue') /\ QueueLayout(t, 0)'
  <2>1. p = 1
    <3>. SUFFICES ASSUME p # 1 PROVE FALSE
      OBVIOUS
    <3>1. queue[1] = accepted[t + 1] /\ t + 1 \in 1..Len(accepted)
      BY <1>1 DEF QueueLayout
    <3>2. accepted[t + 1] \in Ops
      BY <3>1, ElementOfSeq DEF TypeOK
    <3>. QED  BY <1>1, <1>2, <3>1, <3>2, DBWriterAssumption
  <2>. QED  BY <1>1, <2>1 DEF QueueLayout
<1>3. ASSUME Head(queue) \in Ops
      PROVE  /\ t + 1 \in 0..Len(accepted') /\ accepted[t + 1] = Head(queue)
             /\ \E q \in 0..Len(queue') : QueueLayout(t + 1, q)'
  <2>1. p # 1
    BY <1>1, <1>3, DBWriterAssumption DEF QueueLayout
  <2>2. t + 1 \in 0..Len(accepted') /\ accepted[t + 1] = Head(queue)
    BY <1>1, <2>1 DEF QueueLayout
  <2>3. CASE p = 0
    <3>1. QueueLayout(t + 1, 0)'
      BY <1>1, <2>3 DEF QueueLayout
    <3>. QED  BY <1>1, <2>2, <3>1
  <2>4. CASE p # 0
    <3>1. p - 1 \in 0..Len(queue') /\ p - 1 # 0
      BY <1>1, <2>1, <2>4
    <3>2. QueueLayout(t + 1, p - 1)'
      <4>1. t \in Nat /\ p \in Nat /\ p <= Len(queue) /\ p > 1
        BY <1>1, <2>1, <2>4
      <4>2. Len(accepted') = t + 1 + Len(queue') - 1
        <5>1. Len(accepted) = t + Len(queue) - 1
          BY <2>4 DEF QueueLayout
        <5>. QED  BY <1>1, <4>1, <5>1
      <4>3. ASSUME NEW k \in 1..Len(queue')
            PROVE  queue'[k] = IF k = p - 1 THEN STOP
                               ELSE IF k < p - 1 THEN accepted[t + 1 + k]
                               ELSE accepted[t + 1 + k - 1]
        <5>1. k \in 1..(Len(queue) - 1) /\ k \in Nat /\ k + 1 \in 1..Len(queue)
          BY <1>1
        <5>2. queue[k + 1] = IF k + 1 = p THEN STOP
                             ELSE IF k + 1 < p THEN accepted[t + (k + 1)]
                             ELSE accepted[t + (k + 1) - 1]
          BY <4>1, <5>1 DEF QueueLayout
        <5>3. k + 1 = p <=> k = p - 1
          BY <4>1, <5>1
        <5>4. k + 1 < p <=> k < p - 1
          BY <4>1, <5>1
        <5>5. t + (k + 1) = t + 1 + k /\ t + (k + 1) - 1 = t + 1 + k - 1
          BY <4>1, <5>1
        <5>. QED  BY <1>1, <5>1, <5>2, <5>3, <5>4, <5>5
      <4>. QED  BY <2>4, <3>1, <4>2, <4>3 DEF QueueLayout
    <3>. QED  BY <2>2, <3>1, <3>2
  <2>. QED  BY <2>3, <2>4
<1>. QED  BY <1>2, <1>3

(* ... when an accepted operation is put ... *)
LEMMA QueuePut ==
    ASSUME TypeOK, NEW t \in 0..Len(accepted), NEW p \in 0..Len(queue), QueueLayout(t, p),
           NEW o \in Ops, queue' = Append(queue, o), accepted' = Append(accepted, o),
           UNCHANGED stopper
    PROVE  QueueLayout(t, p)' /\ t \in 0..Len(accepted') /\ p \in 0..Len(queue')
<1>0. t \in Nat /\ p \in Nat /\ p <= Len(queue)
  BY LenProperties DEF TypeOK
<1>1. /\ Len(queue) \in Nat /\ Len(queue') = Len(queue) + 1 /\ queue'[Len(queue) + 1] = o
      /\ \A k \in 1..Len(queue) : queue'[k] = queue[k]
  BY AppendProperties, LenProperties DEF TypeOK
<1>2. /\ Len(accepted) \in Nat /\ Len(accepted') = Len(accepted) + 1
      /\ accepted'[Len(accepted) + 1] = o
      /\ \A k \in 1..Len(accepted) : accepted'[k] = accepted[k]
  BY AppendProperties, LenProperties DEF TypeOK
<1>3. Len(accepted) = t + Len(queue) - (IF p = 0 THEN 0 ELSE 1)
  BY DEF QueueLayout
<1>4. ASSUME NEW k \in 1..Len(queue')
      PROVE  queue'[k] = IF k = p THEN STOP
                         ELSE IF p = 0 \/ k < p THEN accepted'[t + k] ELSE accepted'[t + k - 1]
  <2>1. CASE k = Len(queue) + 1
    <3>1. p # 0 => k > p /\ t + k - 1 = Len(accepted) + 1
      BY <1>0, <1>1, <1>2, <1>3, <2>1
    <3>2. p = 0 => k # p /\ t + k = Len(accepted) + 1
      BY <1>0, <1>1, <1>2, <1>3, <2>1
    <3>. QED  BY <1>0, <1>1, <1>2, <2>1, <3>1, <3>2
  <2>2. CASE k \in 1..Len(queue)
    <3>1. /\ p = 0 \/ k < p => t + k \in 1..Len(accepted)
          /\ p # 0 /\ k > p => t + k - 1 \in 1..Len(accepted)
      <4>0. k \in Nat /\ k >= 1 /\ k <= Len(queue)
        BY <1>1, <2>2
      <4>1. ASSUME p = 0 PROVE t + k \in 1..Len(accepted)
        BY <1>0, <1>1, <1>2, <1>3, <4>0, <4>1
      <4>2. ASSUME p # 0, k < p PROVE t + k \in 1..Len(accepted)
        BY <1>0, <1>1, <1>2, <1>3, <4>0, <4>2
      <4>3. ASSUME p # 0, k > p PROVE t + k - 1 \in 1..Len(accepted)
        BY <1>0, <1>1, <1>2, <1>3, <4>0, <4>3
      <4>. QED  BY <1>0, <4>0, <4>1, <4>2, <4>3
    <3>2. queue[k] = IF k = p THEN STOP
                     ELSE IF p = 0 \/ k < p THEN accepted[t + k] ELSE accepted[t + k - 1]
      BY <2>2 DEF QueueLayout
    <3>3. k \in Nat
      BY <1>1, <2>2
    <3>4. queue'[k] = queue[k]
      BY <1>1, <2>2
    <3>5. CASE k = p
      BY <3>2, <3>4, <3>5
    <3>6. CASE k # p /\ (p = 0 \/ k < p)
      <4>1. accepted'[t + k] = accepted[t + k]
        BY <1>2, <3>1, <3>6
      <4>. QED  BY <3>2, <3>4, <3>6, <4>1
    <3>7. CASE k # p /\ ~(p = 0 \/ k < p)
      <4>1. accepted'[t + k - 1] = accepted[t + k - 1]
        BY <1>0, <1>2, <3>1, <3>3, <3>7
      <4>. QED  BY <3>2, <3>4, <3>7, <4>1
    <3>. QED  BY <3>5, <3>6, <3>7
  <2>3. k = Len(queue) + 1 \/ k \in 1..Len(queue)
    BY <1>1
  <2>. QED  BY <2>1, <2>2, <2>3
<1>5. Len(accepted') = IF p = 0 THEN t + Len(queue') ELSE t + Len(queue') - 1
  BY <1>0, <1>1, <1>2, <1>3
<1>6. p # 0 => stopper' \in {"join", "done"}
  BY DEF QueueLayout
<1>7. t \in 0..Len(accepted') /\ p \in 0..Len(queue')
  BY <1>0, <1>1, <1>2
<1>. QED  BY <1>4, <1>5, <1>6, <1>7 DEF QueueLayout

(* ... and when the sentinel is put. *)
LEMMA QueueStop ==
    ASSUME TypeOK, NEW t \in 0..Len(accepted), NEW p \in 0..Len(queue), QueueLayout(t, p), PutStop
    PROVE  \E q \in 0..Len(queue') : QueueLayout(t, q)'
<1>1. p = 0
  BY DEF QueueLayout, PutStop
<1>2. /\ Len(queue) \in Nat /\ Len(queue') = Len(queue) + 1 /\ queue'[Len(queue) + 1] = STOP
      /\ \A k \in 1..Len(queue) : queue'[k] = queue[k]
  BY AppendProperties, LenProperties DEF TypeOK, PutStop
<1>3. accepted' = accepted /\ stopper' = "join" /\ Len(accepted) \in Nat
  BY LenProperties DEF PutStop, TypeOK
<1>4. Len(accepted) = t + Len(queue) /\ \A k \in 1..Len(queue) : queue[k] = accepted[t + k]
  BY <1>1, <1>2 DEF QueueLayout
<1>5. PICK q \in Nat : q = Len(queue) + 1
  BY <1>2
<1>6. Len(accepted') = t + Len(queue') - 1 /\ q \in 0..Len(queue') /\ q # 0
  BY <1>2, <1>3, <1>4, <1>5
<1>7. ASSUME NEW k \in 1..Len(queue')
      PROVE  queue'[k] = IF k = q THEN STOP
                         ELSE IF k < q THEN accepted'[t + k] ELSE accepted'[t + k - 1]
  <2>1. k = q \/ (k \in 1..Len(queue) /\ k < q)
    BY <1>2, <1>5
  <2>. QED  BY <1>2, <1>3, <1>4, <1>5, <2>1
<1>8. QueueLayout(t, q)'
  BY <1>3, <1>6, <1>7 DEF QueueLayout
<1>. QED  BY <1>6, <1>8

-----------------------------------------------------------------------------
(* The writer thread. *)

(* The counters and the lengths are numbers. *)
LEMMA Numbers ==
    ASSUME TypeOK, NEW t \in 0..Len(accepted), NEW x \in 0..Len(accepted)
    PROVE  /\ Len(accepted) \in Nat /\ t \in Nat /\ x \in Nat /\ t <= Len(accepted)
           /\ x <= Len(accepted)
           /\ Len(Open) \in Nat /\ Len(held) \in Nat /\ Len(batch) \in Nat /\ Len(pending) \in Nat
           /\ Len(log) \in Nat /\ cursor \in Nat /\ cursor >= 1
           /\ DOMAIN log = 1..Len(log) /\ DOMAIN accepted = 1..Len(accepted)
<1>1. /\ Len(accepted) \in Nat /\ Len(held) \in Nat /\ Len(batch) \in Nat /\ Len(pending) \in Nat
      /\ Len(log) \in Nat /\ DOMAIN log = 1..Len(log) /\ DOMAIN accepted = 1..Len(accepted)
  BY LenProperties DEF TypeOK
<1>2. Len(Open) \in Nat
  BY <1>1 DEF Open
<1>3. cursor \in Nat /\ cursor >= 1
  BY DEF TypeOK
<1>. QED  BY <1>1, <1>2, <1>3

(* What the thread does after a batch. *)
LEMMA AfterBatchLayout ==
    ASSUME TypeOK, NEW t \in 0..Len(accepted), NEW x \in 0..Len(accepted), WriterLayout(t, x),
           mode \notin {"get", "dead"}, AfterBatch, UNCHANGED accepted
    PROVE  \E y \in 0..Len(accepted) : /\ WriterLayout(t, y)' /\ ~Written'
                                       /\ NoneCancelled => y = x + Len(batch)
<1>0. /\ Len(accepted) \in Nat /\ t \in Nat /\ x \in Nat /\ t <= Len(accepted)
      /\ Len(held) \in Nat /\ Len(batch) \in Nat /\ Open = batch
      /\ x + Len(batch) + Len(held) <= t
      /\ Len(<<>>) = 0
  BY Numbers DEF Open, WriterLayout
<1>1. CASE held = <<>>
  <2>1. /\ held' = <<>> /\ pending' = <<>> /\ batch' = <<>> /\ mode' \in {"get", "dead"}
        /\ Open' = <<>>
    BY <1>1 DEF AfterBatch, Open
  <2>2. NoneCancelled => t = x + Len(batch)
    BY <1>0, <1>1 DEF WriterLayout
  <2>3. WriterLayout(t, t)' /\ ~Written'
    BY <1>0, <2>1 DEF WriterLayout, Written
  <2>. QED  BY <2>2, <2>3
<1>2. CASE held # <<>>
  <2>1. /\ held' = <<>> /\ pending' = <<>> /\ batch' = held /\ mode' = "commit" /\ cursor' = 1
        /\ Open' = held
    BY <1>2 DEF AfterBatch, Open
  <2>2. Len(held) = 1 /\ held[1] = accepted[t]
    BY <1>2 DEF WriterLayout
  <2>3. PICK y \in 0..Len(accepted) : y + 1 = t
    <3>1. t - 1 \in 0..Len(accepted) /\ (t - 1) + 1 = t
      BY <1>0, <2>2
    <3>. QED  BY <3>1
  <2>4. NoneCancelled => y = x + Len(batch)
    BY <1>0, <2>2, <2>3 DEF WriterLayout
  <2>5. WriterLayout(t, y)' /\ ~Written'
    BY <1>0, <2>1, <2>2, <2>3 DEF WriterLayout, Written
  <2>. QED  BY <2>4, <2>5
<1>. QED  BY <1>1, <1>2

(* The answers are laid out as before when nothing but the mode changes.   *)
LEMMA AnswersKept ==
    ASSUME NEW x, AnswersLayout(x), UNCHANGED <<accepted, log, future>>, ~Written, ~Written'
    PROVE  AnswersLayout(x)'
BY DEF AnswersLayout, Answered, Waiting, InLog, WL!InOrder, WL!AcceptedBefore

(* The books are kept when nothing is accepted, logged or answered. *)
LEMMA BooksKept ==
    ASSUME Bookkeeping, UNCHANGED <<accepted, log, future>>,
           ~Written' \/ (Written /\ batch' = batch)
    PROVE  Bookkeeping'
BY DEF Bookkeeping, InLog, AcknowledgedIsDurable

Laid == \E t, x \in 0..Len(accepted), p \in 0..Len(queue) : LayoutInv(t, p, x)

(* The thread takes an element from the queue. *)
LEMMA TakeLayout ==
    ASSUME TypeOK, Bookkeeping, Laid, GetStop \/ GetCritical \/ GetRoutine
    PROVE  Bookkeeping' /\ Laid'
<1>1. PICK t, x \in 0..Len(accepted), p \in 0..Len(queue) : LayoutInv(t, p, x)
  BY DEF Laid
<1>2. /\ mode = "get" /\ queue # <<>> /\ queue' = Tail(queue)
      /\ UNCHANGED <<accepted, log, future, stopper>>
  BY DEF GetStop, GetCritical, GetRoutine
<1>3. /\ Len(accepted) \in Nat /\ t \in Nat /\ x \in Nat /\ Len(pending) \in Nat /\ t <= Len(accepted)
      /\ Open = pending /\ held = <<>> /\ x + Len(pending) = t /\ ~Written /\ Len(<<>>) = 0
      /\ \A k \in 1..Len(pending) : pending[k] = accepted[x + k]
  BY <1>1, <1>2, Numbers DEF Open, LayoutInv, WriterLayout, Written
<1>4. ~Written'
  BY <1>2 DEF GetStop, GetCritical, GetRoutine, BeginCommit, Written
<1>5. NoneCancelled' => AnswersLayout(x)'
  BY <1>1, <1>2, <1>3, <1>4, AnswersKept DEF LayoutInv, NoneCancelled
<1>6. Bookkeeping'
  BY <1>2, <1>4, BooksKept
<1>7. CASE GetStop
  <2>1. \E q \in 0..Len(queue') : QueueLayout(t, q)'
    BY <1>1, <1>2, <1>7, QueueTaken DEF GetStop, LayoutInv
  <2>2. Open' = pending /\ mode' = "commit" /\ batch' = pending /\ cursor' = 1
        /\ UNCHANGED <<pending, held>>
    BY <1>7 DEF GetStop, BeginCommit, Open
  <2>3. WriterLayout(t, x)'
    BY <1>2, <1>3, <2>2 DEF WriterLayout
  <2>. QED  BY <1>2, <1>5, <1>6, <2>1, <2>3 DEF Laid, LayoutInv
<1>8. CASE GetCritical \/ GetRoutine
  <2>1. Head(queue) \in Ops
    BY <1>8, DBWriterAssumption DEF GetCritical, GetRoutine
  <2>2. t + 1 \in 0..Len(accepted') /\ accepted[t + 1] = Head(queue)
        /\ \E q \in 0..Len(queue') : QueueLayout(t + 1, q)'
    BY <1>1, <1>2, <2>1, QueueTaken DEF LayoutInv
  <2>3. WriterLayout(t + 1, x)'
    <3>1. CASE GetCritical
      <4>1. Open' = pending /\ mode' = "commit" /\ batch' = pending /\ cursor' = 1
            /\ pending' = pending /\ held' = <<Head(queue)>>
        BY <3>1 DEF GetCritical, BeginCommit, Open
      <4>2. held' # <<>> /\ Len(held') = 1 /\ held'[1] = accepted[t + 1]
        BY <2>2, <4>1
      <4>. QED  BY <1>2, <1>3, <4>1, <4>2 DEF WriterLayout
    <3>2. CASE GetRoutine
      <4>1. /\ pending' = Append(pending, Head(queue)) /\ held' = held
            /\ mode' \in {"get", "commit"}
            /\ mode' = "commit" => batch' = pending' /\ cursor' = 1
        BY <1>2, <3>2 DEF GetRoutine, BeginCommit
      <4>2. Open' = pending'
        BY <4>1 DEF Open
      <4>3. /\ Len(pending') = Len(pending) + 1 /\ pending'[Len(pending) + 1] = accepted[t + 1]
            /\ \A k \in 1..Len(pending) : pending'[k] = pending[k]
        BY <2>1, <2>2, <4>1, AppendProperties DEF TypeOK
      <4>4. ASSUME NEW k \in 1..Len(pending') PROVE pending'[k] = accepted[x + k]
        <5>1. k = Len(pending) + 1 \/ k \in 1..Len(pending)
          BY <1>3, <4>3
        <5>2. x + (Len(pending) + 1) = t + 1
          BY <1>3
        <5>. QED  BY <1>3, <4>3, <5>1, <5>2
      <4>5. x + Len(pending') = t + 1
        BY <1>3, <4>3
      <4>. QED  BY <1>2, <1>3, <4>1, <4>2, <4>4, <4>5 DEF WriterLayout
    <3>. QED  BY <1>8, <3>1, <3>2
  <2>. QED  BY <1>2, <1>5, <1>6, <2>2, <2>3 DEF Laid, LayoutInv
<1>. QED  BY <1>7, <1>8

(* It commits what it has collected, or dies of a cancelled future.        *)
LEMMA TurnLayout ==
    ASSUME TypeOK, Bookkeeping, Laid, FlushInterval \/ SetResultRaises, NoneCancelled' => NoneCancelled
    PROVE  Bookkeeping' /\ Laid'
<1>1. PICK t, x \in 0..Len(accepted), p \in 0..Len(queue) : LayoutInv(t, p, x)
  BY DEF Laid
<1>2. UNCHANGED <<queue, accepted, log, future, stopper>> /\ ~Written'
  BY DEF FlushInterval, SetResultRaises, BeginCommit, Written
<1>3. Bookkeeping'
  BY <1>2, BooksKept
<1>4. QueueLayout(t, p)'
  BY <1>1, <1>2, QueueKept DEF LayoutInv
<1>5. CASE FlushInterval
  <2>1. /\ mode = "get" /\ mode' = "commit" /\ batch' = pending /\ cursor' = 1
        /\ UNCHANGED <<pending, held>>
    BY <1>5 DEF FlushInterval, BeginCommit
  <2>2. WriterLayout(t, x)'
    BY <1>1, <1>2, <2>1 DEF LayoutInv, WriterLayout, Open, NoneCancelled
  <2>3. NoneCancelled' => AnswersLayout(x)'
    BY <1>1, <1>2, <2>1, AnswersKept DEF LayoutInv, Written
  <2>. QED  BY <1>2, <1>3, <1>4, <2>2, <2>3 DEF Laid, LayoutInv
<1>6. CASE SetResultRaises
  <2>1. mode = "set_result" /\ Settled(batch[cursor]) /\ held' = <<>>
    BY <1>6 DEF SetResultRaises
  <2>2. /\ Len(accepted) \in Nat /\ t \in Nat /\ x \in Nat /\ Len(batch) \in Nat /\ Len(held) \in Nat
        /\ t <= Len(accepted) /\ cursor \in Nat /\ cursor >= 1 /\ Open = batch /\ cursor <= Len(batch)
        /\ x + Len(batch) + Len(held) <= t /\ pending \in {<<>>, batch} /\ Len(<<>>) = 0
        /\ \A k \in 1..Len(batch) : batch[k] = accepted[x + k]
    BY <1>1, <2>1, Numbers DEF Open, LayoutInv, WriterLayout
  <2>3. ~NoneCancelled
    <3>1. cursor \in 1..Len(batch)
      BY <2>2
    <3>. QED  BY <1>1, <2>1, <3>1 DEF LayoutInv, AnswersLayout, Written, Settled
  <2>4. WriterLayout(t, x)'
    <3>1. CASE pending # <<>> /\ leaving # "finally"
      <4>1. mode' = "commit" /\ batch' = batch /\ pending' = batch /\ cursor' = 1 /\ Open' = batch
        BY <1>6, <2>2, <3>1 DEF SetResultRaises, BeginCommit, Open
      <4>. QED  BY <1>2, <2>1, <2>2, <2>3, <4>1 DEF WriterLayout
    <3>2. CASE ~(pending # <<>> /\ leaving # "finally")
      <4>1. mode' = "dead" /\ pending' = <<>> /\ Open' = <<>>
        BY <1>6, <3>2 DEF SetResultRaises, Open
      <4>. QED  BY <1>2, <2>1, <2>2, <2>3, <4>1 DEF WriterLayout
    <3>. QED  BY <3>1, <3>2
  <2>. QED  BY <1>2, <1>3, <1>4, <2>3, <2>4 DEF Laid, LayoutInv
<1>. QED  BY <1>5, <1>6

(* A batch that is rolled back is refused, one that is empty leaves no     *)
(* answer to give, and a resolved one has been answered.                   *)
LEMMA EndLayout ==
    ASSUME TypeOK, Bookkeeping, Laid, CommitNothing \/ Rollback \/ Resolved,
           NoneCancelled' => NoneCancelled
    PROVE  Bookkeeping' /\ Laid'
<1>1. PICK t, x \in 0..Len(accepted), p \in 0..Len(queue) : LayoutInv(t, p, x)
  BY DEF Laid
<1>2. /\ mode \notin {"get", "dead"} /\ AfterBatch
      /\ UNCHANGED <<queue, accepted, log, stopper>>
  BY DEF CommitNothing, Rollback, Resolved
<1>3. /\ Len(accepted) \in Nat /\ t \in Nat /\ x \in Nat /\ Len(batch) \in Nat /\ t <= Len(accepted)
      /\ Len(held) \in Nat /\ cursor \in Nat
      /\ x + Len(batch) + Len(held) <= t
      /\ \A k \in 1..Len(batch) : batch[k] = accepted[x + k]
  BY <1>1, <1>2, Numbers DEF Open, LayoutInv, WriterLayout
<1>4. PICK y \in 0..Len(accepted) : /\ WriterLayout(t, y)' /\ ~Written'
                                    /\ NoneCancelled => y = x + Len(batch)
  BY <1>1, <1>2, AfterBatchLayout DEF LayoutInv
<1>5. QueueLayout(t, p)'
  BY <1>1, <1>2, QueueKept DEF LayoutInv
<1>6. Bookkeeping'
  <2>1. CASE CommitNothing \/ Resolved
    BY <1>4, <2>1, BooksKept DEF CommitNothing, Resolved
  <2>2. CASE Rollback
    <3>1. \A o \in Ops : future'[o] = future[o] \/ (future[o] \notin {"ok"} /\ future'[o] = "failed")
      BY <2>2 DEF Rollback, Settled, TypeOK
    <3>2. \A i \in 1..Len(accepted) : accepted[i] \in Ops
      BY ElementOfSeq DEF TypeOK
    <3>. QED  BY <1>2, <1>4, <3>1, <3>2 DEF Bookkeeping, AcknowledgedIsDurable, InLog
  <2>. QED  BY <1>2, <2>1, <2>2
<1>7. ASSUME NoneCancelled' PROVE AnswersLayout(y)'
  <2>1. NoneCancelled /\ AnswersLayout(x) /\ y = x + Len(batch)
    BY <1>1, <1>4, <1>7 DEF LayoutInv
  <2>2. CASE CommitNothing
    <3>1. y = x /\ ~Written
      <4>. batch = <<>> /\ mode = "commit"
        BY <2>2 DEF CommitNothing
      <4>. QED  BY <1>3, <2>1 DEF Written
    <3>. QED  BY <1>4, <2>1, <2>2, <3>1, AnswersKept DEF CommitNothing
  <2>3. CASE Resolved
    <3>1. Written /\ cursor > Len(batch) /\ UNCHANGED future
      BY <2>3 DEF Resolved, Written
    <3>2. ASSUME NEW i \in 1..Len(accepted), i <= y PROVE Answered(accepted[i])
      <4>1. CASE i <= x
        BY <2>1, <4>1 DEF AnswersLayout
      <4>2. CASE i > x
        <5>1. PICK k \in 1..Len(batch) : i = x + k
          <6>1. i - x \in 1..Len(batch) /\ i = x + (i - x)
            BY <1>3, <2>1, <3>2, <4>2
          <6>. QED  BY <6>1
        <5>2. future[batch[k]] = "ok"
          BY <1>3, <2>1, <3>1, <5>1 DEF AnswersLayout
        <5>3. InLog(batch[k])
          BY <3>1, <5>1 DEF Bookkeeping
        <5>. QED  BY <1>3, <5>1, <5>2, <5>3 DEF Answered
      <4>. QED  BY <1>3, <4>1, <4>2
    <3>3. \A i \in 1..Len(accepted) : i > y => Waiting(accepted[i])
      BY <2>1, <3>1 DEF AnswersLayout
    <3>. QED  BY <1>2, <1>4, <2>1, <3>1, <3>2, <3>3
              DEF AnswersLayout, Answered, Waiting, InLog, WL!InOrder, WL!AcceptedBefore
  <2>4. CASE Rollback
    <3>1. /\ ~Written
          /\ future' = [o \in Ops |-> IF o \in ToSet(batch) /\ ~Settled(o)
                                        THEN "failed" ELSE future[o]]
      BY <2>4 DEF Rollback, Written
    <3>2. ToSet(batch) = {batch[k] : k \in 1..Len(batch)}
      BY LenProperties DEF TypeOK, ToSet
    <3>3. \A i \in 1..Len(accepted) : accepted[i] \in Ops
      BY ElementOfSeq DEF TypeOK
    <3>4. ASSUME NEW i \in 1..Len(accepted), i <= x PROVE Answered(accepted[i])'
      <4>1. Answered(accepted[i])
        BY <2>1, <3>4 DEF AnswersLayout
      <4>2. future'[accepted[i]] = future[accepted[i]]
        BY <3>1, <3>3, <4>1 DEF Answered, Settled
      <4>. QED  BY <1>2, <4>1, <4>2 DEF Answered, InLog
    <3>5. ASSUME NEW i \in 1..Len(accepted), i > x, i <= y PROVE Answered(accepted[i])'
      <4>1. Waiting(accepted[i])
        BY <2>1, <3>1, <3>5 DEF AnswersLayout
      <4>2. PICK k \in 1..Len(batch) : i = x + k
        <5>1. i - x \in 1..Len(batch) /\ i = x + (i - x)
          BY <1>3, <2>1, <3>5
        <5>. QED  BY <5>1
      <4>3. accepted[i] \in ToSet(batch) /\ ~Settled(accepted[i])
        BY <1>3, <3>2, <4>1, <4>2 DEF Waiting, Settled
      <4>. QED  BY <1>2, <3>1, <3>3, <4>1, <4>3 DEF Answered, Waiting, InLog
    <3>6. ASSUME NEW i \in 1..Len(accepted), i > y PROVE Waiting(accepted[i])'
      <4>0. i > x
        BY <1>3, <2>1, <3>6
      <4>1. Waiting(accepted[i])
        BY <2>1, <3>1, <4>0 DEF AnswersLayout
      <4>2. accepted[i] \notin ToSet(batch)
        <5>. SUFFICES ASSUME NEW k \in 1..Len(batch), accepted[i] = batch[k] PROVE FALSE
          BY <3>2
        <5>1. x + k \in 1..Len(accepted) /\ x + k # i
          BY <1>3, <2>1, <3>6
        <5>. QED  BY <1>3, <5>1 DEF Bookkeeping
      <4>3. future'[accepted[i]] = future[accepted[i]]
        BY <3>1, <3>3, <4>2
      <4>. QED  BY <1>2, <4>1, <4>3 DEF Waiting, InLog
    <3>7. WL!InOrder(log)'
      BY <1>2, <2>1 DEF AnswersLayout, WL!InOrder, WL!AcceptedBefore
    <3>8. \A i \in 1..Len(accepted) : i <= y => Answered(accepted[i])'
      BY <1>3, <3>4, <3>5
    <3>. QED  BY <1>2, <1>4, <3>6, <3>7, <3>8 DEF AnswersLayout
  <2>. QED  BY <2>2, <2>3, <2>4
<1>. QED  BY <1>2, <1>4, <1>5, <1>6, <1>7 DEF Laid, LayoutInv

(* The log that a batch is appended to. *)
LEMMA LogGrows ==
    ASSUME TypeOK, log' = log \o batch
    PROVE  /\ DOMAIN log' = 1..(Len(log) + Len(batch)) /\ DOMAIN log = 1..Len(log)
           /\ Len(log') = Len(log) + Len(batch)
           /\ \A i \in 1..Len(log) : log'[i] = log[i]
           /\ \A k \in 1..Len(batch) : Len(log) + k \in DOMAIN log' /\ log'[Len(log) + k] = batch[k]
           /\ \A i \in DOMAIN log' : i \in 1..Len(log)
                                     \/ \E k \in 1..Len(batch) : i = Len(log) + k
           /\ \A o \in Ops : InLog(o)' <=> InLog(o) \/ \E k \in 1..Len(batch) : batch[k] = o
<1>1. Len(log) \in Nat /\ Len(batch) \in Nat /\ DOMAIN log = 1..Len(log)
  BY LenProperties DEF TypeOK
<1>2. /\ log' \in Seq(Ops) /\ Len(log') = Len(log) + Len(batch)
      /\ \A i \in 1..(Len(log) + Len(batch)) :
            log'[i] = IF i <= Len(log) THEN log[i] ELSE batch[i - Len(log)]
  BY ConcatProperties DEF TypeOK
<1>3. DOMAIN log' = 1..(Len(log) + Len(batch))
  BY <1>2, LenProperties
<1>4. \A i \in 1..Len(log) : log'[i] = log[i]
  BY <1>1, <1>2
<1>5. ASSUME NEW k \in 1..Len(batch)
      PROVE  Len(log) + k \in DOMAIN log' /\ log'[Len(log) + k] = batch[k]
  <2>1. Len(log) + k \in 1..(Len(log) + Len(batch)) /\ ~(Len(log) + k <= Len(log))
        /\ Len(log) + k - Len(log) = k
    BY <1>1
  <2>. QED  BY <1>2, <1>3, <2>1
<1>6. ASSUME NEW i \in DOMAIN log'
      PROVE  i \in 1..Len(log) \/ \E k \in 1..Len(batch) : i = Len(log) + k
  <2>1. CASE i > Len(log)
    <3>1. i - Len(log) \in 1..Len(batch) /\ i = Len(log) + (i - Len(log))
      BY <1>1, <1>3, <2>1
    <3>. QED  BY <3>1
  <2>. QED  BY <1>1, <1>3, <2>1
<1>7. ASSUME NEW o \in Ops
      PROVE  InLog(o)' <=> InLog(o) \/ \E k \in 1..Len(batch) : batch[k] = o
  <2>1. ASSUME InLog(o)' PROVE InLog(o) \/ \E k \in 1..Len(batch) : batch[k] = o
    <3>1. PICK i \in DOMAIN log' : log'[i] = o
      BY <2>1 DEF InLog
    <3>. QED  BY <1>1, <1>4, <1>5, <1>6, <3>1 DEF InLog
  <2>2. ASSUME InLog(o) PROVE InLog(o)'
    <3>1. PICK i \in DOMAIN log : log[i] = o
      BY <2>2 DEF InLog
    <3>2. i \in DOMAIN log'
      BY <1>1, <1>3, <3>1
    <3>. QED  BY <1>1, <1>4, <3>1, <3>2 DEF InLog
  <2>3. ASSUME NEW k \in 1..Len(batch), batch[k] = o PROVE InLog(o)'
    BY <1>5, <2>3 DEF InLog
  <2>. QED  BY <2>1, <2>2, <2>3
<1>. QED  BY <1>1, <1>2, <1>3, <1>4, <1>5, <1>6, <1>7

(* The order of acceptance is kept. *)
LEMMA CommitInOrder ==
    ASSUME TypeOK, Bookkeeping, NEW x \in 0..Len(accepted), AnswersLayout(x), ~Written,
           \A k \in 1..Len(batch) : x + k \in 1..Len(accepted) /\ batch[k] = accepted[x + k],
           log' = log \o batch
    PROVE  WL!InOrder(log')
<1>0. /\ Len(log) \in Nat /\ Len(batch) \in Nat /\ Len(accepted) \in Nat /\ x \in Nat
      /\ DOMAIN log = 1..Len(log) /\ DOMAIN accepted = 1..Len(accepted)
  BY LenProperties DEF TypeOK
<1>1. ASSUME NEW i \in 1..Len(log)
      PROVE  \E a \in 1..Len(accepted) : a <= x /\ log[i] = accepted[a]
  <2>1. PICK a \in 1..Len(accepted) : log[i] = accepted[a]
    BY DEF Bookkeeping
  <2>2. InLog(accepted[a])
    BY <1>0, <2>1 DEF InLog
  <2>3. ~(a > x)
    BY <2>2 DEF AnswersLayout, Waiting
  <2>. QED  BY <1>0, <2>1, <2>3
<1>. SUFFICES ASSUME NEW i \in DOMAIN log', NEW j \in DOMAIN log', i < j
              PROVE  WL!AcceptedBefore(log'[i], log'[j])
  BY DEF WL!InOrder
<1>2. CASE i \in 1..Len(log) /\ j \in 1..Len(log)
  BY <1>0, <1>2, LogGrows DEF AnswersLayout, WL!InOrder
<1>3. ASSUME i \in 1..Len(log), NEW k \in 1..Len(batch), j = Len(log) + k
      PROVE  WL!AcceptedBefore(log'[i], log'[j])
  <2>1. PICK a \in 1..Len(accepted) : a <= x /\ log[i] = accepted[a]
    BY <1>1, <1>3
  <2>2. log'[i] = accepted[a] /\ log'[j] = accepted[x + k] /\ a < x + k
    BY <1>0, <1>3, <2>1, LogGrows
  <2>. QED  BY <1>0, <2>2 DEF WL!AcceptedBefore
<1>4. ASSUME NEW m \in 1..Len(batch), NEW k \in 1..Len(batch), i = Len(log) + m, j = Len(log) + k
      PROVE  WL!AcceptedBefore(log'[i], log'[j])
  <2>1. log'[i] = accepted[x + m] /\ log'[j] = accepted[x + k] /\ x + m < x + k
    BY <1>0, <1>4, LogGrows
  <2>. QED  BY <1>0, <2>1 DEF WL!AcceptedBefore
<1>5. ~(j \in 1..Len(log) /\ i \notin 1..Len(log))
  BY <1>0, LogGrows
<1>. QED  BY <1>2, <1>3, <1>4, <1>5, LogGrows

(* A batch is committed. *)
LEMMA CommitLayout ==
    ASSUME TypeOK, Bookkeeping, Laid, Commit, NoneCancelled' => NoneCancelled
    PROVE  Bookkeeping' /\ Laid'
<1>1. PICK t, x \in 0..Len(accepted), p \in 0..Len(queue) : LayoutInv(t, p, x)
  BY DEF Laid
<1>2. /\ mode = "commit" /\ mode' = "resolve" /\ log' = log \o batch
      /\ UNCHANGED <<queue, pending, batch, held, leaving, cursor, accepted, future, stopper>>
  BY DEF Commit
<1>3. /\ Len(accepted) \in Nat /\ t \in Nat /\ x \in Nat /\ Len(batch) \in Nat /\ t <= Len(accepted)
      /\ x + Len(batch) <= t /\ Open = batch /\ Open' = batch /\ cursor = 1 /\ ~Written /\ Written'
      /\ \A k \in 1..Len(batch) : x + k \in 1..Len(accepted) /\ batch[k] = accepted[x + k]
  BY <1>1, <1>2, Numbers DEF Open, Written, LayoutInv, WriterLayout
<1>4. \A i \in 1..Len(accepted) : accepted[i] \in Ops
  BY ElementOfSeq DEF TypeOK
<1>9. UNCHANGED <<accepted, batch, future, cursor>>
  BY <1>2
<1>5. Bookkeeping'
  <2>1. \A i \in DOMAIN log' : \E j \in 1..Len(accepted) : log'[i] = accepted[j]
    <3>. SUFFICES ASSUME NEW i \in DOMAIN log'
                  PROVE  \E j \in 1..Len(accepted) : log'[i] = accepted[j]
      OBVIOUS
    <3>1. ASSUME i \in 1..Len(log) PROVE \E j \in 1..Len(accepted) : log'[i] = accepted[j]
      <4>1. log'[i] = log[i]
        BY <1>2, <3>1, LogGrows
      <4>. QED  BY <3>1, <4>1 DEF Bookkeeping
    <3>2. ASSUME NEW k \in 1..Len(batch), i = Len(log) + k
          PROVE  \E j \in 1..Len(accepted) : log'[i] = accepted[j]
      <4>1. log'[i] = batch[k]
        BY <1>2, <3>2, LogGrows
      <4>. QED  BY <1>3, <4>1
    <3>3. i \in 1..Len(log) \/ \E k \in 1..Len(batch) : i = Len(log) + k
      BY <1>2, LogGrows
    <3>. QED  BY <3>1, <3>2, <3>3
  <2>2. \A k \in 1..Len(batch) : InLog(batch[k])'
    BY <1>2, <1>3, <1>4, LogGrows
  <2>3. \A o \in Ops : InLog(o) => InLog(o)'
    BY <1>2, LogGrows
  <2>4. DOMAIN log' = 1..Len(log')
    BY <1>2, LogGrows
  <2>5. AcknowledgedIsDurable'
    BY <1>2, <2>3 DEF Bookkeeping, AcknowledgedIsDurable
  <2>6. /\ \A i, j \in 1..Len(accepted') : accepted'[i] = accepted'[j] => i = j
        /\ \A i \in 1..Len(accepted') : future'[accepted'[i]] \notin {"none", "entering"}
    BY <1>2 DEF Bookkeeping
  <2>7. \A k \in 1..Len(batch') : \E i \in DOMAIN log' : log'[i] = batch'[k]
    BY <1>9, <2>2 DEF InLog
  <2>8. \A i \in 1..Len(log') : \E j \in 1..Len(accepted') : log'[i] = accepted'[j]
    BY <1>9, <2>1, <2>4
  <2>. QED  BY <2>5, <2>6, <2>7, <2>8 DEF Bookkeeping, InLog
<1>6. QueueLayout(t, p)'
  BY <1>1, <1>2, QueueKept DEF LayoutInv
<1>7. WriterLayout(t, x)'
  BY <1>1, <1>2, <1>3 DEF LayoutInv, WriterLayout, NoneCancelled
<1>8. ASSUME NoneCancelled' PROVE AnswersLayout(x)'
  <2>1. AnswersLayout(x)
    BY <1>1, <1>8 DEF LayoutInv
  <2>2. ASSUME NEW i \in 1..Len(accepted), NEW k \in 1..Len(batch), batch[k] = accepted[i]
        PROVE  i = x + k
    BY <1>3, <2>2 DEF Bookkeeping
  <2>3. ASSUME NEW i \in 1..Len(accepted), i <= x \/ i > x + Len(batch)
        PROVE  InLog(accepted[i])' <=> InLog(accepted[i])
    <3>1. ~\E k \in 1..Len(batch) : batch[k] = accepted[i]
      <4>. SUFFICES ASSUME NEW k \in 1..Len(batch), batch[k] = accepted[i] PROVE FALSE
        OBVIOUS
      <4>1. i = x + k
        BY <2>2
      <4>. QED  BY <1>3, <2>3, <4>1
    <3>. QED  BY <1>2, <1>4, <3>1, LogGrows
  <2>4. \A i \in 1..Len(accepted) : i <= x => Answered(accepted[i])'
    BY <1>2, <2>1, <2>3 DEF AnswersLayout, Answered
  <2>5. ASSUME NEW i \in 1..Len(accepted), i > x + Len(batch) PROVE Waiting(accepted[i])'
    <3>1. Waiting(accepted[i])
      <4>. i > x
        BY <1>3, <2>5
      <4>. QED  BY <1>3, <2>1 DEF AnswersLayout
    <3>. QED  BY <1>2, <2>3, <2>5, <3>1 DEF Waiting
  <2>6. ASSUME NEW k \in 1..Len(batch)
        PROVE  future'[batch[k]] = IF k < cursor' THEN "ok" ELSE "pending"
    <3>1. Waiting(batch[k])
      <4>. x + k \in 1..Len(accepted) /\ x + k > x /\ batch[k] = accepted[x + k]
        BY <1>3
      <4>. QED  BY <1>3, <2>1 DEF AnswersLayout
    <3>. QED  BY <1>2, <1>3, <3>1 DEF Waiting
  <2>7. WL!InOrder(log)'
    <3>1. WL!InOrder(log')
      BY <1>2, <1>3, <2>1, CommitInOrder
    <3>2. ASSUME NEW i \in DOMAIN log', NEW j \in DOMAIN log', i < j
          PROVE  \E a, b \in DOMAIN accepted :
                    a < b /\ accepted[a] = log'[i] /\ accepted[b] = log'[j]
      BY <3>1, <3>2 DEF WL!InOrder, WL!AcceptedBefore
    <3>. QED  BY <1>9, <3>2 DEF WL!InOrder, WL!AcceptedBefore
  <2>. QED  BY <1>2, <1>3, <2>4, <2>5, <2>6, <2>7 DEF AnswersLayout
<1>. QED  BY <1>2, <1>5, <1>6, <1>7, <1>8 DEF Laid, LayoutInv

(* The futures of a batch are resolved. *)
LEMMA ResolveLayout ==
    ASSUME TypeOK, Bookkeeping, Laid, CheckDone \/ SetResult, NoneCancelled' => NoneCancelled
    PROVE  Bookkeeping' /\ Laid'
<1>1. PICK t, x \in 0..Len(accepted), p \in 0..Len(queue) : LayoutInv(t, p, x)
  BY DEF Laid
<1>2. /\ Written /\ Written'
      /\ UNCHANGED <<queue, pending, batch, held, leaving, log, accepted, stopper>>
  BY DEF CheckDone, SetResult, Written
<1>3. /\ Len(accepted) \in Nat /\ t \in Nat /\ x \in Nat /\ Len(batch) \in Nat /\ t <= Len(accepted)
      /\ x + Len(batch) <= t /\ Open = batch /\ Open' = batch
      /\ cursor \in Nat /\ cursor >= 1 /\ cursor <= Len(batch) /\ cursor \in 1..Len(batch)
      /\ \A k \in 1..Len(batch) : x + k \in 1..Len(accepted) /\ batch[k] = accepted[x + k]
  <2>1. cursor <= Len(batch)
    BY <1>1 DEF CheckDone, SetResult, LayoutInv, WriterLayout
  <2>. QED  BY <1>1, <1>2, <2>1, Numbers DEF Open, Written, LayoutInv, WriterLayout
<1>4. QueueLayout(t, p)'
  BY <1>1, <1>2, QueueKept DEF LayoutInv
<1>5. WriterLayout(t, x)'
  <2>1. mode' \in {"resolve", "set_result"} /\ mode \in {"resolve", "set_result"}
        /\ (mode' = "set_result" => cursor' = cursor)
    BY DEF CheckDone, SetResult
  <2>. QED  BY <1>1, <1>2, <1>3, <2>1 DEF LayoutInv, WriterLayout
<1>6. CASE CheckDone
  <2>1. UNCHANGED future /\ (cursor' = cursor \/ (Settled(batch[cursor]) /\ cursor' = cursor + 1))
    BY <1>6 DEF CheckDone
  <2>2. Bookkeeping'
    BY <1>2, <2>1, BooksKept
  <2>3. ASSUME NoneCancelled' PROVE AnswersLayout(x)'
    <3>1. AnswersLayout(x)
      BY <1>1, <2>3 DEF LayoutInv
    <3>2. cursor' = cursor
      BY <1>2, <1>3, <2>1, <3>1 DEF AnswersLayout, Settled
    <3>. QED  BY <1>2, <2>1, <3>1, <3>2
              DEF AnswersLayout, Answered, Waiting, InLog, WL!InOrder, WL!AcceptedBefore
  <2>. QED  BY <1>2, <1>4, <1>5, <2>2, <2>3 DEF Laid, LayoutInv
<1>7. CASE SetResult
  <2>1. future' = [future EXCEPT ![batch[cursor]] = "ok"] /\ cursor' = cursor + 1
    BY <1>7 DEF SetResult
  <2>2. \A o \in Ops : InLog(o)' <=> InLog(o)
    BY <1>2 DEF InLog
  <2>3. \A i \in 1..Len(accepted) : accepted[i] \in Ops
    BY ElementOfSeq DEF TypeOK
  <2>4. batch[cursor] \in Ops /\ future'[batch[cursor]] = "ok"
        /\ \A o \in Ops : o # batch[cursor] => future'[o] = future[o]
    BY <1>3, <2>1, <2>3 DEF TypeOK
  <2>5. Bookkeeping'
    <3>1. InLog(batch[cursor])
      BY <1>2, <1>3 DEF Bookkeeping
    <3>2. AcknowledgedIsDurable'
      BY <2>2, <2>4, <3>1 DEF Bookkeeping, AcknowledgedIsDurable
    <3>3. \A i \in 1..Len(accepted) : future'[accepted[i]] \notin {"none", "entering"}
      BY <2>3, <2>4 DEF Bookkeeping
    <3>. QED  BY <1>2, <3>2, <3>3 DEF Bookkeeping, InLog
  <2>6. ASSUME NoneCancelled' PROVE AnswersLayout(x)'
    <3>1. AnswersLayout(x)
      BY <1>1, <2>6 DEF LayoutInv
    <3>2. \A i \in 1..Len(accepted) : accepted[i] = batch[cursor] => i = x + cursor
      BY <1>3 DEF Bookkeeping
    <3>3. ASSUME NEW i \in 1..Len(accepted), i <= x PROVE Answered(accepted[i])'
      <4>1. accepted[i] # batch[cursor]
        BY <1>3, <3>2, <3>3
      <4>. QED  BY <1>2, <2>2, <2>3, <2>4, <3>1, <3>3, <4>1 DEF AnswersLayout, Answered
    <3>4. ASSUME NEW i \in 1..Len(accepted), i > x + Len(batch) PROVE Waiting(accepted[i])'
      <4>1. accepted[i] # batch[cursor]
        BY <1>3, <3>2, <3>4
      <4>. QED  BY <1>2, <2>2, <2>3, <2>4, <3>1, <3>4, <4>1 DEF AnswersLayout, Waiting
    <3>5. ASSUME NEW k \in 1..Len(batch)
          PROVE  future'[batch[k]] = IF k < cursor' THEN "ok" ELSE "pending"
      <4>1. CASE k = cursor
        BY <1>3, <2>1, <2>4, <4>1
      <4>2. CASE k # cursor
        <5>1. batch[k] # batch[cursor] /\ batch[k] \in Ops
          <6>1. x + k \in 1..Len(accepted) /\ batch[k] = accepted[x + k] /\ k \in Nat
            BY <1>3
          <6>2. x + k # x + cursor
            BY <1>3, <4>2, <6>1
          <6>. QED  BY <2>3, <3>2, <6>1, <6>2
        <5>2. future'[batch[k]] = IF k < cursor THEN "ok" ELSE "pending"
          BY <1>2, <2>4, <3>1, <5>1 DEF AnswersLayout
        <5>3. k < cursor <=> k < cursor + 1
          BY <1>3, <4>2
        <5>. QED  BY <2>1, <5>2, <5>3
      <4>. QED  BY <4>1, <4>2
    <3>6. WL!InOrder(log)'
      BY <1>2, <3>1 DEF AnswersLayout, WL!InOrder, WL!AcceptedBefore
    <3>. QED  BY <1>2, <3>3, <3>4, <3>5, <3>6 DEF AnswersLayout
  <2>. QED  BY <1>2, <1>4, <1>5, <2>5, <2>6 DEF Laid, LayoutInv
<1>. QED  BY <1>6, <1>7

-----------------------------------------------------------------------------
(* The callers and stop(). *)

(* A caller that enters has not been accepted. *)
LEMMA EnterLayout ==
    ASSUME TypeOK, Bookkeeping, Laid, NEW o \in Ops, Enter(o), NoneCancelled' => NoneCancelled
    PROVE  Bookkeeping' /\ Laid'
<1>1. PICK t, x \in 0..Len(accepted), p \in 0..Len(queue) : LayoutInv(t, p, x)
  BY DEF Laid
<1>2. /\ future[o] = "none"
      /\ UNCHANGED <<queue, pending, batch, held, cursor, log, accepted, stopped, stopper>>
      /\ mode' = mode \/ (mode = "dead" /\ mode' = "get")
  BY DEF Enter
<1>3. /\ \A r \in Ops : r # o => future'[r] = future[r]
      /\ future'[o] \in {"failed", "entering"}
  BY DEF Enter, TypeOK
<1>4. \A i \in 1..Len(accepted) : accepted[i] \in Ops /\ accepted[i] # o
  BY <1>2, ElementOfSeq DEF TypeOK, Bookkeeping
<1>5. \A i \in 1..Len(accepted) : future'[accepted[i]] = future[accepted[i]]
  BY <1>3, <1>4
<1>6. (Written' <=> Written) /\ \A r \in Ops : InLog(r)' <=> InLog(r)
  BY <1>2 DEF Written, InLog
<1>7. Bookkeeping'
  <2>1. AcknowledgedIsDurable'
    BY <1>3, <1>6 DEF Bookkeeping, AcknowledgedIsDurable
  <2>. QED  BY <1>2, <1>5, <1>6, <2>1 DEF Bookkeeping, InLog
<1>8. QueueLayout(t, p)'
  BY <1>1, <1>2, QueueKept DEF LayoutInv
<1>9. AnswersLayout(x) => AnswersLayout(x)'
  <2>. SUFFICES ASSUME AnswersLayout(x) PROVE AnswersLayout(x)'
    OBVIOUS
  <2>1. \A i \in 1..Len(accepted) : /\ Answered(accepted[i])' <=> Answered(accepted[i])
                                    /\ Waiting(accepted[i])' <=> Waiting(accepted[i])
    BY <1>4, <1>5, <1>6, <1>2 DEF Answered, Waiting
  <2>2. Written => \A k \in 1..Len(batch) : future'[batch[k]] = future[batch[k]]
    <3>. SUFFICES ASSUME Written, NEW k \in 1..Len(batch)
                  PROVE  future'[batch[k]] = future[batch[k]]
      OBVIOUS
    <3>1. Open = batch
      BY DEF Open, Written
    <3>2. batch[k] = accepted[x + k] /\ x + k \in 1..Len(accepted)
      BY <1>1, <3>1, Numbers DEF LayoutInv, WriterLayout
    <3>. QED  BY <1>5, <3>2
  <2>3. WL!InOrder(log)'
    BY <1>2 DEF AnswersLayout, WL!InOrder, WL!AcceptedBefore
  <2>. QED  BY <1>2, <1>6, <2>1, <2>2, <2>3 DEF AnswersLayout
<1>10. CASE mode' = mode
  <2>1. WriterLayout(t, x)'
    <3>1. Open' = Open
      BY <1>2, <1>10 DEF Open
    <3>2. NoneCancelled' => x + Len(Open) + Len(held) = t
      BY <1>1 DEF LayoutInv, WriterLayout
    <3>. QED  BY <1>1, <1>2, <1>10, <3>1, <3>2 DEF LayoutInv, WriterLayout
  <2>. QED  BY <1>1, <1>2, <1>7, <1>8, <1>9, <2>1 DEF Laid, LayoutInv
<1>11. CASE mode = "dead" /\ mode' = "get"
  <2>1. /\ held' = <<>> /\ pending' = <<>> /\ Open' = <<>> /\ Len(<<>>) = 0
        /\ held = <<>> /\ Open = <<>>
    BY <1>1, <1>2, <1>11 DEF LayoutInv, WriterLayout, Open
  <2>2. WriterLayout(t, t)'
    BY <1>2, <1>11, <2>1, Numbers DEF WriterLayout
  <2>3. NoneCancelled => x = t
    BY <2>1, <1>1, Numbers DEF LayoutInv, WriterLayout
  <2>. QED  BY <1>1, <1>2, <1>7, <1>8, <1>9, <2>2, <2>3 DEF Laid, LayoutInv
<1>. QED  BY <1>2, <1>10, <1>11

(* One whose operation is put is accepted last. *)
LEMMA PutLayout ==
    ASSUME TypeOK, Bookkeeping, Laid, NEW o \in Ops, Put(o), NoneCancelled' => NoneCancelled
    PROVE  Bookkeeping' /\ Laid'
<1>1. PICK t, x \in 0..Len(accepted), p \in 0..Len(queue) : LayoutInv(t, p, x)
  BY DEF Laid
<1>2. /\ future[o] = "entering" /\ queue' = Append(queue, o) /\ accepted' = Append(accepted, o)
      /\ UNCHANGED <<pending, batch, held, mode, leaving, cursor, log, stopped, stopper>>
  BY DEF Put, writerVars
<1>3. future'[o] = "pending" /\ \A r \in Ops : r # o => future'[r] = future[r]
  BY DEF Put, TypeOK
<1>4. \A i \in 1..Len(accepted) : accepted[i] \in Ops /\ accepted[i] # o
  BY <1>2, ElementOfSeq DEF TypeOK, Bookkeeping
<1>5. /\ Len(accepted) \in Nat /\ Len(accepted') = Len(accepted) + 1
      /\ accepted'[Len(accepted) + 1] = o
      /\ \A i \in 1..Len(accepted) : accepted'[i] = accepted[i]
      /\ DOMAIN accepted = 1..Len(accepted) /\ DOMAIN accepted' = 1..(Len(accepted) + 1)
  <2>1. accepted' \in Seq(Ops)
    BY <1>2, AppendProperties DEF TypeOK
  <2>. QED  BY <1>2, <2>1, AppendProperties, LenProperties DEF TypeOK
<1>6. \A i \in 1..Len(accepted') : i \in 1..Len(accepted) \/ i = Len(accepted) + 1
  BY <1>5
<1>7. /\ t \in Nat /\ x \in Nat /\ Len(Open) \in Nat /\ x + Len(Open) + Len(held) <= t
      /\ t <= Len(accepted) /\ Open' = Open /\ Len(batch) \in Nat /\ (Written' <=> Written)
      /\ Written => Open = batch
      /\ \A k \in 1..Len(Open) : x + k \in 1..Len(accepted) /\ Open[k] = accepted[x + k]
      /\ Len(held) \in Nat
  BY <1>1, <1>2, Numbers DEF LayoutInv, WriterLayout, Open, Written
<1>8. ~InLog(o) /\ \A r \in Ops : InLog(r)' <=> InLog(r)
  <2>1. DOMAIN log = 1..Len(log)
    BY LenProperties DEF TypeOK
  <2>. QED  BY <1>2, <1>4, <2>1 DEF InLog, Bookkeeping
<1>9. Bookkeeping'
  <2>1. ASSUME NEW i \in 1..Len(accepted'), NEW j \in 1..Len(accepted'), accepted'[i] = accepted'[j]
        PROVE  i = j
    BY <1>4, <1>5, <1>6, <2>1 DEF Bookkeeping
  <2>2. ASSUME NEW i \in 1..Len(accepted') PROVE future'[accepted'[i]] \notin {"none", "entering"}
    BY <1>3, <1>4, <1>5, <1>6 DEF Bookkeeping
  <2>3. AcknowledgedIsDurable'
    BY <1>3, <1>8 DEF Bookkeeping, AcknowledgedIsDurable
  <2>4. \A i \in 1..Len(log) : \E j \in 1..Len(accepted') : log[i] = accepted'[j]
    <3>. SUFFICES ASSUME NEW i \in 1..Len(log)
                  PROVE  \E j \in 1..Len(accepted') : log[i] = accepted'[j]
      OBVIOUS
    <3>1. PICK j \in 1..Len(accepted) : log[i] = accepted[j]
      BY DEF Bookkeeping
    <3>. QED  BY <1>5, <3>1
  <2>. QED  BY <1>2, <1>7, <2>1, <2>2, <2>3, <2>4 DEF Bookkeeping, InLog
<1>10. QueueLayout(t, p)' /\ t \in 0..Len(accepted') /\ p \in 0..Len(queue')
  BY <1>1, <1>2, QueuePut DEF LayoutInv
<1>11. WriterLayout(t, x)'
  <2>1. held # <<>> => Len(held) = 1 /\ held[1] = accepted[t] /\ t \in 1..Len(accepted)
    BY <1>1, <1>7 DEF LayoutInv, WriterLayout
  <2>2. \A k \in 1..Len(Open) : Open[k] = accepted'[x + k]
    BY <1>5, <1>7
  <2>3. held # <<>> => Len(held) = 1 /\ held[1] = accepted'[t]
    BY <1>5, <2>1
  <2>4. NoneCancelled' => x + Len(Open) + Len(held) = t
    BY <1>1 DEF LayoutInv, WriterLayout
  <2>. QED  BY <1>1, <1>2, <1>7, <2>2, <2>3, <2>4 DEF LayoutInv, WriterLayout
<1>12. ASSUME AnswersLayout(x) PROVE AnswersLayout(x)'
  <2>1. \A i \in 1..Len(accepted) : accepted'[i] = accepted[i]
                                    /\ future'[accepted[i]] = future[accepted[i]]
                                    /\ (InLog(accepted[i])' <=> InLog(accepted[i]))
    BY <1>3, <1>4, <1>5, <1>8
  <2>2. ASSUME NEW i \in 1..Len(accepted'), i <= x PROVE Answered(accepted[i])'
    <3>1. i \in 1..Len(accepted)
      BY <1>5, <1>7, <2>2
    <3>2. Answered(accepted[i])
      BY <1>12, <2>2, <3>1 DEF AnswersLayout
    <3>. QED  BY <2>1, <3>1, <3>2 DEF Answered, InLog
  <2>3. ASSUME NEW i \in 1..Len(accepted'), i > (IF Written THEN x + Len(batch) ELSE x)
        PROVE  Waiting(accepted[i])'
    <3>1. CASE i \in 1..Len(accepted)
      <4>1. Waiting(accepted[i])
        BY <1>12, <2>3, <3>1 DEF AnswersLayout
      <4>. QED  BY <2>1, <3>1, <4>1 DEF Waiting, InLog
    <3>2. CASE i = Len(accepted) + 1
      BY <1>2, <1>3, <1>5, <1>8, <3>2 DEF Waiting, InLog
    <3>. QED  BY <1>6, <3>1, <3>2
  <2>4. Written => \A k \in 1..Len(batch) : future'[batch[k]] = future[batch[k]]
    <3>. SUFFICES ASSUME Written, NEW k \in 1..Len(batch)
                  PROVE  future'[batch[k]] = future[batch[k]]
      OBVIOUS
    <3>1. Open = batch
      BY <1>7
    <3>2. x + k \in 1..Len(accepted) /\ batch[k] = accepted[x + k]
      BY <1>7, <3>1
    <3>. QED  BY <2>1, <3>2
  <2>5. WL!InOrder(log)'
    <3>. SUFFICES ASSUME NEW i \in DOMAIN log, NEW j \in DOMAIN log, i < j
                  PROVE  \E a, b \in DOMAIN accepted' :
                            a < b /\ accepted'[a] = log[i] /\ accepted'[b] = log[j]
      BY <1>2 DEF WL!InOrder, WL!AcceptedBefore
    <3>1. PICK a, b \in DOMAIN accepted : a < b /\ accepted[a] = log[i] /\ accepted[b] = log[j]
      BY <1>12 DEF AnswersLayout, WL!InOrder, WL!AcceptedBefore
    <3>2. a \in DOMAIN accepted' /\ b \in DOMAIN accepted'
          /\ accepted'[a] = log[i] /\ accepted'[b] = log[j]
      BY <1>5, <3>1
    <3>. QED  BY <3>1, <3>2
  <2>. QED  BY <1>2, <1>7, <1>12, <2>2, <2>3, <2>4, <2>5 DEF AnswersLayout
<1>13. x \in 0..Len(accepted')
  BY <1>5, <1>7
<1>14. LayoutInv(t, p, x)'
  BY <1>1, <1>10, <1>11, <1>12 DEF LayoutInv
<1>. QED  BY <1>9, <1>10, <1>13, <1>14 DEF Laid

(* A caller that gives up leaves the layout as it is. *)
LEMMA CancelLayout ==
    ASSUME TypeOK, Bookkeeping, Laid, NEW o \in Ops, Cancel(o)
    PROVE  Bookkeeping' /\ Laid'
<1>1. PICK t, x \in 0..Len(accepted), p \in 0..Len(queue) : LayoutInv(t, p, x)
  BY DEF Laid
<1>2. UNCHANGED <<queue, pending, batch, held, mode, leaving, cursor, log, accepted, stopped, stopper>>
  BY DEF Cancel, writerVars
<1>3. future'[o] = "cancelled" /\ \A r \in Ops : r # o => future'[r] = future[r]
  BY DEF Cancel, TypeOK
<1>4. Bookkeeping'
  <2>1. \A i \in 1..Len(accepted) : accepted[i] \in Ops
    BY ElementOfSeq DEF TypeOK
  <2>. QED  BY <1>2, <1>3, <2>1 DEF Bookkeeping, AcknowledgedIsDurable, InLog, Written
<1>5. ~NoneCancelled'
  BY <1>3 DEF NoneCancelled
<1>6. QueueLayout(t, p)' /\ WriterLayout(t, x)'
  BY <1>1, <1>2, <1>5, QueueKept DEF LayoutInv, WriterLayout, Open
<1>. QED  BY <1>2, <1>4, <1>5, <1>6 DEF Laid, LayoutInv

(* stop() but adds the sentinel. *)
LEMMA StopLayout ==
    ASSUME TypeOK, Bookkeeping, Laid, Stopper
    PROVE  Bookkeeping' /\ Laid'
<1>1. PICK t, x \in 0..Len(accepted), p \in 0..Len(queue) : LayoutInv(t, p, x)
  BY DEF Laid
<1>2. UNCHANGED <<pending, batch, held, mode, leaving, cursor, log, accepted, future>>
  BY DEF Stopper, StopCalled, FlushReturned, PutStop, Joined, writerVars
<1>3. Bookkeeping'
  BY <1>2 DEF Bookkeeping, AcknowledgedIsDurable, InLog, Written
<1>4. WriterLayout(t, x)'
  BY <1>1, <1>2 DEF LayoutInv, WriterLayout, Open, NoneCancelled
<1>5. NoneCancelled' => AnswersLayout(x)'
  BY <1>1, <1>2 DEF LayoutInv, NoneCancelled, AnswersLayout, Answered, Waiting, InLog, Written,
                    WL!InOrder, WL!AcceptedBefore
<1>6. \E q \in 0..Len(queue') : QueueLayout(t, q)'
  <2>1. CASE PutStop
    BY <1>1, <2>1, QueueStop DEF LayoutInv
  <2>2. CASE StopCalled \/ FlushReturned \/ Joined
    <3>1. UNCHANGED <<queue, accepted>>
          /\ (stopper' = "done" \/ stopper \notin {"join", "done"})
      BY <2>2 DEF StopCalled, FlushReturned, Joined
    <3>. QED  BY <1>1, <3>1, QueueKept DEF LayoutInv
  <2>. QED  BY <2>1, <2>2 DEF Stopper
<1>. QED  BY <1>2, <1>3, <1>4, <1>5, <1>6 DEF Laid, LayoutInv

(* A step that changes nothing keeps the layout. *)
LEMMA StutterLayout ==
    ASSUME Bookkeeping, Laid, UNCHANGED vars
    PROVE  Bookkeeping' /\ Laid'
<1>1. PICK t, x \in 0..Len(accepted), p \in 0..Len(queue) : LayoutInv(t, p, x)
  BY DEF Laid
<1>2. UNCHANGED <<queue, pending, batch, held, mode, leaving, cursor, log, accepted, future, stopper>>
  BY DEF vars, writerVars
<1>3. Bookkeeping'
  BY <1>2 DEF Bookkeeping, AcknowledgedIsDurable, InLog, Written
<1>4. QueueLayout(t, p)' /\ WriterLayout(t, x)'
  BY <1>1, <1>2 DEF LayoutInv, QueueLayout, WriterLayout, Open, NoneCancelled
<1>5. NoneCancelled' => AnswersLayout(x)'
  BY <1>1, <1>2 DEF LayoutInv, NoneCancelled, AnswersLayout, Answered, Waiting, InLog, Written,
                    WL!InOrder, WL!AcceptedBefore
<1>. QED  BY <1>2, <1>3, <1>4, <1>5 DEF Laid, LayoutInv

(* At the start there is nothing to lay out. *)
LEMMA InitLayout == Init => Bookkeeping /\ Laid
<1>. SUFFICES ASSUME Init PROVE Bookkeeping /\ Laid
  OBVIOUS
<1>1. Len(<<>>) = 0
  OBVIOUS
<1>2. /\ Len(queue) = 0 /\ Len(accepted) = 0 /\ Len(log) = 0 /\ DOMAIN log = {}
      /\ Open = <<>> /\ pending = <<>> /\ held = <<>> /\ mode = "get" /\ ~Written
  BY <1>1 DEF Init, Open, Written
<1>3. Bookkeeping
  BY <1>2 DEF Init, Bookkeeping, AcknowledgedIsDurable
<1>4. QueueLayout(0, 0) /\ WriterLayout(0, 0) /\ AnswersLayout(0)
  BY <1>1, <1>2 DEF QueueLayout, WriterLayout, AnswersLayout, WL!InOrder
<1>. QED  BY <1>2, <1>3, <1>4 DEF Laid, LayoutInv

(* The layout of what is accepted, read, written and answered. *)
THEOREM WriterInvariant == Spec => []WriterInv
<1>1. Init => WriterInv
  BY TypeInit, InitLayout DEF WriterInv, Laid
<1>2. WriterInv /\ [Next]_vars => WriterInv'
  <2>. SUFFICES ASSUME WriterInv, [Next]_vars PROVE WriterInv'
    OBVIOUS
  <2>0. TypeOK /\ Bookkeeping /\ Laid /\ TypeOK'
    BY TypeStep DEF WriterInv, Laid
  <2>1. CASE UNCHANGED vars
    BY <2>0, <2>1, StutterLayout DEF WriterInv, Laid
  <2>2. CASE Next
    <3>1. NoneCancelled' => NoneCancelled
      BY <2>0, <2>2, CancelledRemains
    <3>2. Bookkeeping' /\ Laid'
      BY <2>0, <2>2, <3>1, EnterLayout, PutLayout, CancelLayout, TakeLayout, TurnLayout, EndLayout,
         CommitLayout, ResolveLayout, StopLayout DEF Next, Writer
    <3>. QED  BY <2>0, <3>2 DEF WriterInv, Laid
  <2>. QED  BY <2>1, <2>2
<1>. QED  BY <1>1, <1>2, PTL DEF Spec

(* What a caller was told of its write is true of the database, and of     *)
(* what was accepted before it (AnswersAreTrue).                           *)
THEOREM AnswersTrue == Spec => []AnswersAreTrue
<1>1. WriterInv => AnswersAreTrue
  <2>. SUFFICES ASSUME WriterInv PROVE AnswersAreTrue
    OBVIOUS
  <2>1. TypeOK /\ Bookkeeping
    BY DEF WriterInv
  <2>2. PICK t, x \in 0..Len(accepted), p \in 0..Len(queue) : LayoutInv(t, p, x)
    BY DEF WriterInv
  <2>3. /\ DOMAIN accepted = 1..Len(accepted) /\ DOMAIN log = 1..Len(log) /\ Len(accepted) \in Nat
        /\ x \in Nat /\ Len(batch) \in Nat
        /\ Written => \A k \in 1..Len(batch) :
                         x + k \in 1..Len(accepted) /\ batch[k] = accepted[x + k]
    BY <2>1, <2>2, Numbers DEF LayoutInv, WriterLayout, Open, Written
  <2>4. ASSUME NoneCancelled, NEW i \in 1..Len(accepted), future[accepted[i]] # "pending"
        PROVE  /\ Answered(accepted[i])
               /\ \A h \in 1..(i - 1) : InLog(accepted[h]) \/ future[accepted[h]] = "failed"
    <3>1. AnswersLayout(x)
      BY <2>2, <2>4 DEF LayoutInv
    <3>2. ~(i > (IF Written THEN x + Len(batch) ELSE x))
      BY <2>4, <3>1 DEF AnswersLayout, Waiting
    <3>3. ASSUME NEW h \in 1..i, h > x PROVE Written /\ InLog(accepted[h])
      <4>1. Written /\ h - x \in 1..Len(batch) /\ h = x + (h - x)
        BY <2>3, <3>2, <3>3
      <4>. QED  BY <2>1, <2>3, <4>1 DEF Bookkeeping
    <3>4. ASSUME NEW h \in 1..i, h <= x PROVE Answered(accepted[h])
      BY <2>3, <3>1, <3>4 DEF AnswersLayout
    <3>5. ASSUME i > x PROVE future[accepted[i]] = "ok"
      <4>1. Written /\ i - x \in 1..Len(batch) /\ i = x + (i - x)
        BY <2>3, <3>2, <3>5
      <4>2. batch[i - x] = accepted[i]
        BY <2>3, <4>1
      <4>. QED  BY <2>4, <3>1, <4>1, <4>2 DEF AnswersLayout
    <3>6. Answered(accepted[i])
      BY <2>3, <3>3, <3>4, <3>5 DEF Answered
    <3>7. ASSUME NEW h \in 1..(i - 1) PROVE InLog(accepted[h]) \/ future[accepted[h]] = "failed"
      BY <2>3, <3>3, <3>4 DEF Answered
    <3>. QED  BY <3>6, <3>7
  <2>5. FailedIsNotDurable
    <3>. SUFFICES ASSUME NoneCancelled, NEW o \in Ops, future[o] = "failed", InLog(o) PROVE FALSE
      BY DEF FailedIsNotDurable
    <3>1. PICK i \in 1..Len(accepted) : accepted[i] = o
      BY <2>1, <2>3 DEF InLog, Bookkeeping
    <3>. QED  BY <2>4, <3>1 DEF Answered
  <2>6. CriticalIsBarrier
    BY <2>3, <2>4 DEF CriticalIsBarrier
  <2>. QED  BY <2>1, <2>5, <2>6 DEF AnswersAreTrue, Bookkeeping
<1>. QED  BY <1>1, WriterInvariant, PTL

-----------------------------------------------------------------------------
(* The promise of the writer. *)

Status == [o \in Ops |-> StatusOf(future[o])]

(* The status that WriteLog sees in a future. *)
LEMMA StatusFacts ==
    ASSUME TypeOK, NEW o \in Ops
    PROVE  /\ Status[o] = "unsent" <=> future[o] \in {"none", "entering"}
           /\ Status[o] = "sent" <=> future[o] = "pending"
           /\ Status[o] = "cancelled" <=> future[o] = "cancelled"
           /\ future[o] \in {"ok", "failed", "cancelled"} => Status[o] = future[o]
BY DEF TypeOK, FutureStates, Status, StatusOf

(* The initial state is one of WriteLog. *)
LEMMA InitImplements == Init => WL!Init
BY DEF Init, WL!Init, StatusOf

(* What a change of one future is for its caller. *)
LEMMA StatusMoves ==
    ASSUME TypeOK, NEW o \in Ops, NEW f \in FutureStates, future' = [future EXCEPT ![o] = f]
    PROVE  Status' = [Status EXCEPT ![o] = StatusOf(f)]
BY DEF TypeOK, Status

(* A step of a caller is a step of WriteLog. *)
LEMMA CallerImplements ==
    ASSUME TypeOK, NEW o \in Ops, Enter(o) \/ Put(o) \/ Cancel(o)
    PROVE  WL!Next \/ UNCHANGED WL!vars
<1>1. CASE Enter(o)
  <2>1. future[o] = "none" /\ UNCHANGED <<accepted, log>>
    BY <1>1 DEF Enter
  <2>2. CASE future' = [future EXCEPT ![o] = "failed"]
    <3>1. Status' = [Status EXCEPT ![o] = "failed"] /\ Status[o] = "unsent"
      BY <2>1, <2>2, StatusMoves, StatusFacts DEF FutureStates, StatusOf
    <3>2. WL!Reject(o)
      BY <2>1, <3>1 DEF WL!Reject, Status
    <3>. QED  BY <3>2 DEF WL!Next
  <2>3. CASE future' = [future EXCEPT ![o] = "entering"]
    <3>1. Status' = [Status EXCEPT ![o] = "unsent"] /\ Status[o] = "unsent"
      BY <2>1, <2>3, StatusMoves, StatusFacts DEF FutureStates, StatusOf
    <3>2. Status' = Status
      BY <3>1 DEF Status
    <3>. QED  BY <2>1, <3>2 DEF WL!vars, Status
  <2>. QED  BY <1>1, <2>2, <2>3 DEF Enter
<1>2. CASE Put(o)
  <2>1. Status' = [Status EXCEPT ![o] = "sent"] /\ Status[o] = "unsent"
    BY <1>2, StatusMoves, StatusFacts DEF Put, FutureStates, StatusOf
  <2>2. WL!Accept(o)
    BY <1>2, <2>1 DEF Put, WL!Accept, Status
  <2>. QED  BY <2>2 DEF WL!Next
<1>3. CASE Cancel(o)
  <2>1. Status' = [Status EXCEPT ![o] = "cancelled"] /\ Status[o] = "sent"
    BY <1>3, StatusMoves, StatusFacts DEF Cancel, FutureStates, StatusOf
  <2>2. WL!Abandon(o)
    BY <1>3, <2>1 DEF Cancel, WL!Abandon, Status
  <2>. QED  BY <2>2 DEF WL!Next
<1>. QED  BY <1>1, <1>2, <1>3

(* A batch is a run of what was accepted. *)
LEMMA BatchIsRun ==
    ASSUME TypeOK, Laid, mode \notin {"get", "dead"}, batch # <<>>
    PROVE  \E i, j \in DOMAIN accepted : batch = SubSeq(accepted, i, j)
<1>1. PICK t, x \in 0..Len(accepted), p \in 0..Len(queue) : LayoutInv(t, p, x)
  BY DEF Laid
<1>2. /\ Len(accepted) \in Nat /\ t \in Nat /\ x \in Nat /\ Len(batch) \in Nat /\ t <= Len(accepted)
      /\ Len(held) \in Nat /\ x + Len(batch) + Len(held) <= t
      /\ DOMAIN accepted = 1..Len(accepted)
      /\ \A k \in 1..Len(batch) : batch[k] = accepted[x + k]
  BY <1>1, Numbers DEF Open, LayoutInv, WriterLayout
<1>3. Len(batch) # 0
  BY EmptySeq DEF TypeOK
<1>4. PICK i \in 1..Len(accepted) : i = x + 1
  BY <1>2, <1>3
<1>5. PICK j \in 1..Len(accepted) : j = x + Len(batch)
  BY <1>2, <1>3
<1>6. i <= j /\ j - i + 1 = Len(batch) /\ i \in Int /\ j \in Int
  BY <1>2, <1>3, <1>4, <1>5
<1>7. /\ SubSeq(accepted, i, j) \in Seq(Ops) /\ Len(SubSeq(accepted, i, j)) = Len(batch)
      /\ \A k \in 1..Len(batch) : SubSeq(accepted, i, j)[k] = accepted[i + k - 1]
  <2>1. \A k \in i..j : accepted[k] \in Ops
    BY <1>2, ElementOfSeq DEF TypeOK
  <2>. QED  BY <1>6, <2>1, SubSeqProperties
<1>8. \A k \in 1..Len(batch) : SubSeq(accepted, i, j)[k] = batch[k]
  <2>. SUFFICES ASSUME NEW k \in 1..Len(batch) PROVE SubSeq(accepted, i, j)[k] = batch[k]
    OBVIOUS
  <2>1. i + k - 1 = x + k
    BY <1>2, <1>4
  <2>. QED  BY <1>2, <1>7, <2>1
<1>9. batch = SubSeq(accepted, i, j)
  BY <1>7, <1>8, SeqEqual DEF TypeOK
<1>. QED  BY <1>2, <1>9

(* Where the operations of a batch are, and what has become of them. *)
LEMMA BatchFacts ==
    ASSUME TypeOK, Bookkeeping, Laid, mode \notin {"get", "dead"}
    PROVE  /\ DOMAIN batch = 1..Len(batch) /\ ToSet(batch) = {batch[k] : k \in DOMAIN batch}
           /\ \A k \in DOMAIN batch : batch[k] \in Ops
                                      /\ future[batch[k]] \notin {"none", "entering"}
<1>1. PICK t, x \in 0..Len(accepted), p \in 0..Len(queue) : LayoutInv(t, p, x)
  BY DEF Laid
<1>2. \A k \in 1..Len(batch) : x + k \in 1..Len(accepted) /\ batch[k] = accepted[x + k]
  BY <1>1, Numbers DEF Open, LayoutInv, WriterLayout
<1>3. DOMAIN batch = 1..Len(batch) /\ \A k \in 1..Len(batch) : batch[k] \in Ops
  BY LenProperties, ElementOfSeq DEF TypeOK
<1>. QED  BY <1>2, <1>3 DEF Bookkeeping, ToSet

(* A commit appends the batch to the log. *)
LEMMA CommitImplements ==
    ASSUME TypeOK, Bookkeeping, Laid, Commit
    PROVE  WL!Next
<1>1. /\ mode = "commit" /\ batch # <<>> /\ log' = log \o batch /\ UNCHANGED <<accepted, future>>
  BY DEF Commit
<1>2. PICK i, j \in DOMAIN accepted : batch = SubSeq(accepted, i, j)
  BY <1>1, BatchIsRun
<1>3. Status' = Status
  BY <1>1 DEF Status
<1>4. CASE ~NoneCancelled
  <2>1. WL!SomeAbandoned
    BY <1>4, StatusFacts DEF NoneCancelled, WL!SomeAbandoned, Status
  <2>2. WL!Reapply(batch)
    BY <1>1, <1>3, <2>1 DEF WL!Reapply, Status
  <2>. QED  BY <1>2, <2>2 DEF WL!Next
<1>5. CASE NoneCancelled
  <2>1. PICK t, x \in 0..Len(accepted), p \in 0..Len(queue) : LayoutInv(t, p, x)
    BY DEF Laid
  <2>2. /\ AnswersLayout(x) /\ ~Written /\ Len(batch) \in Nat /\ x \in Nat
        /\ \A k \in 1..Len(batch) : x + k \in 1..Len(accepted) /\ batch[k] = accepted[x + k]
    BY <1>1, <1>5, <2>1, Numbers DEF LayoutInv, WriterLayout, Open, Written
  <2>3. WL!InOrder(log')
    BY <1>1, <2>2, CommitInOrder
  <2>4. \A k \in DOMAIN batch : Status[batch[k]] = "sent"
    <3>. SUFFICES ASSUME NEW k \in DOMAIN batch PROVE Status[batch[k]] = "sent"
      OBVIOUS
    <3>1. k \in 1..Len(batch) /\ batch[k] \in Ops
      BY <1>1, BatchFacts
    <3>2. Waiting(batch[k])
      <4>1. x + k > x
        BY <2>2, <3>1
      <4>. QED  BY <2>2, <3>1, <4>1 DEF AnswersLayout
    <3>. QED  BY <3>1, <3>2, StatusFacts DEF Waiting
  <2>5. WL!Apply(batch)
    BY <1>1, <1>3, <2>3, <2>4 DEF WL!Apply, Status
  <2>. QED  BY <1>2, <2>5 DEF WL!Next
<1>. QED  BY <1>4, <1>5

(* A rollback rejects it. *)
LEMMA RollbackImplements ==
    ASSUME TypeOK, Bookkeeping, Laid, Rollback
    PROVE  WL!Next
<1>1. /\ mode = "commit" /\ batch # <<>> /\ UNCHANGED <<accepted, log>>
      /\ future' = [o \in Ops |-> IF o \in ToSet(batch) /\ ~Settled(o) THEN "failed" ELSE future[o]]
  BY DEF Rollback
<1>2. PICK i, j \in DOMAIN accepted : batch = SubSeq(accepted, i, j)
  BY <1>1, BatchIsRun
<1> DEFINE unanswered == {batch[k] : k \in DOMAIN batch} \cap {o \in Ops : Status[o] = "sent"}
<1>3. \A o \in Ops : o \in unanswered <=> o \in ToSet(batch) /\ ~Settled(o)
  <2>. SUFFICES ASSUME NEW o \in Ops, o \in ToSet(batch)
                PROVE  Status[o] = "sent" <=> ~Settled(o)
    BY <1>1, BatchFacts, StatusFacts DEF Settled
  <2>1. future[o] \notin {"none", "entering"}
    BY <1>1, BatchFacts
  <2>. QED  BY <2>1, StatusFacts DEF Settled, TypeOK, FutureStates
<1>4. Status' = [o \in Ops |-> IF o \in unanswered THEN "failed" ELSE Status[o]]
  <2>. SUFFICES ASSUME NEW o \in Ops
                PROVE  StatusOf(future'[o]) = IF o \in unanswered THEN "failed" ELSE Status[o]
    BY DEF Status
  <2>. QED  BY <1>1, <1>3 DEF Status, StatusOf
<1>5. WL!SomeAbandoned \/ \A o \in unanswered : ~InLog(o)
  <2>1. CASE ~NoneCancelled
    BY <2>1, StatusFacts DEF NoneCancelled, WL!SomeAbandoned, Status
  <2>2. CASE NoneCancelled
    <3>1. PICK t, x \in 0..Len(accepted), p \in 0..Len(queue) : LayoutInv(t, p, x)
      BY DEF Laid
    <3>2. /\ AnswersLayout(x) /\ ~Written /\ Len(batch) \in Nat /\ x \in Nat
          /\ \A k \in 1..Len(batch) : x + k \in 1..Len(accepted) /\ batch[k] = accepted[x + k]
      BY <1>1, <2>2, <3>1, Numbers DEF LayoutInv, WriterLayout, Open, Written
    <3>3. ASSUME NEW k \in DOMAIN batch PROVE ~InLog(batch[k])
      <4>1. k \in 1..Len(batch) /\ x + k > x
        BY <1>1, <3>2, BatchFacts
      <4>. QED  BY <3>2, <4>1 DEF AnswersLayout, Waiting
    <3>. QED  BY <3>3
  <2>. QED  BY <2>1, <2>2
<1>6. WL!Refuse(batch)
  BY <1>1, <1>4, <1>5 DEF WL!Refuse, Status, WL!InLog, InLog
<1>. QED  BY <1>2, <1>6 DEF WL!Next

(* A future is resolved for an operation that is in the log. *)
LEMMA SetResultImplements ==
    ASSUME TypeOK, Bookkeeping, Laid, SetResult
    PROVE  WL!Next
<1> DEFINE o == batch[cursor]
<1>1. /\ mode = "set_result" /\ ~Settled(o) /\ UNCHANGED <<accepted, log>>
      /\ future' = [future EXCEPT ![o] = "ok"]
  BY DEF SetResult
<1>2. cursor \in 1..Len(batch)
  BY <1>1, Numbers DEF Laid, LayoutInv, WriterLayout
<1>3. /\ o \in Ops /\ future[o] = "pending" /\ InLog(o)
  BY <1>1, <1>2, BatchFacts DEF Bookkeeping, Written, Settled, TypeOK, FutureStates
<1>4. Status' = [Status EXCEPT ![o] = "ok"] /\ Status[o] = "sent"
  BY <1>1, <1>3, StatusMoves, StatusFacts DEF FutureStates, StatusOf
<1>5. WL!Acknowledge(o)
  BY <1>1, <1>3, <1>4 DEF WL!Acknowledge, Status, WL!InLog, InLog
<1>. QED  BY <1>3, <1>5 DEF WL!Next

(* The writer keeps the promise of WriteLog (ImplementsWriteLog): every    *)
(* step is a step of it or changes nothing it tells of.                    *)
THEOREM WriteLogImplemented == Spec => ImplementsWriteLog
<1>1. WriterInv /\ [Next]_vars => [WL!Next]_(WL!vars)
  <2>. SUFFICES ASSUME WriterInv, [Next]_vars PROVE WL!Next \/ UNCHANGED WL!vars
    OBVIOUS
  <2>0. TypeOK /\ Bookkeeping /\ Laid
    BY DEF WriterInv, Laid
  <2>1. CASE UNCHANGED <<accepted, log, future>>
    BY <2>1 DEF WL!vars
  <2>2. CASE \E o \in Ops : Enter(o) \/ Put(o) \/ Cancel(o)
    BY <2>0, <2>2, CallerImplements
  <2>3. CASE Commit \/ Rollback \/ SetResult
    BY <2>0, <2>3, CommitImplements, RollbackImplements, SetResultImplements
  <2>4. CASE \/ GetStop \/ GetCritical \/ GetRoutine \/ FlushInterval \/ CommitNothing
             \/ CheckDone \/ SetResultRaises \/ Resolved \/ Stopper \/ UNCHANGED vars
    <3>1. UNCHANGED <<accepted, log, future>>
      BY <2>4 DEF GetStop, GetCritical, GetRoutine, FlushInterval, CommitNothing, CheckDone,
                  SetResultRaises, Resolved, Stopper, StopCalled, FlushReturned, PutStop, Joined, vars
    <3>. QED  BY <2>1, <3>1
  <2>. QED  BY <2>2, <2>3, <2>4 DEF Next, Writer
<1>. QED  BY <1>1, InitImplements, WriterInvariant, PTL DEF Spec, ImplementsWriteLog, WL!Spec
=============================================================================
