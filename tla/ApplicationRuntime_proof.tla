----------------------- MODULE ApplicationRuntime_proof -----------------------
(***************************************************************************)
(* Theorems about ApplicationRuntime, for any tasks, workers and files: an *)
(* import that is shown as complete is whole, a terminal job rests, and    *)
(* the rows tell the truth while the program is up and after it has quit,  *)
(* whatever writes fail or are late, and over any number of restarts.      *)
(***************************************************************************)
EXTENDS ApplicationRuntime, SequenceTheorems, TLAPS

(* The queue of the writer holds such a write of a client.                 *)
Has(c, what) == \E i \in DOMAIN queue : queue[i].by = c /\ queue[i].what = what

(* What a task gives up waiting for although it goes on.                   *)
GivenUp == {"batch", "final", "finished"}

(* Two writes of a task are queued only if it has given up waiting for the *)
(* first and reports the failure with the second.                          *)
Ordered(t) ==
    \A i, j \in DOMAIN queue : i < j /\ queue[i].by = t /\ queue[j].by = t =>
        queue[i].what \in GivenUp /\ queue[j].what = "failed"

(* Where a task may be while a write of it is queued; unless it still      *)
(* waits for that write, it has given up.                                  *)
QueueFollows(t) ==
    /\ \A x \in TaskWrites : Has(t, x) =>
          /\ pc[t] = x \/ pc[t] = "over" \/ (pc[t] = "failed" /\ x \in GivenUp)
          /\ pc[t] # x => t \in unlucky
    /\ ~Has(t, "pause")
    /\ pc[t] \in TaskWrites /\ answer[t] # "none" => \A x \in TaskWrites : ~Has(t, x)
    /\ pc[t] \in TaskWrites /\ answer[t] = "error" => t \in unlucky

(* The dataset of an import and what the task remembers of it.             *)
DatasetFollows(t) ==
    LET job == jobs[t]
        m   == memory[t]
    IN  /\ pc[t] \in {"dataset", "batch"} => t \in Imports
        /\ pc[t] = "file" => t \notin Imports
        /\ pc[t] \in {"new", "queued", "dropped", "dataset", "job", "started"} =>
              m = NoMemory /\ job.stored = 0 /\ ~job.spoiled
        /\ pc[t] = "batch" =>
              /\ m.accepted = m.sent - 1 /\ m.sent <= Batches[t]
              /\ answer[t] = "ok" => job.stored = m.sent /\ (job.spoiled <=> m.invalid \/ m.bad)
        /\ Has(t, "batch") => job.stored = m.accepted /\ (job.spoiled <=> m.invalid)
        /\ Has(t, "final") /\ t \in Imports =>
              job.stored = Batches[t] /\ m.accepted = Batches[t] /\ (job.spoiled <=> m.invalid)

(* The state of the job.                                                   *)
StateFollows(t) ==
    LET state == jobs[t].state
    IN  /\ state \in {"none", "RUNNING"} \cup TerminalJobStates
        /\ pc[t] \in {"new", "queued", "dropped", "dataset"} \/ Has(t, "job") => state = "none"
        /\ pc[t] = "job" => state \in {"none", "RUNNING"} /\ (answer[t] = "ok" => state = "RUNNING")
        /\ pc[t] \in {"started", "file", "batch"} \/ Has(t, "batch") \/ Has(t, "final") =>
              state = "RUNNING"
        /\ pc[t] = "final" /\ answer[t] = "error" => state = "RUNNING"
        /\ pc[t] = "finished" \/ (pc[t] = "final" /\ answer[t] = "ok") => state \in TerminalJobStates
        /\ pc[t] = "failure" \/ (pc[t] = "failed" /\ answer[t] = "ok") => state = "FAILED"
        /\ Has(t, "failed") /\ state \in TerminalJobStates => t \in unlucky
        /\ pc[t] = "over" /\ phase # "down" /\ t \notin unlucky => state # "RUNNING"

(* What is shown as complete is whole.                                     *)
Whole(t) ==
    t \in Imports /\ jobs[t].state \in {"COMPLETED", "COMPLETED_WITH_ERRORS"} =>
        /\ jobs[t].stored = Batches[t] /\ jobs[t].checkpoint = Batches[t]
        /\ jobs[t].spoiled <=> jobs[t].state = "COMPLETED_WITH_ERRORS"

TaskInv(t) ==
    /\ pc[t] \in TaskWrites \cup {"new", "queued", "file", "over", "dropped"}
    /\ Ordered(t) /\ QueueFollows(t) /\ DatasetFollows(t) /\ StateFollows(t) /\ Whole(t)

(* The run on the network loop and its row.                                *)
NetInv ==
    /\ pc[Net] \in {"new", "fetch", "reading", "call", "pause", "over", "killed"}
    /\ \A x \in TaskWrites : ~Has(Net, x)
    /\ Ordered(Net)
    /\ Has(Net, "pause") => pc[Net] \in {"pause", "killed"}
    /\ pc[Net] = "pause" /\ answer[Net] # "none" => ~Has(Net, "pause")
    /\ jobs[Net].state \in {"none", "RUNNING", "PAUSED"}
    /\ pc[Net] = "new" => jobs[Net].state = "none"
    /\ pc[Net] = "pause" /\ answer[Net] = "error" => Net \in unlucky
    /\ pc[Net] = "pause" /\ answer[Net] = "ok" => jobs[Net].state = "PAUSED"
    /\ pc[Net] = "over" /\ phase # "down" /\ Net \notin unlucky => jobs[Net].state # "RUNNING"
    /\ phase \notin {"up", "hooks"} => ~Running
    /\ pc[Net] = "killed" => phase \notin {"up", "hooks", "down"}

(* A task is in the queue of the pool once, before it has begun; the pool  *)
(* is empty from the point of stop() where its queue is dropped, and the   *)
(* workers have ended before the writer is stopped.                        *)
PoolInv ==
    /\ \A i \in DOMAIN pool : pool[i] \in Tasks => pc[pool[i]] = "queued"
    /\ \A i, j \in DOMAIN pool : pool[i] = pool[j] /\ pool[i] \in Tasks => i = j
    /\ phase \in {"draining", "writer", "exited", "down"} => pool = <<>>
    /\ phase \in {"writer", "exited", "down"} => Working = {}
    /\ \A t \in Tasks : pc[t] = "queued" => phase \in {"up", "hooks", "workers"}

RuntimeInv == TypeOK /\ (\A t \in Tasks : TaskInv(t)) /\ NetInv /\ PoolInv

-----------------------------------------------------------------------------
(* The queue of the writer. *)

WriteStates == [by : Clients, what : TaskWrites \cup {"pause"}]
JobRows     == [state : JobStates \cup {"none"}, checkpoint : Nat, stored : Nat, spoiled : BOOLEAN]
Memories    == [sent : Nat, bad : BOOLEAN, accepted : Nat, invalid : BOOLEAN]
Places      == TaskWrites \cup {"new", "queued", "file", "fetch", "reading", "call", "pause", "over",
                                "killed", "dropped"}

(* The writer takes the first write and leaves the others in order. *)
LEMMA TakeFirst ==
    ASSUME NEW S, NEW q \in Seq(S), q # <<>>
    PROVE  /\ Len(q) \in Nat /\ Len(q) > 0 /\ q[1] \in S
           /\ RemoveAt(q, Due(q)) \in Seq(S)
           /\ Len(RemoveAt(q, Due(q))) = Len(q) - 1
           /\ \A i \in 1..(Len(q) - 1) : RemoveAt(q, Due(q))[i] = q[i + 1]
<1>1. Len(q) \in Nat /\ Len(q) > 0 /\ q[1] \in S
  BY EmptySeq, ElementOfSeq
<1>2. RemoveAt(q, Due(q)) = SubSeq(q, 1, 0) \o SubSeq(q, 2, Len(q))
  BY DEF RemoveAt, Due
<1>3. SubSeq(q, 1, 0) = <<>>
  BY <1>1, SubSeqProperties, EmptySeq
<1>4. SubSeq(q, 2, Len(q)) \in Seq(S) /\ Len(SubSeq(q, 2, Len(q))) = Len(q) - 1
      /\ \A i \in 1..(Len(q) - 1) : SubSeq(q, 2, Len(q))[i] = q[i + 1]
  <2>1. /\ SubSeq(q, 2, Len(q)) \in Seq(S)
        /\ Len(SubSeq(q, 2, Len(q))) = IF 2 <= Len(q) THEN Len(q) - 2 + 1 ELSE 0
        /\ \A i \in 1..(Len(q) - 2 + 1) : SubSeq(q, 2, Len(q))[i] = q[2 + i - 1]
    <3>1. \A i \in 2..Len(q) : q[i] \in S
      BY <1>1, ElementOfSeq
    <3>. QED  BY <1>1, <3>1, SubSeqProperties
  <2>2. Len(q) - 2 + 1 = Len(q) - 1 /\ \A i \in 1..(Len(q) - 1) : 2 + i - 1 = i + 1
    BY <1>1
  <2>3. CASE 2 <= Len(q)
    BY <2>1, <2>2, <2>3
  <2>4. CASE ~(2 <= Len(q))
    <3>1. Len(q) - 1 = 0
      <4>1. \A n \in Nat : n > 0 /\ ~(2 <= n) => n - 1 = 0
        OBVIOUS
      <4>. QED  BY <1>1, <2>4, <4>1
    <3>. QED  BY <2>1, <2>2, <2>4, <3>1
  <2>. QED  BY <2>3, <2>4
<1>5. RemoveAt(q, Due(q)) = SubSeq(q, 2, Len(q))
  BY <1>2, <1>3, <1>4, ConcatEmptySeq
<1>. QED  BY <1>1, <1>4, <1>5

(* What is queued after a client has handed over a write ... *)
LEMMA Handed ==
    ASSUME TypeOK, NEW c \in Clients, NEW what \in TaskWrites \cup {"pause"},
           queue' = Append(queue, [by |-> c, what |-> what])
    PROVE  /\ queue' \in Seq(WriteStates)
           /\ \A d, x : Has(d, x)' <=> Has(d, x) \/ (d = c /\ x = what)
           /\ \A t : t # c => (Ordered(t)' <=> Ordered(t))
           /\ \A t : Ordered(t) /\ (\A x : Has(t, x) => x \in GivenUp /\ x # "failed" /\ what = "failed")
                        => Ordered(t)'
<1> DEFINE w == [by |-> c, what |-> what]
<1>1. /\ queue \in Seq(WriteStates) /\ w \in WriteStates
      /\ Len(queue) \in Nat /\ DOMAIN queue = 1..Len(queue)
  BY LenProperties DEF TypeOK, WriteStates
<1>2. /\ queue' \in Seq(WriteStates) /\ DOMAIN queue' = 1..(Len(queue) + 1)
      /\ \A i \in 1..Len(queue) : queue'[i] = queue[i]
      /\ queue'[Len(queue) + 1] = w
  BY <1>1, AppendProperties, LenProperties
<1>3. ASSUME NEW d, NEW x PROVE Has(d, x)' <=> Has(d, x) \/ (d = c /\ x = what)
  <2>1. ASSUME Has(d, x) PROVE Has(d, x)'
    <3>1. PICK i \in DOMAIN queue : queue[i].by = d /\ queue[i].what = x
      BY <2>1 DEF Has
    <3>2. i \in DOMAIN queue' /\ queue'[i] = queue[i]
      BY <1>1, <1>2, <3>1
    <3>. QED  BY <3>1, <3>2 DEF Has
  <2>2. d = c /\ x = what => Has(d, x)'
    BY <1>1, <1>2 DEF Has
  <2>3. ASSUME Has(d, x)' PROVE Has(d, x) \/ (d = c /\ x = what)
    <3>1. PICK i \in DOMAIN queue' : queue'[i].by = d /\ queue'[i].what = x
      BY <2>3 DEF Has
    <3>2. CASE i \in 1..Len(queue)
      BY <1>1, <1>2, <3>1, <3>2 DEF Has
    <3>3. CASE i = Len(queue) + 1
      BY <1>2, <3>1, <3>3
    <3>. QED  BY <1>1, <1>2, <3>1, <3>2, <3>3
  <2>. QED  BY <2>1, <2>2, <2>3
<1>4. ASSUME NEW t, t # c PROVE Ordered(t)' <=> Ordered(t)
  BY <1>1, <1>2, <1>4 DEF Ordered
<1>5. ASSUME NEW t, Ordered(t), \A x : Has(t, x) => x \in GivenUp /\ x # "failed" /\ what = "failed"
      PROVE  Ordered(t)'
  <2>. SUFFICES ASSUME NEW i \in DOMAIN queue', NEW j \in DOMAIN queue', i < j,
                       queue'[i].by = t, queue'[j].by = t
                PROVE  queue'[i].what \in GivenUp /\ queue'[j].what = "failed"
    BY DEF Ordered
  <2>1. i \in DOMAIN queue /\ queue'[i] = queue[i]
    BY <1>1, <1>2
  <2>2. queue[i].what \in GivenUp /\ what = "failed"
    BY <1>5, <2>1 DEF Has
  <2>3. CASE j \in DOMAIN queue
    BY <1>1, <1>2, <1>5, <2>1, <2>3 DEF Ordered
  <2>4. CASE j = Len(queue) + 1
    BY <1>2, <2>2, <2>1, <2>4
  <2>. QED  BY <1>1, <1>2, <2>3, <2>4
<1>. QED  BY <1>2, <1>3, <1>4, <1>5

(* ... and after the writer has answered one. *)
LEMMA Taken ==
    ASSUME TypeOK, queue # <<>>, queue' = RemoveAt(queue, Due(queue)), NEW w, w = queue[Due(queue)]
    PROVE  /\ w \in WriteStates /\ Has(w.by, w.what) /\ queue' \in Seq(WriteStates)
           /\ \A d, x : Has(d, x)' => Has(d, x)
           /\ \A t : Ordered(t) => Ordered(t)'
           /\ \A x : Ordered(w.by) /\ Has(w.by, x)' => x = "failed" /\ w.what \in GivenUp
<1>1. /\ queue \in Seq(WriteStates) /\ w = queue[1]
      /\ Len(queue) \in Nat /\ DOMAIN queue = 1..Len(queue)
  BY LenProperties DEF TypeOK, WriteStates, Due
<1>2. /\ w \in WriteStates /\ 1 \in DOMAIN queue
      /\ queue' \in Seq(WriteStates) /\ DOMAIN queue' = 1..(Len(queue) - 1)
      /\ \A i \in 1..(Len(queue) - 1) : queue'[i] = queue[i + 1]
  BY <1>1, TakeFirst, LenProperties
<1>3. Has(w.by, w.what)
  BY <1>1, <1>2 DEF Has
<1>4. \A i \in DOMAIN queue' : i + 1 \in DOMAIN queue /\ queue'[i] = queue[i + 1] /\ i \in Nat /\ 1 < i + 1
  BY <1>1, <1>2
<1>5. ASSUME NEW d, NEW x, Has(d, x)' PROVE Has(d, x)
  BY <1>4, <1>5 DEF Has
<1>6. ASSUME NEW t, Ordered(t) PROVE Ordered(t)'
  <2>. SUFFICES ASSUME NEW i \in DOMAIN queue', NEW j \in DOMAIN queue', i < j,
                       queue'[i].by = t, queue'[j].by = t
                PROVE  queue'[i].what \in GivenUp /\ queue'[j].what = "failed"
    BY DEF Ordered
  <2>1. i + 1 < j + 1
    BY <1>4
  <2>. QED  BY <1>4, <1>6, <2>1 DEF Ordered
<1>7. ASSUME NEW x, Ordered(w.by), Has(w.by, x)' PROVE x = "failed" /\ w.what \in GivenUp
  <2>1. PICK i \in DOMAIN queue' : queue'[i].by = w.by /\ queue'[i].what = x
    BY <1>7 DEF Has
  <2>. QED  BY <1>1, <1>2, <1>4, <1>7, <2>1 DEF Ordered
<1>. QED  BY <1>2, <1>3, <1>5, <1>6, <1>7

-----------------------------------------------------------------------------
(* Types. *)

(* What a write makes of a row, write by write. *)
LEMMA AppliedFacts ==
    ASSUME TypeOK, NEW w \in WriteStates, w.by \in Tasks \/ w.what = "pause",
           NEW job, job = jobs[w.by], NEW m, m = memory[w.by], NEW row, row = Applied(w)
    PROVE  /\ row \in JobRows
           /\ w.what \in {"dataset", "started", "finished", "failure"} => row = job
           /\ w.what = "job" => row.state = "RUNNING"
           /\ w.what = "pause" => row.state = "PAUSED"
           /\ w.what = "final" => row.state = Result(w.by) /\ row.checkpoint = m.accepted
           /\ w.what = "failed" => row.state = "FAILED"
           /\ w.what = "batch" => row.state = job.state /\ row.checkpoint = job.checkpoint
           /\ w.what = "batch" => row.stored = job.stored + 1 /\ (row.spoiled <=> job.spoiled \/ m.bad)
           /\ w.what # "batch" => row.stored = job.stored /\ row.spoiled = job.spoiled
<1>1. /\ job \in JobRows
      /\ Result(w.by) \in JobStates /\ {"RUNNING", "FAILED", "PAUSED"} \subseteq JobStates
      /\ w.what \in TaskWrites \cup {"pause"}
      /\ w.what # "pause" => m \in Memories
  BY DEF WriteStates, TypeOK, JobRows, Memories, Result, JobStates
<1>2. CASE w.what \in {"dataset", "started", "finished", "failure"}
  <2>1. row = job
    BY <1>2 DEF Applied
  <2>. QED  BY <1>1, <1>2, <2>1
<1>3. CASE w.what = "job"
  <2>1. row = [job EXCEPT !.state = "RUNNING"]
    BY <1>3 DEF Applied
  <2>. QED  BY <1>1, <1>3, <2>1 DEF JobRows
<1>4. CASE w.what = "pause"
  <2>1. row = [job EXCEPT !.state = "PAUSED"]
    BY <1>4 DEF Applied
  <2>. QED  BY <1>1, <1>4, <2>1 DEF JobRows
<1>5. CASE w.what = "batch"
  <2>1. row = [job EXCEPT !.stored = @ + 1, !.spoiled = @ \/ m.bad]
    BY <1>5 DEF Applied
  <2>2. job.stored \in Nat /\ job.spoiled \in BOOLEAN /\ m.bad \in BOOLEAN
    BY <1>1, <1>5 DEF JobRows, Memories
  <2>3. row.state = job.state /\ row.checkpoint = job.checkpoint /\ row.stored = job.stored + 1
    BY <1>1, <2>1 DEF JobRows
  <2>4. row.spoiled = (job.spoiled \/ m.bad)
    BY <1>1, <2>1 DEF JobRows
  <2>5. row.spoiled \in BOOLEAN
    BY <2>4
  <2>6. row \in JobRows
    <3> DEFINE sp == job.spoiled \/ m.bad
               st == job.stored + 1
    <3>1. sp \in BOOLEAN /\ st \in Nat
      BY <2>2
    <3>2. row = [job EXCEPT !.stored = st, !.spoiled = sp]
      BY <2>1
    <3>. HIDE DEF sp, st
    <3>. QED  BY <1>1, <3>1, <3>2 DEF JobRows
  <2>. QED  BY <1>5, <2>3, <2>4, <2>6
<1>6. CASE w.what = "final"
  <2>1. row = [job EXCEPT !.state = Result(w.by), !.checkpoint = m.accepted]
    BY <1>6 DEF Applied
  <2>2. m.accepted \in Nat
    BY <1>1, <1>6 DEF Memories
  <2>. QED  BY <1>1, <1>6, <2>1, <2>2 DEF JobRows
<1>7. CASE w.what = "failed"
  <2>1. row = [job EXCEPT !.state = "FAILED", !.checkpoint = m.accepted]
    BY <1>7 DEF Applied
  <2>2. m.accepted \in Nat
    BY <1>1, <1>7 DEF Memories
  <2>. QED  BY <1>1, <1>7, <2>1, <2>2 DEF JobRows
<1>. QED  BY <1>1, <1>2, <1>3, <1>4, <1>5, <1>6, <1>7 DEF TaskWrites

(* The first write of the queue is one of a task, or the pause of the run. *)
LEMMA FirstWrite ==
    ASSUME RuntimeInv, queue # <<>>, NEW w, w = queue[Due(queue)]
    PROVE  /\ w \in WriteStates /\ Has(w.by, w.what)
           /\ \/ w.by \in Tasks /\ w.what \in TaskWrites
              \/ w.by = Net /\ w.what = "pause"
<1>1. queue \in Seq(WriteStates) /\ w = queue[1]
  BY DEF RuntimeInv, TypeOK, WriteStates, Due
<1>2. w \in WriteStates /\ 1 \in DOMAIN queue
  BY <1>1, TakeFirst, LenProperties
<1>3. Has(w.by, w.what) /\ w.by \in Clients /\ w.what \in TaskWrites \cup {"pause"}
  BY <1>1, <1>2 DEF Has, WriteStates
<1>. QED  BY <1>2, <1>3 DEF RuntimeInv, TaskInv, QueueFollows, NetInv, Clients

(* The initial state is of its type. *)
LEMMA TypeInit == Init => TypeOK
<1>. SUFFICES ASSUME Init PROVE TypeOK
  OBVIOUS
<1>1. NoJob \in JobRows /\ NoMemory \in Memories
  BY DEF NoJob, NoMemory, JobRows, Memories
<1>2. queue \in Seq(WriteStates) /\ pool \in Seq(Clients)
  BY EmptySeq DEF Init
<1>3. jobs \in [Clients -> JobRows] /\ memory \in [Tasks -> Memories]
  BY <1>1 DEF Init
<1>. QED  BY <1>2, <1>3 DEF Init, TypeOK, WriteStates, JobRows, Memories

(* A write that is handed over, and one that is answered, keep the types. *)
LEMMA SubmitTypes ==
    ASSUME TypeOK, NEW c \in Clients, NEW what \in TaskWrites \cup {"pause"}, Submit(c, what)
    PROVE  /\ queue' \in Seq(WriteStates)
           /\ answer' \in [Clients -> {"none", "ok", "error"}]
           /\ pc' \in [Clients -> Places]
BY Handed DEF Submit, TypeOK, Places

(* ... the answer it gets, too. *)
LEMMA AnswerTypes ==
    ASSUME TypeOK, queue # <<>>, NEW w \in WriteStates, w = queue[Due(queue)],
           NEW result \in {"ok", "error"}, Answer(w, result)
    PROVE  /\ queue' \in Seq(WriteStates)
           /\ answer' \in [Clients -> {"none", "ok", "error"}]
BY Taken DEF Answer, TypeOK

(* So do the steps of the writer ... *)
LEMMA WriterTypes ==
    ASSUME RuntimeInv, Commit \/ WriteFails
    PROVE  TypeOK'
<1> DEFINE w == queue[Due(queue)]
<1>0. TypeOK /\ queue # <<>>
  BY DEF RuntimeInv, Commit, WriteFails
<1>1. w \in WriteStates /\ (w.by \in Tasks \/ w.what = "pause")
  BY <1>0, FirstWrite
<1>2. \E result \in {"ok", "error"} : Answer(w, result)
  BY DEF Commit, WriteFails
<1>3. queue' \in Seq(WriteStates) /\ answer' \in [Clients -> {"none", "ok", "error"}]
  BY <1>0, <1>1, <1>2, AnswerTypes
<1>4. jobs' \in [Clients -> JobRows]
  <2>1. CASE Commit
    <3>1. Applied(w) \in JobRows
      BY <1>0, <1>1, AppliedFacts
    <3>. QED  BY <1>0, <2>1, <3>1 DEF Commit, TypeOK, JobRows
  <2>2. CASE WriteFails
    BY <1>0, <2>2 DEF WriteFails, TypeOK, JobRows
  <2>. QED  BY <2>1, <2>2
<1>5. unlucky' \subseteq Clients /\ faults' \in Nat
  BY <1>0, <1>1 DEF Commit, WriteFails, TypeOK, budgets, WriteStates
<1>6. UNCHANGED <<pool, pc, memory, pausing, phase, restarts>>
  BY DEF Commit, WriteFails, tasks, budgets
<1>. QED  BY <1>0, <1>3, <1>4, <1>5, <1>6 DEF TypeOK, WriteStates, JobRows

(* ... the commands and the pool ... *)
LEMMA PoolTypes ==
    ASSUME TypeOK, \/ \E t \in Tasks : OrderImport(t) \/ OrderExport(t)
                   \/ StartRun \/ TakeTask \/ RunGoesOn
    PROVE  TypeOK'
<1>0. Net \in Clients /\ Tasks \subseteq Clients /\ pool \in Seq(Clients) /\ pc \in [Clients -> Places]
      /\ "RUNNING" \in JobStates
  BY DEF Clients, TypeOK, Places, JobStates
<1>1. ASSUME NEW c \in Clients, NEW r \in Clients, pool' = Append(pool, c),
             pc' = [pc EXCEPT ![r] = "queued"] \/ pc' = [pc EXCEPT ![r] = "fetch"]
      PROVE  pool' \in Seq(Clients) /\ pc' \in [Clients -> Places]
  BY <1>0, <1>1, AppendProperties DEF Places
<1>2. CASE \E t \in Tasks : OrderImport(t) \/ OrderExport(t)
  <2>1. pool' \in Seq(Clients) /\ pc' \in [Clients -> Places]
    BY <1>0, <1>1, <1>2 DEF OrderImport, OrderExport
  <2>. QED  BY <1>2, <2>1 DEF OrderImport, OrderExport, rows, budgets, TypeOK, Places
<1>3. CASE StartRun
  <2>1. pool' \in Seq(Clients) /\ pc' \in [Clients -> Places]
    BY <1>0, <1>1, <1>3 DEF StartRun
  <2>2. jobs' \in [Clients -> JobRows]
    BY <1>0, <1>3 DEF StartRun, TypeOK, JobRows
  <2>. QED  BY <1>3, <2>1, <2>2 DEF StartRun, budgets, TypeOK, Places, JobRows
<1>4. CASE RunGoesOn
  <2>1. pool' \in Seq(Clients) /\ pc' \in [Clients -> Places]
    BY <1>0, <1>1, <1>4 DEF RunGoesOn
  <2>. QED  BY <1>4, <2>1 DEF RunGoesOn, rows, budgets, TypeOK, Places
<1>5. CASE TakeTask
  <2>1. Head(pool) \in Clients /\ pool' \in Seq(Clients)
    BY <1>0, <1>5, HeadTailProperties DEF TakeTask
  <2>2. \/ Submit(Head(pool), "dataset") \/ Submit(Head(pool), "job")
        \/ /\ UNCHANGED <<queue, answer>>
           /\ \E p \in Places : pc' = [pc EXCEPT ![Head(pool)] = p]
    BY <1>0, <1>5, <2>1 DEF TakeTask, Places
  <2>3. /\ queue' \in Seq(WriteStates) /\ answer' \in [Clients -> {"none", "ok", "error"}]
        /\ pc' \in [Clients -> Places]
    <3>1. CASE Submit(Head(pool), "dataset") \/ Submit(Head(pool), "job")
      BY <2>1, <3>1, SubmitTypes DEF TaskWrites
    <3>2. CASE UNCHANGED <<queue, answer>> /\ \E p \in Places : pc' = [pc EXCEPT ![Head(pool)] = p]
      BY <1>0, <2>1, <3>2 DEF TypeOK, WriteStates
    <3>. QED  BY <2>2, <3>1, <3>2
  <2>4. UNCHANGED <<jobs, memory, pausing, phase, unlucky, faults, restarts>>
    BY <1>5 DEF TakeTask, budgets
  <2>. QED  BY <2>1, <2>3, <2>4 DEF TypeOK, WriteStates, Places
<1>. QED  BY <1>2, <1>3, <1>4, <1>5

(* What a task remembers has its type. *)
LEMMA SummedTypes ==
    ASSUME NEW m \in Memories
    PROVE  Summed(m) \in Memories
<1> DEFINE inv == m.invalid \/ m.bad
           acc == m.accepted + 1
<1>1. inv \in BOOLEAN /\ acc \in Nat
  BY DEF Memories
<1>2. Summed(m) = [m EXCEPT !.accepted = acc, !.invalid = inv]
  BY DEF Summed
<1>. HIDE DEF inv, acc
<1>. QED  BY <1>1, <1>2 DEF Memories

(* ... those of a task and of the run ... *)
LEMMA MemoryTypes ==
    ASSUME TypeOK, NEW t \in Tasks, GoOn(t)
    PROVE  memory' \in [Tasks -> Memories]
<1>0. memory \in [Tasks -> Memories] /\ memory[t] \in Memories
  BY DEF TypeOK, Memories
<1>1. Summed(memory[t]) \in Memories
  BY <1>0, SummedTypes
<1>2. ASSUME NEW m \in Memories, ReadOn(t, m) PROVE memory' \in [Tasks -> Memories]
  <2>1. ASSUME NEW bad \in BOOLEAN PROVE [m EXCEPT !.sent = @ + 1, !.bad = bad] \in Memories
    <3> DEFINE next == m.sent + 1
    <3>1. next \in Nat
      BY <1>2 DEF Memories
    <3>2. [m EXCEPT !.sent = @ + 1, !.bad = bad] = [m EXCEPT !.sent = next, !.bad = bad]
      OBVIOUS
    <3>. HIDE DEF next
    <3>3. [m EXCEPT !.sent = next, !.bad = bad] \in Memories
      BY <1>2, <3>1 DEF Memories
    <3>. QED  BY <3>2, <3>3
  <2>. QED  BY <1>0, <1>2, <2>1 DEF ReadOn
<1>. QED  BY <1>0, <1>1, <1>2 DEF GoOn

(* A client that hands over a write, or goes on by itself, keeps the types. *)
LEMMA Moved ==
    ASSUME TypeOK, NEW c \in Clients,
           \/ \E what \in TaskWrites \cup {"pause"} : Submit(c, what)
           \/ \E p \in Places : pc' = [pc EXCEPT ![c] = p] /\ UNCHANGED <<queue, answer>>
    PROVE  /\ queue' \in Seq(WriteStates)
           /\ answer' \in [Clients -> {"none", "ok", "error"}]
           /\ pc' \in [Clients -> Places]
<1>1. CASE \E what \in TaskWrites \cup {"pause"} : Submit(c, what)
  BY <1>1, SubmitTypes
<1>2. CASE \E p \in Places : pc' = [pc EXCEPT ![c] = p] /\ UNCHANGED <<queue, answer>>
  BY <1>2 DEF TypeOK, Places, WriteStates
<1>. QED  BY <1>1, <1>2

(* A step of a task keeps them. *)
LEMMA WorkerTypes ==
    ASSUME TypeOK, NEW t \in Tasks, WorkerStep(t)
    PROVE  TypeOK'
<1>0. t \in Clients
  BY DEF Clients
<1>1. \/ \E what \in TaskWrites \cup {"pause"} : Submit(t, what)
      \/ \E p \in Places : pc' = [pc EXCEPT ![t] = p] /\ UNCHANGED <<queue, answer>>
  <2>1. CASE GoOn(t)
    BY <2>1 DEF GoOn, ReadOn, Ends, Places, TaskWrites
  <2>2. CASE FileWritten(t)
    BY <2>2 DEF FileWritten, TaskWrites
  <2>3. CASE Raises(t)
    BY <2>3 DEF Raises, Ends, Places, TaskWrites
  <2>. QED  BY <2>1, <2>2, <2>3 DEF WorkerStep
<1>2. /\ queue' \in Seq(WriteStates)
      /\ answer' \in [Clients -> {"none", "ok", "error"}]
      /\ pc' \in [Clients -> Places]
  BY <1>0, <1>1, Moved
<1>3. memory' \in [Tasks -> Memories]
  <2>1. CASE GoOn(t)
    BY <2>1, MemoryTypes
  <2>2. CASE FileWritten(t) \/ Raises(t)
    BY <2>2 DEF FileWritten, Raises, TypeOK, Memories
  <2>. QED  BY <2>1, <2>2 DEF WorkerStep
<1>4. unlucky' \subseteq Clients
  BY <1>0 DEF WorkerStep, GoOn, FileWritten, Raises, GivesUp, TypeOK
<1>5. UNCHANGED <<jobs, pool, pausing, phase, faults, restarts>>
  BY DEF WorkerStep, GoOn, FileWritten, Raises, budgets
<1>. QED  BY <1>2, <1>3, <1>4, <1>5 DEF TypeOK, WriteStates, Places, Memories

(* A step of the run keeps them. *)
LEMMA RunTypes ==
    ASSUME TypeOK, RunStep
    PROVE  TypeOK'
<1>0. Net \in Clients
  BY DEF Clients
<1>1. CASE RunGoesOn
  BY <1>1, PoolTypes
<1>2. CASE RunReads \/ RunPauses \/ RunEnds
  <2>1. \/ \E what \in TaskWrites \cup {"pause"} : Submit(Net, what)
        \/ \E p \in Places : pc' = [pc EXCEPT ![Net] = p] /\ UNCHANGED <<queue, answer>>
    BY <1>2 DEF RunReads, RunPauses, RunEnds, Ends, Places, rows
  <2>2. /\ queue' \in Seq(WriteStates)
        /\ answer' \in [Clients -> {"none", "ok", "error"}]
        /\ pc' \in [Clients -> Places]
    BY <1>0, <2>1, Moved
  <2>3. UNCHANGED <<jobs, pool, memory, pausing, phase, unlucky, faults, restarts>>
    BY <1>2 DEF RunReads, RunPauses, RunEnds, rows, budgets
  <2>. QED  BY <2>2, <2>3 DEF TypeOK, WriteStates, Places
<1>. QED  BY <1>1, <1>2 DEF RunStep

(* ... and the end of the process and its next start. *)
LEMMA StopTypes ==
    ASSUME TypeOK, Quit \/ StopStep \/ Crash \/ Restart
    PROVE  TypeOK'
<1>0. /\ jobs \in [Clients -> JobRows] /\ pc \in [Clients -> Places] /\ pool \in Seq(Clients)
      /\ queue \in Seq(WriteStates) /\ memory \in [Tasks -> Memories]
      /\ {"PAUSED", "CANCELLED"} \subseteq JobStates
  BY DEF TypeOK, JobRows, Places, WriteStates, Memories, JobStates
<1>1. CASE Quit \/ StopStep
  <2>1. pc' \in [Clients -> Places]
    BY <1>0, <1>1 DEF Quit, StopStep, NetworkStops, QueueDropped, WorkersEnd, WriterStops, tasks, Places
  <2>2. pool' \in Seq(Clients)
    BY <1>0, <1>1, EmptySeq DEF Quit, StopStep, NetworkStops, QueueDropped, WorkersEnd, WriterStops, tasks
  <2>3. UNCHANGED <<jobs, queue, answer, memory, unlucky, faults, restarts>> /\ pausing' \in BOOLEAN
        /\ phase' \in {"up", "hooks", "workers", "draining", "writer", "exited", "down"}
    BY <1>1 DEF Quit, StopStep, NetworkStops, QueueDropped, WorkersEnd, WriterStops, tasks, rows, budgets, TypeOK
  <2>. QED  BY <1>0, <2>1, <2>2, <2>3 DEF TypeOK, Places, JobRows, WriteStates, Memories
<1>2. CASE Crash \/ Restart
  <2>1. Forget
    BY <1>2 DEF Crash, Restart
  <2>2. queue' \in Seq(WriteStates) /\ pool' \in Seq(Clients)
    BY <2>1, EmptySeq DEF Forget
  <2>3. memory' \in [Tasks -> Memories] /\ pc' \in [Clients -> Places]
        /\ answer' \in [Clients -> {"none", "ok", "error"}] /\ pausing' \in BOOLEAN /\ unlucky' \subseteq Clients
    BY <2>1 DEF Forget, NoMemory, Memories, Places
  <2>4. jobs' \in [Clients -> JobRows]
    <3>1. ASSUME NEW c \in Clients PROVE Recovered(c) \in JobRows
      <4>1. Recovered(c) \in {jobs[c], [jobs[c] EXCEPT !.state = "PAUSED"], [jobs[c] EXCEPT !.state = "CANCELLED"]}
        BY DEF Recovered
      <4>. QED  BY <1>0, <4>1 DEF JobRows
    <3>. QED  BY <1>0, <1>2, <3>1 DEF Crash, Restart
  <2>5. faults' \in Nat /\ restarts' \in Nat
        /\ phase' \in {"up", "hooks", "workers", "draining", "writer", "exited", "down"}
    BY <1>2 DEF Crash, Restart, budgets, TypeOK
  <2>. QED  BY <2>2, <2>3, <2>4, <2>5 DEF TypeOK, Places, JobRows, WriteStates, Memories
<1>. QED  BY <1>1, <1>2

(* Every step keeps the types. *)
LEMMA TypeStep == RuntimeInv /\ [Next]_vars => TypeOK'
<1>. SUFFICES ASSUME RuntimeInv, [Next]_vars PROVE TypeOK'
  OBVIOUS
<1>0. TypeOK
  BY DEF RuntimeInv
<1>1. CASE UNCHANGED vars
  BY <1>0, <1>1 DEF vars, rows, tasks, budgets, TypeOK
<1>2. CASE Next
  BY <1>0, <1>2, WriterTypes, PoolTypes, WorkerTypes, RunTypes, StopTypes DEF Next
<1>. QED  BY <1>1, <1>2

-----------------------------------------------------------------------------
(* The invariant. *)

(* A step that leaves a task alone, its writes in the queue may be fewer.  *)
LEMMA Aside ==
    ASSUME NEW t \in Tasks, TaskInv(t), pc'[t] = pc[t], answer'[t] = answer[t],
           memory'[t] = memory[t], jobs'[t] = jobs[t], t \in unlucky => t \in unlucky',
           phase = "down" => phase' = "down", \A x : Has(t, x)' => Has(t, x), Ordered(t)'
    PROVE  TaskInv(t)'
<1>1. QueueFollows(t)'
  BY DEF TaskInv, QueueFollows
<1>2. DatasetFollows(t)'
  BY DEF TaskInv, DatasetFollows
<1>3. StateFollows(t)'
  BY DEF TaskInv, StateFollows
<1>4. Whole(t)'
  BY DEF TaskInv, Whole
<1>. QED  BY <1>1, <1>2, <1>3, <1>4 DEF TaskInv

(* A queue that does not change holds the same writes. *)
LEMMA QueueSame == UNCHANGED queue => \A t, x : (Has(t, x)' <=> Has(t, x)) /\ (Ordered(t)' <=> Ordered(t))
BY DEF Has, Ordered

(* The writer has written, or failed to write, what a task handed over.    *)
LEMMA CommitTask ==
    ASSUME RuntimeInv, Commit, NEW w, w = queue[Due(queue)], w.by \in Tasks
    PROVE  TaskInv(w.by)'
<1> DEFINE t == w.by
<1>0. /\ TypeOK /\ TaskInv(t) /\ queue # <<>> /\ t \in Clients
      /\ w \in WriteStates /\ Has(t, w.what) /\ w.what \in TaskWrites
  <2>1. TypeOK /\ TaskInv(t) /\ queue # <<>> /\ t \in Clients /\ t # Net
    BY RuntimeAssumption DEF RuntimeInv, Commit, Clients
  <2>. QED  BY <2>1, FirstWrite
<1>1. /\ pc' = pc /\ memory' = memory /\ unlucky' = unlucky /\ phase' = phase
      /\ jobs'[t] = Applied(w)
      /\ answer'[t] = IF pc[t] = w.what THEN "ok" ELSE answer[t]
      /\ queue' = RemoveAt(queue, Due(queue))
  BY <1>0 DEF Commit, Answer, tasks, TypeOK
<1>2. /\ Ordered(t)'
      /\ \A x : Has(t, x)' => Has(t, x) /\ x = "failed" /\ w.what \in GivenUp
  BY <1>0, <1>1, Taken DEF TaskInv
<1>3. PICK row : row = Applied(w)
  OBVIOUS
<1> DEFINE job == jobs[t]
           m == memory[t]
<1>4. /\ row \in JobRows
      /\ w.what \in {"dataset", "started", "finished", "failure"} => row = job
      /\ w.what = "job" => row.state = "RUNNING"
      /\ w.what = "final" => row.state = Result(t) /\ row.checkpoint = m.accepted
      /\ w.what = "failed" => row.state = "FAILED"
      /\ w.what = "batch" => row.state = job.state /\ row.checkpoint = job.checkpoint
      /\ w.what = "batch" => row.stored = job.stored + 1 /\ (row.spoiled <=> job.spoiled \/ m.bad)
      /\ w.what # "batch" => row.stored = job.stored /\ row.spoiled = job.spoiled
  BY <1>0, <1>3, AppliedFacts
<1>5. /\ pc[t] = w.what \/ pc[t] = "over" \/ (pc[t] = "failed" /\ w.what \in GivenUp)
      /\ pc[t] # w.what => t \in unlucky
      /\ pc[t] \in TaskWrites => answer[t] = "none"
  BY <1>0 DEF TaskInv, QueueFollows, TypeOK
<1>6. QueueFollows(t)'
  <2>1. \A x \in TaskWrites : Has(t, x)' => pc[t] = "over" \/ pc[t] = "failed"
    BY <1>0, <1>2, <1>5 DEF TaskInv, QueueFollows, GivenUp
  <2>2. pc[t] = w.what => \A x : ~Has(t, x)'
    BY <1>0, <1>2, <1>5 DEF TaskInv, QueueFollows, GivenUp, TaskWrites
  <2>. QED  BY <1>0, <1>1, <1>2, <1>5, <2>1, <2>2 DEF TaskInv, QueueFollows, TaskWrites
<1>7. DatasetFollows(t)'
  <2>1. w.what = "batch" => m.accepted + 1 = m.sent \/ pc[t] # "batch"
    BY <1>0 DEF TaskInv, DatasetFollows, TypeOK
  <2>2. ~Has(t, "batch")' /\ ~Has(t, "final")'
    BY <1>2
  <2>3. w.what = "batch" => job.stored = m.accepted /\ (job.spoiled <=> m.invalid)
    BY <1>0 DEF TaskInv, DatasetFollows
  <2>4. CASE w.what = "batch"
    <3>1. pc[t] \in {"batch", "over", "failed"}
      BY <1>5, <2>4
    <3>2. pc[t] = "batch" => row.stored = m.sent /\ (row.spoiled <=> m.invalid \/ m.bad)
      BY <1>4, <2>1, <2>3, <2>4 DEF JobRows
    <3>. QED  BY <1>0, <1>1, <1>3, <2>2, <2>4, <3>1, <3>2 DEF TaskInv, DatasetFollows
  <2>5. CASE w.what # "batch"
    <3>1. row.stored = job.stored /\ row.spoiled = job.spoiled
      BY <1>4, <2>5
    <3>2. pc[t] # "batch"
      BY <1>5, <2>5 DEF GivenUp
    <3>. QED  BY <1>0, <1>1, <1>3, <2>2, <3>1, <3>2 DEF TaskInv, DatasetFollows
  <2>. QED  BY <2>4, <2>5
<1>8. Result(t) \in {"COMPLETED", "COMPLETED_WITH_ERRORS"} /\ (Result(t) = "COMPLETED_WITH_ERRORS" <=> m.invalid)
  BY DEF Result
<1>9. StateFollows(t)'
  <2>1. /\ ~Has(t, "job")' /\ ~Has(t, "batch")' /\ ~Has(t, "final")'
        /\ Has(t, "failed")' => Has(t, "failed") /\ w.what \in GivenUp
    BY <1>2
  <2>2. w.what \in GivenUp /\ Has(t, "failed") => t \in unlucky
    BY <1>0, <1>5 DEF TaskInv, QueueFollows, GivenUp, TaskWrites
  <2>3. CASE w.what \in {"dataset", "started", "finished", "failure"}
    <3>1. row = job
      BY <1>4, <2>3
    <3>. QED  BY <1>0, <1>1, <1>3, <1>5, <2>1, <2>2, <2>3, <3>1 DEF TaskInv, StateFollows, GivenUp
  <2>4. CASE w.what = "job"
    <3>1. pc[t] \in {"job", "over"}
      BY <1>5, <2>4 DEF GivenUp
    <3>. QED  BY <1>1, <1>3, <1>4, <1>5, <2>1, <2>4, <3>1 DEF StateFollows, GivenUp, TerminalJobStates
  <2>5. CASE w.what = "batch"
    <3>1. pc[t] \in {"batch", "over", "failed"} /\ row.state = "RUNNING"
      BY <1>0, <1>4, <1>5, <2>5 DEF TaskInv, StateFollows
    <3>. QED  BY <1>1, <1>3, <1>5, <2>1, <2>5, <3>1 DEF StateFollows, TerminalJobStates, TaskWrites
  <2>6. CASE w.what = "final"
    <3>1. pc[t] \in {"final", "over", "failed"} /\ row.state \in TerminalJobStates
      BY <1>4, <1>5, <1>8, <2>6 DEF TerminalJobStates
    <3>2. row.state # "RUNNING"
      BY <3>1 DEF TerminalJobStates
    <3>. QED  BY <1>1, <1>3, <1>5, <2>1, <2>2, <2>6, <3>1, <3>2 DEF StateFollows, TaskWrites
  <2>7. CASE w.what = "failed"
    <3>1. pc[t] \in {"over", "failed"} /\ row.state = "FAILED" /\ ~Has(t, "failed")'
      BY <1>2, <1>4, <1>5, <2>7 DEF GivenUp
    <3>. QED  BY <1>1, <1>3, <1>5, <2>1, <2>7, <3>1 DEF StateFollows, TerminalJobStates
  <2>. QED  BY <1>0, <2>3, <2>4, <2>5, <2>6, <2>7 DEF TaskWrites
<1>10. Whole(t)'
  <2>1. CASE w.what \in {"dataset", "started", "finished", "failure"}
    BY <1>0, <1>1, <1>3, <1>4, <2>1 DEF TaskInv, Whole
  <2>2. CASE w.what \in {"job", "failed", "batch"}
    <3>1. row.state \in {"RUNNING", "FAILED"}
      BY <1>0, <1>4, <2>2 DEF TaskInv, StateFollows
    <3>. QED  BY <1>1, <1>3, <3>1 DEF Whole
  <2>3. CASE w.what = "final"
    <3>1. t \in Imports => job.stored = Batches[t] /\ m.accepted = Batches[t] /\ (job.spoiled <=> m.invalid)
      BY <1>0, <2>3 DEF TaskInv, DatasetFollows
    <3>. QED  BY <1>1, <1>3, <1>4, <1>8, <2>3, <3>1 DEF Whole
  <2>. QED  BY <1>0, <2>1, <2>2, <2>3 DEF TaskWrites
<1>11. pc'[t] \in TaskWrites \cup {"new", "queued", "file", "over", "dropped"}
  BY <1>0, <1>1 DEF TaskInv
<1>. QED  BY <1>2, <1>6, <1>7, <1>9, <1>10, <1>11 DEF TaskInv

(* A write that fails changes neither the row nor the dataset. *)
LEMMA FailTask ==
    ASSUME RuntimeInv, WriteFails, NEW w, w = queue[Due(queue)], w.by \in Tasks
    PROVE  TaskInv(w.by)'
<1> DEFINE t == w.by
<1>0. /\ TypeOK /\ TaskInv(t) /\ queue # <<>> /\ t \in Clients
      /\ w \in WriteStates /\ Has(t, w.what) /\ w.what \in TaskWrites
  <2>1. TypeOK /\ TaskInv(t) /\ queue # <<>> /\ t \in Clients /\ t # Net
    BY RuntimeAssumption DEF RuntimeInv, WriteFails, Clients
  <2>. QED  BY <2>1, FirstWrite
<1>1. /\ pc' = pc /\ memory' = memory /\ t \in unlucky' /\ phase' = phase /\ jobs' = jobs
      /\ answer'[t] = IF pc[t] = w.what THEN "error" ELSE answer[t]
      /\ queue' = RemoveAt(queue, Due(queue))
  BY <1>0 DEF WriteFails, Answer, tasks, TypeOK
<1>2. /\ Ordered(t)'
      /\ \A x : Has(t, x)' => Has(t, x) /\ x = "failed" /\ w.what \in GivenUp
  BY <1>0, <1>1, Taken DEF TaskInv
<1>3. /\ pc[t] = w.what \/ pc[t] = "over" \/ (pc[t] = "failed" /\ w.what \in GivenUp)
      /\ pc[t] \in TaskWrites => answer[t] = "none"
  BY <1>0 DEF TaskInv, QueueFollows, TypeOK
<1>4. QueueFollows(t)'
  <2>1. pc[t] = w.what => \A x : ~Has(t, x)'
    BY <1>0, <1>2, <1>3 DEF TaskInv, QueueFollows, GivenUp, TaskWrites
  <2>. QED  BY <1>0, <1>1, <1>2, <1>3, <2>1 DEF TaskInv, QueueFollows, TaskWrites
<1>5. DatasetFollows(t)'
  <2>1. answer'[t] = "ok" => answer[t] = "ok"
    BY <1>1
  <2>. QED  BY <1>0, <1>1, <1>2, <2>1 DEF TaskInv, DatasetFollows
<1>6. StateFollows(t)'
  <2>1. answer'[t] = "ok" => answer[t] = "ok"
    BY <1>1
  <2>2. pc[t] = "final" /\ answer'[t] = "error" => jobs[t].state = "RUNNING"
    BY <1>0, <1>1, <1>3 DEF TaskInv, StateFollows
  <2>. QED  BY <1>0, <1>1, <1>2, <2>1, <2>2 DEF TaskInv, StateFollows
<1>. QED  BY <1>0, <1>1, <1>2, <1>4, <1>5, <1>6 DEF TaskInv, Whole

(* A step of the writer keeps what is known of every client. *)
LEMMA WriterInvs ==
    ASSUME RuntimeInv, Commit \/ WriteFails
    PROVE  (\A t \in Tasks : TaskInv(t)') /\ NetInv' /\ PoolInv'
<1>0. TypeOK /\ NetInv /\ PoolInv /\ queue # <<>> /\ \A t \in Tasks : TaskInv(t)
  BY DEF RuntimeInv, Commit, WriteFails
<1>1. PICK w : w = queue[Due(queue)]
  OBVIOUS
<1>2. /\ w \in WriteStates /\ Has(w.by, w.what) /\ w.by \in Clients
      /\ \/ w.by \in Tasks /\ w.what \in TaskWrites
         \/ w.by = Net /\ w.what = "pause"
  BY <1>0, <1>1, FirstWrite DEF WriteStates
<1>3. /\ UNCHANGED <<pool, pc, memory, phase>> /\ unlucky \subseteq unlucky'
      /\ queue' = RemoveAt(queue, Due(queue))
  BY DEF Commit, WriteFails, Answer, tasks
<1>4. /\ \A d, x : Has(d, x)' => Has(d, x)
      /\ \A t : Ordered(t) => Ordered(t)'
  BY <1>0, <1>1, <1>3, Taken
<1>5. \A c \in Clients : c # w.by => jobs'[c] = jobs[c] /\ answer'[c] = answer[c]
  BY <1>0, <1>1 DEF Commit, WriteFails, Answer, TypeOK
<1>6. ASSUME NEW t \in Tasks PROVE TaskInv(t)'
  <2>1. CASE t = w.by
    BY <1>1, <2>1, CommitTask, FailTask
  <2>2. CASE t # w.by
    BY <1>0, <1>3, <1>4, <1>5, <2>2, Aside DEF TaskInv, Clients
  <2>. QED  BY <2>1, <2>2
<1>7. NetInv'
  <2>1. Running' <=> Running
    BY <1>3 DEF Running
  <2>2. CASE w.by # Net
    BY <1>0, <1>3, <1>4, <1>5, <2>1, <2>2 DEF NetInv, Clients
  <2>3. CASE w.by = Net
    <3>1. w.what = "pause" /\ pc[Net] \in {"pause", "killed"} /\ Net \in Clients
      BY <1>0, <1>2, <2>3, RuntimeAssumption DEF NetInv, Clients
    <3>0. ~Has(Net, "pause")' /\ Ordered(Net)'
      BY <1>0, <1>1, <1>3, <2>3, Taken DEF NetInv
    <3>2. CASE Commit
      <4>1. jobs'[Net].state = "PAUSED" /\ answer'[Net] \in {answer[Net], "ok"}
        <5>1. jobs'[Net] = Applied(w) /\ answer'[Net] \in {answer[Net], "ok"}
          BY <1>0, <1>1, <2>3, <3>1, <3>2 DEF Commit, Answer, TypeOK
        <5>2. Applied(w).state = "PAUSED"
          BY <1>0, <1>2, <3>1, AppliedFacts
        <5>. QED  BY <5>1, <5>2
      <4>2. unlucky' = unlucky
        BY <3>2 DEF Commit
      <4>. QED  BY <1>0, <1>3, <1>4, <2>1, <3>0, <3>1, <4>1, <4>2 DEF NetInv
    <3>3. CASE WriteFails
      <4>1. jobs' = jobs /\ answer'[Net] \in {answer[Net], "error"} /\ Net \in unlucky'
        BY <1>0, <1>1, <2>3, <3>1, <3>3 DEF WriteFails, Answer, TypeOK
      <4>. QED  BY <1>0, <1>3, <1>4, <2>1, <3>0, <3>1, <4>1 DEF NetInv
    <3>. QED  BY <3>2, <3>3
  <2>. QED  BY <2>2, <2>3
<1>8. PoolInv'
  BY <1>0, <1>3 DEF PoolInv, Working
<1>. QED  BY <1>6, <1>7, <1>8

(* The writes in the queue are writes. *)
LEMMA HasWrites == TypeOK => \A c, x : Has(c, x) => x \in TaskWrites \cup {"pause"}
<1>. SUFFICES ASSUME TypeOK, NEW c, NEW x, Has(c, x) PROVE x \in TaskWrites \cup {"pause"}
  OBVIOUS
<1>1. queue \in Seq(WriteStates)
  BY DEF TypeOK, WriteStates
<1>2. PICK i \in DOMAIN queue : queue[i].what = x
  BY DEF Has
<1>3. queue[i] \in WriteStates
  BY <1>1, LenProperties, ElementOfSeq
<1>. QED  BY <1>2, <1>3 DEF WriteStates

(* A task hands over a write when it waits for none, or reports a failure. *)
LEMMA Submitted ==
    ASSUME TypeOK, NEW t \in Tasks, TaskInv(t), NEW what \in TaskWrites, Submit(t, what),
           unlucky \subseteq unlucky',
           \/ pc[t] \in TaskWrites /\ answer[t] # "none"
           \/ pc[t] \in {"queued", "file"}
           \/ what = "failed" /\ pc[t] \in GivenUp /\ t \in unlucky'
    PROVE  /\ pc'[t] = what /\ answer'[t] = "none"
           /\ Ordered(t)' /\ QueueFollows(t)'
           /\ Has(t, what)' /\ \A x : Has(t, x)' => x = what \/ Has(t, x)
           /\ \A x : Has(t, x) => what = "failed" /\ x = pc[t] /\ x \in GivenUp
<1>0. t \in Clients /\ \A x : Has(t, x) => x \in TaskWrites
  BY HasWrites DEF Clients, TaskInv, QueueFollows
<1>1. pc'[t] = what /\ answer'[t] = "none" /\ queue' = Append(queue, [by |-> t, what |-> what])
  BY <1>0 DEF Submit, TypeOK
<1>2. \A x : Has(t, x)' <=> Has(t, x) \/ x = what
  BY <1>0, <1>1, Handed
<1>3. \A x : Has(t, x) => what = "failed" /\ x = pc[t] /\ x \in GivenUp /\ t \in unlucky'
  BY <1>0 DEF TaskInv, QueueFollows, TaskWrites, GivenUp
<1>4. Ordered(t)'
  BY <1>0, <1>1, <1>3, Handed DEF TaskInv, GivenUp
<1>5. QueueFollows(t)'
  BY <1>0, <1>1, <1>2, <1>3 DEF QueueFollows, TaskWrites
<1>. QED  BY <1>1, <1>2, <1>3, <1>4, <1>5

(* What a task hands over, and in which state of its job. *)
LEMMA SubmitTask ==
    ASSUME TypeOK, NEW t \in Tasks, TaskInv(t), NEW what \in TaskWrites, Submit(t, what),
           unlucky \subseteq unlucky', UNCHANGED <<jobs, phase>>,
           \/ /\ answer[t] = "ok" /\ memory' = memory
              /\ \/ pc[t] = "dataset" /\ what = "job"
                 \/ pc[t] = "job" /\ what = "started"
                 \/ pc[t] = "final" /\ what = "finished"
                 \/ pc[t] = "failed" /\ what = "failure"
           \/ /\ pc[t] = "queued" /\ memory' = memory
              /\ (what = "dataset" /\ t \in Imports) \/ what = "job"
           \/ /\ pc[t] = "file" /\ memory' = memory /\ t \notin Imports
              /\ what \in {"final", "failed"}
           \/ /\ pc[t] \in GivenUp /\ memory' = memory
              /\ what = "failed" /\ t \in unlucky'
    PROVE  TaskInv(t)'
<1>1. /\ pc'[t] = what /\ answer'[t] = "none"
      /\ Ordered(t)' /\ QueueFollows(t)'
      /\ Has(t, what)' /\ \A x : Has(t, x)' => x = what \/ Has(t, x)
      /\ \A x : Has(t, x) => what = "failed" /\ x = pc[t] /\ x \in GivenUp
  BY Submitted DEF TaskWrites
<1>2. jobs'[t] = jobs[t] /\ memory' = memory /\ phase' = phase
  OBVIOUS
<1>3. Whole(t)'
  BY <1>2 DEF TaskInv, Whole
<1>4. CASE answer[t] = "ok" /\ what \in {"job", "started", "finished", "failure"}
  <2>1. \A x : Has(t, x)' => x = what
    BY <1>1, <1>4
  <2>2. DatasetFollows(t)'
    BY <1>1, <1>2, <1>4, <2>1 DEF TaskInv, DatasetFollows
  <2>3. StateFollows(t)'
    BY <1>1, <1>2, <1>4, <2>1 DEF TaskInv, StateFollows
  <2>. QED  BY <1>1, <1>3, <2>2, <2>3 DEF TaskInv
<1>5. CASE pc[t] = "queued"
  <2>1. \A x : Has(t, x)' => x = what
    BY <1>1, <1>5 DEF GivenUp
  <2>2. DatasetFollows(t)'
    BY <1>1, <1>2, <1>5, <2>1 DEF TaskInv, DatasetFollows
  <2>3. StateFollows(t)'
    BY <1>1, <1>2, <1>5, <2>1 DEF TaskInv, StateFollows, GivenUp
  <2>. QED  BY <1>1, <1>3, <2>2, <2>3 DEF TaskInv
<1>6. CASE pc[t] = "file"
  <2>1. \A x : Has(t, x)' => x = what
    BY <1>1, <1>6 DEF GivenUp
  <2>2. what \in {"final", "failed"} /\ t \notin Imports
    BY <1>6 DEF GivenUp
  <2>3. DatasetFollows(t)'
    BY <1>1, <1>2, <2>1, <2>2 DEF TaskInv, DatasetFollows
  <2>4. jobs[t].state = "RUNNING"
    BY <1>6 DEF TaskInv, StateFollows
  <2>5. StateFollows(t)'
    BY <1>1, <1>2, <2>1, <2>2, <2>4 DEF StateFollows, TerminalJobStates
  <2>. QED  BY <1>1, <1>3, <2>3, <2>5 DEF TaskInv
<1>7. CASE pc[t] \in GivenUp /\ what = "failed" /\ t \in unlucky'
  <2>1. \A x : Has(t, x)' => x = "failed" \/ Has(t, x)
    BY <1>1, <1>7
  <2>2. DatasetFollows(t)'
    BY <1>1, <1>2, <1>7, <2>1 DEF TaskInv, DatasetFollows
  <2>3. StateFollows(t)'
    BY <1>1, <1>2, <1>7, <2>1 DEF TaskInv, StateFollows
  <2>. QED  BY <1>1, <1>3, <2>2, <2>3 DEF TaskInv
<1>. QED  BY <1>4, <1>5, <1>6, <1>7

(* The loop of import_dataset. *)
LEMMA ReadTask ==
    ASSUME TypeOK, NEW t \in Imports, TaskInv(t), NEW m \in Memories, ReadOn(t, m),
           answer[t] = "ok", pc[t] \in {"started", "batch"},
           UNCHANGED <<jobs, phase, unlucky>>,
           m.accepted = m.sent, m.sent <= Batches[t], jobs[t].stored = m.sent,
           jobs[t].spoiled <=> m.invalid
    PROVE  TaskInv(t)'
<1>0. t \in Tasks /\ jobs[t].state = "RUNNING" /\ m.sent \in Nat /\ Batches[t] \in Nat
  BY RuntimeAssumption DEF Tasks, TaskInv, StateFollows, Memories
<1>1. PICK what \in {"batch", "final", "failed"} : Submit(t, what)
  BY DEF ReadOn
<1>2. /\ pc'[t] = what /\ answer'[t] = "none"
      /\ Ordered(t)' /\ QueueFollows(t)'
      /\ Has(t, what)' /\ \A x : Has(t, x)' => x = what
  <2>1. \A x : Has(t, x) => x = pc[t] /\ x \in GivenUp /\ x \in TaskWrites
    BY <1>0, <1>1, Submitted DEF TaskWrites, GivenUp
  <2>2. \A x : ~Has(t, x)
    BY <1>0, <2>1 DEF TaskInv, QueueFollows
  <2>. QED  BY <1>0, <1>1, <2>2, Submitted DEF TaskWrites
<1>3. StateFollows(t)'
  BY <1>0, <1>2 DEF StateFollows, TerminalJobStates
<1>4. Whole(t)'
  BY <1>0 DEF Whole
<1>5. DatasetFollows(t)'
  <2>1. pc'[t] \in {"batch", "final", "failed"}
    BY <1>1, <1>2
  <2>2. CASE what = "batch"
    <3>1. \E bad \in BOOLEAN : memory'[t] = [m EXCEPT !.sent = @ + 1, !.bad = bad] /\ m.sent < Batches[t]
      BY <1>0, <1>1, <1>2, <2>2 DEF ReadOn, MoreBatches, TypeOK, Submit, Clients
    <3>2. /\ memory'[t].sent = m.sent + 1 /\ memory'[t].accepted = m.accepted /\ m.sent < Batches[t]
          /\ memory'[t].invalid = m.invalid
      BY <3>1 DEF Memories
    <3>. QED  BY <1>0, <1>2, <2>2, <3>2 DEF DatasetFollows
  <2>3. CASE what = "final"
    <3>1. memory'[t] = m /\ ~(m.sent < Batches[t])
      BY <1>0, <1>1, <1>2, <2>3 DEF ReadOn, MoreBatches, TypeOK, Submit, Clients
    <3>2. m.sent = Batches[t]
      BY <1>0, <3>1
    <3>. QED  BY <1>0, <1>2, <2>3, <3>1, <3>2 DEF DatasetFollows
  <2>4. CASE what = "failed"
    BY <1>0, <1>2, <2>4 DEF DatasetFollows
  <2>. QED  BY <1>1, <2>2, <2>3, <2>4
<1>. QED  BY <1>1, <1>2, <1>3, <1>4, <1>5 DEF TaskInv, TaskWrites

(* A task that ends has finished its job, or has given up. *)
LEMMA EndTask ==
    ASSUME TypeOK, NEW t \in Tasks, TaskInv(t), Ends(t), unlucky \subseteq unlucky',
           UNCHANGED <<jobs, phase, memory>>,
           \/ pc[t] \in {"finished", "failure"} /\ answer[t] = "ok"
           \/ pc[t] = "queued"
           \/ pc[t] \in TaskWrites /\ t \in unlucky'
    PROVE  TaskInv(t)'
<1>1. pc'[t] = "over" /\ \A x : (Has(t, x)' <=> Has(t, x)) /\ (Ordered(t)' <=> Ordered(t))
  BY QueueSame DEF Ends, TypeOK, Clients
<1>2. t \in unlucky' \/ \A x : ~Has(t, x)
  <2>1. \A x : Has(t, x) => x \in TaskWrites
    BY HasWrites DEF TaskInv, QueueFollows
  <2>. QED  BY <2>1 DEF TaskInv, QueueFollows, TaskWrites
<1>3. QueueFollows(t)'
  BY <1>1, <1>2 DEF TaskInv, QueueFollows, TaskWrites
<1>4. DatasetFollows(t)'
  BY <1>1 DEF TaskInv, DatasetFollows
<1>5. StateFollows(t)'
  <2>1. t \in unlucky' \/ jobs[t].state # "RUNNING"
    BY DEF TaskInv, StateFollows, TerminalJobStates
  <2>. QED  BY <1>1, <2>1 DEF TaskInv, StateFollows
<1>. QED  BY <1>1, <1>3, <1>4, <1>5 DEF TaskInv, Whole

(* Every step of a task keeps its invariant. *)
LEMMA WorkerTask ==
    ASSUME TypeOK, NEW t \in Tasks, TaskInv(t), WorkerStep(t)
    PROVE  TaskInv(t)'
<1>0. UNCHANGED <<jobs, pool, phase>> /\ t \in Clients /\ memory[t] \in Memories /\ unlucky \subseteq unlucky'
  BY DEF WorkerStep, GoOn, FileWritten, Raises, GivesUp, Clients, TypeOK, Memories
<1>1. CASE GoOn(t)
  <2>0. unlucky' = unlucky /\ answer[t] = "ok"
    BY <1>1 DEF GoOn
  <2>1. CASE pc[t] = "dataset" /\ Submit(t, "job") /\ UNCHANGED memory
    BY <1>0, <2>0, <2>1, SubmitTask DEF TaskWrites
  <2>2. CASE pc[t] = "job" /\ Submit(t, "started") /\ UNCHANGED memory
    BY <1>0, <2>0, <2>2, SubmitTask DEF TaskWrites
  <2>3. CASE pc[t] = "started" /\ t \in Imports /\ ReadOn(t, memory[t])
    <3>1. memory[t] = NoMemory /\ jobs[t].stored = 0 /\ ~jobs[t].spoiled
      BY <2>3 DEF TaskInv, DatasetFollows
    <3>2. Batches[t] \in Nat
      BY <2>3, RuntimeAssumption
    <3>3. memory[t].accepted = memory[t].sent /\ memory[t].sent = 0 /\ ~memory[t].invalid
      BY <3>1 DEF NoMemory
    <3>. QED  BY <1>0, <2>0, <2>3, <3>1, <3>2, <3>3, ReadTask
  <2>4. CASE pc[t] = "started" /\ t \in Exports
             /\ pc' = [pc EXCEPT ![t] = "file"] /\ UNCHANGED <<queue, answer, memory>>
    <3>1. pc'[t] = "file" /\ \A x : (Has(t, x)' <=> Has(t, x)) /\ (Ordered(t)' <=> Ordered(t))
      BY <1>0, <2>4, QueueSame DEF TypeOK
    <3>2. \A x : ~Has(t, x)
      <4>1. \A x : Has(t, x) => x \in TaskWrites
        BY HasWrites DEF TaskInv, QueueFollows
      <4>. QED  BY <2>0, <2>4, <4>1 DEF TaskInv, QueueFollows, TaskWrites
    <3>3. QueueFollows(t)'
      BY <3>1, <3>2 DEF QueueFollows, TaskWrites
    <3>4. DatasetFollows(t)'
      BY <2>4, <3>1, <3>2, RuntimeAssumption DEF DatasetFollows
    <3>5. StateFollows(t)'
      BY <1>0, <2>4, <3>1, <3>2 DEF TaskInv, StateFollows
    <3>. QED  BY <1>0, <2>4, <3>1, <3>3, <3>4, <3>5 DEF TaskInv, Whole
  <2>5. CASE pc[t] = "batch" /\ ReadOn(t, Summed(memory[t]))
    <3> DEFINE m == Summed(memory[t])
    <3>1. /\ t \in Imports /\ memory[t].accepted = memory[t].sent - 1 /\ memory[t].sent <= Batches[t]
          /\ jobs[t].stored = memory[t].sent
          /\ jobs[t].spoiled <=> memory[t].invalid \/ memory[t].bad
      BY <2>0, <2>5 DEF TaskInv, DatasetFollows
    <3>2. memory[t].sent \in Nat /\ memory[t].accepted \in Nat
      BY <1>0 DEF Memories
    <3>3. m \in Memories
      BY <1>0, SummedTypes
    <3>4. m.accepted = memory[t].accepted + 1 /\ m.sent = memory[t].sent
      BY <1>0 DEF Summed, Memories
    <3>5. m.invalid <=> memory[t].invalid \/ memory[t].bad
      BY <1>0 DEF Summed, Memories
    <3>6. m.accepted = m.sent /\ m.sent <= Batches[t] /\ jobs[t].stored = m.sent
      BY <3>1, <3>2, <3>4
    <3>7. jobs[t].spoiled <=> m.invalid
      BY <3>1, <3>5
    <3>. HIDE DEF m
    <3>8. ReadOn(t, m)
      BY <2>5 DEF m
    <3>. QED  BY <1>0, <2>0, <2>5, <3>1, <3>3, <3>6, <3>7, <3>8, ReadTask
  <2>6. CASE pc[t] = "final" /\ Submit(t, "finished") /\ UNCHANGED memory
    BY <1>0, <2>0, <2>6, SubmitTask DEF TaskWrites
  <2>7. CASE pc[t] = "failed" /\ Submit(t, "failure") /\ UNCHANGED memory
    BY <1>0, <2>0, <2>7, SubmitTask DEF TaskWrites
  <2>8. CASE pc[t] \in {"finished", "failure"} /\ Ends(t) /\ UNCHANGED memory
    BY <1>0, <2>0, <2>8, EndTask
  <2>. QED  BY <1>1, <2>1, <2>2, <2>3, <2>4, <2>5, <2>6, <2>7, <2>8 DEF GoOn
<1>2. CASE FileWritten(t)
  <2>1. pc[t] = "file" /\ UNCHANGED memory /\ \E what \in {"final", "failed"} : Submit(t, what)
    BY <1>2 DEF FileWritten
  <2>2. t \notin Imports
    BY <2>1 DEF TaskInv, DatasetFollows
  <2>. QED  BY <1>0, <2>1, <2>2, SubmitTask DEF TaskWrites
<1>3. CASE Raises(t)
  <2>1. UNCHANGED memory /\ t \in unlucky' /\ pc[t] \in TaskWrites
    BY <1>3 DEF Raises, GivesUp, TaskInv, QueueFollows
  <2>2. CASE Ends(t)
    BY <1>0, <2>1, <2>2, EndTask
  <2>3. CASE pc[t] \in GivenUp /\ Submit(t, "failed")
    BY <1>0, <2>1, <2>3, SubmitTask DEF TaskWrites
  <2>. QED  BY <1>3, <2>2, <2>3 DEF Raises, GivenUp
<1>. QED  BY <1>1, <1>2, <1>3 DEF WorkerStep

(* What a task does is none of the others' business. *)
LEMMA WorkerInvs ==
    ASSUME RuntimeInv, NEW t \in Tasks, WorkerStep(t)
    PROVE  (\A u \in Tasks : TaskInv(u)') /\ NetInv' /\ PoolInv'
<1>0. /\ TypeOK /\ NetInv /\ PoolInv /\ (\A u \in Tasks : TaskInv(u)) /\ t \in Clients /\ t # Net
      /\ Net \in Clients /\ Tasks \subseteq Clients
  BY RuntimeAssumption DEF RuntimeInv, Clients
<1>1. UNCHANGED <<jobs, pool, phase>> /\ unlucky \subseteq unlucky' /\ phase \notin {"exited", "down"}
  BY DEF WorkerStep, GoOn, FileWritten, Raises, GivesUp, Alive
<1>2. \A u \in Tasks : u # t => memory'[u] = memory[u]
  BY <1>0 DEF WorkerStep, GoOn, FileWritten, Raises, ReadOn, TypeOK
<1>3. \/ \E what \in TaskWrites : Submit(t, what)
      \/ UNCHANGED <<queue, answer>> /\ \E p \in {"over", "file"} : pc' = [pc EXCEPT ![t] = p]
  <2>1. CASE GoOn(t)
    BY <2>1 DEF GoOn, ReadOn, Ends, TaskWrites
  <2>2. CASE FileWritten(t)
    BY <2>2 DEF FileWritten, TaskWrites
  <2>3. CASE Raises(t)
    BY <2>3 DEF Raises, Ends, TaskWrites
  <2>. QED  BY <2>1, <2>2, <2>3 DEF WorkerStep
<1>4. \A c \in Clients : c # t => /\ pc'[c] = pc[c] /\ answer'[c] = answer[c]
                                  /\ \A x : Has(c, x)' <=> Has(c, x)
                                  /\ Ordered(c)' <=> Ordered(c)
  <2>1. ASSUME NEW what \in TaskWrites, Submit(t, what), NEW c \in Clients, c # t
        PROVE  /\ pc'[c] = pc[c] /\ answer'[c] = answer[c]
               /\ \A x : Has(c, x)' <=> Has(c, x)
               /\ Ordered(c)' <=> Ordered(c)
    BY <1>0, <2>1, Handed DEF Submit, TypeOK
  <2>2. CASE UNCHANGED <<queue, answer>> /\ \E p \in {"over", "file"} : pc' = [pc EXCEPT ![t] = p]
    BY <1>0, <2>2, QueueSame DEF TypeOK
  <2>. QED  BY <1>3, <2>1, <2>2
<1>5. pc'[t] \notin {"queued"} /\ pc[t] \notin {"queued"} /\ t \in Working
  <2>1. pc'[t] \in TaskWrites \cup {"over", "file"}
    BY <1>0, <1>3 DEF Submit, TypeOK
  <2>2. pc[t] \in TaskWrites \cup {"file"}
    BY DEF WorkerStep, GoOn, FileWritten, Raises, TaskWrites
  <2>. QED  BY <2>1, <2>2 DEF TaskWrites, Working
<1>6. \A u \in Tasks : TaskInv(u)'
  BY <1>0, <1>1, <1>2, <1>4, WorkerTask, Aside DEF TaskInv
<1>7. NetInv'
  BY <1>0, <1>1, <1>4 DEF NetInv, Running
<1>8. PoolInv'
  BY <1>0, <1>1, <1>4, <1>5 DEF PoolInv
<1>. QED  BY <1>6, <1>7, <1>8

(* The steps of the run are none of the tasks'. *)
LEMMA RunInvs ==
    ASSUME RuntimeInv, RunStep \/ StartRun
    PROVE  (\A u \in Tasks : TaskInv(u)') /\ NetInv' /\ PoolInv'
<1>0. /\ TypeOK /\ NetInv /\ PoolInv /\ (\A u \in Tasks : TaskInv(u)) /\ Net \in Clients /\ Net \notin Tasks
      /\ Tasks \subseteq Clients
  BY RuntimeAssumption DEF RuntimeInv, Clients
<1>1. /\ UNCHANGED <<memory, phase, unlucky>> /\ phase \notin {"exited", "down"}
      /\ \A t \in Tasks : jobs'[t] = jobs[t]
      /\ pc[Net] \in {"new", "reading", "call", "pause"}
  BY <1>0 DEF RunStep, RunReads, RunGoesOn, RunPauses, RunEnds, StartRun, rows, Alive, TypeOK
<1>2. \/ Submit(Net, "pause") /\ RunPauses
      \/ UNCHANGED <<queue, answer>> /\ \E p \in Places : pc' = [pc EXCEPT ![Net] = p]
  BY DEF RunStep, RunReads, RunGoesOn, RunPauses, RunEnds, StartRun, rows, Ends, Places
<1>3. \A t \in Tasks : /\ pc'[t] = pc[t] /\ answer'[t] = answer[t]
                       /\ \A x : Has(t, x)' <=> Has(t, x)
                       /\ Ordered(t)' <=> Ordered(t)
  <2>1. CASE Submit(Net, "pause")
    BY <1>0, <2>1, Handed DEF Submit, TypeOK
  <2>2. CASE UNCHANGED <<queue, answer>> /\ \E p \in Places : pc' = [pc EXCEPT ![Net] = p]
    BY <1>0, <2>2, QueueSame DEF TypeOK
  <2>. QED  BY <1>2, <2>1, <2>2
<1>4. \A u \in Tasks : TaskInv(u)'
  BY <1>0, <1>1, <1>3, Aside DEF TaskInv
<1>5. NetInv'
  <2>1. CASE RunPauses
    <3>1. /\ pc'[Net] = "pause" /\ answer'[Net] = "none" /\ jobs' = jobs /\ pc[Net] = "call"
          /\ \A x : Has(Net, x)' <=> Has(Net, x) \/ x = "pause"
      BY <1>0, <2>1, Handed DEF RunPauses, Submit, TypeOK
    <3>2. \A x : ~Has(Net, x)
      BY <1>0, <3>1, HasWrites DEF NetInv
    <3>3. Ordered(Net)'
      BY <1>0, <2>1, <3>2, Handed DEF RunPauses, Submit, NetInv
    <3>. QED  BY <1>0, <1>1, <3>1, <3>3 DEF NetInv, TaskWrites, Running
  <2>2. CASE RunReads \/ RunGoesOn \/ RunEnds
    <3>1. /\ UNCHANGED <<queue, answer, jobs>>
          /\ \/ pc[Net] \in {"reading", "call"} /\ pc'[Net] \in {"fetch", "call"}
             \/ pc[Net] = "pause" /\ answer[Net] # "none" /\ pc'[Net] = "over"
      BY <1>0, <2>2 DEF RunReads, RunGoesOn, RunEnds, Ends, rows, TypeOK
    <3>2. (\A x : Has(Net, x)' <=> Has(Net, x)) /\ (Ordered(Net)' <=> Ordered(Net))
      BY <3>1, QueueSame
    <3>3. ~Has(Net, "pause")
      BY <1>0, <3>1 DEF NetInv
    <3>. QED  BY <1>0, <1>1, <3>1, <3>2, <3>3 DEF NetInv, Running, TypeOK
  <2>3. CASE StartRun
    <3>1. /\ UNCHANGED <<queue, answer>> /\ pc[Net] = "new" /\ pc'[Net] = "fetch" /\ phase = "up"
          /\ jobs'[Net].state = "RUNNING"
      BY <1>0, <2>3 DEF StartRun, TypeOK
    <3>2. (\A x : Has(Net, x)' <=> Has(Net, x)) /\ (Ordered(Net)' <=> Ordered(Net))
      BY <3>1, QueueSame
    <3>. QED  BY <1>0, <1>1, <3>1, <3>2 DEF NetInv, Running
  <2>. QED  BY <2>1, <2>2, <2>3 DEF RunStep
<1>6. PoolInv'
  <2>1. Working' = Working
    BY <1>3 DEF Working
  <2>2. CASE pool' = pool
    BY <1>0, <1>1, <1>3, <2>1, <2>2 DEF PoolInv
  <2>3. CASE pool' = Append(pool, Net) /\ (RunGoesOn \/ StartRun)
    <3>1. phase \in {"up", "hooks"}
      BY <1>0, <2>3 DEF RunGoesOn, StartRun, NetInv, Running
    <3>2. /\ DOMAIN pool = 1..Len(pool) /\ DOMAIN pool' = 1..(Len(pool) + 1) /\ Len(pool) \in Nat
          /\ \A i \in 1..Len(pool) : pool'[i] = pool[i]
          /\ pool'[Len(pool) + 1] = Net
      BY <1>0, <2>3, AppendProperties, LenProperties DEF TypeOK
    <3>3. \A i \in DOMAIN pool' : pool'[i] \in Tasks => i \in DOMAIN pool /\ pool'[i] = pool[i]
      BY <1>0, <3>2
    <3>. QED  BY <1>0, <1>1, <1>3, <2>1, <3>1, <3>3 DEF PoolInv
  <2>. QED  BY <2>2, <2>3 DEF RunStep, RunReads, RunGoesOn, RunPauses, RunEnds, StartRun
<1>. QED  BY <1>4, <1>5, <1>6

(* A task is ordered once. *)
LEMMA OrderInvs ==
    ASSUME RuntimeInv, NEW t \in Tasks, OrderImport(t) \/ OrderExport(t)
    PROVE  (\A u \in Tasks : TaskInv(u)') /\ NetInv' /\ PoolInv'
<1>0. /\ TypeOK /\ NetInv /\ PoolInv /\ (\A u \in Tasks : TaskInv(u)) /\ Net \notin Tasks /\ Net \in Clients
      /\ Tasks \subseteq Clients
  BY RuntimeAssumption DEF RuntimeInv, Clients
<1>1. /\ UNCHANGED <<jobs, queue, answer, memory, phase, unlucky>> /\ phase = "up" /\ pc[t] = "new"
      /\ pc' = [pc EXCEPT ![t] = "queued"] /\ pool' = Append(pool, t)
  BY DEF OrderImport, OrderExport, rows
<1>2. pc'[t] = "queued" /\ \A c \in Clients : c # t => pc'[c] = pc[c]
  BY <1>0, <1>1 DEF TypeOK
<1>3. \A c, x : (Has(c, x)' <=> Has(c, x)) /\ (Ordered(c)' <=> Ordered(c))
  BY <1>1, QueueSame
<1>4. TaskInv(t)'
  <2>1. \A x \in TaskWrites : ~Has(t, x)
    BY <1>0, <1>1 DEF TaskInv, QueueFollows, TaskWrites
  <2>2. QueueFollows(t)'
    BY <1>0, <1>1, <1>2, <1>3, <2>1 DEF TaskInv, QueueFollows, TaskWrites
  <2>3. DatasetFollows(t)' /\ StateFollows(t)' /\ Whole(t)'
    BY <1>0, <1>1, <1>2, <1>3 DEF TaskInv, DatasetFollows, StateFollows, Whole
  <2>. QED  BY <1>0, <1>2, <1>3, <2>2, <2>3 DEF TaskInv
<1>5. \A u \in Tasks : TaskInv(u)'
  BY <1>0, <1>1, <1>2, <1>3, <1>4, Aside DEF TaskInv
<1>6. NetInv'
  BY <1>0, <1>1, <1>2, <1>3 DEF NetInv, Running
<1>7. PoolInv'
  <2>1. /\ DOMAIN pool = 1..Len(pool) /\ DOMAIN pool' = 1..(Len(pool) + 1) /\ Len(pool) \in Nat
        /\ \A i \in 1..Len(pool) : pool'[i] = pool[i]
        /\ pool'[Len(pool) + 1] = t
    BY <1>0, <1>1, AppendProperties, LenProperties DEF TypeOK
  <2>2. \A i \in DOMAIN pool : pool[i] # t
    BY <1>0, <1>1 DEF PoolInv
  <2>3. \A i \in DOMAIN pool' : i \in DOMAIN pool \/ i = Len(pool) + 1
    BY <2>1
  <2>4. \A i \in DOMAIN pool' : pool'[i] \in Tasks => pc'[pool'[i]] = "queued"
    BY <1>0, <1>2, <2>1, <2>3 DEF PoolInv
  <2>5. \A i, j \in DOMAIN pool' : pool'[i] = pool'[j] /\ pool'[i] \in Tasks => i = j
    BY <1>0, <2>1, <2>2, <2>3 DEF PoolInv
  <2>. QED  BY <1>0, <1>1, <1>2, <2>4, <2>5 DEF PoolInv, Working, TaskWrites
<1>. QED  BY <1>5, <1>6, <1>7

(* A worker takes a task out of the queue of the pool. *)
LEMMA TakeInvs ==
    ASSUME RuntimeInv, TakeTask
    PROVE  (\A u \in Tasks : TaskInv(u)') /\ NetInv' /\ PoolInv'
<1>a. PICK c : c = Head(pool)
  OBVIOUS
<1>0. /\ TypeOK /\ NetInv /\ PoolInv /\ (\A u \in Tasks : TaskInv(u)) /\ Net \notin Tasks /\ Net \in Clients
      /\ Tasks \subseteq Clients /\ Imports \subseteq Tasks /\ Exports \subseteq Tasks
  BY RuntimeAssumption DEF RuntimeInv, Clients, Tasks
<1>1. /\ UNCHANGED <<jobs, memory, phase, unlucky>> /\ pool # <<>> /\ pool' = Tail(pool)
  BY DEF TakeTask
<1>2. /\ DOMAIN pool = 1..Len(pool) /\ Len(pool) \in Nat /\ Len(pool) > 0 /\ DOMAIN pool' = 1..(Len(pool) - 1)
      /\ c = pool[1] /\ c \in Clients
      /\ \A i \in 1..(Len(pool) - 1) : pool'[i] = pool[i + 1]
  <2>1. pool \in Seq(Clients)
    BY <1>0 DEF TypeOK
  <2>. QED  BY <1>a, <1>1, <2>1, HeadTailProperties, LenProperties, EmptySeq
<1>3. phase \notin {"draining", "writer", "exited", "down"}
  BY <1>0, <1>1 DEF PoolInv
<1>4. c \in Tasks => pc[c] = "queued"
  BY <1>0, <1>2 DEF PoolInv
<1>5. ASSUME c \in Tasks
      PROVE  TaskInv(c)' /\ \A d \in Clients : d # c =>
                                /\ pc'[d] = pc[d] /\ answer'[d] = answer[d]
                                /\ \A x : Has(d, x)' <=> Has(d, x)
                                /\ Ordered(d)' <=> Ordered(d)
  <2>1. CASE \E what \in {"dataset", "job"} : Submit(c, what) /\ (what = "dataset" => c \in Imports)
    <3>1. PICK what \in {"dataset", "job"} : Submit(c, what) /\ (what = "dataset" => c \in Imports)
      BY <2>1
    <3>2. TaskInv(c)'
      BY <1>0, <1>1, <1>4, <1>5, <3>1, SubmitTask DEF TaskWrites
    <3>3. queue' = Append(queue, [by |-> c, what |-> what]) /\ what \in TaskWrites
      BY <3>1 DEF Submit, TaskWrites
    <3>4. \A d \in Clients : d # c => pc'[d] = pc[d] /\ answer'[d] = answer[d]
      BY <1>0, <3>1 DEF Submit, TypeOK
    <3>. QED  BY <1>0, <1>2, <3>2, <3>3, <3>4, Handed
  <2>2. CASE Ends(c)
    <3>1. TaskInv(c)'
      BY <1>0, <1>1, <1>4, <1>5, <2>2, EndTask
    <3>. QED  BY <1>0, <2>2, <3>1, QueueSame DEF Ends, TypeOK
  <2>. QED  BY <1>0, <1>a, <1>5, <2>1, <2>2 DEF TakeTask, Ends
<1>6. ASSUME c = Net
      PROVE  /\ UNCHANGED <<queue, answer>> /\ pc'[Net] = IF pc[Net] = "fetch" THEN "reading" ELSE pc[Net]
             /\ \A t \in Tasks : pc'[t] = pc[t]
  BY <1>0, <1>a, <1>6 DEF TakeTask, TypeOK
<1>7. \A u \in Tasks : TaskInv(u)'
  <2>1. CASE c \in Tasks
    BY <1>0, <1>1, <1>5, <2>1, Aside DEF TaskInv
  <2>2. CASE c = Net
    BY <1>0, <1>1, <1>6, <2>2, Aside, QueueSame DEF TaskInv
  <2>. QED  BY <1>2, <2>1, <2>2 DEF Clients
<1>8. NetInv'
  <2>1. CASE c \in Tasks
    BY <1>0, <1>1, <1>5, <2>1 DEF NetInv, Running
  <2>2. CASE c = Net
    <3>1. (\A x : Has(Net, x)' <=> Has(Net, x)) /\ (Ordered(Net)' <=> Ordered(Net))
      BY <1>6, <2>2, QueueSame
    <3>. QED  BY <1>0, <1>1, <1>6, <2>2, <3>1 DEF NetInv, Running
  <2>. QED  BY <1>2, <2>1, <2>2 DEF Clients
<1>9. PoolInv'
  <2>1. \A i \in DOMAIN pool' : /\ i + 1 \in DOMAIN pool /\ pool'[i] = pool[i + 1] /\ i \in Nat
                                /\ pool'[i] \in Tasks => pool'[i] # c
    <3>. SUFFICES ASSUME NEW i \in DOMAIN pool'
                  PROVE  /\ i + 1 \in DOMAIN pool /\ pool'[i] = pool[i + 1] /\ i \in Nat
                         /\ pool'[i] \in Tasks => pool'[i] # c
      OBVIOUS
    <3>1. i + 1 \in DOMAIN pool /\ pool'[i] = pool[i + 1] /\ i \in Nat /\ i + 1 # 1 /\ 1 \in DOMAIN pool
      BY <1>2
    <3>. QED  BY <1>0, <1>2, <3>1 DEF PoolInv
  <2>2. \A t \in Tasks : t # c => pc'[t] = pc[t]
    BY <1>0, <1>2, <1>5, <1>6 DEF Clients
  <2>3. \A i \in DOMAIN pool' : pool'[i] \in Tasks => pc'[pool'[i]] = "queued"
    BY <1>0, <2>1, <2>2 DEF PoolInv
  <2>4. \A i, j \in DOMAIN pool' : pool'[i] = pool'[j] /\ pool'[i] \in Tasks => i = j
    BY <1>0, <2>1 DEF PoolInv
  <2>5. \A t \in Tasks : pc'[t] = "queued" => pc[t] = "queued" \/ t = c
    BY <2>2
  <2>. QED  BY <1>0, <1>1, <1>3, <1>4, <2>3, <2>4, <2>5 DEF PoolInv
<1>. QED  BY <1>7, <1>8, <1>9

(* stop() ends the run, drops what has not begun, waits for the workers.   *)
LEMMA StopInvs ==
    ASSUME RuntimeInv, Quit \/ StopStep
    PROVE  (\A u \in Tasks : TaskInv(u)') /\ NetInv' /\ PoolInv'
<1>0. /\ TypeOK /\ NetInv /\ PoolInv /\ (\A u \in Tasks : TaskInv(u)) /\ Net \notin Tasks /\ Net \in Clients
      /\ Tasks \subseteq Clients
  BY RuntimeAssumption DEF RuntimeInv, Clients
<1>1. /\ UNCHANGED <<jobs, queue, answer, memory, unlucky>>
      /\ phase \notin {"exited", "down"} /\ phase' \notin {"up", "down"}
  BY DEF Quit, StopStep, NetworkStops, QueueDropped, WorkersEnd, WriterStops, rows, tasks
<1>2. \A c, x : (Has(c, x)' <=> Has(c, x)) /\ (Ordered(c)' <=> Ordered(c))
  BY <1>1, QueueSame
<1>3. ASSUME NEW t \in Tasks PROVE pc'[t] = pc[t] \/ (pc[t] = "queued" /\ pc'[t] = "dropped")
  BY <1>0 DEF Quit, StopStep, NetworkStops, QueueDropped, WorkersEnd, WriterStops, tasks, TypeOK
<1>4. ASSUME NEW t \in Tasks PROVE TaskInv(t)'
  <2>1. CASE pc'[t] = pc[t]
    BY <1>0, <1>1, <1>2, <2>1, Aside DEF TaskInv
  <2>2. CASE pc[t] = "queued" /\ pc'[t] = "dropped"
    <3>1. \A x \in TaskWrites : ~Has(t, x)
      BY <1>0, <2>2 DEF TaskInv, QueueFollows, TaskWrites
    <3>2. QueueFollows(t)'
      BY <1>0, <1>1, <1>2, <2>2, <3>1 DEF TaskInv, QueueFollows, TaskWrites
    <3>3. DatasetFollows(t)' /\ StateFollows(t)' /\ Whole(t)'
      BY <1>0, <1>1, <1>2, <2>2 DEF TaskInv, DatasetFollows, StateFollows, Whole
    <3>. QED  BY <1>0, <1>2, <2>2, <3>2, <3>3 DEF TaskInv
  <2>. QED  BY <1>3, <2>1, <2>2
<1>5. \/ pc'[Net] = pc[Net] /\ (phase' # "hooks" => phase \notin {"up", "hooks"})
      \/ phase = "hooks" /\ phase' = "workers" /\ pc'[Net] = IF Running THEN "killed" ELSE pc[Net]
  BY <1>0 DEF Quit, StopStep, NetworkStops, QueueDropped, WorkersEnd, WriterStops, tasks, TypeOK, NetInv, Running
<1>6. NetInv'
  <2>1. CASE pc'[Net] = pc[Net] /\ (phase' # "hooks" => phase \notin {"up", "hooks"})
    <3>1. phase' = "hooks" => phase = "up"
      BY <1>1 DEF Quit, StopStep, NetworkStops, QueueDropped, WorkersEnd, WriterStops
    <3>. QED  BY <1>0, <1>1, <1>2, <2>1, <3>1 DEF NetInv, Running
  <2>2. CASE phase = "hooks" /\ phase' = "workers" /\ pc'[Net] = IF Running THEN "killed" ELSE pc[Net]
    BY <1>0, <1>1, <1>2, <2>2 DEF NetInv, Running
  <2>. QED  BY <1>5, <2>1, <2>2
<1>7. PoolInv'
  <2>1. CASE Quit \/ NetworkStops
    <3>1. pool' = pool /\ phase' \in {"hooks", "workers"} /\ phase \in {"up", "hooks"}
          /\ \A t \in Tasks : pc'[t] = pc[t]
      BY <1>0, <2>1 DEF Quit, NetworkStops, tasks, TypeOK
    <3>. QED  BY <1>0, <3>1 DEF PoolInv
  <2>2. CASE QueueDropped
    <3>1. pool' = <<>> /\ phase' = "draining" /\ \A t \in Tasks : pc'[t] # "queued"
      BY <1>0, <2>2 DEF QueueDropped
    <3>2. DOMAIN pool' = {}
      BY <3>1, EmptySeq
    <3>. QED  BY <3>1, <3>2 DEF PoolInv
  <2>3. CASE WorkersEnd
    BY <1>0, <2>3 DEF WorkersEnd, tasks, PoolInv, Working
  <2>4. CASE WriterStops
    BY <1>0, <2>4 DEF WriterStops, tasks, PoolInv, Working
  <2>. QED  BY <2>1, <2>2, <2>3, <2>4 DEF StopStep
<1>. QED  BY <1>4, <1>6, <1>7

(* What is known after a crash, and after the recovery at the next start.  *)
LEMMA ForgetInvs ==
    ASSUME RuntimeInv, Crash \/ Restart
    PROVE  (\A u \in Tasks : TaskInv(u)') /\ NetInv' /\ PoolInv'
<1>0. /\ TypeOK /\ NetInv /\ (\A u \in Tasks : TaskInv(u)) /\ Net \notin Tasks /\ Net \in Clients
      /\ Tasks \subseteq Clients /\ Forget
  BY RuntimeAssumption DEF RuntimeInv, Clients, Crash, Restart
<1>1. /\ queue' = <<>> /\ pool' = <<>> /\ unlucky' = {}
      /\ \A c \in Clients : answer'[c] = "none" /\ pc'[c] = IF pc[c] = "new" THEN "new" ELSE "over"
      /\ \A t \in Tasks : memory'[t] = NoMemory
  BY <1>0 DEF Forget
<1>2. (\A c, x : ~Has(c, x)') /\ \A c : Ordered(c)'
  BY <1>1, EmptySeq DEF Has, Ordered
<1>3. \A c \in Clients : jobs'[c] = jobs[c] \/ jobs'[c] = Recovered(c)
  BY DEF Crash, Restart
<1>4. \A c \in Clients : \/ phase' = "down" /\ jobs'[c] = jobs[c]
                         \/ phase' = "up" /\ jobs'[c] = Recovered(c)
  BY DEF Crash, Restart
<1>5. ASSUME NEW t \in Tasks
      PROVE  \/ jobs'[t] = jobs[t] /\ (phase' = "down" \/ jobs[t].state # "RUNNING")
             \/ /\ jobs[t].state = "RUNNING" /\ jobs'[t] = [jobs[t] EXCEPT !.state = "CANCELLED"]
  BY <1>0, <1>4 DEF Recovered
<1>6. ASSUME NEW t \in Tasks PROVE TaskInv(t)'
  <2>1. jobs[t] \in JobRows
    BY <1>0 DEF TypeOK, JobRows
  <2>2. pc'[t] \in {"new", "over"} /\ (pc'[t] = "new" => pc[t] = "new") /\ answer'[t] = "none"
    BY <1>0, <1>1
  <2>3. QueueFollows(t)'
    BY <1>2, <2>2 DEF QueueFollows, TaskWrites
  <2>4. jobs'[t].stored = jobs[t].stored /\ jobs'[t].spoiled = jobs[t].spoiled
        /\ jobs'[t].checkpoint = jobs[t].checkpoint
        /\ jobs'[t].state \in {jobs[t].state, "CANCELLED"}
        /\ (pc[t] = "new" => jobs'[t] = jobs[t])
        /\ (phase' # "down" => jobs'[t].state # "RUNNING")
    BY <1>0, <1>5, <2>1 DEF JobRows, TaskInv, StateFollows
  <2>5. DatasetFollows(t)'
    BY <1>0, <1>1, <1>2, <2>2, <2>4 DEF TaskInv, DatasetFollows
  <2>6. StateFollows(t)'
    BY <1>0, <1>2, <2>2, <2>4 DEF TaskInv, StateFollows, TerminalJobStates
  <2>7. Whole(t)'
    BY <1>0, <2>4 DEF TaskInv, Whole
  <2>. QED  BY <1>2, <2>2, <2>3, <2>5, <2>6, <2>7 DEF TaskInv
<1>7. NetInv'
  <2>1. jobs[Net] \in JobRows /\ pc'[Net] \in {"new", "over"} /\ (pc'[Net] = "new" => pc[Net] = "new")
    BY <1>0, <1>1 DEF TypeOK, JobRows
  <2>2. jobs'[Net].state \in {"none", "RUNNING", "PAUSED"} /\ (pc[Net] = "new" => jobs'[Net].state = "none")
        /\ (phase' # "down" => jobs'[Net].state # "RUNNING")
    BY <1>0, <1>4, <2>1 DEF Recovered, NetInv, JobRows
  <2>. QED  BY <1>1, <1>2, <2>1, <2>2 DEF NetInv, Running
<1>8. PoolInv'
  <2>1. DOMAIN pool' = {}
    BY <1>1, EmptySeq
  <2>2. \A t \in Tasks : pc'[t] \in {"new", "over"}
    BY <1>0, <1>1
  <2>. QED  BY <1>1, <2>1, <2>2 DEF PoolInv, Working, TaskWrites
<1>. QED  BY <1>6, <1>7, <1>8

(* At the start nothing has been ordered. *)
LEMMA RuntimeInit == Init => RuntimeInv
<1>. SUFFICES ASSUME Init PROVE RuntimeInv
  OBVIOUS
<1>0. Net \in Clients /\ Tasks \subseteq Clients
  BY DEF Clients
<1>1. /\ queue = <<>> /\ pool = <<>> /\ unlucky = {} /\ phase = "up"
      /\ \A c \in Clients : answer[c] = "none" /\ pc[c] = "new" /\ jobs[c] = NoJob
      /\ \A t \in Tasks : memory[t] = NoMemory
  BY <1>0 DEF Init
<1>2. (\A c, x : ~Has(c, x)) /\ \A c : Ordered(c)
  BY <1>1, EmptySeq DEF Has, Ordered
<1>3. NoJob.state = "none" /\ NoJob.stored = 0 /\ ~NoJob.spoiled
  BY DEF NoJob
<1>4. ASSUME NEW t \in Tasks PROVE TaskInv(t)
  <2>1. pc[t] = "new" /\ answer[t] = "none" /\ jobs[t] = NoJob /\ memory[t] = NoMemory
    BY <1>0, <1>1
  <2>2. QueueFollows(t) /\ DatasetFollows(t) /\ StateFollows(t) /\ Whole(t)
    BY <1>2, <1>3, <2>1 DEF QueueFollows, DatasetFollows, StateFollows, Whole, TaskWrites
  <2>. QED  BY <1>2, <2>1, <2>2 DEF TaskInv
<1>5. NetInv
  BY <1>0, <1>1, <1>2, <1>3 DEF NetInv
<1>6. PoolInv
  <2>1. DOMAIN pool = {}
    BY <1>1, EmptySeq
  <2>. QED  BY <1>0, <1>1, <2>1 DEF PoolInv
<1>. QED  BY <1>4, <1>5, <1>6, TypeInit DEF RuntimeInv

(* Every step keeps the invariant. *)
LEMMA RuntimeStep == RuntimeInv /\ [Next]_vars => RuntimeInv'
<1>. SUFFICES ASSUME RuntimeInv, [Next]_vars PROVE RuntimeInv'
  OBVIOUS
<1>0. /\ TypeOK' /\ NetInv /\ PoolInv /\ \A t \in Tasks : TaskInv(t)
  BY TypeStep DEF RuntimeInv
<1>1. CASE UNCHANGED vars
  <2>1. UNCHANGED <<jobs, queue, answer, memory, pc, pool, phase, unlucky>>
    BY <1>1 DEF vars, rows, tasks
  <2>2. \A t \in Tasks : TaskInv(t)'
    BY <1>0, <2>1, QueueSame, Aside DEF TaskInv
  <2>3. NetInv' /\ PoolInv'
    BY <1>0, <2>1, QueueSame DEF NetInv, PoolInv, Running, Working
  <2>. QED  BY <1>0, <2>2, <2>3 DEF RuntimeInv
<1>2. CASE Next
  <2>1. (\A t \in Tasks : TaskInv(t)') /\ NetInv' /\ PoolInv'
    BY <1>2, WriterInvs, TakeInvs, OrderInvs, WorkerInvs, RunInvs, StopInvs, ForgetInvs DEF Next
  <2>. QED  BY <1>0, <2>1 DEF RuntimeInv
<1>. QED  BY <1>1, <1>2

(* What is queued, remembered and in the database fits together, whatever  *)
(* writes fail or are late and whenever the program ends (RuntimeInv).     *)
THEOREM RuntimeInvariant == Spec => []RuntimeInv
BY RuntimeInit, RuntimeStep, PTL DEF Spec

(* An import that is shown as complete is whole (CompletedImportIsWhole).  *)
THEOREM ImportsWhole == Spec => []CompletedImportIsWhole
<1>1. RuntimeInv => CompletedImportIsWhole
  BY DEF RuntimeInv, TaskInv, Whole, CompletedImportIsWhole, Tasks
<1>. QED  BY <1>1, RuntimeInvariant, PTL

(* What the rows say of unfinished jobs is true while commands rely on it, *)
(* and a quit loses nothing (RowsAreTrue).                                 *)
THEOREM RowsTrue == Spec => []RowsAreTrue
<1>1. RuntimeInv => RowsAreTrue
  <2>. SUFFICES ASSUME RuntimeInv PROVE RowsAreTrue
    OBVIOUS
  <2>0. NetInv /\ PoolInv /\ (\A t \in Tasks : TaskInv(t)) /\ Net \notin Tasks
    BY RuntimeAssumption DEF RuntimeInv
  <2>1. ASSUME NEW t \in Tasks, t \notin unlucky, phase # "down"
        PROVE  /\ jobs[t].state = "RUNNING" => t \in Working
               /\ jobs[t].state # "PAUSED"
    <3>1. /\ jobs[t].state \in {"none", "RUNNING"} \cup TerminalJobStates
          /\ pc[t] \in {"new", "queued", "dropped", "over"} => jobs[t].state # "RUNNING"
          /\ pc[t] \in TaskWrites \cup {"new", "queued", "file", "over", "dropped"}
      BY <2>0, <2>1 DEF TaskInv, StateFollows
    <3>. QED  BY <3>1 DEF Working, TerminalJobStates
  <2>2. ASSUME phase = "up" PROVE UnfinishedIsWorkedOn
    <3>1. Net \notin unlucky /\ jobs[Net].state = "RUNNING" => Running
      BY <2>0, <2>2 DEF NetInv, Running
    <3>. QED  BY <2>1, <2>2, <3>1 DEF UnfinishedIsWorkedOn, Clients
  <2>3. ASSUME phase = "exited" PROVE QuitLosesNothing
    <3>1. Working = {}
      BY <2>0, <2>3 DEF PoolInv
    <3>2. Net \notin unlucky /\ jobs[Net].state = "RUNNING" => pc[Net] = "killed"
      BY <2>0, <2>3 DEF NetInv, Running
    <3>. QED  BY <2>1, <2>3, <3>1, <3>2 DEF QuitLosesNothing, Clients
  <2>. QED  BY <2>2, <2>3 DEF RowsAreTrue
<1>. QED  BY <1>1, RuntimeInvariant, PTL

(* The dataset of a terminal job grows no more, and its state changes only *)
(* to FAILED, after a write that failed or was late (TerminalJobRests).    *)
THEOREM TerminalRests == Spec => TerminalJobRests
<1>1. RuntimeInv /\ [Next]_vars =>
      [\A t \in Tasks : jobs[t].state \in TerminalJobStates =>
          /\ jobs'[t].stored = jobs[t].stored
          /\ \/ jobs'[t].state = jobs[t].state
             \/ jobs'[t].state = "FAILED" /\ t \in unlucky]_vars
  <2>. SUFFICES ASSUME RuntimeInv, Next, NEW t \in Tasks, jobs[t].state \in TerminalJobStates
                PROVE  /\ jobs'[t].stored = jobs[t].stored
                       /\ \/ jobs'[t].state = jobs[t].state
                          \/ jobs'[t].state = "FAILED" /\ t \in unlucky
    OBVIOUS
  <2>0. TypeOK /\ TaskInv(t) /\ t \in Clients /\ t # Net /\ jobs[t].state # "RUNNING" /\ jobs[t].state # "none"
    BY RuntimeAssumption DEF RuntimeInv, Clients, TerminalJobStates
  <2>1. CASE Commit
    <3>1. PICK w : w = queue[Due(queue)]
      OBVIOUS
    <3>2. jobs' = [jobs EXCEPT ![w.by] = Applied(w)] /\ queue # <<>>
      BY <2>1, <3>1 DEF Commit
    <3>3. w \in WriteStates /\ Has(w.by, w.what) /\ (w.by = t => w.what \in TaskWrites)
      BY <2>0, <3>1, <3>2, FirstWrite
    <3>4. CASE w.by = t
      <4>1. jobs'[t] = Applied(w)
        BY <2>0, <3>2, <3>4 DEF TypeOK
      <4>2. w.what \in {"dataset", "started", "finished", "failure", "failed"}
        BY <2>0, <3>3, <3>4 DEF TaskInv, StateFollows, TaskWrites
      <4>3. w.what = "failed" => t \in unlucky
        BY <2>0, <3>3, <3>4 DEF TaskInv, StateFollows
      <4>. QED  BY <2>0, <3>3, <3>4, <4>1, <4>2, <4>3, AppliedFacts
    <3>5. CASE w.by # t
      BY <2>0, <3>2, <3>5 DEF TypeOK
    <3>. QED  BY <3>4, <3>5
  <2>2. CASE Restart
    BY <2>0, <2>2 DEF Restart, Recovered
  <2>3. CASE StartRun
    BY <2>0, <2>3 DEF StartRun, TypeOK
  <2>4. CASE \/ WriteFails \/ TakeTask
             \/ \E u \in Tasks : OrderImport(u) \/ OrderExport(u) \/ WorkerStep(u)
             \/ RunStep \/ Quit \/ StopStep \/ Crash
    <3>1. jobs' = jobs
      BY <2>4 DEF WriteFails, TakeTask, OrderImport, OrderExport, WorkerStep, GoOn, FileWritten, Raises,
                  RunStep, RunReads, RunGoesOn, RunPauses, RunEnds, Quit, StopStep, NetworkStops,
                  QueueDropped, WorkersEnd, WriterStops, Crash, rows
    <3>. QED  BY <3>1
  <2>. QED  BY <2>1, <2>2, <2>3, <2>4 DEF Next
<1>. QED  BY <1>1, RuntimeInvariant, PTL DEF Spec, TerminalJobRests

=============================================================================
