---------------------- MODULE ParticipantScanner_proof ----------------------
(***************************************************************************)
(* Theorems about ParticipantScanner, for any list of participants, any    *)
(* page, batch and queue size and any number of crashes and failures: what *)
(* holds however many coroutines scan for the job, and what takes that it  *)
(* is one.                                                                 *)
(***************************************************************************)
EXTENDS ParticipantScanner, FiniteSetTheorems, SequenceTheorems, TLAPS

Offsets == 0..Len(Participants)
Members == Range(Participants)

ScanStates ==
    [at : ScanLabels, cancel : BOOLEAN, offset : Offsets, accepted : Nat,
     producer : ProducerLabels, fetched : Offsets, queue : Seq(Offsets),
     consumer : ConsumerLabels, batch : SUBSET Members, batchOffset : Offsets,
     seen : SUBSET Members, drained : BOOLEAN]

(* TypeOK, with the records of the coroutines as functions. *)
TypeInv ==
    /\ scan \in [Scans -> ScanStates]
    /\ \A s \in Scans : Len(scan[s].queue) <= QueueMax /\ scan[s].batch \subseteq scan[s].seen
    /\ jobState \in JobStates
    /\ checkpoint \in Checkpoints
    /\ dataset \subseteq Members
    /\ cancelling \in BOOLEAN /\ up \in BOOLEAN
    /\ registered \in Scans \cup {NoScan}
    /\ crashes \in Nat /\ rpcFaults \in Nat /\ writeFaults \in Nat

(* What the queue carries: pages up to the one fetched last, then the      *)
(* sentinel, which is the last that the consumer reads.                    *)
LastPage(r, n) ==
    IF n = 0 THEN r.batchOffset = r.fetched ELSE r.queue[n] = r.fetched

NoSentinel(r, n) == \A i \in 1..n : r.queue[i] # Sentinel

QueueCarries(r) ==
    /\ r.producer \in {"fetch", "put", "sentinel"} =>
          ~r.drained /\ NoSentinel(r, Len(r.queue))
    /\ r.producer \in {"fetch", "sentinel"} => LastPage(r, Len(r.queue))
    /\ r.producer = "put" => r.fetched # 0
    /\ r.producer \in {"sentinel", "done"} => r.fetched = Len(Participants) \/ r.cancel
    /\ r.producer = "done" /\ r.drained => r.queue = <<>> /\ r.batchOffset = r.fetched
    /\ r.producer = "done" /\ ~r.drained =>
          /\ r.queue # <<>> /\ r.queue[Len(r.queue)] = Sentinel
          /\ NoSentinel(r, Len(r.queue) - 1) /\ LastPage(r, Len(r.queue) - 1)

(* A task is cancelled because the other one has failed. *)
GroupIsLinked(r) ==
    /\ r.producer = "cancelled" => r.consumer = "failed"
    /\ r.consumer = "cancelled" => r.producer = "failed"

(* What a coroutine has come across is in the dataset or in its batch.     *)
Collects(r, data) ==
    /\ Listed(0, r.offset) \subseteq data
    /\ Listed(0, r.batchOffset) \subseteq data \cup r.batch
    /\ r.seen \subseteq data \cup r.batch
    /\ r.consumer = "checkpoint" => r.batch \subseteq data
    /\ r.consumer = "done" => r.drained /\ r.batch = {}
    /\ r.accepted <= Cardinality(data)
    /\ r.at = "completed" => data = Members

ScanInv(r, data) == QueueCarries(r) /\ GroupIsLinked(r) /\ Collects(r, data)

(* However many coroutines there are. *)
DatasetInv ==
    /\ \A s \in Scans : ScanInv(scan[s], dataset)
    /\ Listed(0, checkpoint.offset) \subseteq dataset
    /\ checkpoint.accepted <= Cardinality(dataset)
    /\ CompletedIsWhole

-----------------------------------------------------------------------------
(* The list of participants. *)

(* The list of the members and their positions in it. *)
LEMMA ListFacts ==
    /\ Len(Participants) \in Nat
    /\ \A i \in 1..Len(Participants) : Participants[i] \in Members
    /\ Listed(0, Len(Participants)) = Members
    /\ Listed(0, 0) = {}
    /\ IsFiniteSet(Members)
<1>1. /\ Len(Participants) \in Nat
      /\ DOMAIN Participants = 1..Len(Participants)
  BY ScannerAssumption, LenProperties
<1>2. Members = {Participants[i] : i \in 1..Len(Participants)}
  BY <1>1 DEF Members, Range
<1>3. \A i \in 1..Len(Participants) : Participants[i] \in Members
  BY <1>2
<1>4. Listed(0, Len(Participants)) = Members /\ Listed(0, 0) = {}
  BY <1>1, <1>2 DEF Listed
<1>5. IsFiniteSet({Participants[i] : i \in 1..Len(Participants)})
  <2>1. IsFiniteSet(1..Len(Participants))
    BY <1>1, FS_Interval
  <2>2. [i \in 1..Len(Participants) |-> Participants[i]]
          \in Surjection(1..Len(Participants), {Participants[i] : i \in 1..Len(Participants)})
    BY DEF Surjection
  <2>. QED  BY <2>1, <2>2, FS_Surjection
<1>. QED  BY <1>1, <1>2, <1>3, <1>4, <1>5

(* What a page lists is finite and made of members. *)
LEMMA ListedFacts ==
    ASSUME NEW a \in Offsets, NEW b \in Offsets
    PROVE  /\ Listed(a, b) \subseteq Members
           /\ Listed(0, b) \subseteq Listed(0, a) \cup Listed(a, b)
BY ListFacts DEF Listed, Offsets

(* Members that are added to a dataset. *)
LEMMA Counted ==
    ASSUME NEW data \in SUBSET Members, NEW batch \in SUBSET Members
    PROVE  /\ Cardinality(data) \in Nat
           /\ Cardinality(batch \ data) \in Nat
           /\ Cardinality(data \cup batch) = Cardinality(data) + Cardinality(batch \ data)
<1>1. IsFiniteSet(data) /\ IsFiniteSet(batch \ data)
  BY ListFacts, FS_Subset
<1>2. data \cup batch = data \cup (batch \ data) /\ data \cap (batch \ data) = {}
  OBVIOUS
<1>3. Cardinality(data \cup (batch \ data))
        = Cardinality(data) + Cardinality(batch \ data) - Cardinality(data \cap (batch \ data))
  BY <1>1, FS_Union
<1>4. Cardinality(data) \in Nat /\ Cardinality(batch \ data) \in Nat
  BY <1>1, FS_CardinalityType
<1>5. Cardinality(data \cap (batch \ data)) = 0
  BY <1>2, FS_EmptySet
<1>6. Cardinality(data \cup batch) = Cardinality(data \cup (batch \ data))
  BY <1>2
<1>. QED  BY <1>3, <1>4, <1>5, <1>6

(* A dataset that grows keeps a set of its members counted. *)
LEMMA Growing ==
    ASSUME NEW data \in SUBSET Members, NEW more \in SUBSET Members, data \subseteq more
    PROVE  Cardinality(data) \in Nat /\ Cardinality(more) \in Nat
           /\ Cardinality(data) <= Cardinality(more)
BY ListFacts, FS_Subset, FS_CardinalityType

-----------------------------------------------------------------------------
(* Types. *)

(* A coroutine that starts from a checkpoint has its type. *)
LEMMA FreshTypes ==
    ASSUME NEW cp \in Checkpoints
    PROVE  /\ Fresh(cp) \in ScanStates
           /\ [Fresh(cp) EXCEPT !.at = "submitted"] \in ScanStates
           /\ Len(Fresh(cp).queue) = 0 /\ Fresh(cp).batch = {}
BY EmptySeq DEF Fresh, Checkpoints, ScanStates, Offsets, ScanLabels, ProducerLabels, ConsumerLabels

(* So has one that does not run. *)
LEMMA IdleTypes == Idle \in ScanStates /\ Len(Idle.queue) = 0 /\ Idle.batch = {}
<1>1. [offset |-> 0, accepted |-> 0] \in Checkpoints
  BY ListFacts DEF Checkpoints
<1>. QED  BY <1>1, FreshTypes DEF Idle

(* The initial state is of its type. *)
LEMMA InitTypes == Init => TypeInv
<1>. SUFFICES ASSUME Init PROVE TypeInv
  OBVIOUS
<1>1. scan \in [Scans -> ScanStates]
      /\ \A s \in Scans : Len(scan[s].queue) <= QueueMax /\ scan[s].batch \subseteq scan[s].seen
  BY IdleTypes, ScannerAssumption DEF Init
<1>2. checkpoint \in Checkpoints
  BY ListFacts DEF Init, Checkpoints
<1>. QED  BY <1>1, <1>2 DEF Init, TypeInv, JobStates

(* A coroutine moves by itself. *)
LEMMA OwnStep ==
    ASSUME TypeInv, NEW s \in Scans, ScanStep(s) \/ ResumeScan(s)
    PROVE  scan' = [scan EXCEPT ![s] = scan'[s]]
<1>1. scan \in [Scans -> ScanStates]
  BY DEF TypeInv
<1>2. CASE Begin(s) \/ RunningState(s) \/ StartedEvent(s) \/ StartFails(s)
  BY <1>1, <1>2 DEF Begin, RunningState, StartedEvent, StartFails, Goto
<1>3. CASE Fetch(s) \/ Put(s) \/ FetchEnds(s) \/ FetchFails(s) \/ PutSentinel(s)
  BY <1>1, <1>3 DEF Fetch, Put, FetchEnds, FetchFails, PutSentinel, ProducerTo
<1>4. CASE ConsumePage(s) \/ ConsumeSentinel(s)
  BY <1>1, <1>4 DEF ConsumePage, ConsumeSentinel
<1>5. CASE Ingest(s) \/ Checkpoint(s) \/ PersistFails(s)
  BY <1>1, <1>5 DEF Ingest, Checkpoint, PersistFails, ConsumerTo
<1>6. CASE CancelProducer(s) \/ CancelConsumer(s) \/ GroupEnds(s)
  BY <1>1, <1>6 DEF CancelProducer, CancelConsumer, GroupEnds, ProducerTo, ConsumerTo, Goto
<1>7. CASE FinalState(s) \/ FailedState(s) \/ LastEvent(s) \/ EndFails(s)
  BY <1>1, <1>7 DEF FinalState, FailedState, LastEvent, EndFails, Goto, Leave
<1>8. CASE ResumeScan(s)
  BY <1>1, <1>8 DEF ResumeScan
<1>. QED  BY <1>2, <1>3, <1>4, <1>5, <1>6, <1>7, <1>8 DEF ScanStep

(* What a step of the producer makes of a coroutine. *)
LEMMA ProducerStep ==
    ASSUME TypeInv, NEW s \in Scans
    PROVE  /\ Fetch(s) => \E f \in Offsets :
                 f > scan[s].fetched /\ scan'[s] = [scan[s] EXCEPT !.fetched = f, !.producer = "put"]
           /\ Put(s) => scan'[s] = [scan[s] EXCEPT !.queue = Append(@, scan[s].fetched),
                                                   !.producer = "fetch"]
           /\ FetchEnds(s) => scan'[s] = [scan[s] EXCEPT !.producer = "sentinel"]
           /\ FetchFails(s) => scan'[s] = [scan[s] EXCEPT !.producer = "failing"]
           /\ PutSentinel(s) =>
                 scan'[s] = [scan[s] EXCEPT !.queue = Append(@, Sentinel),
                                            !.producer = IF @ = "sentinel" THEN "done" ELSE "failed"]
           /\ CancelProducer(s) => scan'[s] = [scan[s] EXCEPT !.producer = "cancelled"]
<1>1. scan \in [Scans -> ScanStates]
  BY DEF TypeInv
<1>2. ASSUME Fetch(s)
      PROVE  \E f \in Offsets : f > scan[s].fetched
                                /\ scan'[s] = [scan[s] EXCEPT !.fetched = f, !.producer = "put"]
  <2>1. scan'[s] = [scan[s] EXCEPT !.fetched = scan'[s].fetched, !.producer = "put"]
    BY <1>1, <1>2 DEF Fetch, ScanStates
  <2>2. scan'[s].fetched \in Offsets /\ scan'[s].fetched > scan[s].fetched
    <3>1. scan[s].fetched \in Offsets /\ Len(Participants) \in Nat
      BY <1>1, ListFacts DEF ScanStates
    <3>2. scan'[s].fetched = scan[s].fetched
              + (IF Len(Participants) - scan[s].fetched < PageLimit
                   THEN Len(Participants) - scan[s].fetched ELSE PageLimit)
      BY <1>1, <1>2 DEF Fetch, ScanStates
    <3>. QED  BY <1>2, <3>1, <3>2, ScannerAssumption DEF Fetch, Offsets
  <2>. QED  BY <2>1, <2>2
<1>3. Put(s) => scan'[s] = [scan[s] EXCEPT !.queue = Append(@, scan[s].fetched),
                                           !.producer = "fetch"]
  BY <1>1 DEF Put, ScanStates
<1>4. /\ FetchEnds(s) => scan'[s] = [scan[s] EXCEPT !.producer = "sentinel"]
      /\ FetchFails(s) => scan'[s] = [scan[s] EXCEPT !.producer = "failing"]
      /\ CancelProducer(s) => scan'[s] = [scan[s] EXCEPT !.producer = "cancelled"]
  BY <1>1 DEF FetchEnds, FetchFails, CancelProducer, ProducerTo, ScanStates
<1>5. PutSentinel(s) =>
        scan'[s] = [scan[s] EXCEPT !.queue = Append(@, Sentinel),
                                   !.producer = IF @ = "sentinel" THEN "done" ELSE "failed"]
  BY <1>1 DEF PutSentinel, ScanStates
<1>. QED  BY <1>2, <1>3, <1>4, <1>5

(* What a step of the consumer makes of it. *)
LEMMA ConsumerStep ==
    ASSUME TypeInv, NEW s \in Scans
    PROVE  /\ ConsumePage(s) =>
                 LET page == Listed(scan[s].batchOffset, Head(scan[s].queue))
                 IN  \E label \in {"ingest", "get"} :
                       scan'[s] = [scan[s] EXCEPT !.queue = Tail(@),
                                                  !.batchOffset = Head(scan[s].queue),
                                                  !.seen = @ \cup page,
                                                  !.batch = @ \cup (page \ scan[s].seen),
                                                  !.consumer = label]
           /\ ConsumeSentinel(s) =>
                 scan'[s] = [scan[s] EXCEPT !.queue = Tail(@), !.drained = TRUE,
                                !.consumer = IF scan[s].batch = {} THEN "done" ELSE "ingest"]
           /\ Ingest(s) =>
                 scan'[s] = [scan[s] EXCEPT !.accepted = @ + Cardinality(scan[s].batch \ dataset),
                                !.offset = scan[s].batchOffset, !.consumer = "checkpoint"]
           /\ Checkpoint(s) =>
                 scan'[s] = [scan[s] EXCEPT !.batch = {},
                                !.consumer = IF scan[s].drained THEN "done" ELSE "get"]
           /\ PersistFails(s) => scan'[s] = [scan[s] EXCEPT !.consumer = "failed"]
           /\ CancelConsumer(s) => scan'[s] = [scan[s] EXCEPT !.consumer = "cancelled"]
<1>1. scan \in [Scans -> ScanStates]
  BY DEF TypeInv
<1>2. ASSUME ConsumePage(s)
      PROVE  LET page == Listed(scan[s].batchOffset, Head(scan[s].queue))
             IN  \E label \in {"ingest", "get"} :
                   scan'[s] = [scan[s] EXCEPT !.queue = Tail(@),
                                              !.batchOffset = Head(scan[s].queue),
                                              !.seen = @ \cup page,
                                              !.batch = @ \cup (page \ scan[s].seen),
                                              !.consumer = label]
  BY <1>1, <1>2 DEF ConsumePage, ScanStates
<1>3. ConsumeSentinel(s) =>
        scan'[s] = [scan[s] EXCEPT !.queue = Tail(@), !.drained = TRUE,
                       !.consumer = IF scan[s].batch = {} THEN "done" ELSE "ingest"]
  BY <1>1 DEF ConsumeSentinel, ScanStates
<1>4. Ingest(s) =>
        scan'[s] = [scan[s] EXCEPT !.accepted = @ + Cardinality(scan[s].batch \ dataset),
                       !.offset = scan[s].batchOffset, !.consumer = "checkpoint"]
  BY <1>1 DEF Ingest, ScanStates
<1>5. Checkpoint(s) =>
        scan'[s] = [scan[s] EXCEPT !.batch = {},
                       !.consumer = IF scan[s].drained THEN "done" ELSE "get"]
  BY <1>1 DEF Checkpoint, ScanStates
<1>6. /\ PersistFails(s) => scan'[s] = [scan[s] EXCEPT !.consumer = "failed"]
      /\ CancelConsumer(s) => scan'[s] = [scan[s] EXCEPT !.consumer = "cancelled"]
  BY <1>1 DEF PersistFails, CancelConsumer, ConsumerTo, ScanStates
<1>. QED  BY <1>2, <1>3, <1>4, <1>5, <1>6

(* The steps around the group leave all but the label, or the coroutine.   *)
LEMMA OutsideStep ==
    ASSUME TypeInv, NEW s \in Scans,
           \/ Begin(s) \/ RunningState(s) \/ StartedEvent(s) \/ StartFails(s) \/ GroupEnds(s)
           \/ FinalState(s) \/ FailedState(s) \/ LastEvent(s) \/ EndFails(s)
    PROVE  \/ scan'[s] = Idle
           \/ \E label \in ScanLabels : scan'[s] = [scan[s] EXCEPT !.at = label]
<1>1. scan \in [Scans -> ScanStates]
  BY DEF TypeInv
<1>. QED
  BY <1>1 DEF Begin, RunningState, StartedEvent, StartFails, GroupEnds, FinalState, FailedState,
              LastEvent, EndFails, Leave, Goto, ScanLabels

Bounded(r) == r \in ScanStates /\ Len(r.queue) <= QueueMax /\ r.batch \subseteq r.seen

(* What the queue is after an element is put or taken. *)
LEMMA QueueTypes ==
    ASSUME NEW q \in Seq(Offsets), NEW e \in Offsets
    PROVE  /\ Len(q) \in Nat
           /\ Append(q, e) \in Seq(Offsets) /\ Len(Append(q, e)) = Len(q) + 1
           /\ \A i \in 1..Len(q) : Append(q, e)[i] = q[i] /\ q[i] \in Offsets
           /\ Append(q, e)[Len(q) + 1] = e
           /\ q # <<>> => /\ Len(q) > 0 /\ Head(q) = q[1] /\ Head(q) \in Offsets
                          /\ Tail(q) \in Seq(Offsets) /\ Len(Tail(q)) = Len(q) - 1
                          /\ \A i \in 1..(Len(q) - 1) : Tail(q)[i] = q[i + 1]
<1>1. Len(q) \in Nat /\ \A i \in 1..Len(q) : q[i] \in Offsets
  BY LenProperties, ElementOfSeq
<1>2. /\ Append(q, e) \in Seq(Offsets) /\ Len(Append(q, e)) = Len(q) + 1
      /\ \A i \in 1..Len(q) : Append(q, e)[i] = q[i]
      /\ Append(q, e)[Len(q) + 1] = e
  BY AppendProperties
<1>3. ASSUME q # <<>>
      PROVE  /\ Len(q) > 0 /\ Head(q) = q[1] /\ Head(q) \in Offsets
             /\ Tail(q) \in Seq(Offsets) /\ Len(Tail(q)) = Len(q) - 1
             /\ \A i \in 1..(Len(q) - 1) : Tail(q)[i] = q[i + 1]
  <2>1. Len(q) # 0
    BY <1>3, EmptySeq
  <2>2. Head(q) = q[1] /\ Head(q) \in Offsets /\ Tail(q) \in Seq(Offsets)
        /\ Len(Tail(q)) = Len(q) - 1
    BY <1>3, HeadTailProperties
  <2>3. \A i \in 1..(Len(q) - 1) : Tail(q)[i] = q[i + 1]
    BY <1>3, <2>2, HeadTailProperties
  <2>. QED  BY <1>1, <2>1, <2>2, <2>3
<1>. QED  BY <1>1, <1>2, <1>3

(* A step of the producer keeps the type of the coroutine. *)
LEMMA ProducerTypes ==
    ASSUME TypeInv, NEW s \in Scans,
           Fetch(s) \/ Put(s) \/ FetchEnds(s) \/ FetchFails(s) \/ PutSentinel(s) \/ CancelProducer(s)
    PROVE  TypeInv'
<1>0. /\ scan[s] \in ScanStates /\ Bounded(scan[s])
      /\ scan[s].queue \in Seq(Offsets) /\ scan[s].fetched \in Offsets
      /\ Sentinel \in Offsets /\ QueueMax \in Nat /\ Len(scan[s].queue) \in Nat
  BY ListFacts, ScannerAssumption, LenProperties DEF TypeInv, Bounded, ScanStates, Offsets, Sentinel
<1>1. Bounded(scan'[s])
  <2>1. CASE Fetch(s)
    <3>1. PICK f \in Offsets : scan'[s] = [scan[s] EXCEPT !.fetched = f, !.producer = "put"]
      BY <2>1, ProducerStep
    <3>. QED  BY <1>0, <3>1 DEF Bounded, ScanStates, ProducerLabels
  <2>2. CASE Put(s)
    <3>1. /\ Append(scan[s].queue, scan[s].fetched) \in Seq(Offsets)
          /\ Len(Append(scan[s].queue, scan[s].fetched)) <= QueueMax
      BY <1>0, <2>2, QueueTypes DEF Put, HasRoom
    <3>2. scan'[s] = [scan[s] EXCEPT !.queue = Append(@, scan[s].fetched), !.producer = "fetch"]
      BY <2>2, ProducerStep
    <3>. QED  BY <1>0, <3>1, <3>2 DEF Bounded, ScanStates, ProducerLabels
  <2>3. CASE FetchEnds(s) \/ FetchFails(s) \/ CancelProducer(s)
    <3>1. \E label \in ProducerLabels : scan'[s] = [scan[s] EXCEPT !.producer = label]
      BY <2>3, ProducerStep DEF ProducerLabels
    <3>. QED  BY <1>0, <3>1 DEF Bounded, ScanStates
  <2>4. CASE PutSentinel(s)
    <3>1. /\ Append(scan[s].queue, Sentinel) \in Seq(Offsets)
          /\ Len(Append(scan[s].queue, Sentinel)) <= QueueMax
      BY <1>0, <2>4, QueueTypes DEF PutSentinel, HasRoom
    <3>2. scan'[s] = [scan[s] EXCEPT !.queue = Append(@, Sentinel),
                                     !.producer = IF @ = "sentinel" THEN "done" ELSE "failed"]
      BY <2>4, ProducerStep
    <3>. QED  BY <1>0, <3>1, <3>2 DEF Bounded, ScanStates, ProducerLabels
  <2>. QED  BY <2>1, <2>2, <2>3, <2>4
<1>2. rpcFaults' \in Nat /\ UNCHANGED <<rows, cancelling, registered, up, crashes, writeFaults>>
  BY DEF Fetch, Put, FetchEnds, FetchFails, PutSentinel, CancelProducer, TypeInv, faults
<1>3. scan' = [scan EXCEPT ![s] = scan'[s]]
  BY OwnStep DEF ScanStep
<1>. QED  BY <1>1, <1>2, <1>3 DEF TypeInv, rows, Bounded

(* So does one of the consumer. *)
LEMMA ConsumerTypes ==
    ASSUME TypeInv, NEW s \in Scans,
           \/ ConsumePage(s) \/ ConsumeSentinel(s) \/ Ingest(s) \/ Checkpoint(s) \/ PersistFails(s)
           \/ CancelConsumer(s)
    PROVE  TypeInv'
<1>0. /\ scan[s] \in ScanStates /\ Bounded(scan[s])
      /\ scan[s].queue \in Seq(Offsets) /\ scan[s].batchOffset \in Offsets
      /\ scan[s].batch \subseteq Members /\ dataset \subseteq Members
      /\ Cardinality(scan[s].batch \ dataset) \in Nat
      /\ [offset |-> scan[s].offset, accepted |-> scan[s].accepted] \in Checkpoints
      /\ QueueMax \in Nat /\ Len(scan[s].queue) \in Nat
  <2>1. /\ scan[s] \in ScanStates /\ Bounded(scan[s]) /\ dataset \subseteq Members
        /\ QueueMax \in Nat
    BY ScannerAssumption DEF TypeInv, Bounded
  <2>2. /\ scan[s].queue \in Seq(Offsets) /\ scan[s].batchOffset \in Offsets
        /\ scan[s].batch \subseteq Members
        /\ [offset |-> scan[s].offset, accepted |-> scan[s].accepted] \in Checkpoints
    BY <2>1 DEF ScanStates, Checkpoints, Offsets
  <2>3. Cardinality(scan[s].batch \ dataset) \in Nat /\ Len(scan[s].queue) \in Nat
    BY <2>1, <2>2, Counted, LenProperties
  <2>. QED  BY <2>1, <2>2, <2>3
<1>1. Bounded(scan'[s])
  <2>1. CASE ConsumePage(s)
    <3>1. /\ Head(scan[s].queue) \in Offsets /\ Tail(scan[s].queue) \in Seq(Offsets)
          /\ Len(Tail(scan[s].queue)) <= QueueMax
      BY <1>0, <2>1, QueueTypes DEF ConsumePage, Bounded
    <3>2. Listed(scan[s].batchOffset, Head(scan[s].queue)) \subseteq Members
      BY <1>0, <3>1, ListedFacts
    <3>3. PICK label \in {"ingest", "get"} :
             scan'[s] = [scan[s] EXCEPT
                !.queue = Tail(@), !.batchOffset = Head(scan[s].queue),
                !.seen = @ \cup Listed(scan[s].batchOffset, Head(scan[s].queue)),
                !.batch = @ \cup (Listed(scan[s].batchOffset, Head(scan[s].queue)) \ scan[s].seen),
                !.consumer = label]
      BY <2>1, ConsumerStep
    <3>4. scan[s].batch \subseteq scan[s].seen /\ scan[s].seen \subseteq Members
      BY <1>0 DEF Bounded, ScanStates
    <3>5. scan'[s] \in ScanStates
      BY <1>0, <3>1, <3>2, <3>3, <3>4 DEF ScanStates, ConsumerLabels
    <3>6. scan'[s].queue = Tail(scan[s].queue) /\ scan'[s].batch \subseteq scan'[s].seen
      BY <1>0, <3>3, <3>4 DEF ScanStates
    <3>. QED  BY <3>1, <3>5, <3>6 DEF Bounded
  <2>2. CASE ConsumeSentinel(s)
    <3>1. Tail(scan[s].queue) \in Seq(Offsets) /\ Len(Tail(scan[s].queue)) <= QueueMax
      BY <1>0, <2>2, QueueTypes DEF ConsumeSentinel, Bounded
    <3>2. scan'[s] = [scan[s] EXCEPT !.queue = Tail(@), !.drained = TRUE,
                         !.consumer = IF scan[s].batch = {} THEN "done" ELSE "ingest"]
      BY <2>2, ConsumerStep
    <3>. QED  BY <1>0, <3>1, <3>2 DEF Bounded, ScanStates, ConsumerLabels
  <2>3. CASE Ingest(s)
    <3>1. scan'[s] = [scan[s] EXCEPT !.accepted = @ + Cardinality(scan[s].batch \ dataset),
                         !.offset = scan[s].batchOffset, !.consumer = "checkpoint"]
      BY <2>3, ConsumerStep
    <3>2. scan[s].accepted + Cardinality(scan[s].batch \ dataset) \in Nat
      BY <1>0 DEF ScanStates
    <3>. QED  BY <1>0, <3>1, <3>2 DEF Bounded, ScanStates, ConsumerLabels
  <2>4. CASE Checkpoint(s)
    <3>1. scan'[s] = [scan[s] EXCEPT !.batch = {},
                         !.consumer = IF scan[s].drained THEN "done" ELSE "get"]
      BY <2>4, ConsumerStep
    <3>. QED  BY <1>0, <3>1 DEF Bounded, ScanStates, ConsumerLabels
  <2>5. CASE PersistFails(s) \/ CancelConsumer(s)
    <3>1. \E label \in ConsumerLabels : scan'[s] = [scan[s] EXCEPT !.consumer = label]
      BY <2>5, ConsumerStep DEF ConsumerLabels
    <3>. QED  BY <1>0, <3>1 DEF Bounded, ScanStates
  <2>. QED  BY <2>1, <2>2, <2>3, <2>4, <2>5
<1>2. dataset' \subseteq Members /\ checkpoint' \in Checkpoints /\ jobState' = jobState
  BY <1>0 DEF ConsumePage, ConsumeSentinel, Ingest, Checkpoint, PersistFails, CancelConsumer,
              TypeInv, rows
<1>3. /\ writeFaults' \in Nat
      /\ UNCHANGED <<cancelling, registered, up, crashes, rpcFaults>>
  BY DEF ConsumePage, ConsumeSentinel, Ingest, Checkpoint, PersistFails, CancelConsumer, TypeInv,
         faults, Fault
<1>4. scan' = [scan EXCEPT ![s] = scan'[s]]
  BY OwnStep DEF ScanStep
<1>. QED  BY <1>1, <1>2, <1>3, <1>4 DEF TypeInv, Bounded

(* The rest of scan(). *)
LEMMA OutsideTypes ==
    ASSUME TypeInv, NEW s \in Scans,
           \/ Begin(s) \/ RunningState(s) \/ StartedEvent(s) \/ StartFails(s) \/ GroupEnds(s)
           \/ FinalState(s) \/ FailedState(s) \/ LastEvent(s) \/ EndFails(s)
    PROVE  TypeInv'
<1>0. /\ scan[s] \in ScanStates /\ Bounded(scan[s])
      /\ [offset |-> scan[s].offset, accepted |-> scan[s].accepted] \in Checkpoints
  BY DEF TypeInv, Bounded, Checkpoints, ScanStates, Offsets
<1>1. Bounded(scan'[s])
  <2>1. Bounded(Idle)
    BY IdleTypes, ScannerAssumption DEF Bounded
  <2>2. ASSUME NEW label \in ScanLabels PROVE Bounded([scan[s] EXCEPT !.at = label])
    BY <1>0 DEF Bounded, ScanStates
  <2>. QED  BY <2>1, <2>2, OutsideStep
<1>2. scan' = [scan EXCEPT ![s] = scan'[s]]
  BY OwnStep DEF ScanStep
<1>3. checkpoint' \in Checkpoints
  BY <1>0 DEF Begin, RunningState, StartedEvent, StartFails, GroupEnds, FinalState, FailedState,
              LastEvent, EndFails, TypeInv, rows
<1>4. jobState' \in JobStates
  BY DEF Begin, RunningState, StartedEvent, StartFails, GroupEnds, FinalState, FailedState,
         LastEvent, EndFails, TypeInv, JobStates, rows
<1>5. /\ registered' \in Scans \cup {NoScan} /\ writeFaults' \in Nat
      /\ UNCHANGED <<dataset, cancelling, up, crashes, rpcFaults>>
  BY DEF Begin, RunningState, StartedEvent, StartFails, GroupEnds, FinalState, FailedState,
         LastEvent, EndFails, Leave, TypeInv, rows, faults, Fault
<1>. QED  BY <1>1, <1>2, <1>3, <1>4, <1>5 DEF TypeInv, Bounded

(* The commands, a crash and a restart keep every type. *)
LEMMA CommandTypes ==
    ASSUME TypeInv,
           \/ \E s \in Scans : ResumeScan(s)
           \/ CancelScan \/ StopIdle \/ WorkerCancels \/ Crash \/ Restart
    PROVE  TypeInv'
<1>1. ASSUME NEW s \in Scans, ResumeScan(s) PROVE TypeInv'
  <2>1. /\ scan' \in [Scans -> ScanStates]
        /\ \A x \in Scans : Len(scan'[x].queue) <= QueueMax /\ scan'[x].batch \subseteq scan'[x].seen
    <3>1. /\ [Fresh(checkpoint) EXCEPT !.at = "submitted"] \in ScanStates
          /\ Len([Fresh(checkpoint) EXCEPT !.at = "submitted"].queue) = 0
          /\ [Fresh(checkpoint) EXCEPT !.at = "submitted"].batch = {}
      BY FreshTypes DEF TypeInv, Fresh
    <3>. QED  BY <1>1, <3>1, ScannerAssumption DEF ResumeScan, TypeInv
  <2>. QED  BY <1>1, <2>1 DEF ResumeScan, TypeInv, rows, faults
<1>2. CASE CancelScan
  <2>1. PICK s \in Scans : scan' = [scan EXCEPT ![s].cancel = TRUE]
    BY <1>2 DEF CancelScan, TypeInv
  <2>2. /\ scan' \in [Scans -> ScanStates]
        /\ \A x \in Scans : Len(scan'[x].queue) <= QueueMax /\ scan'[x].batch \subseteq scan'[x].seen
    BY <2>1 DEF TypeInv, ScanStates
  <2>. QED  BY <1>2, <2>2 DEF CancelScan, TypeInv, rows, faults
<1>3. ASSUME StopIdle \/ WorkerCancels PROVE TypeInv'
  <2>1. jobState' \in JobStates /\ cancelling' \in BOOLEAN
    BY <1>3 DEF StopIdle, WorkerCancels, TypeInv, rows, JobStates
  <2>2. UNCHANGED <<checkpoint, dataset, registered, scan, up, crashes, rpcFaults, writeFaults>>
    BY <1>3 DEF StopIdle, WorkerCancels, rows, faults
  <2>. QED  BY <2>1, <2>2 DEF TypeInv
<1>4. ASSUME Crash PROVE TypeInv'
  <2>1. /\ scan' \in [Scans -> ScanStates]
        /\ \A x \in Scans : Len(scan'[x].queue) <= QueueMax /\ scan'[x].batch \subseteq scan'[x].seen
    BY <1>4, IdleTypes, ScannerAssumption DEF Crash
  <2>2. /\ cancelling' = FALSE /\ up' = FALSE /\ registered' = NoScan
        /\ UNCHANGED <<jobState, checkpoint, dataset, rpcFaults, writeFaults>>
    BY <1>4 DEF Crash, rows, faults
  <2>3. crashes' \in Nat
    BY <1>4 DEF Crash, TypeInv
  <2>. QED  BY <2>1, <2>2, <2>3 DEF TypeInv
<1>5. ASSUME Restart PROVE TypeInv'
  <2>1. jobState' \in JobStates /\ up' \in BOOLEAN
    BY <1>5 DEF Restart, TypeInv, JobStates
  <2>2. UNCHANGED <<checkpoint, dataset, cancelling, registered, scan, crashes, rpcFaults,
                    writeFaults>>
    BY <1>5 DEF Restart, faults
  <2>. QED  BY <2>1, <2>2 DEF TypeInv
<1>. QED  BY <1>1, <1>2, <1>3, <1>4, <1>5

(* Every variable keeps its type, the queue its bound.                     *)
THEOREM TypeCorrect == Spec => []TypeInv
<1>1. TypeInv /\ [Next]_vars => TypeInv'
  <2>. SUFFICES ASSUME TypeInv, [Next]_vars PROVE TypeInv'
    OBVIOUS
  <2>1. CASE UNCHANGED vars
    BY <2>1 DEF vars, rows, faults, TypeInv
  <2>. QED  BY <2>1, ProducerTypes, ConsumerTypes, OutsideTypes, CommandTypes DEF Next, ScanStep
<1>. QED  BY <1>1, InitTypes, PTL DEF Spec

(* The type invariant that is proved is stronger than the one that TLC checks. *)
LEMMA TypesOK == TypeInv => TypeOK
BY ScannerAssumption DEF TypeInv, TypeOK, ScanStates, Offsets, Members


-----------------------------------------------------------------------------
(* What a scan collects, however many there are. *)

(* A coroutine is not harmed by a dataset that grows. *)
LEMMA DatasetGrows ==
    ASSUME NEW r \in ScanStates, NEW data \in SUBSET Members, NEW more \in SUBSET Members,
           data \subseteq more, ScanInv(r, data)
    PROVE  ScanInv(r, more)
<1>1. /\ Cardinality(data) \in Nat /\ Cardinality(more) \in Nat /\ r.accepted \in Nat
      /\ Cardinality(data) <= Cardinality(more)
  BY Growing DEF ScanStates
<1>. QED  BY <1>1 DEF ScanInv, Collects

(* A coroutine that starts has nothing in its hands. *)
LEMMA FreshInv ==
    ASSUME NEW cp \in Checkpoints, NEW data \in SUBSET Members,
           Listed(0, cp.offset) \subseteq data, cp.accepted <= Cardinality(data)
    PROVE  ScanInv(Fresh(cp), data) /\ ScanInv([Fresh(cp) EXCEPT !.at = "submitted"], data)
<1>1. Len(Fresh(cp).queue) = 0
  BY FreshTypes
<1>. QED
  BY <1>1 DEF Fresh, ScanInv, QueueCarries, NoSentinel, LastPage, GroupIsLinked, Collects

(* Neither has one that does not run. *)
LEMMA IdleInv == ASSUME NEW data \in SUBSET Members PROVE ScanInv(Idle, data)
<1>1. [offset |-> 0, accepted |-> 0] \in Checkpoints
  BY ListFacts DEF Checkpoints
<1>2. Cardinality(data) >= 0
  BY Growing
<1>. QED  BY <1>1, <1>2, FreshInv, ListFacts DEF Idle

(* Whom the producer has read is in the queue, in the batch or in the dataset. *)
LEMMA ProducerCollects ==
    ASSUME TypeInv, NEW s \in Scans, ScanInv(scan[s], dataset),
           Fetch(s) \/ Put(s) \/ FetchEnds(s) \/ FetchFails(s) \/ PutSentinel(s) \/ CancelProducer(s)
    PROVE  ScanInv(scan'[s], dataset)
<1> DEFINE r == scan[s]
           q == scan'[s]
<1>0. /\ r \in ScanStates /\ r.at = "group" /\ q.at = "group"
      /\ r.queue \in Seq(Offsets) /\ r.fetched \in Offsets /\ Len(r.queue) \in Nat
      /\ Sentinel \in Offsets
  <2>1. r \in ScanStates
    BY DEF TypeInv
  <2>2. r.at = "group"
    BY DEF Fetch, Put, FetchEnds, FetchFails, PutSentinel, CancelProducer, Producer, Consumer, InGroup, At
  <2>3. q.at = "group"
    BY <2>1, <2>2, ProducerStep DEF ScanStates
  <2>. QED  BY <2>1, <2>2, <2>3, ListFacts, LenProperties DEF ScanStates, Offsets, Sentinel
<1>1. CASE Fetch(s)
  <2>1. PICK f \in Offsets : f > r.fetched /\ q = [r EXCEPT !.fetched = f, !.producer = "put"]
    BY <1>1, ProducerStep
  <2>2. r.producer = "fetch"
    BY <1>1 DEF Fetch, Producer
  <2>. QED  BY <1>0, <2>1, <2>2
            DEF ScanInv, QueueCarries, NoSentinel, LastPage, GroupIsLinked, Collects, ScanStates, Offsets
<1>2. CASE Put(s)
  <2>1. q = [r EXCEPT !.queue = Append(@, r.fetched), !.producer = "fetch"]
    BY <1>2, ProducerStep
  <2>2. r.producer = "put" /\ r.fetched # 0
    BY <1>2 DEF Put, Producer, ScanInv, QueueCarries
  <2>3. QueueCarries(q)
    <3>1. Len(q.queue) = Len(r.queue) + 1 /\ q.queue[Len(r.queue) + 1] = r.fetched
          /\ \A i \in 1..Len(r.queue) : q.queue[i] = r.queue[i]
      BY <1>0, <2>1, QueueTypes DEF ScanStates
    <3>. QED  BY <1>0, <2>1, <2>2, <3>1 DEF ScanInv, QueueCarries, NoSentinel, LastPage, Sentinel, ScanStates
  <2>. QED  BY <1>0, <2>1, <2>2, <2>3 DEF ScanInv, GroupIsLinked, Collects, ScanStates
<1>3. CASE FetchEnds(s)
  <2>1. q = [r EXCEPT !.producer = "sentinel"]
    BY <1>3, ProducerStep
  <2>. QED  BY <1>0, <1>3, <2>1
            DEF FetchEnds, Producer, ScanInv, QueueCarries, NoSentinel, LastPage, GroupIsLinked, Collects, ScanStates
<1>4. CASE FetchFails(s)
  <2>1. q = [r EXCEPT !.producer = "failing"]
    BY <1>4, ProducerStep
  <2>. QED  BY <1>0, <1>4, <2>1
            DEF FetchFails, Producer, ScanInv, QueueCarries, GroupIsLinked, Collects, ScanStates
<1>5. CASE PutSentinel(s)
  <2>1. q = [r EXCEPT !.queue = Append(@, Sentinel),
                      !.producer = IF @ = "sentinel" THEN "done" ELSE "failed"]
    BY <1>5, ProducerStep
  <2>2. r.producer \in {"sentinel", "failing"}
    BY <1>5 DEF PutSentinel, Producer
  <2>3. QueueCarries(q)
    <3>1. Len(q.queue) = Len(r.queue) + 1 /\ q.queue[Len(r.queue) + 1] = Sentinel
          /\ \A i \in 1..Len(r.queue) : q.queue[i] = r.queue[i]
      BY <1>0, <2>1, QueueTypes DEF ScanStates
    <3>2. q.queue # <<>>
      BY <3>1, <1>0
    <3>. QED  BY <1>0, <2>1, <2>2, <3>1, <3>2 DEF ScanInv, QueueCarries, NoSentinel, LastPage, ScanStates
  <2>. QED  BY <1>0, <2>1, <2>2, <2>3 DEF ScanInv, GroupIsLinked, Collects, ScanStates
<1>6. CASE CancelProducer(s)
  <2>1. q = [r EXCEPT !.producer = "cancelled"] /\ r.consumer = "failed"
    BY <1>6, ProducerStep DEF CancelProducer, Consumer
  <2>. QED  BY <1>0, <2>1 DEF ScanInv, QueueCarries, GroupIsLinked, Collects, ScanStates
<1>. QED  BY <1>1, <1>2, <1>3, <1>4, <1>5, <1>6

(* The consumer moves them on to the dataset. *)
LEMMA ConsumerCollects ==
    ASSUME TypeInv, NEW s \in Scans, ScanInv(scan[s], dataset),
           \/ ConsumePage(s) \/ ConsumeSentinel(s) \/ Ingest(s) \/ Checkpoint(s) \/ PersistFails(s)
           \/ CancelConsumer(s)
    PROVE  dataset \subseteq dataset' /\ ScanInv(scan'[s], dataset')
<1> DEFINE r == scan[s]
           q == scan'[s]
<1>0. /\ r \in ScanStates /\ r.at = "group" /\ q.at = "group"
      /\ r.queue \in Seq(Offsets) /\ r.batchOffset \in Offsets /\ Len(r.queue) \in Nat
      /\ r.batch \subseteq Members /\ dataset \subseteq Members /\ r.accepted \in Nat
  <2>1. r \in ScanStates /\ dataset \subseteq Members
    BY DEF TypeInv
  <2>2. r.at = "group"
    BY DEF ConsumePage, ConsumeSentinel, Ingest, Checkpoint, PersistFails, CancelConsumer,
           Producer, Consumer, InGroup, At
  <2>3. q.at = "group"
    BY <2>1, <2>2, ConsumerStep DEF ScanStates
  <2>. QED  BY <2>1, <2>2, <2>3, LenProperties DEF ScanStates
<1>1. CASE ConsumePage(s)
  <2> DEFINE h == Head(r.queue)
             page == Listed(r.batchOffset, h)
  <2>1. PICK label \in {"ingest", "get"} :
           q = [r EXCEPT !.queue = Tail(@), !.batchOffset = h, !.seen = @ \cup page,
                         !.batch = @ \cup (page \ r.seen), !.consumer = label]
    BY <1>1, ConsumerStep
  <2>2. dataset' = dataset /\ r.consumer = "get" /\ r.queue # <<>> /\ h # Sentinel
    BY <1>1 DEF ConsumePage, Consumer, rows
  <2>3. /\ Len(r.queue) > 0 /\ h = r.queue[1] /\ h \in Offsets /\ Len(Tail(r.queue)) = Len(r.queue) - 1
        /\ \A i \in 1..(Len(r.queue) - 1) : Tail(r.queue)[i] = r.queue[i + 1]
    BY <1>0, <2>2, QueueTypes
  <2>4. QueueCarries(q)
    <3>1. q.queue = Tail(r.queue) /\ q.batchOffset = h /\ q.producer = r.producer
          /\ q.fetched = r.fetched /\ q.cancel = r.cancel /\ q.drained = r.drained
      BY <1>0, <2>1 DEF ScanStates
    <3>2. QueueCarries(r)
      BY DEF ScanInv
    <3>3. ASSUME NEW n \in 0..Len(r.queue), LastPage(r, n), n > 0 PROVE LastPage(q, n - 1)
      BY <1>0, <2>3, <3>1, <3>3 DEF LastPage
    <3>4. ASSUME NEW n \in 0..Len(r.queue), NoSentinel(r, n) PROVE NoSentinel(q, n - 1)
      BY <1>0, <2>3, <3>1, <3>4 DEF NoSentinel
    <3>5. ASSUME r.producer = "done" PROVE ~r.drained /\ Len(r.queue) - 1 > 0
      BY <1>0, <2>2, <2>3, <3>2, <3>5 DEF QueueCarries
    <3>6. r.producer \in {"fetch", "put", "sentinel"} =>
             ~q.drained /\ NoSentinel(q, Len(q.queue))
      BY <1>0, <2>3, <3>1, <3>2, <3>4 DEF QueueCarries
    <3>7. r.producer \in {"fetch", "sentinel"} => LastPage(q, Len(q.queue))
      BY <1>0, <2>3, <3>1, <3>2, <3>3 DEF QueueCarries
    <3>8. ASSUME r.producer = "done"
          PROVE  /\ q.queue # <<>> /\ q.queue[Len(q.queue)] = Sentinel
                 /\ NoSentinel(q, Len(q.queue) - 1) /\ LastPage(q, Len(q.queue) - 1)
      <4>1. r.queue[Len(r.queue)] = Sentinel
            /\ NoSentinel(r, Len(r.queue) - 1) /\ LastPage(r, Len(r.queue) - 1)
        BY <3>2, <3>5, <3>8 DEF QueueCarries
      <4>2. q.queue[Len(r.queue) - 1] = r.queue[Len(r.queue)]
        BY <1>0, <2>3, <3>1, <3>5, <3>8
      <4>3. Len(q.queue) = Len(r.queue) - 1 /\ Len(q.queue) > 0
            /\ Len(r.queue) - 1 \in 0..Len(r.queue)
        BY <1>0, <2>3, <3>1, <3>5, <3>8
      <4>4. q.queue # <<>>
        BY <4>3
      <4>5. NoSentinel(q, Len(q.queue) - 1)
        BY <3>4, <4>1, <4>3
      <4>6. LastPage(q, Len(q.queue) - 1)
        BY <3>3, <3>5, <3>8, <4>1, <4>3
      <4>. QED  BY <4>1, <4>2, <4>3, <4>4, <4>5, <4>6
    <3>. QED  BY <3>1, <3>2, <3>5, <3>6, <3>7, <3>8 DEF QueueCarries
  <2>5. Listed(0, h) \subseteq Listed(0, r.batchOffset) \cup page
    BY <1>0, <2>3, ListedFacts
  <2>. QED  BY <1>0, <2>1, <2>2, <2>4, <2>5 DEF ScanInv, GroupIsLinked, Collects, ScanStates
<1>2. CASE ConsumeSentinel(s)
  <2>1. q = [r EXCEPT !.queue = Tail(@), !.drained = TRUE,
                      !.consumer = IF r.batch = {} THEN "done" ELSE "ingest"]
    BY <1>2, ConsumerStep
  <2>2. dataset' = dataset /\ r.consumer = "get" /\ r.queue # <<>> /\ Head(r.queue) = Sentinel
    BY <1>2 DEF ConsumeSentinel, Consumer, rows
  <2>3. /\ Len(r.queue) > 0 /\ r.queue[1] = Sentinel /\ Len(Tail(r.queue)) = Len(r.queue) - 1
    BY <1>0, <2>2, QueueTypes
  <2>4. QueueCarries(q)
    <3>1. q.queue = Tail(r.queue) /\ q.batchOffset = r.batchOffset /\ q.producer = r.producer
          /\ q.fetched = r.fetched /\ q.cancel = r.cancel /\ q.drained = TRUE
      BY <1>0, <2>1 DEF ScanStates
    <3>2. QueueCarries(r)
      BY DEF ScanInv
    <3>3. r.producer \notin {"fetch", "put", "sentinel"}
      BY <1>0, <2>3, <3>2 DEF QueueCarries, NoSentinel
    <3>4. ASSUME r.producer = "done" PROVE q.queue = <<>> /\ q.batchOffset = q.fetched
      <4>1. ~r.drained
        BY <2>2, <3>2, <3>4 DEF QueueCarries
      <4>2. NoSentinel(r, Len(r.queue) - 1) /\ LastPage(r, Len(r.queue) - 1)
        BY <3>2, <3>4, <4>1 DEF QueueCarries
      <4>3. Len(r.queue) - 1 = 0
        <5>. SUFFICES ASSUME Len(r.queue) - 1 # 0 PROVE FALSE
          OBVIOUS
        <5>1. 1 \in 1..(Len(r.queue) - 1)
          <6>1. \A n \in Nat : n > 0 /\ n - 1 # 0 => 1 \in 1..(n - 1)
            OBVIOUS
          <6>2. Len(r.queue) \in Nat /\ Len(r.queue) > 0
            BY <1>0, <2>3
          <6>. QED  BY <6>1, <6>2
        <5>. QED  BY <2>3, <4>2, <5>1 DEF NoSentinel
      <4>4. Tail(r.queue) \in Seq(Offsets) /\ Len(Tail(r.queue)) = 0
        BY <1>0, <2>2, <2>3, <4>3, QueueTypes
      <4>5. q.queue = <<>>
        BY <3>1, <4>4, EmptySeq
      <4>. QED  BY <3>1, <4>2, <4>3, <4>5 DEF LastPage
    <3>. QED  BY <3>1, <3>2, <3>3, <3>4 DEF QueueCarries
  <2>. QED  BY <1>0, <2>1, <2>2, <2>4 DEF ScanInv, GroupIsLinked, Collects, ScanStates
<1>3. CASE Ingest(s)
  <2>1. q = [r EXCEPT !.accepted = @ + Cardinality(r.batch \ dataset), !.offset = r.batchOffset,
                      !.consumer = "checkpoint"]
    BY <1>3, ConsumerStep
  <2>2. dataset' = dataset \cup r.batch /\ r.consumer = "ingest"
    BY <1>3 DEF Ingest, Consumer
  <2>3. /\ Cardinality(dataset') = Cardinality(dataset) + Cardinality(r.batch \ dataset)
        /\ Cardinality(dataset) \in Nat /\ Cardinality(r.batch \ dataset) \in Nat
    BY <1>0, <2>2, Counted
  <2>4. QueueCarries(q) /\ GroupIsLinked(q)
    BY <1>0, <2>1, <2>2 DEF ScanInv, QueueCarries, NoSentinel, LastPage, GroupIsLinked, ScanStates
  <2>5. q.accepted <= Cardinality(dataset')
    BY <1>0, <2>1, <2>3 DEF ScanInv, Collects, ScanStates
  <2>. QED  BY <1>0, <2>1, <2>2, <2>4, <2>5 DEF ScanInv, Collects, ScanStates
<1>4. CASE Checkpoint(s)
  <2>1. q = [r EXCEPT !.batch = {}, !.consumer = IF r.drained THEN "done" ELSE "get"]
    BY <1>4, ConsumerStep
  <2>2. dataset' = dataset /\ r.consumer = "checkpoint"
    BY <1>4 DEF Checkpoint, Consumer
  <2>3. QueueCarries(q) /\ GroupIsLinked(q)
    BY <1>0, <2>1, <2>2 DEF ScanInv, QueueCarries, NoSentinel, LastPage, GroupIsLinked, ScanStates
  <2>. QED  BY <1>0, <2>1, <2>2, <2>3 DEF ScanInv, Collects, ScanStates
<1>5. CASE PersistFails(s)
  <2>1. q = [r EXCEPT !.consumer = "failed"] /\ dataset' = dataset
    BY <1>5, ConsumerStep DEF PersistFails, rows
  <2>2. r.producer # "cancelled"
    BY <1>5 DEF PersistFails, Consumer, ScanInv, GroupIsLinked
  <2>. QED  BY <1>0, <2>1, <2>2
            DEF ScanInv, QueueCarries, NoSentinel, LastPage, GroupIsLinked, Collects, ScanStates
<1>6. CASE CancelConsumer(s)
  <2>1. q = [r EXCEPT !.consumer = "cancelled"] /\ r.producer = "failed"
    BY <1>6, ConsumerStep DEF CancelConsumer, Producer
  <2>2. dataset \subseteq dataset' /\ dataset' \subseteq Members
    BY <1>0, <1>6 DEF CancelConsumer
  <2>3. ScanInv(q, dataset)
    BY <1>0, <2>1 DEF ScanInv, QueueCarries, NoSentinel, LastPage, GroupIsLinked, Collects, ScanStates
  <2>4. q \in ScanStates
    BY <1>0, <2>1 DEF ScanStates, ConsumerLabels
  <2>. QED  BY <1>0, <2>2, <2>3, <2>4, DatasetGrows
<1>. QED  BY <1>1, <1>2, <1>3, <1>4, <1>5, <1>6

(* A group that ends without a failure has read the whole list, unless it  *)
(* was cancelled.                                                          *)
LEMMA GroupCollects ==
    ASSUME TypeInv, NEW s \in Scans, ScanInv(scan[s], dataset), GroupEnds(s)
    PROVE  ScanInv(scan'[s], dataset)
<1> DEFINE r == scan[s]
           q == scan'[s]
<1>0. r \in ScanStates /\ dataset \subseteq Members /\ scan \in [Scans -> ScanStates]
  BY DEF TypeInv
<1>1. /\ {r.producer, r.consumer} \subseteq Ended
      /\ q = [r EXCEPT !.at = IF "failed" \in {r.producer, r.consumer} THEN "failed"
                              ELSE IF r.cancel THEN "cancelled" ELSE "completed"]
  BY <1>0 DEF GroupEnds, Goto, ScanStates
<1>2. q.at = "completed" => dataset = Members
  <2>. SUFFICES ASSUME q.at = "completed" PROVE dataset = Members
    OBVIOUS
  <2>1. r.producer # "failed" /\ r.consumer # "failed" /\ ~r.cancel
    BY <1>0, <1>1 DEF ScanStates
  <2>2. r.producer = "done" /\ r.consumer = "done"
    BY <1>1, <2>1 DEF Ended, ScanInv, GroupIsLinked
  <2>3. r.drained /\ r.batch = {} /\ r.fetched = Len(Participants) /\ r.batchOffset = r.fetched
    BY <2>1, <2>2 DEF ScanInv, QueueCarries, Collects
  <2>4. Listed(0, Len(Participants)) \subseteq dataset
    BY <2>3 DEF ScanInv, Collects
  <2>. QED  BY <1>0, <2>4, ListFacts
<1>. QED  BY <1>0, <1>1, <1>2
          DEF ScanInv, QueueCarries, NoSentinel, LastPage, GroupIsLinked, Collects, ScanStates

(* The rest of scan() loses nobody. *)
LEMMA OutsideCollects ==
    ASSUME TypeInv, NEW s \in Scans, ScanInv(scan[s], dataset),
           \/ Begin(s) \/ RunningState(s) \/ StartedEvent(s) \/ StartFails(s)
           \/ FinalState(s) \/ FailedState(s) \/ LastEvent(s) \/ EndFails(s)
    PROVE  ScanInv(scan'[s], dataset)
<1>0. scan[s] \in ScanStates /\ dataset \subseteq Members /\ scan \in [Scans -> ScanStates]
  BY DEF TypeInv
<1>1. \/ scan'[s] = Idle
      \/ \E label \in ScanLabels \ {"completed"} : scan'[s] = [scan[s] EXCEPT !.at = label]
  BY <1>0 DEF Begin, RunningState, StartedEvent, StartFails, FinalState, FailedState, LastEvent,
              EndFails, Leave, Goto, ScanLabels
<1>2. ASSUME NEW label \in ScanLabels \ {"completed"}, scan'[s] = [scan[s] EXCEPT !.at = label]
      PROVE  ScanInv(scan'[s], dataset)
  BY <1>0, <1>2
  DEF ScanInv, QueueCarries, NoSentinel, LastPage, GroupIsLinked, Collects, ScanStates
<1>. QED  BY <1>0, <1>1, <1>2, IdleInv

(* No step of a coroutine loses anybody. *)
LEMMA ScanCollects ==
    ASSUME TypeInv, DatasetInv, NEW s \in Scans, ScanStep(s)
    PROVE  DatasetInv'
<1>0. /\ scan[s] \in ScanStates /\ dataset \subseteq Members /\ ScanInv(scan[s], dataset)
      /\ scan \in [Scans -> ScanStates]
  BY DEF TypeInv, DatasetInv
<1>1. dataset \subseteq dataset' /\ ScanInv(scan'[s], dataset')
  <2>1. CASE \/ ConsumePage(s) \/ ConsumeSentinel(s) \/ Ingest(s) \/ Checkpoint(s)
             \/ PersistFails(s) \/ CancelConsumer(s)
    BY <1>0, <2>1, ConsumerCollects
  <2>2. CASE Fetch(s) \/ Put(s) \/ FetchEnds(s) \/ FetchFails(s) \/ PutSentinel(s) \/ CancelProducer(s)
    <3>1. dataset' = dataset
      BY <2>2 DEF Fetch, Put, FetchEnds, FetchFails, PutSentinel, CancelProducer, rows
    <3>. QED  BY <1>0, <2>2, <3>1, ProducerCollects
  <2>3. CASE GroupEnds(s)
    BY <1>0, <2>3, GroupCollects DEF GroupEnds, rows
  <2>4. CASE \/ Begin(s) \/ RunningState(s) \/ StartedEvent(s) \/ StartFails(s)
             \/ FinalState(s) \/ FailedState(s) \/ LastEvent(s) \/ EndFails(s)
    <3>1. dataset' = dataset
      BY <2>4 DEF Begin, RunningState, StartedEvent, StartFails, FinalState, FailedState,
                  LastEvent, EndFails, rows
    <3>. QED  BY <1>0, <2>4, <3>1, OutsideCollects
  <2>. QED  BY <2>1, <2>2, <2>3, <2>4 DEF ScanStep
<1>2. dataset' \subseteq Members
  <2>1. TypeInv'
    BY ProducerTypes, ConsumerTypes, OutsideTypes DEF ScanStep
  <2>. QED  BY <2>1 DEF TypeInv
<1>3. ASSUME NEW x \in Scans PROVE ScanInv(scan'[x], dataset')
  <2>1. CASE x = s
    BY <1>1, <2>1
  <2>2. CASE x # s
    <3>1. scan'[x] = scan[x]
      BY <1>0, <2>2, OwnStep
    <3>2. scan[x] \in ScanStates /\ ScanInv(scan[x], dataset)
      BY <1>0 DEF DatasetInv
    <3>. QED  BY <1>0, <1>1, <1>2, <3>1, <3>2, DatasetGrows
  <2>. QED  BY <2>1, <2>2
<1>4. Listed(0, checkpoint'.offset) \subseteq dataset' /\ checkpoint'.accepted <= Cardinality(dataset')
  <2>1. \/ checkpoint' = checkpoint
        \/ checkpoint' = [offset |-> scan[s].offset, accepted |-> scan[s].accepted]
    BY DEF ScanStep, Begin, RunningState, StartedEvent, StartFails, Fetch, Put, FetchEnds,
           FetchFails, PutSentinel, ConsumePage, ConsumeSentinel, Ingest, Checkpoint, PersistFails,
           CancelProducer, CancelConsumer, GroupEnds, FinalState, FailedState, LastEvent, EndFails,
           rows
  <2>2. /\ Listed(0, checkpoint'.offset) \subseteq dataset
        /\ checkpoint'.accepted <= Cardinality(dataset) /\ checkpoint'.accepted \in Nat
    BY <1>0, <2>1 DEF TypeInv, Checkpoints, DatasetInv, ScanInv, Collects, ScanStates
  <2>3. Cardinality(dataset) <= Cardinality(dataset')
        /\ Cardinality(dataset) \in Nat /\ Cardinality(dataset') \in Nat
    BY <1>0, <1>1, <1>2, Growing
  <2>. QED  BY <1>1, <2>2, <2>3
<1>5. jobState' = "COMPLETED" => dataset' = Members
  <2>1. \/ jobState' = jobState \/ jobState' # "COMPLETED"
        \/ At(s, "completed")
    BY DEF ScanStep, Begin, RunningState, StartedEvent, StartFails, Fetch, Put, FetchEnds,
           FetchFails, PutSentinel, ConsumePage, ConsumeSentinel, Ingest, Checkpoint, PersistFails,
           CancelProducer, CancelConsumer, GroupEnds, FinalState, FailedState, LastEvent, EndFails,
           rows
  <2>2. At(s, "completed") => dataset = Members
    BY <1>0 DEF At, ScanInv, Collects
  <2>3. jobState = "COMPLETED" => dataset = Members
    BY DEF DatasetInv, CompletedIsWhole, Members
  <2>. QED  BY <1>1, <1>2, <2>1, <2>2, <2>3
<1>. QED  BY <1>3, <1>4, <1>5 DEF DatasetInv, CompletedIsWhole, Members

(* No command, crash or restart does. *)
LEMMA CommandCollects ==
    ASSUME TypeInv, DatasetInv,
           \/ \E s \in Scans : ResumeScan(s)
           \/ CancelScan \/ StopIdle \/ WorkerCancels \/ Crash \/ Restart
    PROVE  DatasetInv'
<1>0. /\ dataset \subseteq Members /\ scan \in [Scans -> ScanStates] /\ checkpoint \in Checkpoints
      /\ \A x \in Scans : ScanInv(scan[x], dataset)
  BY DEF TypeInv, DatasetInv
<1>1. UNCHANGED <<dataset, checkpoint>> /\ (jobState' = jobState \/ jobState' # "COMPLETED")
  BY DEF ResumeScan, CancelScan, StopIdle, WorkerCancels, Crash, Restart, rows
<1>2. ASSUME NEW x \in Scans PROVE ScanInv(scan'[x], dataset)
  <2>1. ASSUME NEW s \in Scans, ResumeScan(s) PROVE ScanInv(scan'[x], dataset)
    <3>1. ScanInv([Fresh(checkpoint) EXCEPT !.at = "submitted"], dataset)
      BY <1>0, FreshInv DEF DatasetInv
    <3>. QED  BY <1>0, <2>1, <3>1 DEF ResumeScan
  <2>2. CASE CancelScan
    <3>1. scan'[x] = scan[x] \/ scan'[x] = [scan[x] EXCEPT !.cancel = TRUE]
      BY <1>0, <2>2 DEF CancelScan
    <3>2. scan[x] \in ScanStates /\ ScanInv(scan[x], dataset)
      BY <1>0
    <3>. QED  BY <3>1, <3>2
              DEF ScanInv, QueueCarries, NoSentinel, LastPage, GroupIsLinked, Collects, ScanStates
  <2>3. CASE StopIdle \/ WorkerCancels \/ Restart
    BY <1>0, <2>3 DEF StopIdle, WorkerCancels, Restart
  <2>4. CASE Crash
    BY <1>0, <2>4, IdleInv DEF Crash
  <2>. QED  BY <2>1, <2>2, <2>3, <2>4
<1>. QED  BY <1>1, <1>2 DEF DatasetInv, CompletedIsWhole

(* Nobody is missed, whoever scans and whatever fails.                     *)
THEOREM DatasetCorrect == Spec => []DatasetInv
<1>1. Init => DatasetInv
  <2>. SUFFICES ASSUME Init PROVE DatasetInv
    OBVIOUS
  <2>1. {} \in SUBSET Members /\ Cardinality({}) >= 0
    BY FS_EmptySet
  <2>. QED  BY <2>1, IdleInv, ListFacts DEF Init, DatasetInv, CompletedIsWhole
<1>2. TypeInv /\ DatasetInv /\ [Next]_vars => DatasetInv'
  <2>. SUFFICES ASSUME TypeInv, DatasetInv, [Next]_vars PROVE DatasetInv'
    OBVIOUS
  <2>1. CASE UNCHANGED vars
    BY <2>1 DEF vars, rows, DatasetInv, CompletedIsWhole
  <2>. QED  BY <2>1, ScanCollects, CommandCollects DEF Next
<1>. QED  BY <1>1, <1>2, TypeCorrect, PTL DEF Spec

(* A COMPLETED scan has collected the whole list (CompletedIsWhole), over  *)
(* all its resumptions and with any number of coroutines.                  *)
THEOREM CompletedWhole == Spec => []CompletedIsWhole
<1>1. DatasetInv => CompletedIsWhole
  BY DEF DatasetInv
<1>. QED  BY <1>1, DatasetCorrect, PTL

-----------------------------------------------------------------------------
(* One coroutine.  The code does not keep a second resume from starting    *)
(* another: what follows needs that nobody asks for one.                   *)

(* The row of the job follows the coroutine. *)
RowFollows(s) ==
    /\ ~up => scan[s].at = "none" /\ crashes > 0
    /\ scan[s].at \notin {"none", "submitted", "running_state"} =>
          jobState \notin {"READY", "PAUSED"}
    /\ jobState = "COMPLETED" => scan[s].at \in {"none", "event", "failed", "failed_event"}
    /\ jobState = "RUNNING" => scan[s].at \notin {"event", "failed_event"}
    /\ writeFaults = 0 =>
          registered = IF scan[s].at \in {"none", "submitted"} THEN NoScan ELSE s
    /\ writeFaults = 0 /\ up /\ jobState = "RUNNING" => scan[s].at \notin {"none", "submitted"}

(* Without a crash it counts the whole dataset, until a write fails.       *)
CountsAll(s) ==
    /\ crashes = 0 /\ jobState \in {"READY", "PAUSED"} => dataset = {} /\ checkpoint.accepted = 0
    /\ scan[s].at = "completed" => scan[s].consumer = "done"
    /\ crashes = 0 /\ scan[s].at \in {"submitted", "running_state", "started_event", "group",
                                      "completed"}
          /\ scan[s].consumer \notin {"failed", "cancelled"} =>
             scan[s].accepted = Cardinality(dataset)
    /\ crashes = 0 /\ jobState = "COMPLETED" => checkpoint.accepted = Cardinality(dataset)

OneInv(s) == RowFollows(s) /\ CountsAll(s)

(* One coroutine: the invariant holds at the start ... *)
LEMMA OneInit == ASSUME NEW s \in Scans, Init PROVE OneInv(s)
<1>1. scan[s].at = "none"
  BY DEF Init, Idle, Fresh
<1>. QED  BY <1>1 DEF Init, OneInv, RowFollows, CountsAll

(* The tasks leave the label and the row of the job.                       *)
LEMMA OneProducer ==
    ASSUME TypeInv, NEW s \in Scans, OneInv(s),
           Fetch(s) \/ Put(s) \/ FetchEnds(s) \/ FetchFails(s) \/ PutSentinel(s) \/ CancelProducer(s)
    PROVE  OneInv(s)'
<1>0. scan[s] \in ScanStates
  BY DEF TypeInv
<1>1. /\ scan'[s].at = scan[s].at /\ scan'[s].consumer = scan[s].consumer
      /\ scan'[s].accepted = scan[s].accepted
  BY <1>0, ProducerStep DEF ScanStates
<1>2. UNCHANGED <<jobState, checkpoint, dataset, registered, up, crashes, writeFaults>>
  BY DEF Fetch, Put, FetchEnds, FetchFails, PutSentinel, CancelProducer, rows, faults
<1>. QED  BY <1>1, <1>2 DEF OneInv, RowFollows, CountsAll

(* ... the consumer but moves the checkpoint and the count with it. *)
LEMMA OneConsumer ==
    ASSUME TypeInv, NEW s \in Scans, OneInv(s),
           \/ ConsumePage(s) \/ ConsumeSentinel(s) \/ Ingest(s) \/ Checkpoint(s) \/ PersistFails(s)
           \/ CancelConsumer(s)
    PROVE  OneInv(s)'
<1>0. /\ scan[s] \in ScanStates /\ scan[s].at = "group" /\ dataset \in SUBSET Members
      /\ writeFaults \in Nat
  BY DEF TypeInv, ConsumePage, ConsumeSentinel, Ingest, Checkpoint, PersistFails, CancelConsumer,
         Producer, Consumer, InGroup, At
<1>1. scan'[s].at = "group"
  BY <1>0, ConsumerStep DEF ScanStates
<1>2. UNCHANGED <<jobState, registered, up, crashes>>
      /\ (writeFaults' = writeFaults \/ writeFaults' # 0)
  BY <1>0 DEF ConsumePage, ConsumeSentinel, Ingest, Checkpoint, PersistFails, CancelConsumer, rows,
              faults, Fault
<1>3. jobState \notin {"READY", "PAUSED", "COMPLETED"}
  BY <1>0 DEF OneInv, RowFollows
<1>4. RowFollows(s)'
  BY <1>0, <1>1, <1>2 DEF OneInv, RowFollows
<1>5. CountsAll(s)'
  <2>1. CASE Ingest(s)
    <3>1. /\ scan'[s].accepted = scan[s].accepted + Cardinality(scan[s].batch \ dataset)
          /\ dataset' = dataset \cup scan[s].batch /\ scan[s].consumer = "ingest"
      <4>1. scan'[s] = [scan[s] EXCEPT !.accepted = @ + Cardinality(scan[s].batch \ dataset),
                           !.offset = scan[s].batchOffset, !.consumer = "checkpoint"]
        BY <2>1, ConsumerStep
      <4>. QED  BY <1>0, <2>1, <4>1 DEF Ingest, Consumer, ScanStates
    <3>2. Cardinality(dataset') = Cardinality(dataset) + Cardinality(scan[s].batch \ dataset)
      BY <1>0, <3>1, Counted DEF ScanStates
    <3>. QED  BY <1>0, <1>1, <1>2, <1>3, <3>1, <3>2 DEF OneInv, CountsAll
  <2>2. CASE PersistFails(s) \/ CancelConsumer(s)
    <3>1. scan'[s].consumer \in {"failed", "cancelled"}
      <4>1. \E label \in {"failed", "cancelled"} : scan'[s] = [scan[s] EXCEPT !.consumer = label]
        BY <2>2, ConsumerStep
      <4>. QED  BY <1>0, <4>1 DEF ScanStates
    <3>. QED  BY <1>1, <1>2, <1>3, <3>1 DEF CountsAll
  <2>3. CASE ConsumePage(s) \/ ConsumeSentinel(s) \/ Checkpoint(s)
    <3>1. scan'[s].accepted = scan[s].accepted
      <4>. scan \in [Scans -> ScanStates]
        BY DEF TypeInv
      <4>. QED  BY <2>3 DEF ConsumePage, ConsumeSentinel, Checkpoint, ScanStates
    <3>2. dataset' = dataset /\ scan[s].consumer \notin {"failed", "cancelled"}
      BY <2>3 DEF ConsumePage, ConsumeSentinel, Checkpoint, Consumer, rows
    <3>. QED  BY <1>0, <1>1, <1>2, <1>3, <3>1, <3>2 DEF OneInv, CountsAll
  <2>. QED  BY <2>1, <2>2, <2>3
<1>. QED  BY <1>4, <1>5 DEF OneInv

(* The start of scan() makes the row RUNNING and registers the event. *)
LEMMA OneStart ==
    ASSUME TypeInv, NEW s \in Scans, OneInv(s),
           Begin(s) \/ RunningState(s) \/ StartedEvent(s) \/ StartFails(s)
    PROVE  OneInv(s)'
<1>0. /\ scan[s] \in ScanStates /\ scan \in [Scans -> ScanStates] /\ writeFaults \in Nat
      /\ jobState \in JobStates
  BY DEF TypeInv
<1>1. CASE Begin(s)
  <2>1. scan'[s] = [scan[s] EXCEPT !.at = "running_state"] /\ scan[s].at = "submitted"
    BY <1>0, <1>1 DEF Begin, Goto, At
  <2>2. registered' = s /\ UNCHANGED <<jobState, checkpoint, dataset, up, crashes, writeFaults>>
    BY <1>1 DEF Begin, rows, faults
  <2>. QED  BY <1>0, <2>1, <2>2 DEF OneInv, RowFollows, CountsAll, ScanStates
<1>2. CASE RunningState(s)
  <2>1. scan'[s] = [scan[s] EXCEPT !.at = "started_event"] /\ scan[s].at = "running_state"
    BY <1>0, <1>2 DEF RunningState, Goto, At
  <2>2. jobState' = "RUNNING" /\ UNCHANGED <<dataset, registered, up, crashes, writeFaults>>
    BY <1>2 DEF RunningState, faults
  <2>. QED  BY <1>0, <2>1, <2>2 DEF OneInv, RowFollows, CountsAll, ScanStates
<1>3. CASE StartedEvent(s)
  <2>1. scan'[s] = [scan[s] EXCEPT !.at = "group"] /\ scan[s].at = "started_event"
    BY <1>0, <1>3 DEF StartedEvent, Goto, At
  <2>2. UNCHANGED <<jobState, checkpoint, dataset, registered, up, crashes, writeFaults>>
    BY <1>3 DEF StartedEvent, rows, faults
  <2>. QED  BY <1>0, <2>1, <2>2 DEF OneInv, RowFollows, CountsAll, ScanStates
<1>4. CASE StartFails(s)
  <2>1. /\ scan'[s].at = "none" /\ scan[s].at \in {"running_state", "started_event"}
        /\ writeFaults' # 0
    BY <1>0, <1>4 DEF StartFails, Idle, Fresh, At, Fault
  <2>2. UNCHANGED <<jobState, checkpoint, dataset, registered, up, crashes>>
    BY <1>4 DEF StartFails, rows
  <2>. QED  BY <1>0, <2>1, <2>2 DEF OneInv, RowFollows, CountsAll
<1>. QED  BY <1>1, <1>2, <1>3, <1>4

(* The end of scan() writes the last row and removes the event. *)
LEMMA OneEnd ==
    ASSUME TypeInv, NEW s \in Scans, OneInv(s), ScanInv(scan[s], dataset),
           GroupEnds(s) \/ FinalState(s) \/ FailedState(s) \/ LastEvent(s) \/ EndFails(s)
    PROVE  OneInv(s)'
<1>0. /\ scan[s] \in ScanStates /\ scan \in [Scans -> ScanStates] /\ writeFaults \in Nat
      /\ jobState \in JobStates
  BY DEF TypeInv
<1>1. CASE GroupEnds(s)
  <2>1. PICK label \in {"failed", "cancelled", "completed"} :
           /\ scan'[s] = [scan[s] EXCEPT !.at = label]
           /\ label = "completed" => "failed" \notin {scan[s].producer, scan[s].consumer}
    BY <1>0, <1>1 DEF GroupEnds, Goto
  <2>2. /\ scan[s].at = "group" /\ {scan[s].producer, scan[s].consumer} \subseteq Ended
        /\ UNCHANGED <<jobState, checkpoint, dataset, registered, up, crashes, writeFaults>>
    BY <1>1 DEF GroupEnds, InGroup, At, rows, faults
  <2>3. label = "completed" => scan[s].consumer = "done"
    BY <2>1, <2>2 DEF ScanInv, GroupIsLinked, Ended
  <2>. QED  BY <1>0, <2>1, <2>2, <2>3 DEF OneInv, RowFollows, CountsAll, ScanStates
<1>2. CASE FinalState(s)
  <2>1. /\ scan'[s] = [scan[s] EXCEPT !.at = "event"] /\ scan[s].at \in {"completed", "cancelled"}
        /\ jobState' = IF scan[s].at = "completed" THEN "COMPLETED" ELSE "CANCELLED"
        /\ checkpoint'.accepted = scan[s].accepted
        /\ UNCHANGED <<dataset, registered, up, crashes, writeFaults>>
    BY <1>0, <1>2 DEF FinalState, Goto, At, faults
  <2>. QED  BY <1>0, <2>1 DEF OneInv, RowFollows, CountsAll, ScanStates
<1>3. CASE FailedState(s)
  <2>1. /\ scan'[s] = [scan[s] EXCEPT !.at = "failed_event"] /\ scan[s].at = "failed"
        /\ jobState' = "FAILED"
        /\ UNCHANGED <<dataset, registered, up, crashes, writeFaults>>
    BY <1>0, <1>3 DEF FailedState, Goto, At, faults
  <2>. QED  BY <1>0, <2>1 DEF OneInv, RowFollows, CountsAll, ScanStates
<1>4. CASE LastEvent(s)
  <2>1. /\ scan'[s].at = "none" /\ scan[s].at \in {"event", "failed_event"} /\ registered' = NoScan
        /\ UNCHANGED <<jobState, checkpoint, dataset, up, crashes, writeFaults>>
    BY <1>0, <1>4 DEF LastEvent, Leave, Idle, Fresh, At, rows, faults
  <2>. QED  BY <1>0, <2>1 DEF OneInv, RowFollows, CountsAll
<1>5. CASE EndFails(s)
  <2>1. /\ scan[s].at \in {"completed", "cancelled", "event", "failed", "failed_event"}
        /\ scan'[s].at \in {"failed", "none"} /\ writeFaults' # 0
        /\ UNCHANGED <<jobState, checkpoint, dataset, up, crashes>>
    BY <1>0, <1>5 DEF EndFails, Goto, Leave, Idle, Fresh, At, Fault, rows, ScanStates
  <2>2. scan[s].at \in {"completed", "cancelled", "event"} => scan'[s].at = "failed"
    BY <1>0, <1>5 DEF EndFails, Goto, At, ScanStates
  <2>3. scan[s].at \notin {"completed", "cancelled", "event"} => scan'[s].at = "none"
    BY <1>0, <1>5 DEF EndFails, Leave, Idle, Fresh, At
  <2>. QED  BY <1>0, <2>1, <2>2, <2>3 DEF OneInv, RowFollows, CountsAll
<1>. QED  BY <1>1, <1>2, <1>3, <1>4, <1>5

(* The commands, a crash and a restart keep what is known of the coroutine. *)
LEMMA OneCommand ==
    ASSUME TypeInv, NEW s \in Scans, Scans = {s}, OneInv(s),
           ResumeScan(s) \/ CancelScan \/ StopIdle \/ WorkerCancels \/ Crash \/ Restart
    PROVE  OneInv(s)'
<1>0. /\ scan[s] \in ScanStates /\ scan \in [Scans -> ScanStates] /\ crashes \in Nat
      /\ jobState \in JobStates /\ registered \in {s, NoScan} /\ checkpoint \in Checkpoints
  BY DEF TypeInv
<1>1. CASE ResumeScan(s)
  <2>1. scan'[s] = [Fresh(checkpoint) EXCEPT !.at = "submitted"] /\ scan[s].at = "none" /\ up
        /\ jobState \in {"READY", "PAUSED"}
    BY <1>0, <1>1 DEF ResumeScan, At
  <2>2. UNCHANGED <<jobState, checkpoint, dataset, registered, up, crashes, writeFaults>>
    BY <1>1 DEF ResumeScan, rows, faults
  <2>3. scan'[s].at = "submitted" /\ scan'[s].accepted = checkpoint.accepted
    BY <2>1 DEF Fresh
  <2>4. Cardinality({}) = 0
    BY FS_EmptySet
  <2>. QED  BY <1>0, <2>1, <2>2, <2>3, <2>4 DEF OneInv, RowFollows, CountsAll
<1>2. CASE CancelScan
  <2>1. scan'[s] = [scan[s] EXCEPT !.cancel = TRUE]
    BY <1>0, <1>2 DEF CancelScan
  <2>2. UNCHANGED <<jobState, checkpoint, dataset, registered, up, crashes, writeFaults>>
    BY <1>2 DEF CancelScan, rows, faults
  <2>. QED  BY <1>0, <2>1, <2>2 DEF OneInv, RowFollows, CountsAll, ScanStates
<1>3. CASE StopIdle \/ WorkerCancels
  <2>1. UNCHANGED <<scan, checkpoint, dataset, registered, up, crashes, writeFaults>>
        /\ (jobState' = jobState \/ jobState' = "CANCELLED")
    BY <1>3 DEF StopIdle, WorkerCancels, rows, faults
  <2>. QED  BY <2>1 DEF OneInv, RowFollows, CountsAll
<1>4. CASE Crash
  <2>1. /\ scan'[s].at = "none" /\ registered' = NoScan /\ crashes' > 0 /\ up' = FALSE
        /\ UNCHANGED <<jobState, checkpoint, dataset, writeFaults>>
    BY <1>0, <1>4 DEF Crash, Idle, Fresh, rows, faults
  <2>. QED  BY <1>0, <2>1 DEF OneInv, RowFollows, CountsAll
<1>5. CASE Restart
  <2>1. /\ scan' = scan /\ up' = TRUE /\ ~up
        /\ jobState' = IF jobState = "RUNNING" THEN "PAUSED" ELSE jobState
        /\ UNCHANGED <<checkpoint, dataset, registered, crashes, writeFaults>>
    BY <1>5 DEF Restart, faults
  <2>2. scan[s].at = "none" /\ crashes > 0
    BY <2>1 DEF OneInv, RowFollows
  <2>. QED  BY <1>0, <2>1, <2>2 DEF OneInv, RowFollows, CountsAll
<1>. QED  BY <1>1, <1>2, <1>3, <1>4, <1>5

(* The row, the event and the count follow the only coroutine of the job. *)
THEOREM OneScan ==
    ASSUME NEW s, Scans = {s}
    PROVE  Spec => []OneInv(s)
<1>1. Init => OneInv(s)
  BY OneInit
<1>2. TypeInv /\ DatasetInv /\ OneInv(s) /\ [Next]_vars => OneInv(s)'
  <2>. SUFFICES ASSUME TypeInv, DatasetInv, OneInv(s), [Next]_vars PROVE OneInv(s)'
    OBVIOUS
  <2>0. s \in Scans /\ ScanInv(scan[s], dataset)
    BY DEF DatasetInv
  <2>1. CASE UNCHANGED vars
    BY <2>1 DEF vars, rows, faults, OneInv, RowFollows, CountsAll
  <2>2. CASE Next
    BY <2>0, <2>2, OneProducer, OneConsumer, OneStart, OneEnd, OneCommand DEF Next, ScanStep
  <2>. QED  BY <2>1, <2>2
<1>. QED  BY <1>1, <1>2, TypeCorrect, DatasetCorrect, PTL DEF Spec

(* A scan that goes on from the checkpoint misses nobody, and its count is *)
(* right (CheckpointIsBehindDataset).                                      *)
THEOREM CheckpointBehind ==
    ASSUME NEW s, Scans = {s}
    PROVE  Spec => []CheckpointIsBehindDataset
<1>1. TypeInv /\ DatasetInv /\ OneInv(s) => CheckpointIsBehindDataset
  BY TypesOK
  DEF DatasetInv, OneInv, CountsAll, CheckpointIsBehindDataset, AcceptedIsCounted
<1>. QED  BY <1>1, TypeCorrect, DatasetCorrect, OneScan, PTL

(* A RUNNING scan can be cancelled (RunningCanBeCancelled): the event that *)
(* is registered is that of the coroutine at work.                         *)
THEOREM RunningHasEvent ==
    ASSUME NEW s, Scans = {s}
    PROVE  Spec => []RunningCanBeCancelled
<1>1. OneInv(s) => RunningCanBeCancelled
  BY DEF OneInv, RowFollows, RunningCanBeCancelled, Working
<1>. QED  BY <1>1, OneScan, PTL
=============================================================================
