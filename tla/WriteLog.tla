------------------------------ MODULE WriteLog ------------------------------
(***************************************************************************)
(* What the single SQLite writer promises to the rest of the application.  *)
(* Operations are accepted in some order; the log of operations that have  *)
(* been applied to the database is always in the order of acceptance and   *)
(* holds each operation at most once; a caller is told "ok" only after its *)
(* operation is in the log and "failed" only if it is not in it (and then  *)
(* never will be).  A caller that stops waiting for its answer voids the   *)
(* last two promises for everybody: a transaction may be applied again,    *)
(* and refused afterwards.  DBWriter implements this specification.        *)
(***************************************************************************)
EXTENDS Naturals, Sequences

CONSTANT Ops              \* the write operations callers may submit

VARIABLES accepted,       \* the operations accepted so far, in order
          log,            \* the operations applied to the database, in order
          status          \* what the caller of each operation knows

vars == <<accepted, log, status>>

Status == {"unsent", "sent", "ok", "failed", "cancelled"}

InLog(o) == \E i \in DOMAIN log : log[i] = o

(* Operation o was accepted before operation p. *)
AcceptedBefore(o, p) ==
    \E i, j \in DOMAIN accepted : i < j /\ accepted[i] = o /\ accepted[j] = p

(* A sequence of operations that respects the order of acceptance; no      *)
(* operation precedes itself, so the sequence has no repetition either.    *)
InOrder(s) == \A i, j \in DOMAIN s : i < j => AcceptedBefore(s[i], s[j])

(* A caller has stopped waiting for an answer. *)
SomeAbandoned == \E o \in Ops : status[o] = "cancelled"

Init ==
    /\ accepted = <<>>
    /\ log = <<>>
    /\ status = [o \in Ops |-> "unsent"]

Accept(o) ==
    /\ status[o] = "unsent"
    /\ status' = [status EXCEPT ![o] = "sent"]
    /\ accepted' = Append(accepted, o)
    /\ UNCHANGED log

(* A stopped writer answers at once with an error. *)
Reject(o) ==
    /\ status[o] = "unsent"
    /\ status' = [status EXCEPT ![o] = "failed"]
    /\ UNCHANGED <<accepted, log>>

(* One transaction applies a run of consecutively accepted operations.     *)
(* Their callers may have stopped waiting.                                 *)
Apply(batch) ==
    /\ \A k \in DOMAIN batch : status[batch[k]] \in {"sent", "cancelled"}
    /\ InOrder(log \o batch)
    /\ log' = log \o batch
    /\ UNCHANGED <<accepted, status>>

Reapply(batch) ==
    /\ SomeAbandoned
    /\ log' = log \o batch
    /\ UNCHANGED <<accepted, status>>

Acknowledge(o) ==
    /\ status[o] = "sent"
    /\ InLog(o)
    /\ status' = [status EXCEPT ![o] = "ok"]
    /\ UNCHANGED <<accepted, log>>

(* A transaction that is rolled back fails every operation of the run.     *)
Refuse(batch) ==
    LET unanswered == {batch[k] : k \in DOMAIN batch} \cap {o \in Ops : status[o] = "sent"}
    IN  /\ SomeAbandoned \/ \A o \in unanswered : ~InLog(o)
        /\ status' = [o \in Ops |-> IF o \in unanswered THEN "failed" ELSE status[o]]
        /\ UNCHANGED <<accepted, log>>

Abandon(o) ==
    /\ status[o] = "sent"
    /\ status' = [status EXCEPT ![o] = "cancelled"]
    /\ UNCHANGED <<accepted, log>>

Next ==
    \/ \E o \in Ops : Accept(o) \/ Reject(o) \/ Acknowledge(o) \/ Abandon(o)
    \/ \E i, j \in DOMAIN accepted :
          \/ Apply(SubSeq(accepted, i, j))
          \/ Reapply(SubSeq(accepted, i, j))
          \/ Refuse(SubSeq(accepted, i, j))

Spec == Init /\ [][Next]_vars
=============================================================================
