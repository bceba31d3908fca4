---------------------------- MODULE ErrorPolicy ----------------------------
(***************************************************************************)
(* telegram/error_mapper.py and migration/result_classifier.py: what an    *)
(* exception of a call means for the candidate and for the job.            *)
(*                                                                         *)
(* An exception is what ErrorMapper.map looks at: the lists that have a    *)
(* token in the name of its class, each named by the code it leads to (one *)
(* name may be hit by several, as ParticipantIdInvalidError is), whether   *)
(* its text says "flood_wait", the duration it carries (0: none, not a     *)
(* number or not positive) and whether it is a ConnectionError, a          *)
(* TimeoutError or an OSError.                                             *)
(***************************************************************************)
EXTENDS Integers, Sequences

NameLists == {"RATE_LIMIT_INDEFINITE", "RATE_LIMIT", "PRIVACY", "ALREADY_MEMBER", "NOT_MEMBER",
              "NOT_ELIGIBLE", "PERMISSION", "AUTH", "INVALID_USER", "SERVER_TRANSIENT"}

Exceptions == [names : SUBSET NameLists, flood_wait : BOOLEAN, wait : Nat, os_error : BOOLEAN]

(* The order in which map looks for a reason. *)
Ladder == <<"RATE_LIMIT_INDEFINITE", "RATE_LIMIT", "PRIVACY", "ALREADY_MEMBER", "NOT_MEMBER",
            "NOT_ELIGIBLE", "PERMISSION", "AUTH", "INVALID_USER", "NETWORK_TRANSIENT",
            "SERVER_TRANSIENT", "UNKNOWN">>

Reasons(x) ==
    x.names \cup {"UNKNOWN"}
            \cup {code \in {"RATE_LIMIT"} : x.flood_wait}
            \cup {code \in {"NETWORK_TRANSIENT"} : x.os_error}

FirstReason(x) ==
    LET hits == {rung \in DOMAIN Ladder : Ladder[rung] \in Reasons(x)}
    IN  Ladder[CHOOSE rung \in hits : \A other \in hits : rung <= other]

(* ErrorMapper.map: a limit is timed only if it says for how long. *)
Map(x) ==
    IF FirstReason(x) = "RATE_LIMIT" /\ x.wait = 0 THEN "RATE_LIMIT_INDEFINITE"
                                                   ELSE FirstReason(x)

-----------------------------------------------------------------------------
(* ResultClassifier.classify, by what it has the executor do. *)

Skips(code) == code \in {"ALREADY_MEMBER", "NOT_MEMBER", "PRIVACY", "NOT_ELIGIBLE", "INVALID_USER"}

(* Mutant of PausesJob: a missing permission is the fault of the candidate.*)
PausesJobUnlessForbidden(code) == code \in {"AUTH", "RATE_LIMIT_INDEFINITE"}

PausesJob(code) == code \in {"PERMISSION", "AUTH", "RATE_LIMIT_INDEFINITE"}

Transient(code) == code \in {"NETWORK_TRANSIENT", "SERVER_TRANSIENT"}

(* The state of a candidate that is neither retried nor a reason to pause. *)
ItemStateOf(code) == IF Skips(code) THEN "SKIPPED" ELSE "FAILED"
=============================================================================
