-------------------------- MODULE JobStateMachine --------------------------
(***************************************************************************)
(* jobs/state_machine.py: the documented life cycle of a job.  The code    *)
(* that writes job states (JobRepository.submit_set_state) does not consult *)
(* it, so it serves here as the yardstick of action properties.            *)
(***************************************************************************)


JobStates == {"CREATED", "PREPARING", "READY", "RUNNING", "PAUSED", "WAITING_SERVER",
              "COMPLETED", "COMPLETED_WITH_ERRORS", "FAILED", "CANCELLED"}

TerminalJobStates == {"COMPLETED", "COMPLETED_WITH_ERRORS", "FAILED", "CANCELLED"}

(* ALLOWED: the successors of each state. *)
Allowed(state) ==
    CASE state = "CREATED"        -> {"PREPARING", "CANCELLED"}
      [] state = "PREPARING"      -> {"READY", "FAILED", "CANCELLED"}
      [] state = "READY"          -> {"RUNNING", "CANCELLED"}
      [] state = "RUNNING"        -> {"PAUSED", "WAITING_SERVER"} \cup TerminalJobStates
      [] state = "PAUSED"         -> {"RUNNING", "CANCELLED", "FAILED"}
      [] state = "WAITING_SERVER" -> {"RUNNING", "PAUSED", "CANCELLED", "FAILED"}
      [] OTHER                    -> {}

(* validate_transition raises unless this holds. *)
ValidTransition(old, new) == old = new \/ new \in Allowed(old)
=============================================================================
