----------------------------- MODULE MCWorkflow -----------------------------
(* Instances of WorkflowCommands: the coordinator flows of one account, at *)
(* one time at most one, or two that overlap.                              *)
EXTENDS WorkflowCommands, TLC

CONSTANTS f1, f2

MCOneFlow == {f1}
MCTwoFlows == {f1, f2}
MCSymmetry == Permutations(MCTwoFlows)

(* Scans take no part in the mutation lock. *)
MCNoScans == \A j \in JobIds : type[j] # "SCAN"
=============================================================================
