----------------------------- MODULE MCScanner ------------------------------
(* Instances of ParticipantScanner: four members, one of them listed again *)
(* on a later page, pages of one member, batches of two.                   *)
EXTENDS ParticipantScanner

MCParticipants == <<1, 2, 3, 1, 4>>
MCOneScan == {"s1"}
MCTwoScans == {"s1", "s2"}
=============================================================================
