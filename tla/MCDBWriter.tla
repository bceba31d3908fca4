---------------------------- MODULE MCDBWriter ----------------------------
(* Small instances of DBWriter: two routine operations, one critical one   *)
(* and the flush of stop(), a batch limit and a queue that both fill up.   *)
EXTENDS DBWriter, TLC

CONSTANTS r1, r2, c1, flush, stop_sentinel

MCOps == {r1, r2, c1, flush}
MCCritical == {c1, flush}
MCRoutine == {r1, r2}
=============================================================================
