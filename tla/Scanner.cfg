\* One coroutine, a crash, a failing page and a failing write.
SPECIFICATION FairSpec
CONSTANTS
  Participants <- MCParticipants
  PageLimit = 1
  QueueMax = 2
  BatchSize = 2
  Scans <- MCOneScan
  MaxCrashes = 1
  MaxRpcFaults = 1
  MaxWriteFaults = 1
INVARIANTS
  CheckpointIsBehindDataset
  CompletedIsWhole
  RunningCanBeCancelled
PROPERTIES
  ScanEnds
\* A job that has ended has no next step.
CHECK_DEADLOCK FALSE
