\* A delayed flush in flight when the run completes.
SPECIFICATION Spec
CONSTANTS
  Items <- MCTwo
  Unusable <- MCNone
  FlushBatch = 2
  ChunkSize = 2
  LowWatermark = 1
  Errors <- MCErrors
  Restrictions <- MCRestrictions
  MaxFloods = 0
  MaxCrashes = 0
  MaxFaults = 0
  Impatient = FALSE
INVARIANTS
  CompletedHasNoFailures
\* A finished or cancelled job accepts no command.
CHECK_DEADLOCK FALSE
