\* Runs that end, requests that are obeyed, flushes that arrive.
SPECIFICATION FairSpec
CONSTANTS
  Items <- MCTwo
  Unusable <- MCNone
  FlushBatch = 2
  ChunkSize = 2
  LowWatermark = 1
  Errors <- MCErrors
  Restrictions <- MCRestrictions
  MaxFloods = 1
  MaxCrashes = 0
  MaxFaults = 0
  Impatient = FALSE
PROPERTIES
  RunEnds
  RequestIsObeyed
  ScheduledFlushSuffices
\* A finished or cancelled job accepts no command.
CHECK_DEADLOCK FALSE
