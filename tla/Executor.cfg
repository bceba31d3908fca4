\* Three items, a crash, a failing write, a FloodWait; a user who waits for a cancellation.
SPECIFICATION Spec
CONSTANTS
  Items <- MCThree
  Unusable <- MCLastOfThree
  FlushBatch = 2
  ChunkSize = 2
  LowWatermark = 1
  Errors <- MCErrors
  Restrictions <- MCRestrictions
  MaxFloods = 1
  MaxCrashes = 1
  MaxFaults = 1
  Impatient = FALSE
INVARIANTS
  CountersMatchItems
  SettledOncePerLoss
  NoResultLeftBehind
  CompletedIsComplete
PROPERTIES
  ResultsAreFinal
  NoCallDuringServerWait
  RestrictionsPause
  CallsAreJustified
  RowFollowsStateMachine
\* A finished or cancelled job accepts no command.
CHECK_DEADLOCK FALSE
