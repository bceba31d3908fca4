\* One preparation at a time and a user who waits for what was asked for.
SPECIFICATION Spec
CONSTANTS
  f1 = f1
  f2 = f2
  Flows <- MCOneFlow
  MaxJobs = 4
  MaxWait = 2
  MaxFloods = 2
  MaxCrashes = 1
  MaxFaults = 2
  Impatient = FALSE
  Hasty = FALSE
INVARIANTS
  OneOfEach
  NoJobIsStuck
PROPERTIES
  TerminalIsFinal
  NoCallDuringServerWait
\* The table of jobs is full and all of them are terminal.
CHECK_DEADLOCK FALSE
