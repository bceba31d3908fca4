\* A patient user stops a job in a server wait.
SPECIFICATION Spec
CONSTANTS
  f1 = f1
  f2 = f2
  Flows <- MCOneFlow
  MaxJobs = 4
  MaxWait = 2
  MaxFloods = 1
  MaxCrashes = 0
  MaxFaults = 0
  Impatient = FALSE
  Hasty = TRUE
PROPERTIES
  NoCallDuringServerWait
\* The table of jobs is full and all of them are terminal.
CHECK_DEADLOCK FALSE
