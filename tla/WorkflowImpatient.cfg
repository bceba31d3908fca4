\* Two flows at a time and a user who waits for nothing.
SPECIFICATION Spec
CONSTANTS
  f1 = f1
  f2 = f2
  Flows <- MCTwoFlows
  MaxJobs = 4
  MaxWait = 1
  MaxFloods = 1
  MaxCrashes = 0
  MaxFaults = 0
  Impatient = TRUE
  Hasty = TRUE
SYMMETRY MCSymmetry
CONSTRAINT MCNoScans
INVARIANTS
  OneCall
\* The table of jobs is full and all of them are terminal.
CHECK_DEADLOCK FALSE
