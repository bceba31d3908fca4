\* Two routine writes whose tasks may be cancelled, a critical one, rollbacks, a stop.
SPECIFICATION FairSpec
CONSTANTS
  r1 = r1
  r2 = r2
  c1 = c1
  flush = flush
  stop_sentinel = stop_sentinel
  Ops <- MCOps
  Critical <- MCCritical
  FlushOp <- flush
  Abandonable <- MCRoutine
  BatchLimit = 2
  QueueLimit = 2
  STOP <- stop_sentinel
INVARIANTS
  AnswersAreTrue
PROPERTIES
  ImplementsWriteLog
  QueuedIsAnswered
  StopReturns
\* Once every operation is answered and stop() has returned, nothing is left to do.
CHECK_DEADLOCK FALSE
