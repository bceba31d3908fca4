\* Two coroutines, two jobs, a crash, commands that overlap.
SPECIFICATION Spec
CONSTANTS
    x1 = x1
    x2 = x2
    Auths <- MCAuths
    MaxJobs = 2
    MaxCrashes = 1
SYMMETRY MCSymmetry
INVARIANTS
    DisabledIsThorough
    JobHasAccount
    StatusIsTrue
\* Nothing is left to do once the account is deleted.
CHECK_DEADLOCK FALSE
