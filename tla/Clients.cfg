\* Two accounts, one coroutine per account at a time, a change of credentials, a deletion, a lost connection, a failure.
SPECIFICATION FairSpec
CONSTANTS
    a1 = a1
    a2 = a2
    auth = auth
    scan = scan
    Accounts <- MCTwoAccounts
    NoAccount = NoAccount
    Users <- MCUsers
    JobUsers <- MCJobUsers
    Overlap = FALSE
    LongCalls = TRUE
    MaxClients = 3
    MaxUpdates = 1
    MaxDeletes = 1
    MaxDrops = 1
    MaxFaults = 1
INVARIANT SlotsAreClients
PROPERTY ReaperSparesUsed
PROPERTY ChangeLeavesNoClient
PROPERTY IdleIsReaped
\* When nothing is asked for, nothing happens.
CHECK_DEADLOCK FALSE
