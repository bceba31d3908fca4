\* An import and an export for two workers, a run, a failing write, a restart.
SPECIFICATION FairSpec
CONSTANTS
    import1 = import1
    export = export
    Imports <- MCImports
    Exports <- MCExports
    Net = Net
    Workers = 2
    Batches <- MCBatches
    MaxFaults = 1
    MaxRestarts = 1
INVARIANT CompletedImportIsWhole
INVARIANT RowsAreTrue
PROPERTY TerminalJobRests
PROPERTY StopReturns
\* Nothing is left to do when the last restart has been used.
CHECK_DEADLOCK FALSE
