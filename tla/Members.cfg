\* Two users and a username, two datasets and a combination of them, three batches, two jobs.
SPECIFICATION Spec
CONSTANTS
    i1 = i1
    i2 = i2
    x = x
    d1 = d1
    d2 = d2
    Ids <- MCIds
    NoId = NoId
    Names <- MCNames
    NoName = NoName
    Found <- MCFound
    Present <- MCPresent
    Given <- MCGiven
    Combined = Combined
    MaxRows = 2
    MaxBatch = 1
    MaxIngests = 3
    MaxJobs = 2
INVARIANT TablesAreSound
PROPERTY MembersStay
PROPERTY UnionIsWhole
PROPERTY NobodyAddedTwice
SYMMETRY Symmetry
\* When the bounds are used up nothing happens.
CHECK_DEADLOCK FALSE
