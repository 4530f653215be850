\* Ranges, intervals and steps, every combination of them.
CONSTANTS
    Ranges <- MCRanges
    Customs = {0, 1, 3, 6, 9}
    Steps = {0, 1, 3, 5, 9}
    MinInterval = 2
    MidInterval = 3
    LongInterval = 5
    MaxInterval = 7
    ShortRange = 4
    MidRange = 9
    ChunkSize = 4
SPECIFICATION FairSpec
INVARIANTS
    TypeOK
    WindowsTile
    WindowsBounded
    DuplicatesNotGaps
PROPERTY Ends
\* The export is sampled in the end.
CHECK_DEADLOCK FALSE
