\* Any bundle; requests fail, and some targets' answers get lost.
CONSTANTS
    r1 = r1  r2 = r2
    RunId = {r1, r2}
    Bundles <- MCBundles
    ChunkLines = 2
    DeliveryBound = 1
SPECIFICATION FairSpec
INVARIANTS
    TypeOK
    NothingLost
    OffsetNotAhead
    DeliveredOnce
    OneWorks
    BundleKept
    CleanedUp
PROPERTIES
    JobSettles
\* The job may be over for good.
CHECK_DEADLOCK FALSE
