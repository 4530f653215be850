\* Two jobs, j1 of two batches and j2 of one, and two slots; no symmetry, since
\* liveness is checked.
CONSTANTS
    j1 = j1  j2 = j2
    r1 = r1  r2 = r2  r3 = r3
    JobId = {j1, j2}
    RunId = {r1, r2, r3}
    NoRun = NoRun
    MaxConcurrent = 2
    Windows <- MCWindows
    MetricsBound = 2
SPECIFICATION FairSpec
INVARIANTS
    TypeOK
    SlotAccounting
    BoundedRuns
    RunOwnsItsJob
    BaseNotStale
    ResumeCountsOnce
PROPERTIES
    ProgressKept
    JobEnds
    ImplementsLifecycle
