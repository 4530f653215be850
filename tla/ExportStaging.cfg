\* Two jobs side by side, on a disk where appends can fail and on one where
\* they cannot.
CONSTANTS
    j1 = j1  j2 = j2
    r1 = r1  r2 = r2
    JobId = {j1, j2}
    RunId = {r1, r2}
    NoRun = NoRun
    MaxConcurrent = 2
    Windows <- MCWindows
    MetricsBound = 2
    FileBound = 2
SPECIFICATION StagingSpec
SYMMETRY Symmetry
INVARIANTS
    StagingTypeOK
    StagingIsProgress
    NoBatchSkipped
