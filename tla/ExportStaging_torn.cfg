\* A failed append, then a resume.
CONSTANTS
    j1 = j1  j2 = j2
    r1 = r1  r2 = r2
    JobId = {j1}
    RunId = {r1, r2}
    NoRun = NoRun
    MaxConcurrent = 1
    Windows <- MCWindows
    MetricsBound = 2
    FileBound = 4
SPECIFICATION StagingSpec
SYMMETRY Symmetry
INVARIANT RetriesLeaveNoTrace
