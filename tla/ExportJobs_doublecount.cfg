\* One job that fails at its archive and is resumed.
CONSTANTS
    j1 = j1  j2 = j2
    r1 = r1  r2 = r2  r3 = r3
    JobId = {j1, j2}
    RunId = {r1, r2}
    NoRun = NoRun
    MaxConcurrent = 1
    Windows <- MCWindows
    MetricsBound = 2
SPECIFICATION Spec
INVARIANT NoDoubleCount
