\* A window of five units; the backend may refuse any attempt.
CONSTANTS
    a = a  b = b
    Job = {a, b}
    Configs <- MCConfigs
    MinStep = 2
    Start = 0
    End = 5
SPECIFICATION FairSpec
INVARIANTS
    TypeOK
    WindowIsAtomic
    SamplingIsRecorded
PROPERTY WindowEnds
\* The window is over in the end.
CHECK_DEADLOCK FALSE
