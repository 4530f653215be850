\* A run with attempts that fail, and another that resumes the export.
CONSTANTS
    i1 = i1  i2 = i2  i3 = i3  i4 = i4
    j1 = j1  j2 = j2  comp = comp  pod = pod  v1 = v1  v2 = v2
    None = None
    Instance = {i1, i2, i3, i4}
    JobName = {j1, j2}
    Component = {comp}
    Label = {pod}
    Value = {v1, v2}
    Hashed <- MCHashed
    Port <- MCPort
    Metric <- MCMetric
    OctetSize = 2
    ResumeBound = 1
SPECIFICATION Spec
INVARIANTS
    TypeOK
    AliasesDistinct
PROPERTY AliasesStable
\* The export is over.
CHECK_DEADLOCK FALSE
