\* Any bundle, settings and target; another process saves profiles as well.
CONSTANTS
    Thousand = 10  FromSeconds = 10  FromMillis = 100
    FromMicros = 1000  FromNanos = 10000  MaxInt = 99999
    Label = {"__name__", "job", "pod", "zone", "env", "le", "dc"}
    Protected = {"__name__", "job"}
    Preferred = {"job", "pod"}
    Hidden = {"__name__"}
    LabelValue = {"", "a", "b", "up", "load"}
    NoLabels = NoLabels
    Scenario <- MCScenario
    SampleLines = 1
    UnitLength <- MCUnitLength
    MaxDuration = 1000
    Minute = 2
    Start = 600  TimeBound = 601
    i1 = i1  i2 = i2  f1 = f1  f2 = f2
    p1 = p1  p2 = p2  p3 = p3  n2 = n2
    Importer = {i1, i2}
    Here = i1
    Profile = {p1, p2, p3}
    Mine = p1
    Nameless = {n2}
    RebuiltId <- MCRebuiltId
    MaxRecentProfiles = 2
    Inode = {f1, f2}
    Legacy <- MCLegacy
    NoFile = NoFile  Empty = Empty  Torn = Torn
    CrashBound = 1
    SaveBound = 3
SPECIFICATION Spec
SYMMETRY Symmetry
CONSTRAINT Bounded
INVARIANTS
    TypeOK
    ListIsRecent
    FileIsLastSave
    SettingsRetained
    PreflightPredicts
    SentIsTrimmed
    WindowCoversImport
    FilesHaveOwners
CHECK_DEADLOCK FALSE
