\* Gateways crash, restart or stay down; people resume what failed.
SPECIFICATION FairSpec
CONSTANTS
    Agents = {a1, a2}
    Tasks = {t1}
    Runs = {r1}
    Notes = {n1}
    Verdicts = {"failed"}
    Nobody = Nobody
    NoRun = NoRun
    NoNote = NoNote
    MaxAttempts = 1
    MaxContinuations = 1
    MaxEmptyRuns = 2
    MaxCriteriaAsks = 1
    Concurrency = 1
    ResumeGrant = 1
    MaxResumes = 1
    MaxOutages = 1
INVARIANTS
    TypeOK
PROPERTIES
    RestartReleasesOnlyItsOwn
    TasksSettle
    NothingHangs
CHECK_DEADLOCK FALSE
