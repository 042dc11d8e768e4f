\* Violated: a finished task is finished again.
SPECIFICATION Spec
CONSTANTS
    Agents = {a1}
    Tasks = {t1}
    Runs = {r1}
    Notes = {n1}
    Verdicts = {"completed"}
    Nobody = Nobody
    NoRun = NoRun
    NoNote = NoNote
    MaxAttempts = 1
    MaxContinuations = 1
    MaxEmptyRuns = 2
    MaxCriteriaAsks = 1
    Concurrency = 1
    ResumeGrant = 1
    MaxResumes = 0
    MaxOutages = 0
SYMMETRY Symmetry
PROPERTIES
    FinishedStaysFinished
CHECK_DEADLOCK FALSE
