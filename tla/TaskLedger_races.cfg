\* Two gateways race for one task; runs advance, stall, fail and lose their lease.
SPECIFICATION Spec
CONSTANTS
    Agents = {a1, a2}
    Tasks = {t1}
    Runs = {r1, r2}
    Notes = {n1}
    Verdicts = {}
    Nobody = Nobody
    NoRun = NoRun
    NoNote = NoNote
    MaxAttempts = 2
    MaxContinuations = 2
    MaxEmptyRuns = 2
    MaxCriteriaAsks = 1
    Concurrency = 1
    ResumeGrant = 1
    MaxResumes = 0
    MaxOutages = 1
SYMMETRY Symmetry
INVARIANTS
    FenceHolds
    TokensDistinct
    AttemptsCoverRuns
    RowsAreOwned
PROPERTIES
    SupersededRunIsDiscarded
    ClaimsAreHeldOnce
CHECK_DEADLOCK FALSE
