\* Two gateways, two tasks, one ending twice, failing sends, crashes.
SPECIFICATION Spec
CONSTANTS
    a1 = a1
    a2 = a2
    t1 = t1
    Agents = {a1, a2}
    Reporters = {g1, g2}
    Nobody = Nobody
    Tasks = {t1, t2}
    AgentOf <- SameAgent
    Creator <- OneAsks
    CanTell = {g1, g2}
    Ends = {"completed", "failed", "canceled"}
    Batch = 2
    FinishAgain = TRUE
    MaxOutcomes <- OneEndsTwice
    MaxFailures = 1
    MaxOutages = 1
INVARIANTS
    TypeOK
    ToldOnce
    PostedOnce
    MarkersAreKept
PROPERTIES
    OutcomesAreTold
CHECK_DEADLOCK FALSE
