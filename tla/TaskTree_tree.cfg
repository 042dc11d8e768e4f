\* A shell splits, another cancels and closes, a gateway sweeps.
SPECIFICATION Spec
CONSTANTS
    t1 = t1
    Tasks = {t1, t2, t3}
    Root = t1
    NoTask = NoTask
    Splitters = {s1}
    Stoppers = {s2}
    Gateways = {g1}
    MaxOpenChildren = 1
    MaxTasksPerContext = 3
    MaxDepth = 2
    MaxFruitlessWaves = 1
    RunEnds = {"completed", "failed"}
    RunsPerGoal = 2
    GoalExtensions = 1
    MaxClaims <- GoalTwice
    MaxUpsets = 1
INVARIANTS
    TypeOK
    
    CancelReachesTree
PROPERTIES
    EndedStaysEnded
    TreeSettles
CHECK_DEADLOCK FALSE
