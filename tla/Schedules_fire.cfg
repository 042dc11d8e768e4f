\* Two gateways, two firings, one upset, one crash.
SPECIFICATION Spec
CONSTANTS
    g1 = g1
    any = any
    Gateways = {g1, g2}
    Anyone = any
    MaxFirings = 2
    Clocks <- AllClocks
    DisableAfterFailures = 2
    MaxCrashes = 1
    MaxUpsets = 1
INVARIANTS
    TypeOK
    CountedOnce
    DoneStaysDone
PROPERTIES
    FiredOnce
    FiringsSettle
CHECK_DEADLOCK FALSE
