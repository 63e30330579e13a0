SPECIFICATION FairSpec
CONSTANTS
    Callers = {c1, c2}
    Replenisher = rep
    MaxPoolSize = 2
    TargetPoolSize = 1
    TargetSizes = {0, 2, 3}
    MaxCalls = 4
INVARIANTS TypeOK WithinCap OwnedOnce StatsExact ParkedOnlyIfEmpty
PROPERTIES RefillsToTarget ShutdownCompletes
CHECK_DEADLOCK FALSE
