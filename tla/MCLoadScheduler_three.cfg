SPECIFICATION FairSpec
CONSTANTS
    w1 = w1
    w2 = w2
    w3 = w3
    Workers <- ThreeWorkers
    N = 4
    Single <- SingleTasks
    Count <- Counts
    DependsOn <- Dependencies
    BatchRows = 4
    MaxRows <- Rows
    Faults = TRUE
INVARIANTS
    LoadedOnce
    DependenciesLoaded
    WaiterHasWaker
PROPERTIES ImplementsLoadPhase PhaseEnds
