CONSTANTS
    plain = plain
    patroni = patroni
    schema = schema
    managed = managed
    skip = skip
    bench = bench
    other = other
    Postgres = Postgres
    Runs <- ThreeRuns
    Mode <- ModeThree
    Policy <- PolicyThree
    Target <- TargetThree
    OffRuns = {plain}
    Iterations = 2
    Exposed <- AllPoints
    LateStops = TRUE
SPECIFICATION Spec
INVARIANTS MutualExclusion WorkingMeansHolding
PROPERTY ImplementsServerLock
