CONSTANTS
    plain = plain
    patroni = patroni
    schema = schema
    managed = managed
    skip = skip
    bench = bench
    other = other
    Postgres = Postgres
    Runs <- Apart
    Mode <- ModeApart
    Policy <- PolicyApart
    Target <- TargetApart
    OffRuns = {}
    Iterations = 1
    Exposed <- DuringWorkload
    LateStops = FALSE
SPECIFICATION Spec
INVARIANT PointsMeasuredAlone
