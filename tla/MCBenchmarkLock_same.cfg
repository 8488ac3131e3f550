CONSTANTS
    plain = plain
    patroni = patroni
    schema = schema
    managed = managed
    skip = skip
    bench = bench
    other = other
    Postgres = Postgres
    Runs <- SameTarget
    Mode <- ModeSame
    Policy <- PolicySame
    Target <- TargetSame
    OffRuns = {plain}
    Iterations = 2
    Exposed <- OutsideCritical
    LateStops = FALSE
SPECIFICATION FairSpec
INVARIANTS PointsMeasuredAlone MeasuresOwnData
PROPERTY EventuallyReleased
