SPECIFICATION FairSpec
CONSTANTS
    first = first
    second = second
    plain = plain
    h1 = h1
    h2 = h2
    Runs <- Pair
    Hosts = {h1}
    Home <- HomePair
    Superusers = {first, second}
    OffRuns = {first, second}
    Original <- OriginalOne
    ConfValue = "on"
    Exposed <- LossTolerated
    TornWrites = FALSE
    MaxFaults = 3
INVARIANTS
    JournalCoversChange
    NeverAdoptsOff
    WorkloadOnDurableData
PROPERTY EventuallyRestored
