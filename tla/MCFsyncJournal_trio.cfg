SPECIFICATION Spec
CONSTANTS
    first = first
    second = second
    plain = plain
    h1 = h1
    h2 = h2
    Runs <- Trio
    Hosts = {h1, h2}
    Home <- HomeTrio
    Superusers = {first, second}
    OffRuns = {first, second}
    Original <- OriginalTwo
    ConfValue = "on"
    Exposed <- OutsideSync
    TornWrites = TRUE
    MaxFaults = 2
INVARIANTS
    JournalCoversChange
    MutationsHoldLock
