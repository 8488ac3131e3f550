SPECIFICATION FairSpec
CONSTANTS
    Iterations = 3
    Setups <- AnySetup
    FailsAt <- AnyFailure
    CancelsAt <- AnyCancellation
    MaxFaults = 3
INVARIANTS
    PointsKept
    EvidenceKept
    ExitHonest
    ControllerClosed
PROPERTIES CheckpointAvailable CancellationHonoured Ends
