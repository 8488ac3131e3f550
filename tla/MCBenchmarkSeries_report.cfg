SPECIFICATION Spec
CONSTANTS
    Iterations = 2
    Setups <- AnySetup
    FailsAt <- AnyFailure
    CancelsAt <- AnyCancellation
    MaxFaults = 3
INVARIANT ReportHasPoints
