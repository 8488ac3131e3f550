SPECIFICATION Spec
CONSTANTS
    Requests <- AnyRequest
    Points = 2
    MaxChanges = 1
    Names = {A, B, C}
    Reports <- AnyReport
    Count = 3
    Commands <- StepPaths
    Required <- TaskPaths
SYMMETRY NameSymmetry
INVARIANTS
    TargetSpared
    ReportTruthful
    ReportSaved
    ReplyConsistent
    JoinFaithful
