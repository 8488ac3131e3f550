SPECIFICATION Spec
CONSTANTS
    Template <- SmallTemplate
    MaxCancels = 2
    Kinds = {"local", "ssh", "docker"}
    Jobs = {"logs"}
INVARIANTS
    AnswerHonest
    BackendClean
    GroupStopped
    CopySettled
PROPERTY CommandEnds
