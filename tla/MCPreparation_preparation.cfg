SPECIFICATION FocusedSpec
CONSTANTS
    Tasks = {t1, t2, t3}
    Situations <- AnySituation
    Kinds = {"local", "ssh", "docker"}
    Jobs = {"config"}
    Hosts <- AnyHost
    MaxFaults = 2
    Replicas = {r1, r2}
    Addresses = {a1, a2}
    MaxMoves = 4
    MaxLsn = 2
INVARIANTS
    PlanRunnable
    CopySettled
    RestartSafe
    ReplicasHaveRows
PROPERTIES
    RestartVerified
    PreparationEnds
