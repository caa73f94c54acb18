SPECIFICATION Spec
CONSTANTS
    Nil = Nil
    Procs = {cli}
    Manifests = {v1, stateful, worker}
    Routed = {v1, stateful}
    Stateless = {v1, worker}
    DynPorts = {p1, p2}
    Ops = {"deploy", "rollback", "stop"}
    MaxFaults = 1
    MaxCrashes = 0
    MaxCancels = 0
    MaxTroubles = 1
SYMMETRY Symmetry
INVARIANTS
    TypeOK
    FailedReplacementLeavesActive
    FailedDeployRestoresArtifact
    RecordedArtifactExists
    RollbackExchangesPairs
    FailedRollbackRestores
PROPERTIES
    NoDowntime
