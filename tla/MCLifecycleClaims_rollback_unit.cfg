SPECIFICATION Spec
CONSTANTS
    Nil = Nil
    Procs = {cli}
    Manifests = {v1, v2, stateful}
    Routed = {v1, v2, stateful}
    Stateless = {v1, v2}
    DynPorts = {p1, p2}
    Ops = {"deploy", "rollback"}
    MaxFaults = 0
    MaxCrashes = 0
    MaxCancels = 0
    MaxTroubles = 0
SYMMETRY Symmetry
INVARIANTS
    RollbackServesItsArtifact
