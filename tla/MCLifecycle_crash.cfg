SPECIFICATION Spec
CONSTANTS
    Nil = Nil
    Procs = {cli}
    Manifests = {v1}
    Routed = {v1}
    Stateless = {v1}
    DynPorts = {p1, p2}
    Ops = {"deploy", "rollback", "restart", "delete"}
    MaxFaults = 1
    MaxCrashes = 1
    MaxCancels = 1
    MaxTroubles = 2
SYMMETRY Symmetry
INVARIANTS
    Coherent
    DeploySuccessServes
    DeleteLeavesNoState
