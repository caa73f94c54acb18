SPECIFICATION Spec
CONSTANTS
    None = None
    Emptied = Emptied
    Commands = {c1, c2}
    Projects = {p1, p2}
    Names = {n1, n2}
    Values = {v1, v2}
    MaxJobs = 4
    MaxFaults = 1
    MaxDeaths = 1
    Nil = Nil
    Callers = {c1, c2}
    Files = {registries, overlay}
    Registries = registries
    Entries = {n1, n2}
    Addresses = {v1, v2}
    Hooks = {n1, n2}
    SecretFiles = {v1, v2}
    MaxTasks = 3
    MaxBroken = 1
    MaxKilled = 1
SYMMETRY Symmetric
INVARIANTS TypeOK StoredIsKept StoresReadable RuntimeIsOneVersion HooksAreAsTold
CHECK_DEADLOCK FALSE
