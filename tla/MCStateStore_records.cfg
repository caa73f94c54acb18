SPECIFICATION Spec
CONSTANTS
    Nil = Nil
    p1 = p1
    p2 = p2
    o1 = o1
    o2 = o2
    Procs = {p1, p2}
    Owners = {o1, o2}
    Targets = {1, 2}
    FirstPort = 1
    LastPort = 2
    PortStart = 1
    PortEnd = 2
    Candidate <- SameCandidate
    Statuses = {"running"}
    Ops = {"allocate", "delete", "put", "setStatus"}
SYMMETRY SymmetryOfOwners
PROPERTIES
    AbstractSpec
    OnlyPutRecords
