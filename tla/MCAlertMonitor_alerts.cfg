SPECIFICATION Spec
SYMMETRY Symmetry
CONSTANTS
    None = None
    Runs = {r1, r2}
    Gauges = {cpu}
    Levels = {40, 85}
    ServiceSets <- MCServiceSets
    CertSets <- MCCertSets
    Warning = 80
    Critical = 95
    Increase <- MCIncrease
    Minimum <- MCMinimum
    BaselineSamples = 1
    ConsecutiveSamples = 2
    Cooldown = 2
    ExtraSamples = 0
    SpikesEnabled = TRUE
    Enabled = {"telegram", "email"}
    ChannelFlags = {"all", "telegram"}
    MaxTime = 2
    MaxRuns = 4
    MaxFaults = 1
INVARIANTS
    TypeOK
    RecordedIsTold
PROPERTIES
    SpikeIsWarranted
    SpikesStayOutOfBaseline
CHECK_DEADLOCK FALSE
