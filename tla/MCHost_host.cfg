SPECIFICATION Spec
CONSTANTS
    Ssh = 22
    Ports = {22, 80, 443, 2222}
    MaxRuns = 2
    MaxBreaks = 1
    MaxDrifts = 1
    Clients = {c1, c2}
    Alert = alert
    Backups = {backup}
    Webhook = webhook
    Shared = {redis}
    Monitoring = monitoring
    Nothing = Nothing
    MaxOrders = 3
    MaxFailures = 1
    MaxStops = 1
SYMMETRY Symmetric
INVARIANTS UndisturbedRunSetsUp FirewallKeepsSsh RunningIsRemovable ToldIsInEffect
CHECK_DEADLOCK FALSE
