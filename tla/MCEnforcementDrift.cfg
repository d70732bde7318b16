SPECIFICATION Spec
CHECK_DEADLOCK FALSE
CONSTANTS
    a = a
    b = b
    c1 = c1
    c2 = c2
    None = None
    IPs = {a, b}
    Clients = {c1}
    Services <- MCServices
    InText <- MCInText
    MaxRules = 2
    MaxChain = 3
    Operations = {"create", "block", "unblock"}
    MaxBusy = 1
    Failing = {}
    BroadcastFails = FALSE
    LockTimeouts = FALSE
    Whitelists <- NoWhitelist
    MinSeverity = "medium"
    Alerts = {}
    NewRules <- DriftRules
    Changes = {}
    Blocks <- DriftBlocks
INVARIANTS
    NeverDriftsApart
