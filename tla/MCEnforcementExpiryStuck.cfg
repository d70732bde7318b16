SPECIFICATION FairSpec
CONSTANTS
    a = a
    b = b
    c1 = c1
    c2 = c2
    None = None
    IPs = {a, b}
    Clients = {c1}
    Services <- MCServices
    InText <- MCInText
    MaxRules = 2
    MaxChain = 3
    Operations = {"expire", "update", "block", "reset"}
    MaxBusy = 2
    Failing = {}
    BroadcastFails = FALSE
    LockTimeouts = FALSE
    Whitelists <- NoWhitelist
    MinSeverity = "medium"
    Alerts = {}
    NewRules = {}
    Changes <- StuckChanges
    Blocks <- StuckBlocks
PROPERTIES
    OverdueIsLifted
