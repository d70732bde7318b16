SPECIFICATION FairSpec
CONSTANTS
    a = a
    b = b
    c1 = c1
    c2 = c2
    None = None
    IPs = {a, b}
    Clients = {c1}
    Services <- MCServices
    InText <- MCInText
    MaxRules = 2
    MaxChain = 1
    Operations = {"alert", "expire", "update", "block", "unblock"}
    MaxBusy = 4
    Failing = {"add", "del", "list"}
    BroadcastFails = TRUE
    LockTimeouts = FALSE
    Whitelists <- NoWhitelist
    MinSeverity = "medium"
    Alerts <- ExpiryAlerts
    NewRules = {}
    Changes <- ExpiryChanges
    Blocks <- ExpiryBlocks
PROPERTIES
    OverdueIsLifted
