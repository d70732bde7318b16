SPECIFICATION Spec
CONSTANTS
    a = a
    b = b
    c1 = c1
    c2 = c2
    None = None
    IPs = {a, b}
    Clients = {c1}
    Services <- MCServices
    InText <- MCInText
    MaxRules = 2
    MaxChain = 3
    Operations = {"alert", "expire", "create", "update", "delete", "block", "unblock", "reset", "crash"}
    MaxBusy = 1
    Failing = {}
    BroadcastFails = FALSE
    LockTimeouts = FALSE
    Whitelists <- SerialWhitelists
    MinSeverity = "medium"
    Alerts <- SerialAlerts
    NewRules <- SerialRules
    Changes <- SerialChanges
    Blocks <- SerialBlocks
INVARIANTS
    WhitelistNeverEnforced
    NoOrphanEntries
PROPERTIES
    RestartHeals
    BlocksAsPromised
