SPECIFICATION Spec
CONSTANTS
    a = a
    b = b
    c1 = c1
    c2 = c2
    None = None
    IPs = {a, b}
    Clients = {c1, c2}
    Services <- MCServices
    InText <- MCInText
    MaxRules = 2
    MaxChain = 0
    Operations = {"alert", "expire", "delete", "block", "unblock", "reset", "crash"}
    MaxBusy = 2
    Failing = {"add", "del", "list", "flush"}
    BroadcastFails = TRUE
    LockTimeouts = TRUE
    Whitelists <- NoWhitelist
    MinSeverity = "medium"
    Alerts <- RaceAlerts
    NewRules = {}
    Changes = {}
    Blocks <- RaceBlocks
SYMMETRY Symmetry
INVARIANTS
    TypeOK
    BlockedRowBacked
    AutoBlockNeverCollides
