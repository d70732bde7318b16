SPECIFICATION Spec
CHECK_DEADLOCK FALSE
CONSTANTS
    r1 = r1
    r2 = r2
    u = u
    None = None
    Admin = admin
    Requests = {r1, r2}
    Names = {u}
    Errands <- MCErrands
    Verdicts = {"medium", "high"}
    MaxAlerts = 1
    Critical = 3
    Raised = 2
    Many = 2
    Cuts = {0, 2}
    MaxInserts = 3
    MaxCrashes = 1
PROPERTY ActiveArePreserved
