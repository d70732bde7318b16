SPECIFICATION Spec
CHECK_DEADLOCK FALSE
CONSTANTS
    a = a
    b = b
    None = None
    Sources = {a}
    Ports <- MCPorts
    SensitivePorts = {22, 23}
    HttpPorts = {80, 443, 8080}
    ScanPorts = {1024, 1025, 1026}
    Threshold <- MCThreshold
    Window <- MCWindow
    StdMult = 1
    MaxRates = 5
    MaxLate = 1
    Start = 4
    Sessions = 1
    FloodPorts = {53}
    Scenes <- MCScenes
INVARIANT TypeOK
INVARIANT DropsOnlyExpired
INVARIANT CountsOnlyRecent
INVARIANT BurstReported
INVARIANT AlertJustified
INVARIANT GenuineTriggering
