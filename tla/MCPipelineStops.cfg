SPECIFICATION Spec
CONSTANTS
    None = None
    Sockets = {c1, c2}
    Senders <- MCSenders
    Requests <- MCRequests
    Detectors <- OneDetector
    MaxPackets = 2
    BufferSize = 1
    MaxAlerts = 9
    Claims = {"NORMAL"}
    Verdicts = {"high"}
    DbFails = FALSE
PROPERTY EveryPacketEvaluated
