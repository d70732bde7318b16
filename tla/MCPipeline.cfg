SPECIFICATION Spec
SYMMETRY ClientsAlike
CONSTANTS
    None = None
    Sockets = {c1, c2}
    Senders <- MCSenders
    Requests <- MCRequests
    Detectors <- MCDetectors
    MaxPackets = 2
    BufferSize = 1
    MaxAlerts = 2
    Claims = {"NORMAL"}
    Verdicts = {"high"}
    DbFails = TRUE
INVARIANT TypeOK
INVARIANT FlaggedWasStored
INVARIANT ResetForgets
INVARIANT RecordedWasSeenByAll
INVARIANT ShownIsRecorded
INVARIANT TakenAreRecorded
INVARIANT RegisteredIsServed
