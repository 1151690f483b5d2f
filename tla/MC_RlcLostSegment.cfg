SPECIFICATION Spec
CONSTANTS
    W = 3
    SduUnits = 2
    AlwaysBigEnough = FALSE
    MaxSdus = 1
    MaxPduUnits = 2
    MaxUnacked = 2
    MaxInFlight = 2
    MaxStatus = 2
    MaxLoss = 2
INVARIANT DeliveredAtRest
CHECK_DEADLOCK FALSE
