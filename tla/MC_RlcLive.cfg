SPECIFICATION FairSpec
CONSTANTS
    W = 3
    SduUnits = 1
    AlwaysBigEnough = TRUE
    MaxSdus = 3
    MaxPduUnits = 1
    MaxUnacked = 2
    MaxInFlight = 2
    MaxStatus = 2
    MaxLoss = 2
INVARIANT DeliveredAtRest
PROPERTY AllDelivered
CHECK_DEADLOCK FALSE
