SPECIFICATION FairSpec
CONSTANTS
    W = 2
    SduUnits = 1
    AlwaysBigEnough = TRUE
    MaxSdus = 3
    MaxPduUnits = 1
    MaxUnacked = 3
    MaxInFlight = 2
    MaxStatus = 2
    MaxLoss = 0
PROPERTY AllDelivered
CHECK_DEADLOCK FALSE
