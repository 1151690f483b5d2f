SPECIFICATION Spec
CONSTANTS
    W = 2
    SduUnits = 2
    AlwaysBigEnough = FALSE
    MaxSdus = 2
    MaxPduUnits = 2
    MaxUnacked = 4
    MaxInFlight = 2
    MaxStatus = 1
    MaxLoss = 1
INVARIANT BuffersAgree
PROPERTY ImplementsPipe
CHECK_DEADLOCK FALSE
