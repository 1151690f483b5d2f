SPECIFICATION Spec
CONSTANTS
    W = 3
    SduUnits = 1
    AlwaysBigEnough = TRUE
    MaxSdus = 7
    MaxPduUnits = 1
    MaxUnacked = 2
    MaxInFlight = 2
    MaxStatus = 2
    MaxLoss = 1
INVARIANTS TypeOK ReleasedIsReceived BuffersAgree AckSnIsReported RightPdus
PROPERTIES VrMsOnlyAdvances ImplementsPipe
CHECK_DEADLOCK FALSE
