SPECIFICATION Spec
CONSTANTS
    w1 = w1
    i1 = i1
    j1 = j1
    u1 = u1
    v1 = v1
    None = None
    Wired = {w1}
    Iab = {i1}
    Ue = {u1}
    Parent <- OneHop
    Below <- OneHopBelow
    NumBearers <- TwoForUe
    MaxBearers = 2
    MaxRnti = 2
    MaxTeid = 5
    MaxAttempts <- UeRetries
    MaxData = 1
    MaxLoss = 1
INVARIANTS RouteIsLive AbortsHaveACause
PROPERTIES RouteIsStable TunnelsGrowDownwards
CHECK_DEADLOCK FALSE
