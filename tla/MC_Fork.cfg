SPECIFICATION Spec
CONSTANTS
    w1 = w1
    i1 = i1
    j1 = j1
    u1 = u1
    v1 = v1
    None = None
    Wired = {w1}
    Iab = {i1}
    Ue = {u1, v1}
    Parent <- Fork
    Below <- ForkBelow
    NumBearers <- TwoForUe
    MaxBearers = 2
    MaxRnti = 2
    MaxTeid = 4
    MaxAttempts <- OneAttempt
    MaxData = 1
    MaxLoss = 0
INVARIANT DownlinkRouteToOwner
INVARIANT DownlinkReachesRightBranch
INVARIANT UplinkInOwnTunnel
INVARIANT UplinkFindsContext
CHECK_DEADLOCK FALSE
