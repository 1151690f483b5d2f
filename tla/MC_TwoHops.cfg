SPECIFICATION FairSpec
CONSTANTS
    w1 = w1
    i1 = i1
    j1 = j1
    u1 = u1
    v1 = v1
    None = None
    Wired = {w1}
    Iab = {i1, j1}
    Ue = {u1}
    Parent <- TwoHops
    Below <- TwoHopsBelow
    NumBearers <- OneBearer
    MaxBearers = 1
    MaxRnti = 1
    MaxTeid = 3
    MaxAttempts <- OneAttempt
    MaxData = 2
    MaxLoss = 1
INVARIANT TypeOK
INVARIANT RouteClosedUpstream
INVARIANT RemoteImsiIsForwarded
INVARIANT ChildrenAreDownstream
INVARIANT NoAbort
PROPERTY AttachCompletes
CHECK_DEADLOCK FALSE
