SPECIFICATION Spec
CONSTANTS
    w1 = w1
    i1 = i1
    j1 = j1
    u1 = u1
    v1 = v1
    None = None
    Wired = {w1}
    Iab = {i1}
    Ue = {u1}
    Parent <- OneHop
    Below <- OneHopBelow
    NumBearers <- OneBearer
    MaxBearers = 1
    MaxRnti = 1
    MaxTeid = 2
    MaxAttempts <- OneAttempt
    MaxData = 0
    MaxLoss = 0
INVARIANT S1apIsNotDropped
CHECK_DEADLOCK FALSE
