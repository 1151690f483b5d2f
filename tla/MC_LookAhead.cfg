SPECIFICATION Spec
CONSTANTS
    w1 = w1
    i1 = i1
    j1 = j1
    u1 = u1
    Nobody = Nobody
    Cells = {w1, i1, j1}
    Donor = w1
    ParentOf <- Chain
    Served <- ChainServed
    Symbols = {1}
    SubframesPerFrame = 3
    L1L2CtrlLatency = 0
    Behind <- ChainBehind
    MaxFrame = 2
INVARIANT TypeOK
INVARIANT HalfDuplex
INVARIANT BothEndsAgree
INVARIANT NoAssertionFails
CHECK_DEADLOCK FALSE
