SPECIFICATION Spec
CONSTANTS
    g1 = g1
    g2 = g2
    h1 = h1
    h2 = h2
    p1 = p1
    p2 = p2
    covA = covA
    covB = covB
    covBad = covBad
    Goroutine <- MC_Goroutine
    Handle <- MC_Handle
    Ptr <- MC_Ptr
    NULL = NULL
    Dim = {0, 1}
    Cov <- MC_Cov
    PD <- MC_PD
    NoCov = NoCov
    Hist = Hist
    Sharing = "serial"
    MaxDraws = 2
SYMMETRY Symmetry
PROPERTY ImplementsHandle
CHECK_DEADLOCK FALSE
