SPECIFICATION Spec
CONSTANTS
    s1 = s1
    s2 = s2
    t1 = t1
    t2 = t2
    t3 = t3
    direct = direct
    b1 = b1
    b2 = b2
    NoFn = NoFn
    None = None
    Suite <- MC_Suite
    Tests <- MC_Tests
    Direct <- MC_Direct
    Filter <- MC_Filter
    Block = {}
    MaxSuites = 2
    MaxAllocs = 2
    MaxCalls = 4
PROPERTY OnlyMatchingRun
CHECK_DEADLOCK FALSE
