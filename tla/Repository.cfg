SPECIFICATION RepositorySpec
CONSTANTS
    s1 = s1
    s2 = s2
    t1 = t1
    t2 = t2
    t3 = t3
    direct = direct
    b1 = b1
    b2 = b2
    NoFn = NoFn
    None = None
    Suite <- MC_Suite
    Tests <- MC_Tests
    Direct <- MC_Direct
    Filter <- MC_Filter
    Block <- MC_Block
    MaxSuites = 2
    MaxAllocs = 1
    MaxCalls = 4
    libA = libA
    libB = libB
    libC = libC
    optim = optim
    jemalloc = jemalloc
    Module <- MC_Module
    Current = optim
    ThirdParty <- MC_ThirdParty
    Tool = {"ar", "lib", "libtool"}
    Nil = Nil
    Width = 5
    Ints <- MC_Ints
    Lens = {0, 1, 2, 3, 4, 6, 8, 9}
    WorkLens = {2, 3, 4, 5, 7, 8, 9, 10, 12, 15}
    Rows <- MC_Rows
INVARIANTS TallyFaithful TrackedOnce ExactlyUnbundled NothingLost
    Contained DimensionsChecked CountsFaithful OtherPanicsExcluded SuccessMeansComputed
PROPERTIES ZeroVouches RunsAll FreedAtEnd
SYMMETRY Symmetry
CHECK_DEADLOCK FALSE
