SPECIFICATION MergeSpec
CONSTANTS
    libA = libA
    libB = libB
    libC = libC
    optim = optim
    jemalloc = jemalloc
    Module <- MC_Module
    Current = optim
    ThirdParty <- MC_ThirdParty
    Tool = {"ar", "lib", "libtool"}
INVARIANT AllDependencies
CHECK_DEADLOCK FALSE
