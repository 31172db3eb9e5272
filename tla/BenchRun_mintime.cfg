SPECIFICATION Spec
CONSTANTS
    alpha = alpha
    beta = beta
    None = None
    InitialCapacity = 2
    Scale = 60
    MaxFailures = 0
    Name <- MC_Name
    Filter <- MC_Filter
    Config <- MC_Config
    MaxCalls = 3
PROPERTY MinTimeOrMaxIterations
CHECK_DEADLOCK FALSE
