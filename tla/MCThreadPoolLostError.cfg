CONSTANTS
    Cores = 2
    BigCount = 4
    LittleCount = 0
    Excludes = {TRUE}
    Requests = {0}
    Configs <- NoConfigs
    Phases = 0
    MayFail = {1}
SPECIFICATION Spec
INVARIANT FailureReported
CHECK_DEADLOCK FALSE
