CONSTANTS
    Cores = 3
    BigCount = 4
    LittleCount = 0
    Excludes = {TRUE, FALSE}
    Requests = {0, 1, 3}
    Configs <- ResizeConfigs
    Phases = 2
    MayFail = {0, 1}
SPECIFICATION Spec
INVARIANTS
    PendingCountsTasks
    BarrierSeparates
    NothingDropped
    OwnFailureReported
PROPERTIES
    LaunchReturns
    ResetReturns
    ForkJoinSpec
CHECK_DEADLOCK FALSE
