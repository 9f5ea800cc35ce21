CONSTANTS
    kRingSize = 2
    NumTasks = 4
SPECIFICATION Spec
INVARIANTS
    PopFindsTask
    NoSlotRace
    PendingExact
    NoLostWakeup
PROPERTIES
    EveryTaskPopped
    KilledWorkerStops
    ChannelSpec
CHECK_DEADLOCK FALSE
