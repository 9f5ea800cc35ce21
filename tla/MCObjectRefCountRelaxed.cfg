CONSTANTS
    Thread = {t1, t2}
    Handle = {h1, h2, h3}
    Builds = {"gcc", "msvc"}
    MaxWeakIncs = 2
SPECIFICATION Spec
SYMMETRY Symmetry
INVARIANTS
    UsesHappenBeforeDestructor
    AllHappensBeforeFree
    WeakKeepsMemoryWithoutLoad
    ChangesInOrderAcquired
CHECK_DEADLOCK FALSE
