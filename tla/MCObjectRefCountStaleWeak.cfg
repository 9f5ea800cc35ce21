CONSTANTS
    Thread = {t1, t2}
    Handle = {h1, h2, h3}
    Builds = {"gcc"}
    MaxWeakIncs = 2
SPECIFICATION Spec
SYMMETRY Symmetry
INVARIANTS
    WeakKeepsMemory
CHECK_DEADLOCK FALSE
