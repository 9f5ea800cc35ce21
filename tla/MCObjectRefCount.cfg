CONSTANTS
    Thread = {t1, t2, t3}
    Handle = {h1, h2, h3}
SPECIFICATION Spec
INVARIANTS
    StrongCountExact
    NoTouchAfterFree
PROPERTIES
    NoResurrection
    LifetimeSpec
CHECK_DEADLOCK FALSE
