CONSTANTS
    b1 = b1
    b2 = b2
    b3 = b3
    b4 = b4
    Null = Null
    Devices = {0}
    Blocks <- BlockSet
    PageSize = 2
    WordSize = 16
    Requests = {0, 3, 5, 8}
SPECIFICATION Spec
SYMMETRY Symmetry
INVARIANTS
    BlocksAccounted
    BigEnough
    NoMoreThanPeak
    NothingLeftKept
PROPERTIES
    HeldUntouched
    SmallestFit
CHECK_DEADLOCK FALSE
