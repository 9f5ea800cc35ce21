CONSTANTS
    Plain <- PlainValues
    Kind <- Kinds
    Fields <- TypeFields
    TypeKeyHash <- Numbers
    PlainCode <- PlainCodes
    Array = "Array"
    Map = "Map"
    Creatable <- MCCreatable
    Compared <- MCCompared
    Written <- MCWritten
    Programs <- FunctionsAndMaps
    MaxObjects = 4
SPECIFICATION Spec
CHECK_DEADLOCK FALSE
INVARIANTS
    EqualMeansSameHash
