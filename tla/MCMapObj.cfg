CONSTANTS
    Key = {"a", "b", "c", "d", "e"}
    Value = {1, 2}
    Lists <- MCLists
    Code <- Codes
    CodeSpan = 16
    JumpDists <- Dists
    kInitSize = 1
    kMaxSize = 2
SPECIFICATION Spec
INVARIANTS
    FindAgreesWithIteration
    TableSound
    ChainsSound
PROPERTIES
    DictSpec
