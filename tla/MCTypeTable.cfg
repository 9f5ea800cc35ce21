CONSTANTS
    Classes <- MCClasses
    Keys <- MCKeys
    Key <- MCKey
    Object = "Object"
    Parent <- MCParent
    Depth <- MCDepth
    Bases <- MCBases
    StaticIndex <- MCStaticIndex
    Slots <- MCSlots
    CanOverflow <- MCCanOverflow
    Final <- MCFinal
    Begin = 2
SPECIFICATION Spec
INVARIANTS
    IsInstanceIsBaseOf
    PlacesDisjoint
    DowncastsAreSound
CHECK_DEADLOCK FALSE
