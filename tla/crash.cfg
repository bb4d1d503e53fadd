SPECIFICATION Spec
CONSTANTS
    Platforms <- MCBoth
    CountWrap = 8
    ColdCounts <- MCColdCounts
    MaxIncidents = 3
    MaxOffs = 1
INVARIANTS TypeOK OnlyIncidents NothingForgotten CountBounded
PROPERTIES NothingLost LoggedOnce
