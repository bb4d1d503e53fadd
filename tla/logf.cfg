SPECIFICATION Spec
CONSTANTS
    Tasks = {t1, t2}
    Limit = 1
    Second = 3
    Wrap = 7
    MaxCalls = 3
    MaxFaults = 2
SYMMETRY Symmetry
INVARIANTS TypeOK RateLimited AloneIsExact
PROPERTIES DropsJustified
