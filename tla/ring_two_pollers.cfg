SPECIFICATION Spec
CONSTANTS
    Drainers = {workq, main}
    RingSize = 11
    BufSize = 4
    FormattedLens <- MCFormattedLens
    GarbageLens <- MCGarbageLens
    MaxApp = 3
    MaxCalls = 6
INVARIANT WholeEntries
