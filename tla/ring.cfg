SPECIFICATION FairSpec
CONSTANTS
    Drainers = {workq}
    RingSize = 11
    BufSize = 4
    FormattedLens <- MCFormattedLens
    GarbageLens <- MCGarbageLens
    MaxApp = 3
    MaxCalls = 6
INVARIANTS TypeOK WholeEntries
PROPERTIES PipeSpec QueuedIsSent StormDies
