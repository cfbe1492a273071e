CONSTANTS
    MaxSends = 4
    Depth = 2
    Threshold = 2
    CounterModulus = 8
    EchoBodies <- AnyEcho
SPECIFICATION SafeSpec
INVARIANT AlertsFollowRuns
CHECK_DEADLOCK FALSE
