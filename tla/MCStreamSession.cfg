CONSTANTS
    MaxSends = 4
    Depth = 2
    Threshold = 2
    CounterModulus = 8
    EchoBodies <- BareEcho
SPECIFICATION SafeSpec
INVARIANTS AlertsFollowRuns OutcomesInOrder PendsAccounted
PROPERTIES SilentAfterStop
CHECK_DEADLOCK FALSE
