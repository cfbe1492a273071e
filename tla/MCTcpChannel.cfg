CONSTANTS
    Requests = {r1, r2}
    Controllers = {c1}
    Capacity = 1
    None = None
SPECIFICATION Spec
INVARIANTS CompletedOnce ResponseIsOwn StopLeavesNothing
PROPERTIES ImplementsChannel StopCompletes RequestFinishes
CHECK_DEADLOCK FALSE
