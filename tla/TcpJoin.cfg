CONSTANTS
    Requests = {r1}
    Controllers = {c1, c2}
    Capacity = 1
    None = None
SPECIFICATION SafeSpec
INVARIANT JoinsCreatedThread
CHECK_DEADLOCK FALSE
