CONSTANTS
    Threads = {t1, t2, t3}
    Items = {a, b, c}
    Capacity = 2
    NoItem = NoItem
SPECIFICATION Spec
INVARIANTS TypeOK NoLostWakeup ItemsOwnedOnce
PROPERTY ImplementsFifo
CHECK_DEADLOCK FALSE
