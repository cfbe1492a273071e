CONSTANTS
    Callers = {c1, c2}
    Worker = Worker
    Nobody = Nobody
    CallerOps = {"start", "stop", "destroy"}
    CallbackOps = {"stop", "destroy"}
SPECIFICATION SafeSpec
INVARIANT DestroyNotLost
