CONSTANTS
    Callers = {c1, c2}
    Worker = Worker
    Nobody = Nobody
    CallerOps = {"start", "stop", "send", "destroy"}
    CallbackOps = {"start", "stop", "send", "is_connected", "destroy"}
SPECIFICATION Spec
INVARIANTS TransportPinned NoUseAfterFree StopCompleteMeansQuiescent
PROPERTIES WorkerReapedOnce DestroyCompletes
