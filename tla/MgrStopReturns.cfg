CONSTANTS
    Callers = {c1, c2}
    Worker = Worker
    Nobody = Nobody
    CallerOps = {"start", "stop"}
    CallbackOps = {}
SPECIFICATION Spec
PROPERTY StopReturns
