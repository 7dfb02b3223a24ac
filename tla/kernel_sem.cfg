SPECIFICATION Spec
CONSTANTS
    NPROC = 4
    NSEM = 2
    QUANTUM = 1
    Prios = {}
    Delays = {}
    Waits = {}
    Counts = {0, 2}
    Calls = {"create", "resume", "kill", "semcreate", "wait", "signal",
             "signaln", "semdelete", "semreset"}
    Unmasked = {}
    MaxPrcount = 4
    MaxCount = 2
VIEW LiveState
INVARIANTS
    CountIsWaiters
PROPERTY ServedInOrder
CHECK_DEADLOCK FALSE
