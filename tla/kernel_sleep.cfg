SPECIFICATION Spec
CONSTANTS
    NPROC = 4
    NSEM = 0
    QUANTUM = 1
    Prios = {}
    Delays = {3}
    Waits = {1}
    Counts = {}
    Calls = {"create", "resume", "sleepms", "recvtime", "kill"}
    Unmasked = {}
    MaxPrcount = 4
    MaxCount = 0
VIEW LiveState
PROPERTIES
    SleepsExactly
    HaltsWhenDone
CHECK_DEADLOCK FALSE
