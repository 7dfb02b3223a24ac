SPECIFICATION Spec
CONSTANTS
    NPROC = 3
    NSEM = 0
    QUANTUM = 2
    Prios = {}
    Delays = {}
    Waits = {}
    Counts = {}
    Calls = {"create", "resume", "receive", "send"}
    Unmasked = {"receive"}
    MaxPrcount = 4
    MaxCount = 0
INVARIANT NoneWaitsWithMessage
