SPECIFICATION Spec
CONSTANTS
    NPROC = 3
    NSEM = 0
    QUANTUM = 2
    Prios = {0, 1}
    Delays = {1}
    Waits = {2}
    Counts = {}
    Calls = {"create", "resume", "suspend", "yield", "chprio", "kill",
             "sleepms", "send", "receive", "recvclr", "recvtime"}
    Unmasked = {"receive"}
    MaxPrcount = 4
    MaxCount = 0
VIEW LiveState
INVARIANTS
    StateNamesList
    ReceiveHasMessage
PROPERTY LostOnlyInReceive
CHECK_DEADLOCK FALSE
