SPECIFICATION LiveSpec
CONSTANTS
    NPROC = 3
    NSEM = 0
    QUANTUM = 2
    Prios = {}
    Delays = {2}
    Waits = {1}
    Counts = {}
    Calls = {"create", "resume", "exit", "kill", "sleepms", "receive", "recvtime"}
    Unmasked = {}
    MaxPrcount = 4
    MaxCount = 0
PROPERTIES
    ReadyRuns
    SleepEnds
CHECK_DEADLOCK FALSE
