SPECIFICATION FairSpec
CONSTANTS
    HALF = 3
    Elapsed = {0, 1}
    Procs = {"null", "p", "q"}
    Null = "null"
    Length = 2
    Interval = 1
    Depth = 6
    Beyond = {}
INVARIANTS
    OwnStack
    Undisturbed
PROPERTIES
    ImplementsTicker
    TickComes
CHECK_DEADLOCK FALSE
