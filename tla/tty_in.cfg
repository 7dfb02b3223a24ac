SPECIFICATION Spec
CONSTANTS
    IBUFLEN = 3
    Keys = {"a", "ctl", "nl", "bs", "kill", "eof"}
    Readers = {"r1"}
    Peekers = {"p1"}
    Counts = {0, 2}
    Modes = {"raw", "cbreak", "cooked"}
VIEW LiveState
INVARIANTS
    RingAgrees
    ScreenShowsLine
PROPERTY ImplementsLineInput
CHECK_DEADLOCK FALSE
