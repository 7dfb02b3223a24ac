SPECIFICATION FairSpec
CONSTANTS
    OBUFLEN = 2
    Writers = {"w1", "w2", "w3"}
    Chars = {"x", "nl"}
    Lengths = {1}
    Beyond = {}
INVARIANTS
    SlotsAccounted
    SendsOldest
PROPERTY WriterServed
CHECK_DEADLOCK FALSE
