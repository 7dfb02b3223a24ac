SPECIFICATION FairSpec
CONSTANTS
    MAXTOK = 2
    NPROC = 4
    Chars = {"c", "k", "x", " ", "&", "quote", "dquote"}
    MaxLine = 4
INVARIANTS
    TypeOK
    LexanAgrees
    JobDone
PROPERTY WaitEnds
CHECK_DEADLOCK FALSE
