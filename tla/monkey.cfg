SPECIFICATION FairSpec
CONSTANTS
    Programs <- MCPrograms
    MaxStack = 16
    JUMP_PLACEHOLDER_BREAK = 9999
    JUMP_PLACEHOLDER_CONTINUE = 9998
INVARIANTS
    ParserAgrees
    JumpsLand
    StackBalanced
    ValueAgrees
PROPERTY Halts
CHECK_DEADLOCK FALSE
