SPECIFICATION Spec
CONSTANTS
    NPROC = 4
    NSEM = 2
    Prio = {0, 1}
    MaxDelay = 3
VIEW LiveTable
INVARIANTS
    TypeOK
    LinksConsistent
    ReadySorted
    SleepKeysNatural
    NoneDue
PROPERTY ImplementsLists
