SPECIFICATION Spec
CONSTANTS
    Threads = {t1, t2}
    Tids = {p, q}
    NoTid = none
    MaxWork = 1
    small = c1
    large = c2
    Configs = {c1, c2}
    Size <- OneAndTwo
    Faults = {}
    FdLimit = 4
    MaxIds = 3
    MaxReadId = 1
SYMMETRY Symmetry
INVARIANTS
    NoDescriptorLeak
    ReaderMemory
    WholeReads
    EventsJoin
PROPERTIES
    RefinesCalls
CHECK_DEADLOCK FALSE
