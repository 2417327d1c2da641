SPECIFICATION BoundedSpec
CONSTANTS
    Threads = {t1, t2}
    Tids = {p, q}
    NoTid = none
    MaxWork = 1
    Configs = {c1}
    Faults = {"open", "read"}
    MaxIds = 3
    MaxReadId = 1
SYMMETRY Symmetry
INVARIANTS
    OneCounterPerThread
    EventRowsJoin
    ReadIdsOrderCounts
    DescribedTid
PROPERTIES
    ReadBeforeClose
CHECK_DEADLOCK FALSE
