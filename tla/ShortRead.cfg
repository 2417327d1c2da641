SPECIFICATION Spec
CONSTANTS
    Threads = {t1}
    Tids = {p}
    NoTid = none
    MaxWork = 1
    small = c1
    large = c2
    Configs = {c1, c2}
    Size <- OneAndTwo
    Faults = {"eof"}
    FdLimit = 3
    MaxIds = 2
    MaxReadId = 1
INVARIANTS
    HeaderOfGroup
CHECK_DEADLOCK FALSE
