SPECIFICATION Spec
CONSTANTS
    main = main
    other = other
    w1 = w1
    w2 = w2
    Threads <- OneProcess
    Leader <- OneLeader
    Tids = {p, q}
    NoTid = none
    MaxWork = 1
    QueueDepth = 2
    Abrupt = {"signal"}
    Configs = {c1}
    Faults = {}
    Keys = {"signal", "mqueue", "timer"}
    MaxEvents = 10
    LoopFaults = {"read", "receive"}
    MaxReadId = 0
    MaxTicks = 1
SYMMETRY Symmetry
INVARIANTS
    TypeOK
    Monitored
    SystemInOrder
    TailRecorded
    NoBlockingRead
    FinalFlushComplete
CHECK_DEADLOCK FALSE
