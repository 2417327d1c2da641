SPECIFICATION FairSpec
CONSTANTS
    main = main
    other = other
    w1 = w1
    w2 = w2
    Threads <- OneWorker
    Leader <- WorkerLeader
    Tids = {p, q}
    NoTid = none
    MaxWork = 0
    QueueDepth = 1
    Abrupt = {"exit", "exec"}
    Configs = {c1}
    Faults = {}
    Keys = {"signal", "mqueue", "timer"}
    MaxEvents = 10
    LoopFaults = {"wait", "read"}
    MaxReadId = 0
    MaxTicks = 2
PROPERTIES
    InterruptEnds
    SendersServed
    TicksServed
CHECK_DEADLOCK FALSE
