SPECIFICATION ForkSpec
CONSTANTS
    main = main
    other = other
    w1 = w1
    w2 = w2
    Threads <- TwoProcesses
    Leader <- TwoLeaders
    Tids = {p, q}
    NoTid = none
    MaxWork = 0
    QueueDepth = 2
    Abrupt = {"exit", "cancel", "mainexit"}
    Configs = {c1}
    Faults = {}
    Keys = {"signal", "mqueue"}
    MaxEvents = 10
    LoopFaults = {}
    MaxReadId = 0
    MaxTicks = 0
    MaxForks = 2
SYMMETRY Symmetry
INVARIANTS
    MonitoredBarForks
    NothingLeftOpen
CHECK_DEADLOCK FALSE
