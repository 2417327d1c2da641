SPECIFICATION FairSpec
CONSTANTS
    Keys = {k1, k2, k3}
    MaxEvents = 2
    LoopFaults = {"add", "wait", "delete"}
    MaxUnread = 2
INVARIANTS
    NoWrongSlabIndex
PROPERTIES
    NeverWaitsOnNothing
    HungUpHandledOnce
    FullPipeServed
    HangupEndsLoop
CHECK_DEADLOCK FALSE
