SPECIFICATION Spec
CONSTANTS
    Keys = {k1}
    MaxEvents = 2
    LoopFaults = {}
    MaxUnread = 2
PROPERTIES
    HungUpNotReadable
CHECK_DEADLOCK FALSE
