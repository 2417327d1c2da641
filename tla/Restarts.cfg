SPECIFICATION Spec
CONSTANTS
    Collectors = {c1, c2, c3}
    Programs = {p1, p2, p3}
    DesiredMaxMsg = 2
    MsgMax = 1
    Together = FALSE
    Kills = TRUE
SYMMETRY Symmetry
INVARIANTS
    NamedWhileUp
    NamedQueueHasOwner
    KilledQueueAdopted
PROPERTIES
    StartsEmpty
CHECK_DEADLOCK FALSE
