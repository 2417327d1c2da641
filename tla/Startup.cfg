SPECIFICATION FairSpec
CONSTANTS
    Signals = {"SIGINT", "SIGTERM"}
    Capacity = 3
    MaxRows = 3
    Faults = {"open", "write"}
INVARIANTS
    FilesAreBeginnings
    TornOnlyByFailure
    InterruptLosesNothing
    OrderlyEnd
    NamedWhileWriting
PROPERTIES
    InterruptHeard
CHECK_DEADLOCK FALSE
