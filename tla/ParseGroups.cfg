SPECIFICATION Spec
CONSTANTS
    MaxLen = 5
INVARIANTS
    ParsesAsGrouped
PROPERTIES
    ParsingEnds
CHECK_DEADLOCK FALSE
