SPECIFICATION Spec
CONSTANTS
    Second = 4
    MaxFrequency = 9
    MaxSpec = 4
    Delays = {0, 1, 3, 5}
    MaxTime = 9
    MaxSteps = 2
INVARIANTS
    ReadsAddUp
    NeverRunsUnsampled
