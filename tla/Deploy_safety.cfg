CONSTANTS
    MaxV = 2
    MaxTries = 3
    MaxFaults = 1
    Faults = {"unreachable", "cut", "lost", "failed", "killed"}
SPECIFICATION Spec
INVARIANTS
    TypeOK
    OldTreeKept
    KnobsSurvive
PROPERTIES
    DoneIsOneRelease
    InitLeavesWholePlane
    Heals
