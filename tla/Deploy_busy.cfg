CONSTANTS
    MaxV = 2
    MaxTries = 3
    MaxFaults = 0
    Faults = {}
SPECIFICATION Spec
INVARIANT LaptopUpgradeWorks
