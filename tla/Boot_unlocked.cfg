CONSTANTS
    r1 = r1
    c1 = c1
    p1 = p1
    Mise = mise
    Repos = {r1}
    Cmds = {mise, c1}
    Paths = {p1}
    MaxPins = 2
    Strict = {1}
    MaxFaults = 3
    Seeds <- McSeeds
SPECIFICATION Spec
INVARIANT PinsAreFrozen
