SPECIFICATION Spec
CONSTANTS
  Admins = {p1, p2}
  Names = {default, work}
  Default = default
  NoName = NoName
  MaxVols = 1
  FaultKinds = {}
  MaxFaults = 0
INVARIANT SeenBoxesAreWatched
SYMMETRY AdminSymmetry
