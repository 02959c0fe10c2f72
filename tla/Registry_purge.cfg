SPECIFICATION Spec
CONSTANTS
  Admins = {p1}
  Names = {default, work}
  Default = default
  NoName = NoName
  MaxVols = 2
  FaultKinds = {"lost"}
  MaxFaults = 1
PROPERTY PurgeHitsOneProfile
