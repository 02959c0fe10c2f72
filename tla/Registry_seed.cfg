SPECIFICATION Spec
CONSTANTS
  Admins = {p1}
  Names = {default, work}
  Default = default
  NoName = NoName
  MaxVols = 3
  FaultKinds = {}
  MaxFaults = 0
PROPERTY SeedEditsSurvive
