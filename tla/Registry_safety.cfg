SPECIFICATION Spec
CONSTANTS
  Admins = {p1}
  Names = {default, work}
  Default = default
  NoName = NoName
  MaxVols = 3
  FaultKinds = {"read", "write", "lost", "crash", "stale"}
  MaxFaults = 1
INVARIANTS TypeOK VolumesMatchNames WorkspaceIsOwn SeenBoxesAreWatched CurrentListed
PROPERTY WholePurgeHitsOneProfile
