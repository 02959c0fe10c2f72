SPECIFICATION Spec
CONSTANTS
  Ups = {u1, u2}
  Downs = {}
  Reaper = reaper
  MaxBoxes = 1
  IdleMin = 10
  UnreachMin = 10
  BirthAges = {"under"}
  CounterCap = 2
  FaultKinds = {}
  MaxFaults = 0
INVARIANT FreesOnlyStuckVolume
