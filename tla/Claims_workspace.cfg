SPECIFICATION Spec
CONSTANTS
  Ups = {u1}
  Downs = {d1}
  Reaper = reaper
  MaxBoxes = 1
  IdleMin = 10
  UnreachMin = 10
  BirthAges = {"under"}
  CounterCap = 2
  FaultKinds = {"write"}
  MaxFaults = 1
INVARIANT ReadyHasWorkspace
