SPECIFICATION Spec
CONSTANTS
  Ups = {u1}
  Downs = {}
  Reaper = reaper
  MaxBoxes = 2
  IdleMin = 15
  UnreachMin = 15
  BirthAges = {"under"}
  CounterCap = 3
  FaultKinds = {"vanish"}
  MaxFaults = 1
INVARIANT ZombieIsThisBox
