SPECIFICATION Spec
CONSTANTS
  Ups = {u1, u2}
  Downs = {}
  Reaper = reaper
  MaxBoxes = 2
  IdleMin = 5
  UnreachMin = 5
  BirthAges = {"unknown"}
  CounterCap = 1
  FaultKinds = {"lost", "ghost", "vanish"}
  MaxFaults = 2
SYMMETRY UpSymmetry
INVARIANT ReadyIsSeeded
PROPERTIES ReadyIsOwnNode ImplementsBox
