SPECIFICATION Spec
CONSTANTS
  Ups = {u1}
  Downs = {d1}
  Reaper = reaper
  MaxBoxes = 2
  IdleMin = 10
  UnreachMin = 10
  BirthAges = {"under"}
  CounterCap = 2
  FaultKinds = {"write", "ssh", "net", "ghost", "crash"}
  MaxFaults = 1
INVARIANTS TypeOK DeleteAfterDetach CountersBacked ReapEarned
