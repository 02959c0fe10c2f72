SPECIFICATION FairSpec
CONSTANTS
  Ups = {u1}
  Downs = {d1}
  Reaper = reaper
  MaxBoxes = 1
  IdleMin = 10
  UnreachMin = 10
  BirthAges = {"under"}
  CounterCap = 2
  FaultKinds = {"read", "write", "ssh", "crash"}
  MaxFaults = 1
PROPERTIES CappedBoxReaped NoBoxBillsForever
