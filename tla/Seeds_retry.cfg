SPECIFICATION Spec
CONSTANTS
  Boxes = {}
  Locals = {}
  Laptops = {l1}
  Texts = {s0, s1}
  First = s0
  NoFile = NoFile
  MaxPending = 1
  MaxTries = 3
  MaxSec = 1
  MaxSeq = 0
  Faults = {"lost"}
  MaxEvents = 2
CHECK_DEADLOCK FALSE
INVARIANT NoSeedIsLost
