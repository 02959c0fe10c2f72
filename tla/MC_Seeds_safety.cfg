SPECIFICATION Spec
CONSTANTS
  Boxes = {b1, b2}
  Locals = {w1}
  Laptops = {l1}
  Texts = {s0, s1}
  First = s0
  NoFile = NoFile
  MaxPending = 1
  MaxTries = 2
  MaxSec = 2
  MaxSeq = 1
  Faults = {"crash", "full", "refuse", "lost", "drop", "short"}
  MaxEvents = 4
CHECK_DEADLOCK FALSE
INVARIANTS TypeOK PendingBounded LiveWasChosen ReplacedIsKept
PROPERTY QueueKept
SYMMETRY BoxSymmetry
