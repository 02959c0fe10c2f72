SPECIFICATION Spec
CONSTANTS
  Boxes = {b1}
  Locals = {w1}
  Laptops = {l1}
  Texts = {s0, s1}
  First = s0
  NoFile = NoFile
  MaxPending = 1
  MaxTries = 3
  MaxSec = 1
  MaxSeq = 0
  Faults = {}
  MaxEvents = 5
CHECK_DEADLOCK FALSE
PROPERTY IdStaysFree
