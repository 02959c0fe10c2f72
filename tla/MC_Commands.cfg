SPECIFICATION Spec
CONSTANTS
  Lines <- MCLines
  Keys = {"", "x"}
  Names = {"x", "y"}
  NoText = NoText
  Unquoted <- MCUnquoted
  MaxTries = 2
  MaxRuns = 3
  MaxEvents = 3
CHECK_DEADLOCK FALSE
INVARIANTS TypeOK PlaneAgrees NamedOnce OnePerKey PollIsTrue
PROPERTIES LaptopReturns ImplementsBoard
