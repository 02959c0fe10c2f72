SPECIFICATION Spec
CONSTANTS
  Lines <- MCLines
  Keys = {"", "x"}
  Names = {"x", "y"}
  NoText = NoText
  Unquoted <- MCUnquoted
  MaxTries = 1
  MaxRuns = 1
  MaxEvents = 1
CHECK_DEADLOCK FALSE
INVARIANT OneTarget
