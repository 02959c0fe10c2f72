SPECIFICATION Spec
CONSTANTS
  Lines <- MCLines
  Keys = {"", "x"}
  Names = {"x", "y"}
  NoText = NoText
  Unquoted <- MCUnquoted
  MaxTries = 3
  MaxRuns = 3
  MaxEvents = 2
CHECK_DEADLOCK FALSE
INVARIANT NoPriorShell
