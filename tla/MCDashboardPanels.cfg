SPECIFICATION Spec
CONSTANTS
  p1 = p1
  p2 = p2
  Page = {p1, p2}
  Reading = {"search", "timeline"}
  MaxClicks = 4
  MaxChanges = 2
  MaxFaults = 1
SYMMETRY AlikePages
INVARIANTS
  SerialAnswersExact
  ErrorTruthful
  SavesKept
PROPERTIES
  BrokenStays
CHECK_DEADLOCK FALSE
