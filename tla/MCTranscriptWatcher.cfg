SPECIFICATION Spec
CONSTANTS
  File = {1, 2}
  WatchStart = {1, 2}
  FromEnd = {2}
  Tool = {t1}
  Tear = {"ascii", "char"}
  MaxLines = 3
  MaxFaults = 1
INVARIANTS NothingLeftBehind AtMostTwice CallsReported
PROPERTIES FirstInOrder
CHECK_DEADLOCK FALSE
