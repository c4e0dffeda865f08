SPECIFICATION Spec
CONSTANTS
  File = {1}
  WatchStart = {1}
  FromEnd = {}
  Tool = {t1}
  Tear = {"ascii"}
  MaxLines = 3
  MaxFaults = 1

PROPERTIES EveryLineHandled
CHECK_DEADLOCK FALSE
