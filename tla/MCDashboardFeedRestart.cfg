SPECIFICATION Spec
CONSTANTS
  w15m = w15m
  w24h = w24h
  NoWindow = NoWindow
  NotRead = NotRead
  Window = {w15m, w24h}
  FirstWindow = w15m
  SnapLimit = 1
  PageLimit = 2
  ChannelCap = 1
  OldItems = 1
  MaxItems = 2
  MaxWorkers = 2
  MaxEvents = 0
  MaxRefreshes = 2
INVARIANTS
  LiveEventsArrive
CHECK_DEADLOCK FALSE
