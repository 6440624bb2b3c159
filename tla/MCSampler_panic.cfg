SPECIFICATION Spec
CONSTANTS
  PROCESS_SCAN_EVERY = 2
  DISK_LIST_REFRESH_EVERY = 3
  TickMod = 4
  PanicStrategies = {"abort"}
  RebuildMayPanic = FALSE
  SerializeMayFail = FALSE
  MaxRefreshes = 4
  MaxPanics = 1
PROPERTIES TickPanicIsNoCrash
