SPECIFICATION Spec
CONSTANTS
  PROCESS_SCAN_EVERY = 3
  DISK_LIST_REFRESH_EVERY = 5
  TickMod = 8
  PanicStrategies = {"unwind"}
  RebuildMayPanic = FALSE
  SerializeMayFail = FALSE
  MaxRefreshes = 12
  MaxPanics = 2
INVARIANTS TypeOK StateAlwaysRestored SlotsAgree ProcessesFresh MountsFresh
PROPERTIES NetRateIsOneTick RatesTile MonotoneReads StopIsFinal CellSpec
