SPECIFICATION LiveSpec
CONSTANTS
  PROCESS_SCAN_EVERY = 2
  DISK_LIST_REFRESH_EVERY = 3
  TickMod = 4
  PanicStrategies = {"unwind", "abort"}
  RebuildMayPanic = TRUE
  SerializeMayFail = TRUE
  MaxRefreshes = 4
  MaxPanics = 2
PROPERTIES SlotsNeverRegress NeverSilent StopTerminates
