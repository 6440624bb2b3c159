SPECIFICATION LiveSpec
CONSTANTS
  BACKOFF_INITIAL = 1000
  BACKOFF_MAX = 30000
  GrowthNum = 17
  GrowthDen = 10
  HugeInterval = TRUE
  MaxVersion = 4
INVARIANTS TypeOK
PROPERTIES FramesInOrder StopIsQuiet DelayNeverShrinks StreamResumes
