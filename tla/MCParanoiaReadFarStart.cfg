\* A seek beyond the two sectors of zeros that a skip without a root writes.
CONSTANTS
  FRAMEWORDS = 1
  HALF_SECTOR = 0
  MAX_SECTOR_OVERLAP = 2
  MIN_WORDS_OVERLAP = 1
  EPSILON = 1
  JIGGLE_MODULO = 2
  CACHE_LIMIT = 2
  CdcacheSize = 3
  Nsectors = 2
  RetryStep = 2
  MaxRetries = 4
  Modes = {"verify"}
  NeverSkip = FALSE
  Automatic = Automatic
  ForcedOverlap = Automatic
  LastSector = 8
  Starts = {6}
  MaxCursor = 6
  Jitters = {0}
  DriveFails = TRUE
SPECIFICATION FairSpec
PROPERTIES ReadReturns
CHECK_DEADLOCK FALSE
