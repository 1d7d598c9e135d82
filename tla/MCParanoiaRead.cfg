\* A session of three sectors, read with and without verification to its end
\* and past it, and sought back and forth in.
CONSTANTS
  FRAMEWORDS = 1
  HALF_SECTOR = 0
  MAX_SECTOR_OVERLAP = 2
  MIN_WORDS_OVERLAP = 1
  EPSILON = 1
  JIGGLE_MODULO = 2
  CACHE_LIMIT = 2
  CdcacheSize = 3
  Nsectors = 2
  RetryStep = 2
  MaxRetries = 4
  Modes = {"verify", "overlap", "disable"}
  NeverSkip = FALSE
  Automatic = Automatic
  ForcedOverlap = Automatic
  LastSector = 2
  Starts = {0, 2}
  MaxCursor = 3
  Jitters = {0, 1}
  DriveFails = TRUE
SPECIFICATION FairSpec
INVARIANTS TypeOK ReturnedProtected CacheBounded
PROPERTIES ReadReturns PaddingAtEnd RootKept
CHECK_DEADLOCK FALSE
