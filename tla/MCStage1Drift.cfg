\* The drive's idea of where it is moves while blocks are compared.
CONSTANTS
  MIN_WORDS_OVERLAP = 4
  MIN_WORDS_SEARCH = 4
  STRIDE = 3
  TELLING = 3
  POINTS = 2
  OLD_POINTS = 4
  MIN_SECTOR_EPSILON = 2
  MAX_OVERLAP = 12
  Drives <- OnlySliding
  Overlaps = {0}
SPECIFICATION Spec
INVARIANTS VerifiedTwiceAlways
CHECK_DEADLOCK FALSE
