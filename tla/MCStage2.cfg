CONSTANTS
  MIN_WORDS_RIFT = 2
  MIN_WORDS_SEARCH = 3
  MIN_SILENCE_BOUNDARY = 4
  STRIDE = 2
  WINDOW = 8
  DYNOVERLAP = 5
  MARGIN = 5
  JIGGLE = 2
  SECTOR = 2
  Drives <- AllDrives
  MaxFragments = 3
SPECIFICATION FairSpec
INVARIANTS RunAgrees VisitsLive RootIsDisc RootIsWhole MergeHeals
PROPERTIES RepairsSpareReturned MergeEnds
CHECK_DEADLOCK FALSE
