\* Runs of five samples and more match, every third sample is searched for; statistics of two.
CONSTANTS
  MIN_WORDS_OVERLAP = 4
  MIN_WORDS_SEARCH = 4
  STRIDE = 3
  TELLING = 3
  POINTS = 2
  OLD_POINTS = 4
  MIN_SECTOR_EPSILON = 2
  MAX_OVERLAP = 12
  Drives <- AllDrives
  Overlaps = {0, 4}
SPECIFICATION Spec
INVARIANTS VerifiedTwice FragmentIsDisc AgreementFound FragmentsInPlace
CHECK_DEADLOCK FALSE
