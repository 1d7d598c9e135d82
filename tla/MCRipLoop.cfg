\* Seven discs, seventeen command lines; reads skip, fail or succeed, writes too.
CONSTANTS
  Discs <- AllDiscs
  Options <- AllLines
  Samples = 2
  Padding = Padding
  ErrnoKept = {TRUE}
SPECIFICATION FairSpec
INVARIANTS TracksPartitionDisc ReaderInStep FileHoldsTrack SkippedRemoved
PROPERTY RipEnds
CHECK_DEADLOCK FALSE
