\* A drive that delivers everything, and one whose requests fail.
CONSTANTS
  CdcacheSize = 4
  DriveCache = 4
  DiscFirst = 0
  Nsectors = 3
  FirstSector = 2
  LastSector = 18
  Targets <- TargetsDef
  DriftComps = {0, 1}
  Readable <- ReadableDef
  FlakyReads = {FALSE, TRUE}
SPECIFICATION FairSpec
INVARIANTS FreshBlock WindowCoversDrive BlockIsContiguous
PROPERTIES StartsVary CallReturns
