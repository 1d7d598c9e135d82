\* Two descriptors and two openings: numbers are reused, writes interleave.
CONSTANTS
  Fd = {fd1, fd2}
  NoFd = NoFd
  File = {f1, f2}
  NoFile = NoFile
  OUTBUFSZ = 3
  MaxNum = 2
  MaxBytes = 5
SPECIFICATION Spec
INVARIANTS TypeOK DiskInOrder NothingLost
PROPERTY StreamSpec
CHECK_DEADLOCK FALSE
