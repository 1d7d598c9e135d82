\* A sample offset shifts the end of the disc.
CONSTANTS
  Discs <- PlainDisc
  Options <- Shifting
  Samples = 2
  Padding = Padding
  ErrnoKept = {TRUE}
SPECIFICATION Spec
INVARIANT ShiftedEndRead
CHECK_DEADLOCK FALSE
