\* The last track of the disc is aborted.
CONSTANTS
  Discs <- PlainDisc
  Options <- LastAborts
  Samples = 2
  Padding = Padding
  ErrnoKept = {TRUE}
SPECIFICATION Spec
INVARIANT CursorInSpan
CHECK_DEADLOCK FALSE
