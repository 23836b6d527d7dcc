\* Twelve bytes, frames of two, four and six: every way round the end.
CONSTANTS
  RXSTOP_INIT = 11
  Mem = 14
  Lengths = {2, 4, 6}
  MaxUnread = 5
SPECIFICATION Spec
INVARIANTS FramesIntact NoLeak
PROPERTY SendEnds
