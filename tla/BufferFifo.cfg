SPECIFICATION BufSpec
CONSTANTS
  Lengths = {5, 8, 9, 12, 16, 20}
  MaxAppend = 10
  MaxLength = 40
  SizeMod = 1048576
  Caller = "bounded"
INVARIANTS
  NoOverrun
  PeekReturnsStream
