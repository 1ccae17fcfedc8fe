SPECIFICATION BufSpec
CONSTANTS
  Lengths = {12}
  MaxAppend = 8
  MaxLength = 40
  SizeMod = 1048576
  Caller = "any"
INVARIANT PeekReturnsStream
