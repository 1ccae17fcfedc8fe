SPECIFICATION LoopSpec
CONSTANTS
  hello = hello
  stopper = stopper
  later = later
  bad = bad
  Users = {u1}
  Funcs = {hello, bad}
  Effect <- Effects
  MaxTime = 0
  IoHandle = FALSE
INVARIANT QuitWhenOver
CHECK_DEADLOCK FALSE
