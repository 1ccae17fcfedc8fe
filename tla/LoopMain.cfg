SPECIFICATION Spec
CONSTANTS
  Creator = main
  Waiters = {main}
  Users = {main}
  count = 1
  MaxDowns = 1
  hello = hello
  stopper = stopper
  Funcs = {hello, stopper}
  Effect <- Effects
  MaxTime = 0
  IoHandle = FALSE
INVARIANTS
  AssertionHolds
  BothCalled
  NamedWhenConstructed
PROPERTY MainEnds
\* The program ends.
CHECK_DEADLOCK FALSE
