SPECIFICATION LoopSpec
CONSTANTS
  hello = hello
  stopper = stopper
  later = later
  bad = bad
  Users = {u1, u2}
  Funcs = {hello, stopper, later}
  Effect <- Effects
  MaxTime = 1
  IoHandle = FALSE
INVARIANTS
  EverySubmissionCounts
  CalledInPushOrder
PROPERTIES
  QuitEndsLoop
  SubmittedIsCalled
CHECK_DEADLOCK FALSE
