SPECIFICATION CountSpec
CONSTANTS
  count = 2
  Waiters = {a, b, c}
  MaxDowns = 3
INVARIANTS
  LatchHolds
  NoMissedRelease
PROPERTY OpenLatchReleases
\* Every caller may have made its last call.
CHECK_DEADLOCK FALSE
