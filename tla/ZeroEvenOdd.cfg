SPECIFICATION ZeoSpec
CONSTANT n = 40
INVARIANTS
  InOrder
PROPERTY
  AllPrinted
\* The threads end.
CHECK_DEADLOCK FALSE
