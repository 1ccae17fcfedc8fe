SPECIFICATION EchoSpec
CONSTANTS
  Clients = {c1, c2}
  Setups <- TwoSetups
  MaxConns = 2
INVARIANTS
  NothingMissing
  EchoesInOrder

  
\* All clients may have left.
CHECK_DEADLOCK FALSE
