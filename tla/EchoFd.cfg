SPECIFICATION EchoFdSpec
CONSTANTS
  Devices = {d1, d2}
  NoFile = 6
  ClientMax = 4
  Attempts = 3
  Runs = 2
  MaxConns = 6
INVARIANT SlotsNameDescriptors
PROPERTY ReleasedAfterClient
\* The server may have exited, and nobody starts the client again.
CHECK_DEADLOCK FALSE
