SPECIFICATION Spec
CONSTANTS
  Conns = {c1, c2, c3}
  NoConn = NoConn
  Limits <- TwoLimits
  ChannelCap = 1
INVARIANTS
  OnePlace
  AnswersOwnRequest
PROPERTIES
  ConnectionsAccepted
  HandedOverOrLost
  RequestsAnswered
\* All clients may have been served.
CHECK_DEADLOCK FALSE
