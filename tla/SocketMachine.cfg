SPECIFICATION Spec
CONSTANTS
  Programs = {"main2", "main3", "api", "sigurg", "time", "unix", "poll", "async"}
  Clients = {c1, c2, c3}
  Own = c1
  Guests = {c2}
  Server = s
  Children = {f1, f2}
  Buffer = 3
INVARIANTS
  
  FailsOneWriteLater
  
  UrgentByteRead
  OneAnswerBeforeEnd
  OneNamedClient
  ConnectedOrClosed
 
CHECK_DEADLOCK FALSE
