SPECIFICATION Spec
CONSTANTS
  Workers = {w1, w2}
  Callers = {c1, c2}
  Tasks = {t1, t2, t3}
  NoTask = NoTask
INVARIANTS
  FifoOrder
  NoIdleWorkerWhileTasksWait
  NothingAcceptedLeftBehind
  NobodySleepsThroughStop
PROPERTIES
  AcceptedTasksRun
  StopEndsWorkers
  ImplementsTaskQueue
\* ~ThreadPool terminates the process: the system may really stop.
CHECK_DEADLOCK FALSE
