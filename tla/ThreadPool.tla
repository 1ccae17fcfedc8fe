----------------------------- MODULE ThreadPool -----------------------------
(***************************************************************************)
(* set/thread_pool/ThreadPool.h: worker threads share a deque of tasks, a  *)
(* stop flag, one mutex and one condition variable.  Callers push tasks    *)
(* and stop the pool.                                                      *)
(*                                                                         *)
(* Every access to `task` and `stoped` is made holding `mut_`, so each     *)
(* critical section is one action.  The notifications are made after the   *)
(* unlock and are actions of their own.  cond_.wait(lock) has no           *)
(* predicate: it gives up the mutex and blocks in one step, and a thread   *)
(* it wakes (notified or spuriously) goes back to the top of the loop.     *)
(***************************************************************************)
EXTENDS Naturals, Sequences, FiniteSets

CONSTANTS Workers,  \* the threads of trds_
          Callers,  \* the threads that use the pool
          Tasks,    \* the std::function objects, each pushed at most once
          NoTask    \* an empty std::function

ASSUME PoolAssumption ==
  /\ IsFiniteSet(Workers) /\ Workers # {}
  /\ IsFiniteSet(Callers)
  /\ NoTask \notin Tasks

VARIABLES
  task,      \* data::task
  stoped,    \* data::stoped
  pc,        \* where each worker is in bind_run
  ts,        \* bind_run's local ts of each worker
  caller,    \* where each caller is in push() or stop()
  process,   \* "running", or "terminated" by std::terminate
  pushed,    \* history: the tasks in the order of their emplace_back
  started,   \* history: the tasks in the order of their pop_front
  late,      \* history: the tasks pushed when stoped was already set
  finished   \* history: the tasks that returned or threw

data == <<task, stoped>>
history == <<pushed, started, late, finished>>
vars == <<data, pc, ts, caller, process, history>>

At(label) == {w \in Workers : pc[w] = label}
Calling(label) == {c \in Callers : caller[c] = label}

\* The constructor: all threads are started and find nothing to do.
Init ==
  /\ task = <<>> /\ stoped = FALSE
  /\ pc = [w \in Workers |-> "top"]
  /\ ts = [w \in Workers |-> NoTask]
  /\ caller = [c \in Callers |-> "idle"]
  /\ process = "running"
  /\ pushed = <<>> /\ started = <<>> /\ late = {} /\ finished = {}

-----------------------------------------------------------------------------
(* The callers' side. *)

\* Seeded fault: push() forgets its notify_one.
push_NoNotify(c, t) ==
  /\ process = "running" /\ caller[c] = "idle"
  /\ \A i \in DOMAIN pushed : pushed[i] # t
  /\ task' = Append(task, t)
  /\ pushed' = Append(pushed, t)
  /\ late' = IF stoped THEN late \cup {t} ELSE late
  /\ UNCHANGED <<stoped, pc, ts, caller, process, started, finished>>

\* push(), the part under the lock.
push(c, t) ==
  /\ process = "running" /\ caller[c] = "idle"
  /\ \A i \in DOMAIN pushed : pushed[i] # t
  /\ task' = Append(task, t)
  /\ pushed' = Append(pushed, t)
  /\ late' = IF stoped THEN late \cup {t} ELSE late
  /\ caller' = [caller EXCEPT ![c] = "notify_one"]
  /\ UNCHANGED <<stoped, pc, ts, process, started, finished>>

\* push(), after the unlock: one waiting worker is woken, if there is one.
notify_one(c) ==
  /\ process = "running" /\ caller[c] = "notify_one"
  /\ caller' = [caller EXCEPT ![c] = "idle"]
  /\ \/ At("waiting") = {} /\ UNCHANGED pc
     \/ \E w \in At("waiting") : pc' = [pc EXCEPT ![w] = "top"]
  /\ UNCHANGED <<data, ts, process, history>>

\* stop(), the part under the lock.
stop(c) ==
  /\ process = "running" /\ caller[c] = "idle"
  /\ stoped' = TRUE
  /\ caller' = [caller EXCEPT ![c] = "notify_all"]
  /\ UNCHANGED <<task, pc, ts, process, history>>

\* Seeded fault: stop() wakes a single worker.
notify_all_One(c) ==
  /\ process = "running" /\ caller[c] = "notify_all"
  /\ caller' = [caller EXCEPT ![c] = "idle"]
  /\ \/ At("waiting") = {} /\ UNCHANGED pc
     \/ \E w \in At("waiting") : pc' = [pc EXCEPT ![w] = "top"]
  /\ UNCHANGED <<data, ts, process, history>>

\* stop(), after the unlock: every waiting worker is woken.
notify_all(c) ==
  /\ process = "running" /\ caller[c] = "notify_all"
  /\ caller' = [caller EXCEPT ![c] = "idle"]
  /\ pc' = [w \in Workers |-> IF pc[w] = "waiting" THEN "top" ELSE pc[w]]
  /\ UNCHANGED <<data, ts, process, history>>

\* ~ThreadPool joins and detaches nothing, so trds_ is destroyed with joinable
\* threads (an exited thread is joinable too) and std::terminate is called.
destroy(c) ==
  /\ process = "running" /\ caller[c] = "idle"
  /\ process' = "terminated"
  /\ UNCHANGED <<data, pc, ts, caller, history>>

-----------------------------------------------------------------------------
(* The workers' side: bind_run. *)

\* Seeded fault: the newest task is taken instead of the oldest.
pop_front_Back(w) ==
  /\ process = "running" /\ pc[w] = "top" /\ task # <<>>
  /\ ts' = [ts EXCEPT ![w] = task[Len(task)]]
  /\ task' = SubSeq(task, 1, Len(task) - 1)
  /\ started' = Append(started, task[Len(task)])
  /\ pc' = [pc EXCEPT ![w] = "running"]
  /\ UNCHANGED <<stoped, caller, process, pushed, late, finished>>

\* A task is there: it is moved out of the deque, and the lock released.
pop_front(w) ==
  /\ process = "running" /\ pc[w] = "top" /\ task # <<>>
  /\ ts' = [ts EXCEPT ![w] = Head(task)]
  /\ task' = Tail(task)
  /\ started' = Append(started, Head(task))
  /\ pc' = [pc EXCEPT ![w] = "running"]
  /\ UNCHANGED <<stoped, caller, process, pushed, late, finished>>

\* Seeded fault: an exception of the task ends the worker.
run_Uncaught(w) ==
  /\ process = "running" /\ pc[w] = "running"
  /\ finished' = finished \cup {ts[w]}
  /\ ts' = [ts EXCEPT ![w] = NoTask]
  /\ \E next \in {"top", "exited"} : pc' = [pc EXCEPT ![w] = next]
  /\ UNCHANGED <<data, caller, process, pushed, started, late>>

\* ts() returns, or throws and is caught: either way the loop goes on.
run(w) ==
  /\ process = "running" /\ pc[w] = "running"
  /\ finished' = finished \cup {ts[w]}
  /\ ts' = [ts EXCEPT ![w] = NoTask]
  /\ pc' = [pc EXCEPT ![w] = "top"]
  /\ UNCHANGED <<data, caller, process, pushed, started, late>>

\* Seeded fault: the loop is `while (!stoped)`, the deque not looked at.
leave_AtOnce(w) ==
  /\ process = "running" /\ pc[w] = "top" /\ stoped
  /\ pc' = [pc EXCEPT ![w] = "exited"]
  /\ UNCHANGED <<data, ts, caller, process, history>>

\* Nothing to do and the pool is stopped.
leave(w) ==
  /\ process = "running" /\ pc[w] = "top" /\ task = <<>> /\ stoped
  /\ pc' = [pc EXCEPT ![w] = "exited"]
  /\ UNCHANGED <<data, ts, caller, process, history>>

\* Seeded fault: the stop flag is not looked at before the wait.
wait_Stoped(w) ==
  /\ process = "running" /\ pc[w] = "top" /\ task = <<>>
  /\ pc' = [pc EXCEPT ![w] = "waiting"]
  /\ UNCHANGED <<data, ts, caller, process, history>>

\* Nothing to do yet: cond_.wait(lock).
wait(w) ==
  /\ process = "running" /\ pc[w] = "top" /\ task = <<>> /\ ~stoped
  /\ pc' = [pc EXCEPT ![w] = "waiting"]
  /\ UNCHANGED <<data, ts, caller, process, history>>

\* std::condition_variable may wake a thread for no reason.
spurious_wakeup(w) ==
  /\ process = "running" /\ pc[w] = "waiting"
  /\ pc' = [pc EXCEPT ![w] = "top"]
  /\ UNCHANGED <<data, ts, caller, process, history>>

bind_run(w) == pop_front(w) \/ run(w) \/ leave(w) \/ wait(w)

Next ==
  \/ \E c \in Callers : \/ \E t \in Tasks : push(c, t)
                        \/ notify_one(c) \/ stop(c) \/ notify_all(c)
                        \/ destroy(c)
  \/ \E w \in Workers : bind_run(w) \/ spurious_wakeup(w)

(* A runnable thread is eventually scheduled, the critical sections are    *)
(* short, and a task that runs comes back; nobody has to call stop(),      *)
(* push() or the destructor, and spurious wake-ups need not happen.        *)
Fairness ==
  /\ \A c \in Callers : WF_vars(notify_one(c)) /\ WF_vars(notify_all(c))
  /\ \A w \in Workers : WF_vars(bind_run(w))

SafeSpec == Init /\ [][Next]_vars
Spec == SafeSpec /\ Fairness

-----------------------------------------------------------------------------
(* Properties. *)

TypeOK ==
  /\ task \in Seq(Tasks) /\ stoped \in BOOLEAN
  /\ pc \in [Workers -> {"top", "running", "waiting", "exited"}]
  /\ ts \in [Workers -> Tasks \cup {NoTask}]
  /\ caller \in [Callers -> {"idle", "notify_one", "notify_all"}]
  /\ process \in {"running", "terminated"}
  /\ pushed \in Seq(Tasks) /\ started \in Seq(Tasks)
  /\ late \in SUBSET Tasks /\ finished \in SUBSET Tasks

\* The deque is a FIFO line: what has been started, followed by what still
\* waits, is exactly what was pushed, in the order of the pushes; so no task
\* is lost, started twice or overtaken.
FifoOrder == pushed = started \o task

\* A task is run once: no two workers hold the same std::function, and none
\* holds one that has already run.
RunsOnce ==
  /\ \A v, w \in Workers : ts[v] = ts[w] /\ ts[v] # NoTask => v = w
  /\ \A w \in Workers : ts[w] \notin finished

\* No lost wake-up (push notifies after it has unlocked, line 40): while a
\* worker sleeps, every queued task has a worker on its way to the deque or a
\* notification that is still to be sent.
NoIdleWorkerWhileTasksWait ==
  At("waiting") # {} =>
    Len(task) <= Cardinality(At("top")) + Cardinality(Calling("notify_one"))

\* "Attent code location" (line 75): the stop flag is looked at only when the
\* deque is empty.  So once a worker has left, whatever is in the deque was
\* pushed after stop(): no task accepted before it is left behind.
NothingAcceptedLeftBehind ==
  At("exited") # {} => stoped /\ \A i \in DOMAIN task : task[i] \in late

\* stop() leaves nobody asleep: a worker still waits after the flag is set
\* only while that stop()'s notify_all is on its way.
NobodySleepsThroughStop ==
  stoped /\ At("waiting") # {} => Calling("notify_all") # {}

\* A task pushed before stop() has run in the end, unless the pool was
\* destroyed first.
AcceptedTasksRun ==
  \A t \in Tasks :
    ((\E i \in DOMAIN pushed : pushed[i] = t) /\ t \notin late)
      ~> (t \in finished \/ process = "terminated")

\* After stop() every worker leaves bind_run, so that a caller could join them.
StopEndsWorkers ==
  stoped ~> (At("exited") = Workers \/ process = "terminated")

\* The pool implements the line of tasks of TaskQueue.
Service == INSTANCE TaskQueue WITH line <- task, held <- ts, ran <- finished
ImplementsTaskQueue == Service!Spec
=============================================================================
