-------------------------- MODULE Utilities_proofs --------------------------
(***************************************************************************)
(* The parts that stand alone: the thread pool of set/thread_pool for any  *)
(* number of workers, callers and tasks, the printed order of              *)
(* set/atomic/main1.cpp for every n, and buffer.h as a queue for every     *)
(* length, every size of an append and the real width of size_t, with the  *)
(* caller "bounded".                                                       *)
(***************************************************************************)
EXTENDS ThreadPool, ZeroEvenOdd, CirculationBuffer, SequenceTheorems, FiniteSetTheorems, TLAPS

-----------------------------------------------------------------------------
(* The thread pool.                                                        *)

(* TypeOK is not inductive alone: `finished` stays a set of tasks because  *)
(* a running worker really holds one.                                      *)
TypeInv ==
  TypeOK /\ \A w \in Workers : pc[w] = "running" <=> ts[w] # NoTask

LEMMA TypeInvInit == Init => TypeInv
<1> SUFFICES ASSUME Init PROVE TypeInv
  OBVIOUS
<1>1. stoped \in BOOLEAN
  BY Zenon DEF Init
<1>2. QED
  BY <1>1 DEF Init, TypeInv, TypeOK

LEMMA TypeInvStep == TypeInv /\ [Next]_vars => TypeInv'
<1> SUFFICES ASSUME TypeInv, [Next]_vars PROVE TypeInv'
  OBVIOUS
<1> USE PoolAssumption DEF TypeInv, TypeOK
<1>1. ASSUME NEW c \in Callers, NEW t \in Tasks, push(c, t) PROVE TypeInv'
  BY <1>1 DEF push
<1>2. ASSUME NEW c \in Callers, notify_one(c) PROVE TypeInv'
  BY <1>2, Zenon DEF notify_one, At, data, history
<1>3. ASSUME NEW c \in Callers, stop(c) PROVE TypeInv'
  BY <1>3 DEF stop, history
<1>4. ASSUME NEW c \in Callers, notify_all(c) PROVE TypeInv'
  BY <1>4 DEF notify_all, data, history
<1>5. ASSUME NEW c \in Callers, destroy(c) PROVE TypeInv'
  BY <1>5 DEF destroy, data, history
<1>6. ASSUME NEW w \in Workers, pop_front(w) PROVE TypeInv'
  <2>1. Head(task) \in Tasks /\ Tail(task) \in Seq(Tasks)
    BY <1>6, HeadTailProperties DEF pop_front
  <2>2. QED
    BY <1>6, <2>1 DEF pop_front
<1>7. ASSUME NEW w \in Workers, run(w) PROVE TypeInv'
  BY <1>7 DEF run, data
<1>8. ASSUME NEW w \in Workers, leave(w) PROVE TypeInv'
  BY <1>8 DEF leave, data, history
<1>9. ASSUME NEW w \in Workers, wait(w) PROVE TypeInv'
  BY <1>9 DEF wait, data, history
<1>10. ASSUME NEW w \in Workers, spurious_wakeup(w) PROVE TypeInv'
  BY <1>10 DEF spurious_wakeup, data, history
<1>11. CASE UNCHANGED vars
  BY <1>11 DEF vars, data, history
<1>12. QED
  BY <1>1, <1>2, <1>3, <1>4, <1>5, <1>6, <1>7, <1>8, <1>9, <1>10, <1>11
     DEF Next, bind_run

LEMMA TypeInvariant == SafeSpec => []TypeInv
  BY TypeInvInit, TypeInvStep, PTL DEF SafeSpec

(* Type correctness: every operation of the pool keeps its state in range. *)
THEOREM TypeCorrect == SafeSpec => []TypeOK
<1>1. TypeInv => TypeOK
  BY DEF TypeInv
<1>2. QED
  BY <1>1, TypeInvariant, PTL

-----------------------------------------------------------------------------
(* The deque is first in, first out: push appends at the back of both      *)
(* sequences, pop_front moves the front task from one to the other.        *)
LEMMA FifoStep == TypeInv /\ FifoOrder /\ [Next]_vars => FifoOrder'
<1> SUFFICES ASSUME TypeInv, FifoOrder, [Next]_vars PROVE FifoOrder'
  OBVIOUS
<1> USE DEF TypeInv, TypeOK, FifoOrder
<1>1. ASSUME NEW c \in Callers, NEW t \in Tasks, push(c, t) PROVE FifoOrder'
  <2>1. Append(started \o task, t) = started \o Append(task, t)
    <3>1. <<t>> \in Seq(Tasks) /\ started \o task \in Seq(Tasks)
      BY ConcatProperties
    <3>2. QED
      BY <3>1, ConcatAssociative, AppendIsConcat
  <2>2. QED
    BY <1>1, <2>1 DEF push
<1>2. ASSUME NEW w \in Workers, pop_front(w) PROVE FifoOrder'
  <2>1. Head(task) \in Tasks /\ Tail(task) \in Seq(Tasks)
    BY <1>2, HeadTailProperties DEF pop_front
  <2>2. task = <<Head(task)>> \o Tail(task)
    BY <1>2, <2>1 DEF pop_front
  <2>3. <<Head(task)>> \in Seq(Tasks)
    BY <2>1
  <2>4. started \o task = (started \o <<Head(task)>>) \o Tail(task)
    <3>1. started \o (<<Head(task)>> \o Tail(task))
            = (started \o <<Head(task)>>) \o Tail(task)
      BY <2>1, <2>3, ConcatAssociative
    <3> QED BY <2>2, <3>1, Zenon
  <2>5. Append(started, Head(task)) = started \o <<Head(task)>>
    BY <2>1, AppendIsConcat
  <2>6. QED
    BY <1>2, <2>4, <2>5, SMTT(30) DEF pop_front
<1>3. CASE UNCHANGED <<task, pushed, started>>
  BY <1>3
<1>4. QED
  BY <1>1, <1>2, <1>3, SMTT(30)
     DEF Next, bind_run, notify_one, stop, notify_all, destroy, run, leave,
         wait, spurious_wakeup, vars, data, history

(* No task is lost, duplicated or overtaken in the deque (FifoOrder).      *)
THEOREM Fifo == SafeSpec => []FifoOrder
<1>1. Init => FifoOrder
  BY DEF Init, FifoOrder
<1>2. QED
  BY <1>1, TypeInvariant, FifoStep, PTL DEF SafeSpec

-----------------------------------------------------------------------------
(* Counting threads: what one thread's move does to At and Calling.        *)
LEMMA Finiteness ==
  ASSUME TypeOK, NEW label
  PROVE  /\ IsFiniteSet(At(label)) /\ IsFiniteSet(Calling(label))
         /\ Cardinality(At(label)) \in Nat
         /\ Cardinality(Calling(label)) \in Nat
<1>1. At(label) \in SUBSET Workers /\ Calling(label) \in SUBSET Callers
  BY DEF At, Calling
<1>2. IsFiniteSet(At(label)) /\ IsFiniteSet(Calling(label))
  BY <1>1, FS_Subset, PoolAssumption
<1>3. QED
  BY <1>2, FS_CardinalityType

LEMMA NoIdleInit == Init => NoIdleWorkerWhileTasksWait
  BY DEF Init, NoIdleWorkerWhileTasksWait, At

(* A push adds one task and one pending notification; a notification turns *)
(* a sleeping worker into one on its way; taking a task uses up both a     *)
(* task and a worker on its way; going to sleep needs an empty deque.      *)
LEMMA NoIdleStep ==
  TypeInv /\ NoIdleWorkerWhileTasksWait /\ [Next]_vars
    => NoIdleWorkerWhileTasksWait'
<1> SUFFICES ASSUME TypeInv, NoIdleWorkerWhileTasksWait, [Next]_vars,
                    At("waiting")' # {}
             PROVE  Len(task') <= Cardinality(At("top")')
                                    + Cardinality(Calling("notify_one")')
  BY DEF NoIdleWorkerWhileTasksWait
<1> DEFINE T == At("top")
           C == Calling("notify_one")
<1> USE PoolAssumption DEF TypeInv, TypeOK
<1>0. /\ IsFiniteSet(T) /\ IsFiniteSet(C)
      /\ Cardinality(T) \in Nat /\ Cardinality(C) \in Nat
  BY Finiteness DEF TypeInv
<1>1. At("waiting") # {} => Len(task) <= Cardinality(T) + Cardinality(C)
  BY DEF NoIdleWorkerWhileTasksWait
<1>2. ASSUME NEW c \in Callers, NEW t \in Tasks, push(c, t)
      PROVE  Len(task') <= Cardinality(T') + Cardinality(C')
  <2>1. T' = T /\ At("waiting")' = At("waiting") /\ C' = C \cup {c} /\ c \notin C
    BY <1>2 DEF push, At, Calling
  <2>2. Cardinality(C') = Cardinality(C) + 1
    BY <1>0, <2>1, FS_AddElement, SMTT(30)
  <2>3. Len(task') = Len(task) + 1
    BY <1>2 DEF push
  <2>4. QED
    BY <1>0, <1>1, <2>1, <2>2, <2>3
<1>3. ASSUME NEW c \in Callers, notify_one(c)
      PROVE  Len(task') <= Cardinality(T') + Cardinality(C')
  <2>1. C' = C \ {c} /\ c \in C /\ task' = task
    BY <1>3 DEF notify_one, Calling, data
  <2>2. Cardinality(C') = Cardinality(C) - 1
    BY <1>0, <2>1, FS_RemoveElement, ZenonT(60)
  <2>3. CASE At("waiting") = {} /\ UNCHANGED pc
    BY <2>3 DEF At
  <2>4. ASSUME NEW w \in At("waiting"), pc' = [pc EXCEPT ![w] = "top"]
        PROVE  Len(task') <= Cardinality(T') + Cardinality(C')
    <3>1. T' = T \cup {w} /\ w \notin T
      BY <2>4 DEF At
    <3>2. Cardinality(T') = Cardinality(T) + 1
      BY <1>0, <3>1, FS_AddElement, SMTT(30)
    <3>3. QED
      BY <1>0, <1>1, <2>1, <2>2, <2>4, <3>2
  <2>5. QED
    BY <1>3, <2>3, <2>4 DEF notify_one
<1>4. ASSUME NEW c \in Callers, stop(c)
      PROVE  Len(task') <= Cardinality(T') + Cardinality(C')
  <2>1. T' = T /\ At("waiting")' = At("waiting") /\ task' = task /\ C' = C
    BY <1>4 DEF stop, At, Calling
  <2>2. QED
    BY <1>1, <2>1
<1>5. ASSUME NEW c \in Callers, notify_all(c) PROVE FALSE
  BY <1>5 DEF notify_all, At
<1>6. ASSUME NEW w \in Workers, pop_front(w)
      PROVE  Len(task') <= Cardinality(T') + Cardinality(C')
  <2>1. /\ T' = T \ {w} /\ w \in T /\ At("waiting")' = At("waiting")
        /\ C' = C
    BY <1>6 DEF pop_front, At, Calling
  <2>2. Cardinality(T') = Cardinality(T) - 1
    <3>1. Cardinality(T \ {w}) = Cardinality(T) - 1
      BY <1>0, <2>1, FS_RemoveElement, ZenonT(60)
    <3>2. Cardinality(T') = Cardinality(T \ {w})
      BY <2>1, Zenon
    <3>3. QED
      BY <3>1, <3>2
  <2>3. Len(task') = Len(task) - 1 /\ Len(task) \in Nat
    BY <1>6, HeadTailProperties DEF pop_front
  <2>4. QED
    BY <1>0, <1>1, <2>1, <2>2, <2>3
<1>7. ASSUME NEW w \in Workers, run(w) \/ spurious_wakeup(w)
      PROVE  Len(task') <= Cardinality(T') + Cardinality(C')
  <2>1. /\ T' = T \cup {w} /\ w \notin T /\ C' = C /\ task' = task
        /\ At("waiting")' \subseteq At("waiting")
    BY <1>7 DEF run, spurious_wakeup, At, Calling, data
  <2>2. Cardinality(T') = Cardinality(T) + 1
    BY <1>0, <2>1, FS_AddElement, SMTT(30)
  <2>3. QED
    BY <1>0, <1>1, <2>1, <2>2
<1>8. ASSUME NEW w \in Workers, leave(w) \/ wait(w)
      PROVE  Len(task') <= Cardinality(T') + Cardinality(C')
  <2>1. T' = T \ {w} /\ C' = C /\ task' = <<>>
    BY <1>8 DEF leave, wait, At, Calling, data
  <2>2. Cardinality(T') \in Nat
    BY <1>0, <2>1, FS_RemoveElement, FS_CardinalityType, Zenon
  <2>3. QED
    BY <1>0, <2>1, <2>2
<1>9. CASE UNCHANGED <<task, pc, caller>>
  BY <1>1, <1>9 DEF At, Calling
<1>10. QED
  BY <1>2, <1>3, <1>4, <1>5, <1>6, <1>7, <1>8, <1>9
     DEF Next, bind_run, destroy, vars, data

(* No wake-up is lost although push() notifies outside the lock: while a   *)
(* worker sleeps there is a worker or a notification under way for every   *)
(* queued task, whatever the number of threads.                            *)
THEOREM NoLostWakeup == SafeSpec => []NoIdleWorkerWhileTasksWait
  BY TypeInvariant, NoIdleInit, NoIdleStep, PTL DEF SafeSpec

-----------------------------------------------------------------------------
(* Stopping. *)

LEMMA LeftBehindStep ==
  TypeInv /\ NothingAcceptedLeftBehind /\ [Next]_vars
    => NothingAcceptedLeftBehind'
<1> SUFFICES ASSUME TypeInv, NothingAcceptedLeftBehind, [Next]_vars,
                    At("exited")' # {}
             PROVE  stoped' /\ \A k \in DOMAIN task' : task'[k] \in late'
  BY DEF NothingAcceptedLeftBehind
<1> DEFINE Goal == stoped' /\ \A k \in DOMAIN task' : task'[k] \in late'
<1> USE DEF TypeInv, TypeOK
<1>0. At("exited") # {} => stoped /\ \A k \in DOMAIN task : task[k] \in late
  BY DEF NothingAcceptedLeftBehind
<1>1. ASSUME NEW c \in Callers, NEW t \in Tasks, push(c, t) PROVE Goal
  <2>1. At("exited") # {}
    BY <1>1 DEF push, At
  <2>2. stoped' /\ late' = late \cup {t}
    BY <1>0, <1>1, <2>1 DEF push
  <2>3. ASSUME NEW k \in DOMAIN task' PROVE task'[k] = t \/ task'[k] \in late
    <3>1. task' = Append(task, t) /\ \A j \in DOMAIN task : task[j] \in late
      BY <1>0, <1>1, <2>1 DEF push
    <3>2. QED
      BY <2>3, <3>1
  <2>4. QED
    BY <2>2, <2>3
<1>2. ASSUME NEW w \in Workers, pop_front(w) PROVE Goal
  <2>1. At("exited") # {}
    BY <1>2 DEF pop_front, At
  <2>2. stoped' /\ late' = late /\ \A j \in DOMAIN task : task[j] \in late
    BY <1>0, <1>2, <2>1 DEF pop_front
  <2>3. \A k \in DOMAIN task' : task'[k] \in late
    BY <1>2, <2>2, HeadTailProperties DEF pop_front
  <2>4. QED
    BY <2>2, <2>3
<1>3. ASSUME NEW w \in Workers, leave(w) PROVE Goal
  BY <1>3 DEF leave, data
<1>4. ASSUME NEW c \in Callers, stop(c) PROVE Goal
  <2>1. At("exited") # {}
    BY <1>4 DEF stop, At
  <2>2. QED
    BY <1>0, <1>4, <2>1 DEF stop, history
<1>5. ASSUME UNCHANGED <<task, stoped, late>>, At("exited")' \subseteq At("exited")
      PROVE  Goal
  BY <1>0, <1>5
<1>6. ASSUME NEW c \in Callers, notify_one(c) \/ notify_all(c) \/ destroy(c)
      PROVE  Goal
  <2>1. At("exited")' \subseteq At("exited")
    BY <1>6 DEF notify_one, notify_all, destroy, At
  <2>2. QED
    BY <1>5, <1>6, <2>1 DEF notify_one, notify_all, destroy, data, history
<1>7. ASSUME NEW w \in Workers, run(w) \/ wait(w) \/ spurious_wakeup(w)
      PROVE  Goal
  <2>1. At("exited")' \subseteq At("exited")
    BY <1>7 DEF run, wait, spurious_wakeup, At
  <2>2. QED
    BY <1>5, <1>7, <2>1 DEF run, wait, spurious_wakeup, data, history
<1>8. CASE UNCHANGED vars
  <2>1. At("exited")' \subseteq At("exited")
    BY <1>8 DEF vars, At
  <2>2. QED
    BY <1>5, <1>8, <2>1 DEF vars, data, history
<1>9. QED
  BY <1>1, <1>2, <1>3, <1>4, <1>6, <1>7, <1>8 DEF Next, bind_run

(* The order of the two tests in bind_run (deque first, stop flag second)  *)
(* keeps every task accepted before stop() from being abandoned.           *)
THEOREM StopAbandonsNothing == SafeSpec => []NothingAcceptedLeftBehind
<1>1. Init => NothingAcceptedLeftBehind
  BY DEF Init, NothingAcceptedLeftBehind, At
<1>2. QED
  BY <1>1, TypeInvariant, LeftBehindStep, PTL DEF SafeSpec

(* stop() sets the flag under the lock and only then notifies, and no      *)
(* worker goes to sleep with the flag set: nobody sleeps through a stop.   *)
THEOREM StopWakesAll == SafeSpec => []NobodySleepsThroughStop
<1>1. Init => NobodySleepsThroughStop
  BY DEF Init, NobodySleepsThroughStop, At
<1>2. TypeInv /\ NobodySleepsThroughStop /\ [Next]_vars
        => NobodySleepsThroughStop'
  <2> SUFFICES ASSUME TypeInv, NobodySleepsThroughStop, [Next]_vars,
                      stoped', At("waiting")' # {}
               PROVE  Calling("notify_all")' # {}
    BY DEF NobodySleepsThroughStop
  <2> USE DEF TypeInv, TypeOK, NobodySleepsThroughStop, At, Calling
  <2>1. ASSUME NEW c \in Callers, NEW t \in Tasks, push(c, t)
        PROVE  Calling("notify_all")' # {}
    BY <2>1 DEF push
  <2>2. ASSUME NEW c \in Callers, notify_one(c)
        PROVE  Calling("notify_all")' # {}
    BY <2>2 DEF notify_one, data
  <2>3. ASSUME NEW c \in Callers, stop(c) PROVE Calling("notify_all")' # {}
    BY <2>3 DEF stop
  <2>4. ASSUME NEW c \in Callers, notify_all(c) PROVE FALSE
    BY <2>4 DEF notify_all
  <2>5. ASSUME NEW w \in Workers, bind_run(w) \/ spurious_wakeup(w)
        PROVE  Calling("notify_all")' # {}
    BY <2>5, ZenonT(30) DEF bind_run, pop_front, run, leave, wait, spurious_wakeup, data
  <2>6. CASE UNCHANGED <<pc, caller, stoped>>
    BY <2>6
  <2>7. QED
    BY <2>1, <2>2, <2>3, <2>4, <2>5, <2>6, Zenon DEF Next, destroy, vars, data
<1>3. QED
  BY <1>1, <1>2, TypeInvariant, PTL DEF SafeSpec

-----------------------------------------------------------------------------
(* Every task runs once, and the refinement of TaskQueue. *)

\* What RunsOnce and the refinement rest on: pushes are distinct, a worker
\* holds a task exactly while it runs it, and only started tasks are held or
\* finished.
Ownership ==
  /\ \A k, j \in DOMAIN pushed : pushed[k] = pushed[j] => k = j
  /\ \A w \in Workers : pc[w] = "running" <=> ts[w] # NoTask
  /\ \A w \in Workers :
       ts[w] # NoTask => \E k \in DOMAIN started : started[k] = ts[w]
  /\ \A t \in finished : \E k \in DOMAIN started : started[k] = t

OnceInv == TypeInv /\ FifoOrder /\ Ownership /\ RunsOnce

(* The task at the front of the deque has never been started.              *)
LEMMA FreshHead ==
  ASSUME OnceInv, task # <<>>
  PROVE  /\ Head(task) \in Tasks
         /\ \A k \in DOMAIN started : started[k] # Head(task)
<1> USE DEF OnceInv, TypeInv, TypeOK, FifoOrder
<1>1. Head(task) \in Tasks /\ Head(task) = task[1] /\ Len(task) >= 1
  BY HeadTailProperties, EmptySeq
<1>2. ASSUME NEW k \in DOMAIN started, started[k] = Head(task) PROVE FALSE
  <2> DEFINE m == Len(started) + 1
  <2>1. /\ k \in 1 .. Len(started) /\ m \in 1 .. Len(started) + Len(task)
        /\ k \in 1 .. Len(started) + Len(task)
    BY <1>1
  <2>2. pushed[k] = started[k] /\ pushed[m] = task[1] /\ DOMAIN pushed = 1 .. Len(started) + Len(task)
    BY <2>1, ConcatProperties
  <2>3. k = m
    BY <1>1, <1>2, <2>1, <2>2 DEF Ownership
  <2>4. QED
    BY <2>1, <2>3
<1>3. QED
  BY <1>1, <1>2

LEMMA OnceStep ==
  OnceInv /\ [Next]_vars => Ownership' /\ RunsOnce'
<1> SUFFICES ASSUME OnceInv, [Next]_vars PROVE Ownership' /\ RunsOnce'
  OBVIOUS
<1> USE PoolAssumption DEF OnceInv, TypeInv, TypeOK
<1>1. ASSUME NEW c \in Callers, NEW t \in Tasks, push(c, t)
      PROVE  Ownership' /\ RunsOnce'
  <2>1. \A k, j \in DOMAIN pushed' : pushed'[k] = pushed'[j] => k = j
    BY <1>1, AppendProperties DEF push, Ownership
  <2>2. QED
    BY <1>1, <2>1 DEF push, Ownership, RunsOnce
<1>2. ASSUME NEW w \in Workers, pop_front(w) PROVE Ownership' /\ RunsOnce'
  <2> DEFINE h == Head(task)
  <2>1. h \in Tasks /\ \A k \in DOMAIN started : started[k] # h
    BY <1>2, FreshHead DEF pop_front
  <2>2. /\ started' \in Seq(Tasks)
        /\ DOMAIN started' = 1 .. Len(started) + 1
        /\ started'[Len(started) + 1] = h
        /\ \A k \in DOMAIN started : k \in DOMAIN started' /\ started'[k] = started[k]
    BY <1>2, <2>1, AppendProperties DEF pop_front
  <2>3. /\ ts' = [ts EXCEPT ![w] = h] /\ pc' = [pc EXCEPT ![w] = "running"]
        /\ UNCHANGED <<pushed, finished>>
    BY <1>2 DEF pop_front
  <2>4. h # NoTask /\ h \notin finished /\ \A v \in Workers : ts[v] # h
    BY <2>1 DEF Ownership
  <2>5. Len(started) + 1 \in DOMAIN started'
    BY <2>2
  <2>6. Ownership'
    BY <2>2, <2>3, <2>4, <2>5 DEF Ownership
  <2>7. RunsOnce'
    BY <2>3, <2>4 DEF RunsOnce
  <2>8. QED
    BY <2>6, <2>7
<1>3. ASSUME NEW w \in Workers, run(w) PROVE Ownership' /\ RunsOnce'
  BY <1>3 DEF run, Ownership, RunsOnce
<1>4. ASSUME NEW c \in Callers,
             notify_one(c) \/ stop(c) \/ notify_all(c) \/ destroy(c)
      PROVE  Ownership' /\ RunsOnce'
  <2>1. \A w \in Workers : pc'[w] = "running" <=> pc[w] = "running"
    BY <1>4 DEF notify_one, stop, notify_all, destroy, At
  <2>2. UNCHANGED <<ts, pushed, started, finished>>
    BY <1>4 DEF notify_one, stop, notify_all, destroy, history
  <2>3. QED
    BY <2>1, <2>2 DEF Ownership, RunsOnce
<1>5. ASSUME NEW w \in Workers, leave(w) \/ wait(w) \/ spurious_wakeup(w)
      PROVE  Ownership' /\ RunsOnce'
  BY <1>5 DEF leave, wait, spurious_wakeup, history, Ownership, RunsOnce
<1>6. CASE UNCHANGED vars
  BY <1>6 DEF vars, history, Ownership, RunsOnce
<1>7. QED
  BY <1>1, <1>2, <1>3, <1>4, <1>5, <1>6 DEF Next, bind_run

LEMMA OnceInvariant == SafeSpec => []OnceInv
<1>1. Init => OnceInv
  BY TypeInvInit, PoolAssumption DEF Init, OnceInv, FifoOrder, Ownership, RunsOnce
<1>2. OnceInv /\ [Next]_vars => OnceInv'
  BY TypeInvStep, FifoStep, OnceStep DEF OnceInv
<1>3. QED
  BY <1>1, <1>2, PTL DEF SafeSpec

(* No task is run by two workers or a second time (RunsOnce).              *)
THEOREM TasksRunOnce == SafeSpec => []RunsOnce
<1>1. OnceInv => RunsOnce
  BY DEF OnceInv
<1>2. QED
  BY <1>1, OnceInvariant, PTL

(* The pool, with its lock, condition variable, stop flag and destructor,  *)
(* implements the line of tasks that TaskQueue describes.                  *)
THEOREM Refinement == SafeSpec => ImplementsTaskQueue
<1>1. Init => Service!Init
  BY DEF Init, Service!Init
<1>2. OnceInv /\ [Next]_vars => [Service!Next]_(Service!vars)
  <2> SUFFICES ASSUME OnceInv, [Next]_vars
               PROVE  [Service!Next]_(Service!vars)
    OBVIOUS
  <2> USE PoolAssumption DEF Service!vars
  <2>1. ASSUME NEW c \in Callers, NEW t \in Tasks, push(c, t)
        PROVE  Service!Submit(t)
    <3> USE DEF OnceInv, TypeInv, TypeOK, FifoOrder
    <3>1. \A k \in DOMAIN started : started[k] # t
      <4> SUFFICES ASSUME NEW k \in DOMAIN started PROVE started[k] # t
        OBVIOUS
      <4>1. k \in DOMAIN pushed /\ pushed[k] = started[k]
        BY ConcatProperties
      <4>2. QED
        BY <2>1, <4>1 DEF push
    <3>2. \A k \in DOMAIN task : task[k] # t
      <4> SUFFICES ASSUME NEW k \in DOMAIN task PROVE task[k] # t
        OBVIOUS
      <4>1. Len(started) + k \in DOMAIN pushed /\ pushed[Len(started) + k] = task[k]
        BY ConcatProperties
      <4>2. QED
        BY <2>1, <4>1 DEF push
    <3>3. ~Service!Known(t)
      BY <3>1, <3>2 DEF Service!Known, Ownership
    <3>4. QED
      BY <2>1, <3>3 DEF push, Service!Submit
  <2>2. ASSUME NEW w \in Workers, pop_front(w) PROVE Service!Start(w)
    BY <2>2 DEF pop_front, Service!Start, OnceInv, Ownership
  <2>3. ASSUME NEW w \in Workers, run(w) PROVE Service!Finish(w)
    BY <2>3 DEF run, Service!Finish, OnceInv, Ownership, RunsOnce, data
  <2>4. CASE UNCHANGED <<task, ts, finished>>
    BY <2>4
  <2>5. QED
    BY <2>1, <2>2, <2>3, <2>4
       DEF Next, bind_run, notify_one, stop, notify_all, destroy, leave,
           wait, spurious_wakeup, vars, data, history, Service!Next
<1>3. QED
  BY <1>1, <1>2, OnceInvariant, PTL
     DEF SafeSpec, ImplementsTaskQueue, Service!Spec

-----------------------------------------------------------------------------
(* The three printing threads.                                             *)

ZeoInv == ZeoTypeOK /\ Turn /\ InOrder

\* The constructor's state satisfies the invariant.
LEMMA ZeoInvInit == ZeoInit => ZeoInv
<1> SUFFICES ASSUME ZeoInit PROVE ZeoInv
  OBVIOUS
<1> USE CountIsNat DEF ZeoInit, Threads
<1>1. ZeoTypeOK
  BY DEF ZeoTypeOK
<1>2. Turn
  BY DEF Turn, NextFrom
<1>3. InOrder
  BY DEF InOrder
<1> QED BY <1>1, <1>2, <1>3 DEF ZeoInv

\* What is appended to the output is the number whose turn it is.
LEMMA PrintKeepsOrder ==
  ASSUME InOrder, out \in Seq(0 .. n), NEW x \in 0 .. n,
         Len(out) + 1 <= 2 * n,
         x = IF (Len(out) + 1) % 2 = 1 THEN 0 ELSE (Len(out) + 1) \div 2,
         out' = Append(out, x)
  PROVE  InOrder' /\ out' \in Seq(0 .. n) /\ Len(out') = Len(out) + 1
<1>1. out' \in Seq(0 .. n) /\ Len(out') = Len(out) + 1
  OBVIOUS
<1>2. ASSUME NEW k \in 1 .. Len(out')
      PROVE  out'[k] = IF k % 2 = 1 THEN 0 ELSE k \div 2
  <2>1. CASE k = Len(out) + 1
    BY <1>1, <2>1
  <2>2. CASE k \in 1 .. Len(out)
    BY <1>1, <2>2 DEF InOrder
  <2> QED BY <1>1, <1>2, <2>1, <2>2, SMTT(60)
<1> QED BY <1>1, <1>2, CountIsNat, Zenon DEF InOrder

\* What printNumber and store do to the loop variables and the flags of the
\* three threads.
LEMMA PrintStep ==
  ASSUME NEW t \in Threads, NEW v, NEW x, ZeoTypeOK, printNumber(t, v, x)
  PROVE  /\ printed'[t] /\ \A u \in Threads \ {t} : printed'[u] = printed[u]
         /\ printed' \in [Threads -> BOOLEAN] /\ flag' = flag /\ i' = i
<1>1. printed \in [Threads -> BOOLEAN] /\ printed' = [printed EXCEPT ![t] = TRUE]
  BY DEF ZeoTypeOK, printNumber
<1>2. flag' = flag /\ i' = i
  BY DEF printNumber
<1>3. printed' \in [Threads -> BOOLEAN]
  BY <1>1
<1>4. printed'[t] /\ \A u \in Threads \ {t} : printed'[u] = printed[u]
  BY <1>1
<1> QED BY <1>2, <1>3, <1>4

LEMMA StoreStep ==
  ASSUME NEW t \in Threads, NEW v, NEW step \in Int, ZeoTypeOK, store(t, v, step),
         i[t] + step \in 1 .. n + 2
  PROVE  /\ ~printed'[t] /\ \A u \in Threads \ {t} : printed'[u] = printed[u]
         /\ printed' \in [Threads -> BOOLEAN] /\ flag' = v /\ out' = out
         /\ i'[t] = i[t] + step /\ \A u \in Threads \ {t} : i'[u] = i[u]
         /\ i' \in [Threads -> 1 .. n + 2]
<1>1. printed \in [Threads -> BOOLEAN] /\ printed' = [printed EXCEPT ![t] = FALSE]
  BY DEF ZeoTypeOK, store
<1>2. i \in [Threads -> 1 .. n + 2] /\ i' = [i EXCEPT ![t] = i[t] + step]
  BY DEF ZeoTypeOK, store
<1>3. flag' = v /\ out' = out
  BY DEF store
<1>4. printed' \in [Threads -> BOOLEAN]
  BY <1>1
<1>5. ~printed'[t] /\ \A u \in Threads \ {t} : printed'[u] = printed[u]
  BY <1>1
<1>6. i' \in [Threads -> 1 .. n + 2]
  BY <1>2
<1>7. i'[t] = i[t] + step /\ \A u \in Threads \ {t} : i'[u] = i[u]
  BY <1>2
<1> QED BY <1>3, <1>4, <1>5, <1>6, <1>7

\* Each print and each store keeps turn, counters and output in step.
LEMMA ZeoInvStep == ZeoInv /\ [ZeoNext]_zeoVars => ZeoInv'
<1> SUFFICES ASSUME ZeoInv, [ZeoNext]_zeoVars PROVE ZeoInv'
  OBVIOUS
<1> USE CountIsNat DEF ZeoInv, Threads
<1>1. CASE printNumber("zero", 0, 0)
  <2>1. /\ flag = 0 /\ i["zero"] \in 1 .. n /\ ~printed["zero"]
        /\ ~printed["even"] /\ ~printed["odd"]
        /\ i["even"] = NextFrom(i["zero"], 0) /\ i["odd"] = NextFrom(i["zero"], 1)
        /\ Len(out) = 2 * (i["zero"] - 1)
    BY <1>1, SMTT(60) DEF printNumber, Turn, ZeoTypeOK
  <2>0. Len(out) + 1 <= 2 * n /\ (Len(out) + 1) % 2 = 1
    BY <2>1
  <2>2. InOrder' /\ out' \in Seq(0 .. n) /\ Len(out') = Len(out) + 1
    <3>1. out' = Append(out, 0) /\ 0 \in 0 .. n /\ InOrder /\ out \in Seq(0 .. n)
      BY <1>1 DEF printNumber, ZeoTypeOK
    <3> HIDE DEF ZeoInv
    <3> QED BY <2>0, <3>1, PrintKeepsOrder
  <2>3. /\ printed'["zero"] /\ ~printed'["even"] /\ ~printed'["odd"]
        /\ printed' \in [Threads -> BOOLEAN] /\ flag' = flag /\ i' = i
    <3>1. ZeoTypeOK /\ "zero" \in Threads
      BY DEF ZeoInv, Threads
    <3> HIDE DEF ZeoInv
    <3>2. /\ printed'["zero"] /\ \A u \in Threads \ {"zero"} : printed'[u] = printed[u]
          /\ printed' \in [Threads -> BOOLEAN] /\ flag' = flag /\ i' = i
      BY <1>1, <3>1, PrintStep
    <3> QED BY <2>1, <3>2 DEF Threads
  <2> QED BY <2>1, <2>2, <2>3, SMTT(60) DEF Turn, ZeoTypeOK
<1>2. CASE store("zero", IF i["zero"] % 2 = 0 THEN 2 ELSE 1, 1)
  <2>1. /\ flag = 0 /\ i["zero"] \in 1 .. n
        /\ ~printed["even"] /\ ~printed["odd"]
        /\ i["even"] = NextFrom(i["zero"], 0) /\ i["odd"] = NextFrom(i["zero"], 1)
        /\ Len(out) = 2 * (i["zero"] - 1) + 1
    BY <1>2, SMTT(60) DEF store, Turn, ZeoTypeOK
  <2>2. /\ ~printed'["zero"] /\ ~printed'["even"] /\ ~printed'["odd"]
        /\ printed' \in [Threads -> BOOLEAN] /\ out' = out
        /\ i'["zero"] = i["zero"] + 1 /\ i'["even"] = i["even"] /\ i'["odd"] = i["odd"]
        /\ i' \in [Threads -> 1 .. n + 2]
        /\ flag' = IF i["zero"] % 2 = 0 THEN 2 ELSE 1
    <3>1. ZeoTypeOK /\ "zero" \in Threads /\ 1 \in Int
      BY DEF ZeoInv, Threads
    <3> HIDE DEF ZeoInv
    <3>2. i["zero"] + 1 \in 1 .. n + 2
      BY <2>1
    <3>3. /\ ~printed'["zero"] /\ \A u \in Threads \ {"zero"} : printed'[u] = printed[u]
          /\ printed' \in [Threads -> BOOLEAN] /\ out' = out
          /\ flag' = (IF i["zero"] % 2 = 0 THEN 2 ELSE 1)
          /\ i'["zero"] = i["zero"] + 1 /\ \A u \in Threads \ {"zero"} : i'[u] = i[u]
          /\ i' \in [Threads -> 1 .. n + 2]
      BY <1>2, <3>1, <3>2, StoreStep
    <3> QED BY <2>1, <3>3, SMTT(30) DEF Threads
  <2>3. Turn'
    <3> HIDE DEF ZeoInv, Threads
    <3>0. i'["zero"] \in 2 .. n + 1 /\ Len(out') = 2 * (i'["zero"] - 1) - 1
      BY <2>1, <2>2, SMTT(60)
    <3>1. CASE i["zero"] % 2 = 0
      <4>1. i["even"] = i["zero"] /\ i["odd"] = i["zero"] + 1
        BY <2>1, <3>1 DEF NextFrom
      <4>2. (i["zero"] + 1) % 2 = 1
        BY <2>1, <3>1
      <4>3. flag' = 2
        BY <2>2, <3>1
      <4> QED BY <2>1, <2>2, <3>0, <4>1, <4>2, <4>3, SMTT(60) DEF Turn
    <3>2. CASE i["zero"] % 2 = 1
      <4>1. i["odd"] = i["zero"] /\ i["even"] = i["zero"] + 1
        BY <2>1, <3>2 DEF NextFrom
      <4>2. (i["zero"] + 1) % 2 = 0 /\ flag' = 1
        BY <2>1, <2>2, <3>2
      <4> QED BY <2>1, <2>2, <3>0, <4>1, <4>2, SMTT(60) DEF Turn
    <3> QED BY <2>1, <3>1, <3>2
  <2> QED BY <2>2, <2>3 DEF ZeoTypeOK, InOrder
<1>3. CASE printNumber("even", 2, i["even"])
  <2>1. /\ flag = 2 /\ i["zero"] \in 2 .. n + 1 /\ i["zero"] % 2 = 1
        /\ ~printed["zero"] /\ ~printed["even"] /\ ~printed["odd"]
        /\ i["even"] = i["zero"] - 1 /\ i["odd"] = i["zero"]
        /\ Len(out) = 2 * (i["zero"] - 1) - 1
    BY <1>3, SMTT(60) DEF printNumber, Turn, ZeoTypeOK
  <2>0. /\ Len(out) + 1 <= 2 * n /\ (Len(out) + 1) % 2 = 0
        /\ i["even"] = (Len(out) + 1) \div 2 /\ i["even"] \in 0 .. n
    BY <2>1, SMTT(60)
  <2>2. InOrder' /\ out' \in Seq(0 .. n) /\ Len(out') = Len(out) + 1
    <3>1. out' = Append(out, i["even"]) /\ InOrder /\ out \in Seq(0 .. n)
      BY <1>3 DEF printNumber, ZeoTypeOK
    <3> HIDE DEF ZeoInv
    <3> QED BY <2>0, <3>1, PrintKeepsOrder
  <2>3. /\ printed'["even"] /\ ~printed'["zero"] /\ ~printed'["odd"]
        /\ printed' \in [Threads -> BOOLEAN] /\ flag' = flag /\ i' = i
    <3>1. ZeoTypeOK /\ "even" \in Threads
      BY DEF ZeoInv, Threads
    <3> HIDE DEF ZeoInv
    <3>2. /\ printed'["even"] /\ \A u \in Threads \ {"even"} : printed'[u] = printed[u]
          /\ printed' \in [Threads -> BOOLEAN] /\ flag' = flag /\ i' = i
      BY <1>3, <3>1, PrintStep
    <3> QED BY <2>1, <3>2 DEF Threads
  <2>4. Turn'
    BY <2>1, <2>2, <2>3, SMTT(60) DEF Turn
  <2> QED BY <2>2, <2>3, <2>4 DEF ZeoTypeOK
<1>4. CASE store("even", 0, 2)
  <2>1. /\ flag = 2 /\ i["zero"] \in 2 .. n + 1 /\ i["zero"] % 2 = 1
        /\ ~printed["zero"] /\ ~printed["odd"]
        /\ i["even"] = i["zero"] - 1 /\ i["odd"] = i["zero"]
        /\ Len(out) = 2 * (i["zero"] - 1)
    BY <1>4, SMTT(60) DEF store, Turn, ZeoTypeOK
  <2>2. /\ ~printed'["zero"] /\ ~printed'["even"] /\ ~printed'["odd"]
        /\ printed' \in [Threads -> BOOLEAN] /\ out' = out
        /\ i'["even"] = i["even"] + 2 /\ i'["zero"] = i["zero"] /\ i'["odd"] = i["odd"]
        /\ i' \in [Threads -> 1 .. n + 2] /\ flag' = 0
    <3>1. ZeoTypeOK /\ "even" \in Threads /\ 2 \in Int
      BY DEF ZeoInv, Threads
    <3> HIDE DEF ZeoInv
    <3>2. i["even"] + 2 \in 1 .. n + 2
      BY <2>1
    <3>3. /\ ~printed'["even"] /\ \A u \in Threads \ {"even"} : printed'[u] = printed[u]
          /\ printed' \in [Threads -> BOOLEAN] /\ out' = out
          /\ flag' = 0
          /\ i'["even"] = i["even"] + 2 /\ \A u \in Threads \ {"even"} : i'[u] = i[u]
          /\ i' \in [Threads -> 1 .. n + 2]
      BY <1>4, <3>1, <3>2, StoreStep
    <3> QED BY <2>1, <3>3 DEF Threads
  <2>3. Turn'
    BY <2>1, <2>2, SMTT(60) DEF Turn, NextFrom
  <2> QED BY <2>2, <2>3 DEF ZeoTypeOK, InOrder
<1>5. CASE printNumber("odd", 1, i["odd"])
  <2>1. /\ flag = 1 /\ i["zero"] \in 2 .. n + 1 /\ i["zero"] % 2 = 0
        /\ ~printed["zero"] /\ ~printed["even"] /\ ~printed["odd"]
        /\ i["odd"] = i["zero"] - 1 /\ i["even"] = i["zero"]
        /\ Len(out) = 2 * (i["zero"] - 1) - 1
    BY <1>5, SMTT(60) DEF printNumber, Turn, ZeoTypeOK
  <2>0. /\ Len(out) + 1 <= 2 * n /\ (Len(out) + 1) % 2 = 0
        /\ i["odd"] = (Len(out) + 1) \div 2 /\ i["odd"] \in 0 .. n
    BY <2>1, SMTT(60)
  <2>2. InOrder' /\ out' \in Seq(0 .. n) /\ Len(out') = Len(out) + 1
    <3>1. out' = Append(out, i["odd"]) /\ InOrder /\ out \in Seq(0 .. n)
      BY <1>5 DEF printNumber, ZeoTypeOK
    <3> HIDE DEF ZeoInv
    <3> QED BY <2>0, <3>1, PrintKeepsOrder
  <2>3. /\ printed'["odd"] /\ ~printed'["zero"] /\ ~printed'["even"]
        /\ printed' \in [Threads -> BOOLEAN] /\ flag' = flag /\ i' = i
    <3>1. ZeoTypeOK /\ "odd" \in Threads
      BY DEF ZeoInv, Threads
    <3> HIDE DEF ZeoInv
    <3>2. /\ printed'["odd"] /\ \A u \in Threads \ {"odd"} : printed'[u] = printed[u]
          /\ printed' \in [Threads -> BOOLEAN] /\ flag' = flag /\ i' = i
      BY <1>5, <3>1, PrintStep
    <3> QED BY <2>1, <3>2 DEF Threads
  <2>4. Turn'
    BY <2>1, <2>2, <2>3, SMTT(60) DEF Turn
  <2> QED BY <2>2, <2>3, <2>4 DEF ZeoTypeOK
<1>6. CASE store("odd", 0, 2)
  <2>1. /\ flag = 1 /\ i["zero"] \in 2 .. n + 1 /\ i["zero"] % 2 = 0
        /\ ~printed["zero"] /\ ~printed["even"]
        /\ i["odd"] = i["zero"] - 1 /\ i["even"] = i["zero"]
        /\ Len(out) = 2 * (i["zero"] - 1)
    BY <1>6, SMTT(60) DEF store, Turn, ZeoTypeOK
  <2>2. /\ ~printed'["zero"] /\ ~printed'["even"] /\ ~printed'["odd"]
        /\ printed' \in [Threads -> BOOLEAN] /\ out' = out
        /\ i'["odd"] = i["odd"] + 2 /\ i'["zero"] = i["zero"] /\ i'["even"] = i["even"]
        /\ i' \in [Threads -> 1 .. n + 2] /\ flag' = 0
    <3>1. ZeoTypeOK /\ "odd" \in Threads /\ 2 \in Int
      BY DEF ZeoInv, Threads
    <3> HIDE DEF ZeoInv
    <3>2. i["odd"] + 2 \in 1 .. n + 2
      BY <2>1
    <3>3. /\ ~printed'["odd"] /\ \A u \in Threads \ {"odd"} : printed'[u] = printed[u]
          /\ printed' \in [Threads -> BOOLEAN] /\ out' = out
          /\ flag' = 0
          /\ i'["odd"] = i["odd"] + 2 /\ \A u \in Threads \ {"odd"} : i'[u] = i[u]
          /\ i' \in [Threads -> 1 .. n + 2]
      BY <1>6, <3>1, <3>2, StoreStep
    <3> QED BY <2>1, <3>3 DEF Threads
  <2>3. Turn'
    BY <2>1, <2>2, SMTT(60) DEF Turn, NextFrom
  <2> QED BY <2>2, <2>3 DEF ZeoTypeOK, InOrder
<1>7. CASE UNCHANGED zeoVars
  BY <1>7, SMTT(60) DEF zeoVars, ZeoTypeOK, Turn, NextFrom, InOrder
<1> QED BY <1>1, <1>2, <1>3, <1>4, <1>5, <1>6, <1>7 DEF ZeoNext, zero, even, odd

\* The three threads print a beginning of 0 1 0 2 ... 0 n and nothing else,
\* for every n.
THEOREM PrintedInOrder == ZeoSafe => []InOrder
<1>1. ZeoInv => InOrder
  BY DEF ZeoInv
<1> QED BY ZeoInvInit, ZeoInvStep, <1>1, PTL DEF ZeoSafe

\* Turn, loop variables and output agree at every moment, for every n.
THEOREM TurnsAgree == ZeoSafe => []Turn
<1>1. ZeoInv => Turn
  BY DEF ZeoInv
<1> QED BY ZeoInvInit, ZeoInvStep, <1>1, PTL DEF ZeoSafe

-----------------------------------------------------------------------------
(* The ring buffer.                                                        *)

\* Where the k-th unread byte lies.
Place(L, r, k) == IF r + k - 1 < L THEN r + k - 1 ELSE r + k - 1 - L

\* A ring of L bytes with s unread ones between r and w: they are in their
\* places, and the padding is free.
Holds(buf, L, r, w, s) ==
  /\ L \in padding + 1 .. MaxLength /\ r \in 0 .. L /\ w \in 0 .. L /\ s \in Nat
  /\ s <= L - padding /\ s = IF w < r THEN L - r + w ELSE w - r
  /\ buf \in [0 .. L - 1 -> Nat]
  /\ \A k \in 1 .. s : buf[Place(L, r, k)] = k

Ring(x) == [buf |-> x.buf, length |-> x.length, r |-> x.r, w |-> x.w, ok |-> TRUE]

IsRing(x, s) == x = Ring(x) /\ Holds(x.buf, x.length, x.r, x.w, s)

BufInv == IsRing(b, stream)

-----------------------------------------------------------------------------
(* size_t arithmetic.                                                      *)

LEMMA Bounds == /\ MaxLength \in Nat /\ SizeMod \in Nat /\ 4 * MaxLength < SizeMod
                /\ MaxAppend \in 1 .. MaxLength /\ padding = 4
BY BufferAssumption DEF padding

LEMMA SizeSmall == ASSUME NEW d \in Int, 0 <= d, d < SizeMod PROVE Size(d) = d
BY Bounds DEF Size

LEMMA SizeNegative == ASSUME NEW d \in Int, -SizeMod <= d, d < 0 PROVE Size(d) = d + SizeMod
BY Bounds DEF Size

LEMMA UnreadSize ==
  ASSUME NEW x, NEW s, Holds(x.buf, x.length, x.r, x.w, s)
  PROVE  readed_size(x) = s
<1>1. PICK L \in Nat, r \in Nat, w \in Nat : /\ L = x.length /\ r = x.r /\ w = x.w
                                             /\ L <= MaxLength /\ r <= L /\ w <= L
  BY Bounds DEF Holds
<1>2. w < r => Size(L - r + w) = L - r + w
  <2>1. w < r => L - r + w \in Int /\ 0 <= L - r + w /\ L - r + w < SizeMod
    BY <1>1, Bounds
  <2> QED
    BY <2>1, SizeSmall
<1> QED
  BY <1>1, <1>2 DEF Holds, readed_size

\* writed_size() is the free space, but with less than the padding before the
\* unread bytes it wraps around to more than any length.
LEMMA FreeSize ==
  ASSUME NEW x, NEW s, Holds(x.buf, x.length, x.r, x.w, s)
  PROVE  /\ x.r >= padding => writed_size(x) = x.length - padding - s
         /\ x.r < padding => x.r <= x.w /\ writed_size(x) \in Nat /\ writed_size(x) > MaxLength
<1>1. PICK L \in Nat, r \in Nat, w \in Nat :
        /\ L = x.length /\ r = x.r /\ w = x.w /\ L > 4 /\ L <= MaxLength /\ r <= L /\ w <= L
        /\ s \in Nat /\ s <= L - 4 /\ s = IF w < r THEN L - r + w ELSE w - r
  BY Bounds, SMTT(30) DEF Holds
<1>2. CASE r >= 4
  <2>1. Size(r - padding) = r - 4
    <3>1. r - 4 \in Int /\ 0 <= r - 4 /\ r - 4 < SizeMod
      BY <1>1, <1>2, Bounds
    <3> QED
      BY <3>1, SizeSmall DEF padding
  <2>2. CASE w < r
    <3>0. s = L - r + w
      BY <1>1, <2>2
    <3>1. w <= r - 4 /\ r - 4 - w \in Int /\ 0 <= r - 4 - w /\ r - 4 - w < SizeMod
          /\ r - 4 - w = L - 4 - s
      <4>1. w <= r - 4 /\ r - 4 - w = L - 4 - s
        BY <1>1, <3>0
      <4>2. r - 4 - w \in Int /\ 0 <= r - 4 - w
        BY <1>1, <4>1
      <4>3. r - 4 - w < SizeMod
        BY <1>1, Bounds
      <4> QED
        BY <4>1, <4>2, <4>3
    <3>2. Size(r - padding - w) = r - 4 - w
      BY <3>1, SizeSmall DEF padding
    <3> QED
      BY <1>1, <1>2, <2>1, <3>1, <3>2 DEF writed_size, padding
  <2>3. CASE ~(w < r)
    <3>1. ~(w <= r - 4) /\ L - w + r - 4 \in Int /\ 0 <= L - w + r - 4
          /\ L - w + r - 4 < SizeMod /\ L - w + r - 4 = L - 4 - s
      BY <1>1, <1>2, <2>3, Bounds
    <3>2. Size(L - w + r - padding) = L - w + r - 4
      BY <3>1, SizeSmall DEF padding
    <3> QED
      BY <1>1, <1>2, <2>1, <3>1, <3>2 DEF writed_size, padding
  <2> QED
    BY <2>2, <2>3
<1>3. CASE r < 4
  <2>1. r <= w
    BY <1>1, <1>3
  <2>2. Size(r - padding) = r - 4 + SizeMod
    <3>1. r - 4 \in Int /\ r - 4 < 0 /\ -SizeMod <= r - 4
      BY <1>1, <1>3, Bounds
    <3> QED
      BY <3>1, SizeNegative DEF padding
  <2>3. Size(r - padding - w) = r - 4 - w + SizeMod
    <3>1. r - 4 - w \in Int /\ r - 4 - w < 0 /\ -SizeMod <= r - 4 - w
      BY <1>1, <1>3, <2>1, Bounds
    <3> QED
      BY <3>1, SizeNegative DEF padding
  <2>4. w <= r - 4 + SizeMod /\ r - 4 - w + SizeMod \in Nat /\ r - 4 - w + SizeMod > MaxLength
    BY <1>1, <1>3, Bounds
  <2> QED
    BY <1>1, <1>3, <2>1, <2>2, <2>3, <2>4 DEF writed_size, padding
<1> QED
  BY <1>1, <1>2, <1>3

-----------------------------------------------------------------------------
(* What the operations do to the bytes.  Data(s, n) is what is appended    *)
(* after s bytes.                                                          *)

Data(s, d) == [j \in 0 .. d - 1 |-> s + j + 1]

LEMMA OnePiece ==
  ASSUME NEW buf, NEW L, NEW r, NEW w, NEW s, Holds(buf, L, r, w, s),
         NEW d \in 1 .. MaxLength, s + d <= L - padding, w < r \/ L - w >= d
  PROVE  w + d <= L /\ Holds(copy_n(Data(s, d), 0, d, buf, w), L, r, w + d, s + d)
<1> DEFINE new == copy_n(Data(s, d), 0, d, buf, w)
<1>1. /\ L \in Nat /\ r \in Nat /\ w \in Nat /\ s \in Nat /\ d \in Nat /\ d >= 1
      /\ L > 4 /\ L <= MaxLength /\ r <= L /\ w <= L /\ s + d <= L - 4
      /\ s = IF w < r THEN L - r + w ELSE w - r
      /\ buf \in [0 .. L - 1 -> Nat]
  BY Bounds DEF Holds
<1>2. w + d <= L /\ (w < r => w + d < r)
  BY <1>1
<1>3. \A j \in 0 .. L - 1 : new[j] = IF w <= j /\ j < w + d THEN s + (j - w) + 1 ELSE buf[j]
  BY <1>1 DEF copy_n, Data
<1>4. new \in [0 .. L - 1 -> Nat]
  <2>1. DOMAIN new = 0 .. L - 1 /\ new = [j \in 0 .. L - 1 |-> new[j]]
    BY <1>1 DEF copy_n
  <2> HIDE DEF new
  <2>2. ASSUME NEW j \in 0 .. L - 1 PROVE new[j] \in Nat
    <3>1. buf[j] \in Nat /\ j \in Nat
      BY <1>1
    <3>2. w <= j => s + (j - w) + 1 \in Nat
      BY <1>1, <3>1
    <3> QED
      BY <1>3, <3>1, <3>2
  <2> QED
    BY <2>1, <2>2
<1> HIDE DEF new
<1>5. ASSUME NEW k \in 1 .. s + d PROVE new[Place(L, r, k)] = k
  <2>1. CASE k <= s
    <3>1. k \in 1 .. s
      BY <1>1, <2>1
    <3>2. Place(L, r, k) \in 0 .. L - 1 /\ ~(w <= Place(L, r, k) /\ Place(L, r, k) < w + d)
      BY <1>1, <1>2, <3>1, SMTT(30) DEF Place
    <3> QED
      BY <1>3, <3>1, <3>2, Zenon DEF Holds
  <2>2. CASE k > s
    <3>1. Place(L, r, k) = w + (k - s) - 1 /\ Place(L, r, k) \in 0 .. L - 1
          /\ w <= Place(L, r, k) /\ Place(L, r, k) < w + d
      BY <1>1, <1>2, <2>2, SMTT(30) DEF Place
    <3>2. s + (Place(L, r, k) - w) + 1 = k
      BY <1>1, <2>2, <3>1
    <3> QED
      BY <1>3, <3>1, <3>2
  <2> QED
    BY <1>1, <2>1, <2>2
<1>6. /\ L \in padding + 1 .. MaxLength /\ r \in 0 .. L /\ w + d \in 0 .. L /\ s + d \in Nat
      /\ s + d <= L - padding /\ s + d = IF w + d < r THEN L - r + (w + d) ELSE (w + d) - r
  BY <1>1, <1>2, Bounds
<1> QED
  BY <1>2, <1>4, <1>5, <1>6 DEF Holds, new

LEMMA TwoPieces ==
  ASSUME NEW buf, NEW L, NEW r, NEW w, NEW s, Holds(buf, L, r, w, s),
         NEW d \in 1 .. MaxLength, s + d <= L - padding, ~(w < r), L - w < d
  PROVE  Holds(copy_n(Data(s, d), 0, L - w, copy_n(Data(s, d), L - w, d - (L - w), buf, 0), w),
               L, r, d - (L - w), s + d)
<1> DEFINE m == d - (L - w)
           mid == copy_n(Data(s, d), L - w, m, buf, 0)
           new == copy_n(Data(s, d), 0, L - w, mid, w)
<1>1. /\ L \in Nat /\ r \in Nat /\ w \in Nat /\ s \in Nat /\ d \in Nat /\ d >= 1
      /\ L > 4 /\ L <= MaxLength /\ r <= w /\ w <= L /\ s + d <= L - 4 /\ s = w - r
      /\ buf \in [0 .. L - 1 -> Nat]
  BY Bounds DEF Holds
<1>2. m \in Nat /\ m >= 1 /\ m < r /\ m + (L - w) = d
  BY <1>1
<1>3. \A j \in 0 .. L - 1 : mid[j] = IF j < m THEN s + (L - w) + j + 1 ELSE buf[j]
  <2>1. DOMAIN buf = 0 .. L - 1
    BY <1>1
  <2>2. ASSUME NEW j \in 0 .. L - 1, j < m
        PROVE  mid[j] = s + (L - w) + j + 1
    <3>1. (L - w) + j - 0 \in 0 .. d - 1 /\ 0 <= j /\ j < 0 + m
      BY <1>1, <1>2, <2>2
    <3>2. mid[j] = Data(s, d)[(L - w) + j - 0]
      BY <2>1, <3>1 DEF copy_n
    <3>3. mid[j] = s + ((L - w) + j - 0) + 1
      BY <3>1, <3>2 DEF Data
    <3>4. s + ((L - w) + j - 0) + 1 = s + (L - w) + j + 1
      BY <1>1
    <3> QED
      BY <3>3, <3>4
  <2>3. ASSUME NEW j \in 0 .. L - 1, ~(j < m) PROVE mid[j] = buf[j]
    BY <1>2, <2>1, <2>3 DEF copy_n
  <2> QED
    BY <2>2, <2>3
<1>4. DOMAIN mid = 0 .. L - 1
  BY <1>1 DEF copy_n
<1> HIDE DEF mid
<1>5. \A j \in 0 .. L - 1 : new[j] = IF w <= j THEN s + (j - w) + 1 ELSE mid[j]
  BY <1>1, <1>4, SMTT(30) DEF copy_n, Data
<1>6. new \in [0 .. L - 1 -> Nat]
  <2>1. DOMAIN new = 0 .. L - 1 /\ new = [j \in 0 .. L - 1 |-> new[j]]
    BY <1>4 DEF copy_n
  <2> HIDE DEF new
  <2>2. ASSUME NEW j \in 0 .. L - 1 PROVE new[j] \in Nat
    <3>1. buf[j] \in Nat /\ j \in Nat
      BY <1>1
    <3>2. (w <= j => s + (j - w) + 1 \in Nat) /\ s + (L - w) + j + 1 \in Nat
      BY <1>1, <3>1, SMTT(30)
    <3> QED
      BY <1>3, <1>5, <3>1, <3>2
  <2> QED
    BY <2>1, <2>2
<1> HIDE DEF new, m
<1>7. ASSUME NEW k \in 1 .. s + d PROVE new[Place(L, r, k)] = k
  <2>1. CASE k <= s
    <3>1. k \in 1 .. s
      BY <1>1, <2>1
    <3>2. Place(L, r, k) \in 0 .. L - 1 /\ Place(L, r, k) < w /\ Place(L, r, k) >= m
      BY <1>1, <1>2, <3>1 DEF Place
    <3>3. new[Place(L, r, k)] = buf[Place(L, r, k)]
      BY <1>1, <1>2, <1>3, <1>5, <3>2, SMTT(30)
    <3> QED
      BY <3>1, <3>3 DEF Holds
  <2>2. CASE k > s /\ k - s <= L - w
    <3>1. Place(L, r, k) = w + (k - s) - 1 /\ Place(L, r, k) \in 0 .. L - 1
      BY <1>1, <2>2 DEF Place
    <3>2. w <= Place(L, r, k) /\ s + (Place(L, r, k) - w) + 1 = k
      BY <1>1, <2>2, <3>1
    <3> QED
      BY <1>5, <3>1, <3>2
  <2>3. CASE k > s /\ k - s > L - w
    <3>1. Place(L, r, k) = (k - s) - (L - w) - 1 /\ Place(L, r, k) \in 0 .. L - 1
      BY <1>1, <1>2, <2>3 DEF Place
    <3>2. Place(L, r, k) < m /\ Place(L, r, k) < w /\ s + (L - w) + Place(L, r, k) + 1 = k
      BY <1>1, <1>2, <2>3, <3>1, SMTT(30)
    <3> QED
      BY <1>1, <1>3, <1>5, <3>1, <3>2, SMTT(30)
  <2> QED
    BY <1>1, <2>1, <2>2, <2>3
<1>8. /\ L \in padding + 1 .. MaxLength /\ r \in 0 .. L /\ m \in 0 .. L /\ s + d \in Nat
      /\ s + d <= L - padding /\ s + d = IF m < r THEN L - r + m ELSE m - r
  BY <1>1, <1>2, Bounds
<1> QED
  BY <1>6, <1>7, <1>8, Zenon DEF Holds, new, mid, m

\* relocation_location() puts the bytes in order from the padding on.  This is
\* the writeindex_ it sets when the piece at the end is not the longer one.
LEMMA Relocation ==
  ASSUME NEW buf, NEW L, NEW r, NEW w, NEW s, Holds(buf, L, r, w, s), w < r
  PROVE  /\ Inside(r - padding, L - r + padding, L) /\ Inside(L - r + padding, w, L)
         /\ Holds(copy_n(buf, 0, w, copy_n(buf, r - padding, L - r + padding, buf, 0),
                         L - r + padding),
                  L, padding, L - r + w + padding, s)
<1> DEFINE t == L - r + padding
           mid == copy_n(buf, r - padding, t, buf, 0)
           new == copy_n(buf, 0, w, mid, t)
<1>1. /\ L \in Nat /\ r \in Nat /\ w \in Nat /\ s \in Nat /\ t = L - r + 4
      /\ L > 4 /\ L <= MaxLength /\ r <= L /\ w <= L /\ s <= L - 4 /\ s = L - r + w
      /\ buf \in [0 .. L - 1 -> Nat]
  BY Bounds DEF Holds
<1>2. r >= 4 /\ t \in Nat /\ t + w = s + 4 /\ t + w <= L /\ (r - 4) + t = L
  BY <1>1, SMTT(30)
<1> HIDE DEF t
<1>3. \A j \in 0 .. L - 1 : mid[j] = IF j < t THEN buf[r - 4 + j] ELSE buf[j]
  BY <1>1, <1>2 DEF copy_n, padding
<1>4. DOMAIN mid = 0 .. L - 1
  BY <1>1 DEF copy_n
<1> HIDE DEF mid
<1>5. \A j \in 0 .. L - 1 : new[j] = IF t <= j /\ j < t + w THEN buf[j - t] ELSE mid[j]
  BY <1>1, <1>2, <1>4 DEF copy_n
<1>6. new \in [0 .. L - 1 -> Nat]
  <2>1. DOMAIN new = 0 .. L - 1 /\ new = [j \in 0 .. L - 1 |-> new[j]]
    BY <1>4 DEF copy_n
  <2> HIDE DEF new
  <2>2. ASSUME NEW j \in 0 .. L - 1 PROVE new[j] \in Nat
    <3>1. buf[j] \in Nat /\ (j < t => buf[r - 4 + j] \in Nat)
      BY <1>1, <1>2
    <3>2. t <= j /\ j < t + w => buf[j - t] \in Nat
      BY <1>1, <1>2
    <3> QED
      BY <1>3, <1>5, <3>1, <3>2
  <2> QED
    BY <2>1, <2>2
<1> HIDE DEF new
<1>7. ASSUME NEW k \in 1 .. s PROVE new[Place(L, padding, k)] = k
  <2>0. Place(L, padding, k) = k + 3 /\ k + 3 \in 0 .. L - 1 /\ buf[Place(L, r, k)] = k
    BY <1>1, <1>2 DEF Place, padding, Holds
  <2>1. CASE k <= L - r
    <3>1. k + 3 < t /\ r - 4 + (k + 3) = Place(L, r, k)
      BY <1>1, <1>2, <2>1 DEF Place
    <3>2. new[k + 3] = buf[r - 4 + (k + 3)]
      BY <1>1, <1>2, <1>3, <1>5, <2>0, <3>1
    <3> QED
      BY <2>0, <3>1, <3>2
  <2>2. CASE k > L - r
    <3>1. t <= k + 3 /\ k + 3 < t + w /\ (k + 3) - t = Place(L, r, k)
      BY <1>1, <1>2, <2>2 DEF Place
    <3>2. new[k + 3] = buf[(k + 3) - t]
      BY <1>5, <2>0, <3>1
    <3> QED
      BY <2>0, <3>1, <3>2
  <2> QED
    BY <1>1, <2>1, <2>2
<1>8. /\ L \in padding + 1 .. MaxLength /\ padding \in 0 .. L /\ L - r + w + padding \in 0 .. L
      /\ s \in Nat /\ s <= L - padding
      /\ s = IF L - r + w + padding < padding THEN L - padding + (L - r + w + padding)
             ELSE (L - r + w + padding) - padding
  BY <1>1, <1>2, Bounds
<1>9. Inside(r - padding, t, L) /\ Inside(t, w, L)
  BY <1>1, <1>2 DEF Inside, padding
<1> QED
  BY <1>6, <1>7, <1>8, <1>9 DEF Holds, new, mid, t

\* make_memory() keeps the bytes that start at the padding.
LEMMA Enlarged ==
  ASSUME NEW buf, NEW L, NEW w, NEW s, Holds(buf, L, padding, w, s), w >= padding,
         NEW N \in L .. MaxLength
  PROVE  Holds(copy_n(buf, 0, w, [j \in 0 .. N - 1 |-> Other], 0), N, padding, w, s)
<1> DEFINE new == copy_n(buf, 0, w, [j \in 0 .. N - 1 |-> Other], 0)
<1>1. /\ L \in Nat /\ w \in Nat /\ s \in Nat /\ N \in Nat /\ N >= L
      /\ L > 4 /\ N <= MaxLength /\ 4 <= w /\ w <= L /\ s <= L - 4 /\ s = w - 4
      /\ buf \in [0 .. L - 1 -> Nat]
  BY Bounds DEF Holds
<1>2. \A j \in 0 .. N - 1 : new[j] = IF j < w THEN buf[j] ELSE 0
  BY <1>1 DEF copy_n, Other
<1>3. new \in [0 .. N - 1 -> Nat]
  <2>1. DOMAIN new = 0 .. N - 1 /\ new = [j \in 0 .. N - 1 |-> new[j]]
    BY DEF copy_n
  <2> HIDE DEF new
  <2>2. \A j \in 0 .. N - 1 : new[j] \in Nat
    BY <1>1, <1>2
  <2> QED
    BY <2>1, <2>2
<1> HIDE DEF new
<1>4. ASSUME NEW k \in 1 .. s PROVE new[Place(N, padding, k)] = k
  <2>1. /\ Place(N, padding, k) = k + 3 /\ Place(L, padding, k) = k + 3
        /\ k + 3 \in 0 .. N - 1 /\ k + 3 < w
    BY <1>1 DEF Place, padding
  <2> QED
    BY <1>2, <2>1, Zenon DEF Holds
<1>5. /\ N \in padding + 1 .. MaxLength /\ padding \in 0 .. N /\ w \in 0 .. N
      /\ s <= N - padding /\ s = IF w < padding THEN N - padding + w ELSE w - padding
  BY <1>1, Bounds
<1> QED
  BY <1>1, <1>3, <1>4, <1>5, Zenon DEF Holds, new

\* The bytes that stay after the oldest n were skipped.
Left(buf, d) == [j \in DOMAIN buf |-> IF buf[j] > d THEN buf[j] - d ELSE Other]

LEMMA Skipped ==
  ASSUME NEW buf, NEW L, NEW r, NEW w, NEW s, Holds(buf, L, r, w, s), NEW d \in 1 .. s - 1
  PROVE  Holds(Left(buf, d), L, IF w < r /\ L - r <= d THEN d - L + r ELSE r + d, w, s - d)
<1> DEFINE q == IF w < r /\ L - r <= d THEN d - L + r ELSE r + d
<1>1. /\ L \in Nat /\ r \in Nat /\ w \in Nat /\ s \in Nat /\ d \in Nat
      /\ L > 4 /\ L <= MaxLength /\ r <= L /\ w <= L /\ s <= L - 4
      /\ s = IF w < r THEN L - r + w ELSE w - r
      /\ buf \in [0 .. L - 1 -> Nat]
  BY Bounds DEF Holds
<1>2. q \in 0 .. L /\ s - d = IF w < q THEN L - q + w ELSE w - q
  BY <1>1
<1>3. Left(buf, d) \in [0 .. L - 1 -> Nat]
  BY <1>1 DEF Left, Other
<1>4. ASSUME NEW k \in 1 .. s - d PROVE Left(buf, d)[Place(L, q, k)] = k
  <2>1. k + d \in 1 .. s /\ k \in Nat
    BY <1>1
  <2>2. Place(L, q, k) = Place(L, r, k + d) /\ Place(L, q, k) \in 0 .. L - 1
    BY <1>1, <2>1 DEF Place
  <2>3. buf[Place(L, r, k + d)] = k + d
    BY <2>1 DEF Holds
  <2>4. k + d > d /\ (k + d) - d = k
    BY <1>1, <2>1
  <2> HIDE DEF q
  <2> QED
    BY <1>1, <2>2, <2>3, <2>4 DEF Left
<1>5. L \in padding + 1 .. MaxLength /\ w \in 0 .. L /\ s - d \in Nat /\ s - d <= L - padding
  BY <1>1, Bounds
<1> HIDE DEF q
<1>6. Holds(Left(buf, d), L, q, w, s - d)
  BY <1>2, <1>3, <1>4, <1>5, SMTT(30) DEF Holds
<1> QED
  BY <1>6 DEF q

LEMMA Emptied ==
  ASSUME NEW buf, NEW L, NEW r, NEW w, NEW s, Holds(buf, L, r, w, s), NEW d \in Nat
  PROVE  Holds(Left(buf, d), L, padding, padding, 0)
<1>1. Left(buf, d) \in [0 .. L - 1 -> Nat]
  BY DEF Holds, Left, Other
<1>2. /\ L \in padding + 1 .. MaxLength /\ padding \in 0 .. L /\ 0 <= L - padding
      /\ 0 = IF padding < padding THEN L - padding + padding ELSE padding - padding
  BY Bounds DEF Holds
<1> QED
  BY <1>1, <1>2 DEF Holds

-----------------------------------------------------------------------------
(* The operations.                                                         *)

LEMMA Relocated ==
  ASSUME NEW x, NEW s, IsRing(x, s),
         IF x.w < x.r THEN x.length - x.r <= x.w ELSE x.r = padding
  PROVE  LET z == relocation_location(x)
         IN  IsRing(z, s) /\ z.length = x.length /\ z.r = padding /\ z.w >= padding
<1> DEFINE z == relocation_location(x)
<1>1. PICK buf, L, r, w : x = [buf |-> buf, length |-> L, r |-> r, w |-> w, ok |-> TRUE]
  BY DEF IsRing, Ring
<1>2. /\ x.buf = buf /\ x.length = L /\ x.r = r /\ x.w = w /\ Holds(buf, L, r, w, s)
      /\ IF w < r THEN L - r <= w ELSE r = padding
  BY <1>1 DEF IsRing
<1>3. CASE w < r
  <2> DEFINE joined == copy_n(buf, 0, w, copy_n(buf, r - padding, L - r + padding, buf, 0),
                              L - r + padding)
  <2>1. /\ Inside(r - padding, L - r + padding, L) /\ Inside(L - r + padding, w, L)
        /\ Holds(joined, L, padding, L - r + w + padding, s)
    BY <1>2, <1>3, Relocation
  <2>2. ~(L - r > w) /\ ~(w >= r) /\ L - r + w + padding >= padding
    BY <1>2, <1>3, Bounds, SMTT(30) DEF Holds
  <2>3. z = [x EXCEPT !.buf = joined, !.r = padding, !.w = L - r + w + padding]
    BY <1>2, <2>1, <2>2 DEF relocation_location
  <2> HIDE DEF joined, z
  <2>4. z = [buf |-> joined, length |-> L, r |-> padding, w |-> L - r + w + padding, ok |-> TRUE]
    BY <1>1, <2>3, Zenon
  <2> QED
    BY <1>2, <2>1, <2>2, <2>4 DEF IsRing, Ring, z
<1>4. CASE ~(w < r)
  <2>1. w >= r
    BY <1>2, <1>4, Bounds DEF Holds
  <2>2. z = x
    BY <1>2, <2>1 DEF relocation_location
  <2> QED
    BY <1>2, <1>4, <2>1, <2>2
<1> QED
  BY <1>3, <1>4

LEMMA Grown ==
  ASSUME NEW x, NEW s, IsRing(x, s), NEW d \in 1 .. MaxAppend, x.r >= padding,
         IF x.w < x.r THEN x.length - x.r <= x.w ELSE x.r = padding,
         writed_size(x) < d, x.length + 2 * (d - writed_size(x)) <= MaxLength
  PROVE  LET y == make_memory(x, d)
         IN  IsRing(y, s) /\ s + d <= y.length - padding
<1>1. PICK z : /\ z = relocation_location(x) /\ IsRing(z, s) /\ z.length = x.length
               /\ z.r = padding /\ z.w >= padding
  BY Relocated
<1>2. PICK L, w, buf :
        /\ z = [buf |-> buf, length |-> L, r |-> padding, w |-> w, ok |-> TRUE]
        /\ Holds(buf, L, padding, w, s) /\ w >= padding /\ L = x.length
  BY <1>1 DEF IsRing, Ring
<1>3. /\ L \in Nat /\ w \in Nat /\ s \in Nat /\ d \in Nat /\ L <= MaxLength /\ w <= L
      /\ s <= L - 4 /\ d <= MaxLength
  BY <1>2, Bounds DEF Holds
<1>4. writed_size(x) = L - 4 - s
  BY <1>2, FreeSize DEF IsRing, padding
<1>5. writed_size(z) = L - 4 - s
  <2>1. z.r = padding /\ z.length = L
    BY <1>2
  <2> QED
    BY <1>1, <2>1, FreeSize DEF IsRing, padding
<1>6. PICK N \in Nat : /\ N = L + 2 * (d - (L - 4 - s)) /\ L <= N /\ N <= MaxLength
                       /\ s + d <= N - 4
  <2>1. L - 4 - s < d /\ L + 2 * (d - (L - 4 - s)) <= MaxLength
    BY <1>2, <1>4
  <2> QED
    BY <1>3, <2>1, Bounds
<1>7. Size(z.length + 2 * Size(d - writed_size(z))) = N
  <2>1. d - (L - 4 - s) \in Int /\ 0 <= d - (L - 4 - s) /\ d - (L - 4 - s) < SizeMod
    BY <1>3, <1>4, Bounds
  <2>2. Size(d - (L - 4 - s)) = d - (L - 4 - s)
    BY <2>1, SizeSmall
  <2>3. N \in Int /\ 0 <= N /\ N < SizeMod
    BY <1>6, Bounds
  <2>4. Size(N) = N
    BY <2>3, SizeSmall
  <2> QED
    BY <1>2, <1>5, <1>6, <2>2, <2>4
<1>8. /\ ~(d < writed_size(x)) /\ z.ok /\ ~(N > MaxLength) /\ ~(z.w > N)
      /\ Inside(z.r - padding, z.w, z.length)
  <2>1. z.ok /\ z.r = 4 /\ z.w = w /\ z.length = L
    BY <1>2 DEF padding
  <2>2. ~(d < L - 4 - s) /\ ~(N > MaxLength) /\ ~(w > N)
    BY <1>2, <1>3, <1>4, <1>6, Bounds
  <2>3. Inside(z.r - padding, z.w, z.length)
    BY <1>3, <2>1 DEF Inside, padding
  <2> QED
    BY <1>4, <2>1, <2>2, <2>3
<1> DEFINE new == copy_n(z.buf, z.r - padding, z.w, [j \in 0 .. N - 1 |-> Other], 0)
<1>9. make_memory(x, d) = [z EXCEPT !.length = N, !.buf = new]
  BY <1>1, <1>7, <1>8, Zenon DEF make_memory
<1>10. new = copy_n(buf, 0, w, [j \in 0 .. N - 1 |-> Other], 0)
  BY <1>2 DEF padding
<1>11. Holds(new, N, padding, w, s)
  <2>1. N \in L .. MaxLength
    BY <1>3, <1>6, Bounds
  <2> QED
    BY <1>2, <1>10, <2>1, Enlarged
<1> HIDE DEF new
<1>12. make_memory(x, d) = [buf |-> new, length |-> N, r |-> padding, w |-> w, ok |-> TRUE]
  BY <1>2, <1>9, Zenon
<1> QED
  BY <1>6, <1>11, <1>12 DEF IsRing, Ring, padding

\* append() on a buffer with enough room, or after it was enlarged.
LEMMA Appended ==
  ASSUME NEW y, NEW s, IsRing(y, s), NEW d \in 1 .. MaxLength, s + d <= y.length - padding,
         NEW room, room = Size(y.length - y.w)
  PROVE  /\ y.ok
         /\ y.w < y.r \/ room >= d =>
              /\ Inside(y.w, d, y.length)
              /\ IsRing([y EXCEPT !.buf = copy_n(Data(s, d), 0, d, y.buf, y.w),
                                  !.w = Size(y.w + d)], s + d)
         /\ ~(y.w < y.r \/ room >= d) =>
              /\ Inside(y.w, room, y.length) /\ ~(d - room > y.length)
              /\ IsRing([y EXCEPT !.buf = copy_n(Data(s, d), 0, room,
                                            copy_n(Data(s, d), room, d - room, y.buf, 0), y.w),
                                  !.w = d - room], s + d)
<1>1. PICK buf, L, r, w : y = [buf |-> buf, length |-> L, r |-> r, w |-> w, ok |-> TRUE]
  BY DEF IsRing, Ring
<1>0. /\ y.buf = buf /\ y.length = L /\ y.r = r /\ y.w = w /\ y.ok
      /\ Holds(buf, L, r, w, s) /\ s + d <= L - padding
  BY <1>1 DEF IsRing
<1>2. L \in Nat /\ r \in Nat /\ w \in Nat /\ d \in Nat /\ L <= MaxLength /\ r <= L /\ w <= L
  <2>1. L \in padding + 1 .. MaxLength /\ r \in 0 .. L /\ w \in 0 .. L
    BY <1>0 DEF Holds
  <2> QED
    BY <2>1, Bounds
<1>3. room = L - w
  <2>1. L - w \in Int /\ 0 <= L - w /\ L - w < SizeMod
    BY <1>2, Bounds
  <2> QED
    BY <1>0, <2>1, SizeSmall
<1>b. ASSUME NEW new, NEW v, Holds(new, L, r, v, s + d)
      PROVE  IsRing([y EXCEPT !.buf = new, !.w = v], s + d)
  <2>1. PICK z : z = [y EXCEPT !.buf = new, !.w = v]
    OBVIOUS
  <2>2. z = [buf |-> new, length |-> L, r |-> r, w |-> v, ok |-> TRUE]
    BY <1>1, <2>1, Zenon
  <2>3. IsRing(z, s + d)
    BY <1>b, <2>2 DEF IsRing, Ring
  <2> QED
    BY <2>1, <2>3
<1>4. ASSUME w < r \/ L - w >= d
      PROVE  /\ Inside(w, d, L)
             /\ IsRing([y EXCEPT !.buf = copy_n(Data(s, d), 0, d, buf, w), !.w = Size(w + d)], s + d)
  <2>1. w + d <= L /\ Holds(copy_n(Data(s, d), 0, d, buf, w), L, r, w + d, s + d)
    BY <1>0, <1>4, OnePiece
  <2>2. w + d \in Int /\ 0 <= w + d /\ w + d < SizeMod
    BY <1>2, <2>1, Bounds
  <2>3. Size(w + d) = w + d
    BY <2>2, SizeSmall
  <2>4. Inside(w, d, L)
    BY <1>2, <2>1 DEF Inside
  <2> QED
    BY <1>b, <2>1, <2>3, <2>4, Zenon
<1>5. ASSUME ~(w < r \/ L - w >= d)
      PROVE  /\ Inside(w, L - w, L) /\ ~(d - (L - w) > L)
             /\ IsRing([y EXCEPT !.buf = copy_n(Data(s, d), 0, L - w,
                                           copy_n(Data(s, d), L - w, d - (L - w), buf, 0), w),
                                 !.w = d - (L - w)], s + d)
  <2>1. ~(w < r) /\ L - w < d
    BY <1>2, <1>5
  <2>2. Holds(copy_n(Data(s, d), 0, L - w, copy_n(Data(s, d), L - w, d - (L - w), buf, 0), w),
              L, r, d - (L - w), s + d)
    BY <1>0, <2>1, TwoPieces
  <2>3. Inside(w, L - w, L) /\ ~(d - (L - w) > L)
    BY <1>2, <2>2 DEF Inside, Holds
  <2> QED
    BY <1>b, <2>2, <2>3, Zenon
<1> QED
  BY <1>0, <1>3, <1>4, <1>5, Zenon

LEMMA AppendStep ==
  ASSUME Caller = "bounded", BufInv, append
  PROVE  BufInv'
<1>1. PICK d \in 1 .. MaxAppend :
        /\ Allowed(d)
        /\ writed_size(b) < d => b.length + 2 * (d - writed_size(b)) <= MaxLength
        /\ b' = append_to(b, [k \in 1 .. d |-> stream + k])
        /\ stream' = stream + d
  BY DEF append
<1>2. /\ IsRing(b, stream) /\ Holds(b.buf, b.length, b.r, b.w, stream)
      /\ b.length \in Nat /\ b.r \in Nat /\ b.w \in Nat /\ stream \in Nat
      /\ d \in 1 .. MaxLength /\ d \in Nat
  BY Bounds, SMTT(30) DEF BufInv, IsRing, Holds
<1> DEFINE news == [k \in 1 .. d |-> stream + k]
<1>3. Len(news) = d /\ [j \in 0 .. d - 1 |-> news[j + 1]] = Data(stream, d)
  <2>1. news \in Seq(Nat) /\ Len(news) = d
    BY <1>2
  <2>2. ASSUME NEW j \in 0 .. d - 1 PROVE news[j + 1] = stream + j + 1
    <3>1. j + 1 \in 1 .. d /\ stream + (j + 1) = stream + j + 1
      BY <1>2
    <3> QED
      BY <3>1
  <2> QED
    BY <2>1, <2>2 DEF Data
<1> HIDE DEF news
<1>4. PICK y : y = IF writed_size(b) < d THEN make_memory(b, d) ELSE b
  OBVIOUS
<1>5. IsRing(y, stream) /\ stream + d <= y.length - padding
  <2>1. CASE writed_size(b) < d
    <3>1. b.r >= padding
      <4>1. b.r < padding => writed_size(b) \in Nat /\ writed_size(b) > MaxLength
        BY <1>2, FreeSize
      <4> QED
        BY <1>2, <2>1, <4>1, Bounds
    <3>2. writed_size(b) = b.length - padding - stream
      BY <1>2, <3>1, FreeSize
    <3>3. ~(stream + d <= b.length - padding)
      BY <1>2, <2>1, <3>2 DEF padding
    <3>4. IF b.w < b.r THEN b.length - b.r <= b.w ELSE b.r = padding
      BY <1>1, <3>3 DEF Allowed, GrowsSoundly
    <3> QED
      BY <1>1, <1>2, <1>4, <2>1, <3>1, <3>4, Grown
  <2>2. CASE ~(writed_size(b) < d)
    <3>1. stream + d <= b.length - padding
      <4>1. CASE b.r >= padding
        <5>1. writed_size(b) = b.length - padding - stream
          BY <1>2, <4>1, FreeSize
        <5> QED
          BY <1>2, <2>2, <5>1 DEF padding
      <4>2. CASE b.r < padding
        <5>1. ~GrowsSoundly
          BY <1>2, <4>2, FreeSize DEF GrowsSoundly, padding
        <5> QED
          BY <1>1, <5>1 DEF Allowed
      <4> QED
        BY <1>2, <4>1, <4>2 DEF padding
    <3> QED
      BY <1>2, <1>4, <2>2, <3>1
  <2> QED
    BY <2>1, <2>2
<1>6. PICK room : room = Size(y.length - y.w)
  OBVIOUS
<1>7. /\ y.ok
      /\ y.w < y.r \/ room >= d =>
           /\ Inside(y.w, d, y.length)
           /\ IsRing([y EXCEPT !.buf = copy_n(Data(stream, d), 0, d, y.buf, y.w),
                               !.w = Size(y.w + d)], stream + d)
      /\ ~(y.w < y.r \/ room >= d) =>
           /\ Inside(y.w, room, y.length) /\ ~(d - room > y.length)
           /\ IsRing([y EXCEPT !.buf = copy_n(Data(stream, d), 0, room,
                                  copy_n(Data(stream, d), room, d - room, y.buf, 0), y.w),
                               !.w = d - room], stream + d)
  BY <1>2, <1>5, <1>6, Appended, Zenon
<1>8. CASE y.w < y.r \/ room >= d
  <2>1. append_to(b, news) = [y EXCEPT !.buf = copy_n(Data(stream, d), 0, d, y.buf, y.w),
                                       !.w = Size(y.w + d)]
    BY <1>3, <1>4, <1>6, <1>7, <1>8, ZenonT(30) DEF append_to
  <2> QED
    BY <1>1, <1>7, <1>8, <2>1 DEF BufInv, news
<1>9. CASE ~(y.w < y.r \/ room >= d)
  <2>1. append_to(b, news) = [y EXCEPT !.buf = copy_n(Data(stream, d), 0, room,
                                          copy_n(Data(stream, d), room, d - room, y.buf, 0), y.w),
                                       !.w = d - room]
    BY <1>3, <1>4, <1>6, <1>7, <1>9, ZenonT(30) DEF append_to
  <2> QED
    BY <1>1, <1>7, <1>9, <2>1 DEF BufInv, news
<1> QED
  BY <1>8, <1>9

LEMMA SkipStep ==
  ASSUME BufInv, skip
  PROVE  BufInv'
<1>1. PICK d \in 1 .. MaxLength : /\ d <= stream /\ b' = Forget(skip_in(b, d), d)
                                  /\ stream' = stream - d
  BY DEF skip
<1>2. PICK buf, L, r, w : b = [buf |-> buf, length |-> L, r |-> r, w |-> w, ok |-> TRUE]
  BY DEF BufInv, IsRing, Ring
<1>3. /\ b.buf = buf /\ b.length = L /\ b.r = r /\ b.w = w /\ b.ok
      /\ Holds(buf, L, r, w, stream) /\ readed_size(b) = stream
      /\ stream \in Nat /\ d \in Nat
  <2>1. b.buf = buf /\ b.length = L /\ b.r = r /\ b.w = w /\ b.ok
    BY <1>2
  <2>2. Holds(b.buf, b.length, b.r, b.w, stream)
    BY DEF BufInv, IsRing
  <2>3. readed_size(b) = stream
    BY <2>2, UnreadSize
  <2>4. stream \in Nat /\ d \in Nat
    BY <2>2, Bounds DEF Holds
  <2> QED
    BY <2>1, <2>2, <2>3, <2>4
<1>a. ASSUME NEW q, NEW v, skip_in(b, d) = [buf |-> buf, length |-> L, r |-> q, w |-> v, ok |-> TRUE],
             Holds(Left(buf, d), L, q, v, stream - d)
      PROVE  BufInv'
  <2>1. PICK z : z = skip_in(b, d)
    OBVIOUS
  <2>2. z = [buf |-> buf, length |-> L, r |-> q, w |-> v, ok |-> TRUE] /\ b' = Forget(z, d)
    BY <1>1, <1>a, <2>1
  <2>3. b' = [buf |-> Left(buf, d), length |-> L, r |-> q, w |-> v, ok |-> TRUE]
    BY <2>2, Zenon DEF Forget, Left
  <2>4. b' = Ring(b') /\ b'.buf = Left(buf, d) /\ b'.length = L /\ b'.r = q /\ b'.w = v
    BY <2>3 DEF Ring
  <2> QED
    BY <1>1, <1>a, <2>4 DEF BufInv, IsRing
<1>4. CASE d = stream
  <2>1. skip_in(b, d) = [b EXCEPT !.r = padding, !.w = padding]
    BY <1>3, <1>4 DEF skip_in
  <2>2. skip_in(b, d) = [buf |-> buf, length |-> L, r |-> padding, w |-> padding, ok |-> TRUE]
    BY <1>2, <2>1, Zenon
  <2>3. stream - d = 0
    BY <1>3, <1>4
  <2>4. Holds(Left(buf, d), L, padding, padding, stream - d)
    BY <1>3, <2>3, Emptied
  <2> QED
    BY <1>a, <2>2, <2>4
<1>5. CASE d # stream
  <2>1. PICK q : q = IF w < r /\ L - r <= d THEN d - L + r ELSE r + d
    OBVIOUS
  <2>2. skip_in(b, d) = [b EXCEPT !.r = q]
    BY <1>3, <1>5, <2>1 DEF skip_in
  <2>3. skip_in(b, d) = [buf |-> buf, length |-> L, r |-> q, w |-> w, ok |-> TRUE]
    BY <1>2, <2>2, Zenon
  <2>4. d \in 1 .. stream - 1
    BY <1>1, <1>3, <1>5
  <2>5. Holds(Left(buf, d), L, q, w, stream - d)
    BY <1>3, <2>1, <2>4, Skipped
  <2> QED
    BY <1>a, <2>3, <2>5
<1> QED
  BY <1>4, <1>5

LEMMA RetrieveStep ==
  ASSUME BufInv, retrieve_all
  PROVE  BufInv'
<1>1. PICK buf, L, r, w : b = [buf |-> buf, length |-> L, r |-> r, w |-> w, ok |-> TRUE]
  BY DEF BufInv, IsRing, Ring
<1>2. Holds(buf, L, r, w, stream) /\ stream \in Nat
  BY <1>1 DEF BufInv, IsRing, Holds
<1>3. PICK z : z = [b EXCEPT !.r = padding, !.w = padding]
  OBVIOUS
<1>4. z = [buf |-> buf, length |-> L, r |-> padding, w |-> padding, ok |-> TRUE]
  BY <1>1, <1>3, Zenon
<1>5. b' = Forget(z, stream) /\ stream' = 0
  BY <1>3 DEF retrieve_all
<1>6. b' = [buf |-> Left(buf, stream), length |-> L, r |-> padding, w |-> padding, ok |-> TRUE]
  BY <1>4, <1>5, Zenon DEF Forget, Left
<1>7. Holds(Left(buf, stream), L, padding, padding, 0)
  BY <1>2, Emptied
<1> QED
  BY <1>5, <1>6, <1>7 DEF BufInv, IsRing, Ring

LEMMA BufInitial == BufInit => BufInv
<1> SUFFICES ASSUME BufInit PROVE BufInv
  OBVIOUS
<1>1. PICK d \in Lengths :
        b = [buf |-> [j \in 0 .. d - 1 |-> Other], length |-> d, r |-> padding,
             w |-> padding, ok |-> TRUE]
  BY Zenon DEF BufInit
<1>2. stream = 0 /\ d \in padding + 1 .. MaxLength
  BY BufferAssumption DEF BufInit
<1>3. PICK buf \in [0 .. d - 1 -> Nat] : buf = [j \in 0 .. d - 1 |-> Other]
  BY Zenon DEF Other
<1>4. Holds(buf, d, padding, padding, 0)
  BY <1>2, Bounds DEF Holds
<1> QED
  BY <1>1, <1>2, <1>3, <1>4 DEF BufInv, IsRing, Ring

LEMMA BufInductive ==
  ASSUME Caller = "bounded"
  PROVE  BufInv /\ [BufNext]_bufVars => BufInv'
<1>1. UNCHANGED bufVars /\ BufInv => BufInv'
  BY DEF bufVars, BufInv
<1> QED
  BY <1>1, AppendStep, SkipStep, RetrieveStep DEF BufNext

\* peek() in one piece or in two.
LEMMA PeekFirst ==
  ASSUME NEW x, NEW s, IsRing(x, s), NEW d \in 1 .. s
  PROVE  peek(x, d) = [k \in 1 .. d |-> k]
<1>1. PICK buf, L, r, w : /\ x.buf = buf /\ x.length = L /\ x.r = r /\ x.w = w
                          /\ Holds(buf, L, r, w, s)
  BY DEF IsRing
<1>2. /\ L \in Nat /\ r \in Nat /\ w \in Nat /\ s \in Nat /\ d \in Nat /\ r <= L /\ w <= L
      /\ s = IF w < r THEN L - r + w ELSE w - r
  BY <1>1, Bounds DEF Holds
<1> DEFINE at(j) == IF j < L THEN buf[j] ELSE Other
           seen(k) == IF w < r /\ L - r <= d /\ k > L - r THEN at(k - 1 - (L - r))
                                                         ELSE at(r + k - 1)
<1>3. peek(x, d) = [k \in 1 .. d |-> seen(k)]
  BY <1>1 DEF peek
<1>4. ASSUME NEW k \in 1 .. d PROVE seen(k) = k
  <2>0. k \in Nat /\ k \in 1 .. s
    BY <1>2
  <2>1. buf[Place(L, r, k)] = k
    BY <1>1, <2>0 DEF Holds
  <2>2. CASE w < r /\ L - r <= d /\ k > L - r
    <3>1. k - 1 - (L - r) = Place(L, r, k) /\ k - 1 - (L - r) < L
      BY <1>2, <2>0, <2>2 DEF Place
    <3> QED
      BY <2>1, <2>2, <3>1
  <2>3. CASE ~(w < r /\ L - r <= d /\ k > L - r)
    <3>1. r + k - 1 = Place(L, r, k) /\ r + k - 1 < L
      BY <1>2, <2>0, <2>3 DEF Place
    <3> QED
      BY <2>1, <2>3, <3>1
  <2> QED
    BY <2>2, <2>3
<1> HIDE DEF seen
<1> QED
  BY <1>3, <1>4

\* Whatever the length of the ring, how it is enlarged and where it wraps,
\* append() with a caller that keeps within the free space, or enlarges a
\* buffer whose bytes start at the padding or whose piece at the end is not
\* the longer one, copies nothing outside an array.
THEOREM RingNeverOverruns ==
  ASSUME Caller = "bounded"
  PROVE  BufSpec => []NoOverrun
<1>1. BufInv => NoOverrun
  BY DEF BufInv, IsRing, Ring, NoOverrun
<1> QED
  BY <1>1, BufInitial, BufInductive, PTL DEF BufSpec

\* With the same caller peek<T>() returns the oldest bytes that skip() has not
\* taken away, in the order in which append() put them in.
THEOREM RingIsAQueue ==
  ASSUME Caller = "bounded"
  PROVE  BufSpec => []PeekReturnsStream
<1>1. BufInv => PeekReturnsStream
  <2> SUFFICES ASSUME BufInv, NEW d \in {1, 2, 4, 8}, d <= stream
               PROVE  peek(b, d) = [k \in 1 .. d |-> k]
    BY Zenon DEF PeekReturnsStream
  <2>1. IsRing(b, stream) /\ stream \in Nat
    BY SMTT(30) DEF BufInv, IsRing, Holds
  <2>2. d \in 1 .. stream
    BY <2>1
  <2> QED
    BY <2>1, <2>2, PeekFirst
<1> QED
  BY <1>1, BufInitial, BufInductive, PTL DEF BufSpec
=============================================================================
