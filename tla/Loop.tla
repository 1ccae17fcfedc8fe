-------------------------------- MODULE Loop --------------------------------
(***************************************************************************)
(* set/loop/Loop.cpp: an event loop run by one thread, fed by others.      *)
(*                                                                         *)
(* pushIdle appends to runable_ holding idle_mut_ and pushRunable appends  *)
(* to idle_ holding run_mut_, while the loop swaps idle_ out holding       *)
(* idle_mut_ and runable_ holding run_mut_.  So an append and a swap of    *)
(* one vector can overlap.  Both are two actions here, entry and exit, and *)
(* an overlap is a data race: the access that ends first takes effect,     *)
(* loses the callback being appended (the swap stores its null pointers    *)
(* over the ones emplace_back has just written), or leaves a vector whose  *)
(* three pointers do not belong together, after which nothing is claimed   *)
(* ("corrupted").                                                          *)
(*                                                                         *)
(* The time the loop spends in IHandle::run is arbitrary: outtime, which   *)
(* only sets poll()'s timeout, is left out.                                *)
(***************************************************************************)
EXTENDS Integers, Sequences, FiniteSets

CONSTANTS Users,     \* threads other than the loop's
          Funcs,     \* callbacks, each submitted at most once by a user
          Effect,    \* what a callback does to the loop
          MaxTime,   \* bound on the clock
          IoHandle   \* whether registerIoHandle was called before run()

Vectors == {"idle_", "runable_"}
Mutexes == {"idle_mut_", "run_mut_", "time_mut_"}
Nobody == "nobody"
LoopThread == "loop"

ASSUME LoopAssumption ==
  /\ Nobody \notin Users /\ LoopThread \notin Users
  /\ Effect \in [Funcs -> {"none", "quit", "throw", "runAt"}]
  /\ MaxTime \in Nat /\ IoHandle \in BOOLEAN

\* The mutex the loop holds for a vector, and the one the pushers hold for it.
SwapMutex(v) == IF v = "idle_" THEN "idle_mut_" ELSE "run_mut_"
PushMutex(v) == IF v = "idle_" THEN "run_mut_" ELSE "idle_mut_"

VARIABLES
  is_quit_, timer_,
  vec,     \* idle_ and runable_
  owner,   \* who holds each mutex
  lp,      \* where the loop's thread is in run()
  cur,     \* the vector of the current (or next) handle_runnable
  funcs,   \* handle_runnable's local vector
  stamp,   \* handle_timer's parameter: the time it was called at
  up,      \* <<>>, or the <<vector, callback>> a user is pushing
  now,     \* the clock
  state,   \* "ok", or "corrupted" by the data race
  raced,   \* history: an append and a swap have overlapped
  asked,   \* history: how often each callback was submitted
  ran,     \* history: how often each callback was called
  pushedTo, ranFrom  \* history: callbacks pushed to / called from each vector

control == <<is_quit_, lp, cur, stamp>>
queues == <<timer_, vec, funcs>>
sync == <<owner, up, state, raced>>
history == <<asked, ran, pushedTo, ranFrom>>
loopVars == <<control, queues, sync, now, history>>

LoopInit ==
  /\ is_quit_ = TRUE /\ timer_ = {} /\ vec = [v \in Vectors |-> <<>>]
  /\ owner = [m \in Mutexes |-> Nobody]
  /\ lp = "before" /\ cur = "idle_" /\ funcs = <<>> /\ stamp = 0
  /\ up = [u \in Users |-> <<>>]
  /\ now = 0 /\ state = "ok" /\ raced = FALSE
  /\ asked = [f \in Funcs |-> 0] /\ ran = [f \in Funcs |-> 0]
  /\ pushedTo = [v \in Vectors |-> <<>>] /\ ranFrom = [v \in Vectors |-> <<>>]

Swapping(v) == lp = "swap" /\ cur = v
Pushing(v) == {u \in Users : up[u] # <<>> /\ up[u][1] = v}

-----------------------------------------------------------------------------
(* What other threads do. *)

\* push_runnable: the lock is taken and emplace_back begins.
push_enter(u, v, f) ==
  /\ up[u] = <<>> /\ asked[f] = 0 /\ owner[PushMutex(v)] = Nobody
  /\ owner' = [owner EXCEPT ![PushMutex(v)] = u]
  /\ up' = [up EXCEPT ![u] = <<v, f>>]
  /\ asked' = [asked EXCEPT ![f] = 1]
  /\ pushedTo' = [pushedTo EXCEPT ![v] = Append(@, f)]
  /\ UNCHANGED <<control, queues, state, raced, now, ran, ranFrom>>

\* emplace_back ends and the lock is released.
push_leave(u) ==
  /\ up[u] # <<>>
  /\ LET v == up[u][1]
     IN  /\ owner' = [owner EXCEPT ![PushMutex(v)] = Nobody]
         /\ raced' = (raced \/ Swapping(v))
         /\ \/ vec' = [vec EXCEPT ![v] = Append(@, up[u][2])] /\ UNCHANGED state
            \/ Swapping(v) /\ UNCHANGED <<vec, state>>
            \/ Swapping(v) /\ state' = "corrupted" /\ UNCHANGED vec
  /\ up' = [up EXCEPT ![u] = <<>>]
  /\ UNCHANGED <<control, timer_, funcs, now, history>>

pushIdle(u, f) == push_enter(u, "runable_", f)
pushRunable(u, f) == push_enter(u, "idle_", f)

\* quit() called by a user.
quit(u) ==
  /\ up[u] = <<>> /\ ~is_quit_
  /\ is_quit_' = TRUE
  /\ UNCHANGED <<lp, cur, stamp, queues, sync, now, history>>

runAt(u, timestamp, f) ==
  /\ up[u] = <<>> /\ asked[f] = 0 /\ owner["time_mut_"] = Nobody
  /\ timer_' = timer_ \cup {<<timestamp, f>>}
  /\ asked' = [asked EXCEPT ![f] = 1]
  /\ UNCHANGED <<control, vec, funcs, sync, now, ran, pushedTo, ranFrom>>

Tick == /\ now < MaxTime /\ now' = now + 1
        /\ UNCHANGED <<control, queues, sync, history>>

-----------------------------------------------------------------------------
(* The loop's thread: run(). *)

Goto(label) == lp' = label /\ UNCHANGED <<is_quit_, cur, stamp>>

\* is_quit_ = false, whatever it was.
run == /\ lp = "before"
       /\ is_quit_' = FALSE /\ lp' = "check"
       /\ UNCHANGED <<cur, stamp, queues, sync, now, history>>

\* Seeded fault: the flag is cleared inside the loop.
check_quit_Reset == /\ lp = "check"
                    /\ lp' = "lock" /\ is_quit_' = FALSE
                    /\ UNCHANGED <<cur, stamp, queues, sync, now, history>>

check_quit == /\ lp = "check"
              /\ Goto(IF is_quit_ THEN "returned" ELSE "lock")
              /\ UNCHANGED <<queues, sync, now, history>>

\* handle_runnable: the lock is taken and the swap begins.
swap_enter ==
  /\ lp = "lock" /\ owner[SwapMutex(cur)] = Nobody
  /\ owner' = [owner EXCEPT ![SwapMutex(cur)] = LoopThread]
  /\ Goto("swap")
  /\ UNCHANGED <<queues, up, state, raced, now, history>>

\* The swap ends and the lock is released.
swap_leave ==
  /\ lp = "swap"
  /\ owner' = [owner EXCEPT ![SwapMutex(cur)] = Nobody]
  /\ raced' = (raced \/ Pushing(cur) # {})
  /\ funcs' = vec[cur] /\ vec' = [vec EXCEPT ![cur] = <<>>]
  /\ \/ UNCHANGED state
     \/ Pushing(cur) # {} /\ state' = "corrupted"
  /\ Goto("run")
  /\ UNCHANGED <<timer_, up, now, history>>

\* A callback that the loop calls: quit() sets the flag; an exception leaves
\* run(); runAt() needs time_mut_, which this very thread may be holding.
Call(f) ==
  /\ ran' = [ran EXCEPT ![f] = @ + 1]
  /\ is_quit_' = (is_quit_ \/ Effect[f] = "quit")
  /\ lp' = CASE Effect[f] = "throw" -> "threw"
             [] Effect[f] = "runAt" /\ owner["time_mut_"] = LoopThread -> "deadlocked"
             [] OTHER -> lp
  /\ UNCHANGED <<cur, stamp>>

\* Seeded fault: the callbacks are called from the back.
handle_runnable_Reverse ==
  /\ lp = "run" /\ funcs # <<>>
  /\ LET f == funcs[Len(funcs)]
     IN  /\ Call(f)
         /\ funcs' = SubSeq(funcs, 1, Len(funcs) - 1)
         /\ ranFrom' = [ranFrom EXCEPT ![cur] = Append(@, f)]
  /\ UNCHANGED <<timer_, vec, sync, now, asked, pushedTo>>

\* handle_runnable calls the functions it has swapped out, without the lock.
handle_runnable ==
  /\ lp = "run" /\ funcs # <<>>
  /\ LET f == Head(funcs)
         rearms == Effect[f] = "runAt"
     IN  /\ Call(f)
         /\ funcs' = IF Effect[f] = "throw" THEN <<>> ELSE Tail(funcs)
         /\ timer_' = IF rearms THEN timer_ \cup {<<now, f>>} ELSE timer_
         /\ asked' = IF rearms THEN [asked EXCEPT ![f] = @ + 1] ELSE asked
         /\ ranFrom' = [ranFrom EXCEPT ![cur] = Append(@, f)]
  /\ UNCHANGED <<vec, sync, now, pushedTo>>

\* Seeded fault: the vector is cleared after the calls, without the lock.
runnables_done_Clear ==
  /\ lp = "run" /\ funcs = <<>>
  /\ vec' = [vec EXCEPT ![cur] = <<>>]
  /\ IF cur = "idle_" THEN lp' = "io" /\ cur' = "runable_"
                      ELSE lp' = "check" /\ cur' = "idle_"
  /\ UNCHANGED <<is_quit_, stamp, timer_, funcs, sync, now, history>>

\* Seeded fault: both calls of handle_runnable are given idle_.
runnables_done_SameVector ==
  /\ lp = "run" /\ funcs = <<>>
  /\ \E next \in {"io", "check"} : lp' = next
  /\ UNCHANGED <<is_quit_, cur, stamp, queues, sync, now, history>>

\* All called: I/O is next after idle_, the head of the loop after runable_.
runnables_done ==
  /\ lp = "run" /\ funcs = <<>>
  /\ IF cur = "idle_" THEN lp' = "io" /\ cur' = "runable_"
                      ELSE lp' = "check" /\ cur' = "idle_"
  /\ UNCHANGED <<is_quit_, stamp, queues, sync, now, history>>

\* IHandle::run returns, or there is no handle; handle_timer is called.
handle_io_source == /\ lp = "io"
                    /\ lp' = "timer_lock" /\ stamp' = now
                    /\ UNCHANGED <<is_quit_, cur, queues, sync, now, history>>

timer_enter ==
  /\ lp = "timer_lock" /\ owner["time_mut_"] = Nobody
  /\ owner' = [owner EXCEPT !["time_mut_"] = LoopThread]
  /\ Goto("timer")
  /\ UNCHANGED <<queues, up, state, raced, now, history>>

Top == {e \in timer_ : \A d \in timer_ : e[1] <= d[1]}

\* The earliest timer is due: it is called with time_mut_ held, then popped.
\* An exception unlocks time_mut_ and leaves the timer in the queue.
handle_timer ==
  /\ lp = "timer"
  /\ \E e \in Top :
       /\ e[1] <= stamp
       /\ Call(e[2])
       /\ timer_' = IF lp' = "timer" THEN timer_ \ {e} ELSE timer_
       /\ owner' = IF lp' = "threw" THEN [owner EXCEPT !["time_mut_"] = Nobody]
                                    ELSE owner
  /\ UNCHANGED <<vec, funcs, up, state, raced, now, asked, pushedTo, ranFrom>>

\* No timer is due (any more).
timer_leave ==
  /\ lp = "timer" /\ \A e \in Top : e[1] > stamp
  /\ owner' = [owner EXCEPT !["time_mut_"] = Nobody]
  /\ Goto("lock")
  /\ UNCHANGED <<queues, up, state, raced, now, history>>

LoopStep == \/ run \/ check_quit \/ swap_enter \/ swap_leave
            \/ handle_runnable \/ runnables_done
            \/ timer_enter \/ handle_timer \/ timer_leave

UserStep(u) ==
  \/ \E f \in Funcs : \/ pushIdle(u, f) \/ pushRunable(u, f)
                      \/ \E at \in 0 .. MaxTime : runAt(u, at, f)
  \/ quit(u)

LoopNext == /\ state = "ok"
            /\ \/ LoopStep \/ handle_io_source \/ Tick
               \/ \E u \in Users : UserStep(u) \/ push_leave(u)

(* The loop's thread and a thread inside emplace_back keep running and     *)
(* time passes; no user has to call anything.  IHandle::run is bound to    *)
(* return only when there is no handle.                                    *)
LoopFairness ==
  /\ WF_loopVars(state = "ok" /\ LoopStep)
  /\ WF_loopVars(state = "ok" /\ ~IoHandle /\ handle_io_source)
  /\ WF_loopVars(state = "ok" /\ Tick)
  /\ \A u \in Users : WF_loopVars(state = "ok" /\ push_leave(u))

LoopSpec == LoopInit /\ [][LoopNext]_loopVars /\ LoopFairness
-----------------------------------------------------------------------------
Occurrences(f, s) == Cardinality({i \in DOMAIN s : s[i] = f})
Pending(f) ==
  Occurrences(f, vec["idle_"]) + Occurrences(f, vec["runable_"])
    + Occurrences(f, funcs) + Cardinality({e \in timer_ : e[2] = f})
    + Cardinality({u \in Users : up[u] # <<>> /\ up[u][2] = f})

\* Unless a push raced with a swap, or a callback threw or locked itself out,
\* no callback is lost or called twice: each submission is still pending or
\* has been called.
EverySubmissionCounts ==
  ~raced /\ lp \notin {"threw", "deadlocked"} =>
    \A f \in Funcs : asked[f] = ran[f] + Pending(f)

\* Callbacks of one vector are called in the order they were pushed to it,
\* with gaps only where the race lost one.
CalledInPushOrder ==
  \A v \in Vectors : \A i, j \in DOMAIN ranFrom[v] :
    i < j => \E k, l \in DOMAIN pushedTo[v] :
      k < l /\ pushedTo[v][k] = ranFrom[v][i] /\ pushedTo[v][l] = ranFrom[v][j]

\* assert(is_quit_ == true) in ~Loop, for a Loop destroyed after run() ended.
QuitWhenOver == lp \in {"returned", "threw"} => is_quit_

Over == lp \in {"returned", "threw", "deadlocked"} \/ state = "corrupted"

\* A quit() that finds the loop running ends it.  (One that comes before
\* run() is overwritten by `is_quit_ = false`.)
QuitEndsLoop == (is_quit_ /\ lp # "before") ~> Over

\* Whatever is submitted is called, unless the loop ends or the race loses it.
SubmittedIsCalled ==
  \A f \in Funcs : (asked[f] > 0) ~>
    (ran[f] > 0 \/ raced \/ (is_quit_ /\ lp # "before") \/ Over)
=============================================================================
