-------------------------------- MODULE Count --------------------------------
(***************************************************************************)
(* set/thread_pool/Count.h: a count-down latch.  down() and the predicate  *)
(* of wait() run under mut_, so each is one action; con_.wait(lock, pred)  *)
(* checks, blocks, and checks again whenever it is woken.                  *)
(***************************************************************************)
EXTENDS Integers

CONSTANTS count,     \* the template argument, a uint16_t
          Waiters,   \* the threads that call wait()
          MaxDowns   \* bound: how often down() is called

UINT16 == 65536

ASSUME CountAssumption ==
  count \in Nat /\ 0 < count /\ count < UINT16
    /\ MaxDowns \in Nat /\ MaxDowns < UINT16

VARIABLES count_,  \* Count::count_
          wp,      \* where each waiter is in wait()
          downs    \* history: how often down() has been called

countVars == <<count_, wp, downs>>

CountInit == /\ count_ = count
             /\ wp = [w \in Waiters |-> "idle"]
             /\ downs = 0

Dec(n) == (n + UINT16 - 1) % UINT16

\* Seeded fault: the notification comes before the last decrement.
down_Early ==
  /\ downs < MaxDowns
  /\ downs' = downs + 1
  /\ count_' = Dec(count_)
  /\ wp' = [w \in Waiters |-> IF wp[w] = "blocked" /\ count_' = 1
                                THEN "check" ELSE wp[w]]

\* Seeded fault: the latch counts two for one call.
down_ByTwo ==
  /\ downs < MaxDowns
  /\ downs' = downs + 1
  /\ count_' = IF count_ <= 1 THEN 0 ELSE count_ - 2
  /\ wp' = [w \in Waiters |-> IF wp[w] = "blocked" /\ count_' = 0
                                THEN "check" ELSE wp[w]]

\* count_--, and notify_all when it has become 0.
down ==
  /\ downs < MaxDowns
  /\ downs' = downs + 1
  /\ count_' = Dec(count_)
  /\ wp' = [w \in Waiters |-> IF wp[w] = "blocked" /\ count_' = 0
                                THEN "check" ELSE wp[w]]

wait(w) == /\ wp[w] = "idle"
           /\ wp' = [wp EXCEPT ![w] = "check"]
           /\ UNCHANGED <<count_, downs>>

\* The predicate, evaluated with the lock held, and what follows from it.
wait_check(w) ==
  /\ wp[w] = "check"
  /\ wp' = [wp EXCEPT ![w] = IF count_ = 0 THEN "passed" ELSE "blocked"]
  /\ UNCHANGED <<count_, downs>>

wait_spurious(w) == /\ wp[w] = "blocked"
                    /\ wp' = [wp EXCEPT ![w] = "check"]
                    /\ UNCHANGED <<count_, downs>>

CountNext == \/ down
             \/ \E w \in Waiters : wait(w) \/ wait_check(w) \/ wait_spurious(w)

CountSpec == CountInit /\ [][CountNext]_countVars
               /\ \A w \in Waiters : WF_countVars(wait_check(w))

-----------------------------------------------------------------------------
\* wait() returns only after down() has been called `count` times.
LatchHolds == (\E w \in Waiters : wp[w] = "passed") => downs >= count

\* No release is missed: between the count-th down() and a further one no
\* thread is blocked in wait(), whenever it arrived.
NoMissedRelease == downs = count => \A w \in Waiters : wp[w] # "blocked"

\* A waiter of an opened latch gets through, unless a further down() wraps the
\* uint16_t counter to 65535 and closes the latch again.
OpenLatchReleases ==
  \A w \in Waiters :
    (downs = count /\ wp[w] \in {"check", "blocked"})
      ~> (wp[w] = "passed" \/ downs > count)
=============================================================================
