------------------------------- MODULE Thread -------------------------------
(***************************************************************************)
(* set/thread_pool/Thread.h: an object that owns one std::thread.  The     *)
(* constructor starts it and waits on the latch once_ (Count<1>) until the *)
(* new thread has given itself its name; the destructor joins it.          *)
(*                                                                         *)
(* The new thread reads thread_.native_handle(), which pthread_create has  *)
(* written before the thread runs.                                         *)
(***************************************************************************)
EXTENDS Count

CONSTANT Creator  \* the thread that constructs and destroys the object

\* once_ is a Count<1>; the creator waits on it, run() counts it down once.
OnceLatch == count = 1 /\ Waiters = {Creator} /\ MaxDowns = 1

VARIABLES cp,    \* where the creator is in the object's life
          tp,    \* where the new thread is in Thread::run
          named  \* pthread_setname_np has been called

threadVars == <<countVars, cp, tp, named>>

ThreadInit == /\ CountInit
              /\ cp = "start" /\ tp = "none" /\ named = FALSE

\* The member initialisers, ending with thread_: the thread exists; the body
\* of the constructor calls once_.wait().
construct == /\ cp = "start"
             /\ cp' = "constructing" /\ tp' = "naming"
             /\ wait(Creator)
             /\ UNCHANGED named

once_wait == /\ cp = "constructing"
             /\ wait_check(Creator)
             /\ UNCHANGED <<cp, tp, named>>

once_spurious == /\ cp = "constructing"
                 /\ wait_spurious(Creator)
                 /\ UNCHANGED <<cp, tp, named>>

constructed == /\ cp = "constructing" /\ wp[Creator] = "passed"
               /\ cp' = "constructed"
               /\ UNCHANGED <<countVars, tp, named>>

\* Seeded fault: the latch is opened before the name is set.
set_thread_name_Late == /\ tp = "naming"
                        /\ tp' = "down"
                        /\ UNCHANGED <<countVars, cp, named>>

\* The name is set unless it is empty.
set_thread_name == /\ tp = "naming"
                   /\ tp' = "down" /\ named' = TRUE
                   /\ UNCHANGED <<countVars, cp>>

once_down == /\ tp = "down"
             /\ down
             /\ tp' = "func"
             /\ UNCHANGED <<cp, named>>

\* func returns, or throws and is caught.
func_return == /\ tp = "func"
               /\ tp' = "done"
               /\ UNCHANGED <<countVars, cp, named>>

\* The owner lets go of the object: ~Thread begins.
destroy == /\ cp = "constructed"
           /\ cp' = "joining"
           /\ UNCHANGED <<countVars, tp, named>>

\* Seeded fault: the destructor detaches the thread.
join_Detach == /\ cp = "joining"
               /\ cp' = "destroyed"
               /\ UNCHANGED <<countVars, tp, named>>

\* thread_.join() returns once run() has.
join == /\ cp = "joining" /\ tp = "done"
        /\ cp' = "destroyed"
        /\ UNCHANGED <<countVars, tp, named>>
-----------------------------------------------------------------------------
\* Once the constructor has returned the thread bears its name (that is what
\* once_ is for).
NamedWhenConstructed ==
  cp \in {"constructed", "joining", "destroyed"} => named

=============================================================================
