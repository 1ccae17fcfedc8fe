------------------------------ MODULE LoopMain ------------------------------
(***************************************************************************)
(* set/loop/main.cpp: a Loop, a Thread that runs it, and the main thread   *)
(* that pushes a callback that prints and one that calls quit(), and then  *)
(* leaves main(): ~Thread joins, ~Loop asserts is_quit_.                   *)
(***************************************************************************)
EXTENDS Loop, Thread

CONSTANTS hello, stopper  \* the two callbacks of main()

\* The Thread and the Loop of main(): one thread besides the loop's own.
MainProgram ==
  /\ OnceLatch
  /\ Users = {Creator} /\ {hello, stopper} \subseteq Funcs /\ hello # stopper
  /\ Effect[hello] = "none" /\ Effect[stopper] = "quit"

VARIABLE todo  \* the callbacks main() has still to push

vars == <<loopVars, threadVars, todo>>

Init == LoopInit /\ ThreadInit /\ todo = <<hello, stopper>>

\* loop.pushRunable(...), one after the other.
main_push == /\ cp = "constructed" /\ todo # <<>>
             /\ pushRunable(Creator, Head(todo))
             /\ todo' = Tail(todo)
             /\ UNCHANGED threadVars

main_pushed == /\ push_leave(Creator)
               /\ UNCHANGED <<threadVars, todo>>

\* main() returns: the objects are destroyed in reverse order.
main_return == /\ todo = <<>> /\ up[Creator] = <<>>
               /\ destroy
               /\ UNCHANGED <<loopVars, todo>>

Main == \/ main_push \/ main_pushed \/ main_return
        \/ /\ construct \/ once_wait \/ constructed \/ join
           /\ UNCHANGED <<loopVars, todo>>

\* Thread::run calls the lambda, which calls loop.run() and returns with it.
ThreadRun ==
  \/ (set_thread_name \/ once_down) /\ UNCHANGED <<loopVars, todo>>
  \/ /\ tp = "func" /\ lp \notin {"returned", "threw"}
     /\ LoopStep \/ handle_io_source
     /\ UNCHANGED <<threadVars, todo>>
  \/ /\ lp \in {"returned", "threw"}
     /\ func_return
     /\ UNCHANGED <<loopVars, todo>>

Next == /\ state = "ok"
        /\ \/ Main \/ ThreadRun
           \/ once_spurious /\ UNCHANGED <<loopVars, todo>>

(* Both threads are scheduled, and no spurious wake-up is counted on.  The *)
(* spinning loop takes run_mut_ in every round and lets go of it at once:  *)
(* a pushing thread that keeps finding it free in between gets it in the   *)
(* end (SF), as the futex mutexes of the platform let it.                  *)
Spec == /\ Init /\ [][Next]_vars
        /\ WF_vars(state = "ok" /\ Main) /\ SF_vars(state = "ok" /\ main_push)
        /\ WF_vars(state = "ok" /\ ThreadRun)
-----------------------------------------------------------------------------
\* assert(is_quit_ == true) in ~Loop: after ~Thread has joined, whichever way
\* the loop's thread ended.
AssertionHolds == cp = "destroyed" => is_quit_

\* main() leaves only after both callbacks have been called, in their order.
BothCalled == cp = "destroyed" /\ ~raced => ranFrom["idle_"] = <<hello, stopper>>

\* The program ends, unless the unprotected overlap of pushRunable and the
\* loop's swap happened (when it loses quit(), the join never returns).
MainEnds == <>(cp = "destroyed" \/ raced)
=============================================================================
