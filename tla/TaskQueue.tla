------------------------------ MODULE TaskQueue ------------------------------
(***************************************************************************)
(* What set/thread_pool promises to a caller, without threads waiting,     *)
(* locks or condition variables: submitted tasks stand in one line, a      *)
(* worker takes the task at the front, holds it while it runs, and a task  *)
(* that has run is never seen again.                                       *)
(***************************************************************************)
EXTENDS Sequences

CONSTANTS Workers, Tasks, NoTask

VARIABLES line,  \* submitted tasks nobody has taken yet, oldest first
          held,  \* the task each worker is running, or NoTask
          ran    \* the tasks that have run

vars == <<line, held, ran>>

Known(t) == \/ \E i \in DOMAIN line : line[i] = t
            \/ \E w \in Workers : held[w] = t
            \/ t \in ran

Init == line = <<>> /\ held = [w \in Workers |-> NoTask] /\ ran = {}

Submit(t) == /\ ~Known(t)
             /\ line' = Append(line, t)
             /\ UNCHANGED <<held, ran>>

Start(w) == /\ held[w] = NoTask /\ line # <<>>
            /\ held' = [held EXCEPT ![w] = Head(line)]
            /\ line' = Tail(line)
            /\ UNCHANGED ran

Finish(w) == /\ held[w] # NoTask /\ held[w] \notin ran
             /\ ran' = ran \cup {held[w]}
             /\ held' = [held EXCEPT ![w] = NoTask]
             /\ UNCHANGED line

Next == \/ \E t \in Tasks : Submit(t)
        \/ \E w \in Workers : Start(w) \/ Finish(w)

Spec == Init /\ [][Next]_vars
=============================================================================
