------------------------------- MODULE MCLoop -------------------------------
(* Instances of Loop for TLC. *)
EXTENDS Loop, TLC

CONSTANTS hello, stopper, later, bad

\* hello only prints; stopper calls quit(); later calls runAt() for itself.
Effects == [f \in Funcs |-> CASE f = stopper -> "quit"
                              [] f = later -> "runAt"
                              [] f = bad -> "throw"
                              [] OTHER -> "none"]
=============================================================================
