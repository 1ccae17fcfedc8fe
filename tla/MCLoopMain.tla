----------------------------- MODULE MCLoopMain -----------------------------
(* The instance of LoopMain that set/loop/main.cpp is. *)
EXTENDS LoopMain

Effects == [f \in Funcs |-> IF f = stopper THEN "quit" ELSE "none"]

ASSUME InstanceAssumption == MainProgram
=============================================================================
