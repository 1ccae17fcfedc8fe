---------------------------- MODULE MCFdPassing ----------------------------
(* Limits under which pollfds outgrows poll(), and the acceptor runs out.  *)
EXTENDS FdPassing

TwoLimits == {[open |-> 3, nofile |-> 3], [open |-> 2, nofile |-> 3]}
=============================================================================
