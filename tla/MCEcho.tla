------------------------------- MODULE MCEcho -------------------------------
(* The documents of the run of Echo: one fills the buffers, one reconnects. *)
EXTENDS Echo

TwoSetups == {[doc |-> <<"line", "line", "line", "line">>, cap |-> 1],
              [doc |-> <<"line", "q", "line">>, cap |-> 2]}
=============================================================================
