--------------------------- MODULE SocketPrograms ---------------------------
(***************************************************************************)
(* The small client/server programs of set/tcp_rest, set/api, set/sigurg,  *)
(* set/time, set/poll and set/abstractunix, and net::connectAsync of       *)
(* set/rtt/Sockops.h.  Each of their functions is a straight line of       *)
(* system calls with a few jumps, so each is a sequence of instructions    *)
(* here; SocketMachine says what an instruction does.                      *)
(*                                                                         *)
(* An instruction names the call, its argument, and where its outcomes     *)
(* lead; an outcome it does not name leads to the next instruction (most   *)
(* errors are printed and passed over).  Behind the last one the function  *)
(* returns.  socket() and setsockopt() succeed and are left out; bind() to *)
(* the server's own address is part of listen, whose argument is the       *)
(* backlog.                                                                *)
(***************************************************************************)
EXTENDS Integers, Sequences

Do(op, arg) == [op |-> op, arg |-> arg, to |-> <<>>]
Or(op, arg, label) == [op |-> op, arg |-> arg, to |-> [err |-> label]]
Case(op, arg, to) == [op |-> op, arg |-> arg, to |-> to]

-----------------------------------------------------------------------------
(* tcp_rest/main2.cpp: the server closes at once, the client writes on.    *)

main2_client ==
  << Do("wait", "atom"), Or("connect", "near", 8),
     Or("write", 1, 7), Do("wait", "atom1"), Or("write", 1, 7),
     Do("goto", 8), Do("close", 0) >>

main2_server ==
  << Do("listen", 100), Do("set", "atom"), Do("notify_one", "atom"),
     Do("accept", 0), Do("close", 0), Do("set", "atom1"), Do("notify_one", "atom1"),
     Do("goto", 4) >>

(* tcp_rest/main3.cpp: the server reads once and closes; two writes follow. *)

main3_client ==
  << Do("wait", "atom"), Or("connect", "near", 8),
     Or("write", 1, 7), Do("wait", "atom1"), Or("write", 1, 7), Or("write", 1, 7),
     Do("close", 0) >>

\* Seeded fault: the server closes without having read, as in main2.
main3_server_NoRead ==
  << Do("listen", 100), Do("set", "atom"), Do("notify_one", "atom"),
     Do("accept", 0), Do("close", 0), Do("set", "atom1"), Do("notify_one", "atom1"),
     Do("goto", 4) >>

\* Seeded fault: the flag is set before listen().
main3_server_Early ==
  << Do("set", "atom"), Do("notify_one", "atom"), Do("listen", 100),
     Do("accept", 0), Do("read", 0), Do("close", 0),
     Do("set", "atom1"), Do("notify_one", "atom1"), Do("goto", 4) >>

main3_server ==
  << Do("listen", 100), Do("set", "atom"), Do("notify_one", "atom"),
     Do("accept", 0), Do("read", 0), Do("close", 0),
     Do("set", "atom1"), Do("notify_one", "atom1"), Do("goto", 4) >>

(* tcp_rest/main.cpp: a process that connects to the same port and exits.  *)
tcp_rest_main == << Do("connect", "near"), Do("exit", 0) >>

-----------------------------------------------------------------------------
(* api/main.cpp: four clients, two of them towards an address that this    *)
(* host may not have ("far"); bind() to a local address may fail as well,  *)
(* which changes nothing.                                                  *)

api_client(remote) ==
  << Do("wait", "ck"), Or("connect", remote, 5), Do("send_oob", 0), Do("close", 0) >>

api_server ==
  << Do("listen", 100), Do("set", "ck"), Do("notify_all", "ck"),
     Do("accept", 0), Do("read", 0), Do("assert_name", 0), Do("close", 0), Do("goto", 4) >>

(* sigurg/main.cpp: the urgent byte is read with MSG_OOB.                  *)

sigurg_client ==
  << Do("wait", "ck"), Or("connect", "near", 5), Do("send_oob", 0), Do("close", 0) >>

\* Seeded fault: the urgent byte is asked for before anything was received.
sigurg_server_OobFirst ==
  << Do("listen", 100), Do("set", "ck"), Do("notify_one", "ck"),
     Do("accept", 0), Do("recv_oob", 0), Do("read", 0), Do("close", 0), Do("goto", 4) >>

sigurg_server ==
  << Do("listen", 100), Do("set", "ck"), Do("notify_one", "ck"),
     Do("accept", 0), Do("read", 0), Do("recv_oob", 0), Do("close", 0), Do("goto", 4) >>

-----------------------------------------------------------------------------
(* time/server.cpp: a child per connection.  The child does not exit but   *)
(* goes back to accept(); neither it nor its parent closes the connection. *)

\* Seeded fault: close() where the code has shutdown().
time_server_Close ==
  << Do("listen", 1), Or("accept", 0, 2), Do("fork", 2),
     Do("assert_write", 0), Do("close", 0), Do("goto", 2) >>

\* Seeded fault: the parent answers as well.
time_server_Both ==
  << Do("listen", 1), Or("accept", 0, 2), Do("fork", 4),
     Do("assert_write", 0), Do("shutdown", 0), Do("goto", 2) >>

time_server ==
  << Do("listen", 1), Or("accept", 0, 2), Do("fork", 2),
     Do("assert_write", 0), Do("shutdown", 0), Do("goto", 2) >>

\* time/client.cpp reads until the end of the connection.
time_client ==
  << Or("connect", "near", 4),
     Case("read_answer", 0, [data |-> 2, eof |-> 3, err |-> 3]), Do("exit", 0) >>

-----------------------------------------------------------------------------
(* abstractunix: a client binds a fixed name before it connects, and sends *)
(* for ever what the server never reads.                                   *)

\* Seeded fault: the client connects without a name of its own.
unix_client_NoName == << Or("connect", "near", 4), Do("write", 1), Do("goto", 2), Do("exit", 0) >>

unix_client ==
  << Or("bind_name", 0, 5), Or("connect", "near", 5),
     Do("write", 1), Do("goto", 3), Do("exit", 0) >>

unix_server == << Do("listen", 10), Do("accept", 0), Do("goto", 2) >>

-----------------------------------------------------------------------------
(* poll/main.cpp: connection_refused() through async_net().  A connect()   *)
(* that fails at once closes the socket, and poll() is given -1.           *)
poll_main ==
  << Case("connect_async", 0, [err |-> 2, ok |-> 3, again |-> 3, progress |-> 3]),
     Do("close", 0), Do("poll", 0), Do("so_error", 0) >>

\* Seeded fault: a socket that select() finds writable counts as connected.
connectAsync_NoCheck ==
  << Case("connect_async", 0, [ok |-> 5, again |-> 1, progress |-> 2, err |-> 4]),
     Case("select", 0, [ready |-> 5, timeout |-> 4]),
     Case("so_error", 0, [ok |-> 5, err |-> 4]),
     Do("close", 0) >>

\* net::connectAsync.  (setSocketNotBlock before it returns without doing
\* anything, so the socket is as blocking as the caller made it.)
connectAsync ==
  << Case("connect_async", 0, [ok |-> 5, again |-> 1, progress |-> 2, err |-> 4]),
     Case("select", 0, [ready |-> 3, timeout |-> 4]),
     Case("so_error", 0, [ok |-> 5, err |-> 4]),
     Do("close", 0) >>
=============================================================================
