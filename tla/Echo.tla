-------------------------------- MODULE Echo --------------------------------
(***************************************************************************)
(* set/echo: echo.server.cpp polls its connections and sends back what it  *)
(* reads; echo.client.cpp selects on standard input and its connection,    *)
(* shuts down its sending side at the end of the input, and leaves when    *)
(* the server has closed.  Both block in read and write.  A named pipe     *)
(* lets a client start only once the server has.                           *)
(*                                                                         *)
(* A line is named by its connection and its number among the lines        *)
(* written on it.  Two uninitialised variables are free choices: revents of a *)
(* new slot of the server, and the client's fd_set, which may hold a       *)
(* descriptor that is not open, so that select() fails and leaves the set  *)
(* as it was.                                                              *)
(***************************************************************************)
EXTENDS Integers, Sequences, FiniteSets

CONSTANTS Clients,
          Setups,    \* what echo.doc.txt may hold, with the buffers' size: see setup
          MaxConns   \* bound: connections in all

ASSUME EchoAssumption == MaxConns \in Nat /\ \A x \in Setups :
  x.doc \in Seq({"line", "q"}) /\ x.cap \in Nat \ {0}

Conns == 1 .. MaxConns
None == 0

VARIABLES
  spc, at,         \* server: where it is; the slot it is at
  backlog, slots,  \* server: the listen queue; client_fds[1], client_fds[2], ...
  opened,          \* server: the slots whose fd is not -1
  revents, newcomer,  \* server: the slots with POLLRDNORM; the same for sock_fd
  pending,         \* server: what is being sent
  up, down,        \* lines on their way to and from the server
  upEnd, downEnd,  \* whether that direction is "open", ended ("fin") or broken ("rst")
  setup,           \* doc: the lines, "q" for one that starts so; cap: lines a
                   \* connection can buffer in each direction
  cpc, conn,       \* clients: where each is; its connection
  input,           \* clients: what fgets has still to return
  stand_id_flag,   \* clients: the end of the input was seen
  junk,            \* clients: the fd_set holds a descriptor that is not open
  fdset,           \* clients: what FD_ISSET finds
  used, wrote, got \* history: connections made; lines written, lines printed on each

server == <<spc, at, slots, opened, revents, newcomer, pending>>
wire == <<up, down, upEnd, downEnd>>
clients == <<cpc, conn, input, stand_id_flag, junk, fdset>>
history == <<used, wrote, got>>
echoVars == <<server, backlog, wire, setup, clients, history>>

EchoInit ==
  /\ spc = "start" /\ at = 1 /\ backlog = <<>> /\ slots = <<>>
  /\ opened = {} /\ revents = {} /\ newcomer = FALSE /\ pending = <<>>
  /\ up = [k \in Conns |-> <<>>] /\ down = [k \in Conns |-> <<>>]
  /\ upEnd = [k \in Conns |-> "open"] /\ downEnd = [k \in Conns |-> "open"]
  /\ cpc = [c \in Clients |-> "start"] /\ conn = [c \in Clients |-> None]
  /\ setup \in Setups /\ input = [c \in Clients |-> setup.doc]
  /\ stand_id_flag = [c \in Clients |-> FALSE] /\ junk = [c \in Clients |-> FALSE]
  /\ fdset = [c \in Clients |-> {}]
  /\ used = 0 /\ wrote = [k \in Conns |-> 0] /\ got = [k \in Conns |-> <<>>]

-----------------------------------------------------------------------------
(* Start-up: each end of the pipe is opened when the other one is. *)

create_fifo == /\ spc = "start" /\ \E c \in Clients : cpc[c] = "start"
               /\ spc' = "setup"
               /\ UNCHANGED <<at, slots, opened, revents, newcomer, pending,
                              backlog, wire, clients, history>>

listen == /\ spc = "setup"
          /\ spc' = "poll"
          /\ UNCHANGED <<at, slots, opened, revents, newcomer, pending,
                         backlog, wire, clients, history>>

\* A client that finds no pipe exits.
open_fifo(c) == /\ cpc[c] = "start"
                /\ \/ spc # "start" /\ cpc' = [cpc EXCEPT ![c] = "connect"]
                   \/ spc = "start" /\ cpc' = [cpc EXCEPT ![c] = "refused"]
                /\ UNCHANGED <<server, backlog, wire, conn, input, stand_id_flag,
                               junk, fdset, history>>

-----------------------------------------------------------------------------
(* The server's loop. *)

Readable(k) == up[k] # <<>> \/ upEnd[k] # "open"

poll == /\ spc = "poll"
        /\ backlog # <<>> \/ \E k \in opened : Readable(k)
        /\ newcomer' = (backlog # <<>>)
        /\ revents' = {k \in opened : Readable(k)}
        /\ spc' = "accept"
        /\ UNCHANGED <<at, slots, opened, pending, backlog, wire, clients, history>>

\* accept; revents of the new slot is whatever the stack held.
accept ==
  /\ spc = "accept" /\ spc' = "slots" /\ at' = 1
  /\ IF newcomer
       THEN /\ slots' = Append(slots, Head(backlog)) /\ backlog' = Tail(backlog)
            /\ opened' = opened \cup {Head(backlog)}
            /\ \/ revents' = revents \cup {Head(backlog)}
               \/ UNCHANGED revents
       ELSE UNCHANGED <<slots, backlog, opened, revents>>
  /\ UNCHANGED <<newcomer, pending, wire, clients, history>>

\* Seeded fault: the end of a client's data is skipped, not answered with
\* close().
read_NoClose(k) ==
  \/ /\ up[k] # <<>> /\ pending' = up[k] /\ spc' = "send"
     /\ up' = [up EXCEPT ![k] = <<>>]
     /\ UNCHANGED <<at, opened, upEnd, downEnd>>
  \/ /\ up[k] = <<>> /\ upEnd[k] # "open" /\ at' = at + 1
     /\ UNCHANGED <<spc, pending, opened, up, upEnd, downEnd>>

\* read() and what follows: all or a part of what there is, the end, or the
\* error of a broken connection, after which read() reports the end.  It
\* blocks while there is nothing.
read(k) ==
  \/ \E m \in 1 .. Len(up[k]) :
       /\ pending' = SubSeq(up[k], 1, m)
       /\ up' = [up EXCEPT ![k] = SubSeq(@, m + 1, Len(@))]
       /\ spc' = "send"
       /\ UNCHANGED <<at, opened, upEnd, downEnd>>
  \/ /\ up[k] = <<>> /\ upEnd[k] = "fin"
     /\ opened' = opened \ {k} /\ downEnd' = [downEnd EXCEPT ![k] = "fin"]
     /\ at' = at + 1
     /\ UNCHANGED <<spc, pending, up, upEnd>>
  \/ /\ up[k] = <<>> /\ upEnd[k] = "rst"
     /\ upEnd' = [upEnd EXCEPT ![k] = "fin"]
     /\ at' = at + 1
     /\ UNCHANGED <<spc, pending, opened, up, downEnd>>

slot ==
  /\ spc = "slots"
  /\ IF at > Len(slots)
       THEN spc' = "poll" /\ UNCHANGED <<at, opened, pending, up, upEnd, downEnd>>
     ELSE IF slots[at] \in opened /\ slots[at] \in revents
       THEN read(slots[at])
     ELSE at' = at + 1 /\ UNCHANGED <<spc, opened, pending, up, upEnd, downEnd>>
  /\ UNCHANGED <<slots, revents, newcomer, backlog, down, clients, history>>

Gone(k) == \A c \in Clients : conn[c] # k

\* Seeded fault: the index has moved on when the echo is sent.
send_Next ==
  /\ spc = "send" /\ spc' = "slots" /\ at' = at + 1 /\ pending' = <<>>
  /\ LET k == slots[IF at < Len(slots) THEN at + 1 ELSE at]
     IN  down' = [down EXCEPT ![k] = @ \o pending]
  /\ UNCHANGED <<slots, opened, revents, newcomer, backlog, up, upEnd, downEnd,
                 clients, history>>

\* send() blocks while there is no room; with nobody at the other end it
\* fails, which is not looked at (SIGPIPE is blocked), or the other end
\* answers it by breaking the connection.
send ==
  /\ spc = "send" /\ spc' = "slots" /\ at' = at + 1 /\ pending' = <<>>
  /\ LET k == slots[at]
     IN  \/ /\ Gone(k) /\ UNCHANGED down
            /\ \E end \in {upEnd[k], "rst"} : upEnd' = [upEnd EXCEPT ![k] = end]
         \/ /\ ~Gone(k) /\ (down[k] = <<>> \/ Len(down[k]) + Len(pending) <= setup.cap)
            /\ down' = [down EXCEPT ![k] = @ \o pending]
            /\ UNCHANGED upEnd
  /\ UNCHANGED <<slots, opened, revents, newcomer, backlog, up, downEnd,
                 clients, history>>

Server == UNCHANGED setup /\ (create_fifo \/ listen \/ poll \/ accept \/ slot \/ send)
-----------------------------------------------------------------------------
(* A client. *)

\* socket, bind, connect: refused while nobody listens; it may also fail
\* because the fixed local port is still in use.
connect(c) ==
  /\ cpc[c] = "connect"
  /\ \/ /\ cpc' = [cpc EXCEPT ![c] = "refused"]
        /\ UNCHANGED <<conn, junk, backlog, used>>
     \/ /\ spc # "setup" /\ used < MaxConns
        /\ used' = used + 1 /\ conn' = [conn EXCEPT ![c] = used']
        /\ backlog' = Append(backlog, used')
        /\ \E j \in BOOLEAN : junk' = [junk EXCEPT ![c] = j]
        /\ cpc' = [cpc EXCEPT ![c] = "select"]
  /\ stand_id_flag' = [stand_id_flag EXCEPT ![c] = FALSE]
  /\ UNCHANGED <<server, wire, input, fdset, wrote, got>>

Answer(c) == LET k == conn[c] IN down[k] # <<>> \/ downEnd[k] # "open"

\* FD_SET and select().
select(c) ==
  /\ cpc[c] = "select"
  /\ LET stdin == IF stand_id_flag[c] THEN {} ELSE {"stdin"}
         found == IF junk[c] THEN stdin \cup {"sock"}
                  ELSE IF Answer(c) THEN stdin \cup {"sock"} ELSE stdin
     IN  found # {} /\ fdset' = [fdset EXCEPT ![c] = found]
  /\ cpc' = [cpc EXCEPT ![c] = "stdin"]
  /\ UNCHANGED <<server, backlog, wire, conn, input, stand_id_flag, junk, history>>

\* Seeded fault: at the end of the input the socket is closed, not shut down
\* for sending.
at_eof_Close(c) ==
  /\ upEnd' = [upEnd EXCEPT ![conn[c]] = "fin"]
  /\ cpc' = [cpc EXCEPT ![c] = "exited"]
  /\ stand_id_flag' = [stand_id_flag EXCEPT ![c] = TRUE]
  /\ UNCHANGED <<conn, input, up, wrote>>

\* fgets returns nullptr: no more is sent, but the echo is still awaited.
at_eof(c) ==
  /\ upEnd' = [upEnd EXCEPT ![conn[c]] = "fin"]
  /\ cpc' = [cpc EXCEPT ![c] = "select"]
  /\ stand_id_flag' = [stand_id_flag EXCEPT ![c] = TRUE]
  /\ UNCHANGED <<conn, input, up, wrote>>

\* A line that starts with q: close, which breaks the connection when there
\* is something unread, and reconnect.  The input is opened again, behind
\* what fgets has already buffered.
at_q(c) ==
  /\ upEnd' = [upEnd EXCEPT ![conn[c]] = IF down[conn[c]] = <<>> THEN "fin" ELSE "rst"]
  /\ cpc' = [cpc EXCEPT ![c] = "connect"] /\ conn' = [conn EXCEPT ![c] = None]
  /\ input' = [input EXCEPT ![c] = Tail(@) \o setup.doc]
  /\ UNCHANGED <<stand_id_flag, up, wrote>>

\* Any other line is written; write() blocks while there is no room.
at_line(c) ==
  LET k == conn[c]
  IN  /\ Len(up[k]) < setup.cap
      /\ up' = [up EXCEPT ![k] = Append(@, <<k, wrote[k] + 1>>)]
      /\ wrote' = [wrote EXCEPT ![k] = @ + 1]
      /\ cpc' = [cpc EXCEPT ![c] = "sock"]
      /\ input' = [input EXCEPT ![c] = Tail(@)]
      /\ UNCHANGED <<conn, stand_id_flag, upEnd>>

stdin(c) ==
  /\ cpc[c] = "stdin"
  /\ \/ /\ "stdin" \notin fdset[c]
        /\ cpc' = [cpc EXCEPT ![c] = "sock"]
        /\ UNCHANGED <<conn, input, stand_id_flag, up, upEnd, wrote>>
     \/ "stdin" \in fdset[c] /\ input[c] = <<>> /\ at_eof(c)
     \/ "stdin" \in fdset[c] /\ input[c] # <<>> /\ Head(input[c]) = "q" /\ at_q(c)
     \/ "stdin" \in fdset[c] /\ input[c] # <<>> /\ Head(input[c]) # "q" /\ at_line(c)
  /\ UNCHANGED <<server, backlog, down, downEnd, junk, fdset, used, got>>

\* read() from the server: print it, or leave when the server has closed.
sock(c) ==
  /\ cpc[c] = "sock"
  /\ LET k == conn[c]
     IN  \/ /\ "sock" \notin fdset[c]
            /\ cpc' = [cpc EXCEPT ![c] = "select"]
            /\ UNCHANGED <<down, got>>
         \/ /\ "sock" \in fdset[c] /\ down[k] # <<>>
            /\ got' = [got EXCEPT ![k] = @ \o down[k]]
            /\ down' = [down EXCEPT ![k] = <<>>]
            /\ cpc' = [cpc EXCEPT ![c] = "select"]
         \/ /\ "sock" \in fdset[c] /\ down[k] = <<>> /\ downEnd[k] = "fin"
            /\ cpc' = [cpc EXCEPT ![c] = "exited"]
            /\ UNCHANGED <<down, got>>
  /\ UNCHANGED <<server, backlog, up, upEnd, downEnd, conn, input, stand_id_flag,
                 junk, fdset, used, wrote>>

Client(c) == /\ open_fifo(c) \/ connect(c) \/ select(c) \/ stdin(c) \/ sock(c)
             /\ UNCHANGED setup

EchoNext == Server \/ \E c \in Clients : Client(c)

(* The processes are scheduled.  A server that blocks on one connection    *)
(* does not serve the others, so the clients' fairness matters for each    *)
(* other's progress.                                                       *)
EchoSpec ==
  EchoInit /\ [][EchoNext]_echoVars
  /\ WF_echoVars(Server) /\ \A c \in Clients : WF_echoVars(Client(c))
-----------------------------------------------------------------------------
\* A client prints the lines it wrote on that connection, in their order and
\* each once, and none of another client.
EchoesInOrder == \A k \in Conns : \A j \in DOMAIN got[k] : got[k][j] = <<k, j>>

\* A client that leaves because the server closed has printed everything it
\* wrote (this is what shutdown(SHUT_WR) instead of close() is for).
NothingMissing ==
  \A c \in Clients :
    cpc[c] = "exited" => input[c] = <<>> /\ Len(got[conn[c]]) = wrote[conn[c]]

\* Server and client wait for each other: each has filled its direction of
\* the connection and reads only after its write has ended.
Jammed(c) ==
  LET k == conn[c]
  IN  /\ spc = "send" /\ slots[at] = k /\ Len(down[k]) + Len(pending) > setup.cap
      /\ cpc[c] = "stdin" /\ "stdin" \in fdset[c] /\ Len(up[k]) = setup.cap

\* Every client comes to its end, refused or after the whole echo, unless one
\* of them and the server block in write() on each other.
ClientsEnd ==
  \A c \in Clients : (cpc[c] = "connect") ~>
    (cpc[c] \in {"exited", "refused"} \/ \E d \in Clients : Jammed(d))
=============================================================================
