------------------------------- MODULE EchoFd -------------------------------
(***************************************************************************)
(* set/echo_fd: a load test of the echo server by its number of            *)
(* connections.  The client starts a thread per network device, each of    *)
(* which connects again and again and closes nothing; a failing socket()   *)
(* or bind() ends the process, and with it every connection.  The server   *)
(* is the one of set/echo, seen here through its descriptors: accept()     *)
(* gives the lowest free number, close() frees it, and client_fds keeps a  *)
(* slot for every connection there ever was.  Nobody sends anything.       *)
(***************************************************************************)
EXTENDS Integers, Sequences

CONSTANTS Devices,    \* lines of echo.doc.txt that name a device
          NoFile,     \* server: RLIMIT_NOFILE, 4 of it in use from the start
          ClientMax,  \* client: descriptors it can have beyond the ones it starts with
          Attempts,   \* the 28000 rounds of a thread
          Runs,       \* bound: how often the client is started
          MaxConns    \* bound: connections in all

ASSUME EchoFdAssumption ==
  NoFile \in Nat /\ NoFile > 4 /\ {ClientMax, Attempts, Runs, MaxConns} \subseteq Nat

Connections == 1 .. MaxConns
Fds == 4 .. NoFile - 1

VARIABLES
  tpc, j,           \* client threads: where each is; its rounds so far
  fds,              \* client: descriptors it has opened
  live,             \* connections whose client end is open
  runs, made,       \* how often the client was started; connections made
  spc, at,          \* server: where it is; the slot it is at
  queue,            \* server: the listen queue
  client_fds,       \* server: the .fd of client_fds[1], client_fds[2], ...
  file,             \* server: descriptor -> its connection, 0 if it is free
  rdnorm, newcomer  \* server: slots whose revents has POLLRDNORM; the same for sock_fd

clientVars == <<tpc, j, fds, live, runs, made>>
serverVars == <<spc, at, client_fds, file, rdnorm, newcomer>>
echoFdVars == <<clientVars, serverVars, queue>>

EchoFdInit ==
  /\ tpc = [d \in Devices |-> "none"] /\ j = [d \in Devices |-> 0]
  /\ fds = 0 /\ live = {} /\ runs = 0 /\ made = 0
  /\ spc = "poll" /\ at = 1 /\ queue = <<>> /\ client_fds = <<>>
  /\ file = [f \in Fds |-> 0] /\ rdnorm = {} /\ newcomer = FALSE

-----------------------------------------------------------------------------
(* The client. *)

Running == \E d \in Devices : tpc[d] # "none"

start == /\ ~Running /\ runs < Runs /\ runs' = runs + 1
         /\ tpc' = [d \in Devices |-> "unread"] /\ j' = [d \in Devices |-> 0]
         /\ fds' = 0 /\ live' = {}
         /\ UNCHANGED <<made, serverVars, queue>>

Free == fds < ClientMax

\* get_local_ip, whose socket stays open; a device without an address is
\* skipped.  Without a descriptor left the thread gets a bad address, but
\* its own socket() fails first.
get_local_ip(d) ==
  /\ tpc[d] = "unread"
  /\ \/ Free /\ fds' = fds + 1 /\ tpc' = [tpc EXCEPT ![d] = "socket"]
     \/ Free /\ fds' = fds + 1 /\ tpc' = [tpc EXCEPT ![d] = "skipped"]
     \/ ~Free /\ UNCHANGED fds /\ tpc' = [tpc EXCEPT ![d] = "socket"]
  /\ UNCHANGED <<j, live, runs, made, serverVars, queue>>

exit == /\ tpc' = [d \in Devices |-> "none"] /\ live' = {}
        /\ UNCHANGED <<j, fds, runs, made, serverVars, queue>>

kill == Running /\ exit

\* echo_client up to the redirection of stdin.
socket(d) ==
  /\ tpc[d] = "socket" /\ j[d] < Attempts
  /\ \/ /\ Free /\ fds' = fds + 1
        /\ tpc' = [tpc EXCEPT ![d] = "open"]
        /\ UNCHANGED <<j, live, runs, made, serverVars, queue>>
     \/ ~Free /\ exit

open_doc(d) ==
  /\ tpc[d] = "open"
  /\ \/ Free /\ fds' = fds + 1
     \/ UNCHANGED fds
  /\ tpc' = [tpc EXCEPT ![d] = "bind"]
  /\ UNCHANGED <<j, live, runs, made, serverVars, queue>>

\* bind; no free port ends the process.
bind(d) ==
  /\ tpc[d] = "bind"
  /\ \/ /\ tpc' = [tpc EXCEPT ![d] = "lookup"]
        /\ UNCHANGED <<j, fds, live, runs, made, serverVars, queue>>
     \/ exit

\* A service or host that is not found ends the process.
constructor_echo_addr(d) ==
  /\ tpc[d] = "lookup"
  /\ \/ /\ tpc' = [tpc EXCEPT ![d] = "connect"]
        /\ UNCHANGED <<j, fds, live, runs, made, serverVars, queue>>
     \/ exit

\* A connect() that fails ends the round.
connect(d) ==
  /\ tpc[d] = "connect"
  /\ tpc' = [tpc EXCEPT ![d] = "socket"] /\ j' = [j EXCEPT ![d] = @ + 1]
  /\ \/ UNCHANGED <<made, live, queue>>
     \/ /\ spc # "exited" /\ made < MaxConns
        /\ made' = made + 1 /\ live' = live \cup {made'}
        /\ queue' = Append(queue, made')
  /\ UNCHANGED <<fds, runs, serverVars>>

echo_client ==
  \E d \in Devices :
    socket(d) \/ open_doc(d) \/ bind(d) \/ constructor_echo_addr(d) \/ connect(d)

-----------------------------------------------------------------------------
(* The server. *)

Readable == {i \in DOMAIN client_fds : client_fds[i] # -1 /\ file[client_fds[i]] \notin live}

\* poll() waits up to a second, again and again; with more entries than
\* RLIMIT_NOFILE it fails, and the server exits.
poll ==
  /\ spc = "poll"
  /\ IF Len(client_fds) + 1 > NoFile
     THEN spc' = "exited" /\ UNCHANGED <<rdnorm, newcomer>>
     ELSE /\ queue # <<>> \/ Readable # {}
          /\ rdnorm' = Readable /\ newcomer' = (queue # <<>>)
          /\ spc' = "accept"
  /\ UNCHANGED <<at, client_fds, file, queue, clientVars>>

Unused == {f \in Fds : file[f] = 0}

\* revents of a new slot is whatever the stack held.
accept ==
  /\ spc = "accept" /\ at' = 1
  /\ \/ ~newcomer /\ spc' = "slots" /\ UNCHANGED <<queue, client_fds, file, rdnorm>>
     \/ /\ newcomer /\ Unused = {}
        /\ spc' = "exited" /\ UNCHANGED <<queue, client_fds, file, rdnorm>>
     \/ \E f \in Unused :
          /\ newcomer /\ \A g \in Unused : f <= g
          /\ file' = [file EXCEPT ![f] = Head(queue)]
          /\ queue' = Tail(queue)
          /\ client_fds' = Append(client_fds, f)
          /\ rdnorm' \in {rdnorm, rdnorm \cup {Len(client_fds')}}
          /\ spc' = "slots"
  /\ UNCHANGED <<newcomer, clientVars>>

\* Seeded fault: the slot keeps the number of the closed descriptor.
close_slot_Keep(i) == /\ file' = [file EXCEPT ![client_fds[i]] = 0]
                      /\ UNCHANGED client_fds

\* Seeded fault: the slot is given up, the descriptor is not closed.
close_slot_Leak(i) == /\ client_fds' = [client_fds EXCEPT ![i] = -1]
                      /\ UNCHANGED file

\* read() returned 0.
close_slot(i) == /\ file' = [file EXCEPT ![client_fds[i]] = 0]
                 /\ client_fds' = [client_fds EXCEPT ![i] = -1]

\* One slot of the loop.  read() blocks while the client is there.
slot ==
  /\ spc = "slots" /\ at <= Len(client_fds)
  /\ \/ /\ client_fds[at] = -1 \/ at \notin rdnorm
        /\ UNCHANGED <<client_fds, file>>
     \/ /\ client_fds[at] # -1 /\ at \in rdnorm
        /\ file[client_fds[at]] \notin live
        /\ close_slot(at)
  /\ at' = at + 1
  /\ UNCHANGED <<spc, rdnorm, newcomer, queue, clientVars>>

again == /\ spc = "slots" /\ at > Len(client_fds)
         /\ spc' = "poll"
         /\ UNCHANGED <<at, client_fds, file, rdnorm, newcomer, queue, clientVars>>

Server == poll \/ accept \/ slot \/ again

-----------------------------------------------------------------------------
EchoFdNext == \/ start \/ kill \/ echo_client \/ Server
              \/ \E d \in Devices : get_local_ip(d)

\* The server is scheduled; the client may stop anywhere.
EchoFdSpec == EchoFdInit /\ [][EchoFdNext]_echoFdVars /\ WF_echoFdVars(Server)

\* The open descriptors of the server are the ones its slots name, each named
\* once: a number that accept() gives out again is in no older slot.
SlotsNameDescriptors ==
  LET used == {i \in DOMAIN client_fds : client_fds[i] # -1}
  IN  /\ {client_fds[i] : i \in used} = Fds \ Unused
      /\ \A i, k \in used : client_fds[i] = client_fds[k] => i = k

Holds(c) == \E f \in Fds : file[f] = c

\* The server blocks in read() on a new slot whose revents it did not set.
Stuck == /\ spc = "slots" /\ at \in DOMAIN client_fds /\ at \in rdnorm
         /\ client_fds[at] # -1 /\ file[client_fds[at]] \in live

\* The descriptor of a connection whose client has ended is closed, unless the
\* server exits for want of descriptors or slots, or blocks on another one.
ReleasedAfterClient ==
  \A c \in Connections : (Holds(c) /\ c \notin live) ~> (~Holds(c) \/ spc = "exited" \/ Stuck)
=============================================================================
