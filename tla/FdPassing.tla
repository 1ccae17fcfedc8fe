------------------------------ MODULE FdPassing ------------------------------
(***************************************************************************)
(* set/unixsocket/main.cpp: one process accepts TCP connections and passes *)
(* each descriptor over a Unix socket pair to another process, which reads *)
(* a request, writes a fixed response and closes.  The function names are  *)
(* the source's: parent_process accepts, child_process answers.            *)
(*                                                                         *)
(* A round of parent_process is one action: what it does after poll()      *)
(* depends only on revents and on its own variables.  child_process is     *)
(* taken apart, since its reads can block.  Neither process closes or      *)
(* reuses anything it does not close in the code: the acceptor keeps every *)
(* descriptor, the other keeps every slot of pollfds.                      *)
(***************************************************************************)
EXTENDS Integers, Sequences, FiniteSets

CONSTANTS Conns,       \* client connections
          NoConn,      \* the descriptor -1
          Limits,      \* the limits there may be, see limit
          ChannelCap   \* descriptors the socket pair can buffer

ASSUME FdAssumption ==
  /\ NoConn \notin Conns /\ ChannelCap \in Nat \ {0}
  /\ \A l \in Limits : l.open \in Nat /\ l.nofile \in Nat

VARIABLES
  limit,     \* open: descriptors the acceptor can have open for clients;
             \* nofile: RLIMIT_NOFILE, how many pollfds poll() accepts
  client,    \* what each client has done
  backlog,   \* the listen queue
  async_fd, wantOut,  \* parent_process: async_fd, POLLOUT in pollfds[1].events
  accepted,  \* descriptors parent_process has open
  channel,   \* descriptors in the socket pair
  slots,     \* child_process: the connections of pollfds[1], pollfds[2], ...
  events,    \* their .events; "closed" when .fd is -1
  revents, revents0,  \* their .revents; POLLIN in pollfds[0].revents
  cpc,       \* child_process: -1 in poll(), 0 before recv_fd, i at slot i
  alive,     \* the processes not killed by SIGPIPE
  lost, got, answered  \* history: overwritten in async_fd; request read; response written

parentVars == <<limit, backlog, async_fd, wantOut, accepted, lost>>
childVars == <<slots, events, revents, revents0, cpc, got, answered>>
vars == <<client, channel, alive, parentVars, childVars>>

Init ==
  /\ limit \in Limits
  /\ client = [c \in Conns |-> "idle"]
  /\ backlog = <<>> /\ async_fd = NoConn /\ wantOut = FALSE /\ accepted = {}
  /\ channel = <<>> /\ slots = <<>> /\ cpc = -1 /\ revents0 = FALSE
  /\ events = [c \in Conns |-> "none"] /\ revents = [c \in Conns |-> "none"]
  /\ alive = {"parent", "child"}
  /\ lost = {} /\ got = {} /\ answered = {}

-----------------------------------------------------------------------------
(* The clients: connect, send a request, close, or break the connection.   *)
arrive(c) == /\ client[c] = "idle"
             /\ client' = [client EXCEPT ![c] = "connected"]
             /\ backlog' = Append(backlog, c)
             /\ UNCHANGED <<limit, channel, alive, async_fd, wantOut, accepted, lost, childVars>>

act(c, from, to) == /\ client[c] = from
                    /\ client' = [client EXCEPT ![c] = to]
                    /\ UNCHANGED <<channel, alive, parentVars, childVars>>
request(c) == act(c, "connected", "requested")
close(c) == act(c, "connected", "closed")
reset(c) == c \notin answered /\ \E from \in {"connected", "requested"} : act(c, from, "reset")

-----------------------------------------------------------------------------
\* What a round does when pollfds[0] was found readable (in) and pollfds[1]
\* writable (out).  accept() fails when no descriptor is left; its result is
\* stored in async_fd whatever was there.  Sending to a dead process raises
\* SIGPIPE.
round(in, out) ==
  LET taken == in /\ Cardinality(accepted) < limit.open
      fd == IF taken THEN Head(backlog) ELSE IF in THEN NoConn ELSE async_fd
      send == out /\ fd # NoConn
  IN  /\ "parent" \in alive /\ (in \/ out)
      /\ backlog' = IF taken THEN Tail(backlog) ELSE backlog
      /\ accepted' = IF taken THEN accepted \cup {fd} ELSE accepted
      /\ lost' = IF in THEN lost \cup ({async_fd} \ {NoConn}) ELSE lost
      /\ channel' = IF send THEN Append(channel, fd) ELSE channel
      /\ wantOut' = ((wantOut \/ in) /\ ~send)
      /\ async_fd' = IF out THEN NoConn ELSE fd
      /\ alive' = IF send /\ "child" \notin alive THEN alive \ {"parent"} ELSE alive
      /\ UNCHANGED <<limit, client, childVars>>

\* poll() reports POLLOUT: there is room, or nobody at the other end.
writable == wantOut /\ (Len(channel) < ChannelCap \/ "child" \notin alive)

\* Seeded fault: async_fd and POLLOUT are not cleared after the descriptor
\* was sent.
parent_round_Keep ==
  IF backlog # <<>> THEN round(TRUE, FALSE)
  ELSE /\ "parent" \in alive /\ writable
       /\ channel' = Append(channel, async_fd)
       /\ UNCHANGED <<client, alive, parentVars, childVars>>

\* Seeded fault: the round takes no notice of POLLOUT.
parent_round_NoOut == round(backlog # <<>>, FALSE)

\* Seeded fault: accept only when the socket pair is writable too.
parent_round_Both == round(backlog # <<>> /\ writable, writable)

\* One round of parent_process: accept, if pollfds[0] is readable, and then
\* send, if pollfds[1] was found writable.
parent_round == round(backlog # <<>>, writable)

-----------------------------------------------------------------------------
\* What poll() would report for a slot.
Ready(c) ==
  CASE events[c] = "POLLIN" /\ client[c] \in {"requested", "closed", "reset"} -> "POLLIN"
    [] events[c] = "POLLOUT" -> "POLLOUT"
    [] OTHER -> "none"

\* poll() waits for a descriptor; with more than limit.nofile entries it fails at
\* once with EINVAL, and the revents of the last round are used again.
child_poll ==
  /\ cpc = -1 /\ cpc' = 0
  /\ IF Len(slots) + 1 > limit.nofile THEN UNCHANGED <<revents, revents0>>
     ELSE /\ channel # <<>> \/ \E c \in Conns : Ready(c) # "none"
          /\ revents0' = (channel # <<>>)
          /\ revents' = [c \in Conns |-> Ready(c)]
  /\ UNCHANGED <<slots, events, got, answered, channel, alive>>

\* Seeded fault: a new connection is also polled for POLLOUT.
child_recv_Out ==
  /\ cpc = 0 /\ cpc' = 1
  /\ IF revents0
       THEN /\ channel # <<>>
            /\ slots' = Append(slots, Head(channel)) /\ channel' = Tail(channel)
            /\ events' = [events EXCEPT ![Head(channel)] = "POLLOUT"]
       ELSE UNCHANGED <<slots, channel, events>>
  /\ UNCHANGED <<revents, revents0, got, answered, alive>>

\* recv_fd, which blocks while the socket pair is empty.
child_recv ==
  /\ cpc = 0 /\ cpc' = 1
  /\ IF revents0
       THEN /\ channel # <<>>
            /\ slots' = Append(slots, Head(channel)) /\ channel' = Tail(channel)
            /\ events' = [events EXCEPT ![Head(channel)] = "POLLIN"]
       ELSE UNCHANGED <<slots, channel, events>>
  /\ UNCHANGED <<revents, revents0, got, answered, alive>>

\* Seeded fault: the slot goes on polling for POLLIN after the request.
child_read_NoOut(c) ==
  /\ revents[c] = "POLLIN" /\ client[c] = "requested" /\ c \notin got
  /\ got' = got \cup {c}
  /\ UNCHANGED <<events, revents, answered, alive>>

\* A readable slot: a request makes it wait for POLLOUT; end of file or an
\* error closes it.  read() blocks while there is neither.
child_read(c) ==
  /\ revents[c] = "POLLIN" /\ events[c] # "closed"
  /\ \/ /\ client[c] = "requested" /\ c \notin got
        /\ got' = got \cup {c} /\ events' = [events EXCEPT ![c] = "POLLOUT"]
        /\ UNCHANGED revents
     \/ /\ client[c] \in {"closed", "reset"}
        /\ events' = [events EXCEPT ![c] = "closed"]
        /\ revents' = [revents EXCEPT ![c] = "none"]
        /\ UNCHANGED got
  /\ UNCHANGED <<answered, alive>>

\* A writable slot: the response is written and the descriptor closed.  On a
\* connection the client has reset, write() fails, which is not looked at, or
\* raises SIGPIPE, which kills the process.
child_write(c) ==
  /\ revents[c] = "POLLOUT" /\ events[c] # "closed"
  /\ IF client[c] = "reset"
       THEN /\ \/ alive' = alive \ {"child"} /\ UNCHANGED events
               \/ events' = [events EXCEPT ![c] = "closed"] /\ UNCHANGED alive
            /\ UNCHANGED answered
       ELSE /\ answered' = answered \cup {c}
            /\ events' = [events EXCEPT ![c] = "closed"]
            /\ UNCHANGED alive
  /\ UNCHANGED <<revents, got>>

\* The for loop of child_process; answer_num only ends it early.
child_slot ==
  /\ cpc >= 1
  /\ IF cpc > Len(slots)
       THEN cpc' = -1 /\ UNCHANGED <<events, revents, got, answered, alive>>
       ELSE LET c == slots[cpc]
            IN  /\ cpc' = cpc + 1
                /\ \/ child_read(c) \/ child_write(c)
                   \/ /\ events[c] = "closed" \/ revents[c] = "none"
                      /\ UNCHANGED <<events, revents, got, answered, alive>>
  /\ UNCHANGED <<slots, revents0, channel>>

child_process == /\ "child" \in alive
                 /\ child_poll \/ child_recv \/ child_slot
                 /\ UNCHANGED <<client, parentVars>>

Next == \/ parent_round \/ child_process
        \/ \E c \in Conns : arrive(c) \/ request(c) \/ close(c) \/ reset(c)

(* Both processes are scheduled; a client need not do anything.            *)
Spec == Init /\ [][Next]_vars /\ WF_vars(parent_round) /\ WF_vars(child_process)
-----------------------------------------------------------------------------
In(c, s) == Cardinality({i \in DOMAIN s : s[i] = c})

\* A connection is in one place at a time: it waits in the listen queue, in
\* async_fd, in the socket pair or in one slot of pollfds, or it was lost.
OnePlace ==
  \A c \in Conns :
    In(c, backlog) + In(c, channel) + In(c, slots)
      + (IF async_fd = c THEN 1 ELSE 0) + (IF c \in lost THEN 1 ELSE 0)
      + (IF client[c] = "idle" THEN 1 ELSE 0) = 1

\* A response is written only on a connection whose own request was read, and
\* the slot is closed with it, so it is written once.
AnswersOwnRequest == \A c \in answered : c \in got /\ events[c] = "closed"

Wedged == Len(slots) + 1 > limit.nofile
Exhausted == Cardinality(accepted) >= limit.open

\* Every connection is accepted while the acceptor has descriptors left (it
\* never closes the ones it has passed on).
ConnectionsAccepted ==
  \A c \in Conns : (In(c, backlog) > 0) ~> (In(c, backlog) = 0 \/ Exhausted
                                              \/ "parent" \notin alive)

\* An accepted connection reaches the other process, unless the next accept()
\* overwrites it in async_fd before the socket pair was found writable.
HandedOverOrLost ==
  \A c \in Conns : (async_fd = c) ~> (In(c, slots) > 0 \/ c \in lost \/ Wedged
                                        \/ "child" \notin alive)

\* A request on a connection that was handed over is answered, unless the
\* client breaks the connection or pollfds has outgrown what poll() takes.
RequestsAnswered ==
  \A c \in Conns :
    (In(c, slots) > 0 /\ client[c] = "requested")
      ~> (c \in answered \/ client[c] = "reset" \/ Wedged \/ "child" \notin alive)
=============================================================================
