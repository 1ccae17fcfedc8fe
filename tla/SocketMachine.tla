---------------------------- MODULE SocketMachine ----------------------------
(***************************************************************************)
(* Runs the programs of SocketPrograms: their threads and processes, the   *)
(* condition variables between them, and the kernel's TCP as far as these  *)
(* programs can tell it apart (external): the accept queue and its limit,  *)
(* what has been sent and not read, FIN, RST, descriptors shared by fork,  *)
(* SIGPIPE.  On the loopback device data and FIN arrive with the call that *)
(* sends them; an RST may be noticed any time later.                       *)
(***************************************************************************)
EXTENDS SocketPrograms, FiniteSets

CONSTANTS Programs,   \* the programs of this instance, names in DOMAIN Table
          Clients,    \* the clients' threads or processes
          Own,        \* the one client of a program that has one
          Guests,     \* clients of another kind, where a program has two kinds
          Server,     \* the server's thread
          Children,   \* processes fork() can still make
          Buffer      \* pieces of data a socket buffer takes

Servers == {Server} \cup Children
Threads == Clients \cup Servers

\* Who runs what; <<>>: nobody does.  A child goes on in its parent's code.
Run(server, own, guest, other) ==
  [server |-> server, own |-> own, guest |-> guest, other |-> other]

Role(t) == CASE t \in Servers -> "server" [] t = Own -> "own"
             [] t \in Guests -> "guest" [] OTHER -> "other"

main2_main == Run(main2_server, main2_client, tcp_rest_main, <<>>)
main3_main == Run(main3_server, main3_client, tcp_rest_main, <<>>)
api_main == Run(api_server, api_client("near"), api_client("far"), api_client("near"))
sigurg_main == Run(sigurg_server, sigurg_client, tcp_rest_main, <<>>)

Table ==
  [main2  |-> main2_main, main3 |-> main3_main, api |-> api_main, sigurg |-> sigurg_main,
   time   |-> Run(time_server, time_client, time_client, time_client),
   unix   |-> Run(unix_server, unix_client, unix_client, unix_client),
   poll   |-> Run(<<>>, poll_main, <<>>, <<>>),
   async  |-> Run(<< Do("listen", 1) >>, connectAsync, <<>>, <<>>)]

ASSUME MachineAssumption ==
  /\ Programs \subseteq DOMAIN Table /\ Buffer \in Nat \ {0}
  /\ Own \in Clients /\ Guests \subseteq Clients \ {Own}
  /\ Clients \cap Servers = {} /\ Server \notin Children
  /\ "none" \notin Clients

\* Seeded fault: main() leaves SIGPIPE alone.
Masked_None(p) == FALSE

\* main() of main2 and main3 blocks SIGPIPE before it creates the threads.
Masked(p) == p \in {"main2", "main3"}

VARIABLES
  program,    \* which of Programs is run
  pc,         \* thread -> label; 0: returned, -1: not created yet
  waiting,    \* thread -> "no" | "blocking" | "asleep", inside a wait
  flags,      \* the atomic<bool>s that are true
  missed,     \* history: threads that were "blocking" when a notify came
  backlog,    \* the listening socket's limit, -1 before listen()
  queue,      \* clients whose connections wait for accept()
  cur,        \* server thread -> client of the descriptor accept() gave it
  holders,    \* client -> server processes with a descriptor of its connection
  conn,       \* client -> its connection
  errors,     \* history: <<thread, label>> of the calls that failed
  unforked,   \* history: clients whose fork() failed
  dead        \* "no", or what ended the process: "assert", "sigpipe"

sync == <<waiting, flags, missed>>
accepting == <<backlog, queue, cur, holders>>
rest == <<unforked, dead, program>>
vars == <<pc, errors, sync, accepting, conn, rest>>

NoConn == [link |-> "none",                  \* none, pending, up, refused
           up |-> 0, urg |-> FALSE,          \* sent by the client, not read yet
           down |-> 0,                       \* sent by the server, not read yet
           got |-> 0, oob |-> FALSE,         \* what the readers have had
           cEnd |-> "open", sEnd |-> "open", \* sEnd "fin": the client sees the end
           rst |-> "no", lost |-> FALSE]     \* RST towards client, server

Code(t) == Table[program][Role(t)]

\* Clients that are processes of their own, which a user may kill.
Killable(c) == program \in {"time", "unix"}

\* tcp_rest/main.cpp, which may be run beside another program on its port.
Visitor(t) == t \in Guests /\ program \in {"main2", "main3", "sigurg"}

Init ==
  /\ program \in Programs
  /\ pc \in [Threads -> {-1, 0, 1}]
  /\ \A t \in Threads :
       \/ t \in Children /\ pc[t] = -1
       \/ t \notin Children /\ Code(t) = <<>> /\ pc[t] = 0
       \/ t \notin Children /\ Code(t) # <<>> /\ pc[t] = 1
       \/ Visitor(t) /\ pc[t] = 0                   \* nobody starts it
  /\ waiting = [t \in Threads |-> "no"]
  /\ flags = {} /\ missed = {} /\ errors = {} /\ unforked = {}
  /\ backlog = -1 /\ queue = <<>>
  /\ cur = [s \in Servers |-> "none"]
  /\ holders = [c \in Clients |-> {}]
  /\ conn = [c \in Clients |-> NoConn]
  /\ dead = "no"

At(t, op) == dead = "no" /\ pc[t] > 0 /\ Code(t)[pc[t]].op = op
Arg(t) == Code(t)[pc[t]].arg

\* Goes where this outcome of the call leads, and remembers a failure.
Go(t, outcome) ==
  LET to == Code(t)[pc[t]].to
      next == IF outcome \in DOMAIN to THEN to[outcome] ELSE pc[t] + 1
  IN  /\ pc' = [pc EXCEPT ![t] = IF next > Len(Code(t)) THEN 0 ELSE next]
      /\ errors' = errors \cup (IF outcome = "err" THEN {<<t, pc[t]>>} ELSE {})

goto(t) ==
  /\ At(t, "goto")
  /\ pc' = [pc EXCEPT ![t] = IF Arg(t) > Len(Code(t)) THEN 0 ELSE Arg(t)]
  /\ UNCHANGED <<errors, sync, accepting, conn, rest>>

-----------------------------------------------------------------------------
(* condition_variable::wait(lock, predicate): the predicate is evaluated   *)
(* under the mutex, which is given up when the thread is asleep.  The flag *)
(* is set and the notification sent without the mutex.                     *)

wait(t) ==
  /\ At(t, "wait") /\ waiting[t] = "no"
  /\ \A u \in Threads : ~(waiting[u] = "blocking" /\ Arg(u) = Arg(t))
  /\ \/ Arg(t) \in flags /\ Go(t, "ok") /\ UNCHANGED waiting
     \/ /\ Arg(t) \notin flags
        /\ waiting' = [waiting EXCEPT ![t] = "blocking"]
        /\ UNCHANGED <<pc, errors>>
  /\ UNCHANGED <<flags, missed, accepting, conn, rest>>

fallAsleep(t) ==
  /\ dead = "no" /\ waiting[t] = "blocking"
  /\ waiting' = [waiting EXCEPT ![t] = "asleep"]
  /\ UNCHANGED <<pc, errors, flags, missed, accepting, conn, rest>>

wakeUnasked(t) ==
  /\ dead = "no" /\ waiting[t] = "asleep"
  /\ waiting' = [waiting EXCEPT ![t] = "no"]
  /\ UNCHANGED <<pc, errors, flags, missed, accepting, conn, rest>>

set(t) ==
  /\ At(t, "set")
  /\ flags' = flags \cup {Arg(t)} /\ Go(t, "ok")
  /\ UNCHANGED <<waiting, missed, accepting, conn, rest>>

In(how, flag) == {u \in Threads : waiting[u] = how /\ Arg(u) = flag}

notify(t) ==
  /\ \E op \in {"notify_one", "notify_all"} :
       /\ At(t, op)
       /\ \E woken \in SUBSET In("asleep", Arg(t)) :
            /\ \/ op = "notify_all" /\ woken = In("asleep", Arg(t))
               \/ op = "notify_one" /\ Cardinality(woken) = 1
               \/ In("asleep", Arg(t)) = {}
            /\ waiting' = [u \in Threads |-> IF u \in woken THEN "no" ELSE waiting[u]]
  /\ missed' = missed \cup In("blocking", Arg(t))
  /\ Go(t, "ok")
  /\ UNCHANGED <<flags, accepting, conn, rest>>

-----------------------------------------------------------------------------
(* The calls on sockets.                                                   *)

listen(t) ==
  /\ At(t, "listen")
  /\ backlog' = Arg(t) /\ Go(t, "ok")
  /\ UNCHANGED <<sync, queue, cur, holders, conn, rest>>

\* The queue takes one connection more than the backlog; with the queue full
\* the SYN is dropped and sent again until there is room.
Listening == backlog >= 0
Established(c) ==
  /\ Len(queue) <= backlog
  /\ queue' = Append(queue, c)
  /\ conn' = [conn EXCEPT ![c].link = "up"]

connect(t) ==
  /\ At(t, "connect")
  /\ \/ Listening /\ Established(t) /\ Go(t, "ok")
     \/ (~Listening \/ Arg(t) = "far") /\ Go(t, "err") /\ UNCHANGED <<queue, conn>>
  /\ UNCHANGED <<sync, backlog, cur, holders, rest>>

\* On a socket that does not block (or, for "ok" and "err", one that does).
connect_async(t) ==
  /\ At(t, "connect_async")
  /\ \/ Listening /\ Established(t) /\ Go(t, "ok")
     \/ ~Listening /\ Go(t, "err") /\ UNCHANGED <<queue, conn>>
     \/ Go(t, "again") /\ UNCHANGED <<queue, conn>>
     \/ /\ Go(t, "progress")
        /\ conn' = [conn EXCEPT ![t].link = "pending"] /\ UNCHANGED queue
  /\ UNCHANGED <<sync, backlog, cur, holders, rest>>

\* The handshake in progress comes to its end.
resolve(c) ==
  /\ dead = "no" /\ conn[c].link = "pending" /\ conn[c].cEnd = "open"
  /\ \/ Listening /\ Established(c)
     \/ ~Listening /\ conn' = [conn EXCEPT ![c].link = "refused"] /\ UNCHANGED queue
  /\ UNCHANGED <<pc, errors, sync, backlog, cur, holders, rest>>

\* poll() without a timeout; it ignores a descriptor of -1, so it never
\* returns when the socket has been closed.
poll(t) ==
  /\ At(t, "poll")
  /\ conn[t].link # "pending" /\ conn[t].cEnd = "open"
  /\ Go(t, "ok")
  /\ UNCHANGED <<sync, accepting, conn, rest>>

select(t) ==
  /\ At(t, "select")
  /\ \/ conn[t].link # "pending" /\ Go(t, "ready")
     \/ Go(t, "timeout")
  /\ UNCHANGED <<sync, accepting, conn, rest>>

so_error(t) ==
  /\ At(t, "so_error")
  /\ Go(t, IF conn[t].link = "refused" THEN "err" ELSE "ok")
  /\ UNCHANGED <<sync, accepting, conn, rest>>

\* The abstract name is taken while the process that bound it lives.
bind_name(t) ==
  /\ At(t, "bind_name")
  /\ Go(t, IF \E c \in Clients \ {t} : pc[c] > 1 THEN "err" ELSE "ok")
  /\ UNCHANGED <<sync, accepting, conn, rest>>

accept(t) ==
  /\ At(t, "accept") /\ Listening /\ queue # <<>>
  /\ queue' = Tail(queue)
  /\ cur' = [cur EXCEPT ![t] = Head(queue)]
  /\ holders' = [holders EXCEPT ![Head(queue)] = {t}]
  /\ Go(t, "ok")
  /\ UNCHANGED <<sync, backlog, conn, rest>>

NewChild == CHOOSE f \in Children : pc[f] = -1

\* fork(): the child has every descriptor of its parent; at the limit of
\* processes it fails, which the code takes for the parent's case.
fork(t) ==
  /\ At(t, "fork")
  /\ \/ \E f \in Children :
          /\ pc[f] = -1 /\ f = NewChild
          /\ pc' = [pc EXCEPT ![t] = Arg(t), ![f] = pc[t] + 1]
          /\ cur' = [cur EXCEPT ![f] = cur[t]]
          /\ holders' = [c \in Clients |->
                           holders[c] \cup (IF t \in holders[c] THEN {f} ELSE {})]
          /\ UNCHANGED unforked
     \/ /\ \A f \in Children : pc[f] # -1
        /\ pc' = [pc EXCEPT ![t] = Arg(t)]
        /\ unforked' = unforked \cup {cur[t]}
        /\ UNCHANGED <<cur, holders>>
  /\ UNCHANGED <<errors, sync, backlog, queue, conn, dead, program>>

\* write() and send(MSG_OOB) by a client.  What reaches a closed socket is
\* answered by an RST; once that has been noticed the next call fails, with
\* SIGPIPE if the peer's FIN came first.
write(t) ==
  /\ \E op \in {"write", "send_oob"} :
       /\ At(t, op)
       /\ \/ /\ conn[t].rst = "seen"
             /\ Go(t, "err")
             /\ dead' \in {"no"} \cup (IF Masked(program) THEN {} ELSE {"sigpipe"})
             /\ UNCHANGED conn
          \/ /\ conn[t].rst # "seen" /\ conn[t].sEnd # "open"
             /\ conn' = [conn EXCEPT ![t].rst = "flying"]
             /\ Go(t, "ok") /\ UNCHANGED dead
          \/ /\ conn[t].rst # "seen" /\ conn[t].sEnd = "open" /\ conn[t].up < Buffer
             /\ conn' = [conn EXCEPT ![t].up = @ + 1, ![t].urg = op = "send_oob"]
             /\ Go(t, "ok") /\ UNCHANGED dead
  /\ UNCHANGED <<sync, accepting, unforked, program>>

noticeRst(c) ==
  /\ dead = "no" /\ conn[c].rst = "flying"
  /\ conn' = [conn EXCEPT ![c].rst = "seen"]
  /\ UNCHANGED <<pc, errors, sync, accepting, rest>>

\* read() by a server thread: one piece of data (each write() fills the
\* reader's buffer), or 0 at the end.
read(t) ==
  /\ At(t, "read")
  /\ LET c == cur[t] IN
       /\ conn[c].up > 0 \/ conn[c].cEnd = "closed"
       /\ conn' = [conn EXCEPT ![c].up = IF @ > 0 THEN @ - 1 ELSE 0]
  /\ Go(t, "ok")
  /\ UNCHANGED <<sync, accepting, rest>>

recv_oob(t) ==
  /\ At(t, "recv_oob")
  /\ \/ /\ conn[cur[t]].urg
        /\ conn' = [conn EXCEPT ![cur[t]].urg = FALSE, ![cur[t]].oob = TRUE]
        /\ Go(t, "ok")
     \/ ~conn[cur[t]].urg /\ Go(t, "err") /\ UNCHANGED conn
  /\ UNCHANGED <<sync, accepting, rest>>

\* getsockname() and getpeername() with the assertions on what they fill in.
assert_name(t) ==
  /\ At(t, "assert_name")
  /\ dead' = IF t \in holders[cur[t]] THEN "no" ELSE "assert"
  /\ Go(t, "ok")
  /\ UNCHANGED <<sync, accepting, conn, unforked, program>>

\* write() with the assertion that all of it was taken.
assert_write(t) ==
  /\ At(t, "assert_write")
  /\ LET c == cur[t] IN
       /\ dead' = CASE conn[c].sEnd # "open" -> "sigpipe"
                    [] conn[c].lost -> "assert"
                    [] OTHER -> "no"
       /\ conn' = [conn EXCEPT ![c].down = @ + 1, ![c].lost = conn[c].cEnd = "closed"]
  /\ Go(t, "ok")
  /\ UNCHANGED <<sync, accepting, unforked, program>>

\* read() by a client.
read_answer(t) ==
  /\ At(t, "read_answer")
  /\ \/ /\ conn[t].down > 0
        /\ conn' = [conn EXCEPT ![t].down = @ - 1, ![t].got = @ + 1]
        /\ Go(t, "data")
     \/ conn[t].down = 0 /\ conn[t].sEnd = "fin" /\ Go(t, "eof") /\ UNCHANGED conn
  /\ UNCHANGED <<sync, accepting, rest>>

\* The last close() of a connection ends it; unread data makes that an RST.
close(t) ==
  /\ At(t, "close")
  /\ IF t \in Clients
     THEN conn' = [conn EXCEPT ![t].cEnd = "closed"] /\ UNCHANGED holders
     ELSE LET c == cur[t] IN
          /\ holders' = [holders EXCEPT ![c] = @ \ {t}]
          /\ conn' = IF holders[c] # {t} THEN conn
                     ELSE [conn EXCEPT ![c].sEnd = "fin",
                                       ![c].rst = IF conn[c].up > 0 THEN "flying" ELSE @]
  /\ Go(t, "ok")
  /\ UNCHANGED <<sync, backlog, queue, cur, rest>>

shutdown(t) ==
  /\ At(t, "shutdown")
  /\ conn' = [conn EXCEPT ![cur[t]].sEnd = "fin"]
  /\ Go(t, "ok")
  /\ UNCHANGED <<sync, accepting, rest>>

\* The process ends, by itself or killed, and its socket with it.
End(t) ==
  /\ pc' = [pc EXCEPT ![t] = 0]
  /\ conn' = [conn EXCEPT ![t].cEnd = "closed"]
  /\ UNCHANGED <<errors, sync, accepting, rest>>

exit(t) == At(t, "exit") /\ End(t)
kill(c) == dead = "no" /\ Killable(c) /\ pc[c] > 0 /\ End(c)

-----------------------------------------------------------------------------
Step(t) ==
  /\ pc[t] > 0
  /\ \/ goto(t) \/ wait(t) \/ fallAsleep(t) \/ set(t) \/ notify(t) \/ listen(t)
     \/ connect(t) \/ connect_async(t) \/ poll(t) \/ select(t) \/ so_error(t)
     \/ bind_name(t) \/ accept(t) \/ fork(t) \/ write(t) \/ read(t)
     \/ recv_oob(t) \/ assert_name(t) \/ assert_write(t) \/ read_answer(t)
     \/ close(t) \/ shutdown(t) \/ exit(t)

Next ==
  \/ \E t \in Threads : Step(t) \/ wakeUnasked(t)
  \/ \E c \in Clients : resolve(c) \/ noticeRst(c) \/ kill(c)

\* Threads and processes are scheduled, and a handshake comes to its end.  An
\* unasked wake-up, an RST's notice and a kill need not happen.
Fairness ==
  /\ \A t \in Threads : WF_vars(Step(t))
  /\ \A c \in Clients : WF_vars(resolve(c))

Spec == Init /\ [][Next]_vars /\ Fairness

-----------------------------------------------------------------------------
(* Properties.                                                             *)

\* No client that waits for the server's flag (tcp_rest/main2 and main3, api,
\* sigurg) has its connection to this host refused: the flag is set after
\* listen().
NobodyRefused ==
  program \in {"main2", "main3", "api", "sigurg"} =>
    \A c \in Clients :
      /\ pc[c] >= 0 /\ ~Visitor(c) /\ Code(c) # <<>> /\ Code(c)[2].arg = "near"
      => <<c, 2>> \notin errors

\* In tcp_rest/main3 the write() behind the server's close() still succeeds and
\* only the one after it may fail, because the server has read what came first;
\* the first write() fails neither there nor in main2.  Also with a second
\* process on the port, which sets atom1 too early.
FailsOneWriteLater ==
  /\ program \in {"main2", "main3"} => <<Own, 3>> \notin errors
  /\ program = "main3" => <<Own, 5>> \notin errors

\* No assertion of api/main.cpp and time/server.cpp fails and no write ends a
\* process by SIGPIPE, whenever the other side closes or is killed.
ProcessSurvives == dead = "no"

\* sigurg/main.cpp closes no connection of its client without having read the
\* urgent byte: recv() for the bytes before it waits until it has arrived.
UrgentByteRead ==
  program = "sigurg" /\ conn[Own].sEnd # "open" => conn[Own].oob

\* A time client that comes to the end of its connection has had one answer.
OneAnswerBeforeEnd ==
  program = "time" => \A c \in Clients : pc[c] = 3 => conn[c].got = 1

Connected(c) == conn[c].link = "up" /\ conn[c].cEnd = "open"

\* abstractunix: the fixed client name lets one client at a time be connected.
OneNamedClient ==
  program = "unix" =>
    \A c, d \in Clients : Connected(c) /\ Connected(d) => c = d

\* net::connectAsync returns with a connected socket or with a closed one.
ConnectedOrClosed ==
  program = "async" /\ pc[Own] = 0 => conn[Own].cEnd = "closed" \/ conn[Own].link = "up"

PollsNothing(c) == At(c, "poll") /\ conn[c].cEnd = "closed"

\* Every client comes to its end, unless the notification came between its look
\* at the flag and its falling asleep (the flags are set without the mutex),
\* fork() failed for it, or poll() was given -1 after a connect() that failed
\* at once.  (The abstractunix client sends for ever.)
ClientsFinish ==
  \A c \in Clients :
    <>(program = "unix" \/ pc[c] = 0 \/ c \in missed \/ c \in unforked \/ PollsNothing(c))
=============================================================================
