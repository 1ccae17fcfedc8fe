------------------------- MODULE SocketSteps_proofs -------------------------
(***************************************************************************)
(* What a step of a socket program can be.  SocketMachine interprets the   *)
(* programs call by call; here each function of SocketPrograms gets its    *)
(* control flow as a relation between labels (Main2Server and so on), each *)
(* call its effect on the sockets, and each effect the fields of the       *)
(* connection it may change.  The last lemmas show that no step leaves the *)
(* types or the code, for any clients and children.                        *)
(***************************************************************************)
EXTENDS SocketMachine, TLAPS

Connections ==
  [link : {"none", "pending", "up", "refused"}, up : Nat, urg : BOOLEAN, down : Nat,
   got : Nat, oob : BOOLEAN, cEnd : {"open", "closed"}, sEnd : {"open", "fin"},
   rst : {"no", "flying", "seen"}, lost : BOOLEAN]

TypeOK ==
  /\ program \in Programs
  /\ backlog \in Int /\ queue \in Seq(Clients)
  /\ cur \in [Servers -> Clients \cup {"none"}]
  /\ holders \in [Clients -> SUBSET Servers]
  /\ conn \in [Clients -> Connections]

\* No jump leaves the code, and only the time server forks.
Bounded ==
  /\ pc \in [Threads -> Int]
  /\ \A t \in Threads : pc[t] \in -1 .. Len(Code(t))
  /\ program # "time" => \A f \in Children : pc[f] = -1

-----------------------------------------------------------------------------
(* One step of one thread.  Does and Fails: thread t goes from label k to  *)
(* label l; Fails remembers that the call failed.  The other names say     *)
(* what a call does besides.                                               *)

Moves(t, k, l) == pc[t] = k /\ pc' = [pc EXCEPT ![t] = l]
Does(t, k, l) == Moves(t, k, l) /\ errors' = errors
Fails(t, k, l) == Moves(t, k, l) /\ errors' = errors \cup {<<t, k>>}

Silent == UNCHANGED <<flags, accepting, conn, dead, program>>
Dozes == UNCHANGED <<pc, errors>> /\ Silent
Sets(f) == flags' = flags \cup {f} /\ UNCHANGED <<accepting, conn, dead, program>>
Listens(n) == backlog' = n /\ UNCHANGED <<flags, queue, cur, holders, conn, dead, program>>
Connects(c) ==
  Listening /\ Established(c) /\ UNCHANGED <<flags, backlog, cur, holders, dead, program>>
Pends(c) ==
  conn' = [conn EXCEPT ![c].link = "pending"] /\ UNCHANGED <<flags, accepting, dead, program>>
Accepts(t) ==
  /\ queue # <<>> /\ queue' = Tail(queue)
  /\ cur' = [cur EXCEPT ![t] = Head(queue)]
  /\ holders' = [holders EXCEPT ![Head(queue)] = {t}]
  /\ UNCHANGED <<flags, backlog, conn, dead, program>>
Forks(t, f, k, l) ==
  /\ f \in Children /\ pc[f] = -1
  /\ pc[t] = k /\ pc' = [pc EXCEPT ![t] = l, ![f] = k + 1]
  /\ cur' = [cur EXCEPT ![f] = cur[t]]
  /\ holders' = [c \in Clients |-> holders[c] \cup (IF t \in holders[c] THEN {f} ELSE {})]
  /\ UNCHANGED <<errors, flags, backlog, queue, conn, dead, program>>
Rejects(c) == conn[c].sEnd # "open" /\ conn' = [conn EXCEPT ![c].rst = "flying"]
Sends(c, urgent) ==
  conn[c].sEnd = "open" /\ conn' = [conn EXCEPT ![c].up = @ + 1, ![c].urg = urgent]
Writes(c, urgent) ==
  /\ conn[c].rst # "seen" /\ (Rejects(c) \/ Sends(c, urgent))
  /\ UNCHANGED <<flags, accepting, dead, program>>
WriteFails(c) ==
  /\ conn[c].rst = "seen" /\ (Masked(program) => dead' = dead)
  /\ UNCHANGED <<flags, accepting, conn, program>>
Reads(c) ==
  /\ conn[c].up > 0 \/ conn[c].cEnd = "closed"
  /\ conn' = [conn EXCEPT ![c].up = IF @ > 0 THEN @ - 1 ELSE 0]
  /\ UNCHANGED <<flags, accepting, dead, program>>
ReadsOob(c) ==
  /\ conn[c].urg /\ conn' = [conn EXCEPT ![c].urg = FALSE, ![c].oob = TRUE]
  /\ UNCHANGED <<flags, accepting, dead, program>>
Asserts(t) ==
  /\ dead' = IF t \in holders[cur[t]] THEN "no" ELSE "assert"
  /\ UNCHANGED <<flags, accepting, conn, program>>
Answer(c) ==
  /\ conn[c].sEnd = "open" /\ ~conn[c].lost => dead' = "no"
  /\ conn' = [conn EXCEPT ![c].down = @ + 1, ![c].lost = conn[c].cEnd = "closed"]
  /\ UNCHANGED <<flags, accepting, program>>
Takes(c) ==
  /\ conn[c].down > 0 /\ conn' = [conn EXCEPT ![c].down = @ - 1, ![c].got = @ + 1]
  /\ UNCHANGED <<flags, accepting, dead, program>>
Closes(c) ==
  conn' = [conn EXCEPT ![c].cEnd = "closed"] /\ UNCHANGED <<flags, accepting, dead, program>>
Ends(c) ==
  conn' = [conn EXCEPT ![c].sEnd = "fin", ![c].rst = IF conn[c].up > 0 THEN "flying" ELSE @]
ClosesServed(t, c) ==
  /\ holders' = [holders EXCEPT ![c] = @ \ {t}]
  /\ conn' = conn \/ Ends(c)
  /\ UNCHANGED <<flags, backlog, queue, cur, dead, program>>
Shuts(c) ==
  conn' = [conn EXCEPT ![c].sEnd = "fin"] /\ UNCHANGED <<flags, accepting, dead, program>>

\* The steps that are no thread's: a handshake ends, an RST is noticed.
Refused(c) ==
  conn' = [conn EXCEPT ![c].link = "refused"] /\ UNCHANGED <<flags, accepting, dead, program>>
Resolves(c) ==
  /\ conn[c].link = "pending" /\ UNCHANGED <<pc, errors>>
  /\ Connects(c) \/ Refused(c)
Notices(c) ==
  /\ conn[c].rst = "flying" /\ conn' = [conn EXCEPT ![c].rst = "seen"]
  /\ UNCHANGED <<pc, errors, flags, accepting, dead, program>>

\* Where an outcome leads.
After(t, o) ==
  LET to == Code(t)[pc[t]].to
      next == IF o \in DOMAIN to THEN to[o] ELSE pc[t] + 1
  IN  IF next > Len(Code(t)) THEN 0 ELSE next
Ok(t, o) == Does(t, pc[t], After(t, o))
Err(t) == Fails(t, pc[t], After(t, "err"))

\* Go(t, o) leads on or, for the outcome "err", remembers the failure.
LEMMA GoMoves ==
  ASSUME NEW t, NEW o, Go(t, o)
  PROVE  IF o = "err" THEN Err(t) ELSE Ok(t, o)
BY Zenon DEF Go, After, Moves, Does, Fails, Ok, Err

\* A Do leads to the next label, whatever the outcome.
LEMMA AfterDo ==
  ASSUME NEW t, NEW op, NEW arg, NEW o, Code(t)[pc[t]] = Do(op, arg)
  PROVE  After(t, o) = IF pc[t] + 1 > Len(Code(t)) THEN 0 ELSE pc[t] + 1
<1>1. PICK to : to = Code(t)[pc[t]].to
  OBVIOUS
<1>2. to = <<>>
  BY <1>1 DEF Do
<1>3. o \notin DOMAIN to
  BY <1>2
<1> QED
  BY <1>1, <1>3 DEF After

\* An Or leads to its label when the call fails.
LEMMA AfterOr ==
  ASSUME NEW t, NEW op, NEW arg, NEW l, NEW o, Code(t)[pc[t]] = Or(op, arg, l)
  PROVE  After(t, o) = LET next == IF o = "err" THEN l ELSE pc[t] + 1
                       IN  IF next > Len(Code(t)) THEN 0 ELSE next
<1>1. PICK to : to = Code(t)[pc[t]].to
  OBVIOUS
<1>2. to = [err |-> l]
  BY <1>1 DEF Or
<1>3. (o \in DOMAIN to <=> o = "err") /\ to["err"] = l
  BY <1>2
<1> QED
  BY <1>1, <1>3 DEF After

\* A thread steps by the call of its instruction, or falls asleep in wait().
LEMMA StepIsCall ==
  ASSUME NEW t \in Threads, NEW op, Step(t), op = Code(t)[pc[t]].op
  PROVE  \/ fallAsleep(t)
         \/ op = "goto" /\ goto(t)
         \/ op = "wait" /\ wait(t)
         \/ op = "set" /\ set(t)
         \/ op \in {"notify_one", "notify_all"} /\ notify(t)
         \/ op = "listen" /\ listen(t)
         \/ op = "connect" /\ connect(t)
         \/ op = "connect_async" /\ connect_async(t)
         \/ op = "poll" /\ poll(t)
         \/ op = "select" /\ select(t)
         \/ op = "so_error" /\ so_error(t)
         \/ op = "bind_name" /\ bind_name(t)
         \/ op = "accept" /\ accept(t)
         \/ op = "fork" /\ fork(t)
         \/ op \in {"write", "send_oob"} /\ write(t)
         \/ op = "read" /\ read(t)
         \/ op = "recv_oob" /\ recv_oob(t)
         \/ op = "assert_name" /\ assert_name(t)
         \/ op = "assert_write" /\ assert_write(t)
         \/ op = "read_answer" /\ read_answer(t)
         \/ op = "close" /\ close(t)
         \/ op = "shutdown" /\ shutdown(t)
         \/ op = "exit" /\ exit(t)
<1>1. /\ goto(t) => op = "goto"
      /\ wait(t) => op = "wait"
      /\ set(t) => op = "set"
      /\ listen(t) => op = "listen"
      /\ connect(t) => op = "connect"
      /\ connect_async(t) => op = "connect_async"
  BY DEF goto, wait, set, listen, connect, connect_async, At
<1>2. /\ poll(t) => op = "poll"
      /\ select(t) => op = "select"
      /\ so_error(t) => op = "so_error"
      /\ bind_name(t) => op = "bind_name"
      /\ accept(t) => op = "accept"
      /\ fork(t) => op = "fork"
  BY DEF poll, select, so_error, bind_name, accept, fork, At
<1>3. /\ read(t) => op = "read"
      /\ recv_oob(t) => op = "recv_oob"
      /\ assert_name(t) => op = "assert_name"
      /\ assert_write(t) => op = "assert_write"
      /\ read_answer(t) => op = "read_answer"
      /\ close(t) => op = "close"
      /\ shutdown(t) => op = "shutdown"
      /\ exit(t) => op = "exit"
  BY DEF read, recv_oob, assert_name, assert_write, read_answer, close, shutdown, exit, At
<1>4. /\ notify(t) => op \in {"notify_one", "notify_all"}
      /\ write(t) => op \in {"write", "send_oob"}
  BY DEF notify, write, At
<1> QED
  BY <1>1, <1>2, <1>3, <1>4 DEF Step

\* The calls of a server's thread.
ServerDoes(t, op, arg) ==
  \/ Dozes
  \/ op = "set" /\ Ok(t, "ok") /\ Sets(arg)
  \/ op \in {"notify_one", "notify_all"} /\ Ok(t, "ok") /\ Silent
  \/ op = "goto" /\ Does(t, pc[t], IF arg > Len(Code(t)) THEN 0 ELSE arg) /\ Silent
  \/ op = "listen" /\ Ok(t, "ok") /\ Listens(arg)
  \/ op = "accept" /\ Ok(t, "ok") /\ Accepts(t)
  \/ op = "fork" /\ \E f \in Children : Forks(t, f, pc[t], arg)
  \/ op = "fork" /\ Does(t, pc[t], arg) /\ Silent
  \/ op = "read" /\ Ok(t, "ok") /\ Reads(cur[t])
  \/ op = "recv_oob" /\ Ok(t, "ok") /\ ReadsOob(cur[t])
  \/ op = "recv_oob" /\ Err(t) /\ ~conn[cur[t]].urg /\ Silent
  \/ op = "assert_name" /\ Ok(t, "ok") /\ Asserts(t)
  \/ op = "assert_write" /\ Ok(t, "ok") /\ Answer(cur[t])
  \/ op = "close" /\ Ok(t, "ok") /\ ClosesServed(t, cur[t])
  \/ op = "shutdown" /\ Ok(t, "ok") /\ Shuts(cur[t])
  \/ op \notin {"set", "notify_one", "notify_all", "goto", "listen", "accept", "fork",
                "read", "recv_oob", "assert_name", "assert_write", "close", "shutdown"}

\* What a server's step does, from the call it is at.
LEMMA ServerCall ==
  ASSUME NEW t \in Servers, NEW op, NEW arg, Step(t),
         Code(t)[pc[t]].op = op, Code(t)[pc[t]].arg = arg
  PROVE  ServerDoes(t, op, arg)
<1>1. Code(t)[pc[t]].op = op /\ Arg(t) = arg /\ t \notin Clients /\ t \in Threads
  BY MachineAssumption DEF Arg, Threads
<1>2. /\ Go(t, "ok") => Ok(t, "ok")
      /\ Go(t, "err") => Err(t)
  BY GoMoves
<1>3. CASE fallAsleep(t)
  BY <1>3 DEF ServerDoes, fallAsleep, Dozes, Silent, rest
<1>4. CASE op = "set" /\ set(t)
  BY <1>1, <1>2, <1>4 DEF ServerDoes, set, Sets, rest
<1>5. CASE op \in {"notify_one", "notify_all"} /\ notify(t)
  BY <1>1, <1>2, <1>5 DEF ServerDoes, notify, Silent, rest
<1>6. CASE op = "goto" /\ goto(t)
  BY <1>1, <1>6 DEF ServerDoes, goto, Silent, Does, Moves, sync, rest
<1>7. CASE op = "listen" /\ listen(t)
  BY <1>1, <1>2, <1>7 DEF ServerDoes, listen, Listens, sync, rest
<1>8. CASE op = "accept" /\ accept(t)
  BY <1>2, <1>8 DEF ServerDoes, accept, Accepts, sync, rest
<1>9. CASE op = "fork" /\ fork(t)
  BY <1>1, <1>9 DEF ServerDoes, fork, Forks, Silent, sync, Does, Moves, accepting, rest
<1>10. CASE op = "read" /\ read(t)
  BY <1>2, <1>10 DEF ServerDoes, read, Reads, sync, rest
<1>11. CASE op = "recv_oob" /\ recv_oob(t)
  BY <1>2, <1>11 DEF ServerDoes, recv_oob, ReadsOob, Silent, sync, rest
<1>12. CASE op = "assert_name" /\ assert_name(t)
  BY <1>2, <1>12 DEF ServerDoes, assert_name, Asserts, sync, rest
<1>13. CASE op = "assert_write" /\ assert_write(t)
  BY <1>2, <1>13 DEF ServerDoes, assert_write, Answer, sync, rest
<1>14. CASE op = "close" /\ close(t)
  BY <1>1, <1>2, <1>14 DEF ServerDoes, close, ClosesServed, Ends, sync, rest
<1>15. CASE op = "shutdown" /\ shutdown(t)
  BY <1>2, <1>15 DEF ServerDoes, shutdown, Shuts, sync, rest
<1>16. CASE op \notin {"set", "notify_one", "notify_all", "goto", "listen", "accept", "fork",
                         "read", "recv_oob", "assert_name", "assert_write", "close", "shutdown"}
  BY <1>16 DEF ServerDoes
<1> QED
  BY <1>1, <1>3, <1>4, <1>5, <1>6, <1>7, <1>8, <1>9, <1>10, <1>11, <1>12, <1>13, <1>14, <1>15,
     <1>16, StepIsCall

\* The calls of a client.
ClientDoes(t, op, arg) ==
  \/ Dozes
  \/ op = "wait" /\ Ok(t, "ok") /\ arg \in flags /\ Silent
  \/ op = "goto" /\ Does(t, pc[t], IF arg > Len(Code(t)) THEN 0 ELSE arg) /\ Silent
  \/ op = "connect" /\ Ok(t, "ok") /\ Connects(t)
  \/ op = "connect" /\ Err(t) /\ (~Listening \/ arg = "far") /\ Silent
  \/ op = "connect_async" /\ Ok(t, "ok") /\ Connects(t)
  \/ op = "connect_async" /\ (Err(t) \/ Ok(t, "again")) /\ Silent
  \/ op = "connect_async" /\ Ok(t, "progress") /\ Pends(t)
  \/ op = "poll" /\ Ok(t, "ok") /\ Silent
  \/ op = "select" /\ Ok(t, "ready") /\ conn[t].link # "pending" /\ Silent
  \/ op = "select" /\ Ok(t, "timeout") /\ Silent
  \/ op = "so_error" /\ Ok(t, "ok") /\ conn[t].link # "refused" /\ Silent
  \/ op = "so_error" /\ Err(t) /\ Silent
  \/ op = "bind_name" /\ Ok(t, "ok") /\ (\A c \in Clients \ {t} : ~(pc[c] > 1)) /\ Silent
  \/ op = "bind_name" /\ Err(t) /\ Silent
  \/ op \in {"write", "send_oob"} /\ Ok(t, "ok") /\ Writes(t, op = "send_oob")
  \/ op \in {"write", "send_oob"} /\ Err(t) /\ WriteFails(t)
  \/ op = "read_answer" /\ Ok(t, "data") /\ Takes(t)
  \/ op = "read_answer" /\ Ok(t, "eof") /\ conn[t].down = 0 /\ conn[t].sEnd = "fin" /\ Silent
  \/ op = "close" /\ Ok(t, "ok") /\ Closes(t)
  \/ op = "exit" /\ Does(t, pc[t], 0) /\ Closes(t)
  \/ op \notin {"wait", "goto", "connect", "connect_async", "poll", "select", "so_error",
                "bind_name", "write", "send_oob", "read_answer", "close", "exit"}

\* What a client's step does, from the call it is at.
LEMMA ClientCall ==
  ASSUME NEW t \in Clients, NEW op, NEW arg, Step(t),
         Code(t)[pc[t]].op = op, Code(t)[pc[t]].arg = arg
  PROVE  ClientDoes(t, op, arg)
<1>1. Code(t)[pc[t]].op = op /\ Arg(t) = arg /\ t \in Threads
  BY DEF Arg, Threads
<1>2. /\ \A o \in {"ok", "again", "progress", "ready", "timeout", "data", "eof"} :
           Go(t, o) => Ok(t, o)
      /\ Go(t, "err") => Err(t)
  BY GoMoves
<1>3. CASE fallAsleep(t)
  BY <1>3 DEF ClientDoes, fallAsleep, Dozes, Silent, rest
<1>4. CASE op = "wait" /\ wait(t)
  BY <1>1, <1>2, <1>4 DEF ClientDoes, wait, Dozes, Silent, rest
<1>5. CASE op = "goto" /\ goto(t)
  BY <1>1, <1>5 DEF ClientDoes, goto, Silent, Does, Moves, sync, rest
<1>6. CASE op = "connect" /\ connect(t)
  BY <1>1, <1>2, <1>6 DEF ClientDoes, connect, Connects, Silent, sync, accepting, rest
<1>7. CASE op = "connect_async" /\ connect_async(t)
  BY <1>2, <1>7 DEF ClientDoes, connect_async, Connects, Pends, Silent, sync, accepting, rest
<1>8. CASE op = "poll" /\ poll(t)
  BY <1>2, <1>8 DEF ClientDoes, poll, Silent, sync, rest
<1>9. CASE op = "select" /\ select(t)
  BY <1>2, <1>9 DEF ClientDoes, select, Silent, sync, rest
<1>10. CASE op = "so_error" /\ so_error(t)
  BY <1>2, <1>10 DEF ClientDoes, so_error, Silent, sync, rest
<1>11. CASE op = "bind_name" /\ bind_name(t)
  BY <1>2, <1>11 DEF ClientDoes, bind_name, Silent, sync, rest
<1>12. CASE op \in {"write", "send_oob"} /\ write(t)
  <2>1. At(t, "write") => op = "write"
    BY <1>1 DEF At
  <2>2. At(t, "send_oob") => op = "send_oob"
    BY <1>1 DEF At
  <2>3. dead = "no"
    BY <1>12 DEF write, At
  <2> QED
    BY <1>2, <1>12, <2>1, <2>2, <2>3 DEF ClientDoes, write, Writes, Rejects,
       Sends, WriteFails, sync, rest
<1>13. CASE op = "read_answer" /\ read_answer(t)
  BY <1>2, <1>13 DEF ClientDoes, read_answer, Takes, Silent, sync, rest
<1>14. CASE op = "close" /\ close(t)
  BY <1>2, <1>14 DEF ClientDoes, close, Closes, sync, accepting, rest
<1>15. CASE op = "exit" /\ exit(t)
  BY <1>15 DEF ClientDoes, exit, End, Closes, Does, Moves, sync, rest
<1>16. CASE op \notin {"wait", "goto", "connect", "connect_async", "poll", "select", "so_error",
                         "bind_name", "write", "send_oob", "read_answer", "close", "exit"}
  BY <1>16 DEF ClientDoes
<1> QED
  BY <1>1, <1>3, <1>4, <1>5, <1>6, <1>7, <1>8, <1>9, <1>10, <1>11, <1>12, <1>13, <1>14, <1>15,
     <1>16, StepIsCall

-----------------------------------------------------------------------------
(* The programs: who runs which code.                                      *)

\* Every thread has one role.
LEMMA Roles ==
  /\ \A t \in Servers : Role(t) = "server"
  /\ Role(Own) = "own"
  /\ \A c \in Guests : Role(c) = "guest"
  /\ \A c \in Clients \ (Guests \cup {Own}) : Role(c) = "other"
  /\ \A t \in Threads : Role(t) \in {"server", "own", "guest", "other"}
BY MachineAssumption, Zenon DEF Role, Servers

\* What tcp_rest/main2 runs.
LEMMA Main2Code ==
  ASSUME program = "main2"
  PROVE  /\ \A t \in Servers : Code(t) = main2_server
         /\ Code(Own) = main2_client
         /\ \A c \in Guests : Code(c) = tcp_rest_main
         /\ \A c \in Clients \ (Guests \cup {Own}) : Code(c) = <<>>
BY Roles DEF Code, Table, Run, main2_main

\* What tcp_rest/main3 runs.
LEMMA Main3Code ==
  ASSUME program = "main3"
  PROVE  /\ \A t \in Servers : Code(t) = main3_server
         /\ Code(Own) = main3_client
         /\ \A c \in Guests : Code(c) = tcp_rest_main
         /\ \A c \in Clients \ (Guests \cup {Own}) : Code(c) = <<>>
BY Roles DEF Code, Table, Run, main3_main

\* What sigurg/main.cpp runs.
LEMMA SigurgCode ==
  ASSUME program = "sigurg"
  PROVE  /\ \A t \in Servers : Code(t) = sigurg_server
         /\ Code(Own) = sigurg_client
         /\ \A c \in Guests : Code(c) = tcp_rest_main
         /\ \A c \in Clients \ (Guests \cup {Own}) : Code(c) = <<>>
BY Roles DEF Code, Table, Run, sigurg_main

\* What api/main.cpp runs: one kind of client connects to another host.
LEMMA ApiCode ==
  ASSUME program = "api"
  PROVE  /\ \A t \in Servers : Code(t) = api_server
         /\ \A c \in Clients : Code(c) \in {api_client("near"), api_client("far")}
BY Roles DEF Code, Table, Run, api_main

\* What time/server.cpp and time/client.cpp run.
LEMMA TimeCode ==
  ASSUME program = "time"
  PROVE  /\ \A t \in Servers : Code(t) = time_server
         /\ \A c \in Clients : Code(c) = time_client
BY Roles DEF Code, Table, Run

\* What the two programs of abstractunix run.
LEMMA UnixCode ==
  ASSUME program = "unix"
  PROVE  /\ \A t \in Servers : Code(t) = unix_server
         /\ \A c \in Clients : Code(c) = unix_client
BY Roles DEF Code, Table, Run

\* What poll/main.cpp runs.
LEMMA PollCode ==
  ASSUME program = "poll"
  PROVE  /\ Code(Own) = poll_main
         /\ \A t \in Threads \ {Own} : Code(t) = <<>>
BY Roles DEF Code, Table, Run, Threads

\* What net::connectAsync runs against.
LEMMA AsyncCode ==
  ASSUME program = "async"
  PROVE  /\ \A t \in Servers : Code(t) = << Do("listen", 1) >>
         /\ Code(Own) = connectAsync
         /\ \A c \in Clients \ {Own} : Code(c) = <<>>
BY Roles DEF Code, Table, Run

-----------------------------------------------------------------------------
(* The control flow of each function: one line for each way to leave a     *)
(* label.                                                                  *)

\* At a label that names no other target a call goes on behind it.
LEMMA ServerDo ==
  ASSUME NEW t \in Servers, NEW op, NEW arg, NEW k \in Nat, Step(t), pc[t] = k,
         k <= Len(Code(t)), Len(Code(t)) \in Nat, Code(t)[k] = Do(op, arg)
  PROVE  /\ ServerDoes(t, op, arg)
         /\ Ok(t, "ok") => Does(t, k, IF k = Len(Code(t)) THEN 0 ELSE k + 1)
         /\ Err(t) => Fails(t, k, IF k = Len(Code(t)) THEN 0 ELSE k + 1)
<1>1. Code(t)[pc[t]].op = op /\ Code(t)[pc[t]].arg = arg
  BY DEF Do
<1>2. \A o : After(t, o) = IF k = Len(Code(t)) THEN 0 ELSE k + 1
  BY AfterDo
<1> QED
  BY <1>1, <1>2, ServerCall DEF Ok, Err

\* The same for a client.
LEMMA ClientDo ==
  ASSUME NEW t \in Clients, NEW op, NEW arg, NEW k \in Nat, Step(t), pc[t] = k,
         k <= Len(Code(t)), Len(Code(t)) \in Nat, Code(t)[k] = Do(op, arg)
  PROVE  /\ ClientDoes(t, op, arg)
         /\ Ok(t, "ok") => Does(t, k, IF k = Len(Code(t)) THEN 0 ELSE k + 1)
         /\ Err(t) => Fails(t, k, IF k = Len(Code(t)) THEN 0 ELSE k + 1)
<1>1. Code(t)[pc[t]].op = op /\ Code(t)[pc[t]].arg = arg
  BY DEF Do
<1>2. \A o : After(t, o) = IF k = Len(Code(t)) THEN 0 ELSE k + 1
  BY AfterDo
<1> QED
  BY <1>1, <1>2, ClientCall DEF Ok, Err

\* At a label that names where a failure leads.
LEMMA ServerOr ==
  ASSUME NEW t \in Servers, NEW op, NEW arg, NEW l \in Nat, NEW k \in Nat, Step(t),
         pc[t] = k, k <= Len(Code(t)), Len(Code(t)) \in Nat, Code(t)[k] = Or(op, arg, l)
  PROVE  /\ ServerDoes(t, op, arg)
         /\ Ok(t, "ok") => Does(t, k, IF k = Len(Code(t)) THEN 0 ELSE k + 1)
         /\ Err(t) => Fails(t, k, IF l > Len(Code(t)) THEN 0 ELSE l)
<1>1. Code(t)[pc[t]].op = op /\ Code(t)[pc[t]].arg = arg
  BY DEF Or
<1>2. /\ After(t, "ok") = (IF k = Len(Code(t)) THEN 0 ELSE k + 1)
      /\ After(t, "err") = (IF l > Len(Code(t)) THEN 0 ELSE l)
  BY AfterOr
<1> QED
  BY <1>1, <1>2, ServerCall DEF Ok, Err

\* The same for a client.
LEMMA ClientOr ==
  ASSUME NEW t \in Clients, NEW op, NEW arg, NEW l \in Nat, NEW k \in Nat, Step(t),
         pc[t] = k, k <= Len(Code(t)), Len(Code(t)) \in Nat, Code(t)[k] = Or(op, arg, l)
  PROVE  /\ ClientDoes(t, op, arg)
         /\ Ok(t, "ok") => Does(t, k, IF k = Len(Code(t)) THEN 0 ELSE k + 1)
         /\ Err(t) => Fails(t, k, IF l > Len(Code(t)) THEN 0 ELSE l)
<1>1. Code(t)[pc[t]].op = op /\ Code(t)[pc[t]].arg = arg
  BY DEF Or
<1>2. /\ After(t, "ok") = (IF k = Len(Code(t)) THEN 0 ELSE k + 1)
      /\ After(t, "err") = (IF l > Len(Code(t)) THEN 0 ELSE l)
  BY AfterOr
<1> QED
  BY <1>1, <1>2, ClientCall DEF Ok, Err

Main2Server(t) ==
  \/ Dozes
  \/ Does(t, 1, 2) /\ Listens(100)
  \/ Does(t, 2, 3) /\ Sets("atom")
  \/ Does(t, 3, 4) /\ Silent
  \/ Does(t, 4, 5) /\ Accepts(t)
  \/ Does(t, 5, 6) /\ ClosesServed(t, cur[t])
  \/ Does(t, 6, 7) /\ Sets("atom1")
  \/ Does(t, 7, 8) /\ Silent
  \/ Does(t, 8, 4) /\ Silent

\* These are the steps it takes.
LEMMA Main2ServerSteps ==
  ASSUME NEW t \in Servers, Code(t) = main2_server, Step(t), pc[t] \in 1 .. 8
  PROVE  Main2Server(t)
<1>1. PICK p : /\ p = Code(t) /\ Len(p) = 8
               /\ p[1] = Do("listen", 100)
               /\ p[2] = Do("set", "atom")
               /\ p[3] = Do("notify_one", "atom")
               /\ p[4] = Do("accept", 0)
               /\ p[5] = Do("close", 0)
               /\ p[6] = Do("set", "atom1")
               /\ p[7] = Do("notify_one", "atom1")
               /\ p[8] = Do("goto", 4)
  BY DEF main2_server
<1>2. ASSUME NEW op, NEW arg, NEW k \in 1 .. 8, pc[t] = k, p[k] = Do(op, arg)
      PROVE  /\ ServerDoes(t, op, arg)
             /\ Ok(t, "ok") => Does(t, k, IF k = 8 THEN 0 ELSE k + 1)
             /\ Err(t) => Fails(t, k, IF k = 8 THEN 0 ELSE k + 1)
  <2>1. k \in Nat /\ k <= Len(p) /\ Len(p) \in Nat /\ p = Code(t)
    BY <1>1
  <2>2. /\ ServerDoes(t, op, arg)
        /\ Ok(t, "ok") => Does(t, k, IF k = Len(p) THEN 0 ELSE k + 1)
        /\ Err(t) => Fails(t, k, IF k = Len(p) THEN 0 ELSE k + 1)
    BY <1>2, <2>1, ServerDo
  <2> QED
    BY <1>1, <2>2
<1>3. CASE pc[t] = 1
  <2>1. /\ ServerDoes(t, "listen", 100)
        /\ Ok(t, "ok") => Does(t, 1, 2)
    BY <1>1, <1>2, <1>3
  <2> QED
    BY <2>1, <1>3 DEF Main2Server, ServerDoes
<1>4. CASE pc[t] = 2
  <2>1. /\ ServerDoes(t, "set", "atom")
        /\ Ok(t, "ok") => Does(t, 2, 3)
    BY <1>1, <1>2, <1>4
  <2> QED
    BY <2>1, <1>4 DEF Main2Server, ServerDoes
<1>5. CASE pc[t] = 3
  <2>1. /\ ServerDoes(t, "notify_one", "atom")
        /\ Ok(t, "ok") => Does(t, 3, 4)
    BY <1>1, <1>2, <1>5
  <2> QED
    BY <2>1, <1>5 DEF Main2Server, ServerDoes
<1>6. CASE pc[t] = 4
  <2>1. /\ ServerDoes(t, "accept", 0)
        /\ Ok(t, "ok") => Does(t, 4, 5)
    BY <1>1, <1>2, <1>6
  <2> QED
    BY <2>1, <1>6 DEF Main2Server, ServerDoes
<1>7. CASE pc[t] = 5
  <2>1. /\ ServerDoes(t, "close", 0)
        /\ Ok(t, "ok") => Does(t, 5, 6)
    BY <1>1, <1>2, <1>7
  <2> QED
    BY <2>1, <1>7 DEF Main2Server, ServerDoes
<1>8. CASE pc[t] = 6
  <2>1. /\ ServerDoes(t, "set", "atom1")
        /\ Ok(t, "ok") => Does(t, 6, 7)
    BY <1>1, <1>2, <1>8
  <2> QED
    BY <2>1, <1>8 DEF Main2Server, ServerDoes
<1>9. CASE pc[t] = 7
  <2>1. /\ ServerDoes(t, "notify_one", "atom1")
        /\ Ok(t, "ok") => Does(t, 7, 8)
    BY <1>1, <1>2, <1>9
  <2> QED
    BY <2>1, <1>9 DEF Main2Server, ServerDoes
<1>10. CASE pc[t] = 8
  <2>1. /\ ServerDoes(t, "goto", 4)
        /\ Does(t, pc[t], IF 4 > Len(Code(t)) THEN 0 ELSE 4) => Does(t, 8, 4)
    BY <1>1, <1>2, <1>10
  <2> QED
    BY <2>1, <1>10 DEF Main2Server, ServerDoes
<1> QED
  BY <1>3, <1>4, <1>5, <1>6, <1>7, <1>8, <1>9, <1>10

Main2Client(c) ==
  \/ Dozes
  \/ Does(c, 1, 2) /\ "atom" \in flags /\ Silent
  \/ Does(c, 2, 3) /\ Connects(c)
  \/ Fails(c, 2, 0) /\ ~Listening /\ Silent
  \/ Does(c, 3, 4) /\ Writes(c, FALSE)
  \/ Fails(c, 3, 7) /\ WriteFails(c)
  \/ Does(c, 4, 5) /\ "atom1" \in flags /\ Silent
  \/ Does(c, 5, 6) /\ Writes(c, FALSE)
  \/ Fails(c, 5, 7) /\ WriteFails(c)
  \/ Does(c, 6, 0) /\ Silent
  \/ Does(c, 7, 0) /\ Closes(c)

\* These are the steps it takes.
LEMMA Main2ClientSteps ==
  ASSUME NEW c \in Clients, Code(c) = main2_client, Step(c), pc[c] \in 1 .. 7
  PROVE  Main2Client(c)
<1>1. PICK p : /\ p = Code(c) /\ Len(p) = 7
               /\ p[1] = Do("wait", "atom")
               /\ p[2] = Or("connect", "near", 8)
               /\ p[3] = Or("write", 1, 7)
               /\ p[4] = Do("wait", "atom1")
               /\ p[5] = Or("write", 1, 7)
               /\ p[6] = Do("goto", 8)
               /\ p[7] = Do("close", 0)
  BY DEF main2_client
<1>2. ASSUME NEW op, NEW arg, NEW k \in 1 .. 7, pc[c] = k, p[k] = Do(op, arg)
      PROVE  /\ ClientDoes(c, op, arg)
             /\ Ok(c, "ok") => Does(c, k, IF k = 7 THEN 0 ELSE k + 1)
             /\ Err(c) => Fails(c, k, IF k = 7 THEN 0 ELSE k + 1)
  <2>1. k \in Nat /\ k <= Len(p) /\ Len(p) \in Nat /\ p = Code(c)
    BY <1>1
  <2>2. /\ ClientDoes(c, op, arg)
        /\ Ok(c, "ok") => Does(c, k, IF k = Len(p) THEN 0 ELSE k + 1)
        /\ Err(c) => Fails(c, k, IF k = Len(p) THEN 0 ELSE k + 1)
    BY <1>2, <2>1, ClientDo
  <2> QED
    BY <1>1, <2>2
<1>3. ASSUME NEW op, NEW arg, NEW l \in Nat, NEW k \in 1 .. 7, pc[c] = k, p[k] = Or(op, arg, l)
      PROVE  /\ ClientDoes(c, op, arg)
             /\ Ok(c, "ok") => Does(c, k, IF k = 7 THEN 0 ELSE k + 1)
             /\ Err(c) => Fails(c, k, IF l > 7 THEN 0 ELSE l)
  <2>1. k \in Nat /\ k <= Len(p) /\ Len(p) \in Nat /\ p = Code(c)
    BY <1>1
  <2>2. /\ ClientDoes(c, op, arg)
        /\ Ok(c, "ok") => Does(c, k, IF k = Len(p) THEN 0 ELSE k + 1)
        /\ Err(c) => Fails(c, k, IF l > Len(p) THEN 0 ELSE l)
    BY <1>3, <2>1, ClientOr
  <2> QED
    BY <1>1, <2>2
<1>4. CASE pc[c] = 1
  <2>1. /\ ClientDoes(c, "wait", "atom")
        /\ Ok(c, "ok") => Does(c, 1, 2)
    BY <1>1, <1>2, <1>4
  <2> QED
    BY <2>1, <1>4, Zenon DEF Main2Client, ClientDoes
<1>5. CASE pc[c] = 2
  <2>1. /\ ClientDoes(c, "connect", "near")
        /\ Ok(c, "ok") => Does(c, 2, 3)
        /\ Err(c) => Fails(c, 2, 0)
    BY <1>1, <1>3, <1>5
  <2> QED
    BY <2>1, <1>5, Zenon DEF Main2Client, ClientDoes
<1>6. CASE pc[c] = 3
  <2>1. /\ ClientDoes(c, "write", 1)
        /\ Ok(c, "ok") => Does(c, 3, 4)
        /\ Err(c) => Fails(c, 3, 7)
    BY <1>1, <1>3, <1>6
  <2> QED
    BY <2>1, <1>6, Zenon DEF Main2Client, ClientDoes
<1>7. CASE pc[c] = 4
  <2>1. /\ ClientDoes(c, "wait", "atom1")
        /\ Ok(c, "ok") => Does(c, 4, 5)
    BY <1>1, <1>2, <1>7
  <2> QED
    BY <2>1, <1>7, Zenon DEF Main2Client, ClientDoes
<1>8. CASE pc[c] = 5
  <2>1. /\ ClientDoes(c, "write", 1)
        /\ Ok(c, "ok") => Does(c, 5, 6)
        /\ Err(c) => Fails(c, 5, 7)
    BY <1>1, <1>3, <1>8
  <2> QED
    BY <2>1, <1>8, Zenon DEF Main2Client, ClientDoes
<1>9. CASE pc[c] = 6
  <2>1. /\ ClientDoes(c, "goto", 8)
        /\ Does(c, pc[c], IF 8 > Len(Code(c)) THEN 0 ELSE 8) => Does(c, 6, 0)
    BY <1>1, <1>2, <1>9
  <2> QED
    BY <2>1, <1>9, Zenon DEF Main2Client, ClientDoes
<1>10. CASE pc[c] = 7
  <2>1. /\ ClientDoes(c, "close", 0)
        /\ Ok(c, "ok") => Does(c, 7, 0)
    BY <1>1, <1>2, <1>10
  <2> QED
    BY <2>1, <1>10, Zenon DEF Main2Client, ClientDoes
<1> QED
  BY <1>4, <1>5, <1>6, <1>7, <1>8, <1>9, <1>10

Main3Server(t) ==
  \/ Dozes
  \/ Does(t, 1, 2) /\ Listens(100)
  \/ Does(t, 2, 3) /\ Sets("atom")
  \/ Does(t, 3, 4) /\ Silent
  \/ Does(t, 4, 5) /\ Accepts(t)
  \/ Does(t, 5, 6) /\ Reads(cur[t])
  \/ Does(t, 6, 7) /\ ClosesServed(t, cur[t])
  \/ Does(t, 7, 8) /\ Sets("atom1")
  \/ Does(t, 8, 9) /\ Silent
  \/ Does(t, 9, 4) /\ Silent

\* These are the steps it takes.
LEMMA Main3ServerSteps ==
  ASSUME NEW t \in Servers, Code(t) = main3_server, Step(t), pc[t] \in 1 .. 9
  PROVE  Main3Server(t)
<1>1. PICK p : /\ p = Code(t) /\ Len(p) = 9
               /\ p[1] = Do("listen", 100)
               /\ p[2] = Do("set", "atom")
               /\ p[3] = Do("notify_one", "atom")
               /\ p[4] = Do("accept", 0)
               /\ p[5] = Do("read", 0)
               /\ p[6] = Do("close", 0)
               /\ p[7] = Do("set", "atom1")
               /\ p[8] = Do("notify_one", "atom1")
               /\ p[9] = Do("goto", 4)
  BY DEF main3_server
<1>2. ASSUME NEW op, NEW arg, NEW k \in 1 .. 9, pc[t] = k, p[k] = Do(op, arg)
      PROVE  /\ ServerDoes(t, op, arg)
             /\ Ok(t, "ok") => Does(t, k, IF k = 9 THEN 0 ELSE k + 1)
             /\ Err(t) => Fails(t, k, IF k = 9 THEN 0 ELSE k + 1)
  <2>1. k \in Nat /\ k <= Len(p) /\ Len(p) \in Nat /\ p = Code(t)
    BY <1>1
  <2>2. /\ ServerDoes(t, op, arg)
        /\ Ok(t, "ok") => Does(t, k, IF k = Len(p) THEN 0 ELSE k + 1)
        /\ Err(t) => Fails(t, k, IF k = Len(p) THEN 0 ELSE k + 1)
    BY <1>2, <2>1, ServerDo
  <2> QED
    BY <1>1, <2>2
<1>3. CASE pc[t] = 1
  <2>1. /\ ServerDoes(t, "listen", 100)
        /\ Ok(t, "ok") => Does(t, 1, 2)
    BY <1>1, <1>2, <1>3
  <2> QED
    BY <2>1, <1>3 DEF Main3Server, ServerDoes
<1>4. CASE pc[t] = 2
  <2>1. /\ ServerDoes(t, "set", "atom")
        /\ Ok(t, "ok") => Does(t, 2, 3)
    BY <1>1, <1>2, <1>4
  <2> QED
    BY <2>1, <1>4 DEF Main3Server, ServerDoes
<1>5. CASE pc[t] = 3
  <2>1. /\ ServerDoes(t, "notify_one", "atom")
        /\ Ok(t, "ok") => Does(t, 3, 4)
    BY <1>1, <1>2, <1>5
  <2> QED
    BY <2>1, <1>5 DEF Main3Server, ServerDoes
<1>6. CASE pc[t] = 4
  <2>1. /\ ServerDoes(t, "accept", 0)
        /\ Ok(t, "ok") => Does(t, 4, 5)
    BY <1>1, <1>2, <1>6
  <2> QED
    BY <2>1, <1>6 DEF Main3Server, ServerDoes
<1>7. CASE pc[t] = 5
  <2>1. /\ ServerDoes(t, "read", 0)
        /\ Ok(t, "ok") => Does(t, 5, 6)
    BY <1>1, <1>2, <1>7
  <2> QED
    BY <2>1, <1>7 DEF Main3Server, ServerDoes
<1>8. CASE pc[t] = 6
  <2>1. /\ ServerDoes(t, "close", 0)
        /\ Ok(t, "ok") => Does(t, 6, 7)
    BY <1>1, <1>2, <1>8
  <2> QED
    BY <2>1, <1>8 DEF Main3Server, ServerDoes
<1>9. CASE pc[t] = 7
  <2>1. /\ ServerDoes(t, "set", "atom1")
        /\ Ok(t, "ok") => Does(t, 7, 8)
    BY <1>1, <1>2, <1>9
  <2> QED
    BY <2>1, <1>9 DEF Main3Server, ServerDoes
<1>10. CASE pc[t] = 8
  <2>1. /\ ServerDoes(t, "notify_one", "atom1")
        /\ Ok(t, "ok") => Does(t, 8, 9)
    BY <1>1, <1>2, <1>10
  <2> QED
    BY <2>1, <1>10 DEF Main3Server, ServerDoes
<1>11. CASE pc[t] = 9
  <2>1. /\ ServerDoes(t, "goto", 4)
        /\ Does(t, pc[t], IF 4 > Len(Code(t)) THEN 0 ELSE 4) => Does(t, 9, 4)
    BY <1>1, <1>2, <1>11
  <2> QED
    BY <2>1, <1>11 DEF Main3Server, ServerDoes
<1> QED
  BY <1>3, <1>4, <1>5, <1>6, <1>7, <1>8, <1>9, <1>10, <1>11

Main3Client(c) ==
  \/ Dozes
  \/ Does(c, 1, 2) /\ "atom" \in flags /\ Silent
  \/ Does(c, 2, 3) /\ Connects(c)
  \/ Fails(c, 2, 0) /\ ~Listening /\ Silent
  \/ Does(c, 3, 4) /\ Writes(c, FALSE)
  \/ Fails(c, 3, 7) /\ WriteFails(c)
  \/ Does(c, 4, 5) /\ "atom1" \in flags /\ Silent
  \/ Does(c, 5, 6) /\ Writes(c, FALSE)
  \/ Fails(c, 5, 7) /\ WriteFails(c)
  \/ Does(c, 6, 7) /\ Writes(c, FALSE)
  \/ Fails(c, 6, 7) /\ WriteFails(c)
  \/ Does(c, 7, 0) /\ Closes(c)

\* These are the steps it takes.
LEMMA Main3ClientSteps ==
  ASSUME NEW c \in Clients, Code(c) = main3_client, Step(c), pc[c] \in 1 .. 7
  PROVE  Main3Client(c)
<1>1. PICK p : /\ p = Code(c) /\ Len(p) = 7
               /\ p[1] = Do("wait", "atom")
               /\ p[2] = Or("connect", "near", 8)
               /\ p[3] = Or("write", 1, 7)
               /\ p[4] = Do("wait", "atom1")
               /\ p[5] = Or("write", 1, 7)
               /\ p[6] = Or("write", 1, 7)
               /\ p[7] = Do("close", 0)
  BY DEF main3_client
<1>2. ASSUME NEW op, NEW arg, NEW k \in 1 .. 7, pc[c] = k, p[k] = Do(op, arg)
      PROVE  /\ ClientDoes(c, op, arg)
             /\ Ok(c, "ok") => Does(c, k, IF k = 7 THEN 0 ELSE k + 1)
             /\ Err(c) => Fails(c, k, IF k = 7 THEN 0 ELSE k + 1)
  <2>1. k \in Nat /\ k <= Len(p) /\ Len(p) \in Nat /\ p = Code(c)
    BY <1>1
  <2>2. /\ ClientDoes(c, op, arg)
        /\ Ok(c, "ok") => Does(c, k, IF k = Len(p) THEN 0 ELSE k + 1)
        /\ Err(c) => Fails(c, k, IF k = Len(p) THEN 0 ELSE k + 1)
    BY <1>2, <2>1, ClientDo
  <2> QED
    BY <1>1, <2>2
<1>3. ASSUME NEW op, NEW arg, NEW l \in Nat, NEW k \in 1 .. 7, pc[c] = k, p[k] = Or(op, arg, l)
      PROVE  /\ ClientDoes(c, op, arg)
             /\ Ok(c, "ok") => Does(c, k, IF k = 7 THEN 0 ELSE k + 1)
             /\ Err(c) => Fails(c, k, IF l > 7 THEN 0 ELSE l)
  <2>1. k \in Nat /\ k <= Len(p) /\ Len(p) \in Nat /\ p = Code(c)
    BY <1>1
  <2>2. /\ ClientDoes(c, op, arg)
        /\ Ok(c, "ok") => Does(c, k, IF k = Len(p) THEN 0 ELSE k + 1)
        /\ Err(c) => Fails(c, k, IF l > Len(p) THEN 0 ELSE l)
    BY <1>3, <2>1, ClientOr
  <2> QED
    BY <1>1, <2>2
<1>4. CASE pc[c] = 1
  <2>1. /\ ClientDoes(c, "wait", "atom")
        /\ Ok(c, "ok") => Does(c, 1, 2)
    BY <1>1, <1>2, <1>4
  <2> QED
    BY <2>1, <1>4, Zenon DEF Main3Client, ClientDoes
<1>5. CASE pc[c] = 2
  <2>1. /\ ClientDoes(c, "connect", "near")
        /\ Ok(c, "ok") => Does(c, 2, 3)
        /\ Err(c) => Fails(c, 2, 0)
    BY <1>1, <1>3, <1>5
  <2> QED
    BY <2>1, <1>5, Zenon DEF Main3Client, ClientDoes
<1>6. CASE pc[c] = 3
  <2>1. /\ ClientDoes(c, "write", 1)
        /\ Ok(c, "ok") => Does(c, 3, 4)
        /\ Err(c) => Fails(c, 3, 7)
    BY <1>1, <1>3, <1>6
  <2> QED
    BY <2>1, <1>6, Zenon DEF Main3Client, ClientDoes
<1>7. CASE pc[c] = 4
  <2>1. /\ ClientDoes(c, "wait", "atom1")
        /\ Ok(c, "ok") => Does(c, 4, 5)
    BY <1>1, <1>2, <1>7
  <2> QED
    BY <2>1, <1>7, Zenon DEF Main3Client, ClientDoes
<1>8. CASE pc[c] = 5
  <2>1. /\ ClientDoes(c, "write", 1)
        /\ Ok(c, "ok") => Does(c, 5, 6)
        /\ Err(c) => Fails(c, 5, 7)
    BY <1>1, <1>3, <1>8
  <2> QED
    BY <2>1, <1>8, Zenon DEF Main3Client, ClientDoes
<1>9. CASE pc[c] = 6
  <2>1. /\ ClientDoes(c, "write", 1)
        /\ Ok(c, "ok") => Does(c, 6, 7)
        /\ Err(c) => Fails(c, 6, 7)
    BY <1>1, <1>3, <1>9
  <2> QED
    BY <2>1, <1>9, Zenon DEF Main3Client, ClientDoes
<1>10. CASE pc[c] = 7
  <2>1. /\ ClientDoes(c, "close", 0)
        /\ Ok(c, "ok") => Does(c, 7, 0)
    BY <1>1, <1>2, <1>10
  <2> QED
    BY <2>1, <1>10, Zenon DEF Main3Client, ClientDoes
<1> QED
  BY <1>4, <1>5, <1>6, <1>7, <1>8, <1>9, <1>10

Visits(c) ==
  \/ Dozes
  \/ Does(c, 1, 2) /\ Connects(c)
  \/ Fails(c, 1, 2) /\ ~Listening /\ Silent
  \/ Does(c, 2, 0) /\ Closes(c)

\* These are the steps it takes.
LEMMA VisitsSteps ==
  ASSUME NEW c \in Clients, Code(c) = tcp_rest_main, Step(c), pc[c] \in 1 .. 2
  PROVE  Visits(c)
<1>1. PICK p : /\ p = Code(c) /\ Len(p) = 2
               /\ p[1] = Do("connect", "near")
               /\ p[2] = Do("exit", 0)
  BY DEF tcp_rest_main
<1>2. ASSUME NEW op, NEW arg, NEW k \in 1 .. 2, pc[c] = k, p[k] = Do(op, arg)
      PROVE  /\ ClientDoes(c, op, arg)
             /\ Ok(c, "ok") => Does(c, k, IF k = 2 THEN 0 ELSE k + 1)
             /\ Err(c) => Fails(c, k, IF k = 2 THEN 0 ELSE k + 1)
  <2>1. k \in Nat /\ k <= Len(p) /\ Len(p) \in Nat /\ p = Code(c)
    BY <1>1
  <2>2. /\ ClientDoes(c, op, arg)
        /\ Ok(c, "ok") => Does(c, k, IF k = Len(p) THEN 0 ELSE k + 1)
        /\ Err(c) => Fails(c, k, IF k = Len(p) THEN 0 ELSE k + 1)
    BY <1>2, <2>1, ClientDo
  <2> QED
    BY <1>1, <2>2
<1>3. CASE pc[c] = 1
  <2>1. /\ ClientDoes(c, "connect", "near")
        /\ Ok(c, "ok") => Does(c, 1, 2)
        /\ Err(c) => Fails(c, 1, 2)
    BY <1>1, <1>2, <1>3
  <2> QED
    BY <2>1, <1>3, Zenon DEF Visits, ClientDoes
<1>4. CASE pc[c] = 2
  <2>1. /\ ClientDoes(c, "exit", 0)
    BY <1>1, <1>2, <1>4
  <2> QED
    BY <2>1, <1>4, Zenon DEF Visits, ClientDoes
<1> QED
  BY <1>3, <1>4

ApiServer(t) ==
  \/ Dozes
  \/ Does(t, 1, 2) /\ Listens(100)
  \/ Does(t, 2, 3) /\ Sets("ck")
  \/ Does(t, 3, 4) /\ Silent
  \/ Does(t, 4, 5) /\ Accepts(t)
  \/ Does(t, 5, 6) /\ Reads(cur[t])
  \/ Does(t, 6, 7) /\ Asserts(t)
  \/ Does(t, 7, 8) /\ ClosesServed(t, cur[t])
  \/ Does(t, 8, 4) /\ Silent

\* These are the steps it takes.
LEMMA ApiServerSteps ==
  ASSUME NEW t \in Servers, Code(t) = api_server, Step(t), pc[t] \in 1 .. 8
  PROVE  ApiServer(t)
<1>1. PICK p : /\ p = Code(t) /\ Len(p) = 8
               /\ p[1] = Do("listen", 100)
               /\ p[2] = Do("set", "ck")
               /\ p[3] = Do("notify_all", "ck")
               /\ p[4] = Do("accept", 0)
               /\ p[5] = Do("read", 0)
               /\ p[6] = Do("assert_name", 0)
               /\ p[7] = Do("close", 0)
               /\ p[8] = Do("goto", 4)
  BY DEF api_server
<1>2. ASSUME NEW op, NEW arg, NEW k \in 1 .. 8, pc[t] = k, p[k] = Do(op, arg)
      PROVE  /\ ServerDoes(t, op, arg)
             /\ Ok(t, "ok") => Does(t, k, IF k = 8 THEN 0 ELSE k + 1)
             /\ Err(t) => Fails(t, k, IF k = 8 THEN 0 ELSE k + 1)
  <2>1. k \in Nat /\ k <= Len(p) /\ Len(p) \in Nat /\ p = Code(t)
    BY <1>1
  <2>2. /\ ServerDoes(t, op, arg)
        /\ Ok(t, "ok") => Does(t, k, IF k = Len(p) THEN 0 ELSE k + 1)
        /\ Err(t) => Fails(t, k, IF k = Len(p) THEN 0 ELSE k + 1)
    BY <1>2, <2>1, ServerDo
  <2> QED
    BY <1>1, <2>2
<1>3. CASE pc[t] = 1
  <2>1. /\ ServerDoes(t, "listen", 100)
        /\ Ok(t, "ok") => Does(t, 1, 2)
    BY <1>1, <1>2, <1>3
  <2> QED
    BY <2>1, <1>3, Zenon DEF ApiServer, ServerDoes
<1>4. CASE pc[t] = 2
  <2>1. /\ ServerDoes(t, "set", "ck")
        /\ Ok(t, "ok") => Does(t, 2, 3)
    BY <1>1, <1>2, <1>4
  <2> QED
    BY <2>1, <1>4 DEF ApiServer, ServerDoes
<1>5. CASE pc[t] = 3
  <2>1. /\ ServerDoes(t, "notify_all", "ck")
        /\ Ok(t, "ok") => Does(t, 3, 4)
    BY <1>1, <1>2, <1>5
  <2> QED
    BY <2>1, <1>5 DEF ApiServer, ServerDoes
<1>6. CASE pc[t] = 4
  <2>1. /\ ServerDoes(t, "accept", 0)
        /\ Ok(t, "ok") => Does(t, 4, 5)
    BY <1>1, <1>2, <1>6
  <2> QED
    BY <2>1, <1>6 DEF ApiServer, ServerDoes
<1>7. CASE pc[t] = 5
  <2>1. /\ ServerDoes(t, "read", 0)
        /\ Ok(t, "ok") => Does(t, 5, 6)
    BY <1>1, <1>2, <1>7
  <2> QED
    BY <2>1, <1>7, Zenon DEF ApiServer, ServerDoes
<1>8. CASE pc[t] = 6
  <2>1. /\ ServerDoes(t, "assert_name", 0)
        /\ Ok(t, "ok") => Does(t, 6, 7)
    BY <1>1, <1>2, <1>8
  <2> QED
    BY <2>1, <1>8, Zenon DEF ApiServer, ServerDoes
<1>9. CASE pc[t] = 7
  <2>1. /\ ServerDoes(t, "close", 0)
        /\ Ok(t, "ok") => Does(t, 7, 8)
    BY <1>1, <1>2, <1>9
  <2> QED
    BY <2>1, <1>9 DEF ApiServer, ServerDoes
<1>10. CASE pc[t] = 8
  <2>1. /\ ServerDoes(t, "goto", 4)
        /\ Does(t, pc[t], IF 4 > Len(Code(t)) THEN 0 ELSE 4) => Does(t, 8, 4)
    BY <1>1, <1>2, <1>10
  <2> QED
    BY <2>1, <1>10 DEF ApiServer, ServerDoes
<1> QED
  BY <1>3, <1>4, <1>5, <1>6, <1>7, <1>8, <1>9, <1>10

ApiClient(c, remote) ==
  \/ Dozes
  \/ Does(c, 1, 2) /\ "ck" \in flags /\ Silent
  \/ Does(c, 2, 3) /\ Connects(c)
  \/ Fails(c, 2, 0) /\ (~Listening \/ remote = "far") /\ Silent
  \/ Does(c, 3, 4) /\ Writes(c, TRUE)
  \/ Fails(c, 3, 4) /\ WriteFails(c)
  \/ Does(c, 4, 0) /\ Closes(c)

\* These are the steps it takes.
LEMMA ApiClientSteps ==
  ASSUME NEW c \in Clients, NEW remote, Code(c) = api_client(remote), Step(c), pc[c] \in 1 .. 4
  PROVE  ApiClient(c, remote)
<1>1. PICK p : /\ p = Code(c) /\ Len(p) = 4
               /\ p[1] = Do("wait", "ck")
               /\ p[2] = Or("connect", remote, 5)
               /\ p[3] = Do("send_oob", 0)
               /\ p[4] = Do("close", 0)
  BY DEF api_client
<1>2. ASSUME NEW op, NEW arg, NEW k \in 1 .. 4, pc[c] = k, p[k] = Do(op, arg)
      PROVE  /\ ClientDoes(c, op, arg)
             /\ Ok(c, "ok") => Does(c, k, IF k = 4 THEN 0 ELSE k + 1)
             /\ Err(c) => Fails(c, k, IF k = 4 THEN 0 ELSE k + 1)
  <2>1. k \in Nat /\ k <= Len(p) /\ Len(p) \in Nat /\ p = Code(c)
    BY <1>1
  <2>2. /\ ClientDoes(c, op, arg)
        /\ Ok(c, "ok") => Does(c, k, IF k = Len(p) THEN 0 ELSE k + 1)
        /\ Err(c) => Fails(c, k, IF k = Len(p) THEN 0 ELSE k + 1)
    BY <1>2, <2>1, ClientDo
  <2> QED
    BY <1>1, <2>2
<1>3. ASSUME NEW op, NEW arg, NEW l \in Nat, NEW k \in 1 .. 4, pc[c] = k, p[k] = Or(op, arg, l)
      PROVE  /\ ClientDoes(c, op, arg)
             /\ Ok(c, "ok") => Does(c, k, IF k = 4 THEN 0 ELSE k + 1)
             /\ Err(c) => Fails(c, k, IF l > 4 THEN 0 ELSE l)
  <2>1. k \in Nat /\ k <= Len(p) /\ Len(p) \in Nat /\ p = Code(c)
    BY <1>1
  <2>2. /\ ClientDoes(c, op, arg)
        /\ Ok(c, "ok") => Does(c, k, IF k = Len(p) THEN 0 ELSE k + 1)
        /\ Err(c) => Fails(c, k, IF l > Len(p) THEN 0 ELSE l)
    BY <1>3, <2>1, ClientOr
  <2> QED
    BY <1>1, <2>2
<1>4. CASE pc[c] = 1
  <2>1. /\ ClientDoes(c, "wait", "ck")
        /\ Ok(c, "ok") => Does(c, 1, 2)
    BY <1>1, <1>2, <1>4
  <2> QED
    BY <2>1, <1>4, Zenon DEF ApiClient, ClientDoes
<1>5. CASE pc[c] = 2
  <2>1. /\ ClientDoes(c, "connect", remote)
        /\ Ok(c, "ok") => Does(c, 2, 3)
        /\ Err(c) => Fails(c, 2, 0)
    BY <1>1, <1>3, <1>5
  <2> QED
    BY <2>1, <1>5, Zenon DEF ApiClient, ClientDoes
<1>6. CASE pc[c] = 3
  <2>1. /\ ClientDoes(c, "send_oob", 0)
        /\ Ok(c, "ok") => Does(c, 3, 4)
        /\ Err(c) => Fails(c, 3, 4)
    BY <1>1, <1>2, <1>6
  <2> QED
    BY <2>1, <1>6, Zenon DEF ApiClient, ClientDoes
<1>7. CASE pc[c] = 4
  <2>1. /\ ClientDoes(c, "close", 0)
        /\ Ok(c, "ok") => Does(c, 4, 0)
    BY <1>1, <1>2, <1>7
  <2> QED
    BY <2>1, <1>7, Zenon DEF ApiClient, ClientDoes
<1> QED
  BY <1>4, <1>5, <1>6, <1>7

SigurgServer(t) ==
  \/ Dozes
  \/ Does(t, 1, 2) /\ Listens(100)
  \/ Does(t, 2, 3) /\ Sets("ck")
  \/ Does(t, 3, 4) /\ Silent
  \/ Does(t, 4, 5) /\ Accepts(t)
  \/ Does(t, 5, 6) /\ Reads(cur[t])
  \/ Does(t, 6, 7) /\ ReadsOob(cur[t])
  \/ Fails(t, 6, 7) /\ ~conn[cur[t]].urg /\ Silent
  \/ Does(t, 7, 8) /\ ClosesServed(t, cur[t])
  \/ Does(t, 8, 4) /\ Silent

\* These are the steps it takes.
LEMMA SigurgServerSteps ==
  ASSUME NEW t \in Servers, Code(t) = sigurg_server, Step(t), pc[t] \in 1 .. 8
  PROVE  SigurgServer(t)
<1>1. PICK p : /\ p = Code(t) /\ Len(p) = 8
               /\ p[1] = Do("listen", 100)
               /\ p[2] = Do("set", "ck")
               /\ p[3] = Do("notify_one", "ck")
               /\ p[4] = Do("accept", 0)
               /\ p[5] = Do("read", 0)
               /\ p[6] = Do("recv_oob", 0)
               /\ p[7] = Do("close", 0)
               /\ p[8] = Do("goto", 4)
  BY DEF sigurg_server
<1>2. ASSUME NEW op, NEW arg, NEW k \in 1 .. 8, pc[t] = k, p[k] = Do(op, arg)
      PROVE  /\ ServerDoes(t, op, arg)
             /\ Ok(t, "ok") => Does(t, k, IF k = 8 THEN 0 ELSE k + 1)
             /\ Err(t) => Fails(t, k, IF k = 8 THEN 0 ELSE k + 1)
  <2>1. k \in Nat /\ k <= Len(p) /\ Len(p) \in Nat /\ p = Code(t)
    BY <1>1
  <2>2. /\ ServerDoes(t, op, arg)
        /\ Ok(t, "ok") => Does(t, k, IF k = Len(p) THEN 0 ELSE k + 1)
        /\ Err(t) => Fails(t, k, IF k = Len(p) THEN 0 ELSE k + 1)
    BY <1>2, <2>1, ServerDo
  <2> QED
    BY <1>1, <2>2
<1>3. CASE pc[t] = 1
  <2>1. /\ ServerDoes(t, "listen", 100)
        /\ Ok(t, "ok") => Does(t, 1, 2)
    BY <1>1, <1>2, <1>3
  <2> QED
    BY <2>1, <1>3, Zenon DEF SigurgServer, ServerDoes
<1>4. CASE pc[t] = 2
  <2>1. /\ ServerDoes(t, "set", "ck")
        /\ Ok(t, "ok") => Does(t, 2, 3)
    BY <1>1, <1>2, <1>4
  <2> QED
    BY <2>1, <1>4, Zenon DEF SigurgServer, ServerDoes
<1>5. CASE pc[t] = 3
  <2>1. /\ ServerDoes(t, "notify_one", "ck")
        /\ Ok(t, "ok") => Does(t, 3, 4)
    BY <1>1, <1>2, <1>5
  <2> QED
    BY <2>1, <1>5, Zenon DEF SigurgServer, ServerDoes
<1>6. CASE pc[t] = 4
  <2>1. /\ ServerDoes(t, "accept", 0)
        /\ Ok(t, "ok") => Does(t, 4, 5)
    BY <1>1, <1>2, <1>6
  <2> QED
    BY <2>1, <1>6, Zenon DEF SigurgServer, ServerDoes
<1>7. CASE pc[t] = 5
  <2>1. /\ ServerDoes(t, "read", 0)
        /\ Ok(t, "ok") => Does(t, 5, 6)
    BY <1>1, <1>2, <1>7
  <2> QED
    BY <2>1, <1>7, Zenon DEF SigurgServer, ServerDoes
<1>8. CASE pc[t] = 6
  <2>1. /\ ServerDoes(t, "recv_oob", 0)
        /\ Ok(t, "ok") => Does(t, 6, 7)
        /\ Err(t) => Fails(t, 6, 7)
    BY <1>1, <1>2, <1>8
  <2> QED
    BY <2>1, <1>8, Zenon DEF SigurgServer, ServerDoes
<1>9. CASE pc[t] = 7
  <2>1. /\ ServerDoes(t, "close", 0)
        /\ Ok(t, "ok") => Does(t, 7, 8)
    BY <1>1, <1>2, <1>9
  <2> QED
    BY <2>1, <1>9, Zenon DEF SigurgServer, ServerDoes
<1>10. CASE pc[t] = 8
  <2>1. /\ ServerDoes(t, "goto", 4)
        /\ Does(t, pc[t], IF 4 > Len(Code(t)) THEN 0 ELSE 4) => Does(t, 8, 4)
    BY <1>1, <1>2, <1>10
  <2> QED
    BY <2>1, <1>10, Zenon DEF SigurgServer, ServerDoes
<1> QED
  BY <1>3, <1>4, <1>5, <1>6, <1>7, <1>8, <1>9, <1>10

SigurgClient(c) ==
  \/ Dozes
  \/ Does(c, 1, 2) /\ "ck" \in flags /\ Silent
  \/ Does(c, 2, 3) /\ Connects(c)
  \/ Fails(c, 2, 0) /\ ~Listening /\ Silent
  \/ Does(c, 3, 4) /\ Writes(c, TRUE)
  \/ Fails(c, 3, 4) /\ WriteFails(c)
  \/ Does(c, 4, 0) /\ Closes(c)

\* These are the steps it takes.
LEMMA SigurgClientSteps ==
  ASSUME NEW c \in Clients, Code(c) = sigurg_client, Step(c), pc[c] \in 1 .. 4
  PROVE  SigurgClient(c)
<1>1. PICK p : /\ p = Code(c) /\ Len(p) = 4
               /\ p[1] = Do("wait", "ck")
               /\ p[2] = Or("connect", "near", 5)
               /\ p[3] = Do("send_oob", 0)
               /\ p[4] = Do("close", 0)
  BY DEF sigurg_client
<1>2. ASSUME NEW op, NEW arg, NEW k \in 1 .. 4, pc[c] = k, p[k] = Do(op, arg)
      PROVE  /\ ClientDoes(c, op, arg)
             /\ Ok(c, "ok") => Does(c, k, IF k = 4 THEN 0 ELSE k + 1)
             /\ Err(c) => Fails(c, k, IF k = 4 THEN 0 ELSE k + 1)
  <2>1. k \in Nat /\ k <= Len(p) /\ Len(p) \in Nat /\ p = Code(c)
    BY <1>1
  <2>2. /\ ClientDoes(c, op, arg)
        /\ Ok(c, "ok") => Does(c, k, IF k = Len(p) THEN 0 ELSE k + 1)
        /\ Err(c) => Fails(c, k, IF k = Len(p) THEN 0 ELSE k + 1)
    BY <1>2, <2>1, ClientDo
  <2> QED
    BY <1>1, <2>2
<1>3. ASSUME NEW op, NEW arg, NEW l \in Nat, NEW k \in 1 .. 4, pc[c] = k, p[k] = Or(op, arg, l)
      PROVE  /\ ClientDoes(c, op, arg)
             /\ Ok(c, "ok") => Does(c, k, IF k = 4 THEN 0 ELSE k + 1)
             /\ Err(c) => Fails(c, k, IF l > 4 THEN 0 ELSE l)
  <2>1. k \in Nat /\ k <= Len(p) /\ Len(p) \in Nat /\ p = Code(c)
    BY <1>1
  <2>2. /\ ClientDoes(c, op, arg)
        /\ Ok(c, "ok") => Does(c, k, IF k = Len(p) THEN 0 ELSE k + 1)
        /\ Err(c) => Fails(c, k, IF l > Len(p) THEN 0 ELSE l)
    BY <1>3, <2>1, ClientOr
  <2> QED
    BY <1>1, <2>2
<1>4. CASE pc[c] = 1
  <2>1. /\ ClientDoes(c, "wait", "ck")
        /\ Ok(c, "ok") => Does(c, 1, 2)
    BY <1>1, <1>2, <1>4
  <2> QED
    BY <2>1, <1>4, Zenon DEF SigurgClient, ClientDoes
<1>5. CASE pc[c] = 2
  <2>1. /\ ClientDoes(c, "connect", "near")
        /\ Ok(c, "ok") => Does(c, 2, 3)
        /\ Err(c) => Fails(c, 2, 0)
    BY <1>1, <1>3, <1>5
  <2> QED
    BY <2>1, <1>5, Zenon DEF SigurgClient, ClientDoes
<1>6. CASE pc[c] = 3
  <2>1. /\ ClientDoes(c, "send_oob", 0)
        /\ Ok(c, "ok") => Does(c, 3, 4)
        /\ Err(c) => Fails(c, 3, 4)
    BY <1>1, <1>2, <1>6
  <2> QED
    BY <2>1, <1>6, Zenon DEF SigurgClient, ClientDoes
<1>7. CASE pc[c] = 4
  <2>1. /\ ClientDoes(c, "close", 0)
        /\ Ok(c, "ok") => Does(c, 4, 0)
    BY <1>1, <1>2, <1>7
  <2> QED
    BY <2>1, <1>7, Zenon DEF SigurgClient, ClientDoes
<1> QED
  BY <1>4, <1>5, <1>6, <1>7

TimeServer(t) ==
  \/ Dozes
  \/ Does(t, 1, 2) /\ Listens(1)
  \/ Does(t, 2, 3) /\ Accepts(t)
  \/ \E f \in Children : Forks(t, f, 3, 2)
  \/ Does(t, 3, 2) /\ Silent
  \/ Does(t, 4, 5) /\ Answer(cur[t])
  \/ Does(t, 5, 6) /\ Shuts(cur[t])
  \/ Does(t, 6, 2) /\ Silent

\* These are the steps it takes.
LEMMA TimeServerSteps ==
  ASSUME NEW t \in Servers, Code(t) = time_server, Step(t), pc[t] \in 1 .. 6
  PROVE  TimeServer(t)
<1>1. PICK p : /\ p = Code(t) /\ Len(p) = 6
               /\ p[1] = Do("listen", 1)
               /\ p[2] = Or("accept", 0, 2)
               /\ p[3] = Do("fork", 2)
               /\ p[4] = Do("assert_write", 0)
               /\ p[5] = Do("shutdown", 0)
               /\ p[6] = Do("goto", 2)
  BY DEF time_server
<1>2. ASSUME NEW op, NEW arg, NEW k \in 1 .. 6, pc[t] = k, p[k] = Do(op, arg)
      PROVE  /\ ServerDoes(t, op, arg)
             /\ Ok(t, "ok") => Does(t, k, IF k = 6 THEN 0 ELSE k + 1)
             /\ Err(t) => Fails(t, k, IF k = 6 THEN 0 ELSE k + 1)
  <2>1. k \in Nat /\ k <= Len(p) /\ Len(p) \in Nat /\ p = Code(t)
    BY <1>1
  <2>2. /\ ServerDoes(t, op, arg)
        /\ Ok(t, "ok") => Does(t, k, IF k = Len(p) THEN 0 ELSE k + 1)
        /\ Err(t) => Fails(t, k, IF k = Len(p) THEN 0 ELSE k + 1)
    BY <1>2, <2>1, ServerDo
  <2> QED
    BY <1>1, <2>2
<1>3. ASSUME NEW op, NEW arg, NEW l \in Nat, NEW k \in 1 .. 6, pc[t] = k, p[k] = Or(op, arg, l)
      PROVE  /\ ServerDoes(t, op, arg)
             /\ Ok(t, "ok") => Does(t, k, IF k = 6 THEN 0 ELSE k + 1)
             /\ Err(t) => Fails(t, k, IF l > 6 THEN 0 ELSE l)
  <2>1. k \in Nat /\ k <= Len(p) /\ Len(p) \in Nat /\ p = Code(t)
    BY <1>1
  <2>2. /\ ServerDoes(t, op, arg)
        /\ Ok(t, "ok") => Does(t, k, IF k = Len(p) THEN 0 ELSE k + 1)
        /\ Err(t) => Fails(t, k, IF l > Len(p) THEN 0 ELSE l)
    BY <1>3, <2>1, ServerOr
  <2> QED
    BY <1>1, <2>2
<1>4. CASE pc[t] = 1
  <2>1. /\ ServerDoes(t, "listen", 1)
        /\ Ok(t, "ok") => Does(t, 1, 2)
    BY <1>1, <1>2, <1>4
  <2> QED
    BY <2>1, <1>4, Zenon DEF TimeServer, ServerDoes
<1>5. CASE pc[t] = 2
  <2>1. /\ ServerDoes(t, "accept", 0)
        /\ Ok(t, "ok") => Does(t, 2, 3)
    BY <1>1, <1>3, <1>5
  <2> QED
    BY <2>1, <1>5, Zenon DEF TimeServer, ServerDoes
<1>6. CASE pc[t] = 3
  <2>1. /\ ServerDoes(t, "fork", 2)
    BY <1>1, <1>2, <1>6
  <2> QED
    BY <2>1, <1>6, Zenon DEF TimeServer, ServerDoes
<1>7. CASE pc[t] = 4
  <2>1. /\ ServerDoes(t, "assert_write", 0)
        /\ Ok(t, "ok") => Does(t, 4, 5)
    BY <1>1, <1>2, <1>7
  <2> QED
    BY <2>1, <1>7, Zenon DEF TimeServer, ServerDoes
<1>8. CASE pc[t] = 5
  <2>1. /\ ServerDoes(t, "shutdown", 0)
        /\ Ok(t, "ok") => Does(t, 5, 6)
    BY <1>1, <1>2, <1>8
  <2> QED
    BY <2>1, <1>8, Zenon DEF TimeServer, ServerDoes
<1>9. CASE pc[t] = 6
  <2>1. /\ ServerDoes(t, "goto", 2)
        /\ Does(t, pc[t], IF 2 > Len(Code(t)) THEN 0 ELSE 2) => Does(t, 6, 2)
    BY <1>1, <1>2, <1>9
  <2> QED
    BY <2>1, <1>9, Zenon DEF TimeServer, ServerDoes
<1> QED
  BY <1>4, <1>5, <1>6, <1>7, <1>8, <1>9

TimeClient(c) ==
  \/ Dozes
  \/ Does(c, 1, 2) /\ Connects(c)
  \/ Fails(c, 1, 0) /\ ~Listening /\ Silent
  \/ Does(c, 2, 2) /\ Takes(c)
  \/ Does(c, 2, 3) /\ conn[c].down = 0 /\ conn[c].sEnd = "fin" /\ Silent
  \/ Does(c, 3, 0) /\ Closes(c)

\* These are the steps it takes.
LEMMA TimeClientSteps ==
  ASSUME NEW c \in Clients, Code(c) = time_client, Step(c), pc[c] \in 1 .. 3
  PROVE  TimeClient(c)
<1>1. PICK p : /\ p = Code(c) /\ Len(p) = 3
               /\ p[1] = Or("connect", "near", 4)
               /\ p[2] = Case("read_answer", 0, [data |-> 2, eof |-> 3, err |-> 3])
               /\ p[3] = Do("exit", 0)
  BY DEF time_client
<1>2. ASSUME NEW op, NEW arg, NEW k \in 1 .. 3, pc[c] = k, p[k] = Do(op, arg)
      PROVE  /\ ClientDoes(c, op, arg)
             /\ Ok(c, "ok") => Does(c, k, IF k = 3 THEN 0 ELSE k + 1)
             /\ Err(c) => Fails(c, k, IF k = 3 THEN 0 ELSE k + 1)
  <2>1. k \in Nat /\ k <= Len(p) /\ Len(p) \in Nat /\ p = Code(c)
    BY <1>1
  <2>2. /\ ClientDoes(c, op, arg)
        /\ Ok(c, "ok") => Does(c, k, IF k = Len(p) THEN 0 ELSE k + 1)
        /\ Err(c) => Fails(c, k, IF k = Len(p) THEN 0 ELSE k + 1)
    BY <1>2, <2>1, ClientDo
  <2> QED
    BY <1>1, <2>2
<1>3. ASSUME NEW op, NEW arg, NEW l \in Nat, NEW k \in 1 .. 3, pc[c] = k, p[k] = Or(op, arg, l)
      PROVE  /\ ClientDoes(c, op, arg)
             /\ Ok(c, "ok") => Does(c, k, IF k = 3 THEN 0 ELSE k + 1)
             /\ Err(c) => Fails(c, k, IF l > 3 THEN 0 ELSE l)
  <2>1. k \in Nat /\ k <= Len(p) /\ Len(p) \in Nat /\ p = Code(c)
    BY <1>1
  <2>2. /\ ClientDoes(c, op, arg)
        /\ Ok(c, "ok") => Does(c, k, IF k = Len(p) THEN 0 ELSE k + 1)
        /\ Err(c) => Fails(c, k, IF l > Len(p) THEN 0 ELSE l)
    BY <1>3, <2>1, ClientOr
  <2> QED
    BY <1>1, <2>2
<1>4. CASE pc[c] = 1
  <2>1. /\ ClientDoes(c, "connect", "near")
        /\ Ok(c, "ok") => Does(c, 1, 2)
        /\ Err(c) => Fails(c, 1, 0)
    BY <1>1, <1>3, <1>4
  <2> QED
    BY <2>1, <1>4, Zenon DEF TimeClient, ClientDoes
<1>5. CASE pc[c] = 2
  <2>1. PICK to : to = [data |-> 2, eof |-> 3, err |-> 3]
    BY Zenon
  <2>2. Code(c)[pc[c]] = Case("read_answer", 0, to)
    BY <1>1, <2>1, <1>5
  <2>3. /\ Len(Code(c)) = 3 /\ Code(c)[pc[c]].to = to
        /\ "data" \in DOMAIN to /\ to["data"] = 2
        /\ "eof" \in DOMAIN to /\ to["eof"] = 3
    BY <1>1, <2>1, <2>2 DEF Case
  <2>4. /\ After(c, "data") = 2
        /\ After(c, "eof") = 3
    BY <2>3 DEF After
  <2>5. ClientDoes(c, "read_answer", 0)
    BY <2>2, ClientCall DEF Case
  <2> QED
    BY <1>5, <2>4, <2>5, Zenon DEF TimeClient, ClientDoes, Ok, Err
<1>6. CASE pc[c] = 3
  <2>1. /\ ClientDoes(c, "exit", 0)
    BY <1>1, <1>2, <1>6
  <2> QED
    BY <2>1, <1>6, Zenon DEF TimeClient, ClientDoes
<1> QED
  BY <1>4, <1>5, <1>6

UnixServer(t) ==
  \/ Dozes
  \/ Does(t, 1, 2) /\ Listens(10)
  \/ Does(t, 2, 3) /\ Accepts(t)
  \/ Does(t, 3, 2) /\ Silent

\* These are the steps it takes.
LEMMA UnixServerSteps ==
  ASSUME NEW t \in Servers, Code(t) = unix_server, Step(t), pc[t] \in 1 .. 3
  PROVE  UnixServer(t)
<1>1. PICK p : /\ p = Code(t) /\ Len(p) = 3
               /\ p[1] = Do("listen", 10)
               /\ p[2] = Do("accept", 0)
               /\ p[3] = Do("goto", 2)
  BY DEF unix_server
<1>2. ASSUME NEW op, NEW arg, NEW k \in 1 .. 3, pc[t] = k, p[k] = Do(op, arg)
      PROVE  /\ ServerDoes(t, op, arg)
             /\ Ok(t, "ok") => Does(t, k, IF k = 3 THEN 0 ELSE k + 1)
             /\ Err(t) => Fails(t, k, IF k = 3 THEN 0 ELSE k + 1)
  <2>1. k \in Nat /\ k <= Len(p) /\ Len(p) \in Nat /\ p = Code(t)
    BY <1>1
  <2>2. /\ ServerDoes(t, op, arg)
        /\ Ok(t, "ok") => Does(t, k, IF k = Len(p) THEN 0 ELSE k + 1)
        /\ Err(t) => Fails(t, k, IF k = Len(p) THEN 0 ELSE k + 1)
    BY <1>2, <2>1, ServerDo
  <2> QED
    BY <1>1, <2>2
<1>3. CASE pc[t] = 1
  <2>1. /\ ServerDoes(t, "listen", 10)
        /\ Ok(t, "ok") => Does(t, 1, 2)
    BY <1>1, <1>2, <1>3
  <2> QED
    BY <2>1, <1>3, Zenon DEF UnixServer, ServerDoes
<1>4. CASE pc[t] = 2
  <2>1. /\ ServerDoes(t, "accept", 0)
        /\ Ok(t, "ok") => Does(t, 2, 3)
    BY <1>1, <1>2, <1>4
  <2> QED
    BY <2>1, <1>4, Zenon DEF UnixServer, ServerDoes
<1>5. CASE pc[t] = 3
  <2>1. /\ ServerDoes(t, "goto", 2)
        /\ Does(t, pc[t], IF 2 > Len(Code(t)) THEN 0 ELSE 2) => Does(t, 3, 2)
    BY <1>1, <1>2, <1>5
  <2> QED
    BY <2>1, <1>5, Zenon DEF UnixServer, ServerDoes
<1> QED
  BY <1>3, <1>4, <1>5

UnixClient(c) ==
  \/ Dozes
  \/ Does(c, 1, 2) /\ (\A b \in Clients \ {c} : ~(pc[b] > 1)) /\ Silent
  \/ Fails(c, 1, 5) /\ Silent
  \/ Does(c, 2, 3) /\ Connects(c)
  \/ Fails(c, 2, 5) /\ ~Listening /\ Silent
  \/ Does(c, 3, 4) /\ Writes(c, FALSE)
  \/ Fails(c, 3, 4) /\ WriteFails(c)
  \/ Does(c, 4, 3) /\ Silent
  \/ Does(c, 5, 0) /\ Closes(c)

\* These are the steps it takes.
LEMMA UnixClientSteps ==
  ASSUME NEW c \in Clients, Code(c) = unix_client, Step(c), pc[c] \in 1 .. 5
  PROVE  UnixClient(c)
<1>1. PICK p : /\ p = Code(c) /\ Len(p) = 5
               /\ p[1] = Or("bind_name", 0, 5)
               /\ p[2] = Or("connect", "near", 5)
               /\ p[3] = Do("write", 1)
               /\ p[4] = Do("goto", 3)
               /\ p[5] = Do("exit", 0)
  BY DEF unix_client
<1>2. ASSUME NEW op, NEW arg, NEW k \in 1 .. 5, pc[c] = k, p[k] = Do(op, arg)
      PROVE  /\ ClientDoes(c, op, arg)
             /\ Ok(c, "ok") => Does(c, k, IF k = 5 THEN 0 ELSE k + 1)
             /\ Err(c) => Fails(c, k, IF k = 5 THEN 0 ELSE k + 1)
  <2>1. k \in Nat /\ k <= Len(p) /\ Len(p) \in Nat /\ p = Code(c)
    BY <1>1
  <2>2. /\ ClientDoes(c, op, arg)
        /\ Ok(c, "ok") => Does(c, k, IF k = Len(p) THEN 0 ELSE k + 1)
        /\ Err(c) => Fails(c, k, IF k = Len(p) THEN 0 ELSE k + 1)
    BY <1>2, <2>1, ClientDo
  <2> QED
    BY <1>1, <2>2
<1>3. ASSUME NEW op, NEW arg, NEW l \in Nat, NEW k \in 1 .. 5, pc[c] = k, p[k] = Or(op, arg, l)
      PROVE  /\ ClientDoes(c, op, arg)
             /\ Ok(c, "ok") => Does(c, k, IF k = 5 THEN 0 ELSE k + 1)
             /\ Err(c) => Fails(c, k, IF l > 5 THEN 0 ELSE l)
  <2>1. k \in Nat /\ k <= Len(p) /\ Len(p) \in Nat /\ p = Code(c)
    BY <1>1
  <2>2. /\ ClientDoes(c, op, arg)
        /\ Ok(c, "ok") => Does(c, k, IF k = Len(p) THEN 0 ELSE k + 1)
        /\ Err(c) => Fails(c, k, IF l > Len(p) THEN 0 ELSE l)
    BY <1>3, <2>1, ClientOr
  <2> QED
    BY <1>1, <2>2
<1>4. CASE pc[c] = 1
  <2>1. /\ ClientDoes(c, "bind_name", 0)
        /\ Ok(c, "ok") => Does(c, 1, 2)
        /\ Err(c) => Fails(c, 1, 5)
    BY <1>1, <1>3, <1>4
  <2> QED
    BY <2>1, <1>4, Zenon DEF UnixClient, ClientDoes
<1>5. CASE pc[c] = 2
  <2>1. /\ ClientDoes(c, "connect", "near")
        /\ Ok(c, "ok") => Does(c, 2, 3)
        /\ Err(c) => Fails(c, 2, 5)
    BY <1>1, <1>3, <1>5
  <2> QED
    BY <2>1, <1>5, Zenon DEF UnixClient, ClientDoes
<1>6. CASE pc[c] = 3
  <2>1. /\ ClientDoes(c, "write", 1)
        /\ Ok(c, "ok") => Does(c, 3, 4)
        /\ Err(c) => Fails(c, 3, 4)
    BY <1>1, <1>2, <1>6
  <2> QED
    BY <2>1, <1>6, Zenon DEF UnixClient, ClientDoes
<1>7. CASE pc[c] = 4
  <2>1. /\ ClientDoes(c, "goto", 3)
        /\ Does(c, pc[c], IF 3 > Len(Code(c)) THEN 0 ELSE 3) => Does(c, 4, 3)
    BY <1>1, <1>2, <1>7
  <2> QED
    BY <2>1, <1>7, Zenon DEF UnixClient, ClientDoes
<1>8. CASE pc[c] = 5
  <2>1. /\ ClientDoes(c, "exit", 0)
    BY <1>1, <1>2, <1>8
  <2> QED
    BY <2>1, <1>8, Zenon DEF UnixClient, ClientDoes
<1> QED
  BY <1>4, <1>5, <1>6, <1>7, <1>8

PollClient(c) ==
  \/ Dozes
  \/ Does(c, 1, 3) /\ Connects(c)
  \/ Fails(c, 1, 2) /\ Silent
  \/ Does(c, 1, 3) /\ Silent
  \/ Does(c, 1, 3) /\ Pends(c)
  \/ Does(c, 2, 3) /\ Closes(c)
  \/ Does(c, 3, 4) /\ Silent
  \/ Does(c, 4, 0) /\ conn[c].link # "refused" /\ Silent
  \/ Fails(c, 4, 0) /\ Silent

\* These are the steps it takes.
LEMMA PollClientSteps ==
  ASSUME NEW c \in Clients, Code(c) = poll_main, Step(c), pc[c] \in 1 .. 4
  PROVE  PollClient(c)
<1>1. PICK p : /\ p = Code(c) /\ Len(p) = 4
               /\ p[1] = Case("connect_async", 0, [err |-> 2, ok |-> 3, again |-> 3, progress |-> 3])
               /\ p[2] = Do("close", 0)
               /\ p[3] = Do("poll", 0)
               /\ p[4] = Do("so_error", 0)
  BY DEF poll_main
<1>2. ASSUME NEW op, NEW arg, NEW k \in 1 .. 4, pc[c] = k, p[k] = Do(op, arg)
      PROVE  /\ ClientDoes(c, op, arg)
             /\ Ok(c, "ok") => Does(c, k, IF k = 4 THEN 0 ELSE k + 1)
             /\ Err(c) => Fails(c, k, IF k = 4 THEN 0 ELSE k + 1)
  <2>1. k \in Nat /\ k <= Len(p) /\ Len(p) \in Nat /\ p = Code(c)
    BY <1>1
  <2>2. /\ ClientDoes(c, op, arg)
        /\ Ok(c, "ok") => Does(c, k, IF k = Len(p) THEN 0 ELSE k + 1)
        /\ Err(c) => Fails(c, k, IF k = Len(p) THEN 0 ELSE k + 1)
    BY <1>2, <2>1, ClientDo
  <2> QED
    BY <1>1, <2>2
<1>3. CASE pc[c] = 1
  <2>1. PICK to : to = [err |-> 2, ok |-> 3, again |-> 3, progress |-> 3]
    BY Zenon
  <2>2. Code(c)[pc[c]] = Case("connect_async", 0, to)
    BY <1>1, <2>1, <1>3
  <2>3. /\ Len(Code(c)) = 4 /\ Code(c)[pc[c]].to = to
        /\ "ok" \in DOMAIN to /\ to["ok"] = 3
        /\ "again" \in DOMAIN to /\ to["again"] = 3
        /\ "progress" \in DOMAIN to /\ to["progress"] = 3
        /\ "err" \in DOMAIN to /\ to["err"] = 2
    BY <1>1, <2>1, <2>2 DEF Case
  <2>4. /\ After(c, "ok") = 3
        /\ After(c, "again") = 3
        /\ After(c, "progress") = 3
        /\ After(c, "err") = 2
    BY <2>3 DEF After
  <2>5. ClientDoes(c, "connect_async", 0)
    BY <2>2, ClientCall DEF Case
  <2> QED
    BY <1>3, <2>4, <2>5, Zenon DEF PollClient, ClientDoes, Ok, Err
<1>4. CASE pc[c] = 2
  <2>1. /\ ClientDoes(c, "close", 0)
        /\ Ok(c, "ok") => Does(c, 2, 3)
    BY <1>1, <1>2, <1>4
  <2> QED
    BY <2>1, <1>4, Zenon DEF PollClient, ClientDoes
<1>5. CASE pc[c] = 3
  <2>1. /\ ClientDoes(c, "poll", 0)
        /\ Ok(c, "ok") => Does(c, 3, 4)
    BY <1>1, <1>2, <1>5
  <2> QED
    BY <2>1, <1>5, Zenon DEF PollClient, ClientDoes
<1>6. CASE pc[c] = 4
  <2>1. /\ ClientDoes(c, "so_error", 0)
        /\ Ok(c, "ok") => Does(c, 4, 0)
        /\ Err(c) => Fails(c, 4, 0)
    BY <1>1, <1>2, <1>6
  <2> QED
    BY <2>1, <1>6, Zenon DEF PollClient, ClientDoes
<1> QED
  BY <1>3, <1>4, <1>5, <1>6

AsyncServer(t) ==
  \/ Dozes
  \/ Does(t, 1, 0) /\ Listens(1)

\* These are the steps it takes.
LEMMA AsyncServerSteps ==
  ASSUME NEW t \in Servers, Code(t) = << Do("listen", 1) >>, Step(t), pc[t] \in 1 .. 1
  PROVE  AsyncServer(t)
<1>1. PICK p : /\ p = Code(t) /\ Len(p) = 1
               /\ p[1] = Do("listen", 1)
  OBVIOUS
<1>2. ASSUME NEW op, NEW arg, NEW k \in 1 .. 1, pc[t] = k, p[k] = Do(op, arg)
      PROVE  /\ ServerDoes(t, op, arg)
             /\ Ok(t, "ok") => Does(t, k, IF k = 1 THEN 0 ELSE k + 1)
             /\ Err(t) => Fails(t, k, IF k = 1 THEN 0 ELSE k + 1)
  <2>1. k \in Nat /\ k <= Len(p) /\ Len(p) \in Nat /\ p = Code(t)
    BY <1>1
  <2>2. /\ ServerDoes(t, op, arg)
        /\ Ok(t, "ok") => Does(t, k, IF k = Len(p) THEN 0 ELSE k + 1)
        /\ Err(t) => Fails(t, k, IF k = Len(p) THEN 0 ELSE k + 1)
    BY <1>2, <2>1, ServerDo, Zenon
  <2> QED
    BY <1>1, <2>2
<1>3. CASE pc[t] = 1
  <2>1. /\ ServerDoes(t, "listen", 1)
        /\ Ok(t, "ok") => Does(t, 1, 0)
    BY <1>1, <1>2, <1>3
  <2> QED
    BY <2>1, <1>3, Zenon DEF AsyncServer, ServerDoes
<1> QED
  BY <1>3

AsyncClient(c) ==
  \/ Dozes
  \/ Does(c, 1, 0) /\ Connects(c)
  \/ Fails(c, 1, 4) /\ Silent
  \/ Does(c, 1, 1) /\ Silent
  \/ Does(c, 1, 2) /\ Pends(c)
  \/ Does(c, 2, 3) /\ conn[c].link # "pending" /\ Silent
  \/ Does(c, 2, 4) /\ Silent
  \/ Does(c, 3, 0) /\ conn[c].link # "refused" /\ Silent
  \/ Fails(c, 3, 4) /\ Silent
  \/ Does(c, 4, 0) /\ Closes(c)

\* These are the steps it takes.
LEMMA AsyncClientSteps ==
  ASSUME NEW c \in Clients, Code(c) = connectAsync, Step(c), pc[c] \in 1 .. 4
  PROVE  AsyncClient(c)
<1>1. PICK p : /\ p = Code(c) /\ Len(p) = 4
               /\ p[1] = Case("connect_async", 0, [ok |-> 5, again |-> 1, progress |-> 2, err |-> 4])
               /\ p[2] = Case("select", 0, [ready |-> 3, timeout |-> 4])
               /\ p[3] = Case("so_error", 0, [ok |-> 5, err |-> 4])
               /\ p[4] = Do("close", 0)
  BY DEF connectAsync
<1>2. ASSUME NEW op, NEW arg, NEW k \in 1 .. 4, pc[c] = k, p[k] = Do(op, arg)
      PROVE  /\ ClientDoes(c, op, arg)
             /\ Ok(c, "ok") => Does(c, k, IF k = 4 THEN 0 ELSE k + 1)
             /\ Err(c) => Fails(c, k, IF k = 4 THEN 0 ELSE k + 1)
  <2>1. k \in Nat /\ k <= Len(p) /\ Len(p) \in Nat /\ p = Code(c)
    BY <1>1
  <2>2. /\ ClientDoes(c, op, arg)
        /\ Ok(c, "ok") => Does(c, k, IF k = Len(p) THEN 0 ELSE k + 1)
        /\ Err(c) => Fails(c, k, IF k = Len(p) THEN 0 ELSE k + 1)
    BY <1>2, <2>1, ClientDo
  <2> QED
    BY <1>1, <2>2, Zenon
<1>3. CASE pc[c] = 1
  <2>1. PICK to : to = [ok |-> 5, again |-> 1, progress |-> 2, err |-> 4]
    BY Zenon
  <2>2. Code(c)[pc[c]] = Case("connect_async", 0, to)
    BY <1>1, <2>1, <1>3
  <2>3. /\ Len(Code(c)) = 4 /\ Code(c)[pc[c]].to = to
        /\ "ok" \in DOMAIN to /\ to["ok"] = 5
        /\ "again" \in DOMAIN to /\ to["again"] = 1
        /\ "progress" \in DOMAIN to /\ to["progress"] = 2
        /\ "err" \in DOMAIN to /\ to["err"] = 4
    BY <1>1, <2>1, <2>2 DEF Case
  <2>4. /\ After(c, "ok") = 0
        /\ After(c, "again") = 1
        /\ After(c, "progress") = 2
        /\ After(c, "err") = 4
    BY <2>3 DEF After
  <2>5. ClientDoes(c, "connect_async", 0)
    BY <2>2, ClientCall DEF Case
  <2> QED
    BY <1>3, <2>4, <2>5, Zenon DEF AsyncClient, ClientDoes, Ok, Err
<1>4. CASE pc[c] = 2
  <2>1. PICK to : to = [ready |-> 3, timeout |-> 4]
    BY Zenon
  <2>2. Code(c)[pc[c]] = Case("select", 0, to)
    BY <1>1, <2>1, <1>4
  <2>3. /\ Len(Code(c)) = 4 /\ Code(c)[pc[c]].to = to
        /\ "ready" \in DOMAIN to /\ to["ready"] = 3
        /\ "timeout" \in DOMAIN to /\ to["timeout"] = 4
    BY <1>1, <2>1, <2>2 DEF Case
  <2>4. /\ After(c, "ready") = 3
        /\ After(c, "timeout") = 4
    BY <2>3 DEF After
  <2>5. ClientDoes(c, "select", 0)
    BY <2>2, ClientCall DEF Case
  <2> QED
    BY <1>4, <2>4, <2>5, Zenon DEF AsyncClient, ClientDoes, Ok, Err
<1>5. CASE pc[c] = 3
  <2>1. PICK to : to = [ok |-> 5, err |-> 4]
    BY Zenon
  <2>2. Code(c)[pc[c]] = Case("so_error", 0, to)
    BY <1>1, <2>1, <1>5
  <2>3. /\ Len(Code(c)) = 4 /\ Code(c)[pc[c]].to = to
        /\ "ok" \in DOMAIN to /\ to["ok"] = 5
        /\ "err" \in DOMAIN to /\ to["err"] = 4
    BY <1>1, <2>1, <2>2 DEF Case
  <2>4. /\ After(c, "ok") = 0
        /\ After(c, "err") = 4
    BY <2>3 DEF After
  <2>5. ClientDoes(c, "so_error", 0)
    BY <2>2, ClientCall DEF Case
  <2> QED
    BY <1>5, <2>4, <2>5, Zenon DEF AsyncClient, ClientDoes, Ok, Err
<1>6. CASE pc[c] = 4
  <2>1. /\ ClientDoes(c, "close", 0)
        /\ Ok(c, "ok") => Does(c, 4, 0)
    BY <1>1, <1>2, <1>6, Zenon
  <2> QED
    BY <2>1, <1>6, Zenon DEF AsyncClient, ClientDoes
<1> QED
  BY <1>3, <1>4, <1>5, <1>6

-----------------------------------------------------------------------------
(* Types, and that no jump leaves the code.                                *)

ServerOps == {"set", "notify_one", "notify_all", "goto", "listen", "accept", "fork",
              "read", "recv_oob", "assert_name", "assert_write", "close", "shutdown"}
ClientOps == {"wait", "goto", "connect", "connect_async", "poll", "select", "so_error",
              "bind_name", "write", "send_oob", "read_answer", "close", "exit"}

\* The calls are among `ops`, and every label they name is a number.
WellFormed(p, ops) ==
  \A k \in 1 .. Len(p) :
    /\ p[k].op \in ops
    /\ p[k].op \in {"goto", "listen"} => p[k].arg \in Nat
    /\ p[k].op = "fork" => p[k].arg \in 0 .. Len(p) /\ k < Len(p)
    /\ \A o \in DOMAIN p[k].to : p[k].to[o] \in Nat

\* The forms of an instruction.
LEMMA Forms ==
  /\ \A op, arg : /\ Do(op, arg).op = op /\ Do(op, arg).arg = arg
                  /\ DOMAIN Do(op, arg).to = {}
  /\ \A op, arg, l : /\ Or(op, arg, l).op = op /\ Or(op, arg, l).arg = arg
                     /\ DOMAIN Or(op, arg, l).to = {"err"} /\ Or(op, arg, l).to["err"] = l
  /\ \A op, arg, to : /\ Case(op, arg, to).op = op /\ Case(op, arg, to).arg = arg
                      /\ Case(op, arg, to).to = to
<1>1. ASSUME NEW op, NEW arg
      PROVE  Do(op, arg).op = op /\ Do(op, arg).arg = arg /\ DOMAIN Do(op, arg).to = {}
  BY DEF Do
<1>2. ASSUME NEW op, NEW arg, NEW l
      PROVE  /\ Or(op, arg, l).op = op /\ Or(op, arg, l).arg = arg
             /\ DOMAIN Or(op, arg, l).to = {"err"} /\ Or(op, arg, l).to["err"] = l
  BY DEF Or
<1>3. ASSUME NEW op, NEW arg, NEW to
      PROVE  /\ Case(op, arg, to).op = op /\ Case(op, arg, to).arg = arg
             /\ Case(op, arg, to).to = to
  BY DEF Case
<1> QED
  BY <1>1, <1>2, <1>3

\* The labels of every server's code name calls a server makes.
LEMMA ServersFormed ==
  ASSUME program \in Programs, NEW t \in Servers
  PROVE  /\ WellFormed(Code(t), ServerOps) /\ Len(Code(t)) \in Nat
         /\ program # "time" => \A k \in 1 .. Len(Code(t)) : Code(t)[k].op # "fork"
<1> DEFINE Formed(p) == /\ WellFormed(p, ServerOps) /\ Len(p) \in Nat
                        /\ program # "time" => \A k \in 1 .. Len(p) : p[k].op # "fork"
<1> SUFFICES Formed(Code(t))
  OBVIOUS
<1> HIDE DEF Formed
<1>1. CASE program = "main2"
  <2>1. Formed(main2_server)
    BY <1>1, Forms, SMTT(30) DEF Formed, WellFormed, ServerOps, main2_server
  <2>2. Code(t) = main2_server
    BY <1>1, Main2Code
  <2> QED
    BY <2>1, <2>2
<1>2. CASE program = "main3"
  <2>1. Formed(main3_server)
    BY <1>2, Forms, SMTT(30) DEF Formed, WellFormed, ServerOps, main3_server
  <2>2. Code(t) = main3_server
    BY <1>2, Main3Code
  <2> QED
    BY <2>1, <2>2
<1>3. CASE program = "api"
  <2>1. Formed(api_server)
    BY <1>3, Forms, SMTT(30) DEF Formed, WellFormed, ServerOps, api_server
  <2>2. Code(t) = api_server
    BY <1>3, ApiCode
  <2> QED
    BY <2>1, <2>2
<1>4. CASE program = "sigurg"
  <2>1. Formed(sigurg_server)
    BY <1>4, Forms, SMTT(30) DEF Formed, WellFormed, ServerOps, sigurg_server
  <2>2. Code(t) = sigurg_server
    BY <1>4, SigurgCode
  <2> QED
    BY <2>1, <2>2
<1>5. CASE program = "time"
  <2>1. Formed(time_server)
    BY <1>5, Forms, SMTT(30) DEF Formed, WellFormed, ServerOps, time_server
  <2>2. Code(t) = time_server
    BY <1>5, TimeCode
  <2> QED
    BY <2>1, <2>2
<1>6. CASE program = "unix"
  <2>1. Formed(unix_server)
    BY <1>6, Forms, SMTT(30) DEF Formed, WellFormed, ServerOps, unix_server
  <2>2. Code(t) = unix_server
    BY <1>6, UnixCode
  <2> QED
    BY <2>1, <2>2
<1>7. CASE program = "poll"
  <2>1. Formed(<<>>)
    BY <1>7, Forms, SMTT(30) DEF Formed, WellFormed, ServerOps
  <2>2. Code(t) = <<>>
    BY <1>7, PollCode, MachineAssumption DEF Threads
  <2> QED
    BY <2>1, <2>2
<1>8. CASE program = "async"
  <2>1. Formed(<< Do("listen", 1) >>)
    BY <1>8, Forms, SMTT(30) DEF Formed, WellFormed, ServerOps
  <2>2. Code(t) = << Do("listen", 1) >>
    BY <1>8, AsyncCode
  <2> QED
    BY <2>1, <2>2
<1> QED
  BY MachineAssumption, <1>1, <1>2, <1>3, <1>4, <1>5, <1>6, <1>7, <1>8, Zenon DEF Table

\* The same for the clients.
LEMMA ClientsFormed ==
  ASSUME program \in Programs, NEW c \in Clients
  PROVE  WellFormed(Code(c), ClientOps) /\ Len(Code(c)) \in Nat
<1> DEFINE Formed(p) == WellFormed(p, ClientOps) /\ Len(p) \in Nat
<1> SUFFICES Formed(Code(c))
  OBVIOUS
<1> HIDE DEF Formed
<1>1. Formed(<<>>) /\ Formed(tcp_rest_main)
  BY Forms, SMTT(30) DEF Formed, WellFormed, ClientOps, tcp_rest_main
<1>2. CASE program = "main2"
  <2>1. Formed(main2_client)
    BY <1>2, Forms, SMTT(30) DEF Formed, WellFormed, ClientOps, main2_client
  <2> QED
    BY <1>1, <1>2, <2>1, Main2Code
<1>3. CASE program = "main3"
  <2>1. Formed(main3_client)
    BY <1>3, Forms, SMTT(30) DEF Formed, WellFormed, ClientOps, main3_client
  <2> QED
    BY <1>1, <1>3, <2>1, Main3Code
<1>4. CASE program = "api"
  <2>1. ASSUME NEW remote PROVE Formed(api_client(remote))
    BY <1>4, Forms, SMTT(30) DEF Formed, WellFormed, ClientOps, api_client
  <2> QED
    BY <1>1, <1>4, <2>1, ApiCode
<1>5. CASE program = "sigurg"
  <2>1. Formed(sigurg_client)
    BY <1>5, Forms, SMTT(30) DEF Formed, WellFormed, ClientOps, sigurg_client
  <2> QED
    BY <1>1, <1>5, <2>1, SigurgCode
<1>6. CASE program = "time"
  <2>1. Formed(time_client)
    BY <1>6, Forms, SMTT(30) DEF Formed, WellFormed, ClientOps, time_client
  <2> QED
    BY <1>1, <1>6, <2>1, TimeCode
<1>7. CASE program = "unix"
  <2>1. Formed(unix_client)
    BY <1>7, Forms, SMTT(30) DEF Formed, WellFormed, ClientOps, unix_client
  <2> QED
    BY <1>1, <1>7, <2>1, UnixCode
<1>8. CASE program = "poll"
  <2>1. Formed(poll_main)
    BY <1>8, Forms, SMTT(30) DEF Formed, WellFormed, ClientOps, poll_main
  <2> QED
    BY <1>1, <1>8, <2>1, PollCode DEF Threads
<1>9. CASE program = "async"
  <2>1. Formed(connectAsync)
    BY <1>9, Forms, SMTT(30) DEF Formed, WellFormed, ClientOps, connectAsync
  <2> QED
    BY <1>1, <1>9, <2>1, AsyncCode
<1> QED
  BY MachineAssumption, <1>2, <1>3, <1>4, <1>5, <1>6, <1>7, <1>8, <1>9, Zenon DEF Table

-----------------------------------------------------------------------------
(* What a call does to the fields of the connections.                      *)

Fields == {"link", "up", "urg", "down", "got", "oob", "cEnd", "sEnd", "rst", "lost"}

\* Connection c changes in the fields fs at most, no other connection does.
Only(c, fs) ==
  /\ conn' \in [Clients -> Connections]
  /\ \A d \in Clients : \A f \in Fields : d # c \/ f \notin fs => conn'[d][f] = conn[d][f]

\* connect() that succeeds changes the link.
LEMMA ConnectsOnly ==
  ASSUME TypeOK, NEW c \in Clients, Connects(c)
  PROVE  /\ Only(c, {"link"})
         /\ conn'[c].link = "up"
<1>1. PICK k \in Connections : k = conn[c]
  BY DEF TypeOK
<1>2. PICK r : r = [k EXCEPT !.link = "up"]
  BY Zenon
<1>3. /\ r \in Connections /\ \A f \in Fields \ {"link"} : r[f] = k[f]
      /\ r.link = "up"
  BY <1>1, <1>2 DEF Connections, Fields
<1>4. conn \in [Clients -> Connections] /\ conn' = [conn EXCEPT ![c] = r]
  BY <1>1, <1>2 DEF Connects, Established, TypeOK
<1> QED
  BY <1>1, <1>3, <1>4 DEF Only

\* connect() in progress changes the link.
LEMMA PendsOnly ==
  ASSUME TypeOK, NEW c \in Clients, Pends(c)
  PROVE  /\ Only(c, {"link"})
         /\ conn'[c].link = "pending"
<1>1. PICK k \in Connections : k = conn[c]
  BY DEF TypeOK
<1>2. PICK r : r = [k EXCEPT !.link = "pending"]
  BY Zenon
<1>3. /\ r \in Connections /\ \A f \in Fields \ {"link"} : r[f] = k[f]
      /\ r.link = "pending"
  BY <1>1, <1>2 DEF Connections, Fields
<1>4. conn \in [Clients -> Connections] /\ conn' = [conn EXCEPT ![c] = r]
  BY <1>1, <1>2 DEF Pends, TypeOK
<1> QED
  BY <1>1, <1>3, <1>4 DEF Only

\* A refused handshake changes the link.
LEMMA RefusedOnly ==
  ASSUME TypeOK, NEW c \in Clients, Refused(c)
  PROVE  /\ Only(c, {"link"})
         /\ conn'[c].link = "refused"
<1>1. PICK k \in Connections : k = conn[c]
  BY DEF TypeOK
<1>2. PICK r : r = [k EXCEPT !.link = "refused"]
  BY Zenon
<1>3. /\ r \in Connections /\ \A f \in Fields \ {"link"} : r[f] = k[f]
      /\ r.link = "refused"
  BY <1>1, <1>2 DEF Connections, Fields
<1>4. conn \in [Clients -> Connections] /\ conn' = [conn EXCEPT ![c] = r]
  BY <1>1, <1>2 DEF Refused, TypeOK
<1> QED
  BY <1>1, <1>3, <1>4 DEF Only

\* A noticed RST changes rst.
LEMMA NoticesOnly ==
  ASSUME TypeOK, NEW c \in Clients, Notices(c)
  PROVE  /\ Only(c, {"rst"})
         /\ conn'[c].rst = "seen"
<1>1. PICK k \in Connections : k = conn[c]
  BY DEF TypeOK
<1>2. PICK r : r = [k EXCEPT !.rst = "seen"]
  BY Zenon
<1>3. /\ r \in Connections /\ \A f \in Fields \ {"rst"} : r[f] = k[f]
      /\ r.rst = "seen"
  BY <1>1, <1>2 DEF Connections, Fields
<1>4. conn \in [Clients -> Connections] /\ conn' = [conn EXCEPT ![c] = r]
  BY <1>1, <1>2 DEF Notices, TypeOK
<1> QED
  BY <1>1, <1>3, <1>4 DEF Only

\* A client's close() changes cEnd.
LEMMA ClosesOnly ==
  ASSUME TypeOK, NEW c \in Clients, Closes(c)
  PROVE  /\ Only(c, {"cEnd"})
         /\ conn'[c].cEnd = "closed"
<1>1. PICK k \in Connections : k = conn[c]
  BY DEF TypeOK
<1>2. PICK r : r = [k EXCEPT !.cEnd = "closed"]
  BY Zenon
<1>3. /\ r \in Connections /\ \A f \in Fields \ {"cEnd"} : r[f] = k[f]
      /\ r.cEnd = "closed"
  BY <1>1, <1>2 DEF Connections, Fields
<1>4. conn \in [Clients -> Connections] /\ conn' = [conn EXCEPT ![c] = r]
  BY <1>1, <1>2 DEF Closes, TypeOK
<1> QED
  BY <1>1, <1>3, <1>4 DEF Only

\* A client's read() moves one answer.
LEMMA TakesOnly ==
  ASSUME TypeOK, NEW c \in Clients, Takes(c)
  PROVE  /\ Only(c, {"down", "got"})
         /\ conn'[c].down = conn[c].down - 1
         /\ conn'[c].got = conn[c].got + 1
<1>1. PICK k \in Connections : k = conn[c]
  BY DEF TypeOK
<1>2. PICK a \in Nat : a = k.down - 1
  BY <1>1 DEF Takes, Connections
<1>3. PICK b \in Nat : b = k.got + 1
  BY <1>1 DEF Connections
<1>4. PICK r : r = [k EXCEPT !.down = a, !.got = b]
  BY Zenon
<1>5. /\ r \in Connections /\ \A f \in Fields \ {"down", "got"} : r[f] = k[f]
      /\ r.down = k.down - 1
      /\ r.got = k.got + 1
  BY <1>1, <1>4, <1>2, <1>3, ZenonT(30) DEF Connections, Fields
<1>6. conn \in [Clients -> Connections] /\ conn' = [conn EXCEPT ![c] = r]
  BY <1>1, <1>4, <1>2, <1>3, Zenon DEF Takes, TypeOK
<1> QED
  BY <1>1, <1>5, <1>6 DEF Only

\* A write() to a closed socket changes rst.
LEMMA RejectsOnly ==
  ASSUME TypeOK, NEW c \in Clients, Rejects(c)
  PROVE  /\ Only(c, {"rst"})
         /\ conn'[c].rst = "flying"
<1>1. PICK k \in Connections : k = conn[c]
  BY DEF TypeOK
<1>2. PICK r : r = [k EXCEPT !.rst = "flying"]
  BY Zenon
<1>3. /\ r \in Connections /\ \A f \in Fields \ {"rst"} : r[f] = k[f]
      /\ r.rst = "flying"
  BY <1>1, <1>2 DEF Connections, Fields
<1>4. conn \in [Clients -> Connections] /\ conn' = [conn EXCEPT ![c] = r]
  BY <1>1, <1>2 DEF Rejects, TypeOK
<1> QED
  BY <1>1, <1>3, <1>4 DEF Only

\* A write() that is taken changes up and urg.
LEMMA SendsOnly ==
  ASSUME TypeOK, NEW c \in Clients, NEW urgent \in BOOLEAN, Sends(c, urgent)
  PROVE  /\ Only(c, {"up", "urg"})
         /\ conn'[c].up = conn[c].up + 1
         /\ conn'[c].urg = urgent
<1>1. PICK k \in Connections : k = conn[c]
  BY DEF TypeOK
<1>2. PICK a \in Nat : a = k.up + 1
  BY <1>1 DEF Connections
<1>3. PICK r : r = [k EXCEPT !.up = a, !.urg = urgent]
  BY Zenon
<1>4. /\ r \in Connections /\ \A f \in Fields \ {"up", "urg"} : r[f] = k[f]
      /\ r.up = k.up + 1
      /\ r.urg = urgent
  BY <1>1, <1>3, <1>2, ZenonT(30) DEF Connections, Fields
<1>5. conn \in [Clients -> Connections] /\ conn' = [conn EXCEPT ![c] = r]
  BY <1>1, <1>3, <1>2, Zenon DEF Sends, TypeOK
<1> QED
  BY <1>1, <1>4, <1>5, Zenon DEF Only

\* A server's read() changes up.
LEMMA ReadsOnly ==
  ASSUME TypeOK, NEW c \in Clients \cup {"none"}, Reads(c)
  PROVE  /\ Only(c, {"up"})
         /\ c \in Clients => conn'[c].up = IF conn[c].up > 0 THEN conn[c].up - 1 ELSE 0
<1>1. CASE c \in Clients
  <2>1. PICK k \in Connections : k = conn[c]
    BY <1>1 DEF TypeOK
  <2>2. PICK r : r = [k EXCEPT !.up = IF @ > 0 THEN @ - 1 ELSE 0]
    BY Zenon
  <2>3. /\ r \in Connections /\ \A f \in Fields \ {"up"} : r[f] = k[f]
        /\ r.up = IF k.up > 0 THEN k.up - 1 ELSE 0
    BY <2>1, <2>2 DEF Connections, Fields
  <2>4. conn \in [Clients -> Connections] /\ conn' = [conn EXCEPT ![c] = r]
    BY <1>1, <2>1, <2>2 DEF Reads, TypeOK
  <2> QED
    BY <1>1, <2>1, <2>3, <2>4 DEF Only
<1>2. CASE c \notin Clients
  <2>1. conn' = conn
    BY <1>2 DEF Reads, TypeOK
  <2> QED
    BY <1>2, <2>1 DEF Only, TypeOK
<1> QED
  BY <1>1, <1>2

\* recv(MSG_OOB) takes the urgent byte.
LEMMA ReadsOobOnly ==
  ASSUME TypeOK, NEW c \in Clients \cup {"none"}, ReadsOob(c)
  PROVE  /\ Only(c, {"urg", "oob"})
         /\ c \in Clients => conn'[c].urg = FALSE
         /\ c \in Clients => conn'[c].oob = TRUE
<1>1. CASE c \in Clients
  <2>1. PICK k \in Connections : k = conn[c]
    BY <1>1 DEF TypeOK
  <2>2. PICK r : r = [k EXCEPT !.urg = FALSE, !.oob = TRUE]
    BY Zenon
  <2>3. /\ r \in Connections /\ \A f \in Fields \ {"urg", "oob"} : r[f] = k[f]
        /\ r.urg = FALSE
        /\ r.oob = TRUE
    BY <2>1, <2>2, ZenonT(30) DEF Connections, Fields
  <2>4. conn \in [Clients -> Connections] /\ conn' = [conn EXCEPT ![c] = r]
    BY <1>1, <2>1, <2>2, Zenon DEF ReadsOob, TypeOK
  <2> QED
    BY <1>1, <2>1, <2>3, <2>4 DEF Only
<1>2. CASE c \notin Clients
  <2>1. conn' = conn
    BY <1>2 DEF ReadsOob, TypeOK
  <2> QED
    BY <1>2, <2>1 DEF Only, TypeOK
<1> QED
  BY <1>1, <1>2, Zenon

\* The time server's write() changes down and lost.
LEMMA AnswerOnly ==
  ASSUME TypeOK, NEW c \in Clients \cup {"none"}, Answer(c)
  PROVE  /\ Only(c, {"down", "lost"})
         /\ c \in Clients => conn'[c].down = conn[c].down + 1
<1>1. CASE c \in Clients
  <2>1. PICK k \in Connections : k = conn[c]
    BY <1>1 DEF TypeOK
  <2>2. PICK a \in Nat : a = k.down + 1
    BY <1>1, <2>1 DEF Connections
  <2>3. PICK z \in BOOLEAN : z = (k.cEnd = "closed")
    BY <1>1, <2>1, Zenon
  <2>4. PICK r : r = [k EXCEPT !.down = a, !.lost = z]
    BY Zenon
  <2>5. /\ r \in Connections /\ \A f \in Fields \ {"down", "lost"} : r[f] = k[f]
        /\ r.down = k.down + 1
    BY <2>1, <2>4, <2>2, <2>3, ZenonT(30) DEF Connections, Fields
  <2>6. conn \in [Clients -> Connections] /\ conn' = [conn EXCEPT ![c] = r]
    BY <1>1, <2>1, <2>4, <2>2, <2>3, Zenon DEF Answer, TypeOK
  <2> QED
    BY <1>1, <2>1, <2>5, <2>6 DEF Only
<1>2. CASE c \notin Clients
  <2>1. conn' = conn
    BY <1>2 DEF Answer, TypeOK
  <2> QED
    BY <1>2, <2>1 DEF Only, TypeOK
<1> QED
  BY <1>1, <1>2

\* shutdown() changes sEnd.
LEMMA ShutsOnly ==
  ASSUME TypeOK, NEW c \in Clients \cup {"none"}, Shuts(c)
  PROVE  /\ Only(c, {"sEnd"})
         /\ c \in Clients => conn'[c].sEnd = "fin"
<1>1. CASE c \in Clients
  <2>1. PICK k \in Connections : k = conn[c]
    BY <1>1 DEF TypeOK
  <2>2. PICK r : r = [k EXCEPT !.sEnd = "fin"]
    BY Zenon
  <2>3. /\ r \in Connections /\ \A f \in Fields \ {"sEnd"} : r[f] = k[f]
        /\ r.sEnd = "fin"
    BY <2>1, <2>2 DEF Connections, Fields
  <2>4. conn \in [Clients -> Connections] /\ conn' = [conn EXCEPT ![c] = r]
    BY <1>1, <2>1, <2>2 DEF Shuts, TypeOK
  <2> QED
    BY <1>1, <2>1, <2>3, <2>4 DEF Only
<1>2. CASE c \notin Clients
  <2>1. conn' = conn
    BY <1>2 DEF Shuts, TypeOK
  <2> QED
    BY <1>2, <2>1, Zenon DEF Only, TypeOK
<1> QED
  BY <1>1, <1>2

\* A server's last close() changes sEnd and rst.
LEMMA EndsOnly ==
  ASSUME TypeOK, NEW c \in Clients \cup {"none"}, Ends(c)
  PROVE  /\ Only(c, {"sEnd", "rst"})
         /\ c \in Clients => conn'[c].sEnd = "fin"
         /\ c \in Clients => conn'[c].rst = IF conn[c].up > 0 THEN "flying" ELSE conn[c].rst
<1>1. CASE c \in Clients
  <2>1. PICK k \in Connections : k = conn[c]
    BY <1>1 DEF TypeOK
  <2>2. PICK z \in {"no", "flying", "seen"} : z = IF k.up > 0 THEN "flying" ELSE k.rst
    BY <2>1 DEF Connections
  <2>3. PICK r : r = [k EXCEPT !.sEnd = "fin", !.rst = z]
    BY Zenon
  <2>4. /\ r \in Connections /\ \A f \in Fields \ {"sEnd", "rst"} : r[f] = k[f]
        /\ r.sEnd = "fin" /\ r.rst = z
    BY <2>1, <2>3, ZenonT(30) DEF Connections, Fields
  <2>5. conn \in [Clients -> Connections] /\ conn' = [conn EXCEPT ![c] = r]
    BY <1>1, <2>1, <2>2, <2>3, Zenon DEF Ends, TypeOK
  <2> QED
    BY <1>1, <2>1, <2>2, <2>4, <2>5 DEF Only
<1>2. CASE c \notin Clients
  <2>1. conn' = conn
    BY <1>2 DEF Ends, TypeOK
  <2> QED
    BY <1>2, <2>1 DEF Only, TypeOK
<1> QED
  BY <1>1, <1>2, Zenon
-----------------------------------------------------------------------------
(* Every step keeps the types.                                             *)

\* What a call may do to the sockets.
Effect(t, c, n) ==
  \/ Silent \/ Listens(n) \/ Connects(c) \/ Pends(c) \/ Refused(c) \/ Accepts(t)
  \/ WriteFails(c) \/ Reads(cur[t]) \/ ReadsOob(cur[t]) \/ Asserts(t)
  \/ Answer(cur[t]) \/ Takes(c) \/ Closes(c) \/ ClosesServed(t, cur[t]) \/ Shuts(cur[t])
  \/ Notices(c)
  \/ \E f : Sets(f)
  \/ \E u \in BOOLEAN : Writes(c, u)
  \/ \E f \in Children : \E k, l : Forks(t, f, k, l)

\* None of these effects leaves the types or changes the program.
LEMMA EffectType ==
  ASSUME TypeOK, NEW t \in Servers, NEW c \in Clients, NEW n \in Int, Effect(t, c, n)
  PROVE  TypeOK' /\ program' = program
<1>1. PICK d \in Clients \cup {"none"} : d = cur[t]
  BY DEF TypeOK
<1>2. CASE Silent \/ (\E f : Sets(f)) \/ Listens(n) \/ WriteFails(c) \/ Asserts(t)
  BY <1>2 DEF TypeOK, accepting, Silent, Sets, Listens, WriteFails, Asserts
<1>3. CASE Accepts(t)
  <2>1. Head(queue) \in Clients /\ Tail(queue) \in Seq(Clients)
    BY <1>3 DEF TypeOK, Accepts
  <2> QED
    BY <1>3, <2>1 DEF TypeOK, Accepts
<1>4. CASE \E f \in Children : \E k, l : Forks(t, f, k, l)
  <2>1. PICK f \in Children : \E k, l : Forks(t, f, k, l)
    BY <1>4
  <2>2. PICK k, l : Forks(t, f, k, l)
    BY <2>1
  <2>3. cur' \in [Servers -> Clients \cup {"none"}] /\ holders' \in [Clients -> SUBSET Servers]
    BY <2>2 DEF TypeOK, Forks, Servers
  <2> QED
    BY <2>2, <2>3 DEF TypeOK, Forks
<1>5. \/ Pends(c) \/ Refused(c) \/ Takes(c) \/ Closes(c) \/ Notices(c)
      \/ Reads(d) \/ ReadsOob(d) \/ Answer(d) \/ Shuts(d) \/ (\E u : Writes(c, u))
      => UNCHANGED <<backlog, queue, cur, holders, program>>
  BY DEF accepting, Pends, Refused, Takes, Closes, Notices, Reads, ReadsOob, Answer, Shuts, Writes
<1>6. CASE Pends(c) \/ Refused(c) \/ Takes(c) \/ Closes(c) \/ Notices(c)
  <2>1. conn' \in [Clients -> Connections]
    BY <1>6, PendsOnly, RefusedOnly, TakesOnly, ClosesOnly, NoticesOnly, Zenon DEF Only
  <2> QED
    BY <1>5, <1>6, <2>1 DEF TypeOK
<1>7. CASE Reads(d) \/ ReadsOob(d) \/ Answer(d) \/ Shuts(d)
  <2>1. conn' \in [Clients -> Connections]
    BY <1>7, ReadsOnly, ReadsOobOnly, AnswerOnly, ShutsOnly, Zenon DEF Only
  <2> QED
    BY <1>5, <1>7, <2>1 DEF TypeOK
<1>8. CASE \E u \in BOOLEAN : Writes(c, u)
  <2>1. conn' \in [Clients -> Connections]
    BY <1>8, RejectsOnly, SendsOnly, Zenon DEF Only, Writes
  <2> QED
    BY <1>5, <1>8, <2>1 DEF TypeOK
<1>9. CASE Connects(c)
  <2>1. conn' \in [Clients -> Connections]
    BY <1>9, ConnectsOnly DEF Only
  <2> QED
    BY <1>9, <2>1 DEF TypeOK, Connects, Established
<1>10. CASE ClosesServed(t, d)
  <2>1. conn' \in [Clients -> Connections]
    BY <1>10, EndsOnly DEF Only, ClosesServed, TypeOK
  <2> QED
    BY <1>10, <2>1, Zenon DEF ClosesServed, TypeOK
<1> QED
  BY <1>1, <1>2, <1>3, <1>4, <1>6, <1>7, <1>8, <1>10, <1>9 DEF Effect

\* Where a call leads is in the code, or its end.
LEMMA AfterInside ==
  ASSUME NEW t, NEW ops, NEW o, WellFormed(Code(t), ops), Len(Code(t)) \in Nat,
         pc[t] \in 1 .. Len(Code(t))
  PROVE  After(t, o) \in 0 .. Len(Code(t))
<1>1. PICK n \in Nat : n = Len(Code(t))
  OBVIOUS
<1>2. PICK k \in 1 .. n : k = pc[t]
  BY <1>1
<1>3. PICK to : to = Code(t)[k].to
  BY Zenon
<1>4. \A x \in DOMAIN to : to[x] \in Nat
  BY <1>1, <1>2, <1>3 DEF WellFormed
<1>5. PICK next \in Nat : next = IF o \in DOMAIN to THEN to[o] ELSE k + 1
  BY <1>2, <1>4
<1>6. After(t, o) = IF next > n THEN 0 ELSE next
  BY <1>1, <1>2, <1>3, <1>5 DEF After
<1> QED
  BY <1>1, <1>5, <1>6

\* A jump inside the code stays inside.
LEMMA MoveBounded ==
  ASSUME Bounded, program' = program, NEW t \in Threads, NEW k, NEW l \in 0 .. Len(Code(t)),
         Len(Code(t)) \in Nat, Moves(t, k, l), k # -1
  PROVE  Bounded'
<1>1. \A u : Code(u)' = Code(u)
  BY DEF Code, Table, main2_main, main3_main, api_main, sigurg_main
<1> QED
  BY <1>1 DEF Bounded, Moves

Kept == TypeOK' /\ Bounded' /\ program' = program

\* A server's step keeps the types and stays in its code.
LEMMA ServerKeeps ==
  ASSUME TypeOK, Bounded, NEW t \in Servers, Step(t)
  PROVE  Kept
<1>1. /\ WellFormed(Code(t), ServerOps) /\ Len(Code(t)) \in Nat
      /\ program # "time" => \A k \in 1 .. Len(Code(t)) : Code(t)[k].op # "fork"
  BY ServersFormed DEF TypeOK
<1>2. t \in Threads /\ pc[t] \in 1 .. Len(Code(t))
  <2>1. t \in Threads /\ pc[t] > 0
    BY DEF Threads, Step
  <2>2. PICK n \in Nat : n = Len(Code(t))
    BY <1>1, Zenon
  <2> QED
    BY <2>1, <2>2 DEF Bounded
<1>3. PICK op, arg : op = Code(t)[pc[t]].op /\ arg = Code(t)[pc[t]].arg
  BY Zenon
<1>4. /\ op \in ServerOps /\ (op \in {"goto", "listen"} => arg \in Nat)
      /\ op = "fork" => arg \in 0 .. Len(Code(t)) /\ pc[t] < Len(Code(t)) /\ program = "time"
  BY <1>1, <1>2, <1>3 DEF WellFormed
<1>5. ServerDoes(t, op, arg)
  BY <1>3, ServerCall
<1>6. \A o : After(t, o) \in 0 .. Len(Code(t))
  BY <1>1, <1>2, AfterInside
<1>7. ASSUME NEW l \in 0 .. Len(Code(t)), Moves(t, pc[t], l), program' = program
      PROVE  Bounded'
  BY <1>1, <1>2, <1>7, MoveBounded
<1>8. PICK c \in Clients : TRUE
  BY MachineAssumption
<1>9. CASE Dozes
  <2>1. Effect(t, c, 0)
    BY <1>9 DEF Effect, Dozes
  <2>2. TypeOK' /\ program' = program
    BY <1>8, <2>1, EffectType
  <2>3. \A u : Code(u)' = Code(u)
    BY <2>2 DEF Code, Table, main2_main, main3_main, api_main, sigurg_main
  <2> QED
    BY <1>9, <2>2, <2>3 DEF Dozes, Kept, Bounded
<1>10. CASE op = "fork" /\ \E f \in Children : Forks(t, f, pc[t], arg)
  <2>1. PICK f \in Children : Forks(t, f, pc[t], arg)
    BY <1>10
  <2>2. Effect(t, c, 0)
    BY <2>1, Zenon DEF Effect
  <2>3. TypeOK' /\ program' = program
    BY <1>8, <2>2, EffectType
  <2>4. \A u : Code(u)' = Code(u)
    BY <2>3 DEF Code, Table, main2_main, main3_main, api_main, sigurg_main
  <2>5. Code(f) = Code(t) /\ f \in Threads
    BY Roles DEF Code, Servers, Threads
  <2>6. PICK n \in Nat : n = Len(Code(t))
    BY <1>1
  <2>7. arg \in 0 .. n /\ pc[t] \in 1 .. n - 1 /\ program = "time"
    BY <1>2, <1>4, <1>10, <2>6
  <2>8. pc' \in [Threads -> Int] /\ pc' = [pc EXCEPT ![t] = arg, ![f] = pc[t] + 1]
    BY <1>2, <2>1, <2>5, <2>7, SMTT(30) DEF Forks, Bounded
  <2>9. ASSUME NEW u \in Threads PROVE pc'[u] \in -1 .. Len(Code(u))
    <3>1. CASE u \in {t, f}
      BY <1>2, <2>5, <2>6, <2>7, <2>8, <3>1, SMTT(30) DEF Bounded
    <3>2. CASE u \notin {t, f}
      BY <2>8, <3>2 DEF Bounded
    <3> QED
      BY <3>1, <3>2
  <2> QED
    BY <2>3, <2>4, <2>7, <2>8, <2>9, Zenon DEF Kept, Bounded
<1>11. CASE Does(t, pc[t], IF arg > Len(Code(t)) THEN 0 ELSE arg) /\ Silent /\ op = "goto"
  <2>1. Effect(t, c, 0)
    BY <1>11 DEF Effect
  <2>2. TypeOK' /\ program' = program
    BY <1>8, <2>1, EffectType
  <2>3. (IF arg > Len(Code(t)) THEN 0 ELSE arg) \in 0 .. Len(Code(t))
    <3>1. PICK n \in Nat, l \in Nat : n = Len(Code(t)) /\ l = arg
      BY <1>1, <1>4, <1>11
    <3> QED
      BY <3>1
  <2> QED
    BY <1>7, <1>11, <2>2, <2>3 DEF Does, Kept
<1>12. CASE Does(t, pc[t], arg) /\ Silent /\ op = "fork"
  <2>1. Effect(t, c, 0)
    BY <1>12, Zenon DEF Effect
  <2>2. TypeOK' /\ program' = program
    BY <1>8, <2>1, EffectType
  <2> QED
    BY <1>4, <1>7, <1>12, <2>2 DEF Does, Kept
<1>13. CASE /\ Ok(t, "ok") \/ Err(t)
            /\ \/ Silent \/ (op = "listen" /\ Listens(arg)) \/ Accepts(t) \/ Asserts(t)
               \/ Reads(cur[t]) \/ ReadsOob(cur[t]) \/ Answer(cur[t]) \/ Shuts(cur[t])
               \/ ClosesServed(t, cur[t]) \/ Sets(arg)
  <2>1. Effect(t, c, 0) \/ (op = "listen" /\ Effect(t, c, arg))
    BY <1>13 DEF Effect
  <2>2. TypeOK' /\ program' = program
    BY <1>4, <1>8, <2>1, EffectType
  <2> QED
    BY <1>6, <1>7, <1>13, <2>2 DEF Ok, Err, Does, Fails, Kept
<1> QED
  BY <1>4, <1>5, <1>9, <1>10, <1>11, <1>12, <1>13, Zenon DEF ServerDoes, ServerOps

\* A client's step keeps the types and stays in its code.
LEMMA ClientKeeps ==
  ASSUME TypeOK, Bounded, NEW c \in Clients, Step(c)
  PROVE  Kept
<1>1. WellFormed(Code(c), ClientOps) /\ Len(Code(c)) \in Nat
  BY ClientsFormed DEF TypeOK
<1>2. c \in Threads /\ pc[c] \in 1 .. Len(Code(c))
  <2>1. c \in Threads /\ pc[c] > 0
    BY DEF Threads, Step
  <2>2. PICK n \in Nat : n = Len(Code(c))
    BY <1>1
  <2> QED
    BY <2>1, <2>2 DEF Bounded
<1>3. PICK op, arg : op = Code(c)[pc[c]].op /\ arg = Code(c)[pc[c]].arg
  BY Zenon
<1>4. op \in ClientOps /\ (op = "goto" => arg \in Nat)
  BY <1>1, <1>2, <1>3 DEF WellFormed
<1>5. ClientDoes(c, op, arg)
  BY <1>3, ClientCall
<1>6. \A o : After(c, o) \in 0 .. Len(Code(c))
  BY <1>1, <1>2, AfterInside
<1>7. ASSUME NEW l \in 0 .. Len(Code(c)), Moves(c, pc[c], l), program' = program
      PROVE  Bounded'
  BY <1>1, <1>2, <1>7, MoveBounded
<1>8. Server \in Servers
  BY DEF Servers
<1>9. CASE Dozes
  <2>1. Effect(Server, c, 0)
    BY <1>9 DEF Effect, Dozes
  <2>2. TypeOK' /\ program' = program
    BY <1>8, <2>1, EffectType
  <2>3. \A u : Code(u)' = Code(u)
    BY <2>2 DEF Code, Table, main2_main, main3_main, api_main, sigurg_main
  <2> QED
    BY <1>9, <2>2, <2>3 DEF Dozes, Kept, Bounded
<1>10. CASE Does(c, pc[c], IF arg > Len(Code(c)) THEN 0 ELSE arg) /\ Silent /\ op = "goto"
  <2>1. Effect(Server, c, 0)
    BY <1>10 DEF Effect
  <2>2. TypeOK' /\ program' = program
    BY <1>8, <2>1, EffectType
  <2>3. (IF arg > Len(Code(c)) THEN 0 ELSE arg) \in 0 .. Len(Code(c))
    <3>1. PICK n \in Nat, l \in Nat : n = Len(Code(c)) /\ l = arg
      BY <1>1, <1>4, <1>10
    <3> QED
      BY <3>1
  <2> QED
    BY <1>7, <1>10, <2>2, <2>3 DEF Does, Kept
<1>11. CASE Does(c, pc[c], 0) /\ Closes(c)
  <2>1. Effect(Server, c, 0)
    BY <1>11 DEF Effect
  <2>2. TypeOK' /\ program' = program
    BY <1>8, <2>1, EffectType
  <2> QED
    BY <1>1, <1>7, <1>11, <2>2 DEF Does, Kept
<1>12. CASE /\ Err(c) \/ \E o : Ok(c, o)
            /\ \/ Silent \/ Connects(c) \/ Pends(c) \/ WriteFails(c) \/ Takes(c) \/ Closes(c)
               \/ \E u \in BOOLEAN : Writes(c, u)
  <2>1. Effect(Server, c, 0)
    BY <1>12 DEF Effect
  <2>2. TypeOK' /\ program' = program
    BY <1>8, <2>1, EffectType
  <2> QED
    BY <1>6, <1>7, <1>12, <2>2 DEF Ok, Err, Does, Fails, Kept
<1>13. (op = "send_oob") \in BOOLEAN
  BY Zenon
<1> QED
  BY <1>4, <1>5, <1>9, <1>10, <1>11, <1>12, <1>13, Zenon DEF ClientDoes, ClientOps

\* A client process killed in the middle of its program.
Killed(c) == program \in {"time", "unix"} /\ pc[c] > 0 /\ Does(c, pc[c], 0) /\ Closes(c)

\* Whose step it may be.
Actor ==
  \/ Dozes
  \/ \E t \in Servers : Step(t) /\ pc[t] \in 1 .. Len(Code(t)) /\ (program # "time" => t = Server)
  \/ \E c \in Clients : Step(c) /\ pc[c] \in 1 .. Len(Code(c))
  \/ \E c \in Clients : Resolves(c) \/ Notices(c) \/ Killed(c)

\* Every step is somebody's step.
LEMMA Actors ==
  ASSUME TypeOK, Bounded, [Next]_vars
  PROVE  Actor
<1>1. CASE UNCHANGED vars
  BY <1>1 DEF vars, sync, rest, Actor, Dozes, Silent
<1>2. ASSUME NEW t \in Threads, Step(t) PROVE Actor
  <2>1. CASE t \in Clients
    <3>1. Len(Code(t)) \in Nat
      BY <2>1, ClientsFormed DEF TypeOK
    <3>2. pc[t] \in 1 .. Len(Code(t))
      BY <1>2, <3>1 DEF Bounded, Step
    <3> QED
      BY <1>2, <2>1, <3>2 DEF Actor
  <2>2. CASE t \in Servers
    <3>1. Len(Code(t)) \in Nat
      BY <2>2, ServersFormed DEF TypeOK
    <3>2. pc[t] \in 1 .. Len(Code(t)) /\ (program # "time" => t = Server)
      BY <1>2, <2>2, <3>1 DEF Bounded, Step, Servers
    <3> QED
      BY <1>2, <2>2, <3>2 DEF Actor
  <2> QED
    BY <2>1, <2>2 DEF Threads
<1>3. ASSUME NEW t \in Threads, wakeUnasked(t) PROVE Actor
  BY <1>3 DEF wakeUnasked, Actor, Dozes, Silent, rest
<1>4. ASSUME NEW c \in Clients, resolve(c) PROVE Actor
  <2>1. Resolves(c)
    BY <1>4 DEF resolve, Resolves, Connects, Refused, sync, rest, accepting
  <2> QED
    BY <2>1 DEF Actor
<1>5. ASSUME NEW c \in Clients, noticeRst(c) PROVE Actor
  <2>1. Notices(c)
    BY <1>5 DEF noticeRst, Notices, sync, rest
  <2> QED
    BY <2>1 DEF Actor
<1>6. ASSUME NEW c \in Clients, kill(c) PROVE Actor
  <2>1. Killed(c)
    BY <1>6 DEF kill, Killable, End, Killed, Does, Moves, Closes, sync, rest
  <2> QED
    BY <2>1 DEF Actor
<1> QED
  BY <1>1, <1>2, <1>3, <1>4, <1>5, <1>6 DEF Next

\* Every step keeps the types and stays in the code.
LEMMA StepKeeps ==
  ASSUME TypeOK, Bounded, [Next]_vars
  PROVE  Kept
<1>1. Server \in Servers /\ Own \in Clients
  BY MachineAssumption DEF Servers
<1>2. ASSUME UNCHANGED pc, program' = program PROVE Bounded'
  <2>1. \A u : Code(u)' = Code(u)
    BY <1>2 DEF Code, Table, main2_main, main3_main, api_main, sigurg_main
  <2> QED
    BY <1>2, <2>1 DEF Bounded
<1>3. CASE Dozes
  <2>1. Effect(Server, Own, 0) /\ UNCHANGED pc
    BY <1>3 DEF Effect, Dozes
  <2> QED
    BY <1>1, <1>2, <2>1, EffectType DEF Kept
<1>4. ASSUME NEW c \in Clients, Resolves(c) \/ Notices(c) PROVE Kept
  <2>1. UNCHANGED pc /\ Effect(Server, c, 0)
    BY <1>4 DEF Effect, Resolves, Notices
  <2> QED
    BY <1>1, <1>2, <2>1, EffectType DEF Kept
<1>5. ASSUME NEW c \in Clients, Killed(c) PROVE Kept
  <2>1. Effect(Server, c, 0)
    BY <1>5 DEF Effect, Killed
  <2>2. TypeOK' /\ program' = program
    BY <1>1, <2>1, EffectType
  <2>3. Len(Code(c)) \in Nat /\ 0 \in 0 .. Len(Code(c)) /\ c \in Threads
    BY ClientsFormed DEF TypeOK, Threads
  <2>4. Moves(c, pc[c], 0) /\ pc[c] # -1
    BY <1>5 DEF Killed, Does
  <2> QED
    BY <2>2, <2>3, <2>4, MoveBounded DEF Kept
<1> QED
  BY <1>3, <1>4, <1>5, Actors, ServerKeeps, ClientKeeps DEF Actor
-----------------------------------------------------------------------------
(* The programs, one by one.                                               *)

\* Thread t goes from label k to label l, no other thread moves.
Jump(t, k, l) ==
  pc[t] = k /\ pc'[t] = l /\ \A u \in Threads \ {t} : pc'[u] = pc[u]

\* A jump moves one thread and no other.
LEMMA Jumps ==
  ASSUME Bounded, NEW t \in Threads, NEW k, NEW l
  PROVE  /\ Moves(t, k, l) => Jump(t, k, l)
         /\ Does(t, k, l) => Jump(t, k, l) /\ errors' = errors
         /\ Fails(t, k, l) => Jump(t, k, l) /\ errors' = errors \cup {<<t, k>>}
BY DEF Bounded, Jump, Moves, Does, Fails
=============================================================================
