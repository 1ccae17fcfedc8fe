----------------------- MODULE SocketInvariant_proofs -----------------------
(***************************************************************************)
(* The inductive invariant of the socket programs: what holds of labels,   *)
(* descriptors and connections in each of them, for any number of clients  *)
(* and of processes fork() can make and any size of the socket buffers.    *)
(* The steps of time/, tcp_rest/main2 and main3 keep it.                   *)
(***************************************************************************)
EXTENDS SocketSteps_proofs

\* The server of the four programs whose client waits for a flag.
Ready == pc[Server] # 1 \/ flags # {} => Listening

\* A client behind its wait meets a listening server.
Unrefused(c) == (pc[c] > 1 => Listening) /\ <<c, 2>> \notin errors

\* A client that has not written is owed no RST.
Unwritten(c) == conn[c].up = 0 /\ conn[c].rst = "no"

Main2Inv == program = "main2" =>
  /\ Ready /\ Unrefused(Own)
  /\ pc[Own] \in 1 .. 3 => Unwritten(Own)
  /\ <<Own, 3>> \notin errors

Serves(l, c) == pc[Server] = l /\ cur[Server] = c

\* The server passes its read() of the client's connection when the client has
\* written, and what it leaves unread it could not have left at its close().
Main3Inv == program = "main3" =>
  /\ Ready /\ Unrefused(Own)
  /\ pc[Own] \in 1 .. 3 => /\ Unwritten(Own) /\ ~Serves(6, Own)
                           /\ conn[Own].cEnd = "open" /\ conn[Own].sEnd = "open"
  /\ pc[Own] \in 4 .. 5 => /\ conn[Own].rst = "no" /\ conn[Own].up <= 1
                           /\ Serves(6, Own) => conn[Own].up = 0
  /\ <<Own, 3>> \notin errors /\ <<Own, 5>> \notin errors

\* The server has the descriptor whose name it asserts.
ApiInv == program = "api" =>
  /\ Ready
  /\ \A c \in Clients : /\ pc[c] > 1 => Listening
                        /\ Code(c) # api_client("far") => <<c, 2>> \notin errors
                        /\ pc[c] \in 1 .. 3 => Unwritten(c)
  /\ pc[Server] \in 5 .. 7 => cur[Server] \in Clients /\ Server \in holders[cur[Server]]

\* The urgent byte is there, or has been read, once there is anything to read.
SigurgInv == program = "sigurg" =>
  LET k == conn[Own] IN
  /\ Ready /\ Unrefused(Own)
  /\ pc[Own] \in 1 .. 3 => Unwritten(Own) /\ k.cEnd = "open"
  /\ pc[Own] = 4 \/ k.up > 0 \/ k.cEnd = "closed" \/ Serves(6, Own) => k.urg \/ k.oob
  /\ k.sEnd # "open" \/ Serves(7, Own) => k.oob

\* Process t has accepted c's connection and not shut it down; accept() has not
\* returned it yet; nothing has been written to it.
Answers(t, c) == pc[t] \in 3 .. 5 /\ cur[t] = c
Queued(c) == \E i \in DOMAIN queue : queue[i] = c
Fresh(c) == conn[c].sEnd = "open" /\ conn[c].down = 0 /\ conn[c].got = 0 /\ ~conn[c].lost

\* A connection is in the queue or one process answers it, and that one once.
AnsweredOnce(c) ==
  /\ conn[c].link \in {"none", "up"} /\ (pc[c] = 1 => conn[c].link = "none")
  /\ conn[c].link = "none" => ~Queued(c) /\ Fresh(c) /\ \A t \in Servers : ~Answers(t, c)
  /\ Queued(c) => Fresh(c) /\ \A t \in Servers : ~Answers(t, c)
  /\ conn[c].sEnd = "fin" => conn[c].down + conn[c].got = 1
  /\ pc[c] = 3 => conn[c].got = 1

\* A process between its accept() and its shutdown() has the connection alone.
AnswersOne(t) ==
  pc[t] \in 3 .. 5 =>
    /\ cur[t] \in Clients
    /\ \A u \in Servers : Answers(u, cur[t]) => u = t
    /\ pc[t] # 5 => Fresh(cur[t])
    /\ pc[t] = 5 => conn[cur[t]].sEnd = "open" /\ conn[cur[t]].down + conn[cur[t]].got = 1

\* No connection is in the queue twice.
Distinct == \A i, j \in DOMAIN queue : queue[i] = queue[j] => i = j

TimeOK ==
  /\ \A c \in Clients : AnsweredOnce(c)
  /\ \A t \in Servers : AnswersOne(t)
  /\ Distinct

TimeInv == program = "time" => TimeOK

\* Who connects holds the name, and bind() gives it to one client.
UnixInv == program = "unix" =>
  /\ \A c \in Clients : /\ conn[c].rst = "no" /\ conn[c].sEnd = "open"
                        /\ conn[c].link # "pending"
                        /\ Connected(c) => pc[c] \in {3, 4}
  /\ \A c, d \in Clients : pc[c] \in 2 .. 4 /\ pc[d] \in 2 .. 4 => c = d

\* Once poll() has returned the attempt is decided, and a refused one is closed.
AsyncInv == program = "async" =>
  LET link == conn[Own].link IN
  /\ pc[Own] = 0 => conn[Own].cEnd = "closed" \/ link = "up"
  /\ pc[Own] = 2 => link # "none"
  /\ pc[Own] = 3 => link \in {"up", "refused"}

MachineInv ==
  /\ TypeOK /\ Bounded /\ dead = "no"
  /\ Main2Inv /\ Main3Inv /\ ApiInv /\ SigurgInv /\ TimeInv /\ UnixInv /\ AsyncInv

(* time/server.cpp and time/client.cpp.                                    *)

\* What accept() and connect() do to the queue.
LEMMA QueueTail ==
  ASSUME queue \in Seq(Clients), queue # <<>>, queue' = Tail(queue), Distinct
  PROVE  /\ Queued(Head(queue)) /\ Distinct'
         /\ \A c : Queued(c)' <=> Queued(c) /\ c # Head(queue)
<1>1. Len(queue) \in Nat \ {0} /\ DOMAIN queue = 1 .. Len(queue) /\ Head(queue) = queue[1]
  OBVIOUS
<1>2. PICK n \in Nat \ {0} : n = Len(queue)
  BY <1>1, Zenon
<1>3. /\ DOMAIN queue = 1 .. n /\ DOMAIN queue' = 1 .. (n - 1)
      /\ \A i \in 1 .. (n - 1) : queue'[i] = queue[i + 1]
  BY <1>1, <1>2
<1>4. PICK h : h = Head(queue) /\ h = queue[1]
  BY <1>1
<1>5. Distinct'
  BY <1>3 DEF Distinct
<1>6. Queued(h)
  BY <1>3, <1>4 DEF Queued
<1>7. ASSUME NEW c, Queued(c)' PROVE Queued(c) /\ c # h
  <2>1. PICK i \in 1 .. (n - 1) : queue'[i] = c
    BY <1>3, <1>7 DEF Queued
  <2>2. i + 1 \in 1 .. n /\ queue[i + 1] = c /\ i + 1 # 1 /\ 1 \in 1 .. n
    BY <1>3, <2>1
  <2> QED
    BY <1>3, <1>4, <2>2 DEF Queued, Distinct
<1>8. ASSUME NEW c, Queued(c), c # h PROVE Queued(c)'
  <2>1. PICK i \in 1 .. n : queue[i] = c
    BY <1>3, <1>8 DEF Queued
  <2>2. i # 1
    BY <1>4, <1>8, <2>1
  <2>3. PICK j \in 1 .. (n - 1) : i = j + 1
    BY <2>2
  <2> QED
    BY <1>3, <2>1, <2>3, Zenon DEF Queued
<1> QED
  BY <1>4, <1>5, <1>6, <1>7, <1>8

\* connect() adds one connection at its end.
LEMMA QueueAppend ==
  ASSUME queue \in Seq(Clients), NEW c \in Clients, queue' = Append(queue, c), Distinct, ~Queued(c)
  PROVE  /\ Distinct' /\ \A d : Queued(d)' <=> Queued(d) \/ d = c
<1>1. PICK n \in Nat : n = Len(queue)
  OBVIOUS
<1>2. /\ DOMAIN queue = 1 .. n /\ DOMAIN queue' = 1 .. (n + 1) /\ queue'[n + 1] = c
      /\ \A i \in 1 .. n : queue'[i] = queue[i]
  BY <1>1
<1>3. \A i \in 1 .. n : queue[i] # c
  BY <1>2 DEF Queued
<1>4. Distinct'
  BY <1>2, <1>3 DEF Distinct
<1>5. ASSUME NEW d, Queued(d)' PROVE Queued(d) \/ d = c
  BY <1>2, <1>5 DEF Queued
<1>6. ASSUME NEW d, Queued(d) \/ d = c PROVE Queued(d)'
  BY <1>2, <1>6 DEF Queued
<1> QED
  BY <1>4, <1>5, <1>6

\* What the invariant says of a connection.
Same(c) ==
  /\ conn'[c].link = conn[c].link /\ conn'[c].sEnd = conn[c].sEnd /\ conn'[c].down = conn[c].down
  /\ conn'[c].got = conn[c].got /\ conn'[c].lost = conn[c].lost

\* What the lemmas below use of the types and of the invariant.
LEMMA TimeFacts ==
  ASSUME TypeOK, TimeOK
  PROVE  /\ \A c \in Clients : AnsweredOnce(c) /\ conn[c].down \in Nat /\ conn[c].got \in Nat
         /\ (\A t \in Servers : AnswersOne(t)) /\ Distinct
         /\ conn \in [Clients -> Connections] /\ cur \in [Servers -> Clients \cup {"none"}]
         /\ queue \in Seq(Clients) /\ Clients \subseteq Threads /\ Servers \subseteq Threads
         /\ Clients \cap Servers = {}
BY MachineAssumption DEF TypeOK, TimeOK, Threads, Connections

\* A step that lets nobody answer who did not.
LEMMA TimeStays ==
  ASSUME TypeOK, TimeOK, queue' = queue, \A c \in Clients : Same(c),
         \A c \in Clients : pc'[c] = pc[c] \/ pc'[c] \notin {1, 3},
         \A t \in Servers : pc'[t] \in 3 .. 5 => pc'[t] = pc[t] /\ cur'[t] = cur[t]
  PROVE  TimeOK'
<1>1. \A t \in Servers : \A c : Answers(t, c)' => Answers(t, c)
  BY DEF Answers
<1>2. Distinct' /\ \A c : Queued(c)' = Queued(c)
  BY TimeFacts DEF Distinct, Queued
<1>3. \A c \in Clients : Fresh(c)' = Fresh(c)
  BY DEF Same, Fresh
<1>4. ASSUME NEW c \in Clients PROVE AnsweredOnce(c)'
  <2>1. AnsweredOnce(c)
    BY TimeFacts
  <2> QED
    BY <1>1, <1>2, <1>3, <2>1 DEF AnsweredOnce, Same
<1>5. ASSUME NEW t \in Servers, pc'[t] \in 3 .. 5 PROVE AnswersOne(t)'
  <2>1. pc'[t] = pc[t] /\ cur'[t] = cur[t] /\ cur[t] \in Clients /\ AnswersOne(t)
    BY <1>5, TimeFacts DEF AnswersOne
  <2> QED
    BY <1>1, <1>3, <1>5, <2>1 DEF AnswersOne, Same
<1>6. \A t \in Servers : AnswersOne(t)'
  BY <1>5 DEF AnswersOne
<1> QED
  BY <1>2, <1>4, <1>6 DEF TimeOK

\* accept() takes the connection out of the queue.
LEMMA TimeAccepts ==
  ASSUME TypeOK, Bounded, TimeOK, NEW t \in Servers, Does(t, 2, 3), Accepts(t)
  PROVE  TimeOK'
<1>1. PICK h \in Clients : h = Head(queue)
  BY TimeFacts DEF Accepts
<1>2. Queued(h) /\ Distinct' /\ \A c : Queued(c)' <=> Queued(c) /\ c # h
  BY TimeFacts, <1>1, QueueTail DEF Accepts
<1>3. /\ cur'[t] = h /\ \A u \in Servers \ {t} : cur'[u] = cur[u]
      /\ conn' = conn
  BY TimeFacts, <1>1 DEF Accepts
<1>4. /\ pc'[t] = 3 /\ pc[t] = 2 /\ \A u \in Servers \ {t} : pc'[u] = pc[u]
      /\ \A c \in Clients : pc'[c] = pc[c]
  BY TimeFacts, Jumps DEF Jump
<1>5. \A u \in Servers, c \in Clients : Answers(u, c)' <=> Answers(u, c) \/ (u = t /\ c = h)
  BY <1>3, <1>4 DEF Answers
<1>6. Fresh(h) /\ (\A u \in Servers : ~Answers(u, h)) /\ conn[h].link # "none"
  BY TimeFacts, <1>2 DEF AnsweredOnce
<1>7. \A c : Fresh(c)' = Fresh(c)
  BY <1>3 DEF Fresh
<1>8. ASSUME NEW c \in Clients PROVE AnsweredOnce(c)'
  <2>1. AnsweredOnce(c)
    BY TimeFacts
  <2> QED
    BY <1>2, <1>3, <1>4, <1>5, <1>6, <1>7, <2>1 DEF AnsweredOnce
<1>9. AnswersOne(t)'
  BY <1>3, <1>4, <1>5, <1>6, <1>7 DEF AnswersOne
<1>10. ASSUME NEW u \in Servers \ {t} PROVE AnswersOne(u)'
  <2>1. AnswersOne(u) /\ (pc[u] \in 3 .. 5 => Answers(u, cur[u]))
    BY TimeFacts DEF Answers
  <2> QED
    BY <1>3, <1>4, <1>5, <1>6, <1>7, <2>1 DEF AnswersOne
<1> QED
  BY TimeFacts, <1>2, <1>3, <1>8, <1>9, <1>10 DEF TimeOK

\* The child answers in its parent's place.
LEMMA TimeForks ==
  ASSUME TypeOK, Bounded, TimeOK, NEW t \in Servers, NEW f \in Children, Forks(t, f, 3, 2)
  PROVE  TimeOK'
<1>1. f \in Servers /\ f # t /\ t \in Threads /\ f \in Threads
  BY TimeFacts DEF Servers, Forks
<1>2. /\ pc[t] = 3 /\ pc'[t] = 2 /\ pc[f] = -1 /\ pc'[f] = 4 /\ cur'[f] = cur[t]
      /\ \A u \in Threads \ {t, f} : pc'[u] = pc[u]
      /\ \A u \in Servers \ {f} : cur'[u] = cur[u]
      /\ UNCHANGED <<queue, conn, dead>>
  BY TimeFacts, <1>1 DEF Forks, Bounded
<1>3. PICK h \in Clients : h = cur[t]
  BY TimeFacts, <1>2 DEF AnswersOne
<1>4. Fresh(h) /\ \A u \in Servers : Answers(u, h) <=> u = t
  BY TimeFacts, <1>2, <1>3 DEF AnswersOne, Answers
<1>5. \A u \in Servers, c \in Clients :
        Answers(u, c)' <=> (u # t /\ Answers(u, c)) \/ (u = f /\ c = h)
  BY TimeFacts, <1>1, <1>2, <1>3 DEF Answers
<1>6. Distinct' /\ \A c : Fresh(c)' = Fresh(c) /\ Queued(c)' = Queued(c)
  BY TimeFacts, <1>2 DEF Fresh, Queued, Distinct
<1>7. ASSUME NEW c \in Clients PROVE AnsweredOnce(c)'
  <2>1. AnsweredOnce(c) /\ pc'[c] = pc[c]
    BY TimeFacts, <1>1, <1>2
  <2>2. (\A u \in Servers : ~Answers(u, c)) => \A u \in Servers : ~Answers(u, c)'
    BY <1>4, <1>5
  <2> QED
    BY <1>2, <1>6, <2>1, <2>2 DEF AnsweredOnce
<1>8. ASSUME NEW u \in Servers, pc'[u] \in 3 .. 5 PROVE AnswersOne(u)'
  <2>1. CASE u = f
    BY <1>2, <1>3, <1>4, <1>5, <1>6, <2>1 DEF AnswersOne
  <2>2. CASE u # f
    <3>1. /\ u # t /\ pc'[u] = pc[u] /\ cur'[u] = cur[u] /\ AnswersOne(u) /\ Answers(u, cur[u])
          /\ cur[u] \in Clients
      BY TimeFacts, <1>1, <1>2, <1>8, <2>2 DEF AnswersOne, Answers
    <3>2. cur[u] # h
      BY <1>4, <3>1
    <3> QED
      BY <1>2, <1>5, <1>6, <3>1, <3>2 DEF AnswersOne
  <2> QED
    BY <2>1, <2>2
<1>9. \A u \in Servers : AnswersOne(u)'
  BY <1>8 DEF AnswersOne
<1> QED
  BY TimeFacts, <1>2, <1>6, <1>7, <1>9 DEF TimeOK

\* The one answer.
LEMMA TimeAnswers ==
  ASSUME TypeOK, Bounded, TimeOK, NEW t \in Servers, Does(t, 4, 5), Answer(cur[t])
  PROVE  TimeOK' /\ dead' = "no"
<1>1. /\ pc[t] = 4 /\ pc'[t] = 5 /\ \A u \in Servers \ {t} : pc'[u] = pc[u]
      /\ \A c \in Clients : pc'[c] = pc[c]
  BY TimeFacts, Jumps DEF Jump
<1>2. PICK h \in Clients : h = cur[t]
  BY TimeFacts, <1>1 DEF AnswersOne
<1>3. Fresh(h) /\ \A u \in Servers : Answers(u, h) <=> u = t
  BY TimeFacts, <1>1, <1>2 DEF AnswersOne, Answers
<1>4. /\ dead' = "no" /\ UNCHANGED <<queue, cur>> /\ Only(h, {"down", "lost"})
      /\ conn'[h].down = conn[h].down + 1
  BY TimeFacts, <1>2, <1>3, AnswerOnly, Zenon DEF Answer, Fresh, accepting
<1>5. /\ \A c \in Clients \ {h} : Same(c)
      /\ conn'[h].link = conn[h].link /\ conn'[h].sEnd = conn[h].sEnd /\ conn'[h].got = conn[h].got
  BY <1>4 DEF Only, Fields, Same
<1>6. \A u \in Servers : \A c : Answers(u, c)' <=> Answers(u, c)
  BY <1>1, <1>4 DEF Answers
<1>7. Distinct' /\ \A c : Queued(c)' = Queued(c)
  BY TimeFacts, <1>4 DEF Queued, Distinct
<1>8. \A c \in Clients \ {h} : Fresh(c)' = Fresh(c)
  BY <1>5 DEF Fresh, Same
<1>9. ASSUME NEW c \in Clients \ {h} PROVE AnsweredOnce(c)'
  <2>1. AnsweredOnce(c)
    BY TimeFacts
  <2> QED
    BY <1>1, <1>5, <1>6, <1>7, <1>8, <2>1 DEF AnsweredOnce, Same
<1>10. AnsweredOnce(h)'
  <2>1. AnsweredOnce(h) /\ ~(\A u \in Servers : ~Answers(u, h)) /\ conn[h].sEnd # "fin"
    BY TimeFacts, <1>3 DEF Fresh
  <2> QED
    BY <1>1, <1>5, <1>7, <2>1 DEF AnsweredOnce
<1>11. ASSUME NEW u \in Servers, pc'[u] \in 3 .. 5 PROVE AnswersOne(u)'
  <2>1. CASE u = t
    BY TimeFacts, <1>1, <1>2, <1>3, <1>4, <1>5, <1>6, <2>1 DEF AnswersOne, Fresh
  <2>2. CASE u # t
    <3>1. /\ pc'[u] = pc[u] /\ cur'[u] = cur[u] /\ AnswersOne(u) /\ Answers(u, cur[u])
          /\ cur[u] \in Clients
      BY TimeFacts, <1>1, <1>4, <1>11, <2>2 DEF AnswersOne, Answers
    <3>2. cur[u] # h
      BY <1>3, <2>2, <3>1
    <3> QED
      BY <1>5, <1>6, <1>8, <3>1, <3>2 DEF AnswersOne, Same
  <2> QED
    BY <2>1, <2>2
<1>12. \A u \in Servers : AnswersOne(u)'
  BY <1>11 DEF AnswersOne
<1> QED
  BY <1>4, <1>7, <1>9, <1>10, <1>12 DEF TimeOK

\* The end behind it.
LEMMA TimeShuts ==
  ASSUME TypeOK, Bounded, TimeOK, NEW t \in Servers, Does(t, 5, 6), Shuts(cur[t])
  PROVE  TimeOK'
<1>1. /\ pc[t] = 5 /\ pc'[t] = 6 /\ \A u \in Servers \ {t} : pc'[u] = pc[u]
      /\ \A c \in Clients : pc'[c] = pc[c]
  BY TimeFacts, Jumps DEF Jump
<1>2. PICK h \in Clients : h = cur[t]
  BY TimeFacts, <1>1 DEF AnswersOne
<1>3. conn[h].down + conn[h].got = 1 /\ \A u \in Servers : Answers(u, h) <=> u = t
  BY TimeFacts, <1>1, <1>2 DEF AnswersOne, Answers
<1>4. UNCHANGED <<queue, cur, dead>> /\ Only(h, {"sEnd"})
  BY TimeFacts, <1>2, ShutsOnly, Zenon DEF Shuts, accepting
<1>5. /\ \A c \in Clients \ {h} : Same(c)
      /\ conn'[h].link = conn[h].link /\ conn'[h].down = conn[h].down /\ conn'[h].got = conn[h].got
  BY <1>4 DEF Only, Fields, Same
<1>6. \A u \in Servers : \A c : Answers(u, c)' <=> Answers(u, c) /\ u # t
  BY <1>1, <1>4 DEF Answers
<1>7. Distinct' /\ \A c : Queued(c)' = Queued(c)
  BY TimeFacts, <1>4 DEF Queued, Distinct
<1>8. \A c \in Clients \ {h} : Fresh(c)' = Fresh(c)
  BY <1>5 DEF Fresh, Same
<1>9. ASSUME NEW c \in Clients \ {h} PROVE AnsweredOnce(c)'
  <2>1. AnsweredOnce(c)
    BY TimeFacts
  <2> QED
    BY <1>1, <1>5, <1>6, <1>7, <1>8, <2>1 DEF AnsweredOnce, Same
<1>10. AnsweredOnce(h)'
  <2>1. AnsweredOnce(h) /\ ~(\A u \in Servers : ~Answers(u, h))
    BY TimeFacts, <1>3
  <2> QED
    BY <1>1, <1>3, <1>5, <1>7, <2>1, Zenon DEF AnsweredOnce
<1>11. ASSUME NEW u \in Servers, pc'[u] \in 3 .. 5 PROVE AnswersOne(u)'
  <2>1. /\ u # t /\ pc'[u] = pc[u] /\ cur'[u] = cur[u] /\ AnswersOne(u) /\ Answers(u, cur[u])
        /\ cur[u] \in Clients
    BY TimeFacts, <1>1, <1>4, <1>11 DEF AnswersOne, Answers
  <2>2. cur[u] # h
    BY <1>3, <2>1
  <2> QED
    BY <1>5, <1>6, <1>8, <2>1, <2>2 DEF AnswersOne, Same
<1>12. \A u \in Servers : AnswersOne(u)'
  BY <1>11 DEF AnswersOne
<1> QED
  BY TimeFacts, <1>4, <1>7, <1>9, <1>10, <1>12 DEF TimeOK

\* connect() puts the connection into the queue.
LEMMA TimeConnects ==
  ASSUME TypeOK, Bounded, TimeOK, NEW c \in Clients, Does(c, 1, 2), Connects(c)
  PROVE  TimeOK'
<1>1. /\ pc[c] = 1 /\ pc'[c] = 2 /\ \A d \in Clients \ {c} : pc'[d] = pc[d]
      /\ \A t \in Servers : pc'[t] = pc[t]
  BY TimeFacts, Jumps DEF Jump
<1>2. ~Queued(c) /\ Fresh(c) /\ \A t \in Servers : ~Answers(t, c)
  BY TimeFacts, <1>1 DEF AnsweredOnce
<1>3. UNCHANGED <<cur, dead>> /\ Only(c, {"link"}) /\ conn'[c].link = "up"
  BY TimeFacts, ConnectsOnly DEF Connects
<1>4. Distinct' /\ \A d : Queued(d)' <=> Queued(d) \/ d = c
  BY TimeFacts, <1>2, QueueAppend DEF Connects, Established
<1>5. \A d \in Clients : /\ conn'[d].sEnd = conn[d].sEnd /\ conn'[d].down = conn[d].down
                         /\ conn'[d].got = conn[d].got /\ conn'[d].lost = conn[d].lost
                         /\ d # c => conn'[d].link = conn[d].link
  BY <1>3 DEF Only, Fields
<1>6. \A d \in Clients : Fresh(d)' = Fresh(d)
  BY <1>5 DEF Fresh
<1>7. \A t \in Servers : \A d : Answers(t, d)' = Answers(t, d)
  BY <1>1, <1>3 DEF Answers
<1>8. ASSUME NEW d \in Clients PROVE AnsweredOnce(d)'
  <2>1. AnsweredOnce(d)
    BY TimeFacts
  <2> QED
    BY <1>1, <1>2, <1>3, <1>4, <1>5, <1>6, <1>7, <2>1 DEF AnsweredOnce
<1>9. ASSUME NEW t \in Servers PROVE AnswersOne(t)'
  <2>1. AnswersOne(t)
    BY TimeFacts
  <2> QED
    BY <1>1, <1>3, <1>5, <1>6, <1>7, <2>1 DEF AnswersOne
<1> QED
  BY TimeFacts, <1>3, <1>4, <1>8, <1>9 DEF TimeOK

\* The client reads the answer,
LEMMA TimeTakes ==
  ASSUME TypeOK, Bounded, TimeOK, NEW c \in Clients, Does(c, 2, 2), Takes(c)
  PROVE  TimeOK'
<1>1. /\ pc[c] = 2 /\ pc'[c] = 2 /\ \A d \in Clients : pc'[d] = pc[d]
      /\ \A t \in Servers : pc'[t] = pc[t]
  BY TimeFacts, Jumps DEF Jump
<1>2. /\ UNCHANGED <<queue, cur, dead>> /\ Only(c, {"down", "got"}) /\ conn[c].down > 0
      /\ conn'[c].down = conn[c].down - 1 /\ conn'[c].got = conn[c].got + 1
  BY TimeFacts, TakesOnly, Zenon DEF Takes, accepting
<1>3. /\ \A d \in Clients \ {c} : Same(d)
      /\ conn'[c].link = conn[c].link /\ conn'[c].sEnd = conn[c].sEnd
  BY <1>2 DEF Only, Fields, Same
<1>4. conn'[c].down + conn'[c].got = conn[c].down + conn[c].got /\ ~Fresh(c)
  <2>1. PICK a \in Nat, b \in Nat : a = conn[c].down /\ b = conn[c].got
    BY TimeFacts DEF Connections
  <2> QED
    BY <1>2, <2>1 DEF Fresh
<1>5. Distinct' /\ \A d : Queued(d)' = Queued(d)
  BY TimeFacts, <1>2 DEF Queued, Distinct
<1>6. \A t \in Servers : \A d : Answers(t, d)' = Answers(t, d)
  BY <1>1, <1>2 DEF Answers
<1>7. \A d \in Clients \ {c} : Fresh(d)' = Fresh(d)
  BY <1>3 DEF Fresh, Same
<1>8. ASSUME NEW d \in Clients \ {c} PROVE AnsweredOnce(d)'
  <2>1. AnsweredOnce(d)
    BY TimeFacts
  <2> QED
    BY <1>1, <1>3, <1>5, <1>6, <1>7, <2>1 DEF AnsweredOnce, Same
<1>9. AnsweredOnce(c)'
  <2>1. AnsweredOnce(c)
    BY TimeFacts
  <2>2. /\ conn[c].link \in {"none", "up"} /\ conn[c].link # "none" /\ ~Queued(c)
        /\ conn[c].sEnd = "fin" => conn[c].down + conn[c].got = 1
    BY <1>4, <2>1 DEF AnsweredOnce
  <2> QED
    BY <1>1, <1>3, <1>4, <1>5, <2>2 DEF AnsweredOnce
<1>10. ASSUME NEW t \in Servers, pc'[t] \in 3 .. 5 PROVE AnswersOne(t)'
  <2>1. /\ AnswersOne(t) /\ pc'[t] = pc[t] /\ cur'[t] = cur[t] /\ cur[t] \in Clients
    BY TimeFacts, <1>1, <1>2, <1>10 DEF AnswersOne
  <2>2. CASE cur[t] = c
    <3>1. pc[t] = 5
      BY <1>4, <1>10, <2>1, <2>2 DEF AnswersOne
    <3> QED
      BY <1>3, <1>4, <1>6, <2>1, <2>2, <3>1 DEF AnswersOne
  <2>3. CASE cur[t] # c
    BY <1>3, <1>6, <1>7, <2>1, <2>3 DEF AnswersOne, Same
  <2> QED
    BY <2>2, <2>3
<1>11. \A t \in Servers : AnswersOne(t)'
  BY <1>10, Zenon DEF AnswersOne
<1> QED
  BY TimeFacts, <1>2, <1>5, <1>8, <1>9, <1>11, Zenon DEF TimeOK

\* and the end behind it.
LEMMA TimeEof ==
  ASSUME TypeOK, Bounded, TimeOK, NEW c \in Clients, Does(c, 2, 3), conn[c].down = 0,
         conn[c].sEnd = "fin", Silent
  PROVE  TimeOK'
<1>1. /\ pc'[c] = 3 /\ \A d \in Clients \ {c} : pc'[d] = pc[d]
      /\ \A t \in Servers : pc'[t] = pc[t]
  BY TimeFacts, Jumps DEF Jump
<1>2. UNCHANGED <<conn, queue, cur, dead>>
  BY DEF Silent, accepting
<1>3. conn[c].got = 1
  BY TimeFacts DEF AnsweredOnce
<1>4. Distinct' /\ \A d : Queued(d)' = Queued(d) /\ Fresh(d)' = Fresh(d)
  BY TimeFacts, <1>2 DEF Queued, Distinct, Fresh
<1>5. \A t \in Servers : \A d : Answers(t, d)' = Answers(t, d)
  BY <1>1, <1>2 DEF Answers
<1>6. ASSUME NEW d \in Clients PROVE AnsweredOnce(d)'
  <2>1. AnsweredOnce(d)
    BY TimeFacts
  <2> QED
    BY <1>1, <1>2, <1>3, <1>4, <1>5, <2>1 DEF AnsweredOnce
<1>7. ASSUME NEW t \in Servers PROVE AnswersOne(t)'
  <2>1. AnswersOne(t)
    BY TimeFacts
  <2> QED
    BY <1>1, <1>2, <1>4, <1>5, <2>1 DEF AnswersOne
<1> QED
  BY TimeFacts, <1>2, <1>4, <1>6, <1>7 DEF TimeOK

\* Every step of the time programs keeps a connection answered once.
LEMMA TimeKept ==
  ASSUME MachineInv, program = "time", [Next]_vars
  PROVE  TimeInv' /\ dead' = "no"
<1>1. TypeOK /\ Bounded /\ dead = "no" /\ TimeOK /\ program' = program
  BY StepKeeps DEF MachineInv, TimeInv, Kept
<1>2. Clients \subseteq Threads /\ Servers \subseteq Threads /\ Clients \cap Servers = {}
  BY MachineAssumption DEF Threads
<1>3. CASE Dozes
  BY <1>1, <1>3, TimeStays DEF TimeInv, Dozes, Silent, Same, accepting
<1>4. ASSUME NEW t \in Servers, Step(t), pc[t] \in 1 .. Len(Code(t))
      PROVE  TimeInv' /\ dead' = "no"
  <2>1. TimeServer(t)
    BY <1>4, TimeCode, TimeServerSteps, Zenon DEF time_server
  <2>2. CASE (Does(t, 1, 2) /\ Listens(1)) \/ ((Does(t, 3, 2) \/ Does(t, 6, 2)) /\ Silent)
    <3>1. /\ pc'[t] = 2 /\ \A u \in Servers \ {t} : pc'[u] = pc[u]
          /\ \A c \in Clients : pc'[c] = pc[c]
      BY <1>1, <1>2, <2>2, Jumps DEF Jump
    <3>2. /\ \A u \in Servers : pc'[u] \in 3 .. 5 => pc'[u] = pc[u] /\ cur'[u] = cur[u]
          /\ \A c \in Clients : Same(c)
      BY <2>2, <3>1 DEF Listens, Silent, accepting, Same
    <3> QED
      BY <1>1, <2>2, <3>1, <3>2, TimeStays DEF TimeInv, Listens, Silent, accepting
  <2> QED
    BY <1>1, <1>3, <2>1, <2>2, TimeAccepts, TimeForks, TimeAnswers, TimeShuts, SMTT(30)
    DEF TimeServer, TimeInv, Accepts, Forks, Shuts
<1>5. ASSUME NEW c \in Clients, NEW l, Does(c, l, 0) \/ Fails(c, l, 0), Silent \/ Closes(c)
      PROVE  TimeInv' /\ dead' = "no"
  <2>1. UNCHANGED <<queue, cur, dead>> /\ \A d \in Clients : Same(d)
    BY <1>1, <1>5, ClosesOnly DEF Silent, Closes, accepting, Only, Fields, Same
  <2>2. /\ \A d \in Clients : pc'[d] = pc[d] \/ pc'[d] \notin {1, 3}
        /\ \A t \in Servers : pc'[t] = pc[t] /\ cur'[t] = cur[t]
    BY <1>1, <1>2, <1>5, <2>1, Jumps DEF Jump
  <2> QED
    BY <1>1, <2>1, <2>2, TimeStays DEF TimeInv
<1>6. ASSUME NEW c \in Clients, Step(c), pc[c] \in 1 .. Len(Code(c))
      PROVE  TimeInv' /\ dead' = "no"
  <2>1. TimeClient(c)
    BY <1>6, TimeCode, TimeClientSteps, Zenon DEF time_client
  <2> QED
    BY <1>1, <1>3, <1>5, <2>1, TimeConnects, TimeTakes, TimeEof
    DEF TimeClient, TimeInv, Connects, Takes, Silent
<1>7. ASSUME NEW c \in Clients, Resolves(c) PROVE FALSE
  BY <1>1, <1>7, TimeFacts DEF Resolves, AnsweredOnce
<1>8. ASSUME NEW c \in Clients, Notices(c) PROVE TimeInv' /\ dead' = "no"
  <2>1. \A d \in Clients : Same(d)
    BY <1>1, <1>8, NoticesOnly DEF Only, Fields, Same
  <2> QED
    BY <1>1, <1>8, <2>1, TimeStays DEF TimeInv, Notices, accepting
<1> QED
  BY <1>1, <1>3, <1>4, <1>5, <1>6, <1>7, <1>8, Actors DEF Actor, Killed

(* The programs with one client of their own, beside which others may run. *)

\* A step that their own server and client do not notice.
Aside ==
  /\ pc'[Own] = pc[Own] /\ pc'[Server] = pc[Server]
  /\ \A l : <<Own, l>> \in errors' <=> <<Own, l>> \in errors
  /\ \A f \in Fields \ {"link"} : conn'[Own][f] = conn[Own][f]
  /\ UNCHANGED <<flags, backlog, cur, dead, program>>

OwnActor ==
  \/ Aside \/ Notices(Own)
  \/ Step(Server) /\ pc[Server] \in 1 .. Len(Code(Server))
  \/ Step(Own) /\ pc[Own] \in 1 .. Len(Code(Own))

\* Every step is the server's, the own client's or aside.
LEMMA OwnActors ==
  ASSUME TypeOK, Bounded, program \in {"main2", "main3", "sigurg"}, [Next]_vars
  PROVE  OwnActor
<1>1. /\ Own \in Clients /\ Guests \subseteq Clients \ {Own} /\ Server \notin Clients
      /\ Server \in Servers /\ Clients \subseteq Threads /\ Servers \subseteq Threads
  BY MachineAssumption DEF Servers, Threads
<1>2. \A c \in Guests : Code(c) = tcp_rest_main
  BY Main2Code, Main3Code, SigurgCode
<1>3. \A c \in Clients \ (Guests \cup {Own}) : Code(c) = <<>>
  BY Main2Code, Main3Code, SigurgCode
<1>4. CASE Dozes
  BY <1>4 DEF OwnActor, Aside, Dozes, Silent, accepting
<1>5. ASSUME NEW c \in Clients \ {Own}, NEW l, NEW m, NEW fs, Does(c, l, m) \/ Fails(c, l, m),
             Only(c, fs), UNCHANGED <<flags, backlog, cur, dead, program>>
      PROVE  Aside
  <2>1. pc'[Own] = pc[Own] /\ pc'[Server] = pc[Server]
    BY <1>1, <1>5, Jumps DEF Jump
  <2>2. \A k : <<Own, k>> \in errors' <=> <<Own, k>> \in errors
    <3>1. errors' = errors \/ errors' = errors \cup {<<c, l>>}
      BY <1>5 DEF Does, Fails
    <3> QED
      BY <3>1
  <2>3. \A f \in Fields : conn'[Own][f] = conn[Own][f]
    BY <1>1, <1>5 DEF Only
  <2> QED
    BY <1>5, <2>1, <2>2, <2>3 DEF Aside
<1>6. ASSUME NEW c \in Guests, Step(c), pc[c] \in 1 .. Len(Code(c))
      PROVE  OwnActor
  <2>1. Visits(c)
    BY <1>1, <1>2, <1>6, VisitsSteps, Zenon DEF tcp_rest_main
  <2>2. c \in Clients \ {Own} /\ conn \in [Clients -> Connections]
    BY <1>1 DEF TypeOK
  <2>3. CASE Connects(c)
    BY <1>5, <2>1, <2>2, <2>3, ConnectsOnly, <1>4, Zenon DEF Connects, Visits, OwnActor
  <2>4. CASE Closes(c)
    BY <1>5, <2>1, <2>2, <2>4, ClosesOnly, <1>4, Zenon DEF Closes, Visits, OwnActor, accepting
  <2>5. CASE Silent
    <3>1. Only(c, {})
      BY <2>2, <2>5 DEF Only, Silent
    <3> QED
      BY <1>5, <2>1, <2>2, <2>5, <3>1, <1>4 DEF Silent, Visits, OwnActor, accepting
  <2> QED
    BY <1>4, <2>1, <2>3, <2>4, <2>5 DEF Visits
<1>7. ASSUME NEW c \in Clients, Resolves(c)
      PROVE  OwnActor
  <2>1. Only(c, {"link"})
    BY <1>7, ConnectsOnly, RefusedOnly DEF Resolves
  <2> QED
    BY <1>1, <1>7, <2>1 DEF OwnActor, Aside, Only, Resolves, Connects, Refused, accepting
<1>8. ASSUME NEW c \in Clients \ {Own}, Notices(c)
      PROVE  OwnActor
  <2>1. Only(c, {"rst"})
    BY <1>8, NoticesOnly
  <2> QED
    BY <1>1, <1>8, <2>1 DEF OwnActor, Aside, Only, Notices, accepting
<1>9. ASSUME NEW c \in Clients, Step(c), pc[c] \in 1 .. Len(Code(c))
      PROVE  OwnActor
  BY <1>3, <1>6, <1>9 DEF OwnActor
<1> QED
  BY <1>4, <1>7, <1>8, <1>9, Actors DEF Actor, OwnActor, Killed

\* Its flag is behind listen(), whoever moves.
LEMMA ServerReady ==
  ASSUME Bounded, Ready, Unrefused(Own), NEW l, NEW m, Does(Server, l, m) \/ Fails(Server, l, m),
         l = 1 => Listening', l # 1 => backlog' = backlog
  PROVE  /\ Ready' /\ Unrefused(Own)' /\ pc[Server] = l /\ pc'[Server] = m /\ pc'[Own] = pc[Own]
         /\ \A k : <<Own, k>> \in errors' <=> <<Own, k>> \in errors
<1>1. Server # Own /\ Server \in Threads /\ Own \in Threads
  BY MachineAssumption DEF Servers, Threads
<1>2. Jump(Server, l, m)
  BY <1>1, Jumps
<1>3. \A k : <<Own, k>> \in errors' <=> <<Own, k>> \in errors
  <2>1. errors' = errors \/ errors' = errors \cup {<<Server, l>>}
    BY DEF Does, Fails
  <2> QED
    BY <1>1, <2>1
<1>4. Listening'
  BY <1>2 DEF Ready, Listening, Jump
<1> QED
  BY <1>1, <1>2, <1>3, <1>4, Zenon DEF Ready, Unrefused, Jump

\* The client's connect() comes behind its wait, so it meets the listening server.
LEMMA OwnReady ==
  ASSUME Bounded, Ready, Unrefused(Own), NEW l \in Nat, NEW m,
         Does(Own, l, m) \/ (Fails(Own, l, m) /\ l # 2),
         l = 1 => flags # {}, l >= 1, UNCHANGED <<flags, backlog>>
  PROVE  /\ Ready' /\ Unrefused(Own)' /\ pc[Own] = l /\ pc'[Own] = m /\ pc'[Server] = pc[Server]
         /\ \A k : k # l => (<<Own, k>> \in errors' <=> <<Own, k>> \in errors)
         /\ Does(Own, l, m) => errors' = errors
<1>1. Server # Own /\ Server \in Threads /\ Own \in Threads
  BY MachineAssumption DEF Servers, Threads
<1>2. Jump(Own, l, m)
  BY <1>1, Jumps
<1>3. errors' = errors \/ (errors' = errors \cup {<<Own, l>>} /\ l # 2)
  BY DEF Does, Fails
<1>4. \A k : k # l \/ k = 2 => (<<Own, k>> \in errors' <=> <<Own, k>> \in errors)
  BY <1>3
<1>5. Listening'
  BY <1>2 DEF Ready, Unrefused, Listening, Jump
<1>6. Does(Own, l, m) => errors' = errors
  BY DEF Does
<1> QED
  BY <1>1, <1>2, <1>4, <1>5, <1>6 DEF Ready, Unrefused, Jump

(* tcp_rest/main2.                                                         *)

\* main2: the first write() comes before any RST.
LEMMA Main2Kept ==
  ASSUME MachineInv, program = "main2", [Next]_vars
  PROVE  Main2Inv' /\ dead' = "no"
<1>1. /\ TypeOK /\ Bounded /\ dead = "no" /\ Own \in Clients /\ Server \in Servers
      /\ conn \in [Clients -> Connections] /\ cur \in [Servers -> Clients \cup {"none"}]
  BY MachineAssumption DEF MachineInv, TypeOK, Servers
<1>2. Ready /\ Unrefused(Own) /\ (pc[Own] \in 1 .. 3 => Unwritten(Own)) /\ <<Own, 3>> \notin errors
  BY DEF MachineInv, Main2Inv
<1>3. CASE Aside
  <2>1. (Unwritten(Own) => Unwritten(Own)') /\ Ready' /\ Unrefused(Own)'
    BY <1>2, <1>3 DEF Aside, Fields, Unwritten, Ready, Unrefused, Listening
  <2> QED
    BY <1>1, <1>2, <1>3, <2>1 DEF Aside, Main2Inv
<1>4. CASE Notices(Own)
  <2>1. Ready' /\ Unrefused(Own)' /\ pc'[Own] \notin 1 .. 3 /\ <<Own, 3>> \notin errors'
    BY <1>2, <1>4 DEF Notices, Unwritten, Ready, Unrefused, Listening, accepting
  <2> QED
    BY <1>1, <1>4, <2>1 DEF Main2Inv, Notices
<1>5. CASE Step(Server) /\ pc[Server] \in 1 .. Len(Code(Server))
  <2>1. Main2Server(Server)
    BY <1>1, <1>5, Main2Code, Main2ServerSteps, Zenon DEF main2_server
  <2>2. ASSUME NEW l, NEW m, Does(Server, l, m), conn' = conn \/ Ends(cur[Server]),
               l = 1 => Listening', l # 1 => backlog' = backlog, UNCHANGED <<dead, program>>
        PROVE  Main2Inv' /\ dead' = "no"
    <3>1. /\ Ready' /\ Unrefused(Own)' /\ pc'[Own] = pc[Own]
          /\ \A k : <<Own, k>> \in errors' <=> <<Own, k>> \in errors
      BY <1>1, <1>2, <2>2, ServerReady
    <3>2. Unwritten(Own) => Unwritten(Own)'
      BY <1>1, <2>2, EndsOnly DEF Unwritten, Only, Fields
    <3> QED
      BY <1>1, <1>2, <2>2, <3>1, <3>2 DEF Main2Inv
  <2>3. Dozes => Aside
    BY DEF Dozes, Silent, Aside, accepting
  <2>4. Listens(100) => Listening'
    BY DEF Listens, Listening
  <2> QED
    BY <1>3, <2>1, <2>2, <2>3, <2>4
    DEF Main2Server, Listens, Sets, Silent, Accepts, ClosesServed, accepting
<1>6. CASE Step(Own) /\ pc[Own] \in 1 .. Len(Code(Own))
  <2>1. Main2Client(Own)
    BY <1>1, <1>6, Main2Code, Main2ClientSteps, Zenon DEF main2_client
  <2>2. ASSUME NEW l \in 1 .. 7, NEW m \in {0} \cup 2 .. 7,
               Does(Own, l, m) \/ (Fails(Own, l, m) /\ l \notin {2, 3}),
               l = 1 => flags # {}, l \in 1 .. 2 => Only(Own, {"link"}), l > 2 => m \notin 1 .. 3,
               UNCHANGED <<flags, backlog, dead, program>>
        PROVE  Main2Inv' /\ dead' = "no"
    <3>1. /\ Ready' /\ Unrefused(Own)' /\ pc[Own] = l /\ pc'[Own] = m
          /\ \A k : k # l => (<<Own, k>> \in errors' <=> <<Own, k>> \in errors)
          /\ Does(Own, l, m) => errors' = errors
      BY <1>1, <1>2, <2>2, OwnReady
    <3>2. Unwritten(Own) /\ l \in 1 .. 2 => Unwritten(Own)'
      BY <1>1, <2>2 DEF Unwritten, Only, Fields
    <3>3. <<Own, 3>> \notin errors'
      BY <1>2, <2>2, <3>1, Zenon
    <3> QED
      BY <1>1, <1>2, <2>2, <3>1, <3>2, <3>3 DEF Main2Inv
  <2>3. Dozes => Aside
    BY DEF Dozes, Silent, Aside, accepting
  <2>4. CASE /\ \/ Does(Own, 1, 2) /\ "atom" \in flags
                \/ Does(Own, 4, 5) \/ Does(Own, 6, 0)
             /\ Silent
    <3>1. Only(Own, {"link"})
      BY <1>1, <2>4 DEF Silent, Only
    <3> QED
      BY <2>2, <2>4, <3>1 DEF Silent, accepting
  <2>5. CASE Does(Own, 2, 3) /\ Connects(Own)
    BY <1>1, <2>2, <2>5, ConnectsOnly DEF Connects
  <2>6. CASE Fails(Own, 2, 0) /\ ~Listening
    BY <1>2, <2>6 DEF Fails, Moves, Unrefused
  <2>7. CASE Fails(Own, 3, 7) /\ WriteFails(Own)
    BY <1>2, <2>7 DEF Fails, Moves, WriteFails, Unwritten
  <2>8. CASE Fails(Own, 5, 7) /\ WriteFails(Own)
    BY <2>2, <2>8 DEF WriteFails, Masked, accepting
  <2>9. CASE (Does(Own, 3, 4) \/ Does(Own, 5, 6)) /\ Writes(Own, FALSE)
    BY <2>2, <2>9 DEF Writes, accepting
  <2>10. CASE Does(Own, 7, 0) /\ Closes(Own)
    BY <2>2, <2>10 DEF Closes, accepting
  <2> QED
    BY <1>3, <2>1, <2>3, <2>4, <2>5, <2>6, <2>7, <2>8, <2>9, <2>10, Zenon DEF Main2Client
<1> QED
  BY <1>1, <1>3, <1>4, <1>5, <1>6, OwnActors DEF OwnActor

(* tcp_rest/main3.                                                         *)

\* main3: the server reads what it was sent before it closes.
LEMMA Main3Kept ==
  ASSUME MachineInv, program = "main3", [Next]_vars
  PROVE  Main3Inv' /\ dead' = "no"
<1> DEFINE Early == /\ Unwritten(Own) /\ ~Serves(6, Own)
                    /\ conn[Own].cEnd = "open" /\ conn[Own].sEnd = "open"
           Later == /\ conn[Own].rst = "no" /\ conn[Own].up <= 1
                    /\ Serves(6, Own) => conn[Own].up = 0
<1>1. /\ TypeOK /\ Bounded /\ dead = "no" /\ Own \in Clients /\ Server \in Servers
      /\ conn \in [Clients -> Connections] /\ cur \in [Servers -> Clients \cup {"none"}]
      /\ conn[Own].up \in Nat
  BY MachineAssumption DEF MachineInv, TypeOK, Servers, Connections
<1>2. /\ Ready /\ Unrefused(Own)
      /\ pc[Own] \in 1 .. 3 => Early
      /\ pc[Own] \in 4 .. 5 => Later
      /\ <<Own, 3>> \notin errors /\ <<Own, 5>> \notin errors
  BY DEF MachineInv, Main3Inv
<1>3. ASSUME Ready', Unrefused(Own)', pc'[Own] \in 1 .. 3 => Early', pc'[Own] \in 4 .. 5 => Later',
             <<Own, 3>> \notin errors', <<Own, 5>> \notin errors', dead' = "no"
      PROVE  Main3Inv' /\ dead' = "no"
  BY <1>3 DEF Main3Inv
<1>4. CASE Aside
  <2>1. (Early => Early') /\ (Later => Later') /\ Ready' /\ Unrefused(Own)'
    BY <1>2, <1>4, Zenon DEF Aside, Fields, Serves, Unwritten, Ready, Unrefused, Listening
  <2> QED
    BY <1>1, <1>2, <1>3, <1>4, <2>1, Zenon DEF Aside
<1>5. CASE Notices(Own)
  <2>1. Ready' /\ Unrefused(Own)' /\ pc'[Own] \notin 1 .. 3 /\ pc'[Own] \notin 4 .. 5
    BY <1>2, <1>5 DEF Notices, Unwritten, Ready, Unrefused, Listening, accepting
  <2> QED
    BY <1>1, <1>2, <1>3, <1>5, <2>1 DEF Notices
<1> HIDE DEF Early, Later
<1>6. CASE Step(Server) /\ pc[Server] \in 1 .. Len(Code(Server))
  <2>1. Main3Server(Server)
    BY <1>1, <1>6, Main3Code, Main3ServerSteps, Zenon DEF main3_server
  <2>2. ASSUME NEW l, NEW m, Does(Server, l, m), Early => Early', Later => Later',
               l = 1 => Listening', l # 1 => backlog' = backlog, UNCHANGED <<dead, program>>
        PROVE  Main3Inv' /\ dead' = "no"
    <3>1. /\ Ready' /\ Unrefused(Own)' /\ pc'[Own] = pc[Own]
          /\ \A k : <<Own, k>> \in errors' <=> <<Own, k>> \in errors
      BY <1>1, <1>2, <2>2, ServerReady
    <3> QED
      BY <1>1, <1>2, <1>3, <2>2, <3>1
  <2>3. \A l, m : Does(Server, l, m) => pc[Server] = l /\ pc'[Server] = m
    BY <1>1 DEF Bounded, Does, Moves, Threads
  <2>4. CASE Dozes
    BY <1>4, <2>4, Zenon DEF Dozes, Silent, Aside, accepting
  <2>5. CASE Does(Server, 1, 2) /\ Listens(100)
    <3>1. Listening' /\ (Early => Early') /\ (Later => Later')
      BY <2>3, <2>5 DEF Listens, Listening, Early, Later, Serves, Unwritten
    <3> QED
      BY <2>2, <2>5, <3>1 DEF Listens
  <2>6. ASSUME NEW l \in 2 .. 9, NEW m \in 2 .. 9, Does(Server, l, m), m # 6,
               UNCHANGED <<conn, backlog, dead, program>>
        PROVE  Main3Inv' /\ dead' = "no"
    <3>1. (Early => Early') /\ (Later => Later')
      BY <2>3, <2>6, Zenon DEF Early, Later, Serves, Unwritten
    <3> QED
      BY <2>2, <2>6, <3>1
  <2>7. CASE Does(Server, 5, 6) /\ Reads(cur[Server])
    <3>1. /\ pc'[Server] = 6 /\ cur' = cur
          /\ cur[Server] = Own => conn[Own].up > 0 \/ conn[Own].cEnd = "closed"
      BY <2>3, <2>7 DEF Reads, accepting
    <3>2. /\ \A f \in Fields \ {"up"} : conn'[Own][f] = conn[Own][f]
          /\ cur[Server] # Own => conn'[Own].up = conn[Own].up
          /\ cur[Server] = Own => conn'[Own].up = IF conn[Own].up > 0 THEN conn[Own].up - 1 ELSE 0
      BY <1>1, <2>7, ReadsOnly DEF Only, Fields
    <3>3. Early => Early'
      BY <1>1, <3>1, <3>2 DEF Early, Serves, Unwritten, Fields
    <3>4. Later => Later'
      BY <1>1, <3>1, <3>2 DEF Later, Serves, Fields
    <3> QED
      BY <2>2, <2>7, <3>3, <3>4 DEF Reads, accepting
  <2>8. CASE Does(Server, 6, 7) /\ ClosesServed(Server, cur[Server])
    <3>1. /\ pc[Server] = 6 /\ pc'[Server] = 7 /\ cur' = cur
      BY <2>3, <2>8, Zenon DEF ClosesServed
    <3>2. /\ \A f \in Fields \ {"sEnd", "rst"} : conn'[Own][f] = conn[Own][f]
          /\ cur[Server] # Own => conn'[Own].sEnd = conn[Own].sEnd /\ conn'[Own].rst = conn[Own].rst
          /\ conn[Own].up = 0 => conn'[Own].rst = conn[Own].rst
      BY <1>1, <2>8, EndsOnly DEF Only, Fields, ClosesServed
    <3>3. Early => Early'
      BY <3>1, <3>2, Zenon DEF Early, Serves, Unwritten, Fields
    <3>4. Later => Later'
      BY <1>1, <3>1, <3>2 DEF Later, Serves, Fields
    <3> QED
      BY <2>2, <2>8, <3>3, <3>4 DEF ClosesServed
  <2> QED
    BY <2>1, <2>4, <2>5, <2>6, <2>7, <2>8 DEF Main3Server, Sets, Silent, Accepts, accepting
<1>7. CASE Step(Own) /\ pc[Own] \in 1 .. Len(Code(Own))
  <2>1. Main3Client(Own)
    BY <1>1, <1>7, Main3Code, Main3ClientSteps, Zenon DEF main3_client
  <2>2. ASSUME NEW l \in 1 .. 7, NEW m \in {0} \cup 2 .. 7,
               Does(Own, l, m) \/ (Fails(Own, l, m) /\ l = 6),
               l = 1 => flags # {}, l \in 1 .. 2 => Only(Own, {"link"}), l > 2 => m \notin 1 .. 3,
               l = 3 => Later', l = 4 => conn' = conn, l > 4 => m \notin 4 .. 5, l < 3 => m \in 1 .. 3,
               UNCHANGED <<flags, backlog, cur, dead, program>>
        PROVE  Main3Inv' /\ dead' = "no"
    <3>1. /\ Ready' /\ Unrefused(Own)' /\ pc[Own] = l /\ pc'[Own] = m /\ pc'[Server] = pc[Server]
          /\ \A k : k # l => (<<Own, k>> \in errors' <=> <<Own, k>> \in errors)
          /\ Does(Own, l, m) => errors' = errors
      BY <1>1, <1>2, <2>2, OwnReady
    <3>2. Early /\ l \in 1 .. 2 => Early'
      BY <1>1, <2>2, <3>1 DEF Early, Unwritten, Serves, Only, Fields
    <3>3. <<Own, 3>> \notin errors' /\ <<Own, 5>> \notin errors'
      BY <1>2, <2>2, <3>1
    <3>4. Later /\ l = 4 => Later'
      BY <2>2, <3>1, Zenon DEF Later, Serves
    <3> QED
      BY <1>1, <1>2, <1>3, <2>2, <3>1, <3>2, <3>3, <3>4
  <2>3. CASE Dozes
    BY <1>4, <2>3 DEF Dozes, Silent, Aside, accepting
  <2>4. CASE ((Does(Own, 1, 2) /\ "atom" \in flags) \/ Does(Own, 4, 5)) /\ Silent
    <3>1. Only(Own, {"link"})
      BY <1>1, <2>4 DEF Silent, Only
    <3> QED
      BY <2>2, <2>4, <3>1 DEF Silent, accepting
  <2>5. CASE Does(Own, 2, 3) /\ Connects(Own)
    BY <1>1, <2>2, <2>5, ConnectsOnly DEF Connects
  <2>6. CASE Fails(Own, 2, 0) /\ ~Listening
    BY <1>2, <2>6 DEF Fails, Moves, Unrefused
  <2>7. CASE (Fails(Own, 3, 7) \/ Fails(Own, 5, 7)) /\ WriteFails(Own)
    BY <1>2, <2>7 DEF Fails, Moves, WriteFails, Unwritten, Early, Later
  <2>8. CASE Fails(Own, 6, 7) /\ WriteFails(Own)
    BY <2>2, <2>8 DEF WriteFails, Masked, accepting
  <2>9. CASE Does(Own, 3, 4) /\ Writes(Own, FALSE)
    <3>1. Early /\ pc'[Server] = pc[Server]
      BY <1>1, <1>2, <2>9, MachineAssumption DEF Does, Moves, Servers
    <3>2. Sends(Own, FALSE)
      BY <2>9, <3>1, Zenon DEF Writes, Rejects, Early
    <3>3. Only(Own, {"up", "urg"}) /\ conn'[Own].up = conn[Own].up + 1
      BY <1>1, <3>2, SendsOnly, Zenon
    <3>4. conn'[Own].rst = conn[Own].rst
      BY <1>1, <3>3 DEF Only, Fields
    <3>5. Later'
      BY <2>9, <3>1, <3>3, <3>4 DEF Early, Later, Unwritten, Serves, Writes, accepting
    <3> QED
      BY <2>2, <2>9, <3>5 DEF Writes, accepting
  <2>10. CASE (Does(Own, 5, 6) \/ Does(Own, 6, 7)) /\ Writes(Own, FALSE)
    <3>1. UNCHANGED <<flags, backlog, cur, dead, program>>
      BY <2>10 DEF Writes, accepting
    <3>2. CASE Does(Own, 5, 6)
      BY <2>2, <3>1, <3>2
    <3>3. CASE Does(Own, 6, 7)
      BY <2>2, <3>1, <3>3
    <3> QED
      BY <2>10, <3>2, <3>3
  <2>11. CASE Does(Own, 7, 0) /\ Closes(Own)
    BY <2>2, <2>11 DEF Closes, accepting
  <2> QED
    BY <2>1, <2>3, <2>4, <2>5, <2>6, <2>7, <2>8, <2>9, <2>10, <2>11, Zenon DEF Main3Client
<1> QED
  BY <1>1, <1>4, <1>5, <1>6, <1>7, OwnActors DEF OwnActor
=============================================================================
