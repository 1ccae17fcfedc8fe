------------------------ MODULE SocketMachine_proofs ------------------------
(***************************************************************************)
(* The steps of the other socket programs keep the invariant, and the      *)
(* safety properties of all of them follow.                                *)
(***************************************************************************)
EXTENDS SocketInvariant_proofs

(* api/main.cpp.                                                           *)

\* api: the server holds the descriptor whose names it asserts.
LEMMA ApiKept ==
  ASSUME MachineInv, program = "api", [Next]_vars
  PROVE  ApiInv' /\ dead' = "no"
<1> DEFINE Held == pc[Server] \in 5 .. 7 => cur[Server] \in Clients /\ Server \in holders[cur[Server]]
           Near(c) == Code(c) # api_client("far") => <<c, 2>> \notin errors
<1>1. /\ TypeOK /\ Bounded /\ dead = "no" /\ Server \in Servers /\ Server \notin Clients
      /\ conn \in [Clients -> Connections] /\ cur \in [Servers -> Clients \cup {"none"}]
      /\ holders \in [Clients -> SUBSET Servers] /\ queue \in Seq(Clients)
      /\ Clients \subseteq Threads /\ Server \in Threads
  BY MachineAssumption, Zenon DEF MachineInv, TypeOK, Servers, Threads
<1>2. /\ Ready /\ Held
      /\ \A c \in Clients : (pc[c] > 1 => Listening) /\ Near(c) /\ (pc[c] \in 1 .. 3 => Unwritten(c))
  BY Zenon DEF MachineInv, ApiInv
<1>3. program' = program /\ \A c \in Clients : Code(c)' = Code(c)
  BY <1>1, StepKeeps, Zenon DEF Kept, Code, Table, main2_main, main3_main, api_main, sigurg_main
<1>4. ASSUME Ready', Held', dead' = "no",
             \A c \in Clients : /\ pc'[c] > 1 => Listening'
                                /\ Code(c) # api_client("far") => <<c, 2>> \notin errors'
                                /\ pc'[c] \in 1 .. 3 => Unwritten(c)'
      PROVE  ApiInv' /\ dead' = "no"
  BY <1>3, <1>4, Zenon DEF ApiInv
<1> HIDE DEF Held, Near
<1>5. CASE Dozes
  <2>1. /\ Ready' /\ Held'
        /\ \A c \in Clients : /\ Unwritten(c)' = Unwritten(c) /\ pc'[c] = pc[c]
                              /\ Listening' = Listening
    BY <1>2, <1>5, Zenon DEF Dozes, Silent, accepting, Ready, Listening, Unwritten, Held
  <2> QED
    BY <1>1, <1>2, <1>4, <1>5, <2>1 DEF Dozes, Silent, Near
<1>6. ASSUME NEW c \in Clients, Resolves(c) \/ Notices(c)
      PROVE  ApiInv' /\ dead' = "no"
  <2>1. UNCHANGED <<pc, errors, flags, backlog, cur, holders, dead>>
    BY <1>6 DEF Resolves, Connects, Refused, Notices, accepting
  <2>2. Ready' /\ Held' /\ Listening' = Listening
    BY <1>2, <2>1, Zenon DEF Ready, Listening, Held
  <2>3. Only(c, {"link", "rst"}) /\ (Unwritten(c) => Unwritten(c)')
    <3>1. CASE Resolves(c)
      BY <1>1, <3>1, ConnectsOnly, RefusedOnly DEF Resolves, Only, Fields, Unwritten
    <3>2. CASE Notices(c)
      <4>1. Only(c, {"rst"}) /\ ~Unwritten(c)
        BY <1>1, <3>2, NoticesOnly, Zenon DEF Notices, Unwritten
      <4> QED
        BY <4>1 DEF Only
    <3> QED
      BY <1>6, <3>1, <3>2
  <2>4. \A d \in Clients : Unwritten(d) => Unwritten(d)'
    BY <2>3, Zenon DEF Only, Fields, Unwritten
  <2> QED
    BY <1>1, <1>2, <1>4, <2>1, <2>2, <2>4, Zenon DEF Near
<1>7. ASSUME NEW t \in Servers, Step(t), pc[t] \in 1 .. Len(Code(t)), t = Server
      PROVE  ApiInv' /\ dead' = "no"
  <2>1. ApiServer(Server)
    BY <1>7, ApiCode, ApiServerSteps, Zenon DEF api_server
  <2>2. ASSUME NEW l, NEW m, Does(Server, l, m), l = 1 => Listening', l # 1 => backlog' = backlog,
               Held', \A c \in Clients : Unwritten(c) => Unwritten(c)', dead' = "no"
        PROVE  ApiInv' /\ dead' = "no"
    <3>1. Jump(Server, l, m) /\ errors' = errors
      BY <1>1, <2>2, Jumps
    <3>2. Listening' /\ Ready'
      BY <1>2, <2>2, <3>1, Zenon DEF Ready, Listening, Jump
    <3>3. \A c \in Clients : pc'[c] = pc[c]
      BY <1>1, <3>1 DEF Jump
    <3> QED
      BY <1>2, <1>4, <2>2, <3>1, <3>2, <3>3, Zenon DEF Near
  <2>3. \A l, m : Does(Server, l, m) => pc[Server] = l /\ pc'[Server] = m
    BY <1>1, Jumps DEF Jump
  <2>4. conn' = conn => \A c \in Clients : Unwritten(c) => Unwritten(c)'
    BY DEF Unwritten
  <2>5. CASE Does(Server, 1, 2) /\ Listens(100)
    <3>1. Listening' /\ Held'
      BY <2>3, <2>5 DEF Listens, Listening, Held
    <3> QED
      BY <1>1, <2>2, <2>4, <2>5, <3>1 DEF Listens
  <2>6. CASE \/ Does(Server, 2, 3) /\ Sets("ck")
             \/ Does(Server, 3, 4) /\ Silent
             \/ Does(Server, 8, 4) /\ Silent
    <3>1. Held'
      BY <2>3, <2>6 DEF Held
    <3> QED
      BY <1>1, <2>2, <2>4, <2>6, <3>1 DEF Sets, Silent, accepting
  <2>7. CASE Does(Server, 4, 5) /\ Accepts(Server)
    <3>1. Head(queue) \in Clients
      BY <1>1, <2>7 DEF Accepts
    <3>2. cur'[Server] = Head(queue) /\ holders'[Head(queue)] = {Server}
      BY <1>1, <2>7, <3>1 DEF Accepts
    <3>3. Held'
      BY <3>1, <3>2 DEF Held
    <3> QED
      BY <1>1, <2>2, <2>4, <2>7, <3>3 DEF Accepts
  <2>8. CASE Does(Server, 5, 6) /\ Reads(cur[Server])
    <3>1. Held'
      BY <1>2, <2>3, <2>8 DEF Reads, accepting, Held
    <3>2. \A c \in Clients : Unwritten(c) => Unwritten(c)'
      BY <1>1, <2>8, ReadsOnly, SMTT(30) DEF Only, Fields, Unwritten
    <3> QED
      BY <1>1, <2>2, <2>8, <3>1, <3>2 DEF Reads, accepting
  <2>9. CASE Does(Server, 6, 7) /\ Asserts(Server)
    <3>1. Held' /\ dead' = "no"
      BY <1>2, <2>3, <2>9 DEF Asserts, accepting, Held
    <3> QED
      BY <2>2, <2>4, <2>9, <3>1 DEF Asserts, accepting
  <2>10. CASE Does(Server, 7, 8) /\ ClosesServed(Server, cur[Server])
    <3>1. Held'
      BY <2>3, <2>10 DEF Held
    <3>2. \A c \in Clients : Unwritten(c) => Unwritten(c)'
      BY <1>1, <2>4, <2>10, EndsOnly DEF ClosesServed, Only, Fields, Unwritten
    <3> QED
      BY <1>1, <2>2, <2>10, <3>1, <3>2 DEF ClosesServed
  <2> QED
    BY <1>5, <2>1, <2>5, <2>6, <2>7, <2>8, <2>9, <2>10, Zenon DEF ApiServer
<1>8. ASSUME NEW c \in Clients, Step(c), pc[c] \in 1 .. Len(Code(c))
      PROVE  ApiInv' /\ dead' = "no"
  <2>1. PICK remote \in {"near", "far"} : Code(c) = api_client(remote)
    BY ApiCode
  <2>2. ApiClient(c, remote)
    BY <1>8, <2>1, ApiClientSteps, Zenon DEF api_client
  <2>3. ASSUME NEW l \in 1 .. 4, NEW m \in {0} \cup 2 .. 4, NEW fs,
               Does(c, l, m) \/ (Fails(c, l, m) /\ Code(c) = api_client("far")),
               l = 1 => flags # {}, Only(c, fs), m \in 1 .. 3 => Unwritten(c)',
               UNCHANGED <<flags, backlog, cur, holders, dead>>
        PROVE  ApiInv' /\ dead' = "no"
    <3>1. Jump(c, l, m) /\ (errors' = errors \/ errors' = errors \cup {<<c, l>>})
      BY <1>1, <2>3, Jumps
    <3>2. Ready' /\ Held'
      BY <1>1, <1>2, <2>3, <3>1 DEF Ready, Listening, Jump, Held
    <3>3. \A d \in Clients : pc'[d] > 1 => Listening'
      <4>1. pc[c] = l /\ Listening' = Listening
        BY <2>3, <3>1, Zenon DEF Jump, Listening
      <4>2. Listening'
        BY <1>2, <2>3, <4>1 DEF Ready
      <4> QED
        BY <4>2
    <3>4. \A d \in Clients : Code(d) # api_client("far") => <<d, 2>> \notin errors'
      <4>1. \A d \in Clients : <<d, 2>> \in errors' => <<d, 2>> \in errors \/ d = c
        BY <3>1
      <4>2. errors' = errors \/ Code(c) = api_client("far")
        BY <2>3 DEF Does
      <4> QED
        BY <1>2, <4>1, <4>2 DEF Near
    <3>5. \A d \in Clients : pc'[d] \in 1 .. 3 => Unwritten(d)'
      <4>1. \A d \in Clients \ {c} : pc'[d] = pc[d] /\ (Unwritten(d) => Unwritten(d)')
        BY <1>1, <2>3, <3>1 DEF Jump, Only, Fields, Unwritten
      <4> QED
        BY <1>2, <2>3, <3>1, <4>1, Zenon DEF Jump
    <3> QED
      BY <1>1, <1>4, <2>3, <3>2, <3>3, <3>4, <3>5
  <2>4. Silent => Only(c, {})
    BY <1>1 DEF Silent, Only
  <2>5. (pc[c] > 1 => Listening) /\ (pc[c] \in 1 .. 3 => Unwritten(c))
    BY <1>2
  <2>6. CASE Does(c, 1, 2) /\ "ck" \in flags /\ Silent
    <3>1. Unwritten(c)'
      BY <2>5, <2>6 DEF Does, Moves, Silent, Unwritten
    <3> QED
      BY <2>3, <2>4, <2>6, <3>1 DEF Silent, accepting
  <2>7. CASE Does(c, 2, 3) /\ Connects(c)
    <3>1. Only(c, {"link"}) /\ Unwritten(c)
      BY <1>1, <2>5, <2>7, ConnectsOnly DEF Does, Moves
    <3>2. Unwritten(c)'
      BY <3>1 DEF Unwritten, Only, Fields
    <3> QED
      BY <2>3, <2>7, <3>1, <3>2 DEF Connects
  <2>8. CASE Fails(c, 2, 0) /\ (~Listening \/ remote = "far") /\ Silent
    <3>1. Listening
      BY <2>5, <2>8 DEF Fails, Moves
    <3> QED
      BY <2>1, <2>3, <2>4, <2>8, <3>1 DEF Silent, accepting
  <2>9. CASE Does(c, 3, 4) /\ Writes(c, TRUE)
    <3>1. Only(c, {"up", "urg"}) \/ Only(c, {"rst"})
      BY <1>1, <2>9, SendsOnly, RejectsOnly, Zenon DEF Writes
    <3> QED
      <4>1. UNCHANGED <<flags, backlog, cur, holders, dead>>
        BY <2>9 DEF Writes, accepting
      <4>2. PICK fs : Only(c, fs)
        BY <3>1
      <4> QED
        BY <2>3, <2>9, <4>1, <4>2
  <2>10. CASE Fails(c, 3, 4) /\ WriteFails(c)
    BY <2>5, <2>10 DEF Fails, Moves, WriteFails, Unwritten
  <2>11. CASE Does(c, 4, 0) /\ Closes(c)
    <3>1. Only(c, {"cEnd"})
      BY <1>1, <2>11, ClosesOnly
    <3> QED
      BY <2>3, <2>11, <3>1 DEF Closes, accepting
  <2> QED
    BY <1>5, <2>2, <2>6, <2>7, <2>8, <2>9, <2>10, <2>11, Zenon DEF ApiClient
<1> QED
  BY <1>1, <1>5, <1>6, <1>7, <1>8, Actors DEF Actor, Killed

(* sigurg/main.cpp.                                                        *)

\* sigurg: what lets read() return brought the urgent byte with it.
LEMMA SigurgKept ==
  ASSUME MachineInv, program = "sigurg", [Next]_vars
  PROVE  SigurgInv' /\ dead' = "no"
<1> DEFINE Early == Unwritten(Own) /\ conn[Own].cEnd = "open"
           Urgent == conn[Own].urg \/ conn[Own].oob
           Due == pc[Own] = 4 \/ conn[Own].up > 0 \/ conn[Own].cEnd = "closed" \/ Serves(6, Own)
           Done == conn[Own].sEnd # "open" \/ Serves(7, Own)
<1>1. /\ TypeOK /\ Bounded /\ dead = "no" /\ Own \in Clients /\ Server \in Servers /\ Server # Own
      /\ conn \in [Clients -> Connections] /\ cur \in [Servers -> Clients \cup {"none"}]
      /\ conn[Own].up \in Nat /\ Own \in Threads /\ Server \in Threads
  BY MachineAssumption DEF MachineInv, TypeOK, Servers, Threads, Connections
<1>2. /\ Ready /\ Unrefused(Own) /\ (pc[Own] \in 1 .. 3 => Early)
      /\ (Due => Urgent) /\ (Done => conn[Own].oob)
  BY DEF MachineInv, SigurgInv
<1>3. ASSUME Ready', Unrefused(Own)', pc'[Own] \in 1 .. 3 => Early',
             Due' => Urgent', Done' => conn'[Own].oob, dead' = "no"
      PROVE  SigurgInv' /\ dead' = "no"
  BY <1>3 DEF SigurgInv
<1>4. CASE Aside
  <2>1. /\ (Early => Early') /\ Ready' /\ Unrefused(Own)'
        /\ Due' = Due /\ Urgent' = Urgent /\ Done' = Done
        /\ conn'[Own].oob = conn[Own].oob
    BY <1>2, <1>4 DEF Aside, Fields, Serves, Unwritten, Ready, Unrefused, Listening
  <2> QED
    BY <1>1, <1>2, <1>3, <1>4, <2>1, Zenon DEF Aside
<1>5. CASE Notices(Own)
  <2>1. Ready' /\ Unrefused(Own)' /\ pc'[Own] \notin 1 .. 3
    BY <1>2, <1>5 DEF Notices, Unwritten, Ready, Unrefused, Listening, accepting
  <2>2. Due' = Due /\ Urgent' = Urgent /\ Done' = Done /\ conn'[Own].oob = conn[Own].oob
    BY <1>1, <1>5, NoticesOnly DEF Only, Fields, Notices, Serves, accepting
  <2> QED
    BY <1>1, <1>2, <1>3, <1>5, <2>1, <2>2 DEF Notices
<1> HIDE DEF Early, Urgent, Due, Done
<1>6. CASE Step(Server) /\ pc[Server] \in 1 .. Len(Code(Server))
  <2>1. SigurgServer(Server)
    BY <1>1, <1>6, SigurgCode, SigurgServerSteps, Zenon DEF sigurg_server
  <2>2. ASSUME NEW l, NEW m, Does(Server, l, m) \/ Fails(Server, l, m), Early => Early',
               Due' => Urgent', Done' => conn'[Own].oob,
               l = 1 => Listening', l # 1 => backlog' = backlog, UNCHANGED <<dead, program>>
        PROVE  SigurgInv' /\ dead' = "no"
    <3>1. /\ Ready' /\ Unrefused(Own)' /\ pc'[Own] = pc[Own]
      BY <1>1, <1>2, <2>2, ServerReady
    <3> QED
      BY <1>1, <1>2, <1>3, <2>2, <3>1
  <2>3. \A l, m : Does(Server, l, m) \/ Fails(Server, l, m) =>
          pc[Server] = l /\ pc'[Server] = m /\ pc'[Own] = pc[Own]
    BY <1>1, Jumps DEF Jump
  <2>4. CASE Dozes
    BY <1>4, <2>4 DEF Dozes, Silent, Aside, accepting
  <2>5. ASSUME NEW l \in 1 .. 8, NEW m \in 2 .. 8, Does(Server, l, m), m \notin 6 .. 7, conn' = conn
        PROVE  (Early => Early') /\ (Due' => Urgent') /\ (Done' => conn'[Own].oob)
    BY <1>2, <2>3, <2>5 DEF Early, Urgent, Due, Done, Serves, Unwritten
  <2>6. CASE Does(Server, 1, 2) /\ Listens(100)
    BY <2>2, <2>5, <2>6 DEF Listens, Listening
  <2>7. CASE \/ Does(Server, 2, 3) /\ Sets("ck")
             \/ Does(Server, 3, 4) /\ Silent
             \/ Does(Server, 4, 5) /\ Accepts(Server)
             \/ Does(Server, 8, 4) /\ Silent
    BY <2>2, <2>5, <2>7 DEF Sets, Silent, Accepts, accepting
  <2>8. CASE Does(Server, 5, 6) /\ Reads(cur[Server])
    <3>1. /\ pc'[Server] = 6 /\ cur' = cur /\ pc'[Own] = pc[Own]
          /\ cur[Server] = Own => conn[Own].up > 0 \/ conn[Own].cEnd = "closed"
      BY <2>3, <2>8 DEF Reads, accepting
    <3>2. /\ \A f \in Fields \ {"up"} : conn'[Own][f] = conn[Own][f]
          /\ cur[Server] # Own => conn'[Own].up = conn[Own].up
          /\ cur[Server] = Own => conn'[Own].up = IF conn[Own].up > 0 THEN conn[Own].up - 1 ELSE 0
      BY <1>1, <2>8, ReadsOnly DEF Only, Fields
    <3>3. Early => Early'
      BY <1>1, <3>1, <3>2 DEF Early, Unwritten, Fields
    <3>4. (Due' => Due) /\ Urgent' = Urgent /\ conn'[Own].oob = conn[Own].oob
      BY <1>1, <3>1, <3>2 DEF Due, Urgent, Serves, Fields
    <3>5. Done' => Done
      BY <3>1, <3>2 DEF Done, Serves, Fields
    <3> QED
      BY <1>2, <2>2, <2>8, <3>3, <3>4, <3>5 DEF Reads, accepting
  <2>9. CASE Does(Server, 6, 7) /\ ReadsOob(cur[Server])
    <3>1. pc[Server] = 6 /\ pc'[Server] = 7 /\ cur' = cur /\ pc'[Own] = pc[Own]
      BY <2>3, <2>9 DEF ReadsOob, accepting
    <3>2. /\ \A f \in Fields \ {"urg", "oob"} : conn'[Own][f] = conn[Own][f]
          /\ cur[Server] # Own => conn'[Own].urg = conn[Own].urg /\ conn'[Own].oob = conn[Own].oob
          /\ cur[Server] = Own => conn'[Own].oob
      <4>1. /\ Only(cur[Server], {"urg", "oob"})
            /\ cur[Server] = Own => conn'[Own].oob = TRUE
        BY <1>1, <2>9, ReadsOobOnly, Zenon
      <4> QED
        BY <1>1, <4>1 DEF Only, Fields
    <3>3. Early => Early'
      BY <3>1, <3>2 DEF Early, Unwritten, Fields
    <3>4. (Due' => Due) /\ (Urgent => Urgent')
      BY <3>1, <3>2 DEF Due, Urgent, Serves, Fields
    <3>5. Done' => conn'[Own].oob
      BY <1>2, <3>1, <3>2 DEF Done, Serves, Fields
    <3> QED
      BY <1>2, <2>2, <2>9, <3>3, <3>4, <3>5 DEF ReadsOob, accepting
  <2>10. CASE Fails(Server, 6, 7) /\ ~conn[cur[Server]].urg /\ Silent
    <3>1. /\ pc[Server] = 6 /\ pc'[Server] = 7 /\ cur' = cur /\ pc'[Own] = pc[Own] /\ conn' = conn
      BY <2>3, <2>10 DEF Silent, accepting
    <3>2. (Early => Early') /\ (Due' => Due) /\ Urgent' = Urgent
      BY <3>1 DEF Early, Unwritten, Due, Urgent, Serves
    <3>3. Done' => conn'[Own].oob
      BY <1>2, <2>10, <3>1 DEF Done, Due, Urgent, Serves
    <3> QED
      BY <1>2, <2>2, <2>10, <3>2, <3>3 DEF Silent, accepting
  <2>11. CASE Does(Server, 7, 8) /\ ClosesServed(Server, cur[Server])
    <3>1. /\ pc[Server] = 7 /\ pc'[Server] = 8 /\ cur' = cur /\ pc'[Own] = pc[Own]
      BY <2>3, <2>11 DEF ClosesServed
    <3>2. /\ \A f \in Fields \ {"sEnd", "rst"} : conn'[Own][f] = conn[Own][f]
          /\ cur[Server] # Own => conn'[Own].sEnd = conn[Own].sEnd
          /\ conn[Own].up = 0 => conn'[Own].rst = conn[Own].rst
      BY <1>1, <2>11, EndsOnly DEF Only, Fields, ClosesServed
    <3>3. Early => Early'
      BY <3>1, <3>2 DEF Early, Unwritten, Fields
    <3>4. (Due' => Due) /\ Urgent' = Urgent
      BY <3>1, <3>2 DEF Due, Urgent, Serves, Fields
    <3>5. Done' => conn'[Own].oob
      BY <1>2, <3>1, <3>2 DEF Done, Serves, Fields
    <3> QED
      BY <1>2, <2>2, <2>11, <3>3, <3>4, <3>5 DEF ClosesServed
  <2> QED
    BY <2>1, <2>4, <2>6, <2>7, <2>8, <2>9, <2>10, <2>11, Zenon DEF SigurgServer
<1>7. CASE Step(Own) /\ pc[Own] \in 1 .. Len(Code(Own))
  <2>1. SigurgClient(Own)
    BY <1>1, <1>7, SigurgCode, SigurgClientSteps, Zenon DEF sigurg_client
  <2>2. ASSUME NEW l \in 1 .. 4, NEW m \in {0} \cup 2 .. 4, Does(Own, l, m),
               l = 1 => flags # {}, m \in 1 .. 3 => Early', Due' => Urgent', Done' => conn'[Own].oob,
               UNCHANGED <<flags, backlog, dead, program>>
        PROVE  SigurgInv' /\ dead' = "no"
    <3>1. Ready' /\ Unrefused(Own)' /\ pc'[Own] = m
      BY <1>1, <1>2, <2>2, OwnReady
    <3> QED
      BY <1>1, <1>2, <1>3, <2>2, <3>1
  <2>3. CASE Dozes
    BY <1>4, <2>3 DEF Dozes, Silent, Aside, accepting
  <2>4. \A l, m : Does(Own, l, m) \/ Fails(Own, l, m) =>
          pc[Own] = l /\ pc'[Own] = m /\ pc'[Server] = pc[Server]
    BY <1>1, Jumps DEF Jump
  <2>5. CASE Does(Own, 1, 2) /\ "ck" \in flags /\ Silent
    <3>1. Early' /\ Due' = Due /\ Urgent' = Urgent /\ Done' = Done /\ conn' = conn
      BY <1>2, <2>4, <2>5 DEF Early, Unwritten, Due, Urgent, Done, Serves, Silent, accepting
    <3> QED
      <4>1. UNCHANGED <<flags, backlog, dead, program>> /\ flags # {}
        BY <2>5 DEF Silent, accepting
      <4>2. (Due' => Urgent') /\ (Done' => conn'[Own].oob)
        BY <1>2, <3>1
      <4> QED
        BY <2>2, <2>5, <3>1, <4>1, <4>2
  <2>6. CASE Does(Own, 2, 3) /\ Connects(Own)
    <3>1. \A f \in Fields \ {"link"} : conn'[Own][f] = conn[Own][f]
      BY <1>1, <2>6, ConnectsOnly DEF Only
    <3>2. cur' = cur /\ pc[Own] = 2 /\ pc'[Own] = 3 /\ pc'[Server] = pc[Server]
      BY <2>4, <2>6 DEF Connects
    <3>3. /\ Early' /\ Due' = Due /\ Urgent' = Urgent /\ Done' = Done
          /\ conn'[Own].oob = conn[Own].oob
      BY <1>2, <3>1, <3>2 DEF Early, Unwritten, Due, Urgent, Done, Serves, Fields
    <3> QED
      BY <1>2, <2>2, <2>6, <3>3 DEF Connects
  <2>7. CASE Fails(Own, 2, 0) /\ ~Listening
    BY <1>2, <2>7 DEF Fails, Moves, Unrefused
  <2>8. CASE Fails(Own, 3, 4) /\ WriteFails(Own)
    BY <1>2, <2>8 DEF Fails, Moves, WriteFails, Unwritten, Early
  <2>9. CASE Does(Own, 3, 4) /\ Writes(Own, TRUE)
    <3>1. cur' = cur /\ pc[Own] = 3 /\ pc'[Own] = 4 /\ pc'[Server] = pc[Server]
      BY <2>4, <2>9 DEF Writes, accepting
    <3>2. /\ \A f \in {"oob", "sEnd"} : conn'[Own][f] = conn[Own][f]
          /\ conn'[Own].urg \/ (conn[Own].sEnd # "open" /\ conn'[Own].urg = conn[Own].urg)
      <4>1. CASE Sends(Own, TRUE)
        <5>1. Only(Own, {"up", "urg"}) /\ conn'[Own].urg = TRUE
          BY <1>1, <4>1, SendsOnly, Zenon
        <5> QED
          BY <1>1, <5>1 DEF Only, Fields
      <4>2. CASE Rejects(Own)
        BY <1>1, <4>2, RejectsOnly DEF Rejects, Only, Fields
      <4> QED
        BY <2>9, <4>1, <4>2, Zenon DEF Writes
    <3>3. Done' = Done /\ conn'[Own].oob = conn[Own].oob /\ Urgent'
      BY <1>2, <3>1, <3>2 DEF Done, Serves, Urgent
    <3> QED
      BY <1>2, <2>2, <2>9, <3>3 DEF Writes, accepting
  <2>10. CASE Does(Own, 4, 0) /\ Closes(Own)
    <3>1. \A f \in Fields \ {"cEnd"} : conn'[Own][f] = conn[Own][f]
      BY <1>1, <2>10, ClosesOnly DEF Only
    <3>2. cur' = cur /\ pc[Own] = 4 /\ pc'[Own] = 0 /\ pc'[Server] = pc[Server]
      BY <2>4, <2>10 DEF Closes, accepting
    <3>3. Due /\ Urgent' = Urgent /\ Done' = Done /\ conn'[Own].oob = conn[Own].oob
      BY <3>1, <3>2 DEF Due, Urgent, Done, Serves, Fields
    <3> QED
      BY <1>2, <2>2, <2>10, <3>3 DEF Closes, accepting
  <2> QED
    BY <2>1, <2>3, <2>5, <2>6, <2>7, <2>8, <2>9, <2>10, Zenon DEF SigurgClient
<1> QED
  BY <1>1, <1>4, <1>5, <1>6, <1>7, OwnActors DEF OwnActor

(* rtt/Sockops.h: connectAsync.                                            *)

\* connectAsync: every way out leaves the link up or the socket closed.
LEMMA AsyncKept ==
  ASSUME MachineInv, program = "async", [Next]_vars
  PROVE  AsyncInv' /\ dead' = "no"
<1>1. /\ TypeOK /\ Bounded /\ dead = "no" /\ AsyncInv
      /\ Own \in Clients /\ Own \in Threads /\ conn \in [Clients -> Connections]
  BY MachineAssumption DEF MachineInv, TypeOK, Threads
<1>2. CASE Dozes
  BY <1>1, <1>2 DEF AsyncInv, Dozes, Silent
<1>3. ASSUME NEW t \in Servers, Step(t), pc[t] \in 1 .. Len(Code(t)), t = Server
      PROVE  AsyncInv' /\ dead' = "no"
  <2>1. AsyncServer(t)
    BY <1>3, AsyncCode, AsyncServerSteps, Zenon
  <2>2. t # Own /\ t \in Threads
    BY MachineAssumption DEF Threads
  <2>3. CASE Does(t, 1, 0) /\ Listens(1)
    <3>1. Jump(t, 1, 0)
      BY <1>1, <2>2, <2>3, Jumps
    <3> QED
      BY <1>1, <2>2, <2>3, <3>1, Zenon DEF AsyncInv, Listens, Jump
  <2> QED
    BY <1>2, <2>1, <2>3 DEF AsyncServer
<1>4. ASSUME NEW c \in Clients, Step(c), pc[c] \in 1 .. Len(Code(c))
      PROVE  AsyncInv' /\ dead' = "no"
  <2>1. c = Own
    BY <1>4, AsyncCode
  <2>2. AsyncClient(Own)
    BY <1>4, <2>1, AsyncCode, AsyncClientSteps, Zenon DEF connectAsync
  <2>3. \A l, m : Does(Own, l, m) \/ Fails(Own, l, m) => Jump(Own, l, m)
    BY <1>1, Jumps
  <2>4. CASE Does(Own, 1, 0) /\ Connects(Own)
    <3>1. Only(Own, {"link"}) /\ conn'[Own].link = "up"
      BY <1>1, <2>4, ConnectsOnly
    <3> QED
      BY <1>1, <2>3, <2>4, <3>1, Zenon DEF AsyncInv, Jump, Connects
  <2>5. CASE Does(Own, 1, 2) /\ Pends(Own)
    <3>1. Only(Own, {"link"}) /\ conn'[Own].link = "pending"
      BY <1>1, <2>5, PendsOnly
    <3> QED
      BY <1>1, <2>3, <2>5, <3>1 DEF AsyncInv, Jump, Pends
  <2>6. CASE Does(Own, 4, 0) /\ Closes(Own)
    <3>1. Only(Own, {"cEnd"}) /\ conn'[Own].cEnd = "closed"
      BY <1>1, <2>6, ClosesOnly
    <3> QED
      BY <1>1, <2>3, <2>6, <3>1 DEF AsyncInv, Jump, Closes
  <2>7. CASE /\ \/ Fails(Own, 1, 4) \/ Does(Own, 1, 1) \/ Does(Own, 2, 4) \/ Fails(Own, 3, 4)
                \/ Does(Own, 2, 3) /\ conn[Own].link # "pending"
                \/ Does(Own, 3, 0) /\ conn[Own].link # "refused"
             /\ Silent
    <3>1. conn[Own].link \in {"none", "pending", "up", "refused"}
      BY <1>1 DEF Connections
    <3> QED
      BY <1>1, <2>3, <2>7, <3>1 DEF AsyncInv, Jump, Silent
  <2> QED
    BY <1>2, <2>2, <2>4, <2>5, <2>6, <2>7 DEF AsyncClient
<1>5. ASSUME NEW c \in Clients, Resolves(c)
      PROVE  AsyncInv' /\ dead' = "no"
  <2>1. /\ Only(c, {"link"}) /\ conn'[c].link \in {"up", "refused"}
        /\ conn[c].link = "pending" /\ pc' = pc /\ UNCHANGED <<dead, program>>
    BY <1>1, <1>5, ConnectsOnly, RefusedOnly DEF Resolves, Connects, Refused
  <2> QED
    BY <1>1, <2>1 DEF AsyncInv, Only, Fields
<1>6. ASSUME NEW c \in Clients, Notices(c)
      PROVE  AsyncInv' /\ dead' = "no"
  <2>1. Only(c, {"rst"}) /\ pc' = pc /\ UNCHANGED <<dead, program>>
    BY <1>1, <1>6, NoticesOnly, Zenon DEF Notices
  <2> QED
    BY <1>1, <2>1 DEF AsyncInv, Only, Fields
<1> QED
  BY <1>1, <1>2, <1>3, <1>4, <1>5, <1>6, Actors DEF Actor, Killed

(* abstractunix.                                                           *)

\* abstractunix: whoever is behind bind() keeps the others before it.
LEMMA UnixKept ==
  ASSUME MachineInv, program = "unix", [Next]_vars
  PROVE  UnixInv' /\ dead' = "no"
<1>1. /\ TypeOK /\ Bounded /\ dead = "no" /\ UnixInv /\ Clients \subseteq Threads
      /\ conn \in [Clients -> Connections]
  BY DEF MachineInv, TypeOK, Threads
<1>2. \A c \in Clients : /\ conn[c].rst = "no" /\ conn[c].sEnd = "open"
                         /\ conn[c].link # "pending"
                         /\ Connected(c) => pc[c] \in {3, 4}
  BY <1>1 DEF UnixInv
<1>3. \A c, d \in Clients : pc[c] \in 2 .. 4 /\ pc[d] \in 2 .. 4 => c = d
  BY <1>1, Zenon DEF UnixInv
<1>4. CASE Dozes
  BY <1>1, <1>4 DEF UnixInv, Connected, Dozes, Silent
<1>5. ASSUME NEW t \in Servers, Step(t), pc[t] \in 1 .. Len(Code(t))
      PROVE  UnixInv' /\ dead' = "no"
  <2>1. UnixServer(t)
    BY <1>5, UnixCode, UnixServerSteps, Zenon DEF unix_server
  <2>2. t \notin Clients /\ t \in Threads
    BY MachineAssumption DEF Threads
  <2>3. ASSUME NEW l, NEW m, Does(t, l, m), UNCHANGED <<conn, dead, program>>
        PROVE  UnixInv' /\ dead' = "no"
    <3>1. \A c \in Clients : pc'[c] = pc[c]
      BY <1>1, <2>2, <2>3, Jumps DEF Jump
    <3> QED
      BY <1>1, <2>3, <3>1 DEF UnixInv, Connected
  <2> QED
    BY <1>4, <2>1, <2>3 DEF UnixServer, Listens, Accepts, Silent
<1>6. ASSUME NEW c \in Clients, NEW l, NEW m, Jump(c, l, m), l \notin 2 .. 4 => m \notin 2 .. 4
      PROVE  \A a, b \in Clients : pc'[a] \in 2 .. 4 /\ pc'[b] \in 2 .. 4 => a = b
  BY <1>1, <1>3, <1>6 DEF Jump
<1>7. ASSUME NEW c \in Clients, Closes(c), NEW l, Jump(c, l, 0)
      PROVE  UnixInv' /\ dead' = "no"
  <2>1. Only(c, {"cEnd"}) /\ conn'[c].cEnd = "closed"
    BY <1>1, <1>7, ClosesOnly
  <2>2. \A d \in Clients : /\ conn'[d].rst = conn[d].rst /\ conn'[d].sEnd = conn[d].sEnd
                           /\ conn'[d].link = conn[d].link
    BY <2>1 DEF Only, Fields
  <2>3. \A d \in Clients \ {c} : conn'[d].cEnd = conn[d].cEnd /\ pc'[d] = pc[d]
    BY <1>1, <1>7, <2>1 DEF Only, Fields, Jump
  <2> QED
    BY <1>1, <1>2, <1>6, <1>7, <2>1, <2>2, <2>3 DEF UnixInv, Connected, Closes
<1>8. ASSUME NEW c \in Clients, Step(c), pc[c] \in 1 .. Len(Code(c))
      PROVE  UnixInv' /\ dead' = "no"
  <2>1. UnixClient(c)
    BY <1>8, UnixCode, UnixClientSteps, Zenon DEF unix_client
  <2>2. \A l, m : Does(c, l, m) \/ Fails(c, l, m) => Jump(c, l, m)
    BY <1>1, Jumps
  <2>3. CASE Does(c, 1, 2) /\ (\A b \in Clients \ {c} : ~(pc[b] > 1)) /\ Silent
    <3>1. Jump(c, 1, 2)
      BY <2>2, <2>3
    <3>2. \A d \in Clients \ {c} : pc'[d] = pc[d] /\ pc[d] \notin 2 .. 4
      BY <1>1, <2>3, <3>1 DEF Jump
    <3>3. \A a, b \in Clients : pc'[a] \in 2 .. 4 /\ pc'[b] \in 2 .. 4 => a = b
      BY <3>2
    <3> QED
      BY <1>2, <2>3, <3>1, <3>2, <3>3, <1>1 DEF UnixInv, Connected, Silent, Jump
  <2>4. CASE Does(c, 2, 3) /\ Connects(c)
    <3>1. Jump(c, 2, 3)
      BY <2>2, <2>4
    <3>2. Only(c, {"link"}) /\ conn'[c].link = "up"
      BY <1>1, <2>4, ConnectsOnly, Zenon
    <3>3. \A d \in Clients : /\ conn'[d].rst = conn[d].rst /\ conn'[d].sEnd = conn[d].sEnd
                             /\ conn'[d].cEnd = conn[d].cEnd
      BY <3>2 DEF Only, Fields
    <3>4. \A d \in Clients \ {c} : conn'[d].link = conn[d].link /\ pc'[d] = pc[d]
      BY <1>1, <3>1, <3>2 DEF Only, Fields, Jump
    <3>5. pc'[c] = 3
      BY <3>1 DEF Jump
    <3>6. ASSUME NEW d \in Clients
          PROVE  /\ conn'[d].rst = "no" /\ conn'[d].sEnd = "open" /\ conn'[d].link # "pending"
                 /\ Connected(d)' => pc'[d] \in {3, 4}
      BY <1>2, <3>2, <3>3, <3>4, <3>5 DEF Connected
    <3>7. \A a, b \in Clients : pc'[a] \in 2 .. 4 /\ pc'[b] \in 2 .. 4 => a = b
      BY <1>6, <3>1
    <3> QED
      BY <1>1, <2>4, <3>6, <3>7 DEF UnixInv, Connects
  <2>5. CASE Does(c, 3, 4) /\ Writes(c, FALSE)
    <3>1. Jump(c, 3, 4)
      BY <2>2, <2>5
    <3>2. Only(c, {"up", "urg"})
      BY <1>1, <1>2, <2>5, SendsOnly, Zenon DEF Writes, Rejects
    <3>3. \A d \in Clients : /\ conn'[d].rst = conn[d].rst /\ conn'[d].sEnd = conn[d].sEnd
                             /\ conn'[d].cEnd = conn[d].cEnd /\ conn'[d].link = conn[d].link
      BY <3>2 DEF Only, Fields
    <3>4. pc'[c] = 4 /\ \A d \in Clients \ {c} : pc'[d] = pc[d]
      BY <1>1, <3>1 DEF Jump
    <3>5. ASSUME NEW d \in Clients
          PROVE  /\ conn'[d].rst = "no" /\ conn'[d].sEnd = "open" /\ conn'[d].link # "pending"
                 /\ Connected(d)' => pc'[d] \in {3, 4}
      BY <1>2, <3>3, <3>4 DEF Connected
    <3>6. \A a, b \in Clients : pc'[a] \in 2 .. 4 /\ pc'[b] \in 2 .. 4 => a = b
      BY <1>6, <3>1
    <3> QED
      BY <1>1, <2>5, <3>5, <3>6 DEF UnixInv, Writes
  <2>6. CASE Fails(c, 3, 4) /\ WriteFails(c)
    BY <1>2, <2>6 DEF WriteFails
  <2>7. CASE (Fails(c, 1, 5) \/ Fails(c, 2, 5) \/ Does(c, 4, 3)) /\ Silent
    <3>1. PICK l, m : Jump(c, l, m) /\ l \in {1, 2, 4} /\ m = (IF l = 4 THEN 3 ELSE 5)
      BY <2>2, <2>7
    <3>2. pc[c] = l /\ pc'[c] = m /\ \A d \in Clients \ {c} : pc'[d] = pc[d]
      BY <1>1, <3>1 DEF Jump
    <3>3. l \notin 2 .. 4 => m \notin 2 .. 4
      BY <3>1
    <3>4. ASSUME NEW d \in Clients
          PROVE  /\ conn'[d].rst = "no" /\ conn'[d].sEnd = "open" /\ conn'[d].link # "pending"
                 /\ Connected(d)' => pc'[d] \in {3, 4}
      <4>1. conn'[d] = conn[d]
        BY <2>7 DEF Silent
      <4>2. pc[d] \in {3, 4} => pc'[d] \in {3, 4}
        BY <3>1, <3>2
      <4> QED
        BY <1>2, <4>1, <4>2 DEF Connected
    <3>5. \A a, b \in Clients : pc'[a] \in 2 .. 4 /\ pc'[b] \in 2 .. 4 => a = b
      BY <1>6, <3>1, <3>3
    <3> QED
      BY <1>1, <2>7, <3>4, <3>5 DEF UnixInv, Silent
  <2> QED
    BY <1>4, <1>7, <2>1, <2>2, <2>3, <2>4, <2>5, <2>6, <2>7, Zenon DEF UnixClient
<1>9. ASSUME NEW c \in Clients, Killed(c)
      PROVE  UnixInv' /\ dead' = "no"
  BY <1>1, <1>7, <1>9, Jumps DEF Killed
<1> QED
  BY <1>1, <1>2, <1>4, <1>5, <1>8, <1>9, Actors DEF Actor, Resolves, Notices

(* poll/main.cpp.                                                          *)

\* poll/main.cpp writes nothing and asserts nothing.
LEMMA PollKept ==
  ASSUME MachineInv, program = "poll", [Next]_vars
  PROVE  dead' = "no"
<1>1. TypeOK /\ Bounded /\ dead = "no" /\ Own \in Clients
  BY MachineAssumption DEF MachineInv
<1>2. ASSUME NEW t \in Threads, Step(t), pc[t] \in 1 .. Len(Code(t))
      PROVE  dead' = "no"
  <2>1. t = Own
    BY <1>2, PollCode
  <2>2. PollClient(Own)
    BY <1>1, <1>2, <2>1, PollCode, PollClientSteps, Zenon DEF poll_main
  <2> QED
    BY <1>1, <2>2 DEF PollClient, Dozes, Silent, Connects, Pends, Closes
<1> QED
  BY <1>1, <1>2, Actors DEF Actor, Threads, Dozes, Silent, Resolves, Connects, Refused, Notices, Killed

-----------------------------------------------------------------------------
(* The invariant.                                                          *)

\* Code that is not <<>> has a first label.
LEMMA NotEmpty ==
  ASSUME program \in Programs, NEW t \in Threads, Code(t) # <<>>
  PROVE  Len(Code(t)) >= 1
<1>1. program \in {"main2", "main3", "api", "sigurg", "time", "unix", "poll", "async"}
  BY MachineAssumption DEF Table
<1>2. CASE t \in Servers
  <2>1. Code(t) \in {<<>>, main2_server, main3_server, api_server, sigurg_server, time_server,
                     unix_server, << Do("listen", 1) >>}
    BY <1>1, <1>2, Main2Code, Main3Code, ApiCode, SigurgCode, TimeCode, UnixCode, PollCode,
       AsyncCode, MachineAssumption DEF Threads
  <2> QED
    BY <2>1 DEF main2_server, main3_server, api_server, sigurg_server, time_server, unix_server
<1>3. CASE t \in Clients
  <2>1. Code(t) \in {<<>>, main2_client, main3_client, api_client("near"), api_client("far"),
                     sigurg_client, tcp_rest_main, time_client, unix_client, poll_main, connectAsync}
    BY <1>1, <1>3, Main2Code, Main3Code, ApiCode, SigurgCode, TimeCode, UnixCode, PollCode,
       AsyncCode DEF Threads
  <2>2. /\ Len(main2_client) = 7 /\ Len(main3_client) = 7 /\ Len(sigurg_client) = 4
        /\ \A remote : Len(api_client(remote)) = 4
    BY DEF main2_client, main3_client, sigurg_client, api_client
  <2>3. /\ Len(tcp_rest_main) = 2 /\ Len(time_client) = 3 /\ Len(unix_client) = 5
        /\ Len(poll_main) = 4 /\ Len(connectAsync) = 4
    BY DEF tcp_rest_main, time_client, unix_client, poll_main, connectAsync
  <2> QED
    BY <2>1, <2>2, <2>3
<1> QED
  BY <1>2, <1>3 DEF Threads

\* No thread has begun: the invariant holds at the start.
LEMMA MachineInitial == Init => MachineInv
<1> SUFFICES ASSUME Init PROVE MachineInv
  OBVIOUS
<1>1. /\ Own \in Clients /\ Own \notin Guests \cup Servers /\ Server \notin Guests \cup Clients
      /\ Server \in Servers /\ Server \notin Children /\ Children \subseteq Threads
      /\ Server \in Threads /\ Clients \subseteq Threads /\ Servers \subseteq Threads
  BY MachineAssumption DEF Servers, Threads
<1>2. /\ \A t \in Threads : pc[t] \in {-1, 0, 1}
      /\ program \in Programs /\ flags = {} /\ errors = {} /\ backlog = -1 /\ queue = <<>>
      /\ cur = [s \in Servers |-> "none"] /\ conn = [c \in Clients |-> NoConn] /\ dead = "no"
      /\ holders = [c \in Clients |-> {}]
  BY DEF Init
<1>3. \A t \in {Own, Server} : Code(t) # <<>> => pc[t] = 1
  BY <1>1 DEF Init, Visitor, Servers
<1>4. \A c \in Clients :
        /\ conn[c] \in Connections
        /\ conn[c].link = "none" /\ conn[c].up = 0 /\ conn[c].down = 0 /\ conn[c].got = 0
        /\ conn[c].cEnd = "open" /\ conn[c].sEnd = "open" /\ conn[c].rst = "no" /\ ~conn[c].lost
  <2>1. NoConn \in Connections
    BY DEF NoConn, Connections
  <2> QED
    BY <1>2, <2>1 DEF NoConn
<1>5. TypeOK
  BY <1>2, <1>4 DEF TypeOK
<1>6. Bounded
  <2>1. pc \in [Threads -> Int]
    BY DEF Init
  <2>2. ASSUME NEW f \in Children PROVE pc[f] = -1
    <3>1. f \in Threads /\ f \notin Guests
      BY <1>1, MachineAssumption DEF Servers
    <3> QED
      BY <3>1 DEF Init, Visitor
  <2>3. ASSUME NEW t \in Threads PROVE pc[t] \in -1 .. Len(Code(t))
    <3>1. Len(Code(t)) \in Nat
      BY <1>2, ServersFormed, ClientsFormed DEF Threads
    <3>2. pc[t] = 1 => Code(t) # <<>>
      BY DEF Init
    <3>3. pc[t] = 1 => Len(Code(t)) >= 1
      BY <1>2, <3>2, NotEmpty
    <3> QED
      BY <1>2, <3>1, <3>3
  <2> QED
    BY <2>1, <2>3, <2>2 DEF Bounded
<1>7. Code(Server) # <<>> => Ready
  BY <1>2, <1>3 DEF Ready
<1>8. /\ main2_server # <<>> /\ main3_server # <<>> /\ api_server # <<>> /\ sigurg_server # <<>>
      /\ connectAsync # <<>>
  BY DEF main2_server, main3_server, api_server, sigurg_server, connectAsync
<1>9. pc[Own] \in {-1, 0, 1} /\ pc[Server] \in {-1, 0, 1}
  BY <1>1, <1>2
<1>10. Main2Inv
  BY <1>1, <1>2, <1>4, <1>7, <1>8, <1>9, Main2Code DEF Main2Inv, Unrefused, Unwritten
<1>11. Main3Inv
  BY <1>1, <1>2, <1>4, <1>7, <1>8, <1>9, Main3Code DEF Main3Inv, Unrefused, Unwritten, Serves
<1>12. ApiInv
  BY <1>1, <1>2, <1>4, <1>7, <1>8, <1>9, ApiCode DEF ApiInv, Unwritten
<1>13. SigurgInv
  BY <1>1, <1>2, <1>4, <1>7, <1>8, <1>9, SigurgCode DEF SigurgInv, Unrefused, Unwritten, Serves
<1>14. TimeInv
  <2>1. Distinct /\ \A c : ~Queued(c)
    BY <1>2 DEF Distinct, Queued
  <2>2. \A t \in Servers : pc[t] \notin 3 .. 5
    BY <1>1, <1>2
  <2>3. ASSUME NEW c \in Clients PROVE AnsweredOnce(c)
    <3>1. Fresh(c) /\ conn[c].link = "none" /\ conn[c].sEnd # "fin"
      BY <1>4 DEF Fresh
    <3>2. pc[c] # 3 /\ \A t \in Servers : ~Answers(t, c)
      BY <1>1, <1>2, <2>2 DEF Answers
    <3> QED
      BY <2>1, <3>1, <3>2, Zenon DEF AnsweredOnce
  <2>4. \A t \in Servers : AnswersOne(t)
    BY <2>2 DEF AnswersOne
  <2> QED
    BY <2>1, <2>3, <2>4 DEF TimeInv, TimeOK
<1>15. UnixInv
  BY <1>1, <1>2, <1>4 DEF UnixInv, Connected
<1>16. AsyncInv
  BY <1>1, <1>3, <1>8, AsyncCode DEF AsyncInv
<1> QED
  BY <1>2, <1>5, <1>6, <1>10, <1>11, <1>12, <1>13, <1>14, <1>15, <1>16 DEF MachineInv

\* A step keeps the invariant: it is one program's, and that program's lemma applies.
LEMMA MachineInductive == MachineInv /\ [Next]_vars => MachineInv'
<1> SUFFICES ASSUME MachineInv, [Next]_vars PROVE MachineInv'
  OBVIOUS
<1>1. TypeOK' /\ Bounded' /\ program' = program
  BY StepKeeps DEF MachineInv, Kept
<1>2. program \in {"main2", "main3", "api", "sigurg", "time", "unix", "poll", "async"}
  BY MachineAssumption, Zenon DEF MachineInv, TypeOK, Table
<1>3. /\ program # "main2" => Main2Inv'
      /\ program # "main3" => Main3Inv'
  BY <1>1 DEF Main2Inv, Main3Inv
<1>4. /\ program # "api" => ApiInv'
      /\ program # "sigurg" => SigurgInv'
  BY <1>1, Zenon DEF ApiInv, SigurgInv
<1>5. /\ program # "time" => TimeInv'
      /\ program # "unix" => UnixInv'
      /\ program # "async" => AsyncInv'
  BY <1>1 DEF TimeInv, UnixInv, AsyncInv
<1> QED
  BY <1>1, <1>2, <1>3, <1>4, <1>5, Main2Kept, Main3Kept, ApiKept, SigurgKept, TimeKept, UnixKept,
     AsyncKept, PollKept DEF MachineInv

\* The invariant of the socket programs holds in every state, for any number of
\* clients and children and any size of the socket buffers.
THEOREM MachineSafe == Spec => []MachineInv
BY MachineInitial, MachineInductive, PTL DEF Spec

\* The invariant excludes a refused connection behind a wait for the flag.
LEMMA Refusals == MachineInv => NobodyRefused
<1> SUFFICES ASSUME MachineInv, program \in {"main2", "main3", "api", "sigurg"}, NEW c \in Clients,
                    ~Visitor(c), Code(c) # <<>>, Code(c)[2].arg = "near"
             PROVE  <<c, 2>> \notin errors
  BY DEF NobodyRefused
<1>1. CASE program \in {"main2", "main3", "sigurg"}
  <2>1. c = Own
    BY <1>1, Main2Code, Main3Code, SigurgCode DEF Visitor
  <2> QED
    BY <1>1, <2>1, Zenon DEF MachineInv, Main2Inv, Main3Inv, SigurgInv, Unrefused
<1>2. CASE program = "api"
  <2>1. api_client("far")[2].arg = "far"
    BY DEF api_client, Or
  <2> QED
    BY <1>2, <2>1 DEF MachineInv, ApiInv
<1> QED
  BY <1>1, <1>2

\* No client that waits for the server's flag has its connection refused.
THEOREM ServedAfterFlag == Spec => []NobodyRefused
BY MachineSafe, Refusals, PTL

\* The server of main3 reads before it closes, so the client's second write()
\* succeeds and only the third can meet the RST; the first fails in neither
\* program.
THEOREM WriteFailsLate == Spec => []FailsOneWriteLater
<1>1. MachineInv => FailsOneWriteLater
  BY DEF MachineInv, Main2Inv, Main3Inv, FailsOneWriteLater
<1> QED
  BY <1>1, MachineSafe, PTL

\* No assertion fails and no SIGPIPE arrives, in any of the eight programs.
THEOREM NoProcessDies == Spec => []ProcessSurvives
<1>1. MachineInv => ProcessSurvives
  BY DEF MachineInv, ProcessSurvives
<1> QED
  BY <1>1, MachineSafe, PTL

\* The server of sigurg has read the urgent byte when it closes.
THEOREM UrgentBeforeClose == Spec => []UrgentByteRead
<1>1. MachineInv => UrgentByteRead
  BY DEF MachineInv, SigurgInv, UrgentByteRead
<1> QED
  BY <1>1, MachineSafe, PTL

\* The time server's parent and children give each client one answer.
THEOREM AnsweredThenEnded == Spec => []OneAnswerBeforeEnd
<1>1. MachineInv => OneAnswerBeforeEnd
  BY DEF MachineInv, TimeInv, TimeOK, AnsweredOnce, OneAnswerBeforeEnd
<1> QED
  BY <1>1, MachineSafe, PTL

\* bind() to the fixed abstract name keeps a second client from connecting.
THEOREM NameExcludes == Spec => []OneNamedClient
<1>1. MachineInv => OneNamedClient
  BY DEF MachineInv, UnixInv, OneNamedClient
<1> QED
  BY <1>1, MachineSafe, PTL

\* connectAsync's three waits leave no socket half open.
THEOREM AsyncConcludes == Spec => []ConnectedOrClosed
<1>1. MachineInv => ConnectedOrClosed
  BY DEF MachineInv, AsyncInv, ConnectedOrClosed
<1> QED
  BY <1>1, MachineSafe, PTL
=============================================================================
