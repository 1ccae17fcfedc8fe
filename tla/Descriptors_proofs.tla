------------------------- MODULE Descriptors_proofs -------------------------
(***************************************************************************)
(* Who holds which descriptor.                                             *)
(*                                                                         *)
(* set/echo_fd, for every limit, any devices and any number of connections *)
(* and of client runs: the slots of the server and its descriptors.        *)
(*                                                                         *)
(* set/unixsocket/main.cpp for any number of connections and every limit:  *)
(* where a connection is, and when it is answered.                         *)
(***************************************************************************)
EXTENDS EchoFd, FdPassing, FiniteSetTheorems, SequenceTheorems, TLAPS

-----------------------------------------------------------------------------
(* The slots of echo.server.cpp and the descriptors they name.  The        *)
(* invariant says of each slot and of each descriptor what                 *)
(* SlotsNameDescriptors says of the two sets, and that accept() finds a    *)
(* connection when poll() reported one: only the server takes from the     *)
(* queue.                                                                  *)

SlotTypeOK ==
  /\ made \in 0 .. MaxConns
  /\ queue \in Seq(Connections)
  /\ client_fds \in Seq(Fds \cup {-1})
  /\ file \in [Fds -> Connections \cup {0}]
  /\ at \in Nat \ {0}

NamedIsOpen ==
  \A i \in DOMAIN client_fds : client_fds[i] # -1 => file[client_fds[i]] # 0

OpenIsNamed ==
  \A f \in Fds : file[f] # 0 => \E i \in DOMAIN client_fds : client_fds[i] = f

NamedOnce ==
  \A i, k \in DOMAIN client_fds :
    client_fds[i] # -1 /\ client_fds[i] = client_fds[k] => i = k

QueueKept == spc = "accept" /\ newcomer => queue # <<>>

SlotInv == SlotTypeOK /\ NamedIsOpen /\ OpenIsNamed /\ NamedOnce /\ QueueKept

\* A descriptor is never the -1 of an empty slot, nor a connection the 0 of a
\* free descriptor.
LEMMA NotADescriptor == -1 \notin Fds /\ 0 \notin Connections
BY EchoFdAssumption DEF Fds, Connections

LEMMA SlotInitially == EchoFdInit => SlotInv
<1> SUFFICES ASSUME EchoFdInit PROVE SlotInv
  OBVIOUS
<1>1. MaxConns \in Nat
  BY EchoFdAssumption
<1>2. SlotTypeOK
  BY <1>1 DEF EchoFdInit, SlotTypeOK
<1> QED
  BY <1>2 DEF EchoFdInit, SlotInv, NamedIsOpen, OpenIsNamed, NamedOnce, QueueKept

\* The invariant speaks of the server's slots only, so a step that leaves them
\* alone and does not shorten the queue keeps it.
LEMMA SlotsUntouched ==
  ASSUME SlotInv, UNCHANGED <<client_fds, file>>, SlotTypeOK', QueueKept'
  PROVE  SlotInv'
BY DEF SlotInv, NamedIsOpen, OpenIsNamed, NamedOnce

\* Whatever the client does, it adds at most one connection to the queue.
LEMMA ClientPreserves ==
  ASSUME SlotInv,
         start \/ kill \/ echo_client \/ \E d \in Devices : get_local_ip(d)
  PROVE  SlotInv'
<1>1. UNCHANGED serverVars
  BY DEF start, kill, exit, echo_client, socket, open_doc, bind, constructor_echo_addr,
         connect, get_local_ip
<1>2. \/ UNCHANGED <<made, queue>>
      \/ made < MaxConns /\ made' = made + 1 /\ queue' = Append(queue, made')
  BY DEF start, kill, exit, echo_client, socket, open_doc, bind, constructor_echo_addr,
         connect, get_local_ip
<1>3. made' \in 0 .. MaxConns /\ queue' \in Seq(Connections) /\ (queue # <<>> => queue' # <<>>)
  <2>1. CASE UNCHANGED <<made, queue>>
    BY <2>1 DEF SlotInv, SlotTypeOK
  <2>2. CASE made < MaxConns /\ made' = made + 1 /\ queue' = Append(queue, made')
    <3>1. made' \in Connections
      BY <2>2, EchoFdAssumption DEF SlotInv, SlotTypeOK, Connections
    <3> QED
      BY <2>2, <3>1, EchoFdAssumption, SMTT(30) DEF SlotInv, SlotTypeOK, Connections
  <2> QED
    BY <1>2, <2>1, <2>2
<1>4. SlotTypeOK'
  BY <1>1, <1>3 DEF SlotInv, SlotTypeOK, serverVars
<1>5. QueueKept'
  BY <1>1, <1>3 DEF SlotInv, QueueKept, serverVars
<1> QED
  BY <1>1, <1>4, <1>5, SlotsUntouched DEF serverVars

LEMMA PollPreserves ==
  ASSUME SlotInv, poll
  PROVE  SlotInv'
<1>1. SlotTypeOK' /\ QueueKept'
  BY Zenon DEF SlotInv, SlotTypeOK, QueueKept, poll, clientVars
<1> QED
  BY <1>1, SlotsUntouched DEF poll

\* accept(): the descriptor it gives out was free, so no slot named it.
LEMMA AcceptPreserves ==
  ASSUME SlotInv, accept
  PROVE  SlotInv'
<1> USE DEF SlotInv
<1>1. QueueKept'
  BY DEF accept, QueueKept
<1>2. CASE UNCHANGED <<queue, client_fds, file>>
  <2>1. SlotTypeOK'
    BY <1>2 DEF SlotTypeOK, accept, clientVars
  <2> QED
    BY <1>1, <1>2, <2>1, SlotsUntouched
<1>3. CASE newcomer /\ \E f \in Unused : /\ file' = [file EXCEPT ![f] = Head(queue)]
                                         /\ queue' = Tail(queue)
                                         /\ client_fds' = Append(client_fds, f)
  <2>1. PICK f \in Unused : /\ file' = [file EXCEPT ![f] = Head(queue)]
                            /\ queue' = Tail(queue)
                            /\ client_fds' = Append(client_fds, f)
    BY <1>3, Zenon
  <2>2. f \in Fds /\ file[f] = 0 /\ f # -1
    BY NotADescriptor DEF Unused
  <2>3. queue # <<>> /\ Head(queue) \in Connections /\ queue' \in Seq(Connections) /\ Head(queue) # 0
    BY <1>3, <2>1, NotADescriptor DEF QueueKept, accept, SlotTypeOK
  <2>4. /\ client_fds' \in Seq(Fds \cup {-1}) /\ Len(client_fds') = Len(client_fds) + 1
        /\ client_fds'[Len(client_fds) + 1] = f
        /\ \A i \in 1 .. Len(client_fds) : client_fds'[i] = client_fds[i]
        /\ DOMAIN client_fds = 1 .. Len(client_fds) /\ Len(client_fds) \in Nat
        /\ DOMAIN client_fds' = 1 .. Len(client_fds) + 1
    BY <2>1, <2>2 DEF SlotTypeOK
  <2>5. \A i \in DOMAIN client_fds : client_fds[i] # f /\ client_fds[i] \in Fds \cup {-1}
    BY <2>2, <2>4 DEF NamedIsOpen, SlotTypeOK
  <2>6. SlotTypeOK'
    <3>1. file' \in [Fds -> Connections \cup {0}]
      BY <2>1, <2>2, <2>3 DEF SlotTypeOK
    <3>2. at' = 1 /\ made' = made
      BY DEF accept, clientVars
    <3> QED
      BY <2>3, <2>4, <3>1, <3>2 DEF SlotTypeOK
  <2>7. /\ file'[f] = Head(queue)
        /\ \A g \in Fds : g # f => file'[g] = file[g]
    BY <2>1, <2>2 DEF SlotTypeOK
  <2>8. NamedIsOpen'
    BY <2>3, <2>4, <2>5, <2>7 DEF NamedIsOpen
  <2>9. OpenIsNamed'
    <3> SUFFICES ASSUME NEW g \in Fds, file'[g] # 0
                 PROVE  \E i \in DOMAIN client_fds' : client_fds'[i] = g
      BY DEF OpenIsNamed
    <3>1. CASE g = f
      BY <2>4, <3>1
    <3>2. CASE g # f
      BY <2>4, <2>7, <3>2 DEF OpenIsNamed
    <3> QED
      BY <3>1, <3>2
  <2>10. NamedOnce'
    BY <2>4, <2>5 DEF NamedOnce
  <2> QED
    BY <1>1, <2>6, <2>8, <2>9, <2>10
<1> QED
  BY <1>2, <1>3 DEF accept

\* close(): the slot gives up its number in the same round, and it was the
\* only one that had it.
LEMMA SlotPreserves ==
  ASSUME SlotInv, slot
  PROVE  SlotInv'
<1> USE DEF SlotInv
<1>1. QueueKept'
  BY DEF slot, QueueKept
<1>2. CASE UNCHANGED <<client_fds, file>>
  <2>1. SlotTypeOK'
    BY <1>2 DEF SlotTypeOK, slot, clientVars
  <2> QED
    BY <1>1, <1>2, <2>1, SlotsUntouched
<1>3. CASE client_fds[at] # -1 /\ close_slot(at)
  <2>1. /\ DOMAIN client_fds = 1 .. Len(client_fds) /\ at \in DOMAIN client_fds
        /\ client_fds[at] \in Fds
    BY <1>3 DEF SlotTypeOK, slot
  <2>2. /\ client_fds' \in Seq(Fds \cup {-1}) /\ DOMAIN client_fds' = DOMAIN client_fds
        /\ client_fds'[at] = -1
        /\ \A i \in DOMAIN client_fds : i # at => client_fds'[i] = client_fds[i]
    BY <1>3, <2>1 DEF close_slot, SlotTypeOK
  <2>3. /\ file' \in [Fds -> Connections \cup {0}] /\ file'[client_fds[at]] = 0
        /\ \A g \in Fds : g # client_fds[at] => file'[g] = file[g]
    BY <1>3, <2>1 DEF close_slot, SlotTypeOK
  <2>4. SlotTypeOK'
    BY <2>2, <2>3 DEF SlotTypeOK, slot, clientVars
  <2>5. \A i \in DOMAIN client_fds : client_fds[i] \in Fds \cup {-1}
    BY DEF SlotTypeOK
  <2>6. NamedIsOpen'
    BY <1>3, <2>1, <2>2, <2>3, <2>5 DEF NamedIsOpen, NamedOnce
  <2>7. OpenIsNamed'
    BY <2>1, <2>2, <2>3 DEF OpenIsNamed
  <2>8. NamedOnce'
    BY <2>1, <2>2 DEF NamedOnce
  <2> QED
    BY <1>1, <2>4, <2>6, <2>7, <2>8
<1> QED
  BY <1>2, <1>3 DEF slot

LEMMA SlotInductive == SlotInv /\ [EchoFdNext]_echoFdVars => SlotInv'
<1> SUFFICES ASSUME SlotInv, [EchoFdNext]_echoFdVars PROVE SlotInv'
  OBVIOUS
<1>1. CASE again
  <2>1. SlotTypeOK' /\ QueueKept'
    BY <1>1 DEF SlotInv, SlotTypeOK, QueueKept, again, clientVars
  <2> QED
    BY <1>1, <2>1, SlotsUntouched DEF again
<1>2. CASE UNCHANGED echoFdVars
  <2>1. SlotTypeOK' /\ QueueKept'
    BY <1>2 DEF SlotInv, SlotTypeOK, QueueKept, echoFdVars, serverVars, clientVars
  <2> QED
    BY <1>2, <2>1, SlotsUntouched DEF echoFdVars, serverVars
<1> QED
  BY <1>1, <1>2, ClientPreserves, PollPreserves, AcceptPreserves, SlotPreserves
     DEF EchoFdNext, Server

LEMMA SlotInvSuffices == SlotInv => SlotsNameDescriptors
<1> SUFFICES ASSUME SlotInv PROVE SlotsNameDescriptors
  OBVIOUS
<1>1. \A i \in DOMAIN client_fds : client_fds[i] # -1 => client_fds[i] \in Fds
  BY DEF SlotInv, SlotTypeOK
<1>2. {client_fds[i] : i \in {k \in DOMAIN client_fds : client_fds[k] # -1}} = Fds \ Unused
  BY <1>1, NotADescriptor DEF SlotInv, NamedIsOpen, OpenIsNamed, Unused
<1> QED
  BY <1>2 DEF SlotInv, NamedOnce, SlotsNameDescriptors

\* Whatever the limits, and however often clients come and go, the slots of
\* echo.server.cpp name exactly the open descriptors of its connections, each
\* in one slot: a reused number is never still in the slot of a closed one.
THEOREM SlotsAreDescriptors == EchoFdSpec => []SlotsNameDescriptors
BY SlotInitially, SlotInductive, SlotInvSuffices, PTL DEF EchoFdSpec

-----------------------------------------------------------------------------
(* The descriptors main.cpp passes on.  A connection's places are counted, *)
(* so the proof needs what Append and Tail do to the number of its         *)
(* occurrences in a sequence; an action then moves one occurrence.         *)

FdTypeOK ==
  /\ client \in [Conns -> {"idle", "connected", "requested", "closed", "reset"}]
  /\ backlog \in Seq(Conns) /\ channel \in Seq(Conns) /\ slots \in Seq(Conns)
  /\ async_fd \in Conns \cup {NoConn}
  /\ lost \subseteq Conns /\ got \subseteq Conns /\ answered \subseteq Conns
  /\ events \in [Conns -> {"none", "POLLIN", "POLLOUT", "closed"}]
  /\ revents \in [Conns -> {"none", "POLLIN", "POLLOUT"}]
  /\ cpc \in Int

\* Only a connection in a slot is polled, and for POLLOUT only one whose
\* request has been read; the same holds of what an earlier poll() reported.
PolledInSlot == \A c \in Conns : events[c] # "none" => In(c, slots) > 0
ReadBeforePollout ==
  \A c \in Conns : events[c] = "POLLOUT" \/ revents[c] = "POLLOUT" => c \in got

AnswerInv == PolledInSlot /\ ReadBeforePollout /\ AnswersOwnRequest

FdInv == FdTypeOK /\ OnePlace /\ AnswerInv

-----------------------------------------------------------------------------
(* Occurrences in a sequence.                                              *)

LEMMA InType ==
  ASSUME NEW S, NEW s \in Seq(S), NEW c
  PROVE  IsFiniteSet({i \in DOMAIN s : s[i] = c}) /\ In(c, s) \in Nat
<1>1. DOMAIN s = 1 .. Len(s) /\ Len(s) \in Nat
  OBVIOUS
<1>2. IsFiniteSet(1 .. Len(s))
  BY <1>1, FS_Interval
<1>3. IsFiniteSet({i \in DOMAIN s : s[i] = c})
  BY <1>1, <1>2, FS_Subset
<1> QED
  BY <1>3, FS_CardinalityType DEF In

LEMMA InEmpty ==
  ASSUME NEW c
  PROVE  In(c, <<>>) = 0
<1>1. {i \in DOMAIN <<>> : <<>>[i] = c} = {}
  OBVIOUS
<1> QED
  BY <1>1, FS_EmptySet DEF In

LEMMA InAppend ==
  ASSUME NEW S, NEW s \in Seq(S), NEW e \in S, NEW c
  PROVE  In(c, Append(s, e)) = In(c, s) + (IF e = c THEN 1 ELSE 0)
<1> DEFINE old == {i \in DOMAIN s : s[i] = c}
           new == {i \in DOMAIN Append(s, e) : Append(s, e)[i] = c}
<1>1. /\ DOMAIN s = 1 .. Len(s) /\ Len(s) \in Nat
      /\ DOMAIN Append(s, e) = 1 .. Len(s) + 1
      /\ \A i \in 1 .. Len(s) : Append(s, e)[i] = s[i]
      /\ Append(s, e)[Len(s) + 1] = e
  OBVIOUS
<1>2. IsFiniteSet(old) /\ Cardinality(old) \in Nat
  BY InType, Zenon DEF In
<1>2a. In(c, s) = Cardinality(old) /\ In(c, Append(s, e)) = Cardinality(new)
  BY DEF In
<1>3. CASE e = c
  <2>1. new = old \cup {Len(s) + 1} /\ Len(s) + 1 \notin old
    BY <1>1, <1>3
  <2> HIDE DEF old, new
  <2> QED
    BY <1>2, <1>2a, <1>3, <2>1, FS_AddElement, ZenonT(30)
<1>4. CASE e # c
  <2>1. new = old
    BY <1>1, <1>4
  <2> HIDE DEF old, new
  <2> QED
    BY <1>2, <1>2a, <1>4, <2>1
<1> QED
  BY <1>3, <1>4

LEMMA InTail ==
  ASSUME NEW S, NEW s \in Seq(S), s # <<>>, NEW c
  PROVE  In(c, s) = In(c, Tail(s)) + (IF Head(s) = c THEN 1 ELSE 0)
<1> DEFINE old == {i \in DOMAIN Tail(s) : Tail(s)[i] = c}
           moved == {i \in 2 .. Len(s) : s[i] = c}
           all == {i \in DOMAIN s : s[i] = c}
           f == [i \in old |-> i + 1]
<1>1. /\ Tail(s) \in Seq(S) /\ Len(Tail(s)) = Len(s) - 1
      /\ \A i \in 1 .. Len(s) - 1 : Tail(s)[i] = s[i + 1]
      /\ DOMAIN s = 1 .. Len(s) /\ Len(s) \in Nat /\ Len(s) > 0
      /\ DOMAIN Tail(s) = 1 .. Len(s) - 1 /\ Head(s) = s[1]
  OBVIOUS
<1>2. IsFiniteSet(old) /\ Cardinality(old) \in Nat
  BY <1>1, InType, ZenonT(30) DEF In
<1>3. ExistsBijection(old, moved)
  <2>1. f \in [old -> moved] /\ \A a, b \in old : f[a] = f[b] => a = b
    BY <1>1
  <2>2. \A t \in moved : \E a \in old : f[a] = t
    <3> TAKE t \in moved
    <3>1. t - 1 \in old /\ f[t - 1] = t
      BY <1>1
    <3> QED
      BY <3>1, Zenon
  <2>3. f \in Bijection(old, moved)
    BY <2>1, <2>2 DEF Bijection, Injection, Surjection, IsInjective
  <2> QED
    BY <2>3 DEF ExistsBijection
<1>4. IsFiniteSet(moved) /\ Cardinality(moved) = Cardinality(old)
  BY <1>2, <1>3, FS_Bijection, Zenon
<1>4a. In(c, Tail(s)) = Cardinality(old) /\ In(c, s) = Cardinality(all)
  BY DEF In
<1>5. CASE Head(s) = c
  <2>1. all = moved \cup {1} /\ 1 \notin moved
    BY <1>1, <1>5
  <2> HIDE DEF old, moved, all
  <2>2. Cardinality(all) = Cardinality(moved) + 1
    BY <1>4, <2>1, FS_AddElement
  <2> QED
    BY <1>2, <1>4, <1>4a, <1>5, <2>2
<1>6. CASE Head(s) # c
  <2>1. all = moved
    BY <1>1, <1>6
  <2> HIDE DEF old, moved, all
  <2> QED
    BY <1>2, <1>4, <1>4a, <1>6, <2>1
<1> QED
  BY <1>5, <1>6

LEMMA InMember ==
  ASSUME NEW S, NEW s \in Seq(S), NEW i \in 1 .. Len(s)
  PROVE  In(s[i], s) > 0
<1> DEFINE all == {k \in DOMAIN s : s[k] = s[i]}
<1>1. i \in all
  OBVIOUS
<1>2. IsFiniteSet(all) /\ Cardinality(all) \in Nat
  BY InType, Zenon DEF In
<1>3. In(s[i], s) = Cardinality(all)
  BY DEF In
<1> HIDE DEF all
<1>4. Cardinality(all) # 0
  BY <1>1, <1>2, FS_EmptySet
<1> QED
  BY <1>2, <1>3, <1>4

-----------------------------------------------------------------------------
(* One lemma per action: where the connections are.                        *)

LEMMA ArriveMoves ==
  ASSUME FdInv, NEW c \in Conns, arrive(c)
  PROVE  FdTypeOK' /\ OnePlace'
<1> USE DEF FdInv, FdTypeOK
<1>1. FdTypeOK'
  BY DEF arrive, childVars
<1>2. ASSUME NEW d \in Conns
      PROVE  /\ In(d, backlog') = In(d, backlog) + (IF c = d THEN 1 ELSE 0)
             /\ In(d, backlog) \in Nat
  BY InAppend, InType, ZenonT(30) DEF arrive
<1>3. ASSUME NEW d \in Conns
      PROVE  In(d, channel) \in Nat /\ In(d, slots) \in Nat
  BY InType, Zenon
<1>4. ASSUME NEW d \in Conns
      PROVE  (client'[d] = "idle") <=> (client[d] = "idle" /\ c # d)
  BY DEF arrive
<1>5. client[c] = "idle" /\ UNCHANGED <<channel, slots, async_fd, lost>>
  BY DEF arrive, childVars
<1>6. ASSUME NEW d \in Conns
      PROVE  In(d, backlog') + In(d, channel') + In(d, slots')
               + (IF async_fd' = d THEN 1 ELSE 0) + (IF d \in lost' THEN 1 ELSE 0)
               + (IF client'[d] = "idle" THEN 1 ELSE 0) = 1
  <2>1. In(d, backlog) + In(d, channel) + In(d, slots)
          + (IF async_fd = d THEN 1 ELSE 0) + (IF d \in lost THEN 1 ELSE 0)
          + (IF client[d] = "idle" THEN 1 ELSE 0) = 1
    BY DEF OnePlace
  <2>2. CASE c = d
    BY <1>2, <1>3, <1>4, <1>5, <2>1, <2>2, SMTT(30)
  <2>3. CASE c # d
    BY <1>2, <1>3, <1>4, <1>5, <2>1, <2>3, SMTT(30)
  <2> QED
    BY <2>2, <2>3
<1> QED
  BY <1>1, <1>6 DEF OnePlace

LEMMA RoundMoves ==
  ASSUME FdInv, NEW in \in BOOLEAN, NEW out \in BOOLEAN, in => backlog # <<>>, round(in, out)
  PROVE  FdTypeOK' /\ OnePlace'
<1> DEFINE taken == in /\ Cardinality(accepted) < limit.open
           fd == IF taken THEN Head(backlog) ELSE IF in THEN NoConn ELSE async_fd
           send == out /\ fd # NoConn
<1> USE DEF FdInv, FdTypeOK
<1>1. fd \in Conns \cup {NoConn} /\ (send => fd \in Conns)
  OBVIOUS
<1>2. /\ backlog' = IF taken THEN Tail(backlog) ELSE backlog
      /\ lost' = IF in THEN lost \cup ({async_fd} \ {NoConn}) ELSE lost
      /\ channel' = IF send THEN Append(channel, fd) ELSE channel
      /\ async_fd' = IF out THEN NoConn ELSE fd
      /\ UNCHANGED <<client, childVars>>
  BY DEF round
<1>3. FdTypeOK'
  BY <1>1, <1>2 DEF childVars
<1>4. SUFFICES ASSUME NEW d \in Conns
               PROVE  In(d, backlog') + In(d, channel') + In(d, slots')
                        + (IF async_fd' = d THEN 1 ELSE 0) + (IF d \in lost' THEN 1 ELSE 0)
                        + (IF client'[d] = "idle" THEN 1 ELSE 0) = 1
  BY <1>3 DEF OnePlace
<1>5. In(d, backlog) \in Nat /\ In(d, channel) \in Nat /\ In(d, slots) \in Nat
  BY InType, Zenon
<1>6. In(d, backlog) = In(d, backlog') + (IF taken /\ fd = d THEN 1 ELSE 0)
  BY <1>2, <1>5, InTail
<1>7. In(d, channel') = In(d, channel) + (IF send /\ fd = d THEN 1 ELSE 0)
  BY <1>1, <1>2, <1>5, InAppend, SMTT(30)
<1>8. In(d, backlog') \in Nat /\ In(d, channel') \in Nat
  BY <1>3, InType, Zenon
<1>9. In(d, backlog) + In(d, channel) + In(d, slots)
        + (IF async_fd = d THEN 1 ELSE 0) + (IF d \in lost THEN 1 ELSE 0)
        + (IF client[d] = "idle" THEN 1 ELSE 0) = 1
  BY DEF OnePlace
<1>10. d # NoConn /\ slots' = slots /\ client' = client
  BY <1>2, FdAssumption DEF childVars
<1>11. (d \in lost') <=> (d \in lost \/ (in /\ async_fd = d))
  BY <1>2, <1>10
<1>12. (async_fd' = d) <=> (~out /\ fd = d)
  BY <1>2, <1>10
<1>12a. /\ taken => in /\ fd = Head(backlog)
        /\ ~taken => fd = IF in THEN NoConn ELSE async_fd
        /\ send <=> (out /\ fd # NoConn)
  OBVIOUS
<1> HIDE DEF taken, fd, send, FdInv, FdTypeOK
<1>13. CASE fd = d
  <2>1. CASE taken
    <3>1. async_fd # d /\ d \notin lost /\ client[d] # "idle"
      <4>1. In(d, backlog) = In(d, backlog') + 1
        BY <1>6, <1>13, <2>1
      <4>2. In(d, backlog) >= 1
        BY <1>8, <4>1
      <4> QED
        BY <1>5, <1>9, <4>2, SMTT(30)
    <3> QED
      BY <1>5, <1>6, <1>7, <1>8, <1>9, <1>10, <1>11, <1>12, <1>12a, <1>13, <2>1, <3>1
  <2>2. CASE ~taken
    <3>1. ~in /\ async_fd = d
      BY <1>10, <1>12a, <1>13, <2>2
    <3> QED
      BY <1>5, <1>6, <1>7, <1>8, <1>9, <1>10, <1>11, <1>12, <1>12a, <1>13, <2>2, <3>1
  <2> QED
    BY <2>1, <2>2
<1>14. CASE fd # d
  BY <1>5, <1>6, <1>7, <1>8, <1>9, <1>10, <1>11, <1>12, <1>12a, <1>14
<1> QED
  BY <1>13, <1>14

LEMMA RecvMoves ==
  ASSUME FdInv, child_recv, UNCHANGED <<client, parentVars>>
  PROVE  FdTypeOK' /\ OnePlace' /\ AnswerInv'
<1> USE DEF FdInv, FdTypeOK
<1>1. CASE ~revents0
  <2>1. UNCHANGED <<client, channel, slots, events, revents, got, answered, parentVars>>
    BY <1>1 DEF child_recv
  <2>2. FdTypeOK'
    BY <2>1 DEF child_recv, parentVars
  <2> QED
    BY <2>1, <2>2 DEF OnePlace, AnswerInv, PolledInSlot, ReadBeforePollout,
                      AnswersOwnRequest, parentVars
<1>2. CASE revents0
  <2>a. channel # <<>> /\ Head(channel) \in Conns
    BY <1>2 DEF child_recv
  <2>b. PICK c \in Conns : c = Head(channel)
    BY <2>a
  <2>1. /\ c = Head(channel) /\ channel # <<>> /\ Tail(channel) \in Seq(Conns)
        /\ slots' = Append(slots, c) /\ channel' = Tail(channel)
        /\ events' = [events EXCEPT ![c] = "POLLIN"]
        /\ UNCHANGED <<client, revents, got, answered, backlog, async_fd, lost>>
    BY <1>2, <2>a, <2>b DEF child_recv, parentVars
  <2>2. FdTypeOK'
    BY <2>1 DEF child_recv
  <2>3. ASSUME NEW d \in Conns
        PROVE  /\ In(d, backlog) \in Nat /\ In(d, channel) \in Nat /\ In(d, slots) \in Nat
               /\ In(d, channel') \in Nat /\ In(d, slots') \in Nat
               /\ In(d, channel) = In(d, channel') + (IF c = d THEN 1 ELSE 0)
               /\ In(d, slots') = In(d, slots) + (IF c = d THEN 1 ELSE 0)
    <3>1. /\ In(d, backlog) \in Nat /\ In(d, channel) \in Nat /\ In(d, slots) \in Nat
          /\ In(d, channel') \in Nat /\ In(d, slots') \in Nat
      BY <2>2, InType, Zenon
    <3>2. In(d, channel) = In(d, Tail(channel)) + (IF c = d THEN 1 ELSE 0)
      BY <2>1, InTail
    <3>3. In(d, Append(slots, c)) = In(d, slots) + (IF c = d THEN 1 ELSE 0)
      BY <2>1, InAppend
    <3> QED
      BY <2>1, <3>1, <3>2, <3>3
  <2>4. ASSUME NEW d \in Conns
        PROVE  In(d, backlog) + In(d, channel) + In(d, slots)
                 + (IF async_fd = d THEN 1 ELSE 0) + (IF d \in lost THEN 1 ELSE 0)
                 + (IF client[d] = "idle" THEN 1 ELSE 0) = 1
    BY DEF OnePlace
  <2>5. OnePlace'
    <3> SUFFICES ASSUME NEW d \in Conns
                 PROVE  In(d, backlog') + In(d, channel') + In(d, slots')
                          + (IF async_fd' = d THEN 1 ELSE 0) + (IF d \in lost' THEN 1 ELSE 0)
                          + (IF client'[d] = "idle" THEN 1 ELSE 0) = 1
      BY DEF OnePlace
    <3> HIDE DEF FdInv, FdTypeOK
    <3>0. UNCHANGED <<client, backlog, async_fd, lost>>
      BY <2>1
    <3>1. CASE c = d
      BY <2>3, <2>4, <3>0, <3>1
    <3>2. CASE c # d
      BY <2>3, <2>4, <3>0, <3>2
    <3> QED
      BY <3>1, <3>2
  <2>6. events[c] = "none"
    <3>1. In(c, channel) >= 1
      BY <2>3
    <3>2. In(c, slots) = 0
      <4> HIDE DEF FdInv, FdTypeOK
      <4> QED
        BY <2>3, <2>4, <3>1
    <3> QED
      BY <2>1, <3>2 DEF AnswerInv, PolledInSlot
  <2>7. PolledInSlot'
    <3>1. ASSUME NEW d \in Conns, events'[d] # "none" PROVE In(d, slots') > 0
      <4>0. In(d, slots) \in Nat /\ In(d, slots') = In(d, slots) + (IF c = d THEN 1 ELSE 0)
        BY <2>3, Zenon
      <4>1. CASE d = c
        BY <4>0, <4>1
      <4>2. CASE d # c
        BY <2>1, <3>1, <4>0, <4>2 DEF AnswerInv, PolledInSlot
      <4> QED
        BY <4>1, <4>2
    <3> QED
      BY <3>1 DEF PolledInSlot
  <2>8. ReadBeforePollout' /\ AnswersOwnRequest'
    BY <2>1, <2>6 DEF AnswerInv, ReadBeforePollout, AnswersOwnRequest
  <2> QED
    BY <2>2, <2>5, <2>7, <2>8 DEF AnswerInv
<1> QED
  BY <1>1, <1>2

LEMMA PollMoves ==
  ASSUME FdInv, child_poll, UNCHANGED <<client, parentVars>>
  PROVE  FdTypeOK' /\ OnePlace' /\ AnswerInv'
<1> USE DEF FdInv, FdTypeOK
<1>1. UNCHANGED <<client, channel, slots, events, got, answered, backlog, async_fd, lost>>
  BY DEF child_poll, parentVars
<1>2. revents' = revents \/ revents' = [c \in Conns |-> Ready(c)]
  BY DEF child_poll
<1>3. \A c \in Conns : /\ Ready(c) \in {"none", "POLLIN", "POLLOUT"}
                       /\ Ready(c) = "POLLOUT" => events[c] = "POLLOUT"
  BY DEF Ready
<1>4. FdTypeOK'
  BY <1>1, <1>2, <1>3 DEF child_poll
<1>5. ReadBeforePollout'
  BY <1>1, <1>2, <1>3 DEF AnswerInv, ReadBeforePollout
<1> QED
  BY <1>1, <1>4, <1>5 DEF OnePlace, AnswerInv, PolledInSlot, AnswersOwnRequest

LEMMA SlotMoves ==
  ASSUME FdInv, child_slot, UNCHANGED <<client, parentVars>>
  PROVE  FdTypeOK' /\ OnePlace' /\ AnswerInv'
<1> USE DEF FdInv, FdTypeOK
<1>1. UNCHANGED <<client, channel, slots, backlog, async_fd, lost>>
  BY DEF child_slot, parentVars
<1>2. OnePlace'
  BY <1>1 DEF OnePlace
<1>3. CASE UNCHANGED <<events, revents, got, answered>>
  <2>1. FdTypeOK'
    BY <1>1, <1>3 DEF child_slot
  <2> QED
    BY <1>1, <1>2, <1>3, <2>1
       DEF AnswerInv, PolledInSlot, ReadBeforePollout, AnswersOwnRequest
<1>4. ASSUME cpc \in 1 .. Len(slots), cpc' = cpc + 1, NEW c \in Conns, c = slots[cpc],
             child_read(c) \/ child_write(c)
      PROVE  FdTypeOK' /\ AnswerInv'
  <2>1. In(c, slots) > 0
    BY <1>4, InMember
  <2>2. CASE child_read(c)
    <3>1. FdTypeOK'
      <4>1. /\ events' \in [Conns -> {"none", "POLLIN", "POLLOUT", "closed"}]
            /\ revents' \in [Conns -> {"none", "POLLIN", "POLLOUT"}]
            /\ got' \subseteq Conns /\ answered' = answered
        BY <2>2, Zenon DEF child_read
      <4> QED
        BY <1>1, <1>4, <4>1
    <3>2. c \notin answered
      BY <2>2 DEF child_read, AnswerInv, AnswersOwnRequest
    <3>3. /\ \A d \in Conns \ {c} : events'[d] = events[d] /\ revents'[d] = revents[d]
          /\ got \subseteq got' /\ answered' = answered
          /\ events'[c] = "POLLOUT" => c \in got'
          /\ revents'[c] # "POLLOUT"
      <4>1. CASE events' = [events EXCEPT ![c] = "POLLOUT"] /\ got' = got \cup {c}
                   /\ revents' = revents
        <5>1. revents'[c] = "POLLIN" /\ c \in got'
          BY <2>2, <4>1 DEF child_read
        <5> QED
          BY <2>2, <4>1, <5>1 DEF child_read
      <4>2. CASE events' = [events EXCEPT ![c] = "closed"] /\ got' = got
                   /\ revents' = [revents EXCEPT ![c] = "none"]
        BY <2>2, <4>2 DEF child_read
      <4> QED
        BY <2>2, <4>1, <4>2 DEF child_read
    <3> QED
      BY <1>1, <2>1, <3>1, <3>2, <3>3
         DEF AnswerInv, PolledInSlot, ReadBeforePollout, AnswersOwnRequest
  <2>3. CASE child_write(c)
    <3>1. FdTypeOK'
      BY <1>1, <1>4, <2>3 DEF child_write
    <3>2. c \in got
      BY <2>3 DEF child_write, AnswerInv, ReadBeforePollout
    <3>3. /\ \A d \in Conns \ {c} : events'[d] = events[d]
          /\ revents' = revents /\ got' = got /\ answered' \subseteq answered \cup {c}
          /\ events'[c] = "closed" \/ (events' = events /\ answered' = answered)
      BY <2>3 DEF child_write
    <3> QED
      BY <1>1, <2>1, <3>1, <3>2, <3>3
         DEF AnswerInv, PolledInSlot, ReadBeforePollout, AnswersOwnRequest
  <2> QED
    BY <1>4, <2>2, <2>3
<1>5. CASE ~ UNCHANGED <<events, revents, got, answered>>
  <2>1. cpc \in 1 .. Len(slots) /\ cpc' = cpc + 1 /\ slots[cpc] \in Conns
    BY <1>5 DEF child_slot
  <2>2. child_read(slots[cpc]) \/ child_write(slots[cpc])
    BY <1>5, <2>1 DEF child_slot
  <2> QED
    BY <1>2, <1>4, <2>1, <2>2
<1> QED
  BY <1>3, <1>5

-----------------------------------------------------------------------------
LEMMA FdInductive == FdInv /\ [Next]_vars => FdInv'
<1> SUFFICES ASSUME FdInv, [Next]_vars PROVE FdInv'
  OBVIOUS
<1>1. CASE parent_round
  <2>1. FdTypeOK' /\ OnePlace'
    BY <1>1, RoundMoves, Zenon DEF parent_round, writable
  <2>2. UNCHANGED childVars
    BY <1>1 DEF parent_round, round
  <2> QED
    BY <2>1, <2>2 DEF FdInv, AnswerInv, PolledInSlot, ReadBeforePollout,
                      AnswersOwnRequest, childVars
<1>2. CASE child_process
  BY <1>2, PollMoves, RecvMoves, SlotMoves DEF child_process, FdInv
<1>3. ASSUME NEW c \in Conns, arrive(c) PROVE FdInv'
  <2>1. FdTypeOK' /\ OnePlace'
    BY <1>3, ArriveMoves
  <2>2. UNCHANGED childVars
    BY <1>3 DEF arrive
  <2> QED
    BY <2>1, <2>2 DEF FdInv, AnswerInv, PolledInSlot, ReadBeforePollout,
                      AnswersOwnRequest, childVars
<1>4. ASSUME NEW c \in Conns, request(c) \/ close(c) \/ reset(c) PROVE FdInv'
  <2>1. PICK from \in {"connected", "requested"}, to \in {"requested", "closed", "reset"} :
          act(c, from, to)
    BY <1>4 DEF request, close, reset
  <2>2. /\ UNCHANGED <<channel, backlog, async_fd, lost, slots>> /\ UNCHANGED childVars
        /\ client' = [client EXCEPT ![c] = to]
    BY <2>1 DEF act, parentVars, childVars
  <2>3. FdTypeOK'
    BY <2>2 DEF FdInv, FdTypeOK, childVars
  <2>4. \A d \in Conns : (client'[d] = "idle") <=> (client[d] = "idle")
    BY <2>1, <2>2 DEF FdInv, FdTypeOK, act
  <2>5. OnePlace'
    BY <2>2, <2>4 DEF FdInv, OnePlace
  <2> QED
    BY <2>2, <2>3, <2>5 DEF FdInv, AnswerInv, PolledInSlot, ReadBeforePollout,
                            AnswersOwnRequest, childVars
<1>5. CASE UNCHANGED vars
  BY <1>5 DEF vars, parentVars, childVars, FdInv, FdTypeOK, OnePlace, AnswerInv,
              PolledInSlot, ReadBeforePollout, AnswersOwnRequest
<1> QED
  BY <1>1, <1>2, <1>3, <1>4, <1>5 DEF Next

LEMMA FdInitial == Init => FdInv
<1> SUFFICES ASSUME Init PROVE FdInv
  OBVIOUS
<1>1. FdTypeOK
  BY DEF Init, FdTypeOK
<1>2. OnePlace
  BY InEmpty, FdAssumption DEF Init, OnePlace
<1> QED
  BY <1>1, <1>2 DEF Init, FdInv, AnswerInv, PolledInSlot, ReadBeforePollout, AnswersOwnRequest

\* However many clients arrive, and whatever the limits on descriptors and
\* on the socket pair are, a connection is at one place: parent_process and
\* child_process neither duplicate a descriptor nor drop one without a trace.
THEOREM ConnectionInOnePlace == Spec => []OnePlace
<1>1. FdInv => OnePlace
  BY DEF FdInv
<1> QED
  BY <1>1, FdInitial, FdInductive, PTL DEF Spec

\* child_process writes a response only after it has read the request of the
\* same connection, and closes the slot with it: it is never written twice.
THEOREM AnswersOnceItsRequest == Spec => []AnswersOwnRequest
<1>1. FdInv => AnswersOwnRequest
  BY DEF FdInv, AnswerInv
<1> QED
  BY <1>1, FdInitial, FdInductive, PTL DEF Spec
=============================================================================
