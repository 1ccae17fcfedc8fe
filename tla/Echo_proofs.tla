----------------------------- MODULE Echo_proofs -----------------------------
(***************************************************************************)
(* set/echo for any number of clients, any documents and any buffer sizes. *)
(* The lines of a connection are numbered, and while its client is there   *)
(* they lie one behind the other: printed, on their way back, in the       *)
(* server's buffer, on their way to it.                                    *)
(***************************************************************************)
EXTENDS Echo, SequenceTheorems, TLAPS

Lines == Conns \X Nat

ServerTypeOK ==
  /\ spc \in {"start", "setup", "poll", "accept", "slots", "send"}
  /\ at \in Nat \ {0} /\ (spc = "send" => at <= Len(slots))
  /\ slots \in Seq(Conns) /\ backlog \in Seq(Conns)
  /\ newcomer \in BOOLEAN /\ pending \in Seq(Lines)
WireTypeOK ==
  /\ up \in [Conns -> Seq(Lines)] /\ down \in [Conns -> Seq(Lines)]
  /\ got \in [Conns -> Seq(Lines)] /\ wrote \in [Conns -> Nat]
  /\ upEnd \in [Conns -> {"open", "fin", "rst"}]
  /\ downEnd \in [Conns -> {"open", "fin"}]
ClientTypeOK ==
  /\ cpc \in [Clients -> {"start", "connect", "refused", "select", "stdin", "sock", "exited"}]
  /\ conn \in [Clients -> 0 .. MaxConns] /\ used \in 0 .. MaxConns
  /\ stand_id_flag \in [Clients -> BOOLEAN]
  /\ fdset \in [Clients -> SUBSET {"stdin", "sock"}]
  /\ setup \in Setups /\ input \in [Clients -> Seq({"line", "q"})]

EchoTypeOK == ServerTypeOK /\ WireTypeOK /\ ClientTypeOK

\* A connection belongs to one client, which keeps it until it reconnects.
OneClient ==
  /\ \A c \in Clients :
       /\ cpc[c] \in {"start", "connect", "refused"} <=> conn[c] = None
       /\ conn[c] <= used
  /\ \A c, d \in Clients : conn[c] = conn[d] /\ conn[c] # None => c = d

\* The server knows the connections there have been, and accept() finds one
\* when poll() had reported it.
Known ==
  /\ \A i \in DOMAIN slots : slots[i] <= used
  /\ \A i \in DOMAIN backlog : backlog[i] <= used
  /\ spc = "accept" /\ newcomer => backlog # <<>>

\* A connection not made yet is empty and open in both directions.
Fresh == \A k \in Conns : k > used =>
           /\ up[k] = <<>> /\ down[k] = <<>> /\ got[k] = <<>> /\ wrote[k] = 0
           /\ upEnd[k] = "open" /\ downEnd[k] = "open"

-----------------------------------------------------------------------------
(* g: the lines printed; d: on their way back; p: in the server; u: on     *)
(* their way to it; w: how many were written.                              *)

Numbered(k, s, n) == \A j \in DOMAIN s : s[j] = <<k, n + j>>

Stream(k, g, d, p, u, w) ==
  /\ Numbered(k, g, 0) /\ Numbered(k, d, Len(g)) /\ Numbered(k, p, Len(g) + Len(d))
  /\ Numbered(k, u, Len(g) + Len(d) + Len(p))
  /\ w = Len(g) + Len(d) + Len(p) + Len(u)

\* What the server has read from a connection and not sent back yet.
Held(k) == IF spc = "send" /\ slots[at] = k THEN pending ELSE <<>>

\* The lines of a connection whose client is there.
Flow == \A k \in Conns : ~Gone(k) => Stream(k, got[k], down[k], Held(k), up[k], wrote[k])

\* Standard input is looked at only before its end.
AsksInput == \A c \in Clients : cpc[c] = "stdin" /\ "stdin" \in fdset[c] => ~stand_id_flag[c]

\* The direction to the server ends when the client has come to the end of
\* its input.
InputDone ==
  \A c \in Clients, k \in Conns :
    conn[c] = k /\ upEnd[k] # "open" => stand_id_flag[c] /\ input[c] = <<>>

\* The other direction ends when the server has sent everything back.
AllSentBack ==
  \A k \in Conns : ~Gone(k) /\ downEnd[k] # "open" =>
    up[k] = <<>> /\ Held(k) = <<>> /\ upEnd[k] # "open"

Ends == AsksInput /\ InputDone /\ AllSentBack

EchoInv == /\ EchoTypeOK /\ OneClient /\ Known /\ Fresh
           /\ Flow /\ EchoesInOrder /\ Ends /\ NothingMissing

-----------------------------------------------------------------------------
(* What a client and the server do to the lines of a connection.           *)

LEMMA StreamWrite ==
  ASSUME NEW k \in Conns, NEW g \in Seq(Lines), NEW d \in Seq(Lines), NEW p \in Seq(Lines),
         NEW u \in Seq(Lines), NEW w \in Nat, Stream(k, g, d, p, u, w)
  PROVE  Stream(k, g, d, p, Append(u, <<k, w + 1>>), w + 1)
<1> DEFINE a == Append(u, <<k, w + 1>>)
           n == Len(g) + Len(d) + Len(p)
<1>1. <<k, w + 1>> \in Lines
  BY DEF Lines
<1>2. /\ DOMAIN u = 1 .. Len(u) /\ DOMAIN a = 1 .. Len(u) + 1 /\ Len(a) = Len(u) + 1
      /\ \A j \in DOMAIN u : a[j] = u[j]
      /\ a[Len(u) + 1] = <<k, w + 1>>
  BY <1>1
<1>3. Len(g) \in Nat /\ Len(d) \in Nat /\ Len(p) \in Nat /\ Len(u) \in Nat /\ n \in Nat
  OBVIOUS
<1>4. w = n + Len(u) /\ Numbered(k, u, n)
  BY DEF Stream
<1> HIDE DEF a, n
<1>5. Numbered(k, a, n)
  <2> SUFFICES ASSUME NEW j \in DOMAIN a PROVE a[j] = <<k, n + j>>
    BY DEF Numbered
  <2>1. CASE j \in DOMAIN u
    BY <1>2, <1>4, <2>1 DEF Numbered
  <2>2. CASE j = Len(u) + 1
    <3>1. w + 1 = n + j
      BY <1>3, <1>4, <2>2
    <3> QED
      BY <1>2, <2>2, <3>1
  <2> QED
    BY <1>2, <1>3, <2>1, <2>2, SMTT(30)
<1>6. w + 1 = n + Len(a)
  BY <1>2, <1>3, <1>4
<1> QED
  BY <1>5, <1>6 DEF Stream, a, n

LEMMA StreamRead ==
  ASSUME NEW k \in Conns, NEW g \in Seq(Lines), NEW d \in Seq(Lines), NEW u \in Seq(Lines),
         NEW w \in Nat, Stream(k, g, d, <<>>, u, w), NEW m \in 1 .. Len(u)
  PROVE  Stream(k, g, d, SubSeq(u, 1, m), SubSeq(u, m + 1, Len(u)), w)
<1> DEFINE a == SubSeq(u, 1, m)
           b == SubSeq(u, m + 1, Len(u))
           n == Len(g) + Len(d)
<1>1. /\ Len(g) \in Nat /\ Len(d) \in Nat /\ Len(u) \in Nat /\ n \in Nat /\ m \in Nat
      /\ m <= Len(u) /\ DOMAIN u = 1 .. Len(u)
  OBVIOUS
<1>2. Len(a) = m /\ DOMAIN a = 1 .. m /\ \A j \in 1 .. m : a[j] = u[j]
  BY <1>1
<1>3. /\ Len(b) = Len(u) - m /\ DOMAIN b = 1 .. Len(u) - m
      /\ \A j \in 1 .. Len(u) - m : b[j] = u[m + j]
  <2>1. m + 1 \in Int /\ Len(u) \in Int /\ \A i \in m + 1 .. Len(u) : u[i] \in Lines
    BY <1>1
  <2>2. /\ b \in Seq(Lines) /\ Len(b) = IF m + 1 <= Len(u) THEN Len(u) - (m + 1) + 1 ELSE 0
        /\ \A i \in 1 .. Len(u) - (m + 1) + 1 : b[i] = u[m + 1 + i - 1]
    BY <2>1, SubSeqProperties
  <2> HIDE DEF b
  <2>3. Len(u) - (m + 1) + 1 = Len(u) - m
    BY <1>1
  <2>4. Len(b) = Len(u) - m
    <3>1. CASE m + 1 <= Len(u)
      BY <2>2, <2>3, <3>1
    <3>2. CASE ~(m + 1 <= Len(u))
      <4>1. ASSUME NEW x \in Nat, NEW y \in Nat, x <= y, ~(x + 1 <= y) PROVE y - x = 0
        BY <4>1
      <4>2. Len(u) - m = 0
        BY <1>1, <3>2, <4>1, Zenon
      <4> QED
        BY <2>2, <3>2, <4>2
    <3> QED
      BY <3>1, <3>2
  <2>5. DOMAIN b = 1 .. Len(u) - m
    BY <2>2, <2>4
  <2>6. ASSUME NEW j \in 1 .. Len(u) - m PROVE b[j] = u[m + j]
    <3>1. b[j] = u[m + 1 + j - 1]
      BY <2>2, <2>3, Zenon
    <3>2. m + 1 + j - 1 = m + j
      BY <1>1
    <3> QED
      BY <3>1, <3>2
  <2> QED
    BY <2>4, <2>5, <2>6, Zenon
<1>4. w = n + Len(u) /\ Numbered(k, u, n)
  BY <1>1 DEF Stream
<1> HIDE DEF a, b, n
<1>5. Numbered(k, a, n)
  BY <1>1, <1>2, <1>4 DEF Numbered
<1>6. Numbered(k, b, n + m)
  <2> SUFFICES ASSUME NEW j \in DOMAIN b PROVE b[j] = <<k, n + m + j>>
    BY DEF Numbered
  <2>1. m + j \in DOMAIN u /\ b[j] = u[m + j] /\ n + (m + j) = n + m + j
    BY <1>1, <1>3, SMTT(30)
  <2> QED
    BY <1>4, <2>1 DEF Numbered
<1>7. w = n + Len(a) + Len(b)
  BY <1>1, <1>2, <1>3, <1>4
<1> QED
  BY <1>2, <1>5, <1>6, <1>7, Zenon DEF Stream, a, b, n

\* Two consecutive parts put together.
LEMMA NumberedConcat ==
  ASSUME NEW k, NEW s \in Seq(Lines), NEW t \in Seq(Lines), NEW n \in Nat,
         Numbered(k, s, n), Numbered(k, t, n + Len(s))
  PROVE  /\ s \o t \in Seq(Lines) /\ Len(s \o t) = Len(s) + Len(t)
         /\ Numbered(k, s \o t, n)
<1>1. /\ s \o t \in Seq(Lines) /\ Len(s \o t) = Len(s) + Len(t)
      /\ DOMAIN (s \o t) = 1 .. Len(s) + Len(t)
      /\ DOMAIN s = 1 .. Len(s) /\ DOMAIN t = 1 .. Len(t)
      /\ Len(s) \in Nat /\ Len(t) \in Nat
      /\ \A j \in 1 .. Len(s) + Len(t) :
           (s \o t)[j] = IF j <= Len(s) THEN s[j] ELSE t[j - Len(s)]
  OBVIOUS
<1>2. ASSUME NEW j \in 1 .. Len(s) + Len(t) PROVE (s \o t)[j] = <<k, n + j>>
  <2>1. CASE j <= Len(s)
    BY <1>1, <2>1 DEF Numbered
  <2>2. CASE j > Len(s)
    <3>1. j - Len(s) \in DOMAIN t /\ n + Len(s) + (j - Len(s)) = n + j
      BY <1>1, <2>2
    <3>2. (s \o t)[j] = t[j - Len(s)]
      BY <1>1, <2>2
    <3> QED
      BY <3>1, <3>2 DEF Numbered
  <2> QED
    BY <1>1, <2>1, <2>2
<1> QED
  BY <1>1, <1>2, SMTT(30) DEF Numbered

LEMMA StreamSend ==
  ASSUME NEW k \in Conns, NEW g \in Seq(Lines), NEW d \in Seq(Lines), NEW p \in Seq(Lines),
         NEW u \in Seq(Lines), NEW w \in Nat, Stream(k, g, d, p, u, w)
  PROVE  Stream(k, g, d \o p, <<>>, u, w)
<1>1. Len(g) \in Nat /\ Len(d) \in Nat /\ Len(p) \in Nat /\ Len(u) \in Nat
  OBVIOUS
<1>2. Numbered(k, d \o p, Len(g)) /\ Len(d \o p) = Len(d) + Len(p)
  BY <1>1, NumberedConcat DEF Stream
<1>3. Len(<<>>) = 0 /\ Numbered(k, <<>>, Len(g) + Len(d \o p))
  BY DEF Numbered
<1>4. Len(g) + Len(d \o p) + 0 = Len(g) + Len(d) + Len(p)
  BY <1>1, <1>2
<1> QED
  BY <1>1, <1>2, <1>3, <1>4 DEF Stream

LEMMA StreamPrint ==
  ASSUME NEW k \in Conns, NEW g \in Seq(Lines), NEW d \in Seq(Lines), NEW p \in Seq(Lines),
         NEW u \in Seq(Lines), NEW w \in Nat, Stream(k, g, d, p, u, w)
  PROVE  Stream(k, g \o d, <<>>, p, u, w)
<1>1. Len(g) \in Nat /\ Len(d) \in Nat /\ Len(p) \in Nat /\ Len(u) \in Nat
  OBVIOUS
<1>2. Numbered(k, g \o d, 0) /\ Len(g \o d) = Len(g) + Len(d)
  <2>1. 0 \in Nat /\ 0 + Len(g) = Len(g)
    BY <1>1
  <2> QED
    BY <2>1, NumberedConcat DEF Stream
<1>3. Len(<<>>) = 0 /\ Numbered(k, <<>>, Len(g \o d))
  BY DEF Numbered
<1>4. Len(g \o d) + 0 = Len(g) + Len(d)
  BY <1>1, <1>2
<1> QED
  BY <1>1, <1>2, <1>3, <1>4 DEF Stream

-----------------------------------------------------------------------------
(* The steps, by what they change of what the invariant speaks of.         *)

flow == <<slots, backlog, up, down, upEnd, downEnd, cpc, conn, input, stand_id_flag, fdset,
          used, wrote, got>>

\* The server goes on without touching a connection.
Passes == /\ spc # "send" /\ spc' \in {"setup", "poll", "accept", "slots"} /\ at' \in Nat \ {0}
          /\ newcomer' \in BOOLEAN /\ (spc' = "accept" /\ newcomer' => backlog # <<>>)
          /\ UNCHANGED <<flow, pending>>

ReadsLines(k, m) ==
  /\ pending' = SubSeq(up[k], 1, m)
  /\ up' = [up EXCEPT ![k] = SubSeq(@, m + 1, Len(@))]
  /\ spc' = "send" /\ at' = at
  /\ UNCHANGED <<slots, newcomer, backlog, down, upEnd, downEnd, clients, history>>
ReadsEnd(k) ==
  /\ up[k] = <<>> /\ upEnd[k] = "fin" /\ downEnd' = [downEnd EXCEPT ![k] = "fin"]
  /\ spc' = spc /\ at' = at + 1
  /\ UNCHANGED <<slots, newcomer, backlog, pending, up, down, upEnd, clients, history>>
ReadsError(k) ==
  /\ upEnd[k] = "rst" /\ upEnd' = [upEnd EXCEPT ![k] = "fin"]
  /\ spc' = spc /\ at' = at + 1
  /\ UNCHANGED <<slots, newcomer, backlog, pending, up, down, downEnd, clients, history>>

LEMMA EchoSteps ==
  ASSUME EchoTypeOK, [EchoNext]_echoVars
  PROVE  /\ setup' = setup
         /\ \/ UNCHANGED echoVars \/ Passes \/ accept \/ send
            \/ /\ spc = "slots" /\ at <= Len(slots)
               /\ \E k \in Conns : /\ k = slots[at]
                                   /\ \/ \E m \in 1 .. Len(up[k]) : ReadsLines(k, m)
                                      \/ ReadsEnd(k) \/ ReadsError(k)
            \/ \E c \in Clients : open_fifo(c) \/ connect(c) \/ select(c) \/ stdin(c) \/ sock(c)
<1>1. setup' = setup
  BY DEF EchoNext, Server, Client, echoVars
<1>2. CASE create_fifo \/ listen \/ poll
  <2>1. Passes
    BY <1>2, Zenon DEF create_fifo, listen, poll, Passes, flow, wire, clients, history,
                       EchoTypeOK, ServerTypeOK
  <2> QED
    BY <1>1, <2>1
<1>3. CASE slot
  <2>1. spc = "slots" /\ UNCHANGED <<slots, revents, newcomer, backlog, down, clients, history>>
    BY <1>3 DEF slot
  <2>2. CASE at <= Len(slots) /\ read(slots[at])
    <3>0. slots \in Seq(Conns) /\ at \in 1 .. Len(slots)
      BY <2>2 DEF EchoTypeOK, ServerTypeOK
    <3>1. PICK k \in Conns : k = slots[at]
      BY <3>0
    <3>2. \/ \E m \in 1 .. Len(up[k]) : ReadsLines(k, m)
          \/ ReadsEnd(k) \/ ReadsError(k)
      BY <2>1, <2>2, <3>1 DEF read, ReadsLines, ReadsEnd, ReadsError
    <3> QED
      BY <1>1, <2>1, <2>2, <3>1, <3>2
  <2>3. CASE UNCHANGED <<pending, up, upEnd, downEnd>> /\ spc' \in {"poll", "slots"}
               /\ at' \in {at, at + 1}
    <3>1. Passes
      BY <2>1, <2>3 DEF Passes, flow, clients, history, EchoTypeOK, ServerTypeOK
    <3> QED
      BY <1>1, <3>1
  <2>4. \/ at <= Len(slots) /\ read(slots[at])
        \/ UNCHANGED <<pending, up, upEnd, downEnd>> /\ spc' \in {"poll", "slots"}
             /\ at' \in {at, at + 1}
    BY <1>3 DEF slot, EchoTypeOK, ServerTypeOK
  <2> QED
    BY <2>2, <2>3, <2>4
<1> QED
  BY <1>1, <1>2, <1>3 DEF EchoNext, Server, Client

LEMMA Parts ==
  ASSUME NEW u \in Seq(Lines), NEW m \in 1 .. Len(u)
  PROVE  SubSeq(u, 1, m) \in Seq(Lines) /\ SubSeq(u, m + 1, Len(u)) \in Seq(Lines)
<1>1. /\ 1 \in Int /\ m \in Int /\ m + 1 \in Int /\ Len(u) \in Int
      /\ \A i \in 1 .. m : u[i] \in Lines
      /\ \A i \in m + 1 .. Len(u) : u[i] \in Lines
  OBVIOUS
<1> QED
  BY <1>1, SubSeqProperties

LEMMA Owned ==
  ASSUME EchoTypeOK, OneClient, NEW c \in Clients,
         cpc[c] \in {"select", "stdin", "sock", "exited"}
  PROVE  conn[c] \in Conns
<1>1. conn[c] # None /\ conn[c] \in 0 .. MaxConns
  BY SMTT(30) DEF EchoTypeOK, ClientTypeOK, OneClient
<1> QED
  BY <1>1, EchoAssumption DEF Conns, None

LEMMA SlotAt ==
  ASSUME EchoTypeOK, at <= Len(slots)
  PROVE  slots[at] \in Conns
<1>1. slots \in Seq(Conns) /\ at \in 1 .. Len(slots)
  BY DEF EchoTypeOK, ServerTypeOK
<1> QED
  BY <1>1

LEMMA ServerTypeStep ==
  ASSUME EchoTypeOK, OneClient, Known, [EchoNext]_echoVars
  PROVE  ServerTypeOK'
<1>0. ServerTypeOK
  BY DEF EchoTypeOK
<1>1. CASE UNCHANGED echoVars
  BY <1>0, <1>1 DEF echoVars, server, ServerTypeOK
<1>2. CASE Passes
  BY <1>0, <1>2 DEF Passes, flow, ServerTypeOK
<1>3. CASE accept
  <2>1. spc = "accept" /\ spc' = "slots" /\ at' = 1 /\ UNCHANGED <<newcomer, pending>>
    BY <1>3 DEF accept
  <2>2. CASE newcomer
    <3>1. backlog # <<>> /\ backlog \in Seq(Conns) /\ slots \in Seq(Conns)
      BY <1>0, <2>1, <2>2 DEF Known, ServerTypeOK
    <3>2. Head(backlog) \in Conns /\ Tail(backlog) \in Seq(Conns)
      BY <3>1
    <3>3. slots' = Append(slots, Head(backlog)) /\ backlog' = Tail(backlog)
      BY <1>3, <2>2 DEF accept
    <3>4. slots' \in Seq(Conns) /\ backlog' \in Seq(Conns)
      BY <3>1, <3>2, <3>3
    <3> QED
      BY <1>0, <2>1, <3>4 DEF ServerTypeOK
  <2>3. CASE ~newcomer
    BY <1>0, <1>3, <2>1, <2>3 DEF accept, ServerTypeOK
  <2> QED
    BY <2>2, <2>3
<1>4. CASE send
  BY <1>0, <1>4 DEF send, ServerTypeOK
<1>5. ASSUME at <= Len(slots), NEW k \in Conns, NEW m \in 1 .. Len(up[k]), ReadsLines(k, m)
      PROVE  ServerTypeOK'
  <2>1. SubSeq(up[k], 1, m) \in Seq(Lines)
    BY Parts DEF EchoTypeOK, WireTypeOK
  <2> QED
    BY <1>0, <1>5, <2>1 DEF ReadsLines, ServerTypeOK
<1>6. ASSUME spc = "slots", NEW k \in Conns, ReadsEnd(k) \/ ReadsError(k) PROVE ServerTypeOK'
  BY <1>0, <1>6 DEF ReadsEnd, ReadsError, ServerTypeOK
<1>7. ASSUME NEW c \in Clients, connect(c) PROVE ServerTypeOK'
  <2>1. used < MaxConns => used + 1 \in Conns
    BY EchoAssumption DEF Conns, EchoTypeOK, ClientTypeOK
  <2>2. backlog' = backlog \/ (used < MaxConns /\ backlog' = Append(backlog, used + 1))
    BY <1>7 DEF connect
  <2>3. backlog' \in Seq(Conns)
    <3>1. backlog \in Seq(Conns)
      BY <1>0 DEF ServerTypeOK
    <3> QED
      BY <2>1, <2>2, <3>1
  <2> QED
    BY <1>0, <1>7, <2>3 DEF connect, server, ServerTypeOK
<1>8. ASSUME NEW c \in Clients, open_fifo(c) \/ select(c) \/ stdin(c) \/ sock(c)
      PROVE  ServerTypeOK'
  BY <1>0, <1>8, Zenon DEF open_fifo, select, stdin, sock, server, ServerTypeOK
<1> QED
  BY <1>1, <1>2, <1>3, <1>4, <1>5, <1>6, <1>7, <1>8, EchoSteps

LEMMA WireTypeStep ==
  ASSUME EchoTypeOK, OneClient, Known, [EchoNext]_echoVars
  PROVE  WireTypeOK'
<1>0. WireTypeOK
  BY DEF EchoTypeOK
<1>1. CASE UNCHANGED <<up, down, upEnd, downEnd, wrote, got>>
  BY <1>0, <1>1 DEF WireTypeOK
<1>2. CASE send
  <2>1. PICK k \in Conns : k = slots[at]
    BY <1>2, SlotAt DEF send, EchoTypeOK, ServerTypeOK
  <2>2. /\ down' = down \/ down' = [down EXCEPT ![k] = down[k] \o pending]
        /\ upEnd' = upEnd \/ \E end \in {upEnd[k], "rst"} : upEnd' = [upEnd EXCEPT ![k] = end]
        /\ UNCHANGED <<up, downEnd, wrote, got>>
    BY <1>2, <2>1 DEF send, history
  <2>3. down[k] \o pending \in Seq(Lines)
    <3>1. down[k] \in Seq(Lines) /\ pending \in Seq(Lines)
      BY DEF EchoTypeOK, ServerTypeOK, WireTypeOK
    <3> QED
      BY <3>1
  <2>4. down' \in [Conns -> Seq(Lines)]
    BY <1>0, <2>2, <2>3, Zenon DEF WireTypeOK
  <2>5. upEnd' \in [Conns -> {"open", "fin", "rst"}]
    BY <1>0, <2>2 DEF WireTypeOK
  <2> QED
    BY <1>0, <2>2, <2>4, <2>5 DEF WireTypeOK
<1>3. ASSUME NEW k \in Conns, NEW m \in 1 .. Len(up[k]), ReadsLines(k, m) PROVE WireTypeOK'
  <2>1. up' \in [Conns -> Seq(Lines)]
    <3>1. SubSeq(up[k], m + 1, Len(up[k])) \in Seq(Lines)
      BY <1>0, Parts DEF WireTypeOK
    <3> QED
      BY <1>0, <1>3, <3>1 DEF WireTypeOK, ReadsLines
  <2> QED
    BY <1>0, <1>3, <2>1 DEF ReadsLines, history, WireTypeOK
<1>4. ASSUME NEW k \in Conns, ReadsEnd(k) \/ ReadsError(k) PROVE WireTypeOK'
  <2>1. /\ downEnd' \in [Conns -> {"open", "fin"}]
        /\ upEnd' \in [Conns -> {"open", "fin", "rst"}]
    BY <1>0, <1>4, Zenon DEF ReadsEnd, ReadsError, WireTypeOK
  <2> QED
    BY <1>0, <1>4, <2>1 DEF ReadsEnd, ReadsError, history, WireTypeOK
<1>5. ASSUME NEW c \in Clients, stdin(c) PROVE WireTypeOK'
  <2>1. PICK k \in Conns : k = conn[c]
    BY <1>5, Owned DEF stdin
  <2>2. /\ UNCHANGED <<down, downEnd, got>>
        /\ \/ up' = up /\ wrote' = wrote
           \/ /\ up' = [up EXCEPT ![k] = Append(up[k], <<k, wrote[k] + 1>>)]
              /\ wrote' = [wrote EXCEPT ![k] = wrote[k] + 1]
    BY <1>5, <2>1, Zenon DEF stdin, at_eof, at_q, at_line
  <2>3. upEnd' = upEnd \/ \E end \in {"fin", "rst"} : upEnd' = [upEnd EXCEPT ![k] = end]
    BY <1>5, <2>1, Zenon DEF stdin, at_eof, at_q, at_line
  <2>4. Append(up[k], <<k, wrote[k] + 1>>) \in Seq(Lines) /\ wrote[k] + 1 \in Nat
    <3>1. up[k] \in Seq(Lines) /\ <<k, wrote[k] + 1>> \in Lines /\ wrote[k] \in Nat
      BY <1>0 DEF Lines, WireTypeOK
    <3> QED
      BY <3>1
  <2>5. up' \in [Conns -> Seq(Lines)]
    BY <1>0, <2>2, <2>4, Zenon DEF WireTypeOK
  <2>6. wrote' \in [Conns -> Nat]
    BY <1>0, <2>2, <2>4, Zenon DEF WireTypeOK
  <2>7. upEnd' \in [Conns -> {"open", "fin", "rst"}]
    BY <1>0, <2>3, Zenon DEF WireTypeOK
  <2> QED
    BY <1>0, <2>2, <2>5, <2>6, <2>7 DEF WireTypeOK
<1>6. ASSUME NEW c \in Clients, sock(c) PROVE WireTypeOK'
  <2>1. PICK k \in Conns : k = conn[c]
    BY <1>6, Owned DEF sock
  <2>2. /\ UNCHANGED <<up, upEnd, downEnd, wrote>>
        /\ \/ UNCHANGED <<down, got>>
           \/ /\ got' = [got EXCEPT ![k] = got[k] \o down[k]]
              /\ down' = [down EXCEPT ![k] = <<>>]
    BY <1>6, <2>1, Zenon DEF sock
  <2>3. got[k] \o down[k] \in Seq(Lines) /\ <<>> \in Seq(Lines)
    <3>1. got[k] \in Seq(Lines) /\ down[k] \in Seq(Lines)
      BY <1>0 DEF WireTypeOK
    <3> QED
      BY <3>1
  <2>4. got' \in [Conns -> Seq(Lines)]
    BY <1>0, <2>2, <2>3, Zenon DEF WireTypeOK
  <2>5. down' \in [Conns -> Seq(Lines)]
    BY <1>0, <2>2, <2>3, Zenon DEF WireTypeOK
  <2> QED
    BY <1>0, <2>2, <2>4, <2>5 DEF WireTypeOK
<1>7. CASE UNCHANGED echoVars \/ Passes \/ accept
             \/ \E c \in Clients : open_fifo(c) \/ connect(c) \/ select(c)
  BY <1>1, <1>7, ZenonT(30)
     DEF echoVars, Passes, flow, accept, open_fifo, connect, select, wire, history
<1> QED
  BY <1>2, <1>3, <1>4, <1>5, <1>6, <1>7, EchoSteps

LEMMA ClientTypeStep ==
  ASSUME EchoTypeOK, OneClient, Known, [EchoNext]_echoVars
  PROVE  ClientTypeOK'
<1>0. ClientTypeOK /\ setup' = setup
  BY EchoSteps DEF EchoTypeOK
<1> DEFINE Pcs == {"start", "connect", "refused", "select", "stdin", "sock", "exited"}
<1>1. CASE UNCHANGED <<cpc, conn, input, stand_id_flag, fdset, used>>
  BY <1>0, <1>1 DEF ClientTypeOK
<1>2. ASSUME NEW c \in Clients, open_fifo(c) \/ select(c) PROVE ClientTypeOK'
  <2>1. /\ UNCHANGED <<conn, input, stand_id_flag, used>>
        /\ \E x \in Pcs : cpc' = [cpc EXCEPT ![c] = x]
    BY <1>2 DEF open_fifo, select, history
  <2>2. fdset' = fdset \/ \E x \in SUBSET {"stdin", "sock"} : fdset' = [fdset EXCEPT ![c] = x]
    BY <1>2, Zenon DEF open_fifo, select
  <2>3. fdset' \in [Clients -> SUBSET {"stdin", "sock"}]
    BY <1>0, <2>2, Zenon DEF ClientTypeOK
  <2>4. cpc' \in [Clients -> Pcs]
    BY <1>0, <2>1 DEF ClientTypeOK
  <2> QED
    BY <1>0, <2>1, <2>3, <2>4 DEF ClientTypeOK
<1>3. ASSUME NEW c \in Clients, connect(c) PROVE ClientTypeOK'
  <2>1. UNCHANGED <<input, fdset>>
    BY <1>3 DEF connect
  <2>2. used' \in 0 .. MaxConns /\ conn' \in [Clients -> 0 .. MaxConns]
    <3>1. used < MaxConns => used + 1 \in 0 .. MaxConns
      BY <1>0, EchoAssumption DEF ClientTypeOK
    <3>2. \/ UNCHANGED <<conn, used>>
          \/ used < MaxConns /\ used' = used + 1 /\ conn' = [conn EXCEPT ![c] = used + 1]
      BY <1>3 DEF connect
    <3> QED
      BY <1>0, <3>1, <3>2 DEF ClientTypeOK
  <2>3. cpc' \in [Clients -> Pcs] /\ stand_id_flag' \in [Clients -> BOOLEAN]
    BY <1>0, <1>3, Zenon DEF connect, ClientTypeOK
  <2> QED
    BY <1>0, <2>1, <2>2, <2>3 DEF ClientTypeOK
<1>4. ASSUME NEW c \in Clients, stdin(c) PROVE ClientTypeOK'
  <2>1. UNCHANGED <<fdset, used>>
    BY <1>4 DEF stdin
  <2>2. /\ \E x \in Pcs : cpc' = [cpc EXCEPT ![c] = x]
        /\ stand_id_flag' = stand_id_flag \/ stand_id_flag' = [stand_id_flag EXCEPT ![c] = TRUE]
        /\ conn' = conn \/ conn' = [conn EXCEPT ![c] = 0]
    BY <1>4, Zenon DEF stdin, at_eof, at_q, at_line, None
  <2>3. cpc' \in [Clients -> Pcs] /\ stand_id_flag' \in [Clients -> BOOLEAN]
    <3>1. cpc \in [Clients -> Pcs] /\ stand_id_flag \in [Clients -> BOOLEAN]
      BY <1>0 DEF ClientTypeOK
    <3>2. cpc' \in [Clients -> Pcs]
      BY <2>2, <3>1
    <3>3. stand_id_flag' \in [Clients -> BOOLEAN]
      BY <2>2, <3>1, Zenon
    <3> QED
      BY <3>2, <3>3
  <2>4. conn' \in [Clients -> 0 .. MaxConns]
    <3>1. 0 \in 0 .. MaxConns
      BY EchoAssumption
    <3> QED
      BY <1>0, <2>2, <3>1, ZenonT(30) DEF ClientTypeOK
  <2>5. input' \in [Clients -> Seq({"line", "q"})]
    <3>1. \/ input' = input
          \/ /\ input[c] # <<>>
             /\ \/ input' = [input EXCEPT ![c] = Tail(input[c]) \o setup.doc]
                \/ input' = [input EXCEPT ![c] = Tail(input[c])]
      BY <1>4, Zenon DEF stdin, at_eof, at_q, at_line
    <3>2. setup.doc \in Seq({"line", "q"}) /\ input[c] \in Seq({"line", "q"})
      BY <1>0, EchoAssumption DEF ClientTypeOK
    <3>3. input[c] # <<>> => /\ Tail(input[c]) \in Seq({"line", "q"})
                             /\ Tail(input[c]) \o setup.doc \in Seq({"line", "q"})
      BY <3>2
    <3> QED
      BY <1>0, <3>1, <3>3, Zenon DEF ClientTypeOK
  <2> QED
    BY <1>0, <2>1, <2>3, <2>4, <2>5 DEF ClientTypeOK
<1>5. ASSUME NEW c \in Clients, sock(c) PROVE ClientTypeOK'
  <2>1. /\ UNCHANGED <<conn, input, stand_id_flag, fdset, used>>
        /\ \E x \in Pcs : cpc' = [cpc EXCEPT ![c] = x]
    BY <1>5, Zenon DEF sock
  <2>2. cpc' \in [Clients -> Pcs]
    BY <1>0, <2>1 DEF ClientTypeOK
  <2> QED
    BY <1>0, <2>1, <2>2 DEF ClientTypeOK
<1>6. CASE UNCHANGED echoVars \/ Passes \/ accept \/ send
             \/ \E k \in Conns : \/ \E m \in 1 .. Len(up[k]) : ReadsLines(k, m)
                                 \/ ReadsEnd(k) \/ ReadsError(k)
  BY <1>1, <1>6 DEF echoVars, Passes, flow, accept, send, ReadsLines, ReadsEnd, ReadsError,
                    clients, history
<1> QED
  BY <1>2, <1>3, <1>4, <1>5, <1>6, EchoSteps

LEMMA EchoTypeStep ==
  ASSUME EchoTypeOK, OneClient, Known, [EchoNext]_echoVars
  PROVE  EchoTypeOK'
<1>1. ServerTypeOK' /\ WireTypeOK' /\ ClientTypeOK'
  BY ServerTypeStep, WireTypeStep, ClientTypeStep
<1> QED
  BY <1>1 DEF EchoTypeOK

-----------------------------------------------------------------------------
(* Whose a connection is, and which there are.                             *)

\* The steps of the server leave the clients alone.
ServerStep ==
  \/ Passes \/ accept \/ send
  \/ \E k \in Conns : \/ \E m \in 1 .. Len(up[k]) : ReadsLines(k, m)
                      \/ ReadsEnd(k) \/ ReadsError(k)

LEMMA ServerLeaves ==
  ASSUME ServerStep \/ UNCHANGED echoVars
  PROVE  UNCHANGED <<cpc, conn, input, stand_id_flag, fdset, used, wrote, got>>
BY DEF ServerStep, Passes, accept, send, ReadsLines, ReadsEnd, ReadsError, echoVars, flow,
       clients, history

LEMMA ClientLeaves ==
  ASSUME NEW c \in Clients, open_fifo(c) \/ connect(c) \/ select(c) \/ stdin(c) \/ sock(c)
  PROVE  UNCHANGED <<spc, at, slots, newcomer, pending>>
BY Zenon DEF open_fifo, connect, select, stdin, sock, server

LEMMA OneClientStep ==
  ASSUME EchoTypeOK, OneClient, [EchoNext]_echoVars
  PROVE  OneClient'
<1>0. ClientTypeOK
  BY DEF EchoTypeOK
<1>a. ASSUME NEW c \in Clients, NEW x, cpc' = [cpc EXCEPT ![c] = x], conn' = conn, used' = used,
             cpc[c] \in {"start", "connect", "refused"} <=> x \in {"start", "connect", "refused"}
      PROVE  OneClient'
  BY <1>0, <1>a DEF ClientTypeOK, OneClient
<1>1. CASE ServerStep \/ UNCHANGED echoVars
  BY <1>1, ServerLeaves DEF OneClient
<1>2. ASSUME NEW c \in Clients, open_fifo(c) \/ select(c) \/ sock(c) PROVE OneClient'
  <2>1. conn' = conn /\ used' = used
    BY <1>2, Zenon DEF open_fifo, select, sock, history
  <2>2. CASE open_fifo(c)
    BY <1>a, <2>1, <2>2 DEF open_fifo
  <2>3. CASE select(c)
    BY <1>a, <2>1, <2>3, Zenon DEF select
  <2>4. CASE sock(c)
    BY <1>a, <2>1, <2>4, Zenon DEF sock
  <2> QED
    BY <1>2, <2>2, <2>3, <2>4
<1>3. ASSUME NEW c \in Clients, connect(c) PROVE OneClient'
  <2>1. CASE cpc' = [cpc EXCEPT ![c] = "refused"] /\ UNCHANGED <<conn, used>>
    BY <1>3, <1>a, <2>1, Zenon DEF connect
  <2>2. CASE /\ used' = used + 1 /\ conn' = [conn EXCEPT ![c] = used + 1]
             /\ cpc' = [cpc EXCEPT ![c] = "select"]
    <3>1. /\ used' = used + 1 /\ conn' = [conn EXCEPT ![c] = used + 1]
          /\ cpc' = [cpc EXCEPT ![c] = "select"]
      BY <2>2
    <3>2. used \in Nat /\ used + 1 # None /\ \A d \in Clients : conn[d] \in Nat /\ conn[d] <= used
      BY <1>0, EchoAssumption DEF ClientTypeOK, OneClient, None
    <3>3. \A d \in Clients : conn'[d] = IF d = c THEN used + 1 ELSE conn[d]
      BY <1>0, <3>1 DEF ClientTypeOK
    <3>4. \A d \in Clients : conn'[d] <= used'
      BY <3>1, <3>2, <3>3
    <3>5. \A d, e \in Clients : conn'[d] = conn'[e] /\ conn'[d] # None => d = e
      BY <3>2, <3>3 DEF OneClient
    <3>6. \A d \in Clients : cpc'[d] \in {"start", "connect", "refused"} <=> conn'[d] = None
      BY <1>0, <3>1, <3>2, <3>3 DEF OneClient, ClientTypeOK
    <3> QED
      BY <3>4, <3>5, <3>6 DEF OneClient
  <2> QED
    BY <1>3, <2>1, <2>2 DEF connect
<1>4. ASSUME NEW c \in Clients, stdin(c) PROVE OneClient'
  <2>1. CASE conn' = conn
    <3>1. used' = used /\ cpc[c] = "stdin"
      BY <1>4 DEF stdin
    <3>2. CASE at_q(c)
      <4>1. conn[c] = None
        BY <1>0, <2>1, <3>2 DEF at_q, ClientTypeOK
      <4> QED
        BY <3>1, <4>1 DEF OneClient
    <3>3. CASE ~at_q(c)
      BY <1>4, <1>a, <2>1, <3>1, <3>3, Zenon DEF stdin, at_eof, at_line
    <3> QED
      BY <3>2, <3>3
  <2>2. CASE conn' # conn
    <3>1. /\ used' = used /\ conn' = [conn EXCEPT ![c] = None]
          /\ cpc' = [cpc EXCEPT ![c] = "connect"]
      BY <1>4, <2>2, Zenon DEF stdin, at_eof, at_line, at_q
    <3>2. None <= used
      BY <1>0, EchoAssumption DEF ClientTypeOK, None
    <3> QED
      BY <1>0, <3>1, <3>2 DEF OneClient, ClientTypeOK
  <2> QED
    BY <2>1, <2>2
<1> QED
  BY <1>1, <1>2, <1>3, <1>4, EchoSteps DEF ServerStep

LEMMA KnownStep ==
  ASSUME EchoTypeOK, OneClient, Known, [EchoNext]_echoVars
  PROVE  Known'
<1>0. ServerTypeOK /\ used \in Nat
  BY EchoAssumption DEF EchoTypeOK, ClientTypeOK
<1>1. CASE accept
  <2>1. used' = used /\ spc' = "slots" /\ spc = "accept"
    BY <1>1 DEF accept, history
  <2>2. CASE ~newcomer
    BY <1>1, <2>1, <2>2 DEF accept, Known
  <2>3. CASE newcomer
    <3>1. backlog # <<>> /\ backlog \in Seq(Conns) /\ slots \in Seq(Conns)
      BY <1>0, <2>1, <2>3 DEF Known, ServerTypeOK
    <3>2. slots' = Append(slots, Head(backlog)) /\ backlog' = Tail(backlog)
      BY <1>1, <2>3 DEF accept
    <3>3. Head(backlog) \in Conns /\ Head(backlog) <= used
      BY <3>1 DEF Known
    <3>4. \A i \in DOMAIN slots' : slots'[i] <= used
      BY <3>1, <3>2, <3>3 DEF Known
    <3>5. \A i \in DOMAIN backlog' : backlog'[i] <= used
      BY <3>1, <3>2 DEF Known
    <3> QED
      BY <2>1, <3>4, <3>5 DEF Known
  <2> QED
    BY <2>2, <2>3
<1>2. ASSUME NEW c \in Clients, connect(c) PROVE Known'
  <2>1. UNCHANGED <<spc, slots, newcomer>>
    BY <1>2, ClientLeaves
  <2>2. CASE UNCHANGED <<backlog, used>>
    BY <2>1, <2>2 DEF Known
  <2>3. CASE used' = used + 1 /\ backlog' = Append(backlog, used + 1) /\ used + 1 \in Conns
    <3>1. backlog \in Seq(Conns) /\ slots \in Seq(Conns)
      BY <1>0 DEF ServerTypeOK
    <3>2. \A i \in DOMAIN slots : slots[i] \in Nat /\ slots[i] <= used'
      BY <1>0, <2>3, <3>1, EchoAssumption DEF Known, Conns
    <3>3. \A i \in DOMAIN backlog : backlog[i] \in Nat /\ backlog[i] <= used'
      BY <1>0, <2>3, <3>1, EchoAssumption DEF Known, Conns
    <3>4. \A i \in DOMAIN backlog' : backlog'[i] <= used'
      BY <1>0, <2>3, <3>1, <3>3
    <3>5. backlog' # <<>>
      BY <2>3, <3>1
    <3> QED
      BY <2>1, <3>2, <3>4, <3>5 DEF Known
  <2>4. used < MaxConns => used + 1 \in Conns
    BY <1>0, EchoAssumption DEF Conns
  <2> QED
    BY <1>2, <2>2, <2>3, <2>4 DEF connect
<1>3. CASE Passes
  BY <1>3 DEF Passes, flow, Known
<1>4. CASE UNCHANGED <<slots, backlog, used>> /\ (spc' # "accept" \/ UNCHANGED <<spc, newcomer>>)
  BY <1>4 DEF Known
<1>5. ASSUME NEW c \in Clients, open_fifo(c) \/ select(c) \/ stdin(c) \/ sock(c) PROVE Known'
  BY <1>4, <1>5, ClientLeaves, Zenon DEF open_fifo, select, stdin, sock, history
<1>6. CASE UNCHANGED echoVars
  BY <1>4, <1>6 DEF echoVars, server, history
<1>7. CASE send
  BY <1>4, <1>7 DEF send, history
<1>8. ASSUME spc = "slots", NEW k \in Conns,
             (\E m \in 1 .. Len(up[k]) : ReadsLines(k, m)) \/ ReadsEnd(k) \/ ReadsError(k)
      PROVE  Known'
  BY <1>4, <1>8 DEF ReadsLines, ReadsEnd, ReadsError, history
<1> QED
  BY <1>1, <1>2, <1>3, <1>5, <1>6, <1>7, <1>8, EchoSteps

LEMMA FreshStep ==
  ASSUME EchoTypeOK, OneClient, Known, Fresh, [EchoNext]_echoVars
  PROVE  Fresh'
<1>0. WireTypeOK /\ used \in Nat
  BY EchoAssumption DEF EchoTypeOK, ClientTypeOK
<1>a. ASSUME used' = used, NEW k \in Conns, k <= used,
             \A j \in Conns \ {k} :
               /\ up'[j] = up[j] /\ down'[j] = down[j] /\ got'[j] = got[j]
               /\ wrote'[j] = wrote[j] /\ upEnd'[j] = upEnd[j] /\ downEnd'[j] = downEnd[j]
      PROVE  Fresh'
  <2>1. k \in Nat
    BY EchoAssumption DEF Conns
  <2> SUFFICES ASSUME NEW j \in Conns, j > used
               PROVE  /\ up'[j] = <<>> /\ down'[j] = <<>> /\ got'[j] = <<>> /\ wrote'[j] = 0
                      /\ upEnd'[j] = "open" /\ downEnd'[j] = "open"
    BY <1>a, Zenon DEF Fresh
  <2>2. j # k
    BY <1>0, <1>a, <2>1
  <2> QED
    BY <1>a, <2>2, Zenon DEF Fresh
<1>1. CASE UNCHANGED <<up, down, upEnd, downEnd, wrote, got, used>>
  BY <1>1 DEF Fresh
<1>2. CASE send
  <2>1. PICK k \in Conns : k = slots[at]
    BY <1>2, SlotAt DEF send, EchoTypeOK, ServerTypeOK
  <2>2. k <= used
    BY <1>2, <2>1 DEF send, Known, EchoTypeOK, ServerTypeOK
  <2>3. /\ down' = down \/ down' = [down EXCEPT ![k] = down[k] \o pending]
        /\ upEnd' = upEnd \/ \E end \in {upEnd[k], "rst"} : upEnd' = [upEnd EXCEPT ![k] = end]
        /\ UNCHANGED <<up, downEnd, wrote, got, used>>
    BY <1>2, <2>1 DEF send, history
  <2> QED
    BY <1>0, <1>a, <2>2, <2>3 DEF WireTypeOK
<1>3. ASSUME at <= Len(slots), NEW k \in Conns, k = slots[at],
             (\E m \in 1 .. Len(up[k]) : ReadsLines(k, m)) \/ ReadsEnd(k) \/ ReadsError(k)
      PROVE  Fresh'
  <2>1. k <= used
    BY <1>3 DEF Known, EchoTypeOK, ServerTypeOK
  <2>2. UNCHANGED <<down, wrote, got, used>>
    BY <1>3 DEF ReadsLines, ReadsEnd, ReadsError, history
  <2>3. \A j \in Conns \ {k} : up'[j] = up[j] /\ upEnd'[j] = upEnd[j] /\ downEnd'[j] = downEnd[j]
    BY <1>0, <1>3, SMTT(30) DEF ReadsLines, ReadsEnd, ReadsError, WireTypeOK
  <2> QED
    BY <1>a, <2>1, <2>2, <2>3
<1>4. ASSUME NEW c \in Clients, stdin(c) PROVE Fresh'
  <2>1. PICK k \in Conns : k = conn[c]
    BY <1>4, Owned DEF stdin
  <2>2. k <= used
    BY <2>1 DEF OneClient
  <2>3. UNCHANGED <<down, downEnd, got, used>>
    BY <1>4 DEF stdin
  <2>4. \A j \in Conns \ {k} : up'[j] = up[j] /\ upEnd'[j] = upEnd[j] /\ wrote'[j] = wrote[j]
    BY <1>0, <1>4, <2>1, Zenon DEF stdin, at_eof, at_q, at_line, WireTypeOK
  <2> QED
    BY <1>a, <2>2, <2>3, <2>4
<1>5. ASSUME NEW c \in Clients, sock(c) PROVE Fresh'
  <2>1. PICK k \in Conns : k = conn[c]
    BY <1>5, Owned DEF sock
  <2>2. k <= used
    BY <2>1 DEF OneClient
  <2>3. UNCHANGED <<up, upEnd, downEnd, wrote, used>>
    BY <1>5 DEF sock
  <2>4. \A j \in Conns \ {k} : down'[j] = down[j] /\ got'[j] = got[j]
    BY <1>0, <1>5, <2>1, SMTT(30) DEF sock, WireTypeOK
  <2> QED
    BY <1>a, <2>2, <2>3, <2>4, Zenon
<1>6. ASSUME NEW c \in Clients, connect(c) PROVE Fresh'
  <2>1. UNCHANGED <<up, down, upEnd, downEnd, wrote, got>> /\ used' \in {used, used + 1}
    BY <1>6 DEF connect, wire
  <2>2. \A k \in Conns : k > used' => k > used
    BY <1>0, <2>1, EchoAssumption DEF Conns
  <2> QED
    BY <2>1, <2>2 DEF Fresh
<1>7. CASE UNCHANGED echoVars \/ Passes \/ accept
             \/ \E c \in Clients : open_fifo(c) \/ select(c)
  BY <1>1, <1>7 DEF echoVars, Passes, flow, accept, open_fifo, select, wire, history
<1> QED
  BY <1>2, <1>3, <1>4, <1>5, <1>6, <1>7, EchoSteps

\* The lines of every connection stay in their order.
LEMMA FlowStep ==
  ASSUME EchoTypeOK, OneClient, Known, Fresh, Flow, [EchoNext]_echoVars
  PROVE  Flow'
<1>0. /\ up \in [Conns -> Seq(Lines)] /\ down \in [Conns -> Seq(Lines)]
      /\ got \in [Conns -> Seq(Lines)] /\ wrote \in [Conns -> Nat]
      /\ pending \in Seq(Lines) /\ used \in Nat /\ \A k \in Conns : Held(k) \in Seq(Lines)
  BY EchoAssumption DEF EchoTypeOK, ServerTypeOK, WireTypeOK, ClientTypeOK, Held
<1>a. ASSUME UNCHANGED <<up, down, wrote, got>>,
             \A k \in Conns : Held(k)' = Held(k), \A k \in Conns : ~Gone(k)' => ~Gone(k)
      PROVE  Flow'
  BY <1>a, Zenon DEF Flow
<1>b. spc # "send" => \A k \in Conns : Held(k) = <<>>
  BY DEF Held
<1>c. spc' # "send" => \A k \in Conns : Held(k)' = <<>>
  BY DEF Held
<1>d. conn' = conn => \A k \in Conns : Gone(k)' <=> Gone(k)
  BY DEF Gone
<1>e. UNCHANGED server => \A k \in Conns : Held(k)' = Held(k)
  BY DEF server, Held
<1>1. CASE UNCHANGED echoVars
  BY <1>1, <1>a, <1>d, <1>e DEF echoVars, wire, history, clients
<1>2. CASE Passes
  BY <1>2, <1>a, <1>b, <1>c, <1>d DEF Passes, flow
<1>3. CASE accept
  BY <1>3, <1>a, <1>b, <1>c, <1>d DEF accept, wire, history, clients
<1>4. CASE send
  <2>1. PICK k \in Conns : k = slots[at]
    BY <1>4, SlotAt DEF send, EchoTypeOK, ServerTypeOK
  <2>2. /\ Held(k) = pending /\ \A j \in Conns \ {k} : Held(j) = <<>>
        /\ \A j \in Conns : Held(j)' = <<>>
    BY <1>4, <2>1 DEF send, Held
  <2>3. UNCHANGED <<up, wrote, got, conn>>
    BY <1>4 DEF send, history, clients
  <2>4. \/ Gone(k) /\ down' = down
        \/ ~Gone(k) /\ down' = [down EXCEPT ![k] = down[k] \o pending]
    BY <1>4, <2>1 DEF send
  <2> SUFFICES ASSUME NEW j \in Conns, ~Gone(j)
               PROVE  Stream(j, got[j], down'[j], <<>>, up[j], wrote[j])
    BY <1>d, <2>2, <2>3 DEF Flow
  <2>5. Stream(j, got[j], down[j], Held(j), up[j], wrote[j])
    BY DEF Flow
  <2>6. CASE j = k
    <3>1. down'[j] = down[j] \o pending
      BY <1>0, <2>4, <2>6
    <3> QED
      BY <1>0, <2>2, <2>5, <2>6, <3>1, StreamSend
  <2>7. CASE j # k
    BY <1>0, <2>2, <2>4, <2>5, <2>7
  <2> QED
    BY <2>6, <2>7
<1>5. ASSUME spc = "slots", NEW k \in Conns, k = slots[at],
             NEW m \in 1 .. Len(up[k]), ReadsLines(k, m)
      PROVE  Flow'
  <2>1. UNCHANGED <<down, wrote, got, conn>>
    BY <1>5 DEF ReadsLines, history, clients
  <2>2. /\ Held(k)' = SubSeq(up[k], 1, m) /\ \A j \in Conns \ {k} : Held(j)' = <<>>
        /\ \A j \in Conns : Held(j) = <<>>
    BY <1>5 DEF ReadsLines, Held
  <2>3. up' = [up EXCEPT ![k] = SubSeq(up[k], m + 1, Len(up[k]))]
    BY <1>5 DEF ReadsLines
  <2> SUFFICES ASSUME NEW j \in Conns, ~Gone(j)
               PROVE  Stream(j, got[j], down[j], Held(j)', up'[j], wrote[j])
    BY <1>d, <2>1 DEF Flow
  <2>4. Stream(j, got[j], down[j], <<>>, up[j], wrote[j])
    BY <2>2 DEF Flow
  <2>5. CASE j = k
    <3>1. up'[j] = SubSeq(up[j], m + 1, Len(up[j])) /\ Held(j)' = SubSeq(up[j], 1, m)
      BY <1>0, <2>2, <2>3, <2>5
    <3>2. /\ got[j] \in Seq(Lines) /\ down[j] \in Seq(Lines) /\ up[j] \in Seq(Lines)
          /\ wrote[j] \in Nat /\ m \in 1 .. Len(up[j])
      BY <1>0, <2>5
    <3>3. Stream(j, got[j], down[j], SubSeq(up[j], 1, m), SubSeq(up[j], m + 1, Len(up[j])), wrote[j])
      BY <2>4, <3>2, StreamRead
    <3> QED
      BY <3>1, <3>3
  <2>6. CASE j # k
    BY <1>0, <2>2, <2>3, <2>4, <2>6
  <2> QED
    BY <2>5, <2>6
<1>6. ASSUME spc = "slots", NEW k \in Conns, ReadsEnd(k) \/ ReadsError(k) PROVE Flow'
  BY <1>6, <1>a, <1>b, <1>c, <1>d, Zenon DEF ReadsEnd, ReadsError, history, clients
<1>7. ASSUME NEW c \in Clients, connect(c) PROVE Flow'
  <2>0. UNCHANGED <<up, down, wrote, got, server>>
    BY <1>7, Zenon DEF connect, wire
  <2>1. CASE conn' = conn
    BY <1>a, <1>d, <1>e, <2>0, <2>1
  <2>2. CASE conn' # conn
    <3>1. PICK n \in Conns : n = used + 1
      BY <1>0, <1>7, <2>2, EchoAssumption DEF connect, Conns
    <3>2. conn' = [conn EXCEPT ![c] = n]
      BY <1>7, <2>2, <3>1 DEF connect
    <3>3. \A j \in Conns \ {n} : ~Gone(j)' => ~Gone(j)
      BY <3>2 DEF Gone, EchoTypeOK, ClientTypeOK
    <3>4. Held(n)' = <<>>
      <4>1. spc = "send" => slots[at] <= used
        BY DEF Known, EchoTypeOK, ServerTypeOK
      <4>2. spc = "send" => slots[at] # n
        BY <1>0, <3>1, <4>1
      <4> QED
        BY <1>e, <2>0, <4>2 DEF Held
    <3>5. n > used
      BY <1>0, <3>1
    <3>6. up[n] = <<>> /\ down[n] = <<>> /\ got[n] = <<>> /\ wrote[n] = 0
      BY <3>5 DEF Fresh
    <3>7. Stream(n, <<>>, <<>>, <<>>, <<>>, 0)
      BY DEF Stream, Numbered
    <3> SUFFICES ASSUME NEW j \in Conns, ~Gone(j)'
                 PROVE  Stream(j, got[j], down[j], Held(j)', up[j], wrote[j])
      BY <2>0 DEF Flow
    <3>8. CASE j = n
      BY <3>4, <3>6, <3>7, <3>8
    <3>9. CASE j # n
      BY <1>e, <2>0, <3>3, <3>9 DEF Flow
    <3> QED
      BY <3>8, <3>9
  <2> QED
    BY <2>1, <2>2
<1>8. ASSUME NEW c \in Clients, stdin(c) PROVE Flow'
  <2>1. PICK k \in Conns : k = conn[c]
    BY <1>8, Owned DEF stdin
  <2>2. UNCHANGED <<down, got>> /\ \A j \in Conns : Held(j)' = Held(j)
    BY <1>8, <1>e DEF stdin
  <2>3. \A j \in Conns : ~Gone(j)' => ~Gone(j)
    <3>1. conn' = conn \/ conn' = [conn EXCEPT ![c] = 0]
      BY <1>8, Zenon DEF stdin, at_eof, at_q, at_line, None
    <3>2. \A j \in Conns : j # 0
      BY EchoAssumption DEF Conns
    <3> QED
      BY <3>1, <3>2 DEF Gone, EchoTypeOK, ClientTypeOK
  <2>4. CASE up' = up /\ wrote' = wrote
    BY <1>a, <2>2, <2>3, <2>4
  <2>5. CASE /\ up' = [up EXCEPT ![k] = Append(up[k], <<k, wrote[k] + 1>>)]
             /\ wrote' = [wrote EXCEPT ![k] = wrote[k] + 1]
    <3> SUFFICES ASSUME NEW j \in Conns, ~Gone(j)
                 PROVE  Stream(j, got[j], down[j], Held(j), up'[j], wrote'[j])
      BY <2>2, <2>3 DEF Flow
    <3>1. Stream(j, got[j], down[j], Held(j), up[j], wrote[j])
      BY DEF Flow
    <3>2. CASE j = k
      <4>1. up'[j] = Append(up[j], <<j, wrote[j] + 1>>) /\ wrote'[j] = wrote[j] + 1
        BY <1>0, <2>5, <3>2
      <4> QED
        BY <1>0, <3>1, <4>1, StreamWrite, ZenonT(30)
    <3>3. CASE j # k
      BY <1>0, <2>5, <3>1, <3>3
    <3> QED
      BY <3>2, <3>3
  <2> QED
    BY <1>8, <2>1, <2>4, <2>5, Zenon DEF stdin, at_eof, at_q, at_line
<1>9. ASSUME NEW c \in Clients, sock(c) PROVE Flow'
  <2>1. PICK k \in Conns : k = conn[c]
    BY <1>9, Owned DEF sock
  <2>2. UNCHANGED <<up, wrote, conn>> /\ \A j \in Conns : Held(j)' = Held(j)
    BY <1>9, <1>e DEF sock
  <2>3. CASE UNCHANGED <<down, got>>
    BY <1>a, <1>d, <2>2, <2>3
  <2>4. CASE /\ got' = [got EXCEPT ![k] = got[k] \o down[k]]
             /\ down' = [down EXCEPT ![k] = <<>>]
    <3> SUFFICES ASSUME NEW j \in Conns, ~Gone(j)
                 PROVE  Stream(j, got'[j], down'[j], Held(j), up[j], wrote[j])
      BY <1>d, <2>2, Zenon DEF Flow
    <3>1. Stream(j, got[j], down[j], Held(j), up[j], wrote[j])
      BY DEF Flow
    <3>2. CASE j = k
      <4>1. got'[j] = got[j] \o down[j] /\ down'[j] = <<>>
        BY <1>0, <2>4, <3>2
      <4> QED
        BY <1>0, <3>1, <4>1, StreamPrint, ZenonT(30)
    <3>3. CASE j # k
      BY <1>0, <2>4, <3>1, <3>3
    <3> QED
      BY <3>2, <3>3
  <2> QED
    BY <1>9, <2>1, <2>3, <2>4, Zenon DEF sock
<1>10. ASSUME NEW c \in Clients, open_fifo(c) \/ select(c) PROVE Flow'
  BY <1>10, <1>a, <1>d, <1>e DEF open_fifo, select, wire, history
<1> QED
  BY <1>1, <1>2, <1>3, <1>4, <1>5, <1>6, <1>7, <1>8, <1>9, <1>10, EchoSteps

\* What is printed on a connection is a beginning of its lines.
LEMMA OrderStep ==
  ASSUME EchoTypeOK, OneClient, EchoesInOrder, EchoTypeOK', Flow', [EchoNext]_echoVars
  PROVE  EchoesInOrder'
<1>1. CASE got' = got
  BY <1>1 DEF EchoesInOrder
<1>2. ASSUME NEW c \in Clients, sock(c) PROVE EchoesInOrder'
  <2>1. PICK k \in Conns : k = conn[c]
    BY <1>2, Owned DEF sock
  <2>2. \A j \in Conns \ {k} : got'[j] = got[j]
    BY <1>2, <2>1, Zenon DEF sock, EchoTypeOK, WireTypeOK
  <2>3. ~Gone(k)'
    BY <1>2, <2>1, Zenon DEF sock, Gone
  <2>4. Numbered(k, got'[k], 0)
    BY <2>3, Zenon DEF Flow, Stream
  <2>5. DOMAIN got'[k] \subseteq Nat
    <3>1. got'[k] \in Seq(Lines)
      BY DEF EchoTypeOK, WireTypeOK
    <3>2. PICK g \in Seq(Lines) : g = got'[k]
      BY <3>1
    <3>3. DOMAIN g \subseteq Nat
      OBVIOUS
    <3> QED
      BY <3>2, <3>3
  <2>6. ASSUME NEW j \in DOMAIN got'[k] PROVE got'[k][j] = <<k, j>>
    <3>1. 0 + j = j
      BY <2>5
    <3> QED
      BY <2>4, <3>1 DEF Numbered
  <2> QED
    BY <2>2, <2>6 DEF EchoesInOrder
<1>3. CASE send \/ \E k \in Conns : \/ \E m \in 1 .. Len(up[k]) : ReadsLines(k, m)
                                    \/ ReadsEnd(k) \/ ReadsError(k)
  BY <1>1, <1>3 DEF send, ReadsLines, ReadsEnd, ReadsError, history
<1>4. CASE \/ UNCHANGED echoVars \/ Passes \/ accept
           \/ \E c \in Clients : open_fifo(c) \/ connect(c) \/ select(c) \/ stdin(c)
  BY <1>1, <1>4, Zenon
     DEF echoVars, Passes, flow, accept, open_fifo, connect, select, stdin, history
<1> QED
  BY <1>2, <1>3, <1>4, EchoSteps

LEMMA AsksInputStep ==
  ASSUME EchoTypeOK, AsksInput, [EchoNext]_echoVars
  PROVE  AsksInput'
<1>0. /\ DOMAIN cpc = Clients /\ DOMAIN fdset = Clients /\ DOMAIN stand_id_flag = Clients
  BY DEF EchoTypeOK, ClientTypeOK
<1>1. CASE UNCHANGED <<cpc, fdset, stand_id_flag>>
  BY <1>1, Zenon DEF AsksInput
<1>2. ASSUME NEW c \in Clients, open_fifo(c) \/ connect(c) \/ stdin(c) \/ sock(c)
      PROVE  AsksInput'
  <2>1. /\ fdset' = fdset /\ \E x \in {"connect", "refused", "select", "sock", "exited"} :
                               cpc' = [cpc EXCEPT ![c] = x]
        /\ \/ stand_id_flag' = stand_id_flag
           \/ \E b \in BOOLEAN : stand_id_flag' = [stand_id_flag EXCEPT ![c] = b]
    BY <1>2, Zenon DEF open_fifo, connect, stdin, at_eof, at_q, at_line, sock
  <2>2. cpc'[c] # "stdin"
    BY <1>0, <2>1, Zenon
  <2>3. \A d \in Clients \ {c} : cpc'[d] = cpc[d] /\ stand_id_flag'[d] = stand_id_flag[d]
    BY <1>0, <2>1
  <2> QED
    BY <2>1, <2>2, <2>3, Zenon DEF AsksInput
<1>3. ASSUME NEW c \in Clients, select(c) PROVE AsksInput'
  <2>1. stand_id_flag' = stand_id_flag
    BY <1>3 DEF select
  <2>2. "stdin" \in fdset'[c] => ~stand_id_flag[c]
    BY <1>0, <1>3 DEF select
  <2>3. \A d \in Clients \ {c} : cpc'[d] = cpc[d] /\ fdset'[d] = fdset[d]
    BY <1>0, <1>3 DEF select
  <2> QED
    BY <2>1, <2>2, <2>3 DEF AsksInput
<1>4. CASE send \/ \E k \in Conns : \/ \E m \in 1 .. Len(up[k]) : ReadsLines(k, m)
                                    \/ ReadsEnd(k) \/ ReadsError(k)
  BY <1>1, <1>4 DEF send, ReadsLines, ReadsEnd, ReadsError, clients
<1>5. CASE UNCHANGED echoVars \/ Passes \/ accept
  BY <1>1, <1>5 DEF echoVars, Passes, flow, accept, clients
<1> QED
  BY <1>2, <1>3, <1>4, <1>5, EchoSteps

LEMMA InputDoneStep ==
  ASSUME EchoTypeOK, OneClient, Fresh, AsksInput, InputDone, [EchoNext]_echoVars
  PROVE  InputDone'
<1>0. /\ DOMAIN conn = Clients /\ DOMAIN input = Clients /\ DOMAIN stand_id_flag = Clients
      /\ DOMAIN upEnd = Conns /\ used \in Nat
  BY EchoAssumption DEF EchoTypeOK, ClientTypeOK, WireTypeOK
<1>1. CASE UNCHANGED <<conn, input, stand_id_flag, upEnd>>
  BY <1>1 DEF InputDone
<1>2. CASE send
  <2>1. PICK k \in Conns : k = slots[at]
    BY <1>2, SlotAt DEF send, EchoTypeOK, ServerTypeOK
  <2>2. UNCHANGED <<conn, input, stand_id_flag>>
    BY <1>2 DEF send, clients
  <2>3. upEnd' = upEnd \/ (Gone(k) /\ \E end \in {upEnd[k], "rst"} : upEnd' = [upEnd EXCEPT ![k] = end])
    BY <1>2, <2>1 DEF send
  <2>4. \A j \in Conns : upEnd'[j] = upEnd[j] \/ Gone(j)
    BY <1>0, <2>3
  <2> QED
    BY <2>2, <2>4 DEF InputDone, Gone
<1>3. ASSUME NEW k \in Conns, ReadsError(k) PROVE InputDone'
  <2>1. UNCHANGED <<conn, input, stand_id_flag>>
    BY <1>3 DEF ReadsError, clients
  <2>2. \A j \in Conns : upEnd'[j] # "open" => upEnd[j] # "open"
    BY <1>0, <1>3 DEF ReadsError
  <2> QED
    BY <2>1, <2>2 DEF InputDone
<1>4. ASSUME NEW c \in Clients, connect(c) PROVE InputDone'
  <2>1. UNCHANGED <<input, upEnd>> /\ conn[c] = None
    BY <1>4 DEF connect, wire, OneClient
  <2>2. \A d \in Clients \ {c} : conn'[d] = conn[d] /\ stand_id_flag'[d] = stand_id_flag[d]
    BY <1>0, <1>4 DEF connect
  <2>3. conn'[c] = None \/ conn'[c] = used + 1
    BY <1>0, <1>4, <2>1 DEF connect
  <2>4. ASSUME NEW k \in Conns, conn'[c] = k PROVE upEnd[k] = "open"
    <3>1. k # None
      BY EchoAssumption DEF Conns, None
    <3>2. k > used
      BY <1>0, <2>3, <2>4, <3>1
    <3> QED
      BY <3>2 DEF Fresh
  <2> QED
    BY <2>1, <2>2, <2>4 DEF InputDone
<1>5. ASSUME NEW c \in Clients, stdin(c) PROVE InputDone'
  <2>1. PICK k \in Conns : k = conn[c]
    BY <1>5, Owned DEF stdin
  <2>0. k # None
    BY EchoAssumption DEF Conns, None
  <2>2. ASSUME NEW d \in Clients \ {c}, NEW j \in Conns, conn'[d] = j, upEnd'[j] # "open"
        PROVE  stand_id_flag'[d] /\ input'[d] = <<>>
    <3>1. conn'[d] = conn[d] /\ (stand_id_flag'[d] <=> stand_id_flag[d]) /\ input'[d] = input[d]
      BY <1>0, <1>5, Zenon DEF stdin, at_eof, at_q, at_line
    <3>2. j # k
      BY <2>0, <2>1, <2>2, <3>1, Zenon DEF OneClient
    <3>3. upEnd'[j] = upEnd[j]
      BY <1>0, <1>5, <2>1, <3>2, Zenon DEF stdin, at_eof, at_q, at_line
    <3> QED
      BY <2>2, <3>1, <3>3 DEF InputDone
  <2>3. ASSUME NEW j \in Conns, conn'[c] = j, upEnd'[j] # "open"
        PROVE  stand_id_flag'[c] /\ input'[c] = <<>>
    <3>1. CASE UNCHANGED <<conn, input, stand_id_flag, upEnd>>
      BY <2>3, <3>1 DEF InputDone
    <3>2. CASE input[c] = <<>> /\ at_eof(c)
      BY <1>0, <3>2 DEF at_eof
    <3>3. CASE at_q(c)
      <4>1. conn'[c] = None
        BY <1>0, <3>3 DEF at_q
      <4> QED
        BY <2>3, <4>1, EchoAssumption DEF Conns, None
    <3>4. CASE "stdin" \in fdset[c] /\ at_line(c)
      <4>1. ~stand_id_flag[c]
        BY <1>5, <3>4 DEF AsksInput, stdin
      <4>2. conn'[c] = conn[c] /\ upEnd'[j] = upEnd[j]
        BY <3>4 DEF at_line
      <4> QED
        BY <2>3, <4>1, <4>2 DEF InputDone
    <3> QED
      BY <1>5, <3>1, <3>2, <3>3, <3>4 DEF stdin
  <2> QED
    BY <2>2, <2>3 DEF InputDone
<1>6. CASE \E k \in Conns : ReadsEnd(k) \/ \E m \in 1 .. Len(up[k]) : ReadsLines(k, m)
  BY <1>1, <1>6 DEF ReadsLines, ReadsEnd, clients
<1>7. CASE UNCHANGED echoVars \/ Passes \/ accept
             \/ \E c \in Clients : open_fifo(c) \/ select(c) \/ sock(c)
  BY <1>1, <1>7, Zenon DEF echoVars, Passes, flow, accept, open_fifo, select, sock, wire, clients
<1> QED
  BY <1>2, <1>3, <1>4, <1>5, <1>6, <1>7, EchoSteps

LEMMA AllSentBackStep ==
  ASSUME EchoTypeOK, OneClient, Known, Fresh, Ends, [EchoNext]_echoVars
  PROVE  AllSentBack'
<1>0. /\ DOMAIN conn = Clients /\ DOMAIN upEnd = Conns /\ DOMAIN downEnd = Conns
      /\ DOMAIN up = Conns /\ used \in Nat /\ AsksInput /\ InputDone /\ AllSentBack
  BY EchoAssumption DEF EchoTypeOK, ClientTypeOK, WireTypeOK, Ends
<1>a. ASSUME \A k \in Conns : ~Gone(k)' /\ downEnd'[k] # "open" =>
               /\ ~Gone(k) /\ downEnd[k] # "open" /\ up'[k] = up[k]
               /\ Held(k)' \in {Held(k), <<>>} /\ (upEnd[k] # "open" => upEnd'[k] # "open")
      PROVE  AllSentBack'
  BY <1>0, <1>a, Zenon DEF AllSentBack
<1>b. spc' # "send" => \A k \in Conns : Held(k)' = <<>>
  BY DEF Held
<1>c. conn' = conn => \A k \in Conns : Gone(k)' <=> Gone(k)
  BY DEF Gone
<1>d. UNCHANGED server => \A k \in Conns : Held(k)' = Held(k)
  BY DEF server, Held
<1>1. CASE UNCHANGED <<server, up, upEnd, downEnd, conn>>
  BY <1>1, <1>a, <1>c, <1>d, Zenon
<1>2. CASE Passes
  BY <1>2, <1>a, <1>b, <1>c DEF Passes, flow
<1>3. CASE accept
  BY <1>3, <1>a, <1>b, <1>c DEF accept, wire, clients
<1>4. CASE send
  <2>1. PICK k \in Conns : k = slots[at]
    BY <1>4, SlotAt DEF send, EchoTypeOK, ServerTypeOK
  <2>2. UNCHANGED <<conn, up, downEnd>> /\ spc' # "send"
    BY <1>4 DEF send, clients
  <2>3. upEnd' = upEnd \/ \E end \in {upEnd[k], "rst"} : upEnd' = [upEnd EXCEPT ![k] = end]
    BY <1>4, <2>1 DEF send
  <2>4. \A j \in Conns : upEnd[j] # "open" => upEnd'[j] # "open"
    BY <1>0, <2>3
  <2> QED
    BY <1>a, <1>b, <1>c, <2>2, <2>4
<1>5. ASSUME spc = "slots", NEW k \in Conns, k = slots[at],
             NEW m \in 1 .. Len(up[k]), ReadsLines(k, m)
      PROVE  AllSentBack'
  <2>1. UNCHANGED <<conn, upEnd, downEnd>> /\ \A j \in Conns \ {k} : up'[j] = up[j]
    BY <1>0, <1>5, Zenon DEF ReadsLines, clients
  <2>2. \A j \in Conns \ {k} : Held(j)' = <<>>
    BY <1>5 DEF ReadsLines, Held
  <2>3. up[k] # <<>>
    BY <1>5
  <2>4. Gone(k) \/ downEnd[k] = "open"
    BY <1>0, <2>3 DEF AllSentBack
  <2> QED
    BY <1>a, <1>c, <2>1, <2>2, <2>4
<1>6. ASSUME spc = "slots", NEW k \in Conns, ReadsEnd(k) PROVE AllSentBack'
  <2>1. UNCHANGED <<conn, up, upEnd>> /\ spc' # "send" /\ up[k] = <<>> /\ upEnd[k] = "fin"
    BY <1>6, Zenon DEF ReadsEnd, clients
  <2>2. \A j \in Conns \ {k} : downEnd'[j] = downEnd[j]
    BY <1>0, <1>6 DEF ReadsEnd
  <2> QED
    BY <1>0, <1>b, <1>c, <2>1, <2>2, Zenon DEF AllSentBack
<1>7. ASSUME spc = "slots", NEW k \in Conns, ReadsError(k) PROVE AllSentBack'
  <2>1. UNCHANGED <<conn, up, downEnd>> /\ spc' # "send"
    BY <1>7 DEF ReadsError, clients
  <2>2. \A j \in Conns : upEnd[j] # "open" => upEnd'[j] # "open"
    BY <1>0, <1>7 DEF ReadsError
  <2> QED
    BY <1>a, <1>b, <1>c, <2>1, <2>2
<1>8. ASSUME NEW c \in Clients, connect(c) PROVE AllSentBack'
  <2>1. UNCHANGED <<server, up, upEnd, downEnd>>
    BY <1>8 DEF connect, wire
  <2>2. CASE conn' = conn
    BY <1>1, <2>1, <2>2
  <2>3. CASE conn' # conn
    <3>1. PICK n \in Conns : n = used + 1
      BY <1>0, <1>8, <2>3, EchoAssumption DEF connect, Conns
    <3>2. conn' = [conn EXCEPT ![c] = n]
      BY <1>8, <2>3, <3>1 DEF connect
    <3>3. \A j \in Conns \ {n} : ~Gone(j)' => ~Gone(j)
      BY <1>0, <3>2 DEF Gone
    <3>4. n > used
      BY <1>0, <3>1
    <3>5. downEnd[n] = "open"
      BY <3>4 DEF Fresh
    <3> QED
      BY <1>a, <1>d, <2>1, <3>3, <3>5
  <2> QED
    BY <2>2, <2>3
<1>9. ASSUME NEW c \in Clients, stdin(c) PROVE AllSentBack'
  <2>1. PICK k \in Conns : k = conn[c]
    BY <1>9, Owned DEF stdin
  <2>2. downEnd' = downEnd /\ \A j \in Conns : Held(j)' = Held(j)
    BY <1>9, <1>d, Zenon DEF stdin
  <2>3. \A j \in Conns : ~Gone(j)' => ~Gone(j)
    <3>1. conn' = conn \/ conn' = [conn EXCEPT ![c] = 0]
      BY <1>9, Zenon DEF stdin, at_eof, at_q, at_line, None
    <3>2. \A j \in Conns : j # 0
      BY EchoAssumption DEF Conns
    <3> QED
      BY <1>0, <3>1, <3>2 DEF Gone
  <2>4. CASE up' = up
    <3>1. \A j \in Conns : upEnd[j] # "open" => upEnd'[j] # "open"
      BY <1>0, <1>9, <2>1, Zenon DEF stdin, at_eof, at_q, at_line
    <3> QED
      BY <1>a, <2>2, <2>3, <2>4, <3>1, Zenon
  <2>5. CASE "stdin" \in fdset[c] /\ at_line(c)
    <3>1. ~stand_id_flag[c]
      BY <1>0, <1>9, <2>5 DEF AsksInput, stdin
    <3>2. upEnd[k] = "open" /\ ~Gone(k)
      BY <1>0, <2>1, <3>1 DEF InputDone, Gone
    <3>3. downEnd[k] = "open"
      BY <1>0, <3>2 DEF AllSentBack
    <3>4. upEnd' = upEnd /\ \A j \in Conns \ {k} : up'[j] = up[j]
      BY <1>0, <2>1, <2>5 DEF at_line
    <3> QED
      BY <1>a, <2>2, <2>3, <3>3, <3>4, Zenon
  <2> QED
    BY <1>9, <2>4, <2>5, Zenon DEF stdin, at_eof, at_q
<1>10. CASE UNCHANGED echoVars \/ \E c \in Clients : open_fifo(c) \/ select(c) \/ sock(c)
  BY <1>1, <1>10, Zenon DEF echoVars, open_fifo, select, sock, wire, clients
<1> QED
  BY <1>2, <1>3, <1>4, <1>5, <1>6, <1>7, <1>8, <1>9, <1>10, EchoSteps

\* A client leaves with everything printed, and its connection stays so.
LEMMA MissingStep ==
  ASSUME EchoTypeOK, OneClient, Flow, Ends, NothingMissing, [EchoNext]_echoVars
  PROVE  NothingMissing'
<1>0. /\ DOMAIN conn = Clients /\ DOMAIN cpc = Clients /\ DOMAIN input = Clients
      /\ got \in [Conns -> Seq(Lines)] /\ DOMAIN wrote = Conns
  BY DEF EchoTypeOK, ClientTypeOK, WireTypeOK
<1>1. CASE UNCHANGED <<cpc, conn, input, got, wrote>>
  BY <1>1, Zenon DEF NothingMissing
<1>a. ASSUME NEW c \in Clients, NEW k \in Conns, k = conn[c], cpc[c] \in {"stdin", "sock"},
             \A d \in Clients \ {c} : cpc'[d] = cpc[d] /\ conn'[d] = conn[d] /\ input'[d] = input[d],
             \A j \in Conns \ {k} : got'[j] = got[j] /\ wrote'[j] = wrote[j],
             NEW d \in Clients \ {c}, cpc'[d] = "exited"
      PROVE  input'[d] = <<>> /\ Len(got'[conn'[d]]) = wrote'[conn'[d]]
  <2>1. cpc[d] = "exited" /\ conn'[d] = conn[d] /\ input'[d] = input[d]
    BY <1>a
  <2>2. conn[d] \in Conns
    BY <2>1, Owned
  <2>3. conn[d] # k
    <3>1. k # None
      BY EchoAssumption DEF Conns, None
    <3> QED
      BY <1>a, <3>1 DEF OneClient
  <2>4. got'[conn[d]] = got[conn[d]] /\ wrote'[conn[d]] = wrote[conn[d]]
    BY <1>a, <2>2, <2>3, Zenon
  <2>5. input[d] = <<>> /\ Len(got[conn[d]]) = wrote[conn[d]]
    BY <2>1 DEF NothingMissing
  <2> QED
    BY <2>1, <2>4, <2>5, Zenon
<1>2. ASSUME NEW c \in Clients, open_fifo(c) \/ connect(c) \/ select(c) PROVE NothingMissing'
  <2>1. /\ UNCHANGED <<input, got, wrote>> /\ cpc'[c] # "exited"
        /\ \A d \in Clients \ {c} : cpc'[d] = cpc[d] /\ conn'[d] = conn[d]
    BY <1>0, <1>2, Zenon DEF open_fifo, connect, select, history
  <2> QED
    BY <2>1 DEF NothingMissing
<1>3. ASSUME NEW c \in Clients, stdin(c) PROVE NothingMissing'
  <2>1. PICK k \in Conns : k = conn[c]
    BY <1>3, Owned, Zenon DEF stdin
  <2>2. /\ cpc[c] = "stdin" /\ cpc'[c] # "exited" /\ got' = got
        /\ \A d \in Clients \ {c} : cpc'[d] = cpc[d] /\ conn'[d] = conn[d] /\ input'[d] = input[d]
    BY <1>0, <1>3, Zenon DEF stdin, at_eof, at_q, at_line
  <2>3. \A j \in Conns \ {k} : wrote'[j] = wrote[j]
    BY <1>0, <1>3, <2>1, Zenon DEF stdin, at_eof, at_q, at_line
  <2> QED
    BY <1>a, <2>1, <2>2, <2>3, Zenon DEF NothingMissing
<1>4. ASSUME NEW c \in Clients, sock(c) PROVE NothingMissing'
  <2>1. PICK k \in Conns : k = conn[c]
    BY <1>4, Owned, Zenon DEF sock
  <2>2. /\ cpc[c] = "sock" /\ UNCHANGED <<conn, input, wrote>>
        /\ \A d \in Clients \ {c} : cpc'[d] = cpc[d]
    BY <1>0, <1>4, Zenon DEF sock
  <2>3. \A j \in Conns \ {k} : got'[j] = got[j]
    BY <1>0, <1>4, <2>1 DEF sock
  <2>4. ASSUME cpc'[c] = "exited" PROVE input[c] = <<>> /\ Len(got'[k]) = wrote[k]
    <3>1. down[k] = <<>> /\ downEnd[k] = "fin" /\ got' = got
      BY <1>0, <1>4, <2>1, <2>4 DEF sock
    <3>2. ~Gone(k)
      BY <2>1 DEF Gone
    <3>3. up[k] = <<>> /\ Held(k) = <<>> /\ upEnd[k] # "open"
      BY <3>1, <3>2, Zenon DEF Ends, AllSentBack
    <3>4. input[c] = <<>>
      BY <2>1, <3>3 DEF Ends, InputDone
    <3>5. Stream(k, got[k], <<>>, <<>>, <<>>, wrote[k])
      BY <3>1, <3>2, <3>3 DEF Flow
    <3>6. Len(got[k]) \in Nat /\ Len(<<>>) = 0
      <4>1. PICK g \in Seq(Lines) : g = got[k]
        BY <1>0
      <4>2. Len(g) \in Nat
        OBVIOUS
      <4> QED
        BY <4>1, <4>2
    <3>7. wrote[k] = Len(got[k])
      BY <3>5, <3>6 DEF Stream
    <3> QED
      BY <3>1, <3>4, <3>7
  <2>5. ASSUME NEW d \in Clients \ {c}, cpc'[d] = "exited"
        PROVE  input'[d] = <<>> /\ Len(got'[conn'[d]]) = wrote'[conn'[d]]
    BY <1>a, <2>1, <2>2, <2>3, <2>5
  <2> QED
    BY <2>1, <2>2, <2>4, <2>5, Zenon DEF NothingMissing
<1>5. CASE send \/ \E k \in Conns : \/ \E m \in 1 .. Len(up[k]) : ReadsLines(k, m)
                                    \/ ReadsEnd(k) \/ ReadsError(k)
  BY <1>1, <1>5 DEF send, ReadsLines, ReadsEnd, ReadsError, clients, history
<1>6. CASE UNCHANGED echoVars \/ Passes \/ accept
  BY <1>1, <1>6 DEF echoVars, Passes, flow, accept, clients, history
<1> QED
  BY <1>2, <1>3, <1>4, <1>5, <1>6, EchoSteps

-----------------------------------------------------------------------------

LEMMA EchoInitial == EchoInit => EchoInv
<1> SUFFICES ASSUME EchoInit PROVE EchoInv
  OBVIOUS
<1>1. ServerTypeOK
  <2>1. spc = "start" /\ at = 1 /\ slots = <<>> /\ backlog = <<>> /\ pending = <<>>
    BY DEF EchoInit
  <2>2. newcomer \in BOOLEAN
    BY Zenon DEF EchoInit
  <2> QED
    BY <2>1, <2>2 DEF ServerTypeOK
<1>2. WireTypeOK
  BY DEF EchoInit, WireTypeOK
<1>3. ClientTypeOK
  BY EchoAssumption DEF EchoInit, ClientTypeOK, None
<1>4. OneClient /\ Known
  BY DEF EchoInit, OneClient, Known, None
<1>5. Fresh /\ EchoesInOrder
  BY DEF EchoInit, Fresh, EchoesInOrder
<1>6. \A k \in Conns : Gone(k)
  BY EchoAssumption DEF EchoInit, Gone, Conns, None
<1>7. Flow /\ AllSentBack
  BY <1>6 DEF Flow, AllSentBack
<1>8. AsksInput /\ InputDone /\ NothingMissing
  BY DEF EchoInit, AsksInput, InputDone, NothingMissing
<1> QED
  BY <1>1, <1>2, <1>3, <1>4, <1>5, <1>7, <1>8 DEF EchoInv, EchoTypeOK, Ends

LEMMA EchoInductive == EchoInv /\ [EchoNext]_echoVars => EchoInv'
<1> SUFFICES ASSUME EchoInv, [EchoNext]_echoVars PROVE EchoInv'
  OBVIOUS
<1>1. /\ EchoTypeOK /\ OneClient /\ Known /\ Fresh /\ Flow /\ EchoesInOrder /\ Ends
      /\ NothingMissing
  BY DEF EchoInv
<1>2. EchoTypeOK' /\ OneClient' /\ Known'
  BY <1>1, EchoTypeStep, OneClientStep, KnownStep
<1>3. Fresh' /\ Flow'
  BY <1>1, FreshStep, FlowStep
<1>4. EchoesInOrder'
  BY <1>1, <1>2, <1>3, OrderStep
<1>5. Ends'
  BY <1>1, AsksInputStep, InputDoneStep, AllSentBackStep DEF Ends
<1>6. NothingMissing'
  BY <1>1, MissingStep
<1> QED
  BY <1>2, <1>3, <1>4, <1>5, <1>6 DEF EchoInv

\* Whatever the documents, the number of clients, the room in the buffers and
\* the parts in which the server reads, a client of echo.client.cpp prints on
\* a connection the lines it wrote there, in their order and each once: the
\* server sends what it read to the slot it read it from, before it reads
\* again.
THEOREM LinesComeBackInOrder == EchoSpec => []EchoesInOrder
<1>1. EchoInv => EchoesInOrder
  BY DEF EchoInv
<1> QED
  BY <1>1, EchoInitial, EchoInductive, PTL DEF EchoSpec

\* A client that leaves because read() returned 0 has come to the end of its
\* input and has printed every line it wrote: the server closes a connection
\* only when it has read up to the client's shutdown(SHUT_WR) and has sent
\* back everything before it.
THEOREM LeavesWithEverything == EchoSpec => []NothingMissing
<1>1. EchoInv => NothingMissing
  BY DEF EchoInv
<1> QED
  BY <1>1, EchoInitial, EchoInductive, PTL DEF EchoSpec
=============================================================================
