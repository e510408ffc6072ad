----------------------------- MODULE RdpPairProofs -----------------------------
(***************************************************************************)
(* Proofs about the two ends of an RDP connection together: when both are  *)
(* open they talk to each other, the sender keeps what the receiver has    *)
(* not got and stays within the window, and a RST closes no end that still *)
(* misses messages.                                                        *)
(*                                                                         *)
(* None of that is inductive.  The argument has three layers, each with    *)
(* its invariant on top of JInv of RdpProofs: what is on its way     *)
(* before the handshake is over (HInv), what two ends that talk to each    *)
(* other know of each other and what the packets between them say          *)
(* (PairInv), and where a RST may come from (Rsts).  Most steps change one *)
(* connection calmly: they draw no number, submit nothing and deliver      *)
(* nothing, and are treated once and for all.                              *)
(***************************************************************************)
EXTENDS RdpProofs

-----------------------------------------------------------------------------
(***************************************************************************)
(* Calm steps: what one of them may do to a connection, and may send.      *)
(***************************************************************************)
\* A packet that opens the connection of n, or is a reset.
Control(q) == "syn" \in q.flags \/ "rst" \in q.flags

\* q carries an acknowledgement that the connection c sends, and lists only
\* what d has stored.
Reports(q, c, d) ==
    /\ "ack" \in q.flags => q.ack = c.rcv_cur \/ q.ack = c.rcv_irs
    /\ q.eacks # {} => c.state = "OPEN" \/ d.state = "OPEN"
    /\ \A s \in q.eacks : \E x \in d.rx_queue : x.seq = s

\* n sends q by itself, because of a packet of N or as the user u asks.
Occasion(n, c, N, u) ==
    c.state = "OPEN" \/ c.socket \/ u = "open" \/ \E p \in N : p.dst = n

\* What n sends of a connection c that becomes d.
Answer(n, c, d, N, u, q) ==
    /\ q.dst = Peer(n) /\ c.open /\ Reports(q, c, d)
    /\ \/ \E x \in c.tx_queue : q.flags = x.flags
       \/ /\ Occasion(n, c, N, u)
          /\ "ack" \in q.flags
          /\ Control(q) \/ c.state = "OPEN" \/ d.state = "OPEN" \/ u = "open"
          /\ "syn" \in q.flags => c.state = "SYN_RCVD"
          /\ "rst" \in q.flags =>
                q.seq = c.snd_nxt /\ d.state \in {"CLOSE_WAIT", "CLOSED"}

\* How the state changes: not at all, to close, or from SYN_RCVD to OPEN.
Moves(n, c, d, N) ==
    \/ d.state = c.state
    \/ d.state \in {"CLOSE_WAIT", "CLOSED"}
    \/ /\ c.state = "SYN_RCVD" /\ d.state = "OPEN"
       /\ \E p \in N : /\ p.dst = n /\ "ack" \in p.flags /\ ~Control(p)
                       /\ p.ack = c.snd_iss /\ d.snd_una = Mod16(p.ack + 1)

Acknowledges(n, c, d, N) ==
    \/ d.snd_una = c.snd_una
    \/ \E p \in N : p.dst = n /\ "ack" \in p.flags /\ d.snd_una = Mod16(p.ack + 1)

\* What leaves the queues has been acknowledged.
Releases(n, c, d, N) ==
    /\ \A x \in c.tx_queue : \/ x \in d.tx_queue
                             \/ Before(x.seq, c.snd_una)
                             \/ \E p \in N : p.dst = n /\ x.seq \in p.eacks
    /\ c.rx_queue \subseteq d.rx_queue

\* A change of a connection that draws no number, submits and delivers nothing.
Calm(n, c, d, N) ==
    /\ d.snd_iss = c.snd_iss /\ d.snd_nxt = c.snd_nxt
    /\ d.rcv_irs = c.rcv_irs /\ d.rcv_cur = c.rcv_cur
    /\ c.open \/ d = c
    /\ Moves(n, c, d, N)
    /\ d.state \in InSync => Acknowledges(n, c, d, N) /\ Releases(n, c, d, N)
    /\ \A x \in d.tx_queue :
          x \in c.tx_queue \/ (c.state = "SYN_RCVD" /\ x.flags = {"ack", "syn"})

\* user and backlog: Accept and csp_rdp_connect open a connection for the user.
Handles ==
    /\ backlog' => backlog \/ conn'["server"].state = "OPEN"
    /\ \A n \in Node : user'[n] = "open" =>
          user[n] = "open" \/ conn[n].state = "OPEN" \/ (n = "server" /\ backlog)

\* A step that only changes the connection of n calmly.
CalmStep(n) ==
    \E d \in Conn :
        /\ conn' = [conn EXCEPT ![n] = d] /\ Calm(n, conn[n], d, net)
        /\ \A q \in net' : q \in net \/ Answer(n, conn[n], d, net, user[n], q)
        /\ UNCHANGED sent /\ Handles

\* A connection that ends.
LEMMA CalmEnd ==
  ASSUME NEW n, NEW c, NEW d, NEW N, Quiet(c, d), c.open, d.state \in {"CLOSE_WAIT", "CLOSED"}
  PROVE  Calm(n, c, d, N)
<1>1. d.state \notin InSync
  BY DEF InSync
<1> QED  BY <1>1 DEF Calm, Quiet, Moves

\* The three ways to end one.
LEMMA EndedState ==
  ASSUME NEW c \in Conn, c.open
  PROVE  /\ \A by \in SUBSET ByAll : ConnClose(c, by).state \in {"CLOSE_WAIT", "CLOSED"}
         /\ DiscardClose(c).state \in {"CLOSE_WAIT", "CLOSED"}
         /\ FailedConnect(c).state \in {"CLOSE_WAIT", "CLOSED"}
<1>1. ASSUME NEW b \in Conn, b.open, NEW by \in SUBSET ByAll
      PROVE  ConnClose(b, by).state \in {"CLOSE_WAIT", "CLOSED"}
  <2>1. RdpClose(b, by) \in Conn /\ Acked(b) \in Conn
    BY <1>1, RdpCloseType, AckedType
  <2>2. RdpClose(b, by).state \in {"CLOSE_WAIT", "CLOSED"}
    BY <1>1, <2>1 DEF RdpClose, Conn
  <2> DEFINE e == RdpClose(b, by)
  <2>3. ConnClose(b, by) = IF e.state # "CLOSED" THEN e
                           ELSE [e EXCEPT !.open = FALSE, !.in_queue = <<>>,
                                          !.tx_queue = {}, !.rx_queue = {}]
    BY <1>1 DEF ConnClose
  <2> HIDE DEF e
  <2> QED  BY <2>1, <2>2, <2>3 DEF e, Conn
<1>2. {"PROTOCOL"} \in SUBSET ByAll /\ {"PROTOCOL", "USERSPACE"} \in SUBSET ByAll
      /\ {"USERSPACE"} \in SUBSET ByAll
  BY DEF ByAll
<1>3. DiscardClose(c).state \in {"CLOSE_WAIT", "CLOSED"}
  <2>1. ConnClose(c, {"PROTOCOL"}) \in Conn
    BY <1>2, ConnCloseType DEF Node
  <2>2. \A d \in Conn : EnqueueNull(d).state = d.state
    BY DEF EnqueueNull, Conn
  <2> QED  BY <1>1, <1>2, <2>1, <2>2 DEF DiscardClose
<1>4. FailedConnect(c).state \in {"CLOSE_WAIT", "CLOSED"}
  <2> DEFINE e == [c EXCEPT !.state = "CLOSE_WAIT", !.closed_by = @ \cup {"PROTOCOL"}]
  <2>1. e \in Conn /\ e.open
    BY <1>2 DEF Conn, State
  <2>2. FailedConnect(c) = ConnClose(IF c.state = "CLOSED" THEN c ELSE e, {"USERSPACE"})
    BY DEF FailedConnect
  <2> HIDE DEF e
  <2> QED  BY <1>1, <1>2, <2>1, <2>2
<1> QED  BY <1>1, <1>3, <1>4

\* A reset that n sends as it closes (csp_rdp_close_internal).
LEMMA CloseOutAnswer ==
  ASSUME NEW n, NEW c, NEW d, NEW N, NEW u, Occasion(n, c, N, u),
         d.state \in {"CLOSE_WAIT", "CLOSED"}, NEW q \in CloseOut(n, c)
  PROVE  Answer(n, c, d, N, u, q)
BY DEF CloseOut, RstAckMsg, Cmp, Answer, Reports, Control

\* An acknowledgement of an open connection.
LEMMA AckAnswer ==
  ASSUME NEW n, NEW c, NEW d, NEW N, NEW u, NEW b, b.rcv_cur = c.rcv_cur, c.open,
         c.state = "OPEN" \/ u = "open" \/ (d.state = "OPEN" /\ Occasion(n, c, N, u))
  PROVE  /\ Answer(n, c, d, N, u, AckMsg(n, b))
         /\ \A late : \A q \in CheckAckOut(n, b, late) : Answer(n, c, d, N, u, q)
         /\ d.state = "OPEN" /\ b.rx_queue \subseteq d.rx_queue =>
               Answer(n, c, d, N, u, EackMsg(n, b))
<1>1. Answer(n, c, d, N, u, AckMsg(n, b))
  BY DEF AckMsg, Cmp, Answer, Reports, Control, Occasion
<1>2. d.state = "OPEN" /\ b.rx_queue \subseteq d.rx_queue =>
         Answer(n, c, d, N, u, EackMsg(n, b))
  <2> DEFINE q == EackMsg(n, b)
  <2>1. /\ q.dst = Peer(n) /\ q.flags = {"ack", "eak"} /\ q.ack = b.rcv_cur
        /\ q.eacks = {x.seq : x \in b.rx_queue}
    BY DEF EackMsg, Cmp
  <2> HIDE DEF q
  <2> QED  BY <2>1 DEF Answer, Reports, Control, Occasion, q
<1> QED  BY <1>1, <1>2 DEF CheckAckOut

\* The connection slot and the packets of a state.
LEMMA TypeParts ==
  ASSUME JInv, NEW n \in Node
  PROVE  /\ conn \in [Node -> Conn] /\ conn[n] \in Conn /\ Shape(n, conn[n])
         /\ net \subseteq Packet
         /\ Owned(n) => conn[n].open
BY DEF JInv, IInv, TypeOK, Ownership, InUse

\* The same conversation: d differs from c in what is waiting to be read or in
\* when it last acknowledged.
Alike(c, d) ==
    /\ d.state = c.state /\ d.tx_queue = c.tx_queue /\ d.rx_queue = c.rx_queue
    /\ d.snd_iss = c.snd_iss /\ d.snd_nxt = c.snd_nxt /\ d.snd_una = c.snd_una
    /\ d.rcv_irs = c.rcv_irs /\ d.rcv_cur = c.rcv_cur

\* An acknowledgement and a read change nothing else.
LEMMA AlikeUpdates ==
  ASSUME NEW c \in Conn
  PROVE  /\ Alike(c, c) /\ Alike(c, Acked(c))
         /\ \A late : Alike(c, CheckAck(c, late))
         /\ Alike(c, [c EXCEPT !.in_queue = Tail(@)])
BY DEF Alike, Acked, CheckAck, Conn

\* Such a change is calm.
LEMMA AlikeCalm ==
  ASSUME NEW n, NEW c, NEW d, NEW N, Alike(c, d), c.open \/ d = c
  PROVE  Calm(n, c, d, N)
BY DEF Alike, Calm, Moves, Acknowledges, Releases

\* A calm change followed by an acknowledgement is calm.
LEMMA CalmAlike ==
  ASSUME NEW n, NEW c, NEW d, NEW e, NEW N, Calm(n, c, d, N), Alike(d, e), c.open
  PROVE  Calm(n, c, e, N)
BY DEF Alike, Calm, Moves, Acknowledges, Releases

\* A calm change with what is sent.
LEMMA CalmSends ==
  ASSUME NEW n \in Node, NEW d \in Conn, conn' = [conn EXCEPT ![n] = d],
         Calm(n, conn[n], d, net), NEW M, net' \subseteq net \cup M,
         \A q \in M : Answer(n, conn[n], d, net, user[n], q), UNCHANGED sent, Handles
  PROVE  CalmStep(n)
BY DEF CalmStep

\* Nothing happens to the connections.
LEMMA IdleCalm ==
  ASSUME JInv, UNCHANGED <<conn, sent>>, net' \subseteq net, Handles
  PROVE  CalmStep("server")
<1> DEFINE n == "server"
<1>1. n \in Node
  BY DEF Node
<1> HIDE DEF n
<1>2. conn[n] \in Conn /\ conn' = [conn EXCEPT ![n] = conn[n]]
  BY <1>1, TypeParts
<1>3. Calm(n, conn[n], conn[n], net)
  BY <1>2, AlikeUpdates, AlikeCalm
<1>4. CalmStep(n)
  BY <1>1, <1>2, <1>3 DEF CalmStep
<1> QED  BY <1>4 DEF n

\* Nobody is given a connection.
LEMMA SameHands ==
  /\ UNCHANGED <<user, backlog>> => Handles
  /\ \A n : user' = [user EXCEPT ![n] = "idle"] /\ UNCHANGED backlog /\ TypeOK => Handles
BY DEF Handles, TypeOK

-----------------------------------------------------------------------------
(***************************************************************************)
(* The steps of the users and of the timers are calm.                      *)
(***************************************************************************)
\* The client gives up.
LEMMA GiveUpCalm ==
  ASSUME JInv, GiveUpConnect, user["client"] = "connecting"
  PROVE  CalmStep("client")
<1> DEFINE n == "client"
           c == conn[n]
           d == FailedConnect(c)
<1>1. n \in Node
  BY DEF Node
<1>2. /\ conn' = [conn EXCEPT ![n] = d] /\ net' \subseteq net /\ UNCHANGED sent
      /\ user' = [user EXCEPT ![n] = "idle"] /\ UNCHANGED backlog
  BY DEF GiveUpConnect, hist
<1>3. Owned(n)
  BY DEF Owned
<1> HIDE DEF n, d
<1>4. c \in Conn /\ c.open
  BY <1>1, <1>3, TypeParts
<1>5. d \in Conn /\ d.state \in {"CLOSE_WAIT", "CLOSED"} /\ Quiet(c, d)
  <2>1. d \in Conn
    <3> DEFINE e == [c EXCEPT !.state = "CLOSE_WAIT", !.closed_by = @ \cup {"PROTOCOL"}]
    <3>1. {"PROTOCOL"} \in SUBSET ByAll /\ {"USERSPACE"} \in SUBSET ByAll
      BY DEF ByAll
    <3>2. e \in Conn
      BY <1>4, <3>1 DEF Conn, State
    <3>3. d = ConnClose(IF c.state = "CLOSED" THEN c ELSE e, {"USERSPACE"})
      BY DEF d, FailedConnect
    <3> HIDE DEF e
    <3> QED  BY <1>1, <1>4, <3>1, <3>2, <3>3, ConnCloseType
  <2> QED  BY <1>4, <2>1, EndedState, QuietFailedConnect DEF d
<1>6. Calm(n, c, d, net)
  BY <1>4, <1>5, CalmEnd
<1>7. Handles
  BY <1>2, SameHands DEF JInv, IInv
<1>8. CalmStep(n)
  BY <1>1, <1>2, <1>5, <1>6, <1>7 DEF CalmStep
<1> QED  BY <1>8 DEF n

\* csp_read.
LEMMA ReadCalm ==
  ASSUME JInv, NEW n \in Node, Read(n)
  PROVE  CalmStep(n)
<1> DEFINE c == conn[n]
           d == [c EXCEPT !.in_queue = Tail(@)]
<1>1. c.in_queue # <<>> /\ UNCHANGED sent /\ UNCHANGED <<user, backlog>> /\ user[n] = "open"
      /\ c.open
  BY DEF Read, hist
<1>2. PICK ack \in BOOLEAN :
         /\ conn' = [conn EXCEPT ![n] = IF ack THEN Acked(d) ELSE d]
         /\ net' = Transmit(net, IF ack THEN {AckMsg(n, d)} ELSE {})
  BY DEF Read
<1>3. c \in Conn
  BY TypeParts
<1>4. d \in Conn /\ Alike(c, d) /\ d.rcv_cur = c.rcv_cur
  <2>1. c.in_queue \in Seq(Data)
    BY <1>3 DEF Conn
  <2>2. Tail(c.in_queue) \in Seq(Data)
    BY <1>1, <2>1
  <2> QED  BY <1>3, <2>2, AlikeUpdates DEF Conn
<1> HIDE DEF d
<1> DEFINE e == IF ack THEN Acked(d) ELSE d
           M == IF ack THEN {AckMsg(n, d)} ELSE {}
<1>5. e \in Conn /\ Alike(d, e)
  BY <1>4, AckedType, AlikeUpdates
<1> HIDE DEF e
<1>6. Calm(n, c, e, net)
  BY <1>1, <1>4, <1>5, AlikeCalm, CalmAlike
<1>7. Answer(n, c, e, net, user[n], AckMsg(n, d))
  BY <1>1, <1>4, AckAnswer
<1>8. net' \subseteq net \cup M
  <2> HIDE DEF M
  <2> QED  BY <1>2, OnTheLink DEF M
<1>9. conn' = [conn EXCEPT ![n] = e]
  BY <1>2 DEF e
<1>10. \A q \in M : Answer(n, c, e, net, user[n], q)
  BY <1>7
<1> HIDE DEF M
<1> QED  BY <1>1, <1>5, <1>6, <1>8, <1>9, <1>10, SameHands, CalmSends

\* csp_close and the timeouts that close.
LEMMA CloseCalm ==
  ASSUME JInv, NEW n \in Node, conn[n].open, NEW by \in SUBSET ByAll,
         conn' = [conn EXCEPT ![n] = ConnClose(conn[n], by)],
         NEW M, M = {} \/ (M = CloseOut(n, conn[n]) /\ Occasion(n, conn[n], net, user[n])),
         net' \subseteq net \cup M, UNCHANGED sent, Handles
  PROVE  CalmStep(n)
<1> DEFINE c == conn[n]
           d == ConnClose(c, by)
<1>1. c \in Conn
  BY TypeParts
<1>2. d \in Conn /\ d.state \in {"CLOSE_WAIT", "CLOSED"} /\ Quiet(c, d)
  BY <1>1, ConnCloseType, EndedState, QuietClose
<1> HIDE DEF d
<1>3. Calm(n, c, d, net)
  BY <1>2, CalmEnd
<1>4. \A q \in M : Answer(n, c, d, net, user[n], q)
  BY <1>2, CloseOutAnswer
<1> QED  BY <1>2, <1>3, <1>4, CalmSends DEF d

\* The sets that dispose of a connection in the calm steps.
LEMMA ByParts ==
  /\ {"USERSPACE"} \in SUBSET ByAll /\ {"PROTOCOL"} \in SUBSET ByAll
  /\ {"PROTOCOL", "TIMEOUT"} \in SUBSET ByAll /\ ByAll \in SUBSET ByAll
  /\ {"PROTOCOL", "USERSPACE"} \in SUBSET ByAll
BY DEF ByAll

\* csp_close by the user.
LEMMA UserCloseCalm ==
  ASSUME JInv, NEW n \in Node, Close(n)
  PROVE  CalmStep(n)
<1>1. /\ conn' = [conn EXCEPT ![n] = ConnClose(conn[n], {"USERSPACE"})]
      /\ net' \subseteq net \cup CloseOut(n, conn[n])
      /\ user' = [user EXCEPT ![n] = "idle"] /\ user[n] = "open"
      /\ UNCHANGED backlog /\ UNCHANGED sent
  BY OnTheLink DEF Close, hist
<1>2. conn[n].open /\ Occasion(n, conn[n], net, user[n])
  BY <1>1, TypeParts DEF Owned, Occasion
<1>3. Handles
  BY <1>1, SameHands DEF JInv, IInv
<1> QED  BY <1>1, <1>2, <1>3, ByParts, CloseCalm

\* csp_rdp_check_timeouts.
LEMMA TimerCalm ==
  ASSUME JInv, NEW n \in Node, Timer(n)
  PROVE  CalmStep(n)
<1> DEFINE c == conn[n]
<1>1. c \in Conn
  BY TypeParts
<1>2. CASE ConnectionTimeout(n)
  <2>1. /\ conn' = [conn EXCEPT ![n] = ConnClose(conn[n], ByAll)]
        /\ net' \subseteq net \cup CloseOut(n, c)
        /\ c.open /\ Occasion(n, c, net, user[n])
        /\ UNCHANGED <<user, backlog>> /\ UNCHANGED sent
    BY <1>2, OnTheLink DEF ConnectionTimeout, hist, Occasion
  <2> QED  BY <2>1, SameHands, ByParts, CloseCalm
<1>3. CASE CloseWaitTimeout(n)
  <2>1. /\ conn' = [conn EXCEPT ![n] = ConnClose(conn[n], {"PROTOCOL", "TIMEOUT"})]
        /\ net' \subseteq net \cup {}
        /\ c.open
        /\ UNCHANGED <<user, backlog>> /\ UNCHANGED sent
    BY <1>3, OnTheLink DEF CloseWaitTimeout, hist
  <2> QED  BY <2>1, SameHands, ByParts, CloseCalm
<1>4. CASE MessageTimeout(n)
  <2>1. PICK R \in SUBSET Queued(c), late \in BOOLEAN : Resend(n, R, late)
    BY <1>4 DEF MessageTimeout
  <2> DEFINE d == [c EXCEPT !.tx_queue = Queued(c)]
             acks == c.state = "OPEN" /\ DelayedAcks
             e == IF acks THEN CheckAck(d, late) ELSE d
             M == {TxMsg(n, c, x) : x \in R} \cup
                  IF acks THEN CheckAckOut(n, c, late) ELSE {}
  <2>2. /\ conn' = [conn EXCEPT ![n] = e] /\ net' = Transmit(net, M) /\ UNCHANGED sent
        /\ UNCHANGED <<user, backlog>> /\ c.open
    BY <2>1 DEF Resend, hist
  <2>3. d \in Conn /\ Calm(n, c, d, net)
    <3>1. Queued(c) \in SUBSET c.tx_queue
      BY DEF Queued
    <3>2. /\ d \in Conn /\ d.tx_queue = Queued(c) /\ d.rx_queue = c.rx_queue
          /\ d.snd_iss = c.snd_iss /\ d.snd_nxt = c.snd_nxt /\ d.snd_una = c.snd_una
          /\ d.rcv_irs = c.rcv_irs /\ d.rcv_cur = c.rcv_cur /\ d.state = c.state
      BY <1>1, <3>1 DEF Conn
    <3> HIDE DEF d
    <3>3. Releases(n, c, d, net)
      BY <3>2 DEF Releases, Queued
    <3> QED  BY <2>2, <3>1, <3>2, <3>3 DEF Calm, Moves, Acknowledges
  <2> HIDE DEF d
  <2>4. e \in Conn /\ Alike(d, e)
    BY <2>3, CheckAckType, AlikeUpdates
  <2>5. Calm(n, c, e, net)
    BY <2>2, <2>3, <2>4, CalmAlike
  <2> HIDE DEF e
  <2>6. \A q \in M : Answer(n, c, e, net, user[n], q)
    <3>1. ASSUME NEW x \in R PROVE Answer(n, c, e, net, user[n], TxMsg(n, c, x))
      <4>1. x \in c.tx_queue
        BY DEF Queued
      <4> QED  BY <2>2, <4>1 DEF Answer, Reports, TxMsg
    <3>2. acks => \A q \in CheckAckOut(n, c, late) : Answer(n, c, e, net, user[n], q)
      BY <2>2, AckAnswer
    <3> QED  BY <3>1, <3>2
  <2> HIDE DEF M
  <2>7. net' \subseteq net \cup M
    BY <2>2, OnTheLink
  <2> QED  BY <2>2, <2>4, <2>5, <2>6, <2>7, SameHands, CalmSends
<1> QED  BY <1>2, <1>3, <1>4 DEF Timer

-----------------------------------------------------------------------------
(***************************************************************************)
(* So are those of the router on packets that are no valid segments.       *)
(***************************************************************************)
\* A packet that n takes: its connection becomes d and M is sent.
LEMMA CalmTaken ==
  ASSUME JInv, NEW n \in Node, NEW p \in net, NEW d \in Conn, NEW M, Take(n, p, d, M),
         Calm(n, conn[n], d, net), \A q \in M : Answer(n, conn[n], d, net, user[n], q),
         UNCHANGED sent, Handles
  PROVE  CalmStep(n)
<1>1. conn' = [conn EXCEPT ![n] = d] /\ net' \subseteq net \cup M
  BY OnTheLink DEF Take
<1> QED  BY <1>1, CalmSends

\* One that resets the connection.
LEMMA CalmReset ==
  ASSUME JInv, NEW n \in Node, NEW p \in net, p.dst = n, conn[n].open,
         Take(n, p, DiscardClose(conn[n]), CloseOut(n, conn[n])), UNCHANGED sent, Handles
  PROVE  CalmStep(n)
<1> DEFINE c == conn[n]
           d == DiscardClose(c)
           M == CloseOut(n, c)
<1>1. c \in Conn /\ d \in Conn /\ d.state \in {"CLOSE_WAIT", "CLOSED"} /\ Quiet(c, d)
  BY TypeParts, DiscardCloseType, EndedState, QuietDiscardClose
<1> HIDE DEF d
<1>2. Calm(n, c, d, net)
  BY <1>1, CalmEnd
<1>3. Occasion(n, c, net, user[n])
  BY DEF Occasion
<1>4. \A q \in M : Answer(n, c, d, net, user[n], q)
  BY <1>1, <1>3, CloseOutAnswer
<1> QED  BY <1>1, <1>2, <1>4, CalmTaken DEF d

\* One that is ignored, but for an acknowledgement it carries.
LEMMA CalmUna ==
  ASSUME NEW n, NEW c \in Conn, c.open, NEW N, NEW p \in N, p.dst = n, p \in Packet,
         "ack" \in p.flags
  PROVE  LET u == [c EXCEPT !.snd_una = Mod16(p.ack + 1)] IN
         u \in Conn /\ Quiet(c, u) /\ Calm(n, c, u, N) /\ u.state = c.state
<1> DEFINE u == [c EXCEPT !.snd_una = Mod16(p.ack + 1)]
<1>1. Mod16(p.ack + 1) \in SeqNr
  BY PacketFields
<1>2. /\ u \in Conn /\ u.state = c.state /\ u.tx_queue = c.tx_queue /\ u.rx_queue = c.rx_queue
      /\ u.snd_iss = c.snd_iss /\ u.snd_nxt = c.snd_nxt /\ u.snd_una = Mod16(p.ack + 1)
      /\ u.rcv_irs = c.rcv_irs /\ u.rcv_cur = c.rcv_cur
  BY <1>1 DEF Conn
<1>3. Quiet(c, u)
  BY <1>1, QuietUpdates
<1> HIDE DEF u
<1>4. Calm(n, c, u, N)
  BY <1>2 DEF Calm, Moves, Acknowledges, Releases
<1> QED  BY <1>2, <1>3, <1>4 DEF u

\* A RST on an existing connection.
LEMMA RstCalm ==
  ASSUME JInv, NEW n \in Node, NEW p \in net, RecvRst(n, p)
  PROVE  CalmStep(n)
<1> DEFINE c == conn[n]
           u == [c EXCEPT !.snd_una = Mod16(p.ack + 1)]
           v == IF "ack" \in p.flags THEN u ELSE c
           w == [Acked(v) EXCEPT !.state = "CLOSE_WAIT"]
<1>1. /\ UNCHANGED sent /\ UNCHANGED <<user, backlog>> /\ p.dst = n /\ c.open
      /\ \/ Take(n, p, DiscardClose(v), {})
         \/ Take(n, p, DiscardClose(w), {RstAckMsg(n, v)})
         \/ Take(n, p, v, {})
  BY DEF RecvRst, hist
<1>2. c \in Conn /\ p \in Packet
  BY TypeParts
<1>3. v \in Conn /\ Quiet(c, v) /\ Calm(n, c, v, net)
  <2>1. CASE "ack" \in p.flags
    BY <1>1, <1>2, <2>1, CalmUna
  <2>2. CASE "ack" \notin p.flags
    BY <1>1, <1>2, <2>2, QuietSelf, AlikeUpdates, AlikeCalm
  <2> QED  BY <2>1, <2>2
<1>4. v.open /\ v.snd_nxt = c.snd_nxt /\ v.rcv_cur = c.rcv_cur
  BY <1>1, <1>2 DEF Conn
<1> HIDE DEF v, u
<1>5. Acked(v) \in Conn /\ Quiet(v, Acked(v)) /\ Acked(v).open
  BY <1>3, <1>4, AckedType, QuietUpdates DEF Acked, Conn
<1>6. w \in Conn /\ Quiet(Acked(v), w) /\ w.open
  BY <1>5 DEF Quiet, Conn, State, InSync
<1> HIDE DEF w
<1>7. ASSUME NEW e \in Conn, e.open, Quiet(c, e), NEW M,
             M = {} \/ M = {RstAckMsg(n, v)}, Take(n, p, DiscardClose(e), M)
      PROVE  CalmStep(n)
  <2> DEFINE d == DiscardClose(e)
  <2>1. d \in Conn /\ d.state \in {"CLOSE_WAIT", "CLOSED"} /\ Quiet(e, d)
    BY <1>7, DiscardCloseType, EndedState, QuietDiscardClose
  <2> HIDE DEF d
  <2>2. Quiet(c, d)
    BY <1>7, <2>1, QuietTrans
  <2>3. Calm(n, c, d, net)
    BY <1>1, <2>1, <2>2, CalmEnd
  <2>4. Answer(n, c, d, net, user[n], RstAckMsg(n, v))
    BY <1>1, <1>4, <2>1 DEF RstAckMsg, Cmp, Answer, Reports, Control, Occasion
  <2>5. \A q \in M : Answer(n, c, d, net, user[n], q)
    BY <1>7, <2>4
  <2> QED  BY <1>1, <1>7, <2>1, <2>3, <2>5, SameHands, CalmTaken DEF d
<1>8. CASE Take(n, p, DiscardClose(v), {})
  BY <1>3, <1>4, <1>7, <1>8
<1>9. CASE Take(n, p, DiscardClose(w), {RstAckMsg(n, v)})
  <2>1. Quiet(c, w)
    BY <1>3, <1>5, <1>6, QuietTrans
  <2> QED  BY <1>6, <1>7, <1>9, <2>1
<1>10. CASE Take(n, p, v, {})
  BY <1>1, <1>3, <1>10, SameHands, CalmTaken
<1> QED  BY <1>1, <1>8, <1>9, <1>10

\* CLOSE_WAIT.
LEMMA CloseWaitCalm ==
  ASSUME JInv, NEW n \in Node, NEW p \in net, RecvCloseWait(n, p)
  PROVE  CalmStep(n)
<1> DEFINE c == conn[n]
           u == [c EXCEPT !.snd_una = Mod16(p.ack + 1)]
<1>1. /\ UNCHANGED sent /\ UNCHANGED <<user, backlog>> /\ p.dst = n /\ c.open
      /\ c.state = "CLOSE_WAIT"
      /\ \/ "ack" \in p.flags /\ Take(n, p, Acked(u), {RstAckMsg(n, c)})
         \/ Take(n, p, c, {})
  BY DEF RecvCloseWait, hist
<1>2. c \in Conn /\ p \in Packet
  BY TypeParts
<1>3. CASE Take(n, p, c, {})
  <2>1. Calm(n, c, c, net)
    BY <1>2, AlikeUpdates, AlikeCalm
  <2> QED  BY <1>1, <1>2, <1>3, <2>1, SameHands, CalmTaken
<1>4. CASE "ack" \in p.flags /\ Take(n, p, Acked(u), {RstAckMsg(n, c)})
  <2>1. u \in Conn /\ Calm(n, c, u, net) /\ u.state = c.state
    BY <1>1, <1>2, <1>4, CalmUna
  <2> HIDE DEF u
  <2> DEFINE d == Acked(u)
             M == {RstAckMsg(n, c)}
  <2>2. d \in Conn /\ Alike(u, d)
    BY <2>1, AckedType, AlikeUpdates
  <2> HIDE DEF d
  <2>3. Calm(n, c, d, net) /\ d.state = "CLOSE_WAIT"
    BY <1>1, <2>1, <2>2, CalmAlike DEF Alike
  <2>4. \A q \in M : Answer(n, c, d, net, user[n], q)
    BY <1>1, <2>3 DEF RstAckMsg, Cmp, Answer, Reports, Control, Occasion
  <2> QED  BY <1>1, <1>4, <2>2, <2>3, <2>4, SameHands, CalmTaken DEF d
<1> QED  BY <1>1, <1>3, <1>4

\* A packet rejected in SYN_RCVD and OPEN.
LEMMA RejectedCalm ==
  ASSUME JInv, NEW n \in Node, NEW p \in net,
         RecvSynAgain(n, p) \/ RecvBadAck(n, p) \/ (n = "server" /\ RecvBacklogFull(p))
  PROVE  CalmStep(n)
<1> DEFINE c == conn[n]
<1>1. /\ UNCHANGED sent /\ UNCHANGED <<user, backlog>> /\ p.dst = n /\ c.open
      /\ \/ Take(n, p, c, {})
         \/ Take(n, p, DiscardClose(c), CloseOut(n, c))
  BY DEF RecvSynAgain, RecvBadAck, RecvBacklogFull, Segment, Synced, hist
<1>2. c \in Conn
  BY TypeParts
<1>3. Calm(n, c, c, net)
  BY <1>2, AlikeUpdates, AlikeCalm
<1> QED  BY <1>1, <1>2, <1>3, SameHands, CalmTaken, CalmReset

\* One outside the receive window.
LEMMA OutsideCalm ==
  ASSUME JInv, NEW n \in Node, NEW p \in net, RecvOutsideWindow(n, p)
  PROVE  CalmStep(n)
<1> DEFINE c == conn[n]
<1>1. /\ UNCHANGED sent /\ UNCHANGED <<user, backlog>> /\ p.dst = n /\ c.open
      /\ c.state \in InSync
  BY DEF RecvOutsideWindow, Segment, Synced, hist, InSync
<1>2. c \in Conn
  BY TypeParts
<1>3. CASE c.state # "SYN_RCVD"
  <2> DEFINE d == Acked(c)
             M == {EackMsg(n, c)}
  <2>1. Take(n, p, d, M)
    BY <1>3 DEF RecvOutsideWindow
  <2>2. d \in Conn /\ Alike(c, d)
    BY <1>2, AckedType, AlikeUpdates
  <2> HIDE DEF d
  <2>3. Calm(n, c, d, net)
    BY <1>1, <2>2, AlikeCalm
  <2>4. \A q \in M : Answer(n, c, d, net, user[n], q)
    BY <1>1, <1>3, <2>2, AckAnswer DEF InSync, Alike
  <2> QED  BY <1>1, <2>1, <2>2, <2>3, <2>4, SameHands, CalmTaken
<1>4. CASE c.state = "SYN_RCVD"
  <2> DEFINE x == [flags |-> {"ack", "syn"}, seq |-> c.snd_iss, data |-> NoData]
             e == [c EXCEPT !.rcv_lsa = c.rcv_irs]
             d == Retain(e, x)
             M == {SynAckMsg(n, c)}
  <2>1. Take(n, p, d, M)
    BY <1>4 DEF RecvOutsideWindow
  <2>2. x \in TxElement /\ x.flags = {"ack", "syn"}
    BY <1>2 DEF TxElement, Flag, Conn, NoData, Data
  <2> HIDE DEF x
  <2>3. e \in Conn /\ Alike(c, e) /\ e.state = "SYN_RCVD"
    BY <1>2, <1>4 DEF Conn, Alike
  <2> HIDE DEF e
  <2>4. /\ d \in Conn /\ d.state = e.state /\ d.rx_queue = e.rx_queue
        /\ d.snd_iss = e.snd_iss /\ d.snd_nxt = e.snd_nxt /\ d.snd_una = e.snd_una
        /\ d.rcv_irs = e.rcv_irs /\ d.rcv_cur = e.rcv_cur
        /\ e.tx_queue \subseteq d.tx_queue /\ d.tx_queue \subseteq e.tx_queue \cup {x}
    BY <2>2, <2>3, RetainType DEF Retain, Conn
  <2> HIDE DEF d
  <2>5. Calm(n, c, d, net)
    BY <1>1, <1>4, <2>2, <2>3, <2>4 DEF Calm, Moves, Acknowledges, Releases, Alike
  <2>6. \A q \in M : Answer(n, c, d, net, user[n], q)
    BY <1>1, <1>4 DEF SynAckMsg, Cmp, Answer, Reports, Control, Occasion
  <2> QED  BY <1>1, <2>1, <2>4, <2>5, <2>6, SameHands, CalmTaken
<1> QED  BY <1>3, <1>4

-----------------------------------------------------------------------------
(***************************************************************************)
(* And those on valid segments, unless they are in sequence.               *)
(***************************************************************************)
\* The connection that a valid packet leaves open.
LEMMA OpenedFields ==
  ASSUME JInv, NEW n \in Node, NEW p \in net, Valid(n, p)
  PROVE  LET c == conn[n]
             d == Opened(n, p)
         IN  /\ d \in Conn /\ d.state = "OPEN" /\ c.open /\ c.state \in InSync
             /\ d.tx_queue = c.tx_queue /\ d.rx_queue = c.rx_queue
             /\ d.snd_iss = c.snd_iss /\ d.snd_nxt = c.snd_nxt
             /\ d.snd_una = Mod16(p.ack + 1)
             /\ d.rcv_irs = c.rcv_irs /\ d.rcv_cur = c.rcv_cur
             /\ d.open /\ d.in_queue = c.in_queue
             /\ p.dst = n /\ "ack" \in p.flags /\ ~Control(p)
             /\ c.state # "OPEN" => c.state = "SYN_RCVD" /\ p.ack = c.snd_iss
<1>1. conn[n] \in Conn /\ Opened(n, p) \in Conn
  BY TypeParts, OpenedType DEF JInv, IInv
<1> QED  BY <1>1 DEF Opened, Valid, Segment, Synced, Conn, InSync, Control

\* It is queued on the socket only when it was in SYN_RCVD.
LEMMA OfferHands ==
  ASSUME JInv, NEW n \in Node, NEW d, conn' = [conn EXCEPT ![n] = d], d.state = "OPEN",
         Offer(n), UNCHANGED user
  PROVE  Handles
<1>1. conn[n].state = "SYN_RCVD" => n = "server"
  BY TypeParts DEF Shape
<1>2. conn'[n] = d
  BY TypeParts
<1> QED  BY <1>1, <1>2 DEF Handles, Offer

\* Opened by p, and q's elements leave the retransmission queue.
LEMMA OpenedCalm ==
  ASSUME JInv, NEW n \in Node, NEW p \in net, Valid(n, p), NEW d, d.state = "OPEN",
         LET c == Opened(n, p) IN
         /\ d.snd_iss = c.snd_iss /\ d.snd_nxt = c.snd_nxt /\ d.snd_una = c.snd_una
         /\ d.rcv_irs = c.rcv_irs /\ d.rcv_cur = c.rcv_cur
         /\ d.tx_queue \subseteq c.tx_queue
         /\ \A x \in c.tx_queue : x.seq \notin p.eacks => x \in d.tx_queue
         /\ c.rx_queue \subseteq d.rx_queue
  PROVE  Calm(n, conn[n], d, net)
<1> DEFINE c == conn[n]
           b == Opened(n, p)
<1>1. /\ c.open
      /\ b.tx_queue = c.tx_queue /\ b.rx_queue = c.rx_queue
      /\ b.snd_iss = c.snd_iss /\ b.snd_nxt = c.snd_nxt /\ b.snd_una = Mod16(p.ack + 1)
      /\ b.rcv_irs = c.rcv_irs /\ b.rcv_cur = c.rcv_cur
      /\ p.dst = n /\ "ack" \in p.flags /\ ~Control(p)
      /\ c.state # "OPEN" => c.state = "SYN_RCVD" /\ p.ack = c.snd_iss
  BY OpenedFields
<1> HIDE DEF b
<1>2. Moves(n, c, d, net)
  BY <1>1 DEF Moves, b
<1>3. Acknowledges(n, c, d, net)
  BY <1>1 DEF Acknowledges, b
<1>4. Releases(n, c, d, net)
  BY <1>1 DEF Releases, b
<1>5. \A x \in d.tx_queue : x \in c.tx_queue
  BY <1>1 DEF b
<1> QED  BY <1>1, <1>2, <1>3, <1>4, <1>5 DEF Calm, b

\* An acknowledgement, data out of order, or no room for the user.
LEMMA ValidCalm ==
  ASSUME JInv, NEW n \in Node, NEW p \in net,
         RecvAck(n, p) \/ RecvOutOfOrder(n, p) \/ RecvQueueFull(n, p)
  PROVE  CalmStep(n)
<1> DEFINE c == Opened(n, p)
<1>1. /\ Valid(n, p) /\ Offer(n) /\ UNCHANGED user /\ UNCHANGED sent
  BY DEF RecvAck, RecvOutOfOrder, RecvQueueFull, hist
<1>2. /\ c \in Conn /\ c.state = "OPEN" /\ conn[n].open /\ p.dst = n
      /\ c.rcv_cur = conn[n].rcv_cur
  BY <1>1, OpenedFields
<1>3. ASSUME NEW d \in Conn, d.state = "OPEN", NEW M, Take(n, p, d, M),
             Calm(n, conn[n], d, net), \A q \in M : Answer(n, conn[n], d, net, user[n], q)
      PROVE  CalmStep(n)
  <2>1. conn' = [conn EXCEPT ![n] = d]
    BY <1>3 DEF Take
  <2>2. Handles
    BY <1>1, <1>3, <2>1, OfferHands
  <2> QED  BY <1>1, <1>3, <2>2, CalmTaken
<1>4. Occasion(n, conn[n], net, user[n])
  BY <1>2 DEF Occasion
<1>5. Calm(n, conn[n], c, net)
  BY <1>1, <1>2, OpenedCalm
<1>6. CASE RecvAck(n, p)
  <2> DEFINE d == [c EXCEPT !.tx_queue = {x \in @ : x.seq \notin p.eacks}]
  <2>1. Take(n, p, d, {})
    BY <1>6 DEF RecvAck
  <2>2. /\ d \in Conn /\ d.state = "OPEN" /\ d.rx_queue = c.rx_queue
        /\ d.snd_iss = c.snd_iss /\ d.snd_nxt = c.snd_nxt /\ d.snd_una = c.snd_una
        /\ d.rcv_irs = c.rcv_irs /\ d.rcv_cur = c.rcv_cur
        /\ d.tx_queue = {x \in c.tx_queue : x.seq \notin p.eacks}
    <3> HIDE DEF c
    <3> QED  BY <1>2 DEF Conn
  <2> HIDE DEF d, c
  <2>3. Calm(n, conn[n], d, net)
    BY <1>1, <2>2, OpenedCalm DEF c
  <2> QED  BY <1>3, <2>1, <2>2, <2>3
<1>7. CASE RecvQueueFull(n, p)
  <2>1. Take(n, p, c, {})
    BY <1>7 DEF RecvQueueFull
  <2> QED  BY <1>2, <1>3, <1>5, <2>1
<1>8. CASE RecvOutOfOrder(n, p)
  <2> DEFINE x == [seq |-> p.seq, data |-> p.data]
             d == [c EXCEPT !.rx_queue = @ \cup {x}]
  <2>1. \/ Take(n, p, Acked(d), {EackMsg(n, d)})
        \/ \E late \in BOOLEAN : Take(n, p, CheckAck(c, late), CheckAckOut(n, c, late))
    BY <1>8 DEF RecvOutOfOrder
  <2>2. ASSUME NEW late, Take(n, p, CheckAck(c, late), CheckAckOut(n, c, late))
        PROVE  CalmStep(n)
    <3> DEFINE e == CheckAck(c, late)
    <3>1. e \in Conn /\ Alike(c, e)
      BY <1>2, CheckAckType, AlikeUpdates
    <3> HIDE DEF e
    <3>2. Calm(n, conn[n], e, net) /\ e.state = "OPEN"
      BY <1>2, <1>5, <3>1, CalmAlike DEF Alike
    <3>3. \A q \in CheckAckOut(n, c, late) : Answer(n, conn[n], e, net, user[n], q)
      BY <1>2, <1>4, <3>2, AckAnswer
    <3> QED  BY <1>3, <2>2, <3>1, <3>2, <3>3 DEF e
  <2>3. ASSUME Take(n, p, Acked(d), {EackMsg(n, d)})
        PROVE  CalmStep(n)
    <3>1. x \in RxElement
      BY <1>2, ArrivedPacket DEF RxElement
    <3> HIDE DEF x
    <3>2. /\ d \in Conn /\ d.state = "OPEN" /\ d.rx_queue = c.rx_queue \cup {x}
          /\ d.snd_iss = c.snd_iss /\ d.snd_nxt = c.snd_nxt /\ d.snd_una = c.snd_una
          /\ d.rcv_irs = c.rcv_irs /\ d.rcv_cur = c.rcv_cur
          /\ d.tx_queue = c.tx_queue
      <4> HIDE DEF c
      <4> QED  BY <1>2, <3>1 DEF Conn
    <3> HIDE DEF d, c
    <3>3. Calm(n, conn[n], d, net)
      BY <1>1, <3>2, OpenedCalm DEF c
    <3> DEFINE e == Acked(d)
               M == {EackMsg(n, d)}
    <3>4. e \in Conn /\ Alike(d, e)
      BY <3>2, AckedType, AlikeUpdates
    <3> HIDE DEF e
    <3>5. Calm(n, conn[n], e, net) /\ e.state = "OPEN"
      BY <1>2, <3>2, <3>3, <3>4, CalmAlike DEF Alike
    <3>6. \A q \in M : Answer(n, conn[n], e, net, user[n], q)
      BY <1>2, <1>4, <3>2, <3>4, <3>5, AckAnswer DEF Alike
    <3> QED  BY <1>3, <2>3, <3>4, <3>5, <3>6 DEF e
  <2> QED  BY <2>1, <2>2, <2>3
<1> QED  BY <1>6, <1>7, <1>8

\* The steps that are not calm.
NoSynReset == \E p \in net : RecvNoSyn(p) /\ "rst" \notin p.flags

Restless ==
    \/ NoSynReset
    \/ Connect \/ ConnectRetry
    \/ \E p \in net : RecvSyn(p) \/ RecvSynAck(p) \/ RecvHalfOpen(p)
    \/ \E n \in Node : Send(n)
    \/ \E n \in Node, p \in net : RecvInOrder(n, p)

\* Every other step is.
LEMMA CalmOrRestless ==
  ASSUME JInv, [Next]_vars
  PROVE  Restless \/ \E n \in Node : CalmStep(n)
<1> SUFFICES ASSUME ~Restless PROVE \E n \in Node : CalmStep(n)
  OBVIOUS
<1>1. "client" \in Node /\ "server" \in Node
  BY DEF Node
<1>2. CASE Connecting
  <2>1. CASE ConnectTimeout
    BY <1>1, <2>1, GiveUpCalm DEF ConnectTimeout
  <2>2. CASE ConnectFailed
    BY <1>1, <2>2, GiveUpCalm DEF ConnectFailed
  <2>3. CASE ConnectDone
    <3>1. /\ UNCHANGED <<conn, sent>> /\ net' \subseteq net /\ conn["client"].state = "OPEN"
          /\ user' = [user EXCEPT !["client"] = "open"] /\ UNCHANGED backlog
      BY <2>3 DEF ConnectDone, hist
    <3>2. Handles
      BY <3>1 DEF Handles, JInv, IInv, TypeOK
    <3> QED  BY <1>1, <3>1, <3>2, IdleCalm
  <2> QED  BY <1>2, <2>1, <2>2, <2>3 DEF Connecting, Restless
<1>3. CASE Accept
  <2>1. /\ UNCHANGED <<conn, sent>> /\ net' \subseteq net /\ backlog /\ backlog' = FALSE
        /\ user' = [user EXCEPT !["server"] = "open"]
    BY <1>3 DEF Accept, hist
  <2>2. Handles
    BY <2>1 DEF Handles, JInv, IInv, TypeOK
  <2> QED  BY <1>1, <2>1, <2>2, IdleCalm
<1>4. ASSUME NEW n \in Node, User(n) \/ Timer(n) PROVE \E i \in Node : CalmStep(i)
  BY <1>4, ReadCalm, UserCloseCalm, TimerCalm DEF User, Restless
<1>5. ASSUME NEW p \in net, Arrive(p) PROVE \E i \in Node : CalmStep(i)
  <2>1. CASE RecvUnknown(p)
    <3>1. /\ UNCHANGED <<conn, sent>> /\ net' \subseteq net /\ UNCHANGED <<user, backlog>>
      BY <2>1 DEF RecvUnknown, RecvNoSocket, RecvNoSyn, RecvNoSlot, Restless, NoSynReset, hist
    <3> QED  BY <1>1, <3>1, SameHands, IdleCalm
  <2>2. CASE RecvHandshake(p)
    BY <1>1, <2>2, RejectedCalm DEF RecvHandshake, Restless
  <2>3. ASSUME NEW n \in Node, Recv(n, p) PROVE CalmStep(n)
    BY <2>3, RstCalm, CloseWaitCalm, RejectedCalm, OutsideCalm, ValidCalm DEF Recv, Restless
  <2> QED  BY <1>5, <2>1, <2>2, <2>3 DEF Arrive
<1>6. ASSUME NEW p \in net, Lose(p) PROVE \E i \in Node : CalmStep(i)
  <2>1. /\ UNCHANGED <<conn, sent>> /\ net' \subseteq net /\ UNCHANGED <<user, backlog>>
    BY <1>6 DEF Lose, hist
  <2> QED  BY <1>1, <2>1, SameHands, IdleCalm
<1>7. CASE UNCHANGED vars
  <2>1. /\ UNCHANGED <<conn, sent>> /\ net' \subseteq net /\ UNCHANGED <<user, backlog>>
    BY <1>7 DEF vars, hist
  <2> QED  BY <1>1, <2>1, SameHands, IdleCalm
<1> QED  BY <1>2, <1>3, <1>4, <1>5, <1>6, <1>7 DEF Next

-----------------------------------------------------------------------------
(***************************************************************************)
(* What the other steps do.                                                *)
(***************************************************************************)
\* One packet is sent.
LEMMA OneSent ==
  ASSUME NEW q, NEW N, N \subseteq net, net' = Transmit(N, {q})
  PROVE  \A r \in net' : r \in net \/ r = q
<1> DEFINE M == {q}
<1>1. net' = Transmit(N, M)
  OBVIOUS
<1> HIDE DEF M
<1>2. net' \subseteq N \cup M
  BY <1>1, OnTheLink
<1> QED  BY <1>2 DEF M

\* csp_connect, called once, finds the connection as it was at the start.
LEMMA ConnectEffect ==
  ASSUME JInv, JInv', ConnectsOnce, Connect \/ ConnectRetry
  PROVE  LET c == conn["client"] IN
         /\ sent["client"] = <<>> /\ sent' = [sent EXCEPT !["client"] = <<0>>]
         /\ user' = [user EXCEPT !["client"] = "connecting"] /\ UNCHANGED backlog
         /\ \E d \in Conn :
               /\ conn' = [conn EXCEPT !["client"] = d]
               /\ d.state = "SYN_SENT" /\ Numbered("client", <<0>>, d)
               /\ \A x \in d.tx_queue : x \in c.tx_queue \/ x.flags = {"syn"}
         /\ \A q \in net' : q \in net \/ q = Cmp("client", {"syn"}, Rand["client"][1], 0)
<1> DEFINE n == "client"
           c == conn[n]
<1>1. n \in Node /\ c \in Conn /\ sent \in [Node -> Seq(Nat)] /\ conn \in [Node -> Conn]
      /\ sent[n] \in Seq(Nat)
  BY Parts DEF Node, JInv, IInv, TypeOK
<1>2. sent[n] = <<>>
  <2>1. Epoch(n) < Len(Rand[n])
    BY DEF Connect, ConnectRetry, StartConnect
  <2>2. Len(Rand[n]) <= 1 /\ Len(Rand[n]) \in Nat
    BY <1>1, RdpAssumption DEF ConnectsOnce
  <2> HIDE DEF n
  <2>3. Len(sent[n]) = 0
    BY <1>1, <2>1, <2>2 DEF Epoch
  <2> QED  BY <1>1, <2>3
<1>3. ~c.open
  BY <1>1, <1>2 DEF JInv, IInv, Started
<1>4. Connect
  <2>1. ConnectRetry => Owned(n)
    BY DEF ConnectRetry, Owned
  <2> QED  BY <1>1, <1>3, <2>1, TypeParts
<1> DEFINE b == [c EXCEPT !.open = TRUE, !.socket = FALSE, !.in_queue = <<>>]
           iss == Rand[n][Epoch(n) + 1]
           a == [b EXCEPT !.state = "SYN_SENT", !.snd_iss = iss,
                          !.snd_nxt = Mod16(iss + 1), !.snd_una = iss]
           x == [flags |-> {"syn"}, seq |-> iss, data |-> NoData]
           d == Retain(a, x)
<1>5. /\ conn' = [conn EXCEPT ![n] = d] /\ net' = Transmit(net, {Cmp(n, {"syn"}, iss, 0)})
      /\ NewEpoch(n) /\ UNCHANGED backlog /\ user' = [user EXCEPT ![n] = "connecting"]
  BY <1>4 DEF Connect, StartConnect
<1>6. iss \in SeqNr /\ iss = Rand[n][1]
  <2>1. Epoch(n) < Len(Rand[n]) /\ Epoch(n) = 0
    BY <1>2, <1>4 DEF Connect, StartConnect, Epoch
  <2> QED  BY <1>1, <2>1, RandType, RdpAssumption DEF JInv, IInv
<1>7. sent' = [sent EXCEPT ![n] = <<0>>]
  BY <1>1, <1>2, <1>5 DEF NewEpoch
<1> HIDE DEF iss, n
<1>8. b \in Conn /\ b.tx_queue = c.tx_queue /\ b.open
  <2> DEFINE empty == <<>>
             f == [c EXCEPT !.open = TRUE, !.socket = FALSE, !.in_queue = empty]
  <2>1. empty \in Seq(Data) /\ b = f
    OBVIOUS
  <2> HIDE DEF empty
  <2>2. f \in Conn /\ f.tx_queue = c.tx_queue /\ f.open
    BY <1>1, <2>1 DEF Conn
  <2> HIDE DEF f, b
  <2> QED  BY <2>1, <2>2
<1> HIDE DEF b
<1>9. a \in Conn /\ a.tx_queue = c.tx_queue /\ a.state = "SYN_SENT" /\ a.open
  BY <1>6, <1>8, SeqNrLemma DEF Conn, State
<1>10. x \in TxElement /\ x.flags = {"syn"}
  BY <1>6 DEF TxElement, Flag, NoData, Data
<1> HIDE DEF a, x
<1>11. /\ d \in Conn /\ d.state = "SYN_SENT" /\ d.open
       /\ d.tx_queue \subseteq c.tx_queue \cup {x}
  BY <1>9, <1>10, RetainType DEF Retain, Conn
<1> HIDE DEF d
<1>12. Numbered(n, <<0>>, d)
  <2>1. conn'[n] = d /\ sent'[n] = <<0>>
    BY <1>1, <1>5, <1>7
  <2>2. End(n, Peer(n), sent'[n], sent'[Peer(n)], conn'[n], accepted'[n], lost'[n])
    <3>1. Ends'
      BY DEF JInv
    <3> QED  BY <1>1, <3>1 DEF Ends
  <2> QED  BY <1>11, <2>1, <2>2 DEF End
<1>13. \A q \in net' : q \in net \/ q = Cmp(n, {"syn"}, iss, 0)
  BY <1>5, OneSent
<1> QED  BY <1>2, <1>5, <1>6, <1>7, <1>10, <1>11, <1>12, <1>13 DEF n

\* A SYN opens a connection of the server.
LEMMA SynEffect ==
  ASSUME JInv, JInv', NEW p \in net, RecvSyn(p)
  PROVE  LET n == "server"
             c == conn[n]
         IN  /\ p.dst = n /\ "syn" \in p.flags /\ ~c.open
             /\ sent' = [sent EXCEPT ![n] = Append(@, 0)]
             /\ UNCHANGED <<user, backlog>>
             /\ \E d \in Conn :
                   /\ conn' = [conn EXCEPT ![n] = d]
                   /\ d.state = "SYN_RCVD" /\ Numbered(n, Append(sent[n], 0), d)
                   /\ d.rcv_cur = p.seq /\ d.rcv_irs = p.seq
                   /\ \A x \in d.tx_queue : x \in c.tx_queue \/ x.flags = {"ack", "syn"}
                   /\ \A q \in net' : q \in net \/ q = SynAckMsg(n, d)
<1> DEFINE n == "server"
           c == conn[n]
           iss == Rand[n][Epoch(n) + 1]
           a == [c EXCEPT !.open = TRUE, !.socket = TRUE, !.in_queue = <<>>,
                !.state = "SYN_RCVD", !.snd_iss = iss,
                !.snd_nxt = Mod16(iss + 1), !.snd_una = iss,
                !.rcv_cur = p.seq, !.rcv_irs = p.seq, !.rcv_lsa = p.seq]
           x == [flags |-> {"ack", "syn"}, seq |-> iss, data |-> NoData]
           d == Retain(a, x)
<1>1. n \in Node /\ c \in Conn /\ sent \in [Node -> Seq(Nat)] /\ conn \in [Node -> Conn]
      /\ sent[n] \in Seq(Nat)
  BY Parts DEF Node, JInv, IInv, TypeOK
<1>2. /\ Take(n, p, d, {SynAckMsg(n, a)}) /\ NewEpoch(n) /\ UNCHANGED <<user, backlog>>
      /\ p.dst = n /\ "syn" \in p.flags /\ ~c.open /\ Epoch(n) < Len(Rand[n])
  BY DEF RecvSyn
<1>3. iss \in SeqNr
  BY <1>1, <1>2, RandType, RdpAssumption DEF JInv, IInv
<1>4. p.seq \in SeqNr
  BY PacketFields DEF JInv, IInv, TypeOK
<1> HIDE DEF iss, n
<1>5. /\ a \in Conn /\ a.tx_queue = c.tx_queue /\ a.state = "SYN_RCVD" /\ a.open
      /\ a.rcv_cur = p.seq /\ a.rcv_irs = p.seq /\ a.snd_iss = iss
  <2> DEFINE empty == <<>>
             f == [c EXCEPT !.open = TRUE, !.socket = TRUE, !.in_queue = empty,
                !.state = "SYN_RCVD", !.snd_iss = iss,
                !.snd_nxt = Mod16(iss + 1), !.snd_una = iss,
                !.rcv_cur = p.seq, !.rcv_irs = p.seq, !.rcv_lsa = p.seq]
  <2>1. empty \in Seq(Data) /\ a = f
    OBVIOUS
  <2> HIDE DEF empty
  <2>2. /\ f \in Conn /\ f.tx_queue = c.tx_queue /\ f.state = "SYN_RCVD" /\ f.open
        /\ f.rcv_cur = p.seq /\ f.rcv_irs = p.seq /\ f.snd_iss = iss
    BY <1>1, <1>3, <1>4, <2>1, SeqNrLemma DEF Conn, State
  <2> HIDE DEF f, a
  <2> QED  BY <2>1, <2>2
<1>6. x \in TxElement /\ x.flags = {"ack", "syn"}
  BY <1>3 DEF TxElement, Flag, NoData, Data
<1> HIDE DEF a, x
<1>7. /\ d \in Conn /\ d.state = "SYN_RCVD" /\ d.open
      /\ d.tx_queue \subseteq c.tx_queue \cup {x}
      /\ d.rcv_cur = p.seq /\ d.rcv_irs = p.seq /\ d.snd_iss = a.snd_iss
  BY <1>5, <1>6, RetainType DEF Retain, Conn
<1> HIDE DEF d
<1>8. conn' = [conn EXCEPT ![n] = d] /\ sent' = [sent EXCEPT ![n] = Append(@, 0)]
  BY <1>2 DEF Take, NewEpoch
<1>9. Numbered(n, Append(sent[n], 0), d)
  <2>1. conn'[n] = d /\ sent'[n] = Append(sent[n], 0)
    BY <1>1, <1>8
  <2>2. End(n, Peer(n), sent'[n], sent'[Peer(n)], conn'[n], accepted'[n], lost'[n])
    <3>1. Ends'
      BY DEF JInv
    <3> QED  BY <1>1, <3>1 DEF Ends
  <2> QED  BY <1>7, <2>1, <2>2 DEF End
<1>10. \A q \in net' : q \in net \/ q = SynAckMsg(n, d)
  <2>1. SynAckMsg(n, d) = SynAckMsg(n, a)
    BY <1>5, <1>7 DEF SynAckMsg
  <2>2. net' = Transmit(net \ {p}, {SynAckMsg(n, a)})
    BY <1>2 DEF Take
  <2>3. net \ {p} \subseteq net
    OBVIOUS
  <2> HIDE DEF a, d
  <2> QED  BY <2>1, <2>2, <2>3, OneSent
<1> QED  BY <1>2, <1>6, <1>7, <1>8, <1>9, <1>10 DEF n

\* A SYN/ACK opens the client's connection.
LEMMA SynAckEffect ==
  ASSUME JInv, NEW p \in net, RecvSynAck(p)
  PROVE  LET n == "client"
             c == conn[n]
         IN  /\ p.dst = n /\ {"syn", "ack"} \subseteq p.flags /\ c.open
             /\ c.state = "SYN_SENT" /\ UNCHANGED <<sent, user, backlog>>
             /\ \E d \in Conn :
                   /\ conn' = [conn EXCEPT ![n] = d]
                   /\ d.state = "OPEN" /\ d.rcv_cur = p.seq /\ d.rcv_irs = p.seq
                   /\ d.snd_una = Mod16(p.ack + 1)
                   /\ d.snd_iss = c.snd_iss /\ d.snd_nxt = c.snd_nxt
                   /\ d.tx_queue = c.tx_queue /\ d.rx_queue = c.rx_queue
                   /\ \A q \in net' : q \in net \/ q = AckMsg(n, d)
<1> DEFINE n == "client"
           c == conn[n]
           d == [c EXCEPT !.state = "OPEN", !.rcv_cur = p.seq,
                   !.rcv_irs = p.seq, !.rcv_lsa = p.seq,
                   !.snd_una = Mod16(p.ack + 1)]
<1>1. n \in Node /\ c \in Conn
  BY Parts DEF Node
<1>2. p \in Packet
  BY DEF JInv, IInv, TypeOK
<1>3. /\ p.dst = n /\ {"syn", "ack"} \subseteq p.flags /\ c.open
      /\ c.state = "SYN_SENT" /\ UNCHANGED <<sent, user, backlog>>
      /\ Take(n, p, d, {AckMsg(n, d)})
  BY DEF RecvSynAck, hist
<1>4. p.seq \in SeqNr /\ Mod16(p.ack + 1) \in SeqNr
  BY <1>2, PacketFields
<1> HIDE DEF n
<1>5. /\ d \in Conn /\ d.state = "OPEN" /\ d.rcv_cur = p.seq /\ d.rcv_irs = p.seq
      /\ d.snd_una = Mod16(p.ack + 1)
      /\ d.snd_iss = c.snd_iss /\ d.snd_nxt = c.snd_nxt
      /\ d.tx_queue = c.tx_queue /\ d.rx_queue = c.rx_queue
  BY <1>1, <1>4 DEF Conn, State
<1> HIDE DEF d
<1>6. conn' = [conn EXCEPT ![n] = d] /\ \A q \in net' : q \in net \/ q = AckMsg(n, d)
  <2>1. conn' = [conn EXCEPT ![n] = d] /\ net' = Transmit(net \ {p}, {AckMsg(n, d)})
    BY <1>3 DEF Take
  <2>2. net \ {p} \subseteq net
    OBVIOUS
  <2> QED  BY <2>1, <2>2, OneSent
<1> QED  BY <1>3, <1>5, <1>6 DEF n

\* csp_send.
LEMMA SendEffect ==
  ASSUME JInv, JInv', NEW n \in Node, Send(n)
  PROVE  LET c == conn[n]
             s == sent[n]
             L == Len(s)
         IN  /\ c.state = "OPEN" /\ c.open /\ ReadyForTx(c) /\ L \in 1 .. Len(s)
             /\ UNCHANGED <<user, backlog>>
             /\ \E d \in Conn, u \in Seq(Nat) :
                   /\ conn' = [conn EXCEPT ![n] = d]
                   /\ sent' = [sent EXCEPT ![n] = u]
                   /\ Len(u) = L /\ u[L] = s[L] + 1
                   /\ \A e \in 1 .. L : e # L => u[e] = s[e]
                   /\ d.state = "OPEN" /\ Numbered(n, u, d)
                   /\ d.rcv_cur = c.rcv_cur /\ d.rcv_irs = c.rcv_irs
                   /\ d.snd_una = c.snd_una /\ d.snd_iss = c.snd_iss
                   /\ d.rx_queue = c.rx_queue
                   /\ \E x : /\ d.tx_queue = c.tx_queue \cup {x}
                             /\ x.flags = {"ack"} /\ x.data = <<L, s[L] + 1>>
                             /\ \A q \in net' : q \in net \/ q = TxMsg(n, c, x)
<1> DEFINE s == sent[n]
           c == conn[n]
           L == Len(s)
           u == [s EXCEPT ![L] = @ + 1]
           x == [flags |-> {"ack"}, seq |-> c.snd_nxt, data |-> <<Epoch(n), s[Epoch(n)] + 1>>]
           d == [c EXCEPT !.tx_queue = @ \cup {x}, !.snd_nxt = Mod16(@ + 1)]
           M == {TxMsg(n, c, x)}
<1>1. /\ conn' = [conn EXCEPT ![n].tx_queue = @ \cup {x}, ![n].snd_nxt = Mod16(@ + 1)]
      /\ net' = Transmit(net, M)
      /\ sent' = [sent EXCEPT ![n][L] = @ + 1]
      /\ c.open /\ c.state = "OPEN" /\ ReadyForTx(c) /\ UNCHANGED <<user, backlog>>
  BY DEF Send, Epoch
<1>2. /\ s \in Seq(Nat) /\ c \in Conn /\ L \in 1 .. Len(s)
      /\ sent \in [Node -> Seq(Nat)] /\ conn \in [Node -> Conn]
  BY <1>1, Parts DEF JInv, IInv, TypeOK
<1>3. conn' = [conn EXCEPT ![n] = d] /\ sent' = [sent EXCEPT ![n] = u]
  BY <1>1, <1>2
<1>4. x.flags = {"ack"} /\ x.data = <<L, s[L] + 1>>
  BY DEF Epoch
<1>5. /\ d.tx_queue = c.tx_queue \cup {x} /\ d.rx_queue = c.rx_queue
      /\ d.snd_iss = c.snd_iss /\ d.open /\ d.snd_una = c.snd_una
      /\ d.rcv_cur = c.rcv_cur /\ d.rcv_irs = c.rcv_irs /\ d.state = c.state
  BY <1>1, <1>2 DEF Conn
<1> HIDE DEF d, x
<1>6. L \in Nat \ {0} /\ s[L] \in Nat
  BY <1>2
<1>7. /\ u \in Seq(Nat) /\ Len(u) = L /\ u[L] = s[L] + 1
      /\ \A e \in 1 .. L : e # L => u[e] = s[e]
  <2>1. /\ u \in Seq(Nat) /\ Len(u) = Len(s)
        /\ \A e \in 1 .. Len(s) : u[e] = IF e = L THEN s[L] + 1 ELSE s[e]
    BY <1>2, <1>6, ExceptSeq
  <2> HIDE DEF u
  <2> QED  BY <1>2, <2>1
<1> HIDE DEF u
<1>8. sent'[n] = u /\ conn'[n] = d
  BY <1>2, <1>3
<1>9. d \in Conn /\ Numbered(n, u, d)
  <2>1. conn'[n] \in Conn
    <3>1. TypeOK'
      BY DEF JInv, IInv
    <3> QED  BY <3>1 DEF TypeOK
  <2>2. End(n, Peer(n), sent'[n], sent'[Peer(n)], conn'[n], accepted'[n], lost'[n])
    <3>1. Ends'
      BY DEF JInv
    <3> QED  BY <3>1 DEF Ends
  <2> QED  BY <1>5, <1>8, <2>1, <2>2 DEF End
<1>10. \A q \in net' : q \in net \/ q = TxMsg(n, c, x)
  BY <1>1, OneSent
<1> HIDE DEF L, M
<1>11. \E y : /\ d.tx_queue = c.tx_queue \cup {y}
              /\ y.flags = {"ack"} /\ y.data = <<L, s[L] + 1>>
              /\ \A q \in net' : q \in net \/ q = TxMsg(n, c, y)
  BY <1>4, <1>5, <1>10
<1> QED  BY <1>1, <1>2, <1>3, <1>5, <1>7, <1>9, <1>11, ZenonT(60) DEF L

-----------------------------------------------------------------------------
(***************************************************************************)
(* The handshake: what there is before csp_connect, until the SYN/ACK, and *)
(* until the server has answered.                                          *)
(***************************************************************************)
\* Until it is open nothing is sent on a connection; its numbers go on from the
\* last ones the node drew; and no reset waits for retransmission.
Simple(n, s, c) ==
    /\ c.state \in {"SYN_SENT", "SYN_RCVD"} => s[Len(s)] = 0
    /\ s # <<>> => Numbered(n, s, c)
    /\ \A x \in c.tx_queue : "rst" \notin x.flags

SimpleInv == \A n \in Node : Simple(n, sent[n], conn[n])

\* Before csp_connect.
Untouched == sent["client"] = <<>> =>
    /\ net = {} /\ sent["server"] = <<>> /\ ~backlog
    /\ \A n \in Node : user[n] # "open" /\ conn[n].tx_queue = {}

\* From csp_connect until the SYN/ACK: all the packets belong to the handshake.
Calling == conn["client"].state = "SYN_SENT" =>
    /\ \A p \in net : p.dst = "server" => p.flags = {"syn"}
    /\ \A p \in net : p.dst = "client" =>
          "ack" \in p.flags /\ p.ack = Rand["client"][1] /\ Control(p)
    /\ \A p \in net : p.eacks = {}
    /\ conn["server"].state # "OPEN"
    /\ sent["server"] # <<>> =>
          /\ conn["server"].rcv_cur = Rand["client"][1]
          /\ conn["server"].rcv_irs = Rand["client"][1]
    /\ \A x \in conn["client"].tx_queue : x.flags = {"syn"}
    /\ \A x \in conn["server"].tx_queue : {"syn", "ack"} \subseteq x.flags
    /\ ~backlog /\ \A n \in Node : user[n] # "open"

\* Before the server has answered.
Unanswered == sent["server"] = <<>> =>
    /\ \A p \in net : p.dst = "server" /\ p.flags = {"syn"}
    /\ \A x \in conn["client"].tx_queue : x.flags = {"syn"}
    /\ user["client"] # "open" /\ conn["client"].state # "OPEN"

HInv == SimpleInv /\ Untouched /\ Calling /\ Unanswered

\* The two nodes.
LEMMA TwoNodes ==
  /\ "client" \in Node /\ "server" \in Node /\ Peer("client") = "server"
  /\ Peer("server") = "client"
  /\ \A n \in Node : n = "client" \/ n = "server"
BY PeerLemma DEF Node

\* What a step that changes one connection leaves of the other.
LEMMA OneChanged ==
  ASSUME JInv, NEW n \in Node, NEW d, conn' = [conn EXCEPT ![n] = d]
  PROVE  conn'[n] = d /\ \A m \in Node : m # n => conn'[m] = conn[m]
BY TypeParts

\* A step of n on sent leaves the peer's history alone.
LEMMA OneSends ==
  ASSUME JInv, NEW n \in Node, NEW u, sent' = [sent EXCEPT ![n] = u]
  PROVE  sent'[n] = u /\ \A m \in Node : m # n => sent'[m] = sent[m]
BY DEF JInv, IInv, TypeOK

\* The parts of a calm step.
LEMMA CalmSimple ==
  ASSUME JInv, SimpleInv, NEW n \in Node, CalmStep(n)
  PROVE  SimpleInv'
<1>1. PICK d \in Conn : conn' = [conn EXCEPT ![n] = d] /\ Calm(n, conn[n], d, net) /\ UNCHANGED sent
  BY DEF CalmStep
<1>2. Simple(n, sent[n], conn[n])
  BY DEF SimpleInv
<1>3. Simple(n, sent[n], d)
  <2>1. d.state \in {"SYN_SENT", "SYN_RCVD"} => d.state = conn[n].state
    BY <1>1 DEF Calm, Moves
  <2>2. Numbered(n, sent[n], conn[n]) => Numbered(n, sent[n], d)
    BY <1>1 DEF Calm, Numbered
  <2>3. \A x \in d.tx_queue : "rst" \notin x.flags
    BY <1>1, <1>2 DEF Calm, Simple
  <2> QED  BY <1>2, <2>1, <2>2, <2>3 DEF Simple
<1> QED  BY <1>1, <1>3, OneChanged DEF SimpleInv

\* A calm step before csp_connect leaves everything as it was.
LEMMA CalmUntouched ==
  ASSUME JInv, Untouched, NEW n \in Node, CalmStep(n)
  PROVE  Untouched'
<1> SUFFICES ASSUME sent["client"] = <<>> PROVE Untouched'
  BY DEF Untouched, CalmStep
<1>1. PICK d \in Conn :
         /\ conn' = [conn EXCEPT ![n] = d] /\ Calm(n, conn[n], d, net)
         /\ \A q \in net' : q \in net \/ Answer(n, conn[n], d, net, user[n], q)
         /\ UNCHANGED sent /\ Handles
  BY DEF CalmStep
<1>2. /\ net = {} /\ sent["server"] = <<>> /\ ~backlog
      /\ \A m \in Node : user[m] # "open" /\ conn[m].tx_queue = {}
  BY DEF Untouched
<1>3. \A m \in Node : ~conn[m].open
  BY <1>2, TwoNodes DEF JInv, IInv, Started
<1>4. d = conn[n]
  BY <1>1, <1>3 DEF Calm
<1>5. net' = {}
  BY <1>1, <1>2, <1>3 DEF Answer
<1>6. \A m \in Node : conn'[m] = conn[m] /\ conn[m].state # "OPEN"
  BY <1>1, <1>3, <1>4, TypeParts DEF Shape
<1>7. ~backlog' /\ \A m \in Node : user'[m] # "open"
  BY <1>1, <1>2, <1>6, TwoNodes DEF Handles
<1> QED  BY <1>1, <1>2, <1>5, <1>6, <1>7 DEF Untouched

\* A calm step while the client waits for the SYN/ACK.
LEMMA CalmCalling ==
  ASSUME JInv, Calling, NEW n \in Node, CalmStep(n)
  PROVE  Calling'
<1> SUFFICES ASSUME conn'["client"].state = "SYN_SENT" PROVE Calling'
  BY DEF Calling
<1> DEFINE c == conn[n]
           X == Rand["client"][1]
<1>1. PICK d \in Conn :
         /\ conn' = [conn EXCEPT ![n] = d] /\ Calm(n, c, d, net)
         /\ \A q \in net' : q \in net \/ Answer(n, c, d, net, user[n], q)
         /\ UNCHANGED sent /\ Handles
  BY DEF CalmStep
<1>2. conn'[n] = d /\ \A m \in Node : m # n => conn'[m] = conn[m]
  BY <1>1, OneChanged
<1>3. conn["client"].state = "SYN_SENT"
  BY <1>1, <1>2, TwoNodes DEF Calm, Moves
<1>4. /\ \A p \in net : p.dst = "server" => p.flags = {"syn"}
      /\ \A p \in net : p.dst = "client" => "ack" \in p.flags /\ p.ack = X /\ Control(p)
      /\ \A p \in net : p.eacks = {}
      /\ conn["server"].state # "OPEN"
      /\ sent["server"] # <<>> => conn["server"].rcv_cur = X /\ conn["server"].rcv_irs = X
      /\ \A x \in conn["client"].tx_queue : x.flags = {"syn"}
      /\ \A x \in conn["server"].tx_queue : {"syn", "ack"} \subseteq x.flags
      /\ ~backlog /\ \A m \in Node : user[m] # "open"
  BY <1>3 DEF Calling
<1>5. conn'["server"].state # "OPEN"
  BY <1>1, <1>2, <1>4, TwoNodes DEF Calm, Moves
<1>6. ~backlog' /\ \A m \in Node : user'[m] # "open"
  BY <1>1, <1>3, <1>4, <1>5, TwoNodes DEF Handles
<1>7. c.state # "OPEN" /\ d.state # "OPEN"
  BY <1>2, <1>3, <1>4, <1>5, TwoNodes
<1>8. ASSUME NEW q \in net', q \notin net
      PROVE  /\ q.dst = Peer(n) /\ q.eacks = {}
             /\ n = "client" => q.flags = {"syn"}
             /\ n = "server" => "ack" \in q.flags /\ q.ack = X /\ Control(q)
  <2>1. Answer(n, c, d, net, user[n], q)
    BY <1>1, <1>8
  <2>2. q.dst = Peer(n) /\ q.eacks = {} /\ c.open
    BY <1>7, <2>1 DEF Answer, Reports
  <2>3. CASE n = "client"
    <3>1. d.state = "SYN_SENT" /\ c.state = "SYN_SENT"
      BY <1>2, <1>3, <2>3
    <3> QED  BY <1>4, <2>1, <2>2, <2>3, <3>1, TwoNodes DEF Answer, Control
  <2>4. CASE n = "server"
    <3>1. "ack" \in q.flags /\ Control(q)
      BY <1>4, <1>7, <2>1, <2>4, TwoNodes DEF Answer, Control
    <3>2. q.ack = X
      <4>1. sent["server"] # <<>>
        BY <2>2, <2>4, TwoNodes DEF JInv, IInv, Started
      <4> QED  BY <1>4, <2>1, <2>4, <3>1, <4>1 DEF Answer, Reports
    <3> QED  BY <2>2, <2>4, <3>1, <3>2
  <2> QED  BY <2>2, <2>3, <2>4, TwoNodes
<1>9. /\ \A p \in net' : p.dst = "server" => p.flags = {"syn"}
      /\ \A p \in net' : p.dst = "client" => "ack" \in p.flags /\ p.ack = X /\ Control(p)
      /\ \A p \in net' : p.eacks = {}
  BY <1>4, <1>8, TwoNodes
<1>10. sent'["server"] # <<>> => conn'["server"].rcv_cur = X /\ conn'["server"].rcv_irs = X
  BY <1>1, <1>2, <1>4, TwoNodes DEF Calm
<1>11. /\ \A x \in conn'["client"].tx_queue : x.flags = {"syn"}
       /\ \A x \in conn'["server"].tx_queue : {"syn", "ack"} \subseteq x.flags
  <2>1. CASE n = "client"
    BY <1>1, <1>2, <1>3, <1>4, <2>1, TwoNodes DEF Calm
  <2>2. CASE n = "server"
    BY <1>1, <1>2, <1>4, <2>2, TwoNodes DEF Calm
  <2> QED  BY <2>1, <2>2, TwoNodes
<1> QED  BY <1>5, <1>6, <1>9, <1>10, <1>11 DEF Calling, Control

\* A calm step before the server has answered.
LEMMA CalmUnanswered ==
  ASSUME JInv, Unanswered, NEW n \in Node, CalmStep(n)
  PROVE  Unanswered'
<1> SUFFICES ASSUME sent["server"] = <<>> PROVE Unanswered'
  BY DEF Unanswered, CalmStep
<1> DEFINE c == conn[n]
<1>1. PICK d \in Conn :
         /\ conn' = [conn EXCEPT ![n] = d] /\ Calm(n, c, d, net)
         /\ \A q \in net' : q \in net \/ Answer(n, c, d, net, user[n], q)
         /\ UNCHANGED sent /\ Handles
  BY DEF CalmStep
<1>2. conn'[n] = d /\ \A m \in Node : m # n => conn'[m] = conn[m]
  BY <1>1, OneChanged
<1>3. /\ \A p \in net : p.dst = "server" /\ p.flags = {"syn"}
      /\ \A x \in conn["client"].tx_queue : x.flags = {"syn"}
      /\ user["client"] # "open" /\ conn["client"].state # "OPEN"
  BY DEF Unanswered
<1>4. CASE n = "server"
  <2>1. ~c.open
    BY <1>4, TwoNodes DEF JInv, IInv, Started
  <2>2. d = c /\ net' \subseteq net
    BY <1>1, <2>1 DEF Calm, Answer
  <2> QED  BY <1>1, <1>2, <1>3, <1>4, <2>2, TwoNodes DEF Unanswered, Handles
<1>5. CASE n = "client"
  <2>1. c.state # "SYN_RCVD" /\ ~c.socket
    BY <1>5, TypeParts DEF Shape
  <2>2. d.state # "OPEN"
    BY <1>1, <1>3, <1>5, <2>1 DEF Calm, Moves
  <2>3. \A x \in d.tx_queue : x.flags = {"syn"}
    BY <1>1, <1>3, <1>5, <2>1 DEF Calm
  <2>4. user'["client"] # "open"
    BY <1>1, <1>3, <1>5, TwoNodes DEF Handles
  <2>5. \A q \in net' : q.dst = "server" /\ q.flags = {"syn"}
    BY <1>1, <1>3, <1>5, <2>1, TwoNodes DEF Answer, Occasion
  <2> QED  BY <1>2, <1>5, <2>2, <2>3, <2>4, <2>5, TwoNodes DEF Unanswered
<1> QED  BY <1>4, <1>5, TwoNodes

-----------------------------------------------------------------------------
(***************************************************************************)
(* The other steps and the handshake.                                      *)
(***************************************************************************)
\* A packet that is not part of the handshake: it is over.
LEMMA HandshakeOver ==
  ASSUME HInv, NEW p \in net, p.dst \in Node, "syn" \notin p.flags,
         p.dst = "client" => ~Control(p)
  PROVE  /\ sent["client"] # <<>> /\ sent["server"] # <<>>
         /\ conn["client"].state # "SYN_SENT"
BY TwoNodes DEF HInv, Untouched, Calling, Unanswered

\* csp_connect.
LEMMA ConnectHand ==
  ASSUME JInv, JInv', ConnectsOnce, HInv, Connect \/ ConnectRetry
  PROVE  HInv'
<1> DEFINE n == "client"
           c == conn[n]
           X == Rand[n][1]
           P == Cmp(n, {"syn"}, X, 0)
<1>1. /\ sent[n] = <<>> /\ sent' = [sent EXCEPT ![n] = <<0>>]
      /\ user' = [user EXCEPT ![n] = "connecting"] /\ UNCHANGED backlog
  BY ConnectEffect
<1>2. PICK d \in Conn :
         /\ conn' = [conn EXCEPT ![n] = d]
         /\ d.state = "SYN_SENT" /\ Numbered(n, <<0>>, d)
         /\ \A x \in d.tx_queue : x \in c.tx_queue \/ x.flags = {"syn"}
         /\ \A q \in net' : q \in net \/ q = P
  BY ConnectEffect
<1>3. /\ net = {} /\ sent["server"] = <<>> /\ ~backlog
      /\ \A m \in Node : user[m] # "open" /\ conn[m].tx_queue = {}
  BY <1>1 DEF HInv, Untouched
<1>4. n \in Node
  BY TwoNodes
<1>5. conn'[n] = d /\ \A m \in Node : m # n => conn'[m] = conn[m]
  BY <1>2, <1>4, OneChanged
<1>6. sent'[n] = <<0>> /\ \A m \in Node : m # n => sent'[m] = sent[m]
  BY <1>1, <1>4, OneSends
<1>7. \A q \in net' : q = P
  BY <1>2, <1>3
<1>8. P.dst = "server" /\ P.flags = {"syn"} /\ P.eacks = {}
  BY TwoNodes DEF Cmp
<1> HIDE DEF P
<1>9. \A x \in d.tx_queue : x.flags = {"syn"}
  BY <1>2, <1>3, <1>4
<1>10. \A m \in Node : user'[m] # "open"
  BY <1>1, <1>3 DEF JInv, IInv, TypeOK
<1>11. SimpleInv'
  <2>1. Simple(n, <<0>>, d)
    BY <1>2, <1>9 DEF Simple
  <2> QED  BY <1>4, <1>5, <1>6, <2>1 DEF HInv, SimpleInv
<1>12. Untouched'
  BY <1>6 DEF Untouched
<1>13. Calling'
  <2>1. sent'["server"] = <<>> /\ conn'["server"] = conn["server"]
    BY <1>3, <1>5, <1>6, TwoNodes
  <2>2. ~conn["server"].open
    BY <1>3, TwoNodes DEF JInv, IInv, Started
  <2>3. conn'["server"].state # "OPEN" /\ conn'["server"].tx_queue = {}
    BY <1>3, <2>1, <2>2, TwoNodes, TypeParts DEF Shape
  <2> QED  BY <1>1, <1>3, <1>5, <1>7, <1>8, <1>9, <1>10, <2>1, <2>3 DEF Calling
<1>14. Unanswered'
  BY <1>2, <1>4, <1>5, <1>7, <1>8, <1>9, <1>10 DEF Unanswered
<1> QED  BY <1>11, <1>12, <1>13, <1>14 DEF HInv

\* A SYN.
LEMMA SynHand ==
  ASSUME JInv, JInv', ConnectsOnce, HInv, NEW p \in net, RecvSyn(p)
  PROVE  HInv'
<1> DEFINE n == "server"
           c == conn[n]
           X == Rand["client"][1]
           u == Append(sent[n], 0)
<1>1. /\ p.dst = n /\ "syn" \in p.flags /\ sent' = [sent EXCEPT ![n] = u]
      /\ UNCHANGED <<user, backlog>>
  BY SynEffect
<1>2. PICK d \in Conn :
         /\ conn' = [conn EXCEPT ![n] = d]
         /\ d.state = "SYN_RCVD" /\ Numbered(n, u, d)
         /\ d.rcv_cur = p.seq /\ d.rcv_irs = p.seq
         /\ \A x \in d.tx_queue : x \in c.tx_queue \/ x.flags = {"ack", "syn"}
         /\ \A q \in net' : q \in net \/ q = SynAckMsg(n, d)
  BY SynEffect
<1>3. n \in Node
  BY TwoNodes
<1>4. conn'[n] = d /\ \A m \in Node : m # n => conn'[m] = conn[m]
  BY <1>2, <1>3, OneChanged
<1>5. sent'[n] = u /\ \A m \in Node : m # n => sent'[m] = sent[m]
  BY <1>1, <1>3, OneSends
<1>6. u # <<>> /\ u[Len(u)] = 0
  BY <1>3, Parts, AppendGrows
<1>7. p.seq = X
  <2>1. Genuine("client", sent["client"], p)
    BY <1>1, TwoNodes DEF JInv, Packets
  <2>2. PICK e \in 1 .. Len(sent["client"]) : p.seq = Rand["client"][e]
    BY <1>1, <2>1 DEF Genuine
  <2>3. Len(sent["client"]) <= Len(Rand["client"]) /\ Len(Rand["client"]) <= 1
    BY TwoNodes DEF JInv, Bounds, ConnectsOnce
  <2>4. Len(sent["client"]) \in Nat /\ Len(Rand["client"]) \in Nat
    BY TwoNodes, RdpAssumption DEF JInv, IInv, TypeOK
  <2>5. e = 1
    BY <2>2, <2>3, <2>4
  <2> QED  BY <2>2, <2>5
<1> DEFINE P == SynAckMsg(n, d)
<1>8. P.dst = "client" /\ P.flags = {"ack", "syn"} /\ P.eacks = {} /\ P.ack = X
  BY <1>2, <1>7, TwoNodes DEF SynAckMsg, Cmp
<1> HIDE DEF P, u
<1>9. SimpleInv'
  <2>1. Simple(n, sent[n], c)
    BY <1>3 DEF HInv, SimpleInv
  <2>2. \A x \in d.tx_queue : "rst" \notin x.flags
    BY <1>2, <2>1 DEF Simple
  <2>3. Simple(n, u, d)
    BY <1>2, <1>6, <2>2 DEF Simple
  <2> QED  BY <1>3, <1>4, <1>5, <2>3 DEF HInv, SimpleInv
<1>10. Untouched'
  <2>1. sent["client"] # <<>>
    BY DEF HInv, Untouched
  <2> QED  BY <1>5, <2>1, TwoNodes DEF Untouched
<1>11. Calling'
  <2> SUFFICES ASSUME conn["client"].state = "SYN_SENT" PROVE Calling'
    BY <1>4, TwoNodes DEF Calling
  <2>1. /\ \A q \in net : q.dst = "server" => q.flags = {"syn"}
        /\ \A q \in net : q.dst = "client" => "ack" \in q.flags /\ q.ack = X /\ Control(q)
        /\ \A q \in net : q.eacks = {}
        /\ \A x \in conn["client"].tx_queue : x.flags = {"syn"}
        /\ \A x \in c.tx_queue : {"syn", "ack"} \subseteq x.flags
        /\ ~backlog /\ \A m \in Node : user[m] # "open"
    BY DEF HInv, Calling
  <2>2. /\ \A q \in net' : q.dst = "server" => q.flags = {"syn"}
        /\ \A q \in net' : q.dst = "client" => "ack" \in q.flags /\ q.ack = X /\ Control(q)
        /\ \A q \in net' : q.eacks = {}
    BY <1>2, <1>8, <2>1 DEF Control, P
  <2>3. \A x \in d.tx_queue : {"syn", "ack"} \subseteq x.flags
    BY <1>2, <2>1
  <2>4. conn'["client"] = conn["client"]
    BY <1>4, TwoNodes
  <2> QED  BY <1>1, <1>2, <1>4, <1>7, <2>1, <2>2, <2>3, <2>4 DEF Calling, Control
<1>12. Unanswered'
  BY <1>5, <1>6 DEF Unanswered
<1> QED  BY <1>9, <1>10, <1>11, <1>12 DEF HInv

\* A SYN/ACK.
LEMMA SynAckHand ==
  ASSUME JInv, HInv, NEW p \in net, RecvSynAck(p)
  PROVE  HInv'
<1> DEFINE n == "client"
           c == conn[n]
<1>1. p.dst = n /\ UNCHANGED <<sent, user, backlog>>
  BY SynAckEffect
<1>2. PICK d \in Conn :
         /\ conn' = [conn EXCEPT ![n] = d] /\ d.state = "OPEN"
         /\ d.snd_iss = c.snd_iss /\ d.snd_nxt = c.snd_nxt /\ d.tx_queue = c.tx_queue
  BY SynAckEffect
<1>3. n \in Node
  BY TwoNodes
<1>4. conn'[n] = d /\ \A m \in Node : m # n => conn'[m] = conn[m]
  BY <1>2, <1>3, OneChanged
<1>5. SimpleInv'
  <2>1. Simple(n, sent[n], c)
    BY <1>3 DEF HInv, SimpleInv
  <2>2. Simple(n, sent[n], d)
    BY <1>2, <2>1 DEF Simple, Numbered
  <2> QED  BY <1>1, <1>3, <1>4, <2>2 DEF HInv, SimpleInv
<1>6. Untouched'
  BY <1>1 DEF HInv, Untouched
<1>7. Calling'
  BY <1>2, <1>4 DEF Calling
<1>8. Unanswered'
  BY <1>1 DEF HInv, Unanswered
<1> QED  BY <1>5, <1>6, <1>7, <1>8 DEF HInv

\* The server's stray RST.
LEMMA NoSynHand ==
  ASSUME JInv, HInv, NoSynReset
  PROVE  HInv'
<1>1. PICK p \in net : RecvNoSyn(p) /\ "rst" \notin p.flags
  BY DEF NoSynReset
<1>2. UNCHANGED <<conn, sent, user, backlog>> /\ p.dst = "server" /\ "syn" \notin p.flags
  BY <1>1 DEF RecvNoSyn, hist
<1>3. /\ sent["client"] # <<>> /\ sent["server"] # <<>>
      /\ conn["client"].state # "SYN_SENT"
  BY <1>2, TwoNodes, HandshakeOver
<1> QED  BY <1>2, <1>3 DEF HInv, SimpleInv, Untouched, Calling, Unanswered

\* A message is submitted.
LEMMA SendHand ==
  ASSUME JInv, JInv', HInv, NEW n \in Node, Send(n)
  PROVE  HInv'
<1> DEFINE c == conn[n]
           s == sent[n]
<1>1. c.state = "OPEN" /\ c.open /\ UNCHANGED <<user, backlog>> /\ Len(s) \in 1 .. Len(s)
  BY SendEffect
<1>2. PICK d \in Conn, u \in Seq(Nat) :
         /\ conn' = [conn EXCEPT ![n] = d] /\ sent' = [sent EXCEPT ![n] = u]
         /\ Len(u) = Len(s)
         /\ d.state = "OPEN" /\ Numbered(n, u, d)
         /\ \E x : d.tx_queue = c.tx_queue \cup {x} /\ x.flags = {"ack"}
  BY SendEffect
<1>3. conn'[n] = d /\ \A m \in Node : m # n => conn'[m] = conn[m]
  BY <1>2, OneChanged
<1>4. sent'[n] = u /\ \A m \in Node : m # n => sent'[m] = sent[m]
  BY <1>2, OneSends
<1>5. s # <<>> /\ u # <<>>
  BY <1>1, <1>2
<1>6. SimpleInv'
  <2>1. Simple(n, s, c)
    BY DEF HInv, SimpleInv
  <2>2. Simple(n, u, d)
    BY <1>2, <2>1 DEF Simple
  <2> QED  BY <1>3, <1>4, <2>2 DEF HInv, SimpleInv
<1>7. sent["client"] # <<>> /\ sent["server"] # <<>>
  BY <1>1, <1>5, TwoNodes DEF HInv, Untouched, Unanswered
<1>8. sent'["client"] # <<>> /\ sent'["server"] # <<>>
  BY <1>4, <1>5, <1>7, TwoNodes
<1>9. conn'["client"].state # "SYN_SENT"
  BY <1>1, <1>2, <1>3, TwoNodes DEF HInv, Calling
<1> QED  BY <1>6, <1>8, <1>9 DEF HInv, Untouched, Calling, Unanswered

\* A packet in sequence.
LEMMA InOrderHand ==
  ASSUME DistinctNumbers, JInv, HInv, NEW n \in Node, NEW p \in net, RecvInOrder(n, p)
  PROVE  HInv'
<1> DEFINE c == conn[n]
<1>1. p.dst = n /\ "ack" \in p.flags /\ ~Control(p) /\ c.open
  BY OpenedFields DEF RecvInOrder
<1>2. /\ sent["client"] # <<>> /\ sent["server"] # <<>>
      /\ conn["client"].state # "SYN_SENT"
  BY <1>1, HandshakeOver DEF Control
<1>3. PICK d \in Conn : /\ conn' = [conn EXCEPT ![n] = d] /\ UNCHANGED sent
                        /\ \E N : Advanced(c, d, N)
  BY InOrderStep
<1>4. conn'[n] = d /\ \A m \in Node : m # n => conn'[m] = conn[m]
  BY <1>3, OneChanged
<1>5. SimpleInv'
  <2>1. Simple(n, sent[n], c)
    BY DEF HInv, SimpleInv
  <2>2. Simple(n, sent[n], d)
    BY <1>3, <2>1 DEF Simple, Advanced, Numbered
  <2> QED  BY <1>3, <1>4, <2>2 DEF HInv, SimpleInv
<1>6. conn'["client"].state # "SYN_SENT"
  BY <1>2, <1>3, <1>4, TwoNodes DEF Advanced
<1> QED  BY <1>2, <1>3, <1>5, <1>6 DEF HInv, Untouched, Calling, Unanswered

\* A half-open connection is never met.
LEMMA NoHalfOpen ==
  ASSUME HInv, NEW p \in net
  PROVE  ~RecvHalfOpen(p)
BY HandshakeOver, TwoNodes DEF RecvHalfOpen, Control

\* Every step keeps the invariant of the handshake.
LEMMA NextHInv ==
  ASSUME DistinctNumbers, ConnectsOnce, JInv, JInv', HInv, [Next]_vars
  PROVE  HInv'
<1>1. CASE Restless
  BY <1>1, ConnectHand, SynHand, SynAckHand, NoSynHand, SendHand, InOrderHand, NoHalfOpen
     DEF Restless
<1>2. ASSUME NEW n \in Node, CalmStep(n) PROVE HInv'
  BY <1>2, CalmSimple, CalmUntouched, CalmCalling, CalmUnanswered DEF HInv
<1> QED  BY <1>1, <1>2, CalmOrRestless

\* The initial states.
LEMMA InitHInv == Init => HInv
<1> SUFFICES ASSUME Init PROVE HInv
  OBVIOUS
<1>1. /\ net = {} /\ ~backlog
      /\ \A n \in Node : /\ conn[n].state = "CLOSED" /\ conn[n].tx_queue = {}
                        /\ sent[n] = <<>> /\ user[n] = "idle"
  BY DEF Init
<1>2. SimpleInv
  BY <1>1 DEF SimpleInv, Simple
<1>3. Untouched /\ Calling /\ Unanswered
  BY <1>1, TwoNodes DEF Untouched, Calling, Unanswered
<1> QED  BY <1>2, <1>3 DEF HInv

-----------------------------------------------------------------------------
(***************************************************************************)
(* Two ends that talk to each other.                                       *)
(***************************************************************************)
\* Message k of epoch e has arrived at the connection d.
Held(e, k, d) == k <= Count(d) \/ \E x \in d.rx_queue : x.data = <<e, k>>

\* The acknowledgements on their way to n, whose epoch is e and whose peer is d.
Heard(n, e, d, N) ==
    \A p \in N : p.dst = n /\ "ack" \in p.flags =>
        \E k \in 0 .. Count(d) : p.ack = Number(n, e, k)

\* The last one that n has obeyed.
Based(n, e, c, d) ==
    c.state = "OPEN" => \E k \in 0 .. Count(d) : c.snd_una = Number(n, e, k + 1)

\* A message not yet at d is still with its sender.
Safe(s, c, d) ==
    \A k \in 1 .. s[Len(s)] :
        Held(Len(s), k, d) \/ \E x \in c.tx_queue : x.data = <<Len(s), k>>

\* What an EACK lists has arrived.
Listed(n, s, d, N) ==
    \A p \in N : p.dst = n => \A q \in p.eacks :
        \E f \in 1 .. Len(s) : \E k \in 1 .. s[f] :
            q = Number(n, f, k) /\ (f = Len(s) => Held(f, k, d))

\* From n, with history s and connection c, to the connection d.
Direction(n, s, c, d, N) ==
    /\ Heard(n, Len(s), d, N) /\ Based(n, Len(s), c, d)
    /\ s[Len(s)] <= Count(d) + Window
    /\ Safe(s, c, d) /\ Listed(n, s, d, N)

Paired ==
    /\ conn["client"].state = "OPEN" /\ conn["server"].state \in InSync
    /\ conn["client"].rcv_irs = conn["server"].snd_iss

Directions == \A n \in Node : Direction(n, sent[n], conn[n], conn[Peer(n)], net)

\* The acknowledgements of an open client are of its connection.
ClientAcks ==
    conn["client"].state = "OPEN" =>
        \A p \in net : p.dst = "server" /\ "ack" \in p.flags =>
            \E k \in 0 .. Count(conn["client"]) : p.ack = Mod16(conn["client"].rcv_irs + k)

PairInv == ClientAcks /\ (BothOpen => Paired) /\ (Paired => Directions)

\* The hypotheses on the constants.
Apart == SeparateNumbers /\ ConnectsOnce /\ HalfRange

\* Numbers that are apart with the initial ones are so without them.
LEMMA SeparateDistinct == SeparateNumbers => DistinctNumbers
<1> SUFFICES ASSUME SeparateNumbers, NEW n \in Node, NEW e \in DOMAIN Rand[n],
                    NEW f \in DOMAIN Rand[n],
                    NEW j \in 1 .. MaxSend[n] + 1, NEW k \in 1 .. MaxSend[n],
                    Mod16(Rand[n][e] + j) = Mod16(Rand[n][f] + k)
             PROVE  e = f /\ j = k
  BY DEF DistinctNumbers
<1>1. MaxSend[n] \in Nat
  BY RdpAssumption
<1>2. j \in 0 .. MaxSend[n] + 1 /\ k \in 0 .. MaxSend[n] + 1
  BY <1>1
<1> QED  BY <1>2 DEF SeparateNumbers

\* The numbers of a node that has drawn some.
LEMMA DrawnNumbers ==
  ASSUME JInv, NEW n \in Node, NEW e \in 1 .. Len(sent[n])
  PROVE  /\ e \in DOMAIN Rand[n] /\ Rand[n][e] \in SeqNr /\ Rand[n][e] \in Int
         /\ Number(n, e, 0) = Rand[n][e]
         /\ sent[n][e] \in Nat /\ MaxSend[n] \in Nat /\ sent[n][e] <= MaxSend[n]
         /\ Len(sent[n]) \in Nat
<1>1. /\ sent[n] \in Seq(Nat) /\ Rand[n] \in Seq(SeqNr) /\ MaxSend[n] \in Nat
      /\ Len(sent[n]) <= Len(Rand[n]) /\ sent[n][e] <= MaxSend[n]
  BY RdpAssumption DEF JInv, IInv, TypeOK, Bounds
<1>2. e \in DOMAIN Rand[n] /\ sent[n][e] \in Nat /\ Rand[n][e] \in SeqNr
  BY <1>1
<1>3. Rand[n][e] \in Int
  BY <1>2, SeqNrLemma
<1>4. Number(n, e, 0) = Rand[n][e]
  <2> DEFINE r == Rand[n][e]
  <2>1. r \in SeqNr /\ r \in Int
    BY <1>2, <1>3
  <2> SUFFICES Mod16(r + 0) = r
    BY DEF Number
  <2> HIDE DEF r
  <2>2. r + 0 = r
    BY <2>1
  <2> QED  BY <2>1, <2>2, Mod16Sums
<1> QED  BY <1>1, <1>2, <1>3, <1>4

\* Equal numbers are numbers of the same message.
LEMMA OneNumber ==
  ASSUME SeparateNumbers, JInv, NEW n \in Node, NEW e \in 1 .. Len(sent[n]),
         NEW f \in 1 .. Len(sent[n]), NEW j \in Nat, j <= MaxSend[n] + 1,
         NEW k \in Nat, k <= MaxSend[n] + 1, Number(n, e, j) = Number(n, f, k)
  PROVE  e = f /\ j = k
<1>1. e \in DOMAIN Rand[n] /\ f \in DOMAIN Rand[n] /\ MaxSend[n] \in Nat
  BY DrawnNumbers
<1>2. j \in 0 .. MaxSend[n] + 1 /\ k \in 0 .. MaxSend[n] + 1
  BY <1>1
<1> QED  BY <1>1, <1>2 DEF SeparateNumbers, Number

\* The same under all the hypotheses.
LEMMA SameNumber ==
  ASSUME Apart, JInv, NEW n \in Node, NEW e \in 1 .. Len(sent[n]),
         NEW f \in 1 .. Len(sent[n]), NEW j \in Nat, j <= MaxSend[n] + 1,
         NEW k \in Nat, k <= MaxSend[n] + 1, Number(n, e, j) = Number(n, f, k)
  PROVE  e = f /\ j = k
BY OneNumber DEF Apart

\* The successor of a number.
LEMMA NextNumber ==
  ASSUME NEW n, NEW e, Rand[n][e] \in Int, NEW k \in Nat
  PROVE  Mod16(Number(n, e, k) + 1) = Number(n, e, k + 1)
<1> DEFINE r == Rand[n][e]
           q == r + k
<1>1. q \in Int /\ q + 1 = r + (k + 1)
  OBVIOUS
<1> SUFFICES Mod16(Mod16(q) + 1) = Mod16(r + (k + 1))
  BY DEF Number
<1> HIDE DEF r, q
<1>2. 1 \in Int
  OBVIOUS
<1> QED  BY <1>1, <1>2, Mod16Sums

\* The differences that csp_rdp_seq_before and csp_rdp_seq_after compute.
LEMMA Mod16Differences ==
  /\ \A q, j, k \in Int : Mod16(Mod16(q + j) - Mod16(q + k)) = Mod16(j - k)
  /\ \A j \in Int : -32768 < j /\ j < 0 => Mod16(j) >= 32768
  /\ \A j \in Int : 0 <= j /\ j < 32768 => Mod16(j) < 32768
<1>2. \A q, j, k \in Int : Mod16(Mod16(q + j) - Mod16(q + k)) = Mod16(j - k)
  <2> SUFFICES ASSUME NEW q \in Int, NEW j \in Int, NEW k \in Int
               PROVE  Mod16(Mod16(q + j) - Mod16(q + k)) = Mod16(j - k)
    OBVIOUS
  <2>1. \A a, b \in Int : Mod16(Mod16(a) - Mod16(b)) = Mod16(a - b)
    BY SMT DEF Mod16
  <2>2. q + j \in Int /\ q + k \in Int /\ (q + j) - (q + k) = j - k
    OBVIOUS
  <2> QED  BY <2>1, <2>2
<1>3. \A j \in Int : -32768 < j /\ j < 0 => Mod16(j) >= 32768
  BY SMT DEF Mod16
<1>4. \A j \in Int : 0 <= j /\ j < 32768 => Mod16(j) < 32768
  BY SMT DEF Mod16
<1> QED  BY <1>2, <1>3, <1>4

\* What lies before the number after j is at most j.
LEMMA BeforeNumber ==
  ASSUME NEW n, NEW e, Rand[n][e] \in Int, NEW j \in Nat, NEW k \in Nat, k <= 32768,
         Before(Number(n, e, k), Number(n, e, j + 1))
  PROVE  k <= j
<1> SUFFICES ASSUME k > j PROVE FALSE
  OBVIOUS
<1> DEFINE i == k - (j + 1)
<1>1. i \in Int /\ 0 <= i /\ i < 32768
  OBVIOUS
<1>2. Mod16(Number(n, e, k) - Number(n, e, j + 1)) = Mod16(i)
  BY Mod16Differences DEF Number
<1> HIDE DEF i
<1>3. Mod16(i) < 32768 /\ Mod16(i) \in Int
  BY <1>1, Mod16Differences, Mod16Type, SeqNrLemma
<1>4. Mod16(i) >= 32768
  BY <1>2 DEF Before
<1> QED  BY <1>3, <1>4

\* A sender that may send is within the window.
LEMMA WindowNumber ==
  ASSUME NEW n, NEW e, Rand[n][e] \in Int, NEW j \in Nat, NEW k \in Nat, k < 32768,
         ~After(Number(n, e, k + 1), Number(n, e, j + 1) + Window - 1)
  PROVE  k + 1 <= j + Window
<1>1. Window \in Nat \ {0}
  BY RdpAssumption
<1> SUFFICES ASSUME k + 1 > j + Window PROVE FALSE
  BY <1>1
<1> DEFINE i == ((j + 1) + (Window - 1)) - (k + 1)
<1>2. i \in Int /\ -32768 < i /\ i < 0
  BY <1>1
<1>3. Mod16((Number(n, e, j + 1) + (Window - 1)) - Number(n, e, k + 1)) = Mod16(i)
  <2> DEFINE r == Rand[n][e]
             a == j + 1
             b == k + 1
             w == Window - 1
  <2>1. r \in Int /\ a \in Int /\ b \in Int /\ w \in Int
    BY <1>1
  <2> SUFFICES Mod16((Mod16(r + a) + w) - Mod16(r + b)) = Mod16((a + w) - b)
    BY DEF Number
  <2> HIDE DEF r, a, b, w
  <2> DEFINE x == r + a
             y == r + b
  <2>2. x \in Int /\ y \in Int /\ (x + w) - y = (a + w) - b
    BY <2>1
  <2> HIDE DEF x, y
  <2>3. Mod16((Mod16(x) + w) - Mod16(y)) = Mod16((x + w) - y)
    BY <2>1, <2>2, SMT DEF Mod16
  <2> QED  BY <2>2, <2>3 DEF x, y
<1>4. Number(n, e, j + 1) + Window - 1 = Number(n, e, j + 1) + (Window - 1)
  <2>1. Number(n, e, j + 1) \in Int
    BY Mod16Type, SeqNrLemma DEF Number
  <2> QED  BY <1>1, <2>1
<1> HIDE DEF i
<1>5. Mod16(i) >= 32768
  BY <1>2, Mod16Differences
<1> QED  BY <1>3, <1>4, <1>5 DEF After, Before

-----------------------------------------------------------------------------
(***************************************************************************)
(* What two ends that talk to each other have in common.                   *)
(***************************************************************************)
\* What rcv_cur and rcv_irs acknowledge.
LEMMA OwnAcks ==
  ASSUME NEW c \in Conn
  PROVE  /\ Count(c) \in Nat /\ Count(c) \in 0 .. Count(c) /\ 0 \in 0 .. Count(c)
         /\ c.rcv_cur = Mod16(c.rcv_irs + Count(c))
         /\ c.rcv_irs = Mod16(c.rcv_irs + 0)
         /\ Mod16(c.rcv_cur + 1) = Mod16(c.rcv_irs + (Count(c) + 1))
<1> DEFINE q == c.rcv_irs
           r == c.rcv_cur
           k == Count(c)
<1>1. q \in SeqNr /\ r \in SeqNr /\ q \in Int /\ r \in Int
  BY SeqNrLemma DEF Conn
<1>2. k \in SeqNr /\ k = Mod16(r - q)
  BY CountType DEF Count
<1>3. k \in Nat
  BY <1>2, Mod16Sums
<1> HIDE DEF q, r, k
<1>4a. \A j \in Int : Mod16(r + j) = Mod16(q + (k + j))
  BY <1>1, <1>2, Mod16Sums
<1>4. Mod16(r + 0) = Mod16(q + (k + 0)) /\ Mod16(r + 1) = Mod16(q + (k + 1))
  BY <1>4a
<1>5. r + 0 = r /\ k + 0 = k /\ q + 0 = q
  BY <1>1, <1>3
<1>6. r = Mod16(q + k) /\ q = Mod16(q + 0)
  BY <1>1, <1>4, <1>5, Mod16Sums
<1>7. k \in 0 .. k /\ 0 \in 0 .. k
  BY <1>3
<1> QED  BY <1>3, <1>4, <1>6, <1>7 DEF q, r, k

\* An open end has drawn a number, and goes on from it.
LEMMA OpenEnd ==
  ASSUME JInv, HInv, NEW n \in Node, conn[n].state # "CLOSED"
  PROVE  LET L == Len(sent[n]) IN
         /\ conn[n].open /\ L \in 1 .. Len(sent[n]) /\ Numbered(n, sent[n], conn[n])
         /\ conn[n].snd_iss = Number(n, L, 0) /\ Simple(n, sent[n], conn[n])
<1>1. conn[n].open
  BY TypeParts DEF Shape
<1>2. Len(sent[n]) \in 1 .. Len(sent[n])
  BY <1>1, Parts
<1>3. sent[n] # <<>> /\ Simple(n, sent[n], conn[n])
  BY <1>1 DEF JInv, IInv, Started, HInv, SimpleInv
<1>4. Numbered(n, sent[n], conn[n])
  BY <1>3 DEF Simple
<1>5. conn[n].snd_iss = Number(n, Len(sent[n]), 0)
  <2> DEFINE L == Len(sent[n])
  <2>1. L \in 1 .. Len(sent[n])
    BY <1>2
  <2> HIDE DEF L
  <2>2. Number(n, L, 0) = Rand[n][L]
    BY <2>1, DrawnNumbers
  <2>3. conn[n].snd_iss = Rand[n][L]
    BY <1>4 DEF Numbered, L
  <2> QED  BY <2>2, <2>3 DEF L
<1> QED  BY <1>1, <1>2, <1>3, <1>4, <1>5

\* What an end in sync has received are messages of one number of the peer.
LEMMA ReceivedOne ==
  ASSUME JInv, NEW m \in Node, conn[m].state \in InSync
  PROVE  \E e \in 1 .. Len(sent[Peer(m)]) :
            /\ Passed(Peer(m), sent[Peer(m)], conn[m], e, accepted[m], lost[m])
            /\ conn[m].rcv_irs = Number(Peer(m), e, 0)
<1>1. Got(Peer(m), sent[Peer(m)], conn[m], accepted[m], lost[m])
  BY Parts DEF End
<1>2. PICK e \in 1 .. Len(sent[Peer(m)]) :
         Passed(Peer(m), sent[Peer(m)], conn[m], e, accepted[m], lost[m])
  BY <1>1 DEF Got
<1>3. Peer(m) \in Node
  BY PeerType
<1>4. Number(Peer(m), e, 0) = Rand[Peer(m)][e]
  BY <1>3, DrawnNumbers
<1> QED  BY <1>2, <1>4 DEF Passed

\* Two ends that talk to each other.
PairFacts(n) ==
    LET m == Peer(n)
        s == sent[n]
        L == Len(s)
    IN  /\ conn[n].state \in InSync /\ conn[m].state \in InSync
        /\ conn[n].open /\ conn[m].open /\ L \in 1 .. Len(s)
        /\ Numbered(n, s, conn[n]) /\ Simple(n, s, conn[n])
        /\ Passed(n, s, conn[m], L, accepted[m], lost[m])
        /\ conn[m].rcv_irs = Number(n, L, 0)
        /\ Count(conn[m]) \in Nat /\ Count(conn[m]) <= s[L]

\* What the numbers of two ends that talk to each other come to.
LEMMA PairedFacts ==
  ASSUME Apart, JInv, HInv, Paired, NEW n \in Node
  PROVE  PairFacts(n)
<1> DEFINE m == Peer(n)
           s == sent[n]
           L == Len(s)
<1>1. m \in Node /\ Peer(m) = n
  BY PeerPeer, PeerType
<1>2. conn[n].state \in InSync /\ conn[m].state \in InSync
  BY TwoNodes DEF Paired, InSync
<1>3. conn[n].state # "CLOSED" /\ conn[m].state # "CLOSED"
  BY <1>2 DEF InSync
<1>4. /\ conn[n].open /\ L \in 1 .. Len(s) /\ Numbered(n, s, conn[n])
      /\ conn[n].snd_iss = Number(n, L, 0) /\ Simple(n, s, conn[n])
  BY <1>3, OpenEnd
<1>5. conn[m].open
  BY <1>1, <1>3, OpenEnd
<1>6. PICK e \in 1 .. Len(s) : /\ Passed(n, s, conn[m], e, accepted[m], lost[m])
                               /\ conn[m].rcv_irs = Number(n, e, 0)
  BY <1>1, <1>2, ReceivedOne
<1>7. e = L
  <2>1. CASE n = "server"
    <3>1. conn[m].rcv_irs = conn[n].snd_iss
      BY <2>1, TwoNodes DEF Paired
    <3>2. Number(n, e, 0) = Number(n, L, 0)
      BY <1>4, <1>6, <3>1
    <3>3. MaxSend[n] \in Nat
      BY RdpAssumption
    <3> DEFINE z == 0
    <3>4. z \in Nat /\ z <= MaxSend[n] + 1 /\ Number(n, e, z) = Number(n, L, z)
      BY <3>2, <3>3
    <3> HIDE DEF z, L
    <3>5. L \in 1 .. Len(sent[n])
      BY <1>4
    <3> QED  BY <3>4, <3>5, SameNumber
  <2>2. CASE n = "client"
    <3>1. Len(s) <= Len(Rand[n]) /\ Len(Rand[n]) <= 1
      BY <2>2 DEF JInv, Bounds, Apart, ConnectsOnce
    <3>2. Len(s) \in Nat /\ Len(Rand[n]) \in Nat
      BY RdpAssumption DEF JInv, IInv, TypeOK
    <3> HIDE DEF s
    <3> QED  BY <1>4, <1>6, <3>1, <3>2
  <2> QED  BY <2>1, <2>2, TwoNodes
<1>8. Count(conn[m]) \in Nat
  BY <1>1, Parts, OwnAcks
<1> QED  BY <1>2, <1>4, <1>5, <1>6, <1>7, <1>8 DEF PairFacts, Passed

\* The server opens only when the client is open on the same numbers.
LEMMA OpensPaired ==
  ASSUME Apart, JInv, HInv, ClientAcks, conn["client"].state = "OPEN",
         conn["server"].state = "SYN_RCVD", NEW p \in net, p.dst = "server",
         "ack" \in p.flags, p.ack = conn["server"].snd_iss
  PROVE  Paired
<1> DEFINE c == conn["client"]
           n == "server"
           L == Len(sent[n])
<1>1. n \in Node /\ "client" \in Node /\ Peer("client") = n
  BY TwoNodes
<1>2. PICK k \in 0 .. Count(c) : p.ack = Mod16(c.rcv_irs + k)
  BY DEF ClientAcks
<1>3. PICK e \in 1 .. Len(sent[n]) :
         Passed(n, sent[n], c, e, accepted["client"], lost["client"])
      /\ c.rcv_irs = Number(n, e, 0)
  BY <1>1, ReceivedOne DEF InSync
<1>4. L \in 1 .. Len(sent[n]) /\ conn[n].snd_iss = Number(n, L, 0)
  BY <1>1, OpenEnd
<1>5. /\ sent[n][e] \in Nat /\ MaxSend[n] \in Nat /\ sent[n][e] <= MaxSend[n]
      /\ Number(n, e, 0) = Rand[n][e]
  BY <1>1, <1>3, DrawnNumbers
<1>6. Count(c) \in Nat /\ Count(c) <= sent[n][e]
  BY <1>1, <1>3, Parts, OwnAcks DEF Passed
<1>7. k \in Nat /\ k <= MaxSend[n] + 1
  BY <1>5, <1>6
<1>8. Number(n, e, k) = Number(n, L, 0)
  <2>1. c.rcv_irs = Rand[n][e]
    BY <1>3, <1>5
  <2>2. p.ack = Number(n, e, k)
    BY <1>2, <2>1 DEF Number
  <2> QED  BY <1>4, <2>2
<1> DEFINE z == 0
<1>9. z \in Nat /\ z <= MaxSend[n] + 1 /\ Number(n, e, k) = Number(n, L, z)
  BY <1>5, <1>8
<1> HIDE DEF z, L, n
<1>10. L \in 1 .. Len(sent[n])
  BY <1>4
<1>11. e = L
  BY <1>1, <1>7, <1>9, <1>10, SameNumber
<1>12. c.rcv_irs = conn[n].snd_iss
  BY <1>3, <1>4, <1>11
<1> QED  BY <1>12 DEF Paired, InSync, n

-----------------------------------------------------------------------------
(***************************************************************************)
(* One end changes calmly; the other looks on.                             *)
(***************************************************************************)
\* An acknowledgement obeyed becomes snd_una.
LEMMA HeardUna ==
  ASSUME Apart, JInv, NEW n \in Node, NEW e \in 1 .. Len(sent[n]), NEW R \in Nat,
         NEW p \in net, p.dst = n, "ack" \in p.flags,
         \E k \in 0 .. R : p.ack = Number(n, e, k)
  PROVE  \E k \in 0 .. R : Mod16(p.ack + 1) = Number(n, e, k + 1)
<1>1. PICK k \in 0 .. R : p.ack = Number(n, e, k)
  OBVIOUS
<1>2. Rand[n][e] \in Int /\ k \in Nat
  BY DrawnNumbers
<1>3. Mod16(p.ack + 1) = Number(n, e, k + 1)
  BY <1>1, <1>2, NextNumber
<1> QED  BY <1>3

\* What n may drop has arrived.
LEMMA MayDrop ==
  ASSUME Apart, JInv, HInv, NEW n \in Node, Paired, Directions,
         NEW k \in 1 .. sent[n][Len(sent[n])], NEW x \in conn[n].tx_queue,
         x.data = <<Len(sent[n]), k>>,
         \/ Before(x.seq, conn[n].snd_una)
         \/ \E p \in net : p.dst = n /\ x.seq \in p.eacks
  PROVE  Held(Len(sent[n]), k, conn[Peer(n)])
<1> DEFINE s == sent[n]
           L == Len(s)
           c == conn[n]
           d == conn[Peer(n)]
           R == Count(d)
<1>1. PairFacts(n)
  BY PairedFacts
<1>2. /\ c.state \in InSync /\ L \in 1 .. Len(s) /\ Simple(n, s, c) /\ R \in Nat
  BY <1>1 DEF PairFacts
<1>3. Direction(n, s, c, d, net)
  BY DEF Directions
<1>4. /\ s[L] \in Nat /\ MaxSend[n] \in Nat /\ s[L] <= MaxSend[n] /\ Rand[n][L] \in Int
  BY <1>2, DrawnNumbers
<1>5. MaxSend[n] <= 32768
  BY DEF Apart, HalfRange
<1>6. k \in Nat /\ k # 0 /\ k <= 32768 /\ k <= MaxSend[n] + 1
  BY <1>4, <1>5
<1>7. x.seq = Number(n, L, k)
  <2>1. Genuine(n, s, x)
    BY Parts DEF End
  <2>2. x.data # NoData /\ x.data[1] = L /\ x.data[2] = k
    BY <1>6 DEF NoData
  <2> QED  BY <2>1, <2>2 DEF Genuine, IsMessage
<1>8. CASE Before(x.seq, c.snd_una)
  <2>1. c.state = "OPEN"
    BY <1>2, <1>6 DEF Simple, InSync
  <2>2. PICK j \in 0 .. R : c.snd_una = Number(n, L, j + 1)
    BY <1>3, <2>1 DEF Direction, Based
  <2>3. j \in Nat /\ j <= R
    BY <1>2, <2>2
  <2>4. Before(Number(n, L, k), Number(n, L, j + 1))
    BY <1>7, <1>8, <2>2
  <2> HIDE DEF L, R
  <2>5. k <= j
    BY <1>4, <1>6, <2>3, <2>4, BeforeNumber
  <2>6. k <= R
    BY <1>2, <1>6, <2>3, <2>5
  <2> QED  BY <2>6 DEF Held, R
<1>9. ASSUME NEW p \in net, p.dst = n, x.seq \in p.eacks
      PROVE  Held(L, k, d)
  <2>1. PICK f \in 1 .. Len(s) : \E i \in 1 .. s[f] :
           x.seq = Number(n, f, i) /\ (f = L => Held(f, i, d))
    BY <1>3, <1>9 DEF Direction, Listed
  <2>2. PICK i \in 1 .. s[f] : x.seq = Number(n, f, i) /\ (f = L => Held(f, i, d))
    BY <2>1
  <2>3. s[f] \in Nat /\ s[f] <= MaxSend[n]
    BY <2>1, DrawnNumbers
  <2>4. i \in Nat /\ i <= MaxSend[n] + 1
    BY <1>4, <2>2, <2>3
  <2>5. Number(n, L, k) = Number(n, f, i)
    BY <1>7, <2>2
  <2> HIDE DEF L
  <2>6. L \in 1 .. Len(sent[n])
    BY <1>2
  <2>7. L = f /\ k = i
    BY <1>6, <2>4, <2>5, <2>6, SameNumber
  <2> QED  BY <2>2, <2>7
<1> QED  BY <1>8, <1>9

\* The sender changes calmly.
LEMMA CalmSender ==
  ASSUME Apart, JInv, HInv, NEW n \in Node, Paired, Directions,
         NEW d \in Conn, Calm(n, conn[n], d, net), d.state \in InSync,
         NEW N, \A p \in N : p.dst = n => p \in net
  PROVE  Direction(n, sent[n], d, conn[Peer(n)], N)
<1> DEFINE s == sent[n]
           L == Len(s)
           c == conn[n]
           b == conn[Peer(n)]
           R == Count(b)
<1>1. PairFacts(n)
  BY PairedFacts
<1>2. /\ c.state \in InSync /\ L \in 1 .. Len(s) /\ R \in Nat
  BY <1>1 DEF PairFacts
<1>3. Direction(n, s, c, b, net)
  BY DEF Directions
<1>4. Acknowledges(n, c, d, net) /\ Releases(n, c, d, net) /\ Moves(n, c, d, net)
  BY DEF Calm
<1>5. Heard(n, L, b, N) /\ Listed(n, s, b, N)
  BY <1>3 DEF Direction, Heard, Listed
<1>6. ASSUME NEW p \in net, p.dst = n, "ack" \in p.flags
      PROVE  \E k \in 0 .. R : Mod16(p.ack + 1) = Number(n, L, k + 1)
  <2>1. \E k \in 0 .. R : p.ack = Number(n, L, k)
    BY <1>3, <1>6 DEF Direction, Heard
  <2> HIDE DEF L, R
  <2>2. L \in 1 .. Len(sent[n]) /\ R \in Nat
    BY <1>2
  <2> QED  BY <1>6, <2>1, <2>2, HeardUna
<1>7. Based(n, L, d, b)
  <2> SUFFICES ASSUME d.state = "OPEN"
               PROVE  \E k \in 0 .. R : d.snd_una = Number(n, L, k + 1)
    BY DEF Based
  <2>1. CASE c.state = "OPEN"
    <3>1. \E k \in 0 .. R : c.snd_una = Number(n, L, k + 1)
      BY <1>3, <2>1 DEF Direction, Based
    <3> QED  BY <1>4, <1>6, <3>1 DEF Acknowledges
  <2>2. CASE c.state # "OPEN"
    BY <1>4, <1>6, <2>2 DEF Moves
  <2> QED  BY <2>1, <2>2
<1>8. Safe(s, d, b)
  <2> SUFFICES ASSUME NEW k \in 1 .. s[L], ~Held(L, k, b)
               PROVE  \E x \in d.tx_queue : x.data = <<L, k>>
    BY DEF Safe
  <2>1. PICK x \in c.tx_queue : x.data = <<L, k>>
    BY <1>3 DEF Direction, Safe
  <2>2. \/ x \in d.tx_queue \/ Before(x.seq, c.snd_una)
        \/ \E p \in net : p.dst = n /\ x.seq \in p.eacks
    BY <1>4, <2>1 DEF Releases
  <2>3. x \in d.tx_queue
    BY <2>1, <2>2, MayDrop
  <2> QED  BY <2>1, <2>3
<1> QED  BY <1>3, <1>5, <1>7, <1>8 DEF Direction

\* The receiver: it keeps what has arrived, and reports that.
LEMMA Receiver ==
  ASSUME Apart, JInv, HInv, NEW n \in Node, Paired, Directions, NEW d \in Conn,
         d.rcv_irs = conn[Peer(n)].rcv_irs, d.rcv_cur = conn[Peer(n)].rcv_cur,
         conn[Peer(n)].rx_queue \subseteq d.rx_queue,
         \A x \in d.rx_queue : Waiting(n, sent[n], x),
         NEW N, \A q \in N : q.dst = n => q \in net \/ Reports(q, conn[Peer(n)], d)
  PROVE  Direction(n, sent[n], conn[n], d, N)
<1> DEFINE s == sent[n]
           L == Len(s)
           c == conn[n]
           b == conn[Peer(n)]
           R == Count(b)
<1>1. PairFacts(n)
  BY PairedFacts
<1>2. L \in 1 .. Len(s) /\ R \in Nat /\ b.rcv_irs = Number(n, L, 0)
  BY <1>1 DEF PairFacts
<1>3. Direction(n, s, c, b, net)
  BY DEF Directions
<1>4. Count(d) = R
  BY DEF Count
<1>5. \A e, k : Held(e, k, b) => Held(e, k, d)
  BY <1>4 DEF Held
<1>6. ASSUME NEW q \in N, q.dst = n, "ack" \in q.flags
      PROVE  \E k \in 0 .. R : q.ack = Number(n, L, k)
  <2>1. CASE q \in net
    BY <1>3, <1>6, <2>1 DEF Direction, Heard
  <2>2. CASE Reports(q, b, d)
    <3>1. q.ack = b.rcv_cur \/ q.ack = b.rcv_irs
      BY <1>6, <2>2 DEF Reports
    <3>2. b \in Conn
      BY PeerType, Parts
    <3>3. b.rcv_irs = Rand[n][L]
      <4> HIDE DEF L
      <4>1. L \in 1 .. Len(sent[n]) /\ b.rcv_irs = Number(n, L, 0)
        BY <1>2
      <4> QED  BY <4>1, DrawnNumbers
    <3>4. b.rcv_cur = Number(n, L, R) /\ b.rcv_irs = Number(n, L, 0) /\ R \in 0 .. R /\ 0 \in 0 .. R
      BY <3>2, <3>3, OwnAcks DEF Number
    <3> QED  BY <3>1, <3>4
  <2> QED  BY <1>6, <2>1, <2>2
<1>7. Heard(n, L, d, N)
  BY <1>4, <1>6 DEF Heard
<1>8. Based(n, L, c, d)
  BY <1>3, <1>4 DEF Direction, Based
<1>9. Safe(s, c, d)
  BY <1>3, <1>5 DEF Direction, Safe
<1>10. ASSUME NEW p \in N, p.dst = n, NEW q \in p.eacks
       PROVE  \E f \in 1 .. Len(s) : \E k \in 1 .. s[f] :
                 q = Number(n, f, k) /\ (f = L => Held(f, k, d))
  <2>1. CASE p \in net
    <3>1. PICK f \in 1 .. Len(s) : \E k \in 1 .. s[f] :
             q = Number(n, f, k) /\ (f = L => Held(f, k, b))
      BY <1>3, <1>10, <2>1 DEF Direction, Listed
    <3> QED  BY <1>5, <3>1
  <2>2. CASE Reports(p, b, d)
    <3>1. PICK x \in d.rx_queue : x.seq = q
      BY <1>10, <2>2 DEF Reports
    <3>2. x.data \in Data
      BY <3>1 DEF Conn, RxElement
    <3> DEFINE f == x.data[1]
               k == x.data[2]
    <3>3. f \in 1 .. Len(s) /\ k \in 1 .. s[f] /\ q = Number(n, f, k)
      BY <3>1 DEF Waiting, IsMessage
    <3>4. x.data = <<f, k>>
      BY <3>2 DEF Data
    <3>5. Held(f, k, d)
      BY <3>1, <3>4 DEF Held
    <3> QED  BY <3>3, <3>5
  <2> QED  BY <1>10, <2>1, <2>2
<1>11. Listed(n, s, d, N)
  BY <1>10 DEF Listed
<1> QED  BY <1>3, <1>4, <1>7, <1>8, <1>9, <1>11 DEF Direction

-----------------------------------------------------------------------------
(***************************************************************************)
(* The steps and what two ends know of each other.                         *)
(***************************************************************************)
\* What is stored at the end that changes.
LEMMA StoredNext ==
  ASSUME JInv', NEW m \in Node
  PROVE  \A x \in conn'[m].rx_queue : Waiting(Peer(m), sent'[Peer(m)], x)
<1>1. Ends'
  BY DEF JInv
<1> QED  BY <1>1 DEF Ends, End

\* A calm change does not bring the ends together.
LEMMA CalmPairs ==
  ASSUME JInv, NEW n \in Node, NEW d, conn' = [conn EXCEPT ![n] = d],
         Calm(n, conn[n], d, net)
  PROVE  /\ Paired' => Paired
         /\ Paired /\ conn'["client"].state = "OPEN" /\ conn'["server"].state \in InSync => Paired'
         /\ conn'["client"].state = "OPEN" => conn["client"].state = "OPEN"
         /\ \A m \in Node : /\ conn'[m].rcv_irs = conn[m].rcv_irs
                            /\ conn'[m].rcv_cur = conn[m].rcv_cur
                            /\ conn'[m].snd_iss = conn[m].snd_iss
<1>1. conn'[n] = d /\ \A m \in Node : m # n => conn'[m] = conn[m]
  BY OneChanged
<1>2. d.state \in InSync => conn[n].state \in InSync
  BY DEF Calm, Moves, InSync
<1>3. conn'["client"].state = "OPEN" => conn["client"].state = "OPEN"
  <2>1. conn["client"].state # "SYN_RCVD"
    BY TwoNodes, TypeParts DEF Shape
  <2>2. CASE n = "client"
    BY <1>1, <2>1, <2>2 DEF Calm, Moves
  <2>3. CASE n # "client"
    BY <1>1, <2>3, TwoNodes
  <2> QED  BY <2>2, <2>3
<1>4. \A m \in Node : /\ conn'[m].rcv_irs = conn[m].rcv_irs /\ conn'[m].rcv_cur = conn[m].rcv_cur
                      /\ conn'[m].snd_iss = conn[m].snd_iss
  BY <1>1 DEF Calm
<1>5. conn'["server"].state \in InSync => conn["server"].state \in InSync
  BY <1>1, <1>2, TwoNodes
<1>6. Paired' => Paired
  BY <1>3, <1>4, <1>5, TwoNodes DEF Paired
<1>7. Paired /\ conn'["client"].state = "OPEN" /\ conn'["server"].state \in InSync => Paired'
  BY <1>4, TwoNodes DEF Paired
<1> QED  BY <1>3, <1>4, <1>6, <1>7

\* Calm steps.
LEMMA CalmPairInv ==
  ASSUME Apart, JInv, JInv', HInv, PairInv, NEW n \in Node, CalmStep(n)
  PROVE  PairInv'
<1> DEFINE c == conn[n]
<1>1. PICK d \in Conn :
         /\ conn' = [conn EXCEPT ![n] = d] /\ Calm(n, c, d, net)
         /\ \A q \in net' : q \in net \/ Answer(n, c, d, net, user[n], q)
         /\ UNCHANGED sent
  BY DEF CalmStep
<1>2. conn'[n] = d /\ \A m \in Node : m # n => conn'[m] = conn[m]
  BY <1>1, OneChanged
<1>3. /\ Paired' => Paired
      /\ Paired /\ conn'["client"].state = "OPEN" /\ conn'["server"].state \in InSync => Paired'
      /\ conn'["client"].state = "OPEN" => conn["client"].state = "OPEN"
      /\ \A m \in Node : /\ conn'[m].rcv_irs = conn[m].rcv_irs /\ conn'[m].rcv_cur = conn[m].rcv_cur
                         /\ conn'[m].snd_iss = conn[m].snd_iss
  BY <1>1, CalmPairs
<1>4. ClientAcks /\ (BothOpen => Paired) /\ (Paired => Directions)
  BY DEF PairInv
<1>5. ClientAcks'
  <2> SUFFICES ASSUME conn'["client"].state = "OPEN",
                      NEW p \in net', p.dst = "server", "ack" \in p.flags
               PROVE  \E k \in 0 .. Count(conn'["client"]) :
                          p.ack = Mod16(conn'["client"].rcv_irs + k)
    BY DEF ClientAcks
  <2> DEFINE b == conn["client"]
             e == conn'["client"]
  <2>1. b.state = "OPEN" /\ e.rcv_irs = b.rcv_irs /\ Count(e) = Count(b) /\ b \in Conn
    BY <1>3, TwoNodes, Parts DEF Count
  <2>2. CASE p \in net
    BY <1>4, <2>1, <2>2 DEF ClientAcks
  <2>3. CASE Answer(n, c, d, net, user[n], p)
    <3>1. n = "client"
      BY <2>3, TwoNodes DEF Answer
    <3>2. p.ack = b.rcv_cur \/ p.ack = b.rcv_irs
      BY <2>3, <3>1 DEF Answer, Reports
    <3>3. /\ Count(b) \in 0 .. Count(b) /\ 0 \in 0 .. Count(b)
          /\ b.rcv_cur = Mod16(b.rcv_irs + Count(b)) /\ b.rcv_irs = Mod16(b.rcv_irs + 0)
      BY <2>1, OwnAcks
    <3> HIDE DEF b, e
    <3> QED  BY <2>1, <3>2, <3>3 DEF b, e
  <2> QED  BY <1>1, <2>2, <2>3
<1>6. BothOpen' => Paired'
  <2> SUFFICES ASSUME BothOpen' PROVE Paired'
    OBVIOUS
  <2>1. /\ conn'["client"].state = "OPEN" /\ conn'["server"].state = "OPEN"
        /\ conn["client"].state = "OPEN"
    BY <1>3, TwoNodes DEF BothOpen
  <2>2. Paired
    <3>1. CASE conn["server"].state = "OPEN"
      BY <1>4, <2>1, <3>1, TwoNodes DEF BothOpen
    <3>2. CASE conn["server"].state # "OPEN"
      <4>1. n = "server"
        BY <1>2, <2>1, <3>2, TwoNodes
      <4>2. /\ c.state = "SYN_RCVD"
            /\ \E p \in net : p.dst = n /\ "ack" \in p.flags /\ p.ack = c.snd_iss
        BY <1>1, <1>2, <2>1, <3>2, <4>1 DEF Calm, Moves
      <4> QED  BY <1>4, <2>1, <4>1, <4>2, OpensPaired
    <3> QED  BY <3>1, <3>2
  <2> QED  BY <1>3, <2>1, <2>2 DEF InSync
<1>7. Paired' => Directions'
  <2> SUFFICES ASSUME Paired', NEW i \in Node
               PROVE  Direction(i, sent[i], conn'[i], conn'[Peer(i)], net')
    BY <1>1 DEF Directions
  <2>1. Paired /\ Directions
    BY <1>3, <1>4
  <2>2. d.state \in InSync
    BY <1>2, TwoNodes DEF Paired, InSync
  <2>3. CASE i = n
    <3>1. conn'[Peer(n)] = conn[Peer(n)]
      BY <1>2, PeerPeer, PeerType
    <3>2. \A p \in net' : p.dst = n => p \in net
      BY <1>1, PeerPeer DEF Answer
    <3>3. Direction(n, sent[n], d, conn[Peer(n)], net')
      BY <1>1, <2>1, <2>2, <3>2, CalmSender
    <3> QED  BY <1>2, <2>3, <3>1, <3>3
  <2>4. CASE i # n
    <3>1. i = Peer(n) /\ Peer(i) = n
      BY <2>4, PeerPeer
    <3>2. conn'[i] = conn[i]
      BY <1>2, <2>4
    <3>3. \A x \in d.rx_queue : Waiting(i, sent[i], x)
      BY <1>1, <1>2, <3>1, StoredNext
    <3>4. c.rx_queue \subseteq d.rx_queue /\ d.rcv_irs = c.rcv_irs /\ d.rcv_cur = c.rcv_cur
      BY <1>1, <2>2 DEF Calm, Releases
    <3>5. \A q \in net' : q.dst = i => q \in net \/ Reports(q, c, d)
      BY <1>1 DEF Answer
    <3>6. Direction(i, sent[i], conn[i], d, net')
      BY <2>1, <3>1, <3>3, <3>4, <3>5, Receiver
    <3> QED  BY <1>2, <3>1, <3>2, <3>6
  <2> QED  BY <2>3, <2>4
<1> QED  BY <1>5, <1>6, <1>7 DEF PairInv

\* csp_send.
LEMMA SendPairInv ==
  ASSUME Apart, JInv, JInv', HInv, PairInv, NEW n \in Node, Send(n)
  PROVE  PairInv'
<1> DEFINE c == conn[n]
           s == sent[n]
           L == Len(s)
<1>1. c.state = "OPEN" /\ c.open /\ ReadyForTx(c) /\ L \in 1 .. Len(s)
  BY SendEffect
<1>2. PICK d \in Conn, u \in Seq(Nat) :
         /\ conn' = [conn EXCEPT ![n] = d] /\ sent' = [sent EXCEPT ![n] = u]
         /\ Len(u) = L /\ u[L] = s[L] + 1 /\ \A e \in 1 .. L : e # L => u[e] = s[e]
         /\ d.state = "OPEN" /\ Numbered(n, u, d)
         /\ d.rcv_cur = c.rcv_cur /\ d.rcv_irs = c.rcv_irs
         /\ d.snd_una = c.snd_una /\ d.snd_iss = c.snd_iss /\ d.rx_queue = c.rx_queue
         /\ \E x : /\ d.tx_queue = c.tx_queue \cup {x}
                   /\ x.flags = {"ack"} /\ x.data = <<L, s[L] + 1>>
                   /\ \A q \in net' : q \in net \/ q = TxMsg(n, c, x)
  BY SendEffect
<1>3. PICK x : /\ d.tx_queue = c.tx_queue \cup {x} /\ x.data = <<L, s[L] + 1>>
               /\ \A q \in net' : q \in net \/ q = TxMsg(n, c, x)
  BY <1>2
<1> DEFINE P == TxMsg(n, c, x)
<1>4. P.dst = Peer(n) /\ P.ack = c.rcv_cur /\ P.eacks = {}
  BY DEF TxMsg
<1> HIDE DEF P
<1>5. \A q \in net' : q \in net \/ q = P
  BY <1>3 DEF P
<1>6. conn'[n] = d /\ \A m \in Node : m # n => conn'[m] = conn[m]
  BY <1>2, OneChanged
<1>7. sent'[n] = u /\ \A m \in Node : m # n => sent'[m] = sent[m]
  BY <1>2, OneSends
<1>8. ClientAcks /\ (BothOpen => Paired) /\ (Paired => Directions)
  BY DEF PairInv
<1>9. \A m \in Node : /\ conn'[m].state = conn[m].state /\ conn'[m].rcv_irs = conn[m].rcv_irs
                      /\ conn'[m].rcv_cur = conn[m].rcv_cur /\ conn'[m].snd_iss = conn[m].snd_iss
  BY <1>1, <1>2, <1>6
<1>10. ClientAcks'
  <2> DEFINE b == conn["client"]
             e == conn'["client"]
  <2> SUFFICES ASSUME e.state = "OPEN", NEW p \in net', p.dst = "server", "ack" \in p.flags
               PROVE  \E k \in 0 .. Count(e) : p.ack = Mod16(e.rcv_irs + k)
    BY DEF ClientAcks
  <2>1. b.state = "OPEN" /\ e.rcv_irs = b.rcv_irs /\ Count(e) = Count(b) /\ b \in Conn
    BY <1>9, TwoNodes, Parts DEF Count
  <2>2. CASE p \in net
    BY <1>8, <2>1, <2>2 DEF ClientAcks
  <2>3. CASE p = P
    <3>1. n = "client"
      BY <1>4, <2>3, TwoNodes
    <3>2. p.ack = b.rcv_cur
      BY <1>4, <2>3, <3>1
    <3>3. Count(b) \in 0 .. Count(b) /\ b.rcv_cur = Mod16(b.rcv_irs + Count(b))
      BY <2>1, OwnAcks
    <3> HIDE DEF b, e
    <3> QED  BY <2>1, <3>2, <3>3 DEF b, e
  <2> QED  BY <1>5, <2>2, <2>3
<1>11. (BothOpen' => Paired') /\ (Paired' => Paired)
  <2>1. BothOpen' => BothOpen
    BY <1>9 DEF BothOpen
  <2>2. Paired' <=> Paired
    BY <1>9, TwoNodes DEF Paired
  <2> QED  BY <1>8, <2>1, <2>2
<1>12. Paired' => Directions'
  <2> SUFFICES ASSUME Paired', NEW i \in Node
               PROVE  Direction(i, sent'[i], conn'[i], conn'[Peer(i)], net')
    BY DEF Directions
  <2>1. Paired /\ Directions
    BY <1>8, <1>11
  <2>2. CASE i # n
    <3>1. i = Peer(n) /\ Peer(i) = n
      BY <2>2, PeerPeer
    <3>2. conn'[i] = conn[i] /\ sent'[i] = sent[i]
      BY <1>6, <1>7, <2>2
    <3>3. \A y \in d.rx_queue : Waiting(i, sent[i], y)
      BY <1>6, <3>1, <3>2, StoredNext
    <3>4. c.rx_queue \subseteq d.rx_queue
      BY <1>2
    <3>5. \A q \in net' : q.dst = i => q \in net \/ Reports(q, c, d)
      BY <1>4, <1>5 DEF Reports
    <3>6. Direction(i, sent[i], conn[i], d, net')
      BY <1>2, <2>1, <3>1, <3>3, <3>4, <3>5, Receiver
    <3> QED  BY <1>6, <3>1, <3>2, <3>6
  <2>3. CASE i = n
    <3> DEFINE b == conn[Peer(n)]
               R == Count(b)
    <3>1. conn'[Peer(n)] = b
      BY <1>6, PeerPeer, PeerType
    <3>2. PairFacts(n) /\ Direction(n, s, c, b, net)
      BY <2>1, PairedFacts DEF Directions
    <3>3. R \in Nat /\ Numbered(n, s, c)
      BY <3>2 DEF PairFacts
    <3>4. \A p \in net' : p.dst = n => p \in net
      BY <1>4, <1>5, PeerPeer
    <3>5. Heard(n, L, b, net') /\ Based(n, L, d, b)
      BY <1>1, <1>2, <3>2, <3>4 DEF Direction, Heard, Based
    <3>6. s[L] \in Nat /\ MaxSend[n] \in Nat /\ s[L] <= MaxSend[n] /\ Rand[n][L] \in Int
      <4> HIDE DEF L
      <4>1. L \in 1 .. Len(sent[n])
        BY <1>1
      <4> QED  BY <4>1, DrawnNumbers
    <3>7. s[L] < 32768
      <4>1. sent[n][Epoch(n)] < MaxSend[n]
        BY DEF Send
      <4>2. MaxSend[n] <= 32768
        BY DEF Apart, HalfRange
      <4> QED  BY <3>6, <4>1, <4>2 DEF Epoch
    <3>8. u[L] <= R + Window
      <4> DEFINE k == s[L]
      <4>1. PICK j \in 0 .. R : c.snd_una = Number(n, L, j + 1)
        BY <1>1, <3>2 DEF Direction, Based
      <4>2. j \in Nat /\ j <= R /\ k \in Nat /\ k < 32768 /\ Window \in Nat
        BY <3>3, <3>6, <3>7, <4>1, RdpAssumption
      <4>3. ~After(Number(n, L, k + 1), Number(n, L, j + 1) + Window - 1)
        BY <1>1, <3>3, <4>1 DEF ReadyForTx, Numbered
      <4> HIDE DEF k, L, R
      <4>4. k + 1 <= j + Window
        BY <3>6, <4>2, <4>3, WindowNumber
      <4>5. k + 1 <= R + Window
        BY <3>3, <4>2, <4>4
      <4> QED  BY <1>2, <4>5 DEF k
    <3>9. Safe(u, d, b)
      <4> SUFFICES ASSUME NEW k \in 1 .. u[L], ~Held(L, k, b)
                   PROVE  \E y \in d.tx_queue : y.data = <<L, k>>
        BY <1>2, ZenonT(60) DEF Safe
      <4>1. CASE k = s[L] + 1
        BY <1>3, <4>1
      <4>2. CASE k # s[L] + 1
        <5>1. k \in 1 .. s[L]
          <6> DEFINE z == s[L]
          <6>1. z \in Nat /\ u[L] = z + 1
            BY <1>2, <3>6
          <6> HIDE DEF z
          <6>2. k \in 1 .. z + 1 /\ k # z + 1
            BY <4>2, <6>1 DEF z
          <6> QED  BY <6>1, <6>2 DEF z
        <5>2. \E y \in c.tx_queue : y.data = <<L, k>>
          BY <3>2, <5>1 DEF Direction, Safe
        <5> QED  BY <1>3, <5>2
      <4> QED  BY <4>1, <4>2
    <3>10. Listed(n, u, b, net')
      <4> SUFFICES ASSUME NEW p \in net', p.dst = n, NEW q \in p.eacks
                   PROVE  \E f \in 1 .. Len(u) : \E k \in 1 .. u[f] :
                             q = Number(n, f, k) /\ (f = Len(u) => Held(f, k, b))
        BY DEF Listed
      <4>1. PICK f \in 1 .. L : \E k \in 1 .. s[f] :
               q = Number(n, f, k) /\ (f = L => Held(f, k, b))
        BY <3>2, <3>4 DEF Direction, Listed
      <4>2. PICK k \in 1 .. s[f] : q = Number(n, f, k) /\ (f = L => Held(f, k, b))
        BY <4>1
      <4>3. k \in 1 .. u[f]
        <5>1. CASE f = L
          <6> DEFINE z == s[L]
          <6>1. z \in Nat /\ u[L] = z + 1
            BY <1>2, <3>6
          <6> HIDE DEF z
          <6>2. k \in 1 .. z
            BY <4>2, <5>1 DEF z
          <6> QED  BY <5>1, <6>1, <6>2
        <5>2. CASE f # L
          BY <1>2, <4>1, <4>2, <5>2
        <5> QED  BY <5>1, <5>2
      <4> QED  BY <1>2, <4>1, <4>2, <4>3
    <3>11. Direction(n, u, d, b, net')
      BY <1>2, <3>5, <3>8, <3>9, <3>10 DEF Direction
    <3> QED  BY <1>6, <1>7, <2>3, <3>1, <3>11
  <2> QED  BY <2>2, <2>3
<1> QED  BY <1>10, <1>11, <1>12 DEF PairInv

\* What an end that passes N messages of epoch e holds.
LEMMA HeldMore ==
  ASSUME NEW c \in Conn, NEW d \in Conn, NEW e, NEW N \in Nat, Count(d) = Count(c) + N,
         \A x \in c.rx_queue :
            x \in d.rx_queue \/ \E j \in 1 .. N : x.data = <<e, Count(c) + j>>
  PROVE  \A k \in Nat : Held(e, k, c) => Held(e, k, d)
<1> DEFINE R == Count(c)
<1> SUFFICES ASSUME NEW k \in Nat, Held(e, k, c) PROVE Held(e, k, d)
  OBVIOUS
<1>1. R \in Nat /\ Count(d) = R + N
  BY OwnAcks
<1>2. CASE k <= R
  <2> HIDE DEF R
  <2>1. k <= Count(d)
    BY <1>1, <1>2
  <2> QED  BY <2>1 DEF Held
<1>3. CASE \E x \in c.rx_queue : x.data = <<e, k>>
  <2>1. PICK x \in c.rx_queue : x.data = <<e, k>>
    BY <1>3
  <2>2. CASE x \in d.rx_queue
    BY <2>1, <2>2 DEF Held
  <2>3. ASSUME NEW j \in 1 .. N, x.data = <<e, R + j>> PROVE Held(e, k, d)
    <3>1. k = R + j
      BY <2>1, <2>3
    <3> HIDE DEF R
    <3>2. k <= Count(d)
      BY <1>1, <3>1
    <3> QED  BY <3>2 DEF Held
  <2> QED  BY <2>1, <2>2, <2>3
<1> QED  BY <1>2, <1>3 DEF Held

\* The receiver passes N messages.
LEMMA AdvancedReceiver ==
  ASSUME Apart, JInv, HInv, NEW n \in Node, Paired, Directions, NEW d \in Conn,
         NEW N \in Nat \ {0}, Count(d) = Count(conn[Peer(n)]) + N,
         \A x \in conn[Peer(n)].rx_queue :
            \/ x \in d.rx_queue
            \/ \E j \in 1 .. N : x.data = <<Len(sent[n]), Count(conn[Peer(n)]) + j>>,
         NEW M, \A q \in M : q.dst = n => \/ q \in net
                                          \/ /\ q.ack = Mod16(conn[Peer(n)].rcv_cur + 1)
                                             /\ q.eacks = {}
  PROVE  Direction(n, sent[n], conn[n], d, M)
<1> DEFINE s == sent[n]
           L == Len(s)
           c == conn[n]
           b == conn[Peer(n)]
           R == Count(b)
           T == Count(d)
<1>1. PairFacts(n)
  BY PairedFacts
<1>2. L \in 1 .. Len(s) /\ b.rcv_irs = Number(n, L, 0) /\ b \in Conn
  BY <1>1, PeerType, Parts DEF PairFacts
<1>3. Direction(n, s, c, b, net)
  BY DEF Directions
<1>4. R \in Nat /\ T = R + N /\ \A k : k \in 0 .. R => k \in 0 .. T
  <2>1. R \in Nat /\ T = R + N
    BY <1>2, OwnAcks
  <2> HIDE DEF R, T
  <2> QED  BY <2>1
<1>5. \A k \in Nat : Held(L, k, b) => Held(L, k, d)
  BY <1>2, HeldMore
<1>6. ASSUME NEW q \in M, q.dst = n, "ack" \in q.flags
      PROVE  \E k \in 0 .. T : q.ack = Number(n, L, k)
  <2>1. CASE q \in net
    BY <1>3, <1>4, <1>6, <2>1 DEF Direction, Heard
  <2>2. CASE q.ack = Mod16(b.rcv_cur + 1)
    <3>1. b.rcv_irs = Rand[n][L]
      <4> HIDE DEF L
      <4>1. L \in 1 .. Len(sent[n]) /\ b.rcv_irs = Number(n, L, 0)
        BY <1>2
      <4> QED  BY <4>1, DrawnNumbers
    <3>2. q.ack = Number(n, L, R + 1)
      BY <1>2, <2>2, <3>1, OwnAcks DEF Number
    <3> HIDE DEF R, T
    <3>3. R + 1 \in 0 .. T
      BY <1>4
    <3> QED  BY <3>2, <3>3
  <2> QED  BY <1>6, <2>1, <2>2
<1>7. Heard(n, L, d, M)
  BY <1>6 DEF Heard
<1>8. Based(n, L, c, d)
  BY <1>3, <1>4 DEF Direction, Based
<1>9. s[L] \in Nat /\ \A f \in 1 .. Len(s) : s[f] \in Nat
  <2>1. \A f \in 1 .. Len(s) : s[f] \in Nat
    BY DrawnNumbers
  <2> QED  BY <1>2, <2>1
<1>10. s[L] <= T + Window
  <2> DEFINE z == s[L]
  <2>1. z <= R + Window /\ z \in Nat /\ Window \in Nat
    BY <1>3, <1>9, RdpAssumption DEF Direction
  <2> HIDE DEF z, R, T
  <2>2. z <= T + Window
    BY <1>4, <2>1
  <2> QED  BY <2>2 DEF z
<1>11. Safe(s, c, d)
  <2> SUFFICES ASSUME NEW k \in 1 .. s[L], ~Held(L, k, d)
               PROVE  \E x \in c.tx_queue : x.data = <<L, k>>
    BY DEF Safe
  <2>1. k \in Nat
    BY <1>9
  <2>2. ~Held(L, k, b)
    BY <1>5, <2>1
  <2> QED  BY <1>3, <2>2 DEF Direction, Safe
<1>12. ASSUME NEW p \in M, p.dst = n, NEW q \in p.eacks
       PROVE  \E f \in 1 .. Len(s) : \E k \in 1 .. s[f] :
                 q = Number(n, f, k) /\ (f = L => Held(f, k, d))
  <2>1. p \in net
    BY <1>12
  <2>2. PICK f \in 1 .. Len(s) : \E k \in 1 .. s[f] :
           q = Number(n, f, k) /\ (f = L => Held(f, k, b))
    BY <1>3, <1>12, <2>1 DEF Direction, Listed
  <2>3. PICK k \in 1 .. s[f] : q = Number(n, f, k) /\ (f = L => Held(f, k, b))
    BY <2>2
  <2>4. k \in Nat
    BY <1>9, <2>2, <2>3
  <2> QED  BY <1>5, <2>2, <2>3, <2>4
<1>13. Listed(n, s, d, M)
  BY <1>12 DEF Listed
<1> QED  BY <1>3, <1>7, <1>8, <1>10, <1>11, <1>13 DEF Direction

\* A packet in sequence: its sender's acknowledgement is obeyed as well.
LEMMA InOrderPairInv ==
  ASSUME Apart, JInv, HInv, PairInv, NEW n \in Node, NEW p \in net, RecvInOrder(n, p)
  PROVE  PairInv'
<1> DEFINE c == conn[n]
           m == Peer(n)
           R == Count(c)
<1>1. DistinctNumbers
  BY SeparateDistinct DEF Apart
<1>2. PICK e \in 1 .. Len(sent[m]), N \in Nat \ {0} : \E K \in 1 .. N, d \in Conn :
         /\ Passed(m, sent[m], c, e, accepted[n], lost[n])
         /\ Advanced(c, d, N) /\ Consumed(n, p, c, d, e, N)
         /\ conn' = [conn EXCEPT ![n] = d] /\ UNCHANGED sent
  BY <1>1, InOrderStep
<1>3. PICK d \in Conn :
         /\ Passed(m, sent[m], c, e, accepted[n], lost[n])
         /\ Advanced(c, d, N) /\ Consumed(n, p, c, d, e, N)
         /\ conn' = [conn EXCEPT ![n] = d] /\ UNCHANGED sent
  BY <1>2
<1>4. /\ c.open /\ c.state \in InSync /\ p.dst = n /\ "ack" \in p.flags
      /\ c.state # "OPEN" => c.state = "SYN_RCVD" /\ p.ack = c.snd_iss
  BY OpenedFields DEF RecvInOrder
<1>5. conn'[n] = d /\ \A i \in Node : i # n => conn'[i] = conn[i]
  BY <1>3, OneChanged
<1> DEFINE P == Cmp(n, {"ack"}, c.snd_nxt, Mod16(c.rcv_cur + 1))
<1>6. P.dst = m /\ P.ack = Mod16(c.rcv_cur + 1) /\ P.eacks = {}
  BY DEF Cmp
<1> HIDE DEF P
<1>7. \A q \in net' : q \in net \/ q = P
  BY <1>3 DEF Consumed, P
<1>8. ClientAcks /\ (BothOpen => Paired) /\ (Paired => Directions)
  BY DEF PairInv
<1>9. m \in Node /\ m # n /\ Peer(m) = n /\ c \in Conn
  BY PeerPeer, PeerType, Parts
<1>10. /\ d.state = "OPEN" /\ d.rcv_irs = c.rcv_irs /\ d.snd_iss = c.snd_iss
       /\ d.tx_queue = c.tx_queue /\ d.snd_una = Mod16(p.ack + 1) /\ Count(d) = R + N
  BY <1>3 DEF Advanced, Consumed
<1>11. n = "client" => c.state = "OPEN"
  BY <1>4, TypeParts DEF Shape
<1>12. ClientAcks'
  <2> DEFINE b == conn["client"]
             a == conn'["client"]
  <2> SUFFICES ASSUME a.state = "OPEN", NEW q \in net', q.dst = "server", "ack" \in q.flags
               PROVE  \E k \in 0 .. Count(a) : q.ack = Mod16(a.rcv_irs + k)
    BY DEF ClientAcks
  <2>1. CASE n = "server"
    <3>1. a = b /\ q \in net
      BY <1>5, <1>6, <1>7, <2>1, TwoNodes
    <3> QED  BY <1>8, <3>1 DEF ClientAcks
  <2>2. CASE n = "client"
    <3>1. a = d /\ b = c /\ b.state = "OPEN"
      BY <1>5, <1>11, <2>2
    <3>2. /\ R \in Nat /\ Count(a) = R + N /\ a.rcv_irs = c.rcv_irs
          /\ Mod16(c.rcv_cur + 1) = Mod16(c.rcv_irs + (R + 1))
      BY <1>9, <1>10, <3>1, OwnAcks
    <3> HIDE DEF R, a, b
    <3>3. R + 1 \in 0 .. Count(a) /\ \A k : k \in 0 .. R => k \in 0 .. Count(a)
      BY <3>2
    <3>4. CASE q \in net
      <4>1. \E k \in 0 .. R : q.ack = Mod16(c.rcv_irs + k)
        BY <1>8, <2>2, <3>1, <3>4 DEF ClientAcks, R, b
      <4> QED  BY <3>2, <3>3, <4>1
    <3>5. CASE q = P
      BY <1>6, <3>2, <3>3, <3>5
    <3> QED  BY <1>7, <3>4, <3>5
  <2> QED  BY <2>1, <2>2, TwoNodes
<1>13. Paired' <=> Paired
  <2>1. conn'["client"].state = "OPEN" <=> conn["client"].state = "OPEN"
    BY <1>5, <1>10, <1>11, TwoNodes
  <2>2. conn'["server"].state \in InSync <=> conn["server"].state \in InSync
    BY <1>4, <1>5, <1>10, TwoNodes DEF InSync
  <2>3. /\ conn'["client"].rcv_irs = conn["client"].rcv_irs
        /\ conn'["server"].snd_iss = conn["server"].snd_iss
    BY <1>5, <1>10, TwoNodes
  <2> QED  BY <2>1, <2>2, <2>3 DEF Paired
<1>14. BothOpen' => Paired'
  <2> SUFFICES ASSUME BothOpen' PROVE Paired
    BY <1>13
  <2>1. conn["client"].state = "OPEN"
    BY <1>5, <1>11, TwoNodes DEF BothOpen
  <2>2. CASE conn["server"].state = "OPEN"
    BY <1>8, <2>1, <2>2, TwoNodes DEF BothOpen
  <2>3. CASE conn["server"].state # "OPEN"
    <3>1. n = "server"
      BY <1>5, <2>3, TwoNodes DEF BothOpen
    <3>2. c.state = "SYN_RCVD" /\ p.ack = c.snd_iss
      BY <1>4, <2>3, <3>1
    <3> QED  BY <1>4, <1>8, <2>1, <3>1, <3>2, OpensPaired
  <2> QED  BY <2>2, <2>3
<1>15. Paired' => Directions'
  <2> SUFFICES ASSUME Paired, NEW i \in Node
               PROVE  Direction(i, sent[i], conn'[i], conn'[Peer(i)], net')
    BY <1>3, <1>13 DEF Directions
  <2>1. Directions
    BY <1>8
  <2>2. CASE i = m
    <3> DEFINE L == Len(sent[m])
    <3>1. PairFacts(m)
      BY <1>9, PairedFacts
    <3>2. L \in 1 .. Len(sent[m]) /\ c.rcv_irs = Number(m, L, 0) /\ c.rcv_irs = Rand[m][e]
      BY <1>3, <1>9, <3>1 DEF PairFacts, Passed
    <3>3. e = L
      <4> DEFINE z == 0
      <4> HIDE DEF L
      <4>1. Number(m, e, 0) = Rand[m][e] /\ MaxSend[m] \in Nat
        BY <1>9, DrawnNumbers
      <4>2. z \in Nat /\ z <= MaxSend[m] + 1 /\ Number(m, e, z) = Number(m, L, z)
        BY <3>2, <4>1
      <4> HIDE DEF z
      <4> QED  BY <1>9, <3>2, <4>2, SameNumber
    <3>4. \A x \in c.rx_queue : x \in d.rx_queue \/ \E j \in 1 .. N : x.data = <<L, R + j>>
      BY <1>3, <3>3 DEF Consumed
    <3>5. \A q \in net' : q.dst = m => \/ q \in net
                                       \/ q.ack = Mod16(c.rcv_cur + 1) /\ q.eacks = {}
      BY <1>6, <1>7
    <3>6. Direction(m, sent[m], conn[m], d, net')
      BY <1>9, <1>10, <2>1, <3>4, <3>5, AdvancedReceiver
    <3> QED  BY <1>5, <1>9, <2>2, <3>6
  <2>3. CASE i = n
    <3> DEFINE s == sent[n]
               L == Len(s)
               b == conn[m]
               T == Count(b)
    <3>1. PairFacts(n) /\ Direction(n, s, c, b, net)
      BY <2>1, PairedFacts DEF Directions
    <3>2. \A q \in net' : q.dst = n => q \in net
      BY <1>6, <1>7, <1>9
    <3>3. Heard(n, L, b, net') /\ Listed(n, s, b, net')
      BY <3>1, <3>2 DEF Direction, Heard, Listed
    <3>4. Based(n, L, d, b)
      <4>1. L \in 1 .. Len(sent[n]) /\ T \in Nat
        BY <3>1 DEF PairFacts
      <4>2. \E k \in 0 .. T : p.ack = Number(n, L, k)
        BY <1>4, <3>1 DEF Direction, Heard
      <4> HIDE DEF L, T
      <4>3. p.dst = n /\ "ack" \in p.flags
        BY <1>4
      <4>4. \E k \in 0 .. T : Mod16(p.ack + 1) = Number(n, L, k + 1)
        BY <4>1, <4>2, <4>3, HeardUna
      <4> QED  BY <1>10, <4>4 DEF Based, T
    <3>5. Safe(s, d, b)
      BY <1>10, <3>1 DEF Direction, Safe
    <3>6. Direction(n, s, d, b, net')
      BY <3>1, <3>3, <3>4, <3>5 DEF Direction
    <3> QED  BY <1>5, <1>9, <2>3, <3>6
  <2> QED  BY <1>9, <2>2, <2>3, PeerPeer
<1> QED  BY <1>12, <1>14, <1>15 DEF PairInv

\* A SYN/ACK opens the client's connection.
LEMMA SynAckPairInv ==
  ASSUME Apart, JInv, HInv, PairInv, NEW p \in net, RecvSynAck(p)
  PROVE  PairInv'
<1> DEFINE n == "client"
           m == "server"
           c == conn[n]
           b == conn[m]
           X == Rand[n][1]
<1>1. /\ p.dst = n /\ "syn" \in p.flags /\ "ack" \in p.flags
      /\ c.open /\ c.state = "SYN_SENT" /\ UNCHANGED sent
  BY SynAckEffect
<1>2. PICK d \in Conn :
         /\ conn' = [conn EXCEPT ![n] = d]
         /\ d.state = "OPEN" /\ d.rcv_cur = p.seq /\ d.rcv_irs = p.seq
         /\ d.snd_una = Mod16(p.ack + 1)
         /\ \A q \in net' : q \in net \/ q = AckMsg(n, d)
  BY SynAckEffect
<1>3. n \in Node /\ m \in Node /\ Peer(n) = m /\ Peer(m) = n /\ n # m
  BY TwoNodes
<1>4. conn'[n] = d /\ conn'[m] = b
  BY <1>2, <1>3, OneChanged
<1>5. /\ \A q \in net : q.dst = m => q.flags = {"syn"}
      /\ \A q \in net : q.dst = n => "ack" \in q.flags /\ q.ack = X
      /\ \A q \in net : q.eacks = {}
      /\ b.state # "OPEN"
  BY <1>1 DEF HInv, Calling
<1> DEFINE P == AckMsg(n, d)
<1>6. P.dst = m /\ P.ack = d.rcv_irs /\ P.eacks = {}
  BY <1>2, <1>3 DEF AckMsg, Cmp
<1> HIDE DEF P
<1>7. \A q \in net' : q \in net \/ q = P
  BY <1>2 DEF P
<1>8. d.rcv_irs = Mod16(d.rcv_irs + 0) /\ Count(d) \in Nat /\ 0 \in 0 .. Count(d)
  BY OwnAcks
<1>9. ClientAcks'
  <2> SUFFICES ASSUME NEW q \in net', q.dst = m, "ack" \in q.flags
               PROVE  \E k \in 0 .. Count(d) : q.ack = Mod16(d.rcv_irs + k)
    BY <1>4 DEF ClientAcks
  <2>1. q = P
    BY <1>5, <1>7
  <2> QED  BY <1>6, <1>8, <2>1
<1>10. ~BothOpen'
  BY <1>3, <1>4, <1>5 DEF BothOpen
<1>11. ASSUME Paired' PROVE Directions'
  <2>1. b.state = "SYN_RCVD" /\ d.rcv_irs = b.snd_iss
    BY <1>4, <1>5, <1>11 DEF Paired, InSync
  <2> DEFINE s == sent[n]
             t == sent[m]
             L == Len(s)
             M == Len(t)
  <2>2. /\ b.open /\ M \in 1 .. Len(t) /\ b.snd_iss = Number(m, M, 0) /\ Simple(m, t, b)
    BY <1>3, <2>1, OpenEnd
  <2>3. /\ L \in 1 .. Len(s) /\ c.snd_iss = Number(n, L, 0) /\ Simple(n, s, c)
    BY <1>1, <1>3, OpenEnd
  <2>4. t[M] = 0 /\ s[L] = 0 /\ Window \in Nat
    BY <1>1, <2>1, <2>2, <2>3, RdpAssumption DEF Simple
  <2>5. Count(b) \in Nat /\ 0 \in 0 .. Count(b)
    BY <1>3, Parts, OwnAcks
  <2>6. L = 1
    <3>1. L <= Len(Rand[n]) /\ Len(Rand[n]) <= 1 /\ Len(Rand[n]) \in Nat /\ L \in Nat
      BY <1>3, RdpAssumption DEF JInv, IInv, TypeOK, Bounds, Apart, ConnectsOnce
    <3> HIDE DEF L
    <3> QED  BY <2>3, <3>1
  <2>7. X = Number(n, L, 0) /\ Rand[n][L] \in Int
    <3> HIDE DEF L
    <3> QED  BY <1>3, <2>3, <2>6, DrawnNumbers
  <2>8. Direction(n, s, d, b, net')
    <3>1. Heard(n, L, b, net')
      BY <1>3, <1>5, <1>6, <1>7, <2>5, <2>7 DEF Heard
    <3>2. Based(n, L, d, b)
      <4>1. d.snd_una = Mod16(Number(n, L, 0) + 1)
        BY <1>1, <1>2, <1>5, <2>7
      <4>2. d.snd_una = Number(n, L, 0 + 1)
        BY <2>7, <4>1, NextNumber
      <4> QED  BY <2>5, <4>2 DEF Based
    <3>3. s[L] <= Count(b) + Window
      <4> HIDE DEF b, s, L
      <4> QED  BY <2>4, <2>5
    <3>4. Safe(s, d, b)
      BY <2>4 DEF Safe
    <3>5. Listed(n, s, b, net')
      BY <1>5, <1>6, <1>7 DEF Listed
    <3> QED  BY <3>1, <3>2, <3>3, <3>4, <3>5 DEF Direction
  <2>9. Direction(m, t, b, d, net')
    <3>1. Heard(m, M, d, net')
      BY <1>5, <1>6, <1>7, <1>8, <2>1, <2>2 DEF Heard
    <3>2. Based(m, M, b, d)
      BY <2>1 DEF Based
    <3>3. t[M] <= Count(d) + Window
      <4> HIDE DEF t, M
      <4> QED  BY <1>8, <2>4
    <3>4. Safe(t, b, d)
      BY <2>4 DEF Safe
    <3>5. Listed(m, t, d, net')
      BY <1>5, <1>6, <1>7 DEF Listed
    <3> QED  BY <3>1, <3>2, <3>3, <3>4, <3>5 DEF Direction
  <2> SUFFICES ASSUME NEW i \in Node PROVE Direction(i, sent[i], conn'[i], conn'[Peer(i)], net')
    BY <1>1 DEF Directions
  <2> QED  BY <1>3, <1>4, <2>8, <2>9, TwoNodes
<1> QED  BY <1>9, <1>10, <1>11 DEF PairInv

\* A SYN: the client, if it is open, is on older numbers.
LEMMA SynPairInv ==
  ASSUME Apart, JInv, JInv', HInv, PairInv, NEW p \in net, RecvSyn(p)
  PROVE  PairInv'
<1> DEFINE n == "server"
           b == conn["client"]
           u == Append(sent[n], 0)
<1>1. sent' = [sent EXCEPT ![n] = u]
  BY SynEffect
<1>2. PICK d \in Conn :
         /\ conn' = [conn EXCEPT ![n] = d] /\ d.state = "SYN_RCVD" /\ Numbered(n, u, d)
         /\ \A q \in net' : q \in net \/ q = SynAckMsg(n, d)
  BY SynEffect
<1>3. n \in Node /\ Peer(n) = "client" /\ "client" \in Node /\ Peer("client") = n
  BY TwoNodes
<1>4. conn'[n] = d /\ conn'["client"] = b
  BY <1>2, <1>3, OneChanged
<1>5. \A q \in net' : q.dst = n => q \in net
  <2> DEFINE P == SynAckMsg(n, d)
  <2>1. P.dst = "client"
    BY <1>3 DEF SynAckMsg, Cmp
  <2> HIDE DEF P
  <2>2. \A q \in net' : q \in net \/ q = P
    BY <1>2 DEF P
  <2> QED  BY <2>1, <2>2
<1>6. ClientAcks'
  BY <1>4, <1>5 DEF PairInv, ClientAcks
<1>7. ~BothOpen'
  BY <1>2, <1>3, <1>4 DEF BothOpen
<1>8. ASSUME Paired' PROVE FALSE
  <2>1. b.state = "OPEN" /\ b.rcv_irs = d.snd_iss
    BY <1>4, <1>8 DEF Paired
  <2>2. PICK e \in 1 .. Len(sent[n]) : Passed(n, sent[n], b, e, accepted["client"], lost["client"])
    BY <1>3, <2>1, ReceivedOne DEF InSync
  <2> DEFINE f == Len(u)
  <2>3. sent[n] \in Seq(Nat) /\ f = Len(sent[n]) + 1 /\ Len(sent[n]) \in Nat
    BY <1>3, Parts
  <2>4. f <= Len(Rand[n]) /\ Rand[n] \in Seq(SeqNr) /\ MaxSend[n] \in Nat
    <3>1. sent'[n] = u
      BY <1>1, <1>3, OneSends
    <3>2. Bounds'
      BY DEF JInv
    <3>3. Len(sent'[n]) <= Len(Rand[n])
      BY <1>3, <3>2 DEF Bounds
    <3> QED  BY <1>3, <3>1, <3>3, RdpAssumption
  <2>5. Rand[n][e] = Rand[n][f]
    BY <1>2, <2>1, <2>2 DEF Passed, Numbered
  <2> HIDE DEF f
  <2>6. e \in DOMAIN Rand[n] /\ f \in DOMAIN Rand[n] /\ e # f
    BY <2>2, <2>3, <2>4
  <2>7. 0 \in 0 .. MaxSend[n] + 1
    BY <2>4
  <2>8. Mod16(Rand[n][e] + 0) = Mod16(Rand[n][f] + 0)
    BY <2>5
  <2> QED  BY <1>3, <2>6, <2>7, <2>8 DEF Apart, SeparateNumbers
<1> QED  BY <1>6, <1>7, <1>8 DEF PairInv

\* The server's stray RST leaves the ends alone.
LEMMA NoSynPairInv ==
  ASSUME JInv, PairInv, NoSynReset
  PROVE  PairInv'
<1>1. PICK p \in net : RecvNoSyn(p) /\ "rst" \notin p.flags
  BY DEF NoSynReset
<1>2. UNCHANGED conn /\ ~conn["server"].open
  BY <1>1 DEF RecvNoSyn
<1>3. conn["server"].state = "CLOSED"
  BY <1>2, TwoNodes, TypeParts DEF Shape
<1>4. \A q \in net' : q.dst = "server" => q \in net
  <2>1. PICK seq : net' = Transmit(net \ {p}, {Cmp("server", {"rst"}, seq, conn["server"].rcv_cur)})
    BY <1>1 DEF RecvNoSyn
  <2> DEFINE P == Cmp("server", {"rst"}, seq, conn["server"].rcv_cur)
  <2>2. P.dst = "client"
    BY TwoNodes DEF Cmp
  <2>3. net \ {p} \subseteq net
    OBVIOUS
  <2> HIDE DEF P
  <2>4. net' = Transmit(net \ {p}, {P})
    BY <2>1 DEF P
  <2>5. \A q \in net' : q \in net \/ q = P
    BY <2>3, <2>4, OneSent
  <2> QED  BY <2>2, <2>5
<1>5. ClientAcks'
  BY <1>2, <1>4 DEF PairInv, ClientAcks
<1>6. ~BothOpen' /\ ~Paired'
  BY <1>2, <1>3, TwoNodes DEF BothOpen, Paired, InSync
<1> QED  BY <1>5, <1>6 DEF PairInv

\* csp_connect: the client is not open.
LEMMA ConnectPairInv ==
  ASSUME Apart, JInv, JInv', Connect \/ ConnectRetry
  PROVE  PairInv'
<1>1. PICK d \in Conn : conn' = [conn EXCEPT !["client"] = d] /\ d.state = "SYN_SENT"
  BY ConnectEffect DEF Apart
<1>2. conn'["client"] = d
  BY <1>1, TwoNodes, OneChanged
<1> QED  BY <1>1, <1>2, TwoNodes DEF PairInv, ClientAcks, BothOpen, Paired

\* Every step keeps what two ends know of each other.
LEMMA NextPairInv ==
  ASSUME Apart, JInv, JInv', HInv, PairInv, [Next]_vars
  PROVE  PairInv'
<1>1. CASE Restless
  BY <1>1, ConnectPairInv, SynPairInv, SynAckPairInv, NoSynPairInv, SendPairInv,
     InOrderPairInv, NoHalfOpen DEF Restless
<1>2. ASSUME NEW n \in Node, CalmStep(n) PROVE PairInv'
  BY <1>2, CalmPairInv
<1> QED  BY <1>1, <1>2, CalmOrRestless

\* At the start no end is open.
LEMMA InitPairInv == Init => PairInv
BY TwoNodes DEF Init, PairInv, ClientAcks, BothOpen, Paired

-----------------------------------------------------------------------------
(***************************************************************************)
(* Two open ends.                                                          *)
(***************************************************************************)
\* While initial numbers stay apart and the client connects once, two ends that
\* are open talk to each other, and know it.
THEOREM PairInvariance ==
  ASSUME Apart
  PROVE  Spec => [](JInv /\ HInv /\ PairInv)
<1> DEFINE I == JInv /\ HInv /\ PairInv
<1>1. DistinctNumbers /\ ConnectsOnce
  BY SeparateDistinct DEF Apart
<1>2. Init => I
  BY InitJInv, InitHInv, InitPairInv
<1>3. I /\ [Next]_vars => I'
  <2> SUFFICES ASSUME I, [Next]_vars PROVE I'
    OBVIOUS
  <2>1. JInv'
    BY <1>1, NextJInv
  <2>2. HInv'
    BY <1>1, <2>1, NextHInv
  <2>3. PairInv'
    BY <2>1, NextPairInv
  <2> QED  BY <2>1, <2>2, <2>3
<1> QED  BY <1>2, <1>3, PTL DEF Spec

\* Two open ends agree on both initial numbers: the client takes the server's
\* from a SYN/ACK it does not check, the server opens on an ACK it does.
THEOREM OpenEndsAgree ==
  ASSUME SeparateNumbers, ConnectsOnce, HalfRange
  PROVE  Spec => []Synchronised
<1>1. Apart
  BY DEF Apart
<1>2. ASSUME JInv, HInv, PairInv PROVE Synchronised
  <2> SUFFICES ASSUME \A n \in Node : conn[n].state = "OPEN", NEW n \in Node
               PROVE  conn[n].rcv_irs = conn[Peer(n)].snd_iss
    BY DEF Synchronised
  <2>1. Paired
    BY <1>2 DEF PairInv, BothOpen
  <2>2. CASE n = "client"
    BY <2>1, <2>2, TwoNodes DEF Paired
  <2>3. CASE n = "server"
    <3> DEFINE m == "client"
    <3>1. m \in Node /\ Peer(m) = n /\ Peer(n) = m
      BY <2>3, TwoNodes
    <3>2. PairFacts(m) /\ conn[m].snd_iss = Number(m, Len(sent[m]), 0)
      BY <1>1, <1>2, <2>1, <3>1, PairedFacts, OpenEnd
    <3> QED  BY <3>1, <3>2 DEF PairFacts
  <2> QED  BY <2>2, <2>3, TwoNodes
<1> QED  BY <1>1, <1>2, PairInvariance, PTL

\* csp_rdp_is_conn_ready_for_tx lets no sender run more than a window ahead of
\* its peer, for snd_una only takes acknowledgements of what has arrived.
THEOREM WindowIsKept ==
  ASSUME SeparateNumbers, ConnectsOnce, HalfRange
  PROVE  Spec => []WindowRespected
<1>1. Apart
  BY DEF Apart
<1>2. ASSUME JInv, HInv, PairInv PROVE WindowRespected
  <2> SUFFICES ASSUME BothOpen, NEW n \in Node
               PROVE  sent[n][Epoch(n)] <= Received(Peer(n)) + Window
    BY DEF WindowRespected
  <2>1. Direction(n, sent[n], conn[n], conn[Peer(n)], net)
    BY <1>2 DEF PairInv, Directions
  <2> QED  BY <2>1 DEF Direction, Epoch, Received, Count
<1> QED  BY <1>1, <1>2, PairInvariance, PTL

\* Neither an acknowledgement nor an EACK makes the sender drop a message that
\* is not at its peer yet.
THEOREM NothingIsForgotten ==
  ASSUME SeparateNumbers, ConnectsOnce, HalfRange
  PROVE  Spec => []NothingForgotten
<1>1. Apart
  BY DEF Apart
<1>2. ASSUME JInv, HInv, PairInv PROVE NothingForgotten
  <2> SUFFICES ASSUME BothOpen, NEW n \in Node, NEW k \in 1 .. sent[n][Epoch(n)]
               PROVE  \/ k <= Received(Peer(n))
                      \/ \E x \in conn[Peer(n)].rx_queue : x.data = <<Epoch(n), k>>
                      \/ \E x \in conn[n].tx_queue : x.data = <<Epoch(n), k>>
    BY DEF NothingForgotten
  <2>1. Direction(n, sent[n], conn[n], conn[Peer(n)], net)
    BY <1>2 DEF PairInv, Directions
  <2> QED  BY <2>1 DEF Direction, Safe, Held, Epoch, Received, Count
<1> QED  BY <1>1, <1>2, PairInvariance, PTL

-----------------------------------------------------------------------------
(***************************************************************************)
(* Resets.                                                                 *)
(***************************************************************************)
\* Where a RST may come from: a slot of another connection, or the end of one
\* that has sent all it will ever send.
Final(n, s, c, q) ==
    \/ n = "server" /\ q \in OldSeq
    \/ \E e \in 1 .. Len(s) : /\ q = Number(n, e, s[e] + 1)
                              /\ e = Len(s) => c.state \in {"CLOSE_WAIT", "CLOSED"}

Rsts == \A p \in net : "rst" \in p.flags =>
            Final(Peer(p.dst), sent[Peer(p.dst)], conn[Peer(p.dst)], p.seq)

\* One connection changes.
LEMMA RstsStep ==
  ASSUME JInv, Rsts, NEW n \in Node, NEW d, NEW u,
         conn' = [conn EXCEPT ![n] = d], sent' = [sent EXCEPT ![n] = u],
         \A q : Final(n, sent[n], conn[n], q) => Final(n, u, d, q),
         \A q \in net' : \/ q \in net
                         \/ q.dst = Peer(n) /\ ("rst" \in q.flags => Final(n, u, d, q.seq))
  PROVE  Rsts'
<1>1. conn'[n] = d /\ \A m \in Node : m # n => conn'[m] = conn[m]
  BY OneChanged
<1>2. sent'[n] = u /\ \A m \in Node : m # n => sent'[m] = sent[m]
  BY OneSends
<1> SUFFICES ASSUME NEW p \in net', "rst" \in p.flags
             PROVE  Final(Peer(p.dst), sent'[Peer(p.dst)], conn'[Peer(p.dst)], p.seq)
  BY DEF Rsts
<1>3. CASE p \in net
  <2> DEFINE m == Peer(p.dst)
  <2>1. p \in Packet
    BY <1>3 DEF JInv, IInv, TypeOK
  <2>2. m \in Node /\ Final(m, sent[m], conn[m], p.seq)
    BY <1>3, <2>1, PacketFields, PeerType DEF Rsts
  <2> HIDE DEF m
  <2>3. Final(m, sent'[m], conn'[m], p.seq)
    BY <1>1, <1>2, <2>2
  <2> QED  BY <2>3 DEF m
<1>4. CASE p.dst = Peer(n) /\ ("rst" \in p.flags => Final(n, u, d, p.seq))
  BY <1>1, <1>2, <1>4, PeerPeer
<1> QED  BY <1>3, <1>4

\* An end whose history goes on: only what it sent before is final.
LEMMA FinalGoesOn ==
  ASSUME NEW n, NEW s \in Seq(Nat), NEW u \in Seq(Nat), NEW c, NEW d, NEW q,
         Final(n, s, c, q), c.state \notin {"CLOSE_WAIT", "CLOSED"} \/ Len(u) # Len(s),
         Len(s) <= Len(u), \A e \in 1 .. Len(s) : e # Len(u) => u[e] = s[e]
  PROVE  Final(n, u, d, q)
<1> SUFFICES ASSUME ~(n = "server" /\ q \in OldSeq) PROVE Final(n, u, d, q)
  BY DEF Final
<1>1. PICK e \in 1 .. Len(s) : /\ q = Number(n, e, s[e] + 1)
                               /\ e = Len(s) => c.state \in {"CLOSE_WAIT", "CLOSED"}
  BY DEF Final
<1>2. Len(s) \in Nat /\ Len(u) \in Nat
  OBVIOUS
<1>3. e \in 1 .. Len(u) /\ e # Len(u)
  BY <1>1, <1>2
<1>4. u[e] = s[e]
  BY <1>3
<1> QED  BY <1>1, <1>3, <1>4 DEF Final

\* A history that does not change.
LEMMA SameHistory == UNCHANGED sent /\ JInv => \A n \in Node : sent' = [sent EXCEPT ![n] = sent[n]]
BY DEF JInv, IInv, TypeOK

\* A calm step sends a RST only as it closes.
LEMMA CalmRsts ==
  ASSUME JInv, SimpleInv, Rsts, NEW n \in Node, CalmStep(n)
  PROVE  Rsts'
<1> DEFINE c == conn[n]
           s == sent[n]
<1>1. PICK d \in Conn :
         /\ conn' = [conn EXCEPT ![n] = d] /\ Calm(n, c, d, net)
         /\ \A q \in net' : q \in net \/ Answer(n, c, d, net, user[n], q)
         /\ UNCHANGED sent
  BY DEF CalmStep
<1>2. \A q : Final(n, s, c, q) => Final(n, s, d, q)
  <2>1. c.state \in {"CLOSE_WAIT", "CLOSED"} => d.state \in {"CLOSE_WAIT", "CLOSED"}
    BY <1>1 DEF Calm, Moves
  <2> QED  BY <2>1 DEF Final
<1>3. ASSUME NEW q \in net', q \notin net, "rst" \in q.flags
      PROVE  Final(n, s, d, q.seq)
  <2>1. Answer(n, c, d, net, user[n], q)
    BY <1>1, <1>3
  <2>2. Simple(n, s, c)
    BY DEF SimpleInv
  <2>3. c.open /\ q.seq = c.snd_nxt /\ d.state \in {"CLOSE_WAIT", "CLOSED"}
    BY <1>3, <2>1, <2>2 DEF Answer, Simple
  <2>4. s # <<>> /\ Len(s) \in 1 .. Len(s)
    BY <2>3, Parts DEF JInv, IInv, Started
  <2>5. c.snd_nxt = Number(n, Len(s), s[Len(s)] + 1)
    BY <2>2, <2>4 DEF Simple, Numbered
  <2> QED  BY <2>3, <2>4, <2>5 DEF Final
<1>4. \A q \in net' : \/ q \in net
                      \/ q.dst = Peer(n) /\ ("rst" \in q.flags => Final(n, s, d, q.seq))
  BY <1>1, <1>3 DEF Answer
<1> QED  BY <1>1, <1>2, <1>4, RstsStep, SameHistory

\* The other steps send none, but for the server's stray one.
LEMMA RestlessRsts ==
  ASSUME SeparateNumbers, ConnectsOnce, JInv, JInv', HInv, Rsts, Restless
  PROVE  Rsts'
<1>1. ASSUME Connect \/ ConnectRetry PROVE Rsts'
  <2> DEFINE n == "client"
             P == Cmp(n, {"syn"}, Rand[n][1], 0)
  <2>1. sent[n] = <<>> /\ sent' = [sent EXCEPT ![n] = <<0>>]
    BY <1>1, ConnectEffect
  <2>2. PICK d \in Conn : conn' = [conn EXCEPT ![n] = d] /\ \A q \in net' : q \in net \/ q = P
    BY <1>1, ConnectEffect
  <2>3. P.dst = Peer(n) /\ P.flags = {"syn"}
    BY DEF Cmp
  <2>4. n \in Node
    BY TwoNodes
  <2>5. \A q : ~Final(n, sent[n], conn[n], q)
    BY <2>1 DEF Final
  <2> HIDE DEF n, P
  <2> DEFINE u == <<0>>
  <2>6. \A q \in net' : \/ q \in net
                        \/ q.dst = Peer(n) /\ ("rst" \in q.flags => Final(n, u, d, q.seq))
    BY <2>2, <2>3
  <2>7. sent' = [sent EXCEPT ![n] = u]
    BY <2>1
  <2> HIDE DEF u
  <2> QED  BY <2>2, <2>4, <2>5, <2>6, <2>7, RstsStep
<1>2. ASSUME NEW p \in net, RecvSyn(p) PROVE Rsts'
  <2> DEFINE n == "server"
             u == Append(sent[n], 0)
  <2>1. sent' = [sent EXCEPT ![n] = u]
    BY <1>2, SynEffect
  <2>2. PICK d \in Conn : /\ conn' = [conn EXCEPT ![n] = d]
                          /\ \A q \in net' : q \in net \/ q = SynAckMsg(n, d)
    BY <1>2, SynEffect
  <2> DEFINE P == SynAckMsg(n, d)
  <2>3. P.dst = Peer(n) /\ P.flags = {"ack", "syn"}
    BY DEF SynAckMsg, Cmp
  <2>4. n \in Node
    BY TwoNodes
  <2>5. /\ sent[n] \in Seq(Nat) /\ u \in Seq(Nat) /\ Len(u) = Len(sent[n]) + 1
        /\ Len(sent[n]) \in Nat
        /\ \A e \in 1 .. Len(sent[n]) : u[e] = sent[n][e]
    BY <2>4, Parts, AppendGrows
  <2> HIDE DEF n, u, P
  <2>6. \A q : Final(n, sent[n], conn[n], q) => Final(n, u, d, q)
    <3>1. Len(u) # Len(sent[n]) /\ Len(sent[n]) <= Len(u)
      BY <2>5
    <3> QED  BY <2>5, <3>1, FinalGoesOn
  <2>7. \A q \in net' : \/ q \in net
                        \/ q.dst = Peer(n) /\ ("rst" \in q.flags => Final(n, u, d, q.seq))
    BY <2>2, <2>3 DEF P
  <2> QED  BY <2>1, <2>2, <2>4, <2>6, <2>7, RstsStep
<1>3. ASSUME NEW p \in net, RecvSynAck(p) PROVE Rsts'
  <2> DEFINE n == "client"
             s == sent[n]
  <2>1. UNCHANGED sent /\ conn[n].state = "SYN_SENT"
    BY <1>3, SynAckEffect
  <2>2. PICK d \in Conn : /\ conn' = [conn EXCEPT ![n] = d]
                          /\ \A q \in net' : q \in net \/ q = AckMsg(n, d)
    BY <1>3, SynAckEffect
  <2> DEFINE P == AckMsg(n, d)
  <2>3. P.dst = Peer(n) /\ P.flags = {"ack"}
    BY DEF AckMsg, Cmp
  <2>4. n \in Node
    BY TwoNodes
  <2>5. s \in Seq(Nat)
    BY <2>4, Parts
  <2> HIDE DEF n, P
  <2>6. \A q : Final(n, s, conn[n], q) => Final(n, s, d, q)
    BY <2>1, <2>5, FinalGoesOn
  <2>7. \A q \in net' : \/ q \in net
                        \/ q.dst = Peer(n) /\ ("rst" \in q.flags => Final(n, s, d, q.seq))
    BY <2>2, <2>3 DEF P
  <2>8. sent' = [sent EXCEPT ![n] = s]
    BY <2>1, <2>4, SameHistory
  <2> QED  BY <2>2, <2>4, <2>6, <2>7, <2>8, RstsStep
<1>4. ASSUME NEW n \in Node, Send(n) PROVE Rsts'
  <2> DEFINE s == sent[n]
             c == conn[n]
  <2>1. c.state = "OPEN"
    BY <1>4, SendEffect
  <2>2. PICK d \in Conn, u \in Seq(Nat) :
           /\ conn' = [conn EXCEPT ![n] = d] /\ sent' = [sent EXCEPT ![n] = u]
           /\ Len(u) = Len(s) /\ \A e \in 1 .. Len(s) : e # Len(s) => u[e] = s[e]
           /\ \E x : /\ x.flags = {"ack"}
                     /\ \A q \in net' : q \in net \/ q = TxMsg(n, c, x)
    BY <1>4, SendEffect
  <2>3. PICK x : x.flags = {"ack"} /\ \A q \in net' : q \in net \/ q = TxMsg(n, c, x)
    BY <2>2
  <2> DEFINE P == TxMsg(n, c, x)
  <2>4. P.dst = Peer(n) /\ P.flags = {"ack"}
    BY <2>3 DEF TxMsg
  <2>5. s \in Seq(Nat)
    BY Parts
  <2> HIDE DEF P
  <2>6. \A q : Final(n, s, c, q) => Final(n, u, d, q)
    BY <2>1, <2>2, <2>5, FinalGoesOn
  <2>7. \A q \in net' : \/ q \in net
                        \/ q.dst = Peer(n) /\ ("rst" \in q.flags => Final(n, u, d, q.seq))
    BY <2>3, <2>4 DEF P
  <2> QED  BY <2>2, <2>6, <2>7, RstsStep
<1>5. ASSUME NEW n \in Node, NEW p \in net, RecvInOrder(n, p) PROVE Rsts'
  <2> DEFINE s == sent[n]
             c == conn[n]
             P == Cmp(n, {"ack"}, c.snd_nxt, Mod16(c.rcv_cur + 1))
  <2>1. c.state \in InSync
    BY <1>5, OpenedFields DEF RecvInOrder
  <2>2. PICK d \in Conn : /\ conn' = [conn EXCEPT ![n] = d] /\ UNCHANGED sent
                          /\ \E e, N : Consumed(n, p, c, d, e, N)
    BY <1>5, SeparateDistinct, InOrderStep
  <2>3. \A q \in net' : q \in net \/ q = P
    BY <2>2 DEF Consumed
  <2>4. P.dst = Peer(n) /\ P.flags = {"ack"}
    BY DEF Cmp
  <2>5. s \in Seq(Nat) /\ c.state \notin {"CLOSE_WAIT", "CLOSED"}
    BY <2>1, Parts DEF InSync
  <2> HIDE DEF P
  <2>6. \A q : Final(n, s, c, q) => Final(n, s, d, q)
    BY <2>5, FinalGoesOn
  <2>7. \A q \in net' : \/ q \in net
                        \/ q.dst = Peer(n) /\ ("rst" \in q.flags => Final(n, s, d, q.seq))
    BY <2>3, <2>4
  <2>8. sent' = [sent EXCEPT ![n] = s]
    BY <2>2, SameHistory
  <2> QED  BY <2>2, <2>6, <2>7, <2>8, RstsStep
<1>6. ASSUME NoSynReset PROVE Rsts'
  <2> DEFINE n == "server"
             c == conn[n]
             s == sent[n]
  <2>1. PICK p \in net : RecvNoSyn(p) /\ "rst" \notin p.flags
    BY <1>6 DEF NoSynReset
  <2>2. UNCHANGED <<conn, sent>> /\ ~c.open /\ p.dst = n /\ "syn" \notin p.flags
    BY <2>1 DEF RecvNoSyn, hist
  <2>3. PICK seq \in OldSeq \cup {c.snd_nxt} :
           net' = Transmit(net \ {p}, {Cmp(n, {"rst"}, seq, c.rcv_cur)})
    BY <2>1 DEF RecvNoSyn
  <2> DEFINE P == Cmp(n, {"rst"}, seq, c.rcv_cur)
  <2>4. P.dst = Peer(n) /\ P.seq = seq
    BY DEF Cmp
  <2>5. n \in Node /\ sent[n] # <<>>
    BY <2>2, TwoNodes, HandshakeOver
  <2>6. s \in Seq(Nat) /\ conn \in [Node -> Conn] /\ Len(s) \in 1 .. Len(s)
    <3>1. s \in Seq(Nat) /\ conn \in [Node -> Conn]
      BY <2>5, Parts, TypeParts
    <3> QED  BY <2>5, <3>1, EmptySeq, LenProperties
  <2>7. c.state = "CLOSED" /\ Numbered(n, s, c)
    BY <2>2, <2>5, TypeParts DEF Shape, HInv, SimpleInv, Simple
  <2>8. Final(n, s, c, seq)
    BY <2>3, <2>6, <2>7 DEF Final, Numbered
  <2>9. \A q \in net' : q \in net \/ q = P
    <3>1. net \ {p} \subseteq net
      OBVIOUS
    <3> HIDE DEF P
    <3>2. net' = Transmit(net \ {p}, {P})
      BY <2>3 DEF P
    <3> QED  BY <3>1, <3>2, OneSent
  <2>10. conn' = [conn EXCEPT ![n] = c]
    BY <2>2, <2>6
  <2>11. sent' = [sent EXCEPT ![n] = s]
    BY <2>2, <2>5, SameHistory
  <2> HIDE DEF n, P
  <2>12. \A q \in net' : \/ q \in net
                         \/ q.dst = Peer(n) /\ ("rst" \in q.flags => Final(n, s, c, q.seq))
    BY <2>4, <2>8, <2>9
  <2>13. \A q : Final(n, s, c, q) => Final(n, s, c, q)
    OBVIOUS
  <2> HIDE DEF c, s
  <2> QED  BY <2>5, <2>10, <2>11, <2>12, <2>13, RstsStep DEF c, s
<1> QED  BY <1>1, <1>2, <1>3, <1>4, <1>5, <1>6, NoHalfOpen DEF Restless

\* Every step keeps it.
LEMMA NextRsts ==
  ASSUME SeparateNumbers, ConnectsOnce, JInv, JInv', HInv, Rsts, [Next]_vars
  PROVE  Rsts'
<1>1. ASSUME NEW n \in Node, CalmStep(n) PROVE Rsts'
  BY <1>1, CalmRsts DEF HInv
<1> QED  BY <1>1, RestlessRsts, CalmOrRestless

\* A RST in sequence follows the last message.
LEMMA FinalInSequence ==
  ASSUME SeparateNumbers, SlotsApart, JInv, Rsts, NEW n \in Node, NEW p \in net,
         p.dst = n, "rst" \in p.flags, conn[n].state = "OPEN", InOrder(conn[n], p)
  PROVE  AllReceived(n)
<1> DEFINE m == Peer(n)
           c == conn[n]
           t == sent[m]
           R == Count(c)
<1>1. m \in Node /\ c \in Conn
  BY PeerType, Parts
<1>2. PICK e \in 1 .. Len(t) :
         Passed(m, t, c, e, accepted[n], lost[n]) /\ c.rcv_irs = Number(m, e, 0)
  BY ReceivedOne DEF InSync
<1>3. /\ t[e] \in Nat /\ MaxSend[m] \in Nat /\ t[e] <= MaxSend[m] /\ e \in DOMAIN Rand[m]
      /\ Rand[m][e] \in Int /\ c.rcv_irs = Rand[m][e]
  BY <1>1, <1>2, DrawnNumbers DEF Passed
<1>4. R \in Nat /\ R <= t[e]
  BY <1>1, <1>2, OwnAcks DEF Passed
<1>5. p.seq = Number(m, e, R + 1)
  BY <1>1, <1>3, OwnAcks DEF InOrder, Number
<1>6. Final(m, t, conn[m], p.seq)
  BY DEF Rsts
<1>7. CASE m = "server" /\ p.seq \in OldSeq
  <2>1. R + 1 \in 1 .. MaxSend[m] + 1
    <3> HIDE DEF R
    <3> QED  BY <1>3, <1>4
  <2> HIDE DEF R
  <2>2. p.seq # Mod16(Rand[m][e] + (R + 1))
    BY <1>3, <1>7, <2>1 DEF SlotsApart
  <2> QED  BY <1>5, <2>2 DEF Number
<1>8. ASSUME NEW f \in 1 .. Len(t), p.seq = Number(m, f, t[f] + 1)
      PROVE  AllReceived(n)
  <2> DEFINE j == R + 1
             k == t[f] + 1
  <2>1. t[f] \in Nat /\ t[f] <= MaxSend[m]
    BY <1>1, <1>8, DrawnNumbers
  <2>2. j \in Nat /\ j <= MaxSend[m] + 1 /\ k \in Nat /\ k <= MaxSend[m] + 1
    <3> HIDE DEF R
    <3> QED  BY <1>3, <1>4, <2>1
  <2>3. Number(m, e, j) = Number(m, f, k)
    BY <1>5, <1>8
  <2> HIDE DEF j, k
  <2>4. e = f /\ j = k
    BY <1>1, <1>2, <1>8, <2>2, <2>3, OneNumber
  <2>5. R = t[e]
    <3> HIDE DEF R
    <3> QED  BY <1>3, <1>4, <2>1, <2>4 DEF j, k
  <2> QED  BY <1>3, <2>5 DEF AllReceived, Epoch, Received, Count
<1> QED  BY <1>6, <1>7, <1>8 DEF Final

\* What the router does with a RST for an open connection.
LEMMA RstObeyed ==
  ASSUME JInv, NEW n \in Node, NEW p \in net, RecvRst(n, p), conn[n].state = "OPEN"
  PROVE  IF InOrder(conn[n], p) /\ conn[n].rcv_cur # 65535
         THEN conn'[n].state = "CLOSE_WAIT" ELSE conn'[n].state = "OPEN"
<1> DEFINE b == conn[n]
           c == IF "ack" \in p.flags THEN [b EXCEPT !.snd_una = Mod16(p.ack + 1)] ELSE b
           d == [Acked(c) EXCEPT !.state = "CLOSE_WAIT"]
<1>1. b \in Conn /\ Shape(n, b) /\ conn \in [Node -> Conn]
  BY TypeParts
<1>2. p \in Packet
  BY DEF JInv, IInv, TypeOK
<1>3. p.seq \in SeqNr /\ Mod16(p.ack + 1) \in SeqNr
  BY <1>2, PacketFields
<1>4. /\ c \in Conn /\ c.state = "OPEN" /\ c.open /\ ~c.socket /\ c.closed_by = {}
      /\ c.rcv_cur = b.rcv_cur
  BY <1>1, <1>3 DEF Conn, Shape
<1>5. InSequence(c, p) <=> InOrder(b, p) /\ b.rcv_cur # 65535
  <2> DEFINE q == p.seq
             r == b.rcv_cur
  <2>1. q \in SeqNr /\ r \in SeqNr
    BY <1>1, <1>3 DEF Conn
  <2> HIDE DEF q, r
  <2>2. q = r + 1 <=> q = Mod16(r + 1) /\ r # 65535
    <3>1. q \in Nat /\ q < 65536 /\ r \in Nat /\ r < 65536
      BY <2>1, Mod16Sums
    <3>2. CASE r = 65535
      BY <3>1, <3>2
    <3>3. CASE r # 65535
      <4>1. r + 1 \in Int /\ 0 <= r + 1 /\ r + 1 < 65536
        BY <3>1, <3>3
      <4>2. Mod16(r + 1) = r + 1
        BY <4>1, Mod16Sums
      <4> QED  BY <3>3, <4>2
    <3> QED  BY <3>2, <3>3
  <2> HIDE DEF c
  <2> QED  BY <1>4, <2>2 DEF InSequence, InOrder, q, r
<1>6. \/ InSequence(c, p) /\ Take(n, p, DiscardClose(d), {RstAckMsg(n, c)})
      \/ ~InSequence(c, p) /\ Take(n, p, c, {})
  <2>1. c.state # "CLOSE_WAIT"
    BY <1>4
  <2> QED  BY <2>1 DEF RecvRst
<1> HIDE DEF c
<1>7. /\ d \in Conn /\ d.open /\ ~d.socket /\ d.closed_by = {} /\ d.state = "CLOSE_WAIT"
  BY <1>4, SeqNrLemma DEF Acked, Conn, State
<1> HIDE DEF d
<1>8. DiscardClose(d).state = "CLOSE_WAIT"
  <2> DEFINE by == {"PROTOCOL"}
             e == ConnClose(d, by)
  <2>1. by \in SUBSET ByAll /\ {} \cup by # ByAll
    BY DEF ByAll
  <2>2. Shape(n, d)
    BY <1>7 DEF Shape
  <2>3. e.state = "CLOSE_WAIT"
    <3> HIDE DEF by
    <3> QED  BY <1>7, <2>1, <2>2, ConnCloseLemma
  <2>4. e \in Conn
    BY <1>7, <2>1, ConnCloseType
  <2>5. DiscardClose(d) = EnqueueNull(e)
    BY <1>7 DEF DiscardClose
  <2> HIDE DEF e
  <2> QED  BY <2>3, <2>4, <2>5 DEF EnqueueNull, Conn
<1>9. CASE InSequence(c, p) /\ Take(n, p, DiscardClose(d), {RstAckMsg(n, c)})
  BY <1>1, <1>5, <1>8, <1>9 DEF Take
<1>10. CASE ~InSequence(c, p) /\ Take(n, p, c, {})
  BY <1>1, <1>4, <1>5, <1>10 DEF Take
<1> QED  BY <1>6, <1>9, <1>10

\* The RST of a closing peer waits for everything the peer has submitted: it
\* closes an open connection exactly when it is in sequence, except that
\* csp_rdp_new_packet misses the one after 65535.
THEOREM ResetsAfterData ==
  ASSUME SeparateNumbers, ConnectsOnce, SlotsApart
  PROVE  Spec => RstAfterData
<1> DEFINE I == JInv /\ HInv /\ Rsts
<1>1. DistinctNumbers
  BY SeparateDistinct
<1>2. Init => I
  BY InitJInv, InitHInv DEF Init, Rsts
<1>3. I /\ [Next]_vars => I'
  <2> SUFFICES ASSUME I, [Next]_vars PROVE I'
    OBVIOUS
  <2>1. JInv'
    BY <1>1, NextJInv
  <2> QED  BY <1>1, <2>1, NextHInv, NextRsts
<1>4. I => [\A n \in Node : \A p \in net :
               RecvRst(n, p) /\ conn[n].state = "OPEN" =>
                  IF InOrder(conn[n], p) /\ conn[n].rcv_cur # 65535
                  THEN conn'[n].state = "CLOSE_WAIT" /\ AllReceived(n)
                  ELSE conn'[n].state = "OPEN"]_vars
  <2> SUFFICES ASSUME I, NEW n \in Node, NEW p \in net, RecvRst(n, p), conn[n].state = "OPEN"
               PROVE  IF InOrder(conn[n], p) /\ conn[n].rcv_cur # 65535
                      THEN conn'[n].state = "CLOSE_WAIT" /\ AllReceived(n)
                      ELSE conn'[n].state = "OPEN"
    OBVIOUS
  <2>1. p.dst = n /\ "rst" \in p.flags
    BY DEF RecvRst
  <2>2. InOrder(conn[n], p) => AllReceived(n)
    BY <2>1, FinalInSequence
  <2> QED  BY <2>2, RstObeyed
<1> QED  BY <1>2, <1>3, <1>4, PTL DEF Spec, RstAfterData

=============================================================================
