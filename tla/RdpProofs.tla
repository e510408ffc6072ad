------------------------------ MODULE RdpProofs ------------------------------
(***************************************************************************)
(* Proofs about Rdp for every value of its constants: types, the ownership *)
(* of the slots, and, where no two messages of a node share a sequence     *)
(* number, that each direction of a connection is the stream of messages   *)
(* its sender submitted.                                                   *)
(***************************************************************************)
EXTENDS Rdp, TLAPS, SequenceTheorems

-----------------------------------------------------------------------------
(***************************************************************************)
(* The types of the operators.                                             *)
(***************************************************************************)
\* The two nodes are each other's peer.
LEMMA PeerLemma == Peer("client") = "server" /\ Peer("server") = "client"
<1>1. \A m \in Node : m # "client" <=> m = "server"  BY DEF Node
<1>2. \A m \in Node : m # "server" <=> m = "client"  BY DEF Node
<1> QED  BY <1>1, <1>2 DEF Peer, Node

\* The peer of a node is a node.
LEMMA PeerType == \A n \in Node : Peer(n) \in Node
BY PeerLemma DEF Node

\* Truncation to uint16_t gives a sequence number (csp_rdp_seq_*).
LEMMA Mod16Type == \A i \in Int : Mod16(i) \in SeqNr
BY SMTT(30) DEF Mod16, SeqNr

\* Sequence numbers are integers, and the next one, truncated, is one too.
LEMMA SeqNrLemma == 0 \in SeqNr /\ \A s \in SeqNr : s \in Int /\ Mod16(s + 1) \in SeqNr
<1>1. 0 \in SeqNr /\ \A s \in SeqNr : s \in Int /\ s + 1 \in Int
  BY DEF SeqNr
<1> QED  BY <1>1, Mod16Type

\* A control message is a packet.
LEMMA CmpType ==
  ASSUME NEW n \in Node, NEW flags \in SUBSET Flag, NEW seq \in SeqNr, NEW ack \in SeqNr
  PROVE  Cmp(n, flags, seq, ack) \in Packet
BY PeerType DEF Cmp, Packet, NoData, Data

\* The control messages of an open or closing connection are packets.
LEMMA MsgType ==
  ASSUME NEW n \in Node, NEW c \in Conn
  PROVE  /\ AckMsg(n, c) \in Packet
         /\ RstMsg(n, c) \in Packet
         /\ RstAckMsg(n, c) \in Packet
         /\ SynAckMsg(n, c) \in Packet
         /\ EackMsg(n, c) \in Packet
<1>1. c.snd_nxt \in SeqNr /\ c.rcv_cur \in SeqNr /\ c.snd_iss \in SeqNr /\ c.rcv_irs \in SeqNr
  BY DEF Conn
<1>2. {x.seq : x \in c.rx_queue} \in SUBSET SeqNr
  BY DEF Conn, RxElement
<1>3. \A f \in SUBSET Flag : Cmp(n, f, c.snd_nxt, c.rcv_cur) \in Packet
  BY <1>1, CmpType
<1>4. EackMsg(n, c) \in Packet
  <2>1. Cmp(n, {"ack", "eak"}, c.snd_nxt, c.rcv_cur) \in Packet
    BY <1>3 DEF Flag
  <2> QED  BY <2>1, <1>2 DEF EackMsg, Packet
<1> QED
  BY <1>1, <1>3, <1>4, CmpType DEF AckMsg, RstMsg, RstAckMsg, SynAckMsg, Flag

\* A retransmitted segment is a packet (csp_rdp_check_timeouts).
LEMMA TxMsgType ==
  ASSUME NEW n \in Node, NEW c \in Conn, NEW x \in TxElement
  PROVE  TxMsg(n, c, x) \in Packet
BY PeerType DEF TxMsg, Packet, TxElement, Conn

\* Putting packets on the link keeps it a set of packets.
LEMMA TransmitType ==
  ASSUME NEW N \in SUBSET Packet, NEW M \in SUBSET Packet
  PROVE  Transmit(N, M) \in SUBSET Packet
BY DEF Transmit

\* The retransmission queue keeps its type when a segment is kept (csp_rdp_send_cmp).
LEMMA RetainType ==
  ASSUME NEW c \in Conn, NEW x \in TxElement
  PROVE  Retain(c, x) \in Conn
BY DEF Retain, Conn

\* Remembering the last acknowledgement sent keeps a connection's type.
LEMMA AckedType ==
  ASSUME NEW c \in Conn
  PROVE  Acked(c) \in Conn
BY DEF Acked, Conn

\* csp_rdp_check_ack keeps a connection's type, and what it sends is packets.
LEMMA CheckAckType ==
  ASSUME NEW n \in Node, NEW c \in Conn, NEW late
  PROVE  CheckAck(c, late) \in Conn /\ CheckAckOut(n, c, late) \in SUBSET Packet
BY AckedType, MsgType DEF CheckAck, CheckAckOut

\* csp_rdp_close_internal keeps a connection's type.
LEMMA RdpCloseType ==
  ASSUME NEW c \in Conn, NEW by \in SUBSET ByAll
  PROVE  RdpClose(c, by) \in Conn
<1>1. Acked(c) \in Conn
  BY AckedType
<1>2. \A d \in Conn : [d EXCEPT !.state = "CLOSED", !.closed_by = {}] \in Conn
  BY DEF Conn, State
<1>3. \A d \in Conn : [d EXCEPT !.state = "CLOSE_WAIT", !.closed_by = @ \cup by] \in Conn
  BY DEF Conn, State
<1> QED  BY <1>1, <1>2, <1>3 DEF RdpClose

\* csp_conn_close keeps a connection's type, and what it sends is packets.
LEMMA ConnCloseType ==
  ASSUME NEW n \in Node, NEW c \in Conn, NEW by \in SUBSET ByAll
  PROVE  ConnClose(c, by) \in Conn /\ CloseOut(n, c) \in SUBSET Packet
<1>1. RdpClose(c, by) \in Conn
  BY RdpCloseType
<1>2. \A d \in Conn : [d EXCEPT !.open = FALSE, !.in_queue = <<>>,
                                !.tx_queue = {}, !.rx_queue = {}] \in Conn
  <2>1. <<>> \in Seq(Data)
    OBVIOUS
  <2> QED  BY <2>1 DEF Conn
<1> QED  BY <1>1, <1>2, MsgType DEF ConnClose, CloseOut

\* The discard_close exit of csp_rdp_new_packet keeps a connection's type.
LEMMA DiscardCloseType ==
  ASSUME NEW c \in Conn
  PROVE  DiscardClose(c) \in Conn
<1>1. \A d \in Conn : EnqueueNull(d) \in Conn
  <2>1. NoData \in Data
    BY DEF NoData, Data
  <2>2. \A q \in Seq(Data) : Append(q, NoData) \in Seq(Data)
    BY <2>1
  <2> QED  BY <2>2 DEF EnqueueNull, Conn
<1>2. {"PROTOCOL"} \in SUBSET ByAll /\ {"PROTOCOL", "USERSPACE"} \in SUBSET ByAll
  BY DEF ByAll
<1> QED  BY <1>1, <1>2, ConnCloseType DEF DiscardClose, Node

-----------------------------------------------------------------------------
(***************************************************************************)
(* Type correctness, one lemma for each kind of step.                      *)
(***************************************************************************)
\* What a typed packet and a typed connection are made of.
LEMMA PacketFields ==
  ASSUME NEW p \in Packet
  PROVE  /\ p.dst \in Node /\ p.flags \in SUBSET Flag
         /\ p.seq \in SeqNr /\ p.ack \in SeqNr /\ Mod16(p.ack + 1) \in SeqNr
         /\ p.data \in Data /\ p.eacks \in SUBSET SeqNr
BY SeqNrLemma DEF Packet

\* Taking a packet off the link leaves packets on it.
LEMMA TakeType ==
  ASSUME TypeOK, NEW n \in Node, NEW p \in net, NEW c \in Conn,
         NEW M \in SUBSET Packet, Take(n, p, c, M)
  PROVE  conn' \in [Node -> Conn] /\ net' \subseteq Packet
BY TransmitType DEF Take, TypeOK

\* rand() returns a sequence number.
LEMMA RandType ==
  ASSUME RdpAssumption, TypeOK, NEW n \in Node, Epoch(n) < Len(Rand[n])
  PROVE  Rand[n][Epoch(n) + 1] \in SeqNr
BY DEF RdpAssumption, TypeOK, Epoch

\* A new connection of a node extends the histories within their types.
LEMMA NewEpochType ==
  ASSUME TypeOK, NEW n \in Node, NewEpoch(n)
  PROVE  sent' \in [Node -> Seq(Nat)]
<1>1. \A s \in Seq(Nat) : Append(s, 0) \in Seq(Nat)
  OBVIOUS
<1> QED  BY <1>1 DEF NewEpoch, TypeOK

\* csp_rdp_connect's initialisation keeps the types.
LEMMA StartConnectType ==
  ASSUME RdpAssumption, TypeOK, NEW c \in Conn, StartConnect(c)
  PROVE  /\ conn' \in [Node -> Conn] /\ net' \subseteq Packet
         /\ tx_wait' \in BOOLEAN /\ sent' \in [Node -> Seq(Nat)]
<1> DEFINE n == "client"
           iss == Rand[n][Epoch(n) + 1]
           d == [c EXCEPT !.state = "SYN_SENT", !.snd_iss = iss,
                          !.snd_nxt = Mod16(iss + 1), !.snd_una = iss]
           x == [flags |-> {"syn"}, seq |-> iss, data |-> NoData]
<1>1. n \in Node /\ iss \in SeqNr /\ Mod16(iss + 1) \in SeqNr
  <2>1. n \in Node /\ Epoch(n) < Len(Rand[n])
    BY DEF StartConnect, Node
  <2>2. iss \in SeqNr
    BY <2>1, RandType
  <2> HIDE DEF iss
  <2> QED  BY <2>1, <2>2, SeqNrLemma
<1>2. /\ conn' = [conn EXCEPT ![n] = Retain(d, x)]
      /\ net' = Transmit(net, {Cmp(n, {"syn"}, iss, 0)})
      /\ tx_wait' = FALSE /\ NewEpoch(n)
  BY DEF StartConnect
<1> HIDE DEF n, iss
<1>3. d \in Conn
  BY <1>1 DEF Conn, State
<1>4. x \in TxElement
  BY <1>1 DEF TxElement, Flag, NoData, Data
<1>5. Cmp(n, {"syn"}, iss, 0) \in Packet
  BY <1>1, CmpType, SeqNrLemma DEF Flag
<1> HIDE DEF d, x
<1>6. Retain(d, x) \in Conn
  BY <1>3, <1>4, RetainType
<1>7. net' \subseteq Packet
  BY <1>2, <1>5, TransmitType DEF TypeOK
<1> QED  BY <1>1, <1>2, <1>6, <1>7, NewEpochType DEF TypeOK

\* A connection in use has drawn an initial sequence number.
Started == \A n \in Node : conn[n].open => sent[n] # <<>>

\* The actions of the user tasks.
LEMMA ConnectingType ==
  ASSUME RdpAssumption, TypeOK, Connecting
  PROVE  TypeOK'
<1> DEFINE c == conn["client"]
<1>1. c \in Conn /\ "client" \in Node
  BY DEF TypeOK, Node
<1>2. CASE Connect
  <2> DEFINE d == [c EXCEPT !.open = TRUE, !.socket = FALSE, !.in_queue = <<>>]
  <2>1. <<>> \in Seq(Data)
    OBVIOUS
  <2>2. d \in Conn
    BY <1>1, <2>1 DEF Conn
  <2>3. /\ StartConnect(d)
        /\ user' = [user EXCEPT !["client"] = "connecting"]
        /\ retry' = TRUE
        /\ accepted' = [accepted EXCEPT !["client"] = <<>>]
        /\ lost' = [lost EXCEPT !["client"] = {}]
        /\ UNCHANGED backlog
    BY <1>2 DEF Connect
  <2> HIDE DEF d
  <2>4. /\ conn' \in [Node -> Conn] /\ net' \subseteq Packet
        /\ tx_wait' \in BOOLEAN /\ sent' \in [Node -> Seq(Nat)]
    BY <2>2, <2>3, StartConnectType
  <2> QED  BY <2>1, <2>3, <2>4 DEF TypeOK
<1>3. ASSUME GiveUpConnect PROVE TypeOK'
  <2>1. \A d \in Conn : [d EXCEPT !.state = "CLOSE_WAIT",
                                  !.closed_by = @ \cup {"PROTOCOL"}] \in Conn
    BY DEF Conn, State, ByAll
  <2>2. {"USERSPACE"} \in SUBSET ByAll
    BY DEF ByAll
  <2>3. FailedConnect(c) \in Conn
    BY <1>1, <2>1, <2>2, ConnCloseType DEF FailedConnect
  <2> QED  BY <1>1, <1>3, <2>3 DEF GiveUpConnect, TypeOK, hist
<1>4. CASE ConnectTimeout  BY <1>3, <1>4 DEF ConnectTimeout
<1>5. CASE ConnectDone     BY <1>5 DEF ConnectDone, TypeOK, hist
<1>6. CASE ConnectRetry
  <2> DEFINE d == [c EXCEPT !.tx_queue = {}, !.rx_queue = {}]
  <2>1. d \in Conn
    BY <1>1 DEF Conn
  <2>2. /\ StartConnect(d) /\ retry' = FALSE
        /\ UNCHANGED <<user, backlog, accepted, lost>>
    BY <1>6 DEF ConnectRetry
  <2> HIDE DEF d
  <2> QED  BY <2>1, <2>2, StartConnectType DEF TypeOK
<1>7. CASE ConnectFailed   BY <1>3, <1>7 DEF ConnectFailed
<1> QED  BY <1>2, <1>4, <1>5, <1>6, <1>7 DEF Connecting

\* The calls of a user task, csp_send, csp_read and csp_close, keep the types.
LEMMA UserType ==
  ASSUME TypeOK, Started, NEW n \in Node, User(n)
  PROVE  TypeOK'
<1> DEFINE c == conn[n]
<1>1. c \in Conn
  BY DEF TypeOK
<1>2. CASE Send(n)
  <2> DEFINE x == [flags |-> {"ack"}, seq |-> c.snd_nxt,
                   data |-> <<Epoch(n), sent[n][Epoch(n)] + 1>>]
           d == [c EXCEPT !.tx_queue = @ \cup {x}, !.snd_nxt = Mod16(@ + 1)]
  <2>1. sent[n] \in Seq(Nat) /\ sent[n] # <<>>
    BY <1>2 DEF Send, Started, TypeOK
  <2>2. Epoch(n) \in 1 .. Len(sent[n]) /\ sent[n][Epoch(n)] \in Nat
    BY <2>1 DEF Epoch
  <2>3. /\ conn' = [conn EXCEPT ![n].tx_queue = @ \cup {x}, ![n].snd_nxt = Mod16(@ + 1)]
        /\ net' = Transmit(net, {TxMsg(n, c, x)})
        /\ sent' = [sent EXCEPT ![n][Epoch(n)] = @ + 1]
        /\ UNCHANGED <<user, retry, tx_wait, backlog, accepted, lost>>
    BY <1>2 DEF Send
  <2>4. x \in TxElement
    <3>1. c.snd_nxt \in SeqNr
      BY <1>1 DEF Conn
    <3> QED  BY <2>2, <3>1 DEF TxElement, Flag, Data
  <2> HIDE DEF x
  <2>5. d \in Conn
    <3>1. Mod16(c.snd_nxt + 1) \in SeqNr
      BY <1>1, SeqNrLemma DEF Conn
    <3> QED  BY <1>1, <2>4, <3>1 DEF Conn
  <2>6. conn' = [conn EXCEPT ![n] = d]
    BY <2>3 DEF TypeOK
  <2> HIDE DEF d
  <2>7. net' \subseteq Packet
    <3>1. TxMsg(n, c, x) \in Packet
      BY <1>1, <2>4, TxMsgType
    <3> QED  BY <2>3, <3>1, TransmitType DEF TypeOK
  <2>8. sent' \in [Node -> Seq(Nat)]
    <3> DEFINE s == [sent[n] EXCEPT ![Epoch(n)] = @ + 1]
    <3>1. s \in Seq(Nat)
      BY <2>1, <2>2, ExceptSeq
    <3>2. sent' = [sent EXCEPT ![n] = s]
      BY <2>3 DEF TypeOK
    <3> HIDE DEF s
    <3> QED  BY <3>1, <3>2 DEF TypeOK
  <2> QED  BY <2>3, <2>5, <2>6, <2>7, <2>8, ZenonT(60) DEF TypeOK
<1>3. CASE Read(n)
  <2> DEFINE d == [c EXCEPT !.in_queue = Tail(@)]
  <2>1. d \in Conn
    <3>1. c.in_queue \in Seq(Data) /\ c.in_queue # <<>>
      BY <1>1, <1>3 DEF Read, Conn
    <3>2. Tail(c.in_queue) \in Seq(Data)
      BY <3>1
    <3> QED  BY <1>1, <3>2 DEF Conn
  <2>2. PICK ack \in BOOLEAN :
           /\ conn' = [conn EXCEPT ![n] = IF ack THEN Acked(d) ELSE d]
           /\ net' = Transmit(net, IF ack THEN {AckMsg(n, d)} ELSE {})
    BY <1>3 DEF Read
  <2> HIDE DEF d
  <2>3. net' \subseteq Packet
    BY <2>1, <2>2, MsgType, TransmitType DEF TypeOK
  <2>4. Acked(d) \in Conn
    BY <2>1, AckedType
  <2> QED  BY <1>3, <2>1, <2>2, <2>3, <2>4 DEF Read, TypeOK, hist
<1>4. CASE Close(n)
  <2>1. {"USERSPACE"} \in SUBSET ByAll
    BY DEF ByAll
  <2>2. ConnClose(c, {"USERSPACE"}) \in Conn /\ CloseOut(n, c) \in SUBSET Packet
    BY <1>1, <2>1, ConnCloseType
  <2>3. net' \subseteq Packet
    BY <1>4, <2>2, TransmitType DEF Close, TypeOK
  <2> QED  BY <1>4, <2>2, <2>3 DEF Close, TypeOK, hist
<1> QED  BY <1>2, <1>3, <1>4 DEF User

\* csp_rdp_check_timeouts.
LEMMA TimerType ==
  ASSUME TypeOK, NEW n \in Node, Timer(n)
  PROVE  TypeOK'
<1> DEFINE c == conn[n]
<1>1. c \in Conn
  BY DEF TypeOK
<1>2. CASE ConnectionTimeout(n)
  <2>1. ConnClose(c, ByAll) \in Conn /\ CloseOut(n, c) \in SUBSET Packet
    BY <1>1, ConnCloseType
  <2>2. net' \subseteq Packet
    BY <1>2, <2>1, TransmitType DEF ConnectionTimeout, TypeOK
  <2> QED  BY <1>2, <2>1, <2>2 DEF ConnectionTimeout, TypeOK, hist
<1>3. CASE CloseWaitTimeout(n)
  <2>1. {"PROTOCOL", "TIMEOUT"} \in SUBSET ByAll
    BY DEF ByAll
  <2>2. ConnClose(c, {"PROTOCOL", "TIMEOUT"}) \in Conn
    BY <1>1, <2>1, ConnCloseType
  <2> QED  BY <1>3, <2>2 DEF CloseWaitTimeout, TypeOK, hist
<1>4. CASE MessageTimeout(n)
  <2>1. PICK R \in SUBSET Queued(c), late \in BOOLEAN : Resend(n, R, late)
    BY <1>4 DEF MessageTimeout
  <2> DEFINE d == [c EXCEPT !.tx_queue = Queued(c)]
             M == {TxMsg(n, c, x) : x \in R} \cup
                  IF c.state = "OPEN" /\ DelayedAcks THEN CheckAckOut(n, c, late) ELSE {}
  <2>2. Queued(c) \in SUBSET TxElement
    BY <1>1 DEF Queued, Conn
  <2>3. d \in Conn
    BY <1>1, <2>2 DEF Conn
  <2>4. M \in SUBSET Packet
    BY <1>1, <2>2, TxMsgType, CheckAckType
  <2>5. /\ conn' = [conn EXCEPT ![n] =
              IF c.state = "OPEN" /\ DelayedAcks THEN CheckAck(d, late) ELSE d]
        /\ net' = Transmit(net, M)
        /\ UNCHANGED <<user, retry, tx_wait, backlog, hist>>
    BY <2>1 DEF Resend
  <2> HIDE DEF d, M
  <2>6. conn' \in [Node -> Conn]
    BY <2>3, <2>5, CheckAckType DEF TypeOK
  <2>7. net' \subseteq Packet
    BY <2>4, <2>5, TransmitType DEF TypeOK
  <2> QED  BY <2>5, <2>6, <2>7 DEF TypeOK, hist
<1> QED  BY <1>2, <1>3, <1>4 DEF Timer

\* A packet for a node without a connection.
LEMMA RecvUnknownType ==
  ASSUME RdpAssumption, TypeOK, NEW p \in net, RecvUnknown(p)
  PROVE  TypeOK'
<1> DEFINE n == "server"
<1>1. p \in Packet /\ n \in Node /\ conn[n] \in Conn
  BY DEF TypeOK, Node
<1>2. CASE RecvNoSocket(p)  BY <1>2 DEF RecvNoSocket, TypeOK, hist
<1>3. CASE RecvNoSyn(p)
  <2>1. CASE net' = net \ {p}
    BY <1>3, <2>1 DEF RecvNoSyn, TypeOK, hist
  <2>2. ASSUME NEW seq \in OldSeq \cup {conn[n].snd_nxt},
               net' = Transmit(net \ {p}, {Cmp(n, {"rst"}, seq, conn[n].rcv_cur)})
        PROVE  TypeOK'
    <3>1. seq \in SeqNr /\ conn[n].rcv_cur \in SeqNr
      BY <1>1 DEF RdpAssumption, Conn
    <3>2. Cmp(n, {"rst"}, seq, conn[n].rcv_cur) \in Packet
      BY <1>1, <3>1, CmpType DEF Flag
    <3>3. net' \subseteq Packet
      BY <2>2, <3>2, TransmitType DEF TypeOK
    <3> QED  BY <1>3, <3>3 DEF RecvNoSyn, TypeOK, hist
  <2> QED  BY <1>3, <2>1, <2>2 DEF RecvNoSyn
<1>4. CASE RecvNoSlot(p)  BY <1>4 DEF RecvNoSlot, TypeOK, hist
<1>5. CASE RecvSyn(p)
  <2> DEFINE iss == Rand[n][Epoch(n) + 1]
             c == [conn[n] EXCEPT !.open = TRUE, !.socket = TRUE, !.in_queue = <<>>,
                     !.state = "SYN_RCVD", !.snd_iss = iss,
                     !.snd_nxt = Mod16(iss + 1), !.snd_una = iss,
                     !.rcv_cur = p.seq, !.rcv_irs = p.seq, !.rcv_lsa = p.seq]
             x == [flags |-> {"ack", "syn"}, seq |-> iss, data |-> NoData]
  <2>1. /\ Epoch(n) < Len(Rand[n])
        /\ Take(n, p, Retain(c, x), {SynAckMsg(n, c)})
        /\ NewEpoch(n)
        /\ accepted' = [accepted EXCEPT ![n] = <<>>]
        /\ lost' = [lost EXCEPT ![n] = {}]
        /\ UNCHANGED <<user, retry, tx_wait, backlog>>
    BY <1>5 DEF RecvSyn
  <2>2. iss \in SeqNr /\ Mod16(iss + 1) \in SeqNr
    <3>1. iss \in SeqNr
      BY <1>1, <2>1, RandType
    <3> HIDE DEF iss
    <3> QED  BY <3>1, SeqNrLemma
  <2> HIDE DEF iss
  <2>3. c \in Conn
    <3>1. <<>> \in Seq(Data)
      OBVIOUS
    <3> QED  BY <1>1, <2>2, <3>1, PacketFields DEF Conn, State
  <2>4. x \in TxElement
    BY <2>2 DEF TxElement, Flag, NoData, Data
  <2> HIDE DEF c, x
  <2>5. conn' \in [Node -> Conn] /\ net' \subseteq Packet
    <3>1. Retain(c, x) \in Conn /\ {SynAckMsg(n, c)} \in SUBSET Packet
      BY <1>1, <2>3, <2>4, RetainType, MsgType
    <3> QED  BY <1>1, <2>1, <3>1, TakeType
  <2>6. sent' \in [Node -> Seq(Nat)]
    BY <1>1, <2>1, NewEpochType
  <2>7. <<>> \in Seq(Data)
    OBVIOUS
  <2> QED  BY <2>1, <2>5, <2>6, <2>7 DEF TypeOK
<1> QED  BY <1>2, <1>3, <1>4, <1>5 DEF RecvUnknown

\* Most receive actions change the connection and the link only.
LEMMA TakeTypeOK ==
  ASSUME TypeOK, NEW n \in Node, NEW p \in net, NEW c \in Conn,
         NEW M \in SUBSET Packet, Take(n, p, c, M),
         UNCHANGED <<user, retry, hist>>, tx_wait' \in BOOLEAN, backlog' \in BOOLEAN
  PROVE  TypeOK'
<1>1. conn' \in [Node -> Conn] /\ net' \subseteq Packet
  BY TakeType
<1> QED  BY <1>1 DEF TypeOK, hist

\* The client's end of the handshake, and a full backlog.
LEMMA RecvHandshakeType ==
  ASSUME TypeOK, NEW p \in net, RecvHandshake(p)
  PROVE  TypeOK'
<1>1. p \in Packet /\ "client" \in Node /\ "server" \in Node
  BY DEF TypeOK, Node
<1>2. CASE RecvSynAck(p)
  <2> DEFINE n == "client"
             c == [conn[n] EXCEPT !.state = "OPEN", !.rcv_cur = p.seq,
                     !.rcv_irs = p.seq, !.rcv_lsa = p.seq,
                     !.snd_una = Mod16(p.ack + 1)]
  <2>1. /\ Take(n, p, c, {AckMsg(n, c)})
        /\ tx_wait' = TRUE /\ UNCHANGED <<user, retry, backlog, hist>>
    BY <1>2 DEF RecvSynAck
  <2>2. c \in Conn
    <3>1. conn[n] \in Conn
      BY <1>1 DEF TypeOK
    <3> QED  BY <1>1, <3>1, PacketFields DEF Conn, State
  <2> HIDE DEF c
  <2>3. {AckMsg(n, c)} \in SUBSET Packet
    BY <1>1, <2>2, MsgType
  <2>4. backlog' \in BOOLEAN
    BY <2>1 DEF TypeOK
  <2> QED  BY <1>1, <2>1, <2>2, <2>3, <2>4, TakeTypeOK
<1>3. CASE RecvHalfOpen(p)
  <2> DEFINE n == "client"
  <2>1. conn[n] \in Conn
    BY <1>1 DEF TypeOK
  <2>2. {RstMsg(n, conn[n])} \in SUBSET Packet
    BY <1>1, <2>1, MsgType
  <2>3. /\ Take(n, p, conn[n], {RstMsg(n, conn[n])})
        /\ tx_wait' = TRUE /\ UNCHANGED <<user, retry, backlog, hist>>
    BY <1>3 DEF RecvHalfOpen
  <2>4. backlog' \in BOOLEAN
    BY <2>3 DEF TypeOK
  <2> QED  BY <1>1, <2>1, <2>2, <2>3, <2>4, TakeTypeOK
<1>4. CASE RecvBacklogFull(p)
  <2> DEFINE n == "server"
  <2>1. conn[n] \in Conn
    BY <1>1 DEF TypeOK
  <2>2. DiscardClose(conn[n]) \in Conn /\ CloseOut(n, conn[n]) \in SUBSET Packet
    BY <1>1, <2>1, DiscardCloseType, ConnCloseType
  <2>3. /\ Take(n, p, DiscardClose(conn[n]), CloseOut(n, conn[n]))
        /\ UNCHANGED <<user, retry, tx_wait, backlog, hist>>
    BY <1>4 DEF RecvBacklogFull
  <2>4. tx_wait' \in BOOLEAN /\ backlog' \in BOOLEAN
    BY <2>3 DEF TypeOK
  <2> QED  BY <1>1, <2>2, <2>3, <2>4, TakeTypeOK
<1> QED  BY <1>2, <1>3, <1>4 DEF RecvHandshake

\* A packet on an existing connection that is reset, closing or not valid.
LEMMA RecvInvalidType ==
  ASSUME TypeOK, NEW n \in Node, NEW p \in net,
         \/ RecvRst(n, p)
         \/ RecvCloseWait(n, p)
         \/ RecvSynAgain(n, p)
         \/ RecvOutsideWindow(n, p)
         \/ RecvBadAck(n, p)
  PROVE  TypeOK'
<1> DEFINE c == conn[n]
<1>1. p \in Packet /\ c \in Conn
  BY DEF TypeOK
<1>2. DiscardClose(c) \in Conn /\ CloseOut(n, c) \in SUBSET Packet /\ Acked(c) \in Conn
  BY <1>1, DiscardCloseType, ConnCloseType, AckedType
<1>3. UNCHANGED <<user, retry, tx_wait, backlog, hist>>
  BY DEF RecvRst, RecvCloseWait, RecvSynAgain, RecvOutsideWindow, RecvBadAck
<1>4. tx_wait' \in BOOLEAN /\ backlog' \in BOOLEAN
  BY <1>3 DEF TypeOK
<1> DEFINE Moved(d, M) == d \in Conn /\ M \in SUBSET Packet /\ Take(n, p, d, M)
<1>5. SUFFICES \E d, M : Moved(d, M)
  BY <1>3, <1>4, TakeTypeOK
<1>6. CASE RecvRst(n, p)
  <2> DEFINE u == IF "ack" \in p.flags THEN [c EXCEPT !.snd_una = Mod16(p.ack + 1)] ELSE c
             w == [Acked(u) EXCEPT !.state = "CLOSE_WAIT"]
  <2>1. u \in Conn
    BY <1>1, PacketFields DEF Conn
  <2>2. \/ Take(n, p, DiscardClose(u), {})
        \/ Take(n, p, DiscardClose(w), {RstAckMsg(n, u)})
        \/ Take(n, p, u, {})
    BY <1>6 DEF RecvRst
  <2> HIDE DEF u
  <2>3. w \in Conn
    <3>1. Acked(u) \in Conn
      BY <2>1, AckedType
    <3> QED  BY <3>1 DEF Conn, State
  <2> HIDE DEF w
  <2>4. DiscardClose(u) \in Conn /\ DiscardClose(w) \in Conn
    BY <2>1, <2>3, DiscardCloseType
  <2>5. {RstAckMsg(n, u)} \in SUBSET Packet
    BY <2>1, MsgType
  <2> QED  BY <2>1, <2>2, <2>4, <2>5
<1>7. CASE RecvCloseWait(n, p)
  <2> DEFINE u == [c EXCEPT !.snd_una = Mod16(p.ack + 1)]
  <2>1. u \in Conn
    BY <1>1, PacketFields DEF Conn
  <2>2. Take(n, p, Acked(u), {RstAckMsg(n, c)}) \/ Take(n, p, c, {})
    BY <1>7 DEF RecvCloseWait
  <2> HIDE DEF u
  <2>3. Acked(u) \in Conn /\ {RstAckMsg(n, c)} \in SUBSET Packet
    BY <1>1, <2>1, AckedType, MsgType
  <2> QED  BY <1>1, <2>2, <2>3
<1>8. CASE RecvSynAgain(n, p)
  <2>1. Take(n, p, c, {}) \/ Take(n, p, DiscardClose(c), CloseOut(n, c))
    BY <1>8 DEF RecvSynAgain
  <2> QED  BY <1>1, <1>2, <2>1
<1>9. CASE RecvOutsideWindow(n, p)
  <2> DEFINE u == [c EXCEPT !.rcv_lsa = c.rcv_irs]
             x == [flags |-> {"ack", "syn"}, seq |-> c.snd_iss, data |-> NoData]
  <2>1. u \in Conn
    BY <1>1 DEF Conn
  <2>2. x \in TxElement
    BY <1>1 DEF Conn, TxElement, Flag, NoData, Data
  <2>3. \/ Take(n, p, Retain(u, x), {SynAckMsg(n, c)})
        \/ Take(n, p, Acked(c), {EackMsg(n, c)})
    BY <1>9 DEF RecvOutsideWindow
  <2> HIDE DEF u, x
  <2>4. /\ Retain(u, x) \in Conn
        /\ {SynAckMsg(n, c)} \in SUBSET Packet
        /\ {EackMsg(n, c)} \in SUBSET Packet
    BY <1>1, <2>1, <2>2, RetainType, MsgType
  <2> QED  BY <1>2, <2>3, <2>4
<1>10. CASE RecvBadAck(n, p)
  <2>1. Take(n, p, c, {}) \/ Take(n, p, DiscardClose(c), CloseOut(n, c))
    BY <1>10 DEF RecvBadAck
  <2> QED  BY <1>1, <1>2, <2>1
<1> QED  BY <1>6, <1>7, <1>8, <1>9, <1>10

\* A valid packet.
LEMMA OpenedType ==
  ASSUME TypeOK, NEW n \in Node, NEW p \in net
  PROVE  Opened(n, p) \in Conn
<1>1. conn[n] \in Conn /\ Mod16(p.ack + 1) \in SeqNr
  BY PacketFields DEF TypeOK
<1> QED  BY <1>1 DEF Opened, Conn, State

\* csp_rdp_receive_data keeps a connection's type whether or not the queue has room.
LEMMA OfferType ==
  ASSUME TypeOK, NEW n \in Node, Offer(n)
  PROVE  backlog' \in BOOLEAN
BY DEF Offer, TypeOK

\* The data that csp_rdp_rx_queue_flush passes on comes from the queue.
LEMMA FlushedType ==
  ASSUME NEW c \in Conn, NEW r \in Nat, NEW k \in 0 .. r, IsRun(c, r)
  PROVE  /\ Flushed(c, r, k) \in Conn
         /\ \A j \in 1 .. r : Following(c, j) \in Data
         /\ [j \in 1 .. k |-> Following(c, j)] \in Seq(Data)
<1>1. \A j \in 1 .. r : Following(c, j) \in Data
  <2> TAKE j \in 1 .. r
  <2>1. Stored(c, j) # {}
    BY DEF IsRun
  <2>2. (CHOOSE x \in Stored(c, j) : TRUE) \in Stored(c, j)
    BY <2>1
  <2>3. Stored(c, j) \subseteq RxElement
    BY DEF Stored, Conn
  <2> QED  BY <2>2, <2>3 DEF Following, RxElement
<1>2. [j \in 1 .. k |-> Following(c, j)] \in Seq(Data)
  BY <1>1
<1>3. Mod16(c.rcv_cur + r) \in SeqNr
  <2>1. c.rcv_cur \in SeqNr
    BY DEF Conn
  <2>2. c.rcv_cur + r \in Int
    BY <2>1, SeqNrLemma
  <2> QED  BY <2>2, Mod16Type
<1>4. c.in_queue \o [j \in 1 .. k |-> Following(c, j)] \in Seq(Data)
  BY <1>2 DEF Conn
<1> QED  BY <1>1, <1>2, <1>3, <1>4 DEF Flushed, Conn

\* A valid packet on an open connection keeps the types.
LEMMA RecvValidType ==
  ASSUME RdpAssumption, TypeOK, NEW n \in Node, NEW p \in net,
         \/ RecvAck(n, p)
         \/ RecvOutOfOrder(n, p)
         \/ RecvQueueFull(n, p)
         \/ RecvInOrder(n, p)
  PROVE  TypeOK'
<1> DEFINE c == Opened(n, p)
<1>1. p \in Packet /\ c \in Conn
  BY OpenedType DEF TypeOK
<1>2. backlog' \in BOOLEAN
  BY OfferType DEF RecvAck, RecvOutOfOrder, RecvQueueFull, RecvInOrder
<1>3. UNCHANGED <<user, retry, tx_wait>> /\ tx_wait' \in BOOLEAN
  BY DEF RecvAck, RecvOutOfOrder, RecvQueueFull, RecvInOrder, TypeOK
<1>4. CASE RecvAck(n, p)
  <2> DEFINE d == [c EXCEPT !.tx_queue = {x \in @ : x.seq \notin p.eacks}]
  <2>1. Take(n, p, d, {}) /\ UNCHANGED hist
    BY <1>4 DEF RecvAck
  <2>2. d \in Conn
    BY <1>1 DEF Conn
  <2> QED  BY <1>2, <1>3, <2>1, <2>2, TakeTypeOK
<1>5. CASE RecvOutOfOrder(n, p)
  <2> DEFINE d == [c EXCEPT !.rx_queue = @ \cup {[seq |-> p.seq, data |-> p.data]}]
  <2>1. /\ \/ Take(n, p, Acked(d), {EackMsg(n, d)})
           \/ \E late \in BOOLEAN : Take(n, p, CheckAck(c, late), CheckAckOut(n, c, late))
        /\ UNCHANGED hist
    BY <1>5 DEF RecvOutOfOrder
  <2>2. d \in Conn
    <3>1. [seq |-> p.seq, data |-> p.data] \in RxElement
      BY <1>1, PacketFields DEF RxElement
    <3> HIDE DEF c
    <3> QED  BY <1>1, <3>1 DEF Conn
  <2> HIDE DEF c, d
  <2>3. Acked(d) \in Conn /\ {EackMsg(n, d)} \in SUBSET Packet
    BY <2>2, AckedType, MsgType
  <2>4. \A late \in BOOLEAN : CheckAck(c, late) \in Conn /\ CheckAckOut(n, c, late) \in SUBSET Packet
    BY <1>1, CheckAckType
  <2> QED  BY <1>2, <1>3, <2>1, <2>3, <2>4, TakeTypeOK
<1>6. CASE RecvQueueFull(n, p)
  <2>1. Take(n, p, c, {}) /\ UNCHANGED hist
    BY <1>6 DEF RecvQueueFull
  <2> QED  BY <1>1, <1>2, <1>3, <2>1, TakeTypeOK
<1>7. CASE RecvInOrder(n, p)
  <2> DEFINE d == [c EXCEPT !.in_queue = Append(@, p.data), !.rcv_cur = p.seq]
             room == ConnQueueLength - Len(d.in_queue)
             fits(r) == IF r <= room THEN r ELSE room
  <2>1. PICK late \in BOOLEAN, r \in 0 .. 2 * MaxWindow :
           /\ IsRun(d, r)
           /\ Take(n, p, Flushed(CheckAck(d, late), r, fits(r)), CheckAckOut(n, d, late))
           /\ accepted' = [accepted EXCEPT ![n] =
                 Append(@, p.data) \o [j \in 1 .. fits(r) |-> Following(d, j)]]
           /\ lost' = [lost EXCEPT ![n] = @ \cup {Following(d, j) : j \in fits(r) + 1 .. r}]
    BY <1>7 DEF RecvInOrder
  <2>2. d \in Conn
    <3>1. Append(c.in_queue, p.data) \in Seq(Data)
      BY <1>1, PacketFields DEF Conn
    <3>2. \A e \in Conn, q \in Seq(Data), seq \in SeqNr :
             [e EXCEPT !.in_queue = q, !.rcv_cur = seq] \in Conn
      BY DEF Conn
    <3>3. p.seq \in SeqNr
      BY <1>1, PacketFields
    <3> HIDE DEF c
    <3> QED  BY <1>1, <3>1, <3>2, <3>3
  <2>3. r \in Nat /\ fits(r) \in 0 .. r
    <3>1. Len(c.in_queue) < ConnQueueLength /\ c.in_queue \in Seq(Data)
      BY <1>1, <1>7 DEF RecvInOrder, Opened, TypeOK, Conn
    <3>2. room \in Nat
      <4>1. Len(d.in_queue) = Len(c.in_queue) + 1
        BY <1>1, <3>1, PacketFields DEF Conn
      <4> HIDE DEF d
      <4> QED  BY <3>1, <4>1 DEF RdpAssumption
    <3>3. r \in Nat
      BY DEF RdpAssumption
    <3> HIDE DEF room
    <3> QED  BY <3>2, <3>3
  <2> HIDE DEF d, fits
  <2>4. CheckAck(d, late) \in Conn /\ CheckAckOut(n, d, late) \in SUBSET Packet
    BY <2>2, CheckAckType
  <2>5. IsRun(CheckAck(d, late), r)
    BY <2>1, <2>2 DEF IsRun, Stored, CheckAck, Acked, Conn
  <2>6. Flushed(CheckAck(d, late), r, fits(r)) \in Conn
    BY <2>3, <2>4, <2>5, FlushedType
  <2>7. /\ \A j \in 1 .. r : Following(d, j) \in Data
        /\ [j \in 1 .. fits(r) |-> Following(d, j)] \in Seq(Data)
    BY <2>1, <2>2, <2>3, FlushedType
  <2>8. accepted' \in [Node -> Seq(Data)]
    <3>1. p.data \in Data
      BY <1>1, PacketFields
    <3>2. \A s \in Seq(Data) :
             Append(s, p.data) \o [j \in 1 .. fits(r) |-> Following(d, j)] \in Seq(Data)
      BY <2>7, <3>1
    <3> QED  BY <2>1, <3>2 DEF TypeOK
  <2>9. lost' \in [Node -> SUBSET Data]
    <3>1. {Following(d, j) : j \in fits(r) + 1 .. r} \in SUBSET Data
      BY <2>3, <2>7
    <3> QED  BY <2>1, <3>1 DEF TypeOK
  <2>10. conn' \in [Node -> Conn] /\ net' \subseteq Packet
    BY <2>1, <2>4, <2>6, TakeType
  <2>11. UNCHANGED sent
    BY <1>7 DEF RecvInOrder
  <2> QED  BY <1>2, <1>3, <2>8, <2>9, <2>10, <2>11 DEF TypeOK
<1> QED  BY <1>4, <1>5, <1>6, <1>7

-----------------------------------------------------------------------------
(***************************************************************************)
(* Ownership of the connection slot.                                       *)
(***************************************************************************)
\* What the state of a connection says of its other members.
Shape(n, c) ==
    /\ c.open <=> c.state # "CLOSED"
    /\ c.closed_by # {} => c.state = "CLOSE_WAIT"
    /\ c.state = "SYN_RCVD" => c.socket
    /\ c.state \in {"SYN_SENT", "OPEN"} => ~c.socket
    /\ c.socket => n = "server"

\* A user task may hold the handle; only router tasks know the connection.
InUse(c) == c.open /\ ~c.socket /\ "USERSPACE" \notin c.closed_by
InRouter(c) == c.socket \/ "USERSPACE" \in c.closed_by

Ownership ==
    /\ \A n \in Node :
          /\ Shape(n, conn[n])
          /\ Owned(n) => InUse(conn[n])
          /\ conn[n].open /\ ~Owned(n) => InRouter(conn[n])
    /\ backlog => user["server"] = "idle"

IInv == TypeOK /\ Started /\ Ownership

\* d may replace c without a change of ownership.
Kept(n, c, d) ==
    /\ Shape(n, d)
    /\ InUse(c) => InUse(d)
    /\ InRouter(c) /\ d.open => InRouter(d)
    /\ d.open => c.open

Same(c, d) ==
    /\ d.open = c.open /\ d.socket = c.socket
    /\ d.state = c.state /\ d.closed_by = c.closed_by

\* A step that leaves slot, socket, state and closers alone keeps ownership.
LEMMA SameKept ==
  ASSUME NEW n, NEW c, NEW d, Shape(n, c), Same(c, d)
  PROVE  Kept(n, c, d)
BY DEF Same, Kept, Shape, InUse, InRouter

\* Two changes that keep ownership keep it together.
LEMMA KeptTrans ==
  ASSUME NEW n, NEW c, NEW d, NEW e, Kept(n, c, d), Kept(n, d, e)
  PROVE  Kept(n, c, e)
BY DEF Kept

\* The members that acknowledging and queueing leave alone.
LEMMA SameUpdates ==
  ASSUME NEW c \in Conn
  PROVE  /\ Same(c, Acked(c))
         /\ \A late : Same(c, CheckAck(c, late))
         /\ \A x : Same(c, Retain(c, x))
         /\ Same(c, EnqueueNull(c))
BY DEF Same, Acked, CheckAck, Retain, EnqueueNull, Conn

\* csp_conn_close leaves the slot to CLOSE_WAIT until all three have closed.
LEMMA ConnCloseLemma ==
  ASSUME NEW n, NEW c \in Conn, Shape(n, c), c.open, NEW by \in SUBSET ByAll
  PROVE  LET d == ConnClose(c, by) IN
         /\ d.socket = c.socket
         /\ \/ /\ c.closed_by \cup by = ByAll
               /\ ~d.open /\ d.state = "CLOSED" /\ d.closed_by = {}
            \/ /\ c.closed_by \cup by # ByAll
               /\ d.open /\ d.state = "CLOSE_WAIT" /\ d.closed_by = c.closed_by \cup by
<1> DEFINE e == IF c.state = "CLOSE_WAIT" THEN c ELSE Acked(c)
           f == RdpClose(c, by)
<1>1. e \in Conn /\ Same(c, e)
  BY AckedType, SameUpdates DEF Same
<1>2. c.state # "CLOSED"
  BY DEF Shape
<1>3. f = IF c.closed_by \cup by = ByAll
          THEN [e EXCEPT !.state = "CLOSED", !.closed_by = {}]
          ELSE [e EXCEPT !.state = "CLOSE_WAIT", !.closed_by = @ \cup by]
  BY <1>2 DEF RdpClose
<1> HIDE DEF e
<1>4. /\ f \in Conn /\ f.socket = c.socket /\ f.open
      /\ IF c.closed_by \cup by = ByAll
         THEN f.state = "CLOSED" /\ f.closed_by = {}
         ELSE f.state = "CLOSE_WAIT" /\ f.closed_by = c.closed_by \cup by
  <2>1. f \in Conn
    BY RdpCloseType
  <2> QED  BY <1>1, <1>3, <2>1 DEF Same, Conn
<1>5. ConnClose(c, by) =
        IF f.state # "CLOSED" THEN f
        ELSE [f EXCEPT !.open = FALSE, !.in_queue = <<>>, !.tx_queue = {}, !.rx_queue = {}]
  BY DEF ConnClose
<1> HIDE DEF f
<1> QED  BY <1>4, <1>5 DEF Conn

\* The router closes a connection it owns, or leaves the slot to the user.
LEMMA ConnCloseKept ==
  ASSUME NEW n, NEW c \in Conn, Shape(n, c), c.open, NEW by \in SUBSET ByAll,
         c.socket \/ "USERSPACE" \notin by
  PROVE  Kept(n, c, ConnClose(c, by))
BY ConnCloseLemma DEF Kept, Shape, InUse, InRouter, ByAll

\* The discard_close exit keeps ownership.
LEMMA DiscardCloseKept ==
  ASSUME NEW n, NEW c \in Conn, Shape(n, c), c.open
  PROVE  Kept(n, c, DiscardClose(c))
<1>1. {"PROTOCOL"} \in SUBSET ByAll /\ {"PROTOCOL", "USERSPACE"} \in SUBSET ByAll
  BY DEF ByAll
<1>2. CASE c.socket
  BY <1>1, <1>2, ConnCloseKept DEF DiscardClose
<1>3. CASE ~c.socket
  <2> DEFINE d == ConnClose(c, {"PROTOCOL"})
  <2>1. Kept(n, c, d)
    BY <1>1, ConnCloseKept
  <2>2. d \in Conn
    BY <1>1, ConnCloseType DEF Node
  <2>3. DiscardClose(c) = EnqueueNull(d)
    BY <1>3 DEF DiscardClose
  <2> HIDE DEF d
  <2>4. Kept(n, d, EnqueueNull(d))
    BY <2>1, <2>2, SameUpdates, SameKept DEF Kept
  <2> QED  BY <2>1, <2>3, <2>4, KeptTrans
<1> QED  BY <1>2, <1>3

\* csp_close and a failed csp_connect: the router will finish the close.
LEMMA UserClose ==
  ASSUME NEW n, NEW c \in Conn, Shape(n, c), c.open
  PROVE  LET d == ConnClose(c, {"USERSPACE"}) IN
         Shape(n, d) /\ (d.open => InRouter(d))
<1>1. {"USERSPACE"} \in SUBSET ByAll
  BY DEF ByAll
<1> QED  BY <1>1, ConnCloseLemma DEF Shape, InRouter

\* A step of the router that keeps the ownership of its connection.
LEMMA RouterStep ==
  ASSUME IInv, NEW n \in Node, NEW d, conn' = [conn EXCEPT ![n] = d],
         Kept(n, conn[n], d), UNCHANGED <<user, backlog, sent>>
  PROVE  Started' /\ Ownership'
<1>1. conn \in [Node -> Conn]
  BY DEF IInv, TypeOK
<1>2. /\ conn'[n] = d
      /\ \A m \in Node : m # n => conn'[m] = conn[m]
      /\ \A m \in Node : Owned(m)' <=> Owned(m)
  BY <1>1 DEF Owned
<1>3. Started'
  BY <1>2 DEF IInv, Started, Kept
<1>4. Ownership'
  <2> SUFFICES ASSUME NEW m \in Node
               PROVE  /\ Shape(m, conn'[m])
                      /\ Owned(m) => InUse(conn'[m])
                      /\ conn'[m].open /\ ~Owned(m) => InRouter(conn'[m])
    BY <1>2 DEF Ownership, IInv
  <2> QED  BY <1>2 DEF IInv, Ownership, Kept
<1> QED  BY <1>3, <1>4

\* Connecting, its retry and its failure keep the invariant.
LEMMA OwnershipConnecting ==
  ASSUME IInv, Connecting
  PROVE  Started' /\ Ownership'
<1> DEFINE n == "client"
           c == conn[n]
<1>1. conn \in [Node -> Conn] /\ user \in [Node -> {"idle", "connecting", "open"}] /\ n \in Node
  BY DEF IInv, TypeOK, Node
<1>2. Shape(n, c) /\ (Owned(n) => InUse(c))
  BY <1>1 DEF IInv, Ownership
\* It is enough to look at the client.
<1>3. ASSUME NEW d, conn' = [conn EXCEPT ![n] = d], UNCHANGED backlog,
             user' = [user EXCEPT ![n] = user'[n]],
             Shape(n, d), d.open => (sent'[n] # <<>>), sent'["server"] = sent["server"],
             IF user'[n] # "idle" THEN InUse(d) ELSE d.open => InRouter(d)
      PROVE  Started' /\ Ownership'
  <2>1. /\ conn'["server"] = conn["server"] /\ conn'[n] = d
        /\ Owned("server")' <=> Owned("server")
        /\ Owned(n)' <=> user'[n] # "idle"
        /\ user'["server"] = user["server"]
    BY <1>1, <1>3 DEF Owned, Node
  <2>2. Started'
    BY <1>3, <2>1 DEF IInv, Started, Node
  <2>3. Ownership'
    BY <1>3, <2>1 DEF IInv, Ownership, Node
  <2> QED  BY <2>2, <2>3
<1>4. ASSUME NEW d \in Conn, StartConnect(d), UNCHANGED backlog,
             d.open /\ ~d.socket /\ d.closed_by = {},
             user' = [user EXCEPT ![n] = "connecting"]
      PROVE  Started' /\ Ownership'
  <2> DEFINE iss == Rand[n][Epoch(n) + 1]
             e == [d EXCEPT !.state = "SYN_SENT", !.snd_iss = iss,
                            !.snd_nxt = Mod16(iss + 1), !.snd_una = iss]
             x == [flags |-> {"syn"}, seq |-> iss, data |-> NoData]
  <2>1. conn' = [conn EXCEPT ![n] = Retain(e, x)] /\ NewEpoch(n)
    BY <1>4 DEF StartConnect
  <2>2. Retain(e, x).open /\ ~Retain(e, x).socket /\ Retain(e, x).closed_by = {}
        /\ Retain(e, x).state = "SYN_SENT"
    <3> HIDE DEF iss
    <3> QED  BY <1>4 DEF Retain, Conn
  <2> HIDE DEF e, x
  <2>3. Shape(n, Retain(e, x)) /\ InUse(Retain(e, x))
    BY <2>2 DEF Shape, InUse
  <2>4. sent'[n] # <<>> /\ sent'["server"] = sent["server"]
    <3>1. sent \in [Node -> Seq(Nat)]
      BY DEF IInv, TypeOK
    <3>2. \A s \in Seq(Nat) : Append(s, 0) # <<>>
      BY AppendProperties
    <3> QED  BY <1>1, <2>1, <3>1, <3>2 DEF NewEpoch, Node
  <2> QED  BY <1>1, <1>3, <1>4, <2>1, <2>3, <2>4
<1>5. ASSUME GiveUpConnect, Owned(n) PROVE Started' /\ Ownership'
  <2> DEFINE d == IF c.state = "CLOSED" THEN c
                  ELSE [c EXCEPT !.state = "CLOSE_WAIT", !.closed_by = @ \cup {"PROTOCOL"}]
  <2>1. c \in Conn /\ c.open
    BY <1>1, <1>2, <1>5 DEF InUse
  <2>2. d \in Conn /\ Shape(n, d) /\ d.open
    BY <1>2, <2>1 DEF Shape, Conn, State, ByAll
  <2> DEFINE e == ConnClose(d, {"USERSPACE"})
  <2>3. conn' = [conn EXCEPT ![n] = e]
    BY <1>5 DEF GiveUpConnect, FailedConnect
  <2> HIDE DEF d
  <2>4. Shape(n, e) /\ (e.open => InRouter(e))
    BY <2>2, UserClose
  <2> HIDE DEF e
  <2>5. user' = [user EXCEPT ![n] = "idle"] /\ UNCHANGED <<backlog, sent>>
    BY <1>5 DEF GiveUpConnect, hist
  <2>6. sent[n] # <<>>
    BY <1>1, <2>1 DEF IInv, Started
  <2>7. user'[n] = "idle" /\ sent'[n] # <<>> /\ sent'["server"] = sent["server"]
    BY <1>1, <2>5, <2>6
  <2> HIDE DEF c
  <2> QED  BY <1>3, <2>3, <2>4, <2>5, <2>7
<1>6. CASE Connect
  <2> DEFINE d == [c EXCEPT !.open = TRUE, !.socket = FALSE, !.in_queue = <<>>]
  <2>1. d \in Conn /\ d.open /\ ~d.socket /\ d.closed_by = {}
    <3>1. <<>> \in Seq(Data)
      OBVIOUS
    <3>2. ~c.open /\ c.closed_by = {}
      BY <1>2, <1>6 DEF Connect, Shape
    <3> QED  BY <1>1, <3>1, <3>2 DEF Conn
  <2>2. StartConnect(d) /\ UNCHANGED backlog /\ user' = [user EXCEPT ![n] = "connecting"]
    BY <1>6 DEF Connect
  <2> HIDE DEF d
  <2> QED  BY <1>4, <2>1, <2>2
<1>7. CASE ConnectTimeout
  BY <1>5, <1>7 DEF ConnectTimeout, Owned
<1>8. CASE ConnectDone
  <2>1. /\ user' = [user EXCEPT ![n] = "open"] /\ user[n] = "connecting"
        /\ UNCHANGED <<conn, backlog, sent>>
    BY <1>8 DEF ConnectDone, hist
  <2>2. InUse(c) /\ conn' = [conn EXCEPT ![n] = c]
    BY <1>1, <1>2, <2>1 DEF Owned
  <2>3. sent[n] # <<>>
    BY <1>1, <2>2 DEF IInv, Started, InUse
  <2> QED  BY <1>1, <1>2, <1>3, <2>1, <2>2, <2>3
<1>9. CASE ConnectRetry
  <2> DEFINE d == [c EXCEPT !.tx_queue = {}, !.rx_queue = {}]
  <2>1. /\ StartConnect(d) /\ UNCHANGED <<user, backlog>>
        /\ user[n] = "connecting" /\ c.state = "SYN_SENT"
    BY <1>9 DEF ConnectRetry
  <2>2. d \in Conn /\ d.open /\ ~d.socket /\ d.closed_by = {}
    BY <1>1, <1>2, <2>1 DEF Shape, Conn
  <2>3. user' = [user EXCEPT ![n] = "connecting"]
    BY <1>1, <2>1
  <2> HIDE DEF d
  <2> QED  BY <1>4, <2>1, <2>2, <2>3
<1>10. CASE ConnectFailed
  BY <1>5, <1>10 DEF ConnectFailed, Owned
<1> QED  BY <1>6, <1>7, <1>8, <1>9, <1>10 DEF Connecting

\* The calls of a user task keep the invariant.
LEMMA OwnershipUser ==
  ASSUME IInv, NEW n \in Node, User(n)
  PROVE  Started' /\ Ownership'
<1> DEFINE c == conn[n]
<1>1. conn \in [Node -> Conn] /\ user \in [Node -> {"idle", "connecting", "open"}]
  BY DEF IInv, TypeOK
<1>2. c \in Conn /\ Shape(n, c) /\ (Owned(n) => InUse(c))
  BY <1>1 DEF IInv, Ownership
\* Sending and reading change neither state nor owner.
<1>3. ASSUME NEW d, conn' = [conn EXCEPT ![n] = d], Same(c, d),
             UNCHANGED <<user, backlog>>,
             \A m \in Node : sent[m] # <<>> => sent'[m] # <<>>
      PROVE  Started' /\ Ownership'
  <2>1. /\ conn'[n] = d
        /\ \A m \in Node : m # n => conn'[m] = conn[m]
        /\ \A m \in Node : Owned(m)' <=> Owned(m)
    BY <1>1, <1>3 DEF Owned
  <2>2. \A m \in Node : Same(conn[m], conn'[m])
    BY <1>3, <2>1 DEF Same
  <2> QED  BY <1>3, <2>1, <2>2 DEF IInv, Started, Ownership, Same, Shape, InUse, InRouter
<1>4. CASE Send(n)
  <2> DEFINE x == [flags |-> {"ack"}, seq |-> c.snd_nxt,
                   data |-> <<Epoch(n), sent[n][Epoch(n)] + 1>>]
             d == [c EXCEPT !.tx_queue = @ \cup {x}, !.snd_nxt = Mod16(@ + 1)]
  <2>1. /\ conn' = [conn EXCEPT ![n] = d]
        /\ sent' = [sent EXCEPT ![n][Epoch(n)] = @ + 1]
        /\ UNCHANGED <<user, backlog>>
    <3> HIDE DEF x
    <3> QED  BY <1>1, <1>4 DEF Send, x
  <2>2. Same(c, d)
    <3> HIDE DEF x
    <3> QED  BY <1>2 DEF Same, Conn
  <2> HIDE DEF d
  <2>3. \A m \in Node : sent[m] # <<>> => sent'[m] # <<>>
    <3>1. sent \in [Node -> Seq(Nat)]
      BY DEF IInv, TypeOK
    <3>2. \A s \in Seq(Nat) : s # <<>> => \A e, v : [s EXCEPT ![e] = v] # <<>>
      <4> SUFFICES ASSUME NEW s \in Seq(Nat), NEW e, NEW v, s # <<>>
                   PROVE  [s EXCEPT ![e] = v] # <<>>
        OBVIOUS
      <4>1. 1 \in DOMAIN s /\ DOMAIN [s EXCEPT ![e] = v] = DOMAIN s
        OBVIOUS
      <4>2. DOMAIN <<>> = {}
        OBVIOUS
      <4> QED  BY <4>1, <4>2
    <3> QED  BY <2>1, <3>1, <3>2
  <2> QED  BY <1>3, <2>1, <2>2, <2>3
<1>5. CASE Read(n)
  <2> DEFINE d == [c EXCEPT !.in_queue = Tail(@)]
  <2>1. /\ conn' = [conn EXCEPT ![n] = Acked(d)] \/ conn' = [conn EXCEPT ![n] = d]
        /\ UNCHANGED <<user, backlog, sent>>
    BY <1>5 DEF Read, hist
  <2>2. Same(c, d) /\ Same(c, Acked(d))
    BY <1>2 DEF Same, Acked, Conn
  <2> HIDE DEF d
  <2> QED  BY <1>3, <2>1, <2>2
<1>6. CASE Close(n)
  <2> DEFINE d == ConnClose(c, {"USERSPACE"})
  <2>1. /\ conn' = [conn EXCEPT ![n] = d] /\ user' = [user EXCEPT ![n] = "idle"]
        /\ UNCHANGED <<backlog, sent>> /\ user[n] = "open"
    BY <1>6 DEF Close, hist
  <2>2. InUse(c)
    BY <1>2, <2>1 DEF Owned
  <2>3. Shape(n, d) /\ (d.open => InRouter(d))
    BY <1>2, <2>2, UserClose DEF InUse
  <2> HIDE DEF d
  <2>4. /\ conn'[n] = d
        /\ \A m \in Node : m # n => conn'[m] = conn[m] /\ user'[m] = user[m]
        /\ user'[n] = "idle"
    BY <1>1, <2>1
  <2>5. ~(n = "server" /\ backlog)
    BY <2>1 DEF IInv, Ownership
  <2>6. ~Owned(n)' /\ \A m \in Node : m # n => (Owned(m)' <=> Owned(m))
    BY <2>1, <2>4, <2>5 DEF Owned
  <2>7. Started'
    <3>1. sent' = sent /\ (conn[n].open)
      BY <2>1, <2>2 DEF InUse
    <3> QED  BY <2>4, <3>1 DEF IInv, Started
  <2>8. Ownership'
    <3>1. backlog' => user'["server"] = "idle"
      BY <2>1, <2>4 DEF IInv, Ownership, Node
    <3>2. ASSUME NEW m \in Node
          PROVE  /\ Shape(m, conn'[m])
                 /\ Owned(m)' => InUse(conn'[m])
                 /\ conn'[m].open /\ ~Owned(m)' => InRouter(conn'[m])
      <4>1. CASE m = n   BY <2>3, <2>4, <2>6, <4>1
      <4>2. CASE m # n   BY <2>4, <2>6, <4>2 DEF IInv, Ownership
      <4> QED  BY <4>1, <4>2
    <3> QED  BY <3>1, <3>2 DEF Ownership
  <2> QED  BY <2>7, <2>8
<1> QED  BY <1>4, <1>5, <1>6 DEF User

\* The handle moves from the backlog to the user.
LEMMA OwnershipAccept ==
  ASSUME IInv, Accept
  PROVE  TypeOK' /\ Started' /\ Ownership'
<1>1. /\ backlog /\ backlog' = FALSE /\ user' = [user EXCEPT !["server"] = "open"]
      /\ UNCHANGED <<conn, net, retry, tx_wait, hist>>
  BY DEF Accept
<1>2. TypeOK'
  BY <1>1 DEF IInv, TypeOK, hist
<1>3. Owned("server") /\ \A n \in Node : Owned(n)' <=> Owned(n)
  BY <1>1 DEF IInv, TypeOK, Owned, Node
<1> QED  BY <1>1, <1>2, <1>3 DEF IInv, Started, Ownership, hist

\* csp_rdp_check_timeouts keeps the invariant.
LEMMA OwnershipTimer ==
  ASSUME IInv, NEW n \in Node, Timer(n)
  PROVE  Started' /\ Ownership'
<1> DEFINE c == conn[n]
<1>1. c \in Conn /\ Shape(n, c)
  BY DEF IInv, TypeOK, Ownership
<1>2. c.open /\ UNCHANGED <<user, backlog, sent>>
  BY DEF Timer, ConnectionTimeout, CloseWaitTimeout, MessageTimeout, Resend, hist
<1>3. CASE ConnectionTimeout(n)
  <2>1. conn' = [conn EXCEPT ![n] = ConnClose(c, ByAll)] /\ c.socket
    BY <1>3 DEF ConnectionTimeout
  <2>2. Kept(n, c, ConnClose(c, ByAll))
    BY <1>1, <1>2, <2>1, ConnCloseKept
  <2> QED  BY <1>2, <2>1, <2>2, RouterStep
<1>4. CASE CloseWaitTimeout(n)
  <2>1. conn' = [conn EXCEPT ![n] = ConnClose(c, {"PROTOCOL", "TIMEOUT"})]
    BY <1>4 DEF CloseWaitTimeout
  <2>2. {"PROTOCOL", "TIMEOUT"} \in SUBSET ByAll
    BY DEF ByAll
  <2>3. Kept(n, c, ConnClose(c, {"PROTOCOL", "TIMEOUT"}))
    BY <1>1, <1>2, <2>2, ConnCloseKept
  <2> QED  BY <1>2, <2>1, <2>3, RouterStep
<1>5. CASE MessageTimeout(n)
  <2> DEFINE d == [c EXCEPT !.tx_queue = Queued(c)]
  <2>1. PICK late \in BOOLEAN :
           \/ conn' = [conn EXCEPT ![n] = CheckAck(d, late)]
           \/ conn' = [conn EXCEPT ![n] = d]
    BY <1>5 DEF MessageTimeout, Resend
  <2>2. Same(c, d) /\ Same(c, CheckAck(d, late))
    BY <1>1 DEF Same, CheckAck, Acked, Conn
  <2> HIDE DEF d
  <2>3. Kept(n, c, d) /\ Kept(n, c, CheckAck(d, late))
    BY <1>1, <2>2, SameKept
  <2> QED  BY <1>2, <2>1, <2>3, RouterStep
<1> QED  BY <1>3, <1>4, <1>5 DEF Timer

\* A packet for which there is no connection keeps the invariant.
LEMMA OwnershipUnknown ==
  ASSUME IInv, NEW p \in net, RecvUnknown(p)
  PROVE  Started' /\ Ownership'
<1> DEFINE n == "server"
<1>1. CASE UNCHANGED <<conn, user, backlog, hist>>
  BY <1>1 DEF IInv, Started, Ownership, Owned, hist
<1>2. CASE RecvSyn(p)
  <2> DEFINE iss == Rand[n][Epoch(n) + 1]
             c == [conn[n] EXCEPT !.open = TRUE, !.socket = TRUE, !.in_queue = <<>>,
                     !.state = "SYN_RCVD", !.snd_iss = iss,
                     !.snd_nxt = Mod16(iss + 1), !.snd_una = iss,
                     !.rcv_cur = p.seq, !.rcv_irs = p.seq, !.rcv_lsa = p.seq]
             x == [flags |-> {"ack", "syn"}, seq |-> iss, data |-> NoData]
             d == Retain(c, x)
  <2>1. /\ ~conn[n].open /\ conn' = [conn EXCEPT ![n] = d]
        /\ NewEpoch(n) /\ UNCHANGED <<user, backlog>>
    BY <1>2 DEF RecvSyn, Take
  <2>2. conn \in [Node -> Conn] /\ conn[n] \in Conn /\ n \in Node /\ sent \in [Node -> Seq(Nat)]
    BY DEF IInv, TypeOK, Node
  <2>3. conn[n].closed_by = {} /\ ~Owned(n)
    BY <2>1, <2>2 DEF IInv, Ownership, Shape, InUse
  <2>4. d.open /\ d.socket /\ d.state = "SYN_RCVD" /\ d.closed_by = {}
    <3> HIDE DEF iss
    <3>1. PICK q : d = c \/ d = [c EXCEPT !.tx_queue = q]
      <4> HIDE DEF c, x
      <4> QED  BY DEF Retain
    <3>2. c.open /\ c.socket /\ c.state = "SYN_RCVD" /\ c.closed_by = {}
      BY <2>2, <2>3 DEF Conn
    <3>3. [c EXCEPT !.tx_queue = q].open = c.open
          /\ [c EXCEPT !.tx_queue = q].socket = c.socket
          /\ [c EXCEPT !.tx_queue = q].state = c.state
          /\ [c EXCEPT !.tx_queue = q].closed_by = c.closed_by
      BY <2>2 DEF Conn
    <3> HIDE DEF c, d
    <3> QED  BY <3>1, <3>2, <3>3
  <2> HIDE DEF d
  <2>5. conn'[n] = d /\ \A m \in Node : m # n => conn'[m] = conn[m]
    BY <2>1, <2>2
  <2>6. Ownership'
    <3>1. \A m \in Node : Owned(m)' <=> Owned(m)
      BY <2>1 DEF Owned
    <3> QED  BY <2>1, <2>3, <2>4, <2>5, <3>1 DEF IInv, Ownership, Shape, InUse, InRouter
  <2>7. Started'
    <3>1. \A s \in Seq(Nat) : Append(s, 0) # <<>>
      BY AppendProperties
    <3> QED  BY <2>1, <2>2, <2>5, <3>1 DEF NewEpoch, IInv, Started
  <2> QED  BY <2>6, <2>7
<1> QED  BY <1>1, <1>2 DEF RecvUnknown, RecvNoSocket, RecvNoSyn, RecvNoSlot

\* The packets of the handshake keep the invariant.
LEMMA OwnershipHandshake ==
  ASSUME IInv, NEW p \in net, RecvHandshake(p)
  PROVE  Started' /\ Ownership'
<1>1. \A n \in Node : conn[n] \in Conn /\ Shape(n, conn[n])
  BY DEF IInv, TypeOK, Ownership
<1>2. "client" \in Node /\ "server" \in Node /\ UNCHANGED <<user, backlog, sent>>
  BY DEF Node, RecvHandshake, RecvSynAck, RecvHalfOpen, RecvBacklogFull, hist
<1>3. CASE RecvSynAck(p)
  <2> DEFINE n == "client"
             c == [conn[n] EXCEPT !.state = "OPEN", !.rcv_cur = p.seq,
                     !.rcv_irs = p.seq, !.rcv_lsa = p.seq,
                     !.snd_una = Mod16(p.ack + 1)]
  <2>1. conn' = [conn EXCEPT ![n] = c] /\ conn[n].open /\ conn[n].state = "SYN_SENT"
    BY <1>3 DEF RecvSynAck, Take
  <2>2. conn[n] \in Conn /\ Shape(n, conn[n])
    BY <1>1, <1>2
  <2>3. /\ c.open = conn[n].open /\ c.socket = conn[n].socket
        /\ c.closed_by = conn[n].closed_by /\ c.state = "OPEN"
    BY <2>2 DEF Conn
  <2> HIDE DEF c
  <2>4. Kept(n, conn[n], c)
    BY <2>1, <2>2, <2>3 DEF Kept, Shape, InUse, InRouter
  <2> QED  BY <1>2, <2>1, <2>4, RouterStep
<1>4. CASE RecvHalfOpen(p)
  <2> DEFINE n == "client"
  <2>1. conn' = [conn EXCEPT ![n] = conn[n]]
    BY <1>4 DEF RecvHalfOpen, Take
  <2>2. Kept(n, conn[n], conn[n])
    BY <1>1, <1>2, SameKept DEF Same
  <2> QED  BY <1>2, <2>1, <2>2, RouterStep
<1>5. CASE RecvBacklogFull(p)
  <2> DEFINE n == "server"
  <2>1. conn' = [conn EXCEPT ![n] = DiscardClose(conn[n])] /\ conn[n].open
    BY <1>5 DEF RecvBacklogFull, Take, Segment, Synced
  <2>2. Kept(n, conn[n], DiscardClose(conn[n]))
    BY <1>1, <1>2, <2>1, DiscardCloseKept
  <2> QED  BY <1>2, <2>1, <2>2, RouterStep
<1> QED  BY <1>3, <1>4, <1>5 DEF RecvHandshake

\* Packets that are rejected, and resets, keep the invariant.
LEMMA OwnershipInvalid ==
  ASSUME IInv, NEW n \in Node, NEW p \in net,
         \/ RecvRst(n, p)
         \/ RecvCloseWait(n, p)
         \/ RecvSynAgain(n, p)
         \/ RecvOutsideWindow(n, p)
         \/ RecvBadAck(n, p)
  PROVE  Started' /\ Ownership'
<1> DEFINE c == conn[n]
<1>1. c \in Conn /\ Shape(n, c) /\ Mod16(p.ack + 1) \in SeqNr
  BY PacketFields DEF IInv, TypeOK, Ownership
<1>2. c.open /\ UNCHANGED <<user, backlog, sent>>
  BY DEF RecvRst, RecvCloseWait, RecvSynAgain, RecvOutsideWindow, RecvBadAck,
         Segment, Synced, hist
<1>3. Kept(n, c, c) /\ Kept(n, c, DiscardClose(c))
  BY <1>1, <1>2, SameKept, DiscardCloseKept DEF Same
<1>4. SUFFICES \E d : conn' = [conn EXCEPT ![n] = d] /\ Kept(n, c, d)
  BY <1>2, RouterStep
<1> DEFINE u == [c EXCEPT !.snd_una = Mod16(p.ack + 1)]
<1>5. u \in Conn /\ Same(c, u)
  BY <1>1 DEF Same, Conn
<1>6. CASE RecvRst(n, p)
  <2> DEFINE v == IF "ack" \in p.flags THEN u ELSE c
             w == [Acked(v) EXCEPT !.state = "CLOSE_WAIT"]
  <2>1. \/ conn' = [conn EXCEPT ![n] = DiscardClose(v)]
        \/ conn' = [conn EXCEPT ![n] = DiscardClose(w)]
        \/ conn' = [conn EXCEPT ![n] = v]
    BY <1>6 DEF RecvRst, Take
  <2>2. v \in Conn /\ Same(c, v)
    BY <1>1, <1>5 DEF Same
  <2> HIDE DEF v
  <2>3. Kept(n, c, v) /\ Kept(n, v, DiscardClose(v))
    BY <1>1, <1>2, <2>2, SameKept, DiscardCloseKept DEF Same, Kept
  <2>4. /\ w \in Conn /\ w.open = c.open /\ w.socket = c.socket
        /\ w.closed_by = c.closed_by /\ w.state = "CLOSE_WAIT"
    <3>1. Acked(v) \in Conn /\ Same(v, Acked(v))
      BY <2>2, AckedType, SameUpdates
    <3> QED  BY <2>2, <3>1 DEF Same, Conn, State
  <2> HIDE DEF w
  <2>5. Kept(n, c, w)
    BY <1>1, <1>2, <2>4 DEF Kept, Shape, InUse, InRouter
  <2>6. Kept(n, w, DiscardClose(w))
    BY <1>2, <2>4, <2>5, DiscardCloseKept DEF Kept
  <2> QED  BY <2>1, <2>3, <2>5, <2>6, KeptTrans
<1>7. CASE RecvCloseWait(n, p)
  <2>1. conn' = [conn EXCEPT ![n] = Acked(u)] \/ conn' = [conn EXCEPT ![n] = c]
    BY <1>7 DEF RecvCloseWait, Take
  <2>2. Same(c, Acked(u))
    BY <1>5, SameUpdates DEF Same
  <2> QED  BY <1>1, <1>3, <2>1, <2>2, SameKept
<1>8. CASE RecvSynAgain(n, p)  BY <1>3, <1>8 DEF RecvSynAgain, Take
<1>9. CASE RecvOutsideWindow(n, p)
  <2> DEFINE v == [c EXCEPT !.rcv_lsa = c.rcv_irs]
  <2>1. \/ \E x : conn' = [conn EXCEPT ![n] = Retain(v, x)]
        \/ conn' = [conn EXCEPT ![n] = Acked(c)]
    BY <1>9 DEF RecvOutsideWindow, Take
  <2>2. v \in Conn /\ Same(c, v)
    BY <1>1 DEF Same, Conn
  <2> HIDE DEF v
  <2>3. Same(c, Acked(c)) /\ \A x : Same(c, Retain(v, x))
    BY <1>1, <2>2, SameUpdates DEF Same
  <2> QED  BY <1>1, <2>1, <2>3, SameKept
<1>10. CASE RecvBadAck(n, p)  BY <1>3, <1>10 DEF RecvBadAck, Take
<1> QED  BY <1>6, <1>7, <1>8, <1>9, <1>10

\* A packet that passes all checks leaves the connection as Opened has it,
\* but for its queues and sequence numbers.
LEMMA ValidSame ==
  ASSUME IInv, NEW n \in Node, NEW p \in net,
         \/ RecvAck(n, p)
         \/ RecvOutOfOrder(n, p)
         \/ RecvQueueFull(n, p)
         \/ RecvInOrder(n, p)
  PROVE  \E d : conn' = [conn EXCEPT ![n] = d] /\ Same(Opened(n, p), d)
<1> DEFINE c == Opened(n, p)
<1>1. c \in Conn /\ Same(c, c)
  BY OpenedType DEF IInv, TypeOK, Same
<1>2. CASE RecvAck(n, p)
  <2>1. conn' = [conn EXCEPT ![n] = [c EXCEPT !.tx_queue = {x \in @ : x.seq \notin p.eacks}]]
    BY <1>2 DEF RecvAck, Take
  <2>2. \A q : Same(c, [c EXCEPT !.tx_queue = q])
    BY <1>1 DEF Same, Conn
  <2> QED  BY <2>1, <2>2
<1>3. CASE RecvOutOfOrder(n, p)
  <2> DEFINE d == [c EXCEPT !.rx_queue = @ \cup {[seq |-> p.seq, data |-> p.data]}]
  <2>1. \/ conn' = [conn EXCEPT ![n] = Acked(d)]
        \/ \E late : conn' = [conn EXCEPT ![n] = CheckAck(c, late)]
    BY <1>3 DEF RecvOutOfOrder, Take
  <2>2. Same(c, Acked(d))
    BY <1>1 DEF Same, Acked, Conn
  <2> QED  BY <1>1, <2>1, <2>2, SameUpdates
<1>4. CASE RecvQueueFull(n, p)
  BY <1>1, <1>4 DEF RecvQueueFull, Take
<1>5. CASE RecvInOrder(n, p)
  <2> DEFINE d == [c EXCEPT !.in_queue = Append(@, p.data), !.rcv_cur = p.seq]
  <2>1. PICK late, r, k : conn' = [conn EXCEPT ![n] = Flushed(CheckAck(d, late), r, k)]
    BY <1>5, ZenonT(60) DEF RecvInOrder, Take
  <2>2. Same(c, d) /\ d.state = c.state
    BY <1>1 DEF Same, Conn
  <2>3. Same(c, CheckAck(d, late))
    BY <1>1, <2>2 DEF Same, CheckAck, Acked, Conn
  <2>4. Same(CheckAck(d, late), Flushed(CheckAck(d, late), r, k))
    BY <1>1 DEF Same, Flushed, CheckAck, Acked, Conn
  <2> QED  BY <2>1, <2>3, <2>4 DEF Same
<1> QED  BY <1>2, <1>3, <1>4, <1>5

\* A valid packet on an open connection keeps the invariant.
LEMMA OwnershipValid ==
  ASSUME IInv, NEW n \in Node, NEW p \in net,
         \/ RecvAck(n, p)
         \/ RecvOutOfOrder(n, p)
         \/ RecvQueueFull(n, p)
         \/ RecvInOrder(n, p)
  PROVE  Started' /\ Ownership'
<1> DEFINE c == conn[n]
<1>1. /\ c \in Conn /\ Shape(n, c) /\ conn \in [Node -> Conn]
      /\ Opened(n, p) \in Conn /\ backlog \in BOOLEAN
  BY OpenedType DEF IInv, TypeOK, Ownership
<1>2. /\ c.open /\ c.state \in {"SYN_RCVD", "OPEN"}
      /\ backlog' = (backlog \/ c.state = "SYN_RCVD")
      /\ UNCHANGED <<user, sent>>
  BY DEF RecvAck, RecvOutOfOrder, RecvQueueFull, RecvInOrder, Valid, Segment, Synced,
         Offer, hist
<1>3. PICK d : conn' = [conn EXCEPT ![n] = d] /\ Same(Opened(n, p), d)
  BY ValidSame
<1>4. d.open = c.open /\ d.socket = FALSE /\ d.state = "OPEN" /\ d.closed_by = {}
  <2>1. /\ Opened(n, p).open = c.open /\ Opened(n, p).socket = FALSE
        /\ Opened(n, p).state = "OPEN" /\ Opened(n, p).closed_by = c.closed_by
    BY <1>1 DEF Opened, Conn
  <2>2. c.closed_by = {}
    BY <1>1, <1>2 DEF Shape
  <2> QED  BY <1>2, <1>3, <2>1, <2>2 DEF Same
<1>5. CASE c.state = "OPEN"
  <2>1. Same(c, d)
    <3>1. c.socket = FALSE /\ c.closed_by = {}
      BY <1>1, <1>5 DEF Shape, Conn
    <3> QED  BY <1>4, <1>5, <3>1 DEF Same
  <2>2. backlog' = backlog
    <3>1. ~(c.state = "SYN_RCVD")
      BY <1>5
    <3>2. backlog' = (backlog \/ FALSE)
      BY <1>2, <3>1
    <3> QED  BY <1>1, <3>2
  <2> QED  BY <1>1, <1>2, <1>3, <2>1, <2>2, SameKept, RouterStep
\* The user gets the handle: it had none while the socket was set.
<1>6. CASE c.state = "SYN_RCVD"
  <2>1. n = "server" /\ ~Owned(n) /\ backlog'
    BY <1>1, <1>2, <1>6 DEF Shape, IInv, Ownership, InUse
  <2>2. /\ conn'[n] = d
        /\ \A m \in Node : m # n => conn'[m] = conn[m] /\ (Owned(m)' <=> Owned(m))
        /\ Owned(n)'
    BY <1>1, <1>2, <1>3, <2>1 DEF Owned
  <2>3. Started'
    BY <1>2, <2>2 DEF IInv, Started
  <2>4. Shape(n, d) /\ InUse(d)
    BY <1>2, <1>4, <2>1 DEF Shape, InUse
  <2>5. user'["server"] = "idle"
    BY <1>2, <2>1 DEF Owned
  <2> QED  BY <2>2, <2>3, <2>4, <2>5 DEF IInv, Ownership
<1> QED  BY <1>2, <1>5, <1>6

\* The loss of a packet keeps the invariant.
LEMMA LoseStep ==
  ASSUME IInv, NEW p \in net, Lose(p)
  PROVE  IInv'
BY DEF Lose, IInv, TypeOK, Started, Ownership, Owned, hist

-----------------------------------------------------------------------------
(***************************************************************************)
(* The inductive invariant and the theorems.                               *)
(***************************************************************************)
LEMMA InitIInv == Init => IInv
<1> SUFFICES ASSUME Init PROVE IInv
  OBVIOUS
<1>1. TypeOK
  <2>1. <<>> \in Seq(Data) /\ <<>> \in Seq(Nat) /\ 0 \in SeqNr
    BY SeqNrLemma
  <2> QED  BY <2>1 DEF Init, TypeOK, Conn, State
<1>2. Started /\ Ownership
  BY DEF Init, Started, Ownership, Shape, Owned, InUse, InRouter, Node
<1> QED  BY <1>1, <1>2 DEF IInv

\* Every step keeps the invariant.
LEMMA NextIInv ==
  ASSUME RdpAssumption, IInv, [Next]_vars
  PROVE  IInv'
<1>1. TypeOK /\ Started
  BY DEF IInv
<1>2. CASE Connecting
  BY <1>1, <1>2, ConnectingType, OwnershipConnecting DEF IInv
<1>3. CASE Accept
  BY <1>3, OwnershipAccept DEF IInv
<1>4. ASSUME NEW n \in Node, User(n) PROVE IInv'
  BY <1>1, <1>4, UserType, OwnershipUser DEF IInv
<1>5. ASSUME NEW n \in Node, Timer(n) PROVE IInv'
  BY <1>1, <1>5, TimerType, OwnershipTimer DEF IInv
<1>6. ASSUME NEW p \in net, Arrive(p) PROVE IInv'
  <2>1. CASE RecvUnknown(p)
    BY <1>1, <2>1, RecvUnknownType, OwnershipUnknown DEF IInv
  <2>2. CASE RecvHandshake(p)
    BY <1>1, <2>2, RecvHandshakeType, OwnershipHandshake DEF IInv
  <2>3. ASSUME NEW n \in Node, Recv(n, p) PROVE IInv'
    <3>1. CASE \/ RecvRst(n, p) \/ RecvCloseWait(n, p) \/ RecvSynAgain(n, p)
               \/ RecvOutsideWindow(n, p) \/ RecvBadAck(n, p)
      BY <1>1, <3>1, RecvInvalidType, OwnershipInvalid DEF IInv
    <3>2. CASE \/ RecvAck(n, p) \/ RecvOutOfOrder(n, p)
               \/ RecvQueueFull(n, p) \/ RecvInOrder(n, p)
      BY <1>1, <3>2, RecvValidType, OwnershipValid DEF IInv
    <3> QED  BY <2>3, <3>1, <3>2 DEF Recv
  <2> QED  BY <1>6, <2>1, <2>2, <2>3 DEF Arrive
<1>7. ASSUME NEW p \in net, Lose(p) PROVE IInv'
  BY <1>7, LoseStep
<1>8. CASE UNCHANGED vars
  BY <1>8 DEF IInv, TypeOK, Started, Ownership, Owned, vars
<1> QED  BY <1>2, <1>3, <1>4, <1>5, <1>6, <1>7, <1>8 DEF Next

\* The inductive invariant holds in every reachable state.
THEOREM Invariance == Spec => []IInv
<1>1. Init => IInv
  BY InitIInv
<1>2. IInv /\ [Next]_vars => IInv'
  BY NextIInv, RdpAssumption
<1> QED  BY <1>1, <1>2, PTL DEF Spec

\* Every member keeps its type; in particular the sequence numbers stay within
\* the 16 bits the code declares.
THEOREM TypeCorrect == Spec => []TypeOK
<1>1. IInv => TypeOK
  BY DEF IInv
<1> QED  BY <1>1, Invariance, PTL

\* A connection slot (csp_conn_t) is never returned to the pool while a user
\* task holds its handle or will be given it by csp_accept.
THEOREM HandlesValid == Spec => []HandleValid
<1>1. IInv => HandleValid
  BY DEF IInv, Ownership, HandleValid, InUse
<1> QED  BY <1>1, Invariance, PTL

\* A slot in use that no user task will close is one that the router closes:
\* its user is done with it, or has not seen it yet.
THEOREM NoOrphans == Spec => []NoOrphan
<1>1. IInv => NoOrphan
  BY DEF IInv, Ownership, NoOrphan, InRouter
<1> QED  BY <1>1, Invariance, PTL

-----------------------------------------------------------------------------
(***************************************************************************)
(* The inductive invariant: what a connection and the packets on their way *)
(* have to do with what was submitted.  n is a node, s the history sent[n] *)
(* and c its connection; m is the peer, t its history.                     *)
(***************************************************************************)
\* The sequence number of the k-th message after the e-th initial number.
Number(n, e, k) == Mod16(Rand[n][e] + k)

IsMessage(n, s, seq, d) ==
    /\ d[1] \in 1 .. Len(s)
    /\ d[2] \in 1 .. s[d[1]]
    /\ seq = Number(n, d[1], d[2])

\* A packet or a queued element that n has sent.
Genuine(n, s, x) ==
    /\ x.data # NoData => IsMessage(n, s, x.seq, x.data)
    /\ "syn" \in x.flags => \E e \in 1 .. Len(s) : x.seq = Rand[n][e]

Waiting(m, t, x) == x.data # NoData /\ IsMessage(m, t, x.seq, x.data)

Numbered(n, s, c) ==
    /\ c.snd_iss = Rand[n][Len(s)]
    /\ c.snd_nxt = Number(n, Len(s), s[Len(s)] + 1)

Count(c) == Mod16(c.rcv_cur - c.rcv_irs)

\* a was given to the user and l was dropped, together the messages that
\* rcv_cur has passed.
Passed(m, t, c, e, a, l) ==
    /\ c.rcv_irs = Rand[m][e]
    /\ Count(c) <= t[e]
    /\ Elements(a) \cup l = {<<e, k>> : k \in 1 .. Count(c)}
    /\ l = {} => a = [i \in 1 .. Count(c) |-> <<e, i>>]

Got(m, t, c, a, l) == \E e \in 1 .. Len(t) : Passed(m, t, c, e, a, l)

InSync == {"SYN_RCVD", "OPEN"}

Ordered(a) ==
    \A i, j \in DOMAIN a : i < j => a[i][1] = a[j][1] /\ a[i][2] < a[j][2]

\* One end of the connection.
End(n, m, s, t, c, a, l) ==
    /\ \A x \in c.tx_queue : Genuine(n, s, x)
    /\ \A x \in c.rx_queue : Waiting(m, t, x)
    /\ c.open => Numbered(n, s, c)
    /\ c.state \in InSync => Got(m, t, c, a, l)
    /\ c.state = "SYN_SENT" => a = <<>> /\ l = {}
    /\ Ordered(a)

Ends == \A n \in Node :
    End(n, Peer(n), sent[n], sent[Peer(n)], conn[n], accepted[n], lost[n])

Packets == \A p \in net : Genuine(Peer(p.dst), sent[Peer(p.dst)], p)

Bounds == \A n \in Node :
    /\ Len(sent[n]) <= Len(Rand[n])
    /\ \A e \in 1 .. Len(sent[n]) : sent[n][e] <= MaxSend[n]

JInv == IInv /\ Bounds /\ Packets /\ Ends

-----------------------------------------------------------------------------
(***************************************************************************)
(* Changes that leave the sequence numbers of a connection alone.          *)
(***************************************************************************)
\* d differs from c in nothing the invariant needs, but for elements removed
\* from its queues and the end of the connection.
Quiet(c, d) ==
    /\ d.tx_queue \subseteq c.tx_queue /\ d.rx_queue \subseteq c.rx_queue
    /\ d.snd_iss = c.snd_iss /\ d.snd_nxt = c.snd_nxt
    /\ d.rcv_irs = c.rcv_irs /\ d.rcv_cur = c.rcv_cur
    /\ d.open => c.open
    /\ d.state \in InSync => c.state \in InSync
    /\ d.state = "SYN_SENT" => c.state = "SYN_SENT"

\* Quiet changes can follow each other.
LEMMA QuietTrans ==
  ASSUME NEW c, NEW d, NEW e, Quiet(c, d), Quiet(d, e)
  PROVE  Quiet(c, e)
BY DEF Quiet

\* A connection that is not changed is changed quietly.
LEMMA QuietSelf == \A c : Quiet(c, c)
BY DEF Quiet

\* A quiet change keeps the invariant.
LEMMA QuietEnd ==
  ASSUME NEW n, NEW m, NEW s, NEW t, NEW c, NEW a, NEW l, End(n, m, s, t, c, a, l),
         NEW d, Quiet(c, d)
  PROVE  End(n, m, s, t, d, a, l)
BY DEF End, Quiet, Numbered, Got, Passed, Count

\* Acknowledgements and the member snd_una change quietly.
LEMMA QuietUpdates ==
  ASSUME NEW c \in Conn
  PROVE  /\ Quiet(c, Acked(c))
         /\ \A late : Quiet(c, CheckAck(c, late))
         /\ \A u : Quiet(c, [c EXCEPT !.snd_una = u])
         /\ \A u : Quiet(c, [c EXCEPT !.rcv_lsa = u])
         /\ Quiet(c, EnqueueNull(c))
         /\ \A q \in SUBSET c.tx_queue : Quiet(c, [c EXCEPT !.tx_queue = q])
         /\ Quiet(c, [c EXCEPT !.in_queue = Tail(@)])
BY DEF Quiet, Acked, CheckAck, EnqueueNull, Conn

\* Closing changes quietly (csp_rdp_close_internal, csp_conn_close).
LEMMA QuietClose ==
  ASSUME NEW c \in Conn, NEW by \in SUBSET ByAll
  PROVE  Quiet(c, RdpClose(c, by)) /\ Quiet(c, ConnClose(c, by))
<1>1. \A d \in Conn, q \in {"CLOSED", "CLOSE_WAIT"} : \A b :
         Quiet(d, [d EXCEPT !.state = q, !.closed_by = b])
  BY DEF Quiet, Conn, InSync
<1>2. Acked(c) \in Conn /\ Quiet(c, Acked(c))
  BY AckedType, QuietUpdates
<1>3. Quiet(c, RdpClose(c, by))
  BY <1>1, <1>2, QuietSelf, QuietTrans DEF RdpClose
<1>4. \A d \in Conn : \A q : Quiet(d, [d EXCEPT !.open = FALSE, !.in_queue = q,
                                           !.tx_queue = {}, !.rx_queue = {}])
  BY DEF Quiet, Conn
<1>5. RdpClose(c, by) \in Conn
  BY RdpCloseType
<1> QED  BY <1>3, <1>4, <1>5, QuietSelf, QuietTrans DEF ConnClose

\* The discard_close exit of csp_rdp_new_packet changes quietly.
LEMMA QuietDiscardClose ==
  ASSUME NEW c \in Conn
  PROVE  Quiet(c, DiscardClose(c))
<1>1. {"PROTOCOL"} \in SUBSET ByAll /\ {"PROTOCOL", "USERSPACE"} \in SUBSET ByAll
  BY DEF ByAll
<1>2. Quiet(c, ConnClose(c, {"PROTOCOL"})) /\ Quiet(c, ConnClose(c, {"PROTOCOL", "USERSPACE"}))
  BY <1>1, QuietClose
<1>3. ConnClose(c, {"PROTOCOL"}) \in Conn
  BY <1>1, ConnCloseType DEF Node
<1>4. Quiet(ConnClose(c, {"PROTOCOL"}), EnqueueNull(ConnClose(c, {"PROTOCOL"})))
  BY <1>3, QuietUpdates
<1> QED  BY <1>2, <1>4, QuietTrans DEF DiscardClose

\* So does a connection attempt that fails.
LEMMA QuietFailedConnect ==
  ASSUME NEW c \in Conn
  PROVE  Quiet(c, FailedConnect(c))
<1>1. {"USERSPACE"} \in SUBSET ByAll /\ {"PROTOCOL"} \in SUBSET ByAll
  BY DEF ByAll
<1> DEFINE d == [c EXCEPT !.state = "CLOSE_WAIT", !.closed_by = @ \cup {"PROTOCOL"}]
<1>2. d \in Conn /\ Quiet(c, d)
  BY <1>1 DEF Quiet, Conn, State, InSync
<1> HIDE DEF d
<1>3. Quiet(d, ConnClose(d, {"USERSPACE"})) /\ Quiet(c, ConnClose(c, {"USERSPACE"}))
  BY <1>1, <1>2, QuietClose
<1> QED  BY <1>2, <1>3, QuietTrans DEF FailedConnect, d

\* Passing all checks opens the connection, which is in sync already.
LEMMA QuietOpened ==
  ASSUME NEW n \in Node, NEW p, conn[n] \in Conn, conn[n].state \in InSync
  PROVE  Quiet(conn[n], Opened(n, p))
BY DEF Quiet, Opened, Conn, InSync

-----------------------------------------------------------------------------
(***************************************************************************)
(* Histories only grow.                                                    *)
(***************************************************************************)
Grows(s, t) == Len(s) <= Len(t) /\ \A e \in 1 .. Len(s) : s[e] <= t[e]

\* A history that does not change has grown.
LEMMA GrowsSelf == \A s \in Seq(Nat) : Grows(s, s)
BY DEF Grows

\* What was submitted stays submitted.
LEMMA GenuineGrows ==
  ASSUME NEW n, NEW s \in Seq(Nat), NEW t \in Seq(Nat), Grows(s, t)
  PROVE  /\ \A q, d : IsMessage(n, s, q, d) => IsMessage(n, t, q, d)
         /\ \A x : Genuine(n, s, x) => Genuine(n, t, x)
         /\ \A x : Waiting(n, s, x) => Waiting(n, t, x)
<1>1. \A q, d : IsMessage(n, s, q, d) => IsMessage(n, t, q, d)
  <2> SUFFICES ASSUME NEW q, NEW d, IsMessage(n, s, q, d) PROVE IsMessage(n, t, q, d)
    OBVIOUS
  <2> DEFINE e == d[1]
             k == d[2]
  <2>1. e \in 1 .. Len(s) /\ k \in 1 .. s[e] /\ q = Number(n, e, k)
    BY DEF IsMessage
  <2> SUFFICES e \in 1 .. Len(t) /\ k \in 1 .. t[e] /\ q = Number(n, e, k)
    BY DEF IsMessage
  <2> HIDE DEF e, k
  <2>2. Len(s) \in Nat /\ Len(t) \in Nat /\ Len(s) <= Len(t)
    BY DEF Grows
  <2>3. e \in 1 .. Len(t)
    BY <2>1, <2>2
  <2>4. s[e] \in Nat /\ t[e] \in Nat /\ s[e] <= t[e]
    BY <2>1, <2>3 DEF Grows
  <2> QED  BY <2>1, <2>3, <2>4
<1>2. \A e : e \in 1 .. Len(s) => e \in 1 .. Len(t)
  BY DEF Grows
<1> QED  BY <1>1, <1>2 DEF Genuine, Waiting

\* The number of messages received is a 16-bit number.
LEMMA CountType == \A c \in Conn : Count(c) \in SeqNr
<1> TAKE c \in Conn
<1>1. c.rcv_cur \in Int /\ c.rcv_irs \in Int
  BY SeqNrLemma DEF Conn
<1>2. c.rcv_cur - c.rcv_irs \in Int
  BY <1>1
<1> QED  BY <1>2, Mod16Type DEF Count

\* The messages of the peer's history.
LEMMA EndGrows ==
  ASSUME NEW n, NEW m, NEW s, NEW t \in Seq(Nat), NEW c \in Conn, NEW a, NEW l,
         End(n, m, s, t, c, a, l), NEW u \in Seq(Nat), Grows(t, u)
  PROVE  End(n, m, s, u, c, a, l)
<1>1. \A x : Waiting(m, t, x) => Waiting(m, u, x)
  BY GenuineGrows
<1>2. Got(m, t, c, a, l) => Got(m, u, c, a, l)
  <2> SUFFICES ASSUME Got(m, t, c, a, l) PROVE Got(m, u, c, a, l)
    OBVIOUS
  <2>1. PICK e \in 1 .. Len(t) : Passed(m, t, c, e, a, l)
    BY DEF Got
  <2>2. e \in 1 .. Len(u) /\ t[e] <= u[e] /\ t[e] \in Nat /\ u[e] \in Nat
    BY DEF Grows
  <2>3. Count(c) \in Int
    BY CountType, SeqNrLemma
  <2>4. Count(c) <= t[e]
    BY <2>1 DEF Passed
  <2>5. Count(c) <= u[e]
    BY <2>2, <2>3, <2>4
  <2>6. Passed(m, u, c, e, a, l)
    BY <2>1, <2>5, Zenon DEF Passed
  <2> QED  BY <2>2, <2>6 DEF Got
<1> QED  BY <1>1, <1>2 DEF End

-----------------------------------------------------------------------------
(***************************************************************************)
(* The parts of a state.                                                   *)
(***************************************************************************)
\* What the lemmas below use of the invariant at node n.
LEMMA Parts ==
  ASSUME JInv, NEW n \in Node
  PROVE  /\ Peer(n) \in Node /\ conn[n] \in Conn
         /\ sent[n] \in Seq(Nat) /\ sent[Peer(n)] \in Seq(Nat)
         /\ Grows(sent[n], sent[n])
         /\ End(n, Peer(n), sent[n], sent[Peer(n)], conn[n], accepted[n], lost[n])
         /\ conn[n].open => Len(sent[n]) \in 1 .. Len(sent[n])
         /\ Shape(n, conn[n])
<1>1. Peer(n) \in Node
  BY PeerType
<1>2. sent[n] \in Seq(Nat) /\ sent[Peer(n)] \in Seq(Nat) /\ conn[n] \in Conn
  BY <1>1 DEF JInv, IInv, TypeOK
<1>3. conn[n].open => sent[n] # <<>>
  BY DEF JInv, IInv, Started
<1>4. sent[n] # <<>> => Len(sent[n]) \in 1 .. Len(sent[n])
  BY <1>2, EmptySeq, LenProperties
<1> QED  BY <1>1, <1>2, <1>3, <1>4, GrowsSelf DEF JInv, Ends, IInv, Ownership

\* The packets M that n sends are its own.
Sends(n, s, M) == \A q \in M : q.dst = Peer(n) /\ Genuine(n, s, q)

\* Control messages without SYN carry nothing, a SYN/ACK the initial number.
LEMMA CmpGenuine ==
  ASSUME NEW n, NEW s, NEW flags, "syn" \notin flags, NEW seq, NEW ack
  PROVE  Sends(n, s, {Cmp(n, flags, seq, ack)})
BY DEF Sends, Cmp, Genuine

\* So do the acknowledgements and resets.
LEMMA MsgGenuine ==
  ASSUME NEW n, NEW s, NEW c
  PROVE  /\ Sends(n, s, {AckMsg(n, c)}) /\ Sends(n, s, {RstMsg(n, c)})
         /\ Sends(n, s, {RstAckMsg(n, c)}) /\ Sends(n, s, {EackMsg(n, c)})
         /\ \A late : Sends(n, s, CheckAckOut(n, c, late))
         /\ Sends(n, s, CloseOut(n, c))
         /\ Sends(n, s, {})
BY DEF Sends, Cmp, Genuine, AckMsg, RstMsg, RstAckMsg, EackMsg, CheckAckOut, CloseOut

\* The peer of the peer.
LEMMA PeerPeer == \A n \in Node : Peer(Peer(n)) = n /\ Peer(n) # n /\
                    \A m \in Node : m # n => m = Peer(n)
BY PeerLemma DEF Node

\* What is on the link after a step of n that sends M.
LEMMA PacketsStep ==
  ASSUME JInv, NEW n \in Node, NEW M, net' \subseteq net \cup M,
         Sends(n, sent'[n], M), sent' \in [Node -> Seq(Nat)],
         \A m \in Node : Grows(sent[m], sent'[m])
  PROVE  Packets'
<1> SUFFICES ASSUME NEW p \in net' PROVE Genuine(Peer(p.dst), sent'[Peer(p.dst)], p)
  BY DEF Packets
<1>1. CASE p \in net
  <2>1. p.dst \in Node /\ Genuine(Peer(p.dst), sent[Peer(p.dst)], p)
    BY <1>1, PacketFields DEF JInv, IInv, TypeOK, Packets
  <2> DEFINE m == Peer(p.dst)
  <2>2. m \in Node
    BY <2>1, PeerType
  <2>3. sent[m] \in Seq(Nat) /\ sent'[m] \in Seq(Nat) /\ Grows(sent[m], sent'[m])
    BY <2>2 DEF JInv, IInv, TypeOK
  <2> QED  BY <2>1, <2>3, GenuineGrows
<1>2. CASE p \in M
  BY <1>2, PeerPeer DEF Sends
<1> QED  BY <1>1, <1>2

-----------------------------------------------------------------------------
(***************************************************************************)
(* Steps that start no connection and submit or deliver nothing.           *)
(***************************************************************************)
\* The end n becomes d, as the other parts stay: the invariant is kept.
LEMMA EndStep ==
  ASSUME JInv, NEW n \in Node, NEW d, conn' = [conn EXCEPT ![n] = d],
         End(n, Peer(n), sent[n], sent[Peer(n)], d, accepted[n], lost[n]),
         NEW M, net' \subseteq net \cup M, Sends(n, sent[n], M), UNCHANGED hist
  PROVE  Bounds' /\ Packets' /\ Ends'
<1>1. UNCHANGED <<sent, accepted, lost>>
  BY DEF hist
<1>2. Bounds'
  BY <1>1 DEF JInv, Bounds
<1>3. Packets'
  <2>1. sent' \in [Node -> Seq(Nat)] /\ \A m \in Node : Grows(sent[m], sent'[m])
    BY <1>1, GrowsSelf DEF JInv, IInv, TypeOK
  <2> QED  BY <1>1, <2>1, PacketsStep
<1>4. Ends'
  <2>1. conn'[n] = d /\ \A m \in Node : m # n => conn'[m] = conn[m]
    BY DEF JInv, IInv, TypeOK
  <2>2. \A m \in Node :
          End(m, Peer(m), sent[m], sent[Peer(m)], conn'[m], accepted[m], lost[m])
    BY <2>1 DEF JInv, Ends
  <2> QED  BY <1>1, <2>2 DEF Ends
<1> QED  BY <1>2, <1>3, <1>4

\* A quiet step.
LEMMA QuietStep ==
  ASSUME JInv, NEW n \in Node, NEW d, conn' = [conn EXCEPT ![n] = d], Quiet(conn[n], d),
         NEW M, net' \subseteq net \cup M, Sends(n, sent[n], M), UNCHANGED hist
  PROVE  Bounds' /\ Packets' /\ Ends'
<1>1. End(n, Peer(n), sent[n], sent[Peer(n)], conn[n], accepted[n], lost[n])
  BY Parts
<1>2. End(n, Peer(n), sent[n], sent[Peer(n)], d, accepted[n], lost[n])
  BY <1>1, QuietEnd
<1> QED  BY <1>2, EndStep

\* Nothing changes but the link, which loses packets.
LEMMA IdleStep ==
  ASSUME JInv, UNCHANGED <<conn, hist>>, net' \subseteq net
  PROVE  Bounds' /\ Packets' /\ Ends'
BY DEF JInv, Bounds, Packets, Ends, hist

\* The link carries what was there and what is sent.
LEMMA OnTheLink ==
  ASSUME NEW N, NEW M, NEW p
  PROVE  Transmit(N, M) \subseteq N \cup M /\ Transmit(N \ {p}, M) \subseteq N \cup M
BY DEF Transmit

-----------------------------------------------------------------------------
(***************************************************************************)
(* The router task and the clock.                                          *)
(***************************************************************************)
\* csp_rdp_check_timeouts.
LEMMA TimerStream ==
  ASSUME JInv, NEW n \in Node, Timer(n)
  PROVE  Bounds' /\ Packets' /\ Ends'
<1> DEFINE c == conn[n]
           s == sent[n]
<1>1. c \in Conn /\ s \in Seq(Nat) /\ \A x \in c.tx_queue : Genuine(n, s, x)
  BY Parts DEF End
<1>2. CASE ConnectionTimeout(n)
  <2>1. Quiet(c, ConnClose(c, ByAll)) /\ Sends(n, s, CloseOut(n, c))
    BY <1>1, QuietClose, MsgGenuine
  <2>2. /\ conn' = [conn EXCEPT ![n] = ConnClose(c, ByAll)]
        /\ net' \subseteq net \cup CloseOut(n, c) /\ UNCHANGED hist
    BY <1>2, OnTheLink DEF ConnectionTimeout
  <2> QED  BY <2>1, <2>2, QuietStep
<1>3. CASE CloseWaitTimeout(n)
  <2>1. {"PROTOCOL", "TIMEOUT"} \in SUBSET ByAll
    BY DEF ByAll
  <2>2. Quiet(c, ConnClose(c, {"PROTOCOL", "TIMEOUT"})) /\ Sends(n, s, {})
    BY <1>1, <2>1, QuietClose, MsgGenuine
  <2>3. /\ conn' = [conn EXCEPT ![n] = ConnClose(c, {"PROTOCOL", "TIMEOUT"})]
        /\ net' \subseteq net \cup {} /\ UNCHANGED hist
    BY <1>3 DEF CloseWaitTimeout
  <2> QED  BY <2>2, <2>3, QuietStep
<1>4. CASE MessageTimeout(n)
  <2>1. PICK R \in SUBSET Queued(c), late \in BOOLEAN : Resend(n, R, late)
    BY <1>4 DEF MessageTimeout
  <2> DEFINE d == [c EXCEPT !.tx_queue = Queued(c)]
             acks == c.state = "OPEN" /\ DelayedAcks
             e == IF acks THEN CheckAck(d, late) ELSE d
             M == {TxMsg(n, c, x) : x \in R} \cup
                  IF acks THEN CheckAckOut(n, c, late) ELSE {}
  <2>2. Queued(c) \in SUBSET c.tx_queue /\ d \in Conn
    BY <1>1 DEF Queued, Conn
  <2>3. Quiet(c, d)
    BY <1>1, <2>2, QuietUpdates
  <2>4. conn' = [conn EXCEPT ![n] = e] /\ net' = Transmit(net, M) /\ UNCHANGED hist
    BY <2>1 DEF Resend
  <2>5. Sends(n, s, M)
    <3>1. \A x \in R : Genuine(n, s, x)
      BY <1>1, <2>2
    <3>2. Sends(n, s, {TxMsg(n, c, x) : x \in R})
      BY <3>1 DEF Sends, TxMsg, Genuine
    <3>3. Sends(n, s, CheckAckOut(n, c, late))
      BY MsgGenuine
    <3> QED  BY <3>2, <3>3 DEF Sends
  <2> HIDE DEF d, M
  <2>6. Quiet(c, e)
    BY <2>2, <2>3, QuietUpdates, QuietTrans
  <2>7. net' \subseteq net \cup M
    BY <2>4, OnTheLink
  <2> HIDE DEF e
  <2> QED  BY <2>4, <2>5, <2>6, <2>7, QuietStep
<1> QED  BY <1>2, <1>3, <1>4 DEF Timer

-----------------------------------------------------------------------------
(***************************************************************************)
(* A new connection.                                                       *)
(***************************************************************************)
\* A new initial sequence number extends the history.
LEMMA AppendGrows ==
  ASSUME NEW s \in Seq(Nat)
  PROVE  LET u == Append(s, 0) IN
         /\ u \in Seq(Nat) /\ Grows(s, u)
         /\ Len(u) = Len(s) + 1 /\ u[Len(u)] = 0 /\ Len(u) \in 1 .. Len(u)
         /\ \A e \in 1 .. Len(s) : u[e] = s[e]
         /\ \A e \in 1 .. Len(u) : e = Len(u) \/ e \in 1 .. Len(s)
<1> DEFINE u == Append(s, 0)
<1>1. /\ u \in Seq(Nat) /\ Len(u) = Len(s) + 1 /\ u[Len(s) + 1] = 0
      /\ \A e \in 1 .. Len(s) : u[e] = s[e]
  BY AppendProperties
<1>2. Len(s) \in Nat /\ \A e \in 1 .. Len(s) : s[e] \in Nat
  OBVIOUS
<1> HIDE DEF u
<1>3. Len(u) \in 1 .. Len(u) /\ \A e \in 1 .. Len(u) : e = Len(u) \/ e \in 1 .. Len(s)
  BY <1>1, <1>2
<1>4. Grows(s, u)
  BY <1>1, <1>2 DEF Grows
<1>5. u[Len(u)] = 0
  BY <1>1
<1> QED  BY <1>1, <1>3, <1>4, <1>5 DEF u

\* End n starts a connection, after which d is its connection.
LEMMA StartStep ==
  ASSUME RdpAssumption, JInv, NEW n \in Node, NEW d, conn' = [conn EXCEPT ![n] = d],
         NewEpoch(n), Len(sent[n]) < Len(Rand[n]),
         End(n, Peer(n), Append(sent[n], 0), sent[Peer(n)], d, accepted'[n], lost'[n]),
         \A m \in Node : m # n => accepted'[m] = accepted[m] /\ lost'[m] = lost[m],
         NEW M, net' \subseteq net \cup M, Sends(n, Append(sent[n], 0), M)
  PROVE  Bounds' /\ Packets' /\ Ends'
<1> DEFINE u == Append(sent[n], 0)
<1>1. sent \in [Node -> Seq(Nat)] /\ conn \in [Node -> Conn]
  BY DEF JInv, IInv, TypeOK
<1>2. /\ u \in Seq(Nat) /\ Grows(sent[n], u) /\ Len(u) = Len(sent[n]) + 1
      /\ u[Len(u)] = 0 /\ \A e \in 1 .. Len(sent[n]) : u[e] = sent[n][e]
      /\ \A e \in 1 .. Len(u) : e = Len(u) \/ e \in 1 .. Len(sent[n])
  BY <1>1, AppendGrows
<1>3. sent'[n] = u /\ \A m \in Node : m # n => sent'[m] = sent[m]
  BY <1>1 DEF NewEpoch
<1>4. sent' = [sent EXCEPT ![n] = u]
  BY DEF NewEpoch
<1> HIDE DEF u
<1>5. sent' \in [Node -> Seq(Nat)] /\ \A m \in Node : Grows(sent[m], sent'[m])
  BY <1>1, <1>2, <1>3, <1>4, GrowsSelf
<1>6. Bounds'
  <2> SUFFICES ASSUME NEW m \in Node
               PROVE  /\ Len(sent'[m]) <= Len(Rand[m])
                      /\ \A e \in 1 .. Len(sent'[m]) : sent'[m][e] <= MaxSend[m]
    BY DEF Bounds
  <2>1. /\ Len(sent[m]) <= Len(Rand[m])
        /\ \A e \in 1 .. Len(sent[m]) : sent[m][e] <= MaxSend[m]
    BY DEF JInv, Bounds
  <2>2. CASE m # n  BY <1>3, <2>1, <2>2
  <2>3. CASE m = n
    <3>1. Len(sent[n]) \in Nat /\ Len(Rand[n]) \in Nat /\ MaxSend[n] \in Nat
      BY <1>1 DEF RdpAssumption
    <3>2. Len(u) <= Len(Rand[n])
      BY <1>2, <3>1
    <3>3. \A e \in 1 .. Len(u) : u[e] <= MaxSend[n]
      <4> TAKE e \in 1 .. Len(u)
      <4>1. CASE e = Len(u)  BY <1>2, <3>1, <4>1
      <4>2. CASE e \in 1 .. Len(sent[n])  BY <1>2, <2>1, <2>3, <4>2
      <4> QED  BY <1>2, <4>1, <4>2
    <3> QED  BY <1>3, <2>3, <3>2, <3>3
  <2> QED  BY <2>2, <2>3
<1>7. Packets'
  <2>1. Sends(n, sent'[n], M)
    BY <1>3 DEF u
  <2> QED  BY <1>5, <2>1, PacketsStep
<1>8. Ends'
  <2> SUFFICES ASSUME NEW m \in Node
               PROVE  End(m, Peer(m), sent'[m], sent'[Peer(m)], conn'[m], accepted'[m], lost'[m])
    BY DEF Ends
  <2>1. conn'[n] = d /\ \A k \in Node : k # n => conn'[k] = conn[k]
    BY <1>1
  <2>2. CASE m = n
    <3>1. Peer(n) \in Node /\ Peer(n) # n
      BY PeerType, PeerPeer
    <3> QED  BY <1>3, <2>1, <2>2, <3>1 DEF u
  <2>3. CASE m # n
    <3>1. End(m, Peer(m), sent[m], sent[Peer(m)], conn[m], accepted[m], lost[m])
      BY DEF JInv, Ends
    <3>2. Peer(m) = n /\ conn[m] \in Conn
      BY <1>1, <2>3, PeerPeer
    <3>3. End(m, Peer(m), sent[m], u, conn[m], accepted[m], lost[m])
      BY <1>1, <1>2, <3>1, <3>2, EndGrows
    <3> QED  BY <1>3, <2>1, <2>3, <3>2, <3>3
  <2> QED  BY <2>2, <2>3
<1> QED  BY <1>6, <1>7, <1>8

\* The numbers of the new connection.
LEMMA FirstNumber ==
  ASSUME NEW n \in Node, NEW s \in Seq(Nat), Rand[n][Len(s) + 1] \in SeqNr,
         NEW d, d.snd_iss = Rand[n][Len(s) + 1], d.snd_nxt = Mod16(Rand[n][Len(s) + 1] + 1)
  PROVE  Numbered(n, Append(s, 0), d)
<1> DEFINE u == Append(s, 0)
<1>1. Len(u) = Len(s) + 1 /\ u[Len(u)] = 0
  BY AppendGrows
<1> HIDE DEF u
<1>2. u[Len(u)] + 1 = 1
  BY <1>1
<1> QED  BY <1>1, <1>2 DEF Numbered, Number, u

\* What the queue of retransmissions gets is the element kept.
LEMMA RetainFields ==
  ASSUME NEW c \in Conn, NEW x
  PROVE  /\ Retain(c, x).tx_queue \subseteq c.tx_queue \cup {x}
         /\ \A f \in {"open", "state", "snd_iss", "snd_nxt", "rcv_cur", "rcv_irs", "rx_queue"} :
               Retain(c, x)[f] = c[f]
BY DEF Retain, Conn

\* csp_rdp_connect after the retry label.
LEMMA StartConnectEnd ==
  ASSUME RdpAssumption, JInv, NEW c \in Conn, StartConnect(c),
         \A x \in c.tx_queue : Genuine("client", sent["client"], x),
         \A x \in c.rx_queue : Waiting("server", sent["server"], x),
         accepted'["client"] = <<>>, lost'["client"] = {},
         \A m \in Node : m # "client" => accepted'[m] = accepted[m] /\ lost'[m] = lost[m]
  PROVE  Bounds' /\ Packets' /\ Ends'
<1> DEFINE n == "client"
           s == sent[n]
           u == Append(s, 0)
           iss == Rand[n][Epoch(n) + 1]
           e == [c EXCEPT !.state = "SYN_SENT", !.snd_iss = iss,
                          !.snd_nxt = Mod16(iss + 1), !.snd_una = iss]
           x == [flags |-> {"syn"}, seq |-> iss, data |-> NoData]
           d == Retain(e, x)
           M == {Cmp(n, {"syn"}, iss, 0)}
<1>1. /\ conn' = [conn EXCEPT ![n] = d] /\ net' = Transmit(net, M) /\ NewEpoch(n)
      /\ Len(s) < Len(Rand[n])
  BY DEF StartConnect, Epoch
<1>2. n \in Node /\ s \in Seq(Nat) /\ iss \in SeqNr /\ Mod16(iss + 1) \in SeqNr
  <2>1. n \in Node /\ s \in Seq(Nat)
    BY DEF Node, JInv, IInv, TypeOK
  <2>2. iss \in SeqNr
    BY <1>1, <2>1, RandType DEF JInv, IInv, Epoch
  <2> HIDE DEF iss
  <2> QED  BY <2>1, <2>2, SeqNrLemma
<1>3. iss = Rand[n][Len(s) + 1] /\ Peer(n) = "server"
  BY PeerLemma DEF Epoch
<1> HIDE DEF iss
<1>4. e \in Conn /\ e.tx_queue = c.tx_queue /\ e.rx_queue = c.rx_queue
      /\ e.state = "SYN_SENT" /\ e.snd_iss = iss /\ e.snd_nxt = Mod16(iss + 1)
  BY <1>2 DEF Conn, State
<1> HIDE DEF e, x
<1>5. /\ d.tx_queue \subseteq c.tx_queue \cup {x} /\ d.rx_queue = c.rx_queue
      /\ d.state = "SYN_SENT" /\ d.snd_iss = iss /\ d.snd_nxt = Mod16(iss + 1)
  BY <1>4, RetainFields
<1> HIDE DEF d
<1>6. u \in Seq(Nat) /\ Grows(s, u) /\ Len(u) = Len(s) + 1 /\ Len(u) \in 1 .. Len(u)
  BY <1>2, AppendGrows
<1>7. Numbered(n, u, d)
  BY <1>2, <1>3, <1>5, FirstNumber
<1> HIDE DEF u
<1>8. iss = Rand[n][Len(u)]
  BY <1>3, <1>6
<1>9. \A y \in d.tx_queue : Genuine(n, u, y)
  <2>1. Genuine(n, u, x)
    BY <1>6, <1>8 DEF Genuine, x
  <2>2. \A y \in c.tx_queue : Genuine(n, u, y)
    BY <1>2, <1>6, GenuineGrows
  <2> QED  BY <1>5, <2>1, <2>2
<1>10. Ordered(accepted'[n])
  <2>1. accepted'[n] = <<>>
    OBVIOUS
  <2> QED  BY <2>1 DEF Ordered
<1>11. End(n, Peer(n), u, sent[Peer(n)], d, accepted'[n], lost'[n])
  BY <1>3, <1>5, <1>7, <1>9, <1>10 DEF End, InSync
<1>12. Sends(n, u, M)
  BY <1>6, <1>8 DEF Sends, Cmp, Genuine
<1> HIDE DEF M
<1>13. net' \subseteq net \cup M
  BY <1>1, OnTheLink
<1> HIDE DEF n
<1>14. \A m \in Node : m # n => accepted'[m] = accepted[m] /\ lost'[m] = lost[m]
  BY DEF n
<1> QED  BY <1>1, <1>2, <1>11, <1>12, <1>13, <1>14, StartStep DEF u

\* csp_connect.
LEMMA ConnectingStream ==
  ASSUME RdpAssumption, JInv, Connecting
  PROVE  Bounds' /\ Packets' /\ Ends'
<1> DEFINE n == "client"
           c == conn[n]
<1>1. n \in Node /\ Peer(n) = "server"
  BY PeerLemma DEF Node
<1>2. /\ c \in Conn /\ Shape(n, c)
      /\ End(n, "server", sent[n], sent["server"], c, accepted[n], lost[n])
  BY <1>1, Parts
<1>3. /\ \A x \in c.tx_queue : Genuine(n, sent[n], x)
      /\ \A x \in c.rx_queue : Waiting("server", sent["server"], x)
  BY <1>2 DEF End
<1>4. CASE Connect
  <2> DEFINE d == [c EXCEPT !.open = TRUE, !.socket = FALSE, !.in_queue = <<>>]
  <2>1. d \in Conn /\ d.tx_queue = c.tx_queue /\ d.rx_queue = c.rx_queue
    <3> DEFINE empty == <<>>
    <3>1. empty \in Seq(Data)
      OBVIOUS
    <3> HIDE DEF empty
    <3>2. [c EXCEPT !.open = TRUE, !.socket = FALSE, !.in_queue = empty] \in Conn
      BY <1>2, <3>1 DEF Conn
    <3> QED  BY <1>2, <3>2 DEF empty, Conn
  <2>2. StartConnect(d)
    BY <1>4 DEF Connect
  <2>3. /\ accepted' = [accepted EXCEPT !["client"] = <<>>]
        /\ lost' = [lost EXCEPT !["client"] = {}]
    BY <1>4 DEF Connect
  <2>4. /\ accepted'[n] = <<>> /\ lost'[n] = {}
        /\ \A m \in Node : m # n => accepted'[m] = accepted[m] /\ lost'[m] = lost[m]
    BY <1>1, <2>3 DEF JInv, IInv, TypeOK
  <2> HIDE DEF d
  <2> QED  BY <1>3, <2>1, <2>2, <2>4, StartConnectEnd
<1>5. ASSUME GiveUpConnect PROVE Bounds' /\ Packets' /\ Ends'
  <2>1. conn' = [conn EXCEPT ![n] = FailedConnect(c)] /\ UNCHANGED hist
        /\ net' \subseteq net \cup {}
    BY <1>5 DEF GiveUpConnect
  <2>2. Quiet(c, FailedConnect(c)) /\ Sends(n, sent[n], {})
    BY <1>2, QuietFailedConnect, MsgGenuine
  <2> HIDE DEF n
  <2> QED  BY <1>1, <2>1, <2>2, QuietStep
<1>6. CASE ConnectTimeout  BY <1>5, <1>6 DEF ConnectTimeout
<1>7. CASE ConnectDone     BY <1>7, IdleStep DEF ConnectDone
<1>8. CASE ConnectRetry
  <2> DEFINE d == [c EXCEPT !.tx_queue = {}, !.rx_queue = {}]
  <2>1. d \in Conn /\ d.tx_queue = {} /\ d.rx_queue = {}
    BY <1>2 DEF Conn
  <2>2. StartConnect(d) /\ UNCHANGED <<accepted, lost>>
    BY <1>8 DEF ConnectRetry
  <2>3. c.state = "SYN_SENT"
    BY <1>8 DEF ConnectRetry
  <2>4. accepted'[n] = <<>> /\ lost'[n] = {}
    BY <1>2, <2>2, <2>3 DEF End
  <2> HIDE DEF d
  <2> QED  BY <2>1, <2>2, <2>4, StartConnectEnd
<1>9. CASE ConnectFailed   BY <1>5, <1>9 DEF ConnectFailed
<1> QED  BY <1>4, <1>6, <1>7, <1>8, <1>9 DEF Connecting

\* A connection that is just opened has received nothing.
LEMMA GotNothing ==
  ASSUME NEW m, NEW t, NEW c, NEW e \in 1 .. Len(t), c.rcv_irs = Rand[m][e],
         c.rcv_cur = c.rcv_irs, c.rcv_irs \in SeqNr, t[e] \in Nat
  PROVE  Got(m, t, c, <<>>, {})
<1> DEFINE none == <<>>
<1>1. Count(c) = 0
  <2>1. c.rcv_cur - c.rcv_irs = 0
    <3>1. \A i \in Int : i - i = 0
      OBVIOUS
    <3> QED  BY <3>1, SeqNrLemma
  <2>2. Mod16(0) = 0
    BY DEF Mod16
  <2> QED  BY <2>1, <2>2 DEF Count
<1>2. 1 .. Count(c) = {}
  BY <1>1
<1>3. Elements(none) = {} /\ none = [i \in 1 .. Count(c) |-> <<e, i>>]
  BY <1>2 DEF Elements
<1>4. {<<e, k>> : k \in 1 .. Count(c)} = {}
  BY <1>2
<1>5. Passed(m, t, c, e, none, {})
  BY <1>1, <1>3, <1>4 DEF Passed
<1> QED  BY <1>5 DEF Got

\* A packet for a node without a connection.
LEMMA RecvUnknownStream ==
  ASSUME RdpAssumption, JInv, NEW p \in net, RecvUnknown(p)
  PROVE  Bounds' /\ Packets' /\ Ends'
<1> DEFINE n == "server"
<1>1. CASE RecvNoSocket(p)  BY <1>1, IdleStep DEF RecvNoSocket
<1>2. CASE RecvNoSlot(p)    BY <1>2, IdleStep DEF RecvNoSlot
<1>3. CASE RecvNoSyn(p)
  <2>1. CASE net' = net \ {p}
    BY <1>3, <2>1, IdleStep DEF RecvNoSyn
  <2>2. ASSUME NEW seq, net' = Transmit(net \ {p}, {Cmp(n, {"rst"}, seq, conn[n].rcv_cur)})
        PROVE  Bounds' /\ Packets' /\ Ends'
    <3> DEFINE M == {Cmp(n, {"rst"}, seq, conn[n].rcv_cur)}
    <3>1. Sends(n, sent[n], M)
      BY CmpGenuine
    <3> HIDE DEF n
    <3>2. net' = Transmit(net \ {p}, M)
      BY <2>2
    <3> HIDE DEF M
    <3>4. net' \subseteq net \cup M
      BY <3>2, OnTheLink
    <3>3. n \in Node /\ conn' = [conn EXCEPT ![n] = conn[n]] /\ UNCHANGED hist
      BY <1>3 DEF RecvNoSyn, JInv, IInv, TypeOK, Node, n
    <3> QED  BY <3>1, <3>3, <3>4, QuietSelf, QuietStep
  <2> QED  BY <1>3, <2>1, <2>2 DEF RecvNoSyn
<1>4. CASE RecvSyn(p)
  <2> DEFINE s == sent[n]
             t == sent["client"]
             u == Append(s, 0)
             iss == Rand[n][Epoch(n) + 1]
             c == [conn[n] EXCEPT !.open = TRUE, !.socket = TRUE, !.in_queue = <<>>,
                     !.state = "SYN_RCVD", !.snd_iss = iss,
                     !.snd_nxt = Mod16(iss + 1), !.snd_una = iss,
                     !.rcv_cur = p.seq, !.rcv_irs = p.seq, !.rcv_lsa = p.seq]
             x == [flags |-> {"ack", "syn"}, seq |-> iss, data |-> NoData]
             d == Retain(c, x)
             M == {SynAckMsg(n, c)}
  <2>1. /\ conn' = [conn EXCEPT ![n] = d] /\ net' = Transmit(net \ {p}, M) /\ NewEpoch(n)
        /\ Len(s) < Len(Rand[n]) /\ p.dst = n /\ "syn" \in p.flags
        /\ accepted' = [accepted EXCEPT ![n] = <<>>] /\ lost' = [lost EXCEPT ![n] = {}]
    BY <1>4 DEF RecvSyn, Take, Epoch
  <2>2. n \in Node /\ Peer(n) = "client" /\ s \in Seq(Nat) /\ t \in Seq(Nat)
        /\ conn[n] \in Conn /\ End(n, Peer(n), s, t, conn[n], accepted[n], lost[n])
    BY PeerLemma, Parts DEF Node
  <2>3. iss \in SeqNr /\ iss = Rand[n][Len(s) + 1]
    BY <2>1, <2>2, RandType DEF JInv, IInv, Epoch
  <2> HIDE DEF iss
  <2>4. Mod16(iss + 1) \in SeqNr /\ p.seq \in SeqNr
    BY <2>3, SeqNrLemma, PacketFields DEF JInv, IInv, TypeOK
  <2>5. /\ c \in Conn /\ c.tx_queue = conn[n].tx_queue /\ c.rx_queue = conn[n].rx_queue
        /\ c.state = "SYN_RCVD" /\ c.snd_iss = iss /\ c.snd_nxt = Mod16(iss + 1)
        /\ c.rcv_cur = p.seq /\ c.rcv_irs = p.seq
    <3> DEFINE empty == <<>>
    <3>1. empty \in Seq(Data)
      OBVIOUS
    <3> DEFINE b == [conn[n] EXCEPT !.open = TRUE, !.socket = TRUE, !.in_queue = empty,
                     !.state = "SYN_RCVD", !.snd_iss = iss,
                     !.snd_nxt = Mod16(iss + 1), !.snd_una = iss,
                     !.rcv_cur = p.seq, !.rcv_irs = p.seq, !.rcv_lsa = p.seq]
    <3>2. c = b
      OBVIOUS
    <3> HIDE DEF empty
    <3>3. /\ b \in Conn /\ b.tx_queue = conn[n].tx_queue /\ b.rx_queue = conn[n].rx_queue
          /\ b.state = "SYN_RCVD" /\ b.snd_iss = iss /\ b.snd_nxt = Mod16(iss + 1)
          /\ b.rcv_cur = p.seq /\ b.rcv_irs = p.seq
      BY <2>2, <2>3, <2>4, <3>1, ZenonT(60) DEF Conn, State
    <3> HIDE DEF b, c
    <3> QED  BY <3>2, <3>3
  <2> HIDE DEF c, x
  <2>6. /\ d.tx_queue \subseteq conn[n].tx_queue \cup {x} /\ d.rx_queue = conn[n].rx_queue
        /\ d.state = "SYN_RCVD" /\ d.snd_iss = iss /\ d.snd_nxt = Mod16(iss + 1)
        /\ d.rcv_cur = p.seq /\ d.rcv_irs = p.seq
    BY <2>5, RetainFields
  <2> HIDE DEF d
  <2>7. u \in Seq(Nat) /\ Grows(s, u) /\ Len(u) = Len(s) + 1 /\ Len(u) \in 1 .. Len(u)
    BY <2>2, AppendGrows
  <2>8. Numbered(n, u, d)
    BY <2>2, <2>3, <2>6, FirstNumber
  <2> HIDE DEF u
  <2>9. iss = Rand[n][Len(u)]
    BY <2>3, <2>7
  <2>10. \A y \in d.tx_queue : Genuine(n, u, y)
    <3>1. Genuine(n, u, x)
      BY <2>7, <2>9 DEF Genuine, x
    <3>2. \A y \in conn[n].tx_queue : Genuine(n, u, y)
      BY <2>2, <2>7, GenuineGrows DEF End
    <3> QED  BY <2>6, <3>1, <3>2
  <2>11. Got(Peer(n), t, d, <<>>, {})
    <3>1. PICK e \in 1 .. Len(t) : p.seq = Rand["client"][e]
      <4>1. Genuine("client", t, p)
        BY <2>1, PeerLemma DEF JInv, Packets
      <4> QED  BY <2>1, <4>1 DEF Genuine
    <3>2. t[e] \in Nat
      BY <2>2
    <3> QED  BY <2>2, <2>4, <2>6, <3>1, <3>2, GotNothing
  <2>12. /\ accepted'[n] = <<>> /\ lost'[n] = {}
         /\ \A m \in Node : m # n => accepted'[m] = accepted[m] /\ lost'[m] = lost[m]
    BY <2>1, <2>2 DEF JInv, IInv, TypeOK
  <2>13. Ordered(accepted'[n])
    BY <2>12 DEF Ordered
  <2>14. \A y \in d.rx_queue : Waiting(Peer(n), t, y)
    BY <2>2, <2>6 DEF End
  <2>15. Got(Peer(n), t, d, accepted'[n], lost'[n])
    BY <2>11, <2>12
  <2>16. End(n, Peer(n), u, sent[Peer(n)], d, accepted'[n], lost'[n])
    BY <2>2, <2>6, <2>8, <2>10, <2>13, <2>14, <2>15 DEF End
  <2>17. Sends(n, u, M)
    BY <2>5, <2>7, <2>9 DEF Sends, SynAckMsg, Cmp, Genuine
  <2> HIDE DEF M
  <2>18. net' \subseteq net \cup M
    BY <2>1, OnTheLink
  <2> HIDE DEF n
  <2> QED  BY <2>1, <2>2, <2>12, <2>16, <2>17, <2>18, StartStep DEF u
<1> QED  BY <1>1, <1>2, <1>3, <1>4 DEF RecvUnknown

\* The packets of the handshake.
LEMMA RecvHandshakeStream ==
  ASSUME JInv, NEW p \in net, RecvHandshake(p)
  PROVE  Bounds' /\ Packets' /\ Ends'
<1>1. "client" \in Node /\ "server" \in Node
  BY DEF Node
<1>2. p.seq \in SeqNr /\ Genuine(Peer(p.dst), sent[Peer(p.dst)], p)
  BY PacketFields DEF JInv, IInv, TypeOK, Packets
<1>3. CASE RecvSynAck(p)
  <2> DEFINE n == "client"
             t == sent["server"]
             c == conn[n]
             d == [c EXCEPT !.state = "OPEN", !.rcv_cur = p.seq,
                     !.rcv_irs = p.seq, !.rcv_lsa = p.seq,
                     !.snd_una = Mod16(p.ack + 1)]
             M == {AckMsg(n, d)}
  <2>1. /\ conn' = [conn EXCEPT ![n] = d] /\ net' = Transmit(net \ {p}, M)
        /\ p.dst = n /\ c.open /\ c.state = "SYN_SENT" /\ "syn" \in p.flags /\ UNCHANGED hist
    BY <1>3 DEF RecvSynAck, Take
  <2>2. /\ Peer(n) = "server" /\ t \in Seq(Nat) /\ c \in Conn
        /\ End(n, "server", sent[n], t, c, accepted[n], lost[n])
    BY <1>1, PeerLemma, Parts
  <2>3. /\ d.tx_queue = c.tx_queue /\ d.rx_queue = c.rx_queue /\ d.open = c.open
        /\ d.state = "OPEN" /\ d.snd_iss = c.snd_iss /\ d.snd_nxt = c.snd_nxt
        /\ d.rcv_cur = p.seq /\ d.rcv_irs = p.seq
    BY <2>2 DEF Conn
  <2>4. Sends(n, sent[n], M)
    BY MsgGenuine
  <2> HIDE DEF d
  <2>5. accepted[n] = <<>> /\ lost[n] = {}
    BY <2>1, <2>2 DEF End
  <2>6. Got("server", t, d, accepted[n], lost[n])
    <3>1. PICK e \in 1 .. Len(t) : p.seq = Rand["server"][e]
      BY <1>2, <2>1, <2>2 DEF Genuine
    <3>2. t[e] \in Nat
      BY <2>2
    <3>3. Got("server", t, d, <<>>, {})
      BY <1>2, <2>3, <3>1, <3>2, GotNothing
    <3> QED  BY <2>5, <3>3
  <2>7. Numbered(n, sent[n], d)
    BY <2>1, <2>2, <2>3 DEF End, Numbered
  <2>8. End(n, "server", sent[n], t, d, accepted[n], lost[n])
    BY <2>2, <2>3, <2>6, <2>7 DEF End
  <2> HIDE DEF M
  <2>9. net' \subseteq net \cup M
    BY <2>1, OnTheLink
  <2> HIDE DEF n
  <2> QED  BY <1>1, <2>1, <2>2, <2>4, <2>8, <2>9, EndStep DEF n
<1>4. CASE RecvHalfOpen(p)
  <2> DEFINE n == "client"
             c == conn[n]
             M == {RstMsg(n, c)}
  <2>1. conn' = [conn EXCEPT ![n] = c] /\ net' = Transmit(net \ {p}, M) /\ UNCHANGED hist
    BY <1>4 DEF RecvHalfOpen, Take
  <2>2. Sends(n, sent[n], M)
    BY MsgGenuine
  <2> HIDE DEF M
  <2>3. net' \subseteq net \cup M
    BY <2>1, OnTheLink
  <2> HIDE DEF n
  <2> QED  BY <1>1, <2>1, <2>2, <2>3, QuietSelf, QuietStep DEF n
<1>5. CASE RecvBacklogFull(p)
  <2> DEFINE n == "server"
             c == conn[n]
             M == CloseOut(n, c)
             d == DiscardClose(c)
  <2>1. conn' = [conn EXCEPT ![n] = d] /\ net' = Transmit(net \ {p}, M) /\ UNCHANGED hist
    BY <1>5 DEF RecvBacklogFull, Take
  <2>2. Sends(n, sent[n], M) /\ c \in Conn
    BY <1>1, MsgGenuine, Parts
  <2>3. Quiet(c, d)
    BY <2>2, QuietDiscardClose
  <2> HIDE DEF M, d
  <2>4. net' \subseteq net \cup M
    BY <2>1, OnTheLink
  <2> HIDE DEF n
  <2> QED  BY <1>1, <2>1, <2>2, <2>3, <2>4, QuietStep DEF n
<1> QED  BY <1>3, <1>4, <1>5 DEF RecvHandshake

\* A packet taken by n that changes its connection quietly.
LEMMA TakeQuietly ==
  ASSUME JInv, NEW n \in Node, NEW p, NEW d, NEW M, Take(n, p, d, M), UNCHANGED hist,
         Quiet(conn[n], d), Sends(n, sent[n], M)
  PROVE  Bounds' /\ Packets' /\ Ends'
<1>1. conn' = [conn EXCEPT ![n] = d] /\ net' \subseteq net \cup M
  BY OnTheLink DEF Take
<1> QED  BY <1>1, QuietStep

\* Packets that are rejected, and resets.
LEMMA RecvInvalidStream ==
  ASSUME JInv, NEW n \in Node, NEW p \in net,
         \/ RecvRst(n, p)
         \/ RecvCloseWait(n, p)
         \/ RecvSynAgain(n, p)
         \/ RecvOutsideWindow(n, p)
         \/ RecvBadAck(n, p)
  PROVE  Bounds' /\ Packets' /\ Ends'
<1> DEFINE c == conn[n]
           s == sent[n]
           u == [c EXCEPT !.snd_una = Mod16(p.ack + 1)]
<1>1. c \in Conn /\ s \in Seq(Nat) /\ Mod16(p.ack + 1) \in SeqNr
  BY PacketFields, Parts DEF JInv, IInv, TypeOK
<1>2. u \in Conn /\ Quiet(c, u)
  <2>1. u \in Conn
    BY <1>1 DEF Conn
  <2> QED  BY <1>1, <2>1, QuietUpdates
<1>3. /\ Quiet(c, c) /\ Quiet(c, DiscardClose(c)) /\ Quiet(c, Acked(c))
  BY <1>1, QuietSelf, QuietDiscardClose, QuietUpdates
<1>4. CASE RecvRst(n, p)
  <2> DEFINE v == IF "ack" \in p.flags THEN u ELSE c
             w == [Acked(v) EXCEPT !.state = "CLOSE_WAIT"]
  <2>1. /\ UNCHANGED hist
        /\ \/ Take(n, p, DiscardClose(v), {})
           \/ Take(n, p, DiscardClose(w), {RstAckMsg(n, v)})
           \/ Take(n, p, v, {})
    BY <1>4 DEF RecvRst
  <2>2. v \in Conn /\ Quiet(c, v)
    BY <1>1, <1>2, <1>3
  <2> HIDE DEF v
  <2>3. Acked(v) \in Conn /\ Quiet(v, Acked(v)) /\ Quiet(v, DiscardClose(v))
    BY <2>2, AckedType, QuietUpdates, QuietDiscardClose
  <2>4. w \in Conn /\ Quiet(Acked(v), w)
    BY <2>3 DEF Quiet, Conn, State, InSync
  <2> HIDE DEF w
  <2>5. Quiet(w, DiscardClose(w))
    BY <2>4, QuietDiscardClose
  <2>6. Quiet(c, DiscardClose(v)) /\ Quiet(c, w)
    BY <2>2, <2>3, <2>4, QuietTrans
  <2>7. Quiet(c, DiscardClose(w))
    BY <2>5, <2>6, QuietTrans
  <2>8. Sends(n, s, {}) /\ Sends(n, s, {RstAckMsg(n, v)})
    BY MsgGenuine
  <2> QED  BY <2>1, <2>2, <2>6, <2>7, <2>8, TakeQuietly
<1>5. CASE RecvCloseWait(n, p)
  <2>1. /\ UNCHANGED hist
        /\ Take(n, p, Acked(u), {RstAckMsg(n, c)}) \/ Take(n, p, c, {})
    BY <1>5 DEF RecvCloseWait
  <2> HIDE DEF u
  <2>2. Quiet(c, Acked(u))
    BY <1>2, QuietUpdates, QuietTrans
  <2>3. Sends(n, s, {}) /\ Sends(n, s, {RstAckMsg(n, c)})
    BY MsgGenuine
  <2> QED  BY <1>3, <2>1, <2>2, <2>3, TakeQuietly
<1>6. CASE RecvSynAgain(n, p)
  <2>1. /\ UNCHANGED hist
        /\ Take(n, p, c, {}) \/ Take(n, p, DiscardClose(c), CloseOut(n, c))
    BY <1>6 DEF RecvSynAgain
  <2>2. Sends(n, s, {}) /\ Sends(n, s, CloseOut(n, c))
    BY MsgGenuine
  <2> QED  BY <1>3, <2>1, <2>2, TakeQuietly
<1>7. CASE RecvBadAck(n, p)
  <2>1. /\ UNCHANGED hist
        /\ Take(n, p, c, {}) \/ Take(n, p, DiscardClose(c), CloseOut(n, c))
    BY <1>7 DEF RecvBadAck
  <2>2. Sends(n, s, {}) /\ Sends(n, s, CloseOut(n, c))
    BY MsgGenuine
  <2> QED  BY <1>3, <2>1, <2>2, TakeQuietly
<1>8. CASE RecvOutsideWindow(n, p)
  <2>1. UNCHANGED hist /\ c.open /\ c.state \in InSync
    BY <1>8 DEF RecvOutsideWindow, Segment, Synced, InSync
  <2>2. CASE c.state # "SYN_RCVD"
    <3>1. Take(n, p, Acked(c), {EackMsg(n, c)})
      BY <1>8, <2>2 DEF RecvOutsideWindow
    <3>2. Sends(n, s, {EackMsg(n, c)})
      BY MsgGenuine
    <3> QED  BY <1>3, <2>1, <3>1, <3>2, TakeQuietly
  <2>3. CASE c.state = "SYN_RCVD"
    <3> DEFINE v == [c EXCEPT !.rcv_lsa = c.rcv_irs]
               x == [flags |-> {"ack", "syn"}, seq |-> c.snd_iss, data |-> NoData]
               d == Retain(v, x)
               M == {SynAckMsg(n, c)}
    <3>1. conn' = [conn EXCEPT ![n] = d] /\ net' = Transmit(net \ {p}, M)
      BY <1>8, <2>3 DEF RecvOutsideWindow, Take
    <3>2. v \in Conn /\ Quiet(c, v)
      BY <1>1, QuietUpdates DEF Conn
    <3>3. End(n, Peer(n), s, sent[Peer(n)], v, accepted[n], lost[n])
      BY <3>2, Parts, QuietEnd
    <3>4. Len(s) \in 1 .. Len(s) /\ c.snd_iss = Rand[n][Len(s)]
      BY <2>1, Parts DEF End, Numbered
    <3>5. Genuine(n, s, x)
      BY <3>4 DEF Genuine
    <3>6. Sends(n, s, M)
      BY <3>4 DEF Sends, SynAckMsg, Cmp, Genuine
    <3> HIDE DEF v, x
    <3>7. /\ d.tx_queue \subseteq v.tx_queue \cup {x} /\ d.rx_queue = v.rx_queue
          /\ d.open = v.open /\ d.state = v.state /\ d.snd_iss = v.snd_iss
          /\ d.snd_nxt = v.snd_nxt /\ d.rcv_cur = v.rcv_cur /\ d.rcv_irs = v.rcv_irs
      BY <3>2, RetainFields
    <3> HIDE DEF d, M
    <3>8. End(n, Peer(n), s, sent[Peer(n)], d, accepted[n], lost[n])
      <4>1. \A y \in d.tx_queue : Genuine(n, s, y)
        BY <3>3, <3>5, <3>7 DEF End
      <4>2. Numbered(n, s, d) <=> Numbered(n, s, v)
        BY <3>7 DEF Numbered
      <4>3. Got(Peer(n), sent[Peer(n)], d, accepted[n], lost[n])
               <=> Got(Peer(n), sent[Peer(n)], v, accepted[n], lost[n])
        <5>1. Count(d) = Count(v)
          BY <3>7 DEF Count
        <5> QED  BY <3>7, <5>1 DEF Got, Passed
      <4> QED  BY <3>3, <3>7, <4>1, <4>2, <4>3 DEF End
    <3>9. net' \subseteq net \cup M
      BY <3>1, OnTheLink
    <3> QED  BY <2>1, <3>1, <3>6, <3>8, <3>9, EndStep
  <2> QED  BY <2>2, <2>3
<1> QED  BY <1>4, <1>5, <1>6, <1>7, <1>8

\* The elements of a sequence to which another is appended.
LEMMA ElementsConcat ==
  ASSUME NEW S, NEW a \in Seq(S), NEW b \in Seq(S)
  PROVE  Elements(a \o b) = Elements(a) \cup Elements(b)
<1> DEFINE c == a \o b
<1>1. /\ Len(a) \in Nat /\ Len(b) \in Nat /\ Len(c) = Len(a) + Len(b)
      /\ DOMAIN a = 1 .. Len(a) /\ DOMAIN b = 1 .. Len(b) /\ DOMAIN c = 1 .. Len(c)
      /\ \A i \in 1 .. Len(c) : c[i] = IF i <= Len(a) THEN a[i] ELSE b[i - Len(a)]
  BY ConcatProperties
<1> HIDE DEF c
<1>2. Elements(c) \subseteq Elements(a) \cup Elements(b)
  <2> SUFFICES ASSUME NEW i \in 1 .. Len(c)
               PROVE  c[i] \in Elements(a) \cup Elements(b)
    BY <1>1 DEF Elements
  <2>1. CASE i <= Len(a)
    <3>1. i \in DOMAIN a /\ c[i] = a[i]
      BY <1>1, <2>1
    <3> QED  BY <3>1 DEF Elements
  <2>2. CASE ~(i <= Len(a))
    <3>1. i - Len(a) \in DOMAIN b /\ c[i] = b[i - Len(a)]
      BY <1>1, <2>2
    <3> QED  BY <3>1 DEF Elements
  <2> QED  BY <2>1, <2>2
<1>3. Elements(a) \subseteq Elements(c)
  <2> SUFFICES ASSUME NEW i \in 1 .. Len(a) PROVE a[i] \in Elements(c)
    BY <1>1 DEF Elements
  <2>1. i \in DOMAIN c /\ c[i] = a[i]
    BY <1>1
  <2> QED  BY <2>1 DEF Elements
<1>4. Elements(b) \subseteq Elements(c)
  <2> SUFFICES ASSUME NEW i \in 1 .. Len(b) PROVE b[i] \in Elements(c)
    BY <1>1 DEF Elements
  <2>1. i + Len(a) \in 1 .. Len(c) /\ ~(i + Len(a) <= Len(a)) /\ (i + Len(a)) - Len(a) = i
    BY <1>1
  <2>2. c[i + Len(a)] = b[i]
    BY <1>1, <2>1
  <2>3. i + Len(a) \in DOMAIN c
    BY <1>1, <2>1
  <2> QED  BY <2>2, <2>3 DEF Elements
<1> QED  BY <1>2, <1>3, <1>4 DEF c

\* The message after those received, and those stored behind it, are the next
\* messages of the same connection of the peer.
LEMMA NextMessages ==
  ASSUME DistinctNumbers, JInv, NEW m \in Node,
         NEW e \in 1 .. Len(sent[m]), NEW k \in Nat, k <= sent[m][e],
         NEW j \in Nat \ {0}, k + j <= MaxSend[m] + 1,
         NEW x, IsMessage(m, sent[m], x.seq, x.data), x.data \in Data,
         x.seq = Number(m, e, k + j)
  PROVE  x.data = <<e, k + j>> /\ k + j <= sent[m][e]
<1> DEFINE f == x.data[1]
           i == x.data[2]
<1>1. f \in 1 .. Len(sent[m]) /\ i \in 1 .. sent[m][f] /\ x.seq = Number(m, f, i)
  BY DEF IsMessage
<1>2. x.data = <<f, i>>
  BY DEF Data
<1> HIDE DEF f, i
<1>3. sent[m] \in Seq(Nat) /\ Rand[m] \in Seq(SeqNr) /\ MaxSend[m] \in Nat
  BY RdpAssumption DEF JInv, IInv, TypeOK
<1>4. Len(sent[m]) <= Len(Rand[m]) /\ sent[m][f] <= MaxSend[m]
  BY <1>1 DEF JInv, Bounds
<1>5. f \in DOMAIN Rand[m] /\ e \in DOMAIN Rand[m]
  BY <1>1, <1>3, <1>4
<1>6. i \in 1 .. MaxSend[m] /\ k + j \in 1 .. MaxSend[m] + 1
  <2>1. sent[m][f] \in Nat
    BY <1>1, <1>3, SMTT(30)
  <2> QED  BY <1>1, <1>3, <1>4, <2>1
<1>7. e = f /\ k + j = i
  BY <1>1, <1>5, <1>6 DEF DistinctNumbers, Number
<1>8. k + j <= sent[m][e]
  <2>1. sent[m][f] \in Nat
    BY <1>1, <1>3, SMTT(30)
  <2> QED  BY <1>1, <1>7, <2>1
<1> QED  BY <1>2, <1>7, <1>8

\* Fewer than 65536 messages can have different numbers.
LEMMA FewMessages ==
  ASSUME DistinctNumbers, NEW m \in Node, NEW e \in DOMAIN Rand[m]
  PROVE  MaxSend[m] < 65536
<1>1. MaxSend[m] \in Nat /\ Rand[m][e] \in Int
  <2>1. Rand[m] \in Seq(SeqNr) /\ MaxSend[m] \in Nat
    BY RdpAssumption
  <2>2. Rand[m][e] \in SeqNr
    BY <2>1
  <2> QED  BY <2>1, <2>2, SeqNrLemma
<1> SUFFICES ASSUME MaxSend[m] >= 65536 PROVE FALSE
  BY <1>1, SMT
<1>2. 65537 \in 1 .. MaxSend[m] + 1 /\ 1 \in 1 .. MaxSend[m]
  BY <1>1, SMT
<1>3. Mod16(Rand[m][e] + 65537) = Mod16(Rand[m][e] + 1)
  <2>1. \A i \in Int : Mod16(i + 65537) = Mod16(i + 1)
    BY SMT DEF Mod16
  <2> QED  BY <1>1, <2>1, SMT
<1>4. \A j \in 1 .. MaxSend[m] + 1, k \in 1 .. MaxSend[m] :
         Mod16(Rand[m][e] + j) = Mod16(Rand[m][e] + k) => j = k
  BY SMT DEF DistinctNumbers
<1>5. 65537 = 1
  BY <1>2, <1>3, <1>4, SMT
<1> QED  BY <1>5, SMT

\* So fewer than 65536 were submitted on one connection.
LEMMA FewSent ==
  ASSUME DistinctNumbers, JInv, NEW m \in Node, NEW e \in 1 .. Len(sent[m])
  PROVE  sent[m][e] < 65536
<1>1. /\ sent[m] \in Seq(Nat) /\ Rand[m] \in Seq(SeqNr) /\ MaxSend[m] \in Nat
      /\ Len(sent[m]) <= Len(Rand[m]) /\ sent[m][e] <= MaxSend[m]
  BY RdpAssumption DEF JInv, IInv, TypeOK, Bounds
<1>2. e \in DOMAIN Rand[m] /\ sent[m][e] \in Nat
  BY <1>1
<1>3. MaxSend[m] < 65536
  BY <1>2, FewMessages
<1> QED  BY <1>1, <1>2, <1>3

\* What truncation does to sums and differences.
LEMMA Mod16Sums ==
  /\ \A q, r, j \in Int : Mod16(r + j) = Mod16(q + (Mod16(r - q) + j))
  /\ \A q, j \in Int : Mod16(Mod16(q) + j) = Mod16(q + j)
  /\ \A q, j \in Int : Mod16(Mod16(q + j) - q) = Mod16(j)
  /\ \A j \in Int : 0 <= j /\ j < 65536 => Mod16(j) = j
  /\ \A s \in SeqNr : s \in Nat /\ s < 65536 /\ Mod16(s) = s
<1>1. \A q, r, j \in Int : Mod16(r + j) = Mod16(q + (Mod16(r - q) + j))
  BY SMT DEF Mod16
<1>2. \A q, j \in Int : Mod16(Mod16(q) + j) = Mod16(q + j)
  BY SMT DEF Mod16
<1>3. \A q, j \in Int : Mod16(Mod16(q + j) - q) = Mod16(j)
  BY SMT DEF Mod16
<1>4. \A j \in Int : 0 <= j /\ j < 65536 => Mod16(j) = j
  BY SMT DEF Mod16
<1>5. \A s \in SeqNr : s \in Int /\ 0 <= s /\ s < 65536 /\ s \in Nat
  BY SMT DEF SeqNr
<1> QED  BY <1>1, <1>2, <1>3, <1>4, <1>5

\* Counting and numbering agree.
LEMMA CountNumber ==
  ASSUME NEW m, NEW e, NEW c \in Conn, c.rcv_irs = Rand[m][e]
  PROVE  /\ c.rcv_cur = Number(m, e, Count(c))
         /\ \A j \in Nat : Mod16(c.rcv_cur + j) = Number(m, e, Count(c) + j)
<1> DEFINE q == c.rcv_irs
           r == c.rcv_cur
<1>1. q \in Int /\ r \in SeqNr /\ r \in Int /\ Rand[m][e] = q
  BY SeqNrLemma DEF Conn
<1>2. Count(c) = Mod16(r - q) /\ Count(c) \in Int
  BY CountType, SeqNrLemma DEF Count
<1> HIDE DEF q, r
<1>3. \A j \in Int : Mod16(r + j) = Mod16(q + (Count(c) + j))
  BY <1>1, <1>2, Mod16Sums
<1>4. r = Mod16(q + Count(c))
  <2>1. Mod16(r + 0) = Mod16(q + (Count(c) + 0))
    BY <1>3
  <2>2. r + 0 = r /\ Count(c) + 0 = Count(c)
    BY <1>1, <1>2
  <2> QED  BY <1>1, <2>1, <2>2, Mod16Sums
<1>5. \A j \in Nat : Mod16(r + j) = Number(m, e, Count(c) + j)
  BY <1>1, <1>3 DEF Number
<1>6. r = Number(m, e, Count(c))
  BY <1>1, <1>4 DEF Number
<1> QED  BY <1>5, <1>6 DEF r

\* The histories when the next N messages are passed, the first K of them to
\* the user.
Given(e, R, K) == [j \in 1 .. K |-> <<e, R + j>>]
Dropped(e, R, K, N) == {<<e, R + j>> : j \in K + 1 .. N}

\* A run of messages as a sequence.
LEMMA GivenType ==
  ASSUME NEW e \in Nat, NEW R \in Nat, NEW K \in Nat
  PROVE  /\ Given(e, R, K) \in Seq(Data) /\ Len(Given(e, R, K)) = K
         /\ \A j \in 1 .. K : Given(e, R, K)[j] = <<e, R + j>>
         /\ Elements(Given(e, R, K)) = {<<e, R + j>> : j \in 1 .. K}
<1> DEFINE g == [j \in 1 .. K |-> <<e, R + j>>]
<1>1. g \in [1 .. K -> Data]
  BY DEF Data
<1>2. g \in Seq(Data)
  BY <1>1
<1>3. DOMAIN g = 1 .. K /\ \A j \in 1 .. K : g[j] = <<e, R + j>>
  OBVIOUS
<1> HIDE DEF g
<1>4. Len(g) = K
  BY <1>2, <1>3, LenProperties
<1>5. Elements(g) = {<<e, R + j>> : j \in 1 .. K}
  BY <1>3 DEF Elements
<1> QED  BY <1>2, <1>3, <1>4, <1>5 DEF g, Given

\* Passing messages keeps the histories in step with rcv_cur.
LEMMA PassedMore ==
  ASSUME NEW m, NEW t, NEW c, NEW d, NEW e \in Nat, NEW a \in Seq(Data), NEW l,
         Passed(m, t, c, e, a, l), Ordered(a), Count(c) \in Nat,
         NEW N \in Nat, NEW K \in 0 .. N,
         d.rcv_irs = c.rcv_irs, Count(d) = Count(c) + N, Count(d) <= t[e]
  PROVE  LET b == a \o Given(e, Count(c), K)
         IN  /\ Passed(m, t, d, e, b, l \cup Dropped(e, Count(c), K, N))
             /\ Ordered(b)
<1> DEFINE R == Count(c)
           g == Given(e, R, K)
           b == a \o g
           L == Dropped(e, R, K, N)
           upto(X) == {<<e, k>> : k \in 1 .. X}
<1>1. R \in Nat /\ K \in Nat
  OBVIOUS
<1>2. /\ g \in Seq(Data) /\ Len(g) = K /\ \A j \in 1 .. K : g[j] = <<e, R + j>>
      /\ Elements(g) = {<<e, R + j>> : j \in 1 .. K}
  BY <1>1, GivenType, ZenonT(60)
<1>3. Elements(b) = Elements(a) \cup Elements(g)
  BY <1>2, ElementsConcat
<1>4. /\ Elements(a) \cup l = upto(R) /\ c.rcv_irs = Rand[m][e]
      /\ l = {} => a = [i \in 1 .. R |-> <<e, i>>]
  BY DEF Passed
<1>5. /\ Len(a) \in Nat /\ Len(b) = Len(a) + K
      /\ DOMAIN a = 1 .. Len(a) /\ DOMAIN b = 1 .. Len(b) /\ b \in Seq(Data)
      /\ \A i \in 1 .. Len(b) : b[i] = IF i <= Len(a) THEN a[i] ELSE g[i - Len(a)]
  BY <1>2, ConcatProperties
<1> HIDE DEF g, b, R
<1>6. Elements(b) \cup (l \cup L) = upto(R + N)
  <2>1. upto(R + N) = upto(R) \cup {<<e, R + j>> : j \in 1 .. N}
    <3>1. \A k \in 1 .. R + N : k \in 1 .. R \/ (k - R \in 1 .. N /\ k = R + (k - R))
      BY <1>1
    <3>2. \A k \in 1 .. R : k \in 1 .. R + N
      BY <1>1
    <3>3. \A j \in 1 .. N : R + j \in 1 .. R + N
      BY <1>1
    <3>4. upto(R + N) \subseteq upto(R) \cup {<<e, R + j>> : j \in 1 .. N}
      <4> SUFFICES ASSUME NEW k \in 1 .. R + N
                   PROVE  <<e, k>> \in upto(R) \cup {<<e, R + j>> : j \in 1 .. N}
        OBVIOUS
      <4>1. CASE k \in 1 .. R  BY <4>1
      <4>2. CASE k - R \in 1 .. N /\ k = R + (k - R)
        BY <4>2
      <4> QED  BY <3>1, <4>1, <4>2
    <3> QED  BY <3>2, <3>3, <3>4
  <2>2. {<<e, R + j>> : j \in 1 .. N} = {<<e, R + j>> : j \in 1 .. K} \cup L
    <3>1. \A j \in 1 .. N : j \in 1 .. K \/ j \in K + 1 .. N
      BY <1>1
    <3>2. \A j : (j \in 1 .. K \/ j \in K + 1 .. N) => j \in 1 .. N
      BY <1>1
    <3> QED  BY <3>1, <3>2 DEF Dropped
  <2> QED  BY <1>2, <1>3, <1>4, <2>1, <2>2
<1>7. l \cup L = {} => b = [i \in 1 .. R + N |-> <<e, i>>]
  <2> SUFFICES ASSUME l = {}, L = {} PROVE b = [i \in 1 .. R + N |-> <<e, i>>]
    OBVIOUS
  <2>1. K = N
    <3> SUFFICES ASSUME K # N PROVE FALSE
      OBVIOUS
    <3>1. N \in K + 1 .. N
      BY <1>1
    <3>2. <<e, R + N>> \in L
      BY <3>1 DEF Dropped
    <3> QED  BY <3>2
  <2> DEFINE f == [i \in 1 .. R |-> <<e, i>>]
             h == [i \in 1 .. R + N |-> <<e, i>>]
  <2>2. a = f
    BY <1>4
  <2>3. f \in Seq(Data) /\ Len(f) = R /\ \A i \in 1 .. R : f[i] = <<e, i>>
    <3>1. f \in [1 .. R -> Data] /\ DOMAIN f = 1 .. R /\ \A i \in 1 .. R : f[i] = <<e, i>>
      BY DEF Data
    <3> HIDE DEF f
    <3>2. f \in Seq(Data)
      BY <1>1, <3>1
    <3> QED  BY <1>1, <3>1, <3>2, LenProperties
  <2>4. DOMAIN h = 1 .. R + N /\ \A i \in 1 .. R + N : h[i] = <<e, i>>
    OBVIOUS
  <2> HIDE DEF f, h
  <2>5. Len(a) = R /\ Len(b) = R + N /\ DOMAIN b = 1 .. R + N
    BY <1>5, <2>1, <2>2, <2>3
  <2>6. \A i \in 1 .. R + N : b[i] = h[i]
    <3> TAKE i \in 1 .. R + N
    <3>1. CASE i <= R
      <4>1. i \in 1 .. R /\ b[i] = a[i]
        BY <1>1, <1>5, <2>5, <3>1
      <4> QED  BY <2>2, <2>3, <2>4, <4>1
    <3>2. CASE ~(i <= R)
      <4>1. i - R \in 1 .. K /\ b[i] = g[i - R]
        BY <1>1, <1>5, <2>1, <2>5, <3>2
      <4>2. R + (i - R) = i
        BY <1>1
      <4>3. g[i - R] = <<e, R + (i - R)>>
        BY <1>2, <4>1
      <4> QED  BY <2>4, <4>1, <4>2, <4>3
    <3> QED  BY <3>1, <3>2
  <2>7. b = [i \in 1 .. R + N |-> b[i]]
    BY <1>5, <2>5
  <2>8. h = [i \in 1 .. R + N |-> h[i]]
    BY <2>4 DEF h
  <2>9. b = h
    BY <2>6, <2>7, <2>8
  <2> QED  BY <2>9 DEF h
<1>8. Ordered(b)
  <2> SUFFICES ASSUME NEW i \in DOMAIN b, NEW j \in DOMAIN b, i < j
               PROVE  b[i][1] = b[j][1] /\ b[i][2] < b[j][2]
    BY DEF Ordered
  <2>1. i \in 1 .. Len(b) /\ j \in 1 .. Len(b)
    BY <1>5
  <2>2. ASSUME NEW x \in 1 .. Len(b), x <= Len(a)
        PROVE  x \in DOMAIN a /\ b[x] = a[x] /\ \E k \in 1 .. R : b[x] = <<e, k>>
    <3>1. x \in DOMAIN a /\ b[x] = a[x]
      BY <1>5, <2>2
    <3>2. a[x] \in upto(R)
      BY <1>4, <3>1 DEF Elements
    <3> QED  BY <3>1, <3>2
  <2>3. ASSUME NEW x \in 1 .. Len(b), ~(x <= Len(a))
        PROVE  x - Len(a) \in 1 .. K /\ b[x] = <<e, R + (x - Len(a))>>
    <3>1. x - Len(a) \in 1 .. K /\ b[x] = g[x - Len(a)]
      BY <1>1, <1>5, <2>3
    <3> QED  BY <1>2, <3>1
  <2>4. CASE j <= Len(a)
    <3>1. i <= Len(a)
      BY <1>5, <2>1, <2>4
    <3>2. i \in DOMAIN a /\ j \in DOMAIN a /\ b[i] = a[i] /\ b[j] = a[j]
      BY <2>1, <2>2, <2>4, <3>1
    <3> QED  BY <3>2 DEF Ordered
  <2>5. CASE ~(j <= Len(a)) /\ i <= Len(a)
    <3>1. PICK k \in 1 .. R : b[i] = <<e, k>>
      BY <2>1, <2>2, <2>5
    <3>2. j - Len(a) \in 1 .. K /\ b[j] = <<e, R + (j - Len(a))>>
      BY <2>1, <2>3, <2>5
    <3>3. k < R + (j - Len(a))
      BY <1>1, <1>5, <2>1, <3>2
    <3> QED  BY <3>1, <3>2, <3>3
  <2>6. CASE ~(j <= Len(a)) /\ ~(i <= Len(a))
    <3>1. /\ b[i] = <<e, R + (i - Len(a))>>
          /\ b[j] = <<e, R + (j - Len(a))>>
      BY <2>1, <2>3, <2>6
    <3>2. R + (i - Len(a)) < R + (j - Len(a))
      BY <1>1, <1>5, <2>1
    <3> QED  BY <3>1, <3>2
  <2> QED  BY <2>4, <2>5, <2>6
<1>9. Passed(m, t, d, e, b, l \cup L)
  <2>1. Count(d) = R + N
    BY DEF R
  <2> HIDE DEF L
  <2> QED  BY <1>4, <1>6, <1>7, <2>1 DEF Passed
<1> QED  BY <1>8, <1>9 DEF b, g, R

-----------------------------------------------------------------------------
(***************************************************************************)
(* A packet in sequence.                                                   *)
(***************************************************************************)
\* d is what becomes of c when rcv_cur passes N messages.
Advanced(c, d, N) ==
    /\ d.tx_queue \subseteq c.tx_queue /\ d.rx_queue \subseteq c.rx_queue
    /\ d.snd_iss = c.snd_iss /\ d.snd_nxt = c.snd_nxt
    /\ d.rcv_irs = c.rcv_irs /\ Count(d) = Count(c) + N
    /\ d.open = c.open /\ d.state = "OPEN"

\* What becomes of the queues, and the only packet that may be sent.
Consumed(n, p, c, d, e, N) ==
    /\ d.tx_queue = c.tx_queue /\ d.snd_una = Mod16(p.ack + 1)
    /\ \A x \in c.rx_queue :
          x \in d.rx_queue \/ \E j \in 1 .. N : x.data = <<e, Count(c) + j>>
    /\ \A q \in net' :
          q \in net \/ q = Cmp(n, {"ack"}, c.snd_nxt, Mod16(c.rcv_cur + 1))

\* What an arriving packet has to do with the peer of n.
LEMMA ArrivedPacket ==
  ASSUME JInv, NEW n \in Node, NEW p \in net, p.dst = n
  PROVE  /\ p \in Packet /\ p.data \in Data /\ p.seq \in SeqNr
         /\ p.data # NoData => IsMessage(Peer(n), sent[Peer(n)], p.seq, p.data)
<1>1. p \in Packet
  BY DEF JInv, IInv, TypeOK
<1>2. Genuine(Peer(n), sent[Peer(n)], p)
  BY DEF JInv, Packets
<1> QED  BY <1>1, <1>2, PacketFields DEF Genuine

\* The packet in sequence is the next message of the connection, and the run
\* that csp_rdp_rx_queue_flush finds behind it are the messages after it.
LEMMA RunOfMessages ==
  ASSUME DistinctNumbers, JInv, NEW m \in Node,
         NEW c \in Conn, \A x \in c.rx_queue : Waiting(m, sent[m], x),
         NEW e \in 1 .. Len(sent[m]), NEW R \in Nat, R <= sent[m][e],
         c.rcv_cur = Number(m, e, R), NEW r \in Nat, IsRun(c, r)
  PROVE  /\ R + r <= sent[m][e]
         /\ \A j \in 1 .. r : Following(c, j) = <<e, R + j>>
         /\ \A j \in 1 .. r : \A x \in Stored(c, j) : x.data = <<e, R + j>>
<1> DEFINE t == sent[m]
           top == MaxSend[m]
<1>1. t \in Seq(Nat)
  BY DEF JInv, IInv, TypeOK
<1>2. t[e] \in Nat /\ top \in Nat /\ t[e] <= top /\ Len(t) <= Len(Rand[m])
  BY <1>1, RdpAssumption DEF JInv, Bounds
<1>3. e \in DOMAIN Rand[m] /\ Rand[m][e] \in Int
  <2>1. Rand[m] \in Seq(SeqNr)
    BY RdpAssumption
  <2>2. e \in DOMAIN Rand[m]
    BY <1>1, <1>2, <2>1
  <2> QED  BY <2>1, <2>2, SeqNrLemma
<1>4. ASSUME NEW j \in 1 .. r, R + j <= top + 1
      PROVE  /\ Following(c, j) = <<e, R + j>> /\ R + j <= t[e]
             /\ \A x \in Stored(c, j) : x.data = <<e, R + j>>
  <2>1. Stored(c, j) # {}
    BY DEF IsRun
  <2>2. ASSUME NEW x \in Stored(c, j)
        PROVE  x.data = <<e, R + j>> /\ R + j <= t[e]
    <3>1. /\ IsMessage(m, t, x.seq, x.data) /\ x.data \in Data
          /\ x.seq = Mod16(c.rcv_cur + j)
      BY DEF Stored, Waiting, Conn, RxElement
    <3>2. x.seq = Number(m, e, R + j)
      <4> DEFINE q == Rand[m][e] + R
      <4>1. q \in Int /\ j \in Int /\ q + j = Rand[m][e] + (R + j)
        BY <1>3
      <4>2. c.rcv_cur = Mod16(q)
        BY DEF Number
      <4> HIDE DEF q
      <4>3. Mod16(c.rcv_cur + j) = Mod16(q + j)
        BY <4>1, <4>2, Mod16Sums
      <4> QED  BY <3>1, <4>1, <4>3 DEF Number
    <3>3. j \in Nat \ {0} /\ R <= t[e]
      OBVIOUS
    <3> QED  BY <1>4, <3>1, <3>2, <3>3, NextMessages
  <2> QED  BY <2>1, <2>2 DEF Following
<1>5. R + r <= top
  <2> SUFFICES ASSUME R + r > top PROVE FALSE
    BY <1>2
  <2> DEFINE j == top + 1 - R
  <2>1. R <= top
    BY <1>2
  <2>2. j \in 1 .. r /\ R + j = top + 1
    <3>1. \A T \in Nat : R <= T /\ R + r > T => T + 1 - R \in 1 .. r /\ R + (T + 1 - R) = T + 1
      OBVIOUS
    <3> QED  BY <1>2, <2>1, <3>1
  <2>3. R + j <= t[e]
    <3>1. R + j <= top + 1
      BY <1>2, <2>2
    <3> HIDE DEF j, top
    <3> QED  BY <1>4, <2>2, <3>1
  <2> QED  BY <1>2, <2>2, <2>3
<1>6. \A j \in 1 .. r : /\ Following(c, j) = <<e, R + j>> /\ R + j <= t[e]
                         /\ \A x \in Stored(c, j) : x.data = <<e, R + j>>
  <2> TAKE j \in 1 .. r
  <2>1. R + j <= top + 1
    BY <1>2, <1>5
  <2> QED  BY <1>4, <2>1
<1>7. R + r <= t[e]
  <2>1. CASE r = 0  BY <2>1
  <2>2. CASE r # 0  BY <1>6, <2>2
  <2> QED  BY <2>1, <2>2
<1> QED  BY <1>6, <1>7

\* Fields after the flush.
LEMMA FlushedFields ==
  ASSUME NEW c \in Conn, NEW r, NEW k
  PROVE  LET d == Flushed(c, r, k) IN
         /\ d.tx_queue = c.tx_queue /\ d.rx_queue \subseteq c.rx_queue
         /\ d.snd_iss = c.snd_iss /\ d.snd_nxt = c.snd_nxt
         /\ d.rcv_irs = c.rcv_irs /\ d.rcv_cur = Mod16(c.rcv_cur + r)
         /\ d.open = c.open /\ d.state = c.state
BY DEF Flushed, Conn

\* The step as a whole: the next N messages are passed, K of them to the user.
LEMMA InOrderStep ==
  ASSUME DistinctNumbers, JInv, NEW n \in Node, NEW p \in net,
         RecvInOrder(n, p)
  PROVE  \E e \in 1 .. Len(sent[Peer(n)]), N \in Nat \ {0} : \E K \in 1 .. N, d \in Conn :
              /\ Passed(Peer(n), sent[Peer(n)], conn[n], e, accepted[n], lost[n])
              /\ Count(conn[n]) + N <= sent[Peer(n)][e]
              /\ Advanced(conn[n], d, N) /\ Consumed(n, p, conn[n], d, e, N)
              /\ conn' = [conn EXCEPT ![n] = d]
              /\ accepted' = [accepted EXCEPT ![n] = @ \o Given(e, Count(conn[n]), K)]
              /\ lost' = [lost EXCEPT ![n] = @ \cup Dropped(e, Count(conn[n]), K, N)]
              /\ UNCHANGED sent
<1> DEFINE m == Peer(n)
           t == sent[m]
           c == conn[n]
           o == Opened(n, p)
           R == Count(c)
<1>1. /\ Valid(n, p) /\ p.data # NoData /\ InOrder(c, p) /\ UNCHANGED sent
      /\ p.dst = n /\ c.state \in InSync
  BY DEF RecvInOrder, Valid, Segment, Synced, InSync
<1>2. /\ m \in Node /\ t \in Seq(Nat) /\ c \in Conn
      /\ End(n, m, sent[n], t, c, accepted[n], lost[n])
  BY Parts
<1>3. o \in Conn /\ o.tx_queue = c.tx_queue /\ o.rx_queue = c.rx_queue
      /\ o.open = c.open /\ o.state = "OPEN" /\ o.snd_iss = c.snd_iss
      /\ o.snd_nxt = c.snd_nxt /\ o.rcv_irs = c.rcv_irs /\ o.snd_una = Mod16(p.ack + 1)
  <2>1. o \in Conn
    BY OpenedType DEF JInv, IInv
  <2> QED  BY <1>2, <2>1 DEF Opened, Conn
<1>4. p.seq \in SeqNr /\ p.data \in Data /\ IsMessage(m, t, p.seq, p.data)
  BY <1>1, ArrivedPacket
<1>5. PICK e \in 1 .. Len(t) : Passed(m, t, c, e, accepted[n], lost[n])
  BY <1>1, <1>2 DEF End, Got
<1>6. R \in Nat /\ R < 65536 /\ R <= t[e] /\ c.rcv_irs = Rand[m][e] /\ t[e] \in Nat
  <2>1. \A i \in SeqNr : i \in Nat /\ i < 65536
    BY Mod16Sums
  <2>2. Count(c) \in SeqNr
    BY <1>2, CountType
  <2>3. Count(c) <= t[e] /\ c.rcv_irs = Rand[m][e]
    BY <1>5 DEF Passed
  <2>4. t[e] \in Nat
    BY <1>2
  <2> QED  BY <2>1, <2>2, <2>3, <2>4
<1> DEFINE first == [o EXCEPT !.in_queue = Append(@, p.data), !.rcv_cur = p.seq]
           room == ConnQueueLength - Len(first.in_queue)
           fits(r) == IF r <= room THEN r ELSE room
<1>7. PICK late \in BOOLEAN, r \in 0 .. 2 * MaxWindow :
         /\ IsRun(first, r)
         /\ Take(n, p, Flushed(CheckAck(first, late), r, fits(r)), CheckAckOut(n, first, late))
         /\ accepted' = [accepted EXCEPT ![n] =
               Append(@, p.data) \o [j \in 1 .. fits(r) |-> Following(first, j)]]
         /\ lost' = [lost EXCEPT ![n] =
               @ \cup {Following(first, j) : j \in fits(r) + 1 .. r}]
  BY DEF RecvInOrder
<1>8. Len(c.in_queue) < ConnQueueLength
  BY DEF RecvInOrder
<1>9. /\ first \in Conn /\ first.rcv_cur = p.seq /\ first.tx_queue = o.tx_queue
      /\ first.rx_queue = o.rx_queue /\ first.open = o.open /\ first.state = o.state
      /\ first.snd_iss = o.snd_iss /\ first.snd_nxt = o.snd_nxt
      /\ first.rcv_irs = o.rcv_irs /\ first.in_queue = Append(c.in_queue, p.data)
      /\ first.snd_una = o.snd_una
  <2>1. o.in_queue = c.in_queue /\ c.in_queue \in Seq(Data)
    BY <1>2 DEF Opened, Conn
  <2>2. Append(c.in_queue, p.data) \in Seq(Data)
    BY <1>4, <2>1
  <2> DEFINE q == Append(c.in_queue, p.data)
             f == [o EXCEPT !.in_queue = q, !.rcv_cur = p.seq]
  <2>3. first = f
    BY <2>1
  <2> HIDE DEF q, o
  <2>4. /\ f \in Conn /\ f.rcv_cur = p.seq /\ f.tx_queue = o.tx_queue
        /\ f.rx_queue = o.rx_queue /\ f.open = o.open /\ f.state = o.state
        /\ f.snd_iss = o.snd_iss /\ f.snd_nxt = o.snd_nxt
        /\ f.rcv_irs = o.rcv_irs /\ f.in_queue = q /\ f.snd_una = o.snd_una
    BY <1>3, <1>4, <2>2 DEF Conn, q
  <2> HIDE DEF f, first
  <2> QED  BY <2>3, <2>4 DEF q
<1> HIDE DEF first, o
<1>10. r \in Nat /\ room \in Nat /\ fits(r) \in 0 .. r
  <2>1. c.in_queue \in Seq(Data) /\ ConnQueueLength \in Nat
    BY <1>2, RdpAssumption DEF Conn
  <2>2. Len(first.in_queue) = Len(c.in_queue) + 1 /\ Len(c.in_queue) \in Nat
    BY <1>4, <1>9, <2>1
  <2>3. room \in Nat
    BY <1>8, <2>1, <2>2
  <2>4. r \in Nat
    BY RdpAssumption
  <2> HIDE DEF room
  <2> QED  BY <2>3, <2>4
<1> HIDE DEF fits
<1> DEFINE k == fits(r)
\* The packet itself.
<1>11. p.data = <<e, R + 1>> /\ R + 1 <= t[e] /\ p.seq = Number(m, e, R + 1)
  <2>1. p.seq = Number(m, e, R + 1)
    <3>1. p.seq = Mod16(c.rcv_cur + 1)
      BY <1>1 DEF InOrder
    <3>2. \A j \in Nat : Mod16(c.rcv_cur + j) = Number(m, e, R + j)
      <4>1. c \in Conn /\ c.rcv_irs = Rand[m][e]
        BY <1>2, <1>6
      <4> HIDE DEF c, m
      <4> QED  BY <4>1, CountNumber
    <3>3. 1 \in Nat
      OBVIOUS
    <3> HIDE DEF R
    <3> QED  BY <3>1, <3>2, <3>3
  <2>2. R + 1 <= MaxSend[m] + 1
    <3>1. t[e] <= MaxSend[m]
      BY <1>2 DEF JInv, Bounds
    <3>2. m \in Node /\ MaxSend[m] \in Nat
      BY <1>2, RdpAssumption
    <3> HIDE DEF R, m, t
    <3> QED  BY <1>6, <3>1, <3>2
  <2>3. 1 \in Nat \ {0}
    OBVIOUS
  <2> HIDE DEF R, m
  <2> QED  BY <1>2, <1>4, <1>6, <2>1, <2>2, <2>3, NextMessages
\* The packets stored behind it.
<1>12a. /\ R + 1 + r <= t[e] /\ R + 1 + r < 65536
        /\ \A j \in 1 .. r : Following(first, j) = <<e, R + 1 + j>>
        /\ \A j \in 1 .. r : \A x \in Stored(first, j) : x.data = <<e, R + 1 + j>>
  <2>1. \A x \in first.rx_queue : Waiting(m, t, x)
    BY <1>2, <1>3, <1>9 DEF End
  <2>2. first.rcv_cur = Number(m, e, R + 1)
    BY <1>9, <1>11
  <2>3. IsRun(first, r) /\ first \in Conn /\ r \in Nat
    BY <1>7, <1>9, <1>10
  <2>4. R \in Nat /\ R + 1 <= t[e]
    BY <1>6, <1>11
  <2>5. m \in Node
    BY <1>2
  <2> DEFINE Q == R + 1
  <2>6. Q \in Nat /\ Q <= t[e] /\ first.rcv_cur = Number(m, e, Q)
    BY <2>2, <2>4
  <2> HIDE DEF Q, m
  <2>7. /\ Q + r <= t[e]
        /\ \A j \in 1 .. r : Following(first, j) = <<e, Q + j>>
        /\ \A j \in 1 .. r : \A x \in Stored(first, j) : x.data = <<e, Q + j>>
    BY <2>1, <2>3, <2>5, <2>6, RunOfMessages
  <2>8. t[e] < 65536
    BY <2>5, FewSent
  <2> HIDE DEF R
  <2>9. Q + r < 65536
    BY <1>6, <2>3, <2>6, <2>7, <2>8
  <2> QED  BY <2>7, <2>9 DEF Q
<1>12. /\ R + 1 + r <= t[e] /\ R + 1 + r < 65536
       /\ \A j \in 1 .. r : Following(first, j) = <<e, R + 1 + j>>
  BY <1>12a
<1> DEFINE d == Flushed(CheckAck(first, late), r, k)
           N == r + 1
           K == k + 1
<1>13. N \in Nat \ {0} /\ K \in 1 .. N
  BY <1>10
<1>14. d \in Conn /\ conn' = [conn EXCEPT ![n] = d]
  <2>1. CheckAck(first, late) \in Conn
    BY <1>9, CheckAckType
  <2>2. IsRun(CheckAck(first, late), r)
    BY <1>7, <1>9 DEF IsRun, Stored, CheckAck, Acked, Conn
  <2> QED  BY <1>7, <1>10, <2>1, <2>2, FlushedType DEF Take
<1>15. Advanced(c, d, N)
  <2> DEFINE b == CheckAck(first, late)
  <2>1. /\ b \in Conn /\ b.tx_queue = first.tx_queue /\ b.rx_queue = first.rx_queue
        /\ b.snd_iss = first.snd_iss /\ b.snd_nxt = first.snd_nxt
        /\ b.rcv_irs = first.rcv_irs /\ b.rcv_cur = first.rcv_cur
        /\ b.open = first.open /\ b.state = first.state
    BY <1>9, CheckAckType DEF CheckAck, Acked, Conn
  <2> HIDE DEF b
  <2>2. /\ d.tx_queue = b.tx_queue /\ d.rx_queue \subseteq b.rx_queue
        /\ d.snd_iss = b.snd_iss /\ d.snd_nxt = b.snd_nxt
        /\ d.rcv_irs = b.rcv_irs /\ d.rcv_cur = Mod16(b.rcv_cur + r)
        /\ d.open = b.open /\ d.state = b.state
    BY <2>1, FlushedFields DEF b
  <2> HIDE DEF d
  <2>3. Count(d) = R + N
    <3> DEFINE irs == Rand[m][e]
    <3>1. irs \in Int /\ d.rcv_irs = irs
      BY <1>2, <1>3, <1>6, <1>9, <2>1, <2>2, SeqNrLemma DEF Conn
    <3>2. d.rcv_cur = Mod16(Mod16(irs + (R + 1)) + r)
      BY <1>9, <1>11, <2>1, <2>2 DEF Number
    <3> HIDE DEF irs, R
    <3>3. Mod16(Mod16(irs + (R + 1)) + r) = Mod16((irs + (R + 1)) + r)
      <4>1. irs + (R + 1) \in Int /\ r \in Int
        BY <1>6, <1>10, <3>1
      <4> QED  BY <4>1, Mod16Sums
    <3>4. (irs + (R + 1)) + r = irs + (R + N)
      BY <1>6, <1>10, <3>1
    <3>5. d.rcv_cur = Mod16(irs + (R + N))
      BY <3>2, <3>3, <3>4
    <3>6. Mod16(Mod16(irs + (R + N)) - irs) = Mod16(R + N)
      <4>1. R + N \in Int
        BY <1>6, <1>10
      <4> QED  BY <3>1, <4>1, Mod16Sums
    <3>7. R + N \in Int /\ 0 <= R + N /\ R + N < 65536
      BY <1>6, <1>10, <1>12
    <3>8. Mod16(R + N) = R + N
      BY <3>7, Mod16Sums
    <3> QED  BY <3>1, <3>5, <3>6, <3>8 DEF Count
  <2>4. Count(d) = Count(c) + N
    BY <2>3
  <2> QED  BY <1>3, <1>9, <2>1, <2>2, <2>4 DEF Advanced
\* What the user is given, and what is dropped.
<1>16. Append(accepted[n], p.data) \o [j \in 1 .. k |-> Following(first, j)]
          = accepted[n] \o Given(e, R, K)
  <2> DEFINE a == accepted[n]
             f == [j \in 1 .. k |-> Following(first, j)]
             g == Given(e, R, K)
             x == Append(a, p.data)
  <2>1. a \in Seq(Data) /\ p.data \in Data /\ k \in Nat /\ K = k + 1
    BY <1>4, <1>10 DEF JInv, IInv, TypeOK
  <2>2. f \in Seq(Data) /\ Len(f) = k /\ \A j \in 1 .. k : f[j] = <<e, R + 1 + j>>
    <3>1. \A j \in 1 .. k : Following(first, j) = <<e, R + 1 + j>> /\ <<e, R + 1 + j>> \in Data
      <4> HIDE DEF R, t, k
      <4> TAKE j \in 1 .. k
      <4>1. j \in 1 .. r /\ j \in Nat
        BY <1>10 DEF k
      <4>2. R + 1 + j \in Nat /\ e \in Nat
        BY <1>6, <4>1
      <4> QED  BY <1>12, <4>1, <4>2 DEF Data
    <3>2. f \in [1 .. k -> Data]
      BY <3>1
    <3>3. DOMAIN f = 1 .. k /\ \A j \in 1 .. k : f[j] = <<e, R + 1 + j>>
      BY <3>1
    <3>4. f \in Seq(Data)
      BY <2>1, <3>2
    <3> HIDE DEF f
    <3> QED  BY <2>1, <3>3, <3>4, LenProperties
  <2>3. g \in Seq(Data) /\ Len(g) = K /\ \A j \in 1 .. K : g[j] = <<e, R + j>>
    <3>1. e \in Nat /\ R \in Nat /\ K \in Nat
      BY <1>6, <2>1
    <3> HIDE DEF K, R
    <3> QED  BY <3>1, GivenType
  <2>4. /\ x \in Seq(Data) /\ Len(x) = Len(a) + 1 /\ x[Len(a) + 1] = p.data
        /\ \A i \in 1 .. Len(a) : x[i] = a[i]
    BY <2>1, AppendProperties
  <2> HIDE DEF a, f, g, x, k, K, R
  <2>5. /\ x \o f \in Seq(Data) /\ Len(x \o f) = Len(x) + Len(f)
        /\ \A i \in 1 .. Len(x) + Len(f) :
              (x \o f)[i] = IF i <= Len(x) THEN x[i] ELSE f[i - Len(x)]
    BY <2>2, <2>4, ConcatProperties
  <2>6. /\ a \o g \in Seq(Data) /\ Len(a \o g) = Len(a) + Len(g)
        /\ \A i \in 1 .. Len(a) + Len(g) :
              (a \o g)[i] = IF i <= Len(a) THEN a[i] ELSE g[i - Len(a)]
    BY <2>1, <2>3, ConcatProperties
  <2>7. Len(x \o f) = Len(a \o g) /\ Len(a) \in Nat
    BY <2>1, <2>2, <2>3, <2>4, <2>5, <2>6
  <2>8. \A i \in 1 .. Len(x \o f) : (x \o f)[i] = (a \o g)[i]
    <3> TAKE i \in 1 .. Len(x \o f)
    <3>1. i \in 1 .. Len(a) + K /\ i \in 1 .. Len(x) + Len(f) /\ i \in 1 .. Len(a) + Len(g)
      BY <2>2, <2>3, <2>4, <2>5, <2>6, <2>7
    <3>2. CASE i <= Len(a)
      <4>1. i \in 1 .. Len(a) /\ i <= Len(x)
        BY <2>4, <2>7, <3>1, <3>2
      <4> QED  BY <2>4, <2>5, <2>6, <3>1, <3>2, <4>1
    <3>3. CASE i = Len(a) + 1
      <4>1. i <= Len(x) /\ ~(i <= Len(a)) /\ i - Len(a) = 1
        BY <2>4, <2>7, <3>3
      <4>2. (x \o f)[i] = p.data
        BY <2>4, <2>5, <3>1, <3>3, <4>1
      <4>3. (a \o g)[i] = g[1] /\ 1 \in 1 .. K
        BY <2>1, <2>6, <3>1, <4>1
      <4> QED  BY <1>11, <2>3, <4>2, <4>3
    <3>4. CASE i > Len(a) + 1
      <4>1. ~(i <= Len(x)) /\ ~(i <= Len(a)) /\ i - Len(x) \in 1 .. k /\ i - Len(a) \in 1 .. K
        BY <2>1, <2>4, <2>7, <3>1, <3>4
      <4>2. (x \o f)[i] = <<e, R + 1 + (i - Len(x))>>
        BY <2>2, <2>5, <3>1, <4>1
      <4>3. (a \o g)[i] = <<e, R + (i - Len(a))>>
        BY <2>3, <2>6, <3>1, <4>1
      <4>4. R + 1 + (i - Len(x)) = R + (i - Len(a))
        BY <1>6, <2>4, <2>7
      <4> QED  BY <4>2, <4>3, <4>4
    <3> QED  BY <2>7, <3>2, <3>3, <3>4
  <2>9. x \o f = a \o g
    BY <2>5, <2>6, <2>7, <2>8, SeqEqual
  <2> QED  BY <2>9 DEF x, f, a, g
<1>17. {Following(first, j) : j \in k + 1 .. r} = Dropped(e, R, K, N)
  <2> HIDE DEF R
  <2>1. k \in Nat /\ r \in Nat /\ R \in Nat
    BY <1>6, <1>10
  <2>2. \A j \in k + 1 .. r : Following(first, j) = <<e, R + (j + 1)>> /\ j + 1 \in K + 1 .. N
    <3> TAKE j \in k + 1 .. r
    <3> DEFINE l == k
    <3>1. l \in Nat /\ j \in l + 1 .. r /\ K = l + 1
      BY <2>1
    <3> HIDE DEF l, k
    <3>2. j \in 1 .. r /\ R + 1 + j = R + (j + 1) /\ j + 1 \in l + 2 .. r + 1
      BY <2>1, <3>1
    <3>3. K + 1 = l + 2 /\ N = r + 1
      BY <3>1
    <3>4. Following(first, j) = <<e, R + 1 + j>>
      BY <1>12, <3>2
    <3> HIDE DEF K, N
    <3> QED  BY <3>2, <3>3, <3>4
  <2>3. \A i \in K + 1 .. N : i - 1 \in k + 1 .. r /\ Following(first, i - 1) = <<e, R + i>>
    BY <1>12, <2>1
  <2> HIDE DEF k, K, N
  <2> QED  BY <2>2, <2>3 DEF Dropped
<1>18. /\ accepted' = [accepted EXCEPT ![n] = @ \o Given(e, R, K)]
       /\ lost' = [lost EXCEPT ![n] = @ \cup Dropped(e, R, K, N)]
  <2> HIDE DEF R, K, N
  <2> QED  BY <1>7, <1>16, <1>17
<1>19. R + N <= t[e]
  BY <1>6, <1>10, <1>12
\* The queues, and the acknowledgement.
<1>20. Consumed(n, p, c, d, e, N)
  <2> DEFINE b == CheckAck(first, late)
  <2>1. /\ b \in Conn /\ b.tx_queue = first.tx_queue /\ b.rx_queue = first.rx_queue
        /\ b.snd_una = first.snd_una /\ b.rcv_cur = first.rcv_cur
    BY <1>9, CheckAckType DEF CheckAck, Acked, Conn
  <2> HIDE DEF b
  <2>2. /\ d.tx_queue = b.tx_queue /\ d.snd_una = b.snd_una
        /\ d.rx_queue = {x \in b.rx_queue : \A j \in 1 .. r : x \notin Stored(b, j)}
    BY <2>1 DEF Flushed, Conn, b
  <2>3. \A j : Stored(b, j) = Stored(first, j)
    BY <2>1 DEF Stored
  <2> HIDE DEF d
  <2>4. ASSUME NEW x \in c.rx_queue, x \notin d.rx_queue
        PROVE  \E j \in 1 .. N : x.data = <<e, R + j>>
    <3>1. PICK j \in 1 .. r : x \in Stored(first, j)
      BY <1>3, <1>9, <2>1, <2>2, <2>3, <2>4
    <3>2. x.data = <<e, R + 1 + j>>
      BY <1>12a, <3>1
    <3> HIDE DEF R
    <3>3. j + 1 \in 1 .. N /\ R + 1 + j = R + (j + 1)
      BY <1>6, <1>10
    <3> HIDE DEF N
    <3> QED  BY <3>2, <3>3
  <2>5. ASSUME NEW q \in net', q \notin net
        PROVE  q = Cmp(n, {"ack"}, c.snd_nxt, Mod16(c.rcv_cur + 1))
    <3>1. net' \subseteq net \cup CheckAckOut(n, first, late)
      BY <1>7, OnTheLink DEF Take
    <3>2. q = AckMsg(n, first)
      BY <2>5, <3>1 DEF CheckAckOut
    <3> QED  BY <1>1, <1>3, <1>9, <3>2 DEF AckMsg, InOrder
  <2> QED  BY <1>3, <1>9, <2>1, <2>2, <2>4, <2>5 DEF Consumed
<1> HIDE DEF d, N, K, R
<1> QED  BY <1>1, <1>5, <1>13, <1>14, <1>15, <1>18, <1>19, <1>20 DEF R

\* Advancing keeps the invariant of an end.
LEMMA AdvancedEnd ==
  ASSUME NEW n, NEW m, NEW s, NEW t, NEW c, NEW d, NEW N, NEW a, NEW l, NEW b, NEW k,
         End(n, m, s, t, c, a, l), Advanced(c, d, N), Got(m, t, d, b, k), Ordered(b)
  PROVE  End(n, m, s, t, d, b, k)
BY DEF End, Advanced, Numbered, InSync

\* A packet in sequence keeps the invariant.
LEMMA RecvInOrderStream ==
  ASSUME DistinctNumbers, JInv, NEW n \in Node, NEW p \in net, RecvInOrder(n, p)
  PROVE  Bounds' /\ Packets' /\ Ends'
<1> DEFINE m == Peer(n)
           s == sent[n]
           t == sent[m]
           c == conn[n]
           a == accepted[n]
           l == lost[n]
           R == Count(c)
<1>1. /\ m \in Node /\ m # n /\ t \in Seq(Nat) /\ c \in Conn /\ End(n, m, s, t, c, a, l)
      /\ a \in Seq(Data)
  BY Parts, PeerPeer DEF JInv, IInv, TypeOK
<1>0. PICK e \in 1 .. Len(t), N \in Nat \ {0} : \E K \in 1 .. N, d \in Conn :
        /\ Passed(m, t, c, e, a, l) /\ R + N <= t[e] /\ Advanced(c, d, N)
        /\ conn' = [conn EXCEPT ![n] = d]
        /\ accepted' = [accepted EXCEPT ![n] = @ \o Given(e, R, K)]
        /\ lost' = [lost EXCEPT ![n] = @ \cup Dropped(e, R, K, N)]
        /\ UNCHANGED sent
  BY InOrderStep
<1>2. PICK K \in 1 .. N, d \in Conn :
        /\ Passed(m, t, c, e, a, l) /\ R + N <= t[e] /\ Advanced(c, d, N)
        /\ conn' = [conn EXCEPT ![n] = d]
        /\ accepted' = [accepted EXCEPT ![n] = @ \o Given(e, R, K)]
        /\ lost' = [lost EXCEPT ![n] = @ \cup Dropped(e, R, K, N)]
        /\ UNCHANGED sent
  BY <1>0
<1> DEFINE b == a \o Given(e, R, K)
           k == l \cup Dropped(e, R, K, N)
<1>3. R \in Nat
  <2>1. Count(c) \in SeqNr
    BY <1>1, CountType
  <2> HIDE DEF c
  <2> QED  BY <2>1, Mod16Sums
<1>4. Passed(m, t, d, e, b, k) /\ Ordered(b)
  <2>1. d.rcv_irs = c.rcv_irs /\ Count(d) = Count(c) + N /\ Count(d) <= t[e]
    BY <1>2 DEF Advanced
  <2>2. Ordered(a) /\ K \in 0 .. N /\ e \in Nat
    BY <1>1 DEF End
  <2> HIDE DEF m, t, c, a, l
  <2> QED  BY <1>1, <1>2, <1>3, <2>1, <2>2, PassedMore
<1>5. End(n, m, s, t, d, b, k)
  <2>1. Got(m, t, d, b, k)
    BY <1>4 DEF Got
  <2> HIDE DEF m, s, t, c, a, l, b, k
  <2> QED  BY <1>1, <1>2, <1>4, <2>1, AdvancedEnd
<1>6. Bounds'
  BY <1>2 DEF JInv, Bounds
<1>7. Packets'
  <2> DEFINE f == [Opened(n, p) EXCEPT !.in_queue = Append(@, p.data), !.rcv_cur = p.seq]
  <2>1. \E late, g : Take(n, p, g, CheckAckOut(n, f, late))
    BY DEF RecvInOrder
  <2>2. PICK late, g : Take(n, p, g, CheckAckOut(n, f, late))
    BY <2>1
  <2> DEFINE M == CheckAckOut(n, f, late)
  <2>3. Sends(n, sent'[n], M)
    BY MsgGenuine
  <2>4. net' = Transmit(net \ {p}, M)
    BY <2>2 DEF Take
  <2> HIDE DEF M
  <2>5. net' \subseteq net \cup M
    BY <2>4, OnTheLink
  <2>6. sent' \in [Node -> Seq(Nat)] /\ \A i \in Node : Grows(sent[i], sent'[i])
    BY <1>2, GrowsSelf DEF JInv, IInv, TypeOK
  <2> QED  BY <2>3, <2>5, <2>6, PacketsStep
<1>8. Ends'
  <2>1. conn'[n] = d /\ accepted'[n] = b /\ lost'[n] = k
    BY <1>2 DEF JInv, IInv, TypeOK
  <2>2. \A i \in Node : i # n => conn'[i] = conn[i] /\ accepted'[i] = accepted[i]
                                   /\ lost'[i] = lost[i]
    BY <1>2 DEF JInv, IInv, TypeOK
  <2> SUFFICES ASSUME NEW i \in Node
               PROVE  End(i, Peer(i), sent[i], sent[Peer(i)], conn'[i], accepted'[i], lost'[i])
    BY <1>2 DEF Ends
  <2>3. CASE i = n  BY <1>5, <2>1, <2>3
  <2>4. CASE i # n
    <3>1. End(i, Peer(i), sent[i], sent[Peer(i)], conn[i], accepted[i], lost[i])
      BY DEF JInv, Ends
    <3> HIDE DEF b, k
    <3> QED  BY <2>2, <2>4, <3>1
  <2> QED  BY <2>3, <2>4
<1> QED  BY <1>6, <1>7, <1>8

\* A packet that passes all checks.
LEMMA RecvValidStream ==
  ASSUME DistinctNumbers, JInv, NEW n \in Node, NEW p \in net,
         \/ RecvAck(n, p)
         \/ RecvOutOfOrder(n, p)
         \/ RecvQueueFull(n, p)
         \/ RecvInOrder(n, p)
  PROVE  Bounds' /\ Packets' /\ Ends'
<1> DEFINE c == Opened(n, p)
           s == sent[n]
           t == sent[Peer(n)]
<1>1. c \in Conn /\ conn[n] \in Conn
  BY OpenedType, Parts DEF JInv, IInv
<1>2. Quiet(conn[n], c)
  <2>1. conn[n].state \in InSync
    BY DEF RecvAck, RecvOutOfOrder, RecvQueueFull, RecvInOrder, Valid, Segment, Synced, InSync
  <2> QED  BY <1>1, <2>1, QuietOpened
<1> HIDE DEF c
<1>3. CASE RecvAck(n, p)
  <2> DEFINE d == [c EXCEPT !.tx_queue = {x \in @ : x.seq \notin p.eacks}]
  <2>1. Take(n, p, d, {}) /\ UNCHANGED hist
    BY <1>3 DEF RecvAck, c
  <2>2. {x \in c.tx_queue : x.seq \notin p.eacks} \in SUBSET c.tx_queue
    OBVIOUS
  <2>3. Quiet(c, d)
    BY <1>1, <2>2, QuietUpdates
  <2> HIDE DEF d
  <2>4. Quiet(conn[n], d)
    BY <1>2, <2>3, QuietTrans
  <2>5. Sends(n, s, {})
    BY MsgGenuine
  <2> QED  BY <2>1, <2>4, <2>5, TakeQuietly
<1>4. CASE RecvQueueFull(n, p)
  <2>1. Take(n, p, c, {}) /\ UNCHANGED hist
    BY <1>4 DEF RecvQueueFull, c
  <2>2. Sends(n, s, {})
    BY MsgGenuine
  <2> QED  BY <1>2, <2>1, <2>2, TakeQuietly
<1>5. CASE RecvOutOfOrder(n, p)
  <2> DEFINE x == [seq |-> p.seq, data |-> p.data]
             d == [c EXCEPT !.rx_queue = @ \cup {x}]
  <2>1. /\ p.data # NoData /\ p.dst = n /\ UNCHANGED hist
        /\ \/ Take(n, p, Acked(d), {EackMsg(n, d)})
           \/ \E late \in BOOLEAN : Take(n, p, CheckAck(c, late), CheckAckOut(n, c, late))
    BY <1>5 DEF RecvOutOfOrder, Valid, Segment, Synced, c
  <2>2. ASSUME NEW late, Take(n, p, CheckAck(c, late), CheckAckOut(n, c, late))
        PROVE  Bounds' /\ Packets' /\ Ends'
    <3>1. Quiet(conn[n], CheckAck(c, late)) /\ Sends(n, s, CheckAckOut(n, c, late))
      BY <1>1, <1>2, QuietUpdates, QuietTrans, MsgGenuine
    <3> QED  BY <2>1, <2>2, <3>1, TakeQuietly
  <2>3. ASSUME Take(n, p, Acked(d), {EackMsg(n, d)})
        PROVE  Bounds' /\ Packets' /\ Ends'
    <3>1. x \in RxElement /\ Waiting(Peer(n), t, x)
      <4>1. p.seq \in SeqNr /\ p.data \in Data /\ IsMessage(Peer(n), t, p.seq, p.data)
        BY <2>1, ArrivedPacket
      <4> QED  BY <2>1, <4>1 DEF RxElement, Waiting
    <3> HIDE DEF x
    <3>2. /\ d \in Conn /\ d.tx_queue = c.tx_queue /\ d.rx_queue = c.rx_queue \cup {x}
          /\ d.snd_iss = c.snd_iss /\ d.snd_nxt = c.snd_nxt /\ d.open = c.open
          /\ d.rcv_irs = c.rcv_irs /\ d.rcv_cur = c.rcv_cur /\ d.state = c.state
      BY <1>1, <3>1 DEF Conn
    <3> DEFINE M == {EackMsg(n, d)}
    <3>3. Sends(n, s, M)
      BY MsgGenuine
    <3> HIDE DEF d
    <3>4. End(n, Peer(n), s, t, c, accepted[n], lost[n])
      <4>1. End(n, Peer(n), s, t, conn[n], accepted[n], lost[n])
        BY Parts
      <4> QED  BY <1>2, <4>1, QuietEnd
    <3>5. End(n, Peer(n), s, t, d, accepted[n], lost[n])
      <4>1. \A y \in d.rx_queue : Waiting(Peer(n), t, y)
        BY <3>1, <3>2, <3>4 DEF End
      <4>2. Count(d) = Count(c)
        BY <3>2 DEF Count
      <4>3. Got(Peer(n), t, c, accepted[n], lost[n]) => Got(Peer(n), t, d, accepted[n], lost[n])
        BY <3>2, <4>2 DEF Got, Passed
      <4>4. Numbered(n, s, c) => Numbered(n, s, d)
        BY <3>2 DEF Numbered
      <4> QED  BY <3>2, <3>4, <4>1, <4>3, <4>4 DEF End
    <3>6. Quiet(d, Acked(d))
      BY <3>2, QuietUpdates
    <3>7. End(n, Peer(n), s, t, Acked(d), accepted[n], lost[n])
      BY <3>5, <3>6, QuietEnd
    <3> HIDE DEF M
    <3>8. conn' = [conn EXCEPT ![n] = Acked(d)] /\ net' \subseteq net \cup M
      BY <2>3, OnTheLink DEF Take, M
    <3> QED  BY <2>1, <3>3, <3>7, <3>8, EndStep
  <2> QED  BY <2>1, <2>2, <2>3
<1>6. CASE RecvInOrder(n, p)  BY <1>6, RecvInOrderStream
<1> QED  BY <1>3, <1>4, <1>5, <1>6

-----------------------------------------------------------------------------
(***************************************************************************)
(* The user tasks.                                                         *)
(***************************************************************************)
\* csp_send: one more message of the connection.
LEMMA SendStream ==
  ASSUME JInv, NEW n \in Node, Send(n)
  PROVE  Bounds' /\ Packets' /\ Ends'
<1> DEFINE m == Peer(n)
           s == sent[n]
           c == conn[n]
           L == Len(s)
           u == [s EXCEPT ![L] = @ + 1]
           x == [flags |-> {"ack"}, seq |-> c.snd_nxt, data |-> <<Epoch(n), s[Epoch(n)] + 1>>]
           d == [c EXCEPT !.tx_queue = @ \cup {x}, !.snd_nxt = Mod16(@ + 1)]
           M == {TxMsg(n, c, x)}
<1>1. /\ conn' = [conn EXCEPT ![n].tx_queue = @ \cup {x}, ![n].snd_nxt = Mod16(@ + 1)]
      /\ net' = Transmit(net, M)
      /\ sent' = [sent EXCEPT ![n][L] = @ + 1]
      /\ UNCHANGED <<accepted, lost>>
      /\ c.open /\ c.state = "OPEN" /\ s[L] < MaxSend[n]
  BY DEF Send, Epoch
<1>2. /\ m \in Node /\ m # n /\ s \in Seq(Nat) /\ sent[m] \in Seq(Nat) /\ c \in Conn
      /\ L \in 1 .. Len(s) /\ End(n, m, s, sent[m], c, accepted[n], lost[n])
      /\ sent \in [Node -> Seq(Nat)] /\ conn \in [Node -> Conn]
  BY <1>1, Parts, PeerPeer DEF JInv, IInv, TypeOK
<1>3. conn' = [conn EXCEPT ![n] = d] /\ sent' = [sent EXCEPT ![n] = u]
  BY <1>1, <1>2
<1>4. x.flags = {"ack"} /\ x.seq = c.snd_nxt /\ x.data = <<L, s[L] + 1>>
  BY DEF Epoch
<1>5. /\ d.tx_queue = c.tx_queue \cup {x} /\ d.rx_queue = c.rx_queue
      /\ d.snd_iss = c.snd_iss /\ d.snd_nxt = Mod16(c.snd_nxt + 1)
      /\ d.rcv_cur = c.rcv_cur /\ d.rcv_irs = c.rcv_irs /\ d.state = c.state
  BY <1>2 DEF Conn
<1> HIDE DEF d, x
<1>6. L \in Nat \ {0} /\ s[L] \in Nat
  BY <1>2
<1>7. /\ u \in Seq(Nat) /\ Len(u) = L /\ u[L] = s[L] + 1
      /\ \A e \in 1 .. L : e # L => u[e] = s[e]
  <2>1. /\ u \in Seq(Nat) /\ Len(u) = Len(s)
        /\ \A e \in 1 .. Len(s) : u[e] = IF e = L THEN s[L] + 1 ELSE s[e]
    BY <1>2, <1>6, ExceptSeq
  <2> HIDE DEF u
  <2> QED  BY <1>2, <2>1
<1> HIDE DEF u
<1>8. Grows(s, u)
  <2>1. \A e \in 1 .. Len(s) : s[e] \in Nat
    BY <1>2
  <2> QED  BY <1>6, <1>7, <2>1 DEF Grows
<1>9. \A i \in Node : i # n => sent'[i] = sent[i] /\ conn'[i] = conn[i]
  BY <1>2, <1>3
<1>10. sent'[n] = u /\ conn'[n] = d
  BY <1>2, <1>3
<1>11. Numbered(n, s, c)
  BY <1>1, <1>2 DEF End
<1>12. Genuine(n, u, x)
  <2>1. c.snd_nxt = Number(n, L, s[L] + 1)
    BY <1>11 DEF Numbered
  <2>2. L \in 1 .. Len(u) /\ s[L] + 1 \in 1 .. u[L]
    BY <1>6, <1>7
  <2> HIDE DEF L
  <2>3. x.data[1] = L /\ x.data[2] = s[L] + 1
    BY <1>4
  <2>4. IsMessage(n, u, x.seq, x.data)
    BY <1>4, <2>1, <2>2, <2>3 DEF IsMessage
  <2> QED  BY <1>4, <2>4 DEF Genuine
<1>13. Numbered(n, u, d)
  <2> DEFINE r == Rand[n][L]
             k == s[L]
  <2>1. r \in Int
    <3>1. L <= Len(Rand[n]) /\ Rand[n] \in Seq(SeqNr)
      BY <1>2, RdpAssumption DEF JInv, Bounds
    <3>2. r \in SeqNr
      BY <1>6, <3>1
    <3> QED  BY <3>2, SeqNrLemma
  <2>2. c.snd_nxt = Mod16(r + (k + 1))
    BY <1>11 DEF Numbered, Number
  <2> HIDE DEF r, k
  <2>3. r + (k + 1) \in Int /\ (r + (k + 1)) + 1 = r + ((k + 1) + 1)
    BY <1>6, <2>1 DEF k
  <2>4. Mod16(c.snd_nxt + 1) = Mod16((r + (k + 1)) + 1)
    BY <2>2, <2>3, Mod16Sums
  <2>5. d.snd_nxt = Mod16(r + (u[L] + 1))
    BY <1>5, <1>7, <2>3, <2>4 DEF k
  <2>6. d.snd_iss = r
    BY <1>5, <1>11 DEF Numbered, r
  <2> QED  BY <1>7, <2>5, <2>6 DEF Numbered, Number, r
<1>14. End(n, m, u, sent[m], d, accepted[n], lost[n])
  <2>1. \A y \in d.tx_queue : Genuine(n, u, y)
    BY <1>2, <1>5, <1>7, <1>8, <1>12, GenuineGrows DEF End
  <2>2. Count(d) = Count(c)
    BY <1>5 DEF Count
  <2>3. Got(m, sent[m], c, accepted[n], lost[n]) => Got(m, sent[m], d, accepted[n], lost[n])
    BY <1>5, <2>2 DEF Got, Passed
  <2> QED  BY <1>2, <1>5, <1>13, <2>1, <2>3 DEF End
<1>15. Bounds'
  <2> SUFFICES ASSUME NEW i \in Node
               PROVE  /\ Len(sent'[i]) <= Len(Rand[i])
                      /\ \A e \in 1 .. Len(sent'[i]) : sent'[i][e] <= MaxSend[i]
    BY DEF Bounds
  <2>1. /\ Len(sent[i]) <= Len(Rand[i])
        /\ \A e \in 1 .. Len(sent[i]) : sent[i][e] <= MaxSend[i]
    BY DEF JInv, Bounds
  <2>2. CASE i # n  BY <1>9, <2>1, <2>2
  <2>3. CASE i = n
    <3>1. MaxSend[n] \in Nat
      BY RdpAssumption
    <3>2. u[L] <= MaxSend[n]
      BY <1>1, <1>6, <1>7, <3>1
    <3>3. \A e \in 1 .. Len(u) : u[e] <= MaxSend[n]
      <4> TAKE e \in 1 .. Len(u)
      <4>1. CASE e = L  BY <3>2, <4>1
      <4>2. CASE e # L  BY <1>7, <2>1, <2>3, <4>2
      <4> QED  BY <4>1, <4>2
    <3> QED  BY <1>7, <1>10, <2>1, <2>3, <3>3
  <2> QED  BY <2>2, <2>3
<1>16. Packets'
  <2>1. Sends(n, sent'[n], M)
    <3>1. Genuine(n, u, TxMsg(n, c, x)) /\ TxMsg(n, c, x).dst = Peer(n)
      BY <1>12 DEF Genuine, TxMsg
    <3> QED  BY <1>10, <3>1 DEF Sends
  <2>2. sent' \in [Node -> Seq(Nat)] /\ \A i \in Node : Grows(sent[i], sent'[i])
    <3>1. sent' \in [Node -> Seq(Nat)]
      BY <1>2, <1>3, <1>7
    <3>2. ASSUME NEW i \in Node PROVE Grows(sent[i], sent'[i])
      <4>1. CASE i = n  BY <1>8, <1>10, <4>1
      <4>2. CASE i # n  BY <1>2, <1>9, <4>2, GrowsSelf
      <4> QED  BY <4>1, <4>2
    <3> QED  BY <3>1, <3>2
  <2> HIDE DEF M
  <2>3. net' \subseteq net \cup M
    BY <1>1, OnTheLink
  <2> QED  BY <2>1, <2>2, <2>3, PacketsStep
<1>17. Ends'
  <2> SUFFICES ASSUME NEW i \in Node
               PROVE  End(i, Peer(i), sent'[i], sent'[Peer(i)], conn'[i], accepted[i], lost[i])
    BY <1>1 DEF Ends
  <2>1. CASE i = n
    BY <1>2, <1>9, <1>10, <1>14, <2>1
  <2>2. CASE i # n
    <3>1. End(i, Peer(i), sent[i], sent[Peer(i)], conn[i], accepted[i], lost[i])
      BY DEF JInv, Ends
    <3>2. Peer(i) = n /\ conn[i] \in Conn
      BY <1>2, <2>2, PeerPeer
    <3>3. End(i, n, sent[i], u, conn[i], accepted[i], lost[i])
      BY <1>2, <1>7, <1>8, <3>1, <3>2, EndGrows
    <3> QED  BY <1>9, <1>10, <2>2, <3>2, <3>3
  <2> QED  BY <2>1, <2>2
<1> QED  BY <1>15, <1>16, <1>17

\* csp_send, csp_read and csp_close.
LEMMA UserStream ==
  ASSUME JInv, NEW n \in Node, User(n)
  PROVE  Bounds' /\ Packets' /\ Ends'
<1> DEFINE c == conn[n]
           s == sent[n]
<1>1. c \in Conn
  BY Parts
<1>2. CASE Send(n)  BY <1>2, SendStream
<1>3. CASE Read(n)
  <2> DEFINE d == [c EXCEPT !.in_queue = Tail(@)]
  <2>1. UNCHANGED hist /\ c.in_queue # <<>>
    BY <1>3 DEF Read
  <2>2. PICK ack \in BOOLEAN :
           /\ conn' = [conn EXCEPT ![n] = IF ack THEN Acked(d) ELSE d]
           /\ net' = Transmit(net, IF ack THEN {AckMsg(n, d)} ELSE {})
    BY <1>3 DEF Read
  <2>3. d \in Conn /\ Quiet(c, d)
    <3>1. c.in_queue \in Seq(Data)
      BY <1>1 DEF Conn
    <3>2. Tail(c.in_queue) \in Seq(Data)
      BY <2>1, <3>1
    <3> QED  BY <1>1, <3>2, QuietUpdates DEF Conn
  <2> HIDE DEF d
  <2>4. Quiet(c, IF ack THEN Acked(d) ELSE d)
    BY <2>3, QuietUpdates, QuietTrans
  <2> DEFINE M == IF ack THEN {AckMsg(n, d)} ELSE {}
  <2>5. Sends(n, s, M)
    BY MsgGenuine
  <2> HIDE DEF M
  <2>6. net' \subseteq net \cup M
    BY <2>2, OnTheLink DEF M
  <2> QED  BY <2>1, <2>2, <2>4, <2>5, <2>6, QuietStep
<1>4. CASE Close(n)
  <2>1. /\ conn' = [conn EXCEPT ![n] = ConnClose(c, {"USERSPACE"})]
        /\ net' = Transmit(net, CloseOut(n, c)) /\ UNCHANGED hist
    BY <1>4 DEF Close
  <2>2. {"USERSPACE"} \in SUBSET ByAll
    BY DEF ByAll
  <2>3. Quiet(c, ConnClose(c, {"USERSPACE"})) /\ Sends(n, s, CloseOut(n, c))
    BY <1>1, <2>2, QuietClose, MsgGenuine
  <2>4. net' \subseteq net \cup CloseOut(n, c)
    BY <2>1, OnTheLink
  <2> QED  BY <2>1, <2>3, <2>4, QuietStep
<1> QED  BY <1>2, <1>3, <1>4 DEF User


-----------------------------------------------------------------------------
(***************************************************************************)
(* The invariant and the properties of the stream.                         *)
(***************************************************************************)
\* It holds in the initial state.
LEMMA InitJInv == Init => JInv
<1> SUFFICES ASSUME Init PROVE JInv
  OBVIOUS
<1>1. IInv
  BY InitIInv
<1>2. Bounds
  BY RdpAssumption DEF Init, Bounds
<1>3. Packets
  BY DEF Init, Packets
<1>4. Ends
  <2> SUFFICES ASSUME NEW n \in Node
               PROVE  End(n, Peer(n), sent[n], sent[Peer(n)], conn[n], accepted[n], lost[n])
    BY DEF Ends
  <2>1. /\ conn[n].tx_queue = {} /\ conn[n].rx_queue = {} /\ ~conn[n].open
        /\ conn[n].state = "CLOSED" /\ accepted[n] = <<>>
    BY DEF Init
  <2> QED  BY <2>1 DEF End, InSync, Ordered
<1> QED  BY <1>1, <1>2, <1>3, <1>4 DEF JInv

\* Every step keeps the invariant.
LEMMA NextJInv ==
  ASSUME DistinctNumbers, JInv, [Next]_vars
  PROVE  JInv'
<1>1. IInv'
  BY NextIInv, RdpAssumption DEF JInv
<1> SUFFICES Bounds' /\ Packets' /\ Ends'
  BY <1>1 DEF JInv
<1>2. CASE Connecting
  BY <1>2, ConnectingStream, RdpAssumption
<1>3. CASE Accept
  BY <1>3, IdleStep DEF Accept
<1>4. ASSUME NEW n \in Node, User(n) PROVE Bounds' /\ Packets' /\ Ends'
  BY <1>4, UserStream
<1>5. ASSUME NEW n \in Node, Timer(n) PROVE Bounds' /\ Packets' /\ Ends'
  BY <1>5, TimerStream
<1>6. ASSUME NEW p \in net, Arrive(p) PROVE Bounds' /\ Packets' /\ Ends'
  <2>1. CASE RecvUnknown(p)
    BY <2>1, RecvUnknownStream, RdpAssumption
  <2>2. CASE RecvHandshake(p)
    BY <2>2, RecvHandshakeStream
  <2>3. ASSUME NEW n \in Node, Recv(n, p) PROVE Bounds' /\ Packets' /\ Ends'
    BY <2>3, RecvInvalidStream, RecvValidStream DEF Recv
  <2> QED  BY <1>6, <2>1, <2>2, <2>3 DEF Arrive
<1>7. ASSUME NEW p \in net, Lose(p) PROVE Bounds' /\ Packets' /\ Ends'
  BY <1>7, IdleStep DEF Lose
<1>8. CASE UNCHANGED vars
  BY <1>8, IdleStep DEF vars, hist
<1> QED  BY <1>2, <1>3, <1>4, <1>5, <1>6, <1>7, <1>8 DEF Next

\* When the numbers of a node's messages are distinct, every packet and every
\* queued element carries the message its number stands for, and each end has
\* passed an unbroken run of messages from the initial number of its peer on.
THEOREM StreamInvariance ==
  ASSUME DistinctNumbers
  PROVE  Spec => []JInv
<1>1. Init => JInv
  BY InitJInv
<1>2. JInv /\ [Next]_vars => JInv'
  BY NextJInv
<1> QED  BY <1>1, <1>2, PTL DEF Spec

\* The user of csp_read gets messages of one connection of the peer, in the
\* order of csp_send and none twice, whatever the link loses, repeats or
\* reorders and however connections are closed and opened again.
THEOREM InOrderDelivery ==
  ASSUME DistinctNumbers
  PROVE  Spec => []StreamInOrder
<1>1. JInv => StreamInOrder
  BY DEF JInv, Ends, End, Ordered, StreamInOrder
<1> QED  BY <1>1, StreamInvariance, PTL

\* rcv_cur, which is what csp_rdp acknowledges, never passes a message that was
\* neither given to the user nor dropped by csp_rdp_rx_queue_flush.
THEOREM AckAccounted ==
  ASSUME DistinctNumbers
  PROVE  Spec => []StreamAccounted
<1>1. ASSUME JInv PROVE StreamAccounted
  <2> SUFFICES ASSUME NEW n \in Node, conn[n].state \in {"SYN_RCVD", "OPEN"}
               PROVE  \E e \in 1 .. Len(sent[Peer(n)]) :
                         /\ Rand[Peer(n)][e] = conn[n].rcv_irs
                         /\ Elements(accepted[n]) \cup lost[n]
                              = {<<e, k>> : k \in 1 .. Count(conn[n])}
    BY DEF StreamAccounted, Epoch, Received, Count
  <2>1. Got(Peer(n), sent[Peer(n)], conn[n], accepted[n], lost[n])
    BY <1>1 DEF JInv, Ends, End, InSync
  <2> QED  BY <2>1 DEF Got, Passed
<1> QED  BY <1>1, StreamInvariance, PTL


-----------------------------------------------------------------------------
(***************************************************************************)
(* Each direction implements RdpStream.                                    *)
(***************************************************************************)
\* What a step may do to the history s of a sender and to what its peer has
\* been given, a; t and b are their next values.
StreamStep(s, a, t, b) ==
    \/ t = s /\ b = a
    \/ t = Append(s, 0) /\ b = a
    \/ t = s /\ b = <<>>
    \/ s # <<>> /\ t = [s EXCEPT ![Len(s)] = @ + 1] /\ b = a
    \/ /\ t = s
       /\ \E e \in DOMAIN s :
             /\ a # <<>> => e = a[1][1]
             /\ \E r \in 1 .. s[e] - Len(a) :
                   b = a \o [i \in 1 .. r |-> <<e, Len(a) + i>>]

\* Both directions, seen from the receiver n.
Streams == \A n \in Node :
    StreamStep(sent[Peer(n)], accepted[n], sent'[Peer(n)], accepted'[n])

\* The steps of most actions are no steps of a stream.
LEMMA HistStutters == UNCHANGED hist => Streams
BY DEF hist, Streams, StreamStep

\* A new connection of n: the history of n grows, its user is given nothing yet.
LEMMA EpochStreams ==
  ASSUME JInv, NEW n \in Node, NewEpoch(n),
         \/ accepted' = accepted
         \/ accepted' = [accepted EXCEPT ![n] = <<>>]
  PROVE  Streams
<1> SUFFICES ASSUME NEW i \in Node
             PROVE  StreamStep(sent[Peer(i)], accepted[i], sent'[Peer(i)], accepted'[i])
  BY DEF Streams
<1>1. sent \in [Node -> Seq(Nat)] /\ accepted \in [Node -> Seq(Data)] /\ Peer(i) \in Node
  BY PeerType DEF JInv, IInv, TypeOK
<1>2. CASE i = n
  <2>1. sent'[Peer(i)] = sent[Peer(i)]
    BY <1>1, <1>2, PeerPeer DEF NewEpoch
  <2>2. accepted'[i] = accepted[i] \/ accepted'[i] = <<>>
    BY <1>1
  <2> QED  BY <2>1, <2>2 DEF StreamStep
<1>3. CASE i # n
  <2>1. sent'[Peer(i)] = Append(sent[Peer(i)], 0)
    BY <1>1, <1>3, PeerPeer DEF NewEpoch
  <2>2. accepted'[i] = accepted[i]
    BY <1>1, <1>3
  <2> QED  BY <2>1, <2>2 DEF StreamStep
<1> QED  BY <1>2, <1>3

\* csp_send submits a message.
LEMMA SendStreams ==
  ASSUME JInv, NEW n \in Node, Send(n)
  PROVE  Streams
<1> SUFFICES ASSUME NEW i \in Node
             PROVE  StreamStep(sent[Peer(i)], accepted[i], sent'[Peer(i)], accepted'[i])
  BY DEF Streams
<1>1. sent \in [Node -> Seq(Nat)] /\ Peer(i) \in Node
  BY PeerType DEF JInv, IInv, TypeOK
<1>2. /\ sent' = [sent EXCEPT ![n][Len(sent[n])] = @ + 1] /\ accepted' = accepted
      /\ conn[n].open
  BY DEF Send, Epoch
<1>3. sent[n] # <<>>
  BY <1>2 DEF JInv, IInv, Started
<1>4. CASE Peer(i) = n
  <2>1. sent'[n] = [sent[n] EXCEPT ![Len(sent[n])] = @ + 1]
    BY <1>1, <1>2
  <2> QED  BY <1>2, <1>3, <1>4, <2>1 DEF StreamStep
<1>5. CASE Peer(i) # n
  <2>1. sent'[Peer(i)] = sent[Peer(i)]
    BY <1>1, <1>2, <1>5
  <2> QED  BY <1>2, <2>1 DEF StreamStep
<1> QED  BY <1>4, <1>5

\* A packet in sequence gives the user the next messages, all of those that
\* rcv_cur passes when none is dropped.
LEMMA InOrderStreams ==
  ASSUME DistinctNumbers, JInv, NoAckedLoss', NEW n \in Node, NEW p \in net,
         RecvInOrder(n, p)
  PROVE  Streams
<1> DEFINE m == Peer(n)
           t == sent[m]
           a == accepted[n]
           R == Count(conn[n])
<1>1. m \in Node /\ t \in Seq(Nat) /\ conn[n] \in Conn /\ a \in Seq(Data)
  BY Parts DEF JInv, IInv, TypeOK
<1>2. R \in Nat
  <2>1. Count(conn[n]) \in SeqNr
    BY <1>1, CountType
  <2> QED  BY <2>1, Mod16Sums
<1> HIDE DEF m, t, a, R
<1>3. PICK e \in 1 .. Len(t), N \in Nat \ {0} : \E K \in 1 .. N, d \in Conn :
        /\ Passed(m, t, conn[n], e, a, lost[n]) /\ R + N <= t[e]
        /\ accepted' = [accepted EXCEPT ![n] = @ \o Given(e, R, K)]
        /\ lost' = [lost EXCEPT ![n] = @ \cup Dropped(e, R, K, N)]
        /\ UNCHANGED sent
  BY InOrderStep DEF m, t, a, R
<1>4. PICK K \in 1 .. N :
        /\ Passed(m, t, conn[n], e, a, lost[n]) /\ R + N <= t[e]
        /\ accepted' = [accepted EXCEPT ![n] = @ \o Given(e, R, K)]
        /\ lost' = [lost EXCEPT ![n] = @ \cup Dropped(e, R, K, N)]
        /\ UNCHANGED sent
  BY <1>3
<1>5. lost[n] = {} /\ Dropped(e, R, K, N) = {}
  <2>1. lost'[n] = {}
    BY DEF NoAckedLoss
  <2>2. lost'[n] = lost[n] \cup Dropped(e, R, K, N)
    BY <1>4 DEF JInv, IInv, TypeOK
  <2> QED  BY <2>1, <2>2
<1>6. a = [i \in 1 .. R |-> <<e, i>>]
  BY <1>4, <1>5 DEF Passed, R
<1>7. Len(a) = R
  BY <1>2, <1>6
<1>8. a # <<>> => e = a[1][1]
  <2> SUFFICES ASSUME a # <<>> PROVE e = a[1][1]
    OBVIOUS
  <2>1. R # 0
    BY <1>1, <1>7, EmptySeq
  <2>2. 1 \in 1 .. R
    BY <1>2, <2>1
  <2> QED  BY <1>6, <2>2
<1>9. K \in 1 .. t[e] - R
  <2>1. t[e] \in Nat
    BY <1>1
  <2> QED  BY <1>2, <1>4, <2>1
<1>10. accepted'[n] = a \o [i \in 1 .. K |-> <<e, R + i>>]
  BY <1>4 DEF JInv, IInv, TypeOK, Given, a
<1>11. StreamStep(t, a, t, accepted'[n])
  <2>1. e \in DOMAIN t
    BY <1>1
  <2> QED  BY <1>7, <1>8, <1>9, <1>10, <2>1 DEF StreamStep
<1>12. \A i \in Node : i # n => accepted'[i] = accepted[i]
  BY <1>4 DEF JInv, IInv, TypeOK
<1> SUFFICES ASSUME NEW i \in Node
             PROVE  StreamStep(sent[Peer(i)], accepted[i], sent'[Peer(i)], accepted'[i])
  BY DEF Streams
<1>13. sent' = sent
  BY <1>4
<1>14. CASE i = n  BY <1>11, <1>13, <1>14 DEF m, t, a
<1>15. CASE i # n  BY <1>12, <1>13, <1>15 DEF StreamStep
<1> QED  BY <1>14, <1>15

\* Every step is a step of each stream.
LEMMA NextStreams ==
  ASSUME DistinctNumbers, JInv, NoAckedLoss', [Next]_vars
  PROVE  Streams
<1>1. "client" \in Node /\ "server" \in Node
  BY DEF Node
<1>2. CASE Connecting
  <2>1. CASE Connect
    BY <1>1, <2>1, EpochStreams DEF Connect, StartConnect
  <2>2. CASE ConnectRetry
    BY <1>1, <2>2, EpochStreams DEF ConnectRetry, StartConnect
  <2>3. CASE ConnectTimeout \/ ConnectDone \/ ConnectFailed
    BY <2>3, HistStutters DEF ConnectTimeout, ConnectDone, ConnectFailed, GiveUpConnect
  <2> QED  BY <1>2, <2>1, <2>2, <2>3 DEF Connecting
<1>3. CASE Accept
  BY <1>3, HistStutters DEF Accept
<1>4. ASSUME NEW n \in Node, User(n) PROVE Streams
  BY <1>4, SendStreams, HistStutters DEF User, Read, Close
<1>5. ASSUME NEW n \in Node, Timer(n) PROVE Streams
  BY <1>5, HistStutters
     DEF Timer, ConnectionTimeout, CloseWaitTimeout, MessageTimeout, Resend
<1>6. ASSUME NEW p \in net, Arrive(p) PROVE Streams
  <2>1. CASE RecvSyn(p)
    BY <1>1, <2>1, EpochStreams DEF RecvSyn
  <2>2. CASE RecvNoSocket(p) \/ RecvNoSyn(p) \/ RecvNoSlot(p)
    BY <2>2, HistStutters DEF RecvNoSocket, RecvNoSyn, RecvNoSlot
  <2>3. CASE RecvHandshake(p)
    BY <2>3, HistStutters DEF RecvHandshake, RecvSynAck, RecvHalfOpen, RecvBacklogFull
  <2>4. ASSUME NEW n \in Node, Recv(n, p) PROVE Streams
    <3>1. CASE RecvInOrder(n, p)
      BY <3>1, InOrderStreams
    <3>2. CASE RecvRst(n, p) \/ RecvCloseWait(n, p) \/ RecvSynAgain(n, p)
               \/ RecvOutsideWindow(n, p) \/ RecvBadAck(n, p)
      BY <3>2, HistStutters
         DEF RecvRst, RecvCloseWait, RecvSynAgain, RecvOutsideWindow, RecvBadAck
    <3>3. CASE RecvAck(n, p) \/ RecvOutOfOrder(n, p) \/ RecvQueueFull(n, p)
      BY <3>3, HistStutters DEF RecvAck, RecvOutOfOrder, RecvQueueFull
    <3> QED  BY <2>4, <3>1, <3>2, <3>3 DEF Recv
  <2> QED  BY <1>6, <2>1, <2>2, <2>3, <2>4 DEF Arrive, RecvUnknown
<1>7. ASSUME NEW p \in net, Lose(p) PROVE Streams
  BY <1>7, HistStutters DEF Lose
<1>8. CASE UNCHANGED vars
  BY <1>8, HistStutters DEF vars, hist
<1> QED  BY <1>2, <1>3, <1>4, <1>5, <1>6, <1>7, <1>8 DEF Next

\* As long as csp_rdp_rx_queue_flush never finds the user's queue full, each
\* direction gives the peer's user the messages of csp_send without gap,
\* repetition or change of order.
THEOREM StreamRefinement ==
  ASSUME DistinctNumbers
  PROVE  Spec /\ []NoAckedLoss => ReliableStream
<1>1. Init => ToServer!Init /\ ToClient!Init
  BY DEF Init, ToServer!Init, ToClient!Init, Node
<1>2. JInv /\ NoAckedLoss' /\ [Next]_vars =>
         [ToServer!Next]_(ToServer!vars) /\ [ToClient!Next]_(ToClient!vars)
  <2> SUFFICES ASSUME JInv, NoAckedLoss', [Next]_vars
               PROVE  [ToServer!Next]_(ToServer!vars) /\ [ToClient!Next]_(ToClient!vars)
    OBVIOUS
  <2>1. /\ "client" \in Node /\ "server" \in Node
        /\ Peer("client") = "server" /\ Peer("server") = "client"
    BY PeerLemma DEF Node
  <2>2. StreamStep(sent["client"], accepted["server"], sent'["client"], accepted'["server"])
    BY <2>1, NextStreams DEF Streams
  <2>3. StreamStep(sent["server"], accepted["client"], sent'["server"], accepted'["client"])
    BY <2>1, NextStreams DEF Streams
  <2>4. [ToServer!Next]_(ToServer!vars)
    BY <2>2 DEF StreamStep, ToServer!Next, ToServer!Open, ToServer!Restart,
                ToServer!Submit, ToServer!Give, ToServer!vars
  <2>5. [ToClient!Next]_(ToClient!vars)
    BY <2>3 DEF StreamStep, ToClient!Next, ToClient!Open, ToClient!Restart,
                ToClient!Submit, ToClient!Give, ToClient!vars
  <2> QED  BY <2>4, <2>5
<1> QED  BY <1>1, <1>2, StreamInvariance, PTL
         DEF Spec, ReliableStream, ToServer!Spec, ToClient!Spec

=============================================================================
