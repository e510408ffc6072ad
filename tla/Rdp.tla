--------------------------------- MODULE Rdp ---------------------------------
(***************************************************************************)
(* The reliable datagram protocol of the CubeSat Space Protocol stack      *)
(* (transport/csp_rdp.c), with the part of csp_conn.c, csp_io.c and        *)
(* csp_route.c that drives it: one connection between a client, which      *)
(* calls csp_connect, and a server, which listens on a bound port.         *)
(*                                                                         *)
(* Each endpoint has a router task (the Recv* actions and CheckTimeouts)   *)
(* and a user task (Connect, Accept, Send, Read, Close).  The link loses   *)
(* and reorders packets; retransmission duplicates them.                   *)
(*                                                                         *)
(* Abstractions.  A clock comparison is a nondeterministic choice.  A      *)
(* payload is the pair <<e, k>>: the k-th message its sender submitted     *)
(* since its e-th initial sequence number.  rand() returns the successive  *)
(* members of Rand.  The retransmission queue and the out-of-order queue   *)
(* are sets: the code scans them whole and never relies on their order.    *)
(***************************************************************************)
EXTENDS RdpSeq, Sequences, FiniteSets

CONSTANTS
    Window,           \* csp_rdp_window_size, sent to the server in the SYN
    MaxWindow,        \* csp_conf.rdp_max_window, sizes the RDP queues
    ConnQueueLength,  \* csp_conf.conn_queue_length
    DelayedAcks,      \* csp_rdp_delayed_acks
    AckDelayCount,    \* csp_rdp_ack_delay_count
    Rand,             \* Rand[n]: what rand() returns to node n, in order
    MaxSend,          \* bound: MaxSend[n] messages per initial sequence number
    NetBound,         \* bound: packets in flight; beyond it the earlier are lost
    OldSeq,           \* the snd_nxt other connections left in the server's slots
    Closers,          \* the nodes whose user may call csp_close
    BacklogMayFill    \* can other connections fill the socket's backlog?

Node == {"client", "server"}

Peer(n) == CHOOSE m \in Node : m # n

ASSUME RdpAssumption ==
    /\ Window \in Nat \ {0}
    /\ MaxWindow \in Nat /\ Window <= MaxWindow
    /\ ConnQueueLength \in Nat \ {0}
    /\ DelayedAcks \in BOOLEAN
    /\ AckDelayCount \in Nat
    /\ Rand \in [Node -> Seq(SeqNr)]
    /\ MaxSend \in [Node -> Nat]
    /\ NetBound \in Nat \ {0}
    /\ OldSeq \subseteq SeqNr
    /\ Closers \subseteq Node
    /\ BacklogMayFill \in BOOLEAN

VARIABLES
    conn,      \* conn[n]: the csp_conn_t of node n and its rdp member
    net,       \* the packets in flight
    user,      \* user[n]: where the user task of n is
    retry,     \* local variable "retry" of csp_rdp_connect
    tx_wait,   \* the client's semaphore tx_wait, as csp_rdp_connect uses it
    backlog,   \* is the server's connection queued on its socket?
    sent,      \* history: sent[n][e] is the number of messages node n submitted
               \* since it drew its e-th initial sequence number
    accepted,  \* history: payloads enqueued for the user of n, in order
    lost       \* history: payloads passed by rcv_cur but not enqueued

hist == <<sent, accepted, lost>>
vars == <<conn, net, user, retry, tx_wait, backlog, sent, accepted, lost>>

Epoch(n) == Len(sent[n])
NewEpoch(n) == sent' = [sent EXCEPT ![n] = Append(@, 0)]

State == {"CLOSED", "SYN_SENT", "SYN_RCVD", "OPEN", "CLOSE_WAIT"}
ByAll == {"USERSPACE", "PROTOCOL", "TIMEOUT"}
Flag  == {"syn", "ack", "eak", "rst"}
Data  == Nat \X Nat
NoData == <<0, 0>>     \* an empty packet, and the NULL that wakes a reader

TxElement == [flags : SUBSET Flag, seq : SeqNr, data : Data]
RxElement == [seq : SeqNr, data : Data]
Packet    == [dst : Node, flags : SUBSET Flag, seq : SeqNr, ack : SeqNr,
              data : Data, eacks : SUBSET SeqNr]

Conn == [open : BOOLEAN,               \* conn->state = CONN_OPEN
         socket : BOOLEAN,             \* conn->socket # NULL
         state : State, closed_by : SUBSET ByAll,
         snd_iss : SeqNr, snd_nxt : SeqNr, snd_una : SeqNr,
         rcv_cur : SeqNr, rcv_irs : SeqNr, rcv_lsa : SeqNr,
         tx_queue : SUBSET TxElement, rx_queue : SUBSET RxElement,
         in_queue : Seq(Data)]         \* conn->rx_queue[0]

(***************************************************************************)
(* Packets                                                                 *)
(***************************************************************************)
\* A control message of csp_rdp_send_cmp.
Cmp(n, flags, seq, ack) ==
    [dst |-> Peer(n), flags |-> flags, seq |-> seq, ack |-> ack,
     data |-> NoData, eacks |-> {}]

AckMsg(n, c) == Cmp(n, {"ack"}, c.snd_nxt, c.rcv_cur)
RstMsg(n, c) == Cmp(n, {"rst"}, c.snd_nxt, c.rcv_cur)
RstAckMsg(n, c) == Cmp(n, {"ack", "rst"}, c.snd_nxt, c.rcv_cur)
SynAckMsg(n, c) == Cmp(n, {"ack", "syn"}, c.snd_iss, c.rcv_irs)

EackMsg(n, c) ==
    [Cmp(n, {"ack", "eak"}, c.snd_nxt, c.rcv_cur) EXCEPT
        !.eacks = {x.seq : x \in c.rx_queue}]

\* A queued element as it is (re)transmitted, with the latest ack.
TxMsg(n, c, x) ==
    [dst |-> Peer(n), flags |-> x.flags, seq |-> x.seq, ack |-> c.rcv_cur,
     data |-> x.data, eacks |-> {}]

\* The link takes the packets M on top of N.  Bound: when that is too many it
\* has lost those of N.
Transmit(N, M) == IF Cardinality(N \cup M) <= NetBound THEN N \cup M ELSE M

\* csp_queue_enqueue on the retransmission queue.
Retain(c, x) ==
    IF Cardinality(c.tx_queue) < MaxWindow
    THEN [c EXCEPT !.tx_queue = @ \cup {x}] ELSE c

(***************************************************************************)
(* Acknowledging: csp_rdp_should_ack and csp_rdp_check_ack                 *)
(***************************************************************************)
\* Mutant: the delayed-ACK timer is forgotten.
AckDue_NoTimer(c, late) ==
    /\ ConnQueueLength - Len(c.in_queue) > 2 * Window
    /\ ~DelayedAcks \/ After(c.rcv_cur, c.rcv_lsa + AckDelayCount)

\* late: more than ack_timeout has passed since the last ACK.
AckDue(c, late) ==
    /\ ConnQueueLength - Len(c.in_queue) > 2 * Window
    /\ \/ ~DelayedAcks
       \/ late
       \/ After(c.rcv_cur, c.rcv_lsa + AckDelayCount)

Acked(c) == [c EXCEPT !.rcv_lsa = c.rcv_cur]

CheckAck(c, late) == IF AckDue(c, late) THEN Acked(c) ELSE c
CheckAckOut(n, c, late) == IF AckDue(c, late) THEN {AckMsg(n, c)} ELSE {}

\* Mutant: one segment too many.
ReadyForTx_OffByOne(c) == ~After(c.snd_nxt, c.snd_una + Window)

\* csp_rdp_is_conn_ready_for_tx
ReadyForTx(c) == ~After(c.snd_nxt, c.snd_una + Window - 1)

(***************************************************************************)
(* Closing: csp_rdp_close_internal, csp_conn_close and the discard_close   *)
(* label of csp_rdp_new_packet                                             *)
(***************************************************************************)
RdpClose(c, by) ==
    LET d == IF c.state = "CLOSE_WAIT" THEN c ELSE Acked(c) IN
    IF c.state = "CLOSED" THEN c
    ELSE IF c.closed_by \cup by = ByAll
         THEN [d EXCEPT !.state = "CLOSED", !.closed_by = {}]
         ELSE [d EXCEPT !.state = "CLOSE_WAIT", !.closed_by = @ \cup by]

\* The slot is returned to the pool once the RDP state is CLOSED.
ConnClose(c, by) ==
    LET d == RdpClose(c, by) IN
    IF ~c.open THEN c
    ELSE IF d.state # "CLOSED" THEN d
    ELSE [d EXCEPT !.open = FALSE, !.in_queue = <<>>,
                   !.tx_queue = {}, !.rx_queue = {}]

\* RST sent by csp_rdp_close_internal unless it is closed or closing already.
CloseOut(n, c) ==
    IF c.open /\ c.state \notin {"CLOSED", "CLOSE_WAIT"}
    THEN {RstAckMsg(n, c)} ELSE {}

\* csp_conn_enqueue_packet(conn, NULL)
EnqueueNull(c) ==
    IF Len(c.in_queue) < ConnQueueLength
    THEN [c EXCEPT !.in_queue = Append(@, NoData)] ELSE c

\* Mutant: the router always closes for the user as well.
DiscardClose_ForUser(c) == ConnClose(c, {"PROTOCOL", "USERSPACE"})

\* While the user has not seen the connection nobody else closes it.
DiscardClose(c) ==
    IF c.socket THEN ConnClose(c, {"PROTOCOL", "USERSPACE"})
    ELSE EnqueueNull(ConnClose(c, {"PROTOCOL"}))

-----------------------------------------------------------------------------
(***************************************************************************)
(* The user task                                                           *)
(***************************************************************************)
\* csp_rdp_connect after the retry label: a new initial sequence number, SYN.
StartConnect(c) ==
    LET n == "client"
        iss == Rand[n][Epoch(n) + 1]
        d == [c EXCEPT !.state = "SYN_SENT", !.snd_iss = iss,
                       !.snd_nxt = Mod16(iss + 1), !.snd_una = iss]
    IN  /\ Epoch(n) < Len(Rand[n])
        /\ conn' = [conn EXCEPT ![n] =
                       Retain(d, [flags |-> {"syn"}, seq |-> iss, data |-> NoData])]
        /\ net' = Transmit(net, {Cmp(n, {"syn"}, iss, 0)})
        /\ tx_wait' = FALSE
        /\ NewEpoch(n)

\* csp_connect: csp_conn_new, then csp_rdp_connect up to the semaphore.
Connect ==
    /\ user["client"] = "idle"
    /\ ~conn["client"].open
    /\ StartConnect([conn["client"] EXCEPT !.open = TRUE, !.socket = FALSE,
                                           !.in_queue = <<>>])
    /\ user' = [user EXCEPT !["client"] = "connecting"]
    /\ retry' = TRUE
    /\ accepted' = [accepted EXCEPT !["client"] = <<>>]
    /\ lost' = [lost EXCEPT !["client"] = {}]
    /\ UNCHANGED backlog

\* Mutant: csp_connect forgets csp_close.
FailedConnect_NoClose(c) ==
    IF c.state = "CLOSED" THEN c
    ELSE [c EXCEPT !.state = "CLOSE_WAIT", !.closed_by = @ \cup {"PROTOCOL"}]

\* The error label of csp_rdp_connect closes without a RST; csp_connect then
\* calls csp_close.
FailedConnect(c) ==
    LET d == IF c.state = "CLOSED" THEN c
             ELSE [c EXCEPT !.state = "CLOSE_WAIT", !.closed_by = @ \cup {"PROTOCOL"}]
    IN  ConnClose(d, {"USERSPACE"})

GiveUpConnect ==
    /\ conn' = [conn EXCEPT !["client"] = FailedConnect(@)]
    /\ user' = [user EXCEPT !["client"] = "idle"]
    /\ tx_wait' = FALSE
    /\ UNCHANGED <<net, retry, backlog, hist>>

\* csp_bin_sem_wait times out.
ConnectTimeout == user["client"] = "connecting" /\ GiveUpConnect

\* csp_bin_sem_wait succeeds and the connection is open.
ConnectDone ==
    /\ user["client"] = "connecting" /\ tx_wait
    /\ conn["client"].state = "OPEN"
    /\ user' = [user EXCEPT !["client"] = "open"]
    /\ tx_wait' = FALSE
    /\ UNCHANGED <<conn, net, retry, backlog, hist>>

\* The router found a half-open connection: flush and try once more.
ConnectRetry ==
    /\ user["client"] = "connecting" /\ tx_wait
    /\ conn["client"].state = "SYN_SENT" /\ retry
    /\ StartConnect([conn["client"] EXCEPT !.tx_queue = {}, !.rx_queue = {}])
    /\ retry' = FALSE
    /\ UNCHANGED <<user, backlog, accepted, lost>>

\* Still half-open after the retry, or closed meanwhile.
ConnectFailed ==
    /\ user["client"] = "connecting" /\ tx_wait
    /\ \/ conn["client"].state = "SYN_SENT" /\ ~retry
       \/ conn["client"].state \notin {"SYN_SENT", "OPEN"}
    /\ GiveUpConnect

\* csp_accept
Accept ==
    /\ backlog /\ user["server"] = "idle"
    /\ backlog' = FALSE
    /\ user' = [user EXCEPT !["server"] = "open"]
    /\ UNCHANGED <<conn, net, retry, tx_wait, hist>>

\* csp_send: csp_rdp_send, then csp_send_direct.  Nothing can acknowledge or
\* time out the copy in tx_queue before csp_send_direct, so one step suffices.
Send(n) ==
    LET c == conn[n]
        x == [flags |-> {"ack"}, seq |-> c.snd_nxt,
              data |-> <<Epoch(n), sent[n][Epoch(n)] + 1>>]
    IN  /\ user[n] = "open" /\ c.open /\ c.state = "OPEN"
        /\ ReadyForTx(c)
        /\ Cardinality(c.tx_queue) < MaxWindow
        /\ sent[n][Epoch(n)] < MaxSend[n]
        /\ conn' = [conn EXCEPT ![n].tx_queue = @ \cup {x},
                                ![n].snd_nxt = Mod16(@ + 1)]
        /\ net' = Transmit(net, {TxMsg(n, c, x)})
        /\ sent' = [sent EXCEPT ![n][Epoch(n)] = @ + 1]
        /\ UNCHANGED <<user, retry, tx_wait, backlog, accepted, lost>>

\* csp_read: a packet, or the NULL that reports the close; it may ACK.
Read(n) ==
    LET c == [conn[n] EXCEPT !.in_queue = Tail(@)] IN
    /\ user[n] = "open" /\ conn[n].open
    /\ conn[n].in_queue # <<>>
    /\ \E late \in BOOLEAN :
          LET ack == DelayedAcks /\ AckDue(c, late) IN
          /\ conn' = [conn EXCEPT ![n] = IF ack THEN Acked(c) ELSE c]
          /\ net' = Transmit(net, IF ack THEN {AckMsg(n, c)} ELSE {})
    /\ UNCHANGED <<user, retry, tx_wait, backlog, hist>>

\* csp_close
Close(n) ==
    /\ n \in Closers /\ user[n] = "open"
    /\ conn' = [conn EXCEPT ![n] = ConnClose(@, {"USERSPACE"})]
    /\ net' = Transmit(net, CloseOut(n, conn[n]))
    /\ user' = [user EXCEPT ![n] = "idle"]
    /\ UNCHANGED <<retry, tx_wait, backlog, hist>>

-----------------------------------------------------------------------------
(***************************************************************************)
(* csp_rdp_check_timeouts, called by the router for an open connection     *)
(***************************************************************************)
\* Mutant: also of a connection the user has been given.
ConnectionTimeout_Any(n) ==
    /\ conn[n].open
    /\ conn' = [conn EXCEPT ![n] = ConnClose(@, ByAll)]
    /\ net' = Transmit(net, CloseOut(n, conn[n]))
    /\ UNCHANGED <<user, retry, tx_wait, backlog, hist>>

\* conn_timeout of a connection the user has not been given.
ConnectionTimeout(n) ==
    /\ conn[n].open /\ conn[n].socket
    /\ conn' = [conn EXCEPT ![n] = ConnClose(@, ByAll)]
    /\ net' = Transmit(net, CloseOut(n, conn[n]))
    /\ UNCHANGED <<user, retry, tx_wait, backlog, hist>>

\* Mutant: does not close for the protocol.
CloseWaitTimeout_NotProtocol(n) ==
    /\ conn[n].open /\ conn[n].state = "CLOSE_WAIT"
    /\ conn' = [conn EXCEPT ![n] = ConnClose(@, {"TIMEOUT"})]
    /\ UNCHANGED <<net, user, retry, tx_wait, backlog, hist>>

\* conn_timeout in CLOSE_WAIT
CloseWaitTimeout(n) ==
    /\ conn[n].open /\ conn[n].state = "CLOSE_WAIT"
    /\ conn' = [conn EXCEPT ![n] = ConnClose(@, {"PROTOCOL", "TIMEOUT"})]
    /\ UNCHANGED <<net, user, retry, tx_wait, backlog, hist>>

\* Mutant: frees the oldest unacknowledged element as well.
Queued_OffByOne(c) == {x \in c.tx_queue : After(x.seq, c.snd_una)}

Queued(c) == {x \in c.tx_queue : ~Before(x.seq, c.snd_una)}

\* Acknowledged elements are freed, those in R have timed out and are sent
\* again; then a delayed ACK.  (The post on tx_wait only wakes csp_send.)
Resend(n, R, late) ==
    LET c == conn[n]
        d == [c EXCEPT !.tx_queue = Queued(c)]
        acks == c.state = "OPEN" /\ DelayedAcks
    IN  /\ c.open /\ c.state # "CLOSE_WAIT"
        /\ R \subseteq Queued(c)
        /\ conn' = [conn EXCEPT ![n] = IF acks THEN CheckAck(d, late) ELSE d]
        /\ net' = Transmit(net, {TxMsg(n, c, x) : x \in R} \cup
                               IF acks THEN CheckAckOut(n, c, late) ELSE {})
        /\ UNCHANGED <<user, retry, tx_wait, backlog, hist>>

MessageTimeout(n) ==
    \E R \in SUBSET Queued(conn[n]), late \in BOOLEAN : Resend(n, R, late)

-----------------------------------------------------------------------------
(***************************************************************************)
(* The router: csp_route_work and csp_rdp_new_packet on a packet p for n   *)
(***************************************************************************)
\* The router takes p; connection n becomes c and the packets M are sent.
Take(n, p, c, M) ==
    /\ conn' = [conn EXCEPT ![n] = c]
    /\ net' = Transmit(net \ {p}, M)

\* No connection and no socket on the port.
RecvNoSocket(p) ==
    /\ p.dst = "client" /\ ~conn["client"].open
    /\ net' = net \ {p}
    /\ UNCHANGED <<conn, user, retry, tx_wait, backlog, hist>>

\* The server gets a packet other than SYN: csp_conn_new takes a slot, which
\* is closed again, after a RST (unless the packet is one) with the sequence
\* number that some earlier connection left in that slot.
RecvNoSyn(p) ==
    /\ p.dst = "server" /\ ~conn["server"].open
    /\ "syn" \notin p.flags
    /\ \/ /\ "rst" \in p.flags
          /\ net' = net \ {p}
       \/ /\ "rst" \notin p.flags
          /\ \E seq \in OldSeq \cup {conn["server"].snd_nxt} :
                net' = Transmit(net \ {p},
                                {Cmp("server", {"rst"}, seq, conn["server"].rcv_cur)})
    /\ UNCHANGED <<conn, user, retry, tx_wait, backlog, hist>>

\* Bound: when rand() has no value left for the server, it has no free slot.
RecvNoSlot(p) ==
    /\ p.dst = "server" /\ ~conn["server"].open
    /\ "syn" \in p.flags /\ Epoch("server") = Len(Rand["server"])
    /\ net' = net \ {p}
    /\ UNCHANGED <<conn, user, retry, tx_wait, backlog, hist>>

\* A new connection of the server gets a SYN.
RecvSyn(p) ==
    LET n == "server"
        iss == Rand[n][Epoch(n) + 1]
        c == [conn[n] EXCEPT !.open = TRUE, !.socket = TRUE, !.in_queue = <<>>,
                !.state = "SYN_RCVD", !.snd_iss = iss,
                !.snd_nxt = Mod16(iss + 1), !.snd_una = iss,
                !.rcv_cur = p.seq, !.rcv_irs = p.seq, !.rcv_lsa = p.seq]
    IN  /\ p.dst = n /\ ~conn[n].open
        /\ "syn" \in p.flags
        /\ Epoch(n) < Len(Rand[n])
        /\ Take(n, p,
                Retain(c, [flags |-> {"ack", "syn"}, seq |-> iss, data |-> NoData]),
                {SynAckMsg(n, c)})
        /\ NewEpoch(n)
        /\ accepted' = [accepted EXCEPT ![n] = <<>>]
        /\ lost' = [lost EXCEPT ![n] = {}]
        /\ UNCHANGED <<user, retry, tx_wait, backlog>>

\* Mutant: a RST is obeyed whatever was lost before it.
InSequence_Window(c, p) == Between(p.seq, c.rcv_cur + 1, c.rcv_cur + 2 * Window)

\* seq_nr = rcv_cur + 1 in int arithmetic, without the truncation used everywhere else.
InSequence(c, p) == p.seq = c.rcv_cur + 1

\* RST on an existing connection.
RecvRst(n, p) ==
    LET c == IF "ack" \in p.flags
             THEN [conn[n] EXCEPT !.snd_una = Mod16(p.ack + 1)] ELSE conn[n]
    IN  /\ p.dst = n /\ conn[n].open
        /\ "rst" \in p.flags
        /\ \/ /\ c.state = "CLOSE_WAIT"
              /\ Take(n, p, DiscardClose(c), {})
           \/ /\ c.state # "CLOSE_WAIT" /\ InSequence(c, p)
              /\ Take(n, p, DiscardClose([Acked(c) EXCEPT !.state = "CLOSE_WAIT"]),
                      {RstAckMsg(n, c)})
           \/ /\ c.state # "CLOSE_WAIT" /\ ~InSequence(c, p)
              /\ Take(n, p, c, {})
        /\ UNCHANGED <<user, retry, tx_wait, backlog, hist>>

\* Mutant: rcv_cur is not initialised.
RecvSynAck_NoCur(p) ==
    LET n == "client"
        c == [conn[n] EXCEPT !.state = "OPEN", !.rcv_irs = p.seq, !.rcv_lsa = p.seq,
                !.snd_una = Mod16(p.ack + 1)]
    IN  /\ p.dst = n /\ conn[n].open /\ conn[n].state = "SYN_SENT"
        /\ "rst" \notin p.flags /\ {"syn", "ack"} \subseteq p.flags
        /\ Take(n, p, c, {AckMsg(n, c)})
        /\ tx_wait' = TRUE
        /\ UNCHANGED <<user, retry, backlog, hist>>

\* SYN_SENT: the SYN/ACK opens the connection.  Its ack_nr is not compared
\* with snd_iss.
RecvSynAck(p) ==
    LET n == "client"
        c == [conn[n] EXCEPT !.state = "OPEN", !.rcv_cur = p.seq,
                !.rcv_irs = p.seq, !.rcv_lsa = p.seq,
                !.snd_una = Mod16(p.ack + 1)]
    IN  /\ p.dst = n /\ conn[n].open /\ conn[n].state = "SYN_SENT"
        /\ "rst" \notin p.flags /\ {"syn", "ack"} \subseteq p.flags
        /\ Take(n, p, c, {AckMsg(n, c)})
        /\ tx_wait' = TRUE
        /\ UNCHANGED <<user, retry, backlog, hist>>

\* SYN_SENT: an ACK without SYN comes from a half-open connection.
RecvHalfOpen(p) ==
    LET n == "client" IN
    /\ p.dst = n /\ conn[n].open /\ conn[n].state = "SYN_SENT"
    /\ "ack" \in p.flags /\ p.flags \cap {"rst", "syn"} = {}
    /\ Take(n, p, conn[n], {RstMsg(n, conn[n])})
    /\ tx_wait' = TRUE
    /\ UNCHANGED <<user, retry, backlog, hist>>

\* CLOSE_WAIT: answer a valid packet with a RST.
AckValid(c, p) ==
    Between(p.ack, c.snd_una - 1 - 2 * Window, c.snd_nxt - 1)

RecvCloseWait(n, p) ==
    LET c == conn[n] IN
    /\ p.dst = n /\ c.open /\ c.state = "CLOSE_WAIT"
    /\ "rst" \notin p.flags
    /\ IF "syn" \notin p.flags /\ "ack" \in p.flags /\ AckValid(c, p)
       THEN Take(n, p, Acked([c EXCEPT !.snd_una = Mod16(p.ack + 1)]),
                 {RstAckMsg(n, c)})
       ELSE Take(n, p, c, {})
    /\ UNCHANGED <<user, retry, tx_wait, backlog, hist>>

-----------------------------------------------------------------------------
(* SYN_RCVD and OPEN *)

Synced(n, p) ==
    /\ p.dst = n /\ conn[n].open /\ conn[n].state \in {"SYN_RCVD", "OPEN"}
    /\ "rst" \notin p.flags

\* SYN or no ACK: ignored as a duplicate of the SYN, or a reset.
RecvSynAgain(n, p) ==
    LET c == conn[n] IN
    /\ Synced(n, p)
    /\ "syn" \in p.flags \/ "ack" \notin p.flags
    /\ IF p.seq = c.rcv_irs
       THEN Take(n, p, c, {})
       ELSE Take(n, p, DiscardClose(c), CloseOut(n, c))
    /\ UNCHANGED <<user, retry, tx_wait, backlog, hist>>

Segment(n, p) == Synced(n, p) /\ "syn" \notin p.flags /\ "ack" \in p.flags

SeqValid(c, p) == Between(p.seq, c.rcv_cur + 1, c.rcv_cur + 2 * Window)

\* Outside the receive window: SYN/ACK again, or an EACK for duplicate data.
RecvOutsideWindow(n, p) ==
    LET c == conn[n] IN
    /\ Segment(n, p) /\ ~SeqValid(c, p)
    /\ IF c.state = "SYN_RCVD"
       THEN Take(n, p,
                 Retain([c EXCEPT !.rcv_lsa = c.rcv_irs],
                        [flags |-> {"ack", "syn"}, seq |-> c.snd_iss, data |-> NoData]),
                 {SynAckMsg(n, c)})
       ELSE Take(n, p, Acked(c), {EackMsg(n, c)})
    /\ UNCHANGED <<user, retry, tx_wait, backlog, hist>>

\* An ACK number outside the send window is ignored; in SYN_RCVD one other
\* than snd_iss resets.
RecvBadAck(n, p) ==
    LET c == conn[n] IN
    /\ Segment(n, p) /\ SeqValid(c, p)
    /\ \/ ~AckValid(c, p) /\ Take(n, p, c, {})
       \/ /\ AckValid(c, p)
          /\ c.state = "SYN_RCVD" /\ p.ack # c.snd_iss
          /\ Take(n, p, DiscardClose(c), CloseOut(n, c))
    /\ UNCHANGED <<user, retry, tx_wait, backlog, hist>>

\* Mutant: conn->socket is cleared before the enqueue is tried.
RecvBacklogFull_ClearFirst(p) ==
    LET n == "server"
        c == conn[n]
    IN  /\ BacklogMayFill
        /\ Segment(n, p) /\ SeqValid(c, p) /\ AckValid(c, p)
        /\ c.state = "SYN_RCVD" /\ p.ack = c.snd_iss
        /\ Take(n, p, DiscardClose([c EXCEPT !.socket = FALSE]), CloseOut(n, c))
        /\ UNCHANGED <<user, retry, tx_wait, backlog, hist>>

\* The last step of the handshake finds the socket's backlog full.
RecvBacklogFull(p) ==
    LET n == "server"
        c == conn[n]
    IN  /\ BacklogMayFill
        /\ Segment(n, p) /\ SeqValid(c, p) /\ AckValid(c, p)
        /\ c.state = "SYN_RCVD" /\ p.ack = c.snd_iss
        /\ Take(n, p, DiscardClose(c), CloseOut(n, c))
        /\ UNCHANGED <<user, retry, tx_wait, backlog, hist>>

\* Mutant: SYN_RCVD does not compare ack_nr with snd_iss.
Valid_AnyAck(n, p) == Segment(n, p) /\ SeqValid(conn[n], p) /\ AckValid(conn[n], p)

\* All checks passed: in SYN_RCVD the connection opens and is queued on the
\* socket; snd_una takes the acknowledgement, whether or not it is newer.
Valid(n, p) ==
    /\ Segment(n, p) /\ SeqValid(conn[n], p) /\ AckValid(conn[n], p)
    /\ conn[n].state = "SYN_RCVD" => p.ack = conn[n].snd_iss

Opened(n, p) ==
    [conn[n] EXCEPT !.state = "OPEN", !.socket = FALSE,
                    !.snd_una = Mod16(p.ack + 1)]

Offer(n) == backlog' = (backlog \/ conn[n].state = "SYN_RCVD")

\* An EACK frees what it lists from the retransmission queue
\* (csp_rdp_flush_eack); a packet without data ends here.
RecvAck(n, p) ==
    /\ Valid(n, p)
    /\ "eak" \in p.flags \/ p.data = NoData
    /\ Take(n, p,
            [Opened(n, p) EXCEPT !.tx_queue = {x \in @ : x.seq \notin p.eacks}],
            {})
    /\ Offer(n)
    /\ UNCHANGED <<user, retry, tx_wait, hist>>

\* Mutants: anything inside the window; the cast to uint16_t is missing.
InOrder_Window(c, p) == SeqValid(c, p)
InOrder_NoCast(c, p) == p.seq = c.rcv_cur + 1

InOrder(c, p) == p.seq = Mod16(c.rcv_cur + 1)

\* csp_rdp_rx_queue_add, then an EACK, or an ACK when it is stored already.
RecvOutOfOrder(n, p) ==
    LET c == Opened(n, p) IN
    /\ Valid(n, p) /\ "eak" \notin p.flags /\ p.data # NoData
    /\ ~InOrder(c, p)
    /\ IF /\ \A x \in c.rx_queue : x.seq # p.seq
          /\ Cardinality(c.rx_queue) < 2 * MaxWindow
       THEN LET d == [c EXCEPT !.rx_queue = @ \cup {[seq |-> p.seq, data |-> p.data]}]
            IN  Take(n, p, Acked(d), {EackMsg(n, d)})
       ELSE \E late \in BOOLEAN :
              Take(n, p, CheckAck(c, late), CheckAckOut(n, c, late))
    /\ Offer(n)
    /\ UNCHANGED <<user, retry, tx_wait, hist>>

\* Mutant: rcv_cur passes the packet that was not enqueued.
RecvQueueFull_Pass(n, p) ==
    /\ Valid(n, p) /\ "eak" \notin p.flags /\ p.data # NoData
    /\ InOrder(conn[n], p)
    /\ Len(conn[n].in_queue) >= ConnQueueLength
    /\ Take(n, p, [Opened(n, p) EXCEPT !.rcv_cur = p.seq], {})
    /\ Offer(n)
    /\ UNCHANGED <<user, retry, tx_wait, hist>>

\* In sequence, but csp_rdp_receive_data finds the user's queue full.
RecvQueueFull(n, p) ==
    /\ Valid(n, p) /\ "eak" \notin p.flags /\ p.data # NoData
    /\ InOrder(conn[n], p)
    /\ Len(conn[n].in_queue) >= ConnQueueLength
    /\ Take(n, p, Opened(n, p), {})
    /\ Offer(n)
    /\ UNCHANGED <<user, retry, tx_wait, hist>>

\* csp_rdp_rx_queue_flush: the elements that follow rcv_cur without a gap, of
\* which there are r, are passed on.
Stored(c, j) == {x \in c.rx_queue : x.seq = Mod16(c.rcv_cur + j)}
IsRun(c, r) ==
    /\ \A j \in 1 .. r : Stored(c, j) # {}
    /\ Stored(c, r + 1) = {}
Following(c, j) == (CHOOSE x \in Stored(c, j) : TRUE).data

\* The first k of them fit into the user's queue, the others are dropped.
Flushed(c, r, k) ==
    [c EXCEPT !.rcv_cur = Mod16(@ + r),
              !.rx_queue = {x \in @ : \A j \in 1 .. r : x \notin Stored(c, j)},
              !.in_queue = @ \o [j \in 1 .. k |-> Following(c, j)]]

\* Mutant: the flush comes before the packet itself is enqueued.
RecvInOrder_FlushFirst(n, p) ==
    LET c == [Opened(n, p) EXCEPT !.rcv_cur = p.seq]
        room == ConnQueueLength - Len(c.in_queue) - 1
    IN  /\ Valid(n, p) /\ "eak" \notin p.flags /\ p.data # NoData
        /\ InOrder(conn[n], p) /\ room >= 0
        /\ \E r \in 0 .. 2 * MaxWindow :
              LET k == IF r <= room THEN r ELSE room
                  d == Flushed(c, r, k)
              IN  /\ IsRun(c, r)
                  /\ Take(n, p, [d EXCEPT !.in_queue = Append(@, p.data)], {})
                  /\ accepted' = [accepted EXCEPT ![n] =
                        Append(@ \o [j \in 1 .. k |-> Following(c, j)], p.data)]
                  /\ lost' = [lost EXCEPT ![n] =
                        @ \cup {Following(c, j) : j \in k + 1 .. r}]
        /\ Offer(n)
        /\ UNCHANGED <<user, retry, tx_wait, sent>>

\* In sequence: enqueue for the user, csp_rdp_check_ack, flush what follows.
RecvInOrder(n, p) ==
    LET c == [Opened(n, p) EXCEPT !.in_queue = Append(@, p.data), !.rcv_cur = p.seq]
        room == ConnQueueLength - Len(c.in_queue)
    IN  /\ Valid(n, p) /\ "eak" \notin p.flags /\ p.data # NoData
        /\ InOrder(conn[n], p)
        /\ Len(conn[n].in_queue) < ConnQueueLength
        /\ \E late \in BOOLEAN, r \in 0 .. 2 * MaxWindow :
              LET k == IF r <= room THEN r ELSE room IN
              /\ IsRun(c, r)
              /\ Take(n, p, Flushed(CheckAck(c, late), r, k), CheckAckOut(n, c, late))
              /\ accepted' = [accepted EXCEPT ![n] =
                    Append(@, p.data) \o [j \in 1 .. k |-> Following(c, j)]]
              /\ lost' = [lost EXCEPT ![n] =
                    @ \cup {Following(c, j) : j \in k + 1 .. r}]
        /\ Offer(n)
        /\ UNCHANGED <<user, retry, tx_wait, sent>>

-----------------------------------------------------------------------------
\* A packet is lost on the link, or dropped by a full router queue.
Lose(p) ==
    /\ net' = net \ {p}
    /\ UNCHANGED <<conn, user, retry, tx_wait, backlog, hist>>

Init ==
    /\ conn = [n \in Node |->
          [open |-> FALSE, socket |-> FALSE, state |-> "CLOSED", closed_by |-> {},
           snd_iss |-> 0, snd_nxt |-> 0, snd_una |-> 0,
           rcv_cur |-> 0, rcv_irs |-> 0, rcv_lsa |-> 0,
           tx_queue |-> {}, rx_queue |-> {}, in_queue |-> <<>>]]
    /\ net = {}
    /\ user = [n \in Node |-> "idle"]
    /\ retry = FALSE /\ tx_wait = FALSE /\ backlog = FALSE
    /\ sent = [n \in Node |-> <<>>]
    /\ accepted = [n \in Node |-> <<>>]
    /\ lost = [n \in Node |-> {}]

User(n) == Send(n) \/ Read(n) \/ Close(n)
Connecting == Connect \/ ConnectTimeout \/ ConnectDone \/ ConnectRetry \/ ConnectFailed
Timer(n) == ConnectionTimeout(n) \/ CloseWaitTimeout(n) \/ MessageTimeout(n)

Recv(n, p) ==
    \/ RecvRst(n, p)
    \/ RecvCloseWait(n, p)
    \/ RecvSynAgain(n, p)
    \/ RecvOutsideWindow(n, p)
    \/ RecvBadAck(n, p)
    \/ RecvAck(n, p)
    \/ RecvOutOfOrder(n, p)
    \/ RecvQueueFull(n, p)
    \/ RecvInOrder(n, p)

RecvUnknown(p) == RecvNoSocket(p) \/ RecvNoSyn(p) \/ RecvNoSlot(p) \/ RecvSyn(p)
RecvHandshake(p) == RecvSynAck(p) \/ RecvHalfOpen(p) \/ RecvBacklogFull(p)

Arrive(p) ==
    \/ RecvUnknown(p)
    \/ RecvHandshake(p)
    \/ \E n \in Node : Recv(n, p)

Next ==
    \/ Connecting \/ Accept
    \/ \E n \in Node : User(n) \/ Timer(n)
    \/ \E p \in net : Arrive(p) \/ Lose(p)

Spec == Init /\ [][Next]_vars

(***************************************************************************)
(* Fairness.  The router task calls csp_rdp_check_timeouts every few       *)
(* milliseconds, so what is due is done in the end: DueTimer is the call   *)
(* that finds every timeout expired.  The link may lose packets, but not   *)
(* every copy of what is sent for ever; SYN and data, acknowledgements to  *)
(* the server and packets to the client are told apart.  Nothing is        *)
(* assumed of the users.                                                   *)
(***************************************************************************)
DueTimer(n) == CloseWaitTimeout(n) \/ Resend(n, Queued(conn[n]), TRUE)

RouterFairness ==
    /\ WF_vars(ConnectDone)
    /\ WF_vars(ConnectionTimeout("server"))
    /\ \A n \in Node : WF_vars(DueTimer(n))

Awaited(p) == p.flags = {"syn"} \/ (p.data # NoData /\ InOrder(conn[p.dst], p))

LinkFairness ==
    \A n \in Node :
        /\ SF_vars(\E p \in net : p.dst = n /\ Awaited(p) /\ Arrive(p))
        /\ SF_vars(\E p \in net : p.dst = n /\ ~Awaited(p) /\ Arrive(p))

FairSpec == Spec /\ RouterFairness /\ LinkFairness

-----------------------------------------------------------------------------
(***************************************************************************)
(* Properties                                                              *)
(***************************************************************************)
TypeOK ==
    /\ conn \in [Node -> Conn]
    /\ net \subseteq Packet
    /\ user \in [Node -> {"idle", "connecting", "open"}]
    /\ retry \in BOOLEAN /\ tx_wait \in BOOLEAN /\ backlog \in BOOLEAN
    /\ sent \in [Node -> Seq(Nat)]
    /\ accepted \in [Node -> Seq(Data)]
    /\ lost \in [Node -> SUBSET Data]

\* No two messages of a node share a sequence number, nor does the one that
\* follows its last one.  The code relies on it: rand() draws the initial
\* numbers, and nothing bounds how long an old packet stays on its way.
DistinctNumbers ==
    \A n \in Node : \A e, f \in DOMAIN Rand[n] :
        \A j \in 1 .. MaxSend[n] + 1, k \in 1 .. MaxSend[n] :
            Mod16(Rand[n][e] + j) = Mod16(Rand[n][f] + k) => e = f /\ j = k

\* An initial number is none of these either.
SeparateNumbers ==
    \A n \in Node : \A e, f \in DOMAIN Rand[n] : \A j, k \in 0 .. MaxSend[n] + 1 :
        Mod16(Rand[n][e] + j) = Mod16(Rand[n][f] + k) => e = f /\ j = k

\* csp_rdp_seq_before tells the order of numbers less than half the range apart.
HalfRange == \A n \in Node : MaxSend[n] <= 32768

\* csp_connect is called once: a SYN/ACK of an earlier connection is accepted.
ConnectsOnce == Len(Rand["client"]) <= 1

\* The number left in a slot is not the next one of a connection.
SlotsApart ==
    \A s \in OldSeq : \A e \in DOMAIN Rand["server"] :
        \A k \in 1 .. MaxSend["server"] + 1 : s # Mod16(Rand["server"][e] + k)

\* Messages of the connection that rcv_cur of n has passed.
Received(n) == Mod16(conn[n].rcv_cur - conn[n].rcv_irs)

Elements(s) == {s[i] : i \in DOMAIN s}

\* Each direction is the gap-free stream of RdpStream, as long as the users
\* read fast enough for csp_rdp_rx_queue_flush never to find a full queue.
ToServer == INSTANCE RdpStream WITH sent <- sent["client"], given <- accepted["server"]
ToClient == INSTANCE RdpStream WITH sent <- sent["server"], given <- accepted["client"]

ReliableStream == ToServer!Spec /\ ToClient!Spec

\* What a user is given on a connection are messages of one connection of the
\* peer, in the order they were submitted, none twice.
StreamInOrder ==
    \A n \in Node : \A i, j \in DOMAIN accepted[n] : i < j =>
        /\ accepted[n][i][1] = accepted[n][j][1]
        /\ accepted[n][i][2] < accepted[n][j][2]

\* rcv_cur counts exactly the messages given to the user or dropped by
\* csp_rdp_rx_queue_flush: no other message is ever acknowledged.
StreamAccounted ==
    \A n \in Node :
        conn[n].state \in {"SYN_RCVD", "OPEN"} =>
            \E e \in 1 .. Epoch(Peer(n)) :
                /\ Rand[Peer(n)][e] = conn[n].rcv_irs
                /\ Elements(accepted[n]) \cup lost[n]
                     = {<<e, k>> : k \in 1 .. Received(n)}

\* An acknowledged message is never dropped.
NoAckedLoss == \A n \in Node : lost[n] = {}

\* Two open ends agree on both initial sequence numbers.
Synchronised ==
    (\A n \in Node : conn[n].state = "OPEN") =>
        \A n \in Node : conn[n].rcv_irs = conn[Peer(n)].snd_iss

BothOpen == \A n \in Node : conn[n].state = "OPEN"

\* While both ends are open, every submitted message has been given to the
\* peer's user, waits out of order at the peer, or is still queued for
\* retransmission: acknowledgements never free the only copy.
NothingForgotten ==
    BothOpen => \A n \in Node : \A k \in 1 .. sent[n][Epoch(n)] :
        \/ k <= Received(Peer(n))
        \/ \E x \in conn[Peer(n)].rx_queue : x.data = <<Epoch(n), k>>
        \/ \E x \in conn[n].tx_queue : x.data = <<Epoch(n), k>>

\* The sender never runs more than a window ahead of what the peer received.
WindowRespected ==
    BothOpen => \A n \in Node : sent[n][Epoch(n)] <= Received(Peer(n)) + Window

\* The tasks that hold or will be given a handle of the connection.
Owned(n) == user[n] # "idle" \/ (n = "server" /\ backlog)

\* A slot is never returned to the pool under a handle.
HandleValid == \A n \in Node : Owned(n) => conn[n].open

\* A slot in use that no user task will close is one the router closes.
NoOrphan ==
    \A n \in Node : conn[n].open /\ ~Owned(n) =>
        conn[n].socket \/ "USERSPACE" \in conn[n].closed_by

\* A connection nobody holds any more returns to the pool.
SlotReclaimed ==
    \A n \in Node : (conn[n].open /\ ~Owned(n)) ~> (~conn[n].open \/ Owned(n))

\* Every submitted message reaches the peer's user as long as neither end
\* closes.
Delivered ==
    \A n \in Node : \A k \in 1 .. MaxSend[n] :
        (BothOpen /\ sent[n][Epoch(n)] >= k) ~> (~BothOpen \/ Received(Peer(n)) >= k)

\* A full send window opens again: csp_send does not wait for ever.
WindowReopens ==
    \A n \in Node :
        (BothOpen /\ ~ReadyForTx(conn[n])) ~> (~BothOpen \/ ReadyForTx(conn[n]))

\* n has received all that its peer has submitted on the connection.
AllReceived(n) ==
    \E e \in 1 .. Epoch(Peer(n)) :
        Rand[Peer(n)][e] = conn[n].rcv_irs /\ Received(n) = sent[Peer(n)][e]

\* The RST of a peer that closes ends an open connection once everything the peer has
\* submitted is there, and not before: a RST that overtakes data waits for its
\* retransmission.  After 65535 it is ignored, for the code compares without a cast.
RstAfterData ==
    [][\A n \in Node : \A p \in net :
          RecvRst(n, p) /\ conn[n].state = "OPEN" =>
             IF InOrder(conn[n], p) /\ conn[n].rcv_cur # 65535
             THEN conn'[n].state = "CLOSE_WAIT" /\ AllReceived(n)
             ELSE conn'[n].state = "OPEN"]_vars

=============================================================================
