--------------------------------- MODULE Node ---------------------------------
(***************************************************************************)
(* One node of the CubeSat Space Protocol: the router task (csp_route.c,   *)
(* csp_qfifo.c), the connection pool and the ephemeral ports (csp_conn.c), *)
(* the bound sockets (csp_port.c), the datagram transport (csp_udp.c) and  *)
(* the packet buffers (csp_buffer.c), with the tasks that use them.        *)
(*                                                                         *)
(* A client makes transactions (csp_transaction_w_opts, csp_io.c) with the *)
(* services of its own node through the loopback interface.  Each service  *)
(* is a task on a bound socket: one that accepts connections, or one on a  *)
(* connection-less socket.  Requests of another node, and packets for      *)
(* another node, arrive on the interface "can" or "i2c".                   *)
(*                                                                         *)
(* A step is what a task does between two points where it can block; the   *)
(* firmware's FreeRTOS is cooperative (configUSE_PREEMPTION is 0).         *)
(***************************************************************************)
EXTENDS Integers, Sequences, FiniteSets

CONSTANTS
    Client,           \* the client tasks
    Service,          \* the service tasks, one socket each
    ConnLess,         \* the services on connection-less sockets
    Bound,            \* Bound[p]: the service whose socket is bound to port p,
                      \* at PortMaxBind + 1 the one bound to CSP_ANY
    PortMaxBind,      \* csp_conf.port_max_bind
    PortMax,          \* CSP_ID_PORT_MAX
    ConnMax,          \* csp_conf.conn_max without the slots of the sockets
    ConnQueueLength,  \* csp_conf.conn_queue_length
    Backlog,          \* the backlog of csp_listen
    FifoLength,       \* csp_conf.fifo_length
    Buffers,          \* csp_conf.buffers
    Hmac,             \* the clients and services that ask for an HMAC
    Dport,            \* Dport[c]: the port client c calls
    MaxCalls,         \* bound: transactions of all clients
    MaxInject,        \* bound: packets arriving from the other node
    None              \* no service, no buffer, no connection

Ephemeral == PortMaxBind + 1 .. PortMax
Slot == 1 .. ConnMax

ASSUME NodeAssumption ==
    /\ IsFiniteSet(Client) /\ IsFiniteSet(Service) /\ Client \cap Service = {}
    /\ ConnLess \subseteq Service
    /\ PortMaxBind \in Nat /\ PortMax \in Nat
    /\ ConnMax \in Nat \ {0} /\ PortMax - PortMaxBind > ConnMax
    /\ ConnQueueLength \in Nat \ {0} /\ Backlog \in Nat \ {0}
    /\ FifoLength \in Nat \ {0} /\ Buffers \in Nat \ {0}
    /\ Bound \in [0 .. PortMaxBind + 1 -> Service \cup {None}]
    /\ Hmac \subseteq Client \cup Service
    /\ Dport \in [Client -> 0 .. PortMax]
    /\ MaxCalls \in Nat /\ MaxInject \in Nat
    /\ None \notin Client \cup Service \cup Nat

VARIABLES
    conn,        \* the connection slots arr_conn
    last_given,  \* csp_conn_last_given of csp_conn_allocate
    sport,       \* the ephemeral port used last
    queue,       \* queue[s]: connections, or packets, waiting for service s
    qfifo,       \* the router's input queue
    packet,      \* the buffers in use and the packets in them
    task,        \* task[t]: where task t is, its connection and its buffer
    calls,       \* history: transactions the clients have started
    injected     \* bound: packets that have arrived from the other node

vars == <<conn, last_given, sport, queue, qfifo, packet, task, calls, injected>>

Host == {"me", "far"}

\* call: the transaction a request or its reply belongs to, 0 for the others.
Packet == [src : Host, dst : Host, sport : 0 .. PortMax, dport : 0 .. PortMax,
           hmac : BOOLEAN, call : Nat]

\* idin of a connection is what its packets carry; idout is the reverse.
Conn == [open : BOOLEAN, src : Host, sport : 0 .. PortMax, dport : 0 .. PortMax,
         out_hmac : BOOLEAN, need_hmac : BOOLEAN,
         socket : Service \cup {None}, rx_queue : Seq(1 .. Buffers)]

Closed == [open |-> FALSE, src |-> "me", sport |-> 0, dport |-> 0,
           out_hmac |-> FALSE, need_hmac |-> FALSE, socket |-> None,
           rx_queue |-> <<>>]

Elements(s) == {s[i] : i \in DOMAIN s}

-----------------------------------------------------------------------------
(***************************************************************************)
(* Packet buffers.  Which free buffer csp_buffer_get returns is immaterial *)
(***************************************************************************)
Available == 1 .. Buffers \ DOMAIN packet
FreeBuffer == CHOOSE b \in Available : \A a \in Available : b <= a

\* csp_buffer_free of the buffers in B, the packets in the others are kept.
Free(P, B) == [b \in DOMAIN P \ B |-> P[b]]
Store(P, b, p) == [a \in DOMAIN P \cup {b} |-> IF a = b THEN p ELSE P[a]]

(***************************************************************************)
(* Connections                                                             *)
(***************************************************************************)
\* Mutant: compares the destination port only.
Matches_DportOnly(c, p) == c.open /\ c.dport = p.dport

\* csp_conn_find with CSP_ID_CONN_MASK; all packets here are for this node.
Matches(c, p) ==
    c.open /\ c.src = p.src /\ c.sport = p.sport /\ c.dport = p.dport

Find(p) == {i \in Slot : Matches(conn[i], p)}

\* Positions ahead of k in a cycle of n.
Ahead(i, k, n) == IF i > k THEN i - k ELSE i - k + n

FreeSlots == {i \in Slot : ~conn[i].open}

\* csp_conn_allocate: the first free slot after the one given last.
NextSlot ==
    CHOOSE i \in FreeSlots : \A j \in FreeSlots :
        Ahead(i, last_given, ConnMax) <= Ahead(j, last_given, ConnMax)

\* csp_conn_close of a datagram connection.
CloseConn(i) == [conn EXCEPT ![i].open = FALSE, ![i].rx_queue = <<>>]

\* The loop of csp_connect: the first unused port after sport.  It never tries
\* the port it started from, unless it started at the lowest.
Unused == {q \in Ephemeral : \A i \in Slot : conn[i].open => conn[i].dport # q}
Candidates == IF sport = PortMaxBind + 1 THEN Unused ELSE Unused \ {sport}

\* Mutant: the port is taken before it is advanced.
NextPort_Last == sport

\* Mutant: no wrap after the last port.
NextPort_NoWrap == sport + 1

\* Mutant: the search always starts at the lowest port.
NextPort_Lowest == CHOOSE q \in Candidates : \A r \in Candidates : q <= r

NextPort ==
    CHOOSE q \in Candidates : \A r \in Candidates :
        Ahead(q, sport, PortMax - PortMaxBind) <= Ahead(r, sport, PortMax - PortMaxBind)

(***************************************************************************)
(* Sending                                                                 *)
(***************************************************************************)
\* Mutant: the dropped packet is not freed.
FifoWrite_Leak(b, p) ==
    /\ qfifo' = IF Len(qfifo) < FifoLength THEN Append(qfifo, b) ELSE qfifo
    /\ packet' = Store(packet, b, p)

\* csp_qfifo_write of buffer b holding p: dropped when the queue is full.
FifoWrite(b, p) ==
    IF Len(qfifo) < FifoLength
    THEN qfifo' = Append(qfifo, b) /\ packet' = Store(packet, b, p)
    ELSE qfifo' = qfifo /\ packet' = Free(packet, {b})

\* csp_send_direct: through the loopback interface, or out of the node.  Out
\* of the node the buffer is freed by the interface, or by the caller when the
\* interface fails.
SendDirect(b, p) ==
    IF p.dst = "me"
    THEN FifoWrite(b, p)
    ELSE qfifo' = qfifo /\ packet' = Free(packet, {b})

At(t, pc) == task[t].pc = pc
Goto(t, pc) == task' = [task EXCEPT ![t].pc = pc]
Idle == [pc |-> "idle", conn |-> None, buf |-> None, call |-> 0]

-----------------------------------------------------------------------------
(***************************************************************************)
(* A client: csp_transaction_w_opts                                        *)
(***************************************************************************)
\* csp_connect, which holds the sport lock throughout.
Connect(c) ==
    /\ At(c, "idle") /\ calls < MaxCalls
    /\ calls' = calls + 1
    /\ IF Candidates = {} THEN UNCHANGED <<conn, last_given, sport, packet, task>>
       ELSE /\ sport' = NextPort
            /\ IF FreeSlots = {} THEN UNCHANGED <<conn, last_given, packet, task>>
               ELSE /\ conn' = [conn EXCEPT ![NextSlot] =
                          [Closed EXCEPT !.open = TRUE, !.sport = Dport[c],
                              !.dport = NextPort, !.out_hmac = c \in Hmac,
                              !.need_hmac = c \in Hmac]]
                    /\ packet' = Free(packet, Elements(conn[NextSlot].rx_queue))
                    /\ last_given' = NextSlot
                    /\ task' = [task EXCEPT ![c] =
                          [pc |-> "connected", conn |-> NextSlot, buf |-> None,
                           call |-> calls + 1]]
    /\ UNCHANGED <<queue, qfifo, injected>>

\* csp_transaction_persistent up to csp_read: get a buffer and send it.
Request(c) ==
    LET k == conn[task[c].conn]
        p == [src |-> "me", dst |-> k.src, sport |-> k.dport, dport |-> k.sport,
              hmac |-> k.out_hmac, call |-> task[c].call]
    IN  /\ At(c, "connected")
        /\ Available # {}
        /\ SendDirect(FreeBuffer, p)
        /\ Goto(c, "waiting")
        /\ UNCHANGED <<conn, last_given, sport, queue, calls, injected>>

\* csp_buffer_get fails.
NoBuffer(c) ==
    /\ At(c, "connected") /\ Available = {}
    /\ Goto(c, "done")
    /\ UNCHANGED <<conn, last_given, sport, queue, qfifo, packet, calls, injected>>

\* csp_read returns a packet to the task holding an open connection.
ReadPacket(t) ==
    LET i == task[t].conn IN
    /\ conn[i].open /\ conn[i].rx_queue # <<>>
    /\ conn' = [conn EXCEPT ![i].rx_queue = Tail(@)]
    /\ task' = [task EXCEPT ![t].pc = "done", ![t].buf = Head(conn[i].rx_queue)]
    /\ UNCHANGED <<last_given, sport, queue, qfifo, packet, calls, injected>>

NothingToRead(t) ==
    ~conn[task[t].conn].open \/ conn[task[t].conn].rx_queue = <<>>

ReadReply(c) == At(c, "waiting") /\ ReadPacket(c)

\* csp_read times out; it does not when a packet is waiting.
ReadTimeout(c) ==
    /\ At(c, "waiting") /\ NothingToRead(c)
    /\ Goto(c, "done")
    /\ UNCHANGED <<conn, last_given, sport, queue, qfifo, packet, calls, injected>>

\* csp_close: the packets still queued are freed.
Close(t) ==
    LET i == task[t].conn IN
    /\ conn' = CloseConn(i)
    /\ packet' = Free(packet, Elements(conn[i].rx_queue) \cup {task[t].buf})
    /\ task' = [task EXCEPT ![t] = Idle]
    /\ UNCHANGED <<last_given, sport, queue, qfifo, calls, injected>>

\* csp_buffer_free of the reply, csp_close.
Finish(c) == At(c, "done") /\ Close(c)

ClientStep(c) ==
    \/ Connect(c) \/ Request(c) \/ NoBuffer(c)
    \/ ReadReply(c) \/ ReadTimeout(c) \/ Finish(c)

-----------------------------------------------------------------------------
(***************************************************************************)
(* A service on a listening socket: csp_accept, csp_read until it times    *)
(* out, csp_service_handler on each packet, csp_close                      *)
(***************************************************************************)
Accept(s) ==
    /\ s \notin ConnLess /\ At(s, "idle") /\ queue[s] # <<>>
    /\ task' = [task EXCEPT ![s].pc = "serving", ![s].conn = Head(queue[s])]
    /\ queue' = [queue EXCEPT ![s] = Tail(@)]
    /\ UNCHANGED <<conn, last_given, sport, qfifo, packet, calls, injected>>

ServerRead(s) == s \notin ConnLess /\ At(s, "serving") /\ ReadPacket(s)

\* csp_send of the packet that was read, or of no reply.
ServerReply(s) ==
    LET k == conn[task[s].conn]
        b == task[s].buf
        p == [packet[b] EXCEPT !.src = "me", !.dst = k.src, !.sport = k.dport,
                               !.dport = k.sport, !.hmac = k.out_hmac]
    IN  /\ s \notin ConnLess /\ At(s, "done")
        /\ \/ SendDirect(b, p)
           \/ qfifo' = qfifo /\ packet' = Free(packet, {b})
        /\ task' = [task EXCEPT ![s].pc = "serving", ![s].buf = None]
        /\ UNCHANGED <<conn, last_given, sport, queue, calls, injected>>

ServerClose(s) ==
    /\ s \notin ConnLess /\ At(s, "serving")
    /\ NothingToRead(s)
    /\ Close(s)

(***************************************************************************)
(* A service on a connection-less socket                                   *)
(***************************************************************************)
RecvFrom(s) ==
    /\ s \in ConnLess /\ At(s, "idle") /\ queue[s] # <<>>
    /\ task' = [task EXCEPT ![s].pc = "done", ![s].buf = Head(queue[s])]
    /\ queue' = [queue EXCEPT ![s] = Tail(@)]
    /\ UNCHANGED <<conn, last_given, sport, qfifo, packet, calls, injected>>

\* csp_sendto_reply, with the packet of the request.
SendtoReply(s) ==
    LET b == task[s].buf
        r == packet[b]
    IN  /\ s \in ConnLess /\ At(s, "done")
        /\ SendDirect(b, [r EXCEPT !.src = "me", !.dst = r.src, !.sport = r.dport,
                                   !.dport = r.sport, !.hmac = s \in Hmac])
        /\ task' = [task EXCEPT ![s] = Idle]
        /\ UNCHANGED <<conn, last_given, sport, queue, calls, injected>>

ServiceStep(s) ==
    \/ Accept(s) \/ ServerRead(s) \/ ServerReply(s) \/ ServerClose(s)
    \/ RecvFrom(s) \/ SendtoReply(s)

-----------------------------------------------------------------------------
(***************************************************************************)
(* The router: csp_route_work                                              *)
(***************************************************************************)
\* csp_port_get_socket
GetSocket(port) ==
    IF port > PortMaxBind THEN None
    ELSE IF Bound[port] # None THEN Bound[port] ELSE Bound[PortMaxBind + 1]

\* csp_route_security_check
Secure(need, p) == need => p.hmac

\* csp_qfifo_read takes buffer b with packet p, and frees it when it is dropped.
Take(b, p) ==
    /\ qfifo # <<>> /\ b = Head(qfifo) /\ p = packet[b]
    /\ qfifo' = Tail(qfifo)

Dropped(b) ==
    /\ packet' = Free(packet, {b})
    /\ UNCHANGED <<conn, last_given, sport, queue, task, calls, injected>>

\* Not for this node: sent on, or dropped when the route leads back to the
\* interface it came from.  Sent or not, the buffer is freed in the end.
Forward(b, p) == Take(b, p) /\ p.dst # "me" /\ Dropped(b)

ForMe(b, p) == Take(b, p) /\ p.dst = "me"

Bare(p) == GetSocket(p.dport) \in ConnLess

\* A connection-less socket: check and enqueue, or drop.
Deliver(b, p) ==
    LET s == GetSocket(p.dport) IN
    /\ ForMe(b, p) /\ Bare(p)
    /\ Secure(s \in Hmac, p) /\ Len(queue[s]) < ConnQueueLength
    /\ queue' = [queue EXCEPT ![s] = Append(@, b)]
    /\ UNCHANGED <<conn, last_given, sport, packet, task, calls, injected>>

DeliverDrop(b, p) ==
    LET s == GetSocket(p.dport) IN
    /\ ForMe(b, p) /\ Bare(p)
    /\ ~Secure(s \in Hmac, p) \/ Len(queue[s]) >= ConnQueueLength
    /\ Dropped(b)

\* Mutant: no csp_close when the backlog is full.
UdpNewPacket_NoClose(i, k, b) ==
    LET room == Len(k.rx_queue) < ConnQueueLength
        post == room /\ k.socket # None
        full == post /\ Len(queue[k.socket]) >= Backlog
        gone == IF room THEN {} ELSE {b}
    IN  /\ conn' = [conn EXCEPT ![i] =
                IF ~room THEN k
                ELSE [k EXCEPT !.socket = None, !.rx_queue = Append(@, b)]]
        /\ queue' = IF post /\ ~full
                    THEN [queue EXCEPT ![k.socket] = Append(@, i)] ELSE queue
        /\ packet' = Free(packet, gone)

\* csp_udp_new_packet for connection k in slot i: enqueue the packet; then pass
\* a new connection to its socket, once, or close it when the backlog is full.
UdpNewPacket(i, k, b) ==
    LET room == Len(k.rx_queue) < ConnQueueLength
        post == room /\ k.socket # None
        full == post /\ Len(queue[k.socket]) >= Backlog
        gone == IF full THEN Elements(k.rx_queue) \cup {b}
                ELSE IF room THEN {} ELSE {b}
    IN  /\ conn' = [conn EXCEPT ![i] =
                IF ~room THEN k
                ELSE IF full THEN [k EXCEPT !.open = FALSE, !.rx_queue = <<>>]
                ELSE [k EXCEPT !.socket = None, !.rx_queue = Append(@, b)]]
        /\ queue' = IF post /\ ~full
                    THEN [queue EXCEPT ![k.socket] = Append(@, i)] ELSE queue
        /\ packet' = Free(packet, gone)

\* A packet on an existing connection.
Receive(i, b, p) ==
    /\ ForMe(b, p) /\ ~Bare(p) /\ i \in Find(p)
    /\ Secure(conn[i].need_hmac, p)
    /\ UdpNewPacket(i, conn[i], b)
    /\ UNCHANGED <<last_given, sport, task, calls, injected>>

ReceiveDrop(i, b, p) ==
    /\ ForMe(b, p) /\ ~Bare(p) /\ i \in Find(p)
    /\ ~Secure(conn[i].need_hmac, p)
    /\ Dropped(b)

\* Can the packet open a connection?
Acceptable(p) ==
    /\ GetSocket(p.dport) # None
    /\ Secure(GetSocket(p.dport) \in Hmac, p)
    /\ FreeSlots # {}

\* csp_conn_new, then as on an existing connection.
NewConnection(b, p) ==
    LET s == GetSocket(p.dport) IN
    /\ ForMe(b, p) /\ ~Bare(p) /\ Find(p) = {} /\ Acceptable(p)
    /\ UdpNewPacket(NextSlot,
           [open |-> TRUE, src |-> p.src, sport |-> p.sport, dport |-> p.dport,
            out_hmac |-> p.hmac, need_hmac |-> s \in Hmac,
            socket |-> s, rx_queue |-> <<>>], b)
    /\ last_given' = NextSlot
    /\ UNCHANGED <<sport, task, calls, injected>>

Reject(b, p) ==
    /\ ForMe(b, p) /\ ~Bare(p) /\ Find(p) = {} /\ ~Acceptable(p)
    /\ Dropped(b)

Route(b, p) ==
    \/ Forward(b, p)
    \/ Deliver(b, p) \/ DeliverDrop(b, p)
    \/ \E i \in Slot : Receive(i, b, p) \/ ReceiveDrop(i, b, p)
    \/ NewConnection(b, p) \/ Reject(b, p)

Router == \E b \in DOMAIN packet : Route(b, packet[b])

\* The interface driver has received a packet from the other node.
Inject(p) ==
    /\ injected < MaxInject /\ Available # {}
    /\ p.src = "far" /\ p.sport = PortMax /\ p.call = 0
    /\ FifoWrite(FreeBuffer, p)
    /\ injected' = injected + 1
    /\ UNCHANGED <<conn, last_given, sport, queue, task, calls>>

Injectable ==
    [src : {"far"}, dst : Host, sport : {PortMax}, dport : 0 .. PortMaxBind,
     hmac : BOOLEAN, call : {0}]

-----------------------------------------------------------------------------
Init ==
    /\ conn = [i \in Slot |-> Closed]
    /\ last_given = 1
    /\ sport \in Ephemeral
    /\ queue = [s \in Service |-> <<>>]
    /\ qfifo = <<>>
    /\ packet = <<>>
    /\ task = [t \in Client \cup Service |-> Idle]
    /\ calls = 0 /\ injected = 0

Next ==
    \/ \E c \in Client : ClientStep(c)
    \/ \E s \in Service : ServiceStep(s)
    \/ Router
    \/ \E p \in Injectable : Inject(p)

Spec == Init /\ [][Next]_vars

\* Every task that can go on does so in the end: the scheduler runs the ready
\* tasks, and csp_read and csp_accept are called with a timeout.
Fairness ==
    /\ \A c \in Client : WF_vars(ClientStep(c))
    /\ \A s \in Service : WF_vars(ServiceStep(s))
    /\ WF_vars(Router)

FairSpec == Spec /\ Fairness

-----------------------------------------------------------------------------
(***************************************************************************)
(* Properties                                                              *)
(***************************************************************************)
Task == Client \cup Service
PC == {"idle", "connected", "waiting", "serving", "done"}

TypeOK ==
    /\ conn \in [Slot -> Conn]
    /\ last_given \in Slot /\ sport \in Ephemeral
    /\ queue \in [Service -> Seq(Slot \cup 1 .. Buffers)]
    /\ qfifo \in Seq(1 .. Buffers)
    /\ DOMAIN packet \subseteq 1 .. Buffers
    /\ \A b \in DOMAIN packet : packet[b] \in Packet
    /\ task \in [Task -> [pc : PC, conn : Slot \cup {None},
                           buf : 1 .. Buffers \cup {None}, call : Nat]]
    /\ calls \in 0 .. MaxCalls /\ injected \in 0 .. MaxInject

\* Where x stands in the sequence q.
Positions(x, q) == {j \in DOMAIN q : q[j] = x}

\* The places that own buffer b.
Owners(b) ==
    {<<"qfifo", j>> : j \in Positions(b, qfifo)}
    \cup {<<"task", t>> : t \in {u \in Task : task[u].buf = b}}
    \cup (UNION {{<<"conn", i, j>> : j \in Positions(b, conn[i].rx_queue)} : i \in Slot})
    \cup (UNION {{<<"socket", s, j>> : j \in Positions(b, queue[s])} : s \in ConnLess})

\* Every variable keeps its type, and every buffer in use is owned by one queue or
\* task, a free one by none: nothing is leaked, freed under a user, or freed twice.
OneOwner ==
    /\ TypeOK
    /\ \A b \in 1 .. Buffers :
          Cardinality(Owners(b)) = IF b \in DOMAIN packet THEN 1 ELSE 0

\* The tasks and the backlogs that hold connection i.
Holders(i) ==
    {<<"task", t>> : t \in {u \in Task : task[u].conn = i}}
    \cup (UNION {{<<"socket", s, j>> : j \in Positions(i, queue[s])} :
                    s \in Service \ ConnLess})

\* An open connection is held by one task or one backlog, a closed one by none:
\* no slot is lost, and none is reused under a task that still has its handle.
OneHolder ==
    \A i \in Slot : Cardinality(Holders(i)) = IF conn[i].open THEN 1 ELSE 0

\* No packet matches two open connections, and no two connections that clients
\* have opened share a local port.
NoAmbiguity ==
    \A i, j \in Slot : conn[i].open /\ conn[j].open /\ i # j =>
        /\ <<conn[i].src, conn[i].sport, conn[i].dport>>
              # <<conn[j].src, conn[j].sport, conn[j].dport>>
        /\ conn[i].dport \in Ephemeral => conn[i].dport # conn[j].dport

\* What a task reads was sent on the connection it reads from, not on one that
\* had the slot before, and passed the connection's security check.
Addressed ==
    \A i \in Slot : \A b \in Elements(conn[i].rx_queue) :
        /\ b \in DOMAIN packet
        /\ packet[b].src = conn[i].src /\ packet[b].sport = conn[i].sport
        /\ packet[b].dport = conn[i].dport
        /\ conn[i].need_hmac => packet[b].hmac

\* A client is given a late reply to an earlier transaction only once the
\* ephemeral ports have come round: at least as many transactions later as there
\* are ports, without those the other connections may occupy.
ReplyFresh ==
    \A c \in Client : task[c].buf # None =>
        LET age == task[c].call - packet[task[c].buf].call IN
        age = 0 \/ age >= PortMax - PortMaxBind - (ConnMax - 1)

\* When no more requests come, every buffer and every connection is returned.
Drained == <>[](DOMAIN packet = {} /\ FreeSlots = Slot)

=============================================================================
