-------------------------------- MODULE CanFrag --------------------------------
(***************************************************************************)
(* The CAN fragmentation protocol (interfaces/csp_if_can.c and             *)
(* csp_if_can_pbuf.c): tasks of several nodes send packets to one node in  *)
(* frames of eight bytes, which it puts together again.                    *)
(*                                                                         *)
(* A frame reaches the receiver at once or is lost; the bus keeps order.   *)
(* Frames of different tasks interleave, since the driver's tx_func may    *)
(* block.  Bytes are represented by the interval of the packet they come   *)
(* from.  The age of a packet buffer element is nondeterministic.          *)
(***************************************************************************)
EXTENDS Integers, Sequences, FiniteSets

CONSTANTS
    Task,          \* the sending tasks
    SrcOf,         \* SrcOf[t]: the node task t runs on
    IdCount,       \* number of CFP identifiers, 2^CFP_ID_SIZE
    RemainCount,   \* number of values of the remain field, 2^CFP_REMAIN_SIZE
    PbufElements,  \* PBUF_ELEMENTS
    BufferSize,    \* csp_buffer_data_size() of the receiver
    Lengths,       \* the packet lengths offered
    MaxPackets     \* bound: packets sent

FrameBytes == 8    \* MAX_BYTES_IN_CAN_FRAME
Overhead == 6      \* CFP_OVERHEAD: CSP identifier and length
Source == {SrcOf[t] : t \in Task}
MaxData == RemainCount * FrameBytes - Overhead   \* MAX_CAN_DATA_SIZE

ASSUME CanAssumption ==
    /\ IsFiniteSet(Task) /\ Task # {} /\ SrcOf = [t \in Task |-> SrcOf[t]]
    /\ IdCount \in Nat \ {0} /\ RemainCount \in Nat \ {0}
    /\ PbufElements \in Nat \ {0}
    /\ BufferSize \in Nat /\ Lengths \subseteq Nat /\ MaxPackets \in Nat

VARIABLES
    frame_id,   \* frame_id[n]: cfp_frame_id of node n
    tx,         \* tx[t]: the packet task t is sending and what is sent of it
    pbuf,       \* the receiver's csp_can_pbuf
    buffers,    \* packet buffers the receiver has taken and not passed on
    delivered,  \* history: what was written to the router's queue, in order
    len,        \* history: len[k] is the length of packet k
    origin,     \* history: the node that sent packet k, and its cfp_frame_id then
    damaged     \* history: packets of which something was lost or given up, and
                \* packets with the identifier of one that was still being sent

vars == <<frame_id, tx, pbuf, buffers, delivered, len, origin, damaged>>

Begin == "CFP_BEGIN"
More == "CFP_MORE"

\* Bytes from .. to - 1 of packet pkt.
Chunk == [pkt : Nat, from : Nat, to : Nat]

Free == [used |-> FALSE, src |-> CHOOSE n \in Source : TRUE, id |-> 0, remain |-> 0,
         packet |-> 0, length |-> 0, rx_count |-> 0, data |-> <<>>]

Idle == [sending |-> FALSE, pkt |-> 0, ident |-> 0, count |-> 0, started |-> FALSE]

Pbuf == 1 .. PbufElements
Mark(K) == damaged' = damaged \cup K

-----------------------------------------------------------------------------
(***************************************************************************)
(* The sender: csp_can_tx                                                  *)
(***************************************************************************)
\* Packets of node n that are being sent with identifier i.
Namesakes(n, i) ==
    {tx[u].pkt : u \in {u \in Task : tx[u].sending /\ SrcOf[u] = n /\ tx[u].ident = i}}

\* Takes an identifier; a packet that is too long is refused after that.
StartTx(t) ==
    LET n == SrcOf[t]
        i == frame_id[n] % IdCount
        k == Len(len) + 1
    IN
    /\ ~tx[t].sending /\ Len(len) < MaxPackets
    /\ frame_id' = [frame_id EXCEPT ![n] = @ + 1]
    /\ origin' = Append(origin, [src |-> n, frame_id |-> frame_id[n]])
    /\ \E l \in Lengths :
          /\ len' = Append(len, l)
          /\ IF l > MaxData
             THEN Mark({k}) /\ UNCHANGED tx
             ELSE /\ tx' = [tx EXCEPT ![t] =
                        [sending |-> TRUE, pkt |-> k, ident |-> i, count |-> 0,
                         started |-> FALSE]]
                  /\ IF Namesakes(n, i) = {} THEN UNCHANGED damaged
                     ELSE Mark(Namesakes(n, i) \cup {k})
    /\ UNCHANGED <<pbuf, buffers, delivered>>

\* Data bytes in the next frame of task t.
Bytes(t) ==
    LET left == len[tx[t].pkt] - tx[t].count
        room == IF tx[t].started THEN FrameBytes ELSE FrameBytes - Overhead
    IN  IF left <= room THEN left ELSE room

\* Mutant: rounds up a packet that ends with a full frame.
BeginRemain_Round(l) == ((l + Overhead) \div FrameBytes) % RemainCount

\* Frames that follow a first frame, and a later frame with b bytes.
BeginRemain(l) == ((l + Overhead - 1) \div FrameBytes) % RemainCount
MoreRemain(l, count, b) == ((l - count - b + FrameBytes - 1) \div FrameBytes) % RemainCount

Frame(t) ==
    LET x == tx[t]
        l == len[x.pkt]
        b == Bytes(t)
    IN  [src |-> SrcOf[t], id |-> x.ident,
         type |-> IF x.started THEN More ELSE Begin,
         remain |-> IF x.started THEN MoreRemain(l, x.count, b) ELSE BeginRemain(l),
         pkt |-> x.pkt, length |-> l, from |-> x.count, to |-> x.count + b]

\* Task t has sent frame f, and returns after the last one.
Advance(t, f) ==
    tx' = [tx EXCEPT ![t] = IF f.to < f.length
                            THEN [tx[t] EXCEPT !.count = f.to, !.started = TRUE] ELSE Idle]

\* The frame is lost on the way.
LoseFrame(t) ==
    /\ tx[t].sending
    /\ Advance(t, Frame(t))
    /\ Mark({tx[t].pkt})
    /\ UNCHANGED <<frame_id, pbuf, buffers, delivered, len, origin>>

\* tx_func fails: the rest of the packet is not sent.
TxError(t) ==
    /\ tx[t].sending
    /\ tx' = [tx EXCEPT ![t] = Idle]
    /\ Mark({tx[t].pkt})
    /\ UNCHANGED <<frame_id, pbuf, buffers, delivered, len, origin>>

-----------------------------------------------------------------------------
(***************************************************************************)
(* The receiver: csp_can_rx                                                *)
(***************************************************************************)
\* Mutant: the source is not compared.
Find_IdOnly(f) == {i \in Pbuf : pbuf[i].used /\ pbuf[i].id = f.id}

\* csp_can_pbuf_find
Find(f) == {i \in Pbuf : pbuf[i].used /\ pbuf[i].src = f.src /\ pbuf[i].id = f.id}

\* csp_can_pbuf_new returns the first element that is free or too old.
NewPbuf(f) ==
    {i \in Pbuf : Find(f) = {} /\ \A j \in Pbuf : j < i => pbuf[j].used}

\* The packet an element loses when it is taken for another one.
Old(i) == IF pbuf[i].used THEN {pbuf[i].packet} ELSE {}

\* csp_can_pbuf_free of element i, when h packet buffers are taken.
FreePbuf(i, h) == pbuf' = [pbuf EXCEPT ![i] = Free] /\ buffers' = h - 1

\* Mutant: buf->packet is not reset, so that the packet is freed as well.
Deliver_Freed(i, e, h) ==
    /\ FreePbuf(i, h - 1)
    /\ delivered' = Append(delivered,
           [packet |-> e.packet, length |-> e.length, data |-> e.data])

\* Hands the packet to the router; the element is freed without it.
Deliver(i, e, h) ==
    /\ FreePbuf(i, h)
    /\ delivered' = Append(delivered,
           [packet |-> e.packet, length |-> e.length, data |-> e.data])

\* A frame for element e, which has a packet: check remain and overflow, copy,
\* deliver when it is complete.
Matching(e, f) ==
    f.remain = e.remain - 1 /\ e.rx_count + (f.to - f.from) <= e.length

Fill(i, e, f, h) ==
    LET d == [e EXCEPT !.remain = @ - 1, !.rx_count = @ + (f.to - f.from),
                  !.data = Append(@, [pkt |-> f.pkt, from |-> f.from, to |-> f.to])]
    IN  \/ ~Matching(e, f) /\ FreePbuf(i, h) /\ UNCHANGED delivered
        \/ Matching(e, f) /\ d.rx_count = d.length /\ Deliver(i, d, h)
        \/ /\ Matching(e, f) /\ d.rx_count # d.length
           /\ pbuf' = [pbuf EXCEPT ![i] = d] /\ buffers' = h
           /\ UNCHANGED delivered

Arrives(t, f) ==
    /\ tx[t].sending /\ f = Frame(t)
    /\ Advance(t, f)
    /\ UNCHANGED <<frame_id, len, origin>>

\* A first frame starts a packet in a new element, or again in the one that
\* still holds an incomplete packet with the same identifier.
Started(f) == [used |-> TRUE, src |-> f.src, id |-> f.id, remain |-> f.remain + 1,
               packet |-> f.pkt, length |-> f.length, rx_count |-> 0, data |-> <<>>]

\* Mutant: the length is not compared with the buffer's size.
RecvBegin_NoMax(t, f, i) ==
    /\ Arrives(t, f) /\ f.type = Begin
    /\ i \in Find(f) \cup NewPbuf(f)
    /\ Fill(i, Started(f), f, IF pbuf[i].used THEN buffers ELSE buffers + 1)
    /\ Mark(Old(i))

RecvBegin(t, f, i) ==
    LET h == IF pbuf[i].used THEN buffers ELSE buffers + 1 IN
    /\ Arrives(t, f) /\ f.type = Begin
    /\ i \in Find(f) \cup NewPbuf(f)
    /\ \/ /\ f.length > BufferSize
          /\ FreePbuf(i, h)
          /\ Mark(Old(i) \cup {f.pkt}) /\ UNCHANGED delivered
       \/ /\ f.length <= BufferSize
          /\ Fill(i, Started(f), f, h)
          /\ Mark(Old(i))

\* No element is free, and none too old.
RecvNoElement(t, f) ==
    /\ Arrives(t, f) /\ f.type = Begin
    /\ Find(f) = {} /\ \A i \in Pbuf : pbuf[i].used
    /\ Mark({f.pkt})
    /\ UNCHANGED <<pbuf, buffers, delivered>>

\* csp_buffer_get fails: the new element is freed again.
RecvNoBuffer(t, f, i) ==
    /\ Arrives(t, f) /\ f.type = Begin /\ i \in NewPbuf(f)
    /\ pbuf' = [pbuf EXCEPT ![i] = Free]
    /\ buffers' = IF pbuf[i].used THEN buffers - 1 ELSE buffers
    /\ Mark(Old(i) \cup {f.pkt})
    /\ UNCHANGED delivered

\* A later frame of a packet that was begun.
RecvMore(t, f, i) ==
    /\ Arrives(t, f) /\ f.type = More
    /\ i \in Find(f)
    /\ Fill(i, pbuf[i], f, buffers)
    /\ UNCHANGED damaged

\* A later frame of no packet.
RecvOutOfOrder(t, f) ==
    /\ Arrives(t, f) /\ f.type = More
    /\ Find(f) = {}
    /\ UNCHANGED <<pbuf, buffers, delivered, damaged>>

RecvFrame(t, f) ==
    \/ \E i \in Pbuf : RecvBegin(t, f, i) \/ RecvNoBuffer(t, f, i) \/ RecvMore(t, f, i)
    \/ RecvNoElement(t, f) \/ RecvOutOfOrder(t, f)

-----------------------------------------------------------------------------
Init ==
    /\ frame_id = [n \in Source |-> 0]
    /\ tx = [t \in Task |-> Idle]
    /\ pbuf = [i \in Pbuf |-> Free]
    /\ buffers = 0
    /\ delivered = <<>> /\ len = <<>> /\ origin = <<>> /\ damaged = {}

Next ==
    \E t \in Task :
        \/ StartTx(t) \/ LoseFrame(t) \/ TxError(t)
        \/ tx[t].sending /\ RecvFrame(t, Frame(t))

Spec == Init /\ [][Next]_vars

(***************************************************************************)
(* Properties                                                              *)
(***************************************************************************)
Sent == 1 .. Len(len)

TypeOK ==
    /\ frame_id \in [Source -> Nat]
    /\ tx \in [Task -> [sending : BOOLEAN, pkt : Nat, ident : 0 .. IdCount - 1,
                        count : Nat, started : BOOLEAN]]
    /\ pbuf \in [Pbuf -> [used : BOOLEAN, src : Source, id : 0 .. IdCount - 1,
                          remain : 0 .. RemainCount, packet : Nat, length : Nat,
                          rx_count : 0 .. BufferSize, data : Seq(Chunk)]]
    /\ buffers \in Nat
    /\ len \in Seq(Nat) /\ damaged \subseteq Nat
    /\ origin \in Seq([src : Source, frame_id : Nat])
    /\ delivered \in Seq([packet : Nat, length : Nat, data : Seq(Chunk)])

\* Packet d holds the bytes of the one packet its header belongs to, all of them, in
\* order.
Whole(d) ==
    /\ d.length = len[d.packet]
    /\ \A j \in DOMAIN d.data :
          /\ d.data[j].pkt = d.packet
          /\ d.data[j].from = IF j = 1 THEN 0 ELSE d.data[j - 1].to
    /\ d.data[Len(d.data)].to = d.length

\* Packets j and k are of one node and whole rounds of its identifiers apart.
RoundsApart(j, k) ==
    /\ origin[j].src = origin[k].src /\ j # k
    /\ (origin[k].frame_id - origin[j].frame_id) % IdCount = 0

\* What is delivered is a packet as it was sent.  Only an element that holds an incomplete
\* packet may be filled up, to the length of that packet, by another one a whole round of
\* identifiers away that has lost its first frame, or that was on the bus with it.
Intact ==
    \A j \in DOMAIN delivered : LET d == delivered[j] IN
        \/ Whole(d)
        \/ /\ d.length = len[d.packet]
           /\ \E i \in DOMAIN d.data : d.data[i].pkt # d.packet
           /\ \A i \in DOMAIN d.data :
                 d.data[i].pkt # d.packet =>
                    /\ RoundsApart(d.packet, d.data[i].pkt)
                    /\ {d.packet, d.data[i].pkt} \subseteq damaged

\* A packet none of whose frames was lost, and which the receiver had room for,
\* is delivered once, whatever its length and whatever frames came between.
Complete ==
    \A k \in Sent \ damaged :
        (\A t \in Task : tx[t].sending => tx[t].pkt # k) =>
            Cardinality({j \in DOMAIN delivered : delivered[j].packet = k}) = 1

\* Every variable keeps its type; each used element holds one packet buffer and no
\* other buffer is held: none is leaked, or freed after it was handed to the router.
OneBuffer == TypeOK /\ buffers = Cardinality({i \in Pbuf : pbuf[i].used})

=============================================================================
