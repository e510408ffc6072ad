---------------------------------- MODULE Kiss ----------------------------------
(***************************************************************************)
(* The KISS interface (interfaces/csp_if_kiss.c): tasks of one node send    *)
(* packets over a serial line, which may lose bytes; csp_kiss_rx of the     *)
(* other node finds the frames in what arrives and passes the packets on.   *)
(*                                                                          *)
(* A byte is its symbol and, as history, the number of the packet it was    *)
(* sent for, which the receiver does not look at.  The checksum of data d   *)
(* is a symbol of its own for every d, and needs no escape.                 *)
(***************************************************************************)
EXTENDS Naturals, Sequences, FiniteSets

CONSTANTS
    Task,          \* the sending tasks
    HeaderLength,  \* CSP_HEADER_LENGTH
    CrcLength,     \* sizeof(uint32_t)
    DataSize,      \* csp_buffer_data_size()
    Other,         \* names of the bytes that mean nothing to KISS
    Datas,         \* the packet data offered, sequences of symbols
    Buffers,       \* packet buffers of the receiver
    MaxPackets,    \* bound: packets sent
    MaxLost,       \* bound: bytes lost
    None           \* no task, no buffer

FEND == <<"FEND">>
FESC == <<"FESC">>
TFEND == <<"TFEND">>
TFESC == <<"TFESC">>
TNC_DATA == <<"TNC_DATA">>
Header == <<"header">>

\* What a symbol is made of: one name, or those of a checksum and the data it is over.
Name == {"FEND", "FESC", "TFEND", "TFESC", "TNC_DATA", "header", "crc"} \cup Other

Mode == {"NOT_STARTED", "STARTED", "ESCAPED", "SKIP_FRAME"}
Buffer == 1 .. Buffers
max_rx_length == HeaderLength + DataSize

ASSUME KissAssumption ==
    /\ HeaderLength \in Nat \ {0} /\ CrcLength \in Nat \ {0}
    /\ DataSize \in Nat /\ Buffers \in Nat
    /\ Datas \subseteq Seq({<<n>> : n \in Name \ {"crc"}})
    /\ \A d \in Datas : Len(d) + CrcLength <= DataSize
    /\ MaxPackets \in Nat /\ MaxLost \in Nat
    /\ None \notin Task \cup Nat

VARIABLES
    tx,         \* tx[t]: what task t does, the packet and the symbols to go
    lock,       \* ifdata->lock: the task that holds it
    wire,       \* the bytes of a call of tx_func that have not arrived
    rx,         \* ifdata: rx_mode, rx_first, rx_packet, and the bytes stored
    routed,     \* the buffers the router of the receiver has
    packets,    \* history: packets[k] is the data of the k-th packet sent
    delivered,  \* history: what was passed to the router, in order
    damaged,    \* history: packets a byte of which was lost or found no memory
    lost        \* bound: bytes lost

vars == <<tx, lock, wire, rx, routed, packets, delivered, damaged, lost>>
sender == <<tx, lock, packets>>

Idle == [pc |-> "idle", data |-> <<>>, todo |-> <<>>]

\* The CrcLength symbols of csp_crc32_append, which leaves the header out.
Checksum(d) == <<"crc">> \o [j \in 1 .. Len(d) |-> d[j][1]]
Crc(d) == [i \in 1 .. CrcLength |-> Checksum(d)]

\* What is sent of a packet with data d, between TNC_DATA and the last FEND.
Frame(d) == [i \in 1 .. HeaderLength |-> Header] \o d \o Crc(d)

Bytes(syms, k) == [i \in DOMAIN syms |-> [sym |-> syms[i], pkt |-> k]]
Syms(bytes) == [i \in DOMAIN bytes |-> bytes[i].sym]

-----------------------------------------------------------------------------
(***************************************************************************)
(* The sender: csp_kiss_tx                                                 *)
(***************************************************************************)
Send(t, d) ==
    /\ tx[t].pc = "idle"
    /\ Len(packets) + Cardinality({u \in Task : tx[u].pc = "waiting"}) < MaxPackets
    /\ tx' = [tx EXCEPT ![t] = [pc |-> "waiting", data |-> d, todo |-> <<>>]]
    /\ UNCHANGED <<lock, wire, rx, routed, packets, delivered, damaged, lost>>

Start(t) ==
    LET d == tx[t].data IN
    /\ wire' = Bytes(<<FEND, TNC_DATA>>, Len(packets) + 1)
    /\ packets' = Append(packets, d)
    /\ tx' = [tx EXCEPT ![t].pc = "sending",
                        ![t].todo = Frame(d)]

\* Mutant: the lock is not waited for.
Lock_Not(t) ==
    /\ tx[t].pc = "waiting" /\ wire = <<>>
    /\ Start(t) /\ lock' = t
    /\ UNCHANGED <<rx, routed, delivered, damaged, lost>>

\* The lock is taken, and the start of the frame sent.
Lock(t) ==
    /\ tx[t].pc = "waiting" /\ lock = None /\ wire = <<>>
    /\ Start(t) /\ lock' = t
    /\ UNCHANGED <<rx, routed, delivered, damaged, lost>>

\* csp_mutex_lock times out: the packet is not sent.
LockTimeout(t) ==
    /\ tx[t].pc = "waiting" /\ lock # None
    /\ tx' = [tx EXCEPT ![t] = Idle]
    /\ UNCHANGED <<lock, wire, rx, routed, packets, delivered, damaged, lost>>

Escaped(s) ==
    IF s = FEND THEN <<FESC, TFEND>> ELSE IF s = FESC THEN <<FESC, TFESC>> ELSE <<s>>

\* tx_func blocks until the line has taken what it was given before.
SendSymbol(t) ==
    /\ tx[t].pc = "sending" /\ tx[t].todo # <<>> /\ wire = <<>>
    /\ wire' = Bytes(Escaped(Head(tx[t].todo)), Len(packets))
    /\ tx' = [tx EXCEPT ![t].todo = Tail(@)]
    /\ UNCHANGED <<lock, rx, routed, packets, delivered, damaged, lost>>

SendStop(t) ==
    /\ tx[t].pc = "sending" /\ tx[t].todo = <<>> /\ wire = <<>>
    /\ wire' = Bytes(<<FEND>>, Len(packets))
    /\ tx' = [tx EXCEPT ![t] = Idle]
    /\ lock' = None
    /\ UNCHANGED <<rx, routed, packets, delivered, damaged, lost>>

\* The line loses a byte.
LoseByte ==
    /\ wire # <<>> /\ lost < MaxLost
    /\ wire' = Tail(wire)
    /\ damaged' = damaged \cup {Head(wire).pkt}
    /\ lost' = lost + 1
    /\ UNCHANGED <<sender, rx, routed, delivered>>

-----------------------------------------------------------------------------
(***************************************************************************)
(* The receiver: csp_kiss_rx, for each byte                                *)
(***************************************************************************)
\* Mutant: no check for packets that are too long.
Checked_Not == rx

\* Mutant: a packet of the maximal length is too long.
Checked_AtLimit ==
    IF Len(rx.data) >= max_rx_length
    THEN [rx EXCEPT !.mode = "NOT_STARTED", !.data = <<>>] ELSE rx

\* The receiver after the check for a packet that is too long.
Checked ==
    IF Len(rx.data) > max_rx_length
    THEN [rx EXCEPT !.mode = "NOT_STARTED", !.data = <<>>] ELSE rx

\* Byte b arrives when the receiver is in mode m, r is the receiver after the
\* check.
Arrives(b, r, m) ==
    /\ wire # <<>> /\ b = Head(wire) /\ wire' = Tail(wire)
    /\ r = Checked /\ r.mode = m
    /\ UNCHANGED <<sender, lost>>

Silent == UNCHANGED <<routed, delivered, damaged>>

SkipByte(b, r) ==
    /\ Arrives(b, r, "NOT_STARTED") /\ b.sym # FEND
    /\ rx' = r /\ Silent

Available == Buffer \ (routed \cup {rx.packet})

\* A frame starts, in the buffer left by a rejected one or in a new one.
StartFrame(b, r) ==
    /\ Arrives(b, r, "NOT_STARTED") /\ b.sym = FEND
    /\ \E p \in IF r.packet # None THEN {r.packet} ELSE Available :
          rx' = [mode |-> "STARTED", first |-> TRUE, packet |-> p, data |-> <<>>]
    /\ Silent

NoMemory(b, r) ==
    /\ Arrives(b, r, "NOT_STARTED") /\ b.sym = FEND
    /\ r.packet = None /\ Available = {}
    /\ rx' = [r EXCEPT !.mode = "SKIP_FRAME"]
    /\ damaged' = damaged \cup {b.pkt}
    /\ UNCHANGED <<routed, delivered>>

Escape(b, r) ==
    /\ Arrives(b, r, "STARTED") /\ b.sym = FESC
    /\ rx' = [r EXCEPT !.mode = "ESCAPED"] /\ Silent

\* A second FEND before any data.
EmptyFrame(b, r) ==
    /\ Arrives(b, r, "STARTED") /\ b.sym = FEND /\ r.data = <<>>
    /\ rx' = r /\ Silent

Payload(d) == SubSeq(d, HeaderLength + 1, Len(d) - CrcLength)

\* Mutant: the checksum is not verified.
Valid_NoCrc(d) == Len(d) >= HeaderLength + CrcLength

\* The length check, and csp_crc32_verify.
Valid(d) ==
    /\ Len(d) >= HeaderLength + CrcLength
    /\ Syms(SubSeq(d, Len(d) - CrcLength + 1, Len(d))) = Crc(Syms(Payload(d)))

RejectFrame(b, r) ==
    /\ Arrives(b, r, "STARTED") /\ b.sym = FEND /\ r.data # <<>>
    /\ ~Valid(r.data)
    /\ rx' = [r EXCEPT !.mode = "NOT_STARTED"] /\ Silent

Passed(r) ==
    /\ delivered' = Append(delivered,
           [header |-> [i \in 1 .. HeaderLength |-> r.data[i].pkt],
            data |-> Syms(Payload(r.data))])
    /\ routed' = routed \cup {r.packet}
    /\ UNCHANGED damaged

\* Mutant: rx_packet keeps the buffer given to the router.
AcceptFrame_Keep(b, r) ==
    /\ Arrives(b, r, "STARTED") /\ b.sym = FEND /\ r.data # <<>>
    /\ Valid(r.data)
    /\ rx' = [r EXCEPT !.mode = "NOT_STARTED"] /\ Passed(r)

AcceptFrame(b, r) ==
    /\ Arrives(b, r, "STARTED") /\ b.sym = FEND /\ r.data # <<>>
    /\ Valid(r.data)
    /\ rx' = [r EXCEPT !.mode = "NOT_STARTED", !.packet = None] /\ Passed(r)

\* TNC_DATA, or whatever comes in its place.
FirstByte(b, r) ==
    /\ Arrives(b, r, "STARTED") /\ b.sym \notin {FEND, FESC} /\ r.first
    /\ rx' = [r EXCEPT !.first = FALSE] /\ Silent

Stored(r, b, s) == [r EXCEPT !.mode = "STARTED", !.data = Append(r.data, [b EXCEPT !.sym = s])]

DataByte(b, r) ==
    /\ Arrives(b, r, "STARTED") /\ b.sym \notin {FEND, FESC} /\ ~r.first
    /\ rx' = Stored(r, b, b.sym) /\ Silent

\* The byte after FESC; one that needs no escape is dropped, even FEND.
Unescape(b, r) ==
    /\ Arrives(b, r, "ESCAPED")
    /\ rx' = IF b.sym = TFESC THEN Stored(r, b, FESC)
             ELSE IF b.sym = TFEND THEN Stored(r, b, FEND)
             ELSE [r EXCEPT !.mode = "STARTED"]
    /\ Silent

SkipFrame(b, r) ==
    /\ Arrives(b, r, "SKIP_FRAME")
    /\ rx' = IF b.sym = FEND THEN [r EXCEPT !.mode = "NOT_STARTED"] ELSE r
    /\ Silent

Receive(b, r) ==
    \/ SkipByte(b, r) \/ StartFrame(b, r) \/ NoMemory(b, r)
    \/ Escape(b, r) \/ EmptyFrame(b, r) \/ RejectFrame(b, r) \/ AcceptFrame(b, r)
    \/ FirstByte(b, r) \/ DataByte(b, r) \/ Unescape(b, r) \/ SkipFrame(b, r)

\* csp_buffer_free by whoever the router has given the packet to.
FreeBuffer(p) ==
    /\ p \in routed
    /\ routed' = routed \ {p}
    /\ UNCHANGED <<tx, lock, wire, rx, packets, delivered, damaged, lost>>

-----------------------------------------------------------------------------
Init ==
    /\ tx = [t \in Task |-> Idle] /\ lock = None /\ wire = <<>>
    /\ rx = [mode |-> "NOT_STARTED", first |-> FALSE, packet |-> None, data |-> <<>>]
    /\ routed = {}
    /\ packets = <<>> /\ delivered = <<>> /\ damaged = {} /\ lost = 0

Next ==
    \/ \E t \in Task :
          \/ \E d \in Datas : Send(t, d)
          \/ Lock(t) \/ LockTimeout(t) \/ SendSymbol(t) \/ SendStop(t)
    \/ LoseByte
    \/ wire # <<>> /\ Receive(Head(wire), Checked)
    \/ \E p \in Buffer : FreeBuffer(p)

Spec == Init /\ [][Next]_vars

-----------------------------------------------------------------------------
(***************************************************************************)
(* Properties                                                              *)
(***************************************************************************)
Byte == [sym : Seq(Name), pkt : Nat]

\* Types.
TypeOK ==
    /\ tx \in [Task -> [pc : {"idle", "waiting", "sending"}, data : Datas \cup {<<>>},
                        todo : Seq(Seq(Name))]]
    /\ lock \in Task \cup {None} /\ wire \in Seq(Byte)
    /\ rx \in [mode : Mode, first : BOOLEAN, packet : Buffer \cup {None}, data : Seq(Byte)]
    /\ routed \subseteq Buffer
    /\ packets \in Seq(Datas)
    /\ damaged \subseteq DOMAIN packets /\ lost \in 0 .. MaxLost

\* What is delivered is the data of one packet with its own header, in the order
\* sent and once, whatever bytes are lost; except that a run of losses from
\* inside one packet to the header of a later one may leave the first header
\* with the later data, since the checksum does not cover the header.
Intact ==
    /\ \A j \in DOMAIN delivered : \E k \in DOMAIN packets :
          /\ delivered[j].data = packets[k]
          /\ \A i \in 1 .. HeaderLength : LET h == delivered[j].header[i] IN
                h = k \/ (h < k /\ {h, k} \subseteq damaged)
    /\ \A i, j \in DOMAIN delivered :
          i < j => delivered[i].header[HeaderLength] < delivered[j].header[1]

\* All bytes of packet k have arrived or been lost.
Over(k) ==
    /\ k \in DOMAIN packets
    /\ k = Len(packets) => wire = <<>> /\ lock = None

\* The receiver finds the frames again: a packet that arrives whole is delivered
\* if the one before it arrived whole as well, whatever the line lost before.
Resync ==
    \A k \in DOMAIN packets :
        Over(k) /\ {k - 1, k} \cap damaged = {} =>
            \E j \in DOMAIN delivered :
                /\ delivered[j].data = packets[k]
                /\ \A i \in 1 .. HeaderLength : delivered[j].header[i] = k

\* What is stored against the buffer, which has room for exactly max_rx_length bytes
\* (line 231).  The check of line 93 comes before a byte is looked at and lets it be
\* stored when the buffer is full already: one byte is written behind the end of the
\* buffer.  It is never more than one, for the next byte, even an end of frame,
\* throws the frame away.
InBuffer ==
    \/ Len(rx.data) <= max_rx_length
    \/ Len(rx.data) = max_rx_length + 1 /\ rx.mode = "STARTED"

\* Bytes are stored in a buffer the receiver has, never in one it has passed on, and
\* within it, except for the one byte behind its end that the check of line 93 allows.
Held ==
    /\ TypeOK
    /\ rx.mode \in {"STARTED", "ESCAPED"} => rx.packet # None
    /\ rx.packet \notin routed
    /\ InBuffer

=============================================================================
