------------------------------ MODULE KissProofs ------------------------------
(***************************************************************************)
(* Proofs about the KISS interface, for every number of senders, every     *)
(* data, every length of header and checksum, every number of buffers and  *)
(* however many bytes are lost.                                            *)
(***************************************************************************)
EXTENDS Kiss, Integers, TLAPS, SequenceTheorems

-----------------------------------------------------------------------------
(* The packet on the line *)

\* Its number, the symbols of its frame, and those the sender has still to send.
K == Len(packets)
Symbols == Frame(packets[K])
Left == IF lock = None THEN <<>> ELSE tx[lock].todo

\* How many symbols of the frame have been given to the line.
Sent == Len(Symbols) - Len(Left)

\* A sender that waits has a packet; one that is at work has the lock and the packet sent
\* last, and before it the rest of its frame.
Senders ==
  /\ \A t \in Task : tx[t].pc = "waiting" => tx[t].data \in Datas
  /\ \A t \in Task : tx[t].pc = "sending" => lock = t
  /\ lock # None =>
       /\ tx[lock].pc = "sending" /\ K > 0
       /\ Len(Left) <= Len(Symbols)
       /\ \A i \in 1..Len(Left) : Left[i] = Symbols[Sent + i]

Special(s) == s \in {FEND, FESC}
Second(s) == IF s = FEND THEN TFEND ELSE TFESC

\* On the line is the rest of the start of a frame, of one of its symbols, or of its end.
Line ==
  wire # <<>> =>
    /\ K > 0 /\ Len(wire) <= 2
    /\ \A i \in DOMAIN wire : wire[i].pkt = K
    /\ IF lock = None THEN Len(wire) = 1 /\ wire[1].sym = FEND
       ELSE IF Sent = 0 THEN
         wire[Len(wire)].sym = TNC_DATA /\ (Len(wire) = 2 => wire[1].sym = FEND)
       ELSE IF Special(Symbols[Sent]) THEN
         wire[Len(wire)].sym = Second(Symbols[Sent]) /\ (Len(wire) = 2 => wire[1].sym = FESC)
       ELSE Len(wire) = 1 /\ wire[1].sym = Symbols[Sent]

\* The start of the frame is on its way, or nothing of the packet any more.
Starting == lock # None /\ wire # <<>> /\ Sent = 0
Done == lock = None /\ wire = <<>>

\* How many symbols have arrived whole, and whether half of the next one has.
Arrived == IF lock # None /\ wire # <<>> THEN Sent - 1 ELSE Sent
Half == lock # None /\ wire # <<>> /\ Special(Symbols[Sent]) /\ Len(wire) = 1

-----------------------------------------------------------------------------
(* The receiver *)

InFrame == rx.mode \in {"STARTED", "ESCAPED"}

\* A symbol of the frame of data d; a checksum is recognised.
SymbolOf(s, d) == Len(s) > 0 /\ IF s[1] = "crc" THEN s = Checksum(d) ELSE Len(s) = 1

\* The bytes stored are of the packets sent, in order.
Contents ==
  /\ \A i \in DOMAIN rx.data : /\ rx.data[i].pkt \in 1..K
                               /\ SymbolOf(rx.data[i].sym, packets[rx.data[i].pkt])
  /\ \A i, j \in DOMAIN rx.data : i < j => rx.data[i].pkt <= rx.data[j].pkt

\* In a frame are bytes of damaged packets and of the one on the line only, sent after all
\* that was delivered.
Recent ==
  /\ InFrame =>
       \A i \in DOMAIN rx.data :
         /\ rx.data[i].pkt = K \/ rx.data[i].pkt \in damaged
         /\ Starting /\ Len(wire) = 2 => rx.data[i].pkt < K
         /\ \A j \in DOMAIN delivered : delivered[j].header[HeaderLength] < rx.data[i].pkt
  /\ \A j \in DOMAIN delivered :
       LET h == delivered[j].header[HeaderLength] IN h < K \/ (h = K /\ Done)

\* A frame starts, or could start.
Fresh == rx.mode = "STARTED" /\ rx.first /\ rx.data = <<>>
Between == rx.mode = "NOT_STARTED" \/ Fresh

\* As much of the packet as has arrived is stored, or more than that.
Exact ==
  /\ Len(rx.data) = Arrived
  /\ \A i \in 1..Arrived : rx.data[i] = [sym |-> Symbols[i], pkt |-> K]
Longer == Len(rx.data) > Arrived /\ (Arrived > 0 => rx.data[Len(rx.data)].pkt = K)

\* How the receiver follows a packet that arrives undamaged, when the one before it did so
\* and when it did not.
Follows ==
  K \notin damaged =>
    /\ Done => Between
    /\ Starting /\ Len(wire) = 2 => K - 1 \in damaged \/ Between
    /\ Starting /\ Len(wire) = 1 =>
         Fresh \/ (K - 1 \in damaged /\ rx.mode \in {"NOT_STARTED", "STARTED"})
    /\ ~Starting /\ ~Done =>
         \/ /\ rx.mode = IF Half THEN "ESCAPED" ELSE "STARTED"
            /\ ~rx.first /\ (Exact \/ (K - 1 \in damaged /\ Longer))
         \/ K - 1 \in damaged /\ rx.mode = "NOT_STARTED"

\* The history of what was delivered.
Deliveries == [header : [1..HeaderLength -> Nat], data : Seq(Seq(Name))]

IInv ==
  /\ Held /\ delivered \in Seq(Deliveries)
  /\ Senders /\ Line /\ Contents /\ Recent /\ Follows /\ Intact /\ Resync

-----------------------------------------------------------------------------
(* Symbols and frames *)

\* The types of the constants.
LEMMA ConstantTypes ==
  /\ HeaderLength \in Nat /\ HeaderLength > 0 /\ CrcLength \in Nat /\ CrcLength > 0
  /\ DataSize \in Nat /\ max_rx_length \in Nat /\ max_rx_length = HeaderLength + DataSize
  /\ \A t \in Task : t # None
  /\ \A p \in Buffer : p # None
  <1>1. /\ HeaderLength \in Nat /\ HeaderLength > 0 /\ CrcLength \in Nat /\ CrcLength > 0
        /\ DataSize \in Nat
      BY KissAssumption DEF KissAssumption
  <1>2. max_rx_length \in Nat /\ max_rx_length = HeaderLength + DataSize
      BY <1>1 DEF max_rx_length
  <1>3. None \notin Task \cup Nat /\ Buffers \in Nat
      BY KissAssumption DEF KissAssumption
  <1>4. \A p \in Buffer : p \in Nat
      BY <1>3 DEF Buffer
  <1> QED
      BY <1>1, <1>2, <1>3, <1>4

\* A symbol of one name.
LEMMA OneName ==
  ASSUME NEW n \in Name
  PROVE  <<n>> \in Seq(Name) /\ Len(<<n>>) = 1 /\ <<n>>[1] = n
  OBVIOUS

\* The symbols of the protocol are of one name, and no two of them are equal.
LEMMA Protocol ==
  /\ \A s \in {FEND, FESC, TFEND, TFESC, TNC_DATA, Header} :
       s \in Seq(Name) /\ Len(s) = 1 /\ s[1] # "crc"
  /\ FEND # FESC /\ TNC_DATA \notin {FEND, FESC} /\ TFEND \notin {FEND, FESC}
  /\ TFESC \notin {FEND, FESC} /\ Header \notin {FEND, FESC} /\ TFEND # TFESC
  <1>1. /\ FEND[1] = "FEND" /\ FESC[1] = "FESC" /\ TFEND[1] = "TFEND" /\ TFESC[1] = "TFESC"
        /\ TNC_DATA[1] = "TNC_DATA" /\ Header[1] = "header"
      BY DEF FEND, FESC, TFEND, TFESC, TNC_DATA, Header
  <1>2. \A s \in {FEND, FESC, TFEND, TFESC, TNC_DATA, Header} : s \in Seq(Name) /\ Len(s) = 1
    <2>1. {"FEND", "FESC", "TFEND", "TFESC", "TNC_DATA", "header", "crc"} \subseteq Name
        BY DEF Name
    <2> QED
        BY <2>1, OneName DEF FEND, FESC, TFEND, TFESC, TNC_DATA, Header
  <1> QED
      BY <1>1, <1>2

\* The data offered, symbol by symbol.
LEMMA DataTypes ==
  ASSUME NEW d \in Datas
  PROVE  /\ d \in Seq(Seq(Name)) /\ Len(d) \in Nat /\ DOMAIN d = 1..Len(d)
         /\ Len(d) + CrcLength <= DataSize
         /\ \A i \in 1..Len(d) : /\ d[i] \in Seq(Name) /\ Len(d[i]) = 1 /\ d[i][1] # "crc"
                                 /\ d[i] = <<d[i][1]>>
  <1> DEFINE One == {<<n>> : n \in Name \ {"crc"}}
  <1>1. d \in Seq(One) /\ Len(d) + CrcLength <= DataSize
      BY KissAssumption DEF KissAssumption
  <1>2. Len(d) \in Nat /\ DOMAIN d = 1..Len(d)
      BY <1>1
  <1>3. ASSUME NEW i \in 1..Len(d)
        PROVE  d[i] \in Seq(Name) /\ Len(d[i]) = 1 /\ d[i] = <<d[i][1]>> /\ d[i][1] # "crc"
    <2>1. d[i] \in One
        BY <1>1, <1>2
    <2>2. PICK n \in Name \ {"crc"} : d[i] = <<n>>
        BY <2>1
    <2> QED
        BY <2>2, OneName
  <1>4. d \in Seq(Seq(Name))
    <2>1. \A i \in 1..Len(d) : d[i] \in Seq(Name)
        BY <1>3
    <2>2. d = [i \in 1..Len(d) |-> d[i]]
        BY <1>1
    <2> QED
        BY <1>2, <2>1, <2>2
  <1> QED
      BY <1>1, <1>2, <1>3, <1>4

\* The checksum tells its data.
LEMMA Checksums ==
  ASSUME NEW d \in Seq(Seq(Name)), \A i \in 1..Len(d) : Len(d[i]) > 0
  PROVE  /\ Checksum(d) \in Seq(Name) /\ Len(Checksum(d)) = Len(d) + 1
         /\ Checksum(d)[1] = "crc"
         /\ \A i \in 1..Len(d) : Checksum(d)[i + 1] = d[i][1]
  <1> DEFINE names == [j \in 1..Len(d) |-> d[j][1]]
  <1>1. Len(d) \in Nat
      OBVIOUS
  <1>2. ASSUME NEW i \in 1..Len(d) PROVE d[i][1] \in Name
    <2>1. d[i] \in Seq(Name) /\ Len(d[i]) > 0 /\ Len(d[i]) \in Nat
        BY <1>2
    <2> QED
        BY <2>1
  <1>3. names \in Seq(Name) /\ Len(names) = Len(d)
      BY <1>1, <1>2
  <1>4. \A i \in 1..Len(d) : names[i] = d[i][1]
      OBVIOUS
  <1>5. <<"crc">> \in Seq(Name) /\ Len(<<"crc">>) = 1 /\ <<"crc">>[1] = "crc"
      BY OneName DEF Name
  <1>6. Checksum(d) = <<"crc">> \o names
      BY DEF Checksum
  <1> HIDE DEF names
  <1>7. /\ Checksum(d) \in Seq(Name) /\ Len(Checksum(d)) = Len(d) + 1
        /\ Checksum(d)[1] = "crc"
        /\ \A i \in 1..Len(d) : Checksum(d)[i + 1] = names[i]
      BY <1>1, <1>3, <1>5, <1>6
  <1> QED
      BY <1>4, <1>7

\* Data with the same checksum are the same.
LEMMA ChecksumTells ==
  ASSUME NEW d \in Datas, NEW e \in Seq(Seq(Name)), Checksum(e) = Checksum(d),
         \A i \in 1..Len(e) : Len(e[i]) > 0 /\ (e[i][1] # "crc" => Len(e[i]) = 1)
  PROVE  e = d
  <1>1. /\ d \in Seq(Seq(Name)) /\ Len(d) \in Nat /\ DOMAIN d = 1..Len(d)
        /\ \A i \in 1..Len(d) : /\ d[i] \in Seq(Name) /\ Len(d[i]) = 1 /\ d[i][1] # "crc"
                                /\ d[i] = <<d[i][1]>>
      BY DataTypes
  <1>2. \A i \in 1..Len(d) : Len(d[i]) > 0
      BY <1>1
  <1>3. /\ Len(Checksum(d)) = Len(d) + 1
        /\ \A i \in 1..Len(d) : Checksum(d)[i + 1] = d[i][1]
      BY <1>1, <1>2, Checksums
  <1>4. /\ Len(Checksum(e)) = Len(e) + 1
        /\ \A i \in 1..Len(e) : Checksum(e)[i + 1] = e[i][1]
      BY Checksums
  <1>5. Len(e) = Len(d)
      BY <1>1, <1>3, <1>4
  <1>6. ASSUME NEW i \in 1..Len(e) PROVE e[i] = d[i]
    <2>1. e[i][1] = d[i][1]
        BY <1>3, <1>4, <1>5
    <2>2. Len(e[i]) = 1 /\ e[i] \in Seq(Name)
        BY <1>1, <1>5, <2>1
    <2>3. e[i] = <<e[i][1]>>
        BY <2>2
    <2> QED
        BY <1>1, <1>5, <2>1, <2>3
  <1> QED
      BY <1>1, <1>5, <1>6

\* The symbols of a frame.
LEMMA Frames ==
  ASSUME NEW d \in Datas
  PROVE  /\ Frame(d) \in Seq(Seq(Name))
         /\ Len(Frame(d)) = HeaderLength + Len(d) + CrcLength
         /\ Len(Frame(d)) \in Nat /\ Len(Frame(d)) > 0 /\ Len(Frame(d)) <= max_rx_length
         /\ \A i \in 1..Len(d) : Frame(d)[HeaderLength + i] = d[i]
         /\ \A i \in 1..CrcLength : Frame(d)[HeaderLength + Len(d) + i] = Checksum(d)
         /\ \A i \in 1..Len(Frame(d)) : Frame(d)[i] \in Seq(Name) /\ SymbolOf(Frame(d)[i], d)
  <1>1. /\ d \in Seq(Seq(Name)) /\ Len(d) \in Nat /\ DOMAIN d = 1..Len(d)
        /\ Len(d) + CrcLength <= DataSize
        /\ \A i \in 1..Len(d) : d[i] \in Seq(Name) /\ Len(d[i]) = 1 /\ d[i][1] # "crc"
      BY DataTypes
  <1>2. Checksum(d) \in Seq(Name) /\ Len(Checksum(d)) > 0 /\ Checksum(d)[1] = "crc"
    <2>1. \A i \in 1..Len(d) : Len(d[i]) > 0
        BY <1>1
    <2> QED
        BY <1>1, <2>1, Checksums
  <1> DEFINE h == [i \in 1..HeaderLength |-> Header]
             c == Crc(d)
  <1>3. h \in Seq(Seq(Name)) /\ Len(h) = HeaderLength /\ \A i \in 1..HeaderLength : h[i] = Header
      BY ConstantTypes, Protocol
  <1>4. c \in Seq(Seq(Name)) /\ Len(c) = CrcLength /\ \A i \in 1..CrcLength : c[i] = Checksum(d)
      BY <1>2, ConstantTypes DEF Crc
  <1>5. Frame(d) = (h \o d) \o c
      BY DEF Frame
  <1> HIDE DEF h, c
  <1> DEFINE hd == h \o d
  <1>6. /\ hd \in Seq(Seq(Name)) /\ Len(hd) = Len(h) + Len(d)
        /\ \A i \in 1..Len(h) + Len(d) : hd[i] = IF i <= Len(h) THEN h[i] ELSE d[i - Len(h)]
      BY <1>1, <1>3, ConcatProperties
  <1>62. Frame(d) = hd \o c
      BY <1>5
  <1> HIDE DEF hd
  <1>7. /\ hd \in Seq(Seq(Name)) /\ Len(hd) = HeaderLength + Len(d)
        /\ \A i \in 1..HeaderLength : hd[i] = Header
        /\ \A i \in 1..Len(d) : hd[HeaderLength + i] = d[i]
        /\ Frame(d) = hd \o c
    <2>2. \A i \in 1..HeaderLength : i \in 1..Len(h) + Len(d) /\ i <= Len(h)
        BY <1>1, <1>3, ConstantTypes
    <2>3. ASSUME NEW i \in 1..Len(d) PROVE hd[HeaderLength + i] = d[i]
      <3> DEFINE n == HeaderLength + i
      <3>1. n \in 1..Len(h) + Len(d) /\ ~(n <= Len(h)) /\ n - Len(h) = i
          BY <1>1, <1>3, ConstantTypes
      <3> HIDE DEF n
      <3>2. hd[n] = d[n - Len(h)]
          BY <1>6, <3>1
      <3> QED
          BY <3>1, <3>2 DEF n
    <2>4. \A i \in 1..HeaderLength : hd[i] = Header
        BY <1>3, <1>6, <2>2
    <2> QED
        BY <1>3, <1>6, <1>62, <2>3, <2>4
  <1>8. /\ Frame(d) \in Seq(Seq(Name))
        /\ Len(Frame(d)) = HeaderLength + Len(d) + CrcLength
        /\ \A i \in 1..HeaderLength + Len(d) : Frame(d)[i] = hd[i]
        /\ \A i \in 1..CrcLength : Frame(d)[HeaderLength + Len(d) + i] = c[i]
    <2>1. /\ hd \o c \in Seq(Seq(Name)) /\ Len(hd \o c) = Len(hd) + Len(c)
          /\ \A i \in 1..Len(hd) + Len(c) :
                (hd \o c)[i] = IF i <= Len(hd) THEN hd[i] ELSE c[i - Len(hd)]
        BY <1>4, <1>7, ConcatProperties
    <2>2. \A i \in 1..HeaderLength + Len(d) : i \in 1..Len(hd) + Len(c) /\ i <= Len(hd)
        BY <1>1, <1>4, <1>7, ConstantTypes
    <2>3. ASSUME NEW i \in 1..HeaderLength + Len(d) PROVE (hd \o c)[i] = hd[i]
        BY <2>1, <2>2
    <2>4. ASSUME NEW i \in 1..CrcLength PROVE (hd \o c)[HeaderLength + Len(d) + i] = c[i]
      <3> DEFINE n == HeaderLength + Len(d) + i
      <3>1. n \in 1..Len(hd) + Len(c) /\ ~(n <= Len(hd)) /\ n - Len(hd) = i
          BY <1>1, <1>4, <1>7, ConstantTypes
      <3> HIDE DEF n
      <3>2. (hd \o c)[n] = c[i]
          BY <2>1, <3>1
      <3> QED
          BY <3>2 DEF n
    <2>5. Len(hd \o c) = HeaderLength + Len(d) + CrcLength
        BY <1>4, <1>7, <2>1
    <2> QED
        BY <1>7, <2>1, <2>3, <2>4, <2>5
  <1>9. /\ Len(Frame(d)) \in Nat /\ Len(Frame(d)) > 0 /\ Len(Frame(d)) <= max_rx_length
      BY <1>1, <1>8, ConstantTypes
  <1>10. \A i \in 1..Len(d) : Frame(d)[HeaderLength + i] = d[i]
    <2> TAKE i \in 1..Len(d)
    <2>1. HeaderLength + i \in 1..HeaderLength + Len(d)
        BY <1>1, ConstantTypes
    <2> QED
        BY <1>7, <1>8, <2>1
  <1>11. \A i \in 1..CrcLength : Frame(d)[HeaderLength + Len(d) + i] = Checksum(d)
      BY <1>4, <1>8
  <1>12. ASSUME NEW i \in 1..Len(Frame(d))
         PROVE  Frame(d)[i] \in Seq(Name) /\ SymbolOf(Frame(d)[i], d)
    <2>1. CASE i <= HeaderLength
      <3>1. Frame(d)[i] = Header
          BY <1>1, <1>7, <1>8, <2>1, ConstantTypes
      <3> QED
          BY <3>1, Protocol DEF SymbolOf
    <2>2. CASE HeaderLength < i /\ i <= HeaderLength + Len(d)
      <3>1. i - HeaderLength \in 1..Len(d) /\ i = HeaderLength + (i - HeaderLength)
          BY <1>1, <2>2, ConstantTypes
      <3>2. Frame(d)[i] = d[i - HeaderLength]
          BY <1>10, <3>1
      <3> QED
          BY <1>1, <3>1, <3>2 DEF SymbolOf
    <2>3. CASE HeaderLength + Len(d) < i
      <3>1. /\ i - (HeaderLength + Len(d)) \in 1..CrcLength
            /\ i = HeaderLength + Len(d) + (i - (HeaderLength + Len(d)))
          BY <1>1, <1>8, <2>3, ConstantTypes
      <3>2. Frame(d)[i] = Checksum(d)
          BY <1>11, <3>1
      <3> QED
          BY <1>2, <3>2 DEF SymbolOf
    <2> QED
        BY <1>1, <2>1, <2>2, <2>3, ConstantTypes
  <1> QED
      BY <1>8, <1>9, <1>10, <1>11, <1>12

-----------------------------------------------------------------------------
(* The check at the end of a frame *)

\* The payload of what is stored, symbol by symbol.
LEMMA Payloads ==
  ASSUME NEW b \in Seq(Byte), Len(b) >= HeaderLength + CrcLength
  PROVE  /\ Syms(Payload(b)) \in Seq(Seq(Name))
         /\ Len(Syms(Payload(b))) = Len(b) - HeaderLength - CrcLength
         /\ \A i \in 1..Len(b) - HeaderLength - CrcLength :
              /\ Syms(Payload(b))[i] = b[HeaderLength + i].sym
              /\ HeaderLength + i \in 1..Len(b)
  <1>1. Len(b) \in Nat /\ \A i \in 1..Len(b) : b[i] \in Byte
      BY ElementOfSeq
  <1> DEFINE n == Len(b) - HeaderLength - CrcLength
             p == SubSeq(b, HeaderLength + 1, Len(b) - CrcLength)
  <1>2. n \in Nat /\ HeaderLength + 1 \in Int /\ Len(b) - CrcLength \in Int
      BY <1>1, ConstantTypes
  <1>3. \A i \in HeaderLength + 1..Len(b) - CrcLength : b[i] \in Byte
      BY <1>1, ConstantTypes
  <1>4. /\ p \in Seq(Byte)
        /\ Len(p) = IF HeaderLength + 1 <= Len(b) - CrcLength
                    THEN Len(b) - CrcLength - (HeaderLength + 1) + 1 ELSE 0
        /\ \A i \in 1..Len(b) - CrcLength - (HeaderLength + 1) + 1 :
             p[i] = b[HeaderLength + 1 + i - 1]
      BY <1>2, <1>3, SubSeqProperties
  <1> HIDE DEF p
  <1>5. Len(p) = n /\ DOMAIN p = 1..n /\ p \in Seq(Byte)
      BY <1>1, <1>2, <1>4, ConstantTypes
  <1>6. ASSUME NEW i \in 1..n
        PROVE  p[i] = b[HeaderLength + i] /\ HeaderLength + i \in 1..Len(b) /\ p[i].sym \in Seq(Name)
    <2>1. /\ i \in 1..Len(b) - CrcLength - (HeaderLength + 1) + 1
          /\ HeaderLength + 1 + i - 1 = HeaderLength + i /\ HeaderLength + i \in 1..Len(b)
        BY <1>1, <1>2, ConstantTypes
    <2>2. p[i] = b[HeaderLength + i]
        BY <1>4, <2>1
    <2>3. p[i] \in Byte
        BY <1>1, <2>1, <2>2
    <2> QED
        BY <2>1, <2>2, <2>3 DEF Byte
  <1>7. Syms(p) = [i \in 1..n |-> p[i].sym]
      BY <1>5 DEF Syms
  <1>8. Payload(b) = p
      BY DEF Payload, p
  <1> HIDE DEF n
  <1>9. Syms(p) \in Seq(Seq(Name)) /\ Len(Syms(p)) = n
      BY <1>2, <1>6, <1>7
  <1>10. \A i \in 1..n : Syms(p)[i] = b[HeaderLength + i].sym /\ HeaderLength + i \in 1..Len(b)
      BY <1>6, <1>7
  <1> QED
      BY <1>8, <1>9, <1>10 DEF n

\* The symbols the checksum is compared with.
LEMMA Trailers ==
  ASSUME NEW b \in Seq(Byte), Len(b) >= HeaderLength + CrcLength
  PROVE  Syms(SubSeq(b, Len(b) - CrcLength + 1, Len(b))) =
           [i \in 1..CrcLength |-> b[Len(b) - CrcLength + i].sym]
  <1>1. Len(b) \in Nat /\ \A i \in 1..Len(b) : b[i] \in Byte
      BY ElementOfSeq
  <1> DEFINE p == SubSeq(b, Len(b) - CrcLength + 1, Len(b))
  <1>2. Len(b) - CrcLength + 1 \in Int /\ Len(b) \in Int
      BY <1>1, ConstantTypes
  <1>3. \A i \in Len(b) - CrcLength + 1..Len(b) : b[i] \in Byte
      BY <1>1, ConstantTypes
  <1>4. /\ p \in Seq(Byte)
        /\ Len(p) = IF Len(b) - CrcLength + 1 <= Len(b)
                    THEN Len(b) - (Len(b) - CrcLength + 1) + 1 ELSE 0
        /\ \A i \in 1..Len(b) - (Len(b) - CrcLength + 1) + 1 :
             p[i] = b[Len(b) - CrcLength + 1 + i - 1]
      BY <1>2, <1>3, SubSeqProperties
  <1> HIDE DEF p
  <1>5. Len(p) = CrcLength /\ DOMAIN p = 1..CrcLength
      BY <1>1, <1>4, ConstantTypes
  <1>6. \A i \in 1..CrcLength : p[i] = b[Len(b) - CrcLength + i]
    <2> TAKE i \in 1..CrcLength
    <2>1. i \in 1..Len(b) - (Len(b) - CrcLength + 1) + 1
          /\ Len(b) - CrcLength + 1 + i - 1 = Len(b) - CrcLength + i
        BY <1>1, ConstantTypes
    <2> QED
        BY <1>4, <2>1
  <1>7. Syms(p) = [i \in 1..CrcLength |-> p[i].sym]
      BY <1>5 DEF Syms
  <1> QED
      BY <1>6, <1>7 DEF p

\* What passes the check ends with the checksum of its payload.
LEMMA ValidMeans ==
  ASSUME NEW b \in Seq(Byte), Valid(b)
  PROVE  Len(b) >= HeaderLength + CrcLength /\ b[Len(b)].sym = Checksum(Syms(Payload(b)))
  <1>1. Len(b) >= HeaderLength + CrcLength /\ Len(b) \in Nat
      BY DEF Valid
  <1>2. [i \in 1..CrcLength |-> b[Len(b) - CrcLength + i].sym] = Crc(Syms(Payload(b)))
      BY <1>1, Trailers DEF Valid
  <1>3. CrcLength \in 1..CrcLength /\ Len(b) - CrcLength + CrcLength = Len(b)
      BY <1>1, ConstantTypes
  <1>4. Crc(Syms(Payload(b)))[CrcLength] = Checksum(Syms(Payload(b)))
      BY <1>3 DEF Crc
  <1>5. [i \in 1..CrcLength |-> b[Len(b) - CrcLength + i].sym][CrcLength] = b[Len(b)].sym
      BY <1>3
  <1> QED
      BY <1>1, <1>2, <1>4, <1>5

\* A whole frame passes the check.
LEMMA WholeFrame ==
  ASSUME NEW d \in Datas, NEW b \in Seq(Byte), Len(b) = Len(Frame(d)),
         \A i \in 1..Len(b) : b[i].sym = Frame(d)[i]
  PROVE  Valid(b) /\ Syms(Payload(b)) = d
  <1>1. /\ d \in Seq(Seq(Name)) /\ Len(d) \in Nat
        /\ Len(b) = HeaderLength + Len(d) + CrcLength
        /\ \A i \in 1..Len(d) : Frame(d)[HeaderLength + i] = d[i]
        /\ \A i \in 1..CrcLength : Frame(d)[HeaderLength + Len(d) + i] = Checksum(d)
      BY DataTypes, Frames
  <1>2. Len(b) >= HeaderLength + CrcLength /\ Len(b) - HeaderLength - CrcLength = Len(d)
      BY <1>1, ConstantTypes
  <1>3. /\ Syms(Payload(b)) \in Seq(Seq(Name)) /\ Len(Syms(Payload(b))) = Len(d)
        /\ \A i \in 1..Len(d) : /\ Syms(Payload(b))[i] = b[HeaderLength + i].sym
                                /\ HeaderLength + i \in 1..Len(b)
      BY <1>2, Payloads
  <1>4. \A i \in 1..Len(d) : Syms(Payload(b))[i] = d[i]
      BY <1>1, <1>3
  <1>5. Syms(Payload(b)) = d
      BY <1>1, <1>3, <1>4, SeqEqual
  <1>6. \A i \in 1..CrcLength : b[Len(b) - CrcLength + i].sym = Checksum(d)
    <2> TAKE i \in 1..CrcLength
    <2>1. Len(b) - CrcLength + i = HeaderLength + Len(d) + i
          /\ HeaderLength + Len(d) + i \in 1..Len(b)
        BY <1>1, ConstantTypes
    <2> QED
        BY <1>1, <2>1
  <1>7. [i \in 1..CrcLength |-> b[Len(b) - CrcLength + i].sym] = Crc(d)
      BY <1>6 DEF Crc
  <1> QED
      BY <1>2, <1>5, <1>7, Trailers DEF Valid

-----------------------------------------------------------------------------
(* The line *)

\* The variables of a state, typed.
LEMMA StateTypes ==
  ASSUME IInv
  PROVE  /\ wire \in Seq(Byte) /\ Len(wire) \in Nat /\ DOMAIN wire = 1..Len(wire)
         /\ packets \in Seq(Datas) /\ K \in Nat /\ DOMAIN packets = 1..K
         /\ damaged \subseteq 1..K
         /\ rx \in [mode : Mode, first : BOOLEAN, packet : Buffer \cup {None}, data : Seq(Byte)]
         /\ rx.data \in Seq(Byte) /\ Len(rx.data) \in Nat /\ DOMAIN rx.data = 1..Len(rx.data)
         /\ lock \in Task \cup {None}
  BY DEF IInv, Held, TypeOK, K

\* The frame of the packet on the line.
LEMMA FrameOnLine ==
  ASSUME IInv, K > 0
  PROVE  /\ K \in DOMAIN packets /\ packets[K] \in Datas
         /\ Symbols \in Seq(Seq(Name)) /\ Len(Symbols) \in Nat /\ Len(Symbols) > 0
         /\ Len(Symbols) <= max_rx_length
         /\ \A i \in 1..Len(Symbols) : Symbols[i] \in Seq(Name) /\ SymbolOf(Symbols[i], packets[K])
         /\ Len(Left) \in Nat /\ Sent \in Nat /\ Sent <= Len(Symbols)
         /\ lock = None => Sent = Len(Symbols)
  <1>1. packets \in Seq(Datas) /\ K \in Nat /\ DOMAIN packets = 1..K
      BY StateTypes
  <1>2. K \in DOMAIN packets /\ packets[K] \in Datas
      BY <1>1
  <1>3. /\ Symbols \in Seq(Seq(Name)) /\ Len(Symbols) \in Nat /\ Len(Symbols) > 0
        /\ Len(Symbols) <= max_rx_length
        /\ \A i \in 1..Len(Symbols) : Symbols[i] \in Seq(Name) /\ SymbolOf(Symbols[i], packets[K])
      BY <1>2, Frames DEF Symbols
  <1>4. Len(Left) \in Nat /\ (lock = None => Len(Left) = 0) /\ Len(Left) <= Len(Symbols)
    <2>1. CASE lock = None
        BY <1>3, <2>1 DEF Left
    <2>2. CASE lock # None
      <3>1. lock \in Task
          BY <2>2, StateTypes
      <3>2. tx[lock] \in [pc : {"idle", "waiting", "sending"}, data : Datas \cup {<<>>},
                          todo : Seq(Seq(Name))]
          BY <3>1 DEF IInv, Held, TypeOK
      <3>3. Left \in Seq(Seq(Name))
          BY <2>2, <3>2 DEF Left
      <3> QED
          BY <2>2, <3>3 DEF IInv, Senders
    <2> QED
        BY <2>1, <2>2
  <1>5. Sent \in Nat /\ Sent <= Len(Symbols) /\ (lock = None => Sent = Len(Symbols))
      BY <1>3, <1>4 DEF Sent
  <1> QED
      BY <1>2, <1>3, <1>4, <1>5

\* The six places in a frame its bytes come from.
AtFend == Starting /\ Len(wire) = 2
AtType == Starting /\ Len(wire) = 1
AtPlain == lock # None /\ wire # <<>> /\ Sent > 0 /\ ~Special(Symbols[Sent])
AtEscape == lock # None /\ wire # <<>> /\ Sent > 0 /\ Special(Symbols[Sent]) /\ ~Half
AtSecond == lock # None /\ wire # <<>> /\ Sent > 0 /\ Half
AtEnd == lock = None /\ wire # <<>>

\* The byte that is next, and the line behind it.
LEMMA NextByte ==
  ASSUME IInv, wire # <<>>, NEW b, b = Head(wire)
  PROVE  /\ b \in Byte /\ b = wire[1] /\ b.pkt = K /\ K > 0 /\ K \in Nat
         /\ Len(wire) \in 1..2
         /\ \/ AtFend /\ b.sym = FEND
            \/ AtType /\ b.sym = TNC_DATA
            \/ AtPlain /\ Len(wire) = 1 /\ b.sym = Symbols[Sent]
            \/ AtEscape /\ Len(wire) = 2 /\ b.sym = FESC
            \/ AtSecond /\ b.sym = Second(Symbols[Sent])
            \/ AtEnd /\ Len(wire) = 1 /\ b.sym = FEND
  <1>1. /\ wire \in Seq(Byte) /\ Len(wire) \in Nat /\ DOMAIN wire = 1..Len(wire) /\ K \in Nat
        /\ b = wire[1] /\ b \in Byte /\ Len(wire) >= 1
      BY StateTypes
  <1>2. Line /\ K > 0 /\ Len(wire) <= 2
      BY DEF IInv, Line
  <1>3. Len(wire) \in 1..2 /\ 1 \in DOMAIN wire /\ (Len(wire) = 1 \/ Len(wire) = 2)
      BY <1>1, <1>2
  <1>4. b.pkt = K
      BY <1>1, <1>2, <1>3 DEF Line
  <1>5. Sent \in Nat
      BY <1>2, FrameOnLine
  <1>6. CASE lock = None
      BY <1>1, <1>2, <1>3, <1>6 DEF Line, AtEnd
  <1>7. CASE lock # None /\ Sent = 0
      BY <1>1, <1>2, <1>3, <1>7 DEF Line, AtFend, AtType, Starting
  <1>8. CASE lock # None /\ Sent # 0 /\ Special(Symbols[Sent])
      BY <1>1, <1>2, <1>3, <1>5, <1>8 DEF Line, AtEscape, AtSecond, Half
  <1>9. CASE lock # None /\ Sent # 0 /\ ~Special(Symbols[Sent])
    <2>1. AtPlain
        BY <1>5, <1>9 DEF AtPlain
    <2>2. Len(wire) = 1 /\ wire[1].sym = Symbols[Sent]
        BY <1>2, <1>9 DEF Line
    <2>3. b.sym = Symbols[Sent]
        BY <1>1, <2>2
    <2> QED
        BY <1>1, <1>2, <1>3, <1>4, <2>1, <2>2, <2>3
  <1> QED
      BY <1>1, <1>2, <1>3, <1>4, <1>6, <1>7, <1>8, <1>9

\* A byte leaves the line.
Leaves == wire' = Tail(wire) /\ UNCHANGED sender

\* The place that comes next.
LEMMA NextPlace ==
  ASSUME IInv, wire # <<>>, Leaves
  PROVE  /\ K' = K /\ Symbols' = Symbols /\ Left' = Left /\ Sent' = Sent /\ lock' = lock
         /\ wire' \in Seq(Byte) /\ Len(wire') = Len(wire) - 1 /\ Len(wire') \in Nat
         /\ Line' /\ Senders' /\ ~(Starting' /\ Len(wire') = 2)
         /\ AtFend => AtType'
         /\ AtType => ~Starting' /\ ~Done' /\ ~Half' /\ Sent = 0 /\ Arrived' = 0
         /\ AtPlain => /\ ~Starting' /\ ~Done' /\ ~Half' /\ ~Half
                       /\ Arrived = Sent - 1 /\ Arrived' = Sent
         /\ AtEscape => ~Starting' /\ ~Done' /\ Half' /\ Arrived = Sent - 1 /\ Arrived' = Sent - 1
         /\ AtSecond => ~Starting' /\ ~Done' /\ ~Half' /\ Arrived = Sent - 1 /\ Arrived' = Sent
         /\ AtEnd => Done' /\ ~Half /\ Arrived = Len(Symbols)
  <1>1. /\ K' = K /\ Symbols' = Symbols /\ Left' = Left /\ Sent' = Sent /\ lock' = lock
        /\ tx' = tx /\ packets' = packets
      BY DEF Leaves, sender, K, Symbols, Left, Sent
  <1>2. /\ wire \in Seq(Byte) /\ Len(wire) \in Nat /\ DOMAIN wire = 1..Len(wire)
        /\ Len(wire) \in 1..2 /\ K > 0
      BY StateTypes, NextByte
  <1>3. /\ wire' \in Seq(Byte) /\ Len(wire') = Len(wire) - 1 /\ Len(wire') \in Nat
        /\ \A i \in 1..Len(wire') : wire'[i] = wire[i + 1]
      BY <1>2, HeadTailProperties DEF Leaves
  <1>4. Senders'
      BY <1>1 DEF IInv, Senders
  <1>5. Len(wire) = 1 => wire' = <<>>
      BY <1>3
  <1>6. /\ Len(wire) = 2 => /\ wire' # <<>> /\ Len(wire') = 1 /\ wire'[1] = wire[2]
                            /\ DOMAIN wire' = {1} /\ 2 \in DOMAIN wire
    <2> SUFFICES ASSUME Len(wire) = 2
                 PROVE  /\ wire' # <<>> /\ Len(wire') = 1 /\ wire'[1] = wire[2]
                        /\ DOMAIN wire' = {1} /\ 2 \in DOMAIN wire
        OBVIOUS
    <2>1. Len(wire') = 1 /\ wire'[1] = wire[2] /\ 2 \in DOMAIN wire
        BY <1>2, <1>3
    <2>2. DOMAIN wire' = 1..1
        BY <1>3, <2>1
    <2>3. wire' # <<>>
        BY <2>1
    <2> QED
        BY <2>1, <2>2, <2>3
  <1>7. Line'
    <2>1. CASE Len(wire) = 1
        BY <1>5, <2>1 DEF Line
    <2>2. CASE Len(wire) = 2
      <3>1. Line
          BY DEF IInv
      <3>2. wire[2].pkt = K /\ \A i \in DOMAIN wire' : wire'[i].pkt = K
          BY <1>6, <2>2, <3>1 DEF Line
      <3>3. /\ lock # None
            /\ Sent = 0 => wire'[1].sym = TNC_DATA
            /\ Sent # 0 => Special(Symbols[Sent]) /\ wire'[1].sym = Second(Symbols[Sent])
          BY <1>6, <2>2, <3>1 DEF Line
      <3> QED
        <4>1. lock' # None /\ Sent' = Sent /\ Symbols' = Symbols /\ K' > 0 /\ Len(wire') = 1
            BY <1>1, <1>2, <1>6, <2>2, <3>3
        <4>2. \A i \in DOMAIN wire' : wire'[i].pkt = K'
            BY <1>1, <3>2
        <4>3. IF Sent' = 0 THEN wire'[Len(wire')].sym = TNC_DATA
              ELSE Special(Symbols'[Sent']) /\ wire'[Len(wire')].sym = Second(Symbols'[Sent'])
            BY <1>1, <3>3, <4>1 DEF Special, Second
        <4> QED
            BY <4>1, <4>2, <4>3 DEF Line
    <2> QED
        BY <1>2, <2>1, <2>2
  <1>8. Sent \in Nat /\ (lock = None => Sent = Len(Symbols)) /\ Len(Symbols) > 0
      BY <1>2, FrameOnLine
  <1>9. /\ Starting' <=> lock # None /\ wire' # <<>> /\ Sent = 0
        /\ Done' <=> lock = None /\ wire' = <<>>
        /\ Half' <=> lock # None /\ wire' # <<>> /\ Special(Symbols[Sent]) /\ Len(wire') = 1
        /\ Arrived' = IF lock # None /\ wire' # <<>> THEN Sent - 1 ELSE Sent
      BY <1>1 DEF Starting, Done, Half, Arrived, Special
  <1>10. Len(wire) = 1 \/ Len(wire) = 2
      BY <1>2
  <1>11. AtFend => AtType'
      BY <1>6, <1>9 DEF AtFend, AtType, Starting
  <1>12. AtType => ~Starting' /\ ~Done' /\ ~Half' /\ Sent = 0 /\ Arrived' = 0
      BY <1>5, <1>9 DEF AtType, Starting
  <1>13. ~(Starting' /\ Len(wire') = 2)
      BY <1>2, <1>3
  <1>14. AtPlain => ~Starting' /\ ~Done' /\ ~Half' /\ ~Half /\ Arrived = Sent - 1 /\ Arrived' = Sent
    <2>1. AtPlain => Len(wire) = 1
        BY <1>2, <1>8 DEF AtPlain, IInv, Line
    <2> QED
        BY <1>5, <1>9, <2>1 DEF AtPlain, Half, Arrived
  <1>15. AtEscape => ~Starting' /\ ~Done' /\ Half' /\ Arrived = Sent - 1 /\ Arrived' = Sent - 1
      BY <1>6, <1>9, <1>10 DEF AtEscape, Half, Arrived
  <1>16. AtSecond => ~Starting' /\ ~Done' /\ ~Half' /\ Arrived = Sent - 1 /\ Arrived' = Sent
      BY <1>5, <1>9 DEF AtSecond, Half, Arrived
  <1>17. AtEnd => Done' /\ ~Half /\ Arrived = Len(Symbols)
    <2>1. AtEnd => Len(wire) = 1
        BY DEF AtEnd, IInv, Line
    <2> QED
        BY <1>5, <1>8, <1>9, <2>1 DEF AtEnd, Half, Arrived
  <1> QED
      BY <1>1, <1>3, <1>4, <1>7, <1>11, <1>12, <1>13, <1>14, <1>15, <1>16, <1>17

-----------------------------------------------------------------------------
(* What a byte does to the receiver *)

Receiver == [mode : Mode, first : BOOLEAN, packet : Buffer \cup {None}, data : Seq(Byte)]

\* The check for a packet that is too long.
LEMMA CheckedFacts ==
  ASSUME IInv, NEW r, r = Checked
  PROVE  /\ r \in Receiver /\ r.packet = rx.packet /\ r.first = rx.first
         /\ \/ r = rx /\ Len(rx.data) <= max_rx_length
            \/ Len(rx.data) > max_rx_length /\ r.mode = "NOT_STARTED" /\ r.data = <<>>
         /\ r.mode # "NOT_STARTED" => r = rx
  <1>1. rx \in Receiver /\ Len(rx.data) \in Nat
      BY StateTypes DEF Receiver
  <1>2. CASE Len(rx.data) > max_rx_length
    <2>1. r = [rx EXCEPT !.mode = "NOT_STARTED", !.data = <<>>]
        BY <1>2 DEF Checked
    <2>2. "NOT_STARTED" \in Mode /\ <<>> \in Seq(Byte)
        BY DEF Mode
    <2> QED
        BY <1>1, <1>2, <2>1, <2>2 DEF Receiver
  <1>3. CASE ~(Len(rx.data) > max_rx_length)
    <2>1. r = rx
        BY <1>3 DEF Checked
    <2> QED
        BY <1>1, <1>3, <2>1, ConstantTypes
  <1> QED
      BY <1>2, <1>3

\* Nothing is put together: no frame, or none any more.
Out == /\ rx'.mode \in {"NOT_STARTED", "SKIP_FRAME"} /\ rx'.data \in {rx.data, <<>>}
       /\ rx'.packet = rx.packet
       /\ routed' = routed /\ delivered' = delivered
       /\ damaged' \in {damaged, damaged \cup {K}}

\* A frame starts.
New == /\ rx'.mode = "STARTED" /\ rx'.first /\ rx'.data = <<>> /\ rx'.packet \in Buffer \ routed
       /\ Silent

\* The frame goes on.
Same == /\ InFrame /\ rx'.mode \in {"STARTED", "ESCAPED"} /\ rx'.data = rx.data
        /\ rx'.packet = rx.packet
        /\ Silent

\* The frame gets a byte.
Add == /\ InFrame /\ rx'.mode = "STARTED" /\ rx'.packet = rx.packet
       /\ Len(rx.data) <= max_rx_length
       /\ \E x \in Byte : /\ x.pkt = K /\ SymbolOf(x.sym, packets[K])
                          /\ rx'.data = Append(rx.data, x)
       /\ Silent

\* The frame is passed on.
Accept == /\ rx.mode = "STARTED" /\ rx.data # <<>> /\ Valid(rx.data)
          /\ rx'.mode = "NOT_STARTED" /\ rx'.data = rx.data /\ rx'.packet = None
          /\ Head(wire).sym = FEND
          /\ Passed(rx)

\* A byte stored under another symbol.
LEMMA StoredByte ==
  ASSUME IInv, NEW b \in Byte, b.pkt = K, NEW r \in Receiver, NEW s \in Seq(Name)
  PROVE  /\ [b EXCEPT !.sym = s] \in Byte /\ [b EXCEPT !.sym = s] = [sym |-> s, pkt |-> K]
         /\ Stored(r, b, s) \in Receiver
         /\ Stored(r, b, s) = [mode |-> "STARTED", first |-> r.first, packet |-> r.packet,
                               data |-> Append(r.data, [sym |-> s, pkt |-> K])]
  <1> DEFINE x == [b EXCEPT !.sym = s]
  <1>1. x \in Byte /\ x = [sym |-> s, pkt |-> K]
      BY DEF Byte
  <1>2. Stored(r, b, s) = [r EXCEPT !.mode = "STARTED", !.data = Append(r.data, x)]
      BY DEF Stored
  <1> HIDE DEF x
  <1>3. r.data \in Seq(Byte) /\ Append(r.data, x) \in Seq(Byte) /\ "STARTED" \in Mode
      BY <1>1 DEF Receiver, Mode
  <1>4. Stored(r, b, s) = [mode |-> "STARTED", first |-> r.first, packet |-> r.packet,
                           data |-> Append(r.data, x)]
      BY <1>2 DEF Receiver
  <1>5. Stored(r, b, s) \in Receiver
      BY <1>3, <1>4 DEF Receiver
  <1> QED
      BY <1>1, <1>4, <1>5 DEF x

\* The symbols that arrive.
LEMMA ArrivingSymbol ==
  ASSUME IInv, wire # <<>>, NEW b, b = Head(wire)
  PROVE  b.sym \in Seq(Name) /\ SymbolOf(b.sym, packets[K])
  <1>1. /\ b \in Byte /\ K > 0
        /\ \/ b.sym \in {FEND, TNC_DATA, FESC}
           \/ AtPlain /\ b.sym = Symbols[Sent]
           \/ AtSecond /\ b.sym = Second(Symbols[Sent])
      BY NextByte
  <1>2. b.sym \in Seq(Name)
      BY <1>1 DEF Byte
  <1>3. CASE b.sym \in {FEND, TNC_DATA, FESC}
      BY <1>2, <1>3, Protocol DEF SymbolOf
  <1>4. CASE AtPlain /\ b.sym = Symbols[Sent]
    <2>1. Sent \in 1..Len(Symbols)
        BY <1>1, <1>4, FrameOnLine DEF AtPlain
    <2> QED
        BY <1>1, <1>2, <1>4, <2>1, FrameOnLine
  <1>5. CASE AtSecond /\ b.sym = Second(Symbols[Sent])
    <2>1. b.sym \in {TFEND, TFESC}
        BY <1>5 DEF Second
    <2> QED
        BY <1>2, <2>1, Protocol DEF SymbolOf
  <1> QED
      BY <1>1, <1>3, <1>4, <1>5

\* Every byte does one of these.
LEMMA Effects ==
  ASSUME IInv, wire # <<>>, Receive(Head(wire), Checked)
  PROVE  /\ Leaves /\ lost' = lost /\ rx' \in Receiver
         /\ Out \/ New \/ Same \/ Add \/ Accept
  <1> DEFINE b == Head(wire)
             r == Checked
  <1>1. /\ b \in Byte /\ b.pkt = K /\ K \in Nat
        /\ b.sym \in Seq(Name) /\ SymbolOf(b.sym, packets[K])
      BY NextByte, ArrivingSymbol
  <1>2. /\ r \in Receiver /\ r.packet = rx.packet /\ r.first = rx.first
        /\ \/ r = rx /\ Len(rx.data) <= max_rx_length
           \/ Len(rx.data) > max_rx_length /\ r.mode = "NOT_STARTED" /\ r.data = <<>>
        /\ r.mode # "NOT_STARTED" => r = rx
      BY CheckedFacts
  <1>3. /\ rx.packet \in Buffer \cup {None} /\ routed \subseteq Buffer
        /\ (rx.mode \in {"STARTED", "ESCAPED"} => rx.packet # None) /\ rx.packet \notin routed
      BY DEF IInv, Held, TypeOK
  <1>4. r.data \in {rx.data, <<>>} /\ "NOT_STARTED" \in Mode /\ "STARTED" \in Mode
        /\ "ESCAPED" \in Mode /\ "SKIP_FRAME" \in Mode
      BY <1>2 DEF Mode
  <1> HIDE DEF b, r
  <1>5. Receive(b, r)
      BY DEF b, r
  <1>6. Leaves /\ lost' = lost
      BY <1>5 DEF Receive, Arrives, SkipByte, StartFrame, NoMemory, Escape, EmptyFrame,
                  RejectFrame, AcceptFrame, FirstByte, DataByte, Unescape, SkipFrame, Leaves
  <1>7. CASE SkipByte(b, r)
    <2>1. r.mode = "NOT_STARTED" /\ rx' = r /\ Silent
        BY <1>7 DEF SkipByte, Arrives
    <2>2. Out
        BY <1>2, <1>4, <2>1 DEF Out, Silent
    <2> QED
        BY <1>2, <1>6, <2>1, <2>2
  <1>8. CASE StartFrame(b, r)
    <2>1. PICK p \in IF r.packet # None THEN {r.packet} ELSE Available :
             rx' = [mode |-> "STARTED", first |-> TRUE, packet |-> p, data |-> <<>>]
        BY <1>8 DEF StartFrame
    <2>2. p \in Buffer \ routed
        BY <1>2, <1>3, <2>1 DEF Available
    <2>3. Silent
        BY <1>8 DEF StartFrame
    <2>4. New
        BY <2>1, <2>2, <2>3 DEF New
    <2>5. rx' \in Receiver
        BY <1>4, <2>1, <2>2 DEF Receiver
    <2> QED
        BY <1>6, <2>4, <2>5
  <1>9. CASE NoMemory(b, r)
    <2>1. /\ rx' = [r EXCEPT !.mode = "SKIP_FRAME"] /\ damaged' = damaged \cup {K}
          /\ routed' = routed /\ delivered' = delivered
        BY <1>1, <1>9 DEF NoMemory
    <2>2. /\ rx' \in Receiver /\ rx'.mode = "SKIP_FRAME" /\ rx'.data = r.data
          /\ rx'.packet = r.packet
        BY <1>2, <1>4, <2>1 DEF Receiver
    <2> QED
        BY <1>2, <1>4, <1>6, <2>1, <2>2 DEF Out
  <1>10. CASE Escape(b, r)
    <2>1. r.mode = "STARTED" /\ r = rx /\ rx' = [rx EXCEPT !.mode = "ESCAPED"] /\ Silent
        BY <1>2, <1>10 DEF Escape, Arrives
    <2>2. /\ rx' \in Receiver /\ rx'.mode = "ESCAPED" /\ rx'.data = rx.data
          /\ rx'.packet = rx.packet
        BY <1>2, <1>4, <2>1 DEF Receiver
    <2> QED
        BY <1>6, <2>1, <2>2 DEF Same, InFrame
  <1>11. CASE EmptyFrame(b, r)
    <2>1. r.mode = "STARTED" /\ r = rx /\ rx' = rx /\ Silent
        BY <1>2, <1>11 DEF EmptyFrame, Arrives
    <2> QED
        BY <1>2, <1>6, <2>1 DEF Same, InFrame
  <1>12. CASE RejectFrame(b, r)
    <2>1. r.mode = "STARTED" /\ r = rx /\ rx' = [rx EXCEPT !.mode = "NOT_STARTED"] /\ Silent
        BY <1>2, <1>12 DEF RejectFrame, Arrives
    <2>2. /\ rx' \in Receiver /\ rx'.mode = "NOT_STARTED" /\ rx'.data = rx.data
          /\ rx'.packet = rx.packet
        BY <1>2, <1>4, <2>1 DEF Receiver
    <2> QED
        BY <1>6, <2>1, <2>2 DEF Out, Silent
  <1>13. CASE AcceptFrame(b, r)
    <2>1. /\ r.mode = "STARTED" /\ r = rx /\ b.sym = FEND /\ rx.data # <<>> /\ Valid(rx.data)
          /\ rx' = [rx EXCEPT !.mode = "NOT_STARTED", !.packet = None] /\ Passed(rx)
        BY <1>2, <1>13 DEF AcceptFrame, Arrives
    <2>2. /\ rx' \in Receiver /\ rx'.mode = "NOT_STARTED" /\ rx'.data = rx.data
          /\ rx'.packet = None
        BY <1>2, <1>4, <2>1 DEF Receiver
    <2> QED
        BY <1>6, <2>1, <2>2 DEF Accept, b
  <1>14. CASE FirstByte(b, r)
    <2>1. r.mode = "STARTED" /\ r = rx /\ rx' = [rx EXCEPT !.first = FALSE] /\ Silent
        BY <1>2, <1>14 DEF FirstByte, Arrives
    <2>2. /\ rx' \in Receiver /\ rx'.mode = rx.mode /\ rx'.data = rx.data
          /\ rx'.packet = rx.packet
        BY <1>2, <1>4, <2>1 DEF Receiver
    <2> QED
        BY <1>6, <2>1, <2>2 DEF Same, InFrame
  <1>15. ASSUME r = rx, InFrame, NEW s \in Seq(Name), SymbolOf(s, packets[K]),
                rx' = Stored(r, b, s), Silent
         PROVE  rx' \in Receiver /\ Add
    <2>1. /\ [sym |-> s, pkt |-> K] \in Byte /\ rx' \in Receiver
          /\ rx' = [mode |-> "STARTED", first |-> rx.first, packet |-> rx.packet,
                    data |-> Append(rx.data, [sym |-> s, pkt |-> K])]
      <3>1. /\ [b EXCEPT !.sym = s] \in Byte /\ [b EXCEPT !.sym = s] = [sym |-> s, pkt |-> K]
            /\ Stored(r, b, s) \in Receiver
            /\ Stored(r, b, s) = [mode |-> "STARTED", first |-> r.first, packet |-> r.packet,
                                  data |-> Append(r.data, [sym |-> s, pkt |-> K])]
          BY <1>1, <1>2, StoredByte
      <3> QED
          BY <1>15, <3>1
    <2>2. Len(rx.data) <= max_rx_length
        BY <1>2, <1>15, ConstantTypes DEF InFrame
    <2>3. /\ rx'.mode = "STARTED" /\ rx'.packet = rx.packet
          /\ rx'.data = Append(rx.data, [sym |-> s, pkt |-> K])
        BY <2>1
    <2>4. [sym |-> s, pkt |-> K].pkt = K /\ SymbolOf([sym |-> s, pkt |-> K].sym, packets[K])
        BY <1>15
    <2> QED
        BY <1>15, <2>1, <2>2, <2>3, <2>4 DEF Add
  <1>16. CASE DataByte(b, r)
    <2>1. r.mode = "STARTED" /\ r = rx /\ rx' = Stored(r, b, b.sym) /\ Silent
        BY <1>2, <1>16 DEF DataByte, Arrives
    <2> QED
        BY <1>1, <1>6, <1>15, <2>1 DEF InFrame
  <1>17. CASE Unescape(b, r)
    <2>1. /\ r.mode = "ESCAPED" /\ r = rx /\ Silent
          /\ rx' = IF b.sym = TFESC THEN Stored(r, b, FESC)
                   ELSE IF b.sym = TFEND THEN Stored(r, b, FEND)
                   ELSE [r EXCEPT !.mode = "STARTED"]
        BY <1>2, <1>17 DEF Unescape, Arrives
    <2>2. ASSUME NEW s \in {FEND, FESC} PROVE s \in Seq(Name) /\ SymbolOf(s, packets[K])
        BY Protocol DEF SymbolOf
    <2>3. CASE rx' = Stored(r, b, FESC) \/ rx' = Stored(r, b, FEND)
        BY <1>6, <1>15, <2>1, <2>2, <2>3 DEF InFrame
    <2>4. CASE rx' = [r EXCEPT !.mode = "STARTED"]
      <3>1. /\ rx' \in Receiver /\ rx'.mode = "STARTED" /\ rx'.data = rx.data
            /\ rx'.packet = rx.packet
          BY <1>2, <1>4, <2>1, <2>4 DEF Receiver
      <3> QED
          BY <1>6, <2>1, <3>1 DEF Same, InFrame
    <2> QED
        BY <2>1, <2>3, <2>4
  <1>18. CASE SkipFrame(b, r)
    <2>1. /\ r.mode = "SKIP_FRAME" /\ r = rx /\ Silent
          /\ rx' = IF b.sym = FEND THEN [r EXCEPT !.mode = "NOT_STARTED"] ELSE r
        BY <1>2, <1>18 DEF SkipFrame, Arrives
    <2>2. /\ rx' \in Receiver /\ rx'.mode \in {"NOT_STARTED", "SKIP_FRAME"} /\ rx'.data = rx.data
          /\ rx'.packet = rx.packet
        BY <1>2, <1>4, <2>1 DEF Receiver
    <2> QED
        BY <1>6, <2>1, <2>2 DEF Out, Silent
  <1> QED
      BY <1>5, <1>7, <1>8, <1>9, <1>10, <1>11, <1>12, <1>13, <1>14, <1>16, <1>17, <1>18
         DEF Receive

-----------------------------------------------------------------------------
(* What every byte keeps *)

\* What is stored stays in the buffer, but for the byte that the check comes too late for.
LEMMA InBufferKept ==
  ASSUME IInv, wire # <<>>, Receive(Head(wire), Checked)
  PROVE  InBuffer'
  <1> DEFINE b == Head(wire)
             r == Checked
  <1>1. /\ r \in Receiver /\ r.data \in Seq(Byte) /\ Len(r.data) \in Nat
        /\ Len(r.data) <= max_rx_length
    <2>1. /\ r \in Receiver
          /\ \/ r = rx /\ Len(rx.data) <= max_rx_length
             \/ r.data = <<>>
        BY CheckedFacts
    <2>2. r.data \in Seq(Byte) /\ Len(r.data) \in Nat
        BY <2>1 DEF Receiver
    <2> QED
        BY <2>1, <2>2, ConstantTypes
  <1>2. b \in Byte /\ b.pkt = K
      BY NextByte
  <1> HIDE DEF b, r
  <1>3. Receive(b, r)
      BY DEF b, r
  <1>4. CASE rx'.data \in {r.data, <<>>}
      BY <1>1, <1>4, ConstantTypes DEF InBuffer
  <1>5. CASE \E s \in {b.sym, FESC, FEND} : rx' = Stored(r, b, s)
    <2>1. PICK s \in {b.sym, FESC, FEND} : rx' = Stored(r, b, s)
        BY <1>5
    <2>2. s \in Seq(Name)
        BY <1>2, Protocol DEF Byte
    <2>3. /\ [b EXCEPT !.sym = s] \in Byte
          /\ rx'.mode = "STARTED" /\ rx'.data = Append(r.data, [sym |-> s, pkt |-> K])
          /\ [b EXCEPT !.sym = s] = [sym |-> s, pkt |-> K]
        BY <1>1, <1>2, <2>1, <2>2, StoredByte
    <2>4. Len(rx'.data) = Len(r.data) + 1
        BY <1>1, <2>3
    <2>5. Len(rx'.data) <= max_rx_length \/ Len(rx'.data) = max_rx_length + 1
      <3>1. Len(r.data) + 1 <= max_rx_length \/ Len(r.data) + 1 = max_rx_length + 1
          BY <1>1, ConstantTypes
      <3> QED
          BY <2>4, <3>1
    <2>6. rx'.mode = "STARTED"
        BY <2>3
    <2> QED
        BY <2>5, <2>6 DEF InBuffer
  <1>6. \/ rx'.data \in {r.data, <<>>}
        \/ \E s \in {b.sym, FESC, FEND} : rx' = Stored(r, b, s)
    <2>1. CASE SkipByte(b, r) \/ EmptyFrame(b, r)
        BY <2>1 DEF SkipByte, EmptyFrame
    <2>2. CASE StartFrame(b, r)
        BY <2>2 DEF StartFrame
    <2>3. CASE NoMemory(b, r) \/ Escape(b, r) \/ RejectFrame(b, r) \/ FirstByte(b, r)
        BY <1>1, <2>3 DEF NoMemory, Escape, RejectFrame, FirstByte, Receiver
    <2>4. CASE AcceptFrame(b, r)
        BY <1>1, <2>4 DEF AcceptFrame, Receiver
    <2>5. CASE DataByte(b, r)
        BY <2>5 DEF DataByte
    <2>6. CASE Unescape(b, r)
      <3>1. \/ rx' \in {Stored(r, b, FESC), Stored(r, b, FEND)}
            \/ rx' = [r EXCEPT !.mode = "STARTED"]
          BY <2>6 DEF Unescape
      <3> QED
          BY <1>1, <3>1 DEF Receiver
    <2>7. CASE SkipFrame(b, r)
      <3>1. rx' \in {[r EXCEPT !.mode = "NOT_STARTED"], r}
          BY <2>7 DEF SkipFrame
      <3> QED
          BY <1>1, <3>1 DEF Receiver
    <2> QED
        BY <1>3, <2>1, <2>2, <2>3, <2>4, <2>5, <2>6, <2>7 DEF Receive
  <1> QED
      BY <1>4, <1>5, <1>6

\* Types, and the buffer that is stored into.
LEMMA HeldKept ==
  ASSUME IInv, wire # <<>>, Receive(Head(wire), Checked)
  PROVE  Held' /\ delivered' \in Seq(Deliveries)
  <1>1. /\ Leaves /\ lost' = lost /\ rx' \in Receiver
        /\ Out \/ New \/ Same \/ Add \/ Accept
      BY Effects
  <1>2. /\ wire' \in Seq(Byte) /\ rx.data \in Seq(Byte) /\ Len(rx.data) \in Nat
        /\ K \in DOMAIN packets
    <2>1. K > 0
        BY NextByte
    <2> QED
        BY <1>1, <2>1, NextPlace, StateTypes, FrameOnLine
  <1>3. /\ TypeOK /\ (InFrame => rx.packet # None) /\ rx.packet \notin routed
        /\ routed \subseteq Buffer
        /\ damaged \subseteq DOMAIN packets /\ delivered \in Seq(Deliveries)
        /\ rx.packet \in Buffer \cup {None}
      BY DEF IInv, Held, TypeOK, InFrame
  <1>4. None \notin Buffer
      BY ConstantTypes
  <1>5. /\ routed' \subseteq Buffer
        /\ damaged' \subseteq DOMAIN packets
        /\ InFrame' => rx'.packet # None
        /\ rx'.packet \notin routed'
    <2>1. CASE Out
        BY <1>2, <1>3, <2>1, ConstantTypes DEF Out, InFrame
    <2>2. CASE New
        BY <1>2, <1>3, <1>4, <2>2, ConstantTypes DEF New, Silent
    <2>3. CASE Same
        BY <1>3, <2>3 DEF Same, Silent
    <2>4. CASE Add
        BY <1>3, <2>4 DEF Add, Silent
    <2>5. CASE Accept
        BY <1>3, <1>4, <2>5 DEF Accept, Passed, InFrame
    <2> QED
        BY <1>1, <2>1, <2>2, <2>3, <2>4, <2>5
  <1>6. TypeOK'
      BY <1>1, <1>2, <1>3, <1>5 DEF TypeOK, Leaves, sender, Receiver
  <1>7. delivered' \in Seq(Deliveries)
    <2>1. CASE delivered' = delivered
        BY <1>3, <2>1
    <2>2. CASE Accept
      <3> DEFINE h == [i \in 1..HeaderLength |-> rx.data[i].pkt]
                 d == Syms(Payload(rx.data))
      <3>1. Len(rx.data) >= HeaderLength + CrcLength
          BY <1>2, <2>2, ValidMeans DEF Accept
      <3>2. d \in Seq(Seq(Name))
          BY <1>2, <3>1, Payloads
      <3>3. h \in [1..HeaderLength -> Nat]
        <4>1. ASSUME NEW i \in 1..HeaderLength PROVE rx.data[i].pkt \in Nat
          <5>1. rx.data[i] \in Byte
              BY <1>2, <3>1, ConstantTypes, ElementOfSeq
          <5> QED
              BY <5>1 DEF Byte
        <4> QED
            BY <4>1
      <3>4. delivered' = Append(delivered, [header |-> h, data |-> d])
          BY <2>2 DEF Accept, Passed
      <3> HIDE DEF h, d
      <3>5. [header |-> h, data |-> d] \in Deliveries
          BY <3>2, <3>3 DEF Deliveries
      <3> QED
          BY <1>3, <3>4, <3>5
    <2> QED
        BY <1>1, <2>1, <2>2 DEF Out, New, Same, Add, Silent
  <1> QED
      BY <1>5, <1>6, <1>7, InBufferKept DEF Held, InFrame

\* The bytes stored.
LEMMA ContentsKept ==
  ASSUME IInv, wire # <<>>, Receive(Head(wire), Checked)
  PROVE  Contents'
  <1>1. Leaves /\ (Out \/ New \/ Same \/ Add \/ Accept)
      BY Effects
  <1>2. K' = K /\ packets' = packets /\ K \in Nat /\ K > 0
      BY <1>1, NextPlace, NextByte DEF Leaves, sender
  <1>3. rx.data \in Seq(Byte) /\ Len(rx.data) \in Nat /\ DOMAIN rx.data = 1..Len(rx.data)
      BY StateTypes
  <1>4. Contents
      BY DEF IInv
  <1>5. CASE rx'.data \in {rx.data, <<>>}
      BY <1>2, <1>4, <1>5 DEF Contents
  <1>6. CASE Add
    <2>1. PICK x \in Byte : /\ x.pkt = K /\ SymbolOf(x.sym, packets[K])
                            /\ rx'.data = Append(rx.data, x)
        BY <1>6 DEF Add
    <2>2. /\ DOMAIN rx'.data = 1..Len(rx.data) + 1 /\ rx'.data[Len(rx.data) + 1] = x
          /\ \A i \in 1..Len(rx.data) : rx'.data[i] = rx.data[i]
        BY <1>3, <2>1, AppendProperties
    <2>3. ASSUME NEW i \in DOMAIN rx'.data
          PROVE  /\ rx'.data[i].pkt \in 1..K /\ SymbolOf(rx'.data[i].sym, packets[rx'.data[i].pkt])
      <3>1. CASE i \in DOMAIN rx.data
          BY <1>3, <1>4, <2>2, <3>1 DEF Contents
      <3>2. CASE i = Len(rx.data) + 1
          BY <1>2, <2>1, <2>2, <3>2
      <3> QED
          BY <1>3, <2>2, <3>1, <3>2
    <2>4. ASSUME NEW i \in DOMAIN rx'.data, NEW j \in DOMAIN rx'.data, i < j
          PROVE  rx'.data[i].pkt <= rx'.data[j].pkt
      <3>1. i \in DOMAIN rx.data
          BY <1>3, <2>2, <2>4
      <3>2. CASE j \in DOMAIN rx.data
          BY <1>3, <1>4, <2>2, <2>4, <3>1, <3>2 DEF Contents
      <3>3. CASE j = Len(rx.data) + 1
        <4>1. rx.data[i].pkt \in 1..K
            BY <1>4, <3>1 DEF Contents
        <4> QED
            BY <1>2, <1>3, <2>1, <2>2, <3>1, <3>3, <4>1
      <3> QED
          BY <1>3, <2>2, <3>2, <3>3
    <2> QED
        BY <1>2, <2>3, <2>4 DEF Contents
  <1> QED
      BY <1>1, <1>5, <1>6 DEF Out, New, Same, Accept

\* Where an accepted frame ends, and where its bytes come from.
LEMMA AcceptedFrame ==
  ASSUME IInv, wire # <<>>, Receive(Head(wire), Checked), Accept
  PROVE  \E k \in 1..K :
           /\ Len(rx.data) >= HeaderLength + CrcLength
           /\ Syms(Payload(rx.data)) = packets[k]
           /\ \A i \in 1..HeaderLength :
                /\ rx.data[i].pkt \in 1..K /\ rx.data[i].pkt <= rx.data[HeaderLength].pkt
                /\ rx.data[i].pkt = k
                   \/ (rx.data[i].pkt < k /\ {rx.data[i].pkt, k} \subseteq damaged)
                /\ \A j \in DOMAIN delivered :
                     delivered[j].header[HeaderLength] < rx.data[i].pkt
                /\ rx.data[i].pkt = K => Done'
  <1> DEFINE n == Len(rx.data)
             k == rx.data[n].pkt
             d == Syms(Payload(rx.data))
  <1>1. /\ rx.data \in Seq(Byte) /\ n \in Nat /\ DOMAIN rx.data = 1..n /\ K \in Nat
        /\ packets \in Seq(Datas) /\ DOMAIN packets = 1..K /\ damaged \subseteq 1..K
      BY StateTypes
  <1>2. n >= HeaderLength + CrcLength /\ rx.data[n].sym = Checksum(d)
      BY <1>1, ValidMeans DEF Accept
  <1>3. n \in DOMAIN rx.data /\ HeaderLength \in DOMAIN rx.data
        /\ \A i \in 1..HeaderLength : i \in DOMAIN rx.data /\ i < n
      BY <1>1, <1>2, ConstantTypes
  <1>4. /\ \A i \in DOMAIN rx.data : /\ rx.data[i].pkt \in 1..K
                                     /\ SymbolOf(rx.data[i].sym, packets[rx.data[i].pkt])
        /\ \A i, j \in DOMAIN rx.data : i < j => rx.data[i].pkt <= rx.data[j].pkt
      BY DEF IInv, Contents
  <1>5. k \in 1..K /\ packets[k] \in Datas
      BY <1>1, <1>3, <1>4
  <1>6. /\ d \in Seq(Seq(Name)) /\ Len(d) = n - HeaderLength - CrcLength
        /\ \A i \in 1..n - HeaderLength - CrcLength :
             d[i] = rx.data[HeaderLength + i].sym /\ HeaderLength + i \in 1..n
      BY <1>1, <1>2, Payloads
  <1> HIDE DEF d
  <1>7. \A i \in 1..Len(d) : /\ d[i] \in Seq(Name)
                             /\ \E e \in Datas : SymbolOf(d[i], e)
    <2> TAKE i \in 1..Len(d)
    <2>1. d[i] = rx.data[HeaderLength + i].sym /\ HeaderLength + i \in DOMAIN rx.data
        BY <1>1, <1>6
    <2>2. packets[rx.data[HeaderLength + i].pkt] \in Datas
        BY <1>1, <1>4, <2>1
    <2> QED
        BY <1>4, <1>6, <2>1, <2>2
  <1>8. \A i \in 1..Len(d) : Len(d[i]) > 0 /\ (d[i][1] # "crc" => Len(d[i]) = 1)
      BY <1>7 DEF SymbolOf
  <1>9. Checksum(d)[1] = "crc"
      BY <1>6, <1>8, Checksums
  <1>10. Checksum(d) = Checksum(packets[k])
    <2>1. SymbolOf(rx.data[n].sym, packets[k])
        BY <1>3, <1>4
    <2> QED
        BY <1>2, <1>9, <2>1 DEF SymbolOf
  <1>11. d = packets[k]
      BY <1>5, <1>6, <1>8, <1>10, ChecksumTells
  <1>12. InFrame
      BY DEF Accept, InFrame
  <1>13. /\ \A i \in DOMAIN rx.data :
              /\ rx.data[i].pkt = K \/ rx.data[i].pkt \in damaged
              /\ Starting /\ Len(wire) = 2 => rx.data[i].pkt < K
              /\ \A j \in DOMAIN delivered : delivered[j].header[HeaderLength] < rx.data[i].pkt
      BY <1>12 DEF IInv, Recent
  <1>14. AtFend \/ AtEnd
    <2>1. Head(wire).sym = FEND
        BY DEF Accept
    <2>2. \/ AtFend \/ AtEnd
          \/ Head(wire).sym \in {TNC_DATA, FESC}
          \/ AtPlain /\ Head(wire).sym = Symbols[Sent]
          \/ AtSecond /\ Head(wire).sym = Second(Symbols[Sent])
        BY NextByte
    <2>3. AtPlain => Symbols[Sent] # FEND
        BY DEF AtPlain, Special
    <2>4. Second(Symbols[Sent]) \in {TFEND, TFESC}
        BY DEF Second
    <2> QED
        BY <2>1, <2>2, <2>3, <2>4, Protocol
  <1>15. Leaves
      BY Effects
  <1>16. ASSUME NEW i \in DOMAIN rx.data, rx.data[i].pkt = K PROVE AtEnd /\ Done'
    <2>1. ~AtFend
        BY <1>1, <1>13, <1>16 DEF AtFend
    <2> QED
        BY <1>14, <1>15, <2>1, NextPlace
  <1>17. ASSUME NEW i \in 1..HeaderLength, rx.data[i].pkt # k
         PROVE  rx.data[i].pkt < k /\ {rx.data[i].pkt, k} \subseteq damaged
    <2>1. rx.data[i].pkt <= k /\ rx.data[i].pkt \in 1..K /\ k \in 1..K
        BY <1>3, <1>4, <1>5
    <2>2. rx.data[i].pkt < k /\ rx.data[i].pkt # K
        BY <1>1, <1>17, <2>1
    <2>3. rx.data[i].pkt \in damaged
        BY <1>3, <1>13, <2>2
    <2>4. k \in damaged
      <3> SUFFICES ASSUME k \notin damaged PROVE FALSE
          OBVIOUS
      <3>1. k = K /\ AtEnd
          BY <1>3, <1>13, <1>16
      <3>2. K > 0 /\ K \notin damaged /\ ~Half /\ Arrived = Len(Symbols) /\ ~Starting /\ ~Done
          BY <1>1, <1>5, <1>15, <3>1, NextPlace DEF AtEnd, Starting, Done
      <3>3. Exact \/ Longer
          BY <3>2 DEF IInv, Follows, Accept
      <3>4. Len(Symbols) = HeaderLength + Len(d) + CrcLength /\ Len(Symbols) \in Nat
          BY <1>5, <1>11, <3>1, Frames DEF Symbols
      <3>5. Len(rx.data) = Len(Symbols)
          BY <1>1, <1>6, <3>4, ConstantTypes
      <3>6. Exact
          BY <1>1, <3>2, <3>3, <3>5 DEF Longer
      <3>7. i \in 1..Arrived
          BY <1>3, <1>1, <3>2, <3>5
      <3>8. rx.data[i].pkt = K
        <4>1. rx.data[i] = [sym |-> Symbols[i], pkt |-> K]
            BY <3>6, <3>7 DEF Exact
        <4> QED
            BY <4>1
      <3> QED
          BY <1>17, <3>1, <3>8
    <2> QED
        BY <2>2, <2>3, <2>4
  <1>18. ASSUME NEW i \in 1..HeaderLength
         PROVE  /\ rx.data[i].pkt \in 1..K /\ rx.data[i].pkt <= rx.data[HeaderLength].pkt
                /\ rx.data[i].pkt = k
                   \/ (rx.data[i].pkt < k /\ {rx.data[i].pkt, k} \subseteq damaged)
                /\ \A j \in DOMAIN delivered :
                     delivered[j].header[HeaderLength] < rx.data[i].pkt
                /\ rx.data[i].pkt = K => Done'
    <2>1. rx.data[i].pkt <= rx.data[HeaderLength].pkt
      <3>1. CASE i = HeaderLength
          BY <1>3, <1>4, <3>1
      <3>2. CASE i # HeaderLength
        <4>1. i < HeaderLength
            BY <3>2, ConstantTypes
        <4> QED
            BY <1>3, <1>4, <4>1
      <3> QED
          BY <3>1, <3>2
    <2>2. i \in DOMAIN rx.data
        BY <1>3
    <2> QED
        BY <1>4, <1>13, <1>16, <1>17, <2>1, <2>2
  <1> HIDE DEF k, n
  <1> QED
      BY <1>2, <1>5, <1>11, <1>18 DEF d, n

\* The history of what is delivered grows by one frame at most.
LEMMA Grows ==
  ASSUME IInv, wire # <<>>, Receive(Head(wire), Checked)
  PROVE  /\ ~Accept => delivered' = delivered
         /\ Accept =>
              LET n == Len(delivered) IN
              /\ n \in Nat /\ DOMAIN delivered = 1..n /\ DOMAIN delivered' = 1..n + 1
              /\ \A j \in 1..n : delivered'[j] = delivered[j]
              /\ delivered'[n + 1].data = Syms(Payload(rx.data))
              /\ \A i \in 1..HeaderLength : delivered'[n + 1].header[i] = rx.data[i].pkt
  <1>1. ~Accept => delivered' = delivered
      BY Effects DEF Out, New, Same, Add, Silent
  <1>2. ASSUME Accept, NEW n, n = Len(delivered)
        PROVE  /\ n \in Nat /\ DOMAIN delivered = 1..n /\ DOMAIN delivered' = 1..n + 1
               /\ \A j \in 1..n : delivered'[j] = delivered[j]
               /\ delivered'[n + 1].data = Syms(Payload(rx.data))
               /\ \A i \in 1..HeaderLength : delivered'[n + 1].header[i] = rx.data[i].pkt
    <2> DEFINE h == [i \in 1..HeaderLength |-> rx.data[i].pkt]
               d == Syms(Payload(rx.data))
    <2>1. delivered' = Append(delivered, [header |-> h, data |-> d])
        BY <1>2 DEF Accept, Passed
    <2>2. \A i \in 1..HeaderLength : h[i] = rx.data[i].pkt
        OBVIOUS
    <2> HIDE DEF h, d
    <2>3. delivered \in Seq(Deliveries) /\ delivered' \in Seq(Deliveries)
        BY HeldKept DEF IInv
    <2>4. /\ n \in Nat /\ DOMAIN delivered = 1..n /\ DOMAIN delivered' = 1..n + 1
          /\ \A j \in 1..n : delivered'[j] = delivered[j]
          /\ delivered'[n + 1] = [header |-> h, data |-> d]
        BY <1>2, <2>1, <2>3
    <2>5. delivered'[n + 1].data = d /\ delivered'[n + 1].header = h
        BY <2>4
    <2> QED
        BY <2>2, <2>4, <2>5 DEF d
  <1> QED
      BY <1>1, <1>2

\* The frame under way.
LEMMA RecentKept ==
  ASSUME IInv, wire # <<>>, Receive(Head(wire), Checked)
  PROVE  Recent'
  <1>1. Leaves /\ (Out \/ New \/ Same \/ Add \/ Accept)
      BY Effects
  <1>2. K' = K /\ K \in Nat /\ K > 0 /\ ~(Starting' /\ Len(wire') = 2) /\ ~Done
      BY <1>1, NextPlace, NextByte DEF Done
  <1>3. /\ rx.data \in Seq(Byte) /\ Len(rx.data) \in Nat /\ DOMAIN rx.data = 1..Len(rx.data)
        /\ delivered \in Seq(Deliveries)
      BY StateTypes DEF IInv
  <1>4. Recent
      BY DEF IInv
  <1>5. ASSUME NEW j \in DOMAIN delivered
        PROVE  /\ delivered[j].header[HeaderLength] \in Nat
               /\ delivered[j].header[HeaderLength] < K
    <2>1. delivered[j] \in Deliveries
        BY <1>3
    <2>2. delivered[j].header[HeaderLength] \in Nat
        BY <2>1, ConstantTypes DEF Deliveries
    <2> QED
        BY <1>2, <1>4, <2>2 DEF Recent
  <1>6. \A j \in DOMAIN delivered' :
           LET h == delivered'[j].header[HeaderLength] IN h < K \/ (h = K /\ Done')
    <2>1. CASE ~Accept
      <3>1. delivered' = delivered
          BY <2>1, Grows
      <3> QED
          BY <1>5, <3>1
    <2>2. CASE Accept
      <3>1. PICK n \in Nat :
               /\ DOMAIN delivered = 1..n /\ DOMAIN delivered' = 1..n + 1
               /\ \A j \in 1..n : delivered'[j] = delivered[j]
               /\ \A i \in 1..HeaderLength : delivered'[n + 1].header[i] = rx.data[i].pkt
          BY <2>2, Grows
      <3>2. PICK k \in 1..K : \A i \in 1..HeaderLength :
                /\ rx.data[i].pkt \in 1..K /\ (rx.data[i].pkt = K => Done')
          BY <2>2, AcceptedFrame
      <3>3. delivered'[n + 1].header[HeaderLength] = rx.data[HeaderLength].pkt
            /\ rx.data[HeaderLength].pkt \in 1..K /\ (rx.data[HeaderLength].pkt = K => Done')
          BY <3>1, <3>2, ConstantTypes
      <3>4. ASSUME NEW j \in DOMAIN delivered'
            PROVE  LET h == delivered'[j].header[HeaderLength] IN h < K \/ (h = K /\ Done')
        <4>1. CASE j \in 1..n
            BY <1>5, <3>1, <4>1
        <4>2. CASE j = n + 1
            BY <1>2, <3>3, <4>2
        <4> QED
            BY <3>1, <4>1, <4>2
      <3> QED
          BY <3>4
    <2> QED
        BY <2>1, <2>2
  <1>7. ASSUME InFrame', NEW i \in DOMAIN rx'.data
        PROVE  /\ rx'.data[i].pkt = K \/ rx'.data[i].pkt \in damaged'
               /\ \A j \in DOMAIN delivered' :
                    delivered'[j].header[HeaderLength] < rx'.data[i].pkt
    <2>1. Same \/ Add
        BY <1>1, <1>7 DEF InFrame, Out, New, Accept
    <2>2. InFrame /\ delivered' = delivered /\ damaged' = damaged
        BY <2>1 DEF Same, Add, Silent
    <2>3. \A m \in DOMAIN rx.data :
            /\ rx.data[m].pkt = K \/ rx.data[m].pkt \in damaged
            /\ \A j \in DOMAIN delivered :
                 delivered[j].header[HeaderLength] < rx.data[m].pkt
        BY <1>4, <2>2 DEF Recent
    <2>4. CASE Same
        BY <1>7, <2>2, <2>3, <2>4 DEF Same
    <2>5. CASE Add
      <3>1. PICK x \in Byte : x.pkt = K /\ rx'.data = Append(rx.data, x)
          BY <2>5 DEF Add
      <3>2. /\ DOMAIN rx'.data = 1..Len(rx.data) + 1 /\ rx'.data[Len(rx.data) + 1] = x
            /\ \A m \in 1..Len(rx.data) : rx'.data[m] = rx.data[m]
          BY <1>3, <3>1, AppendProperties
      <3>3. CASE i \in DOMAIN rx.data
          BY <1>3, <2>2, <2>3, <3>2, <3>3
      <3>4. CASE i = Len(rx.data) + 1
          BY <1>5, <2>2, <3>1, <3>2, <3>4
      <3> QED
          BY <1>3, <1>7, <3>2, <3>3, <3>4
    <2> QED
        BY <2>1, <2>4, <2>5
  <1> QED
      BY <1>2, <1>6, <1>7 DEF Recent

\* What is delivered.
LEMMA IntactKept ==
  ASSUME IInv, wire # <<>>, Receive(Head(wire), Checked)
  PROVE  Intact'
  <1>1. Leaves /\ (Out \/ New \/ Same \/ Add \/ Accept)
      BY Effects
  <1>2. packets' = packets /\ DOMAIN packets = 1..K /\ damaged \subseteq damaged'
      BY <1>1, StateTypes DEF Leaves, sender, Out, New, Same, Add, Accept, Silent, Passed
  <1>3. Intact
      BY DEF IInv
  <1>4. CASE ~Accept
    <2>1. delivered' = delivered
        BY <1>4, Grows
    <2> QED
        BY <1>2, <1>3, <2>1 DEF Intact
  <1>5. CASE Accept
    <2>1. PICK n \in Nat :
             /\ DOMAIN delivered = 1..n /\ DOMAIN delivered' = 1..n + 1
             /\ \A j \in 1..n : delivered'[j] = delivered[j]
             /\ delivered'[n + 1].data = Syms(Payload(rx.data))
             /\ \A i \in 1..HeaderLength : delivered'[n + 1].header[i] = rx.data[i].pkt
        BY <1>5, Grows
    <2>2. PICK k \in 1..K :
             /\ Syms(Payload(rx.data)) = packets[k]
             /\ \A i \in 1..HeaderLength :
                  /\ rx.data[i].pkt = k
                     \/ (rx.data[i].pkt < k /\ {rx.data[i].pkt, k} \subseteq damaged)
                  /\ \A j \in DOMAIN delivered :
                       delivered[j].header[HeaderLength] < rx.data[i].pkt
        BY <1>5, AcceptedFrame
    <2>3. ASSUME NEW j \in DOMAIN delivered'
          PROVE  \E m \in DOMAIN packets' :
                   /\ delivered'[j].data = packets'[m]
                   /\ \A i \in 1..HeaderLength : LET h == delivered'[j].header[i] IN
                        h = m \/ (h < m /\ {h, m} \subseteq damaged')
      <3>1. CASE j \in 1..n
          BY <1>2, <1>3, <2>1, <3>1 DEF Intact
      <3>2. CASE j = n + 1
        <4>1. k \in DOMAIN packets' /\ delivered'[j].data = packets'[k]
            BY <1>2, <2>1, <2>2, <3>2
        <4>2. \A i \in 1..HeaderLength : LET h == delivered'[j].header[i] IN
                 h = k \/ (h < k /\ {h, k} \subseteq damaged')
            BY <1>2, <2>1, <2>2, <3>2
        <4> QED
            BY <4>1, <4>2
      <3> QED
          BY <2>1, <2>3, <3>1, <3>2
    <2>4. ASSUME NEW i \in DOMAIN delivered', NEW j \in DOMAIN delivered', i < j
          PROVE  delivered'[i].header[HeaderLength] < delivered'[j].header[1]
      <3>1. i \in 1..n
          BY <2>1, <2>4
      <3>2. CASE j \in 1..n
          BY <1>3, <2>1, <2>4, <3>1, <3>2 DEF Intact
      <3>3. CASE j = n + 1
        <4>1. 1 \in 1..HeaderLength
            BY ConstantTypes
        <4> QED
            BY <2>1, <2>2, <3>1, <3>3, <4>1
      <3> QED
          BY <2>1, <3>2, <3>3
    <2> QED
        BY <2>3, <2>4 DEF Intact
  <1> QED
      BY <1>4, <1>5

-----------------------------------------------------------------------------
(* How the receiver follows a packet *)

\* What FEND does, when there is memory for the frame it starts.
LEMMA OnFend ==
  ASSUME IInv, wire # <<>>, NEW b, b = Head(wire), NEW r, r = Checked, Receive(b, r),
         b.sym = FEND, K \notin damaged'
  PROVE  \/ r.mode = "NOT_STARTED" /\ Fresh'
         \/ r.mode = "STARTED" /\ r = rx /\ rx.data = <<>> /\ rx' = rx
         \/ r.mode = "STARTED" /\ r = rx /\ rx.data # <<>> /\ rx'.mode = "NOT_STARTED"
            /\ (Valid(rx.data) => Accept)
         \/ r.mode = "ESCAPED" /\ r = rx /\ rx'.mode = "STARTED"
         \/ r.mode = "SKIP_FRAME" /\ r = rx /\ rx'.mode = "NOT_STARTED"
  <1>1. r \in Receiver /\ (r.mode # "NOT_STARTED" => r = rx)
      BY CheckedFacts
  <1>2. b.pkt = K
      BY NextByte
  <1>3. CASE StartFrame(b, r)
      BY <1>3 DEF StartFrame, Arrives, Fresh
  <1>4. CASE NoMemory(b, r)
      BY <1>2, <1>4 DEF NoMemory
  <1>5. CASE EmptyFrame(b, r)
      BY <1>1, <1>5 DEF EmptyFrame, Arrives
  <1>6. CASE RejectFrame(b, r)
    <2>1. /\ r.mode = "STARTED" /\ r.data # <<>> /\ ~Valid(r.data)
          /\ rx' = [r EXCEPT !.mode = "NOT_STARTED"]
        BY <1>6 DEF RejectFrame, Arrives
    <2>2. rx'.mode = "NOT_STARTED"
        BY <1>1, <2>1 DEF Receiver
    <2> QED
        BY <1>1, <2>1, <2>2
  <1>7. CASE AcceptFrame(b, r)
    <2>1. /\ r.mode = "STARTED" /\ r.data # <<>> /\ Valid(r.data) /\ Passed(r)
          /\ rx' = [r EXCEPT !.mode = "NOT_STARTED", !.packet = None]
        BY <1>7 DEF AcceptFrame, Arrives
    <2>2. rx'.mode = "NOT_STARTED" /\ rx'.data = r.data /\ rx'.packet = None
        BY <1>1, <2>1 DEF Receiver
    <2>3. r = rx
        BY <1>1, <2>1
    <2>4. Accept
        BY <2>1, <2>2, <2>3 DEF Accept
    <2> QED
        BY <2>1, <2>2, <2>3, <2>4
  <1>8. CASE Unescape(b, r)
    <2>1. r.mode = "ESCAPED" /\ rx' = [r EXCEPT !.mode = "STARTED"]
        BY <1>8, Protocol DEF Unescape, Arrives
    <2> QED
        BY <1>1, <2>1 DEF Receiver
  <1>9. CASE SkipFrame(b, r)
    <2>1. r.mode = "SKIP_FRAME" /\ rx' = [r EXCEPT !.mode = "NOT_STARTED"]
        BY <1>9 DEF SkipFrame, Arrives
    <2> QED
        BY <1>1, <2>1 DEF Receiver
  <1> QED
      BY <1>3, <1>4, <1>5, <1>6, <1>7, <1>8, <1>9, Protocol
         DEF Receive, SkipByte, Escape, FirstByte, DataByte

\* What other bytes do.
LEMMA OnOther ==
  ASSUME IInv, wire # <<>>, NEW b, b = Head(wire), NEW r, r = Checked, Receive(b, r),
         b.sym # FEND
  PROVE  \/ r.mode = "NOT_STARTED" /\ rx' = r
         \/ /\ r.mode = "STARTED" /\ r = rx /\ b.sym = FESC
            /\ rx'.mode = "ESCAPED" /\ rx'.first = rx.first /\ rx'.data = rx.data
         \/ /\ r.mode = "STARTED" /\ r = rx /\ b.sym # FESC /\ rx.first
            /\ rx'.mode = "STARTED" /\ ~rx'.first /\ rx'.data = rx.data
         \/ /\ r.mode = "STARTED" /\ r = rx /\ b.sym # FESC /\ ~rx.first
            /\ rx'.mode = "STARTED" /\ ~rx'.first
            /\ rx'.data = Append(rx.data, [sym |-> b.sym, pkt |-> K])
         \/ /\ r.mode = "ESCAPED" /\ r = rx /\ rx'.mode = "STARTED" /\ rx'.first = rx.first
            /\ b.sym = TFESC => rx'.data = Append(rx.data, [sym |-> FESC, pkt |-> K])
            /\ b.sym = TFEND => rx'.data = Append(rx.data, [sym |-> FEND, pkt |-> K])
         \/ r.mode = "SKIP_FRAME" /\ r = rx
  <1>1. r \in Receiver /\ (r.mode # "NOT_STARTED" => r = rx)
      BY CheckedFacts
  <1>2. b \in Byte /\ b.pkt = K /\ b.sym \in Seq(Name)
      BY NextByte, ArrivingSymbol
  <1>3. ASSUME NEW s \in Seq(Name)
        PROVE  Stored(r, b, s) = [mode |-> "STARTED", first |-> r.first, packet |-> r.packet,
                                  data |-> Append(r.data, [sym |-> s, pkt |-> K])]
    <2>1. r \in Receiver /\ b \in Byte /\ b.pkt = K
        BY <1>1, <1>2
    <2> QED
        BY <2>1, StoredByte, ZenonT(30)
  <1>4. CASE SkipByte(b, r)
      BY <1>4 DEF SkipByte, Arrives
  <1>5. CASE Escape(b, r)
    <2>1. r.mode = "STARTED" /\ b.sym = FESC /\ rx' = [r EXCEPT !.mode = "ESCAPED"]
        BY <1>5 DEF Escape, Arrives
    <2> QED
        BY <1>1, <2>1 DEF Receiver
  <1>6. CASE FirstByte(b, r)
    <2>1. /\ r.mode = "STARTED" /\ b.sym # FESC /\ r.first
          /\ rx' = [r EXCEPT !.first = FALSE]
        BY <1>6 DEF FirstByte, Arrives
    <2>2. rx'.mode = "STARTED" /\ ~rx'.first /\ rx'.data = r.data
        BY <1>1, <2>1 DEF Receiver
    <2> QED
        BY <1>1, <2>1, <2>2
  <1>7. CASE DataByte(b, r)
    <2>1. r.mode = "STARTED" /\ b.sym # FESC /\ ~r.first /\ rx' = Stored(r, b, b.sym)
        BY <1>7 DEF DataByte, Arrives
    <2>2. rx'.mode = "STARTED" /\ rx'.first = r.first
          /\ rx'.data = Append(r.data, [sym |-> b.sym, pkt |-> K])
        BY <1>2, <1>3, <2>1
    <2> QED
        BY <1>1, <2>1, <2>2
  <1>8. CASE Unescape(b, r)
    <2>1. /\ r.mode = "ESCAPED" /\ r = rx
          /\ rx' = IF b.sym = TFESC THEN Stored(r, b, FESC)
                   ELSE IF b.sym = TFEND THEN Stored(r, b, FEND)
                   ELSE [r EXCEPT !.mode = "STARTED"]
        BY <1>1, <1>8 DEF Unescape, Arrives
    <2>2. CASE b.sym = TFESC
      <3>1. rx' = [mode |-> "STARTED", first |-> r.first, packet |-> r.packet,
                   data |-> Append(r.data, [sym |-> FESC, pkt |-> K])]
          BY <1>3, <2>1, <2>2, Protocol
      <3> QED
          BY <2>1, <2>2, <3>1, Protocol
    <2>3. CASE b.sym = TFEND
      <3>1. rx' = [mode |-> "STARTED", first |-> r.first, packet |-> r.packet,
                   data |-> Append(r.data, [sym |-> FEND, pkt |-> K])]
          BY <1>3, <2>1, <2>3, Protocol
      <3> QED
          BY <2>1, <2>3, <3>1, Protocol
    <2>4. CASE b.sym # TFESC /\ b.sym # TFEND
      <3>1. rx'.mode = "STARTED" /\ rx'.first = rx.first
          BY <1>1, <2>1, <2>4 DEF Receiver
      <3> QED
          BY <2>1, <2>4, <3>1
    <2> QED
        BY <2>2, <2>3, <2>4
  <1>9. CASE SkipFrame(b, r)
      BY <1>1, <1>9 DEF SkipFrame, Arrives
  <1> QED
      BY <1>4, <1>5, <1>6, <1>7, <1>8, <1>9
         DEF Receive, StartFrame, NoMemory, EmptyFrame, RejectFrame, AcceptFrame

\* The next symbol is stored, behind exactly those before it or behind more.
LEMMA OneMore ==
  ASSUME IInv, wire # <<>>, Leaves, Arrived = Sent - 1, Arrived' = Sent, Sent > 0,
         rx'.data = Append(rx.data, [sym |-> Symbols[Sent], pkt |-> K])
  PROVE  (Exact => Exact') /\ (Longer => Longer')
  <1>1. /\ K' = K /\ Symbols' = Symbols /\ Sent \in Nat /\ K > 0 /\ K \in Nat
        /\ Symbols[Sent] \in Seq(Name)
      BY NextPlace, NextByte, FrameOnLine
  <1>2. [sym |-> Symbols[Sent], pkt |-> K] \in Byte
      BY <1>1 DEF Byte
  <1>3. /\ Len(rx'.data) = Len(rx.data) + 1 /\ Len(rx.data) \in Nat
        /\ rx'.data[Len(rx.data) + 1] = [sym |-> Symbols[Sent], pkt |-> K]
        /\ \A i \in 1..Len(rx.data) : rx'.data[i] = rx.data[i]
      BY <1>2, StateTypes, AppendProperties
  <1>4. ASSUME Exact PROVE Exact'
    <2>1. Len(rx.data) + 1 = Sent /\ Len(rx'.data) = Arrived'
        BY <1>1, <1>3, <1>4 DEF Exact
    <2>2. ASSUME NEW i \in 1..Sent PROVE rx'.data[i] = [sym |-> Symbols[i], pkt |-> K]
      <3>1. CASE i = Sent
          BY <1>3, <2>1, <3>1
      <3>2. CASE i # Sent
        <4>1. i \in 1..Len(rx.data) /\ i \in 1..Arrived
            BY <1>1, <1>3, <2>1, <3>2
        <4> QED
            BY <1>3, <1>4, <4>1 DEF Exact
      <3> QED
          BY <3>1, <3>2
    <2> QED
        BY <1>1, <2>1, <2>2 DEF Exact
  <1>5. ASSUME Longer PROVE Longer'
    <2>1. Len(rx'.data) > Arrived'
        BY <1>1, <1>3, <1>5 DEF Longer
    <2>2. rx'.data[Len(rx'.data)].pkt = K'
        BY <1>1, <1>3
    <2> QED
        BY <2>1, <2>2 DEF Longer
  <1> QED
      BY <1>4, <1>5

\* A packet that arrives undamaged is followed.
LEMMA FollowsKept ==
  ASSUME IInv, wire # <<>>, Receive(Head(wire), Checked)
  PROVE  Follows'
  <1> DEFINE b == Head(wire)
             r == Checked
  <1> SUFFICES ASSUME K' \notin damaged' PROVE Follows'
      BY DEF Follows
  <1>1. Leaves /\ rx' \in Receiver /\ (Out \/ New \/ Same \/ Add \/ Accept)
      BY Effects
  <1>2. K' = K /\ K \in Nat /\ K > 0 /\ ~(Starting' /\ Len(wire') = 2)
      BY <1>1, NextPlace, NextByte
  <1>3. damaged' = damaged /\ K \notin damaged
      BY <1>1, <1>2 DEF Out, New, Same, Add, Accept, Silent, Passed
  <1>4. /\ r \in Receiver /\ r.first = rx.first
        /\ \/ r = rx /\ Len(rx.data) <= max_rx_length
           \/ Len(rx.data) > max_rx_length /\ r.mode = "NOT_STARTED" /\ r.data = <<>>
        /\ r.mode # "NOT_STARTED" => r = rx
      BY CheckedFacts
  <1>5. Len(rx.data) \in Nat /\ rx.data \in Seq(Byte)
      BY StateTypes
  <1>6. Follows
      BY DEF IInv
  <1> HIDE DEF b, r
  <1>7. Receive(b, r) /\ b = Head(wire) /\ r = Checked
      BY DEF b, r
  <1>8. rx.mode = "NOT_STARTED" => r.mode = "NOT_STARTED"
      BY <1>4
  <1>9. CASE AtFend
    <2>1. AtType' /\ b.sym = FEND
      <3>1. AtType'
          BY <1>1, <1>9, NextPlace
      <3>2. ~AtType /\ ~AtPlain /\ ~AtEscape /\ ~AtSecond /\ ~AtEnd
          BY <1>9 DEF AtFend, Starting, AtType, AtPlain, AtEscape, AtSecond, AtEnd
      <3> QED
          BY <1>7, <3>1, <3>2, NextByte
    <2>2. \/ r.mode = "NOT_STARTED" /\ Fresh'
          \/ r.mode = "STARTED" /\ r = rx /\ rx.data = <<>> /\ rx' = rx
          \/ r.mode = "STARTED" /\ r = rx /\ rx.data # <<>> /\ rx'.mode = "NOT_STARTED"
          \/ r.mode = "ESCAPED" /\ r = rx /\ rx'.mode = "STARTED"
          \/ r.mode = "SKIP_FRAME" /\ r = rx /\ rx'.mode = "NOT_STARTED"
        BY <1>2, <1>7, <2>1, OnFend
    <2>3. K - 1 \in damaged \/ Between
        BY <1>3, <1>6, <1>9 DEF Follows, AtFend
    <2>4. Between => Fresh'
      <3>1. CASE rx.mode = "NOT_STARTED"
          BY <1>8, <2>2, <3>1
      <3>2. CASE Fresh
        <4>1. r = rx
            BY <1>4, <1>5, <3>2, ConstantTypes DEF Fresh
        <4> QED
            BY <2>2, <3>2, <4>1 DEF Fresh
      <3> QED
          BY <3>1, <3>2 DEF Between
    <2>5. Fresh' \/ rx'.mode \in {"NOT_STARTED", "STARTED"}
        BY <2>2 DEF Fresh
    <2> QED
        BY <1>2, <1>3, <2>1, <2>3, <2>4, <2>5 DEF Follows, AtType, Starting, Done
  <1>10. CASE AtType
    <2>1. ~Starting' /\ ~Done' /\ ~Half' /\ Arrived' = 0 /\ b.sym = TNC_DATA
      <3>1. ~AtFend /\ ~AtPlain /\ ~AtEscape /\ ~AtSecond /\ ~AtEnd
          BY <1>10 DEF AtFend, Starting, AtType, AtPlain, AtEscape, AtSecond, AtEnd
      <3> QED
          BY <1>1, <1>7, <1>10, <3>1, NextPlace, NextByte
    <2>2. b.sym # FEND /\ b.sym # FESC
        BY <2>1, Protocol
    <2>3. \/ r.mode = "NOT_STARTED" /\ rx' = r
          \/ /\ r.mode = "STARTED" /\ r = rx /\ rx.first
             /\ rx'.mode = "STARTED" /\ ~rx'.first /\ rx'.data = rx.data
          \/ /\ r.mode = "STARTED" /\ r = rx /\ ~rx.first
             /\ rx'.mode = "STARTED" /\ ~rx'.first
             /\ rx'.data = Append(rx.data, [sym |-> b.sym, pkt |-> K])
          \/ r.mode = "ESCAPED" /\ r = rx
          \/ r.mode = "SKIP_FRAME" /\ r = rx
        BY <1>7, <2>2, OnOther
    <2>4. Fresh \/ (K - 1 \in damaged /\ rx.mode \in {"NOT_STARTED", "STARTED"})
        BY <1>3, <1>6, <1>10 DEF Follows, AtType
    <2>5. rx'.data = <<>> => Exact'
        BY <2>1 DEF Exact
    <2>6. Len(rx'.data) > 0 => Longer'
        BY <2>1 DEF Longer
    <2>7. CASE Fresh
      <3>1. r = rx
          BY <1>4, <1>5, <2>7, ConstantTypes DEF Fresh
      <3>2. rx'.mode = "STARTED" /\ ~rx'.first /\ rx'.data = <<>>
          BY <2>3, <2>7, <3>1 DEF Fresh
      <3> QED
          BY <2>1, <2>5, <3>2 DEF Follows
    <2>8. CASE K - 1 \in damaged /\ rx.mode \in {"NOT_STARTED", "STARTED"}
      <3>1. rx'.data = <<>> \/ Len(rx'.data) > 0
          BY <1>1 DEF Receiver
      <3>2. rx'.mode = "NOT_STARTED" \/ (rx'.mode = "STARTED" /\ ~rx'.first)
          BY <1>4, <2>3, <2>8
      <3> QED
          BY <1>2, <1>3, <2>1, <2>5, <2>6, <2>8, <3>1, <3>2 DEF Follows
    <2> QED
        BY <2>4, <2>7, <2>8
  <1>11. CASE AtPlain \/ AtEscape \/ AtSecond
    <2>1. /\ ~AtFend /\ ~AtType /\ ~AtEnd /\ lock # None /\ Sent > 0 /\ ~Starting /\ ~Done
        BY <1>11 DEF AtFend, Starting, AtType, AtPlain, AtEscape, AtSecond, AtEnd, Done
    <2>2. /\ Sent \in Nat /\ Sent <= Len(Symbols) /\ Len(Symbols) \in Nat
          /\ Len(Symbols) <= max_rx_length
        BY <1>2, FrameOnLine
    <2>3. \/ /\ rx.mode = IF Half THEN "ESCAPED" ELSE "STARTED"
             /\ ~rx.first /\ (Exact \/ (K - 1 \in damaged /\ Longer))
          \/ K - 1 \in damaged /\ rx.mode = "NOT_STARTED"
        BY <1>3, <1>6, <2>1 DEF Follows
    <2>4. ~Starting' /\ ~Done' /\ Arrived = Sent - 1
        BY <1>1, <1>11, NextPlace
    <2>5. b.sym # FEND
      <3>1. \/ AtPlain /\ b.sym = Symbols[Sent]
            \/ AtEscape /\ b.sym = FESC
            \/ AtSecond /\ b.sym = Second(Symbols[Sent])
          BY <1>7, <2>1, NextByte
      <3>2. Second(Symbols[Sent]) \in {TFEND, TFESC}
          BY DEF Second
      <3> QED
          BY <3>1, <3>2, Protocol DEF AtPlain, Special
    <2>6. \/ r.mode = "NOT_STARTED" /\ rx' = r
          \/ /\ r.mode = "STARTED" /\ r = rx /\ b.sym = FESC
             /\ rx'.mode = "ESCAPED" /\ rx'.first = rx.first /\ rx'.data = rx.data
          \/ /\ r.mode = "STARTED" /\ r = rx /\ b.sym # FESC /\ rx.first
             /\ rx'.mode = "STARTED" /\ ~rx'.first /\ rx'.data = rx.data
          \/ /\ r.mode = "STARTED" /\ r = rx /\ b.sym # FESC /\ ~rx.first
             /\ rx'.mode = "STARTED" /\ ~rx'.first
             /\ rx'.data = Append(rx.data, [sym |-> b.sym, pkt |-> K])
          \/ /\ r.mode = "ESCAPED" /\ r = rx /\ rx'.mode = "STARTED" /\ rx'.first = rx.first
             /\ b.sym = TFESC => rx'.data = Append(rx.data, [sym |-> FESC, pkt |-> K])
             /\ b.sym = TFEND => rx'.data = Append(rx.data, [sym |-> FEND, pkt |-> K])
          \/ r.mode = "SKIP_FRAME" /\ r = rx
        BY <1>7, <2>5, OnOther
    <2>7. r.mode = "NOT_STARTED" => rx'.mode = "NOT_STARTED"
        BY <1>4, <2>6
    <2>8. CASE K - 1 \in damaged /\ r.mode = "NOT_STARTED"
        BY <1>2, <1>3, <2>4, <2>7, <2>8 DEF Follows
    <2>9. Exact => r = rx
      <3>1. Exact => Len(rx.data) <= max_rx_length
          BY <1>5, <2>2, <2>4, ConstantTypes DEF Exact
      <3> QED
          BY <1>4, <1>5, <3>1, ConstantTypes
    <2>10. CASE ~(K - 1 \in damaged /\ r.mode = "NOT_STARTED")
      <3>1. /\ rx.mode = IF Half THEN "ESCAPED" ELSE "STARTED"
            /\ ~rx.first /\ (Exact \/ (K - 1 \in damaged /\ Longer))
            /\ r = rx
          BY <1>4, <1>8, <2>3, <2>9, <2>10
      <3>2. ASSUME rx'.data = Append(rx.data, [sym |-> Symbols[Sent], pkt |-> K]), ~Half',
                   Arrived' = Sent, rx'.mode = "STARTED", ~rx'.first
            PROVE  Follows'
        <4>1. (Exact => Exact') /\ (Longer => Longer')
            BY <1>1, <2>1, <2>4, <3>2, OneMore
        <4> QED
            BY <1>2, <1>3, <2>4, <3>1, <3>2, <4>1 DEF Follows
      <3>3. CASE AtPlain
        <4>1. b.sym = Symbols[Sent] /\ ~Half /\ ~Half' /\ Arrived' = Sent
          <5>1. ~AtEscape /\ ~AtSecond
              BY <3>3 DEF AtPlain, AtEscape, AtSecond, Half
          <5> QED
              BY <1>1, <1>7, <2>1, <3>3, <5>1, NextByte, NextPlace
        <4>2. b.sym # FESC
            BY <3>3, <4>1 DEF AtPlain, Special
        <4> QED
            BY <2>6, <3>1, <3>2, <4>1, <4>2
      <3>4. CASE AtEscape
        <4>1. b.sym = FESC /\ ~Half /\ Half' /\ Arrived' = Arrived
          <5>1. ~AtPlain /\ ~AtSecond
              BY <3>4 DEF AtPlain, AtEscape, AtSecond
          <5> QED
              BY <1>1, <1>7, <2>1, <2>4, <3>4, <5>1, NextByte, NextPlace DEF AtEscape
        <4>2. rx'.mode = "ESCAPED" /\ ~rx'.first /\ rx'.data = rx.data
            BY <2>6, <3>1, <4>1
        <4>3. Symbols' = Symbols
            BY <1>1, NextPlace
        <4>4. (Exact => Exact') /\ (Longer => Longer')
            BY <1>2, <4>1, <4>2, <4>3 DEF Exact, Longer
        <4> QED
            BY <1>2, <1>3, <2>4, <3>1, <4>1, <4>2, <4>4 DEF Follows
      <3>5. CASE AtSecond
        <4>1. b.sym = Second(Symbols[Sent]) /\ Half /\ ~Half' /\ Arrived' = Sent
          <5>1. ~AtPlain /\ ~AtEscape
              BY <3>5 DEF AtPlain, AtEscape, AtSecond, Half
          <5> QED
              BY <1>1, <1>7, <2>1, <3>5, <5>1, NextByte, NextPlace DEF AtSecond
        <4>2. Special(Symbols[Sent])
            BY <4>1 DEF Half
        <4>3. /\ rx'.mode = "STARTED" /\ ~rx'.first
              /\ b.sym = TFESC => rx'.data = Append(rx.data, [sym |-> FESC, pkt |-> K])
              /\ b.sym = TFEND => rx'.data = Append(rx.data, [sym |-> FEND, pkt |-> K])
            BY <2>6, <3>1, <4>1
        <4>4. rx'.data = Append(rx.data, [sym |-> Symbols[Sent], pkt |-> K])
            BY <4>1, <4>2, <4>3 DEF Special, Second
        <4> QED
            BY <3>2, <4>1, <4>3, <4>4
      <3> QED
          BY <1>11, <3>3, <3>4, <3>5
    <2> QED
        BY <2>8, <2>10
  <1>12. CASE AtEnd
    <2>1. /\ Done' /\ ~Half /\ Arrived = Len(Symbols) /\ ~Starting /\ ~Done /\ b.sym = FEND
          /\ Len(Symbols) > 0 /\ Len(Symbols) \in Nat
      <3>1. ~AtFend /\ ~AtType /\ ~AtPlain /\ ~AtEscape /\ ~AtSecond /\ ~Starting /\ ~Done
          BY <1>12 DEF AtFend, Starting, AtType, AtPlain, AtEscape, AtSecond, AtEnd, Done
      <3> QED
          BY <1>1, <1>2, <1>7, <1>12, <3>1, NextByte, NextPlace, FrameOnLine
    <2>2. \/ r.mode = "NOT_STARTED" /\ Fresh'
          \/ r.mode = "STARTED" /\ r = rx /\ rx.data = <<>> /\ rx' = rx
          \/ r.mode = "STARTED" /\ r = rx /\ rx.data # <<>> /\ rx'.mode = "NOT_STARTED"
          \/ r.mode = "ESCAPED" /\ r = rx /\ rx'.mode = "STARTED"
          \/ r.mode = "SKIP_FRAME" /\ r = rx /\ rx'.mode = "NOT_STARTED"
        BY <1>2, <1>7, <2>1, OnFend
    <2>3. \/ rx.mode = "STARTED" /\ Len(rx.data) > 0
          \/ rx.mode = "NOT_STARTED"
        BY <1>3, <1>5, <1>6, <2>1 DEF Follows, Exact, Longer
    <2>4. rx.mode = "STARTED" => rx.data # <<>>
        BY <2>3
    <2>5. Between'
        BY <1>8, <2>2, <2>3, <2>4 DEF Between
    <2> QED
        BY <2>1, <2>5 DEF Follows, Starting, Done
  <1> QED
      BY <1>9, <1>10, <1>11, <1>12, NextByte

\* A packet that has arrived whole is delivered.
LEMMA ResyncKept ==
  ASSUME IInv, wire # <<>>, Receive(Head(wire), Checked)
  PROVE  Resync'
  <1>1. Leaves /\ (Out \/ New \/ Same \/ Add \/ Accept)
      BY Effects
  <1>2. packets' = packets /\ K' = K /\ K \in Nat /\ K > 0 /\ lock' = lock /\ DOMAIN packets = 1..K
      BY <1>1, NextPlace, NextByte, StateTypes DEF Leaves, sender
  <1>3. damaged \subseteq damaged'
      BY <1>1 DEF Out, New, Same, Add, Accept, Silent, Passed
  <1>4. Resync
      BY DEF IInv
  <1> SUFFICES ASSUME NEW k \in DOMAIN packets, Over(k)', {k - 1, k} \cap damaged' = {}
               PROVE  \E j \in DOMAIN delivered' :
                         /\ delivered'[j].data = packets[k]
                         /\ \A i \in 1..HeaderLength : delivered'[j].header[i] = k
      BY <1>2 DEF Resync
  <1>5. CASE k # K
    <2>1. Over(k)
        BY <1>5 DEF Over, K
    <2>2. {k - 1, k} \cap damaged = {}
        BY <1>3
    <2>3. PICK j \in DOMAIN delivered :
             /\ delivered[j].data = packets[k]
             /\ \A i \in 1..HeaderLength : delivered[j].header[i] = k
        BY <1>4, <2>1, <2>2 DEF Resync
    <2>4. CASE ~Accept
        BY <2>3, <2>4, Grows
    <2>5. CASE Accept
      <3>1. j \in DOMAIN delivered' /\ delivered'[j] = delivered[j]
          BY <2>5, Grows
      <3> QED
          BY <2>3, <3>1
    <2> QED
        BY <2>4, <2>5
  <1>6. CASE k = K
    <2>1. wire' = <<>> /\ lock = None
        BY <1>2, <1>6 DEF Over, K
    <2>2. AtEnd
        BY <2>1 DEF AtEnd
    <2> DEFINE b == Head(wire)
               r == Checked
    <2>3. Receive(b, r) /\ b = Head(wire) /\ r = Checked
        OBVIOUS
    <2> HIDE DEF b, r
    <2>4. b.sym = FEND
      <3>1. ~AtFend /\ ~AtType /\ ~AtPlain /\ ~AtEscape /\ ~AtSecond
          BY <2>1 DEF AtFend, Starting, AtType, AtPlain, AtEscape, AtSecond, AtEnd
      <3> QED
          BY <2>3, <3>1, NextByte
    <2>5. ~Half /\ Arrived = Len(Symbols) /\ ~Starting /\ ~Done
        BY <1>1, <2>1, <2>2, NextPlace DEF Starting, Done
    <2>6. K - 1 \notin damaged /\ K \notin damaged /\ K \notin damaged'
        BY <1>3, <1>6
    <2>7. rx.mode = "STARTED" /\ ~rx.first /\ Exact
        BY <2>5, <2>6 DEF IInv, Follows
    <2>8. /\ K \in DOMAIN packets /\ packets[K] \in Datas /\ Len(Symbols) \in Nat
          /\ Len(Symbols) > 0 /\ Len(Symbols) <= max_rx_length
        BY <1>2, FrameOnLine
    <2>9. rx.data \in Seq(Byte) /\ Len(rx.data) = Len(Symbols)
        BY <2>5, <2>7, StateTypes DEF Exact
    <2>10. r = rx /\ rx.data # <<>>
      <3>1. ~(Len(rx.data) > max_rx_length) /\ rx.data # <<>>
          BY <2>8, <2>9, ConstantTypes
      <3> QED
          BY <2>3, <3>1, CheckedFacts
    <2>11. ASSUME NEW i \in 1..Len(rx.data)
           PROVE  rx.data[i].sym = Symbols[i] /\ rx.data[i].pkt = K
      <3>1. rx.data[i] = [sym |-> Symbols[i], pkt |-> K]
          BY <2>5, <2>7, <2>9 DEF Exact
      <3> QED
          BY <3>1
    <2>12. Valid(rx.data) /\ Syms(Payload(rx.data)) = packets[K]
      <3>1. \A i \in 1..Len(rx.data) : rx.data[i].sym = Symbols[i]
          BY <2>11
      <3> QED
          BY <2>8, <2>9, <3>1, WholeFrame DEF Symbols
    <2>13. Accept
        BY <2>3, <2>4, <2>6, <2>7, <2>10, <2>12, OnFend
    <2> DEFINE n == Len(delivered)
    <2>14. /\ n + 1 \in DOMAIN delivered' /\ delivered'[n + 1].data = Syms(Payload(rx.data))
           /\ \A i \in 1..HeaderLength : delivered'[n + 1].header[i] = rx.data[i].pkt
      <3> HIDE DEF n
      <3>1. PICK m \in Nat : m = n
          BY <2>13, Grows DEF n
      <3>2. DOMAIN delivered' = 1..m + 1
          BY <2>13, <3>1, Grows DEF n
      <3> QED
          BY <2>13, <3>1, <3>2, Grows DEF n
    <2>15. HeaderLength <= Len(rx.data)
        BY <2>9, <2>12, <2>10, ValidMeans, ConstantTypes
    <2>16. \A i \in 1..HeaderLength : rx.data[i].pkt = K
      <3> TAKE i \in 1..HeaderLength
      <3>1. i \in 1..Len(rx.data)
          BY <2>8, <2>9, <2>15, ConstantTypes
      <3> QED
          BY <2>11, <3>1
    <2> HIDE DEF n
    <2> QED
        BY <1>6, <2>12, <2>14, <2>16
  <1> QED
      BY <1>5, <1>6

-----------------------------------------------------------------------------
(* What the senders do *)

\* What is given to the line for a symbol that needs no escape, and at the end.
LEMMA OneByte ==
  ASSUME NEW s \in Seq(Name), NEW k \in Nat
  PROVE  LET w == Bytes(<<s>>, k) IN
         /\ w \in Seq(Byte) /\ w # <<>> /\ Len(w) = 1 /\ DOMAIN w = 1..1
         /\ w[1].sym = s /\ w[1].pkt = k
  <1> DEFINE w == Bytes(<<s>>, k)
  <1>1. w = [i \in 1..1 |-> [sym |-> <<s>>[i], pkt |-> k]]
      BY DEF Bytes
  <1>2. \A i \in 1..1 : [sym |-> <<s>>[i], pkt |-> k] \in Byte
      BY DEF Byte
  <1> HIDE DEF w
  <1>3. w \in Seq(Byte) /\ Len(w) = 1
    <2>1. w \in [1..1 -> Byte]
        BY <1>1, <1>2
    <2>2. w \in Seq(Byte)
        BY <2>1, SeqDef
    <2> QED
        BY <2>1, <2>2
  <1>4. w[1] = [sym |-> s, pkt |-> k]
      BY <1>1
  <1> QED
      BY <1>3, <1>4 DEF w

\* What is given to the line for a symbol that is escaped, and at the start.
LEMMA TwoBytes ==
  ASSUME NEW s \in Seq(Name), NEW u \in Seq(Name), NEW k \in Nat
  PROVE  LET w == Bytes(<<s, u>>, k) IN
         /\ w \in Seq(Byte) /\ w # <<>> /\ Len(w) = 2 /\ DOMAIN w = 1..2
         /\ w[1].sym = s /\ w[1].pkt = k /\ w[2].sym = u /\ w[2].pkt = k
  <1> DEFINE w == Bytes(<<s, u>>, k)
  <1>1. w = [i \in 1..2 |-> [sym |-> <<s, u>>[i], pkt |-> k]]
      BY DEF Bytes
  <1>2. \A i \in 1..2 : [sym |-> <<s, u>>[i], pkt |-> k] \in Byte
      BY DEF Byte
  <1> HIDE DEF w
  <1>3. w \in Seq(Byte) /\ Len(w) = 2
    <2>1. w \in [1..2 -> Byte]
        BY <1>1, <1>2
    <2>2. w \in Seq(Byte)
        BY <2>1, SeqDef
    <2> QED
        BY <2>1, <2>2
  <1>4. w[1] = [sym |-> s, pkt |-> k] /\ w[2] = [sym |-> u, pkt |-> k]
      BY <1>1
  <1> QED
      BY <1>3, <1>4 DEF w

\* The rest is as before when the holder of the lock does not step.
LEMMA Unmoved ==
  ASSUME IInv, Left' = Left, UNCHANGED <<lock, wire, rx, packets, delivered, damaged>>
  PROVE  Line' /\ Contents' /\ Recent' /\ Follows' /\ Intact' /\ Resync'
         /\ delivered' \in Seq(Deliveries)
  <1>1. K' = K /\ Symbols' = Symbols
      BY DEF K, Symbols
  <1>2. Sent' = Sent
      BY <1>1 DEF Sent
  <1>3. Starting' = Starting /\ Done' = Done /\ Half' = Half /\ Arrived' = Arrived
      BY <1>1, <1>2 DEF Starting, Done, Half, Arrived, Special
  <1>4. Line'
      BY <1>1, <1>2 DEF IInv, Line, Special, Second
  <1>5. Contents' /\ Intact' /\ delivered' \in Seq(Deliveries)
      BY <1>1 DEF IInv, Contents, Intact
  <1>6. InFrame' = InFrame /\ Between' = Between /\ Fresh' = Fresh
      BY DEF InFrame, Between, Fresh
  <1>7. Recent'
      BY <1>1, <1>3, <1>6 DEF IInv, Recent
  <1>8. Exact' = Exact /\ Longer' = Longer
      BY <1>1, <1>3 DEF Exact, Longer
  <1>9. Follows'
      BY <1>1, <1>3, <1>6, <1>8 DEF IInv, Follows
  <1>10. Resync'
      BY DEF IInv, Resync, Over
  <1> QED
      BY <1>4, <1>5, <1>7, <1>9, <1>10

\* A packet is offered.
LEMMA SendKept ==
  ASSUME KissAssumption, IInv, NEW t \in Task, NEW d \in Datas, Send(t, d)
  PROVE  IInv'
  <1>1. /\ tx[t].pc = "idle"
        /\ tx' = [tx EXCEPT ![t] = [pc |-> "waiting", data |-> d, todo |-> <<>>]]
        /\ UNCHANGED <<lock, wire, rx, routed, packets, delivered, damaged, lost>>
      BY DEF Send
  <1>2. Held
      BY DEF IInv
  <1>3. Held'
      BY <1>1, <1>2 DEF Held, InBuffer, TypeOK
  <1>4. Senders
      BY DEF IInv
  <1>5. lock # None => lock \in Task /\ lock # t /\ tx'[lock] = tx[lock]
      BY <1>1, <1>2, <1>4 DEF Senders, Held, TypeOK
  <1>6. Left' = Left
      BY <1>1, <1>5 DEF Left
  <1>7. \A u \in Task : /\ u # t => tx'[u] = tx[u]
                        /\ tx'[t].pc = "waiting" /\ tx'[t].data = d
      BY <1>1, <1>2 DEF Held, TypeOK
  <1>8. K' = K /\ Symbols' = Symbols /\ Sent' = Sent
      BY <1>1, <1>6 DEF K, Symbols, Sent
  <1>9. Senders'
      BY <1>1, <1>4, <1>5, <1>6, <1>7, <1>8 DEF Senders
  <1> QED
      BY <1>1, <1>3, <1>6, <1>9, Unmoved DEF IInv

\* The lock is waited for too long.
LEMMA LockTimeoutKept ==
  ASSUME KissAssumption, IInv, NEW t \in Task, LockTimeout(t)
  PROVE  IInv'
  <1>1. /\ tx[t].pc = "waiting" /\ tx' = [tx EXCEPT ![t] = Idle]
        /\ UNCHANGED <<lock, wire, rx, routed, packets, delivered, damaged, lost>>
      BY DEF LockTimeout
  <1>2. Held
      BY DEF IInv
  <1>3. Held'
      BY <1>1, <1>2 DEF Held, InBuffer, TypeOK, Idle
  <1>4. Senders
      BY DEF IInv
  <1>5. lock # None => lock \in Task /\ lock # t /\ tx'[lock] = tx[lock]
      BY <1>1, <1>2, <1>4 DEF Senders, Held, TypeOK
  <1>6. Left' = Left
      BY <1>1, <1>5 DEF Left
  <1>7. \A u \in Task : (u # t => tx'[u] = tx[u]) /\ tx'[t].pc = "idle"
      BY <1>1, <1>2 DEF Held, TypeOK, Idle
  <1>8. K' = K /\ Symbols' = Symbols /\ Sent' = Sent
      BY <1>1, <1>6 DEF K, Symbols, Sent
  <1>9. Senders'
      BY <1>1, <1>4, <1>5, <1>6, <1>7, <1>8 DEF Senders
  <1> QED
      BY <1>1, <1>3, <1>6, <1>9, Unmoved DEF IInv

\* A frame starts to be sent.
LEMMA LockKept ==
  ASSUME KissAssumption, IInv, NEW t \in Task, Lock(t)
  PROVE  IInv'
  <1> DEFINE d == tx[t].data
  <1>1. /\ tx[t].pc = "waiting" /\ lock = None /\ wire = <<>> /\ lock' = t
        /\ wire' = Bytes(<<FEND, TNC_DATA>>, K + 1)
        /\ packets' = Append(packets, d)
        /\ tx' = [tx EXCEPT ![t].pc = "sending", ![t].todo = Frame(d)]
        /\ UNCHANGED <<rx, routed, delivered, damaged, lost>>
      BY DEF Lock, Start, K
  <1>2. Held /\ Senders /\ Recent /\ Follows /\ Intact /\ Resync /\ Contents
        /\ delivered \in Seq(Deliveries)
      BY DEF IInv
  <1>3. d \in Datas
      BY <1>1, <1>2 DEF Senders
  <1> HIDE DEF d
  <1>4. /\ packets \in Seq(Datas) /\ K \in Nat /\ DOMAIN packets = 1..K
        /\ damaged \subseteq 1..K
      BY StateTypes
  <1>5. /\ packets' \in Seq(Datas) /\ K' = K + 1 /\ packets'[K + 1] = d
        /\ DOMAIN packets' = 1..K + 1 /\ \A i \in 1..K : packets'[i] = packets[i]
      BY <1>1, <1>3, <1>4, AppendProperties DEF K
  <1>6. /\ Frame(d) \in Seq(Seq(Name)) /\ Len(Frame(d)) \in Nat
      BY <1>3, Frames
  <1>7. tx \in [Task -> [pc : {"idle", "waiting", "sending"}, data : Datas \cup {<<>>},
                         todo : Seq(Seq(Name))]]
      BY <1>2 DEF Held, TypeOK
  <1>8. /\ tx'[t].pc = "sending" /\ tx'[t].todo = Frame(d)
        /\ \A u \in Task : u # t => tx'[u] = tx[u]
        /\ tx' \in [Task -> [pc : {"idle", "waiting", "sending"}, data : Datas \cup {<<>>},
                             todo : Seq(Seq(Name))]]
      BY <1>1, <1>6, <1>7
  <1>9. /\ wire' \in Seq(Byte) /\ wire' # <<>> /\ Len(wire') = 2 /\ DOMAIN wire' = 1..2
        /\ wire'[1].sym = FEND /\ wire'[1].pkt = K + 1
        /\ wire'[2].sym = TNC_DATA /\ wire'[2].pkt = K + 1
    <2>1. K + 1 \in Nat /\ FEND \in Seq(Name) /\ TNC_DATA \in Seq(Name)
        BY <1>4, Protocol
    <2> QED
        BY <1>1, <2>1, TwoBytes
  <1>10. t # None
      BY ConstantTypes
  <1>11. Symbols' = Frame(d) /\ Left' = Frame(d) /\ Sent' = 0
    <2>1. Symbols' = Frame(d)
        BY <1>5 DEF Symbols
    <2>2. Left' = Frame(d)
        BY <1>1, <1>8, <1>10 DEF Left
    <2> QED
        BY <1>6, <2>1, <2>2 DEF Sent
  <1>12. Starting' /\ ~Done' /\ Done
      BY <1>1, <1>9, <1>10, <1>11 DEF Starting, Done
  <1>13. Held'
    <2>1. rx' = rx /\ routed' = routed /\ lost' = lost /\ damaged' = damaged /\ lock' \in Task
        BY <1>1
    <2>2. damaged' \subseteq DOMAIN packets'
        BY <1>4, <1>5, <2>1
    <2> QED
        BY <1>2, <1>5, <1>8, <1>9, <2>1, <2>2 DEF Held, InBuffer, TypeOK
  <1>14. Senders'
    <2>1. ASSUME NEW u \in Task, tx'[u].pc = "sending" PROVE lock' = u
        BY <1>1, <1>2, <1>8, <2>1, ConstantTypes DEF Senders
    <2>2. ASSUME NEW u \in Task, tx'[u].pc = "waiting" PROVE tx'[u].data \in Datas
        BY <1>2, <1>8, <2>2 DEF Senders
    <2>3. tx'[lock'].pc = "sending" /\ K' > 0
        BY <1>1, <1>4, <1>5, <1>8
    <2>4. Len(Left') <= Len(Symbols') /\ \A i \in 1..Len(Left') : Left'[i] = Symbols'[Sent' + i]
        BY <1>6, <1>11
    <2> QED
        BY <2>1, <2>2, <2>3, <2>4 DEF Senders
  <1>15. Line'
    <2>1. lock' # None /\ K' > 0
        BY <1>1, <1>4, <1>5, <1>10
    <2>2. \A i \in DOMAIN wire' : wire'[i].pkt = K'
        BY <1>5, <1>9
    <2> QED
        BY <1>9, <1>11, <2>1, <2>2 DEF Line
  <1>16. Contents'
      BY <1>1, <1>2, <1>4, <1>5, StateTypes, SMTT(30) DEF Contents
  <1>17. \A i \in DOMAIN rx.data : rx.data[i].pkt \in 1..K
      BY <1>2 DEF Contents
  <1>18. InFrame' = InFrame /\ Between' = Between /\ Fresh' = Fresh
      BY <1>1 DEF InFrame, Between, Fresh
  <1>19. Recent'
    <2>1. K \notin damaged /\ InFrame => rx.data = <<>>
        BY <1>2, <1>12 DEF Follows, Between, Fresh, InFrame
    <2>2. ASSUME InFrame, NEW i \in DOMAIN rx.data
          PROVE  /\ rx.data[i].pkt \in damaged
                 /\ rx.data[i].pkt < K + 1
                 /\ \A j \in DOMAIN delivered : delivered[j].header[HeaderLength] < rx.data[i].pkt
      <3>1. rx.data # <<>>
          BY <2>2
      <3>2. K \in damaged
          BY <2>1, <2>2, <3>1
      <3> QED
          BY <1>2, <1>4, <1>17, <2>2, <3>2 DEF Recent
    <2>3. ASSUME NEW j \in DOMAIN delivered
          PROVE  delivered[j].header[HeaderLength] < K + 1
      <3>1. delivered[j] \in Deliveries
          BY <1>2
      <3>2. delivered[j].header \in [1..HeaderLength -> Nat] /\ HeaderLength \in 1..HeaderLength
          BY <3>1, ConstantTypes DEF Deliveries
      <3>3. delivered[j].header[HeaderLength] \in Nat
          BY <3>2
      <3> QED
          BY <1>2, <1>4, <3>3 DEF Recent
    <2> QED
        BY <1>1, <1>5, <1>18, <2>2, <2>3 DEF Recent
  <1>20. Follows'
    <2>1. K' - 1 = K
        BY <1>4, <1>5
    <2>2. K \in damaged \/ Between
        BY <1>2, <1>12 DEF Follows
    <2> QED
        BY <1>1, <1>9, <1>12, <1>18, <2>1, <2>2 DEF Follows
  <1>21. Intact'
    <2>1. ASSUME NEW j \in DOMAIN delivered, NEW k \in DOMAIN packets,
                 delivered[j].data = packets[k]
          PROVE  k \in DOMAIN packets' /\ delivered[j].data = packets'[k]
        BY <1>4, <1>5, <2>1
    <2> QED
        BY <1>1, <1>2, <2>1, SMTT(30) DEF Intact
  <1>22. Resync'
    <2> SUFFICES ASSUME NEW k \in DOMAIN packets', Over(k)', {k - 1, k} \cap damaged' = {}
                 PROVE  \E j \in DOMAIN delivered :
                           /\ delivered[j].data = packets'[k]
                           /\ \A i \in 1..HeaderLength : delivered[j].header[i] = k
        BY <1>1 DEF Resync
    <2>1. k # K + 1
        BY <1>5, <1>9 DEF Over, K
    <2>2. k \in DOMAIN packets /\ packets'[k] = packets[k]
        BY <1>4, <1>5, <2>1
    <2>3. Over(k)
        BY <1>1, <2>2 DEF Over
    <2> QED
        BY <1>1, <1>2, <2>2, <2>3 DEF Resync
  <1> QED
      BY <1>1, <1>2, <1>13, <1>14, <1>15, <1>16, <1>19, <1>20, <1>21, <1>22 DEF IInv

\* The rest is as before when the line is given something while a packet is under way.
LEMMA GivenKept ==
  ASSUME IInv, wire = <<>>, lock # None, wire' # <<>>, ~Starting', ~Done', ~Half',
         Arrived' = Arrived, UNCHANGED <<rx, packets, delivered, damaged>>
  PROVE  Contents' /\ Recent' /\ Follows' /\ Intact' /\ Resync'
         /\ delivered' \in Seq(Deliveries)
  <1>1. K' = K /\ Symbols' = Symbols
      BY DEF K, Symbols
  <1>2. ~Starting /\ ~Done /\ ~Half
      BY DEF Starting, Done, Half
  <1>3. Contents' /\ Intact' /\ delivered' \in Seq(Deliveries)
      BY <1>1 DEF IInv, Contents, Intact
  <1>4. InFrame' = InFrame /\ Between' = Between /\ Fresh' = Fresh
      BY DEF InFrame, Between, Fresh
  <1>5. Recent'
      BY <1>1, <1>2, <1>4 DEF IInv, Recent
  <1>6. Exact' = Exact /\ Longer' = Longer
      BY <1>1 DEF Exact, Longer
  <1>7. Follows'
      BY <1>1, <1>2, <1>4, <1>6 DEF IInv, Follows
  <1>8. Resync'
    <2>1. ASSUME NEW k \in DOMAIN packets, Over(k)' PROVE Over(k)
        BY <2>1 DEF Over
    <2> QED
        BY <2>1 DEF IInv, Resync
  <1> QED
      BY <1>3, <1>5, <1>7, <1>8

\* A symbol is sent.
LEMMA SendSymbolKept ==
  ASSUME KissAssumption, IInv, NEW t \in Task, SendSymbol(t)
  PROVE  IInv'
  <1> DEFINE s == Head(tx[t].todo)
  <1>1. /\ tx[t].pc = "sending" /\ tx[t].todo # <<>> /\ wire = <<>>
        /\ wire' = Bytes(Escaped(s), K)
        /\ tx' = [tx EXCEPT ![t].todo = Tail(@)]
        /\ UNCHANGED <<lock, rx, routed, packets, delivered, damaged, lost>>
      BY DEF SendSymbol, K
  <1> HIDE DEF s
  <1>2. Held /\ Senders
      BY DEF IInv
  <1>3. lock = t /\ t # None /\ Left = tx[t].todo /\ K > 0
      BY <1>1, <1>2, ConstantTypes DEF Senders, Left
  <1>4. /\ tx \in [Task -> [pc : {"idle", "waiting", "sending"}, data : Datas \cup {<<>>},
                            todo : Seq(Seq(Name))]]
        /\ Left \in Seq(Seq(Name)) /\ Left # <<>>
      BY <1>1, <1>2, <1>3 DEF Held, TypeOK
  <1>5. /\ Tail(Left) \in Seq(Seq(Name)) /\ Len(Tail(Left)) = Len(Left) - 1
        /\ Len(Left) \in Nat /\ Len(Left) > 0 /\ s = Left[1] /\ s \in Seq(Name)
        /\ \A i \in 1..Len(Left) - 1 : Tail(Left)[i] = Left[i + 1]
    <2>1. s = Head(Left)
        BY <1>3 DEF s
    <2> QED
        BY <1>4, <2>1, HeadTailProperties
  <1>6. /\ tx'[t].pc = "sending" /\ tx'[t].todo = Tail(Left)
        /\ \A u \in Task : u # t => tx'[u] = tx[u]
        /\ tx' \in [Task -> [pc : {"idle", "waiting", "sending"}, data : Datas \cup {<<>>},
                             todo : Seq(Seq(Name))]]
      BY <1>1, <1>3, <1>4, <1>5, ZenonT(30)
  <1>7. K' = K /\ Symbols' = Symbols /\ Left' = Tail(Left) /\ K \in Nat
      BY <1>1, <1>3, <1>6, StateTypes DEF K, Symbols, Left
  <1>8. Len(Symbols) \in Nat /\ Sent \in Nat /\ Sent = Len(Symbols) - Len(Left)
      BY <1>3, FrameOnLine DEF Sent
  <1>9. Sent' = Sent + 1
      BY <1>5, <1>7, <1>8 DEF Sent
  <1>10. /\ Len(Left) <= Len(Symbols)
         /\ \A i \in 1..Len(Left) : Left[i] = Symbols[Sent + i]
      BY <1>2, <1>3 DEF Senders
  <1>11. s = Symbols[Sent + 1]
      BY <1>5, <1>10
  <1>12. /\ wire' \in Seq(Byte) /\ wire' # <<>> /\ DOMAIN wire' = 1..Len(wire')
         /\ Len(wire') \in 1..2 /\ \A i \in DOMAIN wire' : wire'[i].pkt = K
         /\ IF Special(s) THEN Len(wire') = 2 /\ wire'[1].sym = FESC /\ wire'[2].sym = Second(s)
            ELSE Len(wire') = 1 /\ wire'[1].sym = s
    <2>1. CASE Special(s)
      <3>1. Escaped(s) = <<FESC, Second(s)>> /\ Second(s) \in Seq(Name)
          BY <2>1, Protocol DEF Special, Second, Escaped
      <3> DEFINE u == Second(s)
      <3> HIDE DEF u
      <3>2. Escaped(s) = <<FESC, u>> /\ u \in Seq(Name) /\ FESC \in Seq(Name)
          BY <3>1, Protocol DEF u
      <3>3. /\ wire' \in Seq(Byte) /\ wire' # <<>> /\ Len(wire') = 2 /\ DOMAIN wire' = 1..2
            /\ wire'[1].sym = FESC /\ wire'[1].pkt = K /\ wire'[2].sym = u /\ wire'[2].pkt = K
          BY <1>1, <1>7, <3>2, TwoBytes
      <3> QED
          BY <2>1, <3>3 DEF u
    <2>2. CASE ~Special(s)
      <3>1. Escaped(s) = <<s>>
          BY <2>2 DEF Special, Escaped
      <3>2. /\ wire' \in Seq(Byte) /\ wire' # <<>> /\ Len(wire') = 1 /\ DOMAIN wire' = 1..1
            /\ wire'[1].sym = s /\ wire'[1].pkt = K
          BY <1>1, <1>5, <1>7, <3>1, OneByte
      <3> QED
          BY <2>2, <3>2
    <2> QED
        BY <2>1, <2>2
  <1>13. Held'
    <2>1. rx' = rx /\ routed' = routed /\ lost' = lost /\ damaged' = damaged /\ lock' = lock
          /\ packets' = packets
        BY <1>1
    <2> QED
        BY <1>2, <1>6, <1>12, <2>1 DEF Held, InBuffer, TypeOK
  <1>14. Senders'
    <2>1. ASSUME NEW u \in Task
          PROVE  /\ tx'[u].pc = "sending" => lock' = u
                 /\ tx'[u].pc = "waiting" => tx'[u].data \in Datas
        BY <1>1, <1>2, <1>3, <1>6 DEF Senders
    <2>2. tx'[lock'].pc = "sending" /\ K' > 0
        BY <1>1, <1>3, <1>6, <1>7
    <2>3. Len(Left') <= Len(Symbols')
        BY <1>5, <1>7, <1>8, <1>10
    <2>4. ASSUME NEW i \in 1..Len(Left') PROVE Left'[i] = Symbols'[Sent' + i]
      <3>1. i + 1 \in 1..Len(Left) /\ Left'[i] = Left[i + 1] /\ Sent' + i = Sent + (i + 1)
          BY <1>5, <1>7, <1>8, <1>9
      <3> QED
          BY <1>7, <1>10, <3>1
    <2> QED
        BY <2>1, <2>2, <2>3, <2>4 DEF Senders
  <1>15. lock' # None /\ Sent' # 0 /\ Sent' > 0 /\ Symbols'[Sent'] = s
    <2>1. lock' # None
        BY <1>1, <1>3
    <2>2. Sent' # 0 /\ Sent' > 0
      <3> DEFINE n == Sent'
      <3>1. n = Sent + 1
          BY <1>9
      <3> HIDE DEF n
      <3>2. n # 0 /\ n > 0
          BY <1>8, <3>1
      <3> QED
          BY <3>2 DEF n
    <2>3. Symbols'[Sent'] = s
      <3> DEFINE n == Sent'
      <3>1. n = Sent + 1 /\ Symbols' = Symbols
          BY <1>7, <1>9
      <3> HIDE DEF n
      <3>2. Symbols'[n] = s
          BY <1>11, <3>1
      <3> QED
          BY <3>2 DEF n
    <2> QED
        BY <2>1, <2>2, <2>3
  <1>16. Line'
    <2>1. K' > 0 /\ Len(wire') <= 2 /\ \A i \in DOMAIN wire' : wire'[i].pkt = K'
        BY <1>3, <1>7, <1>12
    <2>2. IF Special(Symbols'[Sent'])
          THEN wire'[Len(wire')].sym = Second(Symbols'[Sent']) /\ wire'[1].sym = FESC
          ELSE Len(wire') = 1 /\ wire'[1].sym = Symbols'[Sent']
        BY <1>12, <1>15
    <2> QED
        BY <1>15, <2>1, <2>2 DEF Line, Special, Second
  <1>17. ~Starting' /\ ~Done' /\ ~Half' /\ Arrived' = Arrived
    <2>1. ~Starting' /\ ~Done'
        BY <1>15 DEF Starting, Done
    <2>2. ~Half'
        BY <1>12, <1>15 DEF Half, Special
    <2>3. Arrived' = Sent' - 1 /\ Arrived = Sent
        BY <1>1, <1>12, <1>15 DEF Arrived
    <2> QED
        BY <1>8, <1>9, <2>1, <2>2, <2>3
  <1>18. lock # None
      BY <1>3
  <1> QED
      BY <1>1, <1>12, <1>13, <1>14, <1>16, <1>17, <1>18, GivenKept DEF IInv

\* The end of the frame is sent, and the lock given back.
LEMMA SendStopKept ==
  ASSUME KissAssumption, IInv, NEW t \in Task, SendStop(t)
  PROVE  IInv'
  <1>1. /\ tx[t].pc = "sending" /\ tx[t].todo = <<>> /\ wire = <<>>
        /\ wire' = Bytes(<<FEND>>, K) /\ tx' = [tx EXCEPT ![t] = Idle] /\ lock' = None
        /\ UNCHANGED <<rx, routed, packets, delivered, damaged, lost>>
      BY DEF SendStop, K
  <1>2. Held /\ Senders
      BY DEF IInv
  <1>3. lock = t /\ t # None /\ Left = <<>> /\ K > 0
      BY <1>1, <1>2, ConstantTypes DEF Senders, Left
  <1>4. tx \in [Task -> [pc : {"idle", "waiting", "sending"}, data : Datas \cup {<<>>},
                         todo : Seq(Seq(Name))]]
      BY <1>2 DEF Held, TypeOK
  <1>5. /\ tx'[t] = Idle /\ \A u \in Task : u # t => tx'[u] = tx[u]
        /\ tx' \in [Task -> [pc : {"idle", "waiting", "sending"}, data : Datas \cup {<<>>},
                             todo : Seq(Seq(Name))]]
      BY <1>1, <1>4 DEF Idle
  <1>6. K' = K /\ Symbols' = Symbols /\ Left' = Left /\ K \in Nat
      BY <1>1, <1>3, StateTypes DEF K, Symbols, Left
  <1>7. Sent' = Sent
      BY <1>6 DEF Sent
  <1>8. /\ wire' \in Seq(Byte) /\ wire' # <<>> /\ Len(wire') = 1 /\ DOMAIN wire' = 1..1
        /\ wire'[1].sym = FEND /\ wire'[1].pkt = K
      BY <1>1, <1>6, OneByte, Protocol
  <1>9. Held'
    <2>1. rx' = rx /\ routed' = routed /\ lost' = lost /\ damaged' = damaged /\ lock' = None
          /\ packets' = packets
        BY <1>1
    <2> QED
        BY <1>2, <1>5, <1>8, <2>1 DEF Held, InBuffer, TypeOK
  <1>10. Senders'
    <2>1. ASSUME NEW u \in Task
          PROVE  tx'[u].pc # "sending" /\ (tx'[u].pc = "waiting" => tx'[u].data \in Datas)
      <3>1. CASE u = t
          BY <1>5, <3>1 DEF Idle
      <3>2. CASE u # t
          BY <1>2, <1>3, <1>5, <3>2 DEF Senders
      <3> QED
          BY <3>1, <3>2
    <2> QED
        BY <1>1, <2>1 DEF Senders
  <1>11. Line'
    <2>1. \A i \in DOMAIN wire' : wire'[i].pkt = K'
        BY <1>6, <1>8
    <2> QED
        BY <1>1, <1>3, <1>6, <1>8, <2>1 DEF Line
  <1>12. ~Starting' /\ ~Done' /\ ~Half' /\ Arrived' = Arrived
      BY <1>1, <1>7, <1>8 DEF Starting, Done, Half, Arrived
  <1>13. lock # None
      BY <1>3
  <1> QED
      BY <1>1, <1>8, <1>9, <1>10, <1>11, <1>12, <1>13, GivenKept DEF IInv

\* A byte is lost.
LEMMA LoseByteKept ==
  ASSUME KissAssumption, IInv, LoseByte
  PROVE  IInv'
  <1>1. /\ wire # <<>> /\ lost < MaxLost /\ lost' = lost + 1
        /\ Leaves /\ UNCHANGED <<rx, routed, delivered>>
        /\ damaged' = damaged \cup {Head(wire).pkt}
      BY DEF LoseByte, Leaves
  <1>2. K > 0 /\ K \in Nat /\ damaged' = damaged \cup {K}
      BY <1>1, NextByte
  <1>3. /\ tx' = tx /\ lock' = lock /\ packets' = packets
      BY <1>1 DEF Leaves, sender
  <1>4. Held /\ Recent /\ Intact /\ Resync /\ Contents /\ delivered \in Seq(Deliveries)
      BY DEF IInv
  <1>5. K' = K /\ wire' \in Seq(Byte) /\ Line' /\ Senders' /\ ~(Starting' /\ Len(wire') = 2)
      BY <1>1, NextPlace
  <1>6. Held'
    <2>1. damaged' \subseteq DOMAIN packets' /\ lost' \in 0..MaxLost
        BY <1>1, <1>2, <1>3, <1>4, StateTypes DEF Held, TypeOK, KissAssumption
    <2> QED
        BY <1>1, <1>3, <1>4, <1>5, <2>1 DEF Held, InBuffer, TypeOK
  <1>7. Contents'
      BY <1>1, <1>3, <1>4, <1>5 DEF Contents
  <1>8. Recent'
    <2>1. InFrame' = InFrame /\ ~Done
        BY <1>1 DEF InFrame, Done
    <2> QED
        BY <1>1, <1>2, <1>4, <1>5, <2>1 DEF Recent
  <1>9. Follows'
      BY <1>2, <1>5 DEF Follows
  <1>10. Intact'
      BY <1>1, <1>2, <1>3, <1>4 DEF Intact
  <1>11. Resync'
    <2>1. ASSUME NEW k \in DOMAIN packets, Over(k)', {k - 1, k} \cap damaged' = {}
          PROVE  Over(k) /\ {k - 1, k} \cap damaged = {}
      <3>1. k # K
          BY <1>2, <2>1
      <3> QED
          BY <1>2, <2>1, <3>1 DEF Over, K
    <2> QED
        BY <1>1, <1>3, <1>4, <2>1 DEF Resync
  <1> QED
      BY <1>1, <1>4, <1>5, <1>6, <1>7, <1>8, <1>9, <1>10, <1>11 DEF IInv

\* The router gives a buffer back.
LEMMA FreeBufferKept ==
  ASSUME KissAssumption, IInv, NEW p \in Buffer, FreeBuffer(p)
  PROVE  IInv'
  <1>1. routed' = routed \ {p}
        /\ UNCHANGED <<tx, lock, wire, rx, packets, delivered, damaged, lost>>
      BY DEF FreeBuffer
  <1>2. Held'
      BY <1>1 DEF IInv, Held, InBuffer, TypeOK
  <1>3. K' = K /\ Symbols' = Symbols /\ Left' = Left
      BY <1>1 DEF K, Symbols, Left
  <1>4. Sent' = Sent
      BY <1>3 DEF Sent
  <1>5. Senders'
      BY <1>1, <1>3, <1>4 DEF IInv, Senders
  <1> QED
      BY <1>1, <1>2, <1>3, <1>5, Unmoved DEF IInv

-----------------------------------------------------------------------------
(* The theorems *)

\* A byte arrives.
LEMMA ReceiveKept ==
  ASSUME KissAssumption, IInv, wire # <<>>, Receive(Head(wire), Checked)
  PROVE  IInv'
  <1>1. Leaves
      BY Effects
  <1> QED
      BY <1>1, NextPlace, HeldKept, ContentsKept, RecentKept, FollowsKept, IntactKept, ResyncKept
         DEF IInv

\* It holds before anything is sent, when the receiver has no buffer yet.
LEMMA InitIInv ==
  ASSUME KissAssumption, Init
  PROVE  IInv
  <1>1. /\ tx = [t \in Task |-> Idle] /\ lock = None /\ wire = <<>> /\ packets = <<>>
        /\ rx = [mode |-> "NOT_STARTED", first |-> FALSE, packet |-> None, data |-> <<>>]
        /\ routed = {} /\ delivered = <<>> /\ damaged = {} /\ lost = 0
      BY DEF Init
  <1>2. Idle \in [pc : {"idle", "waiting", "sending"}, data : Datas \cup {<<>>},
                  todo : Seq(Seq(Name))]
      BY DEF Idle
  <1>3. Held
      BY <1>1, <1>2, ConstantTypes DEF Held, InBuffer, TypeOK, Mode, KissAssumption
  <1>4. Senders
      BY <1>1 DEF Senders, Idle
  <1>5. Line /\ Contents
      BY <1>1 DEF Line, Contents
  <1>6. ~InFrame /\ Between /\ Done /\ ~Starting
      BY <1>1 DEF InFrame, Between, Done, Starting
  <1>7. Recent
      BY <1>1, <1>6 DEF Recent
  <1>8. Follows
      BY <1>6 DEF Follows
  <1>9. delivered \in Seq(Deliveries) /\ Intact /\ Resync
      BY <1>1 DEF Intact, Resync
  <1> QED
      BY <1>3, <1>4, <1>5, <1>7, <1>8, <1>9 DEF IInv

\* Every step keeps it.
LEMMA StepIInv ==
  ASSUME KissAssumption, IInv, [Next]_vars
  PROVE  IInv'
  <1>1. ASSUME NEW t \in Task, NEW d \in Datas, Send(t, d) PROVE IInv'
      BY <1>1, SendKept
  <1>2. ASSUME NEW t \in Task, Lock(t) PROVE IInv'
      BY <1>2, LockKept
  <1>3. ASSUME NEW t \in Task, LockTimeout(t) PROVE IInv'
      BY <1>3, LockTimeoutKept
  <1>4. ASSUME NEW t \in Task, SendSymbol(t) PROVE IInv'
      BY <1>4, SendSymbolKept
  <1>5. ASSUME NEW t \in Task, SendStop(t) PROVE IInv'
      BY <1>5, SendStopKept
  <1>6. ASSUME wire # <<>>, Receive(Head(wire), Checked) PROVE IInv'
      BY <1>6, ReceiveKept
  <1>7. ASSUME NEW p \in Buffer, FreeBuffer(p) PROVE IInv'
      BY <1>7, FreeBufferKept
  <1>8. CASE UNCHANGED vars
    <2>1. /\ tx' = tx /\ routed' = routed /\ lost' = lost
          /\ UNCHANGED <<lock, wire, rx, packets, delivered, damaged>>
        BY <1>8 DEF vars
    <2>2. K' = K /\ Symbols' = Symbols /\ Left' = Left
        BY <2>1 DEF K, Symbols, Left
    <2>3. Sent' = Sent
        BY <2>2 DEF Sent
    <2>4. Held' /\ Senders'
        BY <2>1, <2>2, <2>3 DEF IInv, Held, InBuffer, TypeOK, Senders
    <2> QED
        BY <2>1, <2>2, <2>4, Unmoved DEF IInv
  <1> QED
      BY <1>1, <1>2, <1>3, <1>4, <1>5, <1>6, <1>7, <1>8, LoseByteKept DEF Next

\* The invariant of csp_kiss_tx and csp_kiss_rx.
LEMMA Invariant ==
  Spec => []IInv
  <1>1. Init => IInv
      BY KissAssumption, InitIInv
  <1>2. IInv /\ [Next]_vars => IInv'
      BY KissAssumption, StepIInv
  <1> QED
      BY <1>1, <1>2, PTL DEF Spec

\* csp_kiss_rx stores bytes in a buffer it has, never in one it has given to the router with
\* csp_qfifo_write, and within that buffer, except for one byte behind its end: the check of
\* csp_if_kiss.c:93 notices a full buffer only after one more byte, and never after two.
THEOREM HeldThm == Spec => []Held
  <1>1. IInv => Held
      BY DEF IInv
  <1> QED
      BY <1>1, Invariant, PTL

\* What csp_kiss_rx passes on is the data of one packet of csp_kiss_tx with its own header, in
\* the order sent and once, however many bytes are lost; but for the header of an earlier
\* packet before the data of a later one, both of them damaged, that the checksum lets through.
THEOREM IntactThm == Spec => []Intact
  <1>1. IInv => Intact
      BY DEF IInv
  <1> QED
      BY <1>1, Invariant, PTL

\* A packet whose bytes all arrive is passed on by csp_kiss_rx if those of the packet before it
\* arrived as well, whatever was lost before that.
THEOREM ResyncThm == Spec => []Resync
  <1>1. IInv => Resync
      BY DEF IInv
  <1> QED
      BY <1>1, Invariant, PTL

=============================================================================
