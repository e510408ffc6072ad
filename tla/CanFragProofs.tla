---------------------------- MODULE CanFragProofs ----------------------------
(***************************************************************************)
(* Proofs about CanFrag: what the receiver holds, what it passes on, and   *)
(* that it passes on every packet that reached it.                         *)
(***************************************************************************)
EXTENDS CanFrag, TLAPS, FiniteSetTheorems, SequenceTheorems

-----------------------------------------------------------------------------
(* The inductive invariant *)

\* Packet k has the source and the identifier.
Labelled(k, src, id) == origin[k].src = src /\ origin[k].frame_id % IdCount = id

\* A first frame brings two bytes, so that later ones start eight bytes apart.
OnFrame(n) == n \in Nat /\ n >= 2 /\ (n + 6) % 8 = 0

\* The frames that bring n bytes, all but the first of a packet.
FramesFor(n) == (n + 7) \div 8

\* What a task that sends has sent of its packet.
Sending(t) ==
    tx[t].sending =>
        LET x == tx[t] IN
        /\ x.pkt \in Sent /\ Labelled(x.pkt, SrcOf[t], x.ident)
        /\ len[x.pkt] <= MaxData
        /\ x.started => OnFrame(x.count) /\ x.count < len[x.pkt]
        /\ ~x.started => x.count = 0

\* Each packet has one sender.  Two of one node with one identifier are recorded.
Senders ==
    /\ Len(origin) = Len(len)
    /\ \A t \in Task : Sending(t)
    /\ \A t, u \in Task :
          tx[t].sending /\ tx[u].sending /\ t # u =>
              /\ tx[t].pkt # tx[u].pkt
              /\ SrcOf[t] = SrcOf[u] /\ tx[t].ident = tx[u].ident =>
                    tx[t].pkt \in damaged

\* Chunks d are of packet k, without gap, from its first byte to byte n.
Contiguous(d, k, n) ==
    /\ \A j \in DOMAIN d : /\ d[j].pkt = k
                           /\ d[j].from = IF j = 1 THEN 0 ELSE d[j - 1].to
    /\ d[Len(d)].to = n

\* A chunk among d is of another packet than k; each such packet is rounds apart from k
\* and both are damaged.
Mixed(d, k) ==
    /\ \E j \in DOMAIN d : d[j].pkt # k
    /\ \A j \in DOMAIN d : d[j].pkt # k =>
          RoundsApart(k, d[j].pkt) /\ {k, d[j].pkt} \subseteq damaged

\* An element in use holds the first part of its packet, or a mixture.
Holding(e) ==
    /\ e.packet \in Sent /\ Labelled(e.packet, e.src, e.id)
    /\ e.length = len[e.packet] /\ e.length <= MaxData /\ e.length <= BufferSize
    /\ e.data # <<>> /\ \A j \in DOMAIN e.data : e.data[j].pkt \in Sent
    /\ \/ /\ Contiguous(e.data, e.packet, e.rx_count)
          /\ OnFrame(e.rx_count) /\ e.rx_count < e.length
          /\ e.remain = FramesFor(e.length - e.rx_count)
       \/ Mixed(e.data, e.packet)

Elements ==
    /\ \A i \in Pbuf : pbuf[i].used => Holding(pbuf[i])
    /\ \A i, j \in Pbuf :
          pbuf[i].used /\ pbuf[j].used /\ pbuf[i].src = pbuf[j].src
          /\ pbuf[i].id = pbuf[j].id => i = j

\* As long as packet k is undamaged, the receiver's element and the sender agree on it.
InStep ==
    /\ \A i \in Pbuf : pbuf[i].used /\ pbuf[i].packet \notin damaged =>
          \E t \in Task : /\ tx[t].sending /\ tx[t].started
                          /\ tx[t].pkt = pbuf[i].packet /\ tx[t].count = pbuf[i].rx_count
    /\ \A t \in Task : tx[t].sending /\ tx[t].started /\ tx[t].pkt \notin damaged =>
          \E i \in Pbuf : /\ pbuf[i].used
                          /\ pbuf[i].packet = tx[t].pkt /\ pbuf[i].rx_count = tx[t].count

\* A packet that was delivered.
Result(d) ==
    /\ d.packet \in Sent /\ d.length = len[d.packet]
    /\ d.data # <<>> /\ \A j \in DOMAIN d.data : d.data[j].pkt \in Sent
    /\ Contiguous(d.data, d.packet, d.length) \/ Mixed(d.data, d.packet)

Results ==
    /\ \A j \in DOMAIN delivered : Result(delivered[j])
    /\ \A i, j \in DOMAIN delivered :
          delivered[i].packet = delivered[j].packet /\ delivered[i].packet \notin damaged =>
              i = j
    /\ \A k \in Sent \ damaged :
          (\E t \in Task : tx[t].sending /\ tx[t].pkt = k)
              <=> ~ \E j \in DOMAIN delivered : delivered[j].packet = k

Used == {i \in Pbuf : pbuf[i].used}

IInv ==
    /\ TypeOK /\ buffers = Cardinality(Used)
    /\ Senders /\ Elements /\ InStep /\ Results

-----------------------------------------------------------------------------
(* Facts about the operators *)

\* A value below the modulus is its own remainder.
LEMMA SmallMod ==
  ASSUME NEW a \in Nat, NEW n \in Nat, a < n
  PROVE  a % n = a
  OBVIOUS

\* A later frame starts on a frame boundary, and ends on one or at the end of the packet.
LEMMA FrameStep ==
  ASSUME NEW n \in Nat, NEW l \in Nat, OnFrame(n), n < l,
         NEW b \in Nat, b = IF l - n <= 8 THEN l - n ELSE 8
  PROVE  /\ n + b <= l /\ b > 0
         /\ n + b < l => OnFrame(n + b)
         /\ FramesFor(l - n) = FramesFor(l - (n + b)) + 1
         /\ FramesFor(l - (n + b)) \in Nat
  BY DEF OnFrame, FramesFor

\* The first frame of a packet.
LEMMA FirstStep ==
  ASSUME NEW l \in Nat, NEW b \in Nat, b = IF l <= 2 THEN l ELSE 2
  PROVE  /\ b <= l
         /\ b < l => OnFrame(b)
         /\ (l + 5) \div 8 = FramesFor(l - b)
         /\ FramesFor(l - b) \in Nat
  BY DEF OnFrame, FramesFor

\* Two positions on frame boundaries that leave as many frames are the same.
LEMMA SamePlace ==
  ASSUME NEW m \in Nat, NEW n \in Nat, NEW l \in Nat, OnFrame(m), OnFrame(n),
         m < l, n < l, FramesFor(l - m) = FramesFor(l - n)
  PROVE  m = n
  BY DEF OnFrame, FramesFor

\* What the remain field can hold is enough for a packet that is not too long.
LEMMA EnoughFrames ==
  ASSUME NEW l \in Nat, NEW n \in Nat, n <= l, l <= MaxData, n >= 2 \/ n = l
  PROVE  FramesFor(l - n) < RemainCount
<1>1. RemainCount \in Nat \ {0}
  BY CanAssumption
<1>2. l <= RemainCount * 8 - 6
  BY DEF MaxData, FrameBytes, Overhead
<1> QED
  BY <1>1, <1>2 DEF FramesFor

\* What frame f of task t says, and where it leaves the task.
FrameSays(t, f) ==
    /\ f.src = SrcOf[t] /\ f.src \in Source
    /\ f.id = tx[t].ident /\ f.id \in 0 .. IdCount - 1
    /\ f.pkt = tx[t].pkt /\ f.pkt \in Sent /\ f.pkt \in Nat
    /\ f.length = len[f.pkt] /\ f.length \in Nat /\ f.length <= MaxData
    /\ f.from = tx[t].count /\ f.from \in Nat /\ f.to \in Nat
    /\ f.from <= f.to /\ f.to <= f.length
    /\ f.to < f.length => OnFrame(f.to)
    /\ f.remain = FramesFor(f.length - f.to) /\ f.remain \in 0 .. RemainCount - 1
    /\ f.type \in {Begin, More}
    /\ f.type = Begin => ~tx[t].started /\ f.from = 0
    /\ f.type = More =>
          /\ tx[t].started /\ OnFrame(f.from) /\ f.from < f.length
          /\ FramesFor(f.length - f.from) = f.remain + 1

\* The frame of a task that sends.
LEMMA FrameLemma ==
  ASSUME TypeOK, Senders, NEW t \in Task, tx[t].sending
  PROVE  FrameSays(t, Frame(t))
<1> DEFINE x == tx[t]
           l == len[x.pkt]
           b == Bytes(t)
           f == Frame(t)
<1> SUFFICES FrameSays(t, f)
  OBVIOUS
<1>1. /\ x \in [sending : BOOLEAN, pkt : Nat, ident : 0 .. IdCount - 1,
                count : Nat, started : BOOLEAN]
      /\ x.pkt \in Sent /\ l \in Nat /\ l <= MaxData
      /\ x.started => OnFrame(x.count) /\ x.count < l
      /\ ~x.started => x.count = 0
  BY DEF TypeOK, Senders, Sending, Sent
<1>2. SrcOf[t] \in Source
  BY DEF Source
<1>3. b = IF x.started THEN IF l - x.count <= 8 THEN l - x.count ELSE 8
          ELSE IF l <= 2 THEN l ELSE 2
  BY <1>1 DEF Bytes, FrameBytes, Overhead
<1>4. CASE x.started
  <2>1. b \in Nat /\ b = IF l - x.count <= 8 THEN l - x.count ELSE 8
    BY <1>1, <1>3, <1>4
  <2>2. /\ x.count + b <= l /\ b > 0
        /\ x.count + b < l => OnFrame(x.count + b)
        /\ FramesFor(l - x.count) = FramesFor(l - (x.count + b)) + 1
        /\ FramesFor(l - (x.count + b)) \in Nat
    <3> HIDE DEF x, l, b
    <3> QED BY <1>1, <1>4, <2>1, FrameStep
  <2>3. x.count + b >= 2
    BY <1>1, <1>4, <2>1 DEF OnFrame
  <2>4. FramesFor(l - (x.count + b)) < RemainCount
    <3> DEFINE n == x.count + b
    <3>1. l \in Nat /\ n \in Nat /\ n <= l /\ l <= MaxData /\ n >= 2
      BY <1>1, <2>1, <2>2, <2>3
    <3> HIDE DEF l, n
    <3>2. FramesFor(l - n) < RemainCount
      BY <3>1, EnoughFrames
    <3> QED BY <3>2 DEF n
  <2>5. MoreRemain(l, x.count, b) = FramesFor(l - (x.count + b))
    <3>1. ((l - x.count - b + 8 - 1) \div 8) = FramesFor(l - (x.count + b))
      BY <1>1, <2>1 DEF FramesFor
    <3>2. FramesFor(l - (x.count + b)) % RemainCount = FramesFor(l - (x.count + b))
      BY <2>2, <2>4, SmallMod, CanAssumption
    <3> QED BY <3>1, <3>2 DEF MoreRemain, FrameBytes
  <2>6. f = [src |-> SrcOf[t], id |-> x.ident, type |-> More,
             remain |-> FramesFor(l - (x.count + b)), pkt |-> x.pkt, length |-> l,
             from |-> x.count, to |-> x.count + b]
    BY <1>4, <2>5 DEF Frame
  <2>7. More # Begin
    BY DEF More, Begin
  <2>8. /\ f.src = SrcOf[t] /\ f.id = x.ident /\ f.pkt = x.pkt /\ f.length = l
        /\ f.from = x.count /\ f.to = x.count + b /\ f.type = More
        /\ f.remain = FramesFor(l - f.to)
    BY <2>6
  <2>9. f.from \in Nat /\ f.to \in Nat /\ f.from <= f.to /\ f.to <= l /\ f.pkt \in Nat
    BY <1>1, <2>1, <2>2, <2>8
  <2>10. f.remain \in 0 .. RemainCount - 1 /\ FramesFor(l - f.from) = f.remain + 1
    BY <2>2, <2>4, <2>8, CanAssumption
  <2> HIDE DEF b, f
  <2> QED BY <1>1, <1>2, <1>4, <2>2, <2>7, <2>8, <2>9, <2>10 DEF FrameSays
<1>5. CASE ~x.started
  <2>1. b \in Nat /\ b = IF l <= 2 THEN l ELSE 2
    BY <1>1, <1>3, <1>5
  <2>2. /\ b <= l
        /\ b < l => OnFrame(b)
        /\ (l + 5) \div 8 = FramesFor(l - b)
        /\ FramesFor(l - b) \in Nat
    <3> HIDE DEF l, b
    <3> QED BY <1>1, <2>1, FirstStep
  <2>3. FramesFor(l - b) < RemainCount
    <3> HIDE DEF l, b
    <3> QED BY <1>1, <2>1, <2>2, EnoughFrames
  <2>4. BeginRemain(l) = FramesFor(l - b)
    <3>1. (l + 6 - 1) \div 8 = FramesFor(l - b)
      BY <1>1, <2>2
    <3>2. FramesFor(l - b) % RemainCount = FramesFor(l - b)
      BY <2>2, <2>3, SmallMod, CanAssumption
    <3> QED BY <3>1, <3>2 DEF BeginRemain, FrameBytes, Overhead
  <2>5. f = [src |-> SrcOf[t], id |-> x.ident, type |-> Begin,
             remain |-> FramesFor(l - b), pkt |-> x.pkt, length |-> l,
             from |-> x.count, to |-> x.count + b]
    BY <1>5, <2>4 DEF Frame
  <2>6. More # Begin
    BY DEF More, Begin
  <2>8. /\ f.src = SrcOf[t] /\ f.id = x.ident /\ f.pkt = x.pkt /\ f.length = l
        /\ f.from = 0 /\ x.count = 0 /\ f.to = b /\ f.type = Begin
        /\ f.remain = FramesFor(l - f.to)
    BY <1>1, <1>5, <2>1, <2>5
  <2>9. f.to \in Nat /\ f.from <= f.to /\ f.to <= l /\ f.pkt \in Nat
    BY <1>1, <2>1, <2>2, <2>8
  <2>10. f.remain \in 0 .. RemainCount - 1
    BY <2>2, <2>3, <2>8, CanAssumption
  <2> HIDE DEF b, f
  <2> QED BY <1>1, <1>2, <1>5, <2>2, <2>6, <2>8, <2>9, <2>10 DEF FrameSays
<1> QED
  BY <1>1, <1>4, <1>5

-----------------------------------------------------------------------------
(* The senders *)

TxType == [sending : BOOLEAN, pkt : Nat, ident : 0 .. IdCount - 1,
           count : Nat, started : BOOLEAN]

\* Task t has sent a frame of its packet and goes on with it, or has ended.
Moves(t) ==
    /\ tx' \in [Task -> TxType]
    /\ \A u \in Task \ {t} : tx'[u] = tx[u]
    /\ tx'[t].sending =>
          /\ tx'[t].started /\ tx'[t].pkt = tx[t].pkt /\ tx'[t].ident = tx[t].ident
          /\ OnFrame(tx'[t].count) /\ tx'[t].count < len[tx[t].pkt]
    /\ UNCHANGED <<frame_id, len, origin>>
    /\ damaged \subseteq damaged' /\ damaged' \subseteq Nat

\* Where a task is after it has sent frame f.
LEMMA AdvanceLemma ==
  ASSUME TypeOK, NEW t \in Task, tx[t].sending,
         NEW f, FrameSays(t, f), Advance(t, f),
         UNCHANGED <<frame_id, len, origin>>,
         damaged \subseteq damaged', damaged' \subseteq Nat
  PROVE  /\ Moves(t)
         /\ tx'[t].sending <=> f.to < f.length
         /\ tx'[t].sending => tx'[t].count = f.to
<1> DEFINE x == tx[t]
<1>1. tx \in [Task -> TxType]
  BY DEF TypeOK, TxType
<1>2. Idle \in TxType /\ ~Idle.sending
  BY CanAssumption DEF Idle, TxType
<1>3. CASE f.to < f.length
  <2>1. tx' = [tx EXCEPT ![t] = [tx[t] EXCEPT !.count = f.to, !.started = TRUE]]
    BY <1>3 DEF Advance
  <2>2. f.to \in Nat /\ f.to < len[x.pkt] /\ OnFrame(f.to)
    BY <1>3 DEF FrameSays
  <2>3. /\ tx'[t].sending /\ tx'[t].started /\ tx'[t].pkt = x.pkt
        /\ tx'[t].ident = x.ident /\ tx'[t].count = f.to /\ tx'[t] \in TxType
    BY <1>1, <2>1, <2>2 DEF TxType
  <2>4. \A u \in Task \ {t} : tx'[u] = tx[u]
    BY <1>1, <2>1
  <2>5. tx' \in [Task -> TxType]
    BY <1>1, <2>1, <2>3
  <2> QED BY <1>3, <2>2, <2>3, <2>4, <2>5 DEF Moves
<1>4. CASE ~(f.to < f.length)
  <2>1. tx' = [tx EXCEPT ![t] = Idle]
    BY <1>4 DEF Advance
  <2>2. tx'[t] = Idle /\ (\A u \in Task \ {t} : tx'[u] = tx[u]) /\ tx' \in [Task -> TxType]
    BY <1>1, <1>2, <2>1
  <2> QED BY <1>2, <1>4, <2>2 DEF Moves
<1> QED BY <1>3, <1>4

\* What holds of the senders is kept when one of them moves on.
LEMMA SendersKept ==
  ASSUME TypeOK, Senders, NEW t \in Task, tx[t].sending, Moves(t)
  PROVE  Senders'
<1>1. \A u \in Task : tx'[u].sending =>
         /\ tx[u].sending /\ tx'[u].pkt = tx[u].pkt /\ tx'[u].ident = tx[u].ident
         /\ u # t => tx'[u] = tx[u]
  BY DEF Moves
<1>2. ASSUME NEW u \in Task PROVE Sending(u)'
  <2>1. CASE u = t
    BY <1>1, <2>1 DEF Senders, Sending, Moves, Labelled, Sent
  <2>2. CASE u # t
    <3>1. Sending(u) /\ tx'[u].sending => tx'[u] = tx[u] /\ tx[u].sending
      BY <1>1, <2>2
    <3>2. Sending(u) /\ len' = len /\ origin' = origin
      BY DEF Senders, Moves
    <3> QED BY <3>1, <3>2 DEF Sending, Labelled, Sent
  <2> QED BY <2>1, <2>2
<1>3. ASSUME NEW u \in Task, NEW v \in Task, tx'[u].sending, tx'[v].sending, u # v
      PROVE  /\ tx'[u].pkt # tx'[v].pkt
             /\ SrcOf[u] = SrcOf[v] /\ tx'[u].ident = tx'[v].ident => tx'[u].pkt \in damaged'
  <2>1. tx[u].sending /\ tx[v].sending /\ tx'[u].pkt = tx[u].pkt /\ tx'[v].pkt = tx[v].pkt
        /\ tx'[u].ident = tx[u].ident /\ tx'[v].ident = tx[v].ident
    BY <1>1, <1>3
  <2>2. /\ tx[u].pkt # tx[v].pkt
        /\ SrcOf[u] = SrcOf[v] /\ tx[u].ident = tx[v].ident => tx[u].pkt \in damaged
    BY <1>3, <2>1 DEF Senders
  <2> QED BY <2>1, <2>2 DEF Moves
<1>4. Len(origin') = Len(len')
  BY DEF Senders, Moves
<1> QED BY <1>2, <1>3, <1>4 DEF Senders

-----------------------------------------------------------------------------
(* The elements *)

PbufType == [used : BOOLEAN, src : Source, id : 0 .. IdCount - 1,
             remain : 0 .. RemainCount, packet : Nat, length : Nat,
             rx_count : 0 .. BufferSize, data : Seq(Chunk)]

\* A packet that has the label of the one task t is sending is that packet, or damaged,
\* or its sender has ended.
LEMMA NamesakeLemma ==
  ASSUME TypeOK, Senders, NEW t \in Task, tx[t].sending,
         NEW u \in Task, tx[u].sending, Labelled(tx[u].pkt, SrcOf[t], tx[t].ident)
  PROVE  tx[u].pkt = tx[t].pkt \/ {tx[u].pkt, tx[t].pkt} \subseteq damaged
<1>1. Labelled(tx[u].pkt, SrcOf[u], tx[u].ident)
  BY DEF Senders, Sending
<1>2. SrcOf[t] = SrcOf[u] /\ tx[t].ident = tx[u].ident
  BY <1>1 DEF Labelled
<1>3. CASE u = t
  BY <1>3
<1>4. CASE u # t
  BY <1>2, <1>4 DEF Senders
<1> QED BY <1>3, <1>4

\* What an element holds stays as it is when more packets are damaged.
LEMMA HoldingKept ==
  ASSUME NEW e, Holding(e), UNCHANGED <<len, origin>>, damaged \subseteq damaged'
  PROVE  Holding(e)'
<1>1. Mixed(e.data, e.packet) => Mixed(e.data, e.packet)'
  BY DEF Mixed, RoundsApart
<1> QED BY <1>1 DEF Holding, Labelled, Sent

\* So does what was delivered.
LEMMA ResultKept ==
  ASSUME NEW d, Result(d), UNCHANGED <<len, origin>>, damaged \subseteq damaged'
  PROVE  Result(d)'
<1>1. Mixed(d.data, d.packet) => Mixed(d.data, d.packet)'
  BY DEF Mixed, RoundsApart
<1> QED BY <1>1 DEF Result, Sent

\* A frame of task t arrives, and no element is touched.
LEMMA UntouchedStep ==
  ASSUME TypeOK, Senders, Elements, InStep, NEW t \in Task, tx[t].sending, Moves(t),
         tx[t].pkt \in damaged', UNCHANGED pbuf
  PROVE  (Elements /\ InStep)'
<1>1. Elements'
  <2>1. ASSUME NEW i \in Pbuf, pbuf[i].used PROVE Holding(pbuf[i])'
    <3>1. Holding(pbuf[i])
      BY <2>1 DEF Elements
    <3> DEFINE e == pbuf[i]
    <3>2. e' = e
      OBVIOUS
    <3> QED BY <3>1, HoldingKept DEF Moves
  <2> QED BY <2>1 DEF Elements
<1>2. ASSUME NEW i \in Pbuf, pbuf[i].used, pbuf[i].packet \notin damaged'
      PROVE  \E u \in Task : /\ tx'[u].sending /\ tx'[u].started
                             /\ tx'[u].pkt = pbuf[i].packet /\ tx'[u].count = pbuf[i].rx_count
  <2>1. PICK u \in Task : /\ tx[u].sending /\ tx[u].started
                          /\ tx[u].pkt = pbuf[i].packet /\ tx[u].count = pbuf[i].rx_count
    BY <1>2 DEF InStep, Moves
  <2>2. u # t
    BY <1>2, <2>1
  <2> QED BY <2>1, <2>2 DEF Moves
<1>3. ASSUME NEW u \in Task, tx'[u].sending, tx'[u].started, tx'[u].pkt \notin damaged'
      PROVE  \E i \in Pbuf : /\ pbuf[i].used
                             /\ pbuf[i].packet = tx'[u].pkt /\ pbuf[i].rx_count = tx'[u].count
  <2>1. u # t /\ tx'[u] = tx[u]
    BY <1>3 DEF Moves
  <2>2. tx[u].sending /\ tx[u].started /\ tx[u].pkt \notin damaged
    BY <1>3, <2>1 DEF Moves
  <2>3. \E i \in Pbuf : /\ pbuf[i].used
                        /\ pbuf[i].packet = tx[u].pkt /\ pbuf[i].rx_count = tx[u].count
    BY <2>2 DEF InStep
  <2> QED BY <2>1, <2>3
<1> QED BY <1>1, <1>2, <1>3 DEF InStep

\* A frame of task t changes element i, and no other.
LEMMA ElementStep ==
  ASSUME TypeOK, Senders, Elements, InStep, NEW t \in Task, tx[t].sending, Moves(t),
         NEW f, FrameSays(t, f),
         tx'[t].sending <=> f.to < f.length, tx'[t].sending => tx'[t].count = f.to,
         NEW i \in Pbuf, \A j \in Pbuf \ {i} : pbuf'[j] = pbuf[j],
         pbuf'[i].used => Holding(pbuf[i])',
         pbuf'[i].used => \A j \in Pbuf \ {i} : pbuf[j].used =>
             pbuf[j].src # pbuf'[i].src \/ pbuf[j].id # pbuf'[i].id,
         pbuf'[i].used /\ pbuf'[i].packet \notin damaged' =>
             f.to < f.length /\ pbuf'[i].packet = f.pkt /\ pbuf'[i].rx_count = f.to,
         f.to < f.length /\ f.pkt \notin damaged' =>
             pbuf'[i].used /\ pbuf'[i].packet = f.pkt /\ pbuf'[i].rx_count = f.to,
         \A j \in Pbuf \ {i} : pbuf[j].used /\ pbuf[j].packet = f.pkt => f.pkt \in damaged',
         pbuf[i].used => pbuf[i].packet \in damaged' \/ pbuf[i].packet = f.pkt
  PROVE  (Elements /\ InStep)'
<1>1. UNCHANGED <<len, origin>> /\ damaged \subseteq damaged' /\ f.pkt = tx[t].pkt
  BY DEF Moves, FrameSays
<1>2. ASSUME NEW j \in Pbuf, pbuf'[j].used PROVE Holding(pbuf[j])'
  <2>1. CASE j = i
    BY <1>2, <2>1
  <2>2. CASE j # i
    <3>1. Holding(pbuf[j]) /\ pbuf'[j] = pbuf[j]
      BY <1>2, <2>2 DEF Elements
    <3> DEFINE e == pbuf[j]
    <3>2. Holding(e) /\ e' = e
      BY <3>1
    <3> QED BY <1>1, <3>1, <3>2, HoldingKept
  <2> QED BY <2>1, <2>2
<1>3. ASSUME NEW j \in Pbuf, NEW k \in Pbuf, pbuf'[j].used, pbuf'[k].used,
             pbuf'[j].src = pbuf'[k].src, pbuf'[j].id = pbuf'[k].id
      PROVE  j = k
  <2>1. CASE j # i /\ k # i
    BY <1>3, <2>1 DEF Elements
  <2>2. CASE j = i \/ k = i
    BY <1>3, <2>2
  <2> QED BY <2>1, <2>2
<1>4. ASSUME NEW j \in Pbuf, pbuf'[j].used, pbuf'[j].packet \notin damaged'
      PROVE  \E u \in Task : /\ tx'[u].sending /\ tx'[u].started
                             /\ tx'[u].pkt = pbuf'[j].packet /\ tx'[u].count = pbuf'[j].rx_count
  <2>1. CASE j = i
    <3>1. tx'[t].sending /\ tx'[t].started /\ tx'[t].pkt = f.pkt /\ tx'[t].count = f.to
      BY <1>1, <1>4, <2>1 DEF Moves
    <3> QED BY <1>4, <2>1, <3>1
  <2>2. CASE j # i
    <3>1. pbuf'[j] = pbuf[j] /\ pbuf[j].used /\ pbuf[j].packet \notin damaged
      BY <1>1, <1>4, <2>2
    <3>2. PICK u \in Task : /\ tx[u].sending /\ tx[u].started
                            /\ tx[u].pkt = pbuf[j].packet /\ tx[u].count = pbuf[j].rx_count
      BY <3>1 DEF InStep
    <3>3. u # t
      BY <1>1, <1>4, <2>2, <3>1, <3>2
    <3>4. tx'[u] = tx[u]
      BY <3>3 DEF Moves
    <3> QED BY <3>1, <3>2, <3>4
  <2> QED BY <2>1, <2>2
<1>5. ASSUME NEW u \in Task, tx'[u].sending, tx'[u].started, tx'[u].pkt \notin damaged'
      PROVE  \E j \in Pbuf : /\ pbuf'[j].used
                             /\ pbuf'[j].packet = tx'[u].pkt /\ pbuf'[j].rx_count = tx'[u].count
  <2>1. CASE u = t
    BY <1>1, <1>5, <2>1 DEF Moves
  <2>2. CASE u # t
    <3>1. tx'[u] = tx[u] /\ tx[u].pkt \notin damaged
      BY <1>1, <1>5, <2>2 DEF Moves
    <3>4. tx[u].pkt # f.pkt
      BY <1>1, <1>5, <2>2, <3>1 DEF Senders
    <3>2. PICK j \in Pbuf : /\ pbuf[j].used
                            /\ pbuf[j].packet = tx[u].pkt /\ pbuf[j].rx_count = tx[u].count
      BY <1>5, <3>1 DEF InStep
    <3>3. j # i
      BY <1>5, <3>1, <3>2, <3>4
    <3> QED BY <3>1, <3>2, <3>3
  <2> QED BY <2>1, <2>2
<1> QED BY <1>2, <1>3, <1>4, <1>5 DEF Elements, InStep

-----------------------------------------------------------------------------
(* What is delivered *)

\* A frame of task t completes no packet, or its packet is damaged.
LEMMA NoResultStep ==
  ASSUME TypeOK, Senders, Results, NEW t \in Task, tx[t].sending, Moves(t),
         tx'[t].sending \/ tx[t].pkt \in damaged', UNCHANGED delivered
  PROVE  Results'
<1>1. UNCHANGED <<len, origin>> /\ damaged \subseteq damaged' /\ Sent' = Sent
  BY DEF Moves, Sent
<1>2. ASSUME NEW j \in DOMAIN delivered PROVE Result(delivered[j])'
  <2> DEFINE d == delivered[j]
  <2>1. Result(d) /\ d' = d
    BY DEF Results
  <2> QED BY <1>1, <2>1, ResultKept
<1>3. ASSUME NEW k \in Sent \ damaged'
      PROVE  (\E u \in Task : tx'[u].sending /\ tx'[u].pkt = k)
                <=> ~ \E j \in DOMAIN delivered : delivered[j].packet = k
  <2>1. (\E u \in Task : tx[u].sending /\ tx[u].pkt = k)
                <=> ~ \E j \in DOMAIN delivered : delivered[j].packet = k
    BY <1>1, <1>3 DEF Results
  <2>2. \A u \in Task : tx'[u].sending /\ tx'[u].pkt = k => tx[u].sending /\ tx[u].pkt = k
    BY DEF Moves
  <2>3. \A u \in Task : tx[u].sending /\ tx[u].pkt = k => tx'[u].sending /\ tx'[u].pkt = k
    BY <1>3 DEF Moves
  <2> QED BY <2>1, <2>2, <2>3
<1> QED BY <1>1, <1>2, <1>3 DEF Results

\* A frame f of task t completes the packet of an element.
LEMMA ResultStep ==
  ASSUME TypeOK, Senders, Results, NEW t \in Task, tx[t].sending, Moves(t),
         NEW f, FrameSays(t, f), tx'[t].sending <=> f.to < f.length,
         NEW r, delivered' = Append(delivered, r), Result(r)',
         r.packet \notin damaged' => r.packet = f.pkt /\ f.to = f.length,
         f.to = f.length /\ f.pkt \notin damaged' => r.packet = f.pkt
  PROVE  Results'
<1>1. /\ UNCHANGED <<len, origin>> /\ damaged \subseteq damaged' /\ Sent' = Sent
      /\ f.pkt = tx[t].pkt /\ f.pkt \in Sent
      /\ tx'[t].sending \/ f.to = f.length
      /\ f.to = f.length => ~tx'[t].sending
  BY DEF Moves, Sent, FrameSays
<1> DEFINE n == Len(delivered)
<1>2. /\ n \in Nat /\ DOMAIN delivered = 1 .. n /\ DOMAIN delivered' = 1 .. n + 1
      /\ \A j \in 1 .. n : delivered'[j] = delivered[j]
      /\ delivered'[n + 1] = r
  <2>1. \E S : delivered \in Seq(S)
    BY DEF TypeOK
  <2> QED BY <2>1
<1> HIDE DEF n
<1>3. \A j \in DOMAIN delivered' : j # n + 1 => j \in DOMAIN delivered /\ delivered'[j] = delivered[j]
  BY <1>2
<1>4. ASSUME NEW j \in DOMAIN delivered' PROVE Result(delivered[j])'
  <2>1. CASE j = n + 1
    BY <1>2, <2>1
  <2>2. CASE j \in DOMAIN delivered /\ delivered'[j] = delivered[j]
    <3> DEFINE d == delivered[j]
    <3>1. Result(d) /\ d' = d
      BY <2>2 DEF Results
    <3> QED BY <1>1, <2>2, <3>1, ResultKept
  <2> QED BY <1>3, <2>1, <2>2
<1>5. r.packet \notin damaged' => \A j \in DOMAIN delivered : delivered[j].packet # r.packet
  <2> SUFFICES ASSUME r.packet \notin damaged'
               PROVE  \A j \in DOMAIN delivered : delivered[j].packet # r.packet
    OBVIOUS
  <2>1. r.packet \in Sent \ damaged /\ r.packet = tx[t].pkt
    BY <1>1
  <2>2. \A j \in DOMAIN delivered : delivered[j].packet # tx[t].pkt
    BY <2>1 DEF Results
  <2> QED BY <2>1, <2>2
<1>6. ASSUME NEW i \in DOMAIN delivered', NEW j \in DOMAIN delivered',
             delivered'[i].packet = delivered'[j].packet, delivered'[i].packet \notin damaged'
      PROVE  i = j
  <2>1. CASE i = n + 1 /\ j # n + 1
    BY <1>2, <1>3, <1>5, <1>6, <2>1
  <2>2. CASE i # n + 1 /\ j = n + 1
    BY <1>2, <1>3, <1>5, <1>6, <2>2
  <2>3. CASE i # n + 1 /\ j # n + 1
    BY <1>1, <1>3, <1>6, <2>3 DEF Results
  <2> QED BY <2>1, <2>2, <2>3
<1>7. ASSUME NEW k \in Sent \ damaged'
      PROVE  (\E u \in Task : tx'[u].sending /\ tx'[u].pkt = k)
                <=> ~ \E j \in DOMAIN delivered' : delivered'[j].packet = k
  <2>1. (\E u \in Task : tx[u].sending /\ tx[u].pkt = k)
                <=> ~ \E j \in DOMAIN delivered : delivered[j].packet = k
    BY <1>1, <1>7 DEF Results
  <2>2. ASSUME NEW u \in Task, tx'[u].sending, tx'[u].pkt = k,
               NEW j \in DOMAIN delivered', delivered'[j].packet = k
        PROVE  FALSE
    <3>1. tx[u].sending /\ tx[u].pkt = k
      BY <2>2 DEF Moves
    <3>2. j = n + 1 /\ r.packet = k
      BY <1>2, <1>3, <2>1, <2>2, <3>1
    <3>3. k = f.pkt /\ f.to = f.length
      BY <1>7, <3>2
    <3>4. u = t
      BY <1>1, <3>1, <3>3 DEF Senders
    <3> QED BY <1>1, <2>2, <3>3, <3>4
  <2>3. ASSUME ~ \E j \in DOMAIN delivered' : delivered'[j].packet = k
        PROVE  \E u \in Task : tx'[u].sending /\ tx'[u].pkt = k
    <3>1. (\A j \in DOMAIN delivered : delivered[j].packet # k) /\ r.packet # k
      BY <1>2, <2>3
    <3>2. PICK u \in Task : tx[u].sending /\ tx[u].pkt = k
      BY <2>1, <3>1
    <3>3. CASE u = t
      <4>1. tx'[t].sending
        BY <1>1, <1>7, <3>1, <3>2, <3>3
      <4> QED BY <3>2, <3>3, <4>1 DEF Moves
    <3>4. CASE u # t
      BY <3>2, <3>4 DEF Moves
    <3> QED BY <3>3, <3>4
  <2> QED BY <2>2, <2>3
<1> QED BY <1>1, <1>4, <1>6, <1>7 DEF Results

-----------------------------------------------------------------------------
(* A frame that fits is added to an element *)

\* Two packets of one node that have the same identifier are rounds apart.
LEMMA RemainderLemma ==
  ASSUME NEW a \in Nat, NEW b \in Nat, NEW n \in Nat \ {0}, a % n = b % n
  PROVE  (a - b) % n = 0
<1> DEFINE p == a \div n
           q == b \div n
           r == a % n
<1>1. a = n * p + r /\ b = n * q + r /\ p \in Int /\ q \in Int /\ r \in Int
  OBVIOUS
<1>2. a - b = n * (p - q) /\ p - q \in Int
  BY <1>1
<1>3. \A k \in Int : (n * k) % n = 0
  OBVIOUS
<1> QED BY <1>2, <1>3

\* Element e holds, or is about to hold, some of its packet.
Ready(e) ==
    /\ e \in PbufType /\ e.used
    /\ e.packet \in Sent /\ Labelled(e.packet, e.src, e.id)
    /\ e.length = len[e.packet] /\ e.length <= MaxData /\ e.length <= BufferSize
    /\ \A j \in DOMAIN e.data : e.data[j].pkt \in Sent
    /\ \/ e.data = <<>> /\ e.rx_count = 0
       \/ e.data # <<>> /\ Contiguous(e.data, e.packet, e.rx_count)
       \/ Mixed(e.data, e.packet)

Extended(e, f) ==
    [e EXCEPT !.remain = @ - 1, !.rx_count = @ + (f.to - f.from),
              !.data = Append(@, [pkt |-> f.pkt, from |-> f.from, to |-> f.to])]

\* The frame goes on where the element ends, or the mixture is a recorded one.
Continues(e, f) ==
    \/ f.pkt = e.packet /\ f.from = e.rx_count
    \/ f.pkt = e.packet /\ Mixed(e.data, e.packet)
    \/ f.pkt # e.packet /\ {e.packet, f.pkt} \subseteq damaged'

\* The element with the frame added is one in use, or a packet to deliver.
LEMMA ExtensionLemma ==
  ASSUME TypeOK, Senders, NEW t \in Task, tx[t].sending, NEW f, FrameSays(t, f),
         NEW e, Ready(e), Matching(e, f), f.src = e.src, f.id = e.id, Continues(e, f),
         UNCHANGED <<len, origin>>, damaged \subseteq damaged'
  PROVE  LET d == Extended(e, f) IN
         /\ d \in PbufType /\ d.used /\ d.src = e.src /\ d.id = e.id
         /\ d.packet = e.packet /\ d.length = e.length
         /\ d.rx_count = e.rx_count + (f.to - f.from) /\ d.rx_count <= d.length
         /\ d.rx_count # d.length => Holding(d)'
         /\ d.rx_count = d.length => Result([packet |-> d.packet, length |-> d.length,
                                             data |-> d.data])'
<1> DEFINE c == [pkt |-> f.pkt, from |-> f.from, to |-> f.to]
           d == Extended(e, f)
           n == Len(e.data)
<1>1. /\ f.pkt \in Sent /\ f.pkt \in Nat /\ f.from \in Nat /\ f.to \in Nat /\ f.from <= f.to
      /\ f.to <= f.length /\ (f.to < f.length => OnFrame(f.to)) /\ f.length = len[f.pkt]
      /\ f.remain = FramesFor(f.length - f.to)
      /\ f.remain \in 0 .. RemainCount - 1
  BY DEF FrameSays
<1>2. f.remain = e.remain - 1 /\ e.rx_count + (f.to - f.from) <= e.length
  BY DEF Matching
<1>3. c \in Chunk /\ c.pkt = f.pkt /\ c.from = f.from /\ c.to = f.to
  BY <1>1 DEF Chunk
<1> HIDE DEF c
<1>4. /\ e \in PbufType /\ e.data \in Seq(Chunk) /\ n \in Nat /\ DOMAIN e.data = 1 .. n
      /\ e.rx_count \in Nat /\ e.remain \in Nat /\ e.length \in Nat
  <2>1. BufferSize \in Nat /\ RemainCount \in Nat
    BY CanAssumption
  <2> QED BY <2>1 DEF Ready, PbufType
<1>5. e.rx_count + (f.to - f.from) \in 0 .. BufferSize
  <2>1. e.length <= BufferSize /\ BufferSize \in Nat
    BY CanAssumption DEF Ready
  <2> QED BY <1>1, <1>2, <1>4, <2>1
<1>6. /\ d.data = Append(e.data, c) /\ d.rx_count = e.rx_count + (f.to - f.from)
      /\ d.remain = f.remain /\ d.used /\ d.src = e.src /\ d.id = e.id
      /\ d.packet = e.packet /\ d.length = e.length
  BY <1>2, <1>4 DEF Extended, PbufType, Ready, c
<1>7. d \in PbufType
  <2>1. Append(e.data, c) \in Seq(Chunk)
    BY <1>3, <1>4
  <2>2. f.remain \in 0 .. RemainCount
    BY <1>1, CanAssumption
  <2>3. d = [e EXCEPT !.remain = f.remain, !.rx_count = e.rx_count + (f.to - f.from),
                      !.data = Append(e.data, c)]
    BY <1>2, <1>4 DEF Extended, c, PbufType
  <2> QED BY <1>4, <1>5, <2>1, <2>2, <2>3 DEF PbufType
<1>8. /\ DOMAIN d.data = 1 .. n + 1 /\ Len(d.data) = n + 1 /\ d.data[n + 1] = c
      /\ \A j \in 1 .. n : d.data[j] = e.data[j]
  BY <1>3, <1>4, <1>6
<1> DEFINE dd == d.data
<1> HIDE DEF n
<1>9. \A j \in DOMAIN dd : IF j = n + 1 THEN dd[j] = c
                           ELSE j \in DOMAIN e.data /\ dd[j] = e.data[j]
  BY <1>4, <1>8
<1>10. dd # <<>> /\ \A j \in DOMAIN dd : dd[j].pkt \in Sent
  <2>1. dd # <<>>
    BY <1>8, <1>4
  <2>2. \A j \in DOMAIN e.data : e.data[j].pkt \in Sent
    BY DEF Ready
  <2> QED BY <1>1, <1>3, <1>9, <2>1, <2>2
<1> DEFINE Good == \/ /\ Contiguous(dd, e.packet, f.to) /\ f.pkt = e.packet
                      /\ e.rx_count + (f.to - f.from) = f.to
                   \/ Mixed(dd, e.packet)'
<1>11. Good
  <2>0. UNCHANGED <<origin>> /\ RoundsApart(e.packet, f.pkt)' = RoundsApart(e.packet, f.pkt)
    BY DEF RoundsApart
  <2>1. CASE f.pkt # e.packet /\ {e.packet, f.pkt} \subseteq damaged'
    <3>1. RoundsApart(e.packet, f.pkt)
      <4>1. Labelled(e.packet, e.src, e.id) /\ Labelled(f.pkt, f.src, f.id)
        BY DEF Ready, FrameSays, Senders, Sending
      <4>2. e.packet \in DOMAIN origin /\ f.pkt \in DOMAIN origin
        <5>1. e.packet \in Sent /\ f.pkt \in Sent
          BY <1>1 DEF Ready
        <5>2. Sent = 1 .. Len(len) /\ Len(origin) = Len(len) /\ \E S : origin \in Seq(S)
          BY DEF Senders, Sent, TypeOK
        <5> QED BY <5>1, <5>2
      <4>3. origin[e.packet].frame_id \in Nat /\ origin[f.pkt].frame_id \in Nat
        <5> DEFINE O == [src : Source, frame_id : Nat]
        <5>1. origin \in Seq(O)
          BY DEF TypeOK
        <5> HIDE DEF O
        <5>2. \A k \in DOMAIN origin : origin[k] \in O
          BY <5>1
        <5> USE DEF O
        <5> QED BY <4>2, <5>2
      <4>4. IdCount \in Nat \ {0}
        BY CanAssumption
      <4>5. (origin[f.pkt].frame_id - origin[e.packet].frame_id) % IdCount = 0
        BY <4>1, <4>3, <4>4, RemainderLemma DEF Labelled
      <4> QED BY <2>1, <4>1, <4>5 DEF Labelled, RoundsApart
    <3>2. \A j \in DOMAIN e.data : e.data[j].pkt # e.packet =>
             RoundsApart(e.packet, e.data[j].pkt) /\ e.data[j].pkt \in damaged
      BY DEF Ready, Mixed, Contiguous
    <3>3. \A j \in DOMAIN dd : dd[j].pkt # e.packet =>
             RoundsApart(e.packet, dd[j].pkt) /\ {e.packet, dd[j].pkt} \subseteq damaged'
      BY <1>3, <1>9, <2>1, <3>1, <3>2
    <3>4. \E j \in DOMAIN dd : dd[j].pkt # e.packet
      BY <1>3, <1>4, <1>8, <2>1
    <3> QED BY <3>3, <3>4 DEF Mixed, RoundsApart
  <2>2. CASE f.pkt = e.packet /\ Mixed(e.data, e.packet)
    <3>1. \A j \in DOMAIN dd : dd[j].pkt # e.packet =>
             RoundsApart(e.packet, dd[j].pkt) /\ {e.packet, dd[j].pkt} \subseteq damaged'
      BY <1>3, <1>9, <2>2 DEF Mixed
    <3>2. PICK j \in DOMAIN e.data : e.data[j].pkt # e.packet
      BY <2>2 DEF Mixed
    <3>3. j \in DOMAIN dd /\ dd[j] = e.data[j]
      BY <1>4, <1>8, <3>2
    <3> QED BY <3>1, <3>2, <3>3 DEF Mixed, RoundsApart
  <2>3. CASE f.pkt = e.packet /\ f.from = e.rx_count /\ ~Mixed(e.data, e.packet)
    <3>1. e.rx_count + (f.to - f.from) = f.to
      BY <1>1, <1>4, <2>3
    <3>2. CASE e.data = <<>> /\ e.rx_count = 0
      <4>1. n = 0
        BY <3>2 DEF n
      <4>2. \A j \in DOMAIN dd : j = 1 /\ dd[j] = c
        BY <1>8, <4>1
      <4> QED BY <1>3, <1>8, <2>3, <3>1, <3>2, <4>1, <4>2 DEF Contiguous
    <3>3. CASE e.data # <<>> /\ Contiguous(e.data, e.packet, e.rx_count)
      <4>1. n >= 1 /\ n = Len(e.data)
        BY <1>4, <3>3 DEF n
      <4>2. e.data[n].to = e.rx_count
        BY <3>3, <4>1 DEF Contiguous
      <4>3. ASSUME NEW j \in DOMAIN dd
            PROVE  dd[j].pkt = e.packet /\ dd[j].from = IF j = 1 THEN 0 ELSE dd[j - 1].to
        <5>1. CASE j = n + 1
          <6>1. dd[j] = c /\ j # 1 /\ j - 1 = n /\ dd[n] = e.data[n]
            BY <1>4, <1>8, <4>1, <5>1
          <6> QED BY <1>3, <2>3, <4>2, <6>1
        <5>2. CASE j # n + 1
          <6>1. j \in 1 .. n /\ dd[j] = e.data[j] /\ (j # 1 => dd[j - 1] = e.data[j - 1])
            BY <1>4, <1>8, <4>1, <5>2
          <6> QED BY <1>4, <3>3, <6>1 DEF Contiguous
        <5> QED BY <5>1, <5>2
      <4>4. dd[Len(dd)].to = f.to
        BY <1>3, <1>8
      <4> QED BY <2>3, <3>1, <4>3, <4>4 DEF Contiguous
    <3> QED BY <2>3, <3>2, <3>3 DEF Ready
  <2> QED BY <2>1, <2>2, <2>3 DEF Continues
<1>12. d.rx_count <= d.length
  BY <1>2, <1>6
<1> HIDE DEF d
<1>13. /\ e.packet \in Sent' /\ e.length = len'[e.packet]
       /\ Labelled(e.packet, e.src, e.id)' /\ e.length <= MaxData /\ e.length <= BufferSize
       /\ \A j \in DOMAIN dd : dd[j].pkt \in Sent'
  BY <1>10 DEF Ready, Sent, Labelled
<1>14. ASSUME d.rx_count # d.length PROVE Holding(d)'
  <2>1. CASE Mixed(dd, e.packet)'
    BY <1>6, <1>10, <1>13, <2>1 DEF Holding
  <2>2. CASE /\ Contiguous(dd, e.packet, f.to) /\ f.pkt = e.packet
             /\ e.rx_count + (f.to - f.from) = f.to
    <3>1. f.length = e.length /\ d.rx_count = f.to /\ f.to < f.length
      <4>1. f.length = e.length
        BY <1>1, <2>2 DEF Ready
      <4> QED BY <1>1, <1>4, <1>6, <1>12, <1>14, <2>2, <4>1
    <3> QED BY <1>1, <1>6, <1>10, <1>13, <2>2, <3>1 DEF Holding
  <2> QED BY <1>11, <2>1, <2>2
<1>15. ASSUME d.rx_count = d.length
       PROVE  Result([packet |-> d.packet, length |-> d.length, data |-> d.data])'
  BY <1>6, <1>10, <1>11, <1>13, <1>15 DEF Result
<1> QED BY <1>6, <1>7, <1>12, <1>14, <1>15 DEF d

-----------------------------------------------------------------------------
(* The receiver's steps *)

ResultType == [packet : Nat, length : Nat, data : Seq(Chunk)]

\* An element that is freed.
LEMMA FreeLemma == Free \in PbufType /\ ~Free.used
<1>1. Source # {}
  BY CanAssumption DEF Source
<1>2. (CHOOSE n \in Source : TRUE) \in Source
  BY <1>1
<1> DEFINE s == CHOOSE n \in Source : TRUE
<1>3. s \in Source
  BY <1>2
<1>4. Free = [used |-> FALSE, src |-> s, id |-> 0, remain |-> 0,
              packet |-> 0, length |-> 0, rx_count |-> 0, data |-> <<>>]
  BY DEF Free
<1> HIDE DEF s
<1>5. <<>> \in Seq(Chunk) /\ 0 \in 0 .. IdCount - 1 /\ 0 \in 0 .. RemainCount /\ 0 \in 0 .. BufferSize
  BY CanAssumption
<1> DEFINE empty == <<>>
<1>6. empty \in Seq(Chunk) /\ Free = [used |-> FALSE, src |-> s, id |-> 0, remain |-> 0,
              packet |-> 0, length |-> 0, rx_count |-> 0, data |-> empty]
  BY <1>4, <1>5
<1> HIDE DEF empty
<1> QED BY <1>3, <1>5, <1>6 DEF PbufType

\* The number of elements in use, after element i has changed.
LEMMA CountLemma ==
  ASSUME TypeOK, buffers = Cardinality(Used), NEW i \in Pbuf,
         pbuf' \in [Pbuf -> PbufType], \A j \in Pbuf \ {i} : pbuf'[j] = pbuf[j],
         buffers' = (IF pbuf[i].used THEN buffers ELSE buffers + 1)
                        - (IF pbuf'[i].used THEN 0 ELSE 1)
  PROVE  buffers' = Cardinality(Used)' /\ buffers' \in Nat
<1>1. IsFiniteSet(Used) /\ Cardinality(Used) \in Nat
  <2>1. IsFiniteSet(Pbuf)
    <3>1. 1 \in Int /\ PbufElements \in Int
      BY CanAssumption
    <3> QED BY <3>1, FS_Interval DEF Pbuf
  <2>2. Used \subseteq Pbuf
    BY DEF Used
  <2> QED BY <2>1, <2>2, FS_Subset, FS_CardinalityType
<1>4. i \in Used <=> pbuf[i].used
  BY DEF Used
<1>2. CASE pbuf'[i].used
  <2>1. Used' = Used \cup {i}
    BY <1>2 DEF Used
  <2>2. Cardinality(Used \cup {i}) = IF i \in Used THEN Cardinality(Used) ELSE Cardinality(Used) + 1
    BY <1>1, FS_AddElement
  <2> QED BY <1>4, <1>1, <1>2, <2>1, <2>2
<1>3. CASE ~pbuf'[i].used
  <2>1. Used' = Used \ {i}
    BY <1>3 DEF Used
  <2>2. Cardinality(Used \ {i}) = IF i \in Used THEN Cardinality(Used) - 1 ELSE Cardinality(Used)
    BY <1>1, FS_RemoveElement
  <2>3. i \in Used => Cardinality(Used) # 0
    BY <1>1, FS_EmptySet
  <2> QED BY <1>4, <1>1, <1>3, <2>1, <2>2, <2>3
<1> QED BY <1>2, <1>3

\* The types after a frame.
LEMMA TypesStep ==
  ASSUME TypeOK, NEW t \in Task, Moves(t), pbuf' \in [Pbuf -> PbufType],
         buffers' \in Nat, delivered' \in Seq(ResultType)
  PROVE  TypeOK'
  BY DEF TypeOK, Moves, TxType, PbufType, ResultType

\* A frame of a damaged packet is lost or ignored.
LEMMA IgnoredStep ==
  ASSUME IInv, NEW t \in Task, tx[t].sending, Moves(t), tx[t].pkt \in damaged',
         UNCHANGED <<pbuf, buffers, delivered>>
  PROVE  IInv'
<1>1. TypeOK /\ Senders /\ Elements /\ InStep /\ Results /\ buffers = Cardinality(Used)
  BY DEF IInv
<1>2. TypeOK'
  BY <1>1, TypesStep DEF TypeOK, PbufType, ResultType
<1>3. Senders'
  BY <1>1, SendersKept
<1>4. (Elements /\ InStep)'
  BY <1>1, UntouchedStep
<1>5. Results'
  BY <1>1, NoResultStep
<1>6. buffers' = Cardinality(Used)'
  BY <1>1 DEF Used
<1> QED BY <1>2, <1>3, <1>4, <1>5, <1>6 DEF IInv

\* Element i is freed; the packet it held and the one of the frame are damaged.
LEMMA FreedStep ==
  ASSUME IInv, NEW t \in Task, tx[t].sending, NEW f, FrameSays(t, f), Moves(t),
         tx'[t].sending <=> f.to < f.length, tx'[t].sending => tx'[t].count = f.to,
         NEW i \in Pbuf, pbuf' = [pbuf EXCEPT ![i] = Free],
         buffers' = (IF pbuf[i].used THEN buffers ELSE buffers + 1) - 1,
         f.pkt \in damaged', pbuf[i].used => pbuf[i].packet \in damaged',
         UNCHANGED delivered
  PROVE  IInv'
<1>1. TypeOK /\ Senders /\ Elements /\ InStep /\ Results /\ buffers = Cardinality(Used)
  BY DEF IInv
<1>2. pbuf \in [Pbuf -> PbufType] /\ delivered \in Seq(ResultType)
  BY <1>1 DEF TypeOK, PbufType, ResultType
<1>3. /\ pbuf' \in [Pbuf -> PbufType] /\ ~pbuf'[i].used
      /\ \A j \in Pbuf \ {i} : pbuf'[j] = pbuf[j]
  BY <1>2, FreeLemma
<1>4. buffers' = Cardinality(Used)' /\ buffers' \in Nat
  BY <1>1, <1>3, CountLemma
<1>5. TypeOK'
  BY <1>1, <1>2, <1>3, <1>4, TypesStep
<1>6. Senders'
  BY <1>1, SendersKept
<1>7. (Elements /\ InStep)'
  BY <1>1, <1>3, ElementStep
<1>8. Results'
  <2>1. tx[t].pkt \in damaged'
    BY DEF FrameSays
  <2> QED BY <1>1, <2>1, NoResultStep
<1> QED BY <1>4, <1>5, <1>6, <1>7, <1>8 DEF IInv

\* Frame f of task t is put into element i, which becomes e with the frame.
LEMMA FillStep ==
  ASSUME IInv, NEW t \in Task, tx[t].sending, NEW f, FrameSays(t, f), Moves(t),
         tx'[t].sending <=> f.to < f.length, tx'[t].sending => tx'[t].count = f.to,
         NEW i \in Pbuf, NEW e, Ready(e), f.src = e.src, f.id = e.id,
         NEW h, h = IF pbuf[i].used THEN buffers ELSE buffers + 1,
         Fill(i, e, f, h), Matching(e, f) => Continues(e, f),
         e.packet \notin damaged' \/ f.pkt \notin damaged' =>
             f.pkt = e.packet /\ f.from = e.rx_count /\ Matching(e, f),
         \A j \in Pbuf \ {i} : pbuf[j].used => pbuf[j].src # e.src \/ pbuf[j].id # e.id,
         \A j \in Pbuf \ {i} : pbuf[j].used /\ pbuf[j].packet = f.pkt => f.pkt \in damaged',
         pbuf[i].used => pbuf[i].packet \in damaged' \/ pbuf[i].packet = f.pkt
  PROVE  IInv'
<1>1. TypeOK /\ Senders /\ Elements /\ InStep /\ Results /\ buffers = Cardinality(Used)
  BY DEF IInv
<1>2. pbuf \in [Pbuf -> PbufType] /\ delivered \in Seq(ResultType) /\ buffers \in Nat
  BY <1>1 DEF TypeOK, PbufType, ResultType
<1>3. Senders'
  BY <1>1, SendersKept
<1>4. /\ UNCHANGED <<len, origin>> /\ damaged \subseteq damaged'
      /\ f.from \in Nat /\ f.to \in Nat /\ f.pkt = tx[t].pkt
      /\ f.length = len[f.pkt] /\ f.length \in Nat /\ f.to <= f.length
  BY DEF Moves, FrameSays
<1> DEFINE d == Extended(e, f)
<1>5. CASE ~Matching(e, f)
  <2>1. pbuf' = [pbuf EXCEPT ![i] = Free] /\ buffers' = h - 1 /\ UNCHANGED delivered
    BY <1>5 DEF Fill, FreePbuf
  <2>2. e.packet \in damaged' /\ f.pkt \in damaged'
    BY <1>5
  <2>3. pbuf[i].used => pbuf[i].packet \in damaged'
    BY <2>2
  <2> QED BY <2>1, <2>2, <2>3, FreedStep
<1>6. CASE Matching(e, f)
  <2>1. /\ d \in PbufType /\ d.used /\ d.src = e.src /\ d.id = e.id
        /\ d.packet = e.packet /\ d.length = e.length
        /\ d.rx_count = e.rx_count + (f.to - f.from) /\ d.rx_count <= d.length
        /\ d.rx_count # d.length => Holding(d)'
        /\ d.rx_count = d.length => Result([packet |-> d.packet, length |-> d.length,
                                             data |-> d.data])'
    BY <1>1, <1>4, <1>6, ExtensionLemma
  <2>2. /\ e.length = len[e.packet] /\ e.rx_count \in Nat /\ d.length \in Nat /\ d.data \in Seq(Chunk)
        /\ d.packet \in Nat
    BY <2>1, CanAssumption DEF Ready, PbufType
  <2>3. e.packet \notin damaged' \/ f.pkt \notin damaged' =>
            f.pkt = e.packet /\ d.rx_count = f.to /\ d.length = f.length
    BY <1>4, <2>1, <2>2
  <2>4. Fill(i, e, f, h) <=>
            \/ d.rx_count = d.length /\ Deliver(i, d, h)
            \/ /\ d.rx_count # d.length
               /\ pbuf' = [pbuf EXCEPT ![i] = d] /\ buffers' = h
               /\ UNCHANGED delivered
    BY <1>6 DEF Fill, Extended
  <2> HIDE DEF d
  <2>5. CASE d.rx_count = d.length /\ Deliver(i, d, h)
    <3> DEFINE r == [packet |-> d.packet, length |-> d.length, data |-> d.data]
    <3>1. pbuf' = [pbuf EXCEPT ![i] = Free] /\ buffers' = h - 1 /\ delivered' = Append(delivered, r)
      BY <2>5 DEF Deliver, FreePbuf
    <3>2. r \in ResultType /\ r.packet = e.packet /\ Result(r)'
      BY <2>1, <2>2, <2>5 DEF ResultType
    <3> HIDE DEF r
    <3>3. /\ pbuf' \in [Pbuf -> PbufType] /\ ~pbuf'[i].used
          /\ \A j \in Pbuf \ {i} : pbuf'[j] = pbuf[j]
      BY <1>2, <3>1, FreeLemma
    <3>4. buffers' = Cardinality(Used)' /\ buffers' \in Nat
      BY <1>1, <3>1, <3>3, CountLemma
    <3>5. delivered' \in Seq(ResultType)
      BY <1>2, <3>1, <3>2
    <3>6. TypeOK'
      BY <1>1, <3>3, <3>4, <3>5, TypesStep
    <3>7. f.pkt \notin damaged' => f.to = f.length
      BY <2>3, <2>5
    <3>8. (Elements /\ InStep)'
      BY <1>1, <1>4, <3>3, <3>7, ElementStep
    <3>9. r.packet \notin damaged' => r.packet = f.pkt /\ f.to = f.length
      BY <2>3, <2>5, <3>2
    <3>10. f.to = f.length /\ f.pkt \notin damaged' => r.packet = f.pkt
      BY <2>3, <3>2
    <3>11. Results'
      BY <1>1, <3>1, <3>2, <3>9, <3>10, ResultStep
    <3> QED BY <1>3, <3>4, <3>6, <3>8, <3>11 DEF IInv
  <2>6. CASE /\ d.rx_count # d.length
             /\ pbuf' = [pbuf EXCEPT ![i] = d] /\ buffers' = h
             /\ UNCHANGED delivered
    <3>1. /\ pbuf' \in [Pbuf -> PbufType] /\ pbuf'[i] = d
          /\ \A j \in Pbuf \ {i} : pbuf'[j] = pbuf[j]
      BY <1>2, <2>1, <2>6
    <3>2. buffers' = Cardinality(Used)' /\ buffers' \in Nat
      <4>1. buffers' = (IF pbuf[i].used THEN buffers ELSE buffers + 1)
                        - (IF pbuf'[i].used THEN 0 ELSE 1)
        BY <1>2, <2>1, <2>6, <3>1
      <4> QED BY <1>1, <3>1, <4>1, CountLemma
    <3>3. TypeOK'
      BY <1>1, <1>2, <2>6, <3>1, <3>2, TypesStep
    <3>4. pbuf'[i].used /\ Holding(pbuf[i])'
      BY <2>1, <2>6, <3>1
    <3>5. pbuf'[i].src = e.src /\ pbuf'[i].id = e.id /\ pbuf'[i].packet = e.packet
      BY <2>1, <3>1
    <3>6. f.pkt \notin damaged' \/ e.packet \notin damaged' =>
             f.to < f.length /\ pbuf'[i].packet = f.pkt /\ pbuf'[i].rx_count = f.to
      BY <1>4, <2>3, <2>6, <3>1, <3>5
    <3>7. (Elements /\ InStep)'
      BY <1>1, <3>1, <3>4, <3>5, <3>6, ElementStep
    <3>8. Results'
      BY <1>1, <1>4, <2>6, <3>6, NoResultStep
    <3> QED BY <1>3, <3>2, <3>3, <3>7, <3>8 DEF IInv
  <2> QED BY <2>4, <2>5, <2>6
<1> QED BY <1>5, <1>6

\* What every step that receives a frame has in common.
LEMMA ArrivalLemma ==
  ASSUME IInv, NEW t \in Task, NEW f, Arrives(t, f), damaged \subseteq damaged',
         damaged' \subseteq Nat
  PROVE  /\ tx[t].sending /\ FrameSays(t, f) /\ Moves(t) /\ f.pkt = tx[t].pkt
         /\ tx'[t].sending <=> f.to < f.length
         /\ tx'[t].sending => tx'[t].count = f.to
<1>1. TypeOK /\ Senders /\ tx[t].sending /\ f = Frame(t) /\ Advance(t, f)
      /\ UNCHANGED <<frame_id, len, origin>>
  BY DEF IInv, Arrives
<1>2. FrameSays(t, f)
  BY <1>1, FrameLemma
<1>3. /\ Moves(t)
      /\ tx'[t].sending <=> f.to < f.length
      /\ tx'[t].sending => tx'[t].count = f.to
  BY <1>1, <1>2, AdvanceLemma
<1> QED BY <1>1, <1>2, <1>3 DEF FrameSays

\* Element i is the only one with the label of frame f, and a packet is found by its label.
LEMMA FindLemma ==
  ASSUME IInv, NEW t \in Task, tx[t].sending, NEW f, FrameSays(t, f)
  PROVE  /\ \A i \in Pbuf : i \in Find(f) <=>
               pbuf[i].used /\ pbuf[i].src = f.src /\ pbuf[i].id = f.id
         /\ \A i, j \in Find(f) : i = j
         /\ \A j \in Pbuf : pbuf[j].used /\ pbuf[j].packet = f.pkt => j \in Find(f)
         /\ Labelled(f.pkt, f.src, f.id)
<1>1. Labelled(f.pkt, f.src, f.id)
  BY DEF IInv, Senders, Sending, FrameSays
<1>2. \A i \in Pbuf : i \in Find(f) <=> pbuf[i].used /\ pbuf[i].src = f.src /\ pbuf[i].id = f.id
  BY DEF Find
<1>3. \A j \in Pbuf : pbuf[j].used => Labelled(pbuf[j].packet, pbuf[j].src, pbuf[j].id)
  BY DEF IInv, Elements, Holding
<1>4. \A i, j \in Find(f) : i = j
  BY DEF Find, IInv, Elements
<1> QED BY <1>1, <1>2, <1>3, <1>4 DEF Labelled

\* A first frame finds no element with its packet that has gone undamaged.
LEMMA NotBegunLemma ==
  ASSUME IInv, NEW t \in Task, tx[t].sending, ~tx[t].started,
         NEW i \in Pbuf, pbuf[i].used, pbuf[i].packet = tx[t].pkt
  PROVE  tx[t].pkt \in damaged
<1> SUFFICES ASSUME tx[t].pkt \notin damaged PROVE FALSE
  OBVIOUS
<1>1. PICK u \in Task : tx[u].sending /\ tx[u].started /\ tx[u].pkt = pbuf[i].packet
  BY DEF IInv, InStep
<1> QED BY <1>1 DEF IInv, Senders

\* A first frame that fits starts a packet.
LEMMA BeginLemma ==
  ASSUME IInv, NEW t \in Task, NEW f, NEW i \in Pbuf, Arrives(t, f), f.type = Begin,
         i \in Find(f) \cup NewPbuf(f), f.length <= BufferSize,
         Fill(i, Started(f), f, IF pbuf[i].used THEN buffers ELSE buffers + 1),
         Mark(Old(i))
  PROVE  IInv'
<1>1. pbuf[i] \in PbufType /\ damaged \subseteq Nat
  BY DEF IInv, TypeOK, PbufType
<1>2. /\ damaged \subseteq damaged' /\ damaged' \subseteq Nat
      /\ pbuf[i].used => pbuf[i].packet \in damaged'
  BY <1>1 DEF Mark, Old, PbufType
<1>3. /\ tx[t].sending /\ FrameSays(t, f) /\ Moves(t) /\ f.pkt = tx[t].pkt
      /\ tx'[t].sending <=> f.to < f.length
      /\ tx'[t].sending => tx'[t].count = f.to
  BY <1>2, ArrivalLemma
<1>4. /\ f.src \in Source /\ f.id \in 0 .. IdCount - 1 /\ f.pkt \in Sent /\ f.pkt \in Nat
      /\ f.length = len[f.pkt] /\ f.length \in Nat /\ f.length <= MaxData
      /\ f.to \in Nat /\ f.to <= f.length /\ f.from = 0 /\ ~tx[t].started
      /\ f.remain \in 0 .. RemainCount - 1
  BY <1>3 DEF FrameSays
<1> DEFINE e == Started(f)
           h == IF pbuf[i].used THEN buffers ELSE buffers + 1
           empty == <<>>
<1>5. /\ e = [used |-> TRUE, src |-> f.src, id |-> f.id, remain |-> f.remain + 1,
              packet |-> f.pkt, length |-> f.length, rx_count |-> 0, data |-> empty]
      /\ empty \in Seq(Chunk) /\ DOMAIN empty = {}
  BY DEF Started
<1>6. f.remain + 1 \in 0 .. RemainCount /\ 0 \in 0 .. BufferSize
  BY <1>4, CanAssumption
<1> HIDE DEF empty, e
<1>7. /\ e \in PbufType /\ e.used /\ e.src = f.src /\ e.id = f.id /\ e.remain = f.remain + 1
      /\ e.packet = f.pkt /\ e.length = f.length /\ e.rx_count = 0 /\ e.data = empty
  BY <1>4, <1>5, <1>6 DEF PbufType
<1>8. Ready(e)
  <2>1. Labelled(e.packet, e.src, e.id)
    BY <1>3, <1>7, FindLemma
  <2> QED BY <1>4, <1>5, <1>7, <2>1 DEF Ready, empty
<1>9. Matching(e, f) /\ Continues(e, f)
  BY <1>4, <1>7 DEF Matching, Continues
<1>10. \A j \in Pbuf \ {i} : pbuf[j].used => pbuf[j].src # e.src \/ pbuf[j].id # e.id
  <2>1. \A j \in Pbuf : pbuf[j].used /\ pbuf[j].src = e.src /\ pbuf[j].id = e.id => j \in Find(f)
    BY <1>3, <1>7, FindLemma
  <2>2. i \in Find(f) \/ Find(f) = {}
    BY DEF NewPbuf
  <2>3. \A j, k \in Find(f) : j = k
    BY <1>3, FindLemma
  <2> QED BY <2>1, <2>2, <2>3
<1>11. \A j \in Pbuf \ {i} : pbuf[j].used /\ pbuf[j].packet = f.pkt => f.pkt \in damaged'
  BY <1>2, <1>3, <1>4, NotBegunLemma
<1>12. Fill(i, e, f, h)
  BY DEF e
<1> HIDE DEF h
<1>13. h = IF pbuf[i].used THEN buffers ELSE buffers + 1
  BY DEF h
<1> QED
  BY <1>2, <1>3, <1>4, <1>7, <1>8, <1>9, <1>10, <1>11, <1>12, <1>13, FillStep

\* A first frame of a packet that does not fit, or for which there is no packet buffer.
LEMMA RefusedLemma ==
  ASSUME IInv, NEW t \in Task, NEW f, NEW i \in Pbuf, Arrives(t, f),
         pbuf' = [pbuf EXCEPT ![i] = Free],
         buffers' = (IF pbuf[i].used THEN buffers ELSE buffers + 1) - 1,
         Mark(Old(i) \cup {f.pkt}), UNCHANGED delivered
  PROVE  IInv'
<1>1. pbuf[i] \in PbufType /\ damaged \subseteq Nat
  BY DEF IInv, TypeOK, PbufType
<1>2. f.pkt \in Nat
  <2>1. FrameSays(t, f)
    BY FrameLemma DEF Arrives, IInv
  <2> QED BY <2>1 DEF FrameSays
<1>3. /\ damaged \subseteq damaged' /\ damaged' \subseteq Nat /\ f.pkt \in damaged'
      /\ pbuf[i].used => pbuf[i].packet \in damaged'
  BY <1>1, <1>2 DEF Mark, Old, PbufType
<1> QED BY <1>3, ArrivalLemma, FreedStep

\* A later frame of the packet in element i, or of another with its label.
LEMMA MoreLemma ==
  ASSUME IInv, NEW t \in Task, NEW f, NEW i \in Pbuf, RecvMore(t, f, i)
  PROVE  IInv'
<1>1. /\ Arrives(t, f) /\ f.type = More /\ i \in Find(f) /\ damaged' = damaged
      /\ Fill(i, pbuf[i], f, buffers)
  BY DEF RecvMore
<1>2. damaged \subseteq Nat
  BY DEF IInv, TypeOK
<1>3. /\ tx[t].sending /\ FrameSays(t, f) /\ Moves(t) /\ f.pkt = tx[t].pkt
      /\ tx'[t].sending <=> f.to < f.length
      /\ tx'[t].sending => tx'[t].count = f.to
  BY <1>1, <1>2, ArrivalLemma
<1>4. /\ f.pkt \in Sent /\ f.length = len[f.pkt] /\ f.length \in Nat /\ f.to \in Nat
      /\ f.to <= f.length /\ tx[t].started /\ f.from = tx[t].count
      /\ OnFrame(f.from) /\ f.from < f.length /\ f.from <= f.to
      /\ f.remain \in Nat /\ FramesFor(f.length - f.from) = f.remain + 1
      /\ f.src = SrcOf[t] /\ f.id = tx[t].ident
  BY <1>1, <1>3 DEF FrameSays
<1> DEFINE e == pbuf[i]
<1>5. /\ e \in PbufType /\ e.used /\ e.src = f.src /\ e.id = f.id /\ Holding(e)
      /\ e.rx_count \in Nat
  <2>1. e \in PbufType
    BY DEF IInv, TypeOK, PbufType
  <2>2. e.rx_count \in Nat
    BY <2>1, CanAssumption DEF PbufType
  <2>3. e.used => Holding(e)
    BY DEF IInv, Elements
  <2> QED BY <1>1, <2>1, <2>2, <2>3 DEF Find
<1> DEFINE Whole_e == /\ OnFrame(e.rx_count) /\ e.rx_count < e.length
                      /\ e.remain = FramesFor(e.length - e.rx_count)
<1>6. /\ e.packet \in Sent /\ Labelled(e.packet, e.src, e.id) /\ e.length = len[e.packet]
      /\ Whole_e \/ Mixed(e.data, e.packet)
      /\ Ready(e)
  BY <1>5 DEF Holding, Ready
<1>7. Mixed(e.data, e.packet) => e.packet \in damaged
  BY DEF Mixed
<1>8. \A j \in Pbuf : pbuf[j].used /\ pbuf[j].packet = f.pkt => j = i
  BY <1>1, <1>3, FindLemma
<1>9. f.pkt \notin damaged => e.packet = f.pkt /\ f.from = e.rx_count
  <2> SUFFICES ASSUME f.pkt \notin damaged PROVE e.packet = f.pkt /\ f.from = e.rx_count
    OBVIOUS
  <2>1. PICK j \in Pbuf : /\ pbuf[j].used
                          /\ pbuf[j].packet = tx[t].pkt /\ pbuf[j].rx_count = tx[t].count
    BY <1>3, <1>4 DEF IInv, InStep
  <2> QED BY <1>3, <1>4, <1>8, <2>1
<1>10. e.packet \notin damaged => e.packet = f.pkt
  <2> SUFFICES ASSUME e.packet \notin damaged PROVE e.packet = f.pkt
    OBVIOUS
  <2>1. PICK u \in Task : tx[u].sending /\ tx[u].pkt = e.packet
    BY <1>5 DEF IInv, InStep
  <2>2. Labelled(tx[u].pkt, SrcOf[t], tx[t].ident)
    BY <1>4, <1>5, <1>6, <2>1
  <2>3. tx[u].pkt = tx[t].pkt \/ {tx[u].pkt, tx[t].pkt} \subseteq damaged
    BY <1>3, <2>1, <2>2, NamesakeLemma DEF IInv
  <2> QED BY <1>3, <2>1, <2>3
<1>11. e.packet \notin damaged \/ f.pkt \notin damaged =>
          f.pkt = e.packet /\ f.from = e.rx_count /\ Matching(e, f)
  <2> SUFFICES ASSUME f.pkt \notin damaged
               PROVE  f.pkt = e.packet /\ f.from = e.rx_count /\ Matching(e, f)
    BY <1>10
  <2>1. f.pkt = e.packet /\ f.from = e.rx_count /\ e.length = f.length /\ Whole_e
    BY <1>4, <1>6, <1>7, <1>9
  <2> QED BY <1>4, <1>5, <2>1 DEF Matching
<1>12. ASSUME Matching(e, f) PROVE Continues(e, f)
  <2>1. CASE f.pkt # e.packet
    BY <1>1, <1>11, <2>1 DEF Continues
  <2>2. CASE f.pkt = e.packet /\ Mixed(e.data, e.packet)
    BY <2>2 DEF Continues
  <2>3. CASE f.pkt = e.packet /\ Whole_e
    <3> DEFINE m == e.rx_count
               n == f.from
               l == f.length
    <3>1. /\ m \in Nat /\ n \in Nat /\ l \in Nat /\ OnFrame(m) /\ OnFrame(n) /\ m < l /\ n < l
      BY <1>4, <1>5, <1>6, <2>3 DEF OnFrame
    <3>2. e.length = f.length
      BY <1>4, <1>6, <2>3
    <3>3. FramesFor(l - m) = FramesFor(l - n)
      <4>1. e.remain \in Int
        BY <1>5, CanAssumption DEF PbufType
      <4> QED BY <1>4, <1>12, <2>3, <3>2, <4>1 DEF Matching
    <3> HIDE DEF m, n, l
    <3>4. m = n
      BY <3>1, <3>3, SamePlace
    <3> QED BY <2>3, <3>4 DEF Continues, m, n
  <2> QED BY <1>6, <2>1, <2>2, <2>3
<1>13. \A j \in Pbuf \ {i} : pbuf[j].used => pbuf[j].src # e.src \/ pbuf[j].id # e.id
  BY <1>5 DEF IInv, Elements
<1>14. pbuf[i].used => pbuf[i].packet \in damaged' \/ pbuf[i].packet = f.pkt
  BY <1>1, <1>10
<1>15. buffers = IF pbuf[i].used THEN buffers ELSE buffers + 1
  BY <1>5
<1> HIDE DEF e
<1>16. Fill(i, e, f, buffers)
  BY <1>1 DEF e
<1> QED
  BY <1>1, <1>3, <1>5, <1>6, <1>8, <1>11, <1>12, <1>13, <1>14, <1>15, <1>16, FillStep

\* Each way a frame may be received.
LEMMA ReceiveLemma ==
  ASSUME IInv, NEW t \in Task, NEW f, RecvFrame(t, f)
  PROVE  IInv'
<1>1. ASSUME NEW i \in Pbuf, RecvBegin(t, f, i) PROVE IInv'
  <2>1. CASE f.length > BufferSize /\ FreePbuf(i, IF pbuf[i].used THEN buffers ELSE buffers + 1)
             /\ Mark(Old(i) \cup {f.pkt}) /\ UNCHANGED delivered
    BY <1>1, <2>1, RefusedLemma DEF RecvBegin, FreePbuf
  <2>2. CASE /\ f.length <= BufferSize
             /\ Fill(i, Started(f), f, IF pbuf[i].used THEN buffers ELSE buffers + 1)
             /\ Mark(Old(i))
    BY <1>1, <2>2, BeginLemma DEF RecvBegin
  <2> QED BY <1>1, <2>1, <2>2 DEF RecvBegin
<1>2. ASSUME NEW i \in Pbuf, RecvNoBuffer(t, f, i) PROVE IInv'
  <2>1. buffers \in Nat
    BY DEF IInv, TypeOK
  <2>2. buffers' = (IF pbuf[i].used THEN buffers ELSE buffers + 1) - 1
    BY <1>2, <2>1 DEF RecvNoBuffer
  <2> QED BY <1>2, <2>2, RefusedLemma DEF RecvNoBuffer
<1>3. ASSUME NEW i \in Pbuf, RecvMore(t, f, i) PROVE IInv'
  BY <1>3, MoreLemma
<1>4. ASSUME RecvNoElement(t, f) PROVE IInv'
  <2>1. FrameSays(t, f)
    BY <1>4, FrameLemma DEF RecvNoElement, Arrives, IInv
  <2>2. /\ damaged \subseteq damaged' /\ damaged' \subseteq Nat /\ f.pkt \in damaged'
        /\ f.pkt = tx[t].pkt
    BY <1>4, <2>1 DEF RecvNoElement, Mark, IInv, TypeOK, FrameSays
  <2> QED BY <1>4, <2>2, ArrivalLemma, IgnoredStep DEF RecvNoElement
<1>5. ASSUME RecvOutOfOrder(t, f) PROVE IInv'
  <2>1. damaged \subseteq damaged' /\ damaged' \subseteq Nat
    BY <1>5 DEF RecvOutOfOrder, IInv, TypeOK
  <2>2. tx[t].sending /\ FrameSays(t, f) /\ Moves(t) /\ f.pkt = tx[t].pkt
    BY <1>5, <2>1, ArrivalLemma DEF RecvOutOfOrder
  <2>3. tx[t].started
    BY <1>5, <2>2 DEF RecvOutOfOrder, FrameSays
  <2>4. ~ \E i \in Pbuf : pbuf[i].used /\ pbuf[i].packet = tx[t].pkt
    BY <1>5, <2>2, FindLemma DEF RecvOutOfOrder
  <2>5. tx[t].pkt \in damaged
    BY <2>2, <2>3, <2>4 DEF IInv, InStep
  <2> QED BY <1>5, <2>1, <2>2, <2>5, IgnoredStep DEF RecvOutOfOrder
<1> QED BY <1>1, <1>2, <1>3, <1>4, <1>5 DEF RecvFrame

-----------------------------------------------------------------------------
(* The sender's other steps *)

\* A frame is lost, or the driver fails.
LEMMA LossLemma ==
  ASSUME IInv, NEW t \in Task, LoseFrame(t) \/ TxError(t)
  PROVE  IInv'
<1>1. /\ tx[t].sending /\ UNCHANGED <<frame_id, pbuf, buffers, delivered, len, origin>>
      /\ damaged' = damaged \cup {tx[t].pkt}
  BY DEF LoseFrame, TxError, Mark
<1>2. FrameSays(t, Frame(t))
  BY <1>1, FrameLemma DEF IInv
<1>3. /\ damaged \subseteq damaged' /\ damaged' \subseteq Nat /\ tx[t].pkt \in damaged'
  BY <1>1, <1>2 DEF FrameSays, IInv, TypeOK
<1>4. Moves(t)
  <2>1. CASE LoseFrame(t)
    <3> DEFINE f == Frame(t)
    <3>1. FrameSays(t, f) /\ Advance(t, f)
      BY <1>2, <2>1 DEF LoseFrame
    <3> HIDE DEF f
    <3> QED BY <1>1, <1>3, <3>1, AdvanceLemma DEF IInv
  <2>2. CASE TxError(t)
    <3>1. tx \in [Task -> TxType] /\ tx' = [tx EXCEPT ![t] = Idle]
      BY <2>2 DEF TxError, IInv, TypeOK, TxType
    <3>2. Idle \in TxType /\ ~Idle.sending
      BY CanAssumption DEF Idle, TxType
    <3>3. /\ tx' \in [Task -> TxType] /\ ~tx'[t].sending
          /\ \A u \in Task \ {t} : tx'[u] = tx[u]
      BY <3>1, <3>2
    <3> QED BY <1>1, <1>3, <3>3 DEF Moves
  <2> QED BY <2>1, <2>2
<1> QED BY <1>1, <1>3, <1>4, IgnoredStep

\* What is known of packets stays known when packet Len(len) + 1 is added.
LEMMA LongerLemma ==
  ASSUME TypeOK, Len(origin) = Len(len), NEW l \in Nat, NEW o \in [src : Source, frame_id : Nat],
         len' = Append(len, l), origin' = Append(origin, o), damaged \subseteq damaged'
  PROVE  LET k == Len(len) + 1 IN
         /\ len' \in Seq(Nat) /\ origin' \in Seq([src : Source, frame_id : Nat])
         /\ Len(origin') = Len(len') /\ Len(len') = k /\ k \in Nat
         /\ k \notin Sent /\ Sent' = Sent \cup {k} /\ len'[k] = l /\ origin'[k] = o
         /\ \A j \in Sent : len'[j] = len[j] /\ origin'[j] = origin[j]
         /\ \A e : Holding(e) => Holding(e)'
         /\ \A d : Result(d) => Result(d)'
<1> DEFINE k == Len(len) + 1
           O == [src : Source, frame_id : Nat]
<1>1. len \in Seq(Nat) /\ origin \in Seq(O)
  BY DEF TypeOK
<1> HIDE DEF O
<1>2. /\ len' \in Seq(Nat) /\ origin' \in Seq(O) /\ Len(origin') = Len(len') /\ Len(len') = k
      /\ k \in Nat /\ len'[k] = l /\ origin'[k] = o
      /\ \A j \in 1 .. Len(len) : len'[j] = len[j] /\ origin'[j] = origin[j]
  BY <1>1 DEF O
<1>3. k \notin Sent /\ Sent' = Sent \cup {k} /\ Sent \subseteq Sent'
  BY <1>1, <1>2 DEF Sent
<1>4. \A j \in Sent : len'[j] = len[j] /\ origin'[j] = origin[j]
  BY <1>2 DEF Sent
<1>5. \A d, p : p \in Sent /\ (\A j \in DOMAIN d : d[j].pkt \in Sent) /\ Mixed(d, p)
                  => Mixed(d, p)'
  BY <1>4 DEF Mixed, RoundsApart
<1>6. ASSUME NEW e, Holding(e) PROVE Holding(e)'
  <2>1. Mixed(e.data, e.packet) => Mixed(e.data, e.packet)'
    BY <1>5, <1>6 DEF Holding
  <2>2. Labelled(e.packet, e.src, e.id)' /\ e.length = len'[e.packet]
    BY <1>4, <1>6 DEF Holding, Labelled
  <2> QED BY <1>3, <1>6, <2>1, <2>2 DEF Holding
<1>7. ASSUME NEW d, Result(d) PROVE Result(d)'
  <2>1. Mixed(d.data, d.packet) => Mixed(d.data, d.packet)'
    BY <1>5, <1>7 DEF Result
  <2> QED BY <1>3, <1>4, <1>7, <2>1 DEF Result
<1> QED BY <1>2, <1>3, <1>4, <1>6, <1>7 DEF O

\* A task begins to send a packet, or is refused.
LEMMA StartLemma ==
  ASSUME IInv, NEW t \in Task, StartTx(t)
  PROVE  IInv'
<1> DEFINE n == SrcOf[t]
           i == frame_id[n] % IdCount
           k == Len(len) + 1
           o == [src |-> n, frame_id |-> frame_id[n]]
           x == [sending |-> TRUE, pkt |-> k, ident |-> i, count |-> 0, started |-> FALSE]
<1>1. PICK l \in Lengths :
         /\ len' = Append(len, l)
         /\ IF l > MaxData
            THEN Mark({k}) /\ UNCHANGED tx
            ELSE /\ tx' = [tx EXCEPT ![t] = x]
                 /\ IF Namesakes(n, i) = {} THEN UNCHANGED damaged
                    ELSE Mark(Namesakes(n, i) \cup {k})
  BY DEF StartTx
<1>2. /\ ~tx[t].sending /\ frame_id' = [frame_id EXCEPT ![n] = @ + 1]
      /\ origin' = Append(origin, o) /\ UNCHANGED <<pbuf, buffers, delivered>>
  BY DEF StartTx
<1>3. /\ TypeOK /\ Senders /\ Elements /\ InStep /\ Results /\ buffers = Cardinality(Used)
      /\ n \in Source /\ frame_id \in [Source -> Nat] /\ l \in Nat /\ IdCount \in Nat \ {0}
      /\ tx \in [Task -> TxType] /\ len \in Seq(Nat) /\ damaged \subseteq Nat
  BY CanAssumption DEF IInv, TypeOK, TxType, Source
<1>4. /\ i \in 0 .. IdCount - 1 /\ frame_id' \in [Source -> Nat] /\ k \in Nat
      /\ o \in [src : Source, frame_id : Nat] /\ o.src = n /\ o.frame_id % IdCount = i
  <2>1. frame_id[n] \in Nat
    BY <1>3
  <2>2. frame_id[n] % IdCount \in 0 .. IdCount - 1
    BY <1>3, <2>1
  <2> QED BY <1>2, <1>3, <2>1, <2>2
<1>5. x \in TxType /\ x.sending /\ x.pkt = k /\ x.ident = i /\ x.count = 0 /\ ~x.started
  BY <1>4 DEF TxType
<1> HIDE DEF o, x, i
<1>6. \A u \in Task : tx[u].sending => tx[u].pkt \in Sent
  BY <1>3 DEF Senders, Sending
<1>7. /\ damaged \subseteq damaged' /\ damaged' \subseteq Nat
      /\ damaged' \subseteq damaged \cup Sent \cup {k}
  <2>1. Namesakes(n, i) \subseteq Sent /\ Sent \subseteq Nat
    BY <1>6 DEF Namesakes, Sent
  <2> QED BY <1>1, <1>3, <1>4, <2>1 DEF Mark
<1>8. /\ len' \in Seq(Nat) /\ origin' \in Seq([src : Source, frame_id : Nat])
      /\ Len(origin') = Len(len')
      /\ k \notin Sent /\ Sent' = Sent \cup {k} /\ len'[k] = l /\ origin'[k] = o
      /\ \A j \in Sent : len'[j] = len[j] /\ origin'[j] = origin[j]
      /\ \A e : Holding(e) => Holding(e)'
      /\ \A d : Result(d) => Result(d)'
  BY <1>1, <1>2, <1>3, <1>4, <1>7, LongerLemma DEF Senders
<1> HIDE DEF k
<1>9. /\ tx' \in [Task -> TxType] /\ \A u \in Task \ {t} : tx'[u] = tx[u]
      /\ (tx'[t] = tx[t] /\ k \in damaged') \/ (tx'[t] = x /\ l <= MaxData)
  <2>1. CASE l > MaxData
    BY <1>1, <1>3, <2>1 DEF Mark
  <2>2. CASE ~(l > MaxData)
    <3>1. MaxData \in Int
      BY CanAssumption DEF MaxData, FrameBytes, Overhead
    <3>2. tx' = [tx EXCEPT ![t] = x] /\ l <= MaxData
      BY <1>1, <1>3, <2>2, <3>1
    <3> QED BY <1>3, <1>5, <3>2
  <2> QED BY <2>1, <2>2
<1>10. \A u \in Task \ {t} : tx'[t].sending /\ tx[u].sending /\ SrcOf[u] = n /\ tx[u].ident = i
                               => {tx[u].pkt, k} \subseteq damaged'
  <2> SUFFICES ASSUME NEW u \in Task \ {t}, tx'[t].sending, tx[u].sending, SrcOf[u] = n,
                      tx[u].ident = i
               PROVE  {tx[u].pkt, k} \subseteq damaged'
    OBVIOUS
  <2>1. tx[u].pkt \in Namesakes(n, i)
    BY DEF Namesakes
  <2>2. CASE ~(l > MaxData)
    BY <1>1, <2>1, <2>2 DEF Mark
  <2>3. CASE l > MaxData
    BY <1>1, <1>2, <2>3
  <2> QED BY <2>2, <2>3
<1>11. Senders'
  <2>1. ASSUME NEW u \in Task PROVE Sending(u)'
    <3>1. CASE u # t
      <4>1. tx'[u] = tx[u] /\ Sending(u)
        BY <1>3, <1>9, <3>1 DEF Senders
      <4> QED BY <1>8, <4>1 DEF Sending, Labelled
    <3>2. CASE u = t
      <4>1. CASE tx'[t] = tx[t]
        BY <1>2, <3>2, <4>1 DEF Sending
      <4>2. CASE tx'[t] = x /\ l <= MaxData
        BY <1>4, <1>5, <1>8, <3>2, <4>2 DEF Sending, Labelled
      <4> QED BY <1>9, <4>1, <4>2
    <3> QED BY <3>1, <3>2
  <2>2. ASSUME NEW u \in Task, NEW v \in Task, tx'[u].sending, tx'[v].sending, u # v
        PROVE  /\ tx'[u].pkt # tx'[v].pkt
               /\ SrcOf[u] = SrcOf[v] /\ tx'[u].ident = tx'[v].ident => tx'[u].pkt \in damaged'
    <3>1. CASE u # t /\ v # t
      <4>1. tx'[u] = tx[u] /\ tx'[v] = tx[v]
        BY <1>9, <3>1
      <4> QED BY <1>3, <1>7, <2>2, <4>1 DEF Senders
    <3>2. CASE u = t
      <4>1. tx'[t] = x /\ tx'[v] = tx[v]
        BY <1>2, <1>9, <2>2, <3>2
      <4>2. tx[v].sending /\ tx[v].pkt \in Sent
        BY <1>6, <2>2, <4>1
      <4> QED BY <1>5, <1>8, <1>10, <2>2, <3>2, <4>1, <4>2
    <3>3. CASE v = t
      <4>1. tx'[t] = x /\ tx'[u] = tx[u]
        BY <1>2, <1>9, <2>2, <3>3
      <4>2. tx[u].sending /\ tx[u].pkt \in Sent
        BY <1>6, <2>2, <4>1
      <4> QED BY <1>5, <1>8, <1>10, <2>2, <3>3, <4>1, <4>2
    <3> QED BY <3>1, <3>2, <3>3
  <2> QED BY <1>8, <2>1, <2>2 DEF Senders
<1>12. Elements'
  <2>1. ASSUME NEW j \in Pbuf, pbuf'[j].used PROVE Holding(pbuf[j])'
    <3> DEFINE e == pbuf[j]
    <3>1. Holding(e) /\ e' = e
      BY <1>2, <1>3, <2>1 DEF Elements
    <3> HIDE DEF e
    <3>2. Holding(e)'
      BY <1>8, <3>1
    <3> QED BY <3>2 DEF e
  <2> QED BY <1>2, <1>3, <2>1 DEF Elements
<1>13. InStep'
  <2>1. ASSUME NEW j \in Pbuf, pbuf[j].used, pbuf[j].packet \notin damaged'
        PROVE  \E u \in Task : /\ tx'[u].sending /\ tx'[u].started
                               /\ tx'[u].pkt = pbuf[j].packet /\ tx'[u].count = pbuf[j].rx_count
    <3>1. PICK u \in Task : /\ tx[u].sending /\ tx[u].started
                            /\ tx[u].pkt = pbuf[j].packet /\ tx[u].count = pbuf[j].rx_count
      BY <1>3, <1>7, <2>1 DEF InStep
    <3>2. tx'[u] = tx[u]
      BY <1>2, <1>9, <3>1
    <3> QED BY <3>1, <3>2
  <2>2. ASSUME NEW u \in Task, tx'[u].sending, tx'[u].started, tx'[u].pkt \notin damaged'
        PROVE  \E j \in Pbuf : /\ pbuf[j].used
                               /\ pbuf[j].packet = tx'[u].pkt /\ pbuf[j].rx_count = tx'[u].count
    <3>1. tx'[u] = tx[u]
      BY <1>2, <1>5, <1>9, <2>2
    <3> QED BY <1>3, <1>7, <2>2, <3>1 DEF InStep
  <2> QED BY <1>2, <2>1, <2>2 DEF InStep
<1>14. Results'
  <2>1. ASSUME NEW j \in DOMAIN delivered PROVE Result(delivered[j])'
    <3> DEFINE d == delivered[j]
    <3>1. Result(d) /\ d' = d
      BY <1>2, <1>3 DEF Results
    <3> HIDE DEF d
    <3>2. Result(d)'
      BY <1>8, <3>1
    <3> QED BY <3>2 DEF d
  <2>2. ASSUME NEW p \in Sent' \ damaged'
        PROVE  (\E u \in Task : tx'[u].sending /\ tx'[u].pkt = p)
                  <=> ~ \E j \in DOMAIN delivered : delivered[j].packet = p
    <3>1. CASE p = k
      <4>1. tx'[t] = x
        BY <1>9, <2>2, <3>1
      <4>2. \A j \in DOMAIN delivered : delivered[j].packet \in Sent
        BY <1>3 DEF Results, Result
      <4> QED BY <1>5, <1>8, <3>1, <4>1, <4>2
    <3>2. CASE p # k
      <4>1. p \in Sent \ damaged
        BY <1>7, <1>8, <2>2, <3>2
      <4>2. (\E u \in Task : tx[u].sending /\ tx[u].pkt = p)
                  <=> ~ \E j \in DOMAIN delivered : delivered[j].packet = p
        BY <1>3, <4>1 DEF Results
      <4>3. \A u \in Task : (tx'[u].sending /\ tx'[u].pkt = p) <=> (tx[u].sending /\ tx[u].pkt = p)
        BY <1>2, <1>5, <1>9, <3>2
      <4> QED BY <4>2, <4>3
    <3> QED BY <3>1, <3>2
  <2>3. \A a, b \in DOMAIN delivered :
          delivered[a].packet = delivered[b].packet /\ delivered[a].packet \notin damaged' =>
              a = b
    BY <1>3, <1>7 DEF Results
  <2> QED BY <1>2, <2>1, <2>2, <2>3 DEF Results
<1>15. TypeOK'
  BY <1>2, <1>3, <1>4, <1>7, <1>8, <1>9 DEF TypeOK, TxType
<1>16. buffers' = Cardinality(Used)'
  BY <1>2, <1>3 DEF Used
<1> QED BY <1>11, <1>12, <1>13, <1>14, <1>15, <1>16 DEF IInv

-----------------------------------------------------------------------------
(* The invariant *)

\* The initial state.
LEMMA InitLemma == Init => IInv
<1> SUFFICES ASSUME Init PROVE IInv
  OBVIOUS
<1>1. Free \in PbufType /\ ~Free.used
  BY FreeLemma
<1>2. Idle \in TxType /\ ~Idle.sending
  BY CanAssumption DEF Idle, TxType
<1>3. pbuf \in [Pbuf -> PbufType] /\ \A i \in Pbuf : ~pbuf[i].used
  BY <1>1 DEF Init
<1>4. tx \in [Task -> TxType] /\ \A t \in Task : ~tx[t].sending
  BY <1>2 DEF Init
<1>5. TypeOK
  BY <1>3, <1>4 DEF Init, TypeOK, PbufType, TxType
<1>6. buffers = Cardinality(Used)
  <2>1. Used = {}
    BY <1>3 DEF Used
  <2> QED BY <2>1, FS_EmptySet DEF Init
<1>7. Senders /\ Elements /\ InStep
  BY <1>3, <1>4 DEF Init, Senders, Sending, Elements, InStep
<1>8. Results
  <2>1. Sent = {} /\ DOMAIN delivered = {}
    BY DEF Init, Sent
  <2> QED BY <2>1 DEF Results
<1> QED BY <1>5, <1>6, <1>7, <1>8 DEF IInv

\* Every step keeps the invariant.
LEMMA NextLemma == IInv /\ [Next]_vars => IInv'
<1> SUFFICES ASSUME IInv, [Next]_vars PROVE IInv'
  OBVIOUS
<1>1. CASE UNCHANGED vars
  <2>1. UNCHANGED <<TypeOK, Senders, Elements, InStep, Results, Used, buffers>>
    BY <1>1 DEF vars, TypeOK, Senders, Sending, Labelled, Sent, Elements, Holding, Mixed,
                RoundsApart, InStep, Results, Result, Used
  <2> QED BY <2>1 DEF IInv
<1>2. ASSUME NEW t \in Task, StartTx(t) PROVE IInv'
  BY <1>2, StartLemma
<1>3. ASSUME NEW t \in Task, LoseFrame(t) \/ TxError(t) PROVE IInv'
  BY <1>3, LossLemma
<1>4. ASSUME NEW t \in Task, RecvFrame(t, Frame(t)) PROVE IInv'
  <2> DEFINE f == Frame(t)
  <2>1. RecvFrame(t, f)
    BY <1>4
  <2> HIDE DEF f
  <2> QED BY <2>1, ReceiveLemma
<1> QED BY <1>1, <1>2, <1>3, <1>4 DEF Next

\* The elements, the senders and what was delivered agree in every state: what csp_can_rx
\* has of a packet, and what csp_can_tx has still to send of it.
THEOREM Invariant == Spec => []IInv
  BY InitLemma, NextLemma, PTL DEF Spec

\* Each element in use holds one packet buffer and no other one is held, whatever frames
\* are lost: csp_can_pbuf_free never frees what was passed on, nor forgets a packet.
THEOREM OneBufferThm == Spec => []OneBuffer
<1>1. IInv => OneBuffer
  BY DEF IInv, OneBuffer, Used
<1> QED BY <1>1, Invariant, PTL

\* What was delivered is as it was sent, or a recorded mixture.
LEMMA IntactLemma == IInv => Intact
<1> SUFFICES ASSUME IInv, NEW j \in DOMAIN delivered
             PROVE  LET d == delivered[j] IN
                    \/ Whole(d)
                    \/ /\ d.length = len[d.packet]
                       /\ \E i \in DOMAIN d.data : d.data[i].pkt # d.packet
                       /\ \A i \in DOMAIN d.data :
                             d.data[i].pkt # d.packet =>
                                /\ RoundsApart(d.packet, d.data[i].pkt)
                                /\ {d.packet, d.data[i].pkt} \subseteq damaged
  BY DEF Intact
<1>1. Result(delivered[j])
  BY DEF IInv, Results
<1> QED BY <1>1 DEF Result, Contiguous, Mixed, Whole

\* What csp_can_rx passes on is a packet as csp_can_tx was given it; only packets of one
\* node that are whole rounds of identifiers apart, and both damaged, are ever mixed.
THEOREM IntactThm == Spec => []Intact
  BY IntactLemma, Invariant, PTL

\* Every packet that reached the receiver undamaged and is sent was delivered once.
LEMMA CompleteLemma == IInv => Complete
<1> SUFFICES ASSUME IInv, NEW k \in Sent \ damaged,
                    \A t \in Task : tx[t].sending => tx[t].pkt # k
             PROVE  Cardinality({j \in DOMAIN delivered : delivered[j].packet = k}) = 1
  BY DEF Complete
<1>1. PICK j \in DOMAIN delivered : delivered[j].packet = k
  BY DEF IInv, Results
<1>2. \A i \in DOMAIN delivered : delivered[i].packet = k => i = j
  BY <1>1 DEF IInv, Results
<1>3. {i \in DOMAIN delivered : delivered[i].packet = k} = {j}
  BY <1>1, <1>2
<1> QED BY <1>3, FS_Singleton

\* A packet of which nothing was lost or given up is delivered, once, whatever frames of
\* other packets came between its own: the frames that csp_can_rx expects are the frames
\* that csp_can_tx sends, by their number and their length.
THEOREM CompleteThm == Spec => []Complete
  BY CompleteLemma, Invariant, PTL
=============================================================================
