------------------------------ MODULE SfpProofs ------------------------------
(***************************************************************************)
(* Proofs about the small fragmentation protocol, for every sequence of    *)
(* blobs and messages, every mtu and every length of the queue.            *)
(***************************************************************************)
EXTENDS Sfp, TLAPS, FiniteSetTheorems

Packets == [item : DOMAIN Items, frag : BOOLEAN, offset : Nat, total : Nat \ {0}, length : Nat]

\* A packet of a blob says the size of its blob.
Honest(p) == IsBlob(p.item) => p.total = Items[p.item]

\* All pieces of b that are of blobs are of blobs of size n.
OfSize(b, n) == \A k \in DOMAIN b : IsBlob(b[k].item) => Items[b[k].item] = n

\* What is put together is a start of a blob of datasize bytes, and not yet all of it.
Building ==
  IF data = <<>> THEN data_offset = 0
  ELSE /\ Contiguous(data) /\ OfSize(data, datasize)
       /\ data_offset = End(data) /\ data_offset < datasize

\* Of the blob that is being sent something is left, and nothing of anything else was sent.
Sending == IF IsBlob(item) THEN count < Items[item] ELSE count = 0

IInv ==
  /\ TypeOK
  /\ Sending
  /\ \A n \in DOMAIN queue : Honest(queue[n])
  /\ Building
  /\ Balanced
  /\ Placed

-----------------------------------------------------------------------------
\* The types of the constants.
LEMMA ConstantTypes ==
  /\ \A i \in DOMAIN Items : Items[i] \in Nat /\ i \in 1..Len(Items)
  /\ Len(Items) \in Nat /\ DOMAIN Items = 1..Len(Items)
  /\ Mtu \in Nat /\ Mtu > 0 /\ QueueLength \in Nat
  BY SfpAssumption, SMT DEF SfpAssumption

\* A fragment is not empty, fits the mtu and does not pass the end of its blob.
LEMMA FragmentSizes ==
  ASSUME NEW total \in Nat, NEW sent \in Nat, sent < total
  PROVE  /\ FragmentSize(total, sent) \in Nat
         /\ FragmentSize(total, sent) > 0 /\ FragmentSize(total, sent) <= Mtu
         /\ sent + FragmentSize(total, sent) <= total
  BY ConstantTypes, SMT DEF FragmentSize

\* The initial state.
LEMMA InitIInv == Init => IInv
  <1> SUFFICES ASSUME Init PROVE IInv
      OBVIOUS
  <1>1. TypeOK
    <2>1. item \in 1..Len(Items) + 1 /\ Len(queue) <= QueueLength
        BY ConstantTypes DEF Init
    <2>2. /\ queue \in Seq(Packets) /\ data \in Seq(PieceType)
          /\ returned \in Seq(Seq(PieceType))
        BY DEF Init
    <2> QED
        BY <2>1, <2>2 DEF Init, TypeOK, Packets
  <1>2. (\A n \in DOMAIN queue : Honest(queue[n])) /\ Building /\ Balanced /\ Placed
      BY SMT DEF Init, Building, Balanced, Placed
  <1>3. Sending
      BY DEF Init, Sending, IsBlob
  <1> QED
      BY <1>1, <1>2, <1>3 DEF IInv

-----------------------------------------------------------------------------
(* The sender touches the queue only, and only by appending an honest packet. *)

\* Putting a packet into the queue, or losing it, keeps what is said of the queue.
LEMMA TransmitKeeps ==
  ASSUME TypeOK, \A n \in DOMAIN queue : Honest(queue[n]), buffers = Len(queue),
         NEW p \in Packets, Honest(p), item \in DOMAIN Items, Transmit(p)
  PROVE  /\ queue' \in Seq(Packets) /\ Len(queue') <= QueueLength
         /\ \A n \in DOMAIN queue' : Honest(queue'[n])
         /\ buffers' = Len(queue') /\ buffers' \in Nat
         /\ damaged' \subseteq DOMAIN Items
  <1>1. queue \in Seq(Packets) /\ Len(queue) <= QueueLength /\ buffers \in Nat
      BY DEF TypeOK, Packets
  <1>2. CASE Len(queue) < QueueLength /\ queue' = Append(queue, p)
             /\ buffers' = buffers + 1 /\ UNCHANGED damaged
    <2>1. queue' \in Seq(Packets) /\ Len(queue') = Len(queue) + 1
        BY <1>1, <1>2
    <2>2. ASSUME NEW n \in DOMAIN queue' PROVE Honest(queue'[n])
      <3>1. CASE n \in DOMAIN queue
          BY <1>1, <1>2, <3>1, queue'[n] = queue[n]
      <3>2. CASE n = Len(queue) + 1
          BY <1>1, <1>2, <3>2, queue'[n] = p
      <3> QED
          BY <1>1, <2>1, <2>2, <3>1, <3>2, n \in 1..Len(queue) + 1
    <2> QED
        BY <1>1, <1>2, <2>1, <2>2, ConstantTypes DEF TypeOK
  <1>3. CASE damaged' = damaged \cup {item} /\ UNCHANGED <<queue, buffers>>
      BY <1>1, <1>3 DEF TypeOK, Honest, IsBlob
  <1> QED
      BY <1>2, <1>3 DEF Transmit

\* The receiver's state and the blobs returned are as they were.
ReceiverIdle == UNCHANGED <<data, datasize, data_offset, heap, returned>>

\* A step that leaves the receiver alone keeps the invariant.
LEMMA KeptByIdle ==
  ASSUME IInv, ReceiverIdle, Sending', item' \in 1..Len(Items) + 1, count' \in Nat, flags' \in BOOLEAN,
         queue' \in Seq(Packets), Len(queue') <= QueueLength,
         \A n \in DOMAIN queue' : Honest(queue'[n]),
         buffers' = Len(queue'), damaged' \subseteq DOMAIN Items
  PROVE  IInv'
  <1>1. TypeOK'
      BY DEF IInv, TypeOK, ReceiverIdle, Packets, PieceType
  <1>2. (\A n \in DOMAIN queue : Honest(queue[n]))'
      BY DEF Honest, IsBlob
  <1>3. Building'
      BY DEF IInv, Building, ReceiverIdle, Contiguous, OfSize, End, IsBlob
  <1>4. Balanced'
      BY DEF IInv, Balanced, ReceiverIdle
  <1>5. Placed'
      BY DEF IInv, Placed, ReceiverIdle, Contiguous, End, IsBlob
  <1> QED
      BY <1>1, <1>2, <1>3, <1>4, <1>5 DEF IInv

\* csp_sfp_send queues a fragment.
LEMMA SendFragmentKeeps == IInv /\ SendFragment => IInv'
  <1> SUFFICES ASSUME IInv, SendFragment PROVE IInv'
      OBVIOUS
  <1> DEFINE size == FragmentSize(Items[item], count)
             p == [item |-> item, frag |-> TRUE, offset |-> count,
                   total |-> Items[item], length |-> size]
  <1>1. item \in DOMAIN Items /\ Items[item] \in Nat /\ Items[item] > 0 /\ count \in Nat
      BY ConstantTypes DEF SendFragment, IsBlob, IInv, TypeOK
  <1>2. size \in Nat /\ size > 0 /\ count + size <= Items[item]
      BY <1>1, FragmentSizes DEF SendFragment, IInv, Sending
  <1>3. Sending'
      BY <1>1, <1>2, ConstantTypes DEF SendFragment, Sending, IsBlob
  <1>4. p \in Packets /\ Honest(p)
      BY <1>1, <1>2 DEF Packets, Honest
  <1>5. Transmit(p) /\ flags' = TRUE /\ ReceiverIdle
      BY DEF SendFragment, ReceiverIdle
  <1>6. item' \in 1..Len(Items) + 1 /\ count' \in Nat
      BY <1>1, <1>2, ConstantTypes DEF SendFragment, IInv, TypeOK
  <1> HIDE DEF p
  <1>7. /\ queue' \in Seq(Packets) /\ Len(queue') <= QueueLength
        /\ \A n \in DOMAIN queue' : Honest(queue'[n])
        /\ buffers' = Len(queue') /\ damaged' \subseteq DOMAIN Items
      BY <1>1, <1>4, <1>5, TransmitKeeps DEF IInv, Balanced
  <1> QED
      BY <1>3, <1>5, <1>6, <1>7, KeptByIdle

\* csp_sfp_send has no buffer, or csp_send fails.
LEMMA SendFailsKeeps == IInv /\ SendFails => IInv'
  <1> SUFFICES ASSUME IInv, SendFails PROVE IInv'
      OBVIOUS
  <1>1. item \in DOMAIN Items /\ item' = item + 1 /\ count' = 0 /\ ReceiverIdle
      BY DEF SendFails, IsBlob, ReceiverIdle
  <1>2. item' \in 1..Len(Items) + 1 /\ count' \in Nat
      BY <1>1, ConstantTypes
  <1>3. Sending'
      BY <1>1, <1>2, ConstantTypes DEF Sending, IsBlob
  <1>4. flags' \in BOOLEAN
      BY DEF SendFails, IInv, TypeOK
  <1>5. /\ queue' \in Seq(Packets) /\ Len(queue') <= QueueLength
        /\ \A n \in DOMAIN queue' : Honest(queue'[n])
        /\ buffers' = Len(queue') /\ damaged' \subseteq DOMAIN Items
      BY <1>1 DEF SendFails, IInv, TypeOK, Balanced, Packets, Honest, IsBlob
  <1> QED
      BY <1>1, <1>2, <1>4, <1>3, <1>5, KeptByIdle

\* A message without the fragmentation flag is sent.
LEMMA SendMessageKeeps == IInv /\ SendMessage => IInv'
  <1> SUFFICES ASSUME IInv, SendMessage PROVE IInv'
      OBVIOUS
  <1>1. PICK t \in Tails : Transmit([item |-> item, frag |-> flags, offset |-> t.offset,
                                     total |-> t.total, length |-> t.length])
      BY DEF SendMessage
  <1> DEFINE p == [item |-> item, frag |-> flags, offset |-> t.offset,
                   total |-> t.total, length |-> t.length]
  <1>2. item \in DOMAIN Items /\ ~IsBlob(item) /\ flags \in BOOLEAN
      BY ConstantTypes DEF SendMessage, IsMessage, IsBlob, IInv, TypeOK
  <1>3. p \in Packets /\ Honest(p)
      BY <1>2, SfpAssumption DEF SfpAssumption, Packets, Honest
  <1>4. item' \in 1..Len(Items) + 1 /\ count' \in Nat /\ flags' \in BOOLEAN /\ ReceiverIdle
      BY <1>2, ConstantTypes DEF SendMessage, IInv, TypeOK, ReceiverIdle
  <1>5. Sending'
      BY <1>2, <1>4, ConstantTypes DEF SendMessage, IInv, Sending, IsBlob
  <1>6. Transmit(p)
      BY <1>1
  <1> HIDE DEF p
  <1>7. /\ queue' \in Seq(Packets) /\ Len(queue') <= QueueLength
        /\ \A n \in DOMAIN queue' : Honest(queue'[n])
        /\ buffers' = Len(queue') /\ damaged' \subseteq DOMAIN Items
      BY <1>2, <1>3, <1>6, TransmitKeeps DEF IInv, Balanced
  <1> QED
      BY <1>4, <1>5, <1>7, KeptByIdle

-----------------------------------------------------------------------------
(* The receiver takes the first packet of the queue; nothing is returned but by Store. *)

\* What is said of the sender and of the queue stays when the first packet is taken.
TakesFirst == queue' = Tail(queue) /\ buffers' = buffers - 1 /\ UNCHANGED <<item, count, flags>>

\* What holds of the sender and the queue after the first packet is taken.
LEMMA TakeKeeps ==
  ASSUME IInv, queue # <<>>, TakesFirst
  PROVE  /\ First \in Packets /\ Honest(First)
         /\ queue' \in Seq(Packets) /\ Len(queue') <= QueueLength
         /\ \A n \in DOMAIN queue' : Honest(queue'[n])
         /\ buffers' = Len(queue') /\ buffers' \in Nat
         /\ Sending'
  <1>1. queue \in Seq(Packets) /\ Len(queue) <= QueueLength /\ buffers = Len(queue)
      BY DEF IInv, TypeOK, Packets, Balanced
  <1>2. First = queue[1] /\ 1 \in DOMAIN queue /\ First \in Packets
      BY <1>1 DEF First
  <1>3. Honest(First)
      BY <1>2 DEF IInv
  <1>4. queue' \in Seq(Packets) /\ Len(queue') = Len(queue) - 1
      BY <1>1 DEF TakesFirst
  <1>5. ASSUME NEW n \in DOMAIN queue' PROVE Honest(queue'[n])
    <2>1. n + 1 \in DOMAIN queue /\ queue'[n] = queue[n + 1]
        BY <1>1, <1>4, <1>5 DEF TakesFirst
    <2> QED
        BY <2>1 DEF IInv
  <1>6. Sending'
      BY DEF IInv, Sending, TakesFirst, IsBlob
  <1>7. Len(queue') <= QueueLength /\ buffers' = Len(queue') /\ buffers' \in Nat
      BY <1>1, <1>4, ConstantTypes DEF TakesFirst
  <1>8. \A n \in DOMAIN queue' : Honest(queue'[n])
      BY <1>5
  <1> QED
      BY <1>2, <1>3, <1>4, <1>6, <1>7, <1>8

\* What is put together is given up.
GivesUp ==
  /\ data' = <<>> /\ datasize' = 0 /\ data_offset' = 0
  /\ heap' = IF data = <<>> THEN heap ELSE heap - 1

\* A call of csp_sfp_recv that fails, with or without a packet in its hands.
LEMMA FailedCallKeeps ==
  ASSUME IInv, GivesUp, Sending', UNCHANGED <<item, count, flags, returned>>,
         queue' \in Seq(Packets), Len(queue') <= QueueLength,
         \A n \in DOMAIN queue' : Honest(queue'[n]),
         buffers' = Len(queue'), buffers' \in Nat, damaged' \subseteq DOMAIN Items
  PROVE  IInv'
  <1>1. heap' = 0
      BY DEF IInv, Balanced, GivesUp
  <1>2. TypeOK'
    <2>1. data' \in Seq(PieceType)
        BY DEF GivesUp
    <2> QED
        BY <1>1, <2>1 DEF IInv, TypeOK, GivesUp, Packets, PieceType
  <1>3. (\A n \in DOMAIN queue : Honest(queue[n]))'
      BY DEF Honest, IsBlob
  <1>4. Building' /\ Balanced'
      BY <1>1 DEF Building, Balanced, GivesUp
  <1>5. Placed'
      BY DEF IInv, Placed, Contiguous, End, IsBlob
  <1> QED
      BY <1>2, <1>3, <1>4, <1>5 DEF IInv

\* csp_sfp_recv_fp gives up a blob and frees the packet.
LEMMA AbandonKeeps ==
  ASSUME IInv, queue # <<>>, Abandon, damaged' \subseteq DOMAIN Items
  PROVE  IInv'
  <1>1. TakesFirst /\ GivesUp /\ UNCHANGED <<item, count, flags, returned>>
      BY DEF Abandon, TakesFirst, GivesUp
  <1>2. /\ queue' \in Seq(Packets) /\ Len(queue') <= QueueLength
        /\ \A n \in DOMAIN queue' : Honest(queue'[n])
        /\ buffers' = Len(queue') /\ buffers' \in Nat /\ Sending'
      BY <1>1, TakeKeeps
  <1> QED
      BY <1>1, <1>2, FailedCallKeeps

\* The checks of csp_sfp_recv_fp at which it gives up.
LEMMA RejectsKeep ==
  IInv /\ (RejectHeader \/ RejectOffset \/ NoMemory \/ RejectSize \/ RejectEmpty) => IInv'
  <1> SUFFICES ASSUME IInv, RejectHeader \/ RejectOffset \/ NoMemory \/ RejectSize \/ RejectEmpty
               PROVE  IInv'
      OBVIOUS
  <1>1. queue # <<>> /\ Abandon
      BY DEF RejectHeader, RejectOffset, NoMemory, RejectSize, RejectEmpty
  <1>2. First.item \in DOMAIN Items
    <2>1. queue \in Seq(Packets)
        BY DEF IInv, TypeOK, Packets
    <2>2. First \in Packets
        BY <1>1, <2>1 DEF First
    <2> QED
        BY <2>2 DEF Packets
  <1>3. damaged' \subseteq DOMAIN Items
    <2>1. damaged' \in {damaged, damaged \cup {First.item}}
        BY DEF RejectHeader, RejectOffset, NoMemory, RejectSize, RejectEmpty
    <2> QED
        BY <1>2, <2>1 DEF IInv, TypeOK
  <1> QED
      BY <1>1, <1>3, AbandonKeeps

\* csp_read times out in csp_sfp_recv_fp.
LEMMA TimeoutKeeps == IInv /\ Timeout => IInv'
  <1> SUFFICES ASSUME IInv, Timeout PROVE IInv'
      OBVIOUS
  <1>1. GivesUp /\ UNCHANGED <<item, count, flags, queue, buffers, returned>>
      BY DEF Timeout, GivesUp
  <1>2. damaged' \subseteq DOMAIN Items
    <2>1. data \in Seq(PieceType) /\ damaged \subseteq DOMAIN Items
        BY DEF IInv, TypeOK
    <2>2. ASSUME NEW i \in DOMAIN data PROVE data[i].item \in DOMAIN Items
      <3>1. data[i] \in PieceType
          BY <2>1
      <3> QED
          BY <3>1 DEF PieceType
    <2> DEFINE items == {data[i].item : i \in DOMAIN data}
    <2>3. items \subseteq DOMAIN Items
        BY <2>2
    <2>4. damaged' = damaged \cup items
        BY DEF Timeout
    <2> QED
        BY <2>1, <2>3, <2>4
  <1>3. /\ queue' \in Seq(Packets) /\ Len(queue') <= QueueLength
        /\ \A n \in DOMAIN queue' : Honest(queue'[n])
        /\ buffers' = Len(queue') /\ buffers' \in Nat
      BY <1>1 DEF IInv, TypeOK, Balanced, Packets
  <1>4. Sending'
      BY <1>1 DEF IInv, Sending, IsBlob
  <1> QED
      BY <1>1, <1>2, <1>3, <1>4, FailedCallKeeps

-----------------------------------------------------------------------------
(* Store *)

\* With one more fragment, what is put together still has no gap and is of one size.
LEMMA OnePieceMore ==
  ASSUME IInv, queue # <<>>, First \in Packets, Honest(First), Expected(First), Fits(First),
         NEW pieces, pieces = Append(data, Piece(First))
  PROVE  /\ pieces \in Seq(PieceType) /\ pieces # <<>>
         /\ Contiguous(pieces) /\ OfSize(pieces, Size(First))
         /\ End(pieces) = data_offset + First.length
         /\ Size(First) \in Nat
  <1>1. /\ First.item \in DOMAIN Items /\ First.offset \in Nat
        /\ First.total \in Nat /\ First.length \in Nat
      BY DEF Packets
  <1>2. Piece(First) \in PieceType /\ Piece(First).item = First.item
        /\ Piece(First).offset = data_offset /\ Piece(First).length = First.length
      BY <1>1 DEF Piece, PieceType, Expected
  <1>3. data \in Seq(PieceType) /\ datasize \in Nat /\ data_offset \in Nat
      BY DEF IInv, TypeOK
  <1>4. /\ pieces \in Seq(PieceType) /\ Len(pieces) = Len(data) + 1 /\ pieces # <<>>
        /\ pieces[Len(data) + 1] = Piece(First)
        /\ \A k \in 1..Len(data) : pieces[k] = data[k]
      BY <1>2, <1>3
  <1>5. Size(First) \in Nat /\ (IsBlob(First.item) => Items[First.item] = Size(First))
      BY <1>1, <1>3 DEF Size, Fits, Honest
  <1>6. Len(data) \in Nat
      BY <1>3
  <1>7. End(pieces) = data_offset + First.length
      BY <1>2, <1>4, <1>6 DEF End
  <1>8. Contiguous(pieces)
    <2>1. CASE data = <<>>
      <3>1. Len(pieces) = 1 /\ pieces[1] = Piece(First) /\ data_offset = 0
          BY <1>4, <2>1 DEF IInv, Building
      <3> QED
          BY <1>2, <1>4, <3>1 DEF Contiguous
    <2>2. CASE data # <<>>
      <3>1. Contiguous(data) /\ data_offset = End(data) /\ Len(data) > 0
          BY <1>3, <2>2 DEF IInv, Building
      <3>2. pieces[1].offset = 0
          BY <1>4, <1>6, <3>1 DEF Contiguous
      <3>3. ASSUME NEW k \in 1..Len(pieces) - 1
            PROVE  pieces[k + 1].offset = pieces[k].offset + pieces[k].length
        <4>1. CASE k < Len(data)
          <5>1. k \in 1..Len(data) - 1 /\ pieces[k] = data[k] /\ pieces[k + 1] = data[k + 1]
              BY <1>4, <1>6, <3>3, <4>1
          <5> QED
              BY <3>1, <5>1 DEF Contiguous
        <4>2. CASE k = Len(data)
            BY <1>2, <1>4, <1>6, <3>1, <4>2 DEF End
        <4> QED
            BY <1>4, <1>6, <3>3, <4>1, <4>2
      <3> QED
          BY <1>4, <3>2, <3>3 DEF Contiguous
    <2> QED
        BY <2>1, <2>2
  <1>9. OfSize(pieces, Size(First))
    <2>1. ASSUME NEW k \in DOMAIN pieces, IsBlob(pieces[k].item)
          PROVE  Items[pieces[k].item] = Size(First)
      <3>1. CASE k \in 1..Len(data)
        <4>1. data # <<>> /\ pieces[k] = data[k] /\ k \in DOMAIN data
            BY <1>3, <1>4, <3>1
        <4>2. OfSize(data, datasize) /\ Size(First) = datasize
            BY <4>1 DEF IInv, Building, Size
        <4> QED
            BY <2>1, <4>1, <4>2 DEF OfSize
      <3>2. CASE k = Len(data) + 1
          BY <1>2, <1>4, <1>5, <2>1, <3>2
      <3>3. k \in 1..Len(data) + 1
          BY <1>4, <1>6
      <3> QED
          BY <1>6, <3>1, <3>2, <3>3
    <2> QED
        BY <2>1 DEF OfSize
  <1> QED
      BY <1>4, <1>5, <1>7, <1>8, <1>9

\* A fragment is copied into the blob.
LEMMA StoreKeeps == IInv /\ Store => IInv'
  <1> SUFFICES ASSUME IInv, Store PROVE IInv'
      OBVIOUS
  <1> DEFINE pieces == Append(data, Piece(First))
             end == data_offset + First.length
  <1>1. /\ queue # <<>> /\ TakesFirst /\ UNCHANGED <<item, count, flags, damaged>>
        /\ Expected(First) /\ Fits(First)
      BY DEF Store, TakesFirst, Accepts
  <1>2. /\ First \in Packets /\ Honest(First)
        /\ queue' \in Seq(Packets) /\ Len(queue') <= QueueLength
        /\ \A n \in DOMAIN queue' : Honest(queue'[n])
        /\ buffers' = Len(queue') /\ buffers' \in Nat /\ Sending'
      BY <1>1, TakeKeeps
  <1>3. /\ pieces \in Seq(PieceType) /\ pieces # <<>>
        /\ Contiguous(pieces) /\ OfSize(pieces, Size(First))
        /\ End(pieces) = end /\ Size(First) \in Nat
      BY <1>1, <1>2, OnePieceMore
  <1>4. end <= Size(First) /\ end \in Nat
      BY <1>1, <1>2 DEF Fits, Packets, IInv, TypeOK
  <1>5. heap = IF data = <<>> THEN 0 ELSE 1
      BY DEF IInv, Balanced
  <1>6. (\A n \in DOMAIN queue : Honest(queue[n]))'
      BY <1>2 DEF Honest, IsBlob
  <1>7. returned \in Seq(Seq(PieceType))
      BY DEF IInv, TypeOK
  <1>8. CASE /\ end >= Size(First) /\ returned' = Append(returned, pieces)
             /\ data' = <<>> /\ datasize' = 0 /\ data_offset' = 0
             /\ heap' = IF data = <<>> THEN heap ELSE heap - 1
    <2> HIDE DEF pieces, end
    <2>1. heap' = 0 /\ data' \in Seq(PieceType)
        BY <1>5, <1>8
    <2>2. returned' \in Seq(Seq(PieceType))
        BY <1>3, <1>7, <1>8
    <2>3. TypeOK'
        BY <1>1, <1>2, <1>8, <2>1, <2>2 DEF IInv, TypeOK, Packets, PieceType
    <2>4. Building' /\ Balanced'
        BY <1>2, <1>8, <2>1 DEF Building, Balanced
    <2>5. ASSUME NEW n \in DOMAIN returned'
          PROVE  /\ Contiguous(returned'[n])
                 /\ \A k \in DOMAIN returned'[n] :
                      IsBlob(returned'[n][k].item) =>
                        Items[returned'[n][k].item] = End(returned'[n])
      <3>1. CASE n \in DOMAIN returned /\ returned'[n] = returned[n]
          BY <3>1 DEF IInv, Placed
      <3>2. CASE returned'[n] = pieces
          BY <1>3, <1>4, <1>8, <3>2 DEF OfSize
      <3> QED
          BY <1>7, <1>8, <3>1, <3>2
    <2>6. Placed'
        BY <2>5 DEF Placed, Contiguous, End, IsBlob
    <2> QED
        BY <1>2, <1>6, <2>3, <2>4, <2>6 DEF IInv
  <1>9. CASE /\ end < Size(First) /\ UNCHANGED returned
             /\ data' = pieces /\ datasize' = Size(First) /\ data_offset' = end
             /\ heap' = IF data = <<>> THEN heap + 1 ELSE heap
    <2> HIDE DEF pieces, end
    <2>1. heap' = 1
        BY <1>5, <1>9
    <2>2. TypeOK'
        BY <1>1, <1>2, <1>3, <1>4, <1>9, <2>1 DEF IInv, TypeOK, Packets, PieceType
    <2>3. Building'
        BY <1>3, <1>9 DEF Building, Contiguous, OfSize, End, IsBlob
    <2>4. Balanced'
        BY <1>2, <1>3, <1>9, <2>1 DEF Balanced
    <2>5. Placed'
        BY <1>9 DEF IInv, Placed, Contiguous, End, IsBlob
    <2> QED
        BY <1>2, <1>6, <2>2, <2>3, <2>4, <2>5 DEF IInv
  <1> QED
      BY <1>8, <1>9 DEF Store

-----------------------------------------------------------------------------
\* Every step keeps the invariant.
LEMMA StepIInv == IInv /\ [Next]_vars => IInv'
  <1> SUFFICES ASSUME IInv, [Next]_vars PROVE IInv'
      OBVIOUS
  <1>1. CASE SendFragment \/ SendFails \/ SendMessage
      BY <1>1, SendFragmentKeeps, SendFailsKeeps, SendMessageKeeps
  <1>2. CASE Recv
      BY <1>2, RejectsKeep, StoreKeeps, TimeoutKeeps DEF Recv
  <1>3. CASE UNCHANGED vars
    <2>1. TypeOK' /\ Building' /\ Balanced'
        BY <1>3 DEF vars, IInv, TypeOK, PieceType, Building, Balanced, Contiguous, OfSize,
                    End, IsBlob
    <2>2. (\A n \in DOMAIN queue : Honest(queue[n]))' /\ Sending'
        BY <1>3 DEF vars, IInv, Honest, Sending, IsBlob
    <2>3. Placed'
        BY <1>3 DEF vars, IInv, Placed, Contiguous, End, IsBlob
    <2> QED
        BY <2>1, <2>2, <2>3 DEF IInv
  <1> QED
      BY <1>1, <1>2, <1>3 DEF Next

\* The invariant holds in every state.
LEMMA InvariantThm == Spec => []IInv
  BY InitIInv, StepIInv, PTL DEF Spec

\* Every variable keeps its type, for whatever is sent over whatever connection.
THEOREM TypeCorrect == Spec => []TypeOK
  <1>1. IInv => TypeOK
      BY DEF IInv
  <1> QED
      BY <1>1, InvariantThm, PTL

\* csp_sfp_recv never returns a blob with a gap, a byte twice or a byte in the wrong place,
\* nor one of another size than the blobs its parts were sent in: whatever is lost, and
\* whatever the sizes, the mtu and the ordinary messages in between.
THEOREM PlacedThm == Spec => []Placed
  <1>1. IInv => Placed
      BY DEF IInv
  <1> QED
      BY <1>1, InvariantThm, PTL

\* No exit of csp_sfp_recv keeps a packet buffer or the memory for the blob, or frees one
\* twice.
THEOREM BalancedThm == Spec => []Balanced
  <1>1. IInv => Balanced
      BY DEF IInv
  <1> QED
      BY <1>1, InvariantThm, PTL

-----------------------------------------------------------------------------
(***************************************************************************)
(* What follows what on the way: what was put together last, the packets   *)
(* of the queue, and what is sent next.                                    *)
(***************************************************************************)
\* The item and the place there that packet n of the queue starts from, or that the sender
\* goes on from.
At(n) ==
  IF n <= Len(queue) THEN [item |-> queue[n].item, from |-> queue[n].offset]
  ELSE [item |-> item, from |-> count]

\* After what ends at byte `to' of item i comes what starts at y: nothing undamaged is left
\* out between them, and of an undamaged blob not a byte.
Precedes(i, to, y, dam) ==
  /\ i < y.item \/ (i = y.item /\ IsBlob(i) /\ to <= y.from)
  /\ IsBlob(i) /\ i \notin dam /\ to < Items[i] => y.item = i /\ y.from = to
  /\ IsBlob(y.item) /\ y.item \notin dam /\ y.from > 0 => y.item = i
  /\ \A j \in DOMAIN Items : i < j /\ j < y.item => j \in dam

\* A packet as it is sent.
Sound(p) ==
  /\ IsBlob(p.item) => /\ p.frag /\ p.total = Items[p.item]
                       /\ p.length > 0 /\ p.offset + p.length <= Items[p.item]
  /\ p.frag => IsBlob(p.item) \/ Lookalike(p.item)

Queued ==
  \A n \in DOMAIN queue :
    /\ Sound(queue[n])
    /\ Precedes(queue[n].item, queue[n].offset + queue[n].length, At(n + 1), damaged)

Begun == data # <<>> => data_offset > 0 /\ Precedes(Last(data).item, data_offset, At(1), damaged)

Flagged == flags => \E j \in 1..item : IsBlob(j)

MayMix(i, dam) == Lookalike(i) \/ i \in dam

\* The pieces of one buffer.
OneBlob(b, dam) ==
  \A k \in DOMAIN b :
    /\ IsBlob(b[k].item) \/ Lookalike(b[k].item)
    /\ b[1].item <= b[k].item /\ b[k].item <= b[Len(b)].item
    /\ k < Len(b) => /\ b[k].item <= b[k + 1].item
                     /\ b[k].item # b[k + 1].item =>
                          MayMix(b[k].item, dam) /\ MayMix(b[k + 1].item, dam)

\* Nothing returned will come again.
Past ==
  /\ \A n \in DOMAIN returned : /\ OneBlob(returned[n], damaged)
                                /\ Last(returned[n]).item < At(1).item
                                /\ data # <<>> => Last(returned[n]).item < Head(data).item
  /\ \A m, n \in DOMAIN returned : m < n => Last(returned[m]).item < Head(returned[n]).item

\* Undamaged, and after an undamaged item.
Safe(i) == IsBlob(i) /\ i \notin damaged /\ i - 1 \notin damaged /\ ~Lookalike(i - 1)

\* A safe blob is still to be sent, or its start is in the queue, or it is being put
\* together, or was returned.
Comes(i) ==
  \/ i > item \/ (i = item /\ count = 0)
  \/ \E n \in DOMAIN queue : queue[n].item = i /\ queue[n].offset = 0
  \/ data # <<>> /\ Last(data).item = i
  \/ \E n \in DOMAIN returned : \E k \in DOMAIN returned[n] : returned[n][k].item = i

Flow ==
  /\ Flagged /\ Queued /\ Begun /\ Past
  /\ OneBlob(data, damaged)
  /\ \A i \in DOMAIN Items : Safe(i) => Comes(i)

-----------------------------------------------------------------------------
(* Facts about what follows what *)

Spot == [item : 1..Len(Items) + 1, from : Nat]

\* The members of packets and spots.
LEMMA SpotTypes ==
  ASSUME TypeOK
  PROVE  /\ \A n \in 1..Len(queue) + 1 : At(n) \in Spot
         /\ \A n \in DOMAIN queue : /\ queue[n].item \in DOMAIN Items
                                    /\ queue[n].offset \in Nat /\ queue[n].length \in Nat
                                    /\ queue[n].offset + queue[n].length \in Nat
         /\ Len(queue) \in Nat /\ DOMAIN queue = 1..Len(queue)
  <1>1. queue \in Seq(Packets) /\ item \in 1..Len(Items) + 1 /\ count \in Nat
      BY DEF TypeOK, Packets
  <1>2. Len(queue) \in Nat /\ DOMAIN queue = 1..Len(queue)
      BY <1>1
  <1>3. ASSUME NEW n \in DOMAIN queue
        PROVE  /\ queue[n].item \in DOMAIN Items
               /\ queue[n].offset \in Nat /\ queue[n].length \in Nat
    <2>1. queue[n] \in Packets
        BY <1>1, <1>3
    <2> QED
        BY <2>1 DEF Packets
  <1>4. ASSUME NEW n \in 1..Len(queue) + 1 PROVE At(n) \in Spot
    <2>1. CASE n <= Len(queue)
      <3>1. n \in DOMAIN queue
          BY <1>2, <2>1
      <3>2. queue[n].item \in 1..Len(Items) + 1 /\ queue[n].offset \in Nat
          BY <1>3, <3>1, ConstantTypes
      <3> QED
          BY <2>1, <3>2 DEF At, Spot
    <2>2. CASE ~(n <= Len(queue))
        BY <1>1, <2>2 DEF At, Spot
    <2> QED
        BY <2>1, <2>2
  <1>5. \A n \in DOMAIN queue : queue[n].offset + queue[n].length \in Nat
      BY <1>3
  <1> QED
      BY <1>2, <1>3, <1>4, <1>5

\* More damage excuses more.
LEMMA GrowDamage ==
  ASSUME NEW dam, NEW more, dam \subseteq more
  PROVE  /\ \A i, to, y : Precedes(i, to, y, dam) => Precedes(i, to, y, more)
         /\ \A b : OneBlob(b, dam) => OneBlob(b, more)
  <1>1. \A i, to, y : Precedes(i, to, y, dam) => Precedes(i, to, y, more)
      BY DEF Precedes
  <1>2. \A b : OneBlob(b, dam) => OneBlob(b, more)
      BY DEF OneBlob, MayMix
  <1> QED
      BY <1>1, <1>2

\* A packet that was put into the queue stands where the sender stood.
LEMMA SameSpot ==
  ASSUME NEW i, NEW to, NEW y \in Spot, NEW z \in Spot, NEW dam, Precedes(i, to, y, dam),
         z.item = y.item, IsBlob(y.item) => z.from = y.from
  PROVE  Precedes(i, to, z, dam)
  BY DEF Precedes

\* The sender has gone on within an item that is damaged, or to the next one.
LEMMA SpotMoves ==
  ASSUME NEW i \in DOMAIN Items, NEW to \in Nat, NEW y \in Spot, NEW z \in Spot, NEW dam,
         y.item \in DOMAIN Items, Precedes(i, to, y, dam),
         \/ z.item = y.item /\ z.from >= y.from
         \/ z.item = y.item + 1 /\ z.from = 0
  PROVE  Precedes(i, to, z, dam \cup {y.item})
  <1>1. i \in Int /\ y.item \in Int /\ y.from \in Nat /\ z.from \in Nat /\ z.item \in Int
      BY ConstantTypes DEF Spot
  <1>2. i < z.item \/ (i = z.item /\ IsBlob(i) /\ to <= z.from)
      BY <1>1 DEF Precedes
  <1>3. \A j \in DOMAIN Items : i < j /\ j < z.item => j \in dam \cup {y.item}
      BY <1>1, ConstantTypes DEF Precedes
  <1> QED
      BY <1>1, <1>2, <1>3 DEF Precedes

\* A fragment, or a message, is followed by what the sender does next.
LEMMA Follows ==
  ASSUME NEW p \in Packets, NEW z \in Spot, NEW dam,
         \/ IsBlob(p.item) /\ z.item = p.item /\ z.from = p.offset + p.length
         \/ /\ z.item = p.item + 1 /\ z.from = 0
            /\ IsBlob(p.item) => p.offset + p.length = Items[p.item]
  PROVE  Precedes(p.item, p.offset + p.length, z, dam)
  <1>1. p.item \in Int /\ p.offset + p.length \in Nat /\ z.item \in Int /\ z.from \in Nat
      BY ConstantTypes DEF Packets, Spot
  <1>2. \A j \in DOMAIN Items : j \in Int
      BY ConstantTypes
  <1>3. IsBlob(p.item) => Items[p.item] \in Int
      BY ConstantTypes DEF IsBlob
  <1> QED
      BY <1>1, <1>2, <1>3 DEF Precedes

-----------------------------------------------------------------------------
(* The sender *)

\* The sender goes on, and the packet it has sent is in the queue or the item is damaged.
SenderGoesOn ==
  \/ item' = item /\ IsBlob(item) /\ count' >= count
  \/ item' = item + 1 /\ count' = 0

Queues(p) ==
  /\ queue' = Append(queue, p) /\ damaged' = damaged
  /\ p.item = item /\ Sound(p)
  /\ IsBlob(item) => /\ p.offset = count
                     /\ IF item' = item THEN count' = p.offset + p.length
                                        ELSE p.offset + p.length = Items[item]

Drops == queue' = queue /\ damaged' = damaged \cup {item}

\* What the receiver has put together and returned stays as good as it was.
LEMMA ReceiverKept ==
  ASSUME IInv, Flow, ReceiverIdle, damaged \subseteq damaged',
         Precedes(Last(data).item, data_offset, At(1)', damaged') \/ data = <<>>,
         At(1)' \in Spot, At(1)'.item >= At(1).item
  PROVE  Begun' /\ Past' /\ OneBlob(data, damaged)'
  <1>1. Begun'
      BY DEF Begun, ReceiverIdle, Flow, Last, Precedes, IsBlob
  <1>2. OneBlob(data, damaged)'
      BY GrowDamage DEF Flow, ReceiverIdle, OneBlob, MayMix, IsBlob, Lookalike, IsMessage
  <1>3. ASSUME NEW n \in DOMAIN returned
        PROVE  /\ OneBlob(returned[n], damaged') /\ Last(returned[n]).item < At(1)'.item
               /\ data # <<>> => Last(returned[n]).item < Head(data).item
    <2>1. /\ OneBlob(returned[n], damaged) /\ Last(returned[n]).item < At(1).item
          /\ data # <<>> => Last(returned[n]).item < Head(data).item
        BY DEF Flow, Past
    <2>2. Last(returned[n]).item \in Int
      <3>1. returned[n] \in Seq(PieceType) /\ returned[n] # <<>>
          BY DEF IInv, TypeOK, Placed, Contiguous
      <3>2. Last(returned[n]) \in PieceType
          BY <3>1 DEF Last
      <3> QED
          BY <3>2, ConstantTypes DEF PieceType
    <2>3. At(1) \in Spot
        BY SpotTypes DEF IInv
    <2>4. At(1).item \in Int /\ At(1)'.item \in Int
        BY <2>3 DEF Spot
    <2>5. OneBlob(returned[n], damaged')
        BY <2>1, GrowDamage
    <2>6. Last(returned[n]).item < At(1)'.item
        BY <2>1, <2>2, <2>4
    <2> QED
        BY <2>1, <2>5, <2>6
  <1>4. Past'
    <2>1. \A m, n \in DOMAIN returned' :
             m < n => Last(returned'[m]).item < Head(returned'[n]).item
        BY DEF Flow, Past, ReceiverIdle
    <2>2. \A n \in DOMAIN returned' :
             /\ OneBlob(returned'[n], damaged') /\ Last(returned'[n]).item < At(1)'.item
             /\ data' # <<>> => Last(returned'[n]).item < Head(data').item
        BY <1>3 DEF ReceiverIdle
    <2> QED
        BY <2>1, <2>2 DEF Past
  <1> QED
      BY <1>1, <1>2, <1>4

\* What is on the way stays in line when a packet is put into the queue or dropped.
LEMMA LineKept ==
  ASSUME IInv, Flow, ReceiverIdle, SenderGoesOn, item \in DOMAIN Items, NEW p \in Packets,
         Queues(p) \/ Drops, item' \in 1..Len(Items) + 1, count' \in Nat
  PROVE  Queued' /\ Begun' /\ Past' /\ OneBlob(data, damaged)'
  <1>0. PICK L \in Nat : L = Len(queue)
      BY DEF IInv, TypeOK
  <1> DEFINE y == [item |-> item, from |-> count]
             z == [item |-> item', from |-> count']
             w == [item |-> p.item, from |-> p.offset]
  <1>1. /\ queue \in Seq(Packets) /\ L \in Nat /\ item \in 1..Len(Items) + 1 /\ count \in Nat
        /\ data \in Seq(PieceType) /\ data_offset \in Nat /\ DOMAIN queue = 1..L
        /\ item \in Nat /\ \A n \in DOMAIN queue : queue[n].item \in DOMAIN Items
        /\ \A n \in DOMAIN queue : queue[n].offset + queue[n].length \in Nat
      BY <1>0, SpotTypes, ConstantTypes DEF IInv, TypeOK, Packets
  <1>2. y \in Spot /\ z \in Spot /\ At(L + 1) = y
      BY <1>0, <1>1 DEF Spot, At
  <1>3. data # <<>> => Last(data).item \in DOMAIN Items
    <2>1. data # <<>> => Last(data) \in PieceType
        BY <1>1 DEF Last
    <2> QED
        BY <2>1 DEF PieceType
  <1>4. \A n \in 1..L + 1 : At(n) \in Spot
      BY <1>0, SpotTypes DEF IInv
  <1>5. CASE Queues(p)
    <2>1. /\ Len(queue') = L + 1 /\ queue'[L + 1] = p
          /\ \A n \in 1..L : queue'[n] = queue[n]
          /\ DOMAIN queue' = 1..L + 1
        BY <1>0, <1>1, <1>5 DEF Queues
    <2>2. w \in Spot /\ w.item = y.item /\ (IsBlob(y.item) => w.from = y.from)
      <3>1. p.offset \in Nat /\ p.item = item
          BY <1>5 DEF Queues, Packets
      <3> QED
          BY <1>1, <1>5, <3>1 DEF Queues, Spot
    <2>3. /\ \A n \in 1..L : At(n)' = At(n)
          /\ At(L + 1)' = w /\ At(L + 2)' = z
      <3>1. ASSUME NEW n \in 1..L PROVE At(n)' = At(n)
          BY <1>0, <2>1, <3>1 DEF At
      <3>2. At(L + 1)' = w
          BY <2>1 DEF At
      <3>3. At(L + 2)' = z
          BY <2>1 DEF At
      <3> QED
          BY <3>1, <3>2, <3>3
    <2>4. damaged' = damaged
        BY <1>5 DEF Queues
    <2>5. Precedes(p.item, p.offset + p.length, z, damaged')
      <3>1. \/ IsBlob(p.item) /\ z.item = p.item /\ z.from = p.offset + p.length
            \/ /\ z.item = p.item + 1 /\ z.from = 0
               /\ IsBlob(p.item) => p.offset + p.length = Items[p.item]
          BY <1>1, <1>5 DEF Queues, SenderGoesOn
      <3> HIDE DEF z
      <3> QED
          BY <1>2, <3>1, Follows
    <2> HIDE DEF w, y, z
    <2>6. ASSUME NEW i, NEW to, NEW n \in 1..L + 1, Precedes(i, to, At(n), damaged)
          PROVE  Precedes(i, to, At(n)', damaged')
      <3>1. CASE n \in 1..L
          BY <2>3, <2>4, <2>6, <3>1
      <3>2. CASE n = L + 1
        <4>1. Precedes(i, to, y, damaged)
            BY <1>2, <2>6, <3>2
        <4>2. Precedes(i, to, w, damaged)
            BY <1>2, <2>2, <4>1, SameSpot
        <4> QED
            BY <2>3, <2>4, <3>2, <4>2
      <3> QED
          BY <1>1, <3>1, <3>2
    <2>7. ASSUME NEW n \in DOMAIN queue'
          PROVE  /\ Sound(queue'[n])
                 /\ Precedes(queue'[n].item, queue'[n].offset + queue'[n].length,
                             At(n + 1)', damaged')
      <3>1. CASE n \in 1..L
        <4>1. n \in DOMAIN queue /\ n + 1 \in 1..L + 1 /\ queue'[n] = queue[n]
            BY <1>1, <2>1, <3>1
        <4>2. /\ Sound(queue[n])
              /\ Precedes(queue[n].item, queue[n].offset + queue[n].length, At(n + 1), damaged)
            BY <4>1 DEF Flow, Queued
        <4> QED
            BY <2>6, <4>1, <4>2
      <3>2. CASE n = L + 1
        <4>1. queue'[n] = p /\ At(n + 1)' = z /\ Sound(p)
          <5>1. n + 1 = L + 2
              BY <3>2
          <5> QED
              BY <1>5, <2>1, <2>3, <3>2, <5>1 DEF Queues
        <4> QED
            BY <2>5, <4>1
      <3> QED
          BY <1>1, <2>1, <3>1, <3>2
    <2>8. Queued'
        BY <2>7 DEF Queued, Sound, IsBlob, Lookalike, IsMessage, Precedes
    <2>9. Precedes(Last(data).item, data_offset, At(1)', damaged') \/ data = <<>>
      <3>1. 1 \in 1..L + 1
          BY <1>1
      <3> QED
          BY <2>6, <3>1 DEF Flow, Begun
    <2>10. At(1)' \in Spot /\ At(1)'.item >= At(1).item
      <3>1. CASE L = 0
        <4>1. L + 1 = 1
            BY <3>1
        <4>2. At(1)' = w /\ At(1) = y
            BY <1>2, <2>3, <4>1
        <4> QED
            BY <1>1, <2>2, <4>2 DEF y
      <3>2. CASE L > 0
        <4>1. At(1)' = At(1) /\ 1 \in 1..L + 1
            BY <1>1, <2>3, <3>2
        <4>2. At(1) \in Spot
            BY <1>4, <4>1
        <4> QED
            BY <4>1, <4>2 DEF Spot
      <3> QED
          BY <1>1, <3>1, <3>2
    <2> QED
        BY <2>4, <2>8, <2>9, <2>10, ReceiverKept
  <1>6. CASE Drops
    <2>1. queue' = queue /\ damaged' = damaged \cup {item}
        BY <1>6 DEF Drops
    <2>2. (\A n \in 1..L : At(n)' = At(n)) /\ At(L + 1)' = z
        BY <1>0, <1>1, <2>1 DEF At
    <2>3. \/ z.item = y.item /\ z.from >= y.from
          \/ z.item = y.item + 1 /\ z.from = 0
        BY <1>1 DEF SenderGoesOn
    <2>4. y.item = item
        OBVIOUS
    <2> HIDE DEF y, z
    <2>5. ASSUME NEW i \in DOMAIN Items, NEW to \in Nat, NEW n \in 1..L + 1,
                 Precedes(i, to, At(n), damaged)
          PROVE  Precedes(i, to, At(n)', damaged')
      <3>1. CASE n \in 1..L
          BY <2>1, <2>2, <2>5, <3>1, GrowDamage
      <3>2. CASE n = L + 1
          BY <1>2, <2>1, <2>2, <2>3, <2>4, <2>5, <3>2, SpotMoves
      <3> QED
          BY <1>1, <3>1, <3>2
    <2>6. ASSUME NEW n \in DOMAIN queue'
          PROVE  /\ Sound(queue'[n])
                 /\ Precedes(queue'[n].item, queue'[n].offset + queue'[n].length,
                             At(n + 1)', damaged')
      <3>1. n \in DOMAIN queue /\ n + 1 \in 1..L + 1 /\ queue'[n] = queue[n]
          BY <1>1, <2>1
      <3>2. /\ Sound(queue[n])
            /\ Precedes(queue[n].item, queue[n].offset + queue[n].length, At(n + 1), damaged)
          BY <3>1 DEF Flow, Queued
      <3> QED
          BY <1>1, <2>5, <3>1, <3>2
    <2>7. Queued'
        BY <2>6 DEF Queued, Sound, IsBlob, Lookalike, IsMessage, Precedes
    <2>8. Precedes(Last(data).item, data_offset, At(1)', damaged') \/ data = <<>>
      <3>1. 1 \in 1..L + 1
          BY <1>1
      <3> QED
          BY <1>1, <1>3, <2>5, <3>1 DEF Flow, Begun
    <2>9. At(1)' \in Spot /\ At(1)'.item >= At(1).item
      <3>1. CASE L = 0
        <4>1. L + 1 = 1
            BY <3>1
        <4>2. At(1)' = z /\ At(1) = y
            BY <1>2, <2>2, <4>1
        <4> QED
            BY <1>1, <1>2, <2>3, <2>4, <4>2 DEF Spot
      <3>2. CASE L > 0
        <4>1. At(1)' = At(1) /\ 1 \in 1..L + 1
            BY <1>1, <2>2, <3>2
        <4>2. At(1) \in Spot
            BY <1>4, <4>1
        <4> QED
            BY <4>1, <4>2 DEF Spot
      <3> QED
          BY <1>1, <3>1, <3>2
    <2>10. damaged \subseteq damaged'
        BY <2>1
    <2> QED
        BY <2>7, <2>8, <2>9, <2>10, ReceiverKept
  <1> QED
      BY <1>5, <1>6

\* A safe blob is not forgotten by the sender.
LEMMA StillComes ==
  ASSUME IInv, Flow, ReceiverIdle, SenderGoesOn, item \in DOMAIN Items, NEW p \in Packets,
         Queues(p) \/ Drops, NEW i \in DOMAIN Items, Safe(i)'
  PROVE  Comes(i)'
  <1>1. damaged \subseteq damaged'
      BY DEF Queues, Drops
  <1>2. Safe(i)
      BY <1>1 DEF Safe, IsBlob, Lookalike, IsMessage
  <1>3. /\ i \in Int /\ item \in Int /\ count \in Nat /\ queue \in Seq(Packets)
        /\ DOMAIN queue = 1..Len(queue) /\ Len(queue) \in Nat
      BY ConstantTypes, SpotTypes DEF IInv, TypeOK, Packets
  <1>4. CASE i > item
      BY <1>3, <1>4 DEF SenderGoesOn, Comes
  <1>5. CASE i = item /\ count = 0
    <2>1. Queues(p)
        BY <1>5 DEF Safe, Drops
    <2>2. queue' = Append(queue, p) /\ p.item = i /\ p.offset = 0
        BY <1>2, <1>5, <2>1 DEF Queues, Safe
    <2>3. Len(queue) + 1 \in DOMAIN queue' /\ queue'[Len(queue) + 1] = p
        BY <1>3, <2>2
    <2> QED
        BY <2>2, <2>3 DEF Comes
  <1>6. CASE \E n \in DOMAIN queue : queue[n].item = i /\ queue[n].offset = 0
    <2>1. PICK n \in DOMAIN queue : queue[n].item = i /\ queue[n].offset = 0
        BY <1>6
    <2>2. n \in DOMAIN queue' /\ queue'[n] = queue[n]
        BY <1>3 DEF Queues, Drops
    <2> QED
        BY <2>1, <2>2 DEF Comes
  <1>7. CASE \/ data # <<>> /\ Last(data).item = i
             \/ \E n \in DOMAIN returned : \E k \in DOMAIN returned[n] : returned[n][k].item = i
      BY <1>7 DEF Comes, ReceiverIdle, Last
  <1> QED
      BY <1>2, <1>4, <1>5, <1>6, <1>7 DEF Flow, Comes

\* The steps of the sender.
LEMMA SenderFlow ==
  ASSUME IInv, Flow, SendFragment \/ SendFails \/ SendMessage
  PROVE  Flow'
  <1>1. /\ item \in DOMAIN Items /\ item \in 1..Len(Items) /\ item \in Int
        /\ Items[item] \in Nat /\ count \in Nat /\ flags \in BOOLEAN
    <2>1. IsBlob(item) \/ IsMessage(item)
        BY DEF SendFragment, SendFails, SendMessage
    <2>2. item \in DOMAIN Items
        BY <2>1 DEF IsBlob, IsMessage
    <2>3. item \in 1..Len(Items) /\ item \in Int /\ Items[item] \in Nat
        BY <2>2, ConstantTypes
    <2>4. count \in Nat /\ flags \in BOOLEAN
        BY DEF IInv, TypeOK
    <2> QED
        BY <2>2, <2>3, <2>4
  <1>2. ReceiverIdle
      BY DEF SendFragment, SendFails, SendMessage, ReceiverIdle
  <1>3. Sending
      BY DEF IInv
  <1>4. ASSUME NEW p \in Packets, Queues(p) \/ Drops, SenderGoesOn,
               item' \in 1..Len(Items) + 1, count' \in Nat, Flagged'
        PROVE  Flow'
    <2>1. Queued' /\ Begun' /\ Past' /\ OneBlob(data, damaged)'
        BY <1>1, <1>2, <1>4, LineKept
    <2>2. \A i \in DOMAIN Items : Safe(i)' => Comes(i)'
        BY <1>1, <1>2, <1>4, StillComes
    <2> QED
        BY <1>4, <2>1, <2>2 DEF Flow
  <1>5. ASSUME item' \in {item, item + 1}, IsBlob(item) \/ flags' = flags
        PROVE  Flagged'
    <2>1. item' >= item /\ item' \in Int
        BY <1>1, <1>5
    <2>2. CASE IsBlob(item)
        BY <1>1, <2>1, <2>2 DEF Flagged, IsBlob
    <2>3. CASE flags' = flags
      <3>1. flags => \E j \in 1..item : IsBlob(j)
          BY DEF Flow, Flagged
      <3>2. \A j \in 1..item : j \in 1..item'
          BY <1>1, <2>1
      <3> QED
          BY <2>3, <3>1, <3>2 DEF Flagged, IsBlob
    <2> QED
        BY <1>5, <2>2, <2>3
  <1>6. CASE SendFragment
    <2> DEFINE size == FragmentSize(Items[item], count)
               p == [item |-> item, frag |-> TRUE, offset |-> count,
                     total |-> Items[item], length |-> size]
    <2>1. IsBlob(item) /\ Items[item] > 0 /\ count < Items[item]
        BY <1>3, <1>6 DEF SendFragment, Sending, IsBlob
    <2>2. size \in Nat /\ size > 0 /\ count + size <= Items[item]
        BY <1>1, <2>1, FragmentSizes
    <2> HIDE DEF size
    <2>3. IF count + size < Items[item] THEN count' = count + size /\ item' = item
          ELSE count' = 0 /\ item' = item + 1
        BY <1>6 DEF SendFragment, size
    <2>4. p \in Packets /\ Sound(p)
        BY <1>1, <2>1, <2>2 DEF Packets, Sound
    <2>5. Queues(p) \/ Drops
      <3>1. Transmit(p)
          BY <1>6 DEF SendFragment, size
      <3>2. ASSUME queue' = Append(queue, p), damaged' = damaged PROVE Queues(p)
          BY <1>1, <2>2, <2>3, <2>4, <3>2 DEF Queues
      <3> QED
          BY <3>1, <3>2 DEF Transmit, Drops
    <2>6. SenderGoesOn /\ item' \in 1..Len(Items) + 1 /\ count' \in Nat
        BY <1>1, <2>1, <2>2, <2>3, ConstantTypes DEF SenderGoesOn
    <2>7. Flagged'
        BY <1>5, <2>1, <2>3
    <2> HIDE DEF p
    <2> QED
        BY <1>4, <2>4, <2>5, <2>6, <2>7
  <1>7. CASE SendFails
    <2>1. IsBlob(item) /\ item' = item + 1 /\ count' = 0 /\ Drops
        BY <1>7 DEF SendFails, Drops
    <2>2. SenderGoesOn /\ item' \in 1..Len(Items) + 1 /\ count' \in Nat
        BY <1>1, <2>1, ConstantTypes DEF SenderGoesOn
    <2>3. Flagged'
        BY <1>5, <2>1
    <2>4. [item |-> item, frag |-> TRUE, offset |-> 0, total |-> 1, length |-> 0] \in Packets
        BY <1>1 DEF Packets
    <2> QED
        BY <1>4, <2>1, <2>2, <2>3, <2>4
  <1>8. CASE SendMessage
    <2>1. PICK t \in Tails : Transmit([item |-> item, frag |-> flags, offset |-> t.offset,
                                       total |-> t.total, length |-> t.length])
        BY <1>8 DEF SendMessage
    <2> DEFINE p == [item |-> item, frag |-> flags, offset |-> t.offset,
                     total |-> t.total, length |-> t.length]
    <2>2. IsMessage(item) /\ ~IsBlob(item) /\ count = 0 /\ item' = item + 1 /\ count' = 0
          /\ flags' = flags
        BY <1>1, <1>3, <1>8 DEF SendMessage, IsMessage, IsBlob, Sending
    <2>3. p \in Packets /\ p.item = item /\ p.frag = flags
        BY <1>1, SfpAssumption DEF SfpAssumption, Packets
    <2>4. flags => Lookalike(item)
      <3>1. flags => \E j \in 1..item : IsBlob(j)
          BY DEF Flow, Flagged
      <3>2. \A j \in 1..item : IsBlob(j) => j \in 1..item - 1
          BY <1>1, <2>2
      <3> QED
          BY <2>2, <3>1, <3>2 DEF Lookalike
    <2>5. Transmit(p)
        BY <2>1
    <2> HIDE DEF p
    <2>6. Queues(p) \/ Drops
      <3>1. ASSUME queue' = Append(queue, p), damaged' = damaged PROVE Queues(p)
          BY <2>2, <2>3, <2>4, <3>1 DEF Queues, Sound
      <3> QED
          BY <2>5, <3>1 DEF Transmit, Drops
    <2>7. SenderGoesOn /\ item' \in 1..Len(Items) + 1 /\ count' \in Nat
        BY <1>1, <2>2, ConstantTypes DEF SenderGoesOn
    <2>8. Flagged'
        BY <1>5, <2>2
    <2> QED
        BY <1>4, <2>3, <2>6, <2>7, <2>8
  <1> QED
      BY <1>6, <1>7, <1>8

-----------------------------------------------------------------------------
(* The receiver *)

\* The first packet of the queue, and what follows it.
LEMMA FirstFacts ==
  ASSUME IInv, Flow, queue # <<>>
  PROVE  /\ First \in Packets /\ First.item \in DOMAIN Items /\ First.item \in Int
         /\ First.offset \in Nat /\ First.length \in Nat /\ First.total \in Nat
         /\ 1 \in DOMAIN queue /\ First = queue[1] /\ Len(queue) \in Nat /\ Len(queue) >= 1
         /\ At(1) = [item |-> First.item, from |-> First.offset]
         /\ At(2) \in Spot /\ At(2).item \in Int /\ At(2).from \in Nat
         /\ Sound(First) /\ Honest(First)
         /\ Precedes(First.item, First.offset + First.length, At(2), damaged)
         /\ First.item <= At(2).item
  <1>1. queue \in Seq(Packets) /\ \A n \in DOMAIN queue : Honest(queue[n])
      BY DEF IInv, TypeOK, Packets
  <1>2. First = queue[1] /\ 1 \in DOMAIN queue /\ First \in Packets /\ Len(queue) >= 1
      BY <1>1 DEF First
  <1>3. /\ First.item \in DOMAIN Items /\ First.offset \in Nat /\ First.length \in Nat
        /\ First.total \in Nat
      BY <1>2 DEF Packets
  <1>4. First.item \in Int
      BY <1>3, ConstantTypes
  <1>5. Len(queue) \in Nat /\ At(2) \in Spot
      BY <1>1, <1>2, SpotTypes DEF IInv
  <1>6. At(2).item \in Int /\ At(2).from \in Nat
      BY <1>5 DEF Spot
  <1>7. At(1) = [item |-> First.item, from |-> First.offset]
      BY <1>2 DEF At
  <1>8. Sound(First) /\ Precedes(First.item, First.offset + First.length, At(2), damaged)
    <2>1. Sound(queue[1]) /\ Precedes(queue[1].item, queue[1].offset + queue[1].length,
                                      At(1 + 1), damaged)
        BY <1>2 DEF Flow, Queued
    <2> QED
        BY <1>2, <2>1
  <1>9. First.item <= At(2).item
      BY <1>4, <1>6, <1>8 DEF Precedes
  <1> QED
      BY <1>1, <1>2, <1>3, <1>4, <1>5, <1>6, <1>7, <1>8, <1>9

\* The last piece of what is put together, of an item not after that of the first packet.
LEMMA LastFacts ==
  ASSUME IInv, Flow, data # <<>>
  PROVE  /\ Len(data) \in Nat /\ Len(data) >= 1 /\ DOMAIN data = 1..Len(data)
         /\ Last(data) = data[Len(data)] /\ Last(data).item \in DOMAIN Items
         /\ Last(data).item \in Int
         /\ IsBlob(Last(data).item) \/ Lookalike(Last(data).item)
         /\ IsBlob(Last(data).item) => data_offset < Items[Last(data).item]
         /\ IsBlob(Last(data).item) => Items[Last(data).item] = datasize
         /\ data_offset \in Nat /\ data_offset > 0
         /\ Precedes(Last(data).item, data_offset, At(1), damaged)
  <1>1. data \in Seq(PieceType) /\ data_offset \in Nat /\ datasize \in Nat
      BY DEF IInv, TypeOK
  <1>2. /\ Len(data) \in Nat /\ Len(data) >= 1 /\ DOMAIN data = 1..Len(data)
        /\ Last(data) = data[Len(data)] /\ Last(data) \in PieceType
        /\ Len(data) \in DOMAIN data
      BY <1>1 DEF Last
  <1>3. Last(data).item \in DOMAIN Items
      BY <1>2 DEF PieceType
  <1>4. IsBlob(Last(data).item) \/ Lookalike(Last(data).item)
      BY <1>2 DEF Flow, OneBlob
  <1>5. IsBlob(Last(data).item) => Items[Last(data).item] = datasize
      BY <1>2 DEF IInv, Building, OfSize
  <1>6. data_offset < datasize
      BY DEF IInv, Building
  <1>7. data_offset > 0 /\ Precedes(Last(data).item, data_offset, At(1), damaged)
      BY DEF Flow, Begun
  <1> QED
      BY <1>1, <1>2, <1>3, <1>4, <1>5, <1>6, <1>7, ConstantTypes

\* The line behind the first packet moves up.
LEMMA LineMoves ==
  ASSUME IInv, Flow, queue # <<>>, TakesFirst, damaged \subseteq damaged'
  PROVE  /\ Flagged' /\ Queued' /\ At(1)' = At(2)
         /\ \A n \in DOMAIN queue : n > 1 => n - 1 \in DOMAIN queue' /\ queue'[n - 1] = queue[n]
  <1>1. PICK L \in Nat : L = Len(queue)
      BY FirstFacts
  <1>2. queue \in Seq(Packets) /\ L >= 1
      BY <1>1, FirstFacts DEF IInv, TypeOK, Packets
  <1>3. /\ queue' \in Seq(Packets) /\ Len(queue') = L - 1 /\ DOMAIN queue' = 1..L - 1
        /\ \A n \in 1..L - 1 : queue'[n] = queue[n + 1]
        /\ DOMAIN queue = 1..L /\ item' = item /\ count' = count /\ flags' = flags
      BY <1>1, <1>2 DEF TakesFirst
  <1>4. ASSUME NEW n \in 1..L PROVE At(n)' = At(n + 1)
    <2>1. CASE n <= L - 1
      <3>1. n \in 1..L - 1 /\ n <= Len(queue') /\ n + 1 <= Len(queue)
          BY <1>1, <1>2, <1>3, <2>1
      <3>2. queue'[n] = queue[n + 1]
          BY <1>3, <3>1
      <3> QED
          BY <3>1, <3>2 DEF At
    <2>2. CASE n = L
      <3>1. ~(n <= Len(queue')) /\ ~(n + 1 <= Len(queue))
          BY <1>1, <1>2, <1>3, <2>2
      <3> QED
          BY <1>3, <3>1 DEF At
    <2> QED
        BY <1>2, <1>4, <2>1, <2>2
  <1>5. ASSUME NEW n \in DOMAIN queue'
        PROVE  /\ Sound(queue'[n])
               /\ Precedes(queue'[n].item, queue'[n].offset + queue'[n].length,
                           At(n + 1)', damaged')
    <2>1. n \in 1..L - 1 /\ n + 1 \in DOMAIN queue /\ n + 1 \in 1..L /\ n \in Int
          /\ queue'[n] = queue[n + 1]
        BY <1>2, <1>3, <1>5
    <2>2. /\ Sound(queue[n + 1])
          /\ Precedes(queue[n + 1].item, queue[n + 1].offset + queue[n + 1].length,
                      At(n + 1 + 1), damaged)
        BY <2>1 DEF Flow, Queued
    <2>3. PICK m \in 1..L : m = n + 1
        BY <2>1
    <2>4. At(m)' = At(m + 1)
        BY <1>4
    <2>5. Precedes(queue[n + 1].item, queue[n + 1].offset + queue[n + 1].length,
                   At(m)', damaged')
        BY <2>2, <2>3, <2>4, GrowDamage
    <2> QED
        BY <2>1, <2>2, <2>3, <2>5
  <1>6. Queued'
      BY <1>5 DEF Queued, Sound, IsBlob, Lookalike, IsMessage, Precedes
  <1>7. Flagged'
      BY <1>3 DEF Flow, Flagged, IsBlob
  <1>8. At(1)' = At(2)
      BY <1>2, <1>4
  <1>9. ASSUME NEW n \in DOMAIN queue, n > 1
        PROVE  n - 1 \in DOMAIN queue' /\ queue'[n - 1] = queue[n]
      BY <1>2, <1>3, <1>9
  <1> QED
      BY <1>6, <1>7, <1>8, <1>9

\* What was returned stays behind the line that moves up.
LEMMA StillPast ==
  ASSUME IInv, Flow, queue # <<>>, damaged \subseteq damaged', NEW n \in DOMAIN returned
  PROVE  /\ OneBlob(returned[n], damaged') /\ Last(returned[n]).item < First.item
         /\ Last(returned[n]).item < At(2).item
  <1>1. OneBlob(returned[n], damaged) /\ Last(returned[n]).item < At(1).item
      BY DEF Flow, Past
  <1>2. Last(returned[n]).item \in Int
    <2>1. returned[n] \in Seq(PieceType) /\ returned[n] # <<>>
        BY DEF IInv, TypeOK, Placed, Contiguous
    <2>2. Last(returned[n]) \in PieceType
        BY <2>1 DEF Last
    <2> QED
        BY <2>2, ConstantTypes DEF PieceType
  <1>3. Last(returned[n]).item < First.item
      BY <1>1, FirstFacts
  <1>4. Last(returned[n]).item < At(2).item
      BY <1>2, <1>3, FirstFacts
  <1> QED
      BY <1>1, <1>3, <1>4, GrowDamage

\* The start of a safe blob, and what follows a piece of one, is never refused.
LEMMA Accepted ==
  ASSUME IInv, Flow, queue # <<>>, NEW i \in DOMAIN Items, Safe(i),
         \/ data # <<>> /\ Last(data).item = i
         \/ First.item = i /\ First.offset = 0
  PROVE  Accepts(First) /\ Fits(First) /\ ~Empty(First) /\ First.item = i
  <1>1. /\ i \in Int /\ IsBlob(i) /\ i \notin damaged /\ i - 1 \notin damaged
        /\ ~Lookalike(i - 1)
      BY ConstantTypes DEF Safe
  <1>2. CASE data # <<>> /\ Last(data).item = i
    <2>1. data_offset < Items[i] /\ Items[i] = datasize
          /\ Precedes(i, data_offset, At(1), damaged)
        BY <1>1, <1>2, LastFacts
    <2>2. At(1).item = i /\ At(1).from = data_offset
        BY <1>1, <2>1 DEF Precedes
    <2>3. First.item = i /\ First.offset = data_offset
        BY <2>2, FirstFacts
    <2>4. /\ First.frag /\ First.total = Items[i] /\ First.length > 0
          /\ First.offset + First.length <= Items[i]
        BY <1>1, <2>3, FirstFacts DEF Sound
    <2>5. Size(First) = First.total
        BY <1>2, <2>1, <2>4 DEF Size
    <2>6. First.length \in Nat /\ First.offset \in Nat /\ Items[i] \in Nat
        BY FirstFacts, ConstantTypes
    <2> QED
        BY <2>3, <2>4, <2>5, <2>6 DEF Accepts, HeaderOk, Expected, Fits, Empty
  <1>3. CASE First.item = i /\ First.offset = 0
    <2>1. /\ First.frag /\ First.total = Items[i] /\ First.length > 0
          /\ First.offset + First.length <= Items[i]
        BY <1>1, <1>3, FirstFacts DEF Sound
    <2>2. First.length \in Nat /\ Items[i] \in Nat
        BY FirstFacts, ConstantTypes
    <2>3. data = <<>>
      <3> SUFFICES ASSUME data # <<>> PROVE FALSE
          OBVIOUS
      <3> DEFINE k == Last(data).item
      <3>1. /\ k \in Int /\ k \in DOMAIN Items /\ (IsBlob(k) \/ Lookalike(k))
            /\ IsBlob(k) => data_offset < Items[k]
            /\ data_offset \in Nat /\ data_offset > 0
            /\ Precedes(k, data_offset, At(1), damaged)
          BY LastFacts
      <3>2. At(1).item = i /\ At(1).from = 0
          BY <1>3, FirstFacts
      <3> HIDE DEF k
      <3>3. k < i
          BY <3>1, <3>2 DEF Precedes
      <3>4. CASE k = i - 1
        <4>1. IsBlob(k) /\ k \notin damaged
            BY <1>1, <3>1, <3>4
        <4>2. At(1).item = k
            BY <3>1, <4>1 DEF Precedes
        <4> QED
            BY <3>1, <3>2, <3>3, <4>2
      <3>5. CASE k < i - 1
        <4>1. i - 1 \in DOMAIN Items /\ k < i - 1 /\ i - 1 < i
            BY <1>1, <3>1, <3>5, ConstantTypes
        <4>2. i - 1 \in damaged
            BY <3>1, <3>2, <4>1 DEF Precedes
        <4> QED
            BY <1>1, <4>2
      <3> QED
          BY <1>1, <3>1, <3>3, <3>4, <3>5
    <2>4. data_offset = 0 /\ Size(First) = First.total
        BY <2>3 DEF IInv, Building, Size
    <2> QED
        BY <1>3, <2>1, <2>2, <2>4 DEF Accepts, HeaderOk, Expected, Fits, Empty
  <1> QED
      BY <1>2, <1>3

\* A call that fails with a packet in its hands.
LEMMA RejectFlow ==
  ASSUME IInv, Flow, RejectHeader \/ RejectOffset \/ NoMemory \/ RejectSize \/ RejectEmpty
  PROVE  Flow'
  <1>1. queue # <<>> /\ Abandon
      BY DEF RejectHeader, RejectOffset, NoMemory, RejectSize, RejectEmpty
  <1>2. /\ TakesFirst /\ data' = <<>> /\ returned' = returned /\ item' = item
        /\ count' = count
      BY <1>1 DEF Abandon, TakesFirst
  <1>3. damaged \subseteq damaged'
      BY DEF RejectHeader, RejectOffset, NoMemory, RejectSize, RejectEmpty
  <1>4. /\ Flagged' /\ Queued' /\ At(1)' = At(2)
        /\ \A n \in DOMAIN queue : n > 1 => n - 1 \in DOMAIN queue' /\ queue'[n - 1] = queue[n]
      BY <1>1, <1>2, <1>3, LineMoves
  <1>5. Begun' /\ OneBlob(data, damaged)'
      BY <1>2 DEF Begun, OneBlob
  <1>6. Past'
    <2>1. ASSUME NEW n \in DOMAIN returned
          PROVE  OneBlob(returned[n], damaged') /\ Last(returned[n]).item < At(1)'.item
        BY <1>1, <1>3, <1>4, StillPast
    <2>2. \A m, n \in DOMAIN returned : m < n => Last(returned[m]).item < Head(returned[n]).item
        BY DEF Flow, Past
    <2>3. \A n \in DOMAIN returned' :
             OneBlob(returned'[n], damaged') /\ Last(returned'[n]).item < At(1)'.item
        BY <1>2, <2>1
    <2>4. \A m, n \in DOMAIN returned' :
             m < n => Last(returned'[m]).item < Head(returned'[n]).item
        BY <1>2, <2>2
    <2> QED
        BY <1>2, <2>3, <2>4 DEF Past
  <1>7. ASSUME NEW i \in DOMAIN Items, Safe(i)' PROVE Comes(i)'
    <2>1. Safe(i)
        BY <1>3, <1>7 DEF Safe, IsBlob, Lookalike, IsMessage
    <2>2. ASSUME \/ data # <<>> /\ Last(data).item = i
                 \/ First.item = i /\ First.offset = 0
          PROVE  FALSE
      <3>1. Accepts(First) /\ Fits(First) /\ ~Empty(First) /\ First.item = i
          BY <1>1, <2>1, <2>2, Accepted
      <3>2. NoMemory
          BY <3>1 DEF RejectHeader, RejectOffset, RejectSize, RejectEmpty, Accepts
      <3>3. i \in damaged'
          BY <3>1, <3>2 DEF NoMemory
      <3> QED
          BY <1>7, <3>3 DEF Safe
    <2>3. CASE i > item \/ (i = item /\ count = 0)
        BY <1>2, <2>3 DEF Comes
    <2>4. CASE \E n \in DOMAIN queue : queue[n].item = i /\ queue[n].offset = 0
      <3>1. PICK n \in DOMAIN queue : queue[n].item = i /\ queue[n].offset = 0
          BY <2>4
      <3>2. n # 1
          BY <1>1, <2>2, <3>1, FirstFacts
      <3>3. n > 1
          BY <1>1, <3>1, <3>2, SpotTypes DEF IInv
      <3>4. n - 1 \in DOMAIN queue' /\ queue'[n - 1] = queue[n]
          BY <1>4, <3>1, <3>3
      <3> QED
          BY <3>1, <3>4 DEF Comes
    <2>5. CASE \E n \in DOMAIN returned : \E k \in DOMAIN returned[n] : returned[n][k].item = i
        BY <1>2, <2>5 DEF Comes
    <2>6. Comes(i)
        BY <2>1 DEF Flow
    <2> QED
        BY <2>2, <2>3, <2>4, <2>5, <2>6 DEF Comes
  <1> QED
      BY <1>4, <1>5, <1>6, <1>7 DEF Flow

\* A call that fails in csp_read's timeout.
LEMMA TimeoutFlow ==
  ASSUME IInv, Flow, Timeout
  PROVE  Flow'
  <1>1. /\ data' = <<>> /\ returned' = returned /\ item' = item /\ count' = count
        /\ flags' = flags /\ queue' = queue /\ data # <<>> /\ queue = <<>>
        /\ damaged' = damaged \cup {data[i].item : i \in DOMAIN data}
      BY DEF Timeout
  <1>2. damaged \subseteq damaged'
      BY <1>1
  <1>3. Last(data).item \in damaged'
      BY <1>1, LastFacts
  <1>4. At(1)' = At(1)
      BY <1>1 DEF At
  <1>5. Flagged' /\ Queued' /\ Begun' /\ OneBlob(data, damaged)'
    <2>1. DOMAIN queue' = {}
        BY <1>1
    <2>2. Queued'
        BY <2>1 DEF Queued
    <2>3. Flagged'
        BY <1>1 DEF Flow, Flagged, IsBlob
    <2> QED
        BY <1>1, <2>2, <2>3 DEF Begun, OneBlob
  <1>6. Past'
    <2>1. ASSUME NEW n \in DOMAIN returned
          PROVE  OneBlob(returned[n], damaged') /\ Last(returned[n]).item < At(1)'.item
        BY <1>2, <1>4, GrowDamage DEF Flow, Past
    <2>2. \A m, n \in DOMAIN returned : m < n => Last(returned[m]).item < Head(returned[n]).item
        BY DEF Flow, Past
    <2>3. \A n \in DOMAIN returned' :
             OneBlob(returned'[n], damaged') /\ Last(returned'[n]).item < At(1)'.item
        BY <1>1, <2>1
    <2>4. \A m, n \in DOMAIN returned' :
             m < n => Last(returned'[m]).item < Head(returned'[n]).item
        BY <1>1, <2>2
    <2> QED
        BY <1>1, <2>3, <2>4 DEF Past
  <1>7. ASSUME NEW i \in DOMAIN Items, Safe(i)' PROVE Comes(i)'
    <2>1. Safe(i) /\ i \notin damaged'
        BY <1>2, <1>7 DEF Safe, IsBlob, Lookalike, IsMessage
    <2>2. Comes(i) /\ Last(data).item # i
        BY <1>3, <2>1 DEF Flow
    <2> QED
        BY <1>1, <2>2 DEF Comes
  <1> QED
      BY <1>5, <1>6, <1>7 DEF Flow

\* A fragment is copied behind the others.
LEMMA OneMorePiece ==
  ASSUME IInv, Flow, queue # <<>>, Accepts(First), Fits(First),
         NEW pieces, pieces = Append(data, Piece(First))
  PROVE  /\ OneBlob(pieces, damaged) /\ pieces \in Seq(PieceType)
         /\ Len(pieces) \in DOMAIN pieces
         /\ Last(pieces).item = First.item /\ pieces[Len(pieces)].item = First.item
         /\ data = <<>> => Head(pieces).item = First.item
         /\ data # <<>> => Head(pieces) = Head(data)
         /\ data # <<>> =>
              \E k \in DOMAIN pieces : pieces[k].item = Last(data).item
  <1>1. /\ First \in Packets /\ First.item \in DOMAIN Items /\ First.item \in Int
        /\ First.offset \in Nat /\ First.length \in Nat /\ Sound(First)
        /\ At(1).item = First.item /\ At(1).from = First.offset
      BY FirstFacts
  <1>2. Piece(First) \in PieceType /\ Piece(First).item = First.item
      BY <1>1 DEF Piece, PieceType
  <1>3. data \in Seq(PieceType) /\ Len(data) \in Nat
      BY DEF IInv, TypeOK
  <1>4. /\ pieces \in Seq(PieceType) /\ Len(pieces) = Len(data) + 1
        /\ DOMAIN pieces = 1..Len(data) + 1 /\ pieces # <<>>
        /\ pieces[Len(data) + 1] = Piece(First)
        /\ \A k \in 1..Len(data) : pieces[k] = data[k]
      BY <1>2, <1>3
  <1>5. Last(pieces).item = First.item
      BY <1>2, <1>4 DEF Last
  <1>6. IsBlob(First.item) \/ Lookalike(First.item)
      BY <1>1 DEF Accepts, HeaderOk, Sound
  <1>7. CASE data = <<>>
    <2>1. Len(data) = 0 /\ DOMAIN pieces = {1} /\ pieces[1].item = First.item
          /\ Len(pieces) = 1
        BY <1>2, <1>3, <1>4, <1>7
    <2>2. OneBlob(pieces, damaged)
        BY <1>1, <1>6, <2>1 DEF OneBlob
    <2>3. Head(pieces).item = First.item
        BY <1>4, <2>1
    <2> QED
        BY <1>4, <1>5, <1>7, <2>1, <2>2, <2>3
  <1>8. CASE data # <<>>
    <2> DEFINE k == Last(data).item
    <2>1. /\ Len(data) >= 1 /\ k = data[Len(data)].item /\ k \in Int
          /\ IsBlob(k) \/ Lookalike(k)
          /\ IsBlob(k) => data_offset < Items[k]
          /\ data_offset \in Nat /\ data_offset > 0
          /\ Precedes(k, data_offset, At(1), damaged)
        BY <1>8, LastFacts
    <2>2. Len(data) \in 1..Len(data) /\ 1 \in 1..Len(data) /\ DOMAIN data = 1..Len(data)
        BY <1>3, <2>1
    <2> HIDE DEF k
    <2>3. k <= First.item
        BY <1>1, <2>1 DEF Precedes
    <2>4. k # First.item => MayMix(k, damaged)
        BY <1>1, <2>1 DEF Precedes, MayMix
    <2>5. k # First.item => MayMix(First.item, damaged)
        BY <1>1, <1>6, <2>1 DEF Precedes, MayMix, Accepts, Expected
    <2>6. ASSUME NEW n \in 1..Len(data)
          PROVE  /\ data[n].item \in Int
                 /\ IsBlob(data[n].item) \/ Lookalike(data[n].item)
                 /\ data[1].item <= data[n].item /\ data[n].item <= k
                 /\ n < Len(data) =>
                      /\ data[n].item <= data[n + 1].item
                      /\ data[n].item # data[n + 1].item =>
                           MayMix(data[n].item, damaged) /\ MayMix(data[n + 1].item, damaged)
      <3>1. data[n] \in PieceType
          BY <1>3, <2>2
      <3>2. data[n].item \in Int
          BY <3>1, ConstantTypes DEF PieceType
      <3> QED
          BY <2>1, <2>2, <3>2 DEF Flow, OneBlob
    <2>7. ASSUME NEW n \in DOMAIN pieces
          PROVE  /\ IsBlob(pieces[n].item) \/ Lookalike(pieces[n].item)
                 /\ pieces[1].item <= pieces[n].item
                 /\ pieces[n].item <= pieces[Len(pieces)].item
                 /\ n < Len(pieces) =>
                      /\ pieces[n].item <= pieces[n + 1].item
                      /\ pieces[n].item # pieces[n + 1].item =>
                           MayMix(pieces[n].item, damaged) /\ MayMix(pieces[n + 1].item, damaged)
      <3>1. pieces[1] = data[1] /\ pieces[Len(pieces)].item = First.item
          BY <1>2, <1>4, <2>2
      <3>2. CASE n = Len(data) + 1
        <4>1. pieces[n].item = First.item /\ ~(n < Len(pieces))
            BY <1>2, <1>3, <1>4, <3>2
        <4>2. data[1].item \in Int /\ data[1].item <= k
            BY <2>2, <2>6
        <4> QED
            BY <1>1, <1>6, <2>1, <2>3, <3>1, <4>1, <4>2
      <3>3. CASE n = Len(data)
        <4>1. pieces[n].item = k /\ pieces[n + 1].item = First.item /\ n \in 1..Len(data)
            BY <1>2, <1>4, <2>1, <2>2, <3>3
        <4>2. data[1].item <= k
            BY <2>2, <2>6
        <4> QED
            BY <2>1, <2>3, <2>4, <2>5, <3>1, <4>1, <4>2
      <3>4. CASE n < Len(data)
        <4>1. n \in 1..Len(data) /\ n + 1 \in 1..Len(data)
            BY <1>3, <1>4, <3>4
        <4>2. pieces[n] = data[n] /\ pieces[n + 1] = data[n + 1]
            BY <1>4, <4>1
        <4>3. data[n].item \in Int /\ data[n].item <= k
            BY <2>6, <4>1
        <4>4. data[n].item <= First.item
            BY <1>1, <2>1, <2>3, <4>3
        <4> QED
            BY <2>6, <3>1, <3>4, <4>1, <4>2, <4>4
      <3> QED
          BY <1>3, <1>4, <3>2, <3>3, <3>4
    <2>8. OneBlob(pieces, damaged)
        BY <2>7 DEF OneBlob
    <2>9. Head(pieces) = Head(data)
        BY <1>4, <2>2
    <2>10. Len(data) \in DOMAIN pieces /\ pieces[Len(data)].item = Last(data).item
        BY <1>4, <2>1, <2>2 DEF k
    <2> QED
        BY <1>2, <1>4, <1>5, <1>8, <2>8, <2>9, <2>10
  <1> QED
      BY <1>7, <1>8

\* What is returned ends with the end of a blob, or with a message.
LEMMA LastItem ==
  ASSUME IInv, Flow, queue # <<>>, Accepts(First), Fits(First),
         data_offset + First.length >= Size(First)
  PROVE  First.item < At(2).item
  <1>1. /\ First.item \in DOMAIN Items /\ First.item \in Int
        /\ First.offset \in Nat /\ First.length \in Nat
        /\ At(2).item \in Int /\ At(2).from \in Nat /\ Sound(First)
        /\ Precedes(First.item, First.offset + First.length, At(2), damaged)
      BY FirstFacts
  <1> SUFFICES ASSUME First.item = At(2).item, IsBlob(First.item),
                      First.offset + First.length <= At(2).from
               PROVE  FALSE
      BY <1>1 DEF Precedes
  <1>2. First.offset + First.length >= Items[First.item]
      BY <1>1 DEF Accepts, Expected, Fits, Sound
  <1>3. Items[First.item] \in Nat
      BY <1>1, ConstantTypes
  <1>4. At(2).from >= Items[At(2).item]
      BY <1>1, <1>2, <1>3
  <1>5. CASE 2 <= Len(queue)
    <2>1. 2 \in DOMAIN queue
        BY <1>5, SpotTypes DEF IInv
    <2>2. Sound(queue[2]) /\ queue[2].offset \in Nat /\ queue[2].length \in Nat
        BY <2>1, SpotTypes DEF IInv, Flow, Queued
    <2>3. At(2).item = queue[2].item /\ At(2).from = queue[2].offset
        BY <1>5 DEF At
    <2>4. queue[2].length > 0 /\ queue[2].offset + queue[2].length <= Items[queue[2].item]
        BY <2>2, <2>3 DEF Sound
    <2> QED
        BY <1>3, <1>4, <2>2, <2>3, <2>4
  <1>6. CASE ~(2 <= Len(queue))
    <2>1. At(2).item = item /\ At(2).from = count
        BY <1>6 DEF At
    <2>2. count < Items[item]
        BY <2>1 DEF IInv, Sending
    <2> QED
        BY <1>1, <1>3, <1>4, <2>1, <2>2
  <1> QED
      BY <1>5, <1>6

\* A fragment is copied, and with the last one the blob is returned.
LEMMA StoreFlow ==
  ASSUME IInv, Flow, Store
  PROVE  Flow'
  <1> DEFINE pieces == Append(data, Piece(First))
             end == data_offset + First.length
  <1>1. /\ queue # <<>> /\ Accepts(First) /\ Fits(First) /\ ~Empty(First) /\ TakesFirst
        /\ damaged' = damaged /\ item' = item /\ count' = count
      BY DEF Store, TakesFirst
  <1>2. /\ Flagged' /\ Queued' /\ At(1)' = At(2)
        /\ \A n \in DOMAIN queue : n > 1 => n - 1 \in DOMAIN queue' /\ queue'[n - 1] = queue[n]
      BY <1>1, LineMoves
  <1>3. /\ OneBlob(pieces, damaged) /\ pieces \in Seq(PieceType)
        /\ Len(pieces) \in DOMAIN pieces
        /\ Last(pieces).item = First.item /\ pieces[Len(pieces)].item = First.item
        /\ data = <<>> => Head(pieces).item = First.item
        /\ data # <<>> => Head(pieces) = Head(data)
        /\ data # <<>> => \E k \in DOMAIN pieces : pieces[k].item = Last(data).item
      BY <1>1, OneMorePiece
  <1>4. /\ First.offset = data_offset /\ data_offset \in Nat /\ First.length \in Nat
        /\ First.length > 0 \/ end >= Size(First)
    <2>1. data_offset \in Nat /\ First.length \in Nat
        BY <1>1, FirstFacts DEF IInv, TypeOK
    <2>2. Size(First) \in Int
        BY <1>1, FirstFacts DEF Size, IInv, TypeOK
    <2> QED
        BY <1>1, <2>1, <2>2 DEF Accepts, Expected, Empty
  <1>5. ASSUME NEW n \in DOMAIN returned
        PROVE  /\ OneBlob(returned[n], damaged') /\ Last(returned[n]).item < At(1)'.item
               /\ Last(returned[n]).item < Head(pieces).item
    <2>1. /\ OneBlob(returned[n], damaged') /\ Last(returned[n]).item < First.item
          /\ Last(returned[n]).item < At(2).item
        BY <1>1, StillPast
    <2>2. data # <<>> => Last(returned[n]).item < Head(data).item
        BY DEF Flow, Past
    <2> QED
        BY <1>2, <1>3, <2>1, <2>2
  <1>6. \A m, n \in DOMAIN returned : m < n => Last(returned[m]).item < Head(returned[n]).item
      BY DEF Flow, Past
  <1>7. ASSUME NEW i \in DOMAIN Items, Safe(i)'
        PROVE  \/ Comes(i)'
               \/ \E k \in DOMAIN pieces : pieces[k].item = i
               \/ \E n \in DOMAIN returned : \E k \in DOMAIN returned[n] : returned[n][k].item = i
    <2>1. Safe(i)
        BY <1>1, <1>7 DEF Safe, IsBlob, Lookalike, IsMessage
    <2>2. CASE i > item \/ (i = item /\ count = 0)
        BY <1>1, <2>2 DEF Comes
    <2>3. CASE \E n \in DOMAIN queue : queue[n].item = i /\ queue[n].offset = 0
      <3>1. PICK n \in DOMAIN queue : queue[n].item = i /\ queue[n].offset = 0
          BY <2>3
      <3>2. CASE n = 1
          BY <1>1, <1>3, <3>1, <3>2, FirstFacts
      <3>3. CASE n # 1
        <4>1. n > 1
            BY <1>1, <3>1, <3>3, SpotTypes DEF IInv
        <4>2. n - 1 \in DOMAIN queue' /\ queue'[n - 1] = queue[n]
            BY <1>2, <3>1, <4>1
        <4> QED
            BY <3>1, <4>2 DEF Comes
      <3> QED
          BY <3>2, <3>3
    <2>4. CASE data # <<>> /\ Last(data).item = i
        BY <1>3, <2>4
    <2>5. Comes(i)
        BY <2>1 DEF Flow
    <2> HIDE DEF pieces
    <2> QED
        BY <2>2, <2>3, <2>4, <2>5 DEF Comes
  <1>8. \A i \in DOMAIN Items : Safe(i) /\ data # <<>> /\ Last(data).item = i => First.item = i
      BY <1>1, Accepted
  <1>9. returned \in Seq(Seq(PieceType))
      BY DEF IInv, TypeOK
  <1>10. CASE end >= Size(First) /\ returned' = Append(returned, pieces) /\ data' = <<>>
    <2>1. First.item < At(2).item
        BY <1>1, <1>10, LastItem
    <2> HIDE DEF pieces, end
    <2>2. Begun' /\ OneBlob(data, damaged)'
        BY <1>10 DEF Begun, OneBlob
    <2>3. /\ Len(returned) \in Nat /\ DOMAIN returned = 1..Len(returned)
          /\ DOMAIN returned' = 1..Len(returned) + 1
          /\ returned'[Len(returned) + 1] = pieces
          /\ \A n \in DOMAIN returned : returned'[n] = returned[n]
        BY <1>3, <1>9, <1>10
    <2>4. ASSUME NEW n \in DOMAIN returned'
          PROVE  OneBlob(returned'[n], damaged') /\ Last(returned'[n]).item < At(1)'.item
      <3>1. CASE n \in DOMAIN returned
          BY <1>5, <2>3, <3>1
      <3>2. CASE n = Len(returned) + 1
          BY <1>1, <1>2, <1>3, <2>1, <2>3, <3>2
      <3> QED
          BY <2>3, <3>1, <3>2
    <2>5. ASSUME NEW m \in DOMAIN returned', NEW n \in DOMAIN returned', m < n
          PROVE  Last(returned'[m]).item < Head(returned'[n]).item
      <3>1. m \in DOMAIN returned /\ returned'[m] = returned[m]
          BY <2>3, <2>5
      <3>2. CASE n \in DOMAIN returned
          BY <1>6, <2>3, <2>5, <3>1, <3>2
      <3>3. CASE n = Len(returned) + 1
          BY <1>5, <2>3, <3>1, <3>3
      <3> QED
          BY <2>3, <3>2, <3>3
    <2>6. Past'
        BY <1>10, <2>4, <2>5 DEF Past
    <2>7. ASSUME NEW i \in DOMAIN Items, Safe(i)' PROVE Comes(i)'
      <3>1. CASE \E k \in DOMAIN pieces : pieces[k].item = i
        <4>1. Len(returned) + 1 \in DOMAIN returned'
            BY <2>3
        <4> QED
            BY <2>3, <3>1, <4>1 DEF Comes
      <3>2. CASE \E n \in DOMAIN returned : \E k \in DOMAIN returned[n] : returned[n][k].item = i
        <4>1. \A n \in DOMAIN returned : n \in DOMAIN returned' /\ returned'[n] = returned[n]
            BY <2>3
        <4> QED
            BY <3>2, <4>1 DEF Comes
      <3> QED
          BY <1>7, <2>7, <3>1, <3>2
    <2> QED
        BY <1>2, <2>2, <2>6, <2>7 DEF Flow
  <1>11. CASE /\ end < Size(First) /\ returned' = returned /\ data' = pieces
              /\ data_offset' = end
    <2>1. Precedes(First.item, end, At(2), damaged) /\ end > 0
      <3>1. Precedes(First.item, First.offset + First.length, At(2), damaged)
          BY <1>1, FirstFacts
      <3>2. Size(First) \in Int
          BY <1>1, FirstFacts DEF Size, IInv, TypeOK
      <3> QED
          BY <1>4, <1>11, <3>1, <3>2
    <2> HIDE DEF pieces, end
    <2>2. Begun'
        BY <1>1, <1>2, <1>3, <1>11, <2>1 DEF Begun, Precedes, IsBlob, Last
    <2>3. OneBlob(data, damaged)'
        BY <1>1, <1>3, <1>11 DEF OneBlob, MayMix, IsBlob, Lookalike, IsMessage
    <2>4. Past'
      <3>1. \A n \in DOMAIN returned' :
              /\ OneBlob(returned'[n], damaged') /\ Last(returned'[n]).item < At(1)'.item
              /\ Last(returned'[n]).item < Head(data').item
          BY <1>5, <1>11
      <3>2. \A m, n \in DOMAIN returned' :
              m < n => Last(returned'[m]).item < Head(returned'[n]).item
          BY <1>6, <1>11
      <3> QED
          BY <3>1, <3>2 DEF Past
    <2>5. ASSUME NEW i \in DOMAIN Items, Safe(i)' PROVE Comes(i)'
      <3>1. Safe(i)
          BY <1>1, <2>5 DEF Safe, IsBlob, Lookalike, IsMessage
      <3>2. Comes(i)
          BY <3>1 DEF Flow
      <3>3. ASSUME First.item = i PROVE Comes(i)'
        <4>1. data' # <<>> /\ Last(data').item = i
            BY <1>3, <1>11, <3>3
        <4> QED
            BY <4>1 DEF Comes
      <3>4. CASE data # <<>> /\ Last(data).item = i
          BY <1>8, <3>1, <3>3, <3>4
      <3>5. CASE i > item \/ (i = item /\ count = 0)
          BY <1>1, <3>5 DEF Comes
      <3>6. CASE \E n \in DOMAIN queue : queue[n].item = i /\ queue[n].offset = 0
        <4>1. PICK n \in DOMAIN queue : queue[n].item = i /\ queue[n].offset = 0
            BY <3>6
        <4>2. CASE n = 1
            BY <1>1, <3>3, <4>1, <4>2, FirstFacts
        <4>3. CASE n # 1
          <5>1. n > 1
              BY <1>1, <4>1, <4>3, SpotTypes DEF IInv
          <5>2. n - 1 \in DOMAIN queue' /\ queue'[n - 1] = queue[n]
              BY <1>2, <4>1, <5>1
          <5> QED
              BY <4>1, <5>2 DEF Comes
        <4> QED
            BY <4>2, <4>3
      <3>7. CASE \E n \in DOMAIN returned : \E k \in DOMAIN returned[n] : returned[n][k].item = i
          BY <1>11, <3>7 DEF Comes
      <3> QED
          BY <3>2, <3>4, <3>5, <3>6, <3>7 DEF Comes
    <2> QED
        BY <1>2, <2>2, <2>3, <2>4, <2>5 DEF Flow
  <1> QED
      BY <1>10, <1>11 DEF Store

-----------------------------------------------------------------------------
\* The initial state.
LEMMA InitFlow == Init => Flow
  <1> SUFFICES ASSUME Init PROVE Flow
      OBVIOUS
  <1>1. Flagged /\ Begun
      BY DEF Init, Flagged, Begun
  <1>2. DOMAIN queue = {} /\ DOMAIN data = {} /\ DOMAIN returned = {}
      BY DEF Init
  <1>3. Queued /\ OneBlob(data, damaged) /\ Past
      BY <1>2 DEF Queued, OneBlob, Past
  <1>4. ASSUME NEW i \in DOMAIN Items PROVE Comes(i)
    <2>1. i \in 1..Len(Items) /\ item = 1 /\ count = 0
        BY ConstantTypes DEF Init
    <2> QED
        BY <2>1, ConstantTypes DEF Comes
  <1> QED
      BY <1>1, <1>3, <1>4 DEF Flow

\* Every step keeps what follows what.
LEMMA StepFlow == IInv /\ Flow /\ [Next]_vars => Flow'
  <1> SUFFICES ASSUME IInv, Flow, [Next]_vars PROVE Flow'
      OBVIOUS
  <1>1. CASE SendFragment \/ SendFails \/ SendMessage
      BY <1>1, SenderFlow
  <1>2. CASE Recv
      BY <1>2, RejectFlow, StoreFlow, TimeoutFlow DEF Recv
  <1>3. CASE UNCHANGED vars
    <2>1. Flagged' /\ Begun' /\ Queued'
        BY <1>3 DEF vars, Flow, Flagged, Begun, Queued, At, Precedes, Sound, IsBlob, Last,
                    Lookalike, IsMessage
    <2>2. Past' /\ OneBlob(data, damaged)'
        BY <1>3 DEF vars, Flow, Past, At, OneBlob, MayMix, IsBlob, Last, Lookalike, IsMessage
    <2>3. (\A i \in DOMAIN Items : Safe(i) => Comes(i))'
        BY <1>3 DEF vars, Flow, Safe, Comes, IsBlob, Last, Lookalike, IsMessage
    <2> QED
        BY <2>1, <2>2, <2>3 DEF Flow
  <1> QED
      BY <1>1, <1>2, <1>3 DEF Next

\* What follows what is as it should be in every state.
LEMMA FlowThm == Spec => [](IInv /\ Flow)
  BY InitIInv, StepIInv, InitFlow, StepFlow, PTL DEF Spec

\* What csp_sfp_recv returns is of one blob unless fragments of two were lost, has nothing of
\* an ordinary message unless that followed a transfer, and is not returned twice or late:
\* whatever is sent, lost and refused.
THEOREM UnmixedThm == Spec => []Unmixed
  <1>1. IInv /\ Flow => Unmixed
    <2> SUFFICES ASSUME IInv, Flow PROVE Unmixed
        OBVIOUS
    <2>1. \A n \in DOMAIN returned : OneBlob(returned[n], damaged)
        BY DEF Flow, Past
    <2>2. \A m, n \in DOMAIN returned : m < n => Last(returned[m]).item < Head(returned[n]).item
        BY DEF Flow, Past
    <2> QED
        BY <2>1, <2>2 DEF Unmixed, OneBlob, MayMix
  <1> QED
      BY <1>1, FlowThm, PTL

\* The returned blobs that item i is in.
With(i) == {n \in DOMAIN returned : \E k \in DOMAIN returned[n] : returned[n][k].item = i}

\* No two blobs that are returned have a part of the same item.
LEMMA ReturnedOnce ==
  ASSUME IInv, Flow, NEW i, NEW m \in With(i), NEW n \in With(i)
  PROVE  m = n
  <1>1. m \in Int /\ n \in Int
      BY DEF With, IInv, TypeOK
  <1>2. ASSUME NEW j \in With(i)
        PROVE  /\ j \in DOMAIN returned
               /\ Head(returned[j]).item \in Int /\ Last(returned[j]).item \in Int
               /\ i \in Int /\ Head(returned[j]).item <= i /\ i <= Last(returned[j]).item
    <2>1. j \in DOMAIN returned
        BY DEF With
    <2>2. PICK k \in DOMAIN returned[j] : returned[j][k].item = i
        BY DEF With
    <2>3. returned[j] \in Seq(PieceType) /\ returned[j] # <<>>
        BY <2>1 DEF IInv, TypeOK, Placed, Contiguous
    <2>4. /\ Head(returned[j]) = returned[j][1] /\ returned[j][1] \in PieceType
          /\ Last(returned[j]) = returned[j][Len(returned[j])]
          /\ returned[j][Len(returned[j])] \in PieceType /\ returned[j][k] \in PieceType
        BY <2>3 DEF Last
    <2>5. returned[j][1].item <= returned[j][k].item
          /\ returned[j][k].item <= returned[j][Len(returned[j])].item
        BY <2>1 DEF Flow, Past, OneBlob
    <2> QED
        BY <2>1, <2>2, <2>4, <2>5, ConstantTypes DEF PieceType
  <1>3. ASSUME NEW a \in With(i), NEW b \in With(i) PROVE ~(a < b)
    <2> SUFFICES ASSUME a < b PROVE FALSE
        OBVIOUS
    <2>1. Last(returned[a]).item < Head(returned[b]).item
        BY <1>2 DEF Flow, Past
    <2> QED
        BY <1>2, <2>1
  <1> QED
      BY <1>1, <1>3

\* Damage to a blob costs it and at most the next item on the connection: every blob that is
\* sent and received undamaged, after an undamaged item, is returned, once and in order.
THEOREM ContainedThm == Spec => []Contained
  <1>1. IInv /\ Flow => Contained
    <2> SUFFICES ASSUME IInv, Flow, item > Len(Items), queue = <<>>, data = <<>>,
                        NEW i \in DOMAIN Items, Safe(i)
                 PROVE  Cardinality(With(i)) = 1
        BY DEF Contained, Safe, With
    <2>1. i \in Int /\ item \in Int /\ i < item
        BY ConstantTypes DEF IInv, TypeOK
    <2>2. Comes(i)
        BY DEF Flow
    <2>3. PICK n : n \in With(i)
        BY <2>1, <2>2 DEF Comes, With
    <2>4. With(i) = {n}
        BY <2>3, ReturnedOnce
    <2> QED
        BY <2>4, FS_Singleton
  <1> QED
      BY <1>1, FlowThm, PTL

=============================================================================
