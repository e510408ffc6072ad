--------------------------------- MODULE Sfp ---------------------------------
(***************************************************************************)
(* The small fragmentation protocol (csp_sfp.c) over a datagram connection *)
(* that loses packets: a task that sends blobs and ordinary messages, the  *)
(* receive queue of the connection, and a task that calls csp_sfp_recv     *)
(* again and again.                                                        *)
(*                                                                         *)
(* A byte is named by the item it belongs to and its place there, and a    *)
(* buffer of bytes is the sequence of the pieces copied into it.           *)
(***************************************************************************)
EXTENDS Integers, Sequences, FiniteSets, SequencesExt

CONSTANTS
  Items,        \* what is sent: the size of a blob, or 0 for an ordinary message
  Mtu,          \* the mtu given to csp_sfp_send
  QueueLength,  \* CSP_CONN_RXQUEUE_LEN
  Tails         \* what the last eight bytes of an ordinary message may say:
                \* records of offset, total and the length before them

ASSUME SfpAssumption ==
  /\ Items \in Seq(Nat)
  /\ Mtu \in Nat \ {0}
  /\ QueueLength \in Nat \ {0}
  /\ Tails \subseteq [offset : Nat, total : Nat \ {0}, length : Nat]

VARIABLES
  item,       \* the item being sent
  count,      \* csp_sfp_send's count: how much of it has been sent
  flags,      \* whether conn->idout.flags has CSP_FFRAG
  queue,      \* the receive queue of the connection
  data,       \* the pieces in csp_sfp_recv_fp's buffer, <<>> before it is allocated
  datasize,   \* its size
  data_offset, \* the bytes copied into it
  buffers,    \* packet buffers in use at the receiver
  heap,       \* memory blocks in use at the receiver
  returned,   \* the blobs csp_sfp_recv_fp has returned (history)
  damaged     \* items the environment has damaged: a loss, a failure, a timeout (history)

vars == <<item, count, flags, queue, data, datasize, data_offset, buffers, heap, returned, damaged>>

Init ==
  /\ item = 1 /\ count = 0 /\ flags = FALSE
  /\ queue = <<>>
  /\ data = <<>> /\ datasize = 0 /\ data_offset = 0
  /\ buffers = 0 /\ heap = 0
  /\ returned = <<>> /\ damaged = {}

-----------------------------------------------------------------------------
(* The sender *)

IsBlob(i) == i \in DOMAIN Items /\ Items[i] > 0
IsMessage(i) == i \in DOMAIN Items /\ Items[i] = 0

\* Mutant: the length of the queue is not looked at.
Transmit_Unbounded(p) ==
  /\ queue' = Append(queue, p) /\ buffers' = buffers + 1
  /\ UNCHANGED damaged

\* A packet that gets through is put into the connection's queue, or dropped when that is
\* full; the receiver's buffer goes with it.
Transmit(p) ==
  \/ /\ Len(queue) < QueueLength
     /\ queue' = Append(queue, p)
     /\ buffers' = buffers + 1
     /\ UNCHANGED damaged
  \/ /\ damaged' = damaged \cup {item}
     /\ UNCHANGED <<queue, buffers>>

\* Mutant: a fragment is always of the size of the mtu.
FragmentSize_Mtu(totalsize, sent) == Mtu

FragmentSize(totalsize, sent) ==
  IF totalsize - sent > Mtu THEN Mtu ELSE totalsize - sent

\* One round of the loop in csp_sfp_send_own_memcpy.
SendFragment ==
  LET size == FragmentSize(Items[item], count)
  IN  /\ IsBlob(item)
      /\ flags' = TRUE
      /\ Transmit([item |-> item, frag |-> TRUE, offset |-> count,
                   total |-> Items[item], length |-> size])
      /\ IF count + size < Items[item]
         THEN count' = count + size /\ UNCHANGED item
         ELSE count' = 0 /\ item' = item + 1
      /\ UNCHANGED <<data, datasize, data_offset, heap, returned>>

\* No buffer, or csp_send fails: csp_sfp_send gives up half-way.
SendFails ==
  /\ IsBlob(item)
  /\ damaged' = damaged \cup {item}
  /\ item' = item + 1 /\ count' = 0
  /\ flags' \in {flags, TRUE}
  /\ UNCHANGED <<queue, data, datasize, data_offset, buffers, heap, returned>>

\* csp_send of an ordinary message on the same connection: CSP_FFRAG, once set, stays.
SendMessage ==
  /\ IsMessage(item)
  /\ \E t \in Tails : Transmit([item |-> item, frag |-> flags, offset |-> t.offset,
                                total |-> t.total, length |-> t.length])
  /\ item' = item + 1
  /\ UNCHANGED <<count, flags, data, datasize, data_offset, heap, returned>>

-----------------------------------------------------------------------------
(* The receiver *)

First == Head(queue)
Piece(p) == [item |-> p.item, offset |-> p.offset, length |-> p.length]

\* Mutant: the flag is not looked at.
HeaderOk_NoFlag(p) == p.offset <= p.total

\* csp_sfp_header_remove; its test of the length is never met by what is sent here.
HeaderOk(p) == p.frag /\ p.offset <= p.total

\* Mutant: fragments are taken as they come.
Expected_Any(p) == TRUE

Expected(p) == p.offset = data_offset

\* data_offset is not 0 once there is a buffer, for empty fragments are refused.
Size(p) == IF data = <<>> THEN p.total ELSE datasize

Fits(p) == data_offset + p.length <= Size(p) /\ Size(p) = p.total

\* Mutant: the packet is not freed.
Abandon_KeepPacket ==
  /\ queue' = Tail(queue) /\ UNCHANGED buffers
  /\ data' = <<>> /\ datasize' = 0 /\ data_offset' = 0
  /\ heap' = IF data = <<>> THEN heap ELSE heap - 1
  /\ UNCHANGED <<item, count, flags, returned>>

\* The packet is freed, and the buffer too if there is one.
Abandon ==
  /\ queue' = Tail(queue) /\ buffers' = buffers - 1
  /\ data' = <<>> /\ datasize' = 0 /\ data_offset' = 0
  /\ heap' = IF data = <<>> THEN heap ELSE heap - 1
  /\ UNCHANGED <<item, count, flags, returned>>

RejectHeader == queue # <<>> /\ ~HeaderOk(First) /\ Abandon /\ UNCHANGED damaged

RejectOffset ==
  /\ queue # <<>> /\ HeaderOk(First) /\ ~Expected(First)
  /\ Abandon /\ UNCHANGED damaged

Accepts(p) == HeaderOk(p) /\ Expected(p)

NoMemory ==
  /\ queue # <<>> /\ Accepts(First) /\ data = <<>>
  /\ Abandon /\ damaged' = damaged \cup {First.item}

\* The buffer just allocated, or the one in use, is freed again.
RejectSize ==
  /\ queue # <<>> /\ Accepts(First) /\ ~Fits(First)
  /\ Abandon /\ UNCHANGED damaged

Empty(p) == p.length = 0 /\ data_offset < Size(p)

RejectEmpty ==
  /\ queue # <<>> /\ Accepts(First) /\ Fits(First) /\ Empty(First)
  /\ Abandon /\ UNCHANGED damaged

Store ==
  LET pieces == Append(data, Piece(First))
      end == data_offset + First.length
  IN  /\ queue # <<>> /\ Accepts(First) /\ Fits(First) /\ ~Empty(First)
      /\ queue' = Tail(queue) /\ buffers' = buffers - 1
      /\ \/ /\ end >= Size(First)
            /\ returned' = Append(returned, pieces)
            /\ data' = <<>> /\ datasize' = 0 /\ data_offset' = 0
            /\ heap' = IF data = <<>> THEN heap ELSE heap - 1   \* the user's csp_free
         \/ /\ end < Size(First)
            /\ data' = pieces /\ datasize' = Size(First) /\ data_offset' = end
            /\ heap' = IF data = <<>> THEN heap + 1 ELSE heap
            /\ UNCHANGED returned
      /\ UNCHANGED <<item, count, flags, damaged>>

\* csp_read runs into its timeout in the middle of a blob.
Timeout ==
  /\ queue = <<>> /\ data # <<>>
  /\ data' = <<>> /\ datasize' = 0 /\ data_offset' = 0 /\ heap' = heap - 1
  /\ damaged' = damaged \cup {data[i].item : i \in DOMAIN data}
  /\ UNCHANGED <<item, count, flags, queue, buffers, returned>>

Recv ==
  \/ RejectHeader \/ RejectOffset \/ NoMemory \/ RejectSize \/ RejectEmpty \/ Store
  \/ Timeout

Next == SendFragment \/ SendFails \/ SendMessage \/ Recv

Spec == Init /\ [][Next]_vars

-----------------------------------------------------------------------------
(* Properties *)

PieceType == [item : DOMAIN Items, offset : Nat, length : Nat]

\* Every variable keeps its type.
TypeOK ==
  /\ item \in 1..Len(Items) + 1 /\ count \in Nat /\ flags \in BOOLEAN
  /\ queue \in Seq([item : DOMAIN Items, frag : BOOLEAN, offset : Nat,
                    total : Nat \ {0}, length : Nat])
  /\ Len(queue) <= QueueLength
  /\ data \in Seq(PieceType) /\ datasize \in Nat /\ data_offset \in Nat
  /\ buffers \in Nat /\ heap \in Nat
  /\ returned \in Seq(Seq(PieceType))
  /\ damaged \subseteq DOMAIN Items

\* An ordinary message that follows a transfer and so carries CSP_FFRAG, which its last bytes
\* may make into a fragment.
Lookalike(i) == IsMessage(i) /\ \E j \in 1..i - 1 : IsBlob(j)

End(b) == b[Len(b)].offset + b[Len(b)].length

Contiguous(b) ==
  /\ b # <<>> /\ b[1].offset = 0
  /\ \A k \in 1..Len(b) - 1 : b[k + 1].offset = b[k].offset + b[k].length

\* What csp_sfp_recv returns has no gap and no byte twice, each byte at the place it was sent
\* from, and is of the size of every blob a part of it comes from.
Placed ==
  \A n \in DOMAIN returned :
    /\ Contiguous(returned[n])
    /\ \A k \in DOMAIN returned[n] :
         IsBlob(returned[n][k].item) => Items[returned[n][k].item] = End(returned[n])

\* It comes from one blob, unless fragments of two blobs of the same size were lost; it has
\* nothing of an ordinary message, unless that followed a transfer; and nothing is returned
\* twice or late.
Unmixed ==
  LET mayMix(i) == Lookalike(i) \/ i \in damaged IN
  /\ \A n \in DOMAIN returned : \A k \in DOMAIN returned[n] :
       LET i == returned[n][k].item IN
       /\ IsBlob(i) \/ Lookalike(i)
       /\ k < Len(returned[n]) =>
            LET j == returned[n][k + 1].item
            IN  i <= j /\ (i # j => mayMix(i) /\ mayMix(j))
  /\ \A m, n \in DOMAIN returned : m < n =>
       Last(returned[m]).item < Head(returned[n]).item

\* Damage to a blob costs it, and at most the next item on the connection: every blob that
\* was sent and received without damage, after an item for which this is so too, is
\* returned, once and in order.
Contained ==
  item > Len(Items) /\ queue = <<>> /\ data = <<>> =>
    \A i \in DOMAIN Items :
      IsBlob(i) /\ i \notin damaged /\ i - 1 \notin damaged /\ ~Lookalike(i - 1) =>
        Cardinality({n \in DOMAIN returned : \E k \in DOMAIN returned[n] :
                       returned[n][k].item = i}) = 1

\* Each packet buffer in use is in the queue, and a memory block is in use just while a blob
\* is being put together: every exit of csp_sfp_recv_fp frees what it must, once.
Balanced == buffers = Len(queue) /\ heap = IF data = <<>> THEN 0 ELSE 1

=============================================================================
