------------------------------ MODULE NodeProofs ------------------------------
(***************************************************************************)
(* Proofs about Node for every value of its constants: who owns a buffer,  *)
(* who holds a connection, that no packet matches two connections, that a  *)
(* connection's queue holds only packets of that connection, and that a    *)
(* client is given no reply of an earlier call before the ports have come  *)
(* round.                                                                  *)
(***************************************************************************)
EXTENDS Node, TLAPS, FiniteSetTheorems, SequenceTheorems, WellFoundedInduction

-----------------------------------------------------------------------------
(***************************************************************************)
(* Queues as sequences without repetition                                  *)
(***************************************************************************)
Distinct(s) == \A i, j \in DOMAIN s : s[i] = s[j] => i = j

\* Appending a new element to a queue adds it and nothing else.
LEMMA AppendElements ==
  ASSUME NEW S, NEW s \in Seq(S), NEW e \in S
  PROVE  /\ Append(s, e) \in Seq(S)
         /\ Elements(Append(s, e)) = Elements(s) \cup {e}
         /\ Distinct(s) /\ e \notin Elements(s) => Distinct(Append(s, e))
<1>1. /\ Append(s, e) \in Seq(S) /\ Len(s) \in Nat /\ DOMAIN s = 1 .. Len(s)
      /\ DOMAIN Append(s, e) = 1 .. Len(s) + 1
      /\ Append(s, e)[Len(s) + 1] = e
      /\ \A i \in 1 .. Len(s) : Append(s, e)[i] = s[i]
  BY AppendProperties, LenProperties
<1>2. Elements(Append(s, e)) = Elements(s) \cup {e}
  BY <1>1 DEF Elements
<1>3. ASSUME Distinct(s), e \notin Elements(s) PROVE Distinct(Append(s, e))
  BY <1>1, <1>3 DEF Distinct, Elements
<1> QED  BY <1>1, <1>2, <1>3

\* Taking the first element of a queue removes it and nothing else.
LEMMA TailElements ==
  ASSUME NEW S, NEW s \in Seq(S), s # <<>>
  PROVE  /\ Tail(s) \in Seq(S) /\ Head(s) \in S /\ Head(s) \in Elements(s)
         /\ Distinct(s) => Distinct(Tail(s)) /\ Elements(Tail(s)) = Elements(s) \ {Head(s)}
<1>1. /\ Tail(s) \in Seq(S) /\ Head(s) \in S /\ Len(s) \in Nat /\ Len(s) > 0
      /\ DOMAIN s = 1 .. Len(s) /\ DOMAIN Tail(s) = 1 .. Len(s) - 1
      /\ Head(s) = s[1]
      /\ \A i \in 1 .. Len(s) - 1 : Tail(s)[i] = s[i + 1]
  BY HeadTailProperties, LenProperties, EmptySeq
<1>2. Head(s) \in Elements(s)
  BY <1>1 DEF Elements
<1>3. ASSUME Distinct(s)
      PROVE  Distinct(Tail(s)) /\ Elements(Tail(s)) = Elements(s) \ {Head(s)}
  <2>1. Distinct(Tail(s))
    BY <1>1, <1>3 DEF Distinct
  <2>2. ASSUME NEW x \in Elements(Tail(s)) PROVE x \in Elements(s) \ {Head(s)}
    BY <1>1, <1>3, <2>2 DEF Distinct, Elements
  <2>3. ASSUME NEW x \in Elements(s) \ {Head(s)} PROVE x \in Elements(Tail(s))
    <3>1. PICK i \in DOMAIN s : s[i] = x
      BY DEF Elements
    <3>2. i \in 2 .. Len(s)
      BY <1>1, <3>1
    <3>3. i - 1 \in 1 .. Len(s) - 1 /\ Tail(s)[i - 1] = x
      BY <1>1, <3>1, <3>2
    <3> QED  BY <1>1, <3>3 DEF Elements
  <2> QED  BY <2>1, <2>2, <2>3
<1> QED  BY <1>1, <1>2, <1>3

\* The elements of a queue are of its type.
LEMMA ElementsType ==
  ASSUME NEW S, NEW s \in Seq(S)
  PROVE  Elements(s) \subseteq S
BY ElementOfSeq, LenProperties DEF Elements

\* An empty queue holds nothing.
LEMMA EmptyElements == Elements(<<>>) = {} /\ Distinct(<<>>)
BY EmptySeq DEF Elements, Distinct

-----------------------------------------------------------------------------
(***************************************************************************)
(* What is owned, by place: H[p] is what place p owns.                     *)
(***************************************************************************)
\* Each thing in D has one owner, and nothing else is owned.
Owned(H, D) ==
    /\ \A p \in DOMAIN H : H[p] \subseteq D
    /\ \A d \in D : \E p \in DOMAIN H : d \in H[p]
    /\ \A p, q \in DOMAIN H : p # q => H[p] \cap H[q] = {}

\* Handing something over from one place to another keeps every owner.
LEMMA HandOver ==
  ASSUME NEW H, NEW D, Owned(H, D), NEW p \in DOMAIN H, NEW q \in DOMAIN H, p # q,
         NEW b \in H[p], NEW G, DOMAIN G = DOMAIN H,
         G[p] = H[p] \ {b}, G[q] = H[q] \cup {b},
         \A r \in DOMAIN H \ {p, q} : G[r] = H[r]
  PROVE  Owned(G, D)
BY DEF Owned

\* A place gives up some of what it owns.
LEMMA GiveUp ==
  ASSUME NEW H, NEW D, Owned(H, D), NEW p \in DOMAIN H, NEW B, B \subseteq H[p],
         NEW G, DOMAIN G = DOMAIN H,
         G[p] = H[p] \ B, \A r \in DOMAIN H \ {p} : G[r] = H[r]
  PROVE  Owned(G, D \ B)
BY DEF Owned

\* A place gives up one thing.
LEMMA GiveUpOne ==
  ASSUME NEW H, NEW D, Owned(H, D), NEW p \in DOMAIN H, NEW b \in H[p],
         NEW G, DOMAIN G = DOMAIN H,
         G[p] = H[p] \ {b}, \A r \in DOMAIN H \ {p} : G[r] = H[r]
  PROVE  Owned(G, D \ {b})
BY DEF Owned

\* A place comes to own something new.
LEMMA Acquire ==
  ASSUME NEW H, NEW D, Owned(H, D), NEW p \in DOMAIN H, NEW b, b \notin D,
         NEW G, DOMAIN G = DOMAIN H,
         G[p] = H[p] \cup {b}, \A r \in DOMAIN H \ {p} : G[r] = H[r]
  PROVE  Owned(G, D \cup {b})
BY DEF Owned

\* Nothing changes its owner.
LEMMA Keep ==
  ASSUME NEW H, NEW D, Owned(H, D),
         NEW G, DOMAIN G = DOMAIN H, \A r \in DOMAIN H : G[r] = H[r]
  PROVE  Owned(G, D)
BY DEF Owned

-----------------------------------------------------------------------------
(***************************************************************************)
(* The places of buffers and of connections                                *)
(***************************************************************************)
Fifo == <<"qfifo", 0>>
InTask(t) == <<"task", t>>
InConn(i) == <<"conn", i>>
InSocket(s) == <<"socket", s>>

BufferPlace ==
    {Fifo} \cup {InTask(t) : t \in Task} \cup {InConn(i) : i \in Slot}
    \cup {InSocket(s) : s \in ConnLess}

ConnPlace == {InTask(t) : t \in Task} \cup {InSocket(s) : s \in Service \ ConnLess}

\* The buffers that each place owns: router queue f, tasks T, connections C,
\* socket queues Q.
BuffersAt(f, T, C, Q) ==
    [p \in BufferPlace |->
        IF p[1] = "qfifo" THEN Elements(f)
        ELSE IF p[1] = "task" THEN {T[p[2]].buf} \ {None}
        ELSE IF p[1] = "conn" THEN Elements(C[p[2]].rx_queue)
        ELSE Elements(Q[p[2]])]

\* The connections that each place holds.
ConnsAt(T, Q) ==
    [p \in ConnPlace |->
        IF p[1] = "task" THEN {T[p[2]].conn} \ {None} ELSE Elements(Q[p[2]])]

OpenSlots == {i \in Slot : conn[i].open}

(***************************************************************************)
(* The inductive invariant                                                 *)
(***************************************************************************)
QueueTypes ==
    /\ \A s \in ConnLess : queue[s] \in Seq(1 .. Buffers)
    /\ \A s \in Service \ ConnLess : queue[s] \in Seq(Slot)

\* What a task holds where it stands.
Phase(t) ==
    LET pc == task[t].pc  k == task[t].conn  b == task[t].buf IN
    /\ pc = "idle" => k = None /\ b = None
    /\ t \in Client => pc # "serving"
    /\ t \in Service => pc \notin {"connected", "waiting"}
    /\ pc \in {"connected", "waiting", "serving"} => k \in Slot /\ b = None
    /\ pc = "done" => IF t \in ConnLess THEN k = None ELSE k \in Slot
    /\ pc = "done" /\ t \in Service => b # None
    /\ t \in ConnLess => pc # "serving"

\* A connection is posted to its socket in the step that opens it, and a closed
\* one holds no packets.
SlotOK(i) ==
    IF conn[i].open THEN conn[i].socket = None ELSE conn[i].rx_queue = <<>>

BuffersOwned ==
    /\ Distinct(qfifo) /\ \A i \in Slot : Distinct(conn[i].rx_queue)
    /\ \A s \in Service : Distinct(queue[s])
    /\ Owned(BuffersAt(qfifo, task, conn, queue), DOMAIN packet)

ConnsHeld == Owned(ConnsAt(task, queue), OpenSlots)

IInv ==
    /\ TypeOK /\ QueueTypes
    /\ \A t \in Task : Phase(t)
    /\ \A i \in Slot : SlotOK(i)
    /\ BuffersOwned /\ ConnsHeld /\ NoAmbiguity /\ Addressed

-----------------------------------------------------------------------------
(***************************************************************************)
(* One place changes, and the others own what they owned                   *)
(***************************************************************************)
\* The places are distinct.
LEMMA BufferPlaces ==
  /\ Fifo \in BufferPlace
  /\ \A t \in Task : InTask(t) \in BufferPlace /\ InTask(t) # Fifo
  /\ \A i \in Slot : InConn(i) \in BufferPlace /\ InConn(i) # Fifo
  /\ \A s \in ConnLess : InSocket(s) \in BufferPlace /\ InSocket(s) # Fifo
  /\ \A t \in Task, i \in Slot : InTask(t) # InConn(i)
  /\ \A t \in Task, s \in ConnLess : InTask(t) # InSocket(s)
  /\ \A i \in Slot, s \in ConnLess : InConn(i) # InSocket(s)
BY DEF BufferPlace, Fifo, InTask, InConn, InSocket

\* The places of connections: tasks, and sockets of services that accept connections.
LEMMA ConnPlaces ==
  /\ \A t \in Task : InTask(t) \in ConnPlace
  /\ \A s \in Service \ ConnLess : InSocket(s) \in ConnPlace
  /\ \A t \in Task, s \in Service \ ConnLess : InTask(t) # InSocket(s)
BY DEF ConnPlace, InTask, InSocket

\* What each place owns.
LEMMA BuffersAtLemma ==
  ASSUME NEW f, NEW T, NEW C, NEW Q
  PROVE  LET H == BuffersAt(f, T, C, Q) IN
         /\ DOMAIN H = BufferPlace
         /\ H[Fifo] = Elements(f)
         /\ \A t \in Task : H[InTask(t)] = {T[t].buf} \ {None}
         /\ \A i \in Slot : H[InConn(i)] = Elements(C[i].rx_queue)
         /\ \A s \in ConnLess : H[InSocket(s)] = Elements(Q[s])
BY DEF BuffersAt, BufferPlace, Fifo, InTask, InConn, InSocket

\* Which connections each place holds.
LEMMA ConnsAtLemma ==
  ASSUME NEW T, NEW Q
  PROVE  LET H == ConnsAt(T, Q) IN
         /\ DOMAIN H = ConnPlace
         /\ \A t \in Task : H[InTask(t)] = {T[t].conn} \ {None}
         /\ \A s \in Service \ ConnLess : H[InSocket(s)] = Elements(Q[s])
BY DEF ConnsAt, ConnPlace, InTask, InSocket

\* A place of buffers is the router's queue, a task, a connection or a socket.
LEMMA BufferPlaceCases ==
  ASSUME NEW p \in BufferPlace
  PROVE  \/ p = Fifo
         \/ \E t \in Task : p = InTask(t)
         \/ \E i \in Slot : p = InConn(i)
         \/ \E s \in ConnLess : p = InSocket(s)
<1>1. \/ p = Fifo \/ p \in {InTask(t) : t \in Task} \/ p \in {InConn(i) : i \in Slot}
      \/ p \in {InSocket(s) : s \in ConnLess}
  BY DEF BufferPlace
<1> QED  BY <1>1

\* A place of connections is a task or a socket that accepts.
LEMMA ConnPlaceCases ==
  ASSUME NEW p \in ConnPlace
  PROVE  \/ \E t \in Task : p = InTask(t)
         \/ \E s \in Service \ ConnLess : p = InSocket(s)
BY DEF ConnPlace

\* What each place owns before and after a step.
LEMMA BuffersNow ==
  LET H == BuffersAt(qfifo, task, conn, queue)
      G == BuffersAt(qfifo', task', conn', queue')
  IN  /\ DOMAIN H = BufferPlace /\ DOMAIN G = BufferPlace
      /\ H[Fifo] = Elements(qfifo) /\ G[Fifo] = Elements(qfifo')
      /\ \A t \in Task : /\ H[InTask(t)] = {task[t].buf} \ {None}
                         /\ G[InTask(t)] = {task'[t].buf} \ {None}
      /\ \A i \in Slot : /\ H[InConn(i)] = Elements(conn[i].rx_queue)
                         /\ G[InConn(i)] = Elements(conn'[i].rx_queue)
      /\ \A s \in ConnLess : /\ H[InSocket(s)] = Elements(queue[s])
                             /\ G[InSocket(s)] = Elements(queue'[s])
BY BuffersAtLemma

\* Which connections each place holds, before a step and after it.
LEMMA ConnsNow ==
  LET H == ConnsAt(task, queue)
      G == ConnsAt(task', queue')
  IN  /\ DOMAIN H = ConnPlace /\ DOMAIN G = ConnPlace
      /\ \A t \in Task : /\ H[InTask(t)] = {task[t].conn} \ {None}
                         /\ G[InTask(t)] = {task'[t].conn} \ {None}
      /\ \A s \in Service \ ConnLess : /\ H[InSocket(s)] = Elements(queue[s])
                                       /\ G[InSocket(s)] = Elements(queue'[s])
BY ConnsAtLemma

\* A place where nothing changes owns what it owned.
LEMMA BuffersElsewhere ==
  ASSUME NEW r \in BufferPlace,
         r = Fifo => qfifo' = qfifo,
         \A t \in Task : r = InTask(t) => task'[t].buf = task[t].buf,
         \A i \in Slot : r = InConn(i) => conn'[i].rx_queue = conn[i].rx_queue,
         \A s \in ConnLess : r = InSocket(s) => queue'[s] = queue[s]
  PROVE  BuffersAt(qfifo', task', conn', queue')[r] = BuffersAt(qfifo, task, conn, queue)[r]
<1> DEFINE H == BuffersAt(qfifo, task, conn, queue)
           G == BuffersAt(qfifo', task', conn', queue')
<1>1. CASE r = Fifo  BY <1>1, BuffersNow
<1>2. ASSUME NEW t \in Task, r = InTask(t) PROVE G[r] = H[r]
  <2>1. task'[t].buf = task[t].buf  BY <1>2
  <2>2. G[r] = {task'[t].buf} \ {None} /\ H[r] = {task[t].buf} \ {None}
    BY <1>2, BuffersNow
  <2> QED  BY <2>1, <2>2
<1>3. ASSUME NEW i \in Slot, r = InConn(i) PROVE G[r] = H[r]
  BY <1>3, BuffersNow
<1>4. ASSUME NEW s \in ConnLess, r = InSocket(s) PROVE G[r] = H[r]
  BY <1>4, BuffersNow
<1> HIDE DEF G, H
<1> QED  BY <1>1, <1>2, <1>3, <1>4, BufferPlaceCases DEF G, H

\* A place where nothing changes holds the connections it held.
LEMMA ConnsElsewhere ==
  ASSUME NEW r \in ConnPlace,
         \A t \in Task : r = InTask(t) => task'[t].conn = task[t].conn,
         \A s \in Service \ ConnLess : r = InSocket(s) => queue'[s] = queue[s]
  PROVE  ConnsAt(task', queue')[r] = ConnsAt(task, queue)[r]
<1> DEFINE H == ConnsAt(task, queue)
           G == ConnsAt(task', queue')
<1>1. ASSUME NEW t \in Task, r = InTask(t) PROVE G[r] = H[r]
  <2>1. task'[t].conn = task[t].conn  BY <1>1
  <2>2. G[r] = {task'[t].conn} \ {None} /\ H[r] = {task[t].conn} \ {None}
    BY <1>1, ConnsNow
  <2> QED  BY <2>1, <2>2
<1>2. ASSUME NEW s \in Service \ ConnLess, r = InSocket(s) PROVE G[r] = H[r]
  BY <1>2, ConnsNow
<1> QED  BY <1>1, <1>2, ConnPlaceCases

-----------------------------------------------------------------------------
(***************************************************************************)
(* What the searches of the code return                                    *)
(***************************************************************************)
\* A set of natural numbers that is not empty has a least element.
LEMMA LeastExists ==
  ASSUME NEW T \in SUBSET Nat, T # {}
  PROVE  \E x \in T : \A y \in T : x <= y
<1>1. \E x \in T : \A y \in T : ~(<<y, x>> \in OpToRel(<, Nat))
  BY NatLessThanWellFounded, WFMin
<1>2. \A x, y \in Nat : <<y, x>> \in OpToRel(<, Nat) <=> y < x
  BY DEF OpToRel
<1>3. \A x \in T : x \in Nat  OBVIOUS
<1>4. \A x, y \in Nat : ~(y < x) => x <= y  OBVIOUS
<1> QED  BY <1>1, <1>2, <1>3, <1>4

\* In a cycle of n, one of the positions of a set is the next one after k.
LEMMA NextExists ==
  ASSUME NEW n \in Nat, NEW l \in Nat, NEW k \in l + 1 .. l + n,
         NEW T, T \subseteq l + 1 .. l + n, T # {}
  PROVE  \E i \in T : \A j \in T : Ahead(i, k, n) <= Ahead(j, k, n)
<1> DEFINE A == {Ahead(i, k, n) : i \in T}
<1>1. \A i \in T : Ahead(i, k, n) \in Nat
  BY DEF Ahead
<1>2. A \in SUBSET Nat /\ A # {}
  BY <1>1
<1>3. PICK x \in A : \A y \in A : x <= y
  BY <1>2, LeastExists
<1>4. PICK i \in T : x = Ahead(i, k, n)
  OBVIOUS
<1> QED  BY <1>3, <1>4

\* csp_buffer_get returns a free buffer when there is one.
LEMMA FreeBufferLemma ==
  ASSUME Buffers \in Nat, Available # {}
  PROVE  FreeBuffer \in Available
<1>1. Available \in SUBSET Nat
  BY DEF Available
<1>2. \E b \in Available : \A a \in Available : b <= a
  BY <1>1, LeastExists
<1> QED  BY <1>2 DEF FreeBuffer

\* csp_conn_allocate gives a closed slot when there is one.
LEMMA NextSlotLemma ==
  ASSUME last_given \in Slot, FreeSlots # {}
  PROVE  NextSlot \in FreeSlots
<1>1. ConnMax \in Nat /\ 0 \in Nat /\ Slot = 0 + 1 .. 0 + ConnMax /\ FreeSlots \subseteq Slot
  BY NodeAssumption DEF Slot, FreeSlots
<1>2. \E i \in FreeSlots : \A j \in FreeSlots :
         Ahead(i, last_given, ConnMax) <= Ahead(j, last_given, ConnMax)
  BY <1>1, NextExists
<1> QED  BY <1>2 DEF NextSlot

\* csp_connect gives an ephemeral port that no open connection uses.
LEMMA NextPortLemma ==
  ASSUME sport \in Ephemeral, Candidates # {}
  PROVE  NextPort \in Unused
<1> DEFINE n == PortMax - PortMaxBind
<1>1. n \in Nat /\ PortMaxBind \in Nat /\ PortMaxBind + n = PortMax
  BY NodeAssumption
<1>2. Ephemeral = PortMaxBind + 1 .. PortMaxBind + n
  BY <1>1 DEF Ephemeral
<1>3. Candidates \subseteq Unused /\ Unused \subseteq Ephemeral
  BY DEF Candidates, Unused
<1> HIDE DEF n
<1>4. \E q \in Candidates : \A r \in Candidates : Ahead(q, sport, n) <= Ahead(r, sport, n)
  BY <1>1, <1>2, <1>3, NextExists
<1>5. NextPort \in Candidates
  BY <1>4 DEF NextPort, n
<1> QED  BY <1>3, <1>5

-----------------------------------------------------------------------------
(***************************************************************************)
(* What the invariant says of the state a step starts from                 *)
(***************************************************************************)
LEMMA FreeLemma ==
  ASSUME NEW P, NEW B
  PROVE  /\ DOMAIN Free(P, B) = DOMAIN P \ B
         /\ \A a \in DOMAIN P \ B : Free(P, B)[a] = P[a]
BY DEF Free

\* A packet written to buffer b is found there, and every other one where it was.
LEMMA StoreLemma ==
  ASSUME NEW P, NEW b, NEW p
  PROVE  /\ DOMAIN Store(P, b, p) = DOMAIN P \cup {b}
         /\ Store(P, b, p)[b] = p
         /\ \A a \in DOMAIN P \ {b} : Store(P, b, p)[a] = P[a]
BY DEF Store

\* Appending a buffer to a queue of buffers.
LEMMA AppendBuffer ==
  ASSUME NEW q \in Seq(1 .. Buffers), NEW b \in 1 .. Buffers
  PROVE  /\ Append(q, b) \in Seq(1 .. Buffers)
         /\ Elements(Append(q, b)) = Elements(q) \cup {b}
         /\ Distinct(q) /\ b \notin Elements(q) => Distinct(Append(q, b))
<1> DEFINE S == 1 .. Buffers
<1>1. q \in Seq(S) /\ b \in S  OBVIOUS
<1> HIDE DEF S
<1>2. /\ Append(q, b) \in Seq(S)
      /\ Elements(Append(q, b)) = Elements(q) \cup {b}
      /\ Distinct(q) /\ b \notin Elements(q) => Distinct(Append(q, b))
  BY <1>1, AppendElements
<1> QED  BY <1>2 DEF S

\* None is no task, no slot and no buffer.
LEMMA NoneLemma ==
  /\ None \notin Slot /\ None \notin 1 .. Buffers /\ None \notin Service
  /\ ConnLess \subseteq Service /\ ConnMax \in Nat /\ Buffers \in Nat
  /\ Client \cap Service = {}
BY NodeAssumption DEF Slot

\* The queues and their elements are of their types.
LEMMA QueueLemma ==
  ASSUME TypeOK, QueueTypes
  PROVE  /\ qfifo \in Seq(1 .. Buffers) /\ Elements(qfifo) \subseteq 1 .. Buffers
         /\ \A i \in Slot : /\ conn[i] \in Conn
                            /\ conn[i].rx_queue \in Seq(1 .. Buffers)
                            /\ Elements(conn[i].rx_queue) \subseteq 1 .. Buffers
         /\ \A s \in ConnLess : Elements(queue[s]) \subseteq 1 .. Buffers
         /\ \A s \in Service \ ConnLess : Elements(queue[s]) \subseteq Slot
         /\ \A t \in Task : /\ task[t] \in [pc : PC, conn : Slot \cup {None},
                                            buf : 1 .. Buffers \cup {None}, call : Nat]
                            /\ task[t].buf \in 1 .. Buffers \cup {None}
                            /\ task[t].conn \in Slot \cup {None}
<1>1. \A i \in Slot : conn[i] \in Conn /\ conn[i].rx_queue \in Seq(1 .. Buffers)
  BY DEF TypeOK, Conn
<1>2. qfifo \in Seq(1 .. Buffers)
  BY DEF TypeOK
<1>3. \A t \in Task : task[t] \in [pc : PC, conn : Slot \cup {None},
                                   buf : 1 .. Buffers \cup {None}, call : Nat]
  BY DEF TypeOK
<1> QED  BY <1>1, <1>2, <1>3, ElementsType DEF QueueTypes

\* A buffer that a place owns is in use, and no other place owns it.
LEMMA BufferLemma ==
  ASSUME IInv
  PROVE  /\ Elements(qfifo) \subseteq DOMAIN packet
         /\ \A t \in Task : task[t].buf # None => task[t].buf \in DOMAIN packet
         /\ \A i \in Slot : Elements(conn[i].rx_queue) \subseteq DOMAIN packet
         /\ \A s \in ConnLess : Elements(queue[s]) \subseteq DOMAIN packet
         /\ \A i \in Slot : Elements(conn[i].rx_queue) \cap Elements(qfifo) = {}
         /\ \A i \in Slot, t \in Task : task[t].buf \notin Elements(conn[i].rx_queue)
         /\ \A i, j \in Slot : i # j =>
               Elements(conn[i].rx_queue) \cap Elements(conn[j].rx_queue) = {}
<1> DEFINE H == BuffersAt(qfifo, task, conn, queue)
<1>1. /\ DOMAIN H = BufferPlace
      /\ H[Fifo] = Elements(qfifo)
      /\ \A t \in Task : H[InTask(t)] = {task[t].buf} \ {None}
      /\ \A i \in Slot : H[InConn(i)] = Elements(conn[i].rx_queue)
      /\ \A s \in ConnLess : H[InSocket(s)] = Elements(queue[s])
  BY BuffersAtLemma
<1>2. /\ \A p \in BufferPlace : H[p] \subseteq DOMAIN packet
      /\ \A p, q \in BufferPlace : p # q => H[p] \cap H[q] = {}
  BY <1>1 DEF IInv, BuffersOwned, Owned
<1>3. TypeOK /\ QueueTypes
  BY DEF IInv
<1> HIDE DEF H
<1>4. /\ Elements(qfifo) \subseteq DOMAIN packet
      /\ \A i \in Slot : Elements(conn[i].rx_queue) \subseteq DOMAIN packet
      /\ \A s \in ConnLess : Elements(queue[s]) \subseteq DOMAIN packet
  BY <1>1, <1>2, BufferPlaces
<1>5. ASSUME NEW t \in Task, task[t].buf # None PROVE task[t].buf \in DOMAIN packet
  <2>1. task[t].buf \in H[InTask(t)]
    BY <1>1, <1>5
  <2> QED  BY <2>1, <1>2, BufferPlaces
<1>6. ASSUME NEW i \in Slot, NEW t \in Task
      PROVE  task[t].buf \notin Elements(conn[i].rx_queue)
  <2>1. CASE task[t].buf = None
    BY <2>1, <1>3, QueueLemma, NoneLemma
  <2>2. CASE task[t].buf # None
    <3>1. task[t].buf \in H[InTask(t)]
      BY <1>1, <2>2
    <3>2. H[InTask(t)] \cap H[InConn(i)] = {}
      BY <1>2, BufferPlaces
    <3> QED  BY <3>1, <3>2, <1>1
  <2> QED  BY <2>1, <2>2
<1>7. ASSUME NEW i \in Slot PROVE Elements(conn[i].rx_queue) \cap Elements(qfifo) = {}
  <2>1. H[InConn(i)] \cap H[Fifo] = {}
    BY <1>2, BufferPlaces
  <2> QED  BY <2>1, <1>1
<1>8. ASSUME NEW i \in Slot, NEW j \in Slot, i # j
      PROVE  Elements(conn[i].rx_queue) \cap Elements(conn[j].rx_queue) = {}
  <2>1. InConn(i) # InConn(j)
    BY <1>8 DEF InConn
  <2>2. H[InConn(i)] \cap H[InConn(j)] = {}
    BY <2>1, <1>2, BufferPlaces
  <2> QED  BY <2>2, <1>1
<1> QED  BY <1>4, <1>5, <1>6, <1>7, <1>8

\* A connection that a task or a backlog holds is open.
LEMMA HolderLemma ==
  ASSUME IInv
  PROVE  /\ \A t \in Task : task[t].conn # None =>
               task[t].conn \in Slot /\ conn[task[t].conn].open
         /\ \A s \in Service \ ConnLess : Elements(queue[s]) \subseteq OpenSlots
<1> DEFINE H == ConnsAt(task, queue)
<1>1. /\ DOMAIN H = ConnPlace
      /\ \A t \in Task : H[InTask(t)] = {task[t].conn} \ {None}
      /\ \A s \in Service \ ConnLess : H[InSocket(s)] = Elements(queue[s])
  BY ConnsAtLemma
<1>2. \A p \in ConnPlace : H[p] \subseteq OpenSlots
  BY <1>1 DEF IInv, ConnsHeld, Owned
<1> HIDE DEF H
<1>3. ASSUME NEW t \in Task, task[t].conn # None PROVE task[t].conn \in OpenSlots
  <2>1. task[t].conn \in H[InTask(t)]
    BY <1>1, <1>3
  <2> QED  BY <2>1, <1>2, ConnPlaces
<1>4. \A s \in Service \ ConnLess : Elements(queue[s]) \subseteq OpenSlots
  BY <1>1, <1>2, ConnPlaces
<1> QED  BY <1>3, <1>4 DEF OpenSlots

\* A step that opens no connection keeps the open ones apart.
LEMMA NoAmbiguityKept ==
  ASSUME NoAmbiguity,
         \A i \in Slot : conn'[i].open =>
            /\ conn[i].open /\ conn'[i].src = conn[i].src
            /\ conn'[i].sport = conn[i].sport /\ conn'[i].dport = conn[i].dport
  PROVE  NoAmbiguity'
BY DEF NoAmbiguity

\* A step that adds no packet to a connection, and changes none of those there.
LEMMA AddressedKept ==
  ASSUME Addressed,
         \A i \in Slot : \A b \in Elements(conn'[i].rx_queue) :
            /\ b \in Elements(conn[i].rx_queue)
            /\ b \in DOMAIN packet' /\ packet'[b] = packet[b]
            /\ conn'[i].src = conn[i].src /\ conn'[i].sport = conn[i].sport
            /\ conn'[i].dport = conn[i].dport
            /\ conn'[i].need_hmac = conn[i].need_hmac
  PROVE  Addressed'
BY DEF Addressed

\* No buffer changes hands.
LEMMA BuffersKept ==
  ASSUME BuffersOwned, DOMAIN packet' = DOMAIN packet, qfifo' = qfifo,
         \A t \in Task : task'[t].buf = task[t].buf,
         \A i \in Slot : conn'[i].rx_queue = conn[i].rx_queue,
         \A s \in ConnLess : queue'[s] = queue[s],
         \A s \in Service : Distinct(queue'[s])
  PROVE  BuffersOwned'
<1> DEFINE H == BuffersAt(qfifo, task, conn, queue)
           G == BuffersAt(qfifo', task', conn', queue')
<1>1. DOMAIN G = BufferPlace /\ DOMAIN H = BufferPlace
  BY BuffersAtLemma
<1>2. \A r \in BufferPlace : G[r] = H[r]
  BY BuffersElsewhere
<1>3. Owned(H, DOMAIN packet)
  BY DEF BuffersOwned
<1> HIDE DEF G, H
<1>4. Owned(G, DOMAIN packet)
  BY <1>1, <1>2, <1>3, Keep
<1> QED  BY <1>4 DEF BuffersOwned, G

\* No connection changes hands.
LEMMA ConnsKept ==
  ASSUME ConnsHeld,
         \A t \in Task : task'[t].conn = task[t].conn,
         \A i \in Slot : conn'[i].open = conn[i].open,
         \A s \in Service \ ConnLess : queue'[s] = queue[s]
  PROVE  ConnsHeld'
<1> DEFINE H == ConnsAt(task, queue)
           G == ConnsAt(task', queue')
<1>1. DOMAIN G = ConnPlace /\ DOMAIN H = ConnPlace
  BY ConnsAtLemma
<1>2. \A r \in ConnPlace : G[r] = H[r]
  BY ConnsElsewhere
<1>3. Owned(H, OpenSlots)
  BY DEF ConnsHeld
<1> HIDE DEF G, H
<1>4. Owned(G, OpenSlots)
  BY <1>1, <1>2, <1>3, Keep
<1>5. OpenSlots' = OpenSlots
  BY DEF OpenSlots
<1> QED  BY <1>4, <1>5 DEF ConnsHeld, G

-----------------------------------------------------------------------------
(***************************************************************************)
(* The steps of the tasks                                                  *)
(***************************************************************************)
\* csp_read hands the first packet of the connection to the task.
LEMMA ReadPacketStep ==
  ASSUME IInv, NEW t \in Task, t \notin ConnLess, ReadPacket(t),
         task[t].pc \in {"waiting", "serving"},
         t \in Service => task[t].pc = "serving"
  PROVE  IInv'
<1> DEFINE i == task[t].conn
           k == conn[i]
           b == Head(k.rx_queue)
           H == BuffersAt(qfifo, task, conn, queue)
           G == BuffersAt(qfifo', task', conn', queue')
<1>1. TypeOK /\ QueueTypes /\ Phase(t)
  BY DEF IInv
<1>2. i \in Slot /\ task[t].buf = None
  BY <1>1 DEF Phase
<1>3. /\ k.open /\ k.rx_queue # <<>>
      /\ conn' = [conn EXCEPT ![i].rx_queue = Tail(@)]
      /\ task' = [task EXCEPT ![t].pc = "done", ![t].buf = b]
      /\ UNCHANGED <<last_given, sport, queue, qfifo, packet, calls, injected>>
  BY DEF ReadPacket
<1>4. k \in Conn /\ k.rx_queue \in Seq(1 .. Buffers) /\ Distinct(k.rx_queue)
  BY <1>1, <1>2, QueueLemma DEF IInv, BuffersOwned
<1>5. /\ Tail(k.rx_queue) \in Seq(1 .. Buffers) /\ b \in 1 .. Buffers /\ b \in Elements(k.rx_queue)
      /\ Distinct(Tail(k.rx_queue)) /\ Elements(Tail(k.rx_queue)) = Elements(k.rx_queue) \ {b}
  BY <1>3, <1>4, TailElements
<1> HIDE DEF b
<1>6. conn'[i] = [k EXCEPT !.rx_queue = Tail(k.rx_queue)] /\ \A j \in Slot \ {i} : conn'[j] = conn[j]
  BY <1>1, <1>2, <1>3 DEF TypeOK
<1>7. task'[t] = [task[t] EXCEPT !.pc = "done", !.buf = b] /\ \A u \in Task \ {t} : task'[u] = task[u]
  BY <1>1, <1>3 DEF TypeOK
<1>8. /\ task'[t].pc = "done" /\ task'[t].buf = b /\ task'[t].conn = i
      /\ conn'[i].rx_queue = Tail(k.rx_queue) /\ conn'[i].open = k.open
      /\ conn'[i].src = k.src /\ conn'[i].sport = k.sport /\ conn'[i].dport = k.dport
      /\ conn'[i].need_hmac = k.need_hmac /\ conn'[i].socket = k.socket
  BY <1>1, <1>4, <1>6, <1>7 DEF TypeOK, Conn
<1>9. TypeOK'
  <2>1. conn' \in [Slot -> Conn]
    BY <1>1, <1>2, <1>3, <1>4, <1>5 DEF TypeOK, Conn
  <2>2. task' \in [Task -> [pc : PC, conn : Slot \cup {None},
                             buf : 1 .. Buffers \cup {None}, call : Nat]]
    BY <1>1, <1>3, <1>5 DEF TypeOK, PC
  <2> QED  BY <1>1, <1>3, <2>1, <2>2 DEF TypeOK
<1>10. QueueTypes'
  BY <1>1, <1>3 DEF QueueTypes
<1>11. \A u \in Task : Phase(u)'
  <2>1. Phase(t)'
    BY <1>2, <1>5, <1>8, NoneLemma DEF Phase
  <2> QED  BY <2>1, <1>7 DEF IInv, Phase
<1>12. \A j \in Slot : SlotOK(j)'
  <2> TAKE j \in Slot
  <2>1. CASE j = i  BY <2>1, <1>2, <1>3, <1>8 DEF IInv, SlotOK
  <2>2. CASE j # i  BY <2>2, <1>6 DEF IInv, SlotOK
  <2> QED  BY <2>1, <2>2
<1>13. BuffersOwned'
  <2>1. Distinct(qfifo') /\ (\A s \in Service : Distinct(queue'[s]))
        /\ \A j \in Slot : Distinct(conn'[j].rx_queue)
    BY <1>3, <1>5, <1>6, <1>8 DEF IInv, BuffersOwned
  <2>2. /\ DOMAIN G = DOMAIN H /\ DOMAIN H = BufferPlace
        /\ G[InConn(i)] = H[InConn(i)] \ {b}
        /\ G[InTask(t)] = H[InTask(t)] \cup {b}
        /\ b \in H[InConn(i)]
    BY <1>2, <1>5, <1>8, BuffersAtLemma, NoneLemma
  <2>3. \A r \in BufferPlace \ {InConn(i), InTask(t)} : G[r] = H[r]
    BY <1>3, <1>6, <1>7, BuffersElsewhere
  <2>4. Owned(H, DOMAIN packet)
    BY DEF IInv, BuffersOwned
  <2>5. InConn(i) \in BufferPlace /\ InTask(t) \in BufferPlace /\ InConn(i) # InTask(t)
    BY <1>2, BufferPlaces
  <2> HIDE DEF G, H
  <2>6. Owned(G, DOMAIN packet)
    BY <2>2, <2>3, <2>4, <2>5, HandOver
  <2> QED  BY <1>3, <2>1, <2>6 DEF BuffersOwned, G
<1>14. ConnsHeld'
  BY <1>3, <1>6, <1>7, <1>8, ConnsKept DEF IInv
<1>15. NoAmbiguity'
  BY <1>6, <1>8, NoAmbiguityKept DEF IInv
<1>16. Addressed'
  <2>1. \A j \in Slot : \A a \in Elements(conn'[j].rx_queue) : a \in DOMAIN packet
    BY <1>2, <1>5, <1>6, <1>8, BufferLemma
  <2> QED  BY <1>3, <1>5, <1>6, <1>8, <2>1, AddressedKept DEF IInv
<1> QED  BY <1>9, <1>10, <1>11, <1>12, <1>13, <1>14, <1>15, <1>16 DEF IInv

\* csp_close: the task gives up its connection, the packets on it and its buffer.
LEMMA CloseStep ==
  ASSUME IInv, NEW t \in Task, Close(t), task[t].conn # None,
         t \in Service => task[t].pc = "serving"
  PROVE  IInv'
<1> DEFINE i == task[t].conn
           k == conn[i]
           H == BuffersAt(qfifo, task, conn, queue)
           G == BuffersAt(qfifo', task', conn', queue')
           B == Elements(k.rx_queue)
           M == ({task[t].buf} \ {None})
<1>1. TypeOK /\ QueueTypes /\ Phase(t)
  BY DEF IInv
<1>2. i \in Slot /\ k.open
  BY HolderLemma
<1>3. /\ conn' = [conn EXCEPT ![i].open = FALSE, ![i].rx_queue = <<>>]
      /\ packet' = Free(packet, B \cup {task[t].buf})
      /\ task' = [task EXCEPT ![t] = Idle]
      /\ UNCHANGED <<last_given, sport, queue, qfifo, calls, injected>>
  BY DEF Close, CloseConn
<1>4. k \in Conn
  BY <1>1, <1>2, QueueLemma
<1>5. <<>> \in Seq(1 .. Buffers)
  BY EmptySeq
<1>6. conn'[i] = [k EXCEPT !.open = FALSE, !.rx_queue = <<>>] /\ \A j \in Slot \ {i} : conn'[j] = conn[j]
  BY <1>1, <1>2, <1>3 DEF TypeOK
<1>7. task'[t] = Idle /\ \A u \in Task \ {t} : task'[u] = task[u]
  BY <1>1, <1>3 DEF TypeOK
<1>8. /\ task'[t].pc = "idle" /\ task'[t].buf = None /\ task'[t].conn = None
      /\ conn'[i].rx_queue = <<>> /\ conn'[i].open = FALSE
  BY <1>4, <1>6, <1>7 DEF Idle, Conn
<1>9. DOMAIN packet \subseteq 1 .. Buffers /\ None \notin DOMAIN packet
  BY <1>1, NoneLemma DEF TypeOK
<1>10. /\ DOMAIN packet' = (DOMAIN packet \ B) \ M
       /\ \A a \in DOMAIN packet' : packet'[a] = packet[a]
  <2> HIDE DEF B
  <2>1. /\ DOMAIN packet' = DOMAIN packet \ (B \cup {task[t].buf})
        /\ \A a \in DOMAIN packet \ (B \cup {task[t].buf}) : packet'[a] = packet[a]
    BY <1>3, FreeLemma
  <2> QED  BY <1>9, <2>1
<1>11. TypeOK'
  <2>1. conn' \in [Slot -> Conn]
    BY <1>1, <1>2, <1>3, <1>4, <1>5 DEF TypeOK, Conn
  <2>2. Idle \in [pc : PC, conn : Slot \cup {None}, buf : 1 .. Buffers \cup {None}, call : Nat]
    BY DEF Idle, PC
  <2>3. task' \in [Task -> [pc : PC, conn : Slot \cup {None},
                             buf : 1 .. Buffers \cup {None}, call : Nat]]
    BY <1>1, <1>3, <2>2 DEF TypeOK
  <2>4. DOMAIN packet' \subseteq 1 .. Buffers /\ \A a \in DOMAIN packet' : packet'[a] \in Packet
    BY <1>1, <1>10 DEF TypeOK
  <2> QED  BY <1>1, <1>3, <2>1, <2>3, <2>4 DEF TypeOK
<1>12. QueueTypes'
  BY <1>1, <1>3 DEF QueueTypes
<1>13. \A u \in Task : Phase(u)'
  <2> TAKE u \in Task
  <2>1. CASE u = t  BY <2>1, <1>8 DEF Phase
  <2>2. CASE u # t  BY <2>2, <1>7 DEF IInv, Phase
  <2> QED  BY <2>1, <2>2
<1>14. \A j \in Slot : SlotOK(j)'
  <2> TAKE j \in Slot
  <2>1. CASE j = i  BY <2>1, <1>8 DEF SlotOK
  <2>2. CASE j # i  BY <2>2, <1>6 DEF IInv, SlotOK
  <2> QED  BY <2>1, <2>2
<1>15. BuffersOwned'
  <2>1. Distinct(qfifo') /\ (\A s \in Service : Distinct(queue'[s]))
        /\ \A j \in Slot : Distinct(conn'[j].rx_queue)
    BY <1>3, <1>6, <1>8, EmptyElements DEF IInv, BuffersOwned
  <2>2. /\ DOMAIN G = DOMAIN H /\ DOMAIN H = BufferPlace
        /\ H[InConn(i)] = B /\ G[InConn(i)] = {} /\ H[InTask(t)] = M /\ G[InTask(t)] = {}
    BY <1>2, <1>8, BuffersNow, EmptyElements
  <2>3. \A r \in BufferPlace \ {InConn(i), InTask(t)} : G[r] = H[r]
    BY <1>3, <1>6, <1>7, BuffersElsewhere
  <2>4. Owned(H, DOMAIN packet)
    BY DEF IInv, BuffersOwned
  <2>5. InConn(i) \in BufferPlace /\ InTask(t) \in BufferPlace /\ InConn(i) # InTask(t)
    BY <1>2, BufferPlaces
  <2> HIDE DEF G, H, B, M
  <2> DEFINE F == [r \in BufferPlace |-> IF r = InConn(i) THEN {} ELSE H[r]]
             E == DOMAIN packet \ B
  <2>6. Owned(F, E)
    BY <2>2, <2>4, <2>5, GiveUp
  <2>7. /\ F[InTask(t)] = M /\ DOMAIN F = BufferPlace /\ DOMAIN G = DOMAIN F
        /\ G[InTask(t)] = F[InTask(t)] \ M /\ M \subseteq F[InTask(t)]
        /\ InTask(t) \in DOMAIN F
        /\ \A r \in DOMAIN F \ {InTask(t)} : G[r] = F[r]
    BY <2>2, <2>3, <2>5
  <2> HIDE DEF F, E
  <2>8. Owned(G, E \ M)
    BY <2>6, <2>7, GiveUp
  <2> QED  BY <1>10, <2>1, <2>8 DEF BuffersOwned, G, E
<1>16. ConnsHeld'
  <2> DEFINE P == ConnsAt(task, queue)
             R == ConnsAt(task', queue')
  <2>1. /\ DOMAIN R = DOMAIN P /\ DOMAIN P = ConnPlace /\ InTask(t) \in ConnPlace
        /\ P[InTask(t)] = {i} /\ R[InTask(t)] = {}
    BY <1>2, <1>8, ConnsNow, ConnPlaces, NoneLemma
  <2>2. \A r \in ConnPlace \ {InTask(t)} : R[r] = P[r]
    BY <1>3, <1>7, ConnsElsewhere
  <2>3. Owned(P, OpenSlots)
    BY DEF IInv, ConnsHeld
  <2> HIDE DEF P, R
  <2>4. Owned(R, OpenSlots \ {i})
    BY <2>1, <2>2, <2>3, GiveUp
  <2>5. OpenSlots' = OpenSlots \ {i}
    BY <1>2, <1>6, <1>8 DEF OpenSlots
  <2> QED  BY <2>4, <2>5 DEF ConnsHeld, R
<1>17. NoAmbiguity'
  BY <1>6, <1>8, NoAmbiguityKept DEF IInv
<1>18. Addressed'
  <2> HIDE DEF B, M
  <2>1. ASSUME NEW j \in Slot, NEW a \in Elements(conn'[j].rx_queue)
        PROVE  j # i /\ a \in DOMAIN packet'
    <3>1. j # i
      BY <1>8, EmptyElements
    <3>2. a \in DOMAIN packet /\ a \notin B /\ a \notin M
      BY <1>2, <1>6, <3>1, BufferLemma DEF B, M
    <3> QED  BY <3>1, <3>2, <1>10
  <2> QED  BY <1>6, <1>10, <2>1, AddressedKept DEF IInv
<1> QED  BY <1>11, <1>12, <1>13, <1>14, <1>15, <1>16, <1>17, <1>18 DEF IInv

\* What csp_send_direct or csp_qfifo_write does with buffer b holding p.
Sent(b, p) ==
    \/ qfifo' = Append(qfifo, b) /\ packet' = Store(packet, b, p)
    \/ qfifo' = qfifo /\ packet' = Free(packet, {b})

\* csp_send_direct hands buffer b to the router or frees it, as an error does.
LEMMA SentLemma ==
  ASSUME NEW b, NEW p
  PROVE  /\ FifoWrite(b, p) => Sent(b, p)
         /\ SendDirect(b, p) => Sent(b, p)
         /\ qfifo' = qfifo /\ packet' = Free(packet, {b}) => Sent(b, p)
BY DEF Sent, FifoWrite, SendDirect

\* The types after a packet is sent.
LEMMA SentType ==
  ASSUME TypeOK, NEW b \in 1 .. Buffers, NEW p \in Packet, Sent(b, p)
  PROVE  /\ qfifo' \in Seq(1 .. Buffers) /\ DOMAIN packet' \subseteq 1 .. Buffers
         /\ \A a \in DOMAIN packet' : packet'[a] \in Packet
         /\ \A a \in DOMAIN packet \ {b} : a \in DOMAIN packet' /\ packet'[a] = packet[a]
<1>1. /\ qfifo \in Seq(1 .. Buffers) /\ DOMAIN packet \subseteq 1 .. Buffers
      /\ \A a \in DOMAIN packet : packet[a] \in Packet
  BY DEF TypeOK
<1>2. CASE qfifo' = Append(qfifo, b) /\ packet' = Store(packet, b, p)
  <2>1. qfifo' \in Seq(1 .. Buffers)
    BY <1>1, <1>2, AppendBuffer
  <2>2. /\ DOMAIN packet' = DOMAIN packet \cup {b} /\ packet'[b] = p
        /\ \A a \in DOMAIN packet \ {b} : packet'[a] = packet[a]
    BY <1>2 DEF Store
  <2> QED  BY <1>1, <2>1, <2>2
<1>3. CASE qfifo' = qfifo /\ packet' = Free(packet, {b})
  BY <1>1, <1>3 DEF Free
<1> QED  BY <1>2, <1>3 DEF Sent

\* A new buffer is sent: csp_buffer_get has just returned it.
LEMMA SendFresh ==
  ASSUME IInv, NEW b \in 1 .. Buffers \ DOMAIN packet, NEW p, Sent(b, p),
         conn' = conn, queue' = queue, \A t \in Task : task'[t].buf = task[t].buf
  PROVE  BuffersOwned'
<1> DEFINE H == BuffersAt(qfifo, task, conn, queue)
           G == BuffersAt(qfifo', task', conn', queue')
<1>1. TypeOK /\ QueueTypes /\ BuffersOwned
  BY DEF IInv
<1>2. CASE qfifo' = Append(qfifo, b) /\ packet' = Store(packet, b, p)
  <2>1. qfifo \in Seq(1 .. Buffers) /\ b \notin Elements(qfifo)
    BY <1>1, BufferLemma DEF TypeOK
  <2>2. Elements(qfifo') = Elements(qfifo) \cup {b} /\ Distinct(qfifo')
    BY <1>1, <1>2, <2>1, AppendBuffer DEF BuffersOwned
  <2>3. /\ DOMAIN G = DOMAIN H /\ DOMAIN H = BufferPlace /\ Fifo \in BufferPlace
        /\ G[Fifo] = H[Fifo] \cup {b}
    BY <2>2, BuffersNow, BufferPlaces
  <2>4. \A r \in BufferPlace \ {Fifo} : G[r] = H[r]
    BY BuffersElsewhere
  <2>5. Owned(H, DOMAIN packet)
    BY <1>1 DEF BuffersOwned
  <2> HIDE DEF G, H
  <2>6. Owned(G, DOMAIN packet \cup {b})
    BY <2>3, <2>4, <2>5, Acquire
  <2>7. DOMAIN packet' = DOMAIN packet \cup {b}
    BY <1>2, StoreLemma
  <2> QED  BY <1>1, <2>2, <2>6, <2>7 DEF BuffersOwned, G
<1>3. CASE qfifo' = qfifo /\ packet' = Free(packet, {b})
  <2>1. DOMAIN packet' = DOMAIN packet
    BY <1>3 DEF Free
  <2> QED  BY <1>1, <1>3, <2>1, BuffersKept DEF BuffersOwned
<1> QED  BY <1>2, <1>3 DEF Sent

\* A task sends the buffer it owns: the router's queue owns it, or nobody.
LEMMA SendOwned ==
  ASSUME IInv, NEW t \in Task, NEW b \in 1 .. Buffers, b = task[t].buf, NEW p, Sent(b, p),
         conn' = conn, queue' = queue, task'[t].buf = None,
         \A u \in Task \ {t} : task'[u].buf = task[u].buf
  PROVE  BuffersOwned'
<1> DEFINE H == BuffersAt(qfifo, task, conn, queue)
           G == BuffersAt(qfifo', task', conn', queue')
<1>1. TypeOK /\ QueueTypes /\ BuffersOwned
  BY DEF IInv
<1>2. /\ DOMAIN G = DOMAIN H /\ DOMAIN H = BufferPlace
      /\ Fifo \in BufferPlace /\ InTask(t) \in BufferPlace /\ InTask(t) # Fifo
      /\ H[InTask(t)] = {b} /\ G[InTask(t)] = {}
      /\ H[Fifo] = Elements(qfifo) /\ G[Fifo] = Elements(qfifo')
  BY BuffersNow, BufferPlaces, NoneLemma
<1>3. Owned(H, DOMAIN packet)
  BY <1>1 DEF BuffersOwned
<1>4. CASE qfifo' = Append(qfifo, b) /\ packet' = Store(packet, b, p)
  <2>1. qfifo \in Seq(1 .. Buffers) /\ b \in DOMAIN packet /\ b \notin Elements(qfifo)
    <3> HIDE DEF G, H
    <3> QED  BY <1>1, <1>2, <1>3 DEF TypeOK, Owned
  <2>2. Elements(qfifo') = Elements(qfifo) \cup {b} /\ Distinct(qfifo')
    BY <1>1, <1>4, <2>1, AppendBuffer DEF BuffersOwned
  <2>3. \A r \in BufferPlace \ {Fifo, InTask(t)} : G[r] = H[r]
    BY BuffersElsewhere
  <2>4. DOMAIN packet' = DOMAIN packet
    BY <1>4, <2>1 DEF Store
  <2> HIDE DEF G, H
  <2>5. Owned(G, DOMAIN packet)
    BY <1>2, <1>3, <2>2, <2>3, HandOver
  <2> QED  BY <1>1, <2>2, <2>4, <2>5 DEF BuffersOwned, G
<1>5. CASE qfifo' = qfifo /\ packet' = Free(packet, {b})
  <2>1. \A r \in BufferPlace \ {InTask(t)} : G[r] = H[r]
    BY <1>5, BuffersElsewhere
  <2>2. DOMAIN packet' = DOMAIN packet \ {b}
    BY <1>5 DEF Free
  <2> HIDE DEF G, H
  <2>3. Owned(G, DOMAIN packet \ {b})
    BY <1>2, <1>3, <2>1, GiveUpOne
  <2> QED  BY <1>1, <1>5, <2>2, <2>3 DEF BuffersOwned, G
<1> QED  BY <1>4, <1>5 DEF Sent

\* Sending changes no packet that waits on a connection.
LEMMA SentAddressed ==
  ASSUME IInv, NEW b \in 1 .. Buffers, NEW p \in Packet, Sent(b, p), conn' = conn,
         \A i \in Slot : b \notin Elements(conn[i].rx_queue)
  PROVE  Addressed'
<1>1. \A a \in DOMAIN packet \ {b} : a \in DOMAIN packet' /\ packet'[a] = packet[a]
  BY SentType DEF IInv
<1>2. \A i \in Slot : Elements(conn[i].rx_queue) \subseteq DOMAIN packet \ {b}
  BY BufferLemma
<1> QED  BY <1>1, <1>2, AddressedKept DEF IInv

\* A task goes on with what it holds: NoBuffer, ReadTimeout.
LEMMA GotoStep ==
  ASSUME IInv, NEW c \in Client, At(c, "connected") \/ At(c, "waiting"), Goto(c, "done"),
         UNCHANGED <<conn, last_given, sport, queue, qfifo, packet, calls, injected>>
  PROVE  IInv'
<1>1. TypeOK /\ QueueTypes /\ Phase(c) /\ c \in Task /\ c \notin ConnLess /\ c \notin Service
  BY NoneLemma DEF IInv, Task
<1>2. task' = [task EXCEPT ![c].pc = "done"]
  BY DEF Goto
<1>3. task'[c] = [task[c] EXCEPT !.pc = "done"] /\ \A u \in Task \ {c} : task'[u] = task[u]
  BY <1>1, <1>2 DEF TypeOK
<1>4. task'[c].pc = "done" /\ task'[c].conn = task[c].conn /\ task'[c].buf = task[c].buf
  BY <1>1, <1>3 DEF TypeOK
<1>5. TypeOK'
  <2>1. task' \in [Task -> [pc : PC, conn : Slot \cup {None},
                             buf : 1 .. Buffers \cup {None}, call : Nat]]
    BY <1>1, <1>2 DEF TypeOK, PC
  <2> QED  BY <1>1, <2>1 DEF TypeOK
<1>6. \A u \in Task : Phase(u)'
  <2> TAKE u \in Task
  <2>1. CASE u = c  BY <2>1, <1>1, <1>4 DEF Phase, At
  <2>2. CASE u # c  BY <2>2, <1>3 DEF IInv, Phase
  <2> QED  BY <2>1, <2>2
<1>7. BuffersOwned'
  BY <1>3, <1>4, BuffersKept DEF IInv, BuffersOwned
<1>8. ConnsHeld'
  BY <1>3, <1>4, ConnsKept DEF IInv
<1> QED  BY <1>5, <1>6, <1>7, <1>8 DEF IInv, QueueTypes, SlotOK, NoAmbiguity, Addressed

\* csp_transaction_persistent sends its request.
LEMMA RequestStep ==
  ASSUME IInv, NEW c \in Client, Request(c)
  PROVE  IInv'
<1> DEFINE k == conn[task[c].conn]
           p == [src |-> "me", dst |-> k.src, sport |-> k.dport, dport |-> k.sport,
                 hmac |-> k.out_hmac, call |-> task[c].call]
<1>1. TypeOK /\ QueueTypes /\ Phase(c) /\ c \in Task /\ c \notin ConnLess /\ c \notin Service
  BY NoneLemma DEF IInv, Task
<1>2. /\ task[c].pc = "connected" /\ Available # {} /\ SendDirect(FreeBuffer, p)
      /\ task' = [task EXCEPT ![c].pc = "waiting"]
      /\ UNCHANGED <<conn, last_given, sport, queue, calls, injected>>
  BY DEF Request, At, Goto
<1>3. task[c].conn \in Slot /\ k \in Conn
  BY <1>1, <1>2, QueueLemma DEF Phase
<1>4. p \in Packet
  <2>1. task[c].call \in Nat
    BY <1>1, QueueLemma
  <2> QED  BY <1>3, <2>1 DEF Packet, Conn, Host
<1>5. FreeBuffer \in 1 .. Buffers \ DOMAIN packet
  BY <1>2, FreeBufferLemma, NoneLemma DEF Available
<1> HIDE DEF p
<1>6. Sent(FreeBuffer, p)
  BY <1>2, SentLemma
<1>7. task'[c] = [task[c] EXCEPT !.pc = "waiting"] /\ \A u \in Task \ {c} : task'[u] = task[u]
  BY <1>1, <1>2 DEF TypeOK
<1>8. task'[c].pc = "waiting" /\ task'[c].conn = task[c].conn /\ task'[c].buf = task[c].buf
  BY <1>1, <1>7 DEF TypeOK
<1>9. TypeOK'
  <2>1. task' \in [Task -> [pc : PC, conn : Slot \cup {None},
                             buf : 1 .. Buffers \cup {None}, call : Nat]]
    BY <1>1, <1>2 DEF TypeOK, PC
  <2>2. /\ qfifo' \in Seq(1 .. Buffers) /\ DOMAIN packet' \subseteq 1 .. Buffers
        /\ \A a \in DOMAIN packet' : packet'[a] \in Packet
    BY <1>1, <1>4, <1>5, <1>6, SentType
  <2> QED  BY <1>1, <1>2, <2>1, <2>2 DEF TypeOK
<1>10. \A u \in Task : Phase(u)'
  <2> TAKE u \in Task
  <2>1. CASE u = c  BY <2>1, <1>1, <1>2, <1>8 DEF Phase
  <2>2. CASE u # c  BY <2>2, <1>7 DEF IInv, Phase
  <2> QED  BY <2>1, <2>2
<1>11. BuffersOwned'
  BY <1>2, <1>5, <1>6, <1>7, <1>8, SendFresh
<1>12. ConnsHeld'
  BY <1>2, <1>7, <1>8, ConnsKept DEF IInv
<1>13. Addressed'
  <2>1. \A i \in Slot : FreeBuffer \notin Elements(conn[i].rx_queue)
    BY <1>5, BufferLemma
  <2> QED  BY <1>2, <1>4, <1>5, <1>6, <2>1, SentAddressed
<1> QED  BY <1>2, <1>9, <1>10, <1>11, <1>12, <1>13
         DEF IInv, QueueTypes, SlotOK, NoAmbiguity

\* A packet arrives from the other node.
LEMMA InjectStep ==
  ASSUME IInv, NEW p \in Injectable, Inject(p)
  PROVE  IInv'
<1>1. TypeOK
  BY DEF IInv
<1>2. /\ injected < MaxInject /\ injected' = injected + 1 /\ Available # {}
      /\ FifoWrite(FreeBuffer, p)
      /\ UNCHANGED <<conn, last_given, sport, queue, task, calls>>
  BY DEF Inject
<1>3. FreeBuffer \in 1 .. Buffers \ DOMAIN packet
  BY <1>2, FreeBufferLemma, NoneLemma DEF Available
<1>4. p \in Packet
  BY NodeAssumption DEF Injectable, Packet, Host
<1>5. Sent(FreeBuffer, p)
  BY <1>2, SentLemma
<1>6. TypeOK'
  <2>1. /\ qfifo' \in Seq(1 .. Buffers) /\ DOMAIN packet' \subseteq 1 .. Buffers
        /\ \A a \in DOMAIN packet' : packet'[a] \in Packet
    BY <1>1, <1>3, <1>4, <1>5, SentType
  <2>2. injected' \in 0 .. MaxInject
    BY <1>1, <1>2, NodeAssumption DEF TypeOK
  <2> QED  BY <1>1, <1>2, <2>1, <2>2 DEF TypeOK
<1>7. BuffersOwned'
  BY <1>2, <1>3, <1>5, SendFresh
<1>8. ConnsHeld'
  BY <1>2, ConnsKept DEF IInv
<1>9. Addressed'
  <2>1. \A i \in Slot : FreeBuffer \notin Elements(conn[i].rx_queue)
    BY <1>3, BufferLemma
  <2> QED  BY <1>2, <1>3, <1>4, <1>5, <2>1, SentAddressed
<1> QED  BY <1>2, <1>6, <1>7, <1>8, <1>9
         DEF IInv, QueueTypes, Phase, SlotOK, NoAmbiguity

\* A service sends, or frees, the packet that it owns.
LEMMA ReplyStep ==
  ASSUME IInv, NEW s \in Service, At(s, "done"), NEW p \in Packet, Sent(task[s].buf, p),
         NEW r, task' = [task EXCEPT ![s] = r],
         r \in [pc : PC, conn : Slot \cup {None}, buf : {None}, call : Nat],
         r.conn = task[s].conn,
         IF s \in ConnLess THEN r.pc = "idle" ELSE r.pc = "serving",
         UNCHANGED <<conn, last_given, sport, queue, calls, injected>>
  PROVE  IInv'
<1> DEFINE b == task[s].buf
<1>1. TypeOK /\ QueueTypes /\ Phase(s) /\ s \in Task /\ s \notin Client
  BY NoneLemma DEF IInv, Task
<1>2. task[s].pc = "done" /\ b # None /\ b \in 1 .. Buffers
  BY <1>1, QueueLemma DEF Phase, At
<1>3. task'[s] = r /\ \A u \in Task \ {s} : task'[u] = task[u]
  BY <1>1 DEF TypeOK
<1>4. r.buf = None
  OBVIOUS
<1> HIDE DEF b
<1>5. Sent(b, p)
  BY DEF b
<1>6. TypeOK'
  <2>1. r \in [pc : PC, conn : Slot \cup {None}, buf : 1 .. Buffers \cup {None}, call : Nat]
    OBVIOUS
  <2>2. task' \in [Task -> [pc : PC, conn : Slot \cup {None},
                             buf : 1 .. Buffers \cup {None}, call : Nat]]
    BY <1>1, <2>1 DEF TypeOK
  <2>3. /\ qfifo' \in Seq(1 .. Buffers) /\ DOMAIN packet' \subseteq 1 .. Buffers
        /\ \A a \in DOMAIN packet' : packet'[a] \in Packet
    BY <1>1, <1>2, <1>5, SentType
  <2> QED  BY <1>1, <2>2, <2>3 DEF TypeOK
<1>7. \A u \in Task : Phase(u)'
  <2> TAKE u \in Task
  <2>1. CASE u = s  BY <2>1, <1>1, <1>2, <1>3, <1>4 DEF Phase
  <2>2. CASE u # s  BY <2>2, <1>3 DEF IInv, Phase
  <2> QED  BY <2>1, <2>2
<1>8. BuffersOwned'
  BY <1>1, <1>2, <1>3, <1>4, <1>5, SendOwned DEF b
<1>9. ConnsHeld'
  BY <1>3, ConnsKept DEF IInv
<1>10. Addressed'
  <2>1. \A i \in Slot : b \notin Elements(conn[i].rx_queue)
    BY <1>1, BufferLemma DEF b
  <2> QED  BY <1>2, <1>5, <2>1, SentAddressed
<1> QED  BY <1>1, <1>6, <1>7, <1>8, <1>9, <1>10 DEF IInv, QueueTypes, SlotOK, NoAmbiguity

\* A service answers on its connection, or drops the packet.
LEMMA ServerReplyStep ==
  ASSUME IInv, NEW s \in Service, ServerReply(s)
  PROVE  IInv'
<1> DEFINE k == conn[task[s].conn]
           b == task[s].buf
           p == [packet[b] EXCEPT !.src = "me", !.dst = k.src, !.sport = k.dport,
                                  !.dport = k.sport, !.hmac = k.out_hmac]
           r == [task[s] EXCEPT !.pc = "serving", !.buf = None]
<1>1. TypeOK /\ QueueTypes /\ Phase(s) /\ s \in Task
  BY DEF IInv, Task
<1>2. /\ s \notin ConnLess /\ At(s, "done")
      /\ SendDirect(b, p) \/ (qfifo' = qfifo /\ packet' = Free(packet, {b}))
      /\ task' = [task EXCEPT ![s].pc = "serving", ![s].buf = None]
      /\ UNCHANGED <<conn, last_given, sport, queue, calls, injected>>
  BY DEF ServerReply
<1>3. task[s].conn \in Slot /\ b # None
  BY <1>1, <1>2 DEF Phase, At
<1>4. k \in Conn /\ packet[b] \in Packet
  <2>1. b \in DOMAIN packet  BY <1>1, <1>3, BufferLemma
  <2> QED  BY <1>1, <1>3, <2>1, QueueLemma DEF TypeOK
<1>5. p \in Packet
  BY <1>4 DEF Packet, Conn, Host
<1> HIDE DEF p
<1>6. Sent(b, p)
  BY <1>2, SentLemma
<1>7. /\ task[s] \in [pc : PC, conn : Slot \cup {None}, buf : 1 .. Buffers \cup {None}, call : Nat]
      /\ task' = [task EXCEPT ![s] = r]
  BY <1>1, <1>2, QueueLemma DEF TypeOK
<1>8. /\ r \in [pc : PC, conn : Slot \cup {None}, buf : {None}, call : Nat]
      /\ r.conn = task[s].conn /\ r.pc = "serving"
  BY <1>7 DEF PC
<1> HIDE DEF r
<1> QED  BY <1>2, <1>5, <1>6, <1>7, <1>8, ReplyStep

\* A connection-less service answers with csp_sendto_reply.
LEMMA SendtoReplyStep ==
  ASSUME IInv, NEW s \in Service, SendtoReply(s)
  PROVE  IInv'
<1> DEFINE b == task[s].buf
           q == packet[b]
           p == [q EXCEPT !.src = "me", !.dst = q.src, !.sport = q.dport,
                          !.dport = q.sport, !.hmac = s \in Hmac]
<1>1. TypeOK /\ QueueTypes /\ Phase(s) /\ s \in Task
  BY DEF IInv, Task
<1>2. /\ s \in ConnLess /\ At(s, "done") /\ SendDirect(b, p)
      /\ task' = [task EXCEPT ![s] = Idle]
      /\ UNCHANGED <<conn, last_given, sport, queue, calls, injected>>
  BY DEF SendtoReply
<1>3. task[s].conn = None /\ b # None
  BY <1>1, <1>2 DEF Phase, At
<1>4. q \in Packet
  <2>1. b \in DOMAIN packet  BY <1>1, <1>3, BufferLemma
  <2> QED  BY <1>1, <2>1 DEF TypeOK
<1>5. p \in Packet
  <2> DEFINE h == s \in Hmac
  <2>1. h \in BOOLEAN  OBVIOUS
  <2> HIDE DEF h
  <2>2. [q EXCEPT !.src = "me", !.dst = q.src, !.sport = q.dport, !.dport = q.sport,
                  !.hmac = h] \in Packet
    BY <1>4, <2>1 DEF Packet, Host
  <2> QED  BY <2>2 DEF h
<1> HIDE DEF p
<1>6. Sent(b, p)
  BY <1>2, SentLemma
<1>7. /\ Idle \in [pc : PC, conn : Slot \cup {None}, buf : {None}, call : Nat]
      /\ Idle.conn = task[s].conn /\ Idle.pc = "idle"
  BY <1>3 DEF Idle, PC
<1> QED  BY <1>2, <1>5, <1>6, <1>7, ReplyStep

\* csp_recvfrom hands the first packet of a connection-less socket to the task.
LEMMA RecvFromStep ==
  ASSUME IInv, NEW s \in Service, RecvFrom(s)
  PROVE  IInv'
<1> DEFINE b == Head(queue[s])
           H == BuffersAt(qfifo, task, conn, queue)
           G == BuffersAt(qfifo', task', conn', queue')
<1>1. TypeOK /\ QueueTypes /\ Phase(s) /\ s \in Task /\ s \notin Client
  BY NoneLemma DEF IInv, Task
<1>2. /\ s \in ConnLess /\ task[s].pc = "idle" /\ queue[s] # <<>>
      /\ task' = [task EXCEPT ![s].pc = "done", ![s].buf = b]
      /\ queue' = [queue EXCEPT ![s] = Tail(@)]
      /\ UNCHANGED <<conn, last_given, sport, qfifo, packet, calls, injected>>
  BY DEF RecvFrom, At
<1>3. queue[s] \in Seq(1 .. Buffers) /\ Distinct(queue[s])
  BY <1>1, <1>2 DEF QueueTypes, IInv, BuffersOwned
<1>4. /\ Tail(queue[s]) \in Seq(1 .. Buffers) /\ b \in 1 .. Buffers /\ b \in Elements(queue[s])
      /\ Distinct(Tail(queue[s])) /\ Elements(Tail(queue[s])) = Elements(queue[s]) \ {b}
  BY <1>2, <1>3, TailElements
<1> HIDE DEF b
<1>5. queue'[s] = Tail(queue[s]) /\ \A u \in Service \ {s} : queue'[u] = queue[u]
  BY <1>1, <1>2 DEF TypeOK
<1>6. task'[s] = [task[s] EXCEPT !.pc = "done", !.buf = b] /\ \A u \in Task \ {s} : task'[u] = task[u]
  BY <1>1, <1>2 DEF TypeOK
<1>7. task'[s].pc = "done" /\ task'[s].buf = b /\ task'[s].conn = None /\ task[s].conn = None
      /\ task[s].buf = None
  BY <1>1, <1>2, <1>6 DEF TypeOK, Phase
<1>8. QueueTypes'
  BY <1>1, <1>2, <1>4, <1>5 DEF QueueTypes
<1>9. TypeOK'
  <2>1. task' \in [Task -> [pc : PC, conn : Slot \cup {None},
                             buf : 1 .. Buffers \cup {None}, call : Nat]]
    BY <1>1, <1>2, <1>4 DEF TypeOK, PC
  <2>2. Tail(queue[s]) \in Seq(Slot \cup 1 .. Buffers)
    BY <1>1, <1>2, TailElements DEF TypeOK
  <2>3. queue' \in [Service -> Seq(Slot \cup 1 .. Buffers)]
    BY <1>1, <1>2, <2>2 DEF TypeOK
  <2> QED  BY <1>1, <1>2, <2>1, <2>3 DEF TypeOK
<1>10. \A u \in Task : Phase(u)'
  <2> TAKE u \in Task
  <2>1. CASE u = s  BY <2>1, <1>1, <1>2, <1>4, <1>7, NoneLemma DEF Phase
  <2>2. CASE u # s  BY <2>2, <1>6 DEF IInv, Phase
  <2> QED  BY <2>1, <2>2
<1>11. BuffersOwned'
  <2>1. Distinct(qfifo') /\ (\A u \in Service : Distinct(queue'[u]))
        /\ \A j \in Slot : Distinct(conn'[j].rx_queue)
    BY <1>2, <1>4, <1>5 DEF IInv, BuffersOwned
  <2>2. /\ DOMAIN G = DOMAIN H /\ DOMAIN H = BufferPlace
        /\ G[InSocket(s)] = H[InSocket(s)] \ {b}
        /\ G[InTask(s)] = H[InTask(s)] \cup {b}
        /\ b \in H[InSocket(s)]
    BY <1>1, <1>2, <1>4, <1>5, <1>7, BuffersNow, NoneLemma
  <2>3. \A r \in BufferPlace \ {InSocket(s), InTask(s)} : G[r] = H[r]
    BY <1>2, <1>5, <1>6, BuffersElsewhere, NoneLemma
  <2>4. Owned(H, DOMAIN packet)
    BY DEF IInv, BuffersOwned
  <2>5. InSocket(s) \in BufferPlace /\ InTask(s) \in BufferPlace /\ InSocket(s) # InTask(s)
    BY <1>1, <1>2, BufferPlaces
  <2> HIDE DEF G, H
  <2>6. Owned(G, DOMAIN packet)
    BY <2>2, <2>3, <2>4, <2>5, HandOver
  <2> QED  BY <1>2, <2>1, <2>6 DEF BuffersOwned, G
<1>12. ConnsHeld'
  BY <1>2, <1>5, <1>6, <1>7, ConnsKept DEF IInv
<1> QED  BY <1>2, <1>8, <1>9, <1>10, <1>11, <1>12 DEF IInv, SlotOK, NoAmbiguity, Addressed

\* csp_accept hands the first connection of the backlog to the task.
LEMMA AcceptStep ==
  ASSUME IInv, NEW s \in Service, Accept(s)
  PROVE  IInv'
<1> DEFINE i == Head(queue[s])
           H == ConnsAt(task, queue)
           G == ConnsAt(task', queue')
<1>1. TypeOK /\ QueueTypes /\ Phase(s) /\ s \in Task /\ s \notin Client
  BY NoneLemma DEF IInv, Task
<1>2. /\ s \notin ConnLess /\ task[s].pc = "idle" /\ queue[s] # <<>>
      /\ task' = [task EXCEPT ![s].pc = "serving", ![s].conn = i]
      /\ queue' = [queue EXCEPT ![s] = Tail(@)]
      /\ UNCHANGED <<conn, last_given, sport, qfifo, packet, calls, injected>>
  BY DEF Accept, At
<1>3. queue[s] \in Seq(Slot) /\ Distinct(queue[s])
  BY <1>1, <1>2 DEF QueueTypes, IInv, BuffersOwned
<1>4. /\ Tail(queue[s]) \in Seq(Slot) /\ i \in Slot /\ i \in Elements(queue[s])
      /\ Distinct(Tail(queue[s])) /\ Elements(Tail(queue[s])) = Elements(queue[s]) \ {i}
  BY <1>2, <1>3, TailElements
<1> HIDE DEF i
<1>5. queue'[s] = Tail(queue[s]) /\ \A u \in Service \ {s} : queue'[u] = queue[u]
  BY <1>1, <1>2 DEF TypeOK
<1>6. task'[s] = [task[s] EXCEPT !.pc = "serving", !.conn = i] /\ \A u \in Task \ {s} : task'[u] = task[u]
  BY <1>1, <1>2 DEF TypeOK
<1>7. task'[s].pc = "serving" /\ task'[s].conn = i /\ task'[s].buf = None
      /\ task[s].conn = None /\ task[s].buf = None
  BY <1>1, <1>2, <1>6 DEF TypeOK, Phase
<1>8. QueueTypes'
  BY <1>1, <1>2, <1>4, <1>5, NoneLemma DEF QueueTypes
<1>9. TypeOK'
  <2>1. task' \in [Task -> [pc : PC, conn : Slot \cup {None},
                             buf : 1 .. Buffers \cup {None}, call : Nat]]
    BY <1>1, <1>2, <1>4 DEF TypeOK, PC
  <2>2. Tail(queue[s]) \in Seq(Slot \cup 1 .. Buffers)
    BY <1>1, <1>2, TailElements DEF TypeOK
  <2>3. queue' \in [Service -> Seq(Slot \cup 1 .. Buffers)]
    BY <1>1, <1>2, <2>2 DEF TypeOK
  <2> QED  BY <1>1, <1>2, <2>1, <2>3 DEF TypeOK
<1>10. \A u \in Task : Phase(u)'
  <2> TAKE u \in Task
  <2>1. CASE u = s  BY <2>1, <1>1, <1>2, <1>4, <1>7, NoneLemma DEF Phase
  <2>2. CASE u # s  BY <2>2, <1>6 DEF IInv, Phase
  <2> QED  BY <2>1, <2>2
<1>11. BuffersOwned'
  <2>1. \A u \in ConnLess : queue'[u] = queue[u]
    BY <1>2, <1>5, NoneLemma
  <2>2. \A u \in Service : Distinct(queue'[u])
    BY <1>4, <1>5 DEF IInv, BuffersOwned
  <2> QED  BY <1>2, <1>6, <1>7, <2>1, <2>2, BuffersKept DEF IInv
<1>12. ConnsHeld'
  <2>1. /\ DOMAIN G = DOMAIN H /\ DOMAIN H = ConnPlace
        /\ H[InSocket(s)] = Elements(queue[s]) /\ G[InSocket(s)] = Elements(Tail(queue[s]))
        /\ H[InTask(s)] = {None} \ {None} /\ G[InTask(s)] = {i} \ {None}
    BY <1>1, <1>2, <1>5, <1>7, ConnsNow
  <2>2. /\ G[InSocket(s)] = H[InSocket(s)] \ {i}
        /\ G[InTask(s)] = H[InTask(s)] \cup {i}
        /\ i \in H[InSocket(s)]
    BY <1>4, <2>1, NoneLemma
  <2>3. \A r \in ConnPlace \ {InSocket(s), InTask(s)} : G[r] = H[r]
    BY <1>2, <1>5, <1>6, ConnsElsewhere
  <2>4. Owned(H, OpenSlots)
    BY DEF IInv, ConnsHeld
  <2>5. InSocket(s) \in ConnPlace /\ InTask(s) \in ConnPlace /\ InSocket(s) # InTask(s)
    BY <1>1, <1>2, ConnPlaces
  <2> HIDE DEF G, H
  <2>6. Owned(G, OpenSlots)
    BY <2>1, <2>2, <2>3, <2>4, <2>5, HandOver
  <2>7. OpenSlots' = OpenSlots
    BY <1>2 DEF OpenSlots
  <2> QED  BY <2>6, <2>7 DEF ConnsHeld, G
<1> QED  BY <1>2, <1>8, <1>9, <1>10, <1>11, <1>12 DEF IInv, SlotOK, NoAmbiguity, Addressed

\* csp_connect takes the next unused port and a free slot, or gives up.
LEMMA ConnectStep ==
  ASSUME IInv, NEW c \in Client, Connect(c)
  PROVE  IInv'
<1> DEFINE i == NextSlot
           new == [Closed EXCEPT !.open = TRUE, !.sport = Dport[c], !.dport = NextPort,
                                 !.out_hmac = c \in Hmac, !.need_hmac = c \in Hmac]
           r == [pc |-> "connected", conn |-> i, buf |-> None, call |-> calls + 1]
<1>1. TypeOK /\ QueueTypes /\ Phase(c) /\ c \in Task /\ c \notin ConnLess /\ c \notin Service
  BY NoneLemma DEF IInv, Task
<1>2. task[c].pc = "idle" /\ task[c].conn = None /\ task[c].buf = None
  BY <1>1 DEF Connect, At, Phase
<1>3. /\ calls < MaxCalls /\ calls' = calls + 1 /\ calls' \in 0 .. MaxCalls
      /\ UNCHANGED <<queue, qfifo, injected>>
  BY <1>1, NodeAssumption DEF Connect, TypeOK
<1>4. CASE Candidates = {}
  <2>1. UNCHANGED <<conn, last_given, sport, packet, task>>
    BY <1>4 DEF Connect
  <2>2. TypeOK'
    BY <1>1, <1>3, <2>1 DEF TypeOK
  <2> QED  BY <1>3, <2>1, <2>2 DEF IInv, QueueTypes, Phase, SlotOK, BuffersOwned, ConnsHeld,
                                   OpenSlots, NoAmbiguity, Addressed
<1>5. CASE Candidates # {}
  <2>1. sport' = NextPort /\ NextPort \in Unused
    BY <1>1, <1>5, NextPortLemma DEF Connect, TypeOK
  <2>2. NextPort \in Ephemeral /\ \A j \in Slot : conn[j].open => conn[j].dport # NextPort
    BY <2>1 DEF Unused
  <2>3. CASE FreeSlots = {}
    <3>1. UNCHANGED <<conn, last_given, packet, task>>
      BY <1>5, <2>3 DEF Connect
    <3>2. TypeOK'
      BY <1>1, <1>3, <2>1, <2>2, <3>1 DEF TypeOK
    <3> QED  BY <1>3, <3>1, <3>2 DEF IInv, QueueTypes, Phase, SlotOK, BuffersOwned, ConnsHeld,
                                     OpenSlots, NoAmbiguity, Addressed
  <2>4. CASE FreeSlots # {}
    <3>1. i \in FreeSlots
      BY <1>1, <2>4, NextSlotLemma DEF TypeOK
    <3>2. i \in Slot /\ ~conn[i].open /\ conn[i].rx_queue = <<>>
      BY <3>1 DEF FreeSlots, IInv, SlotOK
    <3>3. /\ conn' = [conn EXCEPT ![i] = new]
          /\ packet' = Free(packet, Elements(conn[i].rx_queue))
          /\ last_given' = i
          /\ task' = [task EXCEPT ![c] = r]
      BY <1>5, <2>4 DEF Connect
    <3>4. DOMAIN packet' = DOMAIN packet /\ \A a \in DOMAIN packet : packet'[a] = packet[a]
      BY <3>2, <3>3, EmptyElements DEF Free
    <3>5. /\ new \in Conn /\ new.open /\ new.rx_queue = <<>> /\ new.socket = None
          /\ new.dport = NextPort
      <4> DEFINE h == c \in Hmac
      <4>1. h \in BOOLEAN  OBVIOUS
      <4>2. Dport[c] \in 0 .. PortMax /\ NextPort \in 0 .. PortMax
        BY <2>2, NodeAssumption DEF Ephemeral
      <4>3. <<>> \in Seq(1 .. Buffers)
        BY EmptySeq
      <4> HIDE DEF h
      <4> DEFINE k == [Closed EXCEPT !.open = TRUE, !.sport = Dport[c], !.dport = NextPort,
                                     !.out_hmac = h, !.need_hmac = h]
      <4>4. Closed \in Conn /\ Closed.rx_queue = <<>> /\ Closed.socket = None
        BY <4>3, NodeAssumption DEF Closed, Conn, Host
      <4>5. /\ k \in Conn /\ k.open /\ k.rx_queue = <<>> /\ k.socket = None
            /\ k.dport = NextPort
        BY <4>1, <4>2, <4>4 DEF Conn
      <4>6. k = new
        BY DEF h
      <4> QED  BY <4>5, <4>6
    <3> HIDE DEF new, i
    <3>6. conn'[i] = new /\ \A j \in Slot \ {i} : conn'[j] = conn[j]
      BY <1>1, <3>2, <3>3 DEF TypeOK
    <3>7. task'[c] = r /\ \A u \in Task \ {c} : task'[u] = task[u]
      BY <1>1, <3>3 DEF TypeOK
    <3>8. TypeOK'
      <4>1. conn' \in [Slot -> Conn]
        BY <1>1, <3>3, <3>5 DEF TypeOK
      <4>2. r \in [pc : PC, conn : Slot \cup {None}, buf : 1 .. Buffers \cup {None}, call : Nat]
        <5>1. calls + 1 \in Nat  BY <1>1, NodeAssumption DEF TypeOK
        <5> QED  BY <3>2, <5>1 DEF PC
      <4>3. task' \in [Task -> [pc : PC, conn : Slot \cup {None},
                                 buf : 1 .. Buffers \cup {None}, call : Nat]]
        BY <1>1, <3>3, <4>2 DEF TypeOK
      <4>4. DOMAIN packet' \subseteq 1 .. Buffers /\ \A a \in DOMAIN packet' : packet'[a] \in Packet
        BY <1>1, <3>4 DEF TypeOK
      <4> QED  BY <1>1, <1>3, <2>1, <2>2, <3>2, <3>3, <4>1, <4>3, <4>4 DEF TypeOK
    <3>9. \A u \in Task : Phase(u)'
      <4> TAKE u \in Task
      <4>1. CASE u = c  BY <4>1, <1>1, <3>2, <3>7, NoneLemma DEF Phase
      <4>2. CASE u # c  BY <4>2, <3>7 DEF IInv, Phase
      <4> QED  BY <4>1, <4>2
    <3>10. \A j \in Slot : SlotOK(j)'
      <4> TAKE j \in Slot
      <4>1. CASE j = i  BY <4>1, <3>5, <3>6 DEF SlotOK
      <4>2. CASE j # i  BY <4>2, <3>6 DEF IInv, SlotOK
      <4> QED  BY <4>1, <4>2
    <3>11. BuffersOwned'
      <4>1. \A j \in Slot : conn'[j].rx_queue = conn[j].rx_queue
        BY <3>2, <3>5, <3>6
      <4>2. \A u \in Task : task'[u].buf = task[u].buf
        BY <1>2, <3>7
      <4> QED  BY <1>3, <3>4, <4>1, <4>2, BuffersKept DEF IInv, BuffersOwned
    <3>12. ConnsHeld'
      <4> DEFINE P == ConnsAt(task, queue)
                 R == ConnsAt(task', queue')
      <4>1. /\ DOMAIN R = DOMAIN P /\ DOMAIN P = ConnPlace /\ InTask(c) \in ConnPlace
            /\ P[InTask(c)] = {None} \ {None} /\ R[InTask(c)] = {i} \ {None}
        BY <1>1, <1>2, <3>7, ConnsNow, ConnPlaces
      <4>2. R[InTask(c)] = P[InTask(c)] \cup {i}
        BY <3>2, <4>1, NoneLemma
      <4>3. \A x \in ConnPlace \ {InTask(c)} : R[x] = P[x]
        BY <1>3, <3>7, ConnsElsewhere
      <4>4. Owned(P, OpenSlots) /\ i \notin OpenSlots
        BY <3>2 DEF IInv, ConnsHeld, OpenSlots
      <4> HIDE DEF P, R
      <4>5. Owned(R, OpenSlots \cup {i})
        BY <4>1, <4>2, <4>3, <4>4, Acquire
      <4>6. OpenSlots' = OpenSlots \cup {i}
        BY <3>2, <3>5, <3>6 DEF OpenSlots
      <4> QED  BY <4>5, <4>6 DEF ConnsHeld, R
    <3>13. NoAmbiguity'
      <4>1. \A j \in Slot : j # i /\ conn'[j].open => conn'[j].dport # conn'[i].dport
        BY <2>2, <3>5, <3>6
      <4> QED  BY <3>6, <4>1 DEF IInv, NoAmbiguity
    <3>14. Addressed'
      <4>1. ASSUME NEW j \in Slot, NEW a \in Elements(conn'[j].rx_queue)
            PROVE  j # i /\ a \in Elements(conn[j].rx_queue) /\ a \in DOMAIN packet
        <5>1. j # i
          BY <3>5, <3>6, EmptyElements
        <5> QED  BY <5>1, <3>6, BufferLemma
      <4> QED  BY <3>4, <3>6, <4>1, AddressedKept DEF IInv
    <3> QED  BY <1>3, <3>8, <3>9, <3>10, <3>11, <3>12, <3>13, <3>14 DEF IInv, QueueTypes
  <2> QED  BY <2>3, <2>4
<1> QED  BY <1>4, <1>5

-----------------------------------------------------------------------------
(***************************************************************************)
(* The steps of the router                                                 *)
(***************************************************************************)
\* The buffer the router takes from its queue is in use, and nobody else's.
LEMMA TakeLemma ==
  ASSUME IInv, NEW b \in DOMAIN packet, NEW p, Take(b, p)
  PROVE  /\ b \in 1 .. Buffers /\ p = packet[b] /\ p \in Packet
         /\ b \in Elements(qfifo) /\ qfifo' \in Seq(1 .. Buffers) /\ Distinct(qfifo')
         /\ Elements(qfifo') = Elements(qfifo) \ {b}
         /\ \A i \in Slot : b \notin Elements(conn[i].rx_queue)
         /\ \A s \in ConnLess : b \notin Elements(queue[s])
<1>1. TypeOK /\ Distinct(qfifo)
  BY DEF IInv, BuffersOwned
<1>2. /\ qfifo # <<>> /\ b = Head(qfifo) /\ p = packet[b] /\ qfifo' = Tail(qfifo)
      /\ qfifo \in Seq(1 .. Buffers)
  BY <1>1 DEF Take, TypeOK
<1>3. /\ qfifo' \in Seq(1 .. Buffers) /\ b \in Elements(qfifo) /\ Distinct(qfifo')
      /\ Elements(qfifo') = Elements(qfifo) \ {b}
  BY <1>1, <1>2, TailElements
<1>4. b \in 1 .. Buffers /\ p \in Packet
  BY <1>1, <1>2 DEF TypeOK
<1>5. \A i \in Slot : b \notin Elements(conn[i].rx_queue)
  BY <1>3, BufferLemma
<1>6. \A s \in ConnLess : b \notin Elements(queue[s])
  <2> DEFINE H == BuffersAt(qfifo, task, conn, queue)
  <2>1. /\ H[Fifo] = Elements(qfifo) /\ DOMAIN H = BufferPlace
        /\ \A s \in ConnLess : H[InSocket(s)] = Elements(queue[s])
    BY BuffersAtLemma
  <2>2. Owned(H, DOMAIN packet)
    BY DEF IInv, BuffersOwned
  <2> HIDE DEF H
  <2>3. \A s \in ConnLess : H[Fifo] \cap H[InSocket(s)] = {}
    BY <2>1, <2>2, BufferPlaces DEF Owned
  <2> QED  BY <1>3, <2>1, <2>3
<1> QED  BY <1>2, <1>3, <1>4, <1>5, <1>6

\* The router drops the packet it has taken.
LEMMA DroppedStep ==
  ASSUME IInv, NEW b \in DOMAIN packet, NEW p, Take(b, p), Dropped(b)
  PROVE  IInv'
<1> DEFINE H == BuffersAt(qfifo, task, conn, queue)
           G == BuffersAt(qfifo', task', conn', queue')
<1>1. TypeOK /\ BuffersOwned
  BY DEF IInv
<1>2. /\ packet' = Free(packet, {b})
      /\ UNCHANGED <<conn, last_given, sport, queue, task, calls, injected>>
  BY DEF Dropped
<1>3. DOMAIN packet' = DOMAIN packet \ {b} /\ \A a \in DOMAIN packet' : packet'[a] = packet[a]
  BY <1>2 DEF Free
<1>4. TypeOK'
  BY <1>1, <1>2, <1>3, TakeLemma DEF TypeOK
<1>5. BuffersOwned'
  <2>1. /\ DOMAIN G = DOMAIN H /\ DOMAIN H = BufferPlace /\ Fifo \in BufferPlace
        /\ G[Fifo] = H[Fifo] \ {b} /\ b \in H[Fifo]
    BY BuffersNow, BufferPlaces, TakeLemma
  <2>2. \A r \in BufferPlace \ {Fifo} : G[r] = H[r]
    BY <1>2, BuffersElsewhere
  <2>3. Owned(H, DOMAIN packet)
    BY <1>1 DEF BuffersOwned
  <2>4. Distinct(qfifo')
    BY TakeLemma
  <2> HIDE DEF G, H
  <2>5. Owned(G, DOMAIN packet \ {b})
    BY <2>1, <2>2, <2>3, GiveUpOne
  <2> QED  BY <1>1, <1>2, <1>3, <2>4, <2>5 DEF BuffersOwned, G
<1>6. ConnsHeld'
  BY <1>2, ConnsKept DEF IInv
<1>7. Addressed'
  <2>1. ASSUME NEW j \in Slot, NEW a \in Elements(conn[j].rx_queue) PROVE a \in DOMAIN packet'
    BY <1>3, BufferLemma, TakeLemma
  <2> QED  BY <1>2, <1>3, <2>1, AddressedKept DEF IInv
<1> QED  BY <1>2, <1>4, <1>5, <1>6, <1>7 DEF IInv, QueueTypes, Phase, SlotOK, NoAmbiguity

\* The socket of a port is a service, or None.
LEMMA GetSocketLemma ==
  ASSUME NEW port \in 0 .. PortMax
  PROVE  /\ GetSocket(port) \in Service \cup {None}
         /\ GetSocket(port) # None => port \notin Ephemeral
<1>1. /\ PortMaxBind \in Nat /\ PortMax \in Nat
      /\ \A p \in 0 .. PortMaxBind + 1 : Bound[p] \in Service \cup {None}
  BY NodeAssumption
<1>2. CASE port > PortMaxBind
  BY <1>2 DEF GetSocket
<1>3. CASE ~(port > PortMaxBind)
  <2>1. port \in 0 .. PortMaxBind + 1 /\ PortMaxBind + 1 \in 0 .. PortMaxBind + 1
        /\ port \notin Ephemeral
    BY <1>1, <1>3 DEF Ephemeral
  <2> QED  BY <1>1, <1>3, <2>1 DEF GetSocket
<1> QED  BY <1>2, <1>3

\* The router hands the packet to a connection-less socket.
LEMMA DeliverStep ==
  ASSUME IInv, NEW b \in DOMAIN packet, NEW p, Deliver(b, p)
  PROVE  IInv'
<1> DEFINE s == GetSocket(p.dport)
           H == BuffersAt(qfifo, task, conn, queue)
           G == BuffersAt(qfifo', task', conn', queue')
<1>1. TypeOK /\ QueueTypes /\ BuffersOwned
  BY DEF IInv
<1>2. /\ Take(b, p) /\ s \in ConnLess
      /\ queue' = [queue EXCEPT ![s] = Append(@, b)]
      /\ UNCHANGED <<conn, last_given, sport, packet, task, calls, injected>>
  BY DEF Deliver, ForMe, Bare
<1>3. /\ b \in 1 .. Buffers /\ b \in Elements(qfifo) /\ qfifo' \in Seq(1 .. Buffers)
      /\ Distinct(qfifo') /\ Elements(qfifo') = Elements(qfifo) \ {b}
      /\ b \notin Elements(queue[s])
  BY <1>2, TakeLemma
<1> HIDE DEF s
<1>4. s \in Service /\ queue[s] \in Seq(1 .. Buffers) /\ Distinct(queue[s])
      /\ queue[s] \in Seq(Slot \cup 1 .. Buffers)
  BY <1>1, <1>2, NoneLemma DEF TypeOK, QueueTypes, BuffersOwned
<1>5. queue'[s] = Append(queue[s], b) /\ \A u \in Service \ {s} : queue'[u] = queue[u]
  BY <1>1, <1>2, <1>4 DEF TypeOK
<1>6. /\ queue'[s] \in Seq(1 .. Buffers) /\ Distinct(queue'[s])
      /\ Elements(queue'[s]) = Elements(queue[s]) \cup {b}
  BY <1>3, <1>4, <1>5, AppendBuffer
<1>7. QueueTypes'
  BY <1>1, <1>2, <1>5, <1>6, NoneLemma DEF QueueTypes
<1>8. TypeOK'
  <2> DEFINE S == Slot \cup 1 .. Buffers
  <2>1. b \in S /\ queue[s] \in Seq(S)
    BY <1>3, <1>4
  <2> HIDE DEF S
  <2>2. Append(queue[s], b) \in Seq(S)
    BY <2>1, AppendElements
  <2>3. queue' \in [Service -> Seq(S)]
    BY <1>1, <1>2, <2>2 DEF TypeOK, S
  <2> QED  BY <1>1, <1>2, <1>3, <2>3 DEF TypeOK, S
<1>9. BuffersOwned'
  <2>1. /\ DOMAIN G = DOMAIN H /\ DOMAIN H = BufferPlace
        /\ G[Fifo] = H[Fifo] \ {b} /\ b \in H[Fifo]
        /\ G[InSocket(s)] = H[InSocket(s)] \cup {b}
    BY <1>2, <1>3, <1>6, BuffersNow
  <2>2. Fifo \in BufferPlace /\ InSocket(s) \in BufferPlace /\ Fifo # InSocket(s)
    BY <1>2, BufferPlaces
  <2>3. \A r \in BufferPlace \ {Fifo, InSocket(s)} : G[r] = H[r]
    BY <1>2, <1>5, BuffersElsewhere, NoneLemma
  <2>4. Owned(H, DOMAIN packet)
    BY <1>1 DEF BuffersOwned
  <2>5. \A u \in Service : Distinct(queue'[u])
    BY <1>1, <1>5, <1>6 DEF BuffersOwned
  <2> HIDE DEF G, H
  <2>6. Owned(G, DOMAIN packet)
    BY <2>1, <2>2, <2>3, <2>4, HandOver
  <2> QED  BY <1>1, <1>2, <1>3, <2>5, <2>6 DEF BuffersOwned, G
<1>10. ConnsHeld'
  <2>1. \A u \in Service \ ConnLess : queue'[u] = queue[u]
    BY <1>2, <1>5
  <2> QED  BY <1>2, <2>1, ConnsKept DEF IInv
<1> QED  BY <1>2, <1>7, <1>8, <1>9, <1>10 DEF IInv, Phase, SlotOK, NoAmbiguity, Addressed

\* The router hands the packet to an open connection, or drops it.
LEMMA ReceiveStep ==
  ASSUME IInv, NEW b \in DOMAIN packet, NEW p, NEW i \in Slot, Receive(i, b, p)
  PROVE  IInv'
<1> DEFINE k == conn[i]
           H == BuffersAt(qfifo, task, conn, queue)
           G == BuffersAt(qfifo', task', conn', queue')
<1>1. TypeOK /\ QueueTypes /\ BuffersOwned /\ SlotOK(i)
  BY DEF IInv
<1>2. /\ Take(b, p) /\ k.open /\ k.src = p.src /\ k.sport = p.sport /\ k.dport = p.dport
      /\ (k.need_hmac => p.hmac)
      /\ UdpNewPacket(i, k, b)
      /\ UNCHANGED <<last_given, sport, task, calls, injected>>
  BY DEF Receive, ForMe, Find, Matches, Secure
<1>3. k \in Conn /\ k.socket = None /\ k.rx_queue \in Seq(1 .. Buffers) /\ Distinct(k.rx_queue)
  BY <1>1, <1>2, QueueLemma DEF SlotOK, BuffersOwned
<1>4. CASE ~(Len(k.rx_queue) < ConnQueueLength)
  <2>1. /\ conn' = [conn EXCEPT ![i] = k] /\ queue' = queue /\ packet' = Free(packet, {b})
    BY <1>2, <1>4 DEF UdpNewPacket
  <2>2. conn' = conn
    BY <1>1, <2>1 DEF TypeOK
  <2>3. Dropped(b)
    BY <1>2, <2>1, <2>2 DEF Dropped
  <2> QED  BY <1>2, <2>3, DroppedStep
<1>5. CASE Len(k.rx_queue) < ConnQueueLength
  <2> DEFINE new == [k EXCEPT !.socket = None, !.rx_queue = Append(@, b)]
  <2>1. /\ conn' = [conn EXCEPT ![i] = new] /\ queue' = queue /\ packet' = Free(packet, {})
    BY <1>2, <1>3, <1>5 DEF UdpNewPacket
  <2>2. DOMAIN packet' = DOMAIN packet /\ \A a \in DOMAIN packet : packet'[a] = packet[a]
    BY <2>1 DEF Free
  <2>3. /\ b \in 1 .. Buffers /\ b \in Elements(qfifo) /\ qfifo' \in Seq(1 .. Buffers)
        /\ Distinct(qfifo') /\ Elements(qfifo') = Elements(qfifo) \ {b}
        /\ b \notin Elements(k.rx_queue) /\ p = packet[b]
    BY <1>2, TakeLemma
  <2>4. /\ Append(k.rx_queue, b) \in Seq(1 .. Buffers) /\ Distinct(Append(k.rx_queue, b))
        /\ Elements(Append(k.rx_queue, b)) = Elements(k.rx_queue) \cup {b}
    BY <1>3, <2>3, AppendBuffer
  <2>5. /\ new \in Conn /\ new.open = k.open /\ new.src = k.src /\ new.sport = k.sport
        /\ new.dport = k.dport /\ new.need_hmac = k.need_hmac /\ new.socket = None
        /\ new.rx_queue = Append(k.rx_queue, b)
    BY <1>3, <2>4 DEF Conn
  <2> HIDE DEF new
  <2>6. conn'[i] = new /\ \A j \in Slot \ {i} : conn'[j] = conn[j]
    BY <1>1, <2>1 DEF TypeOK
  <2>7. TypeOK'
    <3>1. conn' \in [Slot -> Conn]
      BY <1>1, <2>1, <2>5 DEF TypeOK
    <3> QED  BY <1>1, <1>2, <2>1, <2>2, <2>3, <3>1 DEF TypeOK
  <2>8. \A j \in Slot : SlotOK(j)'
    <3> TAKE j \in Slot
    <3>1. CASE j = i  BY <3>1, <1>2, <2>5, <2>6 DEF SlotOK
    <3>2. CASE j # i  BY <3>2, <2>6 DEF IInv, SlotOK
    <3> QED  BY <3>1, <3>2
  <2>9. BuffersOwned'
    <3>1. /\ DOMAIN G = DOMAIN H /\ DOMAIN H = BufferPlace
          /\ G[Fifo] = H[Fifo] \ {b} /\ b \in H[Fifo]
          /\ G[InConn(i)] = H[InConn(i)] \cup {b}
      BY <2>3, <2>4, <2>5, <2>6, BuffersNow
    <3>2. Fifo \in BufferPlace /\ InConn(i) \in BufferPlace /\ Fifo # InConn(i)
      BY BufferPlaces
    <3>3. \A r \in BufferPlace \ {Fifo, InConn(i)} : G[r] = H[r]
      BY <1>2, <2>1, <2>6, BuffersElsewhere
    <3>4. Owned(H, DOMAIN packet)
      BY <1>1 DEF BuffersOwned
    <3>5. \A j \in Slot : Distinct(conn'[j].rx_queue)
      BY <1>1, <2>4, <2>5, <2>6 DEF BuffersOwned
    <3> HIDE DEF G, H
    <3>6. Owned(G, DOMAIN packet)
      BY <3>1, <3>2, <3>3, <3>4, HandOver
    <3> QED  BY <1>1, <2>1, <2>2, <2>3, <3>5, <3>6 DEF BuffersOwned, G
  <2>10. ConnsHeld'
    BY <1>2, <2>1, <2>5, <2>6, ConnsKept DEF IInv
  <2>11. NoAmbiguity'
    BY <2>5, <2>6, NoAmbiguityKept DEF IInv
  <2>12. Addressed'
    <3> SUFFICES ASSUME NEW j \in Slot, NEW a \in Elements(conn'[j].rx_queue)
                 PROVE  /\ a \in DOMAIN packet'
                        /\ packet'[a].src = conn'[j].src /\ packet'[a].sport = conn'[j].sport
                        /\ packet'[a].dport = conn'[j].dport
                        /\ (conn'[j].need_hmac => packet'[a].hmac)
      BY DEF Addressed
    <3>1. CASE j = i /\ a = b
      BY <3>1, <1>2, <2>2, <2>3, <2>5, <2>6
    <3>2. CASE ~(j = i /\ a = b)
      <4>1. a \in Elements(conn[j].rx_queue)
        BY <3>2, <2>4, <2>5, <2>6
      <4>2. /\ conn'[j].src = conn[j].src /\ conn'[j].sport = conn[j].sport
            /\ conn'[j].dport = conn[j].dport /\ conn'[j].need_hmac = conn[j].need_hmac
        BY <2>5, <2>6
      <4> QED  BY <2>2, <4>1, <4>2 DEF IInv, Addressed
    <3> QED  BY <3>1, <3>2
  <2> QED  BY <1>2, <2>1, <2>7, <2>8, <2>9, <2>10, <2>11, <2>12 DEF IInv, QueueTypes, Phase
<1> QED  BY <1>4, <1>5

\* The router opens a connection for the packet and posts it to its socket, or
\* closes it again when the backlog is full.
LEMMA NewConnectionStep ==
  ASSUME IInv, NEW b \in DOMAIN packet, NEW p, NewConnection(b, p)
  PROVE  IInv'
<1> DEFINE s == GetSocket(p.dport)
           i == NextSlot
           h == s \in Hmac
           k == [open |-> TRUE, src |-> p.src, sport |-> p.sport, dport |-> p.dport,
                 out_hmac |-> p.hmac, need_hmac |-> h, socket |-> s, rx_queue |-> <<>>]
           H == BuffersAt(qfifo, task, conn, queue)
           G == BuffersAt(qfifo', task', conn', queue')
           P == ConnsAt(task, queue)
           R == ConnsAt(task', queue')
<1>1. TypeOK /\ QueueTypes /\ BuffersOwned
  BY DEF IInv
<1>2. /\ Take(b, p) /\ s \notin ConnLess /\ Find(p) = {} /\ s # None /\ FreeSlots # {}
      /\ (h => p.hmac)
      /\ UdpNewPacket(i, k, b) /\ last_given' = i
      /\ UNCHANGED <<sport, task, calls, injected>>
  BY DEF NewConnection, ForMe, Bare, Acceptable, Secure
<1>3. /\ b \in 1 .. Buffers /\ b \in Elements(qfifo) /\ qfifo' \in Seq(1 .. Buffers)
      /\ Distinct(qfifo') /\ Elements(qfifo') = Elements(qfifo) \ {b}
      /\ p = packet[b] /\ p \in Packet
  BY <1>2, TakeLemma
<1>4. s \in Service \ ConnLess /\ p.dport \notin Ephemeral
  BY <1>2, <1>3, GetSocketLemma DEF Packet
<1>5. i \in Slot /\ ~conn[i].open /\ conn[i].rx_queue = <<>>
  <2>1. i \in FreeSlots
    BY <1>1, <1>2, NextSlotLemma DEF TypeOK
  <2> QED  BY <2>1 DEF FreeSlots, IInv, SlotOK
<1>6. h \in BOOLEAN /\ <<>> \in Seq(1 .. Buffers)
  BY EmptySeq
<1> HIDE DEF s, i, h
<1>7. k \in Conn
  BY <1>3, <1>4, <1>6 DEF Conn, Packet
<1>8. k.rx_queue = <<>> /\ k.socket = s
  OBVIOUS
<1>9. /\ k.open /\ k.src = p.src /\ k.sport = p.sport /\ k.dport = p.dport /\ k.need_hmac = h
  OBVIOUS
<1> HIDE DEF k
<1>10. Len(k.rx_queue) < ConnQueueLength
  BY <1>8, NodeAssumption, EmptySeq
<1>11. CASE Len(queue[s]) >= Backlog
  <2> DEFINE new == [k EXCEPT !.open = FALSE, !.rx_queue = <<>>]
  <2>1. /\ conn' = [conn EXCEPT ![i] = new] /\ queue' = queue
        /\ packet' = Free(packet, Elements(k.rx_queue) \cup {b})
    BY <1>2, <1>8, <1>10, <1>11 DEF UdpNewPacket
  <2>2. DOMAIN packet' = DOMAIN packet \ {b} /\ \A a \in DOMAIN packet' : packet'[a] = packet[a]
    BY <1>8, <2>1, EmptyElements DEF Free
  <2>3. new \in Conn /\ new.open = FALSE /\ new.rx_queue = <<>>
    BY <1>6, <1>7 DEF Conn
  <2> HIDE DEF new
  <2>4. conn'[i] = new /\ \A j \in Slot \ {i} : conn'[j] = conn[j]
    BY <1>1, <1>5, <2>1 DEF TypeOK
  <2>5. TypeOK'
    <3>1. conn' \in [Slot -> Conn]
      BY <1>1, <2>1, <2>3 DEF TypeOK
    <3> QED  BY <1>1, <1>2, <1>3, <1>5, <2>1, <2>2, <3>1 DEF TypeOK
  <2>6. \A j \in Slot : SlotOK(j)'
    <3> TAKE j \in Slot
    <3>1. CASE j = i  BY <3>1, <2>3, <2>4 DEF SlotOK
    <3>2. CASE j # i  BY <3>2, <2>4 DEF IInv, SlotOK
    <3> QED  BY <3>1, <3>2
  <2>7. \A j \in Slot : conn'[j].rx_queue = conn[j].rx_queue
    BY <1>5, <2>3, <2>4
  <2>8. BuffersOwned'
    <3>1. /\ DOMAIN G = DOMAIN H /\ DOMAIN H = BufferPlace /\ Fifo \in BufferPlace
          /\ G[Fifo] = H[Fifo] \ {b} /\ b \in H[Fifo]
      BY <1>3, BuffersNow, BufferPlaces
    <3>2. \A r \in BufferPlace \ {Fifo} : G[r] = H[r]
      BY <1>2, <2>1, <2>7, BuffersElsewhere
    <3>3. Owned(H, DOMAIN packet)
      BY <1>1 DEF BuffersOwned
    <3> HIDE DEF G, H
    <3>4. Owned(G, DOMAIN packet \ {b})
      BY <3>1, <3>2, <3>3, GiveUpOne
    <3> QED  BY <1>1, <1>3, <2>1, <2>2, <2>7, <3>4 DEF BuffersOwned, G
  <2>9. ConnsHeld'
    <3>1. \A j \in Slot : conn'[j].open = conn[j].open
      BY <1>1, <1>5, <2>3, <2>4, QueueLemma DEF Conn
    <3> QED  BY <1>2, <2>1, <3>1, ConnsKept DEF IInv
  <2>10. NoAmbiguity'
    BY <2>3, <2>4, NoAmbiguityKept DEF IInv
  <2>11. Addressed'
    <3>1. ASSUME NEW j \in Slot, NEW a \in Elements(conn'[j].rx_queue)
          PROVE  j # i /\ a \in Elements(conn[j].rx_queue) /\ a \in DOMAIN packet'
      <4>1. j # i
        BY <2>3, <2>4, EmptyElements
      <4>2. a \in Elements(conn[j].rx_queue)
        BY <2>4, <4>1
      <4> QED  BY <1>2, <2>2, <4>1, <4>2, BufferLemma, TakeLemma
    <3> QED  BY <2>2, <2>4, <3>1, AddressedKept DEF IInv
  <2> QED  BY <1>2, <2>1, <2>5, <2>6, <2>8, <2>9, <2>10, <2>11 DEF IInv, QueueTypes, Phase
<1>12. CASE ~(Len(queue[s]) >= Backlog)
  <2> DEFINE new == [k EXCEPT !.socket = None, !.rx_queue = Append(@, b)]
  <2>1. /\ conn' = [conn EXCEPT ![i] = new] /\ queue' = [queue EXCEPT ![s] = Append(@, i)]
        /\ packet' = Free(packet, {})
    BY <1>2, <1>4, <1>8, <1>10, <1>12, NoneLemma DEF UdpNewPacket
  <2>2. DOMAIN packet' = DOMAIN packet /\ \A a \in DOMAIN packet : packet'[a] = packet[a]
    BY <2>1 DEF Free
  <2>3. /\ Append(<<>>, b) \in Seq(1 .. Buffers) /\ Distinct(Append(<<>>, b))
        /\ Elements(Append(<<>>, b)) = {b}
    <3> DEFINE e == <<>>
    <3>1. e \in Seq(1 .. Buffers) /\ Elements(e) = {} /\ Distinct(e)
      BY <1>6, EmptyElements
    <3> HIDE DEF e
    <3>2. /\ Append(e, b) \in Seq(1 .. Buffers) /\ Distinct(Append(e, b))
          /\ Elements(Append(e, b)) = Elements(e) \cup {b}
      BY <1>3, <3>1, AppendBuffer
    <3> QED  BY <3>1, <3>2 DEF e
  <2>4. /\ new \in Conn /\ new.open /\ new.src = p.src /\ new.sport = p.sport
        /\ new.dport = p.dport /\ new.need_hmac = h /\ new.socket = None
        /\ new.rx_queue = Append(<<>>, b)
    BY <1>7, <1>8, <1>9, <2>3 DEF Conn
  <2> HIDE DEF new
  <2>5. conn'[i] = new /\ \A j \in Slot \ {i} : conn'[j] = conn[j]
    BY <1>1, <1>5, <2>1 DEF TypeOK
  <2>6. queue'[s] = Append(queue[s], i) /\ \A u \in Service \ {s} : queue'[u] = queue[u]
    BY <1>1, <1>4, <2>1 DEF TypeOK
  <2>7. queue[s] \in Seq(Slot) /\ Distinct(queue[s]) /\ Elements(queue[s]) \subseteq OpenSlots
        /\ queue[s] \in Seq(Slot \cup 1 .. Buffers)
    BY <1>1, <1>4, HolderLemma DEF QueueTypes, BuffersOwned, TypeOK
  <2>8. i \notin OpenSlots
    BY <1>5 DEF OpenSlots
  <2>9. /\ queue'[s] \in Seq(Slot) /\ Distinct(queue'[s])
        /\ Elements(queue'[s]) = Elements(queue[s]) \cup {i}
    <3> DEFINE S == Slot
    <3> HIDE DEF S
    <3>1. i \in S /\ queue[s] \in Seq(S) /\ i \notin Elements(queue[s])
      BY <1>5, <2>7, <2>8 DEF S
    <3>2. /\ Append(queue[s], i) \in Seq(S) /\ Distinct(Append(queue[s], i))
          /\ Elements(Append(queue[s], i)) = Elements(queue[s]) \cup {i}
      BY <2>7, <3>1, AppendElements
    <3> QED  BY <2>6, <3>2 DEF S
  <2>10. QueueTypes'
    BY <1>1, <1>4, <2>6, <2>9, NoneLemma DEF QueueTypes
  <2>11. TypeOK'
    <3>1. conn' \in [Slot -> Conn]
      BY <1>1, <2>1, <2>4 DEF TypeOK
    <3> DEFINE S == Slot \cup 1 .. Buffers
    <3>2. i \in S /\ queue[s] \in Seq(S)
      BY <1>5, <2>7
    <3> HIDE DEF S
    <3>3. Append(queue[s], i) \in Seq(S)
      BY <3>2, AppendElements
    <3>4. queue' \in [Service -> Seq(S)]
      BY <1>1, <2>1, <3>3 DEF TypeOK, S
    <3> QED  BY <1>1, <1>2, <1>3, <1>5, <2>2, <3>1, <3>4 DEF TypeOK, S
  <2>12. \A j \in Slot : SlotOK(j)'
    <3> TAKE j \in Slot
    <3>1. CASE j = i  BY <3>1, <2>4, <2>5 DEF SlotOK
    <3>2. CASE j # i  BY <3>2, <2>5 DEF IInv, SlotOK
    <3> QED  BY <3>1, <3>2
  <2>13. BuffersOwned'
    <3>1. /\ DOMAIN G = DOMAIN H /\ DOMAIN H = BufferPlace
          /\ G[Fifo] = H[Fifo] \ {b} /\ b \in H[Fifo]
          /\ G[InConn(i)] = H[InConn(i)] \cup {b}
      BY <1>3, <1>5, <2>3, <2>4, <2>5, BuffersNow, EmptyElements
    <3>2. Fifo \in BufferPlace /\ InConn(i) \in BufferPlace /\ Fifo # InConn(i)
      BY <1>5, BufferPlaces
    <3>3. \A u \in ConnLess : queue'[u] = queue[u]
      BY <1>4, <2>6, NoneLemma
    <3>4. \A r \in BufferPlace \ {Fifo, InConn(i)} : G[r] = H[r]
      BY <1>2, <2>5, <3>3, BuffersElsewhere
    <3>5. Owned(H, DOMAIN packet)
      BY <1>1 DEF BuffersOwned
    <3>6. (\A j \in Slot : Distinct(conn'[j].rx_queue)) /\ \A u \in Service : Distinct(queue'[u])
      BY <1>1, <2>3, <2>4, <2>5, <2>6, <2>9 DEF BuffersOwned
    <3> HIDE DEF G, H
    <3>7. Owned(G, DOMAIN packet)
      BY <3>1, <3>2, <3>4, <3>5, HandOver
    <3> QED  BY <1>3, <2>2, <3>6, <3>7 DEF BuffersOwned, G
  <2>14. ConnsHeld'
    <3>1. /\ DOMAIN R = DOMAIN P /\ DOMAIN P = ConnPlace /\ InSocket(s) \in ConnPlace
          /\ R[InSocket(s)] = P[InSocket(s)] \cup {i}
      BY <1>4, <2>9, ConnsNow, ConnPlaces
    <3>2. \A r \in ConnPlace \ {InSocket(s)} : R[r] = P[r]
      BY <1>2, <2>6, ConnsElsewhere
    <3>3. Owned(P, OpenSlots)
      BY DEF IInv, ConnsHeld
    <3> HIDE DEF P, R
    <3>4. Owned(R, OpenSlots \cup {i})
      BY <2>8, <3>1, <3>2, <3>3, Acquire
    <3>5. OpenSlots' = OpenSlots \cup {i}
      BY <1>5, <2>4, <2>5 DEF OpenSlots
    <3> QED  BY <3>4, <3>5 DEF ConnsHeld, R
  <2>15. NoAmbiguity'
    <3>1. ASSUME NEW j \in Slot, conn[j].open
          PROVE  <<conn[j].src, conn[j].sport, conn[j].dport>> # <<p.src, p.sport, p.dport>>
      BY <1>2, <3>1 DEF Find, Matches
    <3>2. /\ conn'[i].src = p.src /\ conn'[i].sport = p.sport /\ conn'[i].dport = p.dport
          /\ conn'[i].dport \notin Ephemeral
      BY <1>4, <2>4, <2>5
    <3> SUFFICES ASSUME NEW x \in Slot, NEW y \in Slot, conn'[x].open, conn'[y].open, x # y
                 PROVE  /\ <<conn'[x].src, conn'[x].sport, conn'[x].dport>>
                              # <<conn'[y].src, conn'[y].sport, conn'[y].dport>>
                        /\ conn'[x].dport \in Ephemeral => conn'[x].dport # conn'[y].dport
      BY DEF NoAmbiguity
    <3>3. CASE x # i /\ y # i
      BY <3>3, <2>5 DEF IInv, NoAmbiguity
    <3>4. CASE x = i
      BY <3>1, <3>2, <3>4, <2>5
    <3>5. CASE y = i
      BY <3>1, <3>2, <3>5, <2>5
    <3> QED  BY <3>3, <3>4, <3>5
  <2>16. Addressed'
    <3> SUFFICES ASSUME NEW j \in Slot, NEW a \in Elements(conn'[j].rx_queue)
                 PROVE  /\ a \in DOMAIN packet'
                        /\ packet'[a].src = conn'[j].src /\ packet'[a].sport = conn'[j].sport
                        /\ packet'[a].dport = conn'[j].dport
                        /\ (conn'[j].need_hmac => packet'[a].hmac)
      BY DEF Addressed
    <3>1. CASE j = i
      <4>1. a = b
        BY <3>1, <2>3, <2>4, <2>5
      <4> QED  BY <3>1, <4>1, <1>2, <1>3, <2>2, <2>4, <2>5
    <3>2. CASE j # i
      BY <3>2, <2>2, <2>5 DEF IInv, Addressed
    <3> QED  BY <3>1, <3>2
  <2> QED  BY <1>2, <2>10, <2>11, <2>12, <2>13, <2>14, <2>15, <2>16 DEF IInv, Phase
<1> QED  BY <1>11, <1>12

-----------------------------------------------------------------------------
(***************************************************************************)
(* The invariant holds in every state                                      *)
(***************************************************************************)
LEMMA InitLemma == Init => IInv
<1> SUFFICES ASSUME Init PROVE IInv
  OBVIOUS
<1> USE DEF Init
<1>1. <<>> \in Seq(1 .. Buffers) /\ <<>> \in Seq(Slot) /\ <<>> \in Seq(Slot \cup 1 .. Buffers)
  BY EmptySeq
<1>2. 1 \in Slot /\ Buffers \in Nat /\ 0 \in 0 .. MaxCalls /\ 0 \in 0 .. MaxInject
  BY NodeAssumption DEF Slot
<1>3. Closed \in Conn /\ Closed.open = FALSE /\ Closed.rx_queue = <<>>
  BY <1>1, NodeAssumption DEF Closed, Conn, Host
<1>4. /\ Idle \in [pc : PC, conn : Slot \cup {None}, buf : 1 .. Buffers \cup {None}, call : Nat]
      /\ Idle.pc = "idle" /\ Idle.conn = None /\ Idle.buf = None
  BY DEF Idle, PC
<1>5. DOMAIN packet = {}
  OBVIOUS
<1>6. \A i \in Slot : conn[i] = Closed
  OBVIOUS
<1>7. (\A t \in Task : task[t] = Idle) /\ \A s \in Service : queue[s] = <<>>
  BY DEF Task
<1>8. TypeOK
  <2>1. task \in [Task -> [pc : PC, conn : Slot \cup {None}, buf : 1 .. Buffers \cup {None},
                           call : Nat]]
    BY <1>4 DEF Task
  <2> QED  BY <1>1, <1>2, <1>3, <1>5, <2>1 DEF TypeOK
<1>9. QueueTypes
  BY <1>1, <1>7, NoneLemma DEF QueueTypes
<1>10. \A t \in Task : Phase(t)
  BY <1>4, <1>7 DEF Phase
<1>11. \A i \in Slot : SlotOK(i)
  BY <1>3, <1>6 DEF SlotOK
<1>12. BuffersOwned
  <2> DEFINE H == BuffersAt(qfifo, task, conn, queue)
  <2>1. /\ DOMAIN H = BufferPlace /\ H[Fifo] = Elements(qfifo)
        /\ \A t \in Task : H[InTask(t)] = {task[t].buf} \ {None}
        /\ \A i \in Slot : H[InConn(i)] = Elements(conn[i].rx_queue)
        /\ \A s \in ConnLess : H[InSocket(s)] = Elements(queue[s])
    BY BuffersAtLemma
  <2>2. /\ H[Fifo] = {} /\ \A t \in Task : H[InTask(t)] = {}
        /\ (\A i \in Slot : H[InConn(i)] = {}) /\ \A s \in ConnLess : H[InSocket(s)] = {}
    BY <2>1, <1>3, <1>4, <1>6, <1>7, EmptyElements, NoneLemma
  <2> HIDE DEF H
  <2>3. \A r \in BufferPlace : H[r] = {}
    BY <2>2, BufferPlaceCases
  <2>4. Owned(H, DOMAIN packet)
    BY <1>5, <2>1, <2>3 DEF Owned
  <2>5. Distinct(qfifo) /\ (\A i \in Slot : Distinct(conn[i].rx_queue))
        /\ \A s \in Service : Distinct(queue[s])
    BY <1>3, <1>6, <1>7, EmptyElements
  <2> QED  BY <2>4, <2>5 DEF BuffersOwned, H
<1>13. ConnsHeld
  <2> DEFINE H == ConnsAt(task, queue)
  <2>1. /\ DOMAIN H = ConnPlace
        /\ \A t \in Task : H[InTask(t)] = {task[t].conn} \ {None}
        /\ \A s \in Service \ ConnLess : H[InSocket(s)] = Elements(queue[s])
    BY ConnsAtLemma
  <2>2. /\ \A t \in Task : H[InTask(t)] = {}
        /\ \A s \in Service \ ConnLess : H[InSocket(s)] = {}
    BY <2>1, <1>4, <1>7, EmptyElements
  <2> HIDE DEF H
  <2>3. \A r \in ConnPlace : H[r] = {}
    BY <2>2, ConnPlaceCases
  <2>4. OpenSlots = {}
    BY <1>3, <1>6 DEF OpenSlots
  <2> QED  BY <2>1, <2>3, <2>4 DEF ConnsHeld, Owned, H
<1>14. NoAmbiguity
  BY <1>3, <1>6 DEF NoAmbiguity
<1>15. Addressed
  BY <1>3, <1>6, EmptyElements DEF Addressed
<1> QED  BY <1>8, <1>9, <1>10, <1>11, <1>12, <1>13, <1>14, <1>15 DEF IInv

\* Every step keeps the invariant.
LEMMA NextLemma == IInv /\ [Next]_vars => IInv'
<1> SUFFICES ASSUME IInv, [Next]_vars PROVE IInv'
  OBVIOUS
<1>1. \A c \in Client : c \in Task /\ c \notin ConnLess /\ c \notin Service
  BY NoneLemma DEF Task
<1>2. \A s \in Service : s \in Task
  BY DEF Task
<1>3. \A t \in Task : Phase(t)
  BY DEF IInv
<1>4. ASSUME NEW c \in Client, ClientStep(c) PROVE IInv'
  <2>1. CASE Connect(c)  BY <2>1, ConnectStep
  <2>2. CASE Request(c)  BY <2>2, RequestStep
  <2>3. CASE NoBuffer(c)  BY <2>3, GotoStep DEF NoBuffer
  <2>4. CASE ReadReply(c)
    BY <2>4, <1>1, ReadPacketStep DEF ReadReply, At
  <2>5. CASE ReadTimeout(c)  BY <2>5, GotoStep DEF ReadTimeout
  <2>6. CASE Finish(c)
    <3>1. task[c].conn # None
      BY <2>6, <1>1, <1>3, NoneLemma DEF Finish, At, Phase
    <3> QED  BY <2>6, <3>1, <1>1, CloseStep DEF Finish
  <2> QED  BY <1>4, <2>1, <2>2, <2>3, <2>4, <2>5, <2>6 DEF ClientStep
<1>5. ASSUME NEW s \in Service, ServiceStep(s) PROVE IInv'
  <2>1. CASE Accept(s)  BY <2>1, AcceptStep
  <2>2. CASE ServerRead(s)
    BY <2>2, <1>2, ReadPacketStep DEF ServerRead, At
  <2>3. CASE ServerReply(s)  BY <2>3, ServerReplyStep
  <2>4. CASE ServerClose(s)
    <3>1. task[s].conn # None
      BY <2>4, <1>2, <1>3, NoneLemma DEF ServerClose, At, Phase
    <3> QED  BY <2>4, <3>1, <1>2, CloseStep DEF ServerClose, At
  <2>5. CASE RecvFrom(s)  BY <2>5, RecvFromStep
  <2>6. CASE SendtoReply(s)  BY <2>6, SendtoReplyStep
  <2> QED  BY <1>5, <2>1, <2>2, <2>3, <2>4, <2>5, <2>6 DEF ServiceStep
<1>6. ASSUME NEW b \in DOMAIN packet, Route(b, packet[b]) PROVE IInv'
  <2> DEFINE p == packet[b]
  <2> HIDE DEF p
  <2>1. ASSUME Take(b, p), Dropped(b) PROVE IInv'
    BY <2>1, DroppedStep
  <2>2. CASE Forward(b, p)  BY <2>1, <2>2 DEF Forward
  <2>3. CASE Deliver(b, p)  BY <2>3, DeliverStep
  <2>4. CASE DeliverDrop(b, p)  BY <2>1, <2>4 DEF DeliverDrop, ForMe
  <2>5. ASSUME NEW i \in Slot, Receive(i, b, p) PROVE IInv'
    BY <2>5, ReceiveStep
  <2>6. ASSUME NEW i \in Slot, ReceiveDrop(i, b, p) PROVE IInv'
    BY <2>1, <2>6 DEF ReceiveDrop, ForMe
  <2>7. CASE NewConnection(b, p)  BY <2>7, NewConnectionStep
  <2>8. CASE Reject(b, p)  BY <2>1, <2>8 DEF Reject, ForMe
  <2>9. Route(b, p)
    BY <1>6 DEF p
  <2> QED  BY <2>2, <2>3, <2>4, <2>5, <2>6, <2>7, <2>8, <2>9 DEF Route
<1>7. ASSUME NEW p \in Injectable, Inject(p) PROVE IInv'
  BY <1>7, InjectStep
<1>8. CASE UNCHANGED vars
  BY <1>8 DEF vars, IInv, TypeOK, QueueTypes, Phase, SlotOK, BuffersOwned, ConnsHeld, OpenSlots,
              NoAmbiguity, Addressed
<1> QED  BY <1>4, <1>5, <1>6, <1>7, <1>8 DEF Next, Router

-----------------------------------------------------------------------------
(***************************************************************************)
(* The properties                                                          *)
(***************************************************************************)
LEMMA OwnersLemma ==
  ASSUME NEW b, NEW x
  PROVE  x \in Owners(b) <=>
         \/ \E j \in DOMAIN qfifo : qfifo[j] = b /\ x = <<"qfifo", j>>
         \/ \E t \in Task : task[t].buf = b /\ x = <<"task", t>>
         \/ \E i \in Slot : \E j \in DOMAIN conn[i].rx_queue :
               conn[i].rx_queue[j] = b /\ x = <<"conn", i, j>>
         \/ \E s \in ConnLess : \E j \in DOMAIN queue[s] :
               queue[s][j] = b /\ x = <<"socket", s, j>>
BY DEF Owners, Positions

\* Who holds connection i: tasks, and places in the queues of sockets.
LEMMA HoldersLemma ==
  ASSUME NEW i, NEW x
  PROVE  x \in Holders(i) <=>
         \/ \E t \in Task : task[t].conn = i /\ x = <<"task", t>>
         \/ \E s \in Service \ ConnLess : \E j \in DOMAIN queue[s] :
               queue[s][j] = i /\ x = <<"socket", s, j>>
BY DEF Holders, Positions

\* A set with exactly one element has cardinality 1.
LEMMA OneElement ==
  ASSUME NEW S, NEW x \in S, \A y \in S : y = x
  PROVE  Cardinality(S) = 1
<1>1. S = {x}  OBVIOUS
<1> QED  BY <1>1, FS_Singleton

\* A set without elements has cardinality 0.
LEMMA NoElement ==
  ASSUME NEW S, \A y \in S : FALSE
  PROVE  Cardinality(S) = 0
<1>1. S = {}  OBVIOUS
<1> QED  BY <1>1, FS_EmptySet

\* Distinct places own distinct buffers, so each buffer has one owner.
LEMMA OneOwnerLemma == IInv => OneOwner
<1> SUFFICES ASSUME IInv, NEW b \in 1 .. Buffers
             PROVE  Cardinality(Owners(b)) = IF b \in DOMAIN packet THEN 1 ELSE 0
  BY DEF OneOwner, IInv
<1> DEFINE H == BuffersAt(qfifo, task, conn, queue)
<1>1. /\ DOMAIN H = BufferPlace
      /\ H[Fifo] = Elements(qfifo)
      /\ \A t \in Task : H[InTask(t)] = {task[t].buf} \ {None}
      /\ \A i \in Slot : H[InConn(i)] = Elements(conn[i].rx_queue)
      /\ \A s \in ConnLess : H[InSocket(s)] = Elements(queue[s])
  BY BuffersAtLemma
<1>2. /\ \A r \in BufferPlace : H[r] \subseteq DOMAIN packet
      /\ \A d \in DOMAIN packet : \E r \in BufferPlace : d \in H[r]
      /\ \A q, r \in BufferPlace : q # r => H[q] \cap H[r] = {}
  BY <1>1 DEF IInv, BuffersOwned, Owned
<1> HIDE DEF H
<1>3. /\ \A j \in DOMAIN qfifo : qfifo[j] = b => b \in H[Fifo]
      /\ \A t \in Task : task[t].buf = b => b \in H[InTask(t)]
      /\ \A i \in Slot : \A j \in DOMAIN conn[i].rx_queue :
            conn[i].rx_queue[j] = b => b \in H[InConn(i)]
      /\ \A s \in ConnLess : \A j \in DOMAIN queue[s] : queue[s][j] = b => b \in H[InSocket(s)]
  BY <1>1, NoneLemma DEF Elements
<1>4. CASE b \notin DOMAIN packet
  <2>1. \A r \in BufferPlace : b \notin H[r]
    BY <1>2, <1>4
  <2>2. ASSUME NEW x \in Owners(b) PROVE FALSE
    BY <1>3, <2>1, <2>2, OwnersLemma, BufferPlaces
  <2> QED  BY <1>4, <2>2, NoElement
<1>5. CASE b \in DOMAIN packet
  <2>1. PICK r \in BufferPlace : b \in H[r]
    BY <1>2, <1>5
  <2>2. \A q \in BufferPlace : b \in H[q] => q = r
    BY <1>2, <2>1
  <2>3. /\ Distinct(qfifo) /\ (\A i \in Slot : Distinct(conn[i].rx_queue))
        /\ \A s \in ConnLess : Distinct(queue[s])
    BY NoneLemma DEF IInv, BuffersOwned
  <2>4. /\ (\E j \in DOMAIN qfifo : qfifo[j] = b) => r = Fifo
        /\ \A t \in Task : task[t].buf = b => r = InTask(t)
        /\ \A i \in Slot : (\E j \in DOMAIN conn[i].rx_queue : conn[i].rx_queue[j] = b)
              => r = InConn(i)
        /\ \A s \in ConnLess : (\E j \in DOMAIN queue[s] : queue[s][j] = b) => r = InSocket(s)
    BY <1>3, <2>2, BufferPlaces
  <2>5. Cardinality(Owners(b)) = 1
    <3>1. CASE r = Fifo
      <4>1. PICK j \in DOMAIN qfifo : qfifo[j] = b
        BY <1>1, <2>1, <3>1 DEF Elements
      <4>2. <<"qfifo", j>> \in Owners(b)
        BY <4>1, OwnersLemma
      <4>3. ASSUME NEW y \in Owners(b) PROVE y = <<"qfifo", j>>
        <5>1. \E h \in DOMAIN qfifo : qfifo[h] = b /\ y = <<"qfifo", h>>
          BY <2>4, <3>1, OwnersLemma, BufferPlaces
        <5> QED  BY <5>1, <2>3, <4>1 DEF Distinct
      <4> QED  BY <4>2, <4>3, OneElement
    <3>2. ASSUME NEW t \in Task, r = InTask(t) PROVE Cardinality(Owners(b)) = 1
      <4>1. task[t].buf = b
        BY <1>1, <2>1, <3>2
      <4>2. <<"task", t>> \in Owners(b)
        BY <4>1, OwnersLemma
      <4>3. ASSUME NEW y \in Owners(b) PROVE y = <<"task", t>>
        <5>1. \E u \in Task : task[u].buf = b /\ y = <<"task", u>>
          BY <2>4, <3>2, OwnersLemma, BufferPlaces
        <5>2. PICK u \in Task : task[u].buf = b /\ y = <<"task", u>>
          BY <5>1
        <5>3. InTask(u) = InTask(t)
          BY <2>4, <3>2, <5>2
        <5> QED  BY <5>2, <5>3 DEF InTask
      <4> QED  BY <4>2, <4>3, OneElement
    <3>3. ASSUME NEW i \in Slot, r = InConn(i) PROVE Cardinality(Owners(b)) = 1
      <4>1. PICK j \in DOMAIN conn[i].rx_queue : conn[i].rx_queue[j] = b
        BY <1>1, <2>1, <3>3 DEF Elements
      <4>2. <<"conn", i, j>> \in Owners(b)
        BY <4>1, OwnersLemma
      <4>3. ASSUME NEW y \in Owners(b) PROVE y = <<"conn", i, j>>
        <5>1. \E h \in Slot : \E g \in DOMAIN conn[h].rx_queue :
                 conn[h].rx_queue[g] = b /\ y = <<"conn", h, g>>
          BY <2>4, <3>3, OwnersLemma, BufferPlaces
        <5>2. PICK h \in Slot : \E g \in DOMAIN conn[h].rx_queue :
                 conn[h].rx_queue[g] = b /\ y = <<"conn", h, g>>
          BY <5>1
        <5>3. InConn(h) = InConn(i)
          BY <2>4, <3>3, <5>2
        <5>4. h = i
          BY <5>3 DEF InConn
        <5> QED  BY <5>2, <5>4, <2>3, <4>1 DEF Distinct
      <4> QED  BY <4>2, <4>3, OneElement
    <3>4. ASSUME NEW s \in ConnLess, r = InSocket(s) PROVE Cardinality(Owners(b)) = 1
      <4>1. PICK j \in DOMAIN queue[s] : queue[s][j] = b
        BY <1>1, <2>1, <3>4 DEF Elements
      <4>2. <<"socket", s, j>> \in Owners(b)
        BY <4>1, OwnersLemma
      <4>3. ASSUME NEW y \in Owners(b) PROVE y = <<"socket", s, j>>
        <5>1. \E h \in ConnLess : \E g \in DOMAIN queue[h] :
                 queue[h][g] = b /\ y = <<"socket", h, g>>
          BY <2>4, <3>4, OwnersLemma, BufferPlaces
        <5>2. PICK h \in ConnLess : \E g \in DOMAIN queue[h] :
                 queue[h][g] = b /\ y = <<"socket", h, g>>
          BY <5>1
        <5>3. InSocket(h) = InSocket(s)
          BY <2>4, <3>4, <5>2
        <5>4. h = s
          BY <5>3 DEF InSocket
        <5> QED  BY <5>2, <5>4, <2>3, <4>1 DEF Distinct
      <4> QED  BY <4>2, <4>3, OneElement
    <3> QED  BY <3>1, <3>2, <3>3, <3>4, BufferPlaceCases
  <2> QED  BY <1>5, <2>5
<1> QED  BY <1>4, <1>5

\* Distinct places hold distinct connections, so each connection has one holder.
LEMMA OneHolderLemma == IInv => OneHolder
<1> SUFFICES ASSUME IInv, NEW i \in Slot
             PROVE  Cardinality(Holders(i)) = IF conn[i].open THEN 1 ELSE 0
  BY DEF OneHolder
<1> DEFINE H == ConnsAt(task, queue)
<1>1. /\ DOMAIN H = ConnPlace
      /\ \A t \in Task : H[InTask(t)] = {task[t].conn} \ {None}
      /\ \A s \in Service \ ConnLess : H[InSocket(s)] = Elements(queue[s])
  BY ConnsAtLemma
<1>2. /\ \A r \in ConnPlace : H[r] \subseteq OpenSlots
      /\ \A d \in OpenSlots : \E r \in ConnPlace : d \in H[r]
      /\ \A q, r \in ConnPlace : q # r => H[q] \cap H[r] = {}
  BY <1>1 DEF IInv, ConnsHeld, Owned
<1> HIDE DEF H
<1>3. /\ \A t \in Task : task[t].conn = i => i \in H[InTask(t)]
      /\ \A s \in Service \ ConnLess : \A j \in DOMAIN queue[s] :
            queue[s][j] = i => i \in H[InSocket(s)]
  BY <1>1, NoneLemma DEF Elements
<1>4. CASE ~conn[i].open
  <2>1. \A r \in ConnPlace : i \notin H[r]
    BY <1>2, <1>4 DEF OpenSlots
  <2>2. ASSUME NEW x \in Holders(i) PROVE FALSE
    BY <1>3, <2>1, <2>2, HoldersLemma, ConnPlaces
  <2> QED  BY <1>4, <2>2, NoElement
<1>5. CASE conn[i].open
  <2>1. PICK r \in ConnPlace : i \in H[r]
    BY <1>2, <1>5 DEF OpenSlots
  <2>2. \A q \in ConnPlace : i \in H[q] => q = r
    BY <1>2, <2>1
  <2>3. \A s \in Service : Distinct(queue[s])
    BY DEF IInv, BuffersOwned
  <2>4. /\ \A t \in Task : task[t].conn = i => r = InTask(t)
        /\ \A s \in Service \ ConnLess :
              (\E j \in DOMAIN queue[s] : queue[s][j] = i) => r = InSocket(s)
    BY <1>3, <2>2, ConnPlaces
  <2>5. ASSUME NEW t \in Task, r = InTask(t) PROVE Cardinality(Holders(i)) = 1
    <3>1. task[t].conn = i
      BY <1>1, <2>1, <2>5
    <3>2. <<"task", t>> \in Holders(i)
      BY <3>1, HoldersLemma
    <3>3. ASSUME NEW y \in Holders(i) PROVE y = <<"task", t>>
      <4>1. \E u \in Task : task[u].conn = i /\ y = <<"task", u>>
        BY <2>4, <2>5, HoldersLemma, ConnPlaces
      <4>2. PICK u \in Task : task[u].conn = i /\ y = <<"task", u>>
        BY <4>1
      <4>3. InTask(u) = InTask(t)
        BY <2>4, <2>5, <4>2
      <4> QED  BY <4>2, <4>3 DEF InTask
    <3> QED  BY <3>2, <3>3, OneElement
  <2>6. ASSUME NEW s \in Service \ ConnLess, r = InSocket(s) PROVE Cardinality(Holders(i)) = 1
    <3>1. PICK j \in DOMAIN queue[s] : queue[s][j] = i
      BY <1>1, <2>1, <2>6 DEF Elements
    <3>2. <<"socket", s, j>> \in Holders(i)
      BY <3>1, HoldersLemma
    <3>3. ASSUME NEW y \in Holders(i) PROVE y = <<"socket", s, j>>
      <4>1. \E h \in Service \ ConnLess : \E g \in DOMAIN queue[h] :
               queue[h][g] = i /\ y = <<"socket", h, g>>
        BY <2>4, <2>6, HoldersLemma, ConnPlaces
      <4>2. PICK h \in Service \ ConnLess : \E g \in DOMAIN queue[h] :
               queue[h][g] = i /\ y = <<"socket", h, g>>
        BY <4>1
      <4>3. InSocket(h) = InSocket(s)
        BY <2>4, <2>6, <4>2
      <4>4. h = s
        BY <4>3 DEF InSocket
      <4> QED  BY <4>2, <4>4, <2>3, <3>1 DEF Distinct
    <3> QED  BY <3>2, <3>3, OneElement
  <2> QED  BY <1>5, <2>5, <2>6, ConnPlaceCases
<1> QED  BY <1>4, <1>5

\* The inductive invariant holds in every reachable state.
THEOREM Invariant == Spec => []IInv
BY InitLemma, NextLemma, PTL DEF Spec

\* Every buffer in use has exactly one owner, a free one none: csp_buffer_get and
\* csp_buffer_free pair up on every path through router, sockets and tasks.
THEOREM BuffersHaveOneOwner == Spec => []OneOwner
BY Invariant, OneOwnerLemma, PTL

\* Every open connection has exactly one holder, a closed one none: no slot is
\* lost, and none is given out again while a task has its handle.
THEOREM ConnectionsHaveOneHolder == Spec => []OneHolder
BY Invariant, OneHolderLemma, PTL

\* csp_conn_find never has a choice, and clients' local ports are unique.
THEOREM ConnectionsUnambiguous == Spec => []NoAmbiguity
<1>1. IInv => NoAmbiguity  BY DEF IInv
<1> QED  BY <1>1, Invariant, PTL

\* What waits on a connection was sent on it, and passed its security check.
THEOREM PacketsAddressed == Spec => []Addressed
<1>1. IInv => Addressed  BY DEF IInv
<1> QED  BY <1>1, Invariant, PTL

-----------------------------------------------------------------------------
(***************************************************************************)
(* The ephemeral ports come round                                          *)
(***************************************************************************)
\* The ports from p up to q, in the order csp_connect tries them, without q.
Arc(p, q) ==
    {r \in Ephemeral : IF p <= q THEN p <= r /\ r < q ELSE p <= r \/ r < q}

\* The ephemeral ports of the open connections C.
UsedPorts(C) == {C[i].dport : i \in {j \in Slot : C[j].open}} \cap Ephemeral

\* The ports csp_connect has passed since it returned p, and those in use; s is
\* the port it returned last.
Gone(p, C, s) == (Arc(p, s) \cup UsedPorts(C)) \ {s}

\* Call k of n had port p: every port gone since was given to one of the n - k
\* calls after it, or is in use by one of the other connections.
Old(k, p, C, s, n) ==
    k \in 1 .. n /\ Cardinality(Gone(p, C, s)) <= n - k + ConnMax - 1

\* Ports that come before q in the search that starts at s.
Skipped(q, s) ==
    {r \in Ephemeral :
        Ahead(r, s, PortMax - PortMaxBind) < Ahead(q, s, PortMax - PortMaxBind)}

\* The arcs of a search that goes from s to q, passing p or not.
LEMMA Arcs ==
  ASSUME NEW s \in Ephemeral, NEW q \in Ephemeral, NEW p \in Ephemeral
  PROVE  /\ \/ Arc(p, q) \subseteq Skipped(q, s)
            \/ Arc(p, q) \subseteq Arc(p, s) \cup {s} \cup Skipped(q, s)
         /\ Arc(q, q) = {}
         /\ Ephemeral \subseteq Arc(q, s) \cup {s} \cup Skipped(q, s)
<1>1. PortMaxBind \in Nat /\ PortMax \in Nat
  BY NodeAssumption
<1>2. ASSUME NEW r \in Arc(p, q),
             Ahead(p, s, PortMax - PortMaxBind) <= Ahead(q, s, PortMax - PortMaxBind)
      PROVE  r \in Skipped(q, s)
  BY <1>1, <1>2, SMTT(30) DEF Arc, Skipped, Ahead, Ephemeral
<1>3. ASSUME NEW r \in Arc(p, q),
             Ahead(p, s, PortMax - PortMaxBind) > Ahead(q, s, PortMax - PortMaxBind)
      PROVE  r \in Arc(p, s) \cup {s} \cup Skipped(q, s)
  BY <1>1, <1>3, SMTT(30) DEF Arc, Skipped, Ahead, Ephemeral
<1>4. Arc(q, q) = {}
  BY <1>1 DEF Arc, Ephemeral
<1>5. Ephemeral \subseteq Arc(q, s) \cup {s} \cup Skipped(q, s)
  BY <1>1, SMTT(30) DEF Arc, Skipped, Ahead, Ephemeral
<1>6. \/ Ahead(p, s, PortMax - PortMaxBind) <= Ahead(q, s, PortMax - PortMaxBind)
      \/ Ahead(p, s, PortMax - PortMaxBind) > Ahead(q, s, PortMax - PortMaxBind)
  BY <1>1 DEF Ahead, Ephemeral
<1> QED  BY <1>2, <1>3, <1>4, <1>5, <1>6

\* The ports are finitely many, and at most one per open connection is in use.
LEMMA PortCounts ==
  ASSUME NEW C
  PROVE  /\ IsFiniteSet(Ephemeral) /\ Cardinality(Ephemeral) = PortMax - PortMaxBind
         /\ IsFiniteSet(UsedPorts(C)) /\ Cardinality(UsedPorts(C)) \in Nat
         /\ Cardinality(UsedPorts(C)) <= ConnMax
<1>1. PortMaxBind \in Nat /\ PortMax \in Nat /\ ConnMax \in Nat /\ PortMax > PortMaxBind
  BY NodeAssumption
<1>2. IsFiniteSet(Ephemeral) /\ Cardinality(Ephemeral) = PortMax - PortMaxBind
  <2>1. /\ IsFiniteSet(PortMaxBind + 1 .. PortMax)
        /\ Cardinality(PortMaxBind + 1 .. PortMax)
              = IF PortMaxBind + 1 > PortMax THEN 0 ELSE PortMax - (PortMaxBind + 1) + 1
    BY <1>1, FS_Interval
  <2> QED  BY <1>1, <2>1 DEF Ephemeral
<1>3. IsFiniteSet(Slot) /\ Cardinality(Slot) = ConnMax
  <2>1. IsFiniteSet(1 .. ConnMax)
        /\ Cardinality(1 .. ConnMax) = IF 1 > ConnMax THEN 0 ELSE ConnMax - 1 + 1
    BY <1>1, FS_Interval
  <2> QED  BY <1>1, <2>1 DEF Slot
<1> DEFINE D == {j \in Slot : C[j].open}
<1>4. D \in SUBSET Slot
  OBVIOUS
<1> HIDE DEF D
<1>5. IsFiniteSet(D) /\ Cardinality(D) <= ConnMax /\ Cardinality(D) \in Nat
  BY <1>3, <1>4, FS_Subset, FS_CardinalityType
<1> DEFINE V == {C[i].dport : i \in D}
           f == [i \in D |-> C[i].dport]
<1>6. f \in Surjection(D, V)
  <2>1. f \in [D -> V] /\ \A v \in V : \E i \in D : f[i] = v
    OBVIOUS
  <2> QED  BY <2>1 DEF Surjection
<1>7. IsFiniteSet(V) /\ Cardinality(V) <= Cardinality(D)
  <2> HIDE DEF V, f
  <2> QED  BY <1>5, <1>6, FS_Surjection
<1>8. UsedPorts(C) = V \cap Ephemeral
  BY DEF UsedPorts, D
<1> HIDE DEF V
<1>9. UsedPorts(C) \in SUBSET V
  BY <1>8
<1>10. IsFiniteSet(UsedPorts(C)) /\ Cardinality(UsedPorts(C)) <= Cardinality(V)
  BY <1>7, <1>9, FS_Subset
<1>11. Cardinality(UsedPorts(C)) \in Nat /\ Cardinality(V) \in Nat
  BY <1>7, <1>10, FS_CardinalityType
<1>12. Cardinality(UsedPorts(C)) <= ConnMax
  BY <1>1, <1>5, <1>7, <1>10, <1>11
<1> QED  BY <1>2, <1>10, <1>11, <1>12

\* A set of ephemeral ports inside another is finite and not larger.
LEMMA PortSets ==
  ASSUME NEW A, NEW B, A \subseteq B, B \subseteq Ephemeral
  PROVE  /\ IsFiniteSet(A) /\ Cardinality(A) \in Nat
         /\ IsFiniteSet(B) /\ Cardinality(B) \in Nat
         /\ Cardinality(A) <= Cardinality(B)
<1>1. IsFiniteSet(Ephemeral)
  BY PortCounts
<1>2. IsFiniteSet(B) /\ Cardinality(B) \in Nat
  BY <1>1, FS_Subset, FS_CardinalityType
<1>3. IsFiniteSet(A) /\ Cardinality(A) \in Nat /\ Cardinality(A) <= Cardinality(B)
  BY <1>2, FS_Subset, FS_CardinalityType
<1> QED  BY <1>2, <1>3

\* The ports gone are ephemeral, and no more than those in use when none was
\* tried since.
LEMMA GoneType ==
  ASSUME NEW p, NEW C, NEW s
  PROVE  Gone(p, C, s) \subseteq Ephemeral /\ Cardinality(Gone(p, C, s)) \in Nat
<1>1. Gone(p, C, s) \subseteq Ephemeral
  BY DEF Gone, Arc, UsedPorts
<1> QED  BY <1>1, PortSets

\* A step that leaves the search where it is and uses no further port keeps the
\* calls as old as they were.
LEMMA OldKept ==
  ASSUME NEW k, NEW p, NEW C, NEW D, NEW s, NEW n \in Nat, NEW m \in Nat, n <= m,
         UsedPorts(D) \subseteq UsedPorts(C), Old(k, p, C, s, n)
  PROVE  Old(k, p, D, s, m)
<1>1. Gone(p, D, s) \subseteq Gone(p, C, s)
  BY DEF Gone
<1>2. /\ Cardinality(Gone(p, D, s)) \in Nat /\ Cardinality(Gone(p, C, s)) \in Nat
      /\ Cardinality(Gone(p, D, s)) <= Cardinality(Gone(p, C, s))
  BY <1>1, GoneType, PortSets
<1>3. k \in 1 .. n /\ Cardinality(Gone(p, C, s)) <= n - k + ConnMax - 1 /\ ConnMax \in Nat
  BY NodeAssumption DEF Old
<1>4. k \in 1 .. m /\ Cardinality(Gone(p, D, s)) <= m - k + ConnMax - 1
  BY <1>2, <1>3
<1> QED  BY <1>4 DEF Old

\* Only ports in use come before the one csp_connect returns.
LEMMA SearchLemma ==
  ASSUME sport \in Ephemeral, Candidates # {}
  PROVE  /\ NextPort \in Ephemeral
         /\ Skipped(NextPort, sport) \subseteq UsedPorts(conn)
<1> DEFINE n == PortMax - PortMaxBind
<1>1. /\ n \in Nat /\ PortMaxBind \in Nat /\ PortMaxBind + n = PortMax
      /\ Ephemeral = PortMaxBind + 1 .. PortMaxBind + n
  BY NodeAssumption DEF Ephemeral
<1>2. Candidates \subseteq Unused /\ Unused \subseteq Ephemeral
  BY DEF Candidates, Unused
<1> HIDE DEF n
<1>3. \E q \in Candidates : \A r \in Candidates : Ahead(q, sport, n) <= Ahead(r, sport, n)
  BY <1>1, <1>2, NextExists
<1>4. /\ NextPort \in Candidates
      /\ \A r \in Candidates : Ahead(NextPort, sport, n) <= Ahead(r, sport, n)
  BY <1>3 DEF NextPort, n
<1>5. ASSUME NEW r \in Skipped(NextPort, sport) PROVE r \in UsedPorts(conn)
  <2>1. r \in Ephemeral /\ Ahead(r, sport, n) < Ahead(NextPort, sport, n)
    BY <1>5 DEF Skipped, n
  <2>2. r # sport
    BY <1>1, <1>2, <1>4, <2>1 DEF Ahead
  <2>3. r \notin Candidates
    BY <1>1, <1>2, <1>4, <2>1 DEF Ahead
  <2>4. r \notin Unused
    BY <2>2, <2>3 DEF Candidates
  <2> QED  BY <2>1, <2>4 DEF Unused, UsedPorts
<1> QED  BY <1>2, <1>4, <1>5

\* The search of csp_connect ages every call by one, or finds its port gone with
\* no more than those in use.
LEMMA SearchKeepsOld ==
  ASSUME NEW s \in Ephemeral, NEW q \in Ephemeral, NEW p \in Ephemeral, NEW C, NEW D,
         NEW n \in Nat, NEW k, Skipped(q, s) \subseteq UsedPorts(C),
         UsedPorts(C) \subseteq UsedPorts(D), UsedPorts(D) \subseteq UsedPorts(C) \cup {q},
         Old(k, p, C, s, n)
  PROVE  Old(k, p, D, q, n + 1)
<1>1. k \in 1 .. n /\ Cardinality(Gone(p, C, s)) <= n - k + ConnMax - 1 /\ ConnMax \in Nat
  BY NodeAssumption DEF Old
<1>2. Cardinality(Gone(p, D, q)) \in Nat /\ Cardinality(Gone(p, C, s)) \in Nat
  BY GoneType
<1>3. CASE Arc(p, q) \subseteq Skipped(q, s)
  <2>1. Gone(p, D, q) \subseteq UsedPorts(D) /\ UsedPorts(D) \subseteq Ephemeral
    BY <1>3 DEF Gone, UsedPorts
  <2>2. /\ Cardinality(UsedPorts(D)) \in Nat /\ Cardinality(UsedPorts(D)) <= ConnMax
        /\ Cardinality(Gone(p, D, q)) <= Cardinality(UsedPorts(D))
    BY <2>1, PortSets, PortCounts
  <2>3. k \in 1 .. n + 1 /\ Cardinality(Gone(p, D, q)) <= n + 1 - k + ConnMax - 1
    BY <1>1, <1>2, <2>2
  <2> QED  BY <2>3 DEF Old
<1>4. CASE Arc(p, q) \subseteq Arc(p, s) \cup {s} \cup Skipped(q, s)
  <2> DEFINE G == Gone(p, C, s)
  <2>1. Gone(p, D, q) \subseteq G \cup {s} /\ G \cup {s} \subseteq Ephemeral
    BY <1>4, GoneType DEF Gone
  <2> HIDE DEF G
  <2>2. /\ IsFiniteSet(G) /\ Cardinality(Gone(p, D, q)) <= Cardinality(G \cup {s})
    BY <2>1, PortSets
  <2>3. Cardinality(G \cup {s}) = IF s \in G THEN Cardinality(G) ELSE Cardinality(G) + 1
    BY <2>2, FS_AddElement
  <2>4. k \in 1 .. n + 1 /\ Cardinality(Gone(p, D, q)) <= n + 1 - k + ConnMax - 1
    BY <1>1, <1>2, <2>2, <2>3 DEF G
  <2> QED  BY <2>4 DEF Old
<1> QED  BY <1>3, <1>4, Arcs

\* The call that has just been given its port.
LEMMA SearchNew ==
  ASSUME NEW q \in Ephemeral, NEW D, NEW n \in Nat, q \in UsedPorts(D)
  PROVE  Old(n + 1, q, D, q, n + 1)
<1>1. Gone(q, D, q) = UsedPorts(D) \ {q}
  BY Arcs DEF Gone
<1>2. Cardinality(UsedPorts(D) \ {q}) = Cardinality(UsedPorts(D)) - 1
  BY PortCounts, FS_RemoveElement
<1>3. /\ Cardinality(UsedPorts(D)) \in Nat /\ Cardinality(UsedPorts(D)) <= ConnMax
      /\ ConnMax \in Nat
  BY PortCounts, NodeAssumption
<1>4. /\ n + 1 \in 1 .. n + 1
      /\ Cardinality(Gone(q, D, q)) <= (n + 1) - (n + 1) + ConnMax - 1
  BY <1>1, <1>2, <1>3
<1> QED  BY <1>4 DEF Old

\* At least as many calls later as there are ports, without those the other
\* connections may occupy.
Rounds == PortMax - PortMaxBind - (ConnMax - 1)

\* A port comes up again only when the search has come round.
LEMMA SearchRound ==
  ASSUME NEW s \in Ephemeral, NEW q \in Ephemeral, NEW C, NEW n \in Nat, NEW k,
         Skipped(q, s) \subseteq UsedPorts(C), Old(k, q, C, s, n)
  PROVE  n + 1 - k >= Rounds
<1> DEFINE E == Ephemeral
<1>1. E \ {s} \subseteq Gone(q, C, s)
  BY Arcs DEF Gone
<1>2. Gone(q, C, s) \subseteq E
  BY GoneType
<1>3. IsFiniteSet(E) /\ Cardinality(E) = PortMax - PortMaxBind /\ s \in E
  BY PortCounts
<1> HIDE DEF E
<1>4. Cardinality(E \ {s}) = Cardinality(E) - 1
  BY <1>3, FS_RemoveElement
<1>5. Cardinality(E \ {s}) <= Cardinality(Gone(q, C, s)) /\ Cardinality(Gone(q, C, s)) \in Nat
  BY <1>1, <1>2, PortSets DEF E
<1>6. k \in 1 .. n /\ Cardinality(Gone(q, C, s)) <= n - k + ConnMax - 1
  BY DEF Old
<1>7. PortMax \in Nat /\ PortMaxBind \in Nat /\ ConnMax \in Nat
  BY NodeAssumption
<1> QED  BY <1>3, <1>4, <1>5, <1>6, <1>7 DEF Rounds

-----------------------------------------------------------------------------
(***************************************************************************)
(* The age of what waits in the node                                       *)
(***************************************************************************)
\* The client's port of a request or a reply.
ClientPort(x) == IF x.sport \in Ephemeral THEN x.sport ELSE x.dport

\* A packet of this node is between a client and a service, and is old.
Numbered(x, C, s, n) ==
    x.src = "me" =>
        /\ x.sport \in Ephemeral <=> x.dport \notin Ephemeral
        /\ Old(x.call, ClientPort(x), C, s, n)

\* A client's task r has a connection to a service, and its call is old.
Calling(r, C, s, n) ==
    r.pc # "idle" =>
        /\ C[r.conn].src = "me" /\ C[r.conn].sport \notin Ephemeral
        /\ C[r.conn].dport \in Ephemeral
        /\ Old(r.call, C[r.conn].dport, C, s, n)

\* What a task r has read from its connection was sent on it.
ReadHere(r, C, P) ==
    r.conn # None /\ r.buf # None =>
        /\ P[r.buf].src = C[r.conn].src /\ P[r.buf].sport = C[r.conn].sport
        /\ P[r.buf].dport = C[r.conn].dport

\* A packet on the port of a client's call is of that call or rounds earlier.
Apart(r, C, x) ==
    r.pc # "idle" /\ x.src = "me" /\ C[r.conn].dport = ClientPort(x) =>
        x.call = r.call \/ r.call - x.call >= Rounds

Fresh ==
    /\ \A b \in DOMAIN packet : Numbered(packet[b], conn, sport, calls)
    /\ \A c \in Client : Calling(task[c], conn, sport, calls)
    /\ \A t \in Task : ReadHere(task[t], conn, packet)
    /\ \A c \in Client : \A b \in DOMAIN packet : Apart(task[c], conn, packet[b])

\* The hypothesis: clients call ports that a service can be bound to (csp_bind
\* refuses those above port_max_bind).
ServicePorts == \A c \in Client : Dport[c] <= PortMaxBind

\* A client that is not idle holds an open connection.
LEMMA CallerLemma ==
  ASSUME IInv, NEW c \in Client, task[c].pc # "idle"
  PROVE  /\ c \in Task /\ task[c].conn \in Slot /\ conn[task[c].conn].open
         /\ conn[task[c].conn] \in Conn
<1>1. c \in Task /\ c \notin ConnLess /\ c \notin Service /\ TypeOK /\ QueueTypes /\ Phase(c)
  BY NoneLemma DEF IInv, Task
<1>2. task[c].pc \in PC
  BY <1>1, QueueLemma
<1>3. task[c].conn \in Slot
  BY <1>1, <1>2 DEF Phase, PC
<1> QED  BY <1>1, <1>3, HolderLemma, NoneLemma, QueueLemma

\* No two tasks hold the same connection, nor the same buffer.
LEMMA OneTask ==
  ASSUME IInv, NEW t \in Task, NEW u \in Task, t # u
  PROVE  /\ task[t].conn # None => task[t].conn # task[u].conn
         /\ task[t].buf # None => task[t].buf # task[u].buf
<1> DEFINE H == BuffersAt(qfifo, task, conn, queue)
           R == ConnsAt(task, queue)
<1>1. /\ DOMAIN H = BufferPlace /\ H[InTask(t)] = {task[t].buf} \ {None}
      /\ H[InTask(u)] = {task[u].buf} \ {None}
  BY BuffersAtLemma
<1>2. /\ DOMAIN R = ConnPlace /\ R[InTask(t)] = {task[t].conn} \ {None}
      /\ R[InTask(u)] = {task[u].conn} \ {None}
  BY ConnsAtLemma
<1>3. Owned(H, DOMAIN packet) /\ Owned(R, OpenSlots)
  BY DEF IInv, BuffersOwned, ConnsHeld
<1>4. InTask(t) # InTask(u)
  BY DEF InTask
<1> HIDE DEF H, R
<1>5. H[InTask(t)] \cap H[InTask(u)] = {} /\ R[InTask(t)] \cap R[InTask(u)] = {}
  BY <1>1, <1>2, <1>3, <1>4, BufferPlaces, ConnPlaces DEF Owned
<1> QED  BY <1>1, <1>2, <1>5

\* What csp_transaction returns is the reply, or one that is rounds late.
LEMMA FreshReplies == IInv /\ Fresh => ReplyFresh
<1> SUFFICES ASSUME IInv, Fresh, NEW c \in Client, task[c].buf # None
             PROVE  LET age == task[c].call - packet[task[c].buf].call IN
                    age = 0 \/ age >= Rounds
  BY DEF ReplyFresh, Rounds
<1> DEFINE x == packet[task[c].buf]
           k == conn[task[c].conn]
<1>1. c \in Task /\ Phase(c) /\ TypeOK
  BY DEF IInv, Task
<1>2. task[c].pc # "idle"
  BY <1>1 DEF Phase
<1>3. task[c].conn \in Slot /\ task[c].conn # None
  BY <1>2, CallerLemma, NoneLemma
<1>4. task[c].buf \in DOMAIN packet
  BY <1>1, BufferLemma
<1>5. x.src = k.src /\ x.sport = k.sport /\ x.dport = k.dport
  BY <1>1, <1>3 DEF Fresh, ReadHere
<1>6. k.src = "me" /\ k.sport \notin Ephemeral /\ Old(task[c].call, k.dport, conn, sport, calls)
  BY <1>2 DEF Fresh, Calling
<1>7. Apart(task[c], conn, x) /\ x \in Packet
  BY <1>1, <1>4 DEF Fresh, TypeOK
<1>8. x.call = task[c].call \/ task[c].call - x.call >= Rounds
  <2> HIDE DEF x
  <2> QED  BY <1>2, <1>5, <1>6, <1>7 DEF Apart, ClientPort
<1>9. x.call \in Nat /\ task[c].call \in Nat
  <2>1. task[c].call \in 1 .. calls /\ calls \in Nat
    BY <1>1, <1>6, NodeAssumption DEF Old, TypeOK
  <2> QED  BY <1>7, <2>1 DEF Packet
<1> HIDE DEF x
<1>10. task[c].call - x.call = 0 \/ task[c].call - x.call >= Rounds
  BY <1>8, <1>9
<1> QED  BY <1>10 DEF x

\* A step other than csp_connect, with the one packet it stores, if any, in nb.
LEMMA FreshKept ==
  ASSUME IInv, Fresh, NEW nb,
         sport' = sport, calls' = calls,
         \A i \in Slot : conn[i].open =>
            /\ conn'[i].src = conn[i].src /\ conn'[i].sport = conn[i].sport
            /\ conn'[i].dport = conn[i].dport,
         \A i \in Slot : conn'[i].open => conn[i].open \/ conn'[i].dport \notin Ephemeral,
         \A a \in DOMAIN packet' \ {nb} : a \in DOMAIN packet /\ packet'[a] = packet[a],
         nb \in DOMAIN packet' =>
            /\ Numbered(packet'[nb], conn, sport, calls)
            /\ \A c \in Client : Apart(task[c], conn, packet'[nb]),
         \A c \in Client : task'[c].pc # "idle" =>
            /\ task[c].pc # "idle" /\ task'[c].conn = task[c].conn
            /\ task'[c].call = task[c].call,
         \A t \in Task : task'[t].conn # None /\ task'[t].buf # None =>
            /\ task'[t].buf \in DOMAIN packet' \ {nb}
            /\ task'[t].conn = task[t].conn
            /\ task'[t].buf = task[t].buf \/ task'[t].buf \in Elements(conn[task[t].conn].rx_queue)
  PROVE  Fresh'
<1>1. UsedPorts(conn') \subseteq UsedPorts(conn)
  BY DEF UsedPorts
<1>2. calls \in Nat /\ calls <= calls
  BY NodeAssumption DEF IInv, TypeOK
<1>3. \A k, p : Old(k, p, conn, sport, calls) => Old(k, p, conn', sport, calls)
  BY <1>1, <1>2, OldKept
<1>4. ASSUME NEW a \in DOMAIN packet' PROVE Numbered(packet'[a], conn', sport, calls)
  <2>1. Numbered(packet'[a], conn, sport, calls)
    BY DEF Fresh
  <2> QED  BY <1>3, <2>1 DEF Numbered
<1>5. ASSUME NEW c \in Client PROVE Calling(task'[c], conn', sport, calls)
  <2> SUFFICES ASSUME task'[c].pc # "idle"
               PROVE  Calling(task'[c], conn', sport, calls)
    BY DEF Calling
  <2>1. /\ task[c].pc # "idle" /\ task'[c].conn = task[c].conn
        /\ task'[c].call = task[c].call
    OBVIOUS
  <2>2. task[c].conn \in Slot /\ conn[task[c].conn].open
    BY <2>1, CallerLemma
  <2>3. Calling(task[c], conn, sport, calls)
    BY DEF Fresh
  <2> QED  BY <1>3, <2>1, <2>2, <2>3 DEF Calling
<1>6. ASSUME NEW t \in Task PROVE ReadHere(task'[t], conn', packet')
  <2> SUFFICES ASSUME task'[t].conn # None, task'[t].buf # None
               PROVE  ReadHere(task'[t], conn', packet')
    BY DEF ReadHere
  <2> DEFINE b == task'[t].buf
             i == task[t].conn
  <2>1. /\ b \in DOMAIN packet /\ packet'[b] = packet[b] /\ task'[t].conn = i
        /\ b = task[t].buf \/ b \in Elements(conn[i].rx_queue)
    OBVIOUS
  <2>2. i \in Slot /\ conn[i].open
    BY <2>1, HolderLemma
  <2>3. /\ packet[b].src = conn[i].src /\ packet[b].sport = conn[i].sport
        /\ packet[b].dport = conn[i].dport
    <3>1. CASE b = task[t].buf
      BY <2>1, <3>1 DEF Fresh, ReadHere
    <3>2. CASE b \in Elements(conn[i].rx_queue)
      BY <2>2, <3>2 DEF IInv, Addressed
    <3> QED  BY <2>1, <3>1, <3>2
  <2> QED  BY <2>1, <2>2, <2>3 DEF ReadHere
<1>7. ASSUME NEW c \in Client, NEW a \in DOMAIN packet'
      PROVE  Apart(task'[c], conn', packet'[a])
  <2> SUFFICES ASSUME task'[c].pc # "idle"
               PROVE  Apart(task'[c], conn', packet'[a])
    BY DEF Apart
  <2>1. /\ task[c].pc # "idle" /\ task'[c].conn = task[c].conn
        /\ task'[c].call = task[c].call
    OBVIOUS
  <2>2. task[c].conn \in Slot /\ conn[task[c].conn].open
    BY <2>1, CallerLemma
  <2>3. Apart(task[c], conn, packet'[a])
    BY DEF Fresh
  <2> QED  BY <2>1, <2>2, <2>3 DEF Apart
<1> QED  BY <1>4, <1>5, <1>6, <1>7 DEF Fresh

\* csp_connect: every call ages by one, and the new one is apart from the packets
\* still on its port.
LEMMA ConnectFresh ==
  ASSUME IInv, Fresh, ServicePorts, NEW c \in Client, Connect(c)
  PROVE  Fresh'
<1> DEFINE i == NextSlot
           q == NextPort
           new == [Closed EXCEPT !.open = TRUE, !.sport = Dport[c], !.dport = q,
                                 !.out_hmac = c \in Hmac, !.need_hmac = c \in Hmac]
           r == [pc |-> "connected", conn |-> i, buf |-> None, call |-> calls + 1]
<1>1. TypeOK /\ c \in Task /\ sport \in Ephemeral /\ calls \in Nat
  BY NodeAssumption DEF IInv, Task, TypeOK
<1>2. calls' = calls + 1 /\ calls \in Nat /\ calls + 1 \in Nat /\ calls <= calls + 1
  BY <1>1 DEF Connect
<1>3. /\ \A b \in DOMAIN packet : Numbered(packet[b], conn, sport, calls)
      /\ \A d \in Client : Calling(task[d], conn, sport, calls)
  BY DEF Fresh
<1>4. CASE Candidates = {}
  <2>1. UNCHANGED <<conn, sport, packet, task>>
    BY <1>4 DEF Connect
  <2>2. \A k, p : Old(k, p, conn, sport, calls) => Old(k, p, conn, sport, calls + 1)
    BY <1>2, OldKept
  <2>3. /\ \A b \in DOMAIN packet : Numbered(packet[b], conn, sport, calls + 1)
        /\ \A d \in Client : Calling(task[d], conn, sport, calls + 1)
    BY <1>3, <2>2 DEF Numbered, Calling
  <2> QED  BY <1>2, <2>1, <2>3 DEF Fresh
<1>5. CASE Candidates # {}
  <2>1. sport' = q /\ q \in Ephemeral /\ Skipped(q, sport) \subseteq UsedPorts(conn)
    BY <1>1, <1>5, SearchLemma DEF Connect
  <2> HIDE DEF q
  <2>2. CASE FreeSlots = {}
    <3>1. UNCHANGED <<conn, packet, task>>
      BY <1>5, <2>2 DEF Connect
    <3>2. \A k, p : p \in Ephemeral /\ Old(k, p, conn, sport, calls)
             => Old(k, p, conn, q, calls + 1)
      BY <1>1, <1>2, <2>1, SearchKeepsOld
    <3>3. /\ \A b \in DOMAIN packet : Numbered(packet[b], conn, q, calls + 1)
          /\ \A d \in Client : Calling(task[d], conn, q, calls + 1)
      BY <1>3, <3>2 DEF Numbered, Calling, ClientPort
    <3> QED  BY <1>2, <2>1, <3>1, <3>3 DEF Fresh
  <2>3. CASE FreeSlots # {}
    <3>1. i \in Slot /\ ~conn[i].open /\ conn[i].rx_queue = <<>>
      <4>1. i \in FreeSlots
        BY <1>1, <2>3, NextSlotLemma DEF TypeOK
      <4> QED  BY <4>1 DEF FreeSlots, IInv, SlotOK
    <3>2. /\ conn' = [conn EXCEPT ![i] = new]
          /\ packet' = Free(packet, Elements(conn[i].rx_queue))
          /\ task' = [task EXCEPT ![c] = r]
      BY <1>5, <2>3 DEF Connect, q
    <3>3. DOMAIN packet' = DOMAIN packet /\ \A a \in DOMAIN packet : packet'[a] = packet[a]
      BY <3>1, <3>2, EmptyElements DEF Free
    <3>4. new.open /\ new.src = "me" /\ new.sport = Dport[c] /\ new.dport = q
      BY DEF Closed
    <3>5. Dport[c] \notin Ephemeral
      BY NodeAssumption DEF ServicePorts, Ephemeral
    <3> HIDE DEF new, i
    <3>6. conn'[i] = new /\ \A j \in Slot \ {i} : conn'[j] = conn[j]
      BY <1>1, <3>1, <3>2 DEF TypeOK
    <3>7. task'[c] = r /\ \A u \in Task \ {c} : task'[u] = task[u]
      BY <1>1, <3>2 DEF TypeOK
    <3>8. r.pc # "idle" /\ r.conn = i /\ r.buf = None /\ r.call = calls + 1
      OBVIOUS
    <3> HIDE DEF r
    <3>9. /\ UsedPorts(conn) \subseteq UsedPorts(conn') /\ q \in UsedPorts(conn')
          /\ UsedPorts(conn') \subseteq UsedPorts(conn) \cup {q}
      BY <2>1, <3>1, <3>4, <3>6 DEF UsedPorts
    <3>10. \A k, p : p \in Ephemeral /\ Old(k, p, conn, sport, calls)
             => Old(k, p, conn', q, calls + 1)
      BY <1>1, <1>2, <2>1, <3>9, SearchKeepsOld
    <3>11. ASSUME NEW d \in Client, d # c, task[d].pc # "idle"
           PROVE  /\ d \in Task /\ task'[d] = task[d]
                  /\ conn'[task[d].conn] = conn[task[d].conn]
      BY <3>1, <3>6, <3>7, <3>11, CallerLemma
    <3>12. ASSUME NEW b \in DOMAIN packet' PROVE Numbered(packet'[b], conn', q, calls + 1)
      <4>1. Numbered(packet[b], conn, sport, calls) /\ packet'[b] = packet[b]
        BY <1>3, <3>3
      <4> QED  BY <3>10, <4>1 DEF Numbered, ClientPort
    <3>13. ASSUME NEW d \in Client PROVE Calling(task'[d], conn', q, calls + 1)
      <4>1. CASE d = c
        <5>1. Old(calls + 1, q, conn', q, calls + 1)
          BY <1>1, <2>1, <3>9, SearchNew
        <5> QED  BY <4>1, <5>1, <2>1, <3>4, <3>5, <3>6, <3>7, <3>8 DEF Calling
      <4>2. CASE d # c
        <5>1. d \in Task /\ task'[d] = task[d]
          BY <3>7, <4>2 DEF Task
        <5> QED  BY <5>1, <4>2, <1>3, <3>10, <3>11 DEF Calling
      <4> QED  BY <4>1, <4>2
    <3>14. ASSUME NEW t \in Task PROVE ReadHere(task'[t], conn', packet')
      <4>1. CASE t = c
        BY <4>1, <3>7, <3>8 DEF ReadHere
      <4>2. CASE t # c
        <5> SUFFICES ASSUME task[t].conn # None, task[t].buf # None
                     PROVE  ReadHere(task[t], conn', packet')
          BY <3>7, <4>2 DEF ReadHere
        <5>1. conn'[task[t].conn] = conn[task[t].conn]
          BY <3>1, <3>6, HolderLemma
        <5>2. packet'[task[t].buf] = packet[task[t].buf]
          BY <3>3, BufferLemma
        <5>3. ReadHere(task[t], conn, packet)
          BY DEF Fresh
        <5> QED  BY <5>1, <5>2, <5>3 DEF ReadHere
      <4> QED  BY <4>1, <4>2
    <3>15. ASSUME NEW d \in Client, NEW b \in DOMAIN packet'
           PROVE  Apart(task'[d], conn', packet'[b])
      <4>1. Numbered(packet[b], conn, sport, calls) /\ packet'[b] = packet[b] /\ b \in DOMAIN packet
        BY <1>3, <3>3
      <4>2. CASE d = c
        <5>1. /\ task'[d].conn = i /\ task'[d].call = calls + 1 /\ conn'[i].dport = q
              /\ packet'[b] = packet[b]
          BY <4>1, <4>2, <3>4, <3>6, <3>7, <3>8
        <5>2. ASSUME packet[b].src = "me", q = ClientPort(packet[b])
              PROVE  task'[d].call - packet[b].call >= Rounds
          <6>1. Old(packet[b].call, q, conn, sport, calls)
            BY <4>1, <5>2 DEF Numbered
          <6>2. calls + 1 - packet[b].call >= Rounds
            BY <1>1, <2>1, <6>1, SearchRound
          <6>3. packet[b].call \in Nat /\ Rounds \in Int
            BY <1>1, <6>1, NodeAssumption DEF Old, Rounds
          <6> QED  BY <1>1, <5>1, <6>2, <6>3
        <5> QED  BY <5>1, <5>2 DEF Apart
      <4>3. CASE d # c
        <5>1. Apart(task[d], conn, packet[b])
          BY <4>1 DEF Fresh
        <5>2. d \in Task /\ task'[d] = task[d]
          BY <3>7, <4>3 DEF Task
        <5> QED  BY <4>1, <4>3, <5>1, <5>2, <3>11 DEF Apart
      <4> QED  BY <4>2, <4>3
    <3> QED  BY <1>2, <2>1, <3>12, <3>13, <3>14, <3>15 DEF Fresh
  <2> QED  BY <2>2, <2>3
<1> QED  BY <1>4, <1>5

\* The buffer a task holds is in use.
LEMMA HeldBuffers == IInv => \A t \in Task : task[t].buf # None => task[t].buf \in DOMAIN packet
BY BufferLemma

\* A step other than csp_connect that stores no packet.
LEMMA FreshQuiet ==
  ASSUME IInv, Fresh, IInv',
         sport' = sport, calls' = calls,
         \A i \in Slot : conn[i].open =>
            /\ conn'[i].src = conn[i].src /\ conn'[i].sport = conn[i].sport
            /\ conn'[i].dport = conn[i].dport,
         \A i \in Slot : conn'[i].open => conn[i].open \/ conn'[i].dport \notin Ephemeral,
         \A a \in DOMAIN packet' : a \in DOMAIN packet /\ packet'[a] = packet[a],
         \A c \in Client : task'[c].pc # "idle" =>
            /\ task[c].pc # "idle" /\ task'[c].conn = task[c].conn
            /\ task'[c].call = task[c].call,
         \A t \in Task : task'[t].conn # None /\ task'[t].buf # None =>
            /\ task'[t].conn = task[t].conn
            /\ task'[t].buf = task[t].buf \/ task'[t].buf \in Elements(conn[task[t].conn].rx_queue)
  PROVE  Fresh'
<1>1. 0 \notin DOMAIN packet'
  <2>1. DOMAIN packet \subseteq 1 .. Buffers
    BY DEF IInv, TypeOK
  <2> QED  BY <2>1
<1>2. \A t \in Task : task'[t].buf # None => task'[t].buf \in DOMAIN packet'
  <2>1. IInv' => (\A t \in Task : task[t].buf # None => task[t].buf \in DOMAIN packet)'
    BY HeldBuffers, PTL
  <2> QED  BY <2>1
<1>3. \A a \in DOMAIN packet' \ {0} : a \in DOMAIN packet /\ packet'[a] = packet[a]
  OBVIOUS
<1>4. \A t \in Task : task'[t].conn # None /\ task'[t].buf # None =>
         /\ task'[t].buf \in DOMAIN packet' \ {0}
         /\ task'[t].conn = task[t].conn
         /\ task'[t].buf = task[t].buf \/ task'[t].buf \in Elements(conn[task[t].conn].rx_queue)
  BY <1>1, <1>2
<1> QED  BY <1>1, <1>3, <1>4, FreshKept

\* csp_read.
LEMMA ReadPacketFresh ==
  ASSUME IInv, Fresh, IInv', NEW t \in Task, ReadPacket(t), task[t].pc # "idle",
         task[t].conn # None
  PROVE  Fresh'
<1> DEFINE i == task[t].conn
<1>1. TypeOK /\ QueueTypes /\ i \in Slot
  BY HolderLemma DEF IInv
<1>2. /\ conn[i].rx_queue # <<>>
      /\ conn' = [conn EXCEPT ![i].rx_queue = Tail(@)]
      /\ task' = [task EXCEPT ![t].pc = "done", ![t].buf = Head(conn[i].rx_queue)]
      /\ UNCHANGED <<sport, packet, calls>>
  BY DEF ReadPacket
<1>3. conn[i] \in Conn /\ Head(conn[i].rx_queue) \in Elements(conn[i].rx_queue)
  BY <1>1, <1>2, QueueLemma, TailElements
<1>4. /\ conn'[i] = [conn[i] EXCEPT !.rx_queue = Tail(conn[i].rx_queue)]
      /\ \A j \in Slot \ {i} : conn'[j] = conn[j]
  BY <1>1, <1>2 DEF TypeOK
<1>5. /\ conn'[i].open = conn[i].open /\ conn'[i].src = conn[i].src
      /\ conn'[i].sport = conn[i].sport /\ conn'[i].dport = conn[i].dport
  BY <1>3, <1>4 DEF Conn
<1>6. /\ task'[t].conn = i /\ task'[t].call = task[t].call
      /\ task'[t].buf = Head(conn[i].rx_queue)
      /\ \A u \in Task \ {t} : task'[u] = task[u]
  BY <1>1, <1>2 DEF TypeOK
<1>7. \A j \in Slot : /\ conn'[j].open = conn[j].open /\ conn'[j].src = conn[j].src
                      /\ conn'[j].sport = conn[j].sport /\ conn'[j].dport = conn[j].dport
  BY <1>4, <1>5
<1>8. \A c \in Client : c \in Task
  BY DEF Task
<1>9. \A u \in Task :
         /\ task'[u].conn = task[u].conn /\ task'[u].call = task[u].call
         /\ task'[u].buf = task[u].buf \/ task'[u].buf \in Elements(conn[task[u].conn].rx_queue)
  BY <1>3, <1>6
<1>10. \A c \in Client : task'[c].pc # "idle" =>
            /\ task[c].pc # "idle" /\ task'[c].conn = task[c].conn
            /\ task'[c].call = task[c].call
  BY <1>6, <1>8, <1>9
<1> QED  BY <1>2, <1>7, <1>9, <1>10, FreshQuiet

\* csp_close.
LEMMA CloseFresh ==
  ASSUME IInv, Fresh, IInv', NEW t \in Task, Close(t), task[t].conn # None
  PROVE  Fresh'
<1> DEFINE i == task[t].conn
<1>1. TypeOK /\ QueueTypes /\ i \in Slot /\ conn[i].open /\ conn[i] \in Conn
  BY HolderLemma, QueueLemma DEF IInv
<1>2. /\ conn' = [conn EXCEPT ![i].open = FALSE, ![i].rx_queue = <<>>]
      /\ packet' = Free(packet, Elements(conn[i].rx_queue) \cup {task[t].buf})
      /\ task' = [task EXCEPT ![t] = Idle]
      /\ UNCHANGED <<sport, calls>>
  BY DEF Close, CloseConn
<1>3. /\ conn'[i] = [conn[i] EXCEPT !.open = FALSE, !.rx_queue = <<>>]
      /\ \A j \in Slot \ {i} : conn'[j] = conn[j]
  BY <1>1, <1>2 DEF TypeOK
<1>4. /\ ~conn'[i].open /\ conn'[i].src = conn[i].src
      /\ conn'[i].sport = conn[i].sport /\ conn'[i].dport = conn[i].dport
  BY <1>1, <1>3 DEF Conn
<1>5. \A a \in DOMAIN packet' : a \in DOMAIN packet /\ packet'[a] = packet[a]
  BY <1>2 DEF Free
<1>6. task'[t].pc = "idle" /\ task'[t].conn = None /\ \A u \in Task \ {t} : task'[u] = task[u]
  BY <1>1, <1>2 DEF TypeOK, Idle
<1>7. \A c \in Client : c \in Task
  BY DEF Task
<1>8. /\ \A j \in Slot : conn[j].open =>
            /\ conn'[j].src = conn[j].src /\ conn'[j].sport = conn[j].sport
            /\ conn'[j].dport = conn[j].dport
      /\ \A j \in Slot : conn'[j].open => conn[j].open
  BY <1>3, <1>4
<1>9. \A c \in Client : task'[c].pc # "idle" =>
         /\ task[c].pc # "idle" /\ task'[c].conn = task[c].conn
         /\ task'[c].call = task[c].call
  BY <1>6, <1>7
<1>10. \A u \in Task : task'[u].conn # None /\ task'[u].buf # None =>
          task'[u].conn = task[u].conn /\ task'[u].buf = task[u].buf
  BY <1>6
<1> QED  BY <1>2, <1>5, <1>8, <1>9, <1>10, FreshQuiet

\* The steps that neither store a packet nor touch a connection: a client goes
\* on, a service accepts a connection or takes a packet from its socket.
LEMMA TaskFresh ==
  ASSUME IInv, Fresh, IInv', UNCHANGED <<conn, sport, packet, calls>>,
         NEW t \in Task, \A u \in Task \ {t} : task'[u] = task[u],
         \/ task'[t].conn = None \/ task'[t].buf = None
         \/ task'[t].conn = task[t].conn /\ task'[t].buf = task[t].buf,
         t \in Client => /\ task[t].pc # "idle" /\ task'[t].conn = task[t].conn
                         /\ task'[t].call = task[t].call
  PROVE  Fresh'
<1>1. \A c \in Client : c \in Task
  BY DEF Task
<1>2. \A c \in Client : task'[c].pc # "idle" =>
         /\ task[c].pc # "idle" /\ task'[c].conn = task[c].conn
         /\ task'[c].call = task[c].call
  BY <1>1
<1>3. \A u \in Task : task'[u].conn # None /\ task'[u].buf # None =>
          task'[u].conn = task[u].conn /\ task'[u].buf = task[u].buf
  OBVIOUS
<1> QED  BY <1>2, <1>3, FreshQuiet

\* A task stores a packet in buffer b, which no task holds afterwards.
LEMMA SentFresh ==
  ASSUME IInv, Fresh, NEW t \in Task, NEW b, NEW p, UNCHANGED <<conn, sport, calls>>,
         \/ packet' = Store(packet, b, p) /\ Numbered(p, conn, sport, calls)
               /\ \A c \in Client : Apart(task[c], conn, p)
         \/ packet' = Free(packet, {b}),
         \A u \in Task \ {t} : task'[u] = task[u] /\ task[u].buf # b,
         task'[t].buf = None,
         t \in Client => /\ task[t].pc # "idle" /\ task'[t].conn = task[t].conn
                         /\ task'[t].call = task[t].call
  PROVE  Fresh'
<1>1. /\ \A a \in DOMAIN packet' \ {b} : a \in DOMAIN packet /\ packet'[a] = packet[a]
      /\ \A a \in DOMAIN packet \ {b} : a \in DOMAIN packet'
      /\ b \in DOMAIN packet' => /\ Numbered(packet'[b], conn, sport, calls)
                                 /\ \A c \in Client : Apart(task[c], conn, packet'[b])
  <2>1. CASE packet' = Free(packet, {b})
    BY <2>1 DEF Free
  <2>2. CASE packet' = Store(packet, b, p) /\ Numbered(p, conn, sport, calls)
               /\ \A c \in Client : Apart(task[c], conn, p)
    <3>1. /\ DOMAIN packet' = DOMAIN packet \cup {b} /\ packet'[b] = p
          /\ \A a \in DOMAIN packet \ {b} : packet'[a] = packet[a]
      BY <2>2 DEF Store
    <3> QED  BY <2>2, <3>1
  <2> QED  BY <2>1, <2>2
<1>2. \A c \in Client : c \in Task
  BY DEF Task
<1>3. \A c \in Client : task'[c].pc # "idle" =>
         /\ task[c].pc # "idle" /\ task'[c].conn = task[c].conn
         /\ task'[c].call = task[c].call
  BY <1>2
<1>4. \A u \in Task : task'[u].conn # None /\ task'[u].buf # None =>
          /\ task'[u].buf \in DOMAIN packet' \ {b}
          /\ task'[u].conn = task[u].conn /\ task'[u].buf = task[u].buf
  BY <1>1, BufferLemma
<1> QED  BY <1>1, <1>3, <1>4, FreshKept

\* csp_transaction_persistent sends the request of its call, on a port that is
\* no other client's.
LEMMA RequestFresh ==
  ASSUME IInv, Fresh, NEW c \in Client, Request(c)
  PROVE  Fresh'
<1> DEFINE k == conn[task[c].conn]
           p == [src |-> "me", dst |-> k.src, sport |-> k.dport, dport |-> k.sport,
                 hmac |-> k.out_hmac, call |-> task[c].call]
<1>1. /\ task[c].pc = "connected" /\ Available # {} /\ SendDirect(FreeBuffer, p)
      /\ task' = [task EXCEPT ![c].pc = "waiting"]
      /\ UNCHANGED <<conn, sport, calls>>
  BY DEF Request, At, Goto
<1>2. TypeOK /\ c \in Task /\ Phase(c) /\ task[c].buf = None
  BY <1>1 DEF IInv, Task, Phase
<1>3. /\ task[c].conn \in Slot /\ k.open /\ k.src = "me" /\ k.sport \notin Ephemeral
      /\ k.dport \in Ephemeral /\ Old(task[c].call, k.dport, conn, sport, calls)
  BY <1>1, CallerLemma DEF Fresh, Calling
<1>4. p.src = "me" /\ p.sport = k.dport /\ p.dport = k.sport /\ p.call = task[c].call
  OBVIOUS
<1> HIDE DEF p
<1>5. ClientPort(p) = k.dport /\ Numbered(p, conn, sport, calls)
  BY <1>3, <1>4 DEF ClientPort, Numbered
<1>6. ASSUME NEW d \in Client PROVE Apart(task[d], conn, p)
  <2> SUFFICES ASSUME d # c, task[d].pc # "idle", conn[task[d].conn].dport = k.dport
               PROVE  FALSE
    BY <1>4, <1>5 DEF Apart
  <2>1. d \in Task /\ task[d].conn \in Slot /\ conn[task[d].conn].open
    BY CallerLemma
  <2>2. task[d].conn = task[c].conn
    BY <1>3, <2>1 DEF IInv, NoAmbiguity
  <2> QED  BY <1>2, <1>3, <2>1, <2>2, OneTask, NoneLemma
<1>7. FreeBuffer \notin DOMAIN packet /\ FreeBuffer \in 1 .. Buffers
  BY <1>1, FreeBufferLemma, NoneLemma DEF Available
<1>8. packet' = Store(packet, FreeBuffer, p) \/ packet' = Free(packet, {FreeBuffer})
  BY <1>1, SentLemma DEF Sent
<1>9. /\ task'[c].conn = task[c].conn /\ task'[c].call = task[c].call
      /\ task'[c].buf = None /\ \A u \in Task \ {c} : task'[u] = task[u]
  BY <1>1, <1>2 DEF TypeOK
<1>10. \A u \in Task : task[u].buf # FreeBuffer
  BY <1>7, BufferLemma, NoneLemma
<1> HIDE DEF k
<1> QED  BY <1>1, <1>2, <1>5, <1>6, <1>8, <1>9, <1>10, SentFresh

\* A reply is as old as the request it answers, on the same port.
LEMMA AnswerLemma ==
  ASSUME Fresh, NEW b \in DOMAIN packet, NEW x, packet[b].src = "me",
         x.src = "me", x.sport = packet[b].dport, x.dport = packet[b].sport,
         x.call = packet[b].call
  PROVE  /\ Numbered(x, conn, sport, calls)
         /\ \A c \in Client : Apart(task[c], conn, x)
<1>1. Numbered(packet[b], conn, sport, calls) /\ \A c \in Client : Apart(task[c], conn, packet[b])
  BY DEF Fresh
<1>2. ClientPort(x) = ClientPort(packet[b])
  BY <1>1 DEF ClientPort, Numbered
<1>3. Numbered(x, conn, sport, calls)
  BY <1>1, <1>2 DEF Numbered
<1>4. ASSUME NEW c \in Client PROVE Apart(task[c], conn, x)
  <2>1. Apart(task[c], conn, packet[b])
    BY <1>1
  <2> QED  BY <1>2, <2>1 DEF Apart
<1> QED  BY <1>3, <1>4

\* A service answers on its connection.
LEMMA ServerReplyFresh ==
  ASSUME IInv, Fresh, NEW s \in Service, ServerReply(s)
  PROVE  Fresh'
<1> DEFINE k == conn[task[s].conn]
           b == task[s].buf
           p == [packet[b] EXCEPT !.src = "me", !.dst = k.src, !.sport = k.dport,
                                  !.dport = k.sport, !.hmac = k.out_hmac]
<1>1. TypeOK /\ Phase(s) /\ s \in Task /\ s \notin Client
  BY NoneLemma DEF IInv, Task
<1>2. /\ s \notin ConnLess /\ At(s, "done")
      /\ SendDirect(b, p) \/ (qfifo' = qfifo /\ packet' = Free(packet, {b}))
      /\ task' = [task EXCEPT ![s].pc = "serving", ![s].buf = None]
      /\ UNCHANGED <<conn, sport, calls>>
  BY DEF ServerReply
<1>3. task[s].conn \in Slot /\ task[s].conn # None /\ b # None /\ b \in DOMAIN packet
  BY <1>1, <1>2, BufferLemma, NoneLemma DEF Phase, At
<1>4. /\ packet[b] \in Packet /\ packet[b].src = k.src /\ packet[b].sport = k.sport
      /\ packet[b].dport = k.dport
  BY <1>1, <1>3 DEF TypeOK, Fresh, ReadHere
<1>5. /\ p.src = "me" /\ p.dst = k.src /\ p.sport = k.dport /\ p.dport = k.sport
      /\ p.call = packet[b].call
  BY <1>4 DEF Packet
<1> HIDE DEF p
<1>6. \/ packet' = Store(packet, b, p) /\ p.dst = "me"
      \/ packet' = Free(packet, {b})
  BY <1>2 DEF SendDirect, FifoWrite
<1>7. p.dst = "me" => /\ Numbered(p, conn, sport, calls)
                      /\ \A c \in Client : Apart(task[c], conn, p)
  BY <1>3, <1>4, <1>5, AnswerLemma
<1>8. task'[s].buf = None /\ \A u \in Task \ {s} : task'[u] = task[u]
  BY <1>1, <1>2 DEF TypeOK
<1>9. \A u \in Task \ {s} : task[u].buf # b
  BY <1>1, <1>3, OneTask
<1>10. \/ packet' = Store(packet, b, p) /\ Numbered(p, conn, sport, calls)
               /\ \A c \in Client : Apart(task[c], conn, p)
       \/ packet' = Free(packet, {b})
  BY <1>6, <1>7
<1>11. UNCHANGED <<conn, sport, calls>>
  BY <1>2
<1> HIDE DEF b, k
<1> QED  BY <1>1, <1>8, <1>9, <1>10, <1>11, SentFresh

\* A connection-less service answers.
LEMMA SendtoReplyFresh ==
  ASSUME IInv, Fresh, NEW s \in Service, SendtoReply(s)
  PROVE  Fresh'
<1> DEFINE b == task[s].buf
           q == packet[b]
           h == s \in Hmac
           p == [q EXCEPT !.src = "me", !.dst = q.src, !.sport = q.dport,
                          !.dport = q.sport, !.hmac = h]
<1>1. TypeOK /\ Phase(s) /\ s \in Task /\ s \notin Client
  BY NoneLemma DEF IInv, Task
<1>2. /\ s \in ConnLess /\ At(s, "done") /\ SendDirect(b, p)
      /\ task' = [task EXCEPT ![s] = Idle]
      /\ UNCHANGED <<conn, sport, calls>>
  BY DEF SendtoReply
<1>3. b # None /\ b \in DOMAIN packet
  BY <1>1, <1>2, BufferLemma DEF Phase, At
<1>4. q \in Packet
  BY <1>1, <1>3 DEF TypeOK
<1> HIDE DEF h
<1>5. /\ p.src = "me" /\ p.dst = q.src /\ p.sport = q.dport /\ p.dport = q.sport
      /\ p.call = q.call
  BY <1>4 DEF Packet
<1> HIDE DEF p
<1>6. \/ packet' = Store(packet, b, p) /\ p.dst = "me"
      \/ packet' = Free(packet, {b})
  BY <1>2 DEF SendDirect, FifoWrite
<1>7. p.dst = "me" => /\ Numbered(p, conn, sport, calls)
                      /\ \A c \in Client : Apart(task[c], conn, p)
  BY <1>3, <1>5, AnswerLemma
<1>8. task'[s].buf = None /\ \A u \in Task \ {s} : task'[u] = task[u]
  BY <1>1, <1>2 DEF TypeOK, Idle
<1>9. \A u \in Task \ {s} : task[u].buf # b
  BY <1>1, <1>3, OneTask
<1>10. \/ packet' = Store(packet, b, p) /\ Numbered(p, conn, sport, calls)
               /\ \A c \in Client : Apart(task[c], conn, p)
       \/ packet' = Free(packet, {b})
  BY <1>6, <1>7
<1>11. UNCHANGED <<conn, sport, calls>>
  BY <1>2
<1> HIDE DEF b, q
<1> QED  BY <1>1, <1>8, <1>9, <1>10, <1>11, SentFresh

\* A packet of the other node belongs to no call of this node.
LEMMA InjectFresh ==
  ASSUME IInv, Fresh, NEW p \in Injectable, Inject(p)
  PROVE  Fresh'
<1>1. /\ Available # {} /\ p.src = "far" /\ FifoWrite(FreeBuffer, p)
      /\ UNCHANGED <<conn, sport, task, calls>>
  BY DEF Inject
<1>2. FreeBuffer \notin DOMAIN packet /\ FreeBuffer \in 1 .. Buffers
  BY <1>1, FreeBufferLemma, NoneLemma DEF Available
<1>3. Numbered(p, conn, sport, calls) /\ \A c \in Client : Apart(task[c], conn, p)
  BY <1>1 DEF Numbered, Apart
<1>4. packet' = Store(packet, FreeBuffer, p) \/ packet' = Free(packet, {FreeBuffer})
  BY <1>1, SentLemma DEF Sent
<1>5. /\ \A a \in DOMAIN packet' \ {FreeBuffer} : a \in DOMAIN packet /\ packet'[a] = packet[a]
      /\ DOMAIN packet \subseteq DOMAIN packet'
      /\ FreeBuffer \in DOMAIN packet' => packet'[FreeBuffer] = p
  BY <1>2, <1>4 DEF Store, Free
<1>6. \A u \in Task : task[u].conn # None /\ task[u].buf # None =>
         task[u].buf \in DOMAIN packet' \ {FreeBuffer}
  BY <1>2, <1>5, BufferLemma
<1> QED  BY <1>1, <1>3, <1>5, <1>6, FreshKept

\* A step of the router: packets are dropped or stay as they are, and a connection
\* it opens is for the port of a socket.
LEMMA RouterFresh ==
  ASSUME IInv, Fresh, IInv', UNCHANGED <<sport, task, calls>>,
         \A i \in Slot : conn[i].open =>
            /\ conn'[i].src = conn[i].src /\ conn'[i].sport = conn[i].sport
            /\ conn'[i].dport = conn[i].dport,
         \A i \in Slot : conn'[i].open => conn[i].open \/ conn'[i].dport \notin Ephemeral,
         \A a \in DOMAIN packet' : a \in DOMAIN packet /\ packet'[a] = packet[a]
  PROVE  Fresh'
BY FreshQuiet

\* csp_udp_new_packet keeps the addresses of the connection.
LEMMA UdpKeeps ==
  ASSUME TypeOK, NEW i \in Slot, NEW k \in Conn, NEW b, UdpNewPacket(i, k, b)
  PROVE  /\ conn'[i].src = k.src /\ conn'[i].sport = k.sport /\ conn'[i].dport = k.dport
         /\ \A j \in Slot \ {i} : conn'[j] = conn[j]
         /\ \A a \in DOMAIN packet' : a \in DOMAIN packet /\ packet'[a] = packet[a]
<1>1. PICK new : /\ conn' = [conn EXCEPT ![i] = new]
                 /\ new.src = k.src /\ new.sport = k.sport /\ new.dport = k.dport
  <2> DEFINE n1 == [k EXCEPT !.open = FALSE, !.rx_queue = <<>>]
             n2 == [k EXCEPT !.socket = None, !.rx_queue = Append(@, b)]
  <2>1. conn' = [conn EXCEPT ![i] = k] \/ conn' = [conn EXCEPT ![i] = n1]
        \/ conn' = [conn EXCEPT ![i] = n2]
    BY DEF UdpNewPacket
  <2>2. n1.src = k.src /\ n1.sport = k.sport /\ n1.dport = k.dport
    BY DEF Conn
  <2>3. n2.src = k.src /\ n2.sport = k.sport /\ n2.dport = k.dport
    BY DEF Conn
  <2> HIDE DEF n1, n2
  <2> QED  BY <2>1, <2>2, <2>3
<1>2. conn'[i] = new /\ \A j \in Slot \ {i} : conn'[j] = conn[j]
  BY <1>1 DEF TypeOK
<1>3. PICK B : packet' = Free(packet, B)
  BY DEF UdpNewPacket
<1>4. \A a \in DOMAIN packet' : a \in DOMAIN packet /\ packet'[a] = packet[a]
  BY <1>3 DEF Free
<1> QED  BY <1>1, <1>2, <1>4

\* Every step of the router keeps the ages.
LEMMA RouteFresh ==
  ASSUME IInv, Fresh, IInv', NEW b \in DOMAIN packet, Route(b, packet[b])
  PROVE  Fresh'
<1> DEFINE p == packet[b]
<1> HIDE DEF p
<1>1. TypeOK /\ QueueTypes
  BY DEF IInv
<1>2. ASSUME Dropped(b) PROVE Fresh'
  <2>1. \A a \in DOMAIN packet' : a \in DOMAIN packet /\ packet'[a] = packet[a]
    BY <1>2 DEF Dropped, Free
  <2>2. UNCHANGED <<conn, sport, task, calls>>
    BY <1>2 DEF Dropped
  <2> QED  BY <2>1, <2>2, RouterFresh
<1>3. CASE Forward(b, p)  BY <1>2, <1>3 DEF Forward
<1>4. CASE Deliver(b, p)  BY <1>4, RouterFresh DEF Deliver
<1>5. CASE DeliverDrop(b, p)  BY <1>2, <1>5 DEF DeliverDrop
<1>6. ASSUME NEW i \in Slot, Receive(i, b, p) PROVE Fresh'
  <2>1. UdpNewPacket(i, conn[i], b) /\ conn[i].open /\ UNCHANGED <<sport, task, calls>>
    BY <1>6 DEF Receive, Find, Matches
  <2>2. /\ \A j \in Slot : /\ conn'[j].src = conn[j].src /\ conn'[j].sport = conn[j].sport
                           /\ conn'[j].dport = conn[j].dport
                           /\ conn'[j].open => conn[j].open
        /\ \A a \in DOMAIN packet' : a \in DOMAIN packet /\ packet'[a] = packet[a]
    BY <1>1, <2>1, UdpKeeps, QueueLemma
  <2> QED  BY <2>1, <2>2, RouterFresh
<1>7. ASSUME NEW i \in Slot, ReceiveDrop(i, b, p) PROVE Fresh'
  BY <1>2, <1>7 DEF ReceiveDrop
<1>8. CASE NewConnection(b, p)
  <2> DEFINE s == GetSocket(p.dport)
             h == s \in Hmac
             k == [open |-> TRUE, src |-> p.src, sport |-> p.sport, dport |-> p.dport,
                   out_hmac |-> p.hmac, need_hmac |-> h, socket |-> s, rx_queue |-> <<>>]
  <2>1. /\ s # None /\ FreeSlots # {} /\ UdpNewPacket(NextSlot, k, b)
        /\ UNCHANGED <<sport, task, calls>>
    BY <1>8 DEF NewConnection, Acceptable
  <2>2. p \in Packet
    BY <1>1 DEF TypeOK, p
  <2>3. s \in Service /\ p.dport \notin Ephemeral
    BY <2>1, <2>2, GetSocketLemma DEF Packet
  <2>4. NextSlot \in Slot /\ ~conn[NextSlot].open
    BY <1>1, <2>1, NextSlotLemma DEF TypeOK, FreeSlots
  <2>5. h \in BOOLEAN /\ <<>> \in Seq(1 .. Buffers)
    BY EmptySeq
  <2> HIDE DEF s, h
  <2>6. k \in Conn /\ k.dport = p.dport
    BY <2>2, <2>3, <2>5 DEF Conn, Packet
  <2> HIDE DEF k
  <2>7. /\ conn'[NextSlot].dport \notin Ephemeral
        /\ \A j \in Slot \ {NextSlot} : conn'[j] = conn[j]
        /\ \A a \in DOMAIN packet' : a \in DOMAIN packet /\ packet'[a] = packet[a]
    BY <1>1, <2>1, <2>3, <2>4, <2>6, UdpKeeps
  <2> QED  BY <2>1, <2>4, <2>7, RouterFresh
<1>9. CASE Reject(b, p)  BY <1>2, <1>9 DEF Reject
<1>10. Route(b, p)
  BY DEF p
<1> QED  BY <1>3, <1>4, <1>5, <1>6, <1>7, <1>8, <1>9, <1>10 DEF Route

\* No call is under way, and no packet in a buffer.
LEMMA InitFresh == Init => Fresh
<1> SUFFICES ASSUME Init PROVE Fresh
  OBVIOUS
<1>1. DOMAIN packet = {}
  BY DEF Init
<1>2. \A t \in Task : task[t].pc = "idle" /\ task[t].conn = None
  BY DEF Init, Idle, Task
<1>3. \A c \in Client : c \in Task
  BY DEF Task
<1> QED  BY <1>1, <1>2, <1>3 DEF Fresh, Calling, ReadHere

\* Every step keeps the ages.
LEMMA NextFresh == ServicePorts /\ IInv /\ IInv' /\ Fresh /\ [Next]_vars => Fresh'
<1> SUFFICES ASSUME ServicePorts, IInv, IInv', Fresh, [Next]_vars PROVE Fresh'
  OBVIOUS
<1>1. \A c \in Client : c \in Task /\ c \notin ConnLess /\ c \notin Service
  BY NoneLemma DEF Task
<1>2. \A s \in Service : s \in Task /\ s \notin Client
  BY NoneLemma DEF Task
<1>3. \A t \in Task : Phase(t)
  BY DEF IInv
<1>4. TypeOK
  BY DEF IInv
<1>5. ASSUME NEW c \in Client, ClientStep(c) PROVE Fresh'
  <2>1. ASSUME Goto(c, "done"), task[c].pc # "idle", UNCHANGED <<conn, sport, packet, calls>>
        PROVE  Fresh'
    <3>1. /\ task'[c].conn = task[c].conn /\ task'[c].call = task[c].call
          /\ task'[c].buf = task[c].buf /\ \A u \in Task \ {c} : task'[u] = task[u]
      BY <1>1, <1>4, <2>1 DEF Goto, TypeOK
    <3> QED  BY <1>1, <2>1, <3>1, TaskFresh
  <2>2. CASE Connect(c)  BY <2>2, ConnectFresh
  <2>3. CASE Request(c)  BY <2>3, RequestFresh
  <2>4. CASE NoBuffer(c)  BY <2>1, <2>4 DEF NoBuffer, At
  <2>5. CASE ReadReply(c)
    <3>1. task[c].pc = "waiting" /\ ReadPacket(c)
      BY <2>5 DEF ReadReply, At
    <3>2. task[c].conn # None
      BY <3>1, CallerLemma, NoneLemma
    <3> QED  BY <1>1, <3>1, <3>2, ReadPacketFresh
  <2>6. CASE ReadTimeout(c)  BY <2>1, <2>6 DEF ReadTimeout, At
  <2>7. CASE Finish(c)
    <3>1. task[c].conn # None
      BY <2>7, CallerLemma, NoneLemma DEF Finish, At
    <3> QED  BY <1>1, <2>7, <3>1, CloseFresh DEF Finish
  <2> QED  BY <1>5, <2>2, <2>3, <2>4, <2>5, <2>6, <2>7 DEF ClientStep
<1>6. ASSUME NEW s \in Service, ServiceStep(s) PROVE Fresh'
  <2>1. CASE Accept(s)
    <3>1. /\ task' = [task EXCEPT ![s].pc = "serving", ![s].conn = Head(queue[s])]
          /\ UNCHANGED <<conn, sport, packet, calls>> /\ task[s].pc = "idle"
      BY <2>1 DEF Accept, At
    <3>2. task'[s].buf = None /\ \A u \in Task \ {s} : task'[u] = task[u]
      BY <1>2, <1>3, <1>4, <3>1 DEF TypeOK, Phase
    <3> QED  BY <1>2, <3>1, <3>2, TaskFresh
  <2>2. CASE ServerRead(s)
    <3>1. task[s].pc = "serving" /\ ReadPacket(s)
      BY <2>2 DEF ServerRead, At
    <3>2. task[s].conn # None
      BY <1>2, <1>3, <3>1, NoneLemma DEF Phase
    <3> QED  BY <1>2, <3>1, <3>2, ReadPacketFresh
  <2>3. CASE ServerReply(s)  BY <2>3, ServerReplyFresh
  <2>4. CASE ServerClose(s)
    <3>1. task[s].conn # None
      BY <1>2, <1>3, <2>4, NoneLemma DEF ServerClose, At, Phase
    <3> QED  BY <1>2, <2>4, <3>1, CloseFresh DEF ServerClose
  <2>5. CASE RecvFrom(s)
    <3>1. /\ task' = [task EXCEPT ![s].pc = "done", ![s].buf = Head(queue[s])]
          /\ UNCHANGED <<conn, sport, packet, calls>> /\ task[s].pc = "idle"
      BY <2>5 DEF RecvFrom, At
    <3>2. task'[s].conn = None /\ \A u \in Task \ {s} : task'[u] = task[u]
      BY <1>2, <1>3, <1>4, <3>1 DEF TypeOK, Phase
    <3> QED  BY <1>2, <3>1, <3>2, TaskFresh
  <2>6. CASE SendtoReply(s)  BY <2>6, SendtoReplyFresh
  <2> QED  BY <1>6, <2>1, <2>2, <2>3, <2>4, <2>5, <2>6 DEF ServiceStep
<1>7. ASSUME NEW b \in DOMAIN packet, Route(b, packet[b]) PROVE Fresh'
  BY <1>7, RouteFresh
<1>8. ASSUME NEW p \in Injectable, Inject(p) PROVE Fresh'
  BY <1>8, InjectFresh
<1>9. CASE UNCHANGED vars
  BY <1>9 DEF vars, Fresh
<1> QED  BY <1>5, <1>6, <1>7, <1>8, <1>9 DEF Next, Router

\* A client that calls the ports of services is given the reply to its request, or
\* one so late that the ephemeral ports have come round since.
THEOREM RepliesFresh ==
  ASSUME ServicePorts
  PROVE  Spec => []ReplyFresh
<1>1. IInv /\ IInv' /\ Fresh /\ [Next]_vars => Fresh'
  BY NextFresh
<1>2. Spec => [](IInv /\ Fresh)
  BY <1>1, Invariant, InitFresh, PTL DEF Spec
<1> QED  BY <1>2, FreshReplies, PTL
=============================================================================
