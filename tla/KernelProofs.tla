----------------------------- MODULE KernelProofs -----------------------------
(***************************************************************************)
(* Proofs that a queue of the kernel gives its items out in order and each *)
(* of them once, that every task is in the lists of its state, that the    *)
(* best task runs, and that no wakeup is lost, for any tasks, queues,      *)
(* lengths, items and interrupts.                                          *)
(***************************************************************************)
EXTENDS KernelQueue, TLAPS, SequenceTheorems, FiniteSetTheorems


(***************************************************************************)
(* The ring buffer.                                                        *)
(***************************************************************************)
QueueRec(q) ==
  [buf : [0..Length[q] - 1 -> Item \cup {None}],
   writeTo : 0..Length[q] - 1, readFrom : 0..Length[q] - 1, waiting : 0..Length[q],
   rxLock : Int, txLock : Int, holder : Task \cup {None}]

\* pcWriteTo is as many places ahead of pcReadFrom as there are items, and one more.
InRing(q, Q) == Kind[q] = "queue" => Q.writeTo = (Q.readFrom + Q.waiting + 1) % Length[q]

Good(q, Q) == Q \in QueueRec(q) /\ InRing(q, Q)

Items(q, Q) == [i \in 1..Q.waiting |-> Q.buf[(Q.readFrom + i) % Length[q]]]

\* One turn around the ring.
LEMMA Modulo ==
  ASSUME NEW L \in Nat \ {0}
  PROVE  /\ \A x \in 0..L - 1 : x % L = x
         /\ \A x \in L..2 * L - 1 : x % L = x - L
         /\ (2 * L) % L = 0
         /\ \A x \in Int : x + 1 = 0 => x % L = L - 1
<1>1. \A x \in 0..L - 1 : x % L = x
  BY SMT
<1>2. \A x \in L..2 * L - 1 : x % L = x - L
  BY SMT
<1>3. (2 * L) % L = 0
  BY SMT
<1>4. \A x \in Int : x + 1 = 0 => x % L = L - 1
  BY SMT
<1> QED  BY <1>1, <1>2, <1>3, <1>4

\* The place d steps after place r.
LEMMA Around ==
  ASSUME NEW L \in Nat \ {0}, NEW r \in 0..L - 1, NEW d \in 0..L + 1
  PROVE  /\ r + d < L => (r + d) % L = r + d
         /\ r + d >= L /\ r + d < 2 * L => (r + d) % L = r + d - L
         /\ r + d >= 2 * L => (r + d) % L = 0 /\ r + d = 2 * L
         /\ (r + d) % L \in 0..L - 1
<1> DEFINE x == r + d
<1>1. CASE x < L
  <2>1. x \in 0..L - 1
    BY <1>1
  <2> HIDE DEF x
  <2>2. x % L = x
    BY <2>1, Modulo
  <2> QED  BY <2>1, <2>2 DEF x
<1>2. CASE x >= L /\ x < 2 * L
  <2>1. x \in L..2 * L - 1
    BY <1>2
  <2> HIDE DEF x
  <2>2. x % L = x - L
    BY <2>1, Modulo
  <2>3. x - L \in 0..L - 1
    BY <2>1
  <2> QED  BY <1>2, <2>2, <2>3 DEF x
<1>3. CASE x >= 2 * L
  <2>1. x = 2 * L
    BY <1>3
  <2> HIDE DEF x
  <2>2. x % L = 0 /\ 0 \in 0..L - 1
    BY <2>1, Modulo
  <2> QED  BY <2>1, <2>2 DEF x
<1>4. x \in Int /\ L \in Int
  OBVIOUS
<1> QED  BY <1>1, <1>2, <1>3, <1>4

\* The places after the next one, and after the one before.
LEMMA Neighbours ==
  ASSUME NEW L \in Nat \ {0}, NEW r \in 0..L - 1, NEW d \in 0..L
  PROVE  /\ (r + 1) % L \in 0..L - 1
         /\ (((r + 1) % L) + d) % L = (r + (d + 1)) % L
         /\ (r - 1) % L \in 0..L - 1
         /\ (((r - 1) % L) + (d + 1)) % L = (r + d) % L
<1>1. /\ r + 1 < L => (r + 1) % L = r + 1
      /\ r + 1 = L => (r + 1) % L = 0
      /\ (r + 1) % L \in 0..L - 1
  <2> DEFINE x == r + 1
  <2>1. CASE r + 1 < L
    <3>1. x \in 0..L - 1
      BY <2>1
    <3> HIDE DEF x
    <3>2. x % L = x
      BY <3>1, Modulo
    <3> QED  BY <2>1, <3>1, <3>2 DEF x
  <2>2. CASE r + 1 = L
    <3>1. x = L /\ x \in L..2 * L - 1
      BY <2>2
    <3> HIDE DEF x
    <3>2. x % L = x - L
      BY <3>1, Modulo
    <3>3. x - L = 0
      BY <3>1
    <3> QED  BY <2>2, <3>2, <3>3 DEF x
  <2> QED  BY <2>1, <2>2
<1>2. /\ r > 0 => (r - 1) % L = r - 1
      /\ r = 0 => (r - 1) % L = L - 1
      /\ (r - 1) % L \in 0..L - 1
  <2>1. CASE r = 0
    <3> DEFINE x == r - 1
    <3>1. x \in Int /\ x + 1 = 0
      BY <2>1
    <3> HIDE DEF x
    <3>2. x % L = L - 1
      BY <3>1, Modulo
    <3> QED  BY <2>1, <3>2 DEF x
  <2>2. CASE r > 0
    <3> DEFINE x == r - 1
    <3>1. x \in 0..L - 1
      BY <2>2
    <3> HIDE DEF x
    <3>2. x % L = x
      BY <3>1, Modulo
    <3> QED  BY <2>2, <3>1, <3>2 DEF x
  <2> QED  BY <2>1, <2>2
<1>3. (((r + 1) % L) + d) % L = (r + (d + 1)) % L
  <2> DEFINE p == (r + 1) % L
             e == d + 1
  <2>1. p \in 0..L - 1 /\ d \in 0..L + 1 /\ e \in 0..L + 1
    BY <1>1
  <2>2. /\ p + d < L => (p + d) % L = p + d
        /\ p + d >= L /\ p + d < 2 * L => (p + d) % L = p + d - L
        /\ p + d >= 2 * L => (p + d) % L = 0 /\ p + d = 2 * L
    <3> HIDE DEF p
    <3> QED  BY <2>1, Around
  <2>3. /\ r + e < L => (r + e) % L = r + e
        /\ r + e >= L /\ r + e < 2 * L => (r + e) % L = r + e - L
        /\ r + e >= 2 * L => (r + e) % L = 0 /\ r + e = 2 * L
    <3> HIDE DEF e
    <3> QED  BY <2>1, Around
  <2>4. (r + 1 < L => p = r + 1) /\ (r + 1 = L => p = 0) /\ e = d + 1
    BY <1>1
  <2> DEFINE u == (p + d) % L
             v == (r + e) % L
  <2> SUFFICES u = v
    OBVIOUS
  <2> HIDE DEF p, e, u, v
  <2> QED  BY <2>1, <2>2, <2>3, <2>4 DEF u, v
<1>4. (((r - 1) % L) + (d + 1)) % L = (r + d) % L
  <2> DEFINE p == (r - 1) % L
             e == d + 1
  <2>1. p \in 0..L - 1 /\ d \in 0..L + 1 /\ e \in 0..L + 1
    BY <1>2
  <2>2. /\ p + e < L => (p + e) % L = p + e
        /\ p + e >= L /\ p + e < 2 * L => (p + e) % L = p + e - L
        /\ p + e >= 2 * L => (p + e) % L = 0 /\ p + e = 2 * L
    <3> HIDE DEF p, e
    <3> QED  BY <2>1, Around
  <2>3. /\ r + d < L => (r + d) % L = r + d
        /\ r + d >= L /\ r + d < 2 * L => (r + d) % L = r + d - L
        /\ r + d >= 2 * L => (r + d) % L = 0 /\ r + d = 2 * L
    BY <2>1, Around
  <2>4. (r > 0 => p = r - 1) /\ (r = 0 => p = L - 1) /\ e = d + 1
    BY <1>2
  <2> DEFINE u == (p + e) % L
             v == (r + d) % L
  <2> SUFFICES u = v
    OBVIOUS
  <2> HIDE DEF p, e, u, v
  <2> QED  BY <2>1, <2>2, <2>3, <2>4 DEF u, v
<1> QED  BY <1>1, <1>2, <1>3, <1>4

\* Less than a turn apart, places differ.
LEMMA Distinct ==
  ASSUME NEW L \in Nat \ {0}, NEW r \in 0..L - 1, NEW d \in 0..L, NEW e \in 0..L,
         d < e, e - d < L
  PROVE  (r + d) % L # (r + e) % L
<1>1. \A x \in 0..L : /\ r + x < L => (r + x) % L = r + x
                      /\ r + x >= L => (r + x) % L = r + x - L
  <2> TAKE x \in 0..L
  <2>1. x \in 0..L + 1 /\ r + x < 2 * L
    OBVIOUS
  <2> QED  BY <2>1, Around
<1> DEFINE u == (r + d) % L
           v == (r + e) % L
<1>2. /\ r + d < L => u = r + d
      /\ r + d >= L => u = r + d - L
  BY <1>1
<1>3. /\ r + e < L => v = r + e
      /\ r + e >= L => v = r + e - L
  BY <1>1
<1> SUFFICES u # v
  OBVIOUS
<1> HIDE DEF u, v
<1> QED  BY <1>2, <1>3


-----------------------------------------------------------------------------
(***************************************************************************)
(* What the operations on a queue do to its items.                         *)
(***************************************************************************)
\* The numbers of a queue, and its places.
LEMMA RingTypes ==
  ASSUME NEW q \in Queue, NEW Q, Good(q, Q)
  PROVE  /\ Length[q] \in Nat \ {0}
         /\ Q.readFrom \in 0..Length[q] - 1 /\ Q.waiting \in 0..Length[q]
         /\ Q.writeTo \in 0..Length[q] - 1
         /\ Q.buf \in [0..Length[q] - 1 -> Item \cup {None}]
         /\ Items(q, Q) \in Seq(Item \cup {None}) /\ Len(Items(q, Q)) = Q.waiting
         /\ \A i \in 1..Q.waiting : (Q.readFrom + i) % Length[q] \in 0..Length[q] - 1
<1> DEFINE L == Length[q]
           r == Q.readFrom
           w == Q.waiting
<1>1. /\ L \in Nat \ {0} /\ r \in 0..L - 1 /\ w \in 0..L /\ Q.writeTo \in 0..L - 1
      /\ Q.buf \in [0..L - 1 -> Item \cup {None}]
  BY KernelAssumption DEF Good, QueueRec
<1>2. \A i \in 1..w : (r + i) % L \in 0..L - 1
  <2> TAKE i \in 1..w
  <2> HIDE DEF r, L, w
  <2>1. i \in 0..L + 1
    BY <1>1
  <2> QED  BY <1>1, <2>1, Around
<1>3. \A i \in 1..w : Q.buf[(r + i) % L] \in Item \cup {None}
  BY <1>1, <1>2
<1>4. w \in Nat
  BY <1>1
<1> DEFINE f == [i \in 1..w |-> Q.buf[(r + i) % L]]
<1>5. f \in Seq(Item \cup {None}) /\ Len(f) = w
  <2> HIDE DEF w, r, L
  <2>1. f \in [1..w -> Item \cup {None}]
    BY <1>3
  <2> HIDE DEF f
  <2> QED  BY <1>4, <2>1
<1>6. Items(q, Q) = f
  BY DEF Items
<1> HIDE DEF f
<1> QED  BY <1>1, <1>2, <1>5, <1>6

\* Semaphores and mutexes have no items to keep in order.
LEMMA CountedGood ==
  ASSUME NEW q \in Queue, NEW Q, Good(q, Q), Kind[q] # "queue", Q.waiting < Length[q],
         NEW x, NEW position
  PROVE  Good(q, prvCopyDataToQueue(q, Q, x, position))
<1>1. Q.waiting + 1 \in 0..Length[q]
  BY RingTypes
<1> QED  BY <1>1 DEF Good, QueueRec, InRing, prvCopyDataToQueue

\* Sending puts the item last.
LEMMA SendBackGood ==
  ASSUME NEW q \in Queue, NEW Q, Good(q, Q), Kind[q] = "queue", Q.waiting < Length[q],
         NEW x \in Item
  PROVE  /\ Good(q, prvCopyDataToQueue(q, Q, x, "back"))
         /\ Items(q, prvCopyDataToQueue(q, Q, x, "back")) = Append(Items(q, Q), x)
<1> DEFINE L == Length[q]
           r == Q.readFrom
           w == Q.waiting
           p == Q.writeTo
           N == prvCopyDataToQueue(q, Q, x, "back")
<1>1. /\ L \in Nat \ {0} /\ r \in 0..L - 1 /\ w \in 0..L /\ p \in 0..L - 1
      /\ Q.buf \in [0..L - 1 -> Item \cup {None}]
      /\ Items(q, Q) \in Seq(Item \cup {None}) /\ Len(Items(q, Q)) = w
      /\ \A i \in 1..w : (r + i) % L \in 0..L - 1
  BY RingTypes
<1>2. p = (r + (w + 1)) % L
  BY <1>1 DEF Good, InRing
<1>3. (p + 1) % L = (r + (w + 1 + 1)) % L /\ (p + 1) % L \in 0..L - 1
  <2> DEFINE e == w + 1
  <2> HIDE DEF L, r, w, p
  <2>1. e \in 0..L /\ e \in 0..L + 1 /\ e + 1 \in 0..L + 1
    BY <1>1 DEF L, w
  <2>2. p = (r + e) % L
    BY <1>2
  <2> HIDE DEF e
  <2>3. (p + 1) % L \in 0..L - 1
    BY <1>1, Neighbours
  <2>4. (p + 1) % L = (r + (e + 1)) % L
    <3>1. /\ r + e < L => p = r + e
          /\ r + e >= L /\ r + e < 2 * L => p = r + e - L
      BY <1>1, <2>1, <2>2, Around
    <3>2. /\ r + (e + 1) < L => (r + (e + 1)) % L = r + (e + 1)
          /\ r + (e + 1) >= L /\ r + (e + 1) < 2 * L => (r + (e + 1)) % L = r + (e + 1) - L
          /\ r + (e + 1) >= 2 * L => (r + (e + 1)) % L = 0 /\ r + (e + 1) = 2 * L
      <4> DEFINE f == e + 1
      <4>1. f \in 0..L + 1
        BY <2>1
      <4> HIDE DEF f
      <4>2. /\ r + f < L => (r + f) % L = r + f
            /\ r + f >= L /\ r + f < 2 * L => (r + f) % L = r + f - L
            /\ r + f >= 2 * L => (r + f) % L = 0 /\ r + f = 2 * L
        BY <1>1, <4>1, Around
      <4> QED  BY <4>2 DEF f
    <3>3. /\ p + 1 < L => (p + 1) % L = p + 1
          /\ p + 1 = L => (p + 1) % L = 0
      <4>1. CASE p + 1 < L
        <5> DEFINE y == p + 1
        <5>1. y \in 0..L - 1
          BY <1>1, <4>1
        <5> HIDE DEF y
        <5>2. y % L = y
          BY <1>1, <5>1, Modulo
        <5> QED  BY <1>1, <4>1, <5>2 DEF y
      <4>2. CASE p + 1 = L
        <5> DEFINE y == p + 1
        <5>1. y = L /\ y \in L..2 * L - 1
          BY <1>1, <4>2
        <5> HIDE DEF y
        <5>2. y % L = y - L
          BY <1>1, <5>1, Modulo
        <5>3. y - L = 0
          BY <1>1, <5>1
        <5> QED  BY <1>1, <4>2, <5>2, <5>3 DEF y
      <4> QED  BY <1>1, <4>1, <4>2
    <3> DEFINE u == (p + 1) % L
               v == (r + (e + 1)) % L
    <3> SUFFICES u = v
      OBVIOUS
    <3>4. r + e < 2 * L /\ r \in Int /\ e \in Int /\ L \in Int /\ p \in 0..L - 1
      BY <1>1, <2>1
    <3> HIDE DEF u, v
    <3> QED  BY <3>1, <3>2, <3>3, <3>4 DEF u, v
  <2> QED  BY <2>3, <2>4 DEF e
<1>4. /\ N.waiting = w + 1 /\ N.readFrom = r /\ N.writeTo = (p + 1) % L
      /\ N.buf = [Q.buf EXCEPT ![p] = x] /\ N.rxLock = Q.rxLock /\ N.txLock = Q.txLock
      /\ N.holder = None
      /\ N = [buf |-> N.buf, writeTo |-> N.writeTo, readFrom |-> N.readFrom,
              waiting |-> N.waiting, rxLock |-> N.rxLock, txLock |-> N.txLock,
              holder |-> N.holder]
  BY DEF Good, QueueRec, prvCopyDataToQueue
<1>5. w + 1 \in 0..L /\ Q.rxLock \in Int /\ Q.txLock \in Int
  BY <1>1 DEF Good, QueueRec
<1> HIDE DEF N
<1>6. Good(q, N)
  <2>1. N.buf \in [0..L - 1 -> Item \cup {None}]
    BY <1>1, <1>4
  <2>2. N \in QueueRec(q)
    BY <1>1, <1>3, <1>4, <1>5, <2>1 DEF QueueRec
  <2>3. InRing(q, N)
    <3>1. r + (w + 1) + 1 = r + (w + 1 + 1)
      <4> HIDE DEF L, r, w
      <4> QED  BY <1>1
    <3>2. N.writeTo = (N.readFrom + N.waiting + 1) % L
      BY <1>3, <1>4, <3>1
    <3> QED  BY <3>2 DEF InRing
  <2> QED  BY <2>2, <2>3 DEF Good
<1>7. \A i \in 1..w + 1 : N.buf[(r + i) % L] = IF i <= w THEN Q.buf[(r + i) % L] ELSE x
  <2> TAKE i \in 1..w + 1
  <2>1. CASE i = w + 1
    BY <1>1, <1>2, <1>4, <2>1
  <2>2. CASE i <= w
    <3> DEFINE e == w + 1
    <3> HIDE DEF r, L, w, p
    <3>1. i \in 0..L /\ e \in 0..L /\ i < e /\ e - i < L
      BY <1>1, <2>2 DEF L, w
    <3>2. p = (r + e) % L
      BY <1>2
    <3> HIDE DEF e
    <3>3. (r + i) % L # p
      BY <1>1, <3>1, <3>2, Distinct
    <3>4. i \in 1..w
      BY <1>1, <2>2
    <3> QED  BY <1>1, <1>4, <2>2, <3>3, <3>4
  <2> QED  BY <1>1, <2>1, <2>2
<1>8. Items(q, N) = Append(Items(q, Q), x)
  <2> DEFINE s == Items(q, Q)
             t == Items(q, N)
             S == Item \cup {None}
  <2>1. s \in Seq(S) /\ Len(s) = w /\ t \in Seq(S) /\ Len(t) = w + 1
    BY <1>1, <1>4, <1>6, RingTypes
  <2>2. \A i \in 1..w + 1 : t[i] = IF i <= w THEN s[i] ELSE x
    <3> TAKE i \in 1..w + 1
    <3>1. t[i] = N.buf[(r + i) % L]
      BY <1>4 DEF Items
    <3>2. ASSUME i <= w PROVE s[i] = Q.buf[(r + i) % L]
      <4>1. i \in 1..w
        BY <1>1, <3>2
      <4> QED  BY <4>1 DEF Items
    <3> HIDE DEF s, t, r, L, w, p
    <3> QED  BY <1>7, <3>1, <3>2
  <2>3. x \in S /\ w \in Nat
    BY <1>1
  <2> HIDE DEF s, t, w, S
  <2>4. /\ Append(s, x) \in Seq(S) /\ Len(Append(s, x)) = Len(t)
        /\ \A i \in 1..Len(t) : t[i] = Append(s, x)[i]
    BY <2>1, <2>2, <2>3
  <2>5. t = Append(s, x)
    BY <2>1, <2>4, SeqEqual
  <2> QED  BY <2>5 DEF s, t
<1> QED  BY <1>6, <1>8 DEF N


\* Sending to the front puts it first.
LEMMA SendFrontGood ==
  ASSUME NEW q \in Queue, NEW Q, Good(q, Q), Kind[q] = "queue", Q.waiting < Length[q],
         NEW x \in Item
  PROVE  /\ Good(q, prvCopyDataToQueue(q, Q, x, "front"))
         /\ Items(q, prvCopyDataToQueue(q, Q, x, "front")) = <<x>> \o Items(q, Q)
<1> DEFINE L == Length[q]
           r == Q.readFrom
           w == Q.waiting
           p == (r - 1) % L
           N == prvCopyDataToQueue(q, Q, x, "front")
           s == Items(q, Q)
           t == Items(q, N)
           S == Item \cup {None}
<1>1. /\ L \in Nat \ {0} /\ r \in 0..L - 1 /\ w \in 0..L /\ Q.writeTo \in 0..L - 1
      /\ Q.buf \in [0..L - 1 -> S] /\ s \in Seq(S) /\ Len(s) = w
      /\ \A i \in 1..w : (r + i) % L \in 0..L - 1
  BY RingTypes
<1>2. Q.writeTo = (r + (w + 1)) % L
  BY <1>1 DEF Good, InRing
<1>3. p \in 0..L - 1 /\ \A d \in 0..L : (p + (d + 1)) % L = (r + d) % L
  <2> HIDE DEF r, L
  <2> QED  BY <1>1, Neighbours
<1>4. /\ N.waiting = w + 1 /\ N.readFrom = p /\ N.writeTo = Q.writeTo
      /\ N.buf = [Q.buf EXCEPT ![r] = x] /\ N.rxLock = Q.rxLock /\ N.txLock = Q.txLock
      /\ N.holder = None
      /\ N = [buf |-> N.buf, writeTo |-> N.writeTo, readFrom |-> N.readFrom,
              waiting |-> N.waiting, rxLock |-> N.rxLock, txLock |-> N.txLock,
              holder |-> N.holder]
  BY DEF Good, QueueRec, prvCopyDataToQueue
<1>5. w + 1 \in 0..L /\ Q.rxLock \in Int /\ Q.txLock \in Int
  BY <1>1 DEF Good, QueueRec
<1> HIDE DEF N
<1>6. Good(q, N)
  <2>1. N.buf \in [0..L - 1 -> Item \cup {None}]
    BY <1>1, <1>4
  <2>2. N \in QueueRec(q)
    BY <1>1, <1>3, <1>4, <1>5, <2>1 DEF QueueRec
  <2>3. InRing(q, N)
    <3> DEFINE e == w + 1
    <3>1. e \in 0..L /\ Q.writeTo = (r + e) % L
      BY <1>2, <1>5
    <3> HIDE DEF e, p, L, r
    <3>2. Q.writeTo = (p + (e + 1)) % L
      BY <1>3, <3>1
    <3>3. p + (e + 1) = p + e + 1
      BY <1>1, <1>3, <3>1
    <3>4. N.writeTo = (N.readFrom + N.waiting + 1) % L
      BY <1>4, <3>2, <3>3 DEF e
    <3> QED  BY <3>4 DEF InRing, L
  <2> QED  BY <2>2, <2>3 DEF Good
<1>7. /\ N.buf[(p + 1) % L] = x
      /\ \A i \in 1..w : N.buf[(p + (i + 1)) % L] = Q.buf[(r + i) % L]
  <2>1. (p + 1) % L = r
    <3> DEFINE d == 0
    <3>1. d \in 0..L /\ p + (d + 1) = p + 1 /\ r + d = r
      BY <1>1, <1>3
    <3>2. (p + (d + 1)) % L = (r + d) % L
      <4> HIDE DEF d, p, r, L
      <4> QED  BY <1>3, <3>1
    <3>3. r % L = r
      <4> HIDE DEF r, L
      <4> QED  BY <1>1, Modulo
    <3> HIDE DEF d, p, r, L
    <3> QED  BY <3>1, <3>2, <3>3
  <2>2. ASSUME NEW i \in 1..w
        PROVE  (p + (i + 1)) % L = (r + i) % L /\ (r + i) % L # r
    <3> HIDE DEF p, r, L, w
    <3>2. i \in 0..L /\ i < L
      BY <1>1, <1>5
    <3> DEFINE d == 0
    <3>3. d \in 0..L /\ d < i /\ i - d < L /\ r + d = r
      BY <1>1, <3>2
    <3> HIDE DEF d
    <3>4. (r + d) % L # (r + i) % L
      BY <1>1, <3>2, <3>3, Distinct
    <3>5. r % L = r
      BY <1>1, Modulo
    <3> QED  BY <1>3, <3>2, <3>3, <3>4, <3>5
  <2> HIDE DEF p, r, L, w
  <2> QED  BY <1>1, <1>4, <2>1, <2>2
<1>8. t = <<x>> \o s
  <2>1. t \in Seq(S) /\ Len(t) = w + 1
    BY <1>4, <1>6, RingTypes
  <2>2. t[1] = x /\ \A i \in 1..w : t[i + 1] = s[i]
    <3>1. \A i \in 1..w + 1 : t[i] = N.buf[(p + i) % L]
      BY <1>4 DEF Items
    <3>2. \A i \in 1..w : s[i] = Q.buf[(r + i) % L]
      BY DEF Items
    <3>3. 1 \in 1..w + 1 /\ \A i \in 1..w : i + 1 \in 1..w + 1
      BY <1>1
    <3> HIDE DEF p, r, L, w, s, t
    <3> QED  BY <1>7, <3>1, <3>2, <3>3
  <2>3. x \in S /\ w \in Nat
    BY <1>1
  <2> HIDE DEF s, t, w, S
  <2> DEFINE u == <<x>> \o s
  <2>4. u \in Seq(S) /\ Len(u) = w + 1
        /\ \A i \in 1..w + 1 : u[i] = IF i = 1 THEN x ELSE s[i - 1]
    BY <1>1, <2>3
  <2>5. \A i \in 1..w + 1 : t[i] = u[i]
    <3> TAKE i \in 1..w + 1
    <3>1. CASE i = 1  BY <2>2, <2>4, <3>1
    <3>2. CASE i # 1
      <4> DEFINE j == i - 1
      <4>1. j \in 1..w /\ j + 1 = i
        BY <2>3, <3>2
      <4> HIDE DEF j
      <4>2. t[j + 1] = s[j]
        BY <2>2, <4>1
      <4> QED  BY <2>4, <3>2, <4>1, <4>2 DEF j
    <3> QED  BY <3>1, <3>2
  <2> HIDE DEF u
  <2>6. t = u
    BY <2>1, <2>4, <2>5, SeqEqual
  <2> QED  BY <2>6 DEF u, s, t
<1> QED  BY <1>6, <1>8 DEF N

\* Receiving takes the first item, which is the one read.
LEMMA TakenGood ==
  ASSUME NEW q \in Queue, NEW Q, Good(q, Q), Q.waiting # 0, NEW holder \in Task \cup {None}
  PROVE  /\ Good(q, Taken(q, Q, holder))
         /\ Kind[q] = "queue" =>
              /\ Items(q, Q) # <<>>
              /\ Q.buf[ReadPosition(q, Q)] = Head(Items(q, Q))
              /\ Items(q, Taken(q, Q, holder)) = Tail(Items(q, Q))
<1> DEFINE L == Length[q]
           r == Q.readFrom
           w == Q.waiting
           p == ReadPosition(q, Q)
           N == Taken(q, Q, holder)
           s == Items(q, Q)
           t == Items(q, N)
           S == Item \cup {None}
<1>1. /\ L \in Nat \ {0} /\ r \in 0..L - 1 /\ w \in 0..L /\ Q.writeTo \in 0..L - 1
      /\ Q.buf \in [0..L - 1 -> S] /\ s \in Seq(S) /\ Len(s) = w
      /\ \A i \in 1..w : (r + i) % L \in 0..L - 1
  BY RingTypes
<1>2. /\ (r + 1) % L \in 0..L - 1
      /\ \A d \in 0..L : (((r + 1) % L) + d) % L = (r + (d + 1)) % L
  <2> HIDE DEF r, L
  <2> QED  BY <1>1, Neighbours
<1>3. p \in 0..L - 1 /\ (Kind[q] = "queue" => p = (r + 1) % L)
  BY <1>1, <1>2 DEF ReadPosition
<1>4. /\ N.waiting = w - 1 /\ N.readFrom = p /\ N.writeTo = Q.writeTo
      /\ N.buf = [Q.buf EXCEPT ![p] = None] /\ N.rxLock = Q.rxLock /\ N.txLock = Q.txLock
      /\ N.holder \in Task \cup {None}
      /\ N = [buf |-> N.buf, writeTo |-> N.writeTo, readFrom |-> N.readFrom,
              waiting |-> N.waiting, rxLock |-> N.rxLock, txLock |-> N.txLock,
              holder |-> N.holder]
  <2> DEFINE h == IF Kind[q] = "mutex" THEN holder ELSE Q.holder
  <2>1. N = [Q EXCEPT !.readFrom = p, !.waiting = @ - 1, !.buf[p] = None, !.holder = h]
    BY DEF Good, QueueRec, Taken
  <2>2. h \in Task \cup {None}
    BY DEF Good, QueueRec
  <2> HIDE DEF p, N, h
  <2> QED  BY <2>1, <2>2 DEF Good, QueueRec
<1>5. w - 1 \in 0..L /\ w - 1 + 1 = w /\ Q.rxLock \in Int /\ Q.txLock \in Int
  BY <1>1 DEF Good, QueueRec
<1> HIDE DEF N, p
<1>6. Good(q, N)
  <2>1. N.buf \in [0..L - 1 -> Item \cup {None}]
    BY <1>1, <1>3, <1>4
  <2>2. N \in QueueRec(q)
    BY <1>1, <1>3, <1>4, <1>5, <2>1 DEF QueueRec
  <2>3. ASSUME Kind[q] = "queue" PROVE N.writeTo = (N.readFrom + N.waiting + 1) % L
    <3>1. Q.writeTo = (r + w + 1) % L
      BY <2>3 DEF Good, InRing
    <3> HIDE DEF L, r, w
    <3>2. w \in 0..L /\ r + w + 1 = r + (w + 1) /\ p + (w - 1) + 1 = p + w
      BY <1>1, <1>3
    <3>3. (p + w) % L = (r + (w + 1)) % L
      BY <1>2, <1>3, <2>3, <3>2
    <3> QED  BY <1>4, <3>1, <3>2, <3>3
  <2> QED  BY <2>2, <2>3 DEF Good, InRing
<1>7. ASSUME Kind[q] = "queue" PROVE s # <<>> /\ Q.buf[p] = Head(s) /\ t = Tail(s)
  <2>1. t \in Seq(S) /\ Len(t) = w - 1
    BY <1>4, <1>6, RingTypes
  <2>2. s # <<>> /\ 1 \in 1..w
    BY <1>1
  <2>3. Head(s) = Q.buf[p]
    <3>1. s[1] = Q.buf[(r + 1) % L]
      BY <2>2 DEF Items
    <3>2. Head(s) = s[1]
      <4> HIDE DEF s
      <4> QED  BY <1>1, <2>2
    <3> QED  BY <1>3, <1>7, <3>1, <3>2
  <2>4. \A i \in 1..w - 1 : t[i] = s[i + 1]
    <3> TAKE i \in 1..w - 1
    <3>1. t[i] = N.buf[(p + i) % L]
      BY <1>4 DEF Items
    <3>2. i + 1 \in 1..w /\ s[i + 1] = Q.buf[(r + (i + 1)) % L]
      <4>1. i + 1 \in 1..w
        BY <1>1
      <4> QED  BY <4>1 DEF Items
    <3> HIDE DEF s, t, r, L, w
    <3>3. (p + i) % L = (r + (i + 1)) % L
      <4>1. i \in 0..L
        BY <1>1
      <4> QED  BY <1>2, <1>3, <1>7, <4>1
    <3>4. (r + 1) % L # (r + (i + 1)) % L
      <4> DEFINE d == 1
                 e == i + 1
      <4>1. d \in 0..L /\ e \in 0..L /\ d < e /\ e - d < L
        BY <1>1, <3>2
      <4> HIDE DEF d, e
      <4>2. (r + d) % L # (r + e) % L
        BY <1>1, <4>1, Distinct
      <4> QED  BY <4>2 DEF d, e
    <3>5. (r + (i + 1)) % L \in 0..L - 1
      BY <1>1, <3>2
    <3>6. p # (r + (i + 1)) % L
      BY <1>3, <1>7, <3>4
    <3>7. N.buf[(r + (i + 1)) % L] = Q.buf[(r + (i + 1)) % L]
      <4> DEFINE z == (r + (i + 1)) % L
      <4>1. z \in 0..L - 1 /\ p # z
        BY <3>5, <3>6
      <4> HIDE DEF z
      <4>2. N.buf[z] = Q.buf[z]
        BY <1>1, <1>4, <4>1
      <4> QED  BY <4>2 DEF z
    <3> QED  BY <3>1, <3>2, <3>3, <3>7
  <2> HIDE DEF s, t, w
  <2>5. Tail(s) \in Seq(S) /\ Len(Tail(s)) = w - 1 /\ \A i \in 1..w - 1 : Tail(s)[i] = s[i + 1]
    BY <1>1, <2>2, HeadTailProperties
  <2>6. t = Tail(s)
    BY <2>1, <2>4, <2>5, SeqEqual
  <2> QED  BY <2>2, <2>3, <2>6
<1> QED  BY <1>6, <1>7 DEF N, p


-----------------------------------------------------------------------------
(***************************************************************************)
(* The inductive invariant: every queue is a ring, and a call that sends   *)
(* has an item to send.                                                    *)
(***************************************************************************)
IsCall(c) ==
  c = [f \in {"pc", "then", "op", "q", "ticks", "entryTimeSet", "since", "item"} |-> c[f]]

\* The program points at which the call is still to be attempted, or may be again.
InCallPc == {"try", "suspend", "lock", "check", "place", "unlockTx", "unlockRx", "resume", "yield"}

\* c has a queue, and an item of those that queues carry to send to it.
Calling(c) ==
  /\ c.op \in {"send", "sendFront", "receive", "peek"}
  /\ c.q \in Queue
  /\ Kind[c.q] = "queue" /\ c.op \in {"send", "sendFront"} => c.item \in Item

\* c is on its way out of vTaskDelay.
Delaying(c) == c.pc \in {"resume", "yield"} /\ c.op = "delay" /\ c.then = "yield"

CallOK(c) == IsCall(c) /\ (c.pc \in InCallPc => Calling(c) \/ Delaying(c))

Queues == queue = [q \in Queue |-> queue[q]] /\ \A q \in Queue : Good(q, queue[q])
TaskCalls == call = [t \in Task |-> call[t]] /\ \A t \in Task : CallOK(call[t])

IInv == Queues /\ TaskCalls

\* What c has brought from fifo.
Got(c) ==
  IF c.pc = "run" /\ c.q = fifo /\ c.op \in {"receive", "peek"} THEN c.item ELSE None

\* A step of MessageQueue, or none; s and g are items and got, t and h their next values.
MailStep(s, g, t, h) ==
  \/ t = s /\ \A u \in Task : h[u] \in {g[u], None}
  \/ /\ Len(s) < Length[fifo]
     /\ \E v \in Item : t = Append(s, v) \/ t = <<v>> \o s
     /\ \/ \A u \in Task : h[u] = g[u]
        \/ \E r \in Task : \A u \in Task : h[u] = IF u = r THEN None ELSE g[u]
  \/ /\ s # <<>> /\ t \in {s, Tail(s)}
     /\ \E r \in Task : \A u \in Task : h[u] = IF u = r THEN Head(s) ELSE g[u]
  \/ s # <<>> /\ t = Tail(s) /\ \A u \in Task : h[u] = g[u]

Mail == MailStep(Contents(fifo), [t \in Task |-> Got(call[t])],
                 Contents(fifo)', [t \in Task |-> Got(call'[t])])

\* A task that has made no call.
LEMMA NoCallFields ==
  IsCall(NoCall) /\ NoCall.pc = "run" /\ NoCall.op = "NULL" /\ NoCall.q = "NULL"
BY DEF IsCall, NoCall, None

\* The initial state.
LEMMA InitIInv == Init => IInv /\ Fifo!Init
<1> SUFFICES ASSUME Init PROVE IInv /\ Fifo!Init
  OBVIOUS
<1>1. Queues
  <2>1. queue = [q \in Queue |-> queue[q]]
    BY DEF Init
  <2>2. ASSUME NEW q \in Queue PROVE Good(q, queue[q])
    <3> DEFINE L == Length[q]
               w == IF Kind[q] = "queue" THEN 0 ELSE 1
               b == [i \in 0..L - 1 |-> None]
    <3>1. L \in Nat \ {0}
      BY KernelAssumption
    <3>2. queue[q] = [buf |-> b, writeTo |-> 0, readFrom |-> L - 1, waiting |-> w,
                      rxLock |-> queueUNLOCKED, txLock |-> queueUNLOCKED, holder |-> None]
      BY DEF Init
    <3>3. b \in [0..L - 1 -> Item \cup {None}] /\ 0 \in 0..L - 1 /\ L - 1 \in 0..L - 1
          /\ w \in 0..L /\ queueUNLOCKED \in Int
      BY <3>1 DEF queueUNLOCKED
    <3>4. ASSUME Kind[q] = "queue" PROVE 0 = (L - 1 + w + 1) % L
      <4> DEFINE x == L - 1 + w + 1
      <4>1. x = L /\ x \in L..2 * L - 1
        BY <3>1, <3>4
      <4> HIDE DEF x
      <4>2. x % L = x - L
        BY <3>1, <4>1, Modulo
      <4>3. x - L = 0
        BY <3>1, <4>1
      <4> QED  BY <4>2, <4>3 DEF x
    <3> HIDE DEF b, w, L
    <3> QED  BY <3>2, <3>3, <3>4 DEF Good, QueueRec, InRing, L
  <2> QED  BY <2>1, <2>2 DEF Queues
<1>2. TaskCalls
  <2>1. \A t \in Task : call[t] = NoCall \/ call[t] = [NoCall EXCEPT !.pc = "absent"]
    BY DEF Init
  <2>2. CallOK(NoCall) /\ CallOK([NoCall EXCEPT !.pc = "absent"])
    BY NoCallFields DEF CallOK, InCallPc, IsCall
  <2>3. call = [t \in Task |-> call[t]]
    BY DEF Init
  <2> QED  BY <2>1, <2>2, <2>3 DEF TaskCalls
<1>3. Contents(fifo) = <<>>
  BY FifoAssumption DEF Init, Contents
<1>4. \A t \in Task : Received(fifo, t) = None
  BY DEF Init, Received, NoCall
<1> QED  BY <1>1, <1>2, <1>3, <1>4 DEF IInv, Fifo!Init

\* Steps that leave the items alone; some readers may forget what they got.
LEMMA QuietStep ==
  ASSUME IInv,
         call' = [u \in Task |-> call'[u]],
         \A u \in Task : call'[u] = call[u] \/ (CallOK(call'[u]) /\ Got(call'[u]) = None),
         queue' = [q \in Queue |-> queue'[q]],
         \A q \in Queue : Good(q, queue'[q]) /\ Items(q, queue'[q]) = Items(q, queue[q])
  PROVE  IInv' /\ Mail
<1>1. Queues' /\ TaskCalls'
  BY DEF IInv, Queues, TaskCalls
<1>2. Contents(fifo)' = Contents(fifo)
  BY FifoAssumption DEF Contents, Items
<1>3. \A u \in Task : Got(call'[u]) \in {Got(call[u]), None}
  OBVIOUS
<1> QED  BY <1>1, <1>2, <1>3 DEF IInv, Mail, MailStep

\* The same when one call changes.
LEMMA QuietCall ==
  ASSUME IInv, UNCHANGED queue, NEW t \in Task, NEW c, CallOK(c), Got(c) = None,
         call' = [call EXCEPT ![t] = c]
  PROVE  IInv' /\ Mail
<1>1. call' = [u \in Task |-> call'[u]] /\ \A u \in Task : call'[u] = IF u = t THEN c ELSE call[u]
  BY DEF IInv, TaskCalls
<1>2. queue' = [q \in Queue |-> queue'[q]]
      /\ \A q \in Queue : Good(q, queue'[q]) /\ Items(q, queue'[q]) = Items(q, queue[q])
  BY DEF IInv, Queues
<1> QED  BY <1>1, <1>2, QuietStep


-----------------------------------------------------------------------------
(***************************************************************************)
(* What a call does to the items.                                          *)
(***************************************************************************)
\* One queue, or one call, changes.
LEMMA QueueSet ==
  ASSUME IInv, NEW q \in Queue, NEW N, Good(q, N), queue' = [queue EXCEPT ![q] = N]
  PROVE  /\ Queues'
         /\ Contents(fifo)' = IF q = fifo THEN Items(q, N) ELSE Contents(fifo)
<1>1. queue' = [p \in Queue |-> IF p = q THEN N ELSE queue[p]]
  BY DEF IInv, Queues
<1>2. \A p \in Queue : Good(p, queue'[p])
  BY <1>1 DEF IInv, Queues
<1>3. Contents(fifo)' = IF q = fifo THEN Items(q, N) ELSE Contents(fifo)
  BY <1>1, FifoAssumption DEF Contents, Items
<1>4. queue' = [p \in Queue |-> queue'[p]]
  BY <1>1
<1> QED  BY <1>2, <1>3, <1>4 DEF Queues

\* One call changes, the others stay.
LEMMA CallSet ==
  ASSUME IInv, NEW t \in Task, NEW c, CallOK(c), call' = [call EXCEPT ![t] = c]
  PROVE  TaskCalls' /\ \A u \in Task : call'[u] = IF u = t THEN c ELSE call[u]
<1>1. call' = [u \in Task |-> IF u = t THEN c ELSE call[u]]
  BY DEF IInv, TaskCalls
<1>2. call' = [u \in Task |-> call'[u]] /\ \A u \in Task : CallOK(call'[u])
  BY <1>1 DEF IInv, TaskCalls
<1> QED  BY <1>1, <1>2 DEF TaskCalls

\* The items of fifo after one was sent.
Sent(s, t) == Len(s) < Length[fifo] /\ \E v \in Item : t = Append(s, v) \/ t = <<v>> \o s

\* Sending to q puts the item in at one end of its items, and leaves those of another
\* queue alone; by a task, or by an interrupt that finds the queue locked.
LEMMA SendItems ==
  ASSUME IInv, NEW q \in Queue, Fits(q), NEW x, Kind[q] = "queue" => x \in Item,
         NEW position \in {"back", "front"}, NEW N,
         \/ N = prvCopyDataToQueue(q, queue[q], x, position)
         \/ N = [prvCopyDataToQueue(q, queue[q], x, position) EXCEPT !.txLock = @ + 1],
         queue' = [queue EXCEPT ![q] = N]
  PROVE  /\ Queues'
         /\ \/ q = fifo /\ Sent(Contents(fifo), Contents(fifo)')
            \/ q # fifo /\ Contents(fifo)' = Contents(fifo)
<1> DEFINE Q == queue[q]
           M == prvCopyDataToQueue(q, Q, x, position)
<1>1. Good(q, Q) /\ Q.waiting < Length[q]
  BY DEF IInv, Queues, Fits
<1>2. /\ Good(q, M)
      /\ Kind[q] = "queue" => \/ Items(q, M) = Append(Items(q, Q), x)
                              \/ Items(q, M) = <<x>> \o Items(q, Q)
  <2> HIDE DEF Q
  <2>1. CASE Kind[q] # "queue"
    BY <1>1, <2>1, CountedGood
  <2>2. CASE Kind[q] = "queue"
    BY <1>1, <2>2, SendBackGood, SendFrontGood
  <2> QED  BY <2>1, <2>2
<1> HIDE DEF M
<1>3. Good(q, N) /\ Items(q, N) = Items(q, M)
  <2>1. M.rxLock \in Int /\ M.txLock \in Int
    BY <1>2 DEF Good, QueueRec
  <2> DEFINE l == M.txLock + 1
  <2>2. N = M \/ N = [M EXCEPT !.txLock = l]
    BY DEF M
  <2>3. l \in Int
    BY <2>1
  <2> HIDE DEF l
  <2> QED  BY <1>2, <2>2, <2>3 DEF Good, QueueRec, InRing, Items
<1>4. Len(Items(q, Q)) = Q.waiting
  BY <1>1, RingTypes
<1>5. Queues' /\ Contents(fifo)' = IF q = fifo THEN Items(q, N) ELSE Contents(fifo)
  BY <1>3, QueueSet
<1>6. ASSUME q = fifo PROVE Sent(Contents(fifo), Contents(fifo)')
  <2>1. Contents(fifo) = Items(q, Q)
    BY <1>6 DEF Contents, Items
  <2>2. Kind[q] = "queue" /\ x \in Item
    BY <1>6, FifoAssumption
  <2>3. Contents(fifo)' = Items(q, M)
    BY <1>3, <1>5, <1>6
  <2> QED  BY <1>1, <1>2, <1>4, <1>6, <2>1, <2>2, <2>3 DEF Sent
<1> QED  BY <1>5, <1>6

\* Receiving from q takes its first item, and it is the one that the copy reads.
LEMMA TakeItems ==
  ASSUME IInv, NEW q \in Queue, ~IsEmpty(q), NEW holder \in Task \cup {None}, NEW N,
         \/ N = Taken(q, queue[q], holder)
         \/ N = [Taken(q, queue[q], holder) EXCEPT !.rxLock = @ + 1],
         queue' = [queue EXCEPT ![q] = N]
  PROVE  /\ Queues'
         /\ q = fifo => /\ Contents(fifo) # <<>> /\ Contents(fifo)' = Tail(Contents(fifo))
                        /\ queue[q].buf[ReadPosition(q, queue[q])] = Head(Contents(fifo))
         /\ q # fifo => Contents(fifo)' = Contents(fifo)
<1> DEFINE Q == queue[q]
           M == Taken(q, Q, holder)
<1>1. Good(q, Q) /\ Q.waiting # 0
  BY DEF IInv, Queues, IsEmpty
<1>2. /\ Good(q, M)
      /\ Kind[q] = "queue" => /\ Items(q, Q) # <<>>
                              /\ Q.buf[ReadPosition(q, Q)] = Head(Items(q, Q))
                              /\ Items(q, M) = Tail(Items(q, Q))
  <2> HIDE DEF Q
  <2> QED  BY <1>1, TakenGood
<1> HIDE DEF M
<1>3. Good(q, N) /\ Items(q, N) = Items(q, M)
  <2>1. M.rxLock \in Int /\ M.txLock \in Int
    BY <1>2 DEF Good, QueueRec
  <2> DEFINE l == M.rxLock + 1
  <2>2. N = M \/ N = [M EXCEPT !.rxLock = l]
    BY DEF M
  <2>3. l \in Int
    BY <2>1
  <2> HIDE DEF l
  <2> QED  BY <1>2, <2>2, <2>3 DEF Good, QueueRec, InRing, Items
<1>4. Queues' /\ Contents(fifo)' = IF q = fifo THEN Items(q, N) ELSE Contents(fifo)
  BY <1>3, QueueSet
<1>5. q = fifo => Contents(fifo) = Items(q, Q) /\ Kind[q] = "queue"
  BY FifoAssumption DEF Contents, Items
<1> QED  BY <1>2, <1>3, <1>4, <1>5

\* Looking at the first item.
LEMMA PeekItems ==
  ASSUME IInv, ~IsEmpty(fifo)
  PROVE  /\ Contents(fifo) # <<>>
         /\ queue[fifo].buf[ReadPosition(fifo, queue[fifo])] = Head(Contents(fifo))
<1> DEFINE Q == queue[fifo]
<1>1. Good(fifo, Q) /\ Q.waiting # 0 /\ fifo \in Queue /\ Kind[fifo] = "queue"
  BY FifoAssumption DEF IInv, Queues, IsEmpty
<1>2. Contents(fifo) = Items(fifo, Q)
  BY DEF Contents, Items
<1>3. None \in Task \cup {None}
  OBVIOUS
<1> HIDE DEF Q
<1> QED  BY <1>1, <1>2, <1>3, TakenGood DEF Q

\* An attempt that has to wait, or fails.
LEMMA NotYetMail ==
  ASSUME IInv, NEW t \in Task, NEW c, IsCall(c), Calling(c), NotYet(t, c)
  PROVE  IInv' /\ Mail
<1>1. CASE c.ticks = 0
  <2>1. CallOK(NoCall) /\ Got(NoCall) = None
    BY NoCallFields DEF CallOK, InCallPc, Got
  <2> QED  BY <1>1, <2>1, QuietCall DEF NotYet
<1>2. CASE c.ticks # 0
  <2> DEFINE since == IF c.entryTimeSet THEN c.since ELSE vTaskSetTimeOutState(kern)
             d == [c EXCEPT !.pc = "suspend", !.entryTimeSet = TRUE, !.since = since]
  <2>1. call' = [call EXCEPT ![t] = d] /\ UNCHANGED queue
    BY <1>2 DEF NotYet
  <2> HIDE DEF since
  <2>2. IsCall(d) /\ d.pc = "suspend" /\ d.op = c.op /\ d.q = c.q /\ d.item = c.item
    BY DEF IsCall
  <2> HIDE DEF d
  <2>3. CallOK(d) /\ Got(d) = None
    BY <2>2 DEF CallOK, Calling, Got
  <2> QED  BY <2>1, <2>3, QuietCall
<1> QED  BY <1>1, <1>2

\* What the call returns.
LEMMA DoneCall ==
  ASSUME IInv, NEW t \in Task, NEW c, NEW x, Done(t, c, x)
  PROVE  /\ TaskCalls'
         /\ \A u \in Task : Got(call'[u]) =
              IF u # t THEN Got(call[u])
              ELSE IF c.q = fifo /\ c.op \in {"receive", "peek"} THEN x ELSE None
<1> DEFINE d == [NoCall EXCEPT !.op = c.op, !.q = c.q, !.item = x]
<1>1. call' = [call EXCEPT ![t] = d]
  BY DEF Done
<1>2. IsCall(d) /\ d.pc = "run" /\ d.op = c.op /\ d.q = c.q /\ d.item = x
  BY NoCallFields DEF IsCall
<1> HIDE DEF d
<1>3. CallOK(d)
  BY <1>2 DEF CallOK, InCallPc
<1>4. TaskCalls' /\ \A u \in Task : call'[u] = IF u = t THEN d ELSE call[u]
  BY <1>1, <1>3, CallSet
<1> QED  BY <1>2, <1>4 DEF Got

\* An attempt at a call does to the items what the call says, or nothing.
LEMMA AttemptMail ==
  ASSUME IInv, NEW t \in Task, NEW c, IsCall(c), Calling(c), Attempt(t, c)
  PROVE  IInv' /\ Mail
<1>1. c.op \in {"send", "sendFront", "receive", "peek"} /\ c.q \in Queue
      /\ (Kind[c.q] = "queue" /\ c.op \in {"send", "sendFront"} => c.item \in Item)
  BY DEF Attempt, Calling
<1> DEFINE G == [u \in Task |-> Got(call[u])]
           H == [u \in Task |-> Got(call'[u])]
           s == Contents(fifo)
           r == Contents(fifo)'
<1> SUFFICES IInv' /\ MailStep(s, G, r, H)
  BY DEF Mail
<1>2. CASE NotYet(t, c)
  BY <1>2, NotYetMail DEF Mail
<1>3. CASE /\ Fits(c.q) /\ c.op \in {"send", "sendFront"}
           /\ queue' = [queue EXCEPT ![c.q] =
                          prvCopyDataToQueue(c.q, @, c.item,
                                             IF c.op = "send" THEN "back" ELSE "front")]
           /\ Done(t, c, None)
  <2>1. TaskCalls' /\ \A u \in Task : H[u] = IF u # t THEN G[u] ELSE None
    BY <1>3, DoneCall
  <2> DEFINE position == IF c.op = "send" THEN "back" ELSE "front"
             N == prvCopyDataToQueue(c.q, queue[c.q], c.item, position)
             x == c.item
             q == c.q
  <2>2. /\ position \in {"back", "front"} /\ N = prvCopyDataToQueue(q, queue[q], x, position)
        /\ queue' = [queue EXCEPT ![q] = N] /\ q \in Queue /\ Fits(q)
        /\ (Kind[q] = "queue" => x \in Item)
    BY <1>1, <1>3
  <2> HIDE DEF position, N, x, q
  <2>3. /\ Queues'
        /\ \/ q = fifo /\ Sent(s, r)
           \/ q # fifo /\ r = s
    BY <2>2, SendItems
  <2> HIDE DEF s, r, G, H
  <2> QED  BY <2>1, <2>3 DEF IInv, MailStep, Sent
<1>4. CASE /\ ~IsEmpty(c.q) /\ c.op = "receive"
           /\ queue' = [queue EXCEPT ![c.q] = Taken(c.q, @, t)]
           /\ Done(t, c, queue[c.q].buf[ReadPosition(c.q, queue[c.q])])
  <2> DEFINE q == c.q
             x == queue[q].buf[ReadPosition(q, queue[q])]
             N == Taken(q, queue[q], t)
  <2>1. TaskCalls' /\ \A u \in Task : H[u] = IF u # t THEN G[u]
                                            ELSE IF q = fifo THEN x ELSE None
    BY <1>4, DoneCall
  <2>2. /\ N = Taken(q, queue[q], t) /\ queue' = [queue EXCEPT ![q] = N] /\ q \in Queue
        /\ ~IsEmpty(q) /\ t \in Task \cup {None}
    BY <1>1, <1>4
  <2> HIDE DEF N, q
  <2>3. /\ Queues'
        /\ q = fifo => s # <<>> /\ r = Tail(s) /\ x = Head(s)
        /\ q # fifo => r = s
    BY <2>2, TakeItems
  <2> HIDE DEF s, r, G, H, x
  <2> QED  BY <2>1, <2>3 DEF IInv, MailStep
<1>5. CASE /\ ~IsEmpty(c.q) /\ c.op = "peek" /\ UNCHANGED queue
           /\ Done(t, c, queue[c.q].buf[ReadPosition(c.q, queue[c.q])])
  <2> DEFINE q == c.q
             x == queue[q].buf[ReadPosition(q, queue[q])]
  <2>1. TaskCalls' /\ \A u \in Task : H[u] = IF u # t THEN G[u]
                                            ELSE IF q = fifo THEN x ELSE None
    BY <1>5, DoneCall
  <2>2. Queues' /\ r = s
    BY <1>5 DEF IInv, Queues, Contents
  <2>3. q = fifo => s # <<>> /\ x = Head(s)
    BY <1>5, PeekItems
  <2> HIDE DEF s, r, G, H, x, q
  <2> QED  BY <2>1, <2>2, <2>3 DEF IInv, MailStep
<1> HIDE DEF G, H, s, r
<1>6. ASSUME c.op = "send", AttemptSend(t, c, "back") PROVE IInv' /\ MailStep(s, G, r, H)
  BY <1>2, <1>3, <1>6 DEF AttemptSend
<1>7. ASSUME c.op = "sendFront", AttemptSend(t, c, "front") PROVE IInv' /\ MailStep(s, G, r, H)
  BY <1>2, <1>3, <1>7 DEF AttemptSend
<1>8. ASSUME c.op = "receive", AttemptReceive(t, c) PROVE IInv' /\ MailStep(s, G, r, H)
  BY <1>2, <1>4, <1>8 DEF AttemptReceive
<1>9. ASSUME c.op = "peek", AttemptPeek(t, c) PROVE IInv' /\ MailStep(s, G, r, H)
  BY <1>2, <1>5, <1>9 DEF AttemptPeek
<1> QED  BY <1>6, <1>7, <1>8, <1>9 DEF Attempt


-----------------------------------------------------------------------------
(***************************************************************************)
(* Every step of the kernel is a step of the queue, or none of it.         *)
(***************************************************************************)
LEMMA Returns ==
  ASSUME IInv, NEW t \in Task, UNCHANGED queue, call' = [call EXCEPT ![t] = NoCall]
  PROVE  IInv' /\ Mail
<1>1. CallOK(NoCall) /\ Got(NoCall) = None
  BY NoCallFields DEF CallOK, InCallPc, Got
<1> QED  BY <1>1, QuietCall

\* So do the first steps of the calls,
LEMMA UserCallMail ==
  ASSUME IInv, NEW t \in Caller, UserCall(t)
  PROVE  IInv' /\ Mail
<1>1. ASSUME NEW op, NEW q \in Queue, NEW ticks, NEW x, Calls(t, op, q, ticks, x),
             Kind[q] = "queue" /\ op \in {"send", "sendFront"} => x \in Item
      PROVE  IInv' /\ Mail
  <2> DEFINE c == [NoCall EXCEPT !.op = op, !.q = q, !.ticks = ticks, !.item = x]
  <2>1. IsCall(c) /\ c.op = op /\ c.q = q /\ c.item = x
    BY NoCallFields DEF IsCall
  <2>2. Attempt(t, c)
    BY <1>1 DEF Calls
  <2> HIDE DEF c
  <2>3. Calling(c)
    BY <1>1, <2>1, <2>2 DEF Calling, Attempt
  <2> QED  BY <2>1, <2>2, <2>3, AttemptMail DEF Caller
<1>2. ASSUME NEW q \in Queue, NEW ticks, NEW x \in Item,
             csp_queue_enqueue(t, q, x, ticks) \/ xQueueSendToFront(t, q, x, ticks)
      PROVE  IInv' /\ Mail
  BY <1>1, <1>2 DEF csp_queue_enqueue, xQueueSendToFront
<1>3. ASSUME NEW q \in Queue, NEW ticks,
             \/ csp_queue_dequeue(t, q, ticks) \/ xQueuePeek(t, q, ticks)
             \/ csp_bin_sem_wait(t, q, ticks)
      PROVE  IInv' /\ Mail
  BY <1>1, <1>3 DEF csp_queue_dequeue, xQueuePeek, csp_bin_sem_wait
<1>4. ASSUME NEW q \in Queue, csp_bin_sem_post(t, q) PROVE IInv' /\ Mail
  BY <1>1, <1>4 DEF csp_bin_sem_post
<1>5. ASSUME NEW ticks, vTaskDelay(t, ticks) PROVE IInv' /\ Mail
  <2> DEFINE c == [NoCall EXCEPT !.pc = "resume", !.then = "yield", !.op = "delay",
                                 !.ticks = ticks]
  <2>1. IsCall(c) /\ c.pc = "resume" /\ c.op = "delay" /\ c.then = "yield"
    BY NoCallFields DEF IsCall
  <2>2. call' = [call EXCEPT ![t] = c] /\ UNCHANGED queue
    BY <1>5 DEF vTaskDelay
  <2> HIDE DEF c
  <2>3. CallOK(c) /\ Got(c) = None
    BY <2>1 DEF CallOK, Delaying, Got
  <2> QED  BY <2>2, <2>3, QuietCall DEF Caller
<1>6. ASSUME taskYIELD(t) PROVE IInv' /\ Mail
  BY <1>6, Returns DEF taskYIELD, Caller
<1>7. ASSUME NEW u \in Caller, csp_thread_create(t, u) \/ vTaskDelete(t, u)
      PROVE  IInv' /\ Mail
  <2> DEFINE d == [NoCall EXCEPT !.pc = "deleted"]
  <2>1. CallOK(NoCall) /\ Got(NoCall) = None /\ CallOK(d) /\ Got(d) = None
    BY NoCallFields DEF CallOK, InCallPc, Got, IsCall
  <2> HIDE DEF d
  <2>2. \/ call' = [call EXCEPT ![u] = NoCall, ![t] = NoCall]
        \/ call' = [call EXCEPT ![t] = NoCall, ![u] = d]
    BY <1>7 DEF csp_thread_create, vTaskDelete, d
  <2>3. call = [v \in Task |-> call[v]] /\ t \in Task /\ u \in Task
    BY DEF IInv, TaskCalls, Caller
  <2>4. /\ call' = [v \in Task |-> call'[v]]
        /\ \A v \in Task : call'[v] \in {call[v], NoCall, d}
    BY <2>2, <2>3
  <2>5. queue' = queue
    BY <1>7 DEF csp_thread_create, vTaskDelete
  <2>6. queue' = [q \in Queue |-> queue'[q]]
        /\ \A q \in Queue : Good(q, queue'[q]) /\ Items(q, queue'[q]) = Items(q, queue[q])
    BY <2>5 DEF IInv, Queues
  <2> QED  BY <2>1, <2>4, <2>6, QuietStep
<1> QED  BY <1>2, <1>3, <1>4, <1>5, <1>6, <1>7 DEF UserCall

\* the steps of a call that goes to sleep and on,
LEMMA InCallMail ==
  ASSUME IInv, NEW t \in Task, InCall(t)
  PROVE  IInv' /\ Mail
<1> DEFINE c == call[t]
<1>1. /\ IsCall(c) /\ (c.pc \in InCallPc => Calling(c) \/ Delaying(c))
      /\ Calling(c) => c.q \in Queue
      /\ queue = [q \in Queue |-> queue[q]]
      /\ \A q \in Queue : Good(q, queue[q]) /\ queue[q].rxLock \in Int /\ queue[q].txLock \in Int
  BY DEF IInv, TaskCalls, CallOK, Queues, Good, QueueRec, Calling
<1>2. ASSUME NEW pc, Calling(c) \/ pc \notin InCallPc \/ (Delaying(c) /\ pc = "yield"), pc # "run"
      PROVE  CallOK([c EXCEPT !.pc = pc]) /\ Got([c EXCEPT !.pc = pc]) = None
  <2> DEFINE d == [c EXCEPT !.pc = pc]
  <2>1. /\ IsCall(d) /\ d.pc = pc /\ d.op = c.op /\ d.q = c.q /\ d.item = c.item
        /\ d.then = c.then
    BY <1>1 DEF IsCall
  <2> HIDE DEF d
  <2>2. CallOK(d) /\ Got(d) = None
    BY <1>2, <2>1 DEF CallOK, Calling, Delaying, Got
  <2> QED  BY <2>2 DEF d
<1>3. ASSUME NEW pc, Calling(c) \/ pc \notin InCallPc \/ (Delaying(c) /\ pc = "yield"), pc # "run",
             GoTo(t, pc), UNCHANGED queue
      PROVE  IInv' /\ Mail
  <2> DEFINE d == [c EXCEPT !.pc = pc]
  <2>1. call' = [call EXCEPT ![t] = d]
    BY <1>3 DEF GoTo
  <2>2. CallOK(d) /\ Got(d) = None
    BY <1>2, <1>3
  <2> HIDE DEF d
  <2> QED  BY <1>3, <2>1, <2>2, QuietCall
<1>4. ASSUME NEW pc \in {"check", "unlockRx", "resume"}, Calling(c), GoTo(t, pc),
             NEW l \in Int, NEW m \in Int,
             NEW N, \/ N = [queue[c.q] EXCEPT !.rxLock = l]
                    \/ N = [queue[c.q] EXCEPT !.txLock = l]
                    \/ N = [queue[c.q] EXCEPT !.rxLock = l, !.txLock = m],
             queue' = [queue EXCEPT ![c.q] = N]
      PROVE  IInv' /\ Mail
  <2> DEFINE d == [c EXCEPT !.pc = pc]
             q == c.q
  <2>1. call' = [call EXCEPT ![t] = d]
    BY <1>4 DEF GoTo
  <2>2. CallOK(d) /\ Got(d) = None
    BY <1>2, <1>4
  <2>3. q \in Queue
    BY <1>1, <1>4
  <2> HIDE DEF d, q
  <2>4. Good(q, N) /\ Items(q, N) = Items(q, queue[q])
    <3>1. Good(q, N)
      BY <1>1, <1>4, <2>3, ZenonT(60) DEF q, Good, QueueRec, InRing
    <3>2. Items(q, N) = Items(q, queue[q])
      BY <1>1, <1>4, <2>3, ZenonT(60) DEF q, Good, QueueRec, Items
    <3> QED  BY <3>1, <3>2
  <2>5. queue' = [p \in Queue |-> IF p = q THEN N ELSE queue[p]]
    BY <1>1, <1>4, <2>3 DEF q
  <2>6. queue' = [p \in Queue |-> queue'[p]]
        /\ \A p \in Queue : Good(p, queue'[p]) /\ Items(p, queue'[p]) = Items(p, queue[p])
    BY <1>1, <2>4, <2>5
  <2>7. TaskCalls' /\ \A u \in Task : call'[u] = IF u = t THEN d ELSE call[u]
    BY <2>1, <2>2, CallSet
  <2> QED  BY <2>2, <2>6, <2>7, QuietStep DEF TaskCalls
<1>5. CASE Retry(t)
  <2>1. Calling(c) /\ Attempt(t, c)
    BY <1>1, <1>5 DEF Retry, Running, InCallPc, Delaying
  <2> QED  BY <1>1, <2>1, AttemptMail
<1>6. CASE Suspend(t)
  <2>1. Calling(c) /\ GoTo(t, "lock") /\ UNCHANGED queue
    BY <1>1, <1>6 DEF Suspend, Running, InCallPc, Delaying
  <2> QED  BY <1>3, <2>1
<1>7. CASE prvLockQueue(t)
  <2> DEFINE q == c.q
             l == IF queue[q].rxLock = queueUNLOCKED THEN queueLOCKED_UNMODIFIED
                  ELSE queue[q].rxLock
             m == IF queue[q].txLock = queueUNLOCKED THEN queueLOCKED_UNMODIFIED
                  ELSE queue[q].txLock
             N == [queue[q] EXCEPT !.rxLock = l, !.txLock = m]
  <2>1. Calling(c) /\ GoTo(t, "check") /\ q \in Queue
    BY <1>1, <1>7 DEF prvLockQueue, Running, InCallPc, Delaying
  <2>2. queue' = [queue EXCEPT ![q] = N]
    BY <1>1, <1>7, <2>1 DEF prvLockQueue, Good, QueueRec
  <2>3. l \in Int /\ m \in Int
    BY <1>1, <2>1 DEF queueLOCKED_UNMODIFIED
  <2> HIDE DEF l, m
  <2> QED  BY <1>4, <2>1, <2>2, <2>3
<1>8. CASE Check(t)
  <2>1. Calling(c) /\ UNCHANGED queue
    BY <1>1, <1>8 DEF Check, Running, InCallPc, Delaying
  <2>2. PICK d : /\ call' = [call EXCEPT ![t] = d]
                 /\ IsCall(d) /\ d.op = c.op /\ d.q = c.q /\ d.item = c.item
                 /\ d.pc \in {"unlockTx", "place"}
    <3> DEFINE a == [c EXCEPT !.pc = "unlockTx", !.then = "fail"]
               b == [c EXCEPT !.ticks = IF @ = MaxDelay THEN @ ELSE @ - Elapsed(kern, c.since),
                              !.since = IF c.ticks = MaxDelay THEN @
                                        ELSE vTaskSetTimeOutState(kern),
                              !.pc = IF MustWait(t) THEN "place" ELSE "unlockTx",
                              !.then = IF MustWait(t) THEN "yield" ELSE "try"]
    <3>1. call' = [call EXCEPT ![t] =
                     IF xTaskCheckForTimeOut(kern, c.since, c.ticks) THEN a ELSE b]
      BY <1>8 DEF Check
    <3>2. IsCall(a) /\ a.op = c.op /\ a.q = c.q /\ a.item = c.item /\ a.pc = "unlockTx"
      BY <1>1 DEF IsCall
    <3>3. /\ IsCall(b) /\ b.op = c.op /\ b.q = c.q /\ b.item = c.item
          /\ b.pc \in {"unlockTx", "place"}
      BY <1>1 DEF IsCall
    <3> HIDE DEF a, b
    <3> QED  BY <3>1, <3>2, <3>3
  <2>3. CallOK(d) /\ Got(d) = None
    BY <2>1, <2>2 DEF CallOK, Calling, Got
  <2> QED  BY <2>1, <2>2, <2>3, QuietCall
<1>9. CASE Place(t)
  <2>1. Calling(c) /\ GoTo(t, "unlockTx") /\ UNCHANGED queue
    BY <1>1, <1>9 DEF Place, Running, InCallPc, Delaying
  <2> QED  BY <1>3, <2>1
<1>10. CASE Unlock(t)
  <2> DEFINE N == [queue[c.q] EXCEPT !.txLock = queueUNLOCKED]
  <2>1. Calling(c) /\ GoTo(t, "unlockRx")
    BY <1>1, <1>10 DEF Unlock, Running, InCallPc, Delaying
  <2>2. queue' = [queue EXCEPT ![c.q] = N]
    BY <1>1, <1>10, <2>1 DEF Unlock
  <2>3. queueUNLOCKED \in Int
    BY DEF queueUNLOCKED
  <2> QED  BY <1>4, <2>1, <2>2, <2>3
<1>11. CASE UnlockRx(t)
  <2> DEFINE N == [queue[c.q] EXCEPT !.rxLock = queueUNLOCKED]
  <2>1. Calling(c) /\ GoTo(t, "resume")
    BY <1>1, <1>11 DEF UnlockRx, Running, InCallPc, Delaying
  <2>2. queue' = [queue EXCEPT ![c.q] = N]
    BY <1>1, <1>11, <2>1 DEF UnlockRx
  <2>3. queueUNLOCKED \in Int
    BY DEF queueUNLOCKED
  <2> QED  BY <1>4, <2>1, <2>2, <2>3
<1>12. CASE Resume(t)
  <2>1. (Calling(c) \/ Delaying(c)) /\ UNCHANGED queue
    BY <1>1, <1>12 DEF Resume, Running, InCallPc
  <2>2. CASE c.then = "fail"
    BY <1>12, <2>1, <2>2, Returns DEF Resume
  <2>3. CASE c.then = "try"
    <3>1. Calling(c) /\ GoTo(t, "try")
      BY <1>12, <2>1, <2>3 DEF Resume, Delaying
    <3> QED  BY <1>3, <2>1, <3>1
  <2>4. CASE c.then = "yield"
    <3> DEFINE y == Resumed(kern).yieldPending
    <3>1. GoTo(t, IF y THEN AfterYield(t) ELSE "yield")
      BY <1>12, <2>4 DEF Resume
    <3>2. Delaying(c) => AfterYield(t) \notin InCallPc
      BY DEF Delaying, AfterYield, InCallPc
    <3>3. AfterYield(t) # "run"
      BY DEF AfterYield
    <3> HIDE DEF y
    <3> QED  BY <1>3, <2>1, <3>1, <3>2, <3>3
  <2> QED  BY <1>12, <2>2, <2>3, <2>4 DEF Resume
<1>13. CASE Yield(t)
  <2>1. (Calling(c) \/ Delaying(c)) /\ GoTo(t, AfterYield(t)) /\ UNCHANGED queue
    BY <1>1, <1>13 DEF Yield, Running, InCallPc
  <2>2. AfterYield(t) # "run" /\ (Delaying(c) => AfterYield(t) \notin InCallPc)
    BY DEF AfterYield, Delaying, InCallPc
  <2> QED  BY <1>3, <2>1, <2>2
<1>14. CASE Delayed(t)
  BY <1>14, Returns DEF Delayed
<1> QED  BY <1>5, <1>6, <1>7, <1>8, <1>9, <1>10, <1>11, <1>12, <1>13, <1>14 DEF InCall


\* those of the idle task,
LEMMA IdleStepMail == IInv /\ IdleStep => IInv' /\ Mail
<1> SUFFICES ASSUME IInv, IdleStep PROVE IInv' /\ Mail
  OBVIOUS
<1> DEFINE t == IdleTask
<1>1. t \in Task /\ call = [u \in Task |-> call[u]] /\ IsCall(call[t])
  BY KernelAssumption DEF IInv, TaskCalls, CallOK
<1>2. UNCHANGED queue
  BY DEF IdleStep, Idle, IdleSuspend, IdleResume, Reap
<1>3. /\ queue' = [q \in Queue |-> queue'[q]]
      /\ \A q \in Queue : Good(q, queue'[q]) /\ Items(q, queue'[q]) = Items(q, queue[q])
  BY <1>2 DEF IInv, Queues
<1>4. CASE Idle
  BY <1>1, <1>3, <1>4, QuietStep DEF Idle
<1>5. ASSUME NEW pc \in {"idleResume", "reap"}, GoTo(t, pc) PROVE IInv' /\ Mail
  <2> DEFINE d == [call[t] EXCEPT !.pc = pc]
  <2>1. call' = [call EXCEPT ![t] = d]
    BY <1>5 DEF GoTo
  <2>2. IsCall(d) /\ d.pc = pc
    BY <1>1 DEF IsCall
  <2> HIDE DEF d
  <2>3. CallOK(d) /\ Got(d) = None
    BY <2>2 DEF CallOK, InCallPc, Got
  <2> QED  BY <1>1, <1>2, <2>1, <2>3, QuietCall
<1>6. CASE IdleSuspend
  BY <1>5, <1>6 DEF IdleSuspend
<1>7. CASE IdleResume
  BY <1>5, <1>7 DEF IdleResume
<1>8. CASE Reap
  <2> DEFINE d == [NoCall EXCEPT !.pc = "absent"]
             u == Head(kern.waitingTermination)
  <2>1. CallOK(NoCall) /\ Got(NoCall) = None /\ CallOK(d) /\ Got(d) = None
    BY NoCallFields DEF CallOK, InCallPc, Got, IsCall
  <2> HIDE DEF d, u
  <2>2. call' = [call EXCEPT ![t] = NoCall, ![u] = d]
    BY <1>8 DEF Reap, d, u
  <2>3. /\ call' = [v \in Task |-> call'[v]]
        /\ \A v \in Task : call'[v] \in {call[v], NoCall, d}
    BY <1>1, <2>2
  <2> QED  BY <1>3, <2>1, <2>3, QuietStep
<1> QED  BY <1>4, <1>6, <1>7, <1>8 DEF IdleStep

\* the interrupts,
LEMMA InterruptMail == IInv /\ Interrupt => IInv' /\ Mail
<1> SUFFICES ASSUME IInv, Interrupt PROVE IInv' /\ Mail
  OBVIOUS
<1> DEFINE G == [u \in Task |-> Got(call[u])]
           H == [u \in Task |-> Got(call'[u])]
           s == Contents(fifo)
           r == Contents(fifo)'
<1>1. UNCHANGED call
  BY DEF Interrupt, vPortTickISR, ReceiveFromISR, SendFromISR
<1>2. TaskCalls' /\ H = G /\ (\A u \in Task : H[u] = G[u])
      /\ (\A u \in Task : H[u] \in {G[u], None})
  BY <1>1 DEF IInv, TaskCalls
<1> SUFFICES Queues' /\ MailStep(s, G, r, H)
  BY <1>2 DEF IInv, Mail
<1> HIDE DEF G, H
<1>3. CASE vPortTickISR
  <2>1. Queues' /\ r = s
    BY <1>3 DEF vPortTickISR, IInv, Queues, Contents
  <2> HIDE DEF s, r
  <2> QED  BY <1>2, <2>1 DEF MailStep
<1>4. ASSUME NEW q \in Queue, ReceiveFromISR(q) PROVE Queues' /\ MailStep(s, G, r, H)
  <2> DEFINE M == Taken(q, queue[q], None)
             L == [Taken(q, queue[q], None) EXCEPT !.rxLock = @ + 1]
  <2>1. ~IsEmpty(q) /\ (queue' = [queue EXCEPT ![q] = M] \/ queue' = [queue EXCEPT ![q] = L])
    BY <1>4 DEF ReceiveFromISR
  <2>2. PICK N : (N = M \/ N = L) /\ queue' = [queue EXCEPT ![q] = N]
    BY <2>1
  <2>3. None \in Task \cup {None}
    OBVIOUS
  <2>4. /\ Queues'
        /\ q = fifo => s # <<>> /\ r = Tail(s)
        /\ q # fifo => r = s
    BY <2>1, <2>2, <2>3, TakeItems
  <2> HIDE DEF s, r
  <2> QED  BY <1>2, <2>4 DEF MailStep
<1>5. ASSUME NEW q \in Queue, NEW x \in Item, SendFromISR(q, x)
      PROVE  Queues' /\ MailStep(s, G, r, H)
  <2> DEFINE M == prvCopyDataToQueue(q, queue[q], x, "back")
             L == [prvCopyDataToQueue(q, queue[q], x, "back") EXCEPT !.txLock = @ + 1]
  <2>1. Fits(q) /\ (queue' = [queue EXCEPT ![q] = M] \/ queue' = [queue EXCEPT ![q] = L])
    BY <1>5 DEF SendFromISR
  <2>2. PICK N : (N = M \/ N = L) /\ queue' = [queue EXCEPT ![q] = N]
    BY <2>1
  <2>3. "back" \in {"back", "front"}
    OBVIOUS
  <2>4. /\ Queues'
        /\ \/ q = fifo /\ Sent(s, r)
           \/ q # fifo /\ r = s
    BY <1>5, <2>1, <2>2, <2>3, SendItems
  <2> HIDE DEF s, r
  <2> QED  BY <1>2, <2>4 DEF MailStep, Sent
<1> QED  BY <1>3, <1>4, <1>5 DEF Interrupt

\* and every step.
LEMMA NextMail == IInv /\ [Next]_vars => IInv' /\ Mail
<1> SUFFICES ASSUME IInv, [Next]_vars PROVE IInv' /\ Mail
  OBVIOUS
<1>1. ASSUME NEW t \in Caller, TaskStep(t) PROVE IInv' /\ Mail
  <2>1. t \in Task
    BY DEF Caller
  <2> QED  BY <1>1, <2>1, UserCallMail, InCallMail DEF TaskStep
<1>2. CASE IdleStep  BY <1>2, IdleStepMail
<1>3. CASE Interrupt  BY <1>3, InterruptMail
<1>4. CASE UNCHANGED vars
  <2>1. UNCHANGED <<queue, call>>
    BY <1>4 DEF vars
  <2>2. /\ call' = [u \in Task |-> call'[u]]
        /\ queue' = [q \in Queue |-> queue'[q]]
        /\ \A q \in Queue : Good(q, queue'[q]) /\ Items(q, queue'[q]) = Items(q, queue[q])
    BY <2>1 DEF IInv, Queues, TaskCalls
  <2> QED  BY <2>1, <2>2, QuietStep
<1> QED  BY <1>1, <1>2, <1>3, <1>4 DEF Next

-----------------------------------------------------------------------------
(***************************************************************************)
(* The theorems.                                                           *)
(***************************************************************************)
\* The pointers of every queue stay in the ring and agree with the count of its items,
\* and every call that sends to a queue carries an item.
THEOREM RingInvariant == Spec => []IInv
<1>1. Init => IInv
  BY InitIInv
<1>2. IInv /\ [Next]_vars => IInv'
  BY NextMail
<1> QED  BY <1>1, <1>2, PTL DEF Spec

\* What prvCopyDataToQueue and prvCopyDataFromQueue do to the ring, for calls that find
\* the queue full or empty, sleep and try again, and for interrupts that come in between,
\* is what MessageQueue says: items come out in order, each of them once.
THEOREM QueueRefinement == Spec => QueueOfMessages
<1>1. Mail => [Fifo!Next]_(Fifo!vars)
  <2> DEFINE s == Contents(fifo)
             r == Contents(fifo)'
             g == [t \in Task |-> Received(fifo, t)]
             h == [t \in Task |-> Received(fifo, t)]'
             G == [u \in Task |-> Got(call[u])]
             H == [u \in Task |-> Got(call'[u])]
  <2> SUFFICES ASSUME MailStep(s, G, r, H) PROVE Fifo!Next
    BY DEF Mail
  <2>1. g = G /\ h = H
    BY DEF Received, Got
  <2>2. g = [u \in Task |-> g[u]] /\ h = [u \in Task |-> h[u]]
    OBVIOUS
  <2>3. ASSUME r = s, \A u \in Task : H[u] \in {G[u], None} PROVE Fifo!Next
    <3> DEFINE R == {u \in Task : H[u] = None}
    <3> HIDE DEF G, H
    <3>1. H = [u \in Task |-> IF u \in R THEN None ELSE G[u]]
      BY <2>1, <2>2, <2>3
    <3>2. Fifo!Forget(R)
      BY <2>1, <2>3, <3>1 DEF Fifo!Forget
    <3> QED  BY <3>2 DEF Fifo!Next
  <2>4. ASSUME Len(s) < Length[fifo], NEW v \in Item, r = Append(s, v) \/ r = <<v>> \o s,
               \/ \A u \in Task : H[u] = G[u]
               \/ \E x \in Task : \A u \in Task : H[u] = IF u = x THEN None ELSE G[u]
        PROVE  Fifo!Next
    <3> HIDE DEF G, H
    <3>1. H = G \/ \E x \in Task : H = [G EXCEPT ![x] = None]
      BY <2>1, <2>2, <2>4
    <3>2. Fifo!Send(v)
      BY <2>1, <2>4, <3>1 DEF Fifo!Send
    <3> QED  BY <3>2 DEF Fifo!Next
  <2>5. ASSUME s # <<>>, r \in {s, Tail(s)}, NEW x \in Task,
               \A u \in Task : H[u] = IF u = x THEN Head(s) ELSE G[u]
        PROVE  Fifo!Next
    <3> HIDE DEF G, H
    <3>1. H = [G EXCEPT ![x] = Head(s)]
      BY <2>1, <2>2, <2>5
    <3>2. Fifo!Receive(x) \/ Fifo!Peek(x)
      BY <2>1, <2>5, <3>1 DEF Fifo!Receive, Fifo!Peek
    <3> QED  BY <3>2 DEF Fifo!Next
  <2>6. ASSUME s # <<>>, r = Tail(s), \A u \in Task : H[u] = G[u] PROVE Fifo!Next
    <3> HIDE DEF G, H
    <3>1. H = G
      BY <2>1, <2>2, <2>6
    <3> QED  BY <2>1, <2>6, <3>1 DEF Fifo!ReceiveFromISR, Fifo!Next
  <2> HIDE DEF s, r, g, h, G, H
  <2> QED  BY <2>3, <2>4, <2>5, <2>6 DEF MailStep
<1>2. Init => IInv /\ Fifo!Init
  BY InitIInv
<1>3. IInv /\ [Next]_vars => IInv' /\ [Fifo!Next]_(Fifo!vars)
  BY <1>1, NextMail
<1> QED  BY <1>2, <1>3, PTL DEF Spec, QueueOfMessages, Fifo!Spec

-----------------------------------------------------------------------------
(***************************************************************************)
(* Induction, from the well-foundedness of the natural numbers.            *)
(***************************************************************************)
\* Every set of natural numbers has a least one.
LEMMA Least ==
  ASSUME NEW T \in SUBSET Nat, T # {}
  PROVE  \E x \in T : \A y \in T : x <= y
<1> DEFINE R == OpToRel(<, Nat)
<1>1. IsWellFoundedOn(R, Nat)
  BY NatLessThanWellFounded
<1>2. \A x, y \in Nat : y < x => <<y, x>> \in R
  BY DEF OpToRel
<1> HIDE DEF R
<1>3. \E x \in T : \A y \in T : ~(<<y, x>> \in R)
  BY <1>1, WFMin
<1>4. \A x, y \in T : x \in Nat /\ y \in Nat /\ (~(y < x) => x <= y)
  OBVIOUS
<1> QED  BY <1>2, <1>3, <1>4

\* Induction up to n, for the set of numbers that satisfy a predicate.
LEMMA UpTo ==
  ASSUME NEW n \in Nat, NEW T, 0 \in T, \A i \in 0..n - 1 : i \in T => i + 1 \in T
  PROVE  \A i \in 0..n : i \in T
<1> DEFINE U == {i \in 0..n : i \notin T}
<1> SUFFICES ASSUME U # {} PROVE FALSE
  OBVIOUS
<1>0. U \in SUBSET Nat
  OBVIOUS
<1>1. PICK x \in U : \A y \in U : x <= y
  <2> HIDE DEF U
  <2> QED  BY <1>0, Least
<1>2. x # 0 /\ x - 1 \in 0..n - 1 /\ x - 1 + 1 = x /\ ~(x <= x - 1)
  BY <1>1
<1>3. x - 1 \in T
  BY <1>1, <1>2
<1> QED  BY <1>1, <1>2, <1>3

-----------------------------------------------------------------------------
(***************************************************************************)
(* Lists: sequences in which nothing occurs twice.                         *)
(***************************************************************************)
Members(l) == {l[i] : i \in 1..Len(l)}

Lists(S) == {l \in Seq(S) : \A i, j \in 1..Len(l) : l[i] = l[j] => i = j}

\* What a sequence contains are its members.
LEMMA ContainsMembers == \A l, x : Contains(l, x) <=> x \in Members(l)
BY DEF Contains, Members

\* The members of a list, and of the empty one.
LEMMA ListBasics ==
  ASSUME NEW S
  PROVE  /\ <<>> \in Lists(S) /\ Members(<<>>) = {}
         /\ \A l \in Lists(S) : /\ l \in Seq(S) /\ Len(l) \in Nat /\ Members(l) \subseteq S
                                /\ l # <<>> <=> Members(l) # {}
                                /\ l # <<>> => Head(l) \in Members(l)
BY DEF Lists, Members

\* Two lists with the same members at the same places.
LEMMA OneMember ==
  ASSUME NEW S, NEW l \in Lists(S), NEW x \in S, Members(l) = {x}
  PROVE  l = <<x>>
<1>1. l \in Seq(S) /\ Len(l) \in Nat /\ l # <<>>
  BY ListBasics
<1>2. \A i \in 1..Len(l) : l[i] = x
  BY DEF Members
<1>3. Len(l) = 1
  <2>1. Len(l) # 0 /\ 1 \in 1..Len(l)
    BY <1>1, EmptySeq
  <2>2. ASSUME Len(l) > 1 PROVE FALSE
    <3>1. Len(l) \in 1..Len(l) /\ l[Len(l)] = l[1]
      BY <1>1, <1>2, <2>1, <2>2
    <3>2. \A i, j \in 1..Len(l) : l[i] = l[j] => i = j
      BY DEF Lists
    <3>3. Len(l) = 1
      BY <2>1, <3>1, <3>2
    <3> QED  BY <2>2, <3>3
  <2> DEFINE n == Len(l)
  <2>3. n \in Nat /\ n # 0 /\ ~(n > 1)
    BY <1>1, <2>1, <2>2
  <2> HIDE DEF n
  <2>4. n = 1
    BY <2>3
  <2> QED  BY <2>4 DEF n
<1>4. <<x>> \in Seq(S) /\ Len(<<x>>) = 1 /\ <<x>>[1] = x
  OBVIOUS
<1>5. \A i \in 1..Len(l) : l[i] = <<x>>[i]
  BY <1>2, <1>3, <1>4
<1> QED  BY <1>1, <1>3, <1>4, <1>5, SeqEqual

\* Two sequences of known lengths, one after the other.
LEMMA Concat ==
  ASSUME NEW S, NEW a \in Seq(S), NEW b \in Seq(S), NEW m \in Nat, NEW n \in Nat,
         Len(a) = m, Len(b) = n, NEW s, s = m + n
  PROVE  /\ a \o b \in Seq(S) /\ Len(a \o b) = s
         /\ \A j \in 1..s : (a \o b)[j] = IF j <= m THEN a[j] ELSE b[j - m]
BY ConcatProperties

\* uxListRemove at a place.
LEMMA RemoveAtList ==
  ASSUME NEW S, NEW l \in Lists(S), NEW i \in 1..Len(l)
  PROVE  /\ RemoveAt(l, i) \in Lists(S) /\ Members(RemoveAt(l, i)) = Members(l) \ {l[i]}
         /\ Len(RemoveAt(l, i)) = Len(l) - 1
         /\ \A j \in 1..Len(l) - 1 : RemoveAt(l, i)[j] = IF j < i THEN l[j] ELSE l[j + 1]
<1> DEFINE n == Len(l)
           a == SubSeq(l, 1, i - 1)
           b == SubSeq(l, i + 1, n)
           r == a \o b
<1>1. l \in Seq(S) /\ n \in Nat /\ \A j \in 1..n : l[j] \in S
  BY ListBasics, ElementOfSeq
<1>2. a \in Seq(S) /\ Len(a) = i - 1 /\ \A j \in 1..i - 1 : a[j] = l[j]
  BY <1>1, SubSeqProperties
<1>3. b \in Seq(S) /\ Len(b) = n - i /\ \A j \in 1..n - i : b[j] = l[i + j]
  BY <1>1, SubSeqProperties
<1> HIDE DEF a, b
<1>4. /\ r \in Seq(S) /\ Len(r) = n - 1
      /\ \A j \in 1..n - 1 : r[j] = IF j < i THEN l[j] ELSE l[j + 1]
  <2> DEFINE m == i - 1
             p == n - i
             s == n - 1
  <2>1. m \in Nat /\ p \in Nat /\ s = m + p
    BY <1>1
  <2> HIDE DEF m, p, s
  <2>2. /\ r \in Seq(S) /\ Len(r) = s
        /\ \A j \in 1..s : r[j] = IF j <= m THEN a[j] ELSE b[j - m]
    <3>1. a \in Seq(S) /\ Len(a) = m /\ b \in Seq(S) /\ Len(b) = p
      BY <1>2, <1>3 DEF m, p
    <3> QED  BY <2>1, <3>1, Concat
  <2>3. ASSUME NEW j \in 1..n - 1 PROVE r[j] = IF j < i THEN l[j] ELSE l[j + 1]
    <3>1. r[j] = IF j <= i - 1 THEN a[j] ELSE b[j - (i - 1)]
      <4>1. j \in 1..s
        BY DEF s
      <4> QED  BY <2>2, <4>1 DEF m
    <3>2. CASE j < i
      BY <1>1, <1>2, <3>1, <3>2
    <3>3. CASE j >= i
      <4>1. j - (i - 1) \in 1..n - i /\ i + (j - (i - 1)) = j + 1
        BY <1>1, <3>3
      <4> QED  BY <1>1, <1>3, <3>1, <3>3, <4>1
    <3>4. j < i \/ j >= i
      OBVIOUS
    <3> QED  BY <3>2, <3>3, <3>4
  <2> QED  BY <2>2, <2>3 DEF s
<1>5. RemoveAt(l, i) = r
  BY DEF RemoveAt, a, b
<1> HIDE DEF r
<1>6. r \in Lists(S)
  BY <1>1, <1>4 DEF Lists
<1>7. Members(r) = Members(l) \ {l[i]}
  <2>1. ASSUME NEW j \in 1..n - 1 PROVE r[j] \in Members(l) \ {l[i]}
    BY <1>1, <1>4 DEF Members, Lists
  <2>2. ASSUME NEW j \in 1..n, j # i PROVE l[j] \in Members(r)
    <3>1. CASE j < i
      BY <1>1, <1>4, <3>1 DEF Members
    <3>2. CASE j > i
      <4>1. j - 1 \in 1..n - 1 /\ r[j - 1] = l[j]
        BY <1>1, <1>4, <3>2
      <4> QED  BY <1>4, <4>1 DEF Members
    <3> QED  BY <2>2, <3>1, <3>2
  <2> QED  BY <1>4, <2>1, <2>2 DEF Members
<1> QED  BY <1>4, <1>5, <1>6, <1>7

\* uxListRemove.
LEMMA RemoveFirstList ==
  ASSUME NEW S, NEW l \in Lists(S), NEW x
  PROVE  RemoveFirst(l, x) \in Lists(S) /\ Members(RemoveFirst(l, x)) = Members(l) \ {x}
<1>1. CASE x \notin Members(l)
  BY <1>1 DEF RemoveFirst, Members
<1>2. CASE x \in Members(l)
  <2>1. PICK i \in 1..Len(l) : l[i] = x
    BY <1>2 DEF Members
  <2>2. {j \in 1..Len(l) : l[j] = x} = {i}
    BY <2>1 DEF Lists
  <2>3. Min({i}) = i
    BY DEF Min
  <2>4. SelectInSeq(l, LAMBDA v : v = x) = i
    BY <2>2, <2>3 DEF SelectInSeq
  <2>5. RemoveFirst(l, x) = RemoveAt(l, i)
    BY <2>1, <2>4 DEF RemoveFirst
  <2> QED  BY <2>1, <2>5, RemoveAtList
<1> QED  BY <1>1, <1>2

\* A new element somewhere in a list.
LEMMA Inserted ==
  ASSUME NEW S, NEW l \in Lists(S), NEW x \in S, x \notin Members(l),
         NEW n \in 0..Len(l), NEW r \in Seq(S), Len(r) = Len(l) + 1,
         \A j \in 1..Len(l) + 1 : r[j] = IF j <= n THEN l[j]
                                       ELSE IF j = n + 1 THEN x ELSE l[j - 1]
  PROVE  r \in Lists(S) /\ Members(r) = Members(l) \cup {x}
<1>1. l \in Seq(S) /\ Len(l) \in Nat
  BY ListBasics
<1>2. \A j \in 1..Len(l) : l[j] # x
  BY DEF Members
<1>3. \A i, j \in 1..Len(l) : l[i] = l[j] => i = j
  BY DEF Lists
<1>4. ASSUME NEW i \in 1..Len(r), NEW j \in 1..Len(r), r[i] = r[j] PROVE i = j
  <2> DEFINE P(k) == IF k <= n THEN k ELSE k - 1
  <2>1. \A k \in 1..Len(r) : k # n + 1 => P(k) \in 1..Len(l) /\ r[k] = l[P(k)]
    BY <1>1
  <2>2. r[n + 1] = x
    BY <1>1
  <2>3. CASE i = n + 1
    BY <1>2, <1>4, <2>1, <2>2, <2>3
  <2>4. CASE j = n + 1
    BY <1>2, <1>4, <2>1, <2>2, <2>4
  <2>5. CASE i # n + 1 /\ j # n + 1
    <3>1. P(i) = P(j)
      BY <1>3, <1>4, <2>1, <2>5
    <3> QED  BY <1>1, <2>5, <3>1
  <2> QED  BY <2>3, <2>4, <2>5
<1>5. r \in Lists(S)
  BY <1>4 DEF Lists
<1>6. Members(r) = Members(l) \cup {x}
  <2>1. ASSUME NEW j \in 1..Len(r) PROVE r[j] \in Members(l) \cup {x}
    BY <1>1 DEF Members
  <2>2. ASSUME NEW j \in 1..Len(l) PROVE l[j] \in Members(r)
    <3>1. CASE j <= n
      <4>1. j \in 1..Len(r) /\ r[j] = l[j]
        BY <1>1, <3>1
      <4> QED  BY <4>1 DEF Members
    <3>2. CASE j > n
      <4>1. j + 1 \in 1..Len(r) /\ r[j + 1] = l[j]
        BY <1>1, <3>2
      <4> QED  BY <4>1 DEF Members
    <3> QED  BY <1>1, <3>1, <3>2
  <2>3. x \in Members(r)
    <3>1. n + 1 \in 1..Len(r) /\ r[n + 1] = x
      BY <1>1
    <3> QED  BY <3>1 DEF Members
  <2> QED  BY <2>1, <2>2, <2>3 DEF Members
<1> QED  BY <1>5, <1>6

\* vListInsert, wherever the element goes.
LEMMA InsertAtList ==
  ASSUME NEW S, NEW l \in Lists(S), NEW x \in S, x \notin Members(l), NEW n \in 0..Len(l)
  PROVE  /\ InsertAt(l, n + 1, x) \in Lists(S)
         /\ Members(InsertAt(l, n + 1, x)) = Members(l) \cup {x}
<1> DEFINE m == Len(l)
           a == SubSeq(l, 1, n)
           b == SubSeq(l, n + 1, m)
           c == a \o <<x>>
           r == c \o b
<1>1. l \in Seq(S) /\ m \in Nat /\ \A j \in 1..m : l[j] \in S
  BY ListBasics, ElementOfSeq
<1>2. a \in Seq(S) /\ Len(a) = n /\ \A j \in 1..n : a[j] = l[j]
  BY <1>1, SubSeqProperties
<1>3. b \in Seq(S) /\ Len(b) = m - n /\ \A j \in 1..m - n : b[j] = l[n + j]
  BY <1>1, SubSeqProperties
<1>4. <<x>> \in Seq(S) /\ Len(<<x>>) = 1 /\ <<x>>[1] = x
  OBVIOUS
<1> HIDE DEF a, b
<1>5. c \in Seq(S) /\ Len(c) = n + 1
      /\ \A j \in 1..n + 1 : c[j] = IF j <= n THEN l[j] ELSE x
  <2>1. /\ c \in Seq(S) /\ Len(c) = n + 1
        /\ \A j \in 1..n + 1 : c[j] = IF j <= n THEN a[j] ELSE <<x>>[j - n]
    BY <1>2, <1>4, ConcatProperties
  <2> QED  BY <1>2, <1>4, <2>1
<1> HIDE DEF c
<1>6. /\ r \in Seq(S) /\ Len(r) = m + 1
      /\ \A j \in 1..m + 1 : r[j] = IF j <= n + 1 THEN c[j] ELSE b[j - (n + 1)]
  <2> DEFINE d == n + 1
             e == m - n
             s == m + 1
  <2>1. d \in Nat /\ e \in Nat /\ s = d + e
    BY <1>1
  <2> HIDE DEF d, e, s, m
  <2>2. /\ r \in Seq(S) /\ Len(r) = s
        /\ \A j \in 1..s : r[j] = IF j <= d THEN c[j] ELSE b[j - d]
    <3>1. c \in Seq(S) /\ Len(c) = d /\ b \in Seq(S) /\ Len(b) = e
      BY <1>3, <1>5 DEF d, e
    <3> QED  BY <2>1, <3>1, Concat
  <2> QED  BY <2>2 DEF d, s
<1>7. \A j \in 1..m + 1 : r[j] = IF j <= n THEN l[j] ELSE IF j = n + 1 THEN x ELSE l[j - 1]
  <2> TAKE j \in 1..m + 1
  <2>1. CASE j <= n + 1
    <3>1. j \in 1..n + 1 /\ j - 1 \in Int
      BY <1>1, <2>1
    <3>2. r[j] = c[j]
      BY <1>6, <2>1
    <3>3. r[j] = IF j <= n THEN l[j] ELSE x
      BY <1>5, <3>1, <3>2
    <3>4. ~(j <= n) => j = n + 1
      BY <3>1
    <3> QED  BY <3>3, <3>4
  <2>2. CASE j > n + 1
    <3> DEFINE i == j - (n + 1)
    <3>1. i \in 1..m - n /\ n + i = j - 1 /\ ~(j <= n) /\ j # n + 1
      BY <1>1, <2>2
    <3>2. r[j] = b[i]
      BY <1>1, <1>6, <2>2
    <3> HIDE DEF i
    <3>3. b[i] = l[j - 1]
      BY <1>3, <3>1
    <3> QED  BY <3>1, <3>2, <3>3
  <2>3. j <= n + 1 \/ j > n + 1
    BY <1>1
  <2> QED  BY <2>1, <2>2, <2>3
<1>8. InsertAt(l, n + 1, x) = r
  <2> DEFINE i == n + 1
             h == i - 1
  <2>1. h = n
    OBVIOUS
  <2>2. InsertAt(l, i, x) = SubSeq(l, 1, h) \o <<x>> \o SubSeq(l, i, Len(l))
    <3> HIDE DEF i
    <3> QED  BY DEF InsertAt
  <2> HIDE DEF h
  <2> QED  BY <2>1, <2>2 DEF a, b, c
<1> HIDE DEF r
<1> QED  BY <1>6, <1>7, <1>8, Inserted, SMTT(30)

\* An element appended to a list.
LEMMA AppendList ==
  ASSUME NEW S, NEW l \in Lists(S), NEW x \in S, x \notin Members(l)
  PROVE  Append(l, x) \in Lists(S) /\ Members(Append(l, x)) = Members(l) \cup {x}
<1> DEFINE r == Append(l, x)
           n == Len(l)
<1>1. l \in Seq(S) /\ n \in Nat /\ n \in 0..Len(l)
  BY ListBasics
<1>2. /\ r \in Seq(S) /\ Len(r) = Len(l) + 1
      /\ \A j \in 1..Len(l) : r[j] = l[j]
      /\ r[Len(l) + 1] = x
  BY <1>1, AppendProperties
<1> HIDE DEF r
<1>3. \A j \in 1..Len(l) + 1 : r[j] = IF j <= n THEN l[j] ELSE IF j = n + 1 THEN x ELSE l[j - 1]
  BY <1>1, <1>2
<1> HIDE DEF n
<1>4. r \in Lists(S) /\ Members(r) = Members(l) \cup {x}
  BY <1>1, <1>2, <1>3, Inserted
<1> QED  BY <1>4 DEF r

\* vListInsertEnd.
LEMMA InsertEndList ==
  ASSUME NEW S, NEW l \in Lists(S), l # <<>>, NEW x \in S, x \notin Members(l)
  PROVE  /\ vListInsertEnd(l, x) \in Lists(S)
         /\ Members(vListInsertEnd(l, x)) = Members(l) \cup {x}
<1> DEFINE m == Len(l)
           n == m - 1
           a == SubSeq(l, 1, n)
           b == <<x, l[m]>>
           r == a \o b
<1>1. /\ l \in Seq(S) /\ m \in Nat /\ n \in 0..m /\ n + 1 = m /\ m \in 1..m
      /\ \A j \in 1..m : l[j] \in S
  BY ListBasics, ElementOfSeq, EmptySeq
<1>2. a \in Seq(S) /\ Len(a) = n /\ \A j \in 1..n : a[j] = l[j]
  <2>1. \A j \in 1..n : l[j] \in S
    BY <1>1
  <2> HIDE DEF n, m
  <2> QED  BY <1>1, <2>1, SubSeqProperties
<1>3. b \in Seq(S) /\ Len(b) = 2 /\ b[1] = x /\ b[2] = l[m]
  BY <1>1
<1> HIDE DEF a, b
<1>4. /\ r \in Seq(S) /\ Len(r) = m + 1
      /\ \A j \in 1..m + 1 : r[j] = IF j <= n THEN a[j] ELSE b[j - n]
  <2> DEFINE s == m + 1
             w == 2
  <2>1. n \in Nat /\ w \in Nat /\ s = n + w
    BY <1>1
  <2> HIDE DEF s, w, m, n
  <2>2. /\ r \in Seq(S) /\ Len(r) = s
        /\ \A j \in 1..s : r[j] = IF j <= n THEN a[j] ELSE b[j - n]
    <3>1. a \in Seq(S) /\ Len(a) = n /\ b \in Seq(S) /\ Len(b) = w
      BY <1>2, <1>3 DEF w
    <3> QED  BY <2>1, <3>1, Concat
  <2> QED  BY <2>2 DEF s
<1> HIDE DEF m, n
<1>5. \A j \in 1..m + 1 : r[j] = IF j <= n THEN l[j] ELSE IF j = n + 1 THEN x ELSE l[j - 1]
  <2> TAKE j \in 1..m + 1
  <2>1. CASE j <= n
    <3>1. j \in 1..n
      BY <1>1, <2>1
    <3>2. r[j] = a[j]
      BY <1>4, <2>1
    <3> QED  BY <1>2, <2>1, <3>1, <3>2
  <2>2. CASE j = n + 1
    <3>1. j - n = 1 /\ ~(j <= n)
      BY <1>1, <2>2
    <3>2. r[j] = b[j - n]
      BY <1>4, <3>1
    <3> QED  BY <1>3, <2>2, <3>1, <3>2
  <2>3. CASE j = m + 1
    <3>1. j - n = 2 /\ j - 1 = m /\ ~(j <= n) /\ j # n + 1
      BY <1>1, <2>3
    <3>2. r[j] = b[j - n]
      BY <1>4, <3>1
    <3> QED  BY <1>3, <3>1, <3>2
  <2>4. j <= n \/ j = n + 1 \/ j = m + 1
    BY <1>1
  <2> QED  BY <2>1, <2>2, <2>3, <2>4
<1>6. vListInsertEnd(l, x) = r
  BY DEF vListInsertEnd, Front, Last, a, b, m, n
<1> HIDE DEF r
<1>7. /\ n \in 0..Len(l) /\ r \in Seq(S) /\ Len(r) = Len(l) + 1
      /\ \A j \in 1..Len(l) + 1 : r[j] = IF j <= n THEN l[j]
                                       ELSE IF j = n + 1 THEN x ELSE l[j - 1]
  BY <1>1, <1>4, <1>5 DEF m
<1>8. r \in Lists(S) /\ Members(r) = Members(l) \cup {x}
  BY <1>7, Inserted
<1> QED  BY <1>6, <1>8

\* The rest of a list.
LEMMA TailList ==
  ASSUME NEW S, NEW l \in Lists(S), l # <<>>
  PROVE  /\ Tail(l) \in Lists(S) /\ Members(Tail(l)) = Members(l) \ {Head(l)}
         /\ Head(l) \in Members(l)
<1>1. l \in Seq(S) /\ Len(l) \in Nat /\ Len(l) # 0 /\ 1 \in 1..Len(l) /\ Head(l) = l[1]
      /\ Head(l) \in Members(l)
  BY ListBasics, EmptySeq
<1>2. /\ Tail(l) \in Seq(S) /\ Len(Tail(l)) = Len(l) - 1
      /\ \A i \in 1..Len(l) - 1 : Tail(l)[i] = l[i + 1]
  BY <1>1, HeadTailProperties
<1>3. /\ RemoveAt(l, 1) \in Lists(S) /\ Members(RemoveAt(l, 1)) = Members(l) \ {l[1]}
      /\ Len(RemoveAt(l, 1)) = Len(l) - 1
      /\ \A j \in 1..Len(l) - 1 : RemoveAt(l, 1)[j] = IF j < 1 THEN l[j] ELSE l[j + 1]
  BY <1>1, RemoveAtList
<1>4. RemoveAt(l, 1) \in Seq(S) /\ \A j \in 1..Len(l) - 1 : RemoveAt(l, 1)[j] = l[j + 1]
  BY <1>1, <1>3 DEF Lists
<1>5. Tail(l) = RemoveAt(l, 1)
  BY <1>2, <1>3, <1>4, SeqEqual
<1> QED  BY <1>1, <1>3, <1>5

\* One turn of a list.
LEMMA TurnList ==
  ASSUME NEW S, NEW l \in Lists(S), l # <<>>
  PROVE  LET r == Append(Tail(l), Head(l))
         IN  r \in Lists(S) /\ Members(r) = Members(l) /\ Last(r) = Head(l) /\ r # <<>>
<1> DEFINE a == Tail(l)
           x == Head(l)
           r == Append(a, x)
<1>1. a \in Lists(S) /\ Members(a) = Members(l) \ {x} /\ x \in Members(l) /\ x \in S
  BY TailList, ListBasics
<1> HIDE DEF a, x
<1>2. r \in Lists(S) /\ Members(r) = Members(l)
  BY <1>1, AppendList
<1>3. a \in Seq(S)
  BY <1>1, ListBasics
<1>4. Last(r) = x /\ r # <<>>
  BY <1>1, <1>3, AppendProperties DEF Last
<1> QED  BY <1>2, <1>4 DEF a, x

\* listGET_OWNER_OF_NEXT_ENTRY goes round a list, and stops at an owner if there is one.
LEMMA NextEntryList ==
  ASSUME NEW S, NEW l \in Lists(S), NEW x \in Members(l), x # End
  PROVE  /\ NextEntry(l) \in Lists(S) /\ Members(NextEntry(l)) = Members(l)
         /\ Last(NextEntry(l)) \in Members(l) \ {End}
<1>1. l # <<>>
  BY DEF Members
<1> DEFINE r == Append(Tail(l), Head(l))
           s == Append(Tail(r), Head(r))
<1>2. r \in Lists(S) /\ Members(r) = Members(l) /\ Last(r) = Head(l) /\ r # <<>>
  BY <1>1, TurnList
<1>3. Head(l) \in Members(l)
  BY <1>1, TailList
<1>4. CASE Head(l) # End
  <2>1. NextEntry(l) = r
    BY <1>2, <1>4 DEF NextEntry
  <2> HIDE DEF r
  <2> QED  BY <1>2, <1>3, <1>4, <2>1
<1>5. CASE Head(l) = End
  <2>1. Tail(l) \in Lists(S) /\ Members(Tail(l)) = Members(l) \ {End}
    BY <1>1, <1>5, TailList
  <2>2. Tail(l) # <<>>
    <3>1. x \in Members(Tail(l)) /\ Members(<<>>) = {}
      BY <2>1, ListBasics
    <3> QED  BY <3>1
  <2>3. Tail(l) \in Seq(S) /\ Head(Tail(l)) \in Members(l) \ {End}
    BY <2>1, <2>2, ListBasics
  <2>4. Head(r) = Head(Tail(l))
    BY <2>2, <2>3, HeadTailAppend
  <2>5. NextEntry(l) = s
    BY <1>2, <1>5 DEF NextEntry
  <2> HIDE DEF r
  <2>6. s \in Lists(S) /\ Members(s) = Members(r) /\ Last(s) = Head(r)
    BY <1>2, TurnList
  <2> QED  BY <1>2, <2>3, <2>4, <2>5, <2>6
<1> QED  BY <1>4, <1>5

\* The longest prefix whose places are in B.
LEMMA Prefix ==
  ASSUME NEW m \in Nat, NEW B
  PROVE  \E n \in 0..m : (\A i \in 1..n : i \in B) /\ (n < m => n + 1 \notin B)
<1> DEFINE T == {n \in 0..m : n = m \/ n + 1 \notin B}
<1>1. T \in SUBSET Nat /\ m \in T
  OBVIOUS
<1>2. PICK n \in T : \A k \in T : n <= k
  <2> HIDE DEF T
  <2> QED  BY <1>1, Least
<1>3. ASSUME NEW i \in 1..n PROVE i \in B
  <2>1. i - 1 \in 0..m /\ ~(n <= i - 1) /\ i - 1 + 1 = i
    OBVIOUS
  <2>2. i - 1 \notin T
    BY <1>2, <2>1
  <2> QED  BY <2>1, <2>2
<1> QED  BY <1>2, <1>3

\* The members of the head of a list.
LEMMA PrefixList ==
  ASSUME NEW S, NEW l \in Lists(S), NEW n \in 0..Len(l)
  PROVE  /\ SubSeq(l, 1, n) \in Seq(S) /\ Len(SubSeq(l, 1, n)) = n
         /\ \A i \in 1..n : SubSeq(l, 1, n)[i] = l[i] /\ l[i] \in Members(l)
<1>1. l \in Seq(S) /\ Len(l) \in Nat /\ \A j \in 1..Len(l) : l[j] \in S
  BY ListBasics, ElementOfSeq
<1>2. /\ SubSeq(l, 1, n) \in Seq(S) /\ Len(SubSeq(l, 1, n)) = n
      /\ \A i \in 1..n : SubSeq(l, 1, n)[i] = l[i]
  BY <1>1, SubSeqProperties
<1> QED  BY <1>1, <1>2 DEF Members

\* The list of a finite set, and the end marker.
LEMMA SetToList ==
  ASSUME NEW S, NEW T \in SUBSET S, IsFiniteSet(T), NEW x \in S, x \notin T
  PROVE  /\ SetToSeq(T) \o <<x>> \in Lists(S)
         /\ Members(SetToSeq(T) \o <<x>>) = T \cup {x}
<1> DEFINE n == Cardinality(T)
           l == SetToSeq(T)
<1>1. n \in Nat /\ ExistsBijection(1..n, T)
  BY FS_CardinalityType
<1>2. \E f \in [1..n -> T] : IsInjective(f)
  BY <1>1 DEF ExistsBijection, Bijection, Injection
<1>3. l \in [1..n -> T] /\ IsInjective(l)
  BY <1>2 DEF SetToSeq
<1> HIDE DEF n, l
<1>4. l \in Injection(1..n, T)
  BY <1>3 DEF Injection
<1>5. Cardinality(1..n) = n /\ IsFiniteSet(1..n)
  BY <1>1, FS_Interval
<1>6. l \in Surjection(1..n, T)
  BY <1>4, <1>5, FS_Injection DEF n
<1>7. l \in Seq(S) /\ Len(l) = n /\ DOMAIN l = 1..n
  BY <1>1, <1>3
<1>8. l \in Lists(S)
  BY <1>3, <1>7 DEF Lists, IsInjective
<1>9. Members(l) = T
  BY <1>3, <1>6, <1>7 DEF Members, Surjection
<1>10. Append(l, x) = l \o <<x>>
  BY <1>7, AppendIsConcat
<1>11. Append(l, x) \in Lists(S) /\ Members(Append(l, x)) = Members(l) \cup {x}
  BY <1>8, <1>9, AppendList
<1> QED  BY <1>9, <1>10, <1>11 DEF l

-----------------------------------------------------------------------------
(***************************************************************************)
(* The kernel's record, and the lists that a task is in.                   *)
(***************************************************************************)
KernRec ==
  [tick : 0..MaxDelay, overflows : 0..OverflowMod - 1, pendedTicks : Int,
   nextUnblock : 0..MaxDelay, suspended : 0..1, yieldPending : BOOLEAN,
   current : Task, top : Level,
   ready : [Level -> Lists(Task \cup {End})],
   delayed : Lists(Task), overflowDelayed : Lists(Task), suspendedTasks : SUBSET Task,
   pendingReady : Lists(Task), waitingTermination : Lists(Task),
   senders : [Queue -> Lists(Task)], receivers : [Queue -> Lists(Task)],
   prio : [Task -> Level], basePrio : [Task -> Level], wake : [Task -> 0..MaxDelay]]

\* The tasks that are ready, asleep, and waiting for the idle task to free them.
Rd(k) == {t \in Task : t \in Members(k.ready[k.prio[t]])}
As(k) == Members(k.delayed) \cup Members(k.overflowDelayed) \cup k.suspendedTasks
Wt(k) == Members(k.waitingTermination)

\* The tasks whose event item is in a list.
Pd(k) == Members(k.pendingReady)
InEvent(k) ==
  {t \in Task : t \in Pd(k) \/ \E q \in Queue : t \in Members(k.senders[q])
                                                \/ t \in Members(k.receivers[q])}

\* A ready list has the tasks of its priority, t left aside, and no task is ready above top.
ReadyBut(k, t) ==
  /\ \A p \in Level : /\ End \in Members(k.ready[p])
                      /\ k.ready[p] # <<End>> => p <= k.top
  /\ \A p \in Level, u \in Task \ {t} : u \in Members(k.ready[p]) => k.prio[u] = p

ReadyOK(k) ==
  /\ \A p \in Level : /\ End \in Members(k.ready[p])
                      /\ k.ready[p] # <<End>> => p <= k.top
  /\ \A p \in Level, u \in Task : u \in Members(k.ready[p]) => k.prio[u] = p

\* No task is in two lists.
OneList(k) ==
  /\ Rd(k) \cap As(k) = {} /\ Rd(k) \cap Wt(k) = {} /\ As(k) \cap Wt(k) = {}
  /\ Members(k.delayed) \cap Members(k.overflowDelayed) = {}
  /\ Members(k.delayed) \cap k.suspendedTasks = {}
  /\ Members(k.overflowDelayed) \cap k.suspendedTasks = {}

\* Nor is its event item.
OneEvent(k) ==
  /\ \A p, q \in Queue : /\ Members(k.senders[p]) \cap Members(k.receivers[q]) = {}
                         /\ p # q => /\ Members(k.senders[p]) \cap Members(k.senders[q]) = {}
                                     /\ Members(k.receivers[p]) \cap Members(k.receivers[q]) = {}
  /\ \A q \in Queue : /\ Members(k.senders[q]) \cap Pd(k) = {}
                      /\ Members(k.receivers[q]) \cap Pd(k) = {}

KOk(k) ==
  k \in KernRec /\ ReadyOK(k) /\ OneList(k) /\ OneEvent(k) /\ InEvent(k) \subseteq As(k)

SameLists(k, j) ==
  /\ j.ready = k.ready /\ j.top = k.top /\ j.prio = k.prio
  /\ j.delayed = k.delayed /\ j.overflowDelayed = k.overflowDelayed
  /\ j.suspendedTasks = k.suspendedTasks /\ j.waitingTermination = k.waitingTermination

SameEvents(k, j) ==
  j.senders = k.senders /\ j.receivers = k.receivers /\ j.pendingReady = k.pendingReady

SameRest(k, j) ==
  /\ j.current = k.current /\ j.suspended = k.suspended
  /\ j.waitingTermination = k.waitingTermination

\* The tasks that wait at a queue; and from k to j no task has begun to.
Waiters(k) ==
  {t \in Task : \E q \in Queue : t \in Members(k.senders[q]) \/ t \in Members(k.receivers[q])}
Fewer(k, j) ==
  \A q \in Queue : /\ Members(j.senders[q]) \subseteq Members(k.senders[q])
                   /\ Members(j.receivers[q]) \subseteq Members(k.receivers[q])

\* From k to j tasks have become ready, and nothing else has happened to the lists.
Calm(k, j) ==
  /\ KOk(j) /\ Rd(k) \subseteq Rd(j) /\ Rd(j) \cup As(j) = Rd(k) \cup As(k)
  /\ SameRest(k, j) /\ Fewer(k, j)
  /\ k.suspended = 0 => Pd(j) \subseteq Pd(k)

\* Numbers of the kernel.
LEMMA KernNumbers ==
  /\ TickMod \in Nat /\ TickMod > 2 /\ MaxDelay \in Nat /\ MaxDelay = TickMod - 1
  /\ OverflowMod \in Nat /\ OverflowMod > 1
  /\ \A x \in Int : x % TickMod \in 0..MaxDelay /\ x % OverflowMod \in 0..OverflowMod - 1
<1>1. /\ TickMod \in Nat /\ TickMod > 2 /\ MaxDelay \in Nat /\ MaxDelay = TickMod - 1
      /\ OverflowMod \in Nat /\ OverflowMod > 1
  BY SchedulerAssumption DEF MaxDelay
<1>2. \A x \in Int : x % TickMod \in 0..MaxDelay /\ x % OverflowMod \in 0..OverflowMod - 1
  BY <1>1
<1> QED  BY <1>1, <1>2

\* The counters of ticks and overflows can be counted on.
LEMMA KernCounts ==
  /\ \A x \in 0..MaxDelay : x + 1 \in Int
  /\ \A x \in 0..OverflowMod - 1 : x + 1 \in Int
BY KernNumbers

\* Its tasks and priorities.
LEMMA TaskFacts ==
  /\ \A p \in Level : p \in Nat
  /\ Priority \in [Task -> Level] /\ IdleTask \in Task
  /\ End \notin Task /\ None \notin Task
BY SchedulerAssumption, MarkersAssumption DEF Level

\* The fields of a kernel.
LEMMA KernFields ==
  ASSUME NEW k \in KernRec
  PROVE  /\ k.tick \in 0..MaxDelay /\ k.overflows \in 0..OverflowMod - 1 /\ k.pendedTicks \in Int
         /\ k.nextUnblock \in 0..MaxDelay /\ k.suspended \in 0..1 /\ k.yieldPending \in BOOLEAN
         /\ k.current \in Task /\ k.top \in Level
         /\ k.ready \in [Level -> Lists(Task \cup {End})]
         /\ k.delayed \in Lists(Task) /\ k.overflowDelayed \in Lists(Task)
         /\ k.suspendedTasks \subseteq Task
         /\ k.pendingReady \in Lists(Task) /\ k.waitingTermination \in Lists(Task)
         /\ k.senders \in [Queue -> Lists(Task)] /\ k.receivers \in [Queue -> Lists(Task)]
         /\ k.prio \in [Task -> Level] /\ k.basePrio \in [Task -> Level]
         /\ k.wake \in [Task -> 0..MaxDelay]
BY DEF KernRec

\* All the lists' members are tasks.
LEMMA KernMembers ==
  ASSUME NEW k \in KernRec
  PROVE  /\ Rd(k) \subseteq Task /\ As(k) \subseteq Task /\ Wt(k) \subseteq Task
         /\ Pd(k) \subseteq Task /\ InEvent(k) \subseteq Task
         /\ Members(k.delayed) \subseteq Task /\ Members(k.overflowDelayed) \subseteq Task
         /\ \A q \in Queue : /\ Members(k.senders[q]) \subseteq Task
                             /\ Members(k.receivers[q]) \subseteq Task
<1>1. \A l \in Lists(Task) : Members(l) \subseteq Task
  BY ListBasics
<1> QED  BY <1>1, KernFields DEF Rd, As, Wt, Pd, InEvent

\* Ever fewer tasks wait.
LEMMA FewerFacts ==
  /\ \A k, j : SameEvents(k, j) => Fewer(k, j)
  /\ \A k, j, i : Fewer(k, j) /\ Fewer(j, i) => Fewer(k, i)
  /\ \A k, j : Fewer(k, j) => Waiters(j) \subseteq Waiters(k)
  /\ \A k : Waiters(k) \subseteq InEvent(k)
<1>1. \A k, j : SameEvents(k, j) => Fewer(k, j)
  BY DEF SameEvents, Fewer
<1>2. \A k, j, i : Fewer(k, j) /\ Fewer(j, i) => Fewer(k, i)
  BY DEF Fewer
<1>3. \A k, j : Fewer(k, j) => Waiters(j) \subseteq Waiters(k)
  BY DEF Fewer, Waiters
<1>4. \A k : Waiters(k) \subseteq InEvent(k)
  BY DEF Waiters, InEvent
<1> QED  BY <1>1, <1>2, <1>3, <1>4

\* What does not look at the lists keeps them.
LEMMA SameView ==
  ASSUME NEW k, KOk(k), NEW j \in KernRec, SameLists(k, j), SameEvents(k, j)
  PROVE  /\ KOk(j) /\ Rd(j) = Rd(k) /\ As(j) = As(k) /\ Wt(j) = Wt(k) /\ Pd(j) = Pd(k)
         /\ InEvent(j) = InEvent(k)
         /\ SameRest(k, j) => Calm(k, j)
<1>1. /\ Rd(j) = Rd(k) /\ As(j) = As(k) /\ Wt(j) = Wt(k) /\ Pd(j) = Pd(k)
      /\ InEvent(j) = InEvent(k)
  BY DEF SameLists, SameEvents, Rd, As, Wt, Pd, InEvent
<1>2. ReadyOK(j) /\ OneList(j) /\ OneEvent(j)
  BY <1>1 DEF KOk, ReadyOK, OneList, OneEvent, SameLists, SameEvents
<1>3. Fewer(k, j)
  BY FewerFacts
<1> QED  BY <1>1, <1>2, <1>3 DEF KOk, Calm

\* Calm steps add up.
LEMMA CalmTrans ==
  ASSUME NEW k, NEW j, NEW i, Calm(k, j), Calm(j, i)
  PROVE  Calm(k, i)
<1>1. Fewer(k, i)
  BY FewerFacts DEF Calm
<1> QED  BY <1>1 DEF Calm, SameRest

\* And so does none.
LEMMA CalmSelf == ASSUME NEW k, KOk(k) PROVE Calm(k, k)
<1>1. Fewer(k, k)
  BY DEF Fewer
<1> QED  BY <1>1 DEF Calm, SameRest

-----------------------------------------------------------------------------
(***************************************************************************)
(* The moves of a task between lists.                                      *)
(***************************************************************************)
\* uxListRemove of the event item of a task.
LEMMA RemoveEventOK ==
  ASSUME NEW k \in KernRec, OneEvent(k), NEW t \in Task
  PROVE  LET j == RemoveEventItem(k, t)
         IN  /\ j \in KernRec /\ OneEvent(j) /\ InEvent(j) = InEvent(k) \ {t}
             /\ Pd(j) = Pd(k) \ {t} /\ t \notin InEvent(j)
             /\ SameLists(k, j) /\ SameRest(k, j) /\ Fewer(k, j)
             /\ j.wake = k.wake /\ j.basePrio = k.basePrio
<1> DEFINE j == RemoveEventItem(k, t)
<1>1. /\ k.senders \in [Queue -> Lists(Task)] /\ k.receivers \in [Queue -> Lists(Task)]
      /\ k.pendingReady \in Lists(Task)
  BY KernFields
<1> DEFINE sn == [q \in Queue |-> RemoveFirst(k.senders[q], t)]
           rc == [q \in Queue |-> RemoveFirst(k.receivers[q], t)]
           pd == RemoveFirst(k.pendingReady, t)
<1>2. \A l \in Lists(Task) : RemoveFirst(l, t) \in Lists(Task)
                             /\ Members(RemoveFirst(l, t)) = Members(l) \ {t}
  BY RemoveFirstList
<1>3. sn \in [Queue -> Lists(Task)] /\ rc \in [Queue -> Lists(Task)] /\ pd \in Lists(Task)
  BY <1>1, <1>2
<1>4. /\ \A q \in Queue : /\ Members(sn[q]) = Members(k.senders[q]) \ {t}
                          /\ Members(rc[q]) = Members(k.receivers[q]) \ {t}
      /\ Members(pd) = Pd(k) \ {t}
  BY <1>1, <1>2 DEF Pd
<1>5. j = [k EXCEPT !.senders = sn, !.receivers = rc, !.pendingReady = pd]
  BY DEF RemoveEventItem
<1> HIDE DEF j, sn, rc, pd
<1>6. /\ j \in KernRec /\ j.senders = sn /\ j.receivers = rc /\ j.pendingReady = pd
      /\ SameLists(k, j) /\ SameRest(k, j) /\ j.wake = k.wake /\ j.basePrio = k.basePrio
  BY <1>3, <1>5 DEF KernRec, SameLists, SameRest
<1>7. Pd(j) = Pd(k) \ {t}
  BY <1>4, <1>6 DEF Pd
<1>8. InEvent(j) = InEvent(k) \ {t}
  BY <1>4, <1>6, <1>7 DEF InEvent
<1>9. OneEvent(j)
  BY <1>4, <1>6, <1>7 DEF OneEvent
<1>10. Fewer(k, j)
  BY <1>4, <1>6 DEF Fewer
<1> QED  BY <1>6, <1>7, <1>8, <1>9, <1>10 DEF j

\* uxListRemove of its generic item.
LEMMA RemoveGenericOK ==
  ASSUME NEW k \in KernRec, NEW t \in Task, ReadyBut(k, t), OneList(k), t \notin Wt(k)
  PROVE  LET j == RemoveGenericItem(k, t)
         IN  /\ j \in KernRec /\ ReadyOK(j) /\ OneList(j)
             /\ Rd(j) = Rd(k) \ {t} /\ As(j) = As(k) \ {t} /\ Wt(j) = Wt(k)
             /\ \A p \in Level : t \notin Members(j.ready[p])
             /\ SameEvents(k, j) /\ SameRest(k, j) /\ j.prio = k.prio /\ j.basePrio = k.basePrio
             /\ j.tick = k.tick
<1> DEFINE j == RemoveGenericItem(k, t)
           rd == [p \in Level |-> RemoveFirst(k.ready[p], t)]
           dl == RemoveFirst(k.delayed, t)
           ov == RemoveFirst(k.overflowDelayed, t)
<1>1. /\ k.ready \in [Level -> Lists(Task \cup {End})]
      /\ k.delayed \in Lists(Task) /\ k.overflowDelayed \in Lists(Task)
      /\ k.suspendedTasks \subseteq Task /\ k.wake \in [Task -> 0..MaxDelay]
      /\ k.prio \in [Task -> Level] /\ k.waitingTermination \in Lists(Task)
  BY KernFields
<1>2. \A S, l : l \in Lists(S) => /\ RemoveFirst(l, t) \in Lists(S)
                                  /\ Members(RemoveFirst(l, t)) = Members(l) \ {t}
  BY RemoveFirstList
<1>3. rd \in [Level -> Lists(Task \cup {End})] /\ dl \in Lists(Task) /\ ov \in Lists(Task)
  BY <1>1, <1>2
<1>4. /\ \A p \in Level : Members(rd[p]) = Members(k.ready[p]) \ {t}
      /\ Members(dl) = Members(k.delayed) \ {t}
      /\ Members(ov) = Members(k.overflowDelayed) \ {t}
  BY <1>1, <1>2
<1>5. j = [k EXCEPT !.ready = rd, !.delayed = dl, !.overflowDelayed = ov,
                    !.suspendedTasks = @ \ {t}, !.wake[t] = 0]
  BY DEF RemoveGenericItem
<1> HIDE DEF j, rd, dl, ov
<1>6. 0 \in 0..MaxDelay
  BY KernNumbers
<1>7. /\ j \in KernRec /\ j.ready = rd /\ j.delayed = dl /\ j.overflowDelayed = ov
      /\ j.suspendedTasks = k.suspendedTasks \ {t}
      /\ j.top = k.top /\ j.prio = k.prio /\ j.basePrio = k.basePrio /\ j.tick = k.tick
      /\ SameEvents(k, j) /\ SameRest(k, j)
  BY <1>1, <1>3, <1>5, <1>6 DEF KernRec, SameEvents, SameRest
<1>8. Wt(j) = Wt(k)
  BY <1>7 DEF Wt, SameRest
<1>9. Rd(j) = Rd(k) \ {t}
  BY <1>1, <1>4, <1>7 DEF Rd
<1>10. As(j) = As(k) \ {t}
  BY <1>4, <1>7 DEF As
<1>11. OneList(j)
  BY <1>4, <1>7, <1>8, <1>9, <1>10 DEF OneList
<1>12. ReadyOK(j)
  <2>1. ASSUME NEW p \in Level PROVE End \in Members(j.ready[p])
    BY <1>4, <1>7, TaskFacts DEF ReadyBut
  <2>2. ASSUME NEW p \in Level, j.ready[p] # <<End>> PROVE p <= j.top
    <3>1. k.ready[p] # <<End>>
      <4> SUFFICES ASSUME k.ready[p] = <<End>> PROVE FALSE
        OBVIOUS
      <4>1. Members(k.ready[p]) = {End}
        BY DEF Members
      <4>2. Members(j.ready[p]) = {End}
        BY <1>4, <1>7, <4>1, TaskFacts
      <4>3. j.ready[p] = <<End>>
        <5> DEFINE S == Task \cup {End}
        <5>1. j.ready[p] \in Lists(S) /\ End \in S
          BY <1>3, <1>7
        <5> HIDE DEF S
        <5> QED  BY <4>2, <5>1, OneMember
      <4> QED  BY <2>2, <4>3
    <3> QED  BY <1>7, <3>1 DEF ReadyBut
  <2>3. ASSUME NEW p \in Level, NEW u \in Task, u \in Members(j.ready[p]) PROVE j.prio[u] = p
    BY <1>4, <1>7, <2>3 DEF ReadyBut
  <2> QED  BY <2>1, <2>2, <2>3 DEF ReadyOK
<1>13. \A p \in Level : t \notin Members(j.ready[p])
  BY <1>4, <1>7
<1> QED  BY <1>7, <1>8, <1>9, <1>10, <1>11, <1>12, <1>13 DEF j

\* prvAddTaskToReadyList of a task that is in no list.
LEMMA AddReadyOK ==
  ASSUME NEW k \in KernRec, NEW t \in Task, ReadyOK(k), OneList(k),
         t \notin Rd(k) \cup As(k) \cup Wt(k)
  PROVE  LET j == prvAddTaskToReadyList(k, t)
         IN  /\ j \in KernRec /\ ReadyOK(j) /\ OneList(j)
             /\ Rd(j) = Rd(k) \cup {t} /\ As(j) = As(k) /\ Wt(j) = Wt(k)
             /\ SameEvents(k, j) /\ SameRest(k, j) /\ j.prio = k.prio /\ j.basePrio = k.basePrio
<1> DEFINE j == prvAddTaskToReadyList(k, t)
           p == k.prio[t]
           S == Task \cup {End}
           l == vListInsertEnd(k.ready[p], t)
           top == IF p > k.top THEN p ELSE k.top
           rd == [k.ready EXCEPT ![p] = l]
<1>1. /\ k.ready \in [Level -> Lists(S)] /\ p \in Level /\ t \in S /\ k.top \in Level
      /\ k.prio \in [Task -> Level]
  BY KernFields
<1>2. t \notin Members(k.ready[p]) /\ k.ready[p] # <<>>
  BY <1>1 DEF Rd, ReadyOK, Members
<1>3. l \in Lists(S) /\ Members(l) = Members(k.ready[p]) \cup {t}
  <2> HIDE DEF S
  <2> QED  BY <1>1, <1>2, InsertEndList
<1>4. j = [k EXCEPT !.top = top, !.ready = rd]
  BY <1>1 DEF prvAddTaskToReadyList, KernRec
<1>5. top \in Level /\ p <= top /\ k.top <= top
  <2>1. p \in Nat /\ k.top \in Nat
    BY <1>1, TaskFacts
  <2> HIDE DEF p
  <2> QED  BY <1>1, <2>1
<1> HIDE DEF l, top, p, S
<1>6. rd \in [Level -> Lists(S)]
      /\ \A r \in Level : Members(rd[r]) = IF r = p THEN Members(k.ready[r]) \cup {t}
                                           ELSE Members(k.ready[r])
  BY <1>1, <1>3
<1>7. \A r \in Level : r # p => rd[r] = k.ready[r]
  BY <1>1
<1> HIDE DEF j, rd
<1>8. /\ j \in KernRec /\ j.ready = rd /\ j.top = top /\ j.prio = k.prio
      /\ j.basePrio = k.basePrio /\ SameEvents(k, j) /\ SameRest(k, j)
      /\ j.delayed = k.delayed /\ j.overflowDelayed = k.overflowDelayed
      /\ j.suspendedTasks = k.suspendedTasks
  BY <1>4, <1>5, <1>6 DEF KernRec, SameEvents, SameRest, S
<1>9. Wt(j) = Wt(k) /\ As(j) = As(k)
  BY <1>8 DEF Wt, As, SameRest
<1>10. Rd(j) = Rd(k) \cup {t}
  BY <1>1, <1>6, <1>8 DEF Rd, p
<1>11. OneList(j)
  BY <1>8, <1>9, <1>10 DEF OneList
<1>12. ReadyOK(j)
  <2>1. ASSUME NEW r \in Level PROVE End \in Members(j.ready[r])
    BY <1>6, <1>8 DEF ReadyOK
  <2>2. ASSUME NEW r \in Level, j.ready[r] # <<End>> PROVE r <= j.top
    <3>1. CASE r = p
      BY <1>5, <1>8, <3>1
    <3>2. CASE r # p
      <4>1. r <= k.top
        BY <1>7, <1>8, <2>2, <3>2 DEF ReadyOK
      <4>2. r \in Nat /\ k.top \in Nat /\ top \in Nat
        BY <1>1, <1>5, TaskFacts
      <4> QED  BY <1>5, <1>8, <4>1, <4>2
    <3> QED  BY <3>1, <3>2
  <2>3. ASSUME NEW r \in Level, NEW u \in Task, u \in Members(j.ready[r]) PROVE j.prio[u] = r
    BY <1>6, <1>8, <2>3 DEF ReadyOK, p
  <2> QED  BY <2>1, <2>2, <2>3 DEF ReadyOK
<1> QED  BY <1>8, <1>9, <1>10, <1>11, <1>12 DEF j

\* Every bounded set of natural numbers has a greatest one.
LEMMA Greatest ==
  ASSUME NEW n \in Nat, NEW T \in SUBSET (0..n), T # {}
  PROVE  \E x \in T : \A y \in T : x >= y
<1> DEFINE U == {i \in 0..n : n - i \in T}
<1>1. U \in SUBSET Nat /\ U # {}
  <2>1. U \in SUBSET Nat
    OBVIOUS
  <2>2. PICK y \in T : TRUE
    OBVIOUS
  <2>3. n - y \in 0..n /\ n - (n - y) = y
    OBVIOUS
  <2>4. n - y \in U
    BY <2>3
  <2> HIDE DEF U
  <2> QED  BY <2>1, <2>4
<1>2. PICK u \in U : \A v \in U : u <= v
  <2> HIDE DEF U
  <2> QED  BY <1>1, Least
<1>3. ASSUME NEW y \in T PROVE n - u >= y
  <2>1. n - y \in 0..n /\ n - (n - y) = y
    OBVIOUS
  <2>2. u <= n - y
    BY <1>2, <2>1
  <2> QED  BY <2>2
<1> QED  BY <1>2, <1>3

\* The greatest number of a set that is not empty.
LEMMA MaxIn ==
  ASSUME NEW n \in Nat, NEW s \in SUBSET (1..n), s # {}
  PROVE  Max(s) \in s
<1>1. s \in SUBSET (0..n)
  OBVIOUS
<1>2. \E x \in s : \A y \in s : x >= y
  BY <1>1, Greatest
<1> QED  BY <1>2 DEF Max

\* The greatest number of an interval.
LEMMA MaxIs ==
  ASSUME NEW n \in Nat, NEW s \in SUBSET (1..n + 1), n + 1 \in s
  PROVE  Max(s) = n + 1
<1>1. \A y \in s : n + 1 >= y
  OBVIOUS
<1>2. \A x \in s : (\A y \in s : x >= y) => x = n + 1
  OBVIOUS
<1> QED  BY <1>1, <1>2 DEF Max

\* g, or iter where its values are in K, takes the steps G in the order of the elements of
\* a set.
Takes(n, K, k, G, g) ==
  /\ g \in [SUBSET (1..n) -> K]
  /\ \A s \in SUBSET (1..n) : g[s] = IF s = {} THEN k ELSE G[Max(s)][g[s \ {Max(s)}]]

Follows(n, K, k, G, iter) ==
  /\ iter[{}] = k
  /\ \A s \in SUBSET (1..n) :
       s # {} /\ iter[s \ {Max(s)}] \in K => iter[s] = G[Max(s)][iter[s \ {Max(s)}]]

\* The steps one by one, from k to last.
OneByOne(n, K, k, G, last) ==
  \E f \in [0..n -> K] : /\ f[0] = k /\ f[n] = last
                         /\ \A i \in 1..n : f[i] = G[i][f[i - 1]]

\* There is a function that takes the steps G in the order of the elements of a set.
LEMMA StepsOfSets ==
  ASSUME NEW n \in Nat, NEW K, NEW k \in K, NEW G \in [1..n -> [K -> K]]
  PROVE  \E g : Takes(n, K, k, G, g)
<1> DEFINE Able(m) == \E g \in [SUBSET (1..m) -> K] :
                        \A s \in SUBSET (1..m) :
                          g[s] = IF s = {} THEN k ELSE G[Max(s)][g[s \ {Max(s)}]]
           T == {m \in 0..n : Able(m)}
<1>1. 0 \in T
  <2> DEFINE g == [s \in SUBSET (1..0) |-> k]
  <2>1. g \in [SUBSET (1..0) -> K] /\ \A s \in SUBSET (1..0) : s = {} /\ g[s] = k
    OBVIOUS
  <2> HIDE DEF g
  <2>2. Able(0)
    BY <2>1
  <2> HIDE DEF Able
  <2> QED  BY <2>2
<1>2. ASSUME NEW m \in 0..n - 1, m \in T PROVE m + 1 \in T
  <2>1. PICK g \in [SUBSET (1..m) -> K] :
          \A s \in SUBSET (1..m) : g[s] = IF s = {} THEN k ELSE G[Max(s)][g[s \ {Max(s)}]]
    BY <1>2
  <2> DEFINE h == [s \in SUBSET (1..m + 1) |->
                     IF m + 1 \in s THEN G[m + 1][g[s \ {m + 1}]] ELSE g[s]]
  <2>2. \A s \in SUBSET (1..m + 1) : /\ s \ {m + 1} \in SUBSET (1..m)
                                     /\ m + 1 \notin s => s \in SUBSET (1..m)
    BY <1>2
  <2>3. m + 1 \in 1..n /\ m \in Nat
    BY <1>2
  <2>4. h \in [SUBSET (1..m + 1) -> K]
    BY <2>2, <2>3
  <2>5. ASSUME NEW s \in SUBSET (1..m + 1)
        PROVE  h[s] = IF s = {} THEN k ELSE G[Max(s)][h[s \ {Max(s)}]]
    <3>1. CASE m + 1 \in s
      <4>1. Max(s) = m + 1
        BY <2>3, <3>1, MaxIs
      <4>2. s \ {m + 1} \in SUBSET (1..m + 1) /\ m + 1 \notin s \ {m + 1}
        OBVIOUS
      <4>3. h[s \ {m + 1}] = g[s \ {m + 1}]
        BY <4>2
      <4>4. h[s] = G[m + 1][g[s \ {m + 1}]]
        BY <3>1
      <4> QED  BY <3>1, <4>1, <4>3, <4>4
    <3>2. CASE m + 1 \notin s
      <4>1. h[s] = g[s] /\ s \in SUBSET (1..m)
        BY <2>2, <3>2
      <4>2. s \ {Max(s)} \in SUBSET (1..m + 1) /\ m + 1 \notin s \ {Max(s)}
        BY <3>2
      <4>3. h[s \ {Max(s)}] = g[s \ {Max(s)}]
        BY <4>2
      <4> QED  BY <2>1, <4>1, <4>3
    <3> QED  BY <3>1, <3>2
  <2> HIDE DEF h
  <2>6. Able(m + 1)
    BY <2>4, <2>5
  <2>7. m + 1 \in 0..n
    BY <2>3
  <2> HIDE DEF Able
  <2> QED  BY <2>6, <2>7
<1> HIDE DEF Able
<1>3. n \in T
  <2>1. \A i \in 0..n - 1 : i \in T => i + 1 \in T
    BY <1>2
  <2> HIDE DEF T
  <2>2. \A i \in 0..n : i \in T
    BY <1>1, <2>1, UpTo
  <2> QED  BY <2>2
<1> QED  BY <1>3 DEF Able, Takes

\* The function that takes them for an interval takes them one after the other.
LEMMA StepsInOrder ==
  ASSUME NEW n \in Nat, NEW K, NEW k \in K, NEW G \in [1..n -> [K -> K]],
         NEW iter, Follows(n, K, k, G, iter)
  PROVE  OneByOne(n, K, k, G, iter[1..n])
<1>1. ASSUME NEW i \in 1..n, iter[1..i - 1] \in K PROVE iter[1..i] = G[i][iter[1..i - 1]]
  <2>1. 1..i \in SUBSET (1..n) /\ 1..i # {} /\ (1..i) \ {i} = 1..i - 1
    <3>1. i \in 1..i
      OBVIOUS
    <3>2. 1..i \in SUBSET (1..n)
      OBVIOUS
    <3>3. \A x : x \in (1..i) \ {i} <=> x \in 1..i - 1
      OBVIOUS
    <3> QED  BY <3>1, <3>2, <3>3
  <2>2. Max(1..i) = i
    <3> DEFINE m == i - 1
    <3>1. m \in Nat /\ m + 1 = i /\ 1..i \in SUBSET (1..m + 1) /\ i \in 1..i
      OBVIOUS
    <3> HIDE DEF m
    <3> QED  BY <3>1, MaxIs
  <2> DEFINE s == 1..i
  <2> HIDE DEF s
  <2>3. s # {} /\ iter[s \ {Max(s)}] \in K /\ s \in SUBSET (1..n)
    BY <1>1, <2>1, <2>2 DEF s
  <2>4. iter[s] = G[Max(s)][iter[s \ {Max(s)}]]
    BY <2>3 DEF Follows
  <2> QED  BY <2>1, <2>2, <2>4 DEF s
<1> DEFINE T == {i \in 0..n : iter[1..i] \in K}
<1>2. 0 \in T
  <2>1. 1..0 = {}
    OBVIOUS
  <2> QED  BY <2>1 DEF Follows
<1>3. ASSUME NEW i \in 0..n - 1, i \in T PROVE i + 1 \in T
  <2> DEFINE j == i + 1
  <2>1. j \in 1..n /\ j - 1 = i /\ j \in 0..n
    OBVIOUS
  <2> HIDE DEF j
  <2>2. iter[1..j] = G[j][iter[1..j - 1]]
    BY <1>1, <1>3, <2>1
  <2>3. iter[1..j] \in K
    BY <1>3, <2>1, <2>2
  <2> QED  BY <2>1, <2>3 DEF j
<1>4. \A i \in 0..n : i \in T
  <2>1. \A i \in 0..n - 1 : i \in T => i + 1 \in T
    BY <1>3
  <2> HIDE DEF T
  <2> QED  BY <1>2, <2>1, UpTo
<1> DEFINE f == [i \in 0..n |-> iter[1..i]]
<1>5. f \in [0..n -> K] /\ f[n] = iter[1..n] /\ f[0] = k
  <2>1. 1..0 = {}
    OBVIOUS
  <2> QED  BY <1>4, <2>1 DEF Follows
<1>6. ASSUME NEW i \in 1..n PROVE f[i] = G[i][f[i - 1]]
  <2>1. i - 1 \in 0..n /\ i \in 0..n
    OBVIOUS
  <2> QED  BY <1>1, <1>4, <2>1
<1> HIDE DEF f
<1> QED  BY <1>5, <1>6 DEF OneByOne

\* EachReady takes one step after the other.
LEMMA EachReadySteps ==
  ASSUME NEW n \in Nat, NEW K, NEW k \in K, NEW list, DOMAIN list = 1..n,
         \A j \in K, i \in 1..n : MakeReady(j, list[i]) \in K
  PROVE  \E f \in [0..n -> K] : /\ f[0] = k /\ f[n] = EachReady(k, list)
                                /\ \A i \in 1..n : f[i] = MakeReady(f[i - 1], list[i])
<1> DEFINE G == [i \in 1..n |-> [j \in K |-> MakeReady(j, list[i])]]
           Eq(g) == g = [s \in SUBSET (1..n) |->
                           IF s = {} THEN k
                           ELSE MakeReady(g[s \ {Max(s)}], list[Max(s)])]
           iter == CHOOSE g : Eq(g)
<1>1. G \in [1..n -> [K -> K]] /\ \A i \in 1..n, j \in K : G[i][j] = MakeReady(j, list[i])
  OBVIOUS
<1> HIDE DEF G
<1>2. \A s \in SUBSET (1..n) : s # {} => Max(s) \in 1..n /\ s \ {Max(s)} \in SUBSET (1..n)
  BY MaxIn
<1>3. \E g : Eq(g)
  <2>0. G \in [1..n -> [K -> K]]
    BY <1>1
  <2>1. PICK g : Takes(n, K, k, G, g)
    BY <2>0, StepsOfSets
  <2>2. ASSUME NEW s \in SUBSET (1..n), s # {}
        PROVE  g[s] = MakeReady(g[s \ {Max(s)}], list[Max(s)])
    <3>1. Max(s) \in 1..n /\ g[s \ {Max(s)}] \in K
      BY <1>2, <2>1, <2>2 DEF Takes
    <3> QED  BY <1>1, <2>1, <2>2, <3>1 DEF Takes
  <2>3. \A s \in SUBSET (1..n) :
          g[s] = IF s = {} THEN k ELSE MakeReady(g[s \ {Max(s)}], list[Max(s)])
    BY <2>1, <2>2 DEF Takes
  <2>4. g = [s \in SUBSET (1..n) |-> g[s]]
    BY <2>1 DEF Takes
  <2>5. Eq(g)
    BY <2>3, <2>4
  <2> QED  BY <2>5
<1>4. Eq(iter)
  BY <1>3
<1>5. EachReady(k, list) = iter[1..n]
  BY DEF EachReady, FoldLeft, MapThenFoldSet
<1> HIDE DEF iter
<1>6. iter[{}] = k
  BY <1>4
<1>7. ASSUME NEW s \in SUBSET (1..n), s # {}, iter[s \ {Max(s)}] \in K
      PROVE  iter[s] = G[Max(s)][iter[s \ {Max(s)}]]
  <2>1. iter[s] = MakeReady(iter[s \ {Max(s)}], list[Max(s)])
    BY <1>4, <1>7
  <2> QED  BY <1>1, <1>2, <1>7, <2>1
<1> HIDE DEF Eq
<1>8. OneByOne(n, K, k, G, iter[1..n])
  <2>1. G \in [1..n -> [K -> K]]
    BY <1>1
  <2>2. Follows(n, K, k, G, iter)
    BY <1>6, <1>7 DEF Follows
  <2> QED  BY <2>1, <2>2, StepsInOrder
<1>9. PICK f \in [0..n -> K] : /\ f[0] = k /\ f[n] = iter[1..n]
                             /\ \A i \in 1..n : f[i] = G[i][f[i - 1]]
  BY <1>8 DEF OneByOne
<1>10. ASSUME NEW i \in 1..n PROVE f[i] = MakeReady(f[i - 1], list[i])
  <2>1. i - 1 \in 0..n
    OBVIOUS
  <2>2. f[i - 1] \in K
    BY <2>1
  <2> QED  BY <1>1, <1>9, <2>2
<1> QED  BY <1>5, <1>9, <1>10

\* A task that goes from any list, or none but that of the deleted, to its ready list.
LEMMA MakeReadyOK ==
  ASSUME NEW k, KOk(k), NEW t \in Task, t \notin Wt(k)
  PROVE  LET j == MakeReady(k, t)
         IN  /\ KOk(j) /\ Rd(j) = Rd(k) \cup {t} /\ As(j) = As(k) \ {t} /\ Wt(j) = Wt(k)
             /\ Pd(j) = Pd(k) \ {t} /\ InEvent(j) = InEvent(k) \ {t}
             /\ SameRest(k, j) /\ j.prio = k.prio /\ Fewer(k, j)
             /\ t \in Rd(k) \cup As(k) => Calm(k, j)
<1> DEFINE a == RemoveEventItem(k, t)
           b == RemoveGenericItem(a, t)
           j == prvAddTaskToReadyList(b, t)
<1>0. k \in KernRec /\ ReadyOK(k) /\ OneList(k) /\ OneEvent(k) /\ InEvent(k) \subseteq As(k)
  BY DEF KOk
<1>1. /\ a \in KernRec /\ OneEvent(a) /\ InEvent(a) = InEvent(k) \ {t} /\ Pd(a) = Pd(k) \ {t}
      /\ SameLists(k, a) /\ SameRest(k, a) /\ Fewer(k, a)
  BY <1>0, RemoveEventOK
<1> HIDE DEF a
<1>2. /\ Rd(a) = Rd(k) /\ As(a) = As(k) /\ Wt(a) = Wt(k) /\ a.prio = k.prio
  BY <1>1 DEF SameLists, Rd, As, Wt
<1>3. ReadyBut(a, t) /\ OneList(a) /\ t \notin Wt(a)
  BY <1>0, <1>1, <1>2 DEF ReadyBut, ReadyOK, OneList, SameLists
<1>4. /\ b \in KernRec /\ ReadyOK(b) /\ OneList(b)
      /\ Rd(b) = Rd(a) \ {t} /\ As(b) = As(a) \ {t} /\ Wt(b) = Wt(a)
      /\ SameEvents(a, b) /\ SameRest(a, b) /\ b.prio = a.prio
  BY <1>1, <1>3, RemoveGenericOK
<1> HIDE DEF b
<1>5. t \notin Rd(b) \cup As(b) \cup Wt(b)
  BY <1>3, <1>4
<1>6. /\ j \in KernRec /\ ReadyOK(j) /\ OneList(j)
      /\ Rd(j) = Rd(b) \cup {t} /\ As(j) = As(b) /\ Wt(j) = Wt(b)
      /\ SameEvents(b, j) /\ SameRest(b, j) /\ j.prio = b.prio
  BY <1>4, <1>5, AddReadyOK
<1>7. j = MakeReady(k, t)
  BY DEF MakeReady, a, b
<1> HIDE DEF j
<1>8. SameEvents(a, j) /\ SameRest(k, j)
  BY <1>1, <1>4, <1>6 DEF SameEvents, SameRest
<1>9. InEvent(j) = InEvent(a) /\ Pd(j) = Pd(a)
  BY <1>8 DEF SameEvents, InEvent, Pd
<1>10. OneEvent(j)
  BY <1>1, <1>8, <1>9 DEF OneEvent, SameEvents
<1>11. /\ Rd(j) = Rd(k) \cup {t} /\ As(j) = As(k) \ {t} /\ Wt(j) = Wt(k)
       /\ InEvent(j) = InEvent(k) \ {t} /\ Pd(j) = Pd(k) \ {t} /\ j.prio = k.prio
  BY <1>1, <1>2, <1>4, <1>6, <1>9
<1>12. KOk(j)
  BY <1>0, <1>6, <1>10, <1>11 DEF KOk
<1>13. Fewer(k, j)
  BY <1>1, <1>8, FewerFacts
<1>14. t \in Rd(k) \cup As(k) => Calm(k, j)
  BY <1>8, <1>11, <1>12, <1>13 DEF Calm
<1> QED  BY <1>7, <1>8, <1>11, <1>12, <1>13, <1>14

-----------------------------------------------------------------------------
(***************************************************************************)
(* The choice of the next task.                                            *)
(***************************************************************************)
\* No task that is ready has a higher priority than the current one.
Best(k) == \A p \in Level : p > k.prio[k.current] => k.ready[p] = <<End>>

\* From k to j the current task may have changed, for the best one.
Switched(k, j) ==
  /\ KOk(j) /\ Rd(j) = Rd(k) /\ As(j) = As(k) /\ Pd(j) = Pd(k) /\ Fewer(k, j)
  /\ j.suspended = k.suspended /\ j.waitingTermination = k.waitingTermination
  /\ j.current = k.current \/ (j.current \in Rd(j) /\ Best(j) /\ j.suspended = 0)

\* A ready list that has one member, the end marker, has no other.
LEMMA OnlyEnd ==
  ASSUME NEW k \in KernRec, NEW p \in Level, NEW t \in Task, t \in Members(k.ready[p])
  PROVE  k.ready[p] # <<End>>
BY TaskFacts DEF Members

\* taskSELECT_HIGHEST_PRIORITY_TASK.
LEMMA SelectOK ==
  ASSUME NEW k, KOk(k), IdleTask \in Rd(k)
  PROVE  LET j == taskSELECT_HIGHEST_PRIORITY_TASK(k)
         IN  /\ KOk(j) /\ Rd(j) = Rd(k) /\ As(j) = As(k) /\ Pd(j) = Pd(k) /\ SameEvents(k, j)
             /\ j.suspended = k.suspended /\ j.waitingTermination = k.waitingTermination
             /\ j.current \in Rd(j) /\ Best(j)
<1> DEFINE P(p) == /\ p \in Level /\ p <= k.top /\ k.ready[p] # <<End>>
                   /\ \A r \in Level : r > p /\ r <= k.top => k.ready[r] = <<End>>
           j == taskSELECT_HIGHEST_PRIORITY_TASK(k)
           S == Task \cup {End}
<1>0. /\ k \in KernRec /\ k.ready \in [Level -> Lists(S)] /\ k.top \in Level
      /\ k.prio \in [Task -> Level]
  BY KernFields DEF KOk
<1>1. \E p : P(p)
  <2> DEFINE T == {p \in Level : p <= k.top /\ k.ready[p] # <<End>>}
             n == k.top
  <2>1. k.prio[IdleTask] \in Level /\ k.ready[k.prio[IdleTask]] # <<End>>
    <3>1. k.prio[IdleTask] \in Level /\ IdleTask \in Members(k.ready[k.prio[IdleTask]])
      BY <1>0, TaskFacts DEF Rd
    <3> QED  BY <1>0, <3>1, TaskFacts, OnlyEnd
  <2>2. k.prio[IdleTask] <= k.top
    BY <2>1 DEF KOk, ReadyOK
  <2>3. T # {}
    BY <2>1, <2>2
  <2>4. n \in Nat /\ T \in SUBSET (0..n)
    BY <1>0, TaskFacts
  <2>5. PICK x \in T : \A y \in T : x >= y
    <3> HIDE DEF T, n
    <3> QED  BY <2>3, <2>4, Greatest
  <2>6. \A r \in Level : r > x /\ r <= k.top => k.ready[r] = <<End>>
    <3> SUFFICES ASSUME NEW r \in Level, r > x, r <= k.top, k.ready[r] # <<End>> PROVE FALSE
      OBVIOUS
    <3>1. r \in T
      OBVIOUS
    <3>2. x >= r /\ x \in Nat /\ r \in Nat
      BY <2>4, <2>5, <3>1
    <3> QED  BY <3>2
  <2> QED  BY <2>5, <2>6
<1> DEFINE top == CHOOSE p : P(p)
<1>2. P(top)
  BY <1>1
<1>3. top = CHOOSE p \in Level : /\ p <= k.top /\ k.ready[p] # <<End>>
                                 /\ \A r \in Level : r > p /\ r <= k.top => k.ready[r] = <<End>>
  OBVIOUS
<1> DEFINE l == k.ready[top]
           turned == NextEntry(l)
           cur == Last(turned)
<1>4. j = [k EXCEPT !.top = top, !.ready[top] = turned, !.current = cur]
  BY <1>3 DEF taskSELECT_HIGHEST_PRIORITY_TASK
<1> HIDE DEF j, top
<1>5. /\ top \in Level /\ top <= k.top /\ l # <<End>>
      /\ \A r \in Level : r > top /\ r <= k.top => k.ready[r] = <<End>>
  BY <1>2
<1>6. l \in Lists(S) /\ End \in Members(l)
  BY <1>0, <1>5 DEF KOk, ReadyOK
<1>7. PICK x \in Members(l) : x # End
  <2> SUFFICES ASSUME \A x \in Members(l) : x = End PROVE FALSE
    OBVIOUS
  <2>1. Members(l) = {End} /\ End \in S
    BY <1>6
  <2> HIDE DEF S, l
  <2>2. l = <<End>>
    BY <1>6, <2>1, OneMember
  <2> QED  BY <1>5, <2>2
<1>8. /\ turned \in Lists(S) /\ Members(turned) = Members(l) /\ cur \in Members(l) \ {End}
  <2> HIDE DEF S, l
  <2> QED  BY <1>6, <1>7, NextEntryList
<1>9. cur \in Task
  <2>1. Members(l) \subseteq S
    BY <1>6, ListBasics
  <2> QED  BY <1>8, <2>1
<1> DEFINE rd == [k.ready EXCEPT ![top] = turned]
<1>10. /\ rd \in [Level -> Lists(S)] /\ \A p \in Level : Members(rd[p]) = Members(k.ready[p])
       /\ \A p \in Level : p # top => rd[p] = k.ready[p]
  <2> HIDE DEF turned
  <2> QED  BY <1>0, <1>5, <1>8
<1>11. j = [k EXCEPT !.top = top, !.ready = rd, !.current = cur]
  BY <1>0, <1>4 DEF KernRec
<1> HIDE DEF rd, turned, cur
<1>12. /\ j \in KernRec /\ j.ready = rd /\ j.top = top /\ j.current = cur /\ j.prio = k.prio
       /\ j.delayed = k.delayed /\ j.overflowDelayed = k.overflowDelayed
       /\ j.suspendedTasks = k.suspendedTasks /\ j.waitingTermination = k.waitingTermination
       /\ j.suspended = k.suspended /\ SameEvents(k, j)
  BY <1>0, <1>5, <1>9, <1>10, <1>11 DEF KernRec, SameEvents, S
<1>13. /\ Rd(j) = Rd(k) /\ As(j) = As(k) /\ Wt(j) = Wt(k) /\ Pd(j) = Pd(k)
       /\ InEvent(j) = InEvent(k)
  BY <1>0, <1>10, <1>12 DEF Rd, As, Wt, Pd, InEvent, SameEvents
<1>14. OneList(j) /\ OneEvent(j)
  BY <1>12, <1>13 DEF KOk, OneList, OneEvent, SameEvents
<1>15. \A p \in Level : p > top => j.ready[p] = <<End>>
  <2> SUFFICES ASSUME NEW p \in Level, p > top PROVE rd[p] = <<End>>
    BY <1>12
  <2>1. p \in Nat /\ top \in Nat /\ k.top \in Nat
    BY <1>0, <1>5, TaskFacts
  <2>2. rd[p] = k.ready[p]
    BY <1>10, <2>1
  <2>3. CASE p <= k.top
    BY <1>5, <2>2, <2>3
  <2>4. CASE ~(p <= k.top)
    BY <2>2, <2>4 DEF KOk, ReadyOK
  <2> QED  BY <2>3, <2>4
<1>16. ReadyOK(j)
  <2>1. ASSUME NEW p \in Level PROVE End \in Members(j.ready[p])
    BY <1>10, <1>12 DEF KOk, ReadyOK
  <2>2. ASSUME NEW p \in Level, j.ready[p] # <<End>> PROVE p <= j.top
    <3>1. ~(p > top)
      BY <1>15, <2>2
    <3>2. p \in Nat /\ top \in Nat
      BY <1>5, TaskFacts
    <3> QED  BY <1>12, <3>1, <3>2
  <2>3. ASSUME NEW p \in Level, NEW u \in Task, u \in Members(j.ready[p]) PROVE j.prio[u] = p
    BY <1>10, <1>12, <2>3 DEF KOk, ReadyOK
  <2> QED  BY <2>1, <2>2, <2>3 DEF ReadyOK
<1>17. KOk(j)
  BY <1>12, <1>13, <1>14, <1>16 DEF KOk
<1>18. j.current \in Members(j.ready[top])
  BY <1>5, <1>8, <1>10, <1>12
<1>19. j.prio[j.current] = top /\ j.current \in Rd(j)
  BY <1>5, <1>9, <1>12, <1>16, <1>18 DEF ReadyOK, Rd
<1>20. Best(j)
  BY <1>15, <1>19 DEF Best
<1> QED  BY <1>12, <1>13, <1>17, <1>19, <1>20 DEF j

\* vTaskSwitchContext.
LEMMA SwitchOK ==
  ASSUME NEW k, KOk(k), IdleTask \in Rd(k)
  PROVE  LET j == vTaskSwitchContext(k)
         IN  Switched(k, j) /\ (k.suspended = 0 => j.current \in Rd(j))
<1>0. k \in KernRec /\ k.suspended \in 0..1
  BY KernFields DEF KOk
<1>1. CASE k.suspended > 0
  <2> DEFINE j == [k EXCEPT !.yieldPending = TRUE]
  <2>1. j = vTaskSwitchContext(k)
    BY <1>1 DEF vTaskSwitchContext
  <2>2. /\ j \in KernRec /\ SameLists(k, j) /\ SameEvents(k, j) /\ SameRest(k, j)
    BY <1>0 DEF KernRec, SameLists, SameEvents, SameRest
  <2> HIDE DEF j
  <2>3. /\ KOk(j) /\ Rd(j) = Rd(k) /\ As(j) = As(k) /\ Pd(j) = Pd(k)
    BY <2>2, SameView
  <2>4. Switched(k, j)
    BY <2>2, <2>3, FewerFacts DEF Switched, SameRest
  <2>5. k.suspended # 0
    BY <1>0, <1>1
  <2> QED  BY <2>1, <2>4, <2>5
<1>2. CASE ~(k.suspended > 0)
  <2> DEFINE i == [k EXCEPT !.yieldPending = FALSE]
             j == taskSELECT_HIGHEST_PRIORITY_TASK(i)
  <2>1. j = vTaskSwitchContext(k)
    BY <1>2 DEF vTaskSwitchContext
  <2>2. /\ i \in KernRec /\ SameLists(k, i) /\ SameEvents(k, i) /\ SameRest(k, i)
    BY <1>0 DEF KernRec, SameLists, SameEvents, SameRest
  <2> HIDE DEF i
  <2>3. /\ KOk(i) /\ Rd(i) = Rd(k) /\ As(i) = As(k) /\ Pd(i) = Pd(k)
    BY <2>2, SameView
  <2>4. IdleTask \in Rd(i)
    BY <2>3
  <2>5. /\ KOk(j) /\ Rd(j) = Rd(i) /\ As(j) = As(i) /\ Pd(j) = Pd(i) /\ SameEvents(i, j)
        /\ j.suspended = i.suspended /\ j.waitingTermination = i.waitingTermination
        /\ j.current \in Rd(j) /\ Best(j)
    BY <2>3, <2>4, SelectOK
  <2> HIDE DEF j
  <2>6. j.suspended = 0
    BY <1>0, <1>2, <2>2, <2>5 DEF SameRest
  <2>7. Fewer(k, j)
    BY <2>2, <2>5, FewerFacts
  <2>8. Switched(k, j)
    BY <2>2, <2>3, <2>5, <2>6, <2>7 DEF Switched, SameRest
  <2> QED  BY <2>1, <2>5, <2>8
<1> QED  BY <1>1, <1>2

-----------------------------------------------------------------------------
(***************************************************************************)
(* Going to sleep.                                                         *)
(***************************************************************************)
\* The CHOOSE of Leading finds a place in the list.
LEMMA ByWakePlace ==
  ASSUME NEW k, NEW t, NEW l \in Lists(Task)
  PROVE  \E n \in 0..Len(l) : ByWake(k, l, t) = InsertAt(l, n + 1, t)
<1> DEFINE B == {i \in 1..Len(l) : k.wake[l[i]] <= k.wake[t]}
           m == Len(l)
           P(n) == /\ n \in 0..Len(l)
                   /\ \A i \in 1..n : k.wake[l[i]] <= k.wake[t]
                   /\ n < Len(l) => ~(k.wake[l[n + 1]] <= k.wake[t])
<1>1. m \in Nat
  BY ListBasics
<1>2. \E n : P(n)
  <2>1. PICK n \in 0..m : (\A i \in 1..n : i \in B) /\ (n < m => n + 1 \notin B)
    <3> HIDE DEF m, B
    <3> QED  BY <1>1, Prefix
  <2>2. n < m => n + 1 \in 1..m
    BY <1>1
  <2>3. P(n)
    BY <2>1, <2>2
  <2> HIDE DEF P
  <2> QED  BY <2>3
<1> DEFINE c == CHOOSE n : P(n)
<1>3. P(c)
  BY <1>2
<1>4. ByWake(k, l, t) = InsertAt(l, c + 1, t)
  BY DEF ByWake, vListInsert, Leading
<1> HIDE DEF c
<1> QED  BY <1>3, <1>4

\* The same, by the priority of the task that goes to sleep.
LEMMA ByPriorityPlace ==
  ASSUME NEW k, NEW l \in Lists(Task)
  PROVE  \E n \in 0..Len(l) : ByPriority(k, l) = InsertAt(l, n + 1, k.current)
<1> DEFINE t == k.current
           B == {i \in 1..Len(l) : -k.prio[l[i]] <= -k.prio[t]}
           m == Len(l)
           P(n) == /\ n \in 0..Len(l)
                   /\ \A i \in 1..n : -k.prio[l[i]] <= -k.prio[t]
                   /\ n < Len(l) => ~(-k.prio[l[n + 1]] <= -k.prio[t])
<1>1. m \in Nat
  BY ListBasics
<1>2. \E n : P(n)
  <2>1. PICK n \in 0..m : (\A i \in 1..n : i \in B) /\ (n < m => n + 1 \notin B)
    <3> HIDE DEF m, B
    <3> QED  BY <1>1, Prefix
  <2>2. n < m => n + 1 \in 1..m
    BY <1>1
  <2>3. P(n)
    BY <2>1, <2>2
  <2> HIDE DEF P
  <2> QED  BY <2>3
<1> DEFINE c == CHOOSE n : P(n)
<1>3. P(c)
  BY <1>2
<1>4. ByPriority(k, l) = InsertAt(l, c + 1, t)
  BY DEF ByPriority, vListInsert, Leading
<1> HIDE DEF c
<1> QED  BY <1>3, <1>4

\* prvAddCurrentTaskToDelayedList, of a task that has left its list.
LEMMA AddDelayedOK ==
  ASSUME NEW k \in KernRec, ReadyOK(k), OneList(k),
         k.current \notin Rd(k) \cup As(k) \cup Wt(k), NEW w \in 0..MaxDelay
  PROVE  LET j == prvAddCurrentTaskToDelayedList(k, w)
         IN  /\ j \in KernRec /\ ReadyOK(j) /\ OneList(j) /\ SameEvents(k, j) /\ SameRest(k, j)
             /\ Rd(j) = Rd(k) /\ As(j) = As(k) \cup {k.current} /\ Wt(j) = Wt(k)
<1> DEFINE t == k.current
           a == [k EXCEPT !.wake[t] = w]
           j == prvAddCurrentTaskToDelayedList(k, w)
<1>0. /\ k.delayed \in Lists(Task) /\ k.overflowDelayed \in Lists(Task) /\ t \in Task
      /\ k.nextUnblock \in 0..MaxDelay /\ k.wake \in [Task -> 0..MaxDelay]
  BY KernFields
<1>1. t \notin Members(k.delayed) /\ t \notin Members(k.overflowDelayed)
  BY DEF As
<1>2. ASSUME NEW l \in Lists(Task), t \notin Members(l)
      PROVE  ByWake(a, l, t) \in Lists(Task) /\ Members(ByWake(a, l, t)) = Members(l) \cup {t}
  <2> HIDE DEF a
  <2>1. PICK n \in 0..Len(l) : ByWake(a, l, t) = InsertAt(l, n + 1, t)
    BY ByWakePlace
  <2> HIDE DEF t
  <2> QED  BY <1>0, <1>2, <2>1, InsertAtList
<1>3. /\ a \in KernRec /\ SameLists(k, a) /\ SameEvents(k, a) /\ SameRest(k, a)
  BY <1>0 DEF KernRec, SameLists, SameEvents, SameRest
<1> DEFINE dl == ByWake(a, k.delayed, t)
           ov == ByWake(a, k.overflowDelayed, t)
           nu == IF w < k.nextUnblock THEN w ELSE k.nextUnblock
<1>4. /\ dl \in Lists(Task) /\ Members(dl) = Members(k.delayed) \cup {t}
      /\ ov \in Lists(Task) /\ Members(ov) = Members(k.overflowDelayed) \cup {t}
  <2> HIDE DEF a, t
  <2> QED  BY <1>0, <1>1, <1>2
<1>5. nu \in 0..MaxDelay
  BY <1>0
<1>6. \/ j = [a EXCEPT !.overflowDelayed = ov]
      \/ j = [a EXCEPT !.delayed = dl, !.nextUnblock = nu]
  <2>1. /\ a.overflowDelayed = k.overflowDelayed /\ a.delayed = k.delayed
        /\ a.nextUnblock = k.nextUnblock
    BY DEF KernRec
  <2>2. a = [k EXCEPT !.wake[k.current] = w]
    OBVIOUS
  <2> HIDE DEF a
  <2>3. CASE w < k.tick
    <3>1. j = [a EXCEPT !.overflowDelayed = ByWake(a, @, t)]
      BY <2>2, <2>3 DEF prvAddCurrentTaskToDelayedList
    <3> HIDE DEF j, t
    <3> QED  BY <2>1, <3>1
  <2>4. CASE ~(w < k.tick)
    <3>1. j = [a EXCEPT !.delayed = ByWake(a, @, t), !.nextUnblock = IF w < @ THEN w ELSE @]
      BY <2>2, <2>4 DEF prvAddCurrentTaskToDelayedList
    <3> HIDE DEF j, t
    <3> QED  BY <2>1, <3>1
  <2> QED  BY <2>3, <2>4
<1> HIDE DEF j, dl, ov, nu, a
<1>7. /\ j \in KernRec /\ SameEvents(k, j) /\ SameRest(k, j)
      /\ j.ready = k.ready /\ j.top = k.top /\ j.prio = k.prio
      /\ j.suspendedTasks = k.suspendedTasks
      /\ \/ j.overflowDelayed = ov /\ j.delayed = k.delayed
         \/ j.overflowDelayed = k.overflowDelayed /\ j.delayed = dl
  <2>1. CASE j = [a EXCEPT !.overflowDelayed = ov]
    BY <1>3, <1>4, <2>1 DEF KernRec, SameLists, SameEvents, SameRest
  <2>2. CASE j = [a EXCEPT !.delayed = dl, !.nextUnblock = nu]
    BY <1>3, <1>4, <1>5, <2>2 DEF KernRec, SameLists, SameEvents, SameRest
  <2> QED  BY <1>6, <2>1, <2>2
<1>8. Rd(j) = Rd(k) /\ Wt(j) = Wt(k) /\ ReadyOK(j)
  BY <1>7 DEF Rd, Wt, ReadyOK, SameRest
<1>9. As(j) = As(k) \cup {t}
  BY <1>4, <1>7 DEF As
<1>10. OneList(j)
  BY <1>4, <1>7, <1>8, <1>9 DEF OneList, As
<1> QED  BY <1>7, <1>8, <1>9, <1>10 DEF j

\* Asleep(k, j): in j the running task of k sleeps, and nothing else has moved.
Asleep(k, j) ==
  /\ KOk(j) /\ SameRest(k, j) /\ SameEvents(k, j)
  /\ Rd(j) = Rd(k) \ {k.current} /\ As(j) = As(k) \cup {k.current}

\* What a list of the events may hold while the running task goes to sleep.
BlockableEvents(k) == OneEvent(k) /\ InEvent(k) \subseteq As(k) \cup {k.current}

\* vTaskDelay, and vTaskPlaceOnEventList with a time.
LEMMA DelayCurrentOK ==
  ASSUME NEW k \in KernRec, ReadyOK(k), OneList(k), BlockableEvents(k), k.current \notin Wt(k),
         NEW ticks \in 0..MaxDelay
  PROVE  Asleep(k, DelayCurrent(k, ticks))
<1> DEFINE t == k.current
           a == RemoveGenericItem(k, t)
           w == (k.tick + ticks) % TickMod
           j == prvAddCurrentTaskToDelayedList(a, w)
<1>0. t \in Task /\ k.tick \in 0..MaxDelay
  BY KernFields
<1>1. ReadyBut(k, t)
  BY DEF ReadyBut, ReadyOK
<1>2. /\ a \in KernRec /\ ReadyOK(a) /\ OneList(a)
      /\ Rd(a) = Rd(k) \ {t} /\ As(a) = As(k) \ {t} /\ Wt(a) = Wt(k)
      /\ SameEvents(k, a) /\ SameRest(k, a)
  <2> HIDE DEF t
  <2>1. t \notin Wt(k)
    BY DEF t
  <2> QED  BY <1>0, <1>1, <2>1, RemoveGenericOK
<1>3. w \in 0..MaxDelay
  <2>1. k.tick + ticks \in Int
    BY <1>0
  <2> QED  BY <2>1, KernNumbers
<1> HIDE DEF a, w
<1>4. a.current = t
  BY <1>2 DEF SameRest
<1>5. a.current \notin Rd(a) \cup As(a) \cup Wt(a)
  BY <1>2, <1>4
<1>6. /\ j \in KernRec /\ ReadyOK(j) /\ OneList(j) /\ SameEvents(a, j) /\ SameRest(a, j)
      /\ Rd(j) = Rd(a) /\ As(j) = As(a) \cup {a.current} /\ Wt(j) = Wt(a)
  BY <1>2, <1>3, <1>5, AddDelayedOK
<1>7. j = DelayCurrent(k, ticks)
  BY DEF DelayCurrent, a, w
<1> HIDE DEF j
<1>8. SameEvents(k, j) /\ SameRest(k, j)
  BY <1>2, <1>6 DEF SameEvents, SameRest
<1>9. Rd(j) = Rd(k) \ {t} /\ As(j) = As(k) \cup {t}
  BY <1>2, <1>4, <1>6
<1>10. InEvent(j) = InEvent(k) /\ OneEvent(j)
  BY <1>8 DEF SameEvents, InEvent, Pd, OneEvent, BlockableEvents
<1>11. KOk(j)
  BY <1>6, <1>9, <1>10 DEF KOk, BlockableEvents
<1> QED  BY <1>7, <1>8, <1>9, <1>11 DEF Asleep

\* vTaskPlaceOnEventList without a time.
LEMMA SuspendCurrentOK ==
  ASSUME NEW k \in KernRec, ReadyOK(k), OneList(k), BlockableEvents(k), k.current \notin Wt(k)
  PROVE  Asleep(k, SuspendCurrent(k))
<1> DEFINE t == k.current
           a == RemoveGenericItem(k, t)
           j == SuspendCurrent(k)
<1>0. t \in Task
  BY KernFields
<1>1. ReadyBut(k, t)
  BY DEF ReadyBut, ReadyOK
<1>2. /\ a \in KernRec /\ ReadyOK(a) /\ OneList(a)
      /\ Rd(a) = Rd(k) \ {t} /\ As(a) = As(k) \ {t} /\ Wt(a) = Wt(k)
      /\ SameEvents(k, a) /\ SameRest(k, a)
  <2> HIDE DEF t
  <2>1. t \notin Wt(k)
    BY DEF t
  <2> QED  BY <1>0, <1>1, <2>1, RemoveGenericOK
<1>3. j = [a EXCEPT !.suspendedTasks = @ \cup {t}]
  BY DEF SuspendCurrent
<1> HIDE DEF a, j
<1>4. /\ j \in KernRec /\ SameEvents(a, j) /\ SameRest(a, j)
      /\ j.ready = a.ready /\ j.top = a.top /\ j.prio = a.prio
      /\ j.delayed = a.delayed /\ j.overflowDelayed = a.overflowDelayed
      /\ j.suspendedTasks = a.suspendedTasks \cup {t}
  <2>1. a.suspendedTasks \subseteq Task
    BY <1>2, KernFields
  <2> QED  BY <1>0, <1>2, <1>3, <2>1 DEF KernRec, SameEvents, SameRest
<1>5. Rd(j) = Rd(a) /\ Wt(j) = Wt(a) /\ ReadyOK(j) /\ As(j) = As(a) \cup {t}
  BY <1>2, <1>4 DEF Rd, Wt, As, ReadyOK, SameRest
<1>6. OneList(j)
  BY <1>2, <1>4, <1>5 DEF OneList, As
<1>8. SameEvents(k, j) /\ SameRest(k, j)
  BY <1>2, <1>4 DEF SameEvents, SameRest
<1>9. Rd(j) = Rd(k) \ {t} /\ As(j) = As(k) \cup {t}
  BY <1>2, <1>5
<1>10. InEvent(j) = InEvent(k) /\ OneEvent(j)
  BY <1>8 DEF SameEvents, InEvent, Pd, OneEvent, BlockableEvents
<1>11. KOk(j)
  BY <1>4, <1>5, <1>6, <1>9, <1>10 DEF KOk, BlockableEvents
<1> QED  BY <1>8, <1>9, <1>11 DEF Asleep, j

\* From the event lists l to m, t has joined the list of q.
Joins(l, m, q, t) ==
  \A p \in Queue : Members(m[p]) = IF p = q THEN Members(l[p]) \cup {t} ELSE Members(l[p])

\* The running task in the list of the queue it waits for: senders or receivers, both
\* given by their next values.
LEMMA PlacedOK ==
  ASSUME NEW k, KOk(k), k.current \in Rd(k), NEW q \in Queue, NEW j,
         \/ j = [k EXCEPT !.senders[q] = ByPriority(k, @)]
         \/ j = [k EXCEPT !.receivers[q] = ByPriority(k, @)]
  PROVE  /\ j \in KernRec /\ SameLists(k, j) /\ SameRest(k, j) /\ BlockableEvents(j)
         /\ j.pendingReady = k.pendingReady
         /\ j = [k EXCEPT !.senders[q] = ByPriority(k, @)] =>
              Joins(k.senders, j.senders, q, k.current) /\ j.receivers = k.receivers
         /\ j = [k EXCEPT !.receivers[q] = ByPriority(k, @)] =>
              Joins(k.receivers, j.receivers, q, k.current) /\ j.senders = k.senders
<1> DEFINE t == k.current
           sn == ByPriority(k, k.senders[q])
           rc == ByPriority(k, k.receivers[q])
<1>0. /\ k \in KernRec /\ k.senders \in [Queue -> Lists(Task)]
      /\ k.receivers \in [Queue -> Lists(Task)] /\ t \in Task
  BY KernFields DEF KOk
<1>1. t \notin InEvent(k)
  BY DEF KOk, OneList
<1>2. t \notin Members(k.senders[q]) /\ t \notin Members(k.receivers[q])
  BY <1>0, <1>1 DEF InEvent
<1>3. ASSUME NEW l \in Lists(Task), t \notin Members(l)
      PROVE  ByPriority(k, l) \in Lists(Task) /\ Members(ByPriority(k, l)) = Members(l) \cup {t}
  <2>1. PICK n \in 0..Len(l) : ByPriority(k, l) = InsertAt(l, n + 1, t)
    BY ByPriorityPlace
  <2> HIDE DEF t
  <2> QED  BY <1>0, <1>3, <2>1, InsertAtList
<1>4. /\ sn \in Lists(Task) /\ Members(sn) = Members(k.senders[q]) \cup {t}
      /\ rc \in Lists(Task) /\ Members(rc) = Members(k.receivers[q]) \cup {t}
  <2> HIDE DEF t
  <2> QED  BY <1>0, <1>2, <1>3
<1> HIDE DEF sn, rc
<1> DEFINE S == [k.senders EXCEPT ![q] = sn]
           R == [k.receivers EXCEPT ![q] = rc]
<1>5. \/ j = [k EXCEPT !.senders = S]
      \/ j = [k EXCEPT !.receivers = R]
  BY <1>0 DEF KernRec, sn, rc
<1>11. /\ j = [k EXCEPT !.senders[q] = ByPriority(k, @)] => j.senders = S /\ j.receivers = k.receivers
       /\ j = [k EXCEPT !.receivers[q] = ByPriority(k, @)] => j.receivers = R /\ j.senders = k.senders
  BY <1>0 DEF KernRec, sn, rc
<1>6. /\ S \in [Queue -> Lists(Task)] /\ R \in [Queue -> Lists(Task)]
      /\ \A p \in Queue : /\ Members(S[p]) = IF p = q THEN Members(k.senders[q]) \cup {t}
                                             ELSE Members(k.senders[p])
                          /\ Members(R[p]) = IF p = q THEN Members(k.receivers[q]) \cup {t}
                                             ELSE Members(k.receivers[p])
  BY <1>0, <1>4
<1> HIDE DEF S, R
<1>7. /\ j \in KernRec /\ SameLists(k, j) /\ SameRest(k, j) /\ j.pendingReady = k.pendingReady
      /\ \/ j.senders = S /\ j.receivers = k.receivers
         \/ j.senders = k.senders /\ j.receivers = R
  <2>1. j \in KernRec
    <3>1. CASE j = [k EXCEPT !.senders = S]
      BY <1>0, <1>6, <3>1, ZenonT(60) DEF KernRec
    <3>2. CASE j = [k EXCEPT !.receivers = R]
      BY <1>0, <1>6, <3>2, ZenonT(60) DEF KernRec
    <3> QED  BY <1>5, <3>1, <3>2
  <2>2. SameLists(k, j) /\ SameRest(k, j)
    BY <1>0, <1>5 DEF KernRec, SameLists, SameRest
  <2>3. /\ j.pendingReady = k.pendingReady
        /\ \/ j.senders = S /\ j.receivers = k.receivers
           \/ j.senders = k.senders /\ j.receivers = R
    BY <1>0, <1>5 DEF KernRec
  <2> QED  BY <2>1, <2>2, <2>3
<1>8. Pd(j) = Pd(k) /\ As(j) = As(k) /\ j.current = t
  BY <1>7 DEF Pd, As, SameLists, SameRest
<1>9. InEvent(j) \subseteq InEvent(k) \cup {t}
  BY <1>0, <1>6, <1>7, <1>8 DEF InEvent
<1>10. OneEvent(j)
  <2>1. \A p \in Queue : t \notin Members(k.senders[p]) /\ t \notin Members(k.receivers[p])
    BY <1>0, <1>1 DEF InEvent
  <2>2. t \notin Pd(k)
    BY <1>0, <1>1 DEF InEvent
  <2>3. CASE j.senders = S /\ j.receivers = k.receivers
    BY <1>6, <1>8, <2>1, <2>2, <2>3, SMTT(30) DEF KOk, OneEvent
  <2>4. CASE j.senders = k.senders /\ j.receivers = R
    BY <1>6, <1>8, <2>1, <2>2, <2>4, SMTT(30) DEF KOk, OneEvent
  <2> QED  BY <1>7, <2>3, <2>4
<1>12. Joins(k.senders, S, q, t) /\ Joins(k.receivers, R, q, t)
  BY <1>6 DEF Joins
<1> QED  BY <1>7, <1>8, <1>9, <1>10, <1>11, <1>12 DEF KOk, BlockableEvents

\* vTaskPlaceOnEventList: in j the running task of k waits for q.
LEMMA BlockOK ==
  ASSUME NEW k, KOk(k), k.current \in Rd(k), NEW q \in Queue, NEW i,
         \/ i = [k EXCEPT !.senders[q] = ByPriority(k, @)]
         \/ i = [k EXCEPT !.receivers[q] = ByPriority(k, @)],
         NEW ticks \in 0..MaxDelay
  PROVE  LET j == BlockCurrent(i, ticks)
         IN  /\ KOk(j) /\ SameRest(k, j) /\ Pd(j) = Pd(k)
             /\ Rd(j) = Rd(k) \ {k.current} /\ As(j) = As(k) \cup {k.current}
             /\ i = [k EXCEPT !.senders[q] = ByPriority(k, @)] =>
                  Joins(k.senders, j.senders, q, k.current) /\ j.receivers = k.receivers
             /\ i = [k EXCEPT !.receivers[q] = ByPriority(k, @)] =>
                  Joins(k.receivers, j.receivers, q, k.current) /\ j.senders = k.senders
<1> DEFINE j == BlockCurrent(i, ticks)
<1>1. /\ i \in KernRec /\ SameLists(k, i) /\ SameRest(k, i) /\ BlockableEvents(i)
      /\ i.pendingReady = k.pendingReady
      /\ i = [k EXCEPT !.senders[q] = ByPriority(k, @)] =>
           Joins(k.senders, i.senders, q, k.current) /\ i.receivers = k.receivers
      /\ i = [k EXCEPT !.receivers[q] = ByPriority(k, @)] =>
           Joins(k.receivers, i.receivers, q, k.current) /\ i.senders = k.senders
  BY PlacedOK
<1>2. /\ Rd(i) = Rd(k) /\ As(i) = As(k) /\ Wt(i) = Wt(k) /\ i.current = k.current
  BY <1>1 DEF SameLists, SameRest, Rd, As, Wt
<1>3. ReadyOK(i) /\ OneList(i)
  BY <1>1, <1>2 DEF KOk, ReadyOK, OneList, SameLists
<1>4. i.current \notin Wt(i)
  BY <1>2, <1>3 DEF OneList
<1>5. Asleep(i, j)
  <2>1. CASE ticks = MaxDelay
    BY <1>1, <1>3, <1>4, <2>1, SuspendCurrentOK DEF BlockCurrent
  <2>2. CASE ticks # MaxDelay
    BY <1>1, <1>3, <1>4, <2>2, DelayCurrentOK DEF BlockCurrent
  <2> QED  BY <2>1, <2>2
<1> HIDE DEF j
<1>6. SameRest(k, j) /\ Pd(j) = Pd(k)
  BY <1>1, <1>5 DEF Asleep, SameRest, SameEvents, Pd
<1>7. j.senders = i.senders /\ j.receivers = i.receivers
  BY <1>5 DEF Asleep, SameEvents
<1> QED  BY <1>1, <1>2, <1>5, <1>6, <1>7 DEF Asleep, j

\* The steps of WakeEach from k, one by one.
WokenByOne(n, K, k, list) ==
  \E f \in [0..n -> K] : /\ f[0] = k /\ f[n] = WakeEach(k, list)
                         /\ \A i \in 1..n : f[i] = xTaskRemoveFromEventList(f[i - 1], list[i])

\* WakeEach takes one step after the other.
LEMMA WakeEachSteps ==
  ASSUME NEW n \in Nat, NEW K, NEW k \in K, NEW list, DOMAIN list = 1..n,
         \A j \in K, i \in 1..n : xTaskRemoveFromEventList(j, list[i]) \in K
  PROVE  WokenByOne(n, K, k, list)
<1> DEFINE G == [i \in 1..n |-> [j \in K |-> xTaskRemoveFromEventList(j, list[i])]]
           Eq(g) == g = [s \in SUBSET (1..n) |->
                           IF s = {} THEN k
                           ELSE xTaskRemoveFromEventList(g[s \ {Max(s)}], list[Max(s)])]
           iter == CHOOSE g : Eq(g)
<1>1. G \in [1..n -> [K -> K]] /\ \A i \in 1..n, j \in K : G[i][j] = xTaskRemoveFromEventList(j, list[i])
  OBVIOUS
<1> HIDE DEF G
<1>2. \A s \in SUBSET (1..n) : s # {} => Max(s) \in 1..n /\ s \ {Max(s)} \in SUBSET (1..n)
  BY MaxIn
<1>3. \E g : Eq(g)
  <2>0. G \in [1..n -> [K -> K]]
    BY <1>1
  <2>1. PICK g : Takes(n, K, k, G, g)
    BY <2>0, StepsOfSets
  <2>2. ASSUME NEW s \in SUBSET (1..n), s # {}
        PROVE  g[s] = xTaskRemoveFromEventList(g[s \ {Max(s)}], list[Max(s)])
    <3>1. Max(s) \in 1..n /\ g[s \ {Max(s)}] \in K
      BY <1>2, <2>1, <2>2 DEF Takes
    <3> QED  BY <1>1, <2>1, <2>2, <3>1 DEF Takes
  <2>3. \A s \in SUBSET (1..n) :
          g[s] = IF s = {} THEN k ELSE xTaskRemoveFromEventList(g[s \ {Max(s)}], list[Max(s)])
    BY <2>1, <2>2 DEF Takes
  <2>4. g = [s \in SUBSET (1..n) |-> g[s]]
    BY <2>1 DEF Takes
  <2>5. Eq(g)
    BY <2>3, <2>4
  <2> QED  BY <2>5
<1>4. Eq(iter)
  BY <1>3
<1>5. WakeEach(k, list) = iter[1..n]
  BY DEF WakeEach, FoldLeft, MapThenFoldSet
<1> HIDE DEF iter
<1>6. iter[{}] = k
  BY <1>4
<1>7. ASSUME NEW s \in SUBSET (1..n), s # {}, iter[s \ {Max(s)}] \in K
      PROVE  iter[s] = G[Max(s)][iter[s \ {Max(s)}]]
  <2>1. iter[s] = xTaskRemoveFromEventList(iter[s \ {Max(s)}], list[Max(s)])
    BY <1>4, <1>7
  <2> QED  BY <1>1, <1>2, <1>7, <2>1
<1> HIDE DEF Eq
<1>8. OneByOne(n, K, k, G, iter[1..n])
  <2>1. G \in [1..n -> [K -> K]]
    BY <1>1
  <2>2. Follows(n, K, k, G, iter)
    BY <1>6, <1>7 DEF Follows
  <2> QED  BY <2>1, <2>2, StepsInOrder
<1>9. PICK f \in [0..n -> K] : /\ f[0] = k /\ f[n] = iter[1..n]
                             /\ \A i \in 1..n : f[i] = G[i][f[i - 1]]
  BY <1>8 DEF OneByOne
<1>10. ASSUME NEW i \in 1..n PROVE f[i] = xTaskRemoveFromEventList(f[i - 1], list[i])
  <2>1. i - 1 \in 0..n
    OBVIOUS
  <2>2. f[i - 1] \in K
    BY <2>1
  <2> QED  BY <1>1, <1>9, <2>2
<1> QED  BY <1>5, <1>9, <1>10 DEF WokenByOne
\* The two loops of xTaskResumeAll: a task, and a tick.
PendedTask(j, t) == [MakeReady(j, t) EXCEPT !.yieldPending = @ \/ Outranks(j, t)]
PendedTick(j) == [xTaskIncrementTick(j) EXCEPT !.pendedTicks = @ - 1]

\* K is closed under the steps of PendedReady from k; the steps one by one.
PendedIn(n, K, k) ==
  /\ DOMAIN k.pendingReady = 1..n
  /\ \A j \in K, i \in 1..n : PendedTask(j, k.pendingReady[i]) \in K

PendedByOne(n, K, k) ==
  \E f \in [0..n -> K] : /\ f[0] = k /\ f[n] = PendedReady(k)
                         /\ \A i \in 1..n : f[i] = PendedTask(f[i - 1], k.pendingReady[i])

\* PendedReady takes one step after the other.
LEMMA PendedReadySteps ==
  ASSUME NEW n \in Nat, NEW K, NEW k \in K, PendedIn(n, K, k)
  PROVE  PendedByOne(n, K, k)
<1> DEFINE list == k.pendingReady
           G == [i \in 1..n |-> [j \in K |-> PendedTask(j, list[i])]]
           Eq(g) == g = [s \in SUBSET (1..n) |->
                           IF s = {} THEN k
                           ELSE PendedTask(g[s \ {Max(s)}], list[Max(s)])]
           iter == CHOOSE g : Eq(g)
<1>0. DOMAIN list = 1..n /\ \A j \in K, i \in 1..n : PendedTask(j, list[i]) \in K
  BY DEF PendedIn
<1>1. G \in [1..n -> [K -> K]] /\ \A i \in 1..n, j \in K : G[i][j] = PendedTask(j, list[i])
  BY <1>0
<1> HIDE DEF G
<1>2. \A s \in SUBSET (1..n) : s # {} => Max(s) \in 1..n /\ s \ {Max(s)} \in SUBSET (1..n)
  BY MaxIn
<1>3. \E g : Eq(g)
  <2>0. G \in [1..n -> [K -> K]]
    BY <1>1
  <2>1. PICK g : Takes(n, K, k, G, g)
    BY <2>0, StepsOfSets
  <2>2. ASSUME NEW s \in SUBSET (1..n), s # {}
        PROVE  g[s] = PendedTask(g[s \ {Max(s)}], list[Max(s)])
    <3>1. Max(s) \in 1..n /\ g[s \ {Max(s)}] \in K
      BY <1>2, <2>1, <2>2 DEF Takes
    <3> QED  BY <1>1, <2>1, <2>2, <3>1 DEF Takes
  <2>3. \A s \in SUBSET (1..n) :
          g[s] = IF s = {} THEN k ELSE PendedTask(g[s \ {Max(s)}], list[Max(s)])
    BY <2>1, <2>2 DEF Takes
  <2>4. g = [s \in SUBSET (1..n) |-> g[s]]
    BY <2>1 DEF Takes
  <2>5. Eq(g)
    BY <2>3, <2>4
  <2> QED  BY <2>5
<1>4. Eq(iter)
  BY <1>3
<1>5. PendedReady(k) = iter[1..n]
  BY <1>0 DEF PendedReady, PendedTask, FoldLeft, MapThenFoldSet
<1> HIDE DEF iter
<1>6. iter[{}] = k
  BY <1>4
<1>7. ASSUME NEW s \in SUBSET (1..n), s # {}, iter[s \ {Max(s)}] \in K
      PROVE  iter[s] = G[Max(s)][iter[s \ {Max(s)}]]
  <2>1. iter[s] = PendedTask(iter[s \ {Max(s)}], list[Max(s)])
    BY <1>4, <1>7
  <2> QED  BY <1>1, <1>2, <1>7, <2>1
<1> HIDE DEF Eq
<1>8. OneByOne(n, K, k, G, iter[1..n])
  <2>1. G \in [1..n -> [K -> K]]
    BY <1>1
  <2>2. Follows(n, K, k, G, iter)
    BY <1>6, <1>7 DEF Follows
  <2> QED  BY <2>1, <2>2, StepsInOrder
<1>9. PICK f \in [0..n -> K] : /\ f[0] = k /\ f[n] = iter[1..n]
                             /\ \A i \in 1..n : f[i] = G[i][f[i - 1]]
  BY <1>8 DEF OneByOne
<1>10. ASSUME NEW i \in 1..n PROVE f[i] = PendedTask(f[i - 1], list[i])
  <2>1. i - 1 \in 0..n
    OBVIOUS
  <2>2. f[i - 1] \in K
    BY <2>1
  <2> QED  BY <1>1, <1>9, <2>2
<1> QED  BY <1>5, <1>9, <1>10 DEF PendedByOne
\* PendedTicks takes one step after the other.
LEMMA PendedTicksSteps ==
  ASSUME NEW n \in Nat, NEW K, NEW k \in K, 1..k.pendedTicks = 1..n,
         \A j \in K : PendedTick(j) \in K
  PROVE  \E f \in [0..n -> K] : /\ f[0] = k /\ f[n] = PendedTicks(k)
                                /\ \A i \in 1..n : f[i] = PendedTick(f[i - 1])
<1> DEFINE G == [i \in 1..n |-> [j \in K |-> PendedTick(j)]]
           Eq(g) == g = [s \in SUBSET (1..n) |->
                           IF s = {} THEN k
                           ELSE PendedTick(g[s \ {Max(s)}])]
           iter == CHOOSE g : Eq(g)
<1>1. G \in [1..n -> [K -> K]] /\ \A i \in 1..n, j \in K : G[i][j] = PendedTick(j)
  OBVIOUS
<1> HIDE DEF G
<1>2. \A s \in SUBSET (1..n) : s # {} => Max(s) \in 1..n /\ s \ {Max(s)} \in SUBSET (1..n)
  BY MaxIn
<1>3. \E g : Eq(g)
  <2>0. G \in [1..n -> [K -> K]]
    BY <1>1
  <2>1. PICK g : Takes(n, K, k, G, g)
    BY <2>0, StepsOfSets
  <2>2. ASSUME NEW s \in SUBSET (1..n), s # {}
        PROVE  g[s] = PendedTick(g[s \ {Max(s)}])
    <3>1. Max(s) \in 1..n /\ g[s \ {Max(s)}] \in K
      BY <1>2, <2>1, <2>2 DEF Takes
    <3> QED  BY <1>1, <2>1, <2>2, <3>1 DEF Takes
  <2>3. \A s \in SUBSET (1..n) :
          g[s] = IF s = {} THEN k ELSE PendedTick(g[s \ {Max(s)}])
    BY <2>1, <2>2 DEF Takes
  <2>4. g = [s \in SUBSET (1..n) |-> g[s]]
    BY <2>1 DEF Takes
  <2>5. Eq(g)
    BY <2>3, <2>4
  <2> QED  BY <2>5
<1>4. Eq(iter)
  BY <1>3
<1>5. PendedTicks(k) = iter[1..n]
  BY DEF PendedTicks, PendedTick, FoldLeft, MapThenFoldSet
<1> HIDE DEF iter
<1>6. iter[{}] = k
  BY <1>4
<1>7. ASSUME NEW s \in SUBSET (1..n), s # {}, iter[s \ {Max(s)}] \in K
      PROVE  iter[s] = G[Max(s)][iter[s \ {Max(s)}]]
  <2>1. iter[s] = PendedTick(iter[s \ {Max(s)}])
    BY <1>4, <1>7
  <2> QED  BY <1>1, <1>2, <1>7, <2>1
<1> HIDE DEF Eq
<1>8. OneByOne(n, K, k, G, iter[1..n])
  <2>1. G \in [1..n -> [K -> K]]
    BY <1>1
  <2>2. Follows(n, K, k, G, iter)
    BY <1>6, <1>7 DEF Follows
  <2> QED  BY <2>1, <2>2, StepsInOrder
<1>9. PICK f \in [0..n -> K] : /\ f[0] = k /\ f[n] = iter[1..n]
                             /\ \A i \in 1..n : f[i] = G[i][f[i - 1]]
  BY <1>8 DEF OneByOne
<1>10. ASSUME NEW i \in 1..n PROVE f[i] = PendedTick(f[i - 1])
  <2>1. i - 1 \in 0..n
    OBVIOUS
  <2>2. f[i - 1] \in K
    BY <2>1
  <2> QED  BY <1>1, <1>9, <2>2
<1> QED  BY <1>5, <1>9, <1>10

-----------------------------------------------------------------------------
(***************************************************************************)
(* Time.                                                                   *)
(***************************************************************************)
\* xNextTaskUnblockTime, when it is read from the head of a delayed list.
LEMMA NextUnblockType ==
  ASSUME NEW k \in KernRec, NEW l \in Lists(Task)
  PROVE  (IF l = <<>> THEN MaxDelay ELSE k.wake[Head(l)]) \in 0..MaxDelay
<1>1. MaxDelay \in 0..MaxDelay
  BY KernNumbers
<1>2. l # <<>> => Head(l) \in Task
  BY ListBasics
<1>3. k.wake \in [Task -> 0..MaxDelay]
  BY KernFields
<1> QED  BY <1>1, <1>2, <1>3

\* taskSWITCH_DELAYED_LISTS.
LEMMA SwitchListsOK ==
  ASSUME NEW k, KOk(k)
  PROVE  Calm(k, taskSWITCH_DELAYED_LISTS(k))
<1> DEFINE j == taskSWITCH_DELAYED_LISTS(k)
           nu == IF k.overflowDelayed = <<>> THEN MaxDelay ELSE k.wake[Head(k.overflowDelayed)]
           ov == (k.overflows + 1) % OverflowMod
<1>0. /\ k \in KernRec /\ k.delayed \in Lists(Task) /\ k.overflowDelayed \in Lists(Task)
      /\ k.overflows \in 0..OverflowMod - 1
  BY KernFields DEF KOk
<1>1. nu \in 0..MaxDelay
  BY <1>0, NextUnblockType
<1>2. ov \in 0..OverflowMod - 1
  <2>1. k.overflows + 1 \in Int
    BY <1>0, KernCounts
  <2> QED  BY <2>1, KernNumbers
<1>3. j = [k EXCEPT !.delayed = k.overflowDelayed, !.overflowDelayed = k.delayed,
                    !.overflows = ov, !.nextUnblock = nu]
  BY DEF taskSWITCH_DELAYED_LISTS
<1> HIDE DEF j, nu, ov
<1>4. /\ j \in KernRec /\ SameEvents(k, j) /\ SameRest(k, j)
      /\ j.ready = k.ready /\ j.top = k.top /\ j.prio = k.prio
      /\ j.suspendedTasks = k.suspendedTasks
      /\ j.delayed = k.overflowDelayed /\ j.overflowDelayed = k.delayed
  <2>1. j \in KernRec
    BY <1>0, <1>1, <1>2, <1>3, ZenonT(60) DEF KernRec
  <2>2. SameEvents(k, j) /\ SameRest(k, j)
    BY <1>0, <1>3 DEF KernRec, SameEvents, SameRest
  <2>3. /\ j.ready = k.ready /\ j.top = k.top /\ j.prio = k.prio
        /\ j.suspendedTasks = k.suspendedTasks
        /\ j.delayed = k.overflowDelayed /\ j.overflowDelayed = k.delayed
    BY <1>0, <1>3 DEF KernRec
  <2> QED  BY <2>1, <2>2, <2>3
<1>5. /\ Rd(j) = Rd(k) /\ As(j) = As(k) /\ Wt(j) = Wt(k) /\ ReadyOK(j)
      /\ Pd(j) = Pd(k) /\ InEvent(j) = InEvent(k) /\ OneEvent(j)
  BY <1>4 DEF KOk, Rd, As, Wt, Pd, InEvent, ReadyOK, OneEvent, SameEvents, SameRest
<1>6. OneList(j)
  BY <1>4, <1>5 DEF KOk, OneList
<1> QED  BY <1>4, <1>5, <1>6, FewerFacts DEF Calm, KOk, j

\* The tasks that are calmly made ready from k on.
CalmFrom(k) == {j \in KernRec : Calm(k, j)}

\* A task that is ready or asleep is made ready.
LEMMA CalmReady ==
  ASSUME NEW k, NEW j, Calm(k, j), NEW t \in Task, t \in Rd(k) \cup As(k)
  PROVE  Calm(k, MakeReady(j, t))
<1>1. KOk(j) /\ t \in Rd(j) \cup As(j) /\ t \notin Wt(j)
  BY DEF Calm, KOk, OneList
<1>2. Calm(j, MakeReady(j, t))
  BY <1>1, MakeReadyOK
<1> QED  BY <1>2, CalmTrans

\* The loop of xTaskIncrementTick.
LEMMA UnblockDueOK ==
  ASSUME NEW k, KOk(k)
  PROVE  Calm(k, UnblockDue(k))
<1> DEFINE l == k.delayed
           m == Len(l)
           B == {i \in 1..m : k.wake[l[i]] <= k.tick}
           P(n) == /\ \A i \in 1..n : k.wake[l[i]] <= k.tick
                   /\ n < Len(l) => ~(k.wake[l[n + 1]] <= k.tick)
           due == CHOOSE n \in 0..Len(l) : P(n)
           list == SubSeq(l, 1, due)
           woke == EachReady(k, list)
           nu == IF woke.delayed = <<>> THEN MaxDelay ELSE woke.wake[Head(woke.delayed)]
           j == [woke EXCEPT !.nextUnblock = nu]
           K == CalmFrom(k)
<1>0. k \in KernRec /\ l \in Lists(Task) /\ m \in Nat
  BY KernFields, ListBasics DEF KOk
<1>1. due \in 0..Len(l)
  <2>1. PICK n \in 0..m : (\A i \in 1..n : i \in B) /\ (n < m => n + 1 \notin B)
    <3> HIDE DEF m, B
    <3> QED  BY <1>0, Prefix
  <2>2. n < m => n + 1 \in 1..m
    BY <1>0
  <2>3. P(n)
    BY <2>1, <2>2
  <2> HIDE DEF P
  <2> QED  BY <2>3
<1>2. UnblockDue(k) = j
  BY DEF UnblockDue, Leading
<1> HIDE DEF due, P, j
<1>3. due \in 0..Len(l)
  BY <1>1
<1>4. /\ list \in Seq(Task) /\ Len(list) = due
      /\ \A i \in 1..due : list[i] \in Members(l)
  <2> HIDE DEF l
  <2> QED  BY <1>0, <1>3, PrefixList
<1>5. due \in Nat /\ DOMAIN list = 1..due
  BY <1>0, <1>3, <1>4
<1>6. Members(l) \subseteq As(k) /\ Members(l) \subseteq Task
  BY <1>0, ListBasics DEF As
<1> HIDE DEF list
<1>7. k \in K
  BY <1>0, CalmSelf DEF CalmFrom
<1>8. \A i \in K, n \in 1..due : MakeReady(i, list[n]) \in K
  <2> SUFFICES ASSUME NEW i \in K, NEW n \in 1..due PROVE MakeReady(i, list[n]) \in K
    OBVIOUS
  <2> DEFINE t == list[n]
  <2>1. t \in Task /\ t \in Rd(k) \cup As(k) /\ Calm(k, i)
    BY <1>4, <1>6 DEF CalmFrom
  <2> HIDE DEF t
  <2>2. Calm(k, MakeReady(i, t))
    BY <2>1, CalmReady
  <2> QED  BY <2>2 DEF CalmFrom, Calm, KOk, t
<1>9. woke \in K
  <2> HIDE DEF K
  <2> QED  BY <1>5, <1>7, <1>8, EachReadySteps
<1> HIDE DEF woke
<1>10. woke \in KernRec /\ Calm(k, woke)
  BY <1>9 DEF CalmFrom
<1>11. nu \in 0..MaxDelay
  BY <1>10, KernFields, NextUnblockType
<1> HIDE DEF nu
<1>12. /\ j \in KernRec /\ SameLists(woke, j) /\ SameEvents(woke, j) /\ SameRest(woke, j)
  BY <1>10, <1>11 DEF KernRec, SameLists, SameEvents, SameRest, j
<1>13. Calm(woke, j)
  BY <1>10, <1>12, SameView DEF Calm
<1> QED  BY <1>2, <1>10, <1>13, CalmTrans

\* xTaskIncrementTick.
LEMMA TickOK ==
  ASSUME NEW k, KOk(k)
  PROVE  Calm(k, xTaskIncrementTick(k))
<1>0. /\ k \in KernRec /\ k.pendedTicks \in Int /\ k.tick \in 0..MaxDelay
  BY KernFields DEF KOk
<1>1. CASE k.suspended > 0
  <2> DEFINE p == k.pendedTicks + 1
             j == [k EXCEPT !.pendedTicks = p]
  <2>1. j = xTaskIncrementTick(k) /\ p \in Int
    BY <1>0, <1>1 DEF xTaskIncrementTick
  <2> HIDE DEF p
  <2>2. j \in KernRec /\ SameLists(k, j) /\ SameEvents(k, j) /\ SameRest(k, j)
    <3>1. j \in KernRec
      BY <1>0, <2>1, ZenonT(60) DEF KernRec
    <3>2. SameLists(k, j) /\ SameEvents(k, j) /\ SameRest(k, j)
      BY <1>0 DEF KernRec, SameLists, SameEvents, SameRest
    <3> QED  BY <3>1, <3>2
  <2> HIDE DEF j
  <2> QED  BY <2>1, <2>2, SameView
<1>2. CASE ~(k.suspended > 0)
  <2> DEFINE tick == (k.tick + 1) % TickMod
             a == [k EXCEPT !.tick = tick]
             b == IF a.tick = 0 THEN taskSWITCH_DELAYED_LISTS(a) ELSE a
             j == IF b.tick >= b.nextUnblock THEN UnblockDue(b) ELSE b
  <2>1. j = xTaskIncrementTick(k)
    BY <1>2 DEF xTaskIncrementTick
  <2>2. tick \in 0..MaxDelay
    <3>1. k.tick + 1 \in Int
      BY <1>0, KernCounts
    <3> QED  BY <3>1, KernNumbers
  <2> HIDE DEF tick
  <2>3. a \in KernRec /\ SameLists(k, a) /\ SameEvents(k, a) /\ SameRest(k, a)
    <3>1. a \in KernRec
      BY <1>0, <2>2, ZenonT(60) DEF KernRec
    <3>2. SameLists(k, a) /\ SameEvents(k, a) /\ SameRest(k, a)
      BY <1>0 DEF KernRec, SameLists, SameEvents, SameRest
    <3> QED  BY <3>1, <3>2
  <2> HIDE DEF a
  <2>4. Calm(k, a) /\ KOk(a)
    BY <2>3, SameView
  <2>5. Calm(a, b)
    BY <2>4, SwitchListsOK, CalmSelf
  <2> HIDE DEF b
  <2>6. KOk(b)
    BY <2>5 DEF Calm
  <2>7. Calm(b, j)
    BY <2>6, UnblockDueOK, CalmSelf
  <2> HIDE DEF j
  <2>8. Calm(k, b)
    BY <2>4, <2>5, CalmTrans
  <2> QED  BY <2>1, <2>7, <2>8, CalmTrans
<1> QED  BY <1>1, <1>2

-----------------------------------------------------------------------------
(***************************************************************************)
(* Waking tasks.                                                           *)
(***************************************************************************)
\* xTaskRemoveFromEventList.
LEMMA WakeOK ==
  ASSUME NEW k, KOk(k), NEW t \in Task, t \in InEvent(k)
  PROVE  LET j == xTaskRemoveFromEventList(k, t)
         IN  /\ Calm(k, j) /\ (k.suspended = 1 => InEvent(j) = InEvent(k))
             /\ t \notin Waiters(j)
<1> DEFINE a == RemoveEventItem(k, t)
           b == IF k.suspended = 0 THEN MakeReady(a, t)
                ELSE [a EXCEPT !.pendingReady = Append(@, t)]
           j == xTaskRemoveFromEventList(k, t)
<1>0. /\ k \in KernRec /\ ReadyOK(k) /\ OneList(k) /\ OneEvent(k) /\ InEvent(k) \subseteq As(k)
      /\ k.suspended \in 0..1 /\ t \in As(k)
  BY KernFields DEF KOk
<1>1. /\ a \in KernRec /\ OneEvent(a) /\ InEvent(a) = InEvent(k) \ {t}
      /\ Pd(a) = Pd(k) \ {t} /\ t \notin InEvent(a)
      /\ SameLists(k, a) /\ SameRest(k, a) /\ Fewer(k, a)
  BY <1>0, RemoveEventOK
<1> HIDE DEF a
<1>2. /\ Rd(a) = Rd(k) /\ As(a) = As(k) /\ Wt(a) = Wt(k)
  BY <1>1 DEF SameLists, Rd, As, Wt
<1>3. KOk(a)
  BY <1>0, <1>1, <1>2 DEF KOk, ReadyOK, OneList, SameLists
<1>4. Calm(k, a)
  BY <1>1, <1>2, <1>3 DEF Calm
<1>5. Calm(k, b) /\ (k.suspended = 1 => InEvent(b) = InEvent(k)) /\ Fewer(a, b)
  <2>1. CASE k.suspended = 0
    <3>1. b = MakeReady(a, t)
      BY <2>1
    <3>2. Calm(k, MakeReady(a, t)) /\ Fewer(a, MakeReady(a, t))
      <4>1. t \notin Wt(a)
        BY <1>0, <1>2 DEF OneList
      <4> QED  BY <1>0, <1>3, <1>4, <4>1, CalmReady, MakeReadyOK
    <3> QED  BY <2>1, <3>1, <3>2
  <2>2. CASE k.suspended # 0
    <3> DEFINE pd == Append(a.pendingReady, t)
    <3>1. b = [a EXCEPT !.pendingReady = pd]
      BY <2>2
    <3> HIDE DEF b
    <3>2. a.pendingReady \in Lists(Task) /\ t \notin Members(a.pendingReady)
      BY <1>1, KernFields DEF InEvent, Pd
    <3>3. pd \in Lists(Task) /\ Members(pd) = Pd(a) \cup {t}
      BY <3>2, AppendList DEF Pd
    <3> HIDE DEF pd
    <3>4. /\ b \in KernRec /\ SameLists(a, b) /\ SameRest(a, b) /\ b.pendingReady = pd
          /\ b.senders = a.senders /\ b.receivers = a.receivers
      BY <1>1, <3>1, <3>3 DEF KernRec, SameLists, SameRest
    <3>5. Rd(b) = Rd(a) /\ As(b) = As(a) /\ Wt(b) = Wt(a) /\ Pd(b) = Pd(a) \cup {t}
      BY <3>3, <3>4 DEF SameLists, Rd, As, Wt, Pd
    <3>6. InEvent(b) = InEvent(a) \cup {t}
      BY <3>4, <3>5 DEF InEvent
    <3>7. InEvent(b) = InEvent(k)
      BY <1>1, <3>6
    <3>8. OneEvent(b)
      <4>1. \A q \in Queue : t \notin Members(a.senders[q]) /\ t \notin Members(a.receivers[q])
        BY <1>1 DEF InEvent
      <4> QED  BY <1>1, <3>4, <3>5, <4>1 DEF OneEvent
    <3>9. ReadyOK(b) /\ OneList(b)
      BY <1>3, <3>4, <3>5 DEF KOk, ReadyOK, OneList, SameLists
    <3>10. KOk(b)
      BY <1>0, <1>2, <3>4, <3>5, <3>7, <3>8, <3>9 DEF KOk
    <3>11. SameRest(k, b)
      BY <1>1, <3>4 DEF SameRest
    <3>12. Fewer(a, b) /\ Fewer(k, b)
      <4>1. Fewer(a, b)
        BY <3>4 DEF Fewer
      <4> QED  BY <1>1, <4>1, FewerFacts
    <3> QED  BY <1>2, <2>2, <3>5, <3>7, <3>10, <3>11, <3>12 DEF Calm
  <2> QED  BY <2>1, <2>2
<1>6. j = [b EXCEPT !.yieldPending = @ \/ Outranks(k, t)]
  BY DEF xTaskRemoveFromEventList, a
<1> HIDE DEF b, j
<1>7. KOk(b) /\ b \in KernRec
  BY <1>5 DEF Calm, KOk
<1> DEFINE y == b.yieldPending \/ Outranks(k, t)
<1>8. y \in BOOLEAN
  OBVIOUS
<1>9. j = [b EXCEPT !.yieldPending = y]
  BY <1>6
<1> HIDE DEF y
<1>10. j \in KernRec /\ SameLists(b, j) /\ SameEvents(b, j) /\ SameRest(b, j)
  BY <1>7, <1>8, <1>9 DEF KernRec, SameLists, SameEvents, SameRest
<1>11. Calm(b, j) /\ InEvent(j) = InEvent(b)
  BY <1>7, <1>10, SameView
<1>12. Calm(k, j)
  BY <1>5, <1>11, CalmTrans
<1>13. t \notin Waiters(j)
  <2>1. Fewer(a, j)
    BY <1>5, <1>11, FewerFacts DEF Calm
  <2> QED  BY <1>1, <2>1, FewerFacts
<1> QED  BY <1>5, <1>11, <1>12, <1>13 DEF j

\* prvUnlockQueue wakes the first tasks of an event list.
LEMMA WakeUpToOK ==
  ASSUME NEW k, KOk(k), k.suspended = 1, NEW l \in Lists(Task), Members(l) \subseteq InEvent(k),
         NEW n \in Int
  PROVE  /\ Calm(k, WakeUpTo(k, n, l))
         /\ \A y \in 1..Len(l) : y <= n => l[y] \notin Waiters(WakeUpTo(k, n, l))
<1> DEFINE m == IF n < Len(l) THEN n ELSE Len(l)
           list == SubSeq(l, 1, m)
           d == IF m < 0 THEN 0 ELSE m
           K == {j \in KernRec : Calm(k, j) /\ InEvent(j) = InEvent(k)}
<1>0. k \in KernRec /\ Len(l) \in Nat /\ InEvent(k) \subseteq Task
  BY ListBasics, KernMembers DEF KOk
<1>1. /\ d \in Nat /\ DOMAIN list = 1..d
      /\ \A i \in 1..d : list[i] = l[i] /\ l[i] \in Members(l)
      /\ \A y \in 1..Len(l) : y <= n => y \in 1..d
  <2>1. CASE m < 0
    <3>1. list = <<>>
      BY <1>0, <2>1, SubSeqEmpty
    <3>2. \A y \in 1..Len(l) : ~(y <= n)
      BY <1>0, <2>1
    <3> QED  BY <2>1, <3>1, <3>2
  <2>2. CASE ~(m < 0)
    <3>1. m \in 0..Len(l)
      BY <1>0, <2>2
    <3>4. \A y \in 1..Len(l) : y <= n => y \in 1..m
      BY <1>0, <2>2
    <3> HIDE DEF m
    <3>2. /\ list \in Seq(Task) /\ Len(list) = m
          /\ \A i \in 1..m : list[i] = l[i] /\ l[i] \in Members(l)
      BY <3>1, PrefixList
    <3>3. d = m /\ m \in Nat
      BY <1>0, <2>2, <3>1
    <3> HIDE DEF list, d
    <3> QED  BY <3>2, <3>3, <3>4
  <2> QED  BY <2>1, <2>2
<1>2. WakeUpTo(k, n, l) = WakeEach(k, list)
  BY DEF WakeUpTo
<1> HIDE DEF list, d, m
<1>3. k \in K
  BY <1>0, CalmSelf
<1>4. \A i \in K, x \in 1..d : xTaskRemoveFromEventList(i, list[x]) \in K
  <2> SUFFICES ASSUME NEW i \in K, NEW x \in 1..d
               PROVE  xTaskRemoveFromEventList(i, list[x]) \in K
    OBVIOUS
  <2> DEFINE t == list[x]
  <2>0. t \in InEvent(k)
    BY <1>1
  <2>1. t \in Task /\ t \in InEvent(i) /\ Calm(k, i) /\ KOk(i) /\ i.suspended = 1
    BY <1>0, <2>0 DEF Calm, SameRest
  <2> HIDE DEF t
  <2>2. /\ Calm(i, xTaskRemoveFromEventList(i, t))
        /\ InEvent(xTaskRemoveFromEventList(i, t)) = InEvent(i)
    BY <2>1, WakeOK
  <2>3. Calm(k, xTaskRemoveFromEventList(i, t))
    BY <2>1, <2>2, CalmTrans
  <2> QED  BY <2>2, <2>3 DEF Calm, KOk, t
<1>5. PICK f \in [0..d -> K] :
        /\ f[0] = k /\ f[d] = WakeEach(k, list)
        /\ \A i \in 1..d : f[i] = xTaskRemoveFromEventList(f[i - 1], list[i])
  <2>1. d \in Nat /\ DOMAIN list = 1..d
    BY <1>1
  <2> HIDE DEF K
  <2>2. WokenByOne(d, K, k, list)
    BY <2>1, <1>3, <1>4, WakeEachSteps
  <2> QED  BY <2>2 DEF WokenByOne
<1> DEFINE T == {x \in 0..d : \A y \in 1..x : l[y] \notin Waiters(f[x])}
<1>6. 0 \in T
  BY <1>1
<1>7. ASSUME NEW x \in 0..d - 1, x \in T PROVE x + 1 \in T
  <2> DEFINE i == f[x]
             z == x + 1
             t == l[z]
             j == xTaskRemoveFromEventList(i, t)
  <2>1. x \in 0..d /\ z \in 1..d /\ z \in 0..d /\ z - 1 = x /\ \A y \in 1..z : y # z => y \in 1..x
    BY <1>1
  <2>2. i \in K /\ f[z] = j /\ t \in InEvent(k)
    BY <1>1, <1>5, <2>1
  <2>3. KOk(i) /\ i.suspended = 1 /\ t \in Task /\ t \in InEvent(i)
    BY <1>0, <2>2 DEF Calm, SameRest
  <2> HIDE DEF i, t
  <2>4. Calm(i, j) /\ t \notin Waiters(j)
    BY <2>3, WakeOK
  <2>5. Waiters(j) \subseteq Waiters(i)
    BY <2>4, FewerFacts DEF Calm
  <2>6. \A y \in 1..x : l[y] \notin Waiters(i)
    BY <1>7 DEF i
  <2> HIDE DEF j
  <2>7. \A y \in 1..z : l[y] \notin Waiters(j)
    <3>1. ASSUME NEW y \in 1..z, y = z PROVE l[y] \notin Waiters(j)
      BY <2>4, <3>1 DEF t
    <3>2. ASSUME NEW y \in 1..z, y # z PROVE l[y] \notin Waiters(j)
      BY <2>1, <2>5, <2>6, <3>2
    <3> QED  BY <3>1, <3>2
  <2> HIDE DEF z
  <2>8. z \in T
    BY <2>1, <2>2, <2>7
  <2> QED  BY <2>8 DEF z
<1>8. d \in T
  <2>1. \A x \in 0..d : x \in T
    <3> HIDE DEF T
    <3> QED  BY <1>1, <1>6, <1>7, UpTo
  <2> QED  BY <1>1, <2>1
<1>9. WakeUpTo(k, n, l) = f[d] /\ f[d] \in K
  BY <1>1, <1>2, <1>5
<1>10. \A y \in 1..d : l[y] \notin Waiters(f[d])
  BY <1>8
<1>11. Calm(k, f[d])
  BY <1>9
<1> HIDE DEF K, T
<1> QED  BY <1>1, <1>9, <1>10, <1>11

\* The tasks that xTaskResumeAll makes ready: none is left in the list.
LEMMA PendedReadyOK ==
  ASSUME NEW k, KOk(k)
  PROVE  Calm(k, PendedReady(k)) /\ (k.suspended = 0 => Pd(PendedReady(k)) = {})
<1> DEFINE list == k.pendingReady
           n == Len(list)
           K == {j \in KernRec : Calm(k, j) /\ Pd(j) \subseteq Pd(k)}
<1>0. /\ k \in KernRec /\ list \in Lists(Task) /\ n \in Nat /\ DOMAIN list = 1..n
      /\ \A x \in 1..n : list[x] \in Task /\ list[x] \in As(k)
      /\ Pd(k) = {list[x] : x \in 1..n}
  <2>1. k \in KernRec /\ list \in Lists(Task)
    BY KernFields DEF KOk
  <2>2. n \in Nat /\ DOMAIN list = 1..n
    BY <2>1, ListBasics
  <2>3. Pd(k) = {list[x] : x \in 1..n}
    BY DEF Pd, Members
  <2>4. Pd(k) \subseteq Task /\ Pd(k) \subseteq InEvent(k)
    BY <2>1, KernMembers DEF InEvent
  <2>5. \A x \in 1..n : list[x] \in Task /\ list[x] \in As(k)
    <3> HIDE DEF list, n
    <3> QED  BY <2>3, <2>4 DEF KOk
  <2> QED  BY <2>1, <2>2, <2>3, <2>5
<1>1. list = k.pendingReady
  OBVIOUS
<1> HIDE DEF list, n
<1>2. k \in K
  BY <1>0, CalmSelf
<1>3. ASSUME NEW i \in K, NEW x \in 1..n
      PROVE  PendedTask(i, list[x]) \in K /\ Pd(PendedTask(i, list[x])) = Pd(i) \ {list[x]}
  <2> DEFINE t == list[x]
             a == MakeReady(i, t)
             j == PendedTask(i, t)
             y == a.yieldPending \/ Outranks(i, t)
  <2>1. t \in Task /\ t \in As(k) /\ Calm(k, i) /\ KOk(i)
    BY <1>0 DEF Calm
  <2> HIDE DEF t
  <2>2. t \notin Wt(i)
    BY <2>1 DEF Calm, KOk, OneList
  <2>3. Calm(k, a) /\ KOk(a) /\ Pd(a) = Pd(i) \ {t}
    BY <2>1, <2>2, MakeReadyOK, CalmReady
  <2>4. j = [a EXCEPT !.yieldPending = y] /\ y \in BOOLEAN
    BY DEF PendedTask
  <2> HIDE DEF a, j, y
  <2>5. j \in KernRec /\ SameLists(a, j) /\ SameEvents(a, j) /\ SameRest(a, j)
    BY <2>3, <2>4 DEF KernRec, SameLists, SameEvents, SameRest, KOk
  <2>6. Calm(a, j) /\ Pd(j) = Pd(a)
    BY <2>3, <2>5, SameView
  <2>7. Calm(k, j)
    BY <2>3, <2>6, CalmTrans
  <2> QED  BY <2>3, <2>5, <2>6, <2>7 DEF j, t
<1>4. PICK f \in [0..n -> K] : /\ f[0] = k /\ f[n] = PendedReady(k)
                             /\ \A i \in 1..n : f[i] = PendedTask(f[i - 1], list[i])
  <2>1. PendedIn(n, K, k) /\ n \in Nat
    BY <1>0, <1>1, <1>3 DEF PendedIn
  <2> HIDE DEF K
  <2>2. PendedByOne(n, K, k)
    BY <1>2, <2>1, PendedReadySteps
  <2> QED  BY <1>1, <2>2 DEF PendedByOne
<1> DEFINE Gone(i) == \A x \in 1..i : list[x] \notin Pd(f[i])
           T == {i \in 0..n : Gone(i)}
<1>5. 0 \in T
  BY <1>0
<1>6. ASSUME NEW i \in 0..n - 1, i \in T PROVE i + 1 \in T
  <2> DEFINE j == i + 1
  <2>1. j \in 1..n /\ j \in 0..n /\ j - 1 = i /\ i \in 0..n
        /\ \A x \in 1..j : x \in 1..i \/ x = j
    BY <1>0
  <2> HIDE DEF j
  <2>2. f[j] = PendedTask(f[i], list[j]) /\ f[i] \in K
    <3>1. f[j] = PendedTask(f[j - 1], list[j])
      BY <1>4, <2>1
    <3>2. f[i] \in K
      BY <1>4, <2>1
    <3> QED  BY <2>1, <3>1, <3>2
  <2>3. Pd(f[j]) = Pd(f[i]) \ {list[j]}
    BY <1>3, <2>1, <2>2
  <2>4. Gone(i)
    BY <1>6
  <2>5. Gone(j)
    BY <2>1, <2>3, <2>4
  <2> HIDE DEF Gone
  <2> QED  BY <2>1, <2>5 DEF j
<1>7. Gone(n)
  <2>1. \A i \in 0..n - 1 : i \in T => i + 1 \in T
    BY <1>6
  <2> HIDE DEF T
  <2>2. \A i \in 0..n : i \in T
    BY <1>0, <1>5, <2>1, UpTo
  <2>3. n \in 0..n
    BY <1>0
  <2>4. n \in T
    BY <2>2, <2>3
  <2> QED  BY <2>4 DEF T
<1>8. PendedReady(k) \in K
  <2>1. n \in 0..n
    BY <1>0
  <2> HIDE DEF K
  <2> QED  BY <1>4, <2>1
<1>9. \A x \in 1..n : list[x] \notin Pd(PendedReady(k))
  BY <1>4, <1>7
<1>10. Pd(PendedReady(k)) \subseteq Pd(k) /\ Calm(k, PendedReady(k))
  BY <1>8
<1> QED  BY <1>0, <1>9, <1>10

\* The ticks it makes up for.
LEMMA PendedTicksOK ==
  ASSUME NEW k, KOk(k)
  PROVE  Calm(k, PendedTicks(k))
<1> DEFINE n == IF k.pendedTicks < 0 THEN 0 ELSE k.pendedTicks
           K == CalmFrom(k)
<1>0. k \in KernRec /\ k.pendedTicks \in Int
  BY KernFields DEF KOk
<1>1. n \in Nat /\ 1..k.pendedTicks = 1..n
  <2>1. CASE k.pendedTicks < 0
    <3>1. 1..k.pendedTicks = {} /\ 1..0 = {}
      BY <1>0, <2>1
    <3> QED  BY <2>1, <3>1
  <2>2. CASE ~(k.pendedTicks < 0)
    BY <1>0, <2>2
  <2> QED  BY <2>1, <2>2
<1> HIDE DEF n
<1>2. k \in K
  BY <1>0, CalmSelf DEF CalmFrom
<1>3. ASSUME NEW i \in K PROVE PendedTick(i) \in K
  <2> DEFINE a == xTaskIncrementTick(i)
             p == a.pendedTicks - 1
             j == [a EXCEPT !.pendedTicks = p]
  <2>1. Calm(k, i) /\ KOk(i)
    BY DEF CalmFrom, Calm
  <2>2. Calm(i, a)
    BY <2>1, TickOK
  <2>3. PendedTick(i) = j
    BY DEF PendedTick
  <2> HIDE DEF a
  <2>4. KOk(a) /\ a \in KernRec /\ p \in Int
    BY <2>2, KernFields DEF Calm, KOk
  <2> HIDE DEF p
  <2>5. j \in KernRec /\ SameLists(a, j) /\ SameEvents(a, j) /\ SameRest(a, j)
    BY <2>4 DEF KernRec, SameLists, SameEvents, SameRest
  <2> HIDE DEF j
  <2>6. Calm(a, j)
    BY <2>4, <2>5, SameView
  <2>7. Calm(k, j)
    BY <2>1, <2>2, <2>6, CalmTrans
  <2> QED  BY <2>3, <2>5, <2>7 DEF CalmFrom
<1>4. PendedTicks(k) \in K
  <2>1. \A j \in K : PendedTick(j) \in K
    BY <1>3
  <2> HIDE DEF K
  <2>2. PICK f \in [0..n -> K] : f[n] = PendedTicks(k)
    BY <1>1, <1>2, <2>1, PendedTicksSteps
  <2>3. n \in 0..n
    BY <1>1
  <2> QED  BY <2>2, <2>3
<1> QED  BY <1>4 DEF CalmFrom

\* xTaskResumeAll up to its yield.
LEMMA ResumedOK ==
  ASSUME NEW k, KOk(k), k.suspended = 1
  PROVE  LET j == Resumed(k)
         IN  /\ KOk(j) /\ Rd(k) \subseteq Rd(j) /\ Rd(j) \cup As(j) = Rd(k) \cup As(k)
             /\ j.current = k.current /\ j.suspended = 0 /\ Pd(j) = {} /\ Fewer(k, j)
             /\ j.waitingTermination = k.waitingTermination
<1> DEFINE s == k.suspended - 1
           a == [k EXCEPT !.suspended = s]
           b == PendedReady(a)
           j == PendedTicks(b)
<1>0. k \in KernRec /\ s = 0 /\ s \in 0..1
  BY DEF KOk
<1> HIDE DEF s
<1>1. /\ a \in KernRec /\ SameLists(k, a) /\ SameEvents(k, a) /\ a.current = k.current
      /\ a.suspended = 0 /\ a.waitingTermination = k.waitingTermination
  BY <1>0 DEF KernRec, SameLists, SameEvents
<1>2. Resumed(k) = j
  BY DEF Resumed, s
<1> HIDE DEF a
<1>3. KOk(a) /\ Rd(a) = Rd(k) /\ As(a) = As(k)
  BY <1>1, SameView
<1>4. Calm(a, b) /\ Pd(b) = {}
  BY <1>1, <1>3, PendedReadyOK
<1> HIDE DEF b
<1>5. KOk(b) /\ b.suspended = 0
  BY <1>1, <1>4 DEF Calm, SameRest
<1>6. Calm(b, j)
  BY <1>5, PendedTicksOK
<1> HIDE DEF j
<1>7. Pd(j) = {}
  BY <1>4, <1>5, <1>6 DEF Calm
<1>8. Calm(a, j)
  BY <1>4, <1>6, CalmTrans
<1>9. Fewer(k, j)
  BY <1>1, <1>8, FewerFacts DEF Calm
<1> QED  BY <1>1, <1>2, <1>3, <1>7, <1>8, <1>9 DEF Calm, SameRest

-----------------------------------------------------------------------------
(***************************************************************************)
(* What the calls do with the lists.                                       *)
(***************************************************************************)
\* From k to j tasks have become ready, and the best of them may have been chosen.
Moves(k, j) ==
  /\ KOk(j) /\ Rd(k) \subseteq Rd(j) /\ Rd(j) \cup As(j) = Rd(k) \cup As(k)
  /\ j.suspended = k.suspended /\ j.waitingTermination = k.waitingTermination
  /\ k.suspended = 0 => Pd(j) \subseteq Pd(k)
  /\ Fewer(k, j)
  /\ j.current = k.current \/ (j.current \in Rd(j) /\ Best(j) /\ j.suspended = 0)

\* A yield after calm steps, if there is one.
LEMMA CalmThenYield ==
  ASSUME NEW k, IdleTask \in Rd(k), NEW i, Calm(k, i), NEW cond
  PROVE  Moves(k, YieldIf(cond, i)) /\ Waiters(YieldIf(cond, i)) \subseteq Waiters(i)
<1>1. KOk(i) /\ IdleTask \in Rd(i)
  BY DEF Calm
<1>2. Moves(k, i)
  BY DEF Calm, SameRest, Moves
<1>3. Switched(i, vTaskSwitchContext(i))
  BY <1>1, SwitchOK
<1>4. Moves(k, vTaskSwitchContext(i))
  <2>1. Fewer(k, vTaskSwitchContext(i))
    BY <1>3, FewerFacts DEF Calm, Switched
  <2> QED  BY <1>3, <2>1 DEF Calm, SameRest, Moves, Switched
<1>5. Waiters(vTaskSwitchContext(i)) \subseteq Waiters(i)
  BY <1>3, FewerFacts DEF Switched
<1> QED  BY <1>2, <1>4, <1>5 DEF YieldIf

\* A task is woken, if one waits.
LEMMA WakeAndYieldOK ==
  ASSUME NEW k, KOk(k), IdleTask \in Rd(k), NEW l \in Lists(Task), Members(l) \subseteq InEvent(k)
  PROVE  /\ Moves(k, WakeAndYield(k, l))
         /\ l # <<>> => Head(l) \in Members(l) \ Waiters(WakeAndYield(k, l))
<1>1. CASE l = <<>>
  BY <1>1 DEF WakeAndYield, Moves, Fewer
<1>2. CASE l # <<>>
  <2> DEFINE t == Head(l)
             i == xTaskRemoveFromEventList(k, t)
  <2>1. t \in InEvent(k) /\ t \in Task /\ t \in Members(l)
    <3>1. t \in Members(l) /\ InEvent(k) \subseteq Task
      BY <1>2, ListBasics DEF InEvent
    <3> QED  BY <3>1
  <2>2. WakeAndYield(k, l) = YieldIf(Outranks(k, t), i)
    BY <1>2 DEF WakeAndYield
  <2> HIDE DEF t
  <2>3. Calm(k, i) /\ t \notin Waiters(i)
    BY <2>1, WakeOK
  <2> HIDE DEF i
  <2>4. /\ Moves(k, YieldIf(Outranks(k, t), i))
        /\ Waiters(YieldIf(Outranks(k, t), i)) \subseteq Waiters(i)
    BY <2>3, CalmThenYield
  <2> QED  BY <2>1, <2>2, <2>3, <2>4 DEF t
<1> QED  BY <1>1, <1>2

\* The tasks in the event lists of a queue are woken from there.
LEMMA EventLists ==
  ASSUME NEW k, KOk(k), NEW q \in Queue
  PROVE  /\ k.senders[q] \in Lists(Task) /\ Members(k.senders[q]) \subseteq InEvent(k)
         /\ k.receivers[q] \in Lists(Task) /\ Members(k.receivers[q]) \subseteq InEvent(k)
BY KernFields, KernMembers DEF KOk, InEvent

\* From k to j nothing has moved but the ready task whose priority has changed.
SamePlaces(k, j) ==
  /\ KOk(j) /\ Rd(j) = Rd(k) /\ As(j) = As(k) /\ Pd(j) = Pd(k) /\ InEvent(j) = InEvent(k)
  /\ SameRest(k, j) /\ SameEvents(k, j)

\* vTaskPriorityDisinherit, of a task that is ready.
LEMMA DisinheritOK ==
  ASSUME NEW k, KOk(k), NEW holder, holder = None \/ holder \in Rd(k)
  PROVE  SamePlaces(k, vTaskPriorityDisinherit(k, holder))
<1>0. SamePlaces(k, k)
  BY DEF SamePlaces, SameRest, SameEvents
<1>1. CASE holder = None
  BY <1>0, <1>1 DEF vTaskPriorityDisinherit
<1>2. CASE holder # None /\ k.prio[holder] = k.basePrio[holder]
  BY <1>0, <1>2 DEF vTaskPriorityDisinherit
<1>3. CASE holder # None /\ k.prio[holder] # k.basePrio[holder]
  <2> DEFINE a == RemoveGenericItem(k, holder)
             pr == k.basePrio[holder]
             b == [a EXCEPT !.prio[holder] = pr]
             j == prvAddTaskToReadyList(b, holder)
  <2>0. /\ k \in KernRec /\ ReadyOK(k) /\ OneList(k) /\ holder \in Task
        /\ holder \in Rd(k) /\ holder \notin Wt(k) /\ pr \in Level
    BY <1>3, KernFields DEF KOk, Rd, OneList
  <2>1. ReadyBut(k, holder)
    BY <2>0 DEF ReadyBut, ReadyOK
  <2>2. /\ a \in KernRec /\ ReadyOK(a) /\ OneList(a)
        /\ Rd(a) = Rd(k) \ {holder} /\ As(a) = As(k) \ {holder} /\ Wt(a) = Wt(k)
        /\ \A p \in Level : holder \notin Members(a.ready[p])
        /\ SameEvents(k, a) /\ SameRest(k, a)
    BY <2>0, <2>1, RemoveGenericOK
  <2>3. vTaskPriorityDisinherit(k, holder) = j
    BY <1>3 DEF vTaskPriorityDisinherit
  <2> HIDE DEF a, pr
  <2>4. /\ b \in KernRec /\ SameEvents(a, b) /\ SameRest(a, b)
        /\ b.ready = a.ready /\ b.top = a.top
        /\ b.delayed = a.delayed /\ b.overflowDelayed = a.overflowDelayed
        /\ b.suspendedTasks = a.suspendedTasks
        /\ \A u \in Task \ {holder} : b.prio[u] = a.prio[u]
        /\ b.prio \in [Task -> Level]
    <3>1. a.prio \in [Task -> Level]
      BY <2>2, KernFields
    <3> DEFINE f == [a.prio EXCEPT ![holder] = pr]
    <3>2. f \in [Task -> Level] /\ \A u \in Task \ {holder} : f[u] = a.prio[u]
      BY <2>0, <3>1
    <3>3. b = [a EXCEPT !.prio = f]
      BY <2>2 DEF KernRec
    <3> HIDE DEF b, f
    <3> QED  BY <2>2, <3>2, <3>3 DEF KernRec, SameEvents, SameRest
  <2> HIDE DEF b
  <2>5. ReadyOK(b)
    <3>1. \A p \in Level : End \in Members(b.ready[p]) /\ (b.ready[p] # <<End>> => p <= b.top)
      BY <2>2, <2>4 DEF ReadyOK
    <3>2. ASSUME NEW p \in Level, NEW u \in Task, u \in Members(b.ready[p]) PROVE b.prio[u] = p
      <4>1. u # holder
        BY <2>2, <2>4, <3>2
      <4> QED  BY <2>2, <2>4, <3>2, <4>1 DEF ReadyOK
    <3> QED  BY <3>1, <3>2 DEF ReadyOK
  <2>6. As(b) = As(a) /\ Wt(b) = Wt(a)
    BY <2>4 DEF As, Wt, SameRest
  <2>7. Rd(b) = Rd(a)
    <3>1. ASSUME NEW u \in Task PROVE u \in Rd(b) <=> u \in Rd(a)
      <4>1. CASE u = holder
        <5>1. b.prio[u] \in Level /\ a.prio[u] \in Level
          BY <2>2, <2>4, KernFields
        <5> QED  BY <2>2, <2>4, <4>1, <5>1 DEF Rd
      <4>2. CASE u # holder
        BY <2>4, <4>2 DEF Rd
      <4> QED  BY <4>1, <4>2
    <3>2. Rd(a) \subseteq Task /\ Rd(b) \subseteq Task
      BY DEF Rd
    <3> QED  BY <3>1, <3>2
  <2>8. OneList(b)
    BY <2>2, <2>4, <2>6, <2>7 DEF OneList
  <2>9. holder \notin Rd(b) \cup As(b) \cup Wt(b)
    BY <2>0, <2>2, <2>6, <2>7
  <2>10. /\ j \in KernRec /\ ReadyOK(j) /\ OneList(j)
         /\ Rd(j) = Rd(b) \cup {holder} /\ As(j) = As(b) /\ Wt(j) = Wt(b)
         /\ SameEvents(b, j) /\ SameRest(b, j)
    BY <2>0, <2>4, <2>5, <2>8, <2>9, AddReadyOK
  <2> HIDE DEF j
  <2>11. SameEvents(k, j) /\ SameRest(k, j)
    BY <2>2, <2>4, <2>10 DEF SameEvents, SameRest
  <2>12. holder \notin As(k)
    BY <2>0 DEF OneList
  <2>13. Rd(j) = Rd(k) /\ As(j) = As(k)
    BY <2>0, <2>2, <2>6, <2>7, <2>10, <2>12
  <2>14. Pd(j) = Pd(k) /\ InEvent(j) = InEvent(k) /\ OneEvent(j)
    BY <2>11 DEF KOk, SameEvents, Pd, InEvent, OneEvent
  <2>15. KOk(j)
    BY <2>10, <2>13, <2>14 DEF KOk
  <2> QED  BY <2>3, <2>11, <2>13, <2>14, <2>15 DEF SamePlaces
<1> QED  BY <1>1, <1>2, <1>3

\* vTaskPriorityInherit.
LEMMA InheritOK ==
  ASSUME NEW k, KOk(k), NEW holder \in Task \cup {None}
  PROVE  SamePlaces(k, vTaskPriorityInherit(k, holder))
<1>0. SamePlaces(k, k)
  BY DEF SamePlaces, SameRest, SameEvents
<1>1. CASE holder = None
  BY <1>0, <1>1 DEF vTaskPriorityInherit
<1>2. CASE holder # None /\ k.prio[holder] >= k.prio[k.current]
  BY <1>0, <1>2 DEF vTaskPriorityInherit
<1>3. CASE holder # None /\ ~(k.prio[holder] >= k.prio[k.current])
  <2> DEFINE pr == k.prio[k.current]
             a == [k EXCEPT !.prio[holder] = pr]
             b == RemoveGenericItem(a, holder)
             j == vTaskPriorityInherit(k, holder)
  <2>0. /\ k \in KernRec /\ ReadyOK(k) /\ OneList(k) /\ OneEvent(k) /\ InEvent(k) \subseteq As(k)
        /\ holder \in Task /\ pr \in Level /\ k.prio \in [Task -> Level]
        /\ k.prio[holder] # pr
    <3>1. k \in KernRec /\ holder \in Task
      BY <1>3 DEF KOk
    <3>2. pr \in Level /\ k.prio[holder] \in Level /\ k.prio \in [Task -> Level]
      BY <3>1, KernFields
    <3>3. pr \in Nat /\ k.prio[holder] \in Nat
      BY <3>2, TaskFacts
    <3> QED  BY <1>3, <3>1, <3>2, <3>3 DEF KOk
  <2>1. j = IF Contains(k.ready[k.prio[holder]], holder)
            THEN prvAddTaskToReadyList(b, holder) ELSE a
    BY <1>3 DEF vTaskPriorityInherit
  <2> HIDE DEF pr, j
  <2>2. /\ a \in KernRec /\ SameEvents(k, a) /\ SameRest(k, a)
        /\ a.ready = k.ready /\ a.top = k.top
        /\ a.delayed = k.delayed /\ a.overflowDelayed = k.overflowDelayed
        /\ a.suspendedTasks = k.suspendedTasks
        /\ \A u \in Task \ {holder} : a.prio[u] = k.prio[u]
        /\ a.prio[holder] = pr
    <3> DEFINE f == [k.prio EXCEPT ![holder] = pr]
    <3>1. f \in [Task -> Level] /\ f[holder] = pr /\ \A u \in Task \ {holder} : f[u] = k.prio[u]
      BY <2>0
    <3>2. a = [k EXCEPT !.prio = f]
      BY <2>0 DEF KernRec
    <3> HIDE DEF a, f
    <3> QED  BY <2>0, <3>1, <3>2 DEF KernRec, SameEvents, SameRest
  <2> HIDE DEF a
  <2>3. As(a) = As(k) /\ Wt(a) = Wt(k) /\ Pd(a) = Pd(k) /\ InEvent(a) = InEvent(k) /\ OneEvent(a)
    BY <2>0, <2>2 DEF As, Wt, Pd, InEvent, OneEvent, SameRest, SameEvents
  <2>4. Rd(a) = Rd(k) \ {holder}
    <3>1. ASSUME NEW u \in Task \ {holder} PROVE u \in Rd(a) <=> u \in Rd(k)
      BY <2>2 DEF Rd
    <3>2. holder \notin Rd(a)
      BY <2>0, <2>2 DEF Rd, ReadyOK
    <3>3. Rd(a) \subseteq Task /\ Rd(k) \subseteq Task
      BY DEF Rd
    <3> QED  BY <3>1, <3>2, <3>3
  <2>5. ReadyBut(a, holder)
    BY <2>0, <2>2 DEF ReadyBut, ReadyOK
  <2>6. OneList(a)
    BY <2>0, <2>2, <2>3, <2>4 DEF OneList
  <2>7. CASE holder \in Rd(k)
    <3>1. j = prvAddTaskToReadyList(b, holder)
      BY <2>1, <2>7, ContainsMembers DEF Rd
    <3>2. holder \notin As(k) /\ holder \notin Wt(k)
      BY <2>0, <2>7 DEF OneList
    <3>3. holder \notin Wt(a)
      BY <2>3, <3>2
    <3>4. /\ b \in KernRec /\ ReadyOK(b) /\ OneList(b)
          /\ Rd(b) = Rd(a) \ {holder} /\ As(b) = As(a) \ {holder} /\ Wt(b) = Wt(a)
          /\ SameEvents(a, b) /\ SameRest(a, b)
      BY <2>0, <2>2, <2>5, <2>6, <3>3, RemoveGenericOK
    <3> HIDE DEF b
    <3>5. holder \notin Rd(b) \cup As(b) \cup Wt(b)
      BY <3>3, <3>4
    <3> DEFINE i == prvAddTaskToReadyList(b, holder)
    <3>6. /\ i \in KernRec /\ ReadyOK(i) /\ OneList(i)
          /\ Rd(i) = Rd(b) \cup {holder} /\ As(i) = As(b) /\ Wt(i) = Wt(b)
          /\ SameEvents(b, i) /\ SameRest(b, i)
      BY <2>0, <3>4, <3>5, AddReadyOK
    <3> HIDE DEF i
    <3>7. SameEvents(k, i) /\ SameRest(k, i)
      BY <2>2, <3>4, <3>6 DEF SameEvents, SameRest
    <3>8. Rd(i) = Rd(k) /\ As(i) = As(k)
      BY <2>3, <2>4, <2>7, <3>2, <3>4, <3>6
    <3>9. Pd(i) = Pd(k) /\ InEvent(i) = InEvent(k) /\ OneEvent(i)
      BY <2>0, <3>7 DEF SameEvents, Pd, InEvent, OneEvent
    <3>10. KOk(i)
      BY <2>0, <3>6, <3>8, <3>9 DEF KOk
    <3> QED  BY <3>1, <3>7, <3>8, <3>9, <3>10 DEF SamePlaces, i, j
  <2>8. CASE holder \notin Rd(k)
    <3>1. j = a
      BY <2>0, <2>1, <2>8, ContainsMembers DEF Rd
    <3>2. Rd(a) = Rd(k)
      BY <2>4, <2>8
    <3>3. ReadyOK(a)
      <4>1. \A p \in Level : holder \notin Members(k.ready[p])
        BY <2>0, <2>8 DEF Rd, ReadyOK
      <4>2. \A p \in Level : holder \notin Members(a.ready[p])
        BY <2>2, <4>1
      <4> QED  BY <2>5, <4>2 DEF ReadyBut, ReadyOK
    <3>4. KOk(a)
      BY <2>0, <2>2, <2>3, <2>6, <3>3 DEF KOk
    <3> QED  BY <2>2, <2>3, <3>1, <3>2, <3>4 DEF SamePlaces, j
  <2> QED  BY <2>7, <2>8
<1> QED  BY <1>1, <1>2, <1>3

\* What vTaskDelete does with the task u before it yields.
LEMMA DeleteOK ==
  ASSUME NEW k, KOk(k), NEW u \in Task, u \notin Wt(k)
  PROVE  LET j == [RemoveGenericItem(RemoveEventItem(k, u), u)
                     EXCEPT !.waitingTermination = Append(@, u)]
         IN  /\ KOk(j) /\ Rd(j) = Rd(k) \ {u} /\ As(j) = As(k) \ {u} /\ Wt(j) = Wt(k) \cup {u}
             /\ Pd(j) \subseteq Pd(k) /\ Fewer(k, j)
             /\ j.current = k.current /\ j.suspended = k.suspended
             /\ j.waitingTermination # <<>>
<1> DEFINE a == RemoveEventItem(k, u)
           b == RemoveGenericItem(a, u)
           wt == Append(b.waitingTermination, u)
           j == [b EXCEPT !.waitingTermination = wt]
<1>8. j = [RemoveGenericItem(RemoveEventItem(k, u), u)
             EXCEPT !.waitingTermination = Append(@, u)]
  OBVIOUS
<1>0. k \in KernRec /\ ReadyOK(k) /\ OneList(k) /\ OneEvent(k) /\ InEvent(k) \subseteq As(k)
  BY DEF KOk
<1>1. /\ a \in KernRec /\ OneEvent(a) /\ InEvent(a) = InEvent(k) \ {u} /\ Pd(a) = Pd(k) \ {u}
      /\ SameLists(k, a) /\ SameRest(k, a) /\ Fewer(k, a)
  BY <1>0, RemoveEventOK
<1> HIDE DEF a
<1>2. /\ Rd(a) = Rd(k) /\ As(a) = As(k) /\ Wt(a) = Wt(k)
  BY <1>1 DEF SameLists, Rd, As, Wt
<1>3. ReadyBut(a, u) /\ OneList(a) /\ u \notin Wt(a)
  BY <1>0, <1>1, <1>2 DEF ReadyBut, ReadyOK, OneList, SameLists
<1>4. /\ b \in KernRec /\ ReadyOK(b) /\ OneList(b)
      /\ Rd(b) = Rd(a) \ {u} /\ As(b) = As(a) \ {u} /\ Wt(b) = Wt(a)
      /\ SameEvents(a, b) /\ SameRest(a, b)
  BY <1>1, <1>3, RemoveGenericOK
<1> HIDE DEF b
<1>5. b.waitingTermination \in Lists(Task) /\ u \notin Members(b.waitingTermination)
  <2>1. b.waitingTermination \in Lists(Task)
    BY <1>4, KernFields
  <2> QED  BY <1>3, <1>4, <2>1 DEF Wt
<1>6. wt \in Lists(Task) /\ Members(wt) = Wt(b) \cup {u} /\ wt # <<>>
  <2>1. wt \in Lists(Task) /\ Members(wt) = Members(b.waitingTermination) \cup {u}
    BY <1>5, AppendList
  <2>2. wt # <<>>
    BY <2>1, ListBasics
  <2> QED  BY <2>1, <2>2 DEF Wt
<1> HIDE DEF wt
<1>7. /\ j \in KernRec /\ j.waitingTermination = wt /\ SameEvents(b, j)
      /\ j.current = b.current /\ j.suspended = b.suspended
      /\ j.ready = b.ready /\ j.top = b.top /\ j.prio = b.prio
      /\ j.delayed = b.delayed /\ j.overflowDelayed = b.overflowDelayed
      /\ j.suspendedTasks = b.suspendedTasks
  BY <1>4, <1>6 DEF KernRec, SameEvents
<1> HIDE DEF j
<1>9. Rd(j) = Rd(b) /\ As(j) = As(b) /\ Wt(j) = Wt(b) \cup {u} /\ ReadyOK(j)
  BY <1>4, <1>6, <1>7 DEF Rd, As, Wt, ReadyOK
<1>10. OneList(j)
  BY <1>4, <1>7, <1>9 DEF OneList
<1>11. SameEvents(a, j)
  BY <1>4, <1>7 DEF SameEvents
<1>12. InEvent(j) = InEvent(a) /\ Pd(j) = Pd(a) /\ OneEvent(j)
  BY <1>1, <1>11 DEF SameEvents, InEvent, Pd, OneEvent
<1>13. /\ Rd(j) = Rd(k) \ {u} /\ As(j) = As(k) \ {u} /\ Wt(j) = Wt(k) \cup {u}
       /\ InEvent(j) = InEvent(k) \ {u} /\ Pd(j) \subseteq Pd(k)
  BY <1>1, <1>2, <1>4, <1>9, <1>12
<1>14. KOk(j)
  BY <1>0, <1>7, <1>9, <1>10, <1>12, <1>13 DEF KOk
<1>15. j.current = k.current /\ j.suspended = k.suspended
  BY <1>1, <1>4, <1>7 DEF SameRest
<1>16. Fewer(k, j)
  BY <1>1, <1>11, FewerFacts
<1> QED  BY <1>6, <1>7, <1>8, <1>13, <1>14, <1>15, <1>16

\* What xTaskGenericCreate does with the new task u before it yields.
LEMMA CreateOK ==
  ASSUME NEW k, KOk(k), NEW u \in Task, u \notin Rd(k) \cup As(k) \cup Wt(k)
  PROVE  LET j == prvAddTaskToReadyList(
                    [k EXCEPT !.prio[u] = Priority[u], !.basePrio[u] = Priority[u], !.wake[u] = 0], u)
         IN  /\ KOk(j) /\ Rd(j) = Rd(k) \cup {u} /\ As(j) = As(k) /\ Pd(j) = Pd(k)
             /\ SameRest(k, j) /\ SameEvents(k, j)
<1> DEFINE pr == Priority[u]
           a == [k EXCEPT !.prio[u] = pr, !.basePrio[u] = pr, !.wake[u] = 0]
           j == prvAddTaskToReadyList(a, u)
<1>0. /\ k \in KernRec /\ ReadyOK(k) /\ OneList(k) /\ OneEvent(k) /\ InEvent(k) \subseteq As(k)
      /\ pr \in Level /\ 0 \in 0..MaxDelay
      /\ k.prio \in [Task -> Level] /\ k.basePrio \in [Task -> Level]
      /\ k.wake \in [Task -> 0..MaxDelay]
  <2>1. pr \in Level
    BY DEF Level
  <2>2. 0 \in 0..MaxDelay
    BY KernNumbers
  <2> QED  BY <2>1, <2>2, KernFields DEF KOk
<1> HIDE DEF pr
<1>1. /\ a \in KernRec /\ SameEvents(k, a) /\ SameRest(k, a)
      /\ a.ready = k.ready /\ a.top = k.top
      /\ a.delayed = k.delayed /\ a.overflowDelayed = k.overflowDelayed
      /\ a.suspendedTasks = k.suspendedTasks
      /\ \A v \in Task \ {u} : a.prio[v] = k.prio[v]
  <2> DEFINE f == [k.prio EXCEPT ![u] = pr]
             g == [k.basePrio EXCEPT ![u] = pr]
             h == [k.wake EXCEPT ![u] = 0]
  <2>1. /\ f \in [Task -> Level] /\ \A v \in Task \ {u} : f[v] = k.prio[v]
        /\ g \in [Task -> Level] /\ h \in [Task -> 0..MaxDelay]
    BY <1>0
  <2>2. a = [k EXCEPT !.prio = f, !.basePrio = g, !.wake = h]
    BY <1>0 DEF KernRec
  <2> HIDE DEF a, f, g, h
  <2> QED  BY <1>0, <2>1, <2>2 DEF KernRec, SameEvents, SameRest
<1>2. \A p \in Level : u \notin Members(k.ready[p])
  BY <1>0 DEF Rd, ReadyOK
<1>3. /\ As(a) = As(k) /\ Wt(a) = Wt(k) /\ Pd(a) = Pd(k) /\ InEvent(a) = InEvent(k)
      /\ OneEvent(a)
  <2>1. As(a) = As(k) /\ Wt(a) = Wt(k) /\ Pd(a) = Pd(k)
    BY <1>1 DEF As, Wt, Pd, SameEvents, SameRest
  <2>2. InEvent(a) = InEvent(k)
    BY <1>1, <2>1 DEF InEvent, SameEvents
  <2>3. OneEvent(a)
    BY <1>0, <1>1, <2>1 DEF OneEvent, SameEvents
  <2> QED  BY <2>1, <2>2, <2>3
<1> HIDE DEF a
<1>4. Rd(a) = Rd(k)
  <2>1. ASSUME NEW v \in Task PROVE v \in Rd(a) <=> v \in Rd(k)
    <3>1. CASE v = u
      <4>1. a.prio[v] \in Level
        BY <1>1, KernFields
      <4> QED  BY <1>1, <1>2, <3>1, <4>1 DEF Rd
    <3>2. CASE v # u
      BY <1>1, <3>2 DEF Rd
    <3> QED  BY <3>1, <3>2
  <2>2. Rd(a) \subseteq Task /\ Rd(k) \subseteq Task
    BY DEF Rd
  <2> QED  BY <2>1, <2>2
<1>5. ReadyOK(a)
  <2>1. \A p \in Level : End \in Members(a.ready[p]) /\ (a.ready[p] # <<End>> => p <= a.top)
    BY <1>0, <1>1 DEF ReadyOK
  <2>2. ASSUME NEW p \in Level, NEW v \in Task, v \in Members(a.ready[p]) PROVE a.prio[v] = p
    <3>1. v # u
      BY <1>1, <1>2, <2>2
    <3> QED  BY <1>0, <1>1, <2>2, <3>1 DEF ReadyOK
  <2> QED  BY <2>1, <2>2 DEF ReadyOK
<1>6. OneList(a)
  BY <1>0, <1>1, <1>3, <1>4 DEF OneList
<1>7. u \notin Rd(a) \cup As(a) \cup Wt(a)
  BY <1>3, <1>4
<1>8. /\ j \in KernRec /\ ReadyOK(j) /\ OneList(j)
      /\ Rd(j) = Rd(a) \cup {u} /\ As(j) = As(a) /\ Wt(j) = Wt(a)
      /\ SameEvents(a, j) /\ SameRest(a, j)
  BY <1>1, <1>5, <1>6, <1>7, AddReadyOK
<1>9. j = prvAddTaskToReadyList(
            [k EXCEPT !.prio[u] = Priority[u], !.basePrio[u] = Priority[u], !.wake[u] = 0], u)
  BY DEF a, pr
<1> HIDE DEF j
<1>10. InEvent(j) = InEvent(k) /\ Pd(j) = Pd(k) /\ OneEvent(j)
  BY <1>3, <1>8 DEF SameEvents, InEvent, Pd, OneEvent
<1>11. KOk(j)
  BY <1>0, <1>3, <1>8, <1>10 DEF KOk
<1>12. SameRest(k, j)
  BY <1>1, <1>8 DEF SameRest
<1>13. SameEvents(k, j)
  BY <1>1, <1>8 DEF SameEvents
<1> QED  BY <1>3, <1>4, <1>8, <1>9, <1>10, <1>11, <1>12, <1>13

\* prvCheckTasksWaitingTermination.
LEMMA ReapOK ==
  ASSUME NEW k, KOk(k), k.waitingTermination # <<>>
  PROVE  LET j == [k EXCEPT !.waitingTermination = Tail(@)]
         IN  /\ KOk(j) /\ Rd(j) = Rd(k) /\ As(j) = As(k) /\ Pd(j) = Pd(k)
             /\ Wt(j) = Wt(k) \ {Head(k.waitingTermination)}
             /\ Head(k.waitingTermination) \in Wt(k)
             /\ j.current = k.current /\ j.suspended = k.suspended /\ SameEvents(k, j)
<1> DEFINE wt == Tail(k.waitingTermination)
           j == [k EXCEPT !.waitingTermination = wt]
<1>0. /\ k \in KernRec /\ ReadyOK(k) /\ OneList(k) /\ OneEvent(k) /\ InEvent(k) \subseteq As(k)
      /\ k.waitingTermination \in Lists(Task)
  BY KernFields DEF KOk
<1>1. /\ wt \in Lists(Task) /\ Members(wt) = Wt(k) \ {Head(k.waitingTermination)}
      /\ Head(k.waitingTermination) \in Wt(k)
  BY <1>0, TailList DEF Wt
<1>2. j = [k EXCEPT !.waitingTermination = Tail(@)]
  OBVIOUS
<1> HIDE DEF wt
<1>3. /\ j \in KernRec /\ j.waitingTermination = wt /\ SameEvents(k, j)
      /\ j.current = k.current /\ j.suspended = k.suspended
      /\ j.ready = k.ready /\ j.top = k.top /\ j.prio = k.prio
      /\ j.delayed = k.delayed /\ j.overflowDelayed = k.overflowDelayed
      /\ j.suspendedTasks = k.suspendedTasks
  <2> HIDE DEF j
  <2>1. j = [k EXCEPT !.waitingTermination = wt]
    BY <1>2 DEF wt
  <2>2. j \in KernRec
    BY <1>0, <1>1, <2>1, ZenonT(60) DEF KernRec
  <2>3. j.waitingTermination = wt /\ SameEvents(k, j)
    BY <1>0, <2>1 DEF KernRec, SameEvents
  <2>4. /\ j.current = k.current /\ j.suspended = k.suspended
        /\ j.ready = k.ready /\ j.top = k.top /\ j.prio = k.prio
        /\ j.delayed = k.delayed /\ j.overflowDelayed = k.overflowDelayed
        /\ j.suspendedTasks = k.suspendedTasks
    BY <1>0, <2>1 DEF KernRec
  <2> QED  BY <2>2, <2>3, <2>4
<1> HIDE DEF j
<1>4. /\ Rd(j) = Rd(k) /\ As(j) = As(k) /\ Wt(j) = Members(wt) /\ ReadyOK(j)
      /\ InEvent(j) = InEvent(k) /\ Pd(j) = Pd(k) /\ OneEvent(j)
  <2>1. Rd(j) = Rd(k) /\ As(j) = As(k) /\ Wt(j) = Members(wt)
    BY <1>3 DEF Rd, As, Wt
  <2>2. ReadyOK(j)
    BY <1>0, <1>3 DEF ReadyOK
  <2>3. InEvent(j) = InEvent(k) /\ Pd(j) = Pd(k)
    BY <1>3 DEF SameEvents, InEvent, Pd
  <2>4. OneEvent(j)
    BY <1>0, <1>3, <2>3 DEF SameEvents, OneEvent
  <2> QED  BY <2>1, <2>2, <2>3, <2>4
<1>5. OneList(j)
  BY <1>0, <1>1, <1>3, <1>4 DEF OneList
<1>6. KOk(j)
  BY <1>0, <1>3, <1>4, <1>5 DEF KOk
<1> QED  BY <1>1, <1>2, <1>3, <1>4, <1>6

-----------------------------------------------------------------------------
(***************************************************************************)
(* The invariant: the lists, the calls, and which of them go together.     *)
(***************************************************************************)
\* The calls of TypeOK.
CallRec ==
  [pc : Pc, then : {None, "try", "fail", "yield"},
   op : {None, "send", "sendFront", "receive", "peek", "delay"},
   q : Queue \cup {None}, ticks : 0..MaxDelay, entryTimeSet : BOOLEAN,
   since : [overflows : 0..OverflowMod - 1, tick : 0..MaxDelay], item : Item \cup {None}]

\* The program points at which the scheduler is suspended, and those at which another
\* task may run.
Held == {"lock", "check", "place", "unlockTx", "unlockRx", "resume", "idleResume"}
Away == {"run", "try", "delayed", "reap", "absent", "deleted"}

\* c has gone to sleep, and is on its way to yield.
Going(c) == c.pc = "yield" \/ (c.pc \in {"unlockTx", "unlockRx", "resume"} /\ c.then = "yield")

\* Giving back a mutex is never put off, and a task goes to sleep to yield.
InShape(c) ==
  /\ c.pc \in InCallPc /\ c.op \in {"send", "sendFront"} => Kind[c.q] # "mutex"
  /\ c.pc = "place" => c.then = "yield"

\* The lists that the tasks are in are those of their program points.
Places ==
  \A t \in Task : /\ t \in Rd(kern) \cup As(kern) \cup Wt(kern) <=> call[t].pc # "absent"
                  /\ t \in Wt(kern) <=> call[t].pc = "deleted"

\* The running task, and the others.
Turn ==
  /\ \A t \in Task : t # kern.current => call[t].pc \in Away
  /\ kern.suspended = 1 <=> call[kern.current].pc \in Held
  /\ kern.current \in Rd(kern) \/ Going(call[kern.current])
  /\ kern.suspended = 0 => Pd(kern) = {}

\* The idle task is always ready, and frees a task only if there is one.
IdleOK ==
  /\ IdleTask \in Rd(kern)
  /\ call[IdleTask].pc \in {"run", "idleResume", "reap"}
  /\ call[IdleTask].pc # "run" => kern.waitingTermination # <<>>

KInv ==
  /\ IInv /\ KOk(kern) /\ Places /\ Turn /\ IdleOK
  /\ call \in [Task -> CallRec] /\ left \in [Task -> -Slack..MaxDelay]
  /\ \A t \in Task : InShape(call[t])

\* The task that gets the processor is the best.
ToTheBest == kern'.current # kern.current => Best(kern)'

\* A step in which the running task goes from its call to c, and the tasks stay where they
\* are, or become ready.
LEMMA StepKeeps ==
  ASSUME KInv, IInv', KOk(kern'), NEW t \in Task, t = kern.current, NEW c \in CallRec,
         call' = [call EXCEPT ![t] = c], c.pc \notin {"absent", "deleted"},
         IdleTask \in Rd(kern'),
         Rd(kern') \cup As(kern') = Rd(kern) \cup As(kern),
         kern'.waitingTermination = kern.waitingTermination,
         \/ /\ kern'.current = t
            /\ kern'.suspended = 1 <=> c.pc \in Held
            /\ t \in Rd(kern') \/ Going(c)
         \/ /\ kern'.current # t /\ kern'.current \in Rd(kern') /\ kern'.suspended = 0
            /\ c.pc \in Away,
         kern'.suspended = 0 => Pd(kern') = {},
         t = IdleTask => /\ c.pc \in {"run", "idleResume", "reap"}
                         /\ c.pc # "run" => kern.waitingTermination # <<>>,
         InShape(c),
         left' \in [Task -> -Slack..MaxDelay]
  PROVE  KInv'
<1>0. /\ call \in [Task -> CallRec] /\ Places /\ Turn /\ IdleOK /\ \A u \in Task : InShape(call[u])
      /\ KOk(kern)
  BY DEF KInv
<1>1. /\ call' \in [Task -> CallRec] /\ call'[t] = c
      /\ \A u \in Task : u # t => call'[u] = call[u]
  BY <1>0
<1>2. Wt(kern') = Wt(kern)
  BY DEF Wt
<1>3. t \in Rd(kern) \cup As(kern) /\ t \notin Wt(kern)
  <2>1. call[t].pc \notin {"absent", "deleted"}
    <3>1. CASE t \in Rd(kern)
      <4>1. t \notin Wt(kern)
        BY <1>0, <3>1 DEF KOk, OneList
      <4> QED  BY <1>0, <3>1, <4>1 DEF Places
    <3>2. CASE Going(call[t])
      BY <3>2 DEF Going
    <3> QED  BY <1>0, <3>1, <3>2 DEF Turn
  <2> QED  BY <1>0, <2>1 DEF Places
<1>4. Places'
  <2>1. ASSUME NEW u \in Task
        PROVE  /\ u \in Rd(kern') \cup As(kern') \cup Wt(kern') <=> call'[u].pc # "absent"
               /\ u \in Wt(kern') <=> call'[u].pc = "deleted"
    <3>1. CASE u = t
      BY <1>1, <1>2, <1>3, <3>1
    <3>2. CASE u # t
      BY <1>0, <1>1, <1>2, <3>2 DEF Places
    <3> QED  BY <3>1, <3>2
  <2> QED  BY <2>1 DEF Places, Rd, As, Wt
<1>5. Turn'
  <2>1. CASE kern'.current = t
    <3>1. /\ \A u \in Task : u # t => call'[u].pc \in Away
          /\ kern'.suspended = 1 <=> call'[t].pc \in Held
          /\ t \in Rd(kern') \/ Going(call'[t])
      BY <1>0, <1>1, <2>1 DEF Turn
    <3> QED  BY <2>1, <3>1 DEF Turn, Rd, Pd, Going
  <2>2. CASE kern'.current # t
    <3> DEFINE v == kern'.current
    <3>0. v \in Task /\ v # t /\ v \in Rd(kern') /\ kern'.suspended = 0 /\ c.pc \in Away
      BY <2>2 DEF Rd
    <3>1. call'[v].pc \in Away
      BY <1>0, <1>1, <3>0 DEF Turn
    <3>2. call'[v].pc \notin Held
      BY <3>1 DEF Held, Away
    <3>3. \A u \in Task : u # v => call'[u].pc \in Away
      BY <1>0, <1>1, <3>0 DEF Turn
    <3> QED  BY <3>0, <3>2, <3>3 DEF Turn, Rd, Pd
  <2> QED  BY <2>1, <2>2
<1>6. IdleOK'
  <2>1. /\ call'[IdleTask].pc \in {"run", "idleResume", "reap"}
        /\ call'[IdleTask].pc # "run" => kern'.waitingTermination # <<>>
    <3>1. CASE t = IdleTask
      BY <1>1, <3>1
    <3>2. CASE t # IdleTask
      BY <1>0, <1>1, <3>2, TaskFacts DEF IdleOK
    <3> QED  BY <3>1, <3>2
  <2> QED  BY <2>1 DEF IdleOK, Rd
<1>7. \A u \in Task : InShape(call'[u])
  BY <1>0, <1>1
<1> QED  BY <1>1, <1>4, <1>5, <1>6, <1>7 DEF KInv, KOk, KernRec, ReadyOK, OneList, OneEvent, InEvent, Rd, As, Wt, Pd, InShape

\* Where a task is that has the processor and is not on its way to sleep.
LEMMA AtWork ==
  ASSUME KInv, NEW t \in Task, t = kern.current, ~Going(call[t])
  PROVE  /\ KOk(kern) /\ IdleTask \in Rd(kern) /\ t \in Rd(kern) /\ call[t] \in CallRec
         /\ call[t].pc \notin Held => kern.suspended = 0 /\ Pd(kern) = {}
         /\ call[t].pc \in Held => kern.suspended = 1
<1>1. KOk(kern) /\ Turn /\ IdleOK /\ call[t] \in CallRec
  BY DEF KInv
<1>2. kern.suspended \in 0..1
  BY <1>1, KernFields DEF KOk
<1> QED  BY <1>1, <1>2 DEF Turn, IdleOK

\* An item read from a queue.
LEMMA ItemRead ==
  ASSUME IInv, NEW q \in Queue
  PROVE  queue[q].buf[ReadPosition(q, queue[q])] \in Item \cup {None}
<1> DEFINE Q == queue[q]
<1>1. /\ Length[q] \in Nat \ {0} /\ Q.readFrom \in 0..Length[q] - 1
      /\ Q.buf \in [0..Length[q] - 1 -> Item \cup {None}]
  BY RingTypes DEF IInv, Queues
<1>2. ReadPosition(q, Q) \in 0..Length[q] - 1
  <2>1. CASE Kind[q] = "queue"
    <3> DEFINE L == Length[q]
    <3> HIDE DEF L
    <3>1. L \in Nat \ {0} /\ Q.readFrom \in 0..L - 1
      BY <1>1 DEF L
    <3>2. (Q.readFrom + 1) % L \in 0..L - 1
      BY <3>1
    <3> QED  BY <2>1, <3>2 DEF ReadPosition, L
  <2>2. CASE Kind[q] # "queue"
    BY <1>1, <2>2 DEF ReadPosition
  <2> QED  BY <2>1, <2>2
<1> QED  BY <1>1, <1>2

\* No call, and the calls that can be made, have their types.
LEMMA NoCallOK ==
  /\ NoCall \in CallRec /\ NoCall.pc = "run" /\ InShape(NoCall)
  /\ \A op \in {"send", "sendFront", "receive", "peek"}, q \in Queue, x \in Item \cup {None} :
       LET c == [NoCall EXCEPT !.op = op, !.q = q, !.item = x]
       IN  c \in CallRec /\ c.pc = "run" /\ InShape(c)
<1>1. 0 \in 0..MaxDelay /\ 0 \in 0..OverflowMod - 1
  BY KernNumbers
<1>2. [overflows |-> 0, tick |-> 0] \in [overflows : 0..OverflowMod - 1, tick : 0..MaxDelay]
  BY <1>1
<1>3. NoCall \in CallRec /\ NoCall.pc = "run"
  BY <1>1, <1>2 DEF NoCall, CallRec, Pc
<1>4. InShape(NoCall)
  BY <1>3 DEF InShape, InCallPc
<1>5. ASSUME NEW op \in {"send", "sendFront", "receive", "peek"}, NEW q \in Queue,
             NEW x \in Item \cup {None}
      PROVE  LET c == [NoCall EXCEPT !.op = op, !.q = q, !.item = x]
             IN  c \in CallRec /\ c.pc = "run" /\ InShape(c)
  <2> DEFINE c == [NoCall EXCEPT !.op = op, !.q = q, !.item = x]
  <2>1. c \in CallRec /\ c.pc = "run"
    BY <1>3 DEF CallRec
  <2> HIDE DEF c
  <2>2. InShape(c)
    BY <2>1 DEF InShape, InCallPc
  <2> QED  BY <2>1, <2>2 DEF c
<1> QED  BY <1>3, <1>4, <1>5

\* No time is left, or all of it.
LEMMA LeftTypes ==
  /\ 0 \in -Slack..MaxDelay
  /\ \A n \in 0..MaxDelay : n \in -Slack..MaxDelay
BY KernNumbers, KernelAssumption

\* A step of a call that may wake a task and yield to it.
LEMMA MoveKeeps ==
  ASSUME KInv, IInv', NEW t \in Task, t = kern.current, t \in Rd(kern), kern.suspended = 0,
         NEW k, SamePlaces(kern, k), Moves(k, kern'),
         NEW c \in CallRec, call' = [call EXCEPT ![t] = c],
         c.pc \in {"run", "try", "delayed"}, t = IdleTask => c.pc = "run", InShape(c),
         left' \in [Task -> -Slack..MaxDelay]
  PROVE  KInv' /\ ToTheBest
<1>1. KOk(kern) /\ IdleTask \in Rd(kern) /\ Pd(kern) = {}
  BY DEF KInv, Turn, IdleOK
<1>2. /\ KOk(kern') /\ Rd(kern) \subseteq Rd(kern')
      /\ Rd(kern') \cup As(kern') = Rd(kern) \cup As(kern)
      /\ kern'.waitingTermination = kern.waitingTermination
      /\ kern'.suspended = 0 /\ Pd(kern') = {}
      /\ kern'.current = t \/ (kern'.current \in Rd(kern') /\ Best(kern'))
  BY <1>1 DEF SamePlaces, SameRest, Moves
<1>3. c.pc \notin {"absent", "deleted"} /\ c.pc \notin Held /\ c.pc \in Away
  BY DEF Held, Away
<1>4. KInv'
  <2>1. IdleTask \in Rd(kern') /\ t \in Rd(kern')
    BY <1>1, <1>2
  <2>2. t = IdleTask => /\ c.pc \in {"run", "idleResume", "reap"}
                        /\ c.pc # "run" => kern.waitingTermination # <<>>
    OBVIOUS
  <2>3. \/ /\ kern'.current = t
           /\ kern'.suspended = 1 <=> c.pc \in Held
           /\ t \in Rd(kern') \/ Going(c)
        \/ /\ kern'.current # t /\ kern'.current \in Rd(kern') /\ kern'.suspended = 0
           /\ c.pc \in Away
    BY <1>2, <1>3, <2>1
  <2> QED  BY <1>1, <1>2, <1>3, <2>1, <2>2, <2>3, StepKeeps
<1>5. ToTheBest
  BY <1>2 DEF ToTheBest, Best
<1> QED  BY <1>4, <1>5

\* A step of a call that leaves the lists alone.
LEMMA StayKeeps ==
  ASSUME KInv, IInv', NEW t \in Task, t = kern.current, t \in Rd(kern),
         KOk(kern'), Rd(kern') = Rd(kern), As(kern') = As(kern), Pd(kern') = Pd(kern),
         kern'.current = t, kern'.waitingTermination = kern.waitingTermination,
         NEW c \in CallRec, call' = [call EXCEPT ![t] = c],
         c.pc \notin {"absent", "deleted"},
         kern'.suspended = 1 <=> c.pc \in Held,
         kern'.suspended = 0 => kern.suspended = 0,
         t = IdleTask => /\ c.pc \in {"run", "idleResume", "reap"}
                         /\ c.pc # "run" => kern.waitingTermination # <<>>,
         InShape(c), left' \in [Task -> -Slack..MaxDelay]
  PROVE  KInv' /\ ToTheBest
<1>1. IdleTask \in Rd(kern) /\ (kern.suspended = 0 => Pd(kern) = {})
  BY DEF KInv, Turn, IdleOK
<1>2. KInv'
  BY <1>1, StepKeeps
<1> QED  BY <1>2 DEF ToTheBest

\* One attempt at a call.
LEMMA AttemptKeeps ==
  ASSUME KInv, IInv', NEW t \in Caller, t = kern.current, call[t].pc \in {"run", "try"},
         NEW c \in CallRec, Calling(c), c.pc \in {"run", "try"},
         c.op \in {"send", "sendFront"} /\ Kind[c.q] = "mutex" =>
           queue[c.q].holder = t /\ c.ticks = 0,
         Attempt(t, c)
  PROVE  KInv' /\ ToTheBest
<1> DEFINE q == c.q
<1>0. /\ t \in Task /\ t # IdleTask /\ q \in Queue /\ c.op \in {"send", "sendFront", "receive", "peek"}
      /\ c.item \in Item \cup {None} /\ c.ticks \in 0..MaxDelay
  BY DEF Caller, Calling, CallRec
<1>1. call[t].pc \notin Held /\ ~Going(call[t])
  BY DEF Held, Going
<1>2. /\ KOk(kern) /\ IdleTask \in Rd(kern) /\ t \in Rd(kern)
      /\ kern.suspended = 0 /\ Pd(kern) = {}
  BY <1>0, <1>1, AtWork
<1>3. /\ IInv /\ left \in [Task -> -Slack..MaxDelay] /\ call \in [Task -> CallRec]
  BY DEF KInv
<1>4. [left EXCEPT ![t] = 0] \in [Task -> -Slack..MaxDelay]
  BY <1>3, LeftTypes
<1>5. SamePlaces(kern, kern)
  BY <1>2 DEF SamePlaces, SameRest, SameEvents
<1>6. ASSUME NEW x \in Item \cup {None}, Done(t, c, x), NEW k, SamePlaces(kern, k),
             Moves(k, kern')
      PROVE  KInv' /\ ToTheBest
  <2> DEFINE d == [NoCall EXCEPT !.op = c.op, !.q = c.q, !.item = x]
  <2>1. d \in CallRec /\ d.pc = "run" /\ InShape(d)
    BY <1>0, NoCallOK
  <2>2. call' = [call EXCEPT ![t] = d] /\ left' \in [Task -> -Slack..MaxDelay]
    BY <1>4, <1>6 DEF Done
  <2> HIDE DEF d
  <2>3. d.pc \in {"run", "try", "delayed"}
    BY <2>1
  <2> QED  BY <1>0, <1>2, <1>6, <2>1, <2>2, <2>3, MoveKeeps
<1>7. ASSUME NotYet(t, c) PROVE KInv' /\ ToTheBest
  <2>0. kern' = kern
    BY <1>7 DEF NotYet
  <2>1. CASE c.ticks = 0
    <3>1. call' = [call EXCEPT ![t] = NoCall] /\ left' \in [Task -> -Slack..MaxDelay]
      BY <1>4, <1>7, <2>1 DEF NotYet
    <3>2. NoCall \in CallRec /\ NoCall.pc = "run" /\ InShape(NoCall)
      BY NoCallOK
    <3>3. NoCall.pc \notin {"absent", "deleted"} /\ NoCall.pc \notin Held
      BY <3>2 DEF Held
    <3>4. kern'.suspended # 1
      BY <1>2, <2>0
    <3> QED  BY <1>0, <1>2, <2>0, <3>1, <3>2, <3>3, <3>4, StayKeeps
  <2>2. CASE c.ticks # 0
    <3> DEFINE since == IF c.entryTimeSet THEN c.since ELSE vTaskSetTimeOutState(kern)
               d == [c EXCEPT !.pc = "suspend", !.entryTimeSet = TRUE, !.since = since]
    <3>1. since \in [overflows : 0..OverflowMod - 1, tick : 0..MaxDelay]
      <4>1. kern.overflows \in 0..OverflowMod - 1 /\ kern.tick \in 0..MaxDelay
        BY <1>2, KernFields DEF KOk
      <4>2. c.since \in [overflows : 0..OverflowMod - 1, tick : 0..MaxDelay]
        BY DEF CallRec
      <4> QED  BY <4>1, <4>2 DEF vTaskSetTimeOutState
    <3>2. call' = [call EXCEPT ![t] = d]
      BY <1>7, <2>2 DEF NotYet
    <3>3. left' \in [Task -> -Slack..MaxDelay]
      <4>1. left' = [left EXCEPT ![t] = c.ticks] \/ left' = left
        BY <1>7, <2>2 DEF NotYet
      <4> QED  BY <1>0, <1>3, <4>1, LeftTypes
    <3> HIDE DEF since
    <3>4. d \in CallRec /\ d.pc = "suspend" /\ d.op = c.op /\ d.q = c.q
      BY <3>1 DEF CallRec, Pc
    <3> HIDE DEF d
    <3>5. InShape(d)
      BY <2>2, <3>4 DEF InShape
    <3>6. d.pc \notin {"absent", "deleted"} /\ d.pc \notin Held
      BY <3>4 DEF Held
    <3>7. kern'.suspended # 1
      BY <1>2, <2>0
    <3> QED  BY <1>0, <1>2, <2>0, <3>2, <3>3, <3>4, <3>5, <3>6, <3>7, StayKeeps
  <2> QED  BY <2>1, <2>2
<1>8. ASSUME NEW position, AttemptSend(t, c, position), c.op \in {"send", "sendFront"}
      PROVE  KInv' /\ ToTheBest
  <2>1. CASE NotYet(t, c)
    BY <1>7, <2>1
  <2>2. CASE ~NotYet(t, c)
    <3> DEFINE k == Disinherited(kern, q)
    <3>1. kern' = WakeAndYield(k, k.receivers[q]) /\ Done(t, c, None)
      BY <1>8, <2>2 DEF AttemptSend
    <3>2. SamePlaces(kern, k)
      <4>1. CASE Kind[q] = "mutex"
        <5>1. k = vTaskPriorityDisinherit(kern, queue[q].holder) /\ queue[q].holder = t
          BY <1>8, <4>1 DEF Disinherited
        <5> QED  BY <1>2, <5>1, DisinheritOK
      <4>2. CASE Kind[q] # "mutex"
        BY <1>5, <4>2 DEF Disinherited
      <4> QED  BY <4>1, <4>2
    <3> HIDE DEF k
    <3>3. KOk(k) /\ IdleTask \in Rd(k)
      BY <1>2, <3>2 DEF SamePlaces
    <3>4. k.receivers[q] \in Lists(Task) /\ Members(k.receivers[q]) \subseteq InEvent(k)
      BY <1>0, <3>3, EventLists
    <3>5. Moves(k, WakeAndYield(k, k.receivers[q]))
      BY <3>3, <3>4, WakeAndYieldOK
    <3> QED  BY <1>6, <3>1, <3>2, <3>5
  <2> QED  BY <2>1, <2>2
<1>9. /\ Moves(kern, WakeAndYield(kern, kern.senders[q]))
      /\ Moves(kern, WakeAndYield(kern, kern.receivers[q]))
  <2>1. /\ kern.senders[q] \in Lists(Task) /\ Members(kern.senders[q]) \subseteq InEvent(kern)
        /\ kern.receivers[q] \in Lists(Task) /\ Members(kern.receivers[q]) \subseteq InEvent(kern)
    BY <1>0, <1>2, EventLists
  <2>2. Moves(kern, WakeAndYield(kern, kern.senders[q]))
    BY <1>2, <2>1, WakeAndYieldOK
  <2>3. Moves(kern, WakeAndYield(kern, kern.receivers[q]))
    BY <1>2, <2>1, WakeAndYieldOK
  <2> QED  BY <2>2, <2>3
<1>10. queue[q].buf[ReadPosition(q, queue[q])] \in Item \cup {None}
  BY <1>0, <1>3, ItemRead
<1>11. ASSUME AttemptReceive(t, c) PROVE KInv' /\ ToTheBest
  <2>1. CASE NotYet(t, c)
    BY <1>7, <2>1
  <2>2. CASE ~NotYet(t, c)
    <3>1. /\ kern' = WakeAndYield(kern, kern.senders[q])
          /\ Done(t, c, queue[q].buf[ReadPosition(q, queue[q])])
      BY <1>11, <2>2 DEF AttemptReceive
    <3> QED  BY <1>5, <1>6, <1>9, <1>10, <3>1
  <2> QED  BY <2>1, <2>2
<1>12. ASSUME AttemptPeek(t, c) PROVE KInv' /\ ToTheBest
  <2>1. CASE NotYet(t, c)
    BY <1>7, <2>1
  <2>2. CASE ~NotYet(t, c)
    <3>1. /\ kern' = WakeAndYield(kern, kern.receivers[q])
          /\ Done(t, c, queue[q].buf[ReadPosition(q, queue[q])])
      BY <1>12, <2>2 DEF AttemptPeek
    <3> QED  BY <1>5, <1>6, <1>9, <1>10, <3>1
  <2> QED  BY <2>1, <2>2
<1>13. \/ c.op \in {"send", "sendFront"} /\ \E position : AttemptSend(t, c, position)
       \/ AttemptReceive(t, c)
       \/ AttemptPeek(t, c)
  BY DEF Attempt
<1> QED  BY <1>8, <1>11, <1>12, <1>13

\* A step in which the call of the running task ends, and u is created, deleted or freed.
LEMMA LifeKeeps ==
  ASSUME KInv, IInv', KOk(kern'), NEW t \in Task, t = kern.current, NEW u \in Caller,
         NEW d \in CallRec, d.pc \in {"run", "absent", "deleted"},
         call' \in [Task -> CallRec],
         \A v \in Task : call'[v] = IF v = u THEN d ELSE IF v = t THEN NoCall ELSE call[v],
         Places', IdleTask \in Rd(kern'), kern'.current \in Rd(kern'),
         kern'.suspended = 0, Pd(kern') = {},
         t # IdleTask /\ kern.waitingTermination # <<>> => kern'.waitingTermination # <<>>,
         left' \in [Task -> -Slack..MaxDelay]
  PROVE  KInv'
<1>0. /\ Turn /\ IdleOK /\ \A v \in Task : InShape(call[v])
      /\ u \in Task /\ u # IdleTask /\ IdleTask \in Task
      /\ NoCall.pc = "run" /\ InShape(NoCall)
  <2>1. NoCall.pc = "run" /\ InShape(NoCall)
    BY NoCallOK
  <2>2. u \in Task /\ u # IdleTask /\ IdleTask \in Task
    BY TaskFacts DEF Caller
  <2>3. Turn /\ IdleOK /\ \A v \in Task : InShape(call[v])
    BY DEF KInv
  <2> QED  BY <2>1, <2>2, <2>3
<1>1. \A v \in Task : call'[v].pc \in Away
  <2>1. d.pc \in Away /\ NoCall.pc \in Away
    BY <1>0 DEF Away
  <2> QED  BY <1>0, <2>1 DEF Turn
<1>2. kern'.current \in Task
  BY DEF Rd
<1>3. Turn'
  <2>1. call'[kern'.current].pc \notin Held
    BY <1>1, <1>2 DEF Held, Away
  <2> QED  BY <1>1, <2>1 DEF Turn, Rd, Pd
<1>4. IdleOK'
  <2>1. CASE t = IdleTask
    BY <1>0, <2>1 DEF IdleOK, Rd
  <2>2. CASE t # IdleTask
    BY <1>0, <2>2 DEF IdleOK, Rd
  <2> QED  BY <2>1, <2>2
<1>5. \A v \in Task : InShape(call'[v])
  <2>1. InShape(d)
    BY DEF InShape, InCallPc
  <2> QED  BY <1>0, <2>1
<1> QED  BY <1>3, <1>4, <1>5 DEF KInv, KOk, KernRec, ReadyOK, OneList, OneEvent, InEvent, Rd, As, Wt, Pd, InShape

\* The times that calls ask for.
LEMMA CallTicks ==
  ASSUME NEW t \in Task, NEW op, NEW q, NEW ticks, <<op, q, ticks>> \in May[t]
  PROVE  ticks \in 0..MaxDelay
<1> DEFINE m == <<op, q, ticks>>
<1>1. m[3] = ticks
  OBVIOUS
<1>2. m[3] = MaxDelay \/ m[3] \in 0..MaxDelay - Slack
  <2> HIDE DEF m
  <2> QED  BY KernelAssumption DEF m
<1> HIDE DEF m
<1>3. MaxDelay \in Nat /\ Slack \in Nat
  BY KernNumbers, KernelAssumption
<1>4. ticks = MaxDelay \/ ticks \in 0..MaxDelay - Slack
  BY <1>1, <1>2
<1> QED  BY <1>3, <1>4

\* Where a caller is that makes a call.
LEMMA AtRun ==
  ASSUME KInv, NEW t \in Caller, Running(t, "run")
  PROVE  /\ t \in Task /\ t # IdleTask /\ t = kern.current /\ call[t].pc = "run"
         /\ KOk(kern) /\ IdleTask \in Rd(kern) /\ t \in Rd(kern)
         /\ kern.suspended = 0 /\ Pd(kern) = {} /\ SamePlaces(kern, kern)
         /\ call \in [Task -> CallRec] /\ left \in [Task -> -Slack..MaxDelay]
<1>1. t \in Task /\ t # IdleTask /\ t = kern.current /\ call[t].pc = "run"
  BY DEF Running, Caller
<1>2. call[t].pc \notin Held /\ ~Going(call[t])
  BY <1>1 DEF Held, Going
<1>3. /\ KOk(kern) /\ IdleTask \in Rd(kern) /\ t \in Rd(kern)
      /\ kern.suspended = 0 /\ Pd(kern) = {}
  BY <1>1, <1>2, AtWork
<1> QED  BY <1>1, <1>3 DEF SamePlaces, SameRest, SameEvents, KInv

\* A call on a queue.
LEMMA CallsKeeps ==
  ASSUME KInv, IInv', NEW t \in Caller, NEW op \in {"send", "sendFront", "receive", "peek"},
         NEW q \in Queue, NEW ticks, NEW x \in Item \cup {None},
         Kind[q] = "queue" /\ op \in {"send", "sendFront"} => x \in Item,
         op \in {"send", "sendFront"} /\ Kind[q] = "mutex" => queue[q].holder = t /\ ticks = 0,
         Calls(t, op, q, ticks, x)
  PROVE  KInv' /\ ToTheBest
<1> DEFINE c == [NoCall EXCEPT !.op = op, !.q = q, !.ticks = ticks, !.item = x]
<1>1. Running(t, "run") /\ <<op, q, ticks>> \in May[t] /\ Attempt(t, c)
  BY DEF Calls
<1>2. t \in Task /\ t = kern.current /\ call[t].pc = "run"
  BY <1>1, AtRun
<1>3. ticks \in 0..MaxDelay
  BY <1>1, <1>2, CallTicks
<1>4. c \in CallRec /\ c.pc = "run" /\ c.op = op /\ c.q = q /\ c.ticks = ticks /\ c.item = x
  <2>1. NoCall \in CallRec /\ NoCall.pc = "run"
    BY NoCallOK
  <2> QED  BY <1>3, <2>1 DEF CallRec
<1> HIDE DEF c
<1>5. Calling(c)
  BY <1>4 DEF Calling
<1> QED  BY <1>1, <1>2, <1>4, <1>5, AttemptKeeps

\* taskYIELD.
LEMMA YieldCallKeeps ==
  ASSUME KInv, IInv', NEW t \in Caller, taskYIELD(t)
  PROVE  KInv' /\ ToTheBest
<1>1. /\ Running(t, "run") /\ kern' = vTaskSwitchContext(kern)
      /\ call' = [call EXCEPT ![t] = NoCall] /\ left' = left
  BY DEF taskYIELD
<1>2. /\ t \in Task /\ t # IdleTask /\ t = kern.current /\ KOk(kern) /\ IdleTask \in Rd(kern)
      /\ t \in Rd(kern) /\ kern.suspended = 0 /\ SamePlaces(kern, kern)
      /\ left \in [Task -> -Slack..MaxDelay]
  BY <1>1, AtRun
<1>3. Moves(kern, kern')
  <2>1. Switched(kern, kern')
    BY <1>1, <1>2, SwitchOK
  <2> QED  BY <2>1 DEF Switched, Moves
<1>4. NoCall \in CallRec /\ NoCall.pc \in {"run", "try", "delayed"} /\ InShape(NoCall)
  BY NoCallOK
<1> QED  BY <1>1, <1>2, <1>3, <1>4, MoveKeeps

\* vTaskDelay.
LEMMA DelayCallKeeps ==
  ASSUME KInv, IInv', NEW t \in Caller, NEW ticks, vTaskDelay(t, ticks)
  PROVE  KInv' /\ ToTheBest
<1> DEFINE k == vTaskSuspendAll(kern)
           s == kern.suspended + 1
           c == [NoCall EXCEPT !.pc = "resume", !.then = "yield", !.op = "delay", !.ticks = ticks]
<1>1. /\ Running(t, "run") /\ <<"delay", None, ticks>> \in May[t]
      /\ kern' = DelayCurrent(k, ticks)
      /\ call' = [call EXCEPT ![t] = c] /\ left' = [left EXCEPT ![t] = ticks]
  BY DEF vTaskDelay
<1>2. /\ t \in Task /\ t # IdleTask /\ t = kern.current /\ KOk(kern) /\ IdleTask \in Rd(kern)
      /\ t \in Rd(kern) /\ kern.suspended = 0
      /\ left \in [Task -> -Slack..MaxDelay]
  BY <1>1, AtRun
<1>3. ticks \in 0..MaxDelay
  BY <1>1, <1>2, CallTicks
<1>4. c \in CallRec /\ c.pc = "resume" /\ c.op = "delay" /\ c.then = "yield"
  <2>1. NoCall \in CallRec
    BY NoCallOK
  <2> QED  BY <1>3, <2>1 DEF CallRec, Pc
<1> HIDE DEF c
<1>5. s = 1 /\ s \in 0..1
  BY <1>2
<1>6. k = [kern EXCEPT !.suspended = s]
  BY DEF vTaskSuspendAll
<1> HIDE DEF k, s
<1>7. /\ k \in KernRec /\ SameLists(kern, k) /\ SameEvents(kern, k)
      /\ k.current = t /\ k.suspended = 1 /\ k.waitingTermination = kern.waitingTermination
  <2>1. kern \in KernRec
    BY <1>2 DEF KOk
  <2>2. k \in KernRec
    BY <1>5, <1>6, <2>1, ZenonT(60) DEF KernRec
  <2>3. SameLists(kern, k) /\ SameEvents(kern, k)
    BY <1>6, <2>1 DEF KernRec, SameLists, SameEvents
  <2>4. k.current = t /\ k.suspended = 1 /\ k.waitingTermination = kern.waitingTermination
    BY <1>2, <1>5, <1>6, <2>1 DEF KernRec
  <2> QED  BY <2>2, <2>3, <2>4
<1>8. KOk(k) /\ Rd(k) = Rd(kern) /\ As(k) = As(kern)
  BY <1>2, <1>7, SameView
<1>9. ReadyOK(k) /\ OneList(k) /\ BlockableEvents(k) /\ k.current \notin Wt(k)
  BY <1>2, <1>7, <1>8 DEF KOk, BlockableEvents, OneList
<1>10. Asleep(k, kern')
  BY <1>1, <1>3, <1>7, <1>9, DelayCurrentOK
<1>11. /\ KOk(kern') /\ Rd(kern') = Rd(kern) \ {t} /\ As(kern') = As(kern) \cup {t}
       /\ kern'.current = t /\ kern'.suspended = 1
       /\ kern'.waitingTermination = kern.waitingTermination
  BY <1>7, <1>8, <1>10 DEF Asleep, SameRest
<1>12. IdleTask \in Rd(kern') /\ Rd(kern') \cup As(kern') = Rd(kern) \cup As(kern)
  BY <1>2, <1>11
<1>13. /\ c.pc \notin {"absent", "deleted"} /\ c.pc \in Held /\ Going(c) /\ InShape(c)
  BY <1>4 DEF Held, Going, InShape
<1>14. left' \in [Task -> -Slack..MaxDelay]
  BY <1>1, <1>2, <1>3, LeftTypes
<1>15. KInv'
  <2>1. kern'.suspended # 0
    BY <1>11
  <2> QED  BY <1>1, <1>2, <1>4, <1>11, <1>12, <1>13, <1>14, <2>1, StepKeeps
<1> QED  BY <1>2, <1>11, <1>15 DEF ToTheBest

\* xTaskGenericCreate.
LEMMA CreateKeeps ==
  ASSUME KInv, IInv', NEW t \in Caller, NEW u \in Caller, csp_thread_create(t, u)
  PROVE  KInv' /\ ToTheBest
<1> DEFINE made == prvAddTaskToReadyList(
                     [kern EXCEPT !.prio[u] = Priority[u], !.basePrio[u] = Priority[u],
                                  !.wake[u] = 0], u)
           cond == kern.prio[t] < Priority[u]
<1>1. /\ Running(t, "run") /\ call[u].pc = "absent" /\ kern' = YieldIf(cond, made)
      /\ call' = [call EXCEPT ![u] = NoCall, ![t] = NoCall] /\ left' = left
  BY DEF csp_thread_create
<1>2. /\ t \in Task /\ t # IdleTask /\ t = kern.current /\ KOk(kern) /\ IdleTask \in Rd(kern)
      /\ t \in Rd(kern) /\ kern.suspended = 0 /\ Pd(kern) = {} /\ call[t].pc = "run"
      /\ call \in [Task -> CallRec] /\ left \in [Task -> -Slack..MaxDelay]
  BY <1>1, AtRun
<1>3. u \in Task /\ Places
  BY DEF Caller, KInv
<1>4. u \notin Rd(kern) \cup As(kern) \cup Wt(kern)
  BY <1>1, <1>3 DEF Places
<1>5. /\ KOk(made) /\ Rd(made) = Rd(kern) \cup {u} /\ As(made) = As(kern)
      /\ Pd(made) = Pd(kern) /\ SameRest(kern, made)
  BY <1>2, <1>3, <1>4, CreateOK
<1> HIDE DEF made, cond
<1>6. Moves(made, kern')
  <2>1. IdleTask \in Rd(made) /\ Calm(made, made)
    BY <1>2, <1>5, CalmSelf
  <2> QED  BY <1>1, <2>1, CalmThenYield
<1>7. /\ KOk(kern') /\ Rd(kern) \cup {u} \subseteq Rd(kern')
      /\ Rd(kern') \cup As(kern') = Rd(kern) \cup As(kern) \cup {u}
      /\ kern'.suspended = 0 /\ kern'.waitingTermination = kern.waitingTermination
      /\ Pd(kern') = {}
      /\ kern'.current = t \/ (kern'.current \in Rd(kern') /\ Best(kern'))
  BY <1>2, <1>5, <1>6 DEF Moves, SameRest
<1>8. NoCall \in CallRec /\ NoCall.pc = "run"
  BY NoCallOK
<1>9. call' \in [Task -> CallRec]
      /\ \A v \in Task : call'[v] = IF v = u THEN NoCall ELSE IF v = t THEN NoCall ELSE call[v]
  BY <1>1, <1>2, <1>3, <1>8
<1>10. Wt(kern') = Wt(kern)
  BY <1>7 DEF Wt
<1>11. Places'
  <2>1. ASSUME NEW v \in Task
        PROVE  /\ v \in Rd(kern') \cup As(kern') \cup Wt(kern') <=> call'[v].pc # "absent"
               /\ v \in Wt(kern') <=> call'[v].pc = "deleted"
    <3>1. CASE v = u
      BY <1>4, <1>7, <1>8, <1>9, <1>10, <3>1
    <3>2. CASE v # u /\ v = t
      <4>1. t \notin Wt(kern)
        BY <1>2 DEF KOk, OneList
      <4> QED  BY <1>2, <1>7, <1>8, <1>9, <1>10, <3>2, <4>1
    <3>3. CASE v # u /\ v # t
      BY <1>3, <1>7, <1>9, <1>10, <3>3 DEF Places
    <3> QED  BY <3>1, <3>2, <3>3
  <2> QED  BY <2>1 DEF Places, Rd, As, Wt
<1>12. IdleTask \in Rd(kern') /\ kern'.current \in Rd(kern')
  BY <1>2, <1>7
<1>13. KInv'
  <2>1. NoCall.pc \in {"run", "absent", "deleted"}
    BY <1>8
  <2>2. left' \in [Task -> -Slack..MaxDelay]
    BY <1>1, <1>2
  <2> QED  BY <1>2, <1>7, <1>8, <1>9, <1>11, <1>12, <2>1, <2>2, LifeKeeps
<1> QED  BY <1>2, <1>7, <1>13 DEF ToTheBest, Best

\* vTaskDelete.
LEMMA DeleteKeeps ==
  ASSUME KInv, IInv', NEW t \in Caller, NEW u \in Caller, vTaskDelete(t, u)
  PROVE  KInv' /\ ToTheBest
<1> DEFINE gone == [RemoveGenericItem(RemoveEventItem(kern, u), u)
                      EXCEPT !.waitingTermination = Append(@, u)]
           d == [NoCall EXCEPT !.pc = "deleted"]
<1>1. /\ Running(t, "run") /\ call[u].pc # "absent" /\ call[u].pc # "deleted"
      /\ kern' = YieldIf(u = t, gone)
      /\ call' = [call EXCEPT ![t] = NoCall, ![u] = d] /\ left' = [left EXCEPT ![u] = 0]
  BY DEF vTaskDelete
<1>2. /\ t \in Task /\ t # IdleTask /\ t = kern.current /\ KOk(kern) /\ IdleTask \in Rd(kern)
      /\ t \in Rd(kern) /\ kern.suspended = 0 /\ Pd(kern) = {} /\ call[t].pc = "run"
      /\ call \in [Task -> CallRec] /\ left \in [Task -> -Slack..MaxDelay]
  BY <1>1, AtRun
<1>3. u \in Task /\ u # IdleTask /\ Places
  BY DEF Caller, KInv
<1>4. u \in Rd(kern) \cup As(kern) /\ u \notin Wt(kern)
  BY <1>1, <1>3 DEF Places
<1>5. /\ KOk(gone) /\ Rd(gone) = Rd(kern) \ {u} /\ As(gone) = As(kern) \ {u}
      /\ Wt(gone) = Wt(kern) \cup {u} /\ Pd(gone) \subseteq Pd(kern)
      /\ gone.current = kern.current /\ gone.suspended = kern.suspended
      /\ gone.waitingTermination # <<>>
  BY <1>2, <1>3, <1>4, DeleteOK
<1> HIDE DEF gone
<1>6. /\ KOk(kern') /\ Rd(kern') = Rd(gone) /\ As(kern') = As(gone) /\ Pd(kern') = Pd(gone)
      /\ kern'.suspended = 0 /\ kern'.waitingTermination = gone.waitingTermination
      /\ kern'.current \in Rd(kern')
      /\ kern'.current = t \/ Best(kern')
  <2>1. CASE u = t
    <3>1. kern' = vTaskSwitchContext(gone)
      BY <1>1, <2>1 DEF YieldIf
    <3>2. IdleTask \in Rd(gone)
      BY <1>2, <1>3, <1>5
    <3>3. Switched(gone, kern') /\ (gone.suspended = 0 => kern'.current \in Rd(kern'))
      BY <1>5, <3>1, <3>2, SwitchOK
    <3> QED  BY <1>2, <1>5, <3>3 DEF Switched
  <2>2. CASE u # t
    <3>1. kern' = gone
      BY <1>1, <2>2 DEF YieldIf
    <3> QED  BY <1>2, <1>5, <2>2, <3>1
  <2> QED  BY <2>1, <2>2
<1>7. NoCall \in CallRec /\ NoCall.pc = "run"
  BY NoCallOK
<1>8. d \in CallRec /\ d.pc = "deleted"
  BY <1>7 DEF CallRec, Pc
<1> HIDE DEF d
<1>9. call' \in [Task -> CallRec]
      /\ \A v \in Task : call'[v] = IF v = u THEN d ELSE IF v = t THEN NoCall ELSE call[v]
  BY <1>1, <1>2, <1>3, <1>7, <1>8
<1>10. Wt(kern') = Wt(kern) \cup {u}
  BY <1>5, <1>6 DEF Wt
<1>11. Places'
  <2>1. ASSUME NEW v \in Task
        PROVE  /\ v \in Rd(kern') \cup As(kern') \cup Wt(kern') <=> call'[v].pc # "absent"
               /\ v \in Wt(kern') <=> call'[v].pc = "deleted"
    <3>1. CASE v = u
      BY <1>8, <1>9, <1>10, <3>1
    <3>2. CASE v # u /\ v = t
      <4>1. t \notin Wt(kern)
        BY <1>2 DEF KOk, OneList
      <4> QED  BY <1>2, <1>5, <1>6, <1>7, <1>9, <1>10, <3>2, <4>1
    <3>3. CASE v # u /\ v # t
      BY <1>3, <1>5, <1>6, <1>9, <1>10, <3>3 DEF Places
    <3> QED  BY <3>1, <3>2, <3>3
  <2> QED  BY <2>1 DEF Places, Rd, As, Wt
<1>12. IdleTask \in Rd(kern') /\ Pd(kern') = {} /\ kern'.waitingTermination # <<>>
  BY <1>2, <1>3, <1>5, <1>6
<1>13. KInv'
  <2>1. d.pc \in {"run", "absent", "deleted"}
    BY <1>8
  <2>2. left' \in [Task -> -Slack..MaxDelay]
    BY <1>1, <1>2, LeftTypes
  <2> QED  BY <1>2, <1>6, <1>8, <1>9, <1>11, <1>12, <2>1, <2>2, LifeKeeps
<1> QED  BY <1>2, <1>6, <1>13 DEF ToTheBest, Best

\* The calls of a task.
LEMMA UserCallKeeps ==
  ASSUME KInv, IInv', NEW t \in Caller, UserCall(t)
  PROVE  KInv' /\ ToTheBest
<1>1. ASSUME NEW q \in Queue, NEW ticks, NEW x \in Item,
             csp_queue_enqueue(t, q, x, ticks) \/ xQueueSendToFront(t, q, x, ticks)
      PROVE  KInv' /\ ToTheBest
  <2>1. Kind[q] = "queue" /\ (Calls(t, "send", q, ticks, x) \/ Calls(t, "sendFront", q, ticks, x))
    BY <1>1 DEF csp_queue_enqueue, xQueueSendToFront
  <2> QED  BY <2>1, CallsKeeps
<1>2. ASSUME NEW q \in Queue, NEW ticks,
             \/ csp_queue_dequeue(t, q, ticks) \/ xQueuePeek(t, q, ticks)
             \/ csp_bin_sem_wait(t, q, ticks)
      PROVE  KInv' /\ ToTheBest
  <2>1. Calls(t, "receive", q, ticks, None) \/ Calls(t, "peek", q, ticks, None)
    BY <1>2 DEF csp_queue_dequeue, xQueuePeek, csp_bin_sem_wait
  <2> QED  BY <2>1, CallsKeeps
<1>3. ASSUME NEW q \in Queue, csp_bin_sem_post(t, q) PROVE KInv' /\ ToTheBest
  <2> DEFINE n == 0
  <2>1. Calls(t, "send", q, n, None)
    BY <1>3 DEF csp_bin_sem_post
  <2>2. /\ Kind[q] # "queue" /\ (Kind[q] = "mutex" => queue[q].holder = t)
        /\ n = 0
    BY <1>3 DEF csp_bin_sem_post
  <2> HIDE DEF n
  <2> QED  BY <2>1, <2>2, CallsKeeps
<1> QED  BY <1>1, <1>2, <1>3, YieldCallKeeps, DelayCallKeeps, CreateKeeps, DeleteKeeps DEF UserCall

\* Where a task is at another program point.
LEMMA AtPoint ==
  ASSUME KInv, NEW t \in Task, NEW pc, Running(t, pc)
  PROVE  /\ t = kern.current /\ call[t].pc = pc /\ call[t] \in CallRec /\ InShape(call[t])
         /\ KOk(kern) /\ IdleTask \in Rd(kern) /\ kern \in KernRec
         /\ t \in Rd(kern) \/ Going(call[t])
         /\ pc \in Held => kern.suspended = 1
         /\ pc \notin Held => kern.suspended = 0 /\ Pd(kern) = {}
         /\ call \in [Task -> CallRec] /\ left \in [Task -> -Slack..MaxDelay]
         /\ call[t].pc \in InCallPc \ {"resume", "yield"} => Calling(call[t])
<1>1. /\ t = kern.current /\ call[t].pc = pc /\ call[t] \in CallRec /\ InShape(call[t])
      /\ KOk(kern) /\ IdleOK /\ Turn
      /\ call \in [Task -> CallRec] /\ left \in [Task -> -Slack..MaxDelay]
  BY DEF KInv, Running
<1>2. kern.suspended \in 0..1 /\ kern \in KernRec
  BY <1>1, KernFields DEF KOk
<1>3. CallOK(call[t])
  BY DEF KInv, IInv, TaskCalls
<1>4. call[t].pc \in InCallPc \ {"resume", "yield"} => Calling(call[t])
  BY <1>3 DEF CallOK, Delaying
<1> QED  BY <1>1, <1>2, <1>4 DEF IdleOK, Turn

\* A step to the next program point.
LEMMA NextPoint ==
  ASSUME KInv, NEW t \in Task, NEW pc \in Pc, GoTo(t, pc)
  PROVE  \E c \in CallRec : /\ call' = [call EXCEPT ![t] = c]
                            /\ c.pc = pc /\ c.op = call[t].op /\ c.q = call[t].q
                            /\ c.then = call[t].then
                            /\ call[t].pc \in InCallPc /\ (pc = "place" => c.then = "yield") =>
                                 InShape(c)
<1> DEFINE c == [call[t] EXCEPT !.pc = pc]
<1>1. call \in [Task -> CallRec] /\ InShape(call[t])
  BY DEF KInv
<1>2. call[t] \in CallRec
  BY <1>1
<1>3. /\ c \in CallRec /\ c.pc = pc /\ c.op = call[t].op /\ c.q = call[t].q
      /\ c.then = call[t].then
  BY <1>2 DEF CallRec
<1>4. call' = [call EXCEPT ![t] = c]
  BY DEF GoTo
<1> HIDE DEF c
<1>5. call[t].pc \in InCallPc /\ (pc = "place" => c.then = "yield") => InShape(c)
  BY <1>1, <1>3 DEF InShape
<1> QED  BY <1>3, <1>4, <1>5

\* A step in which nothing moves.
LEMMA PointKeeps ==
  ASSUME KInv, IInv', NEW t \in Caller, t = kern.current, t \in Rd(kern),
         UNCHANGED <<kern, left>>,
         NEW c \in CallRec, call' = [call EXCEPT ![t] = c],
         c.pc \notin {"absent", "deleted"}, c.pc \in Held <=> call[t].pc \in Held, InShape(c)
  PROVE  KInv' /\ ToTheBest
<1>1. t \in Task /\ t # IdleTask
  BY DEF Caller
<1>2. KOk(kern) /\ Turn /\ left \in [Task -> -Slack..MaxDelay]
  BY DEF KInv
<1>3. kern' = kern /\ left' = left
  OBVIOUS
<1>4. kern.suspended = 1 <=> c.pc \in Held
  BY <1>2 DEF Turn
<1> QED  BY <1>1, <1>2, <1>3, <1>4, StayKeeps

\* vTaskSuspendAll.
LEMMA SuspendAllOK ==
  ASSUME NEW k, KOk(k), k.suspended = 0
  PROVE  LET j == vTaskSuspendAll(k)
         IN  /\ KOk(j) /\ Rd(j) = Rd(k) /\ As(j) = As(k) /\ Pd(j) = Pd(k)
             /\ j.current = k.current /\ j.suspended = 1 /\ SameEvents(k, j)
             /\ j.waitingTermination = k.waitingTermination
<1> DEFINE s == k.suspended + 1
           j == [k EXCEPT !.suspended = s]
<1>0. k \in KernRec /\ s = 1 /\ s \in 0..1
  BY DEF KOk
<1>1. j = vTaskSuspendAll(k)
  BY DEF vTaskSuspendAll
<1> HIDE DEF s
<1>2. /\ j \in KernRec /\ SameLists(k, j) /\ SameEvents(k, j)
      /\ j.current = k.current /\ j.suspended = 1
      /\ j.waitingTermination = k.waitingTermination
  <2>1. j \in KernRec
    BY <1>0, ZenonT(60) DEF KernRec
  <2>2. SameLists(k, j) /\ SameEvents(k, j)
    BY <1>0 DEF KernRec, SameLists, SameEvents
  <2>3. j.current = k.current /\ j.suspended = 1 /\ j.waitingTermination = k.waitingTermination
    BY <1>0 DEF KernRec
  <2> QED  BY <2>1, <2>2, <2>3
<1> HIDE DEF j
<1>3. KOk(j) /\ Rd(j) = Rd(k) /\ As(j) = As(k) /\ Pd(j) = Pd(k)
  BY <1>2, SameView
<1> QED  BY <1>1, <1>2, <1>3

\* xTaskResumeAll.
LEMMA ResumeAllOK ==
  ASSUME NEW k, KOk(k), k.suspended = 1, IdleTask \in Rd(k)
  PROVE  LET j == xTaskResumeAll(k)
         IN  /\ KOk(j) /\ Rd(k) \subseteq Rd(j) /\ Rd(j) \cup As(j) = Rd(k) \cup As(k)
             /\ j.waitingTermination = k.waitingTermination
             /\ j.suspended = 0 /\ Pd(j) = {} /\ Fewer(k, j)
             /\ j.current = k.current \/ (j.current \in Rd(j) /\ Best(j))
             /\ IF Resumed(k).yieldPending THEN j.current \in Rd(j) ELSE j.current = k.current
<1> DEFINE r == Resumed(k)
           j == YieldIf(r.yieldPending, r)
<1>1. /\ KOk(r) /\ Rd(k) \subseteq Rd(r) /\ Rd(r) \cup As(r) = Rd(k) \cup As(k)
      /\ r.current = k.current /\ r.suspended = 0 /\ Pd(r) = {} /\ Fewer(k, r)
      /\ r.waitingTermination = k.waitingTermination
  BY ResumedOK
<1>2. j = xTaskResumeAll(k)
  BY DEF xTaskResumeAll
<1> HIDE DEF r
<1>3. IdleTask \in Rd(r)
  BY <1>1
<1>4. CASE r.yieldPending
  <2>1. j = vTaskSwitchContext(r)
    BY <1>4 DEF YieldIf
  <2>2. Switched(r, j) /\ j.current \in Rd(j)
    BY <1>1, <1>3, <2>1, SwitchOK
  <2>3. Fewer(k, j)
    BY <1>1, <2>2, FewerFacts DEF Switched
  <2> QED  BY <1>1, <1>2, <1>4, <2>2, <2>3 DEF Switched, r
<1>5. CASE ~r.yieldPending
  <2>1. j = r
    BY <1>5 DEF YieldIf
  <2> QED  BY <1>1, <1>2, <1>5, <2>1 DEF r
<1> QED  BY <1>4, <1>5

\* A second attempt.
LEMMA RetryKeeps ==
  ASSUME KInv, IInv', NEW t \in Caller, Retry(t)
  PROVE  KInv' /\ ToTheBest
<1>1. Running(t, "try") /\ Attempt(t, call[t]) /\ t \in Task
  BY DEF Retry, Caller
<1>2. t = kern.current /\ call[t].pc = "try" /\ call[t] \in CallRec /\ InShape(call[t])
      /\ (call[t].pc \in InCallPc \ {"resume", "yield"} => Calling(call[t]))
  BY <1>1, AtPoint
<1>3. Calling(call[t])
  BY <1>2 DEF InCallPc
<1>4. call[t].op \in {"send", "sendFront"} => Kind[call[t].q] # "mutex"
  BY <1>2 DEF InShape, InCallPc
<1> QED  BY <1>1, <1>2, <1>3, <1>4, AttemptKeeps

\* The scheduler is suspended.
LEMMA SuspendKeeps ==
  ASSUME KInv, IInv', NEW t \in Caller, Suspend(t)
  PROVE  KInv' /\ ToTheBest
<1>1. /\ Running(t, "suspend") /\ GoTo(t, "lock") /\ kern' = vTaskSuspendAll(kern)
      /\ left' = left /\ t \in Task /\ t # IdleTask
  BY DEF Suspend, Caller
<1>2. /\ t = kern.current /\ call[t].pc = "suspend" /\ KOk(kern)
      /\ t \in Rd(kern) \/ Going(call[t])
      /\ "suspend" \notin Held => kern.suspended = 0
      /\ left \in [Task -> -Slack..MaxDelay]
  BY <1>1, AtPoint
<1>3. t \in Rd(kern) /\ kern.suspended = 0
  BY <1>2 DEF Going, Held
<1>4. "lock" \in Pc
  BY DEF Pc
<1>5. PICK c \in CallRec : /\ call' = [call EXCEPT ![t] = c] /\ c.pc = "lock"
                           /\ (call[t].pc \in InCallPc /\ ("lock" = "place" => c.then = "yield") =>
                                 InShape(c))
  BY <1>1, <1>4, NextPoint
<1>6. InShape(c) /\ c.pc \in Held /\ c.pc \notin {"absent", "deleted"}
  BY <1>2, <1>5 DEF InCallPc, Held
<1>7. /\ KOk(kern') /\ Rd(kern') = Rd(kern) /\ As(kern') = As(kern) /\ Pd(kern') = Pd(kern)
      /\ kern'.current = t /\ kern'.suspended = 1
      /\ kern'.waitingTermination = kern.waitingTermination
  BY <1>1, <1>2, <1>3, SuspendAllOK
<1> QED  BY <1>1, <1>2, <1>3, <1>5, <1>6, <1>7, StayKeeps

\* The queue is locked.
LEMMA LockKeeps ==
  ASSUME KInv, IInv', NEW t \in Caller, prvLockQueue(t)
  PROVE  KInv' /\ ToTheBest
<1>1. Running(t, "lock") /\ GoTo(t, "check") /\ UNCHANGED <<kern, left>> /\ t \in Task
  BY DEF prvLockQueue, Caller
<1>2. t = kern.current /\ call[t].pc = "lock" /\ (t \in Rd(kern) \/ Going(call[t]))
  BY <1>1, AtPoint
<1>3. t \in Rd(kern)
  BY <1>2 DEF Going
<1>4. "check" \in Pc
  BY DEF Pc
<1>5. PICK c \in CallRec : /\ call' = [call EXCEPT ![t] = c] /\ c.pc = "check"
                           /\ (call[t].pc \in InCallPc /\ ("check" = "place" => c.then = "yield") =>
                                 InShape(c))
  BY <1>1, <1>4, NextPoint
<1>6. InShape(c) /\ (c.pc \in Held <=> call[t].pc \in Held) /\ c.pc \notin {"absent", "deleted"}
  BY <1>2, <1>5 DEF InCallPc, Held
<1> QED  BY <1>1, <1>2, <1>3, <1>5, <1>6, PointKeeps

\* The time and the queue are looked at.
LEMMA CheckKeeps ==
  ASSUME KInv, IInv', NEW t \in Caller, Check(t)
  PROVE  KInv' /\ ToTheBest
<1> DEFINE c == call[t]
           late == xTaskCheckForTimeOut(kern, c.since, c.ticks)
           ticks == IF c.ticks = MaxDelay THEN c.ticks ELSE c.ticks - Elapsed(kern, c.since)
           since == IF c.ticks = MaxDelay THEN c.since ELSE vTaskSetTimeOutState(kern)
           pc == IF MustWait(t) THEN "place" ELSE "unlockTx"
           then == IF MustWait(t) THEN "yield" ELSE "try"
           d == [c EXCEPT !.pc = "unlockTx", !.then = "fail"]
           e == [c EXCEPT !.ticks = ticks, !.since = since, !.pc = pc, !.then = then]
<1>1. /\ Running(t, "check") /\ UNCHANGED <<kern, left>> /\ t \in Task
      /\ call' = [call EXCEPT ![t] = IF late THEN d ELSE e]
  BY DEF Check, Caller
<1>2. /\ t = kern.current /\ c.pc = "check" /\ (t \in Rd(kern) \/ Going(c))
      /\ KOk(kern) /\ c \in CallRec /\ InShape(c)
  BY <1>1, AtPoint
<1>3. t \in Rd(kern)
  BY <1>2 DEF Going
<1>4. c.pc \in InCallPc
  BY <1>2 DEF InCallPc
<1>5. CASE late
  <2>1. d \in CallRec /\ d.pc = "unlockTx" /\ d.op = c.op /\ d.q = c.q
    BY <1>2 DEF CallRec, Pc
  <2>2. call' = [call EXCEPT ![t] = d]
    BY <1>1, <1>5
  <2> HIDE DEF d
  <2>3. InShape(d) /\ (d.pc \in Held <=> c.pc \in Held) /\ d.pc \notin {"absent", "deleted"}
    BY <1>2, <1>4, <2>1 DEF InShape, Held
  <2> QED  BY <1>1, <1>2, <1>3, <2>1, <2>2, <2>3, PointKeeps
<1>6. CASE ~late
  <2>1. ticks \in 0..MaxDelay
    <3>0. c.ticks \in 0..MaxDelay /\ MaxDelay \in Nat
      BY <1>2, KernNumbers DEF CallRec
    <3>1. CASE c.ticks = MaxDelay
      BY <3>0, <3>1
    <3>2. CASE c.ticks # MaxDelay
      <4> DEFINE el == Elapsed(kern, c.since)
      <4>1. el \in 0..MaxDelay
        <5>1. kern.tick \in 0..MaxDelay /\ c.since.tick \in 0..MaxDelay
          BY <1>2, KernFields DEF KOk, CallRec
        <5>2. kern.tick - c.since.tick \in Int
          BY <5>1
        <5> QED  BY <5>2, KernNumbers DEF Elapsed
      <4>2. ~(el >= c.ticks)
        BY <1>6, <3>2 DEF xTaskCheckForTimeOut
      <4> HIDE DEF el
      <4>3. c.ticks - el \in 0..MaxDelay
        BY <3>0, <4>1, <4>2
      <4> QED  BY <3>2, <4>3 DEF el
    <3> QED  BY <3>1, <3>2
  <2>2. since \in [overflows : 0..OverflowMod - 1, tick : 0..MaxDelay]
    <3>1. kern.overflows \in 0..OverflowMod - 1 /\ kern.tick \in 0..MaxDelay
      BY <1>2, KernFields DEF KOk
    <3>2. c.since \in [overflows : 0..OverflowMod - 1, tick : 0..MaxDelay]
      BY <1>2 DEF CallRec
    <3> QED  BY <3>1, <3>2 DEF vTaskSetTimeOutState
  <2>3. pc \in {"place", "unlockTx"} /\ then \in {"yield", "try"} /\ (pc = "place" => then = "yield")
    OBVIOUS
  <2>4. call' = [call EXCEPT ![t] = e]
    BY <1>1, <1>6
  <2> HIDE DEF ticks, since, pc, then
  <2>5. e \in CallRec /\ e.pc = pc /\ e.then = then /\ e.op = c.op /\ e.q = c.q
    BY <1>2, <2>1, <2>2, <2>3 DEF CallRec, Pc
  <2> HIDE DEF e
  <2>6. InShape(e) /\ (e.pc \in Held <=> c.pc \in Held) /\ e.pc \notin {"absent", "deleted"}
    BY <1>2, <1>4, <2>3, <2>5 DEF InShape, Held
  <2> QED  BY <1>1, <1>2, <1>3, <2>4, <2>5, <2>6, PointKeeps
<1> QED  BY <1>5, <1>6

\* The task goes to sleep.
LEMMA PlaceKeeps ==
  ASSUME KInv, IInv', NEW t \in Caller, Place(t)
  PROVE  KInv' /\ ToTheBest
<1> DEFINE q == call[t].q
           k == IF Kind[q] = "mutex" THEN vTaskPriorityInherit(kern, queue[q].holder) ELSE kern
           i == IF Sends(t) THEN [k EXCEPT !.senders[q] = ByPriority(k, @)]
                ELSE [k EXCEPT !.receivers[q] = ByPriority(k, @)]
<1>1. /\ Running(t, "place") /\ GoTo(t, "unlockTx") /\ kern' = BlockCurrent(i, call[t].ticks)
      /\ left' = left /\ t \in Task /\ t # IdleTask
  BY DEF Place, Caller
<1>2. /\ t = kern.current /\ call[t].pc = "place" /\ call[t] \in CallRec /\ InShape(call[t])
      /\ KOk(kern) /\ IdleTask \in Rd(kern)
      /\ t \in Rd(kern) \/ Going(call[t])
      /\ "place" \in Held => kern.suspended = 1
      /\ left \in [Task -> -Slack..MaxDelay]
      /\ call[t].pc \in InCallPc \ {"resume", "yield"} => Calling(call[t])
  BY <1>1, AtPoint
<1>3. /\ t \in Rd(kern) /\ kern.suspended = 1 /\ q \in Queue /\ call[t].then = "yield"
      /\ call[t].ticks \in 0..MaxDelay /\ call[t].pc \in InCallPc
  BY <1>2 DEF Going, Held, InCallPc, Calling, InShape, CallRec
<1>4. SamePlaces(kern, k)
  <2>1. CASE Kind[q] = "mutex"
    <3>1. queue[q].holder \in Task \cup {None}
      BY <1>3 DEF KInv, IInv, Queues, Good, QueueRec
    <3> QED  BY <1>2, <2>1, <3>1, InheritOK
  <2>2. CASE Kind[q] # "mutex"
    BY <1>2, <2>2 DEF SamePlaces, SameRest, SameEvents
  <2> QED  BY <2>1, <2>2
<1> HIDE DEF k
<1>5. /\ KOk(k) /\ k.current = t /\ k.current \in Rd(k) /\ Rd(k) = Rd(kern) /\ As(k) = As(kern)
      /\ k.suspended = 1 /\ k.waitingTermination = kern.waitingTermination
  BY <1>2, <1>3, <1>4 DEF SamePlaces, SameRest
<1>6. \/ i = [k EXCEPT !.senders[q] = ByPriority(k, @)]
      \/ i = [k EXCEPT !.receivers[q] = ByPriority(k, @)]
  OBVIOUS
<1> HIDE DEF i
<1>7. /\ KOk(kern') /\ SameRest(k, kern')
      /\ Rd(kern') = Rd(k) \ {k.current} /\ As(kern') = As(k) \cup {k.current}
  <2> DEFINE w == call[t].ticks
  <2>1. w \in 0..MaxDelay /\ q \in Queue /\ KOk(k) /\ k.current \in Rd(k)
    BY <1>3, <1>5
  <2>2. kern' = BlockCurrent(i, w)
    BY <1>1
  <2> HIDE DEF w, q
  <2>3. LET j == BlockCurrent(i, w)
        IN  /\ KOk(j) /\ SameRest(k, j) /\ Pd(j) = Pd(k)
            /\ Rd(j) = Rd(k) \ {k.current} /\ As(j) = As(k) \cup {k.current}
    BY <1>6, <2>1, BlockOK
  <2> QED  BY <2>2, <2>3
<1>8. /\ Rd(kern') \cup As(kern') = Rd(kern) \cup As(kern) /\ IdleTask \in Rd(kern')
      /\ kern'.current = t /\ kern'.suspended = 1
      /\ kern'.waitingTermination = kern.waitingTermination
  BY <1>1, <1>2, <1>3, <1>5, <1>7 DEF SameRest
<1>9. "unlockTx" \in Pc
  BY DEF Pc
<1>10. PICK c \in CallRec : /\ call' = [call EXCEPT ![t] = c] /\ c.pc = "unlockTx"
                            /\ c.then = call[t].then
                            /\ (call[t].pc \in InCallPc /\ ("unlockTx" = "place" => c.then = "yield")
                                  => InShape(c))
  BY <1>1, <1>9, NextPoint
<1>11. InShape(c) /\ c.pc \in Held /\ c.pc \notin {"absent", "deleted"} /\ Going(c)
  BY <1>3, <1>10 DEF Held, Going
<1>12. KInv'
  <2>1. kern'.suspended # 0 /\ left' \in [Task -> -Slack..MaxDelay]
    BY <1>1, <1>2, <1>8
  <2> QED  BY <1>1, <1>2, <1>7, <1>8, <1>10, <1>11, <2>1, StepKeeps
<1> QED  BY <1>2, <1>8, <1>12 DEF ToTheBest

\* A calm step on the way out of a call, with the scheduler suspended.
LEMMA CalmPointKeeps ==
  ASSUME KInv, IInv', NEW t \in Caller, NEW pc \in {"unlockTx", "unlockRx"}, Running(t, pc),
         Calm(kern, kern'), left' = left,
         NEW next \in {"unlockRx", "resume"}, GoTo(t, next)
  PROVE  KInv' /\ ToTheBest
<1>1. t \in Task /\ t # IdleTask
  BY DEF Caller
<1>2. /\ t = kern.current /\ call[t].pc = pc /\ IdleTask \in Rd(kern)
      /\ t \in Rd(kern) \/ Going(call[t])
      /\ pc \in Held => kern.suspended = 1
      /\ left \in [Task -> -Slack..MaxDelay]
  BY <1>1, AtPoint
<1>3. /\ KOk(kern') /\ Rd(kern) \subseteq Rd(kern')
      /\ Rd(kern') \cup As(kern') = Rd(kern) \cup As(kern)
      /\ kern'.current = t /\ kern'.suspended = 1
      /\ kern'.waitingTermination = kern.waitingTermination
  BY <1>2 DEF Calm, SameRest, Held
<1>4. next \in Pc
  BY DEF Pc
<1>5. PICK c \in CallRec : /\ call' = [call EXCEPT ![t] = c] /\ c.pc = next
                           /\ c.then = call[t].then
                           /\ (call[t].pc \in InCallPc /\ (next = "place" => c.then = "yield")
                                 => InShape(c))
  BY <1>1, <1>4, NextPoint
<1>6. InShape(c) /\ c.pc \in Held /\ c.pc \notin {"absent", "deleted"}
  BY <1>2, <1>5 DEF Held, InCallPc
<1>7. t \in Rd(kern') \/ Going(c)
  BY <1>2, <1>3, <1>5 DEF Going
<1>8. KInv'
  <2>1. kern'.suspended # 0 /\ left' \in [Task -> -Slack..MaxDelay] /\ IdleTask \in Rd(kern')
    BY <1>2, <1>3
  <2> QED  BY <1>1, <1>2, <1>3, <1>5, <1>6, <1>7, <2>1, StepKeeps
<1> QED  BY <1>2, <1>3, <1>8 DEF ToTheBest

\* The queue is unlocked, in two steps.
LEMMA UnlockKeeps ==
  ASSUME KInv, IInv', NEW t \in Caller, Unlock(t) \/ UnlockRx(t)
  PROVE  KInv' /\ ToTheBest
<1> DEFINE q == call[t].q
<1>0. t \in Task
  BY DEF Caller
<1>1. ASSUME NEW pc \in {"unlockTx", "unlockRx"}, Running(t, pc)
      PROVE  /\ KOk(kern) /\ kern.suspended = 1 /\ q \in Queue
             /\ queue[q].txLock \in Int /\ queue[q].rxLock \in Int
             /\ kern.senders[q] \in Lists(Task) /\ Members(kern.senders[q]) \subseteq InEvent(kern)
             /\ kern.receivers[q] \in Lists(Task)
             /\ Members(kern.receivers[q]) \subseteq InEvent(kern)
  <2>1. /\ KOk(kern) /\ (pc \in Held => kern.suspended = 1) /\ call[t].pc = pc
        /\ call[t].pc \in InCallPc \ {"resume", "yield"} => Calling(call[t])
    BY <1>0, <1>1, AtPoint
  <2>2. kern.suspended = 1 /\ Calling(call[t])
    BY <2>1 DEF Held, InCallPc
  <2>3. q \in Queue
    BY <2>2 DEF Calling
  <2>4. queue[q].txLock \in Int /\ queue[q].rxLock \in Int
    BY <2>3 DEF KInv, IInv, Queues, Good, QueueRec
  <2> QED  BY <2>1, <2>2, <2>3, <2>4, EventLists
<1>2. CASE Unlock(t)
  <2>1. /\ Running(t, "unlockTx") /\ GoTo(t, "unlockRx") /\ left' = left
        /\ kern' = WakeUpTo(kern, queue[q].txLock, kern.receivers[q])
    BY <1>2 DEF Unlock
  <2>2. Calm(kern, kern')
    BY <1>1, <2>1, WakeUpToOK
  <2> QED  BY <2>1, <2>2, CalmPointKeeps
<1>3. CASE UnlockRx(t)
  <2>1. /\ Running(t, "unlockRx") /\ GoTo(t, "resume") /\ left' = left
        /\ kern' = WakeUpTo(kern, queue[q].rxLock, kern.senders[q])
    BY <1>3 DEF UnlockRx
  <2>2. Calm(kern, kern')
    BY <1>1, <2>1, WakeUpToOK
  <2> QED  BY <2>1, <2>2, CalmPointKeeps
<1> QED  BY <1>2, <1>3

\* The running task goes on from xTaskResumeAll.
LEMMA ResumeAt ==
  ASSUME KInv, IInv', NEW t \in Task, t = kern.current, kern.suspended = 1,
         kern' = xTaskResumeAll(kern),
         NEW c \in CallRec, call' = [call EXCEPT ![t] = c],
         c.pc \in {"run", "try", "delayed", "yield", "reap"},
         c.pc = "yield" => ~Resumed(kern).yieldPending,
         c.pc # "yield" => t \in Rd(kern) \/ Resumed(kern).yieldPending,
         t = IdleTask => c.pc = "reap" /\ kern.waitingTermination # <<>>,
         InShape(c), left' \in [Task -> -Slack..MaxDelay]
  PROVE  KInv' /\ ToTheBest
<1> DEFINE y == Resumed(kern).yieldPending
<1>1. KOk(kern) /\ IdleTask \in Rd(kern)
  BY DEF KInv, IdleOK
<1>2. /\ KOk(kern') /\ Rd(kern) \subseteq Rd(kern')
      /\ Rd(kern') \cup As(kern') = Rd(kern) \cup As(kern)
      /\ kern'.waitingTermination = kern.waitingTermination
      /\ kern'.suspended = 0 /\ Pd(kern') = {}
      /\ kern'.current = t \/ (kern'.current \in Rd(kern') /\ Best(kern'))
      /\ IF y THEN kern'.current \in Rd(kern') ELSE kern'.current = t
  BY <1>1, ResumeAllOK
<1> HIDE DEF y
<1>3. c.pc \notin {"absent", "deleted"} /\ c.pc \notin Held /\ (c.pc # "yield" => c.pc \in Away)
  BY DEF Held, Away
<1>4. KInv'
  <2>1. \/ /\ kern'.current = t
           /\ kern'.suspended = 1 <=> c.pc \in Held
           /\ t \in Rd(kern') \/ Going(c)
        \/ /\ kern'.current # t /\ kern'.current \in Rd(kern') /\ kern'.suspended = 0
           /\ c.pc \in Away
    <3>1. CASE c.pc = "yield"
      <4>1. kern'.current = t /\ Going(c)
        BY <1>2, <3>1 DEF Going, y
      <4> QED  BY <1>2, <1>3, <4>1
    <3>2. CASE c.pc # "yield"
      <4>1. kern'.current \in Rd(kern')
        BY <1>2, <3>2 DEF y
      <4> QED  BY <1>2, <1>3, <3>2, <4>1
    <3> QED  BY <3>1, <3>2
  <2>2. t = IdleTask => /\ c.pc \in {"run", "idleResume", "reap"}
                        /\ c.pc # "run" => kern.waitingTermination # <<>>
    OBVIOUS
  <2>3. IdleTask \in Rd(kern') /\ (kern'.suspended = 0 => Pd(kern') = {})
    BY <1>1, <1>2
  <2> QED  BY <1>2, <1>3, <2>1, <2>2, <2>3, StepKeeps
<1> QED  BY <1>2, <1>4 DEF ToTheBest, Best

\* Resume.
LEMMA ResumeKeeps ==
  ASSUME KInv, IInv', NEW t \in Caller, Resume(t)
  PROVE  KInv' /\ ToTheBest
<1>1. /\ Running(t, "resume") /\ kern' = xTaskResumeAll(kern) /\ t \in Task /\ t # IdleTask
      /\ \/ /\ call[t].then = "fail" /\ call' = [call EXCEPT ![t] = NoCall]
            /\ left' = [left EXCEPT ![t] = 0]
         \/ call[t].then = "try" /\ GoTo(t, "try") /\ left' = left
         \/ /\ call[t].then = "yield" /\ left' = left
            /\ GoTo(t, IF Resumed(kern).yieldPending THEN AfterYield(t) ELSE "yield")
  BY DEF Resume, Caller
<1>2. /\ t = kern.current /\ call[t].pc = "resume" /\ (t \in Rd(kern) \/ Going(call[t]))
      /\ "resume" \in Held => kern.suspended = 1
      /\ left \in [Task -> -Slack..MaxDelay]
  BY <1>1, AtPoint
<1>3. /\ t = kern.current /\ kern.suspended = 1 /\ call[t].pc = "resume"
      /\ call[t].pc \in InCallPc
      /\ call[t].then # "yield" => t \in Rd(kern)
  BY <1>2, <1>1, AtPoint DEF Held, Going, InCallPc
<1>4. /\ "try" \in Pc /\ "yield" \in Pc /\ AfterYield(t) \in Pc
      /\ AfterYield(t) \in {"try", "delayed"}
  BY DEF Pc, AfterYield
<1>5. CASE call[t].then = "fail" /\ call' = [call EXCEPT ![t] = NoCall] /\ left' = [left EXCEPT ![t] = 0]
  <2>1. NoCall \in CallRec /\ NoCall.pc = "run" /\ InShape(NoCall)
    BY NoCallOK
  <2>2. left' \in [Task -> -Slack..MaxDelay]
    BY <1>2, <1>5, LeftTypes
  <2> QED  BY <1>1, <1>3, <1>5, <2>1, <2>2, ResumeAt
<1>6. CASE call[t].then = "try" /\ GoTo(t, "try") /\ left' = left
  <2>1. PICK c \in CallRec : /\ call' = [call EXCEPT ![t] = c] /\ c.pc = "try"
                             /\ (call[t].pc \in InCallPc /\ ("try" = "place" => c.then = "yield")
                                   => InShape(c))
    BY <1>1, <1>4, <1>6, NextPoint
  <2> QED  BY <1>1, <1>2, <1>3, <1>6, <2>1, ResumeAt
<1>7. CASE /\ call[t].then = "yield" /\ left' = left
           /\ GoTo(t, IF Resumed(kern).yieldPending THEN AfterYield(t) ELSE "yield")
  <2> DEFINE pc == IF Resumed(kern).yieldPending THEN AfterYield(t) ELSE "yield"
  <2>1. /\ pc \in Pc /\ pc \in {"try", "delayed", "yield"}
        /\ pc = "yield" => ~Resumed(kern).yieldPending
        /\ pc # "yield" => Resumed(kern).yieldPending
    BY <1>4
  <2>2. GoTo(t, pc)
    BY <1>7
  <2> HIDE DEF pc
  <2>3. PICK c \in CallRec : /\ call' = [call EXCEPT ![t] = c] /\ c.pc = pc
                             /\ (call[t].pc \in InCallPc /\ (pc = "place" => c.then = "yield")
                                   => InShape(c))
    BY <1>1, <2>1, <2>2, NextPoint
  <2>4. InShape(c)
    BY <1>3, <2>1, <2>3
  <2> QED  BY <1>1, <1>2, <1>3, <1>7, <2>1, <2>3, <2>4, ResumeAt
<1> QED  BY <1>1, <1>5, <1>6, <1>7

\* Yield.
LEMMA YieldKeeps ==
  ASSUME KInv, IInv', NEW t \in Caller, Yield(t)
  PROVE  KInv' /\ ToTheBest
<1>1. /\ Running(t, "yield") /\ GoTo(t, AfterYield(t)) /\ kern' = vTaskSwitchContext(kern)
      /\ left' = left /\ t \in Task /\ t # IdleTask
  BY DEF Yield, Caller
<1>2. /\ t = kern.current /\ call[t].pc = "yield" /\ KOk(kern) /\ IdleTask \in Rd(kern)
      /\ "yield" \notin Held => kern.suspended = 0 /\ Pd(kern) = {}
      /\ left \in [Task -> -Slack..MaxDelay]
  BY <1>1, AtPoint
<1>3. kern.suspended = 0 /\ Pd(kern) = {}
  BY <1>2 DEF Held
<1>4. Switched(kern, kern') /\ kern'.current \in Rd(kern')
  BY <1>1, <1>2, <1>3, SwitchOK
<1>5. /\ KOk(kern') /\ Rd(kern') = Rd(kern) /\ As(kern') = As(kern) /\ Pd(kern') = {}
      /\ kern'.suspended = 0 /\ kern'.waitingTermination = kern.waitingTermination
      /\ kern'.current = t \/ Best(kern')
  BY <1>2, <1>3, <1>4 DEF Switched
<1>6. AfterYield(t) \in Pc /\ AfterYield(t) \in {"try", "delayed"}
  BY DEF Pc, AfterYield
<1>7. PICK c \in CallRec : /\ call' = [call EXCEPT ![t] = c] /\ c.pc = AfterYield(t)
                           /\ (call[t].pc \in InCallPc /\ (AfterYield(t) = "place" => c.then = "yield")
                                 => InShape(c))
  BY <1>1, <1>6, NextPoint
<1>8. InShape(c) /\ c.pc \in Away /\ c.pc \notin Held /\ c.pc \notin {"absent", "deleted"}
  BY <1>2, <1>6, <1>7 DEF Held, Away, InCallPc
<1>9. KInv'
  <2>1. \/ /\ kern'.current = t
           /\ kern'.suspended = 1 <=> c.pc \in Held
           /\ t \in Rd(kern') \/ Going(c)
        \/ /\ kern'.current # t /\ kern'.current \in Rd(kern') /\ kern'.suspended = 0
           /\ c.pc \in Away
    BY <1>4, <1>5, <1>8
  <2>2. left' \in [Task -> -Slack..MaxDelay] /\ IdleTask \in Rd(kern')
    BY <1>1, <1>2, <1>5
  <2> QED  BY <1>1, <1>2, <1>5, <1>7, <1>8, <2>1, <2>2, StepKeeps
<1> QED  BY <1>2, <1>5, <1>9 DEF ToTheBest, Best

\* A delay is over.
LEMMA DelayedKeeps ==
  ASSUME KInv, IInv', NEW t \in Caller, Delayed(t)
  PROVE  KInv' /\ ToTheBest
<1>1. /\ Running(t, "delayed") /\ call' = [call EXCEPT ![t] = NoCall] /\ kern' = kern
      /\ left' = [left EXCEPT ![t] = 0] /\ t \in Task /\ t # IdleTask
  BY DEF Delayed, Caller
<1>2. /\ t = kern.current /\ call[t].pc = "delayed" /\ KOk(kern)
      /\ t \in Rd(kern) \/ Going(call[t])
      /\ "delayed" \notin Held => kern.suspended = 0
      /\ left \in [Task -> -Slack..MaxDelay]
  BY <1>1, AtPoint
<1>3. t \in Rd(kern) /\ kern.suspended = 0
  BY <1>2 DEF Going, Held
<1>4. NoCall \in CallRec /\ NoCall.pc = "run" /\ InShape(NoCall)
  BY NoCallOK
<1>5. NoCall.pc \notin {"absent", "deleted"} /\ NoCall.pc \notin Held
  BY <1>4 DEF Held
<1>6. left' \in [Task -> -Slack..MaxDelay]
  BY <1>1, <1>2, LeftTypes
<1>7. /\ KOk(kern') /\ Rd(kern') = Rd(kern) /\ As(kern') = As(kern) /\ Pd(kern') = Pd(kern)
      /\ kern'.current = t /\ kern'.waitingTermination = kern.waitingTermination
      /\ kern'.suspended = 0
  BY <1>1, <1>2, <1>3
<1>8. /\ kern'.suspended = 1 <=> NoCall.pc \in Held
      /\ kern'.suspended = 0 => kern.suspended = 0
  BY <1>3, <1>5, <1>7
<1> QED  BY <1>1, <1>2, <1>3, <1>4, <1>5, <1>6, <1>7, <1>8, StayKeeps

\* The steps of a call.
LEMMA InCallKeeps ==
  ASSUME KInv, IInv', NEW t \in Caller, InCall(t)
  PROVE  KInv' /\ ToTheBest
BY RetryKeeps, SuspendKeeps, LockKeeps, CheckKeeps, PlaceKeeps, UnlockKeeps, ResumeKeeps,
   YieldKeeps, DelayedKeeps DEF InCall

\* The idle task yields.
LEMMA IdleKeeps ==
  ASSUME KInv, IInv', Idle
  PROVE  KInv' /\ ToTheBest
<1> DEFINE c == call[IdleTask]
<1>1. /\ Running(IdleTask, "run") /\ kern' = vTaskSwitchContext(kern)
      /\ call' = call /\ left' = left /\ IdleTask \in Task
  BY TaskFacts DEF Idle
<1>2. /\ IdleTask = kern.current /\ c.pc = "run" /\ KOk(kern) /\ IdleTask \in Rd(kern)
      /\ c \in CallRec /\ InShape(c)
      /\ "run" \notin Held => kern.suspended = 0
      /\ call \in [Task -> CallRec] /\ left \in [Task -> -Slack..MaxDelay]
  BY <1>1, AtPoint
<1>3. kern.suspended = 0
  BY <1>2 DEF Held
<1>4. call' = [call EXCEPT ![IdleTask] = c]
  BY <1>1, <1>2
<1> HIDE DEF c
<1>5. SamePlaces(kern, kern)
  BY <1>2 DEF SamePlaces, SameRest, SameEvents
<1>6. Moves(kern, kern')
  <2>1. Switched(kern, kern')
    BY <1>1, <1>2, SwitchOK
  <2> QED  BY <2>1 DEF Switched, Moves
<1>7. c.pc \in {"run", "try", "delayed"} /\ (IdleTask = IdleTask => c.pc = "run")
      /\ left' \in [Task -> -Slack..MaxDelay]
  BY <1>1, <1>2
<1> QED  BY <1>1, <1>2, <1>3, <1>4, <1>5, <1>6, <1>7, MoveKeeps

\* It suspends the scheduler.
LEMMA IdleSuspendKeeps ==
  ASSUME KInv, IInv', IdleSuspend
  PROVE  KInv' /\ ToTheBest
<1>1. /\ Running(IdleTask, "run") /\ GoTo(IdleTask, "idleResume")
      /\ kern' = vTaskSuspendAll(kern) /\ kern.waitingTermination # <<>>
      /\ left' = left /\ IdleTask \in Task
  BY TaskFacts DEF IdleSuspend
<1>2. /\ IdleTask = kern.current /\ call[IdleTask].pc = "run" /\ KOk(kern) /\ IdleTask \in Rd(kern)
      /\ "run" \notin Held => kern.suspended = 0
      /\ left \in [Task -> -Slack..MaxDelay]
  BY <1>1, AtPoint
<1>3. kern.suspended = 0
  BY <1>2 DEF Held
<1>4. "idleResume" \in Pc
  BY DEF Pc
<1>5. PICK c \in CallRec : call' = [call EXCEPT ![IdleTask] = c] /\ c.pc = "idleResume"
  BY <1>1, <1>4, NextPoint
<1>6. /\ InShape(c) /\ c.pc \in Held /\ c.pc \notin {"absent", "deleted"}
      /\ IdleTask = IdleTask => /\ c.pc \in {"run", "idleResume", "reap"}
                                /\ c.pc # "run" => kern.waitingTermination # <<>>
  BY <1>1, <1>5 DEF InShape, InCallPc, Held
<1>7. /\ KOk(kern') /\ Rd(kern') = Rd(kern) /\ As(kern') = As(kern) /\ Pd(kern') = Pd(kern)
      /\ kern'.current = IdleTask /\ kern'.suspended = 1
      /\ kern'.waitingTermination = kern.waitingTermination
  BY <1>1, <1>2, <1>3, SuspendAllOK
<1>8. /\ kern'.suspended = 1 <=> c.pc \in Held
      /\ kern'.suspended = 0 => kern.suspended = 0
      /\ left' \in [Task -> -Slack..MaxDelay]
  BY <1>1, <1>2, <1>3, <1>6, <1>7
<1> QED  BY <1>1, <1>2, <1>5, <1>6, <1>7, <1>8, StayKeeps

\* It resumes it.
LEMMA IdleResumeKeeps ==
  ASSUME KInv, IInv', IdleResume
  PROVE  KInv' /\ ToTheBest
<1>1. /\ Running(IdleTask, "idleResume") /\ GoTo(IdleTask, "reap")
      /\ kern' = xTaskResumeAll(kern) /\ left' = left /\ IdleTask \in Task
  BY TaskFacts DEF IdleResume
<1>2. /\ IdleTask = kern.current /\ call[IdleTask].pc = "idleResume" /\ IdleTask \in Rd(kern)
      /\ "idleResume" \in Held => kern.suspended = 1
      /\ left \in [Task -> -Slack..MaxDelay] /\ IdleOK
  BY <1>1, AtPoint DEF KInv
<1>3. kern.suspended = 1 /\ kern.waitingTermination # <<>>
  BY <1>2 DEF Held, IdleOK
<1>4. "reap" \in Pc
  BY DEF Pc
<1>5. PICK c \in CallRec : call' = [call EXCEPT ![IdleTask] = c] /\ c.pc = "reap"
  BY <1>1, <1>4, NextPoint
<1>6. InShape(c) /\ c.pc \in {"run", "try", "delayed", "yield", "reap"} /\ c.pc # "yield"
  BY <1>5 DEF InShape, InCallPc
<1>7. left' \in [Task -> -Slack..MaxDelay]
  BY <1>1, <1>2
<1> QED  BY <1>1, <1>2, <1>3, <1>5, <1>6, <1>7, ResumeAt

\* It frees a task.
LEMMA ReapKeeps ==
  ASSUME KInv, IInv', Reap
  PROVE  KInv' /\ ToTheBest
<1> DEFINE u == Head(kern.waitingTermination)
           d == [NoCall EXCEPT !.pc = "absent"]
<1>1. /\ Running(IdleTask, "reap")
      /\ kern' = [kern EXCEPT !.waitingTermination = Tail(@)]
      /\ call' = [call EXCEPT ![IdleTask] = NoCall, ![u] = d]
      /\ left' = left /\ IdleTask \in Task
  BY TaskFacts DEF Reap
<1>2. /\ IdleTask = kern.current /\ call[IdleTask].pc = "reap" /\ KOk(kern) /\ IdleTask \in Rd(kern)
      /\ "reap" \notin Held => kern.suspended = 0 /\ Pd(kern) = {}
      /\ call \in [Task -> CallRec] /\ left \in [Task -> -Slack..MaxDelay] /\ IdleOK /\ Places
  BY <1>1, AtPoint DEF KInv
<1>3. kern.suspended = 0 /\ Pd(kern) = {} /\ kern.waitingTermination # <<>>
  BY <1>2 DEF Held, IdleOK
<1>4. /\ KOk(kern') /\ Rd(kern') = Rd(kern) /\ As(kern') = As(kern) /\ Pd(kern') = Pd(kern)
      /\ Wt(kern') = Wt(kern) \ {u} /\ u \in Wt(kern)
      /\ kern'.current = kern.current /\ kern'.suspended = kern.suspended
  BY <1>1, <1>2, <1>3, ReapOK
<1> HIDE DEF u
<1>5. /\ Rd(kern) \cap Wt(kern) = {} /\ As(kern) \cap Wt(kern) = {} /\ Wt(kern) \subseteq Task
  BY <1>2, KernMembers DEF KOk, OneList
<1>6. u \in Task /\ u # IdleTask /\ u \in Caller
  BY <1>2, <1>4, <1>5 DEF Caller
<1>7. NoCall \in CallRec /\ NoCall.pc = "run"
  BY NoCallOK
<1>8. d \in CallRec /\ d.pc = "absent" /\ d.pc \in {"run", "absent", "deleted"}
  BY <1>7 DEF CallRec, Pc
<1> HIDE DEF d
<1>9. /\ call' \in [Task -> CallRec]
      /\ \A v \in Task : call'[v] = IF v = u THEN d ELSE IF v = IdleTask THEN NoCall ELSE call[v]
  BY <1>1, <1>2, <1>6, <1>7, <1>8
<1>10. Places'
  <2>1. ASSUME NEW v \in Task
        PROVE  /\ v \in Rd(kern') \cup As(kern') \cup Wt(kern') <=> call'[v].pc # "absent"
               /\ v \in Wt(kern') <=> call'[v].pc = "deleted"
    <3>1. CASE v = u
      BY <1>4, <1>5, <1>8, <1>9, <3>1
    <3>2. CASE v # u /\ v = IdleTask
      BY <1>2, <1>4, <1>5, <1>7, <1>9, <3>2
    <3>3. CASE v # u /\ v # IdleTask
      BY <1>2, <1>4, <1>9, <3>3 DEF Places
    <3> QED  BY <3>1, <3>2, <3>3
  <2> QED  BY <2>1 DEF Places, Rd, As, Wt
<1>11. KInv'
  <2>1. /\ IdleTask \in Rd(kern') /\ kern'.current \in Rd(kern')
        /\ kern'.suspended = 0 /\ Pd(kern') = {} /\ left' \in [Task -> -Slack..MaxDelay]
    BY <1>1, <1>2, <1>3, <1>4
  <2> QED  BY <1>1, <1>2, <1>4, <1>6, <1>8, <1>9, <1>10, <2>1, LifeKeeps
<1> QED  BY <1>4, <1>11 DEF ToTheBest

\* The steps of the idle task.
LEMMA IdleStepKeeps ==
  ASSUME KInv, IInv', IdleStep
  PROVE  KInv' /\ ToTheBest
BY IdleKeeps, IdleSuspendKeeps, IdleResumeKeeps, ReapKeeps DEF IdleStep

\* A calm step outside of the tasks.
LEMMA CalmKeeps ==
  ASSUME KInv, IInv', Calm(kern, kern'), call' = call, left' \in [Task -> -Slack..MaxDelay]
  PROVE  KInv' /\ ToTheBest
<1> DEFINE t == kern.current
           c == call[t]
<1>1. /\ KOk(kern) /\ Places /\ Turn /\ IdleOK /\ call \in [Task -> CallRec]
      /\ \A u \in Task : InShape(call[u])
  BY DEF KInv
<1>2. t \in Task /\ kern.suspended \in 0..1
  BY <1>1, KernFields DEF KOk
<1>3. c \in CallRec /\ InShape(c) /\ call' = [call EXCEPT ![t] = c]
  BY <1>1, <1>2
<1>4. /\ KOk(kern') /\ Rd(kern) \subseteq Rd(kern')
      /\ Rd(kern') \cup As(kern') = Rd(kern) \cup As(kern)
      /\ kern'.current = t /\ kern'.suspended = kern.suspended
      /\ kern'.waitingTermination = kern.waitingTermination
      /\ kern.suspended = 0 => Pd(kern') \subseteq Pd(kern)
  BY DEF Calm, SameRest
<1>5. /\ kern.suspended = 1 <=> c.pc \in Held
      /\ t \in Rd(kern) \/ Going(c)
      /\ kern.suspended = 0 => Pd(kern) = {}
  BY <1>1 DEF Turn
<1>6. c.pc \notin {"absent", "deleted"}
  <2>1. CASE t \in Rd(kern)
    <3>1. t \notin Wt(kern)
      BY <1>1, <2>1 DEF KOk, OneList
    <3> QED  BY <1>1, <1>2, <2>1, <3>1 DEF Places
  <2>2. CASE Going(c)
    BY <2>2 DEF Going
  <2> QED  BY <1>5, <2>1, <2>2
<1>7. t = IdleTask => /\ c.pc \in {"run", "idleResume", "reap"}
                      /\ c.pc # "run" => kern.waitingTermination # <<>>
  BY <1>1 DEF IdleOK
<1>8. IdleTask \in Rd(kern)
  BY <1>1 DEF IdleOK
<1> HIDE DEF c
<1>9. KInv'
  <2>1. IdleTask \in Rd(kern') /\ (kern'.suspended = 0 => Pd(kern') = {})
    BY <1>4, <1>5, <1>8
  <2>2. /\ kern'.current = t
        /\ kern'.suspended = 1 <=> c.pc \in Held
        /\ t \in Rd(kern') \/ Going(c)
    BY <1>4, <1>5
  <2> HIDE DEF t
  <2>3. t = kern.current
    BY DEF t
  <2> QED  BY <1>2, <1>3, <1>4, <1>6, <1>7, <2>1, <2>2, <2>3, StepKeeps
<1> QED  BY <1>4, <1>9 DEF ToTheBest

\* The tick and the other interrupts.
LEMMA InterruptKeeps ==
  ASSUME KInv, IInv', Interrupt
  PROVE  KInv' /\ ToTheBest
<1>1. KOk(kern) /\ left \in [Task -> -Slack..MaxDelay]
  BY DEF KInv
<1>2. CASE vPortTickISR
  <2>1. /\ kern' = xTaskIncrementTick(kern) /\ call' = call
        /\ \A t \in Task : left[t] > -Slack
        /\ left' = [t \in Task |-> IF Timed(t) THEN left[t] - 1 ELSE left[t]]
    BY <1>2 DEF vPortTickISR
  <2>2. Calm(kern, kern')
    BY <1>1, <2>1, TickOK
  <2>3. ASSUME NEW t \in Task
        PROVE  left[t] \in -Slack..MaxDelay /\ left[t] - 1 \in -Slack..MaxDelay
    <3>1. Slack \in Nat /\ MaxDelay \in Nat /\ left[t] \in -Slack..MaxDelay /\ left[t] > -Slack
      BY <1>1, <2>1, KernNumbers, KernelAssumption
    <3> QED  BY <3>1
  <2>4. left' \in [Task -> -Slack..MaxDelay]
    BY <2>1, <2>3
  <2> QED  BY <2>1, <2>2, <2>4, CalmKeeps
<1>3. ASSUME NEW l \in Lists(Task), Members(l) \subseteq InEvent(kern), WakeFromISR(l)
      PROVE  Calm(kern, kern')
  <2>1. CASE l = <<>>
    <3>1. kern' = kern
      BY <1>3, <2>1 DEF WakeFromISR
    <3> QED  BY <1>1, <3>1, CalmSelf
  <2>2. CASE l # <<>>
    <3>1. Head(l) \in Task /\ Head(l) \in InEvent(kern)
      BY <1>3, <2>2, ListBasics
    <3>2. kern' = xTaskRemoveFromEventList(kern, Head(l))
      BY <1>3, <2>2 DEF WakeFromISR
    <3> QED  BY <1>1, <3>1, <3>2, WakeOK
  <2> QED  BY <2>1, <2>2
<1>4. ASSUME NEW q \in Queue, ReceiveFromISR(q) \/ \E x \in Item : SendFromISR(q, x)
      PROVE  KInv' /\ ToTheBest
  <2>1. /\ kern' = kern \/ WakeFromISR(kern.senders[q]) \/ WakeFromISR(kern.receivers[q])
        /\ call' = call /\ left' = left
    BY <1>4 DEF ReceiveFromISR, SendFromISR
  <2>2. Calm(kern, kern')
    BY <1>1, <1>3, <2>1, EventLists, CalmSelf
  <2> QED  BY <1>1, <2>1, <2>2, CalmKeeps
<1> QED  BY <1>2, <1>4 DEF Interrupt

\* Every step.
LEMMA NextKeeps ==
  ASSUME KInv, [Next]_vars
  PROVE  KInv' /\ ToTheBest
<1>1. IInv'
  BY NextMail DEF KInv
<1>2. CASE Next
  BY <1>1, <1>2, UserCallKeeps, InCallKeeps, IdleStepKeeps, InterruptKeeps DEF Next, TaskStep
<1>3. CASE UNCHANGED vars
  <2>1. kern' = kern /\ call' = call /\ left' = left
    BY <1>3 DEF vars
  <2>2. Calm(kern, kern') /\ left' \in [Task -> -Slack..MaxDelay]
    BY <2>1, CalmSelf DEF KInv
  <2> QED  BY <1>1, <2>1, <2>2, CalmKeeps
<1> QED  BY <1>2, <1>3

\* The task that the scheduler starts with.
LEMMA FirstIsHighest == First \in Started /\ \A u \in Started : Priority[u] <= Priority[First]
<1> DEFINE m == Cardinality(Started)
<1>1. /\ IsFiniteSet(Started) /\ IdleTask \in Started /\ Started \subseteq Task
      /\ \A t \in Task : Priority[t] \in Nat
  BY SchedulerAssumption, KernelAssumption, FS_Subset
<1>2. m \in Nat /\ ExistsBijection(1..m, Started)
  BY <1>1, FS_CardinalityType
<1> HIDE DEF m
<1>3. PICK f \in [1..m -> Started] : \A u \in Started : \E i \in 1..m : f[i] = u
  BY <1>2 DEF ExistsBijection, Bijection, Surjection
<1> DEFINE P(i) == Priority[f[i]]
           Top(n) == n = 0 \/ \E x \in 1..n : \A y \in 1..n : P(y) <= P(x)
           T == {n \in 0..m : Top(n)}
<1>4. \A i \in 1..m : P(i) \in Nat
  BY <1>1, <1>3
<1> HIDE DEF P
<1>5. 0 \in T
  BY <1>2
<1>6. ASSUME NEW n \in 0..m - 1, n \in T PROVE n + 1 \in T
  <2>0. n \in Nat /\ n + 1 \in 1..m /\ n + 1 \in 0..m /\ m \in Nat
    BY <1>2
  <2>1. CASE n = 0
    <3>1. n + 1 \in 1..n + 1 /\ \A y \in 1..n + 1 : y = n + 1
      BY <2>1
    <3>2. \A y \in 1..n + 1 : P(y) <= P(n + 1)
      BY <1>4, <2>0, <3>1
    <3> QED  BY <2>0, <3>1, <3>2
  <2>2. CASE n # 0
    <3>1. PICK x \in 1..n : \A y \in 1..n : P(y) <= P(x)
      BY <1>6, <2>2
    <3>2. /\ x \in 1..m /\ x \in 1..n + 1 /\ n + 1 \in 1..n + 1
          /\ \A y \in 1..n + 1 : (y \in 1..n \/ y = n + 1) /\ y \in 1..m
      BY <2>0
    <3>3. P(x) \in Nat /\ P(n + 1) \in Nat /\ \A y \in 1..n : P(y) \in Nat
      BY <1>4, <2>0, <3>2
    <3>4. CASE P(n + 1) <= P(x)
      BY <2>0, <3>1, <3>2, <3>4
    <3>5. CASE P(x) <= P(n + 1)
      <4>1. \A y \in 1..n + 1 : P(y) <= P(n + 1)
        BY <3>1, <3>2, <3>3, <3>5
      <4> QED  BY <2>0, <3>2, <4>1
    <3> QED  BY <3>3, <3>4, <3>5
  <2> QED  BY <2>1, <2>2
<1>7. m \in T
  <2> HIDE DEF T
  <2>1. \A i \in 0..m : i \in T
    BY <1>2, <1>5, <1>6, UpTo
  <2> QED  BY <1>2, <2>1
<1>8. m # 0
  BY <1>1, <1>3, <1>2
<1>9. \E t \in Started : \A u \in Started : Priority[u] <= Priority[t]
  <2>1. PICK x \in 1..m : \A y \in 1..m : P(y) <= P(x)
    BY <1>7, <1>8
  <2> QED  BY <1>3, <2>1 DEF P
<1> QED  BY <1>9 DEF First

\* The ready lists that the scheduler starts with.
LEMMA FirstReady ==
  LET rd == [p \in Level |-> SetToSeq({t \in Started : Priority[t] = p}) \o <<End>>]
  IN  /\ rd \in [Level -> Lists(Task \cup {End})]
      /\ \A p \in Level : /\ Members(rd[p]) = {t \in Started : Priority[t] = p} \cup {End}
                          /\ rd[p] # <<End>> => p <= Priority[First]
<1> DEFINE rd == [p \in Level |-> SetToSeq({t \in Started : Priority[t] = p}) \o <<End>>]
           S == Task \cup {End}
<1>1. IsFiniteSet(Started) /\ Started \subseteq Task /\ End \notin Task
  BY SchedulerAssumption, KernelAssumption, FS_Subset, TaskFacts
<1>2. ASSUME NEW p \in Level
      PROVE  /\ rd[p] \in Lists(S)
             /\ Members(rd[p]) = {t \in Started : Priority[t] = p} \cup {End}
             /\ rd[p] # <<End>> => p <= Priority[First]
  <2> DEFINE T == {t \in Started : Priority[t] = p}
             l == SetToSeq(T) \o <<End>>
  <2>1. T \in SUBSET S /\ IsFiniteSet(T) /\ End \in S /\ End \notin T
    BY <1>1, FS_Subset
  <2>2. rd[p] = l
    OBVIOUS
  <2> HIDE DEF T, S, rd
  <2>3. l \in Lists(S) /\ Members(l) = T \cup {End}
    BY <2>1, SetToList
  <2> HIDE DEF l
  <2>4. ASSUME l # <<End>> PROVE p <= Priority[First]
    <3>1. T # {}
      <4> SUFFICES ASSUME T = {} PROVE FALSE
        OBVIOUS
      <4>1. Members(l) = {End}
        BY <2>3
      <4> QED  BY <2>1, <2>3, <2>4, <4>1, OneMember
    <3> QED  BY <3>1, FirstIsHighest DEF T
  <2> QED  BY <2>2, <2>3, <2>4 DEF T
<1> QED  BY <1>2

\* The initial state.
LEMMA InitKInv == Init => KInv
<1> SUFFICES ASSUME Init PROVE KInv
  OBVIOUS
<1> DEFINE rd == [p \in Level |-> SetToSeq({t \in Started : Priority[t] = p}) \o <<End>>]
           z == 0
           noQ == [q \in Queue |-> <<>>]
           wk == [t \in Task |-> z]
           none == <<>>
<1>1. /\ rd \in [Level -> Lists(Task \cup {End})]
      /\ \A p \in Level : /\ Members(rd[p]) = {t \in Started : Priority[t] = p} \cup {End}
                          /\ rd[p] # <<End>> => p <= Priority[First]
  BY FirstReady
<1>2. /\ First \in Started /\ First \in Task /\ Priority \in [Task -> Level]
      /\ Priority[First] \in Level /\ End \notin Task
      /\ IdleTask \in Started /\ Started \subseteq Task
  BY FirstIsHighest, TaskFacts, KernelAssumption
<1>3. /\ z \in 0..MaxDelay /\ z \in 0..OverflowMod - 1 /\ z \in 0..1 /\ z \in Int
      /\ MaxDelay \in 0..MaxDelay /\ z \in -Slack..MaxDelay
  BY KernNumbers, LeftTypes
<1>4. /\ none \in Lists(Task) /\ Members(none) = {}
  BY ListBasics
<1>5. noQ \in [Queue -> Lists(Task)] /\ wk \in [Task -> 0..MaxDelay]
  BY <1>3, <1>4
<1>6. kern = [tick |-> z, overflows |-> z, pendedTicks |-> z, nextUnblock |-> MaxDelay,
              suspended |-> z, yieldPending |-> FALSE,
              current |-> First, top |-> Priority[First], ready |-> rd,
              delayed |-> none, overflowDelayed |-> none, suspendedTasks |-> {},
              pendingReady |-> none, waitingTermination |-> none,
              senders |-> noQ, receivers |-> noQ,
              prio |-> Priority, basePrio |-> Priority, wake |-> wk]
  BY DEF Init
<1>7. \A q \in Queue : noQ[q] = none
  OBVIOUS
<1> HIDE DEF rd, z, noQ, wk, none
<1>8. kern \in KernRec
  BY <1>1, <1>2, <1>3, <1>4, <1>5, <1>6 DEF KernRec
<1>9. /\ kern.ready = rd /\ kern.top = Priority[First] /\ kern.current = First
      /\ kern.delayed = none /\ kern.overflowDelayed = none /\ kern.suspendedTasks = {}
      /\ kern.pendingReady = none /\ kern.waitingTermination = none
      /\ kern.senders = noQ /\ kern.receivers = noQ /\ kern.prio = Priority
      /\ kern.suspended = z
  BY <1>6
<1>10. Rd(kern) = Started /\ As(kern) = {} /\ Wt(kern) = {} /\ Pd(kern) = {} /\ InEvent(kern) = {}
  <2>1. Rd(kern) = Started
    BY <1>1, <1>2, <1>9 DEF Rd
  <2>2. As(kern) = {} /\ Wt(kern) = {} /\ Pd(kern) = {}
    BY <1>4, <1>9 DEF As, Wt, Pd
  <2>3. InEvent(kern) = {}
    BY <1>4, <1>7, <1>9, <2>2 DEF InEvent
  <2> QED  BY <2>1, <2>2, <2>3
<1>11. KOk(kern)
  <2>1. ReadyOK(kern)
    BY <1>1, <1>2, <1>9 DEF ReadyOK
  <2>2. OneList(kern)
    BY <1>4, <1>9, <1>10 DEF OneList
  <2>3. OneEvent(kern)
    BY <1>4, <1>7, <1>9, <1>10 DEF OneEvent
  <2> QED  BY <1>8, <1>10, <2>1, <2>2, <2>3 DEF KOk
<1> DEFINE d == [NoCall EXCEPT !.pc = "absent"]
<1>12. NoCall \in CallRec /\ NoCall.pc = "run" /\ InShape(NoCall)
  BY NoCallOK
<1>13. d \in CallRec /\ d.pc = "absent"
  BY <1>12 DEF CallRec, Pc
<1>14. call = [t \in Task |-> IF t \in Started THEN NoCall ELSE d] /\ left = [t \in Task |-> z]
  BY DEF Init, z
<1> HIDE DEF d
<1>15. InShape(d)
  BY <1>13 DEF InShape, InCallPc
<1>16. /\ call \in [Task -> CallRec] /\ left \in [Task -> -Slack..MaxDelay]
       /\ \A t \in Task : InShape(call[t])
  BY <1>3, <1>12, <1>13, <1>14, <1>15
<1>17. Places
  BY <1>2, <1>10, <1>12, <1>13, <1>14 DEF Places
<1>18. Turn
  <2>1. \A t \in Task : call[t].pc \in Away
    BY <1>12, <1>13, <1>14 DEF Away
  <2>2. call[kern.current].pc \notin Held /\ kern.suspended # 1
    BY <1>2, <1>9, <1>12, <1>14 DEF Held, z
  <2> QED  BY <1>2, <1>9, <1>10, <2>1, <2>2 DEF Turn
<1>19. IdleOK
  BY <1>2, <1>10, <1>12, <1>14 DEF IdleOK
<1>20. IInv
  BY InitIInv
<1> QED  BY <1>11, <1>16, <1>17, <1>18, <1>19, <1>20 DEF KInv

\* A list of some is a list of more.
LEMMA Wider ==
  ASSUME NEW S, NEW T, S \subseteq T, NEW l \in Lists(S)
  PROVE  l \in Lists(T)
<1>1. l \in Seq(S) /\ Len(l) \in Nat /\ DOMAIN l = 1..Len(l) /\ \A i \in 1..Len(l) : l[i] \in S
  BY ListBasics, ElementOfSeq
<1>2. l \in Seq(T)
  BY <1>1
<1> QED  BY <1>2 DEF Lists

\* Lists with no common member, one after the other.
LEMMA TwoLists ==
  ASSUME NEW S, NEW a \in Lists(S), NEW b \in Lists(S), Members(a) \cap Members(b) = {}
  PROVE  a \o b \in Lists(S) /\ Members(a \o b) = Members(a) \cup Members(b)
<1> DEFINE m == Len(a)
           n == Len(b)
           s == m + n
           r == a \o b
<1>1. /\ a \in Seq(S) /\ b \in Seq(S) /\ m \in Nat /\ n \in Nat
      /\ \A i, j \in 1..m : a[i] = a[j] => i = j
      /\ \A i, j \in 1..n : b[i] = b[j] => i = j
      /\ \A i \in 1..m, j \in 1..n : a[i] # b[j]
  <2>1. \A i \in 1..m : a[i] \in Members(a)
    BY DEF Members
  <2>2. \A j \in 1..n : b[j] \in Members(b)
    BY DEF Members
  <2>3. \A i \in 1..m, j \in 1..n : a[i] # b[j]
    BY <2>1, <2>2
  <2>4. /\ a \in Seq(S) /\ b \in Seq(S) /\ m \in Nat /\ n \in Nat
    BY ListBasics
  <2> QED  BY <2>3, <2>4 DEF Lists
<1>2. /\ r \in Seq(S) /\ Len(r) = s
      /\ \A j \in 1..s : r[j] = IF j <= m THEN a[j] ELSE b[j - m]
  <2> HIDE DEF m, n, r
  <2>1. s = m + n /\ Len(a) = m /\ Len(b) = n
    BY DEF m, n
  <2> HIDE DEF s
  <2>2. a \in Seq(S) /\ b \in Seq(S) /\ m \in Nat /\ n \in Nat
    BY <1>1
  <2>3. /\ a \o b \in Seq(S) /\ Len(a \o b) = s
        /\ \A j \in 1..s : (a \o b)[j] = IF j <= m THEN a[j] ELSE b[j - m]
    BY <2>1, <2>2, Concat
  <2> QED  BY <2>3 DEF r
<1> HIDE DEF m, n, r
<1>3. \A j \in 1..s : j <= m \/ j - m \in 1..n
  BY <1>1
<1>4. ASSUME NEW i \in 1..s, NEW j \in 1..s, r[i] = r[j] PROVE i = j
  <2>1. CASE i <= m /\ j <= m
    BY <1>1, <1>2, <1>4, <2>1
  <2>2. CASE i <= m /\ ~(j <= m)
    <3>1. r[i] = a[i] /\ r[j] = b[j - m] /\ i \in 1..m /\ j - m \in 1..n
      BY <1>1, <1>2, <1>3, <2>2
    <3> QED  BY <1>1, <1>4, <3>1
  <2>3. CASE ~(i <= m) /\ j <= m
    <3>1. r[j] = a[j] /\ r[i] = b[i - m] /\ j \in 1..m /\ i - m \in 1..n
      BY <1>1, <1>2, <1>3, <2>3
    <3> QED  BY <1>1, <1>4, <3>1
  <2>4. CASE ~(i <= m) /\ ~(j <= m)
    <3>1. r[i] = b[i - m] /\ r[j] = b[j - m] /\ i - m \in 1..n /\ j - m \in 1..n
      BY <1>2, <1>3, <2>4
    <3>2. i - m = j - m
      BY <1>1, <1>4, <3>1
    <3> QED  BY <1>1, <3>2
  <2> QED  BY <2>1, <2>2, <2>3, <2>4
<1>5. r \in Lists(S)
  BY <1>2, <1>4 DEF Lists
<1>6. Members(r) = Members(a) \cup Members(b)
  <2>1. ASSUME NEW x \in Members(r) PROVE x \in Members(a) \cup Members(b)
    <3>1. PICK j \in 1..s : x = r[j]
      BY <1>2, <2>1 DEF Members
    <3>2. CASE j <= m
      <4>1. j \in 1..Len(a) /\ x = a[j]
        BY <1>1, <1>2, <3>1, <3>2 DEF m
      <4> QED  BY <4>1 DEF Members
    <3>3. CASE ~(j <= m)
      <4>1. j - m \in 1..Len(b) /\ x = b[j - m]
        BY <1>2, <1>3, <3>1, <3>3 DEF n
      <4> QED  BY <4>1 DEF Members
    <3> QED  BY <3>2, <3>3
  <2>2. ASSUME NEW x \in Members(a) PROVE x \in Members(r)
    <3>1. PICK i \in 1..m : x = a[i]
      BY <2>2 DEF Members, m
    <3>2. i \in 1..s /\ r[i] = a[i]
      BY <1>1, <1>2
    <3> QED  BY <1>2, <3>1, <3>2 DEF Members
  <2>3. ASSUME NEW x \in Members(b) PROVE x \in Members(r)
    <3>1. PICK i \in 1..n : x = b[i]
      BY <2>3 DEF Members, n
    <3> DEFINE j == i + m
    <3>2. j \in 1..s /\ ~(j <= m) /\ j - m = i
      BY <1>1
    <3> HIDE DEF j
    <3>3. r[j] = b[i]
      BY <1>2, <3>2
    <3> QED  BY <1>2, <3>1, <3>2, <3>3 DEF Members
  <2> QED  BY <2>1, <2>2, <2>3
<1> QED  BY <1>5, <1>6 DEF r

\* How often something occurs in a list.
LEMMA TimesInList ==
  ASSUME NEW S, NEW l \in Lists(S), NEW t
  PROVE  Cardinality({i \in 1..Len(l) : l[i] = t}) = IF t \in Members(l) THEN 1 ELSE 0
<1>1. CASE t \in Members(l)
  <2>1. PICK x \in 1..Len(l) : l[x] = t
    BY <1>1 DEF Members
  <2>2. {i \in 1..Len(l) : l[i] = t} = {x}
    BY <2>1 DEF Lists
  <2> QED  BY <1>1, <2>2, FS_Singleton
<1>2. CASE t \notin Members(l)
  <2>1. {i \in 1..Len(l) : l[i] = t} = {}
    BY <1>2 DEF Members
  <2> QED  BY <1>2, <2>1, FS_EmptySet
<1> QED  BY <1>1, <1>2

\* A task that is in one of these sets at most is in one of them, or in none.
LEMMA AtMostOne ==
  ASSUME NEW Q, NEW T \in SUBSET Q, \A p, q \in T : p = q
  PROVE  Cardinality(T) = IF T = {} THEN 0 ELSE 1
<1>1. CASE T = {}
  BY <1>1, FS_EmptySet
<1>2. CASE T # {}
  <2>1. PICK x : T = {x}
    BY <1>2
  <2> QED  BY <1>2, <2>1, FS_Singleton
<1> QED  BY <1>1, <1>2

\* The lists of a task, one after the other.
LEMMA StateLists ==
  ASSUME NEW k, KOk(k), NEW t \in Task
  PROVE  LET l == k.delayed \o k.overflowDelayed \o k.waitingTermination \o k.ready[k.prio[t]]
         IN  /\ l \in Lists(Task \cup {End})
             /\ t \in Members(l) <=> t \in Rd(k) \cup Wt(k) \cup (As(k) \ k.suspendedTasks)
<1> DEFINE S == Task \cup {End}
           p == k.prio[t]
           a == k.delayed
           b == k.overflowDelayed
           c == k.waitingTermination
           r == k.ready[p]
<1>0. Task \subseteq S
  OBVIOUS
<1>1. /\ k \in KernRec /\ ReadyOK(k) /\ OneList(k)
      /\ k.prio \in [Task -> Level] /\ p \in Level
      /\ a \in Lists(Task) /\ b \in Lists(Task) /\ c \in Lists(Task)
      /\ r \in Lists(S)
  BY KernFields DEF KOk
<1>2. a \in Lists(S) /\ b \in Lists(S) /\ c \in Lists(S)
  <2> HIDE DEF S
  <2> QED  BY <1>0, <1>1, Wider
<1>3. Members(a) \subseteq Task /\ Members(b) \subseteq Task /\ Members(c) \subseteq Task
  BY <1>1, ListBasics
<1>4. /\ Members(a) \cap Members(b) = {} /\ Members(c) = Wt(k)
      /\ Members(a) \cup Members(b) \subseteq As(k)
      /\ Rd(k) \cap As(k) = {} /\ Rd(k) \cap Wt(k) = {} /\ As(k) \cap Wt(k) = {}
      /\ As(k) \ k.suspendedTasks = Members(a) \cup Members(b)
  BY <1>1 DEF OneList, As, Wt
<1>5. \A u \in Task : u \in Members(r) => u \in Rd(k)
  BY <1>1 DEF ReadyOK, Rd
<1>6. t \in Members(r) <=> t \in Rd(k)
  BY <1>5 DEF Rd
<1> HIDE DEF S, p, a, b, c, r
<1>7. a \o b \in Lists(S) /\ Members(a \o b) = Members(a) \cup Members(b)
  BY <1>2, <1>4, TwoLists
<1>8. (a \o b) \o c \in Lists(S) /\ Members((a \o b) \o c) = Members(a) \cup Members(b) \cup Members(c)
  <2>1. Members(a \o b) \cap Members(c) = {}
    BY <1>4, <1>7
  <2> QED  BY <1>2, <1>7, <2>1, TwoLists
<1>9. /\ ((a \o b) \o c) \o r \in Lists(S)
      /\ Members(((a \o b) \o c) \o r) = Members(a) \cup Members(b) \cup Members(c) \cup Members(r)
  <2>1. Members((a \o b) \o c) \cap Members(r) = {}
    BY <1>3, <1>4, <1>5, <1>8
  <2> QED  BY <1>1, <1>8, <2>1, TwoLists
<1>10. t \in Members(((a \o b) \o c) \o r) <=> t \in Rd(k) \cup Wt(k) \cup (As(k) \ k.suspendedTasks)
  BY <1>4, <1>6, <1>9
<1> QED  BY <1>9, <1>10 DEF S, p, a, b, c, r

\* How many lists the list item of a task is in.
InLists(k, t) ==
  (IF t \in k.suspendedTasks THEN 1 ELSE 0)
  + Cardinality({i \in 1..Len(k.delayed \o k.overflowDelayed \o k.waitingTermination
                               \o k.ready[k.prio[t]]) :
                   (k.delayed \o k.overflowDelayed \o k.waitingTermination
                     \o k.ready[k.prio[t]])[i] = t})

\* ... and its event item.
InEvents(k, t) ==
  Cardinality({q \in Queue : Contains(k.senders[q], t)})
  + Cardinality({q \in Queue : Contains(k.receivers[q], t)})
  + Cardinality({i \in 1..Len(k.pendingReady) : k.pendingReady[i] = t})

\* The list item is in one, if the task is there.
LEMMA InOneList ==
  ASSUME NEW k, KOk(k), NEW t \in Task
  PROVE  InLists(k, t) = IF t \in Rd(k) \cup As(k) \cup Wt(k) THEN 1 ELSE 0
<1> DEFINE l == k.delayed \o k.overflowDelayed \o k.waitingTermination \o k.ready[k.prio[t]]
           S == Task \cup {End}
           n == Cardinality({i \in 1..Len(l) : l[i] = t})
           s == IF t \in k.suspendedTasks THEN 1 ELSE 0
<1>1. l \in Lists(S) /\ (t \in Members(l) <=> t \in Rd(k) \cup Wt(k) \cup (As(k) \ k.suspendedTasks))
  BY StateLists
<1>2. InLists(k, t) = s + n
  BY DEF InLists
<1> HIDE DEF l, S
<1>3. n = IF t \in Members(l) THEN 1 ELSE 0
  BY <1>1, TimesInList
<1> HIDE DEF n
<1>4. /\ k.suspendedTasks \subseteq As(k) /\ Rd(k) \cap As(k) = {} /\ As(k) \cap Wt(k) = {}
  BY DEF KOk, OneList, As
<1>5. CASE t \in k.suspendedTasks
  <2>1. t \notin Members(l) /\ t \in As(k)
    BY <1>1, <1>4, <1>5
  <2>2. s = 1 /\ n = 0
    BY <1>3, <1>5, <2>1
  <2> QED  BY <1>2, <2>1, <2>2
<1>6. CASE t \notin k.suspendedTasks
  <2>1. t \in Members(l) <=> t \in Rd(k) \cup As(k) \cup Wt(k)
    BY <1>1, <1>6
  <2>2. s = 0
    BY <1>6
  <2> QED  BY <1>2, <1>3, <2>1, <2>2
<1> QED  BY <1>5, <1>6

\* The event item is in one at most, and only while the task sleeps.
LEMMA InOneEvent ==
  ASSUME NEW k, KOk(k), NEW t \in Task
  PROVE  InEvents(k, t) <= 1 /\ (t \notin InEvent(k) => InEvents(k, t) = 0)
<1> DEFINE A == {q \in Queue : t \in Members(k.senders[q])}
           B == {q \in Queue : t \in Members(k.receivers[q])}
           a == Cardinality(A)
           b == Cardinality(B)
           c == Cardinality({i \in 1..Len(k.pendingReady) : k.pendingReady[i] = t})
<1>1. k.pendingReady \in Lists(Task) /\ OneEvent(k)
  BY KernFields DEF KOk
<1>2. InEvents(k, t) = a + b + c
  <2>1. A = {q \in Queue : Contains(k.senders[q], t)}
    BY ContainsMembers
  <2>2. B = {q \in Queue : Contains(k.receivers[q], t)}
    BY ContainsMembers
  <2> HIDE DEF A, B
  <2> QED  BY <2>1, <2>2 DEF InEvents
<1>3. c = IF t \in Pd(k) THEN 1 ELSE 0
  BY <1>1, TimesInList DEF Pd
<1>4. A \in SUBSET Queue /\ \A p, q \in A : p = q
  BY <1>1 DEF OneEvent
<1>5. B \in SUBSET Queue /\ \A p, q \in B : p = q
  BY <1>1 DEF OneEvent
<1>6. /\ A # {} => B = {} /\ t \notin Pd(k)
      /\ B # {} => t \notin Pd(k)
  BY <1>1 DEF OneEvent
<1>7. t \notin InEvent(k) => A = {} /\ B = {} /\ t \notin Pd(k)
  BY DEF InEvent
<1> HIDE DEF A, B
<1>8. a = IF A = {} THEN 0 ELSE 1
  BY <1>4, AtMostOne
<1>9. b = IF B = {} THEN 0 ELSE 1
  BY <1>5, AtMostOne
<1> HIDE DEF a, b, c
<1> QED  BY <1>2, <1>3, <1>6, <1>7, <1>8, <1>9

\* The types of the state.
LEMMA KInvType == KInv => TypeOK
<1> SUFFICES ASSUME KInv PROVE TypeOK
  OBVIOUS
<1>1. /\ IInv /\ kern \in KernRec /\ call \in [Task -> CallRec]
      /\ left \in [Task -> -Slack..MaxDelay]
  BY DEF KInv, KOk
<1>2. /\ kern.tick \in 0..MaxDelay /\ kern.overflows \in 0..OverflowMod - 1
      /\ kern.nextUnblock \in 0..MaxDelay /\ kern.suspended \in 0..1
      /\ kern.current \in Task /\ kern.top \in Level
  BY <1>1, KernFields
<1>3. ASSUME NEW q \in Queue
      PROVE  /\ queue[q].waiting \in 0..Length[q]
             /\ queue[q].writeTo \in 0..Length[q] - 1
             /\ queue[q].readFrom \in 0..Length[q] - 1
             /\ queue[q].holder \in TaskOrNone
  <2>1. queue[q] \in QueueRec(q)
    BY <1>1 DEF IInv, Queues, Good
  <2> QED  BY <2>1 DEF QueueRec, TaskOrNone
<1> QED  BY <1>1, <1>2, <1>3 DEF TypeOK, CallRec

\* The invariant says of each task where it is.
LEMMA KInvPlaces == KInv => OnePlace
<1> SUFFICES ASSUME KInv PROVE OnePlace
  OBVIOUS
<1>1. KOk(kern) /\ Places
  BY DEF KInv
<1>2. ASSUME NEW t \in Task
      PROVE  /\ InLists(kern, t) = IF call[t].pc = "absent" THEN 0 ELSE 1
             /\ InEvents(kern, t) <= 1
             /\ \A p \in Level \ {kern.prio[t]} : ~Contains(kern.ready[p], t)
             /\ Contains(kern.ready[kern.prio[t]], t) => InEvents(kern, t) = 0
  <2>1. InLists(kern, t) = IF t \in Rd(kern) \cup As(kern) \cup Wt(kern) THEN 1 ELSE 0
    BY <1>1, InOneList
  <2>2. InEvents(kern, t) <= 1 /\ (t \notin InEvent(kern) => InEvents(kern, t) = 0)
    BY <1>1, InOneEvent
  <2>3. t \in Rd(kern) \cup As(kern) \cup Wt(kern) <=> call[t].pc # "absent"
    BY <1>1 DEF Places
  <2>4. \A p \in Level \ {kern.prio[t]} : ~Contains(kern.ready[p], t)
    BY <1>1, ContainsMembers DEF KOk, ReadyOK
  <2>5. Contains(kern.ready[kern.prio[t]], t) => t \in Rd(kern)
    BY ContainsMembers DEF Rd
  <2>6. t \in Rd(kern) => t \notin InEvent(kern)
    BY <1>1 DEF KOk, OneList
  <2> QED  BY <2>1, <2>2, <2>3, <2>4, <2>5, <2>6
<1>3. TypeOK
  BY KInvType
<1> QED  BY <1>2, <1>3 DEF OnePlace, InLists, InEvents

\* In every state the kernel's lists are sound, and are those of the calls.
THEOREM KernelInvariant == Spec => []KInv
<1>1. KInv /\ [Next]_vars => KInv'
  BY NextKeeps
<1> QED  BY <1>1, InitKInv, PTL DEF Spec

\* Every task is in the one list of its state.
THEOREM TasksInOnePlace == Spec => []OnePlace
BY KernelInvariant, KInvPlaces, PTL

\* A task that gets the processor has the highest priority of all that are ready.
THEOREM HighestRuns == Spec => RunsHighest
<1>1. KInv /\ [Next]_vars =>
        [kern'.current # kern.current =>
           \A p \in Level : p > kern'.prio[kern'.current] => kern'.ready[p] = <<End>>]_vars
  <2> SUFFICES ASSUME KInv, [Next]_vars, kern'.current # kern.current
               PROVE  \A p \in Level : p > kern'.prio[kern'.current] => kern'.ready[p] = <<End>>
    OBVIOUS
  <2> QED  BY NextKeeps DEF ToTheBest, Best
<1> QED  BY <1>1, KernelInvariant, PTL DEF Spec, RunsHighest

-----------------------------------------------------------------------------
(***************************************************************************)
(* No wakeup is lost.                                                      *)
(***************************************************************************)
Gets == {"receive", "peek"}
Puts == {"send", "sendFront"}
RetryPc == {"try", "unlockTx", "unlockRx", "resume", "yield"}

\* The call c on q will be attempted again before the time is looked at; the tasks with
\* such a call; and whether a task is about to wait in the event list.
Coming(c, q, ops) == c.q = q /\ c.op \in ops /\ c.pc \in RetryPc /\ c.then # "fail"
Comers(cl, q, ops) == {t \in Task : Coming(cl[t], q, ops)}
Placing(cl, q, ops) == \E t \in Task : cl[t].pc = "place" /\ cl[t].q = q /\ cl[t].op \in ops

\* One side of a queue, at which the tasks E wait for the n items, or the n places, that
\* there are, and the tasks S will attempt their calls again: E are of these; n have been
\* counted by the lock when a task goes to wait; and while E wait, others will come for n.
Side(E, S, n, lock, placing) ==
  /\ E \subseteq S
  /\ placing => n <= Pending(lock)
  /\ E # {} => n <= Cardinality(S \ E) + Pending(lock)

\* When a task x has left S: there is less than before, or one of E comes in its place.
Served(E, f, S, x, n, m) ==
  \/ m <= n /\ x \notin S
  \/ m = 0 \/ m + 1 <= n
  \/ /\ m <= n + (IF x \in S THEN 0 ELSE 1)
     /\ E # {} => \E h \in E : h \notin f

\* The numbers of tasks.
LEMMA Counted ==
  ASSUME NEW A, NEW B, NEW W, NEW x, IsFiniteSet(A), IsFiniteSet(B), IsFiniteSet(W),
         (A \ {x}) \cup W \subseteq B, W \cap (A \ {x}) = {}
  PROVE  /\ Cardinality(A) \in Nat /\ Cardinality(B) \in Nat /\ Cardinality(W) \in Nat
         /\ Cardinality(A) + Cardinality(W) <= Cardinality(B) + 1
         /\ x \notin A => Cardinality(A) + Cardinality(W) <= Cardinality(B)
<1> DEFINE C == A \ {x}
<1>1. /\ Cardinality(A) \in Nat /\ Cardinality(B) \in Nat /\ Cardinality(W) \in Nat
  BY FS_CardinalityType
<1>2. /\ IsFiniteSet(C)
      /\ Cardinality(C) = IF x \in A THEN Cardinality(A) - 1 ELSE Cardinality(A)
  BY FS_RemoveElement
<1> HIDE DEF C
<1>3. /\ Cardinality(C \cup W) = Cardinality(C) + Cardinality(W) - Cardinality(C \cap W)
      /\ IsFiniteSet(C \cup W)
  BY <1>2, FS_Union
<1>4. Cardinality(C \cap W) = 0
  <2>1. C \cap W = {}
    BY DEF C
  <2> QED  BY <2>1, FS_EmptySet
<1>5. Cardinality(C \cup W) <= Cardinality(B)
  <2>1. C \cup W \in SUBSET B
    BY DEF C
  <2> QED  BY <2>1, FS_Subset
<1>6. Cardinality(C) \in Nat
  BY <1>2, FS_CardinalityType
<1> QED  BY <1>1, <1>2, <1>3, <1>4, <1>5, <1>6

\* Items counted by a lock.
LEMMA PendingNat ==
  ASSUME NEW l \in Int, l >= -1
  PROVE  Pending(l) \in Nat /\ (l # -1 => Pending(l) = l) /\ Pending(-1) = 0
BY DEF Pending, queueUNLOCKED

\* Some tasks are finitely many.
LEMMA SomeTasks ==
  ASSUME NEW S \in SUBSET Task
  PROVE  IsFiniteSet(S) /\ Cardinality(S) \in Nat
BY SchedulerAssumption, FS_Subset, FS_CardinalityType

\* Nothing has gone wrong where no task has left, and where there is no more to take that
\* the lock has not counted.
LEMMA SideStays ==
  ASSUME NEW S \in SUBSET Task, NEW S2 \in SUBSET Task, NEW E, NEW E2, E2 \subseteq E, S \subseteq S2,
         NEW n \in Nat, NEW n2 \in Nat, NEW l \in Int, NEW l2 \in Int, l >= -1, l2 >= -1,
         n2 + Pending(l) <= n + Pending(l2), NEW p, NEW p2, p2 => p \/ n2 = 0,
         Side(E, S, n, l, p)
  PROVE  Side(E2, S2, n2, l2, p2)
<1>1. Pending(l) \in Nat /\ Pending(l2) \in Nat
  BY PendingNat
<1>2. E2 \subseteq S2 /\ (E2 # {} => E # {})
  BY DEF Side
<1>3. p2 => n2 <= Pending(l2)
  BY <1>1 DEF Side
<1>4. ASSUME E2 # {} PROVE n2 <= Cardinality(S2 \ E2) + Pending(l2)
  <2>1. n <= Cardinality(S \ E) + Pending(l)
    BY <1>2, <1>4 DEF Side
  <2>2. /\ S2 \ E2 \in SUBSET Task /\ S \ E \in SUBSET Task /\ S \ E \in SUBSET (S2 \ E2)
    OBVIOUS
  <2>3. /\ Cardinality(S \ E) <= Cardinality(S2 \ E2)
        /\ Cardinality(S \ E) \in Nat /\ Cardinality(S2 \ E2) \in Nat
    BY <2>2, SomeTasks, FS_Subset
  <2> QED  BY <1>1, <2>1, <2>3
<1> QED  BY <1>2, <1>3, <1>4 DEF Side

\* Nor where the task that has left was served.
LEMMA SideServed ==
  ASSUME NEW S \in SUBSET Task, NEW S2 \in SUBSET Task, NEW E, NEW E2, E2 \subseteq E, NEW x,
         x \notin E, S \ {x} \subseteq S2,
         NEW n \in Nat, NEW n2 \in Nat, NEW l \in Int, l >= -1, NEW p,
         Served(E, E2, S, x, n, n2), Side(E, S, n, l, p), NEW p2, ~p2
  PROVE  Side(E2, S2, n2, l, p2)
<1> DEFINE A == S \ E
           B == S2 \ E2
<1>1. Pending(l) \in Nat
  BY PendingNat
<1>2. E2 \subseteq S2 /\ E \subseteq S /\ A \in SUBSET Task /\ B \in SUBSET Task /\ (x \in A <=> x \in S)
  BY DEF Side
<1>3. /\ IsFiniteSet(A) /\ IsFiniteSet(B) /\ Cardinality(A) \in Nat /\ Cardinality(B) \in Nat
  BY <1>2, SomeTasks
<1>4. ASSUME E2 # {} PROVE n2 <= Cardinality(B) + Pending(l)
  <2>1. n <= Cardinality(A) + Pending(l) /\ E # {}
    BY <1>4 DEF Side
  <2>2. CASE n2 = 0
    BY <1>1, <1>3, <2>2
  <2>3. CASE (n2 <= n /\ x \notin S) \/ n2 + 1 <= n
    <3> DEFINE W == {}
    <3>1. IsFiniteSet(W) /\ Cardinality(W) = 0
      BY FS_EmptySet
    <3>2. (A \ {x}) \cup W \subseteq B /\ W \cap (A \ {x}) = {}
      BY <1>2
    <3> HIDE DEF A, B, W
    <3>6. /\ Cardinality(A) + Cardinality(W) <= Cardinality(B) + 1
          /\ x \notin A => Cardinality(A) + Cardinality(W) <= Cardinality(B)
      BY <1>3, <3>1, <3>2, Counted
    <3>3. /\ Cardinality(A) <= Cardinality(B) + 1
          /\ x \notin A => Cardinality(A) <= Cardinality(B)
      BY <1>3, <3>1, <3>6
    <3>4. CASE n2 <= n /\ x \notin S
      <4>1. Cardinality(A) <= Cardinality(B)
        BY <1>2, <3>3, <3>4
      <4> QED  BY <1>1, <1>3, <2>1, <3>4, <4>1
    <3>5. CASE n2 + 1 <= n
      BY <1>1, <1>3, <2>1, <3>3, <3>5
    <3> QED  BY <2>3, <3>4, <3>5
  <2>4. CASE /\ n2 <= n + (IF x \in S THEN 0 ELSE 1)
             /\ E # {} => \E h \in E : h \notin E2
    <3>1. PICK h \in E : h \notin E2
      BY <2>1, <2>4
    <3>2. IsFiniteSet({h}) /\ Cardinality({h}) = 1
      BY FS_Singleton
    <3>3. (A \ {x}) \cup {h} \subseteq B /\ {h} \cap (A \ {x}) = {}
      BY <1>2, <3>1
    <3> HIDE DEF A, B
    <3>4. /\ Cardinality(A) + 1 <= Cardinality(B) + 1
          /\ x \notin A => Cardinality(A) + 1 <= Cardinality(B)
      BY <1>3, <3>2, <3>3, Counted
    <3>5. n2 <= n + (IF x \in A THEN 0 ELSE 1)
      BY <1>2, <2>4
    <3> QED  BY <1>1, <1>3, <2>1, <3>4, <3>5
  <2> QED  BY <2>2, <2>3, <2>4 DEF Served
<1> QED  BY <1>2, <1>4 DEF Side

\* Nor where a task has gone to wait.
LEMMA SidePlaced ==
  ASSUME NEW S \in SUBSET Task, NEW S2 \in SUBSET Task, NEW E, NEW E2, E2 \subseteq S2,
         NEW n \in Nat, NEW l \in Int, l >= -1, NEW p, p, Side(E, S, n, l, p), NEW p2, ~p2
  PROVE  Side(E2, S2, n, l, p2)
<1>1. Pending(l) \in Nat /\ n <= Pending(l)
  BY PendingNat DEF Side
<1>2. S2 \ E2 \in SUBSET Task
  OBVIOUS
<1>3. Cardinality(S2 \ E2) \in Nat
  BY <1>2, SomeTasks
<1>4. n <= Cardinality(S2 \ E2) + Pending(l)
  BY <1>1, <1>3
<1> QED  BY <1>4 DEF Side

\* The first m of a list.
LEMMA FirstOf ==
  ASSUME NEW l \in Lists(Task), NEW m \in 0..Len(l)
  PROVE  LET W == {l[y] : y \in 1..m}
         IN  IsFiniteSet(W) /\ Cardinality(W) = m /\ W \subseteq Members(l)
<1> DEFINE W == {l[y] : y \in 1..m}
           f == [y \in 1..m |-> l[y]]
<1>1. Len(l) \in Nat /\ m \in Nat /\ 1..m \subseteq 1..Len(l)
  BY ListBasics
<1>2. f \in Bijection(1..m, W)
  <2>1. \A i, j \in 1..m : f[i] = f[j] => i = j
    BY <1>1 DEF Lists
  <2>2. f \in [1..m -> W] /\ \A w \in W : \E i \in 1..m : f[i] = w
    OBVIOUS
  <2> HIDE DEF f, W
  <2> QED  BY <2>1, <2>2 DEF Bijection, Injection, Surjection, IsInjective
<1> HIDE DEF f
<1>3. IsFiniteSet(1..m) /\ Cardinality(1..m) = m
  BY <1>1, FS_Interval
<1>4. W \subseteq Members(l)
  BY <1>1 DEF Members
<1> HIDE DEF W
<1>5. ExistsBijection(1..m, W)
  BY <1>2 DEF ExistsBijection
<1>6. IsFiniteSet(W) /\ Cardinality(W) = m
  BY <1>3, <1>5, FS_Bijection
<1> QED  BY <1>4, <1>6 DEF W

\* Nor where the queue was unlocked and a task woken for all that the lock had counted.
LEMMA SideUnlocked ==
  ASSUME NEW S \in SUBSET Task, NEW S2 \in SUBSET Task, NEW l \in Lists(Task), NEW E2,
         E2 \subseteq Members(l), S \subseteq S2,
         NEW n \in Nat, NEW lock \in Int, lock >= -1, NEW p,
         \A y \in 1..Len(l) : y <= lock => l[y] \notin E2,
         Side(Members(l), S, n, lock, p), NEW p2, ~p2
  PROVE  Side(E2, S2, n, queueUNLOCKED, p2)
<1> DEFINE m == Pending(lock)
           E == Members(l)
           A == S \ E
           B == S2 \ E2
<1>1. m \in Nat /\ Pending(queueUNLOCKED) = 0 /\ Len(l) \in Nat
      /\ \A y \in 1..Len(l) : y <= m => l[y] \notin E2
  <2>1. m \in Nat /\ (lock # -1 => m = lock) /\ (lock = -1 => m = 0) /\ Pending(queueUNLOCKED) = 0
    BY PendingNat DEF queueUNLOCKED
  <2>2. Len(l) \in Nat
    BY ListBasics
  <2> HIDE DEF m
  <2>3. \A y \in 1..Len(l) : y <= m => y <= lock
    BY <2>1, <2>2
  <2> QED  BY <2>1, <2>2, <2>3
<1>2. E \subseteq S /\ (E # {} => n <= Cardinality(A) + m) /\ E2 \subseteq S2
  BY DEF Side
<1> HIDE DEF m
<1>3. CASE Len(l) <= m
  <2>1. \A y \in 1..Len(l) : l[y] \notin E2
    BY <1>1, <1>3
  <2>2. E2 = {}
    BY <2>1 DEF Members
  <2> QED  BY <2>2 DEF Side
<1>4. CASE ~(Len(l) <= m)
  <2> DEFINE W == {l[y] : y \in 1..m}
  <2>1. m \in 0..Len(l) /\ \A y \in 1..m : y \in 1..Len(l) /\ y <= m
    BY <1>1, <1>4
  <2>2. IsFiniteSet(W) /\ Cardinality(W) = m /\ W \subseteq E
    BY <2>1, FirstOf
  <2>3. \A w \in W : w \notin E2
    BY <1>1, <2>1
  <2> HIDE DEF W
  <2>4. A \in SUBSET Task /\ B \in SUBSET Task /\ End \notin A
    BY MarkersAssumption
  <2>5. IsFiniteSet(A) /\ IsFiniteSet(B) /\ Cardinality(A) \in Nat /\ Cardinality(B) \in Nat
    BY <2>4, SomeTasks
  <2>6. (A \ {End}) \cup W \subseteq B /\ W \cap (A \ {End}) = {}
    BY <1>2, <2>2, <2>3
  <2> HIDE DEF A, B, E
  <2>7. Cardinality(A) + m <= Cardinality(B)
    BY <2>2, <2>4, <2>5, <2>6, Counted
  <2>8. ASSUME E2 # {} PROVE n <= Cardinality(B) + 0
    <3>1. E # {}
      BY <2>8 DEF E
    <3> QED  BY <1>1, <1>2, <2>5, <2>7, <3>1
  <2> QED  BY <1>1, <1>2, <2>8 DEF Side, B
<1> QED  BY <1>3, <1>4

\* The two sides of a queue, and its locks: tasks wait only at a locked queue.
GetSide(k, Q, cl, q) ==
  Side(Members(k.receivers[q]), Comers(cl, q, Gets), Q[q].waiting, Q[q].txLock,
       Placing(cl, q, Gets))
PutSide(k, Q, cl, q) ==
  Side(Members(k.senders[q]), Comers(cl, q, Puts), Length[q] - Q[q].waiting, Q[q].rxLock,
       Placing(cl, q, Puts))
Guarded(Q, cl, q) ==
  /\ Q[q].txLock >= -1 /\ Q[q].rxLock >= -1
  /\ \A t \in Task : cl[t].q = q /\ cl[t].pc \in {"check", "place"} =>
       Q[q].txLock # -1 /\ Q[q].rxLock # -1

WakingAt(k, Q, cl, q) == Guarded(Q, cl, q) /\ GetSide(k, Q, cl, q) /\ PutSide(k, Q, cl, q)
Waking(k, Q, cl) == \A q \in Queue : WakingAt(k, Q, cl, q)

\* The call c becomes d, and whoever was to come to q still is.
Stays(c, d, q) ==
  /\ d.q = q => d.pc \notin {"check", "place"}
  /\ Coming(c, q, Gets) => Coming(d, q, Gets)
  /\ Coming(c, q, Puts) => Coming(d, q, Puts)

\* The numbers of a queue, before and after a step.
LEMMA Numbers ==
  ASSUME KInv, NEW q \in Queue
  PROVE  /\ queue[q].waiting \in Nat /\ Length[q] - queue[q].waiting \in Nat
         /\ Length[q] \in Nat /\ queue[q].txLock \in Int /\ queue[q].rxLock \in Int
<1>1. queue[q] \in QueueRec(q) /\ Length[q] \in Nat
  BY KernelAssumption DEF KInv, IInv, Queues, Good
<1>2. queue[q].waiting \in 0..Length[q] /\ queue[q].txLock \in Int /\ queue[q].rxLock \in Int
  BY <1>1 DEF QueueRec
<1> QED  BY <1>1, <1>2

LEMMA NextNumbers ==
  ASSUME KInv', NEW q \in Queue
  PROVE  /\ queue'[q].waiting \in Nat /\ Length[q] - queue'[q].waiting \in Nat
         /\ queue'[q].txLock \in Int /\ queue'[q].rxLock \in Int
<1>1. queue'[q] \in QueueRec(q) /\ Length[q] \in Nat
  BY KernelAssumption DEF KInv, IInv, Queues, Good
<1>2. queue'[q].waiting \in 0..Length[q] /\ queue'[q].txLock \in Int /\ queue'[q].rxLock \in Int
  BY <1>1 DEF QueueRec
<1> QED  BY <1>1, <1>2

\* A queue that a step leaves alone.
LEMMA QuietAt ==
  ASSUME KInv, NEW q \in Queue, WakingAt(kern, queue, call, q), queue'[q] = queue[q],
         Members(kern'.receivers[q]) \subseteq Members(kern.receivers[q]),
         Members(kern'.senders[q]) \subseteq Members(kern.senders[q]),
         \A v \in Task : call'[v] = call[v] \/ Stays(call[v], call'[v], q)
  PROVE  WakingAt(kern', queue', call', q)
<1>1. Guarded(queue', call', q)
  BY DEF WakingAt, Guarded, Stays
<1>2. /\ queue[q].waiting \in Nat /\ Length[q] - queue[q].waiting \in Nat
      /\ queue[q].txLock \in Int /\ queue[q].rxLock \in Int
      /\ queue[q].txLock >= -1 /\ queue[q].rxLock >= -1
  BY Numbers DEF WakingAt, Guarded
<1>4. /\ Comers(call, q, Gets) \subseteq Comers(call', q, Gets)
      /\ Comers(call, q, Puts) \subseteq Comers(call', q, Puts)
  BY DEF Comers, Stays
<1>5. \A ops : Comers(call, q, ops) \in SUBSET Task /\ Comers(call', q, ops) \in SUBSET Task
  BY DEF Comers
<1>6. \A ops : Placing(call', q, ops) => Placing(call, q, ops)
  BY DEF Placing, Stays
<1>7. GetSide(kern', queue', call', q)
  <2> DEFINE n == queue[q].waiting
             l == queue[q].txLock
  <2>1. n + Pending(l) <= n + Pending(l) /\ n \in Nat /\ l \in Int /\ l >= -1
    BY <1>2, PendingNat
  <2>2. Side(Members(kern.receivers[q]), Comers(call, q, Gets), n, l, Placing(call, q, Gets))
    BY DEF WakingAt, GetSide
  <2> HIDE DEF n, l
  <2>3. Side(Members(kern'.receivers[q]), Comers(call', q, Gets), n, l, Placing(call', q, Gets))
    BY <1>4, <1>5, <1>6, <2>1, <2>2, SideStays
  <2> QED  BY <2>3 DEF GetSide, n, l
<1>8. PutSide(kern', queue', call', q)
  <2> DEFINE n == Length[q] - queue[q].waiting
             l == queue[q].rxLock
  <2>1. n + Pending(l) <= n + Pending(l) /\ n \in Nat /\ l \in Int /\ l >= -1
    BY <1>2, PendingNat
  <2>2. Side(Members(kern.senders[q]), Comers(call, q, Puts), n, l, Placing(call, q, Puts))
    BY DEF WakingAt, PutSide
  <2> HIDE DEF n, l
  <2>3. Side(Members(kern'.senders[q]), Comers(call', q, Puts), n, l, Placing(call', q, Puts))
    BY <1>4, <1>5, <1>6, <2>1, <2>2, SideStays
  <2> QED  BY <2>3 DEF PutSide, n, l
<1> QED  BY <1>1, <1>7, <1>8 DEF WakingAt

\* A step that leaves every queue alone.
LEMMA QuietWakes ==
  ASSUME KInv, Waking(kern, queue, call), Fewer(kern, kern'), queue' = queue,
         \A v \in Task, q \in Queue : call'[v] = call[v] \/ Stays(call[v], call'[v], q)
  PROVE  Waking(kern', queue', call')
<1>1. ASSUME NEW q \in Queue PROVE WakingAt(kern', queue', call', q)
  <2>1. WakingAt(kern, queue, call, q)
    BY DEF Waking
  <2> QED  BY <2>1, QuietAt DEF Fewer
<1> QED  BY <1>1 DEF Waking

\* What a change of one call does to those who come.
LEMMA Movers ==
  ASSUME KInv, NEW t \in Task, NEW c, call' = [call EXCEPT ![t] = c], NEW q, NEW ops
  PROVE  /\ Comers(call, q, ops) \in SUBSET Task /\ Comers(call', q, ops) \in SUBSET Task
         /\ Comers(call, q, ops) \ {t} \subseteq Comers(call', q, ops)
         /\ (Coming(call[t], q, ops) => Coming(c, q, ops)) =>
              Comers(call, q, ops) \subseteq Comers(call', q, ops)
         /\ t \in Comers(call, q, ops) <=> Coming(call[t], q, ops)
         /\ t \in Comers(call', q, ops) <=> Coming(c, q, ops)
<1>1. \A v \in Task : call'[v] = IF v = t THEN c ELSE call[v]
  BY DEF KInv
<1> QED  BY <1>1 DEF Comers

\* Only the running task is about to wait.
LEMMA NonePlacing ==
  ASSUME KInv, NEW t \in Task, t = kern.current, NEW c, call' = [call EXCEPT ![t] = c],
         c.pc # "place"
  PROVE  /\ \A q, ops : ~Placing(call', q, ops)
         /\ c.pc # "check" => \A v \in Task : call'[v].pc \notin {"check", "place"}
         /\ \A v \in Task \ {t} : call[v].pc \notin {"check", "place"} /\ call'[v] = call[v]
<1>1. \A v \in Task : call'[v] = IF v = t THEN c ELSE call[v]
  BY DEF KInv
<1>2. \A v \in Task \ {t} : call[v].pc \in Away
  BY DEF KInv, Turn
<1>3. \A v \in Task \ {t} : call[v].pc \notin {"check", "place"} /\ call'[v] = call[v]
  BY <1>1, <1>2 DEF Away
<1> QED  BY <1>1, <1>3 DEF Placing

\* A step in which one call changes, and every queue is left alone.
LEMMA OneCallWakes ==
  ASSUME KInv, Waking(kern, queue, call), Fewer(kern, kern'), queue' = queue,
         NEW t \in Task, NEW c, call' = [call EXCEPT ![t] = c],
         \A q \in Queue : Stays(call[t], c, q)
  PROVE  Waking(kern', queue', call')
<1>1. \A v \in Task : call'[v] = IF v = t THEN c ELSE call[v]
  BY DEF KInv
<1>2. \A v \in Task, q \in Queue : call'[v] = call[v] \/ Stays(call[v], call'[v], q)
  BY <1>1
<1> QED  BY <1>2, QuietWakes

\* A task that is not on its way to a queue.
LEMMA NotComing ==
  ASSUME NEW c, NEW d, c.pc \notin RetryPc \/ c.op \notin Gets \cup Puts,
         d.pc \notin {"check", "place"}
  PROVE  \A q : Stays(c, d, q)
BY DEF Stays, Coming

\* taskYIELD.
LEMMA YieldCallWakes ==
  ASSUME KInv, Waking(kern, queue, call), NEW t \in Caller, taskYIELD(t)
  PROVE  Waking(kern', queue', call')
<1>1. /\ Running(t, "run") /\ kern' = vTaskSwitchContext(kern)
      /\ call' = [call EXCEPT ![t] = NoCall] /\ queue' = queue
  BY DEF taskYIELD
<1>2. t \in Task /\ call[t].pc = "run" /\ KOk(kern) /\ IdleTask \in Rd(kern)
  BY <1>1, AtRun
<1>3. Fewer(kern, kern')
  BY <1>1, <1>2, SwitchOK DEF Switched
<1>4. \A q : Stays(call[t], NoCall, q)
  <2>1. NoCall.pc = "run"
    BY NoCallOK
  <2> QED  BY <1>2, <2>1, NotComing DEF RetryPc
<1> QED  BY <1>1, <1>2, <1>3, <1>4, OneCallWakes

\* vTaskDelay.
LEMMA DelayCallWakes ==
  ASSUME KInv, Waking(kern, queue, call), NEW t \in Caller, NEW ticks, vTaskDelay(t, ticks)
  PROVE  Waking(kern', queue', call')
<1> DEFINE k == vTaskSuspendAll(kern)
           c == [NoCall EXCEPT !.pc = "resume", !.then = "yield", !.op = "delay", !.ticks = ticks]
<1>1. /\ Running(t, "run") /\ <<"delay", None, ticks>> \in May[t]
      /\ kern' = DelayCurrent(k, ticks)
      /\ call' = [call EXCEPT ![t] = c] /\ queue' = queue
  BY DEF vTaskDelay
<1>2. /\ t \in Task /\ t = kern.current /\ call[t].pc = "run" /\ KOk(kern)
      /\ t \in Rd(kern) /\ kern.suspended = 0
  BY <1>1, AtRun
<1>3. ticks \in 0..MaxDelay
  BY <1>1, <1>2, CallTicks
<1>4. c.pc = "resume"
  BY DEF NoCall
<1> HIDE DEF c
<1>5. KOk(k) /\ Rd(k) = Rd(kern) /\ k.current = t /\ SameEvents(kern, k)
  BY <1>2, SuspendAllOK
<1> HIDE DEF k
<1>6. /\ k \in KernRec /\ ReadyOK(k) /\ OneList(k) /\ BlockableEvents(k) /\ k.current \notin Wt(k)
  BY <1>2, <1>5 DEF KOk, BlockableEvents, OneList
<1>7. SameEvents(k, kern')
  BY <1>1, <1>3, <1>6, DelayCurrentOK DEF Asleep
<1>8. Fewer(kern, kern')
  BY <1>5, <1>7, FewerFacts DEF SameEvents
<1>9. \A q : Stays(call[t], c, q)
  BY <1>2, <1>4, NotComing DEF RetryPc
<1> QED  BY <1>1, <1>2, <1>8, <1>9, OneCallWakes

\* xTaskGenericCreate.
LEMMA CreateWakes ==
  ASSUME KInv, Waking(kern, queue, call), NEW t \in Caller, NEW u \in Caller,
         csp_thread_create(t, u)
  PROVE  Waking(kern', queue', call')
<1> DEFINE made == prvAddTaskToReadyList(
                     [kern EXCEPT !.prio[u] = Priority[u], !.basePrio[u] = Priority[u],
                                  !.wake[u] = 0], u)
           cond == kern.prio[t] < Priority[u]
<1>1. /\ Running(t, "run") /\ call[u].pc = "absent" /\ kern' = YieldIf(cond, made)
      /\ call' = [call EXCEPT ![u] = NoCall, ![t] = NoCall] /\ queue' = queue
  BY DEF csp_thread_create
<1>2. /\ t \in Task /\ KOk(kern) /\ IdleTask \in Rd(kern) /\ call[t].pc = "run"
      /\ call \in [Task -> CallRec]
  BY <1>1, AtRun
<1>3. u \in Task /\ Places
  BY DEF Caller, KInv
<1>4. u \notin Rd(kern) \cup As(kern) \cup Wt(kern)
  BY <1>1, <1>3 DEF Places
<1>5. KOk(made) /\ Rd(made) = Rd(kern) \cup {u} /\ SameEvents(kern, made)
  BY <1>2, <1>3, <1>4, CreateOK
<1> HIDE DEF made, cond
<1>6. Fewer(made, kern')
  <2>1. IdleTask \in Rd(made) /\ Calm(made, made)
    BY <1>2, <1>5, CalmSelf
  <2> QED  BY <1>1, <2>1, CalmThenYield DEF Moves
<1>7. Fewer(kern, kern')
  BY <1>5, <1>6, FewerFacts
<1>8. NoCall.pc = "run"
  BY NoCallOK
<1>9. \A v \in Task : call'[v] = IF v \in {t, u} THEN NoCall ELSE call[v]
  BY <1>1, <1>2, <1>3
<1>10. \A v \in Task, q \in Queue : call'[v] = call[v] \/ Stays(call[v], call'[v], q)
  <2>1. \A v \in {t, u}, q \in Queue : Stays(call[v], NoCall, q)
    BY <1>1, <1>2, <1>8, NotComing DEF RetryPc
  <2> QED  BY <1>9, <2>1
<1> QED  BY <1>1, <1>7, <1>10, QuietWakes

\* vTaskDelete.
LEMMA DeleteWakes ==
  ASSUME KInv, Waking(kern, queue, call), NEW t \in Caller, NEW u \in Caller, vTaskDelete(t, u)
  PROVE  Waking(kern', queue', call')
<1> DEFINE gone == [RemoveGenericItem(RemoveEventItem(kern, u), u)
                      EXCEPT !.waitingTermination = Append(@, u)]
           d == [NoCall EXCEPT !.pc = "deleted"]
<1>1. /\ Running(t, "run") /\ call[u].pc # "absent" /\ call[u].pc # "deleted"
      /\ call[u].pc = "run" \/ call[u].op = "delay"
      /\ kern' = YieldIf(u = t, gone)
      /\ call' = [call EXCEPT ![t] = NoCall, ![u] = d] /\ queue' = queue
  BY DEF vTaskDelete
<1>2. /\ t \in Task /\ t = kern.current /\ KOk(kern) /\ IdleTask \in Rd(kern)
      /\ t \in Rd(kern) /\ call[t].pc = "run" /\ call \in [Task -> CallRec]
  BY <1>1, AtRun
<1>3. u \in Task /\ u # IdleTask /\ Places
  BY DEF Caller, KInv
<1>4. u \notin Wt(kern)
  BY <1>1, <1>3 DEF Places
<1>5. KOk(gone) /\ Rd(gone) = Rd(kern) \ {u} /\ Fewer(kern, gone)
  BY <1>2, <1>3, <1>4, DeleteOK
<1> HIDE DEF gone
<1>6. Fewer(kern, kern')
  <2>1. CASE u = t
    <3>1. kern' = vTaskSwitchContext(gone)
      BY <1>1, <2>1 DEF YieldIf
    <3>2. IdleTask \in Rd(gone)
      BY <1>2, <1>3, <1>5
    <3>3. Fewer(gone, kern')
      BY <1>5, <3>1, <3>2, SwitchOK DEF Switched
    <3> QED  BY <1>5, <3>3, FewerFacts
  <2>2. CASE u # t
    BY <1>1, <1>5, <2>2 DEF YieldIf
  <2> QED  BY <2>1, <2>2
<1>7. NoCall.pc = "run" /\ d.pc = "deleted"
  BY NoCallOK DEF NoCall
<1> HIDE DEF d
<1>8. \A v \in Task : call'[v] = IF v = u THEN d ELSE IF v = t THEN NoCall ELSE call[v]
  BY <1>1, <1>2, <1>3
<1>9. \A v \in Task, q \in Queue : call'[v] = call[v] \/ Stays(call[v], call'[v], q)
  <2>1. \A q \in Queue : Stays(call[u], d, q) /\ Stays(call[t], NoCall, q)
    BY <1>1, <1>2, <1>7, NotComing DEF RetryPc, Gets, Puts
  <2> QED  BY <1>8, <2>1
<1> QED  BY <1>1, <1>6, <1>9, QuietWakes

\* The steps of a call that leave every queue alone.
LEMMA QuietCallWakes ==
  ASSUME KInv, Waking(kern, queue, call), NEW t \in Caller,
         Suspend(t) \/ Resume(t) \/ Yield(t) \/ Delayed(t)
  PROVE  Waking(kern', queue', call')
<1>0. t \in Task /\ call \in [Task -> CallRec]
  BY DEF Caller, KInv
<1>1. ASSUME Suspend(t) PROVE Waking(kern', queue', call')
  <2>1. Running(t, "suspend") /\ GoTo(t, "lock") /\ kern' = vTaskSuspendAll(kern) /\ queue' = queue
    BY <1>1 DEF Suspend
  <2>2. /\ call[t].pc = "suspend" /\ KOk(kern)
        /\ "suspend" \notin Held => kern.suspended = 0
    BY <1>0, <2>1, AtPoint
  <2>3. Fewer(kern, kern')
    BY <2>1, <2>2, SuspendAllOK, FewerFacts DEF Held
  <2>4. PICK c \in CallRec : call' = [call EXCEPT ![t] = c] /\ c.pc = "lock"
    <3>1. "lock" \in Pc
      BY DEF Pc
    <3> QED  BY <1>0, <2>1, <3>1, NextPoint
  <2>5. \A q : Stays(call[t], c, q)
    BY <2>2, <2>4, NotComing DEF RetryPc
  <2> QED  BY <1>0, <2>1, <2>3, <2>4, <2>5, OneCallWakes
<1>2. ASSUME Resume(t) PROVE Waking(kern', queue', call')
  <2>1. /\ Running(t, "resume") /\ kern' = xTaskResumeAll(kern) /\ queue' = queue
        /\ \/ call[t].then = "fail" /\ call' = [call EXCEPT ![t] = NoCall]
           \/ call[t].then = "try" /\ GoTo(t, "try")
           \/ /\ call[t].then = "yield"
              /\ GoTo(t, IF Resumed(kern).yieldPending THEN AfterYield(t) ELSE "yield")
    BY <1>2 DEF Resume
  <2>2. /\ call[t].pc = "resume" /\ KOk(kern) /\ IdleTask \in Rd(kern)
        /\ "resume" \in Held => kern.suspended = 1
    BY <1>0, <2>1, AtPoint
  <2>3. Fewer(kern, kern')
    BY <2>1, <2>2, ResumeAllOK DEF Held
  <2>4. ASSUME call[t].then = "fail", call' = [call EXCEPT ![t] = NoCall]
        PROVE  Waking(kern', queue', call')
    <3>1. NoCall.pc = "run"
      BY NoCallOK
    <3>2. \A q : Stays(call[t], NoCall, q)
      BY <2>4, <3>1 DEF Stays, Coming
    <3> QED  BY <1>0, <2>1, <2>3, <2>4, <3>2, OneCallWakes
  <2>5. ASSUME NEW pc \in Pc, GoTo(t, pc),
               pc \in {"try", "yield"} \/ (pc = "delayed" /\ call[t].op = "delay")
        PROVE  Waking(kern', queue', call')
    <3>1. PICK c \in CallRec : /\ call' = [call EXCEPT ![t] = c]
                               /\ c.pc = pc /\ c.op = call[t].op /\ c.q = call[t].q
                               /\ c.then = call[t].then
      BY <1>0, <2>5, NextPoint
    <3>2. \A q : Stays(call[t], c, q)
      BY <2>5, <3>1 DEF Stays, Coming, RetryPc, Gets, Puts
    <3> QED  BY <1>0, <2>1, <2>3, <3>1, <3>2, OneCallWakes
  <2>6. "try" \in Pc /\ "yield" \in Pc /\ "delayed" \in Pc
    BY DEF Pc
  <2>7. CASE call[t].then = "try" /\ GoTo(t, "try")
    BY <2>5, <2>6, <2>7
  <2>8. CASE GoTo(t, IF Resumed(kern).yieldPending THEN AfterYield(t) ELSE "yield")
    <3> DEFINE pc == IF Resumed(kern).yieldPending THEN AfterYield(t) ELSE "yield"
    <3>1. pc \in Pc /\ (pc \in {"try", "yield"} \/ (pc = "delayed" /\ call[t].op = "delay"))
      BY <2>6 DEF AfterYield
    <3>2. GoTo(t, pc)
      BY <2>8
    <3> HIDE DEF pc
    <3> QED  BY <2>5, <3>1, <3>2
  <2> QED  BY <2>1, <2>4, <2>7, <2>8
<1>3. ASSUME Yield(t) PROVE Waking(kern', queue', call')
  <2>1. /\ Running(t, "yield") /\ GoTo(t, AfterYield(t)) /\ kern' = vTaskSwitchContext(kern)
        /\ queue' = queue
    BY <1>3 DEF Yield
  <2>2. call[t].pc = "yield" /\ KOk(kern) /\ IdleTask \in Rd(kern)
    BY <1>0, <2>1, AtPoint
  <2>3. Fewer(kern, kern')
    BY <2>1, <2>2, SwitchOK DEF Switched
  <2>4. /\ AfterYield(t) \in Pc
        /\ AfterYield(t) = "try" \/ (AfterYield(t) = "delayed" /\ call[t].op = "delay")
    BY DEF AfterYield, Pc
  <2>5. PICK c \in CallRec : /\ call' = [call EXCEPT ![t] = c]
                             /\ c.pc = AfterYield(t) /\ c.op = call[t].op /\ c.q = call[t].q
                             /\ c.then = call[t].then
    BY <1>0, <2>1, <2>4, NextPoint
  <2>6. \A q : Stays(call[t], c, q)
    BY <2>4, <2>5 DEF Stays, Coming, RetryPc, Gets, Puts
  <2> QED  BY <1>0, <2>1, <2>3, <2>5, <2>6, OneCallWakes
<1>4. ASSUME Delayed(t) PROVE Waking(kern', queue', call')
  <2>1. /\ Running(t, "delayed") /\ call' = [call EXCEPT ![t] = NoCall] /\ kern' = kern
        /\ queue' = queue
    BY <1>4 DEF Delayed
  <2>2. call[t].pc = "delayed" /\ NoCall.pc = "run"
    BY <2>1, NoCallOK DEF Running
  <2>3. Fewer(kern, kern')
    BY <2>1 DEF Fewer
  <2>4. \A q : Stays(call[t], NoCall, q)
    BY <2>2, NotComing DEF RetryPc
  <2> QED  BY <1>0, <2>1, <2>3, <2>4, OneCallWakes
<1> QED  BY <1>1, <1>2, <1>3, <1>4

\* The steps of the idle task.
LEMMA IdleStepWakes ==
  ASSUME KInv, Waking(kern, queue, call), IdleStep
  PROVE  Waking(kern', queue', call')
<1>0. IdleTask \in Task /\ call \in [Task -> CallRec] /\ KOk(kern)
  BY TaskFacts DEF KInv
<1>1. ASSUME Idle PROVE Waking(kern', queue', call')
  <2>1. kern' = vTaskSwitchContext(kern) /\ queue' = queue /\ call' = call
    BY <1>1 DEF Idle
  <2>2. Fewer(kern, kern')
    BY <1>0, <2>1, SwitchOK DEF Switched, KInv, IdleOK
  <2> QED  BY <2>1, <2>2, QuietWakes
<1>2. ASSUME IdleSuspend PROVE Waking(kern', queue', call')
  <2>1. /\ Running(IdleTask, "run") /\ GoTo(IdleTask, "idleResume")
        /\ kern' = vTaskSuspendAll(kern) /\ queue' = queue
    BY <1>2 DEF IdleSuspend
  <2>2. call[IdleTask].pc = "run" /\ ("run" \notin Held => kern.suspended = 0)
    BY <1>0, <2>1, AtPoint
  <2>3. Fewer(kern, kern')
    BY <1>0, <2>1, <2>2, SuspendAllOK, FewerFacts DEF Held
  <2>4. PICK c \in CallRec : call' = [call EXCEPT ![IdleTask] = c] /\ c.pc = "idleResume"
    <3>1. "idleResume" \in Pc
      BY DEF Pc
    <3> QED  BY <1>0, <2>1, <3>1, NextPoint
  <2>5. \A q : Stays(call[IdleTask], c, q)
    BY <2>2, <2>4, NotComing DEF RetryPc
  <2> QED  BY <1>0, <2>1, <2>3, <2>4, <2>5, OneCallWakes
<1>3. ASSUME IdleResume PROVE Waking(kern', queue', call')
  <2>1. /\ Running(IdleTask, "idleResume") /\ GoTo(IdleTask, "reap")
        /\ kern' = xTaskResumeAll(kern) /\ queue' = queue
    BY <1>3 DEF IdleResume
  <2>2. /\ call[IdleTask].pc = "idleResume" /\ IdleTask \in Rd(kern)
        /\ "idleResume" \in Held => kern.suspended = 1
    BY <1>0, <2>1, AtPoint
  <2>3. Fewer(kern, kern')
    BY <1>0, <2>1, <2>2, ResumeAllOK DEF Held
  <2>4. PICK c \in CallRec : call' = [call EXCEPT ![IdleTask] = c] /\ c.pc = "reap"
    <3>1. "reap" \in Pc
      BY DEF Pc
    <3> QED  BY <1>0, <2>1, <3>1, NextPoint
  <2>5. \A q : Stays(call[IdleTask], c, q)
    BY <2>2, <2>4, NotComing DEF RetryPc
  <2> QED  BY <1>0, <2>1, <2>3, <2>4, <2>5, OneCallWakes
<1>4. ASSUME Reap PROVE Waking(kern', queue', call')
  <2> DEFINE u == Head(kern.waitingTermination)
             d == [NoCall EXCEPT !.pc = "absent"]
  <2>1. /\ Running(IdleTask, "reap")
        /\ kern' = [kern EXCEPT !.waitingTermination = Tail(@)]
        /\ call' = [call EXCEPT ![IdleTask] = NoCall, ![u] = d] /\ queue' = queue
    BY <1>4 DEF Reap
  <2>2. call[IdleTask].pc = "reap" /\ kern.waitingTermination # <<>> /\ Places
    BY <1>0, <2>1, AtPoint DEF KInv, IdleOK
  <2>3. SameEvents(kern, kern') /\ u \in Wt(kern)
    BY <1>0, <2>1, <2>2, ReapOK
  <2> HIDE DEF u
  <2>4. u \in Task /\ call[u].pc = "deleted"
    <3>1. Wt(kern) \subseteq Task
      BY <1>0, KernMembers DEF KOk
    <3> QED  BY <2>2, <2>3, <3>1 DEF Places
  <2>5. NoCall.pc = "run" /\ d.pc = "absent"
    BY NoCallOK DEF NoCall
  <2> HIDE DEF d
  <2>6. \A v \in Task : call'[v] = IF v = u THEN d ELSE IF v = IdleTask THEN NoCall ELSE call[v]
    BY <1>0, <2>1, <2>4
  <2>7. \A v \in Task, q \in Queue : call'[v] = call[v] \/ Stays(call[v], call'[v], q)
    <3>1. \A q \in Queue : Stays(call[u], d, q) /\ Stays(call[IdleTask], NoCall, q)
      BY <2>2, <2>4, <2>5, NotComing DEF RetryPc
    <3> QED  BY <2>6, <3>1
  <2>8. Fewer(kern, kern')
    BY <2>3, FewerFacts
  <2> QED  BY <2>1, <2>7, <2>8, QuietWakes
<1> QED  BY <1>1, <1>2, <1>3, <1>4 DEF IdleStep

\* What copying into a queue, and taking from it, does to its numbers.
LEMMA CopyFields ==
  ASSUME NEW q \in Queue, NEW Q \in QueueRec(q), NEW x, NEW position
  PROVE  LET R == prvCopyDataToQueue(q, Q, x, position)
         IN  R.waiting = Q.waiting + 1 /\ R.txLock = Q.txLock /\ R.rxLock = Q.rxLock
BY DEF prvCopyDataToQueue, QueueRec

LEMMA TakenFields ==
  ASSUME NEW q \in Queue, NEW Q \in QueueRec(q), NEW holder
  PROVE  LET R == Taken(q, Q, holder)
         IN  R.waiting = Q.waiting - 1 /\ R.txLock = Q.txLock /\ R.rxLock = Q.rxLock
BY DEF Taken, QueueRec

\* The sides of a queue from which x leaves, and those from which no task does.
LEMMA GetServed ==
  ASSUME KInv, KInv', NEW q \in Queue, WakingAt(kern, queue, call, q), Fewer(kern, kern'),
         NEW x, x \notin Members(kern.receivers[q]),
         Comers(call, q, Gets) \ {x} \subseteq Comers(call', q, Gets), ~Placing(call', q, Gets),
         queue'[q].txLock = queue[q].txLock,
         Served(Members(kern.receivers[q]), Members(kern'.receivers[q]), Comers(call, q, Gets), x,
                queue[q].waiting, queue'[q].waiting)
  PROVE  GetSide(kern', queue', call', q)
<1> DEFINE E == Members(kern.receivers[q])
           F == Members(kern'.receivers[q])
           S == Comers(call, q, Gets)
           T == Comers(call', q, Gets)
           n == queue[q].waiting
           m == queue'[q].waiting
           l == queue[q].txLock
           p == Placing(call, q, Gets)
           r == Placing(call', q, Gets)
<1>1. n \in Nat /\ m \in Nat /\ l \in Int /\ l >= -1
  BY Numbers, NextNumbers DEF WakingAt, Guarded
<1>2. F \subseteq E /\ S \in SUBSET Task /\ T \in SUBSET Task
  BY DEF Fewer, Comers
<1>3. Side(E, S, n, l, p) /\ Served(E, F, S, x, n, m) /\ x \notin E /\ S \ {x} \subseteq T /\ ~r
  BY DEF WakingAt, GetSide
<1>4. GetSide(kern', queue', call', q) <=> Side(F, T, m, l, r)
  BY DEF GetSide
<1> HIDE DEF E, F, S, T, n, m, l, p, r
<1> QED  BY <1>1, <1>2, <1>3, <1>4, SideServed

LEMMA PutServed ==
  ASSUME KInv, KInv', NEW q \in Queue, WakingAt(kern, queue, call, q), Fewer(kern, kern'),
         NEW x, x \notin Members(kern.senders[q]),
         Comers(call, q, Puts) \ {x} \subseteq Comers(call', q, Puts), ~Placing(call', q, Puts),
         queue'[q].rxLock = queue[q].rxLock,
         Served(Members(kern.senders[q]), Members(kern'.senders[q]), Comers(call, q, Puts), x,
                Length[q] - queue[q].waiting, Length[q] - queue'[q].waiting)
  PROVE  PutSide(kern', queue', call', q)
<1> DEFINE E == Members(kern.senders[q])
           F == Members(kern'.senders[q])
           S == Comers(call, q, Puts)
           T == Comers(call', q, Puts)
           n == Length[q] - queue[q].waiting
           m == Length[q] - queue'[q].waiting
           l == queue[q].rxLock
           p == Placing(call, q, Puts)
           r == Placing(call', q, Puts)
<1>1. n \in Nat /\ m \in Nat /\ l \in Int /\ l >= -1
  BY Numbers, NextNumbers DEF WakingAt, Guarded
<1>2. F \subseteq E /\ S \in SUBSET Task /\ T \in SUBSET Task
  BY DEF Fewer, Comers
<1>3. Side(E, S, n, l, p) /\ Served(E, F, S, x, n, m) /\ x \notin E /\ S \ {x} \subseteq T /\ ~r
  BY DEF WakingAt, PutSide
<1>4. PutSide(kern', queue', call', q) <=> Side(F, T, m, l, r)
  BY DEF PutSide
<1> HIDE DEF E, F, S, T, n, m, l, p, r
<1> QED  BY <1>1, <1>2, <1>3, <1>4, SideServed

LEMMA GetStays ==
  ASSUME KInv, KInv', NEW q \in Queue, WakingAt(kern, queue, call, q),
         Members(kern'.receivers[q]) \subseteq Members(kern.receivers[q]),
         Comers(call, q, Gets) \subseteq Comers(call', q, Gets),
         Placing(call', q, Gets) => Placing(call, q, Gets) \/ queue'[q].waiting = 0,
         queue'[q].txLock >= -1,
         queue'[q].waiting + Pending(queue[q].txLock)
           <= queue[q].waiting + Pending(queue'[q].txLock)
  PROVE  GetSide(kern', queue', call', q)
<1> DEFINE E == Members(kern.receivers[q])
           F == Members(kern'.receivers[q])
           S == Comers(call, q, Gets)
           T == Comers(call', q, Gets)
           n == queue[q].waiting
           m == queue'[q].waiting
           l == queue[q].txLock
           i == queue'[q].txLock
           p == Placing(call, q, Gets)
           r == Placing(call', q, Gets)
<1>1. n \in Nat /\ m \in Nat /\ l \in Int /\ l >= -1 /\ i \in Int /\ i >= -1
  BY Numbers, NextNumbers DEF WakingAt, Guarded
<1>2. F \subseteq E /\ S \in SUBSET Task /\ T \in SUBSET Task
  BY DEF Comers
<1>3. Side(E, S, n, l, p) /\ S \subseteq T /\ (r => p \/ m = 0) /\ m + Pending(l) <= n + Pending(i)
  BY DEF WakingAt, GetSide
<1>4. GetSide(kern', queue', call', q) <=> Side(F, T, m, i, r)
  BY DEF GetSide
<1> HIDE DEF E, F, S, T, n, m, l, i, p, r
<1> QED  BY <1>1, <1>2, <1>3, <1>4, SideStays

LEMMA PutStays ==
  ASSUME KInv, KInv', NEW q \in Queue, WakingAt(kern, queue, call, q),
         Members(kern'.senders[q]) \subseteq Members(kern.senders[q]),
         Comers(call, q, Puts) \subseteq Comers(call', q, Puts),
         Placing(call', q, Puts) => Placing(call, q, Puts) \/ Length[q] - queue'[q].waiting = 0,
         queue'[q].rxLock >= -1,
         Length[q] - queue'[q].waiting + Pending(queue[q].rxLock)
           <= Length[q] - queue[q].waiting + Pending(queue'[q].rxLock)
  PROVE  PutSide(kern', queue', call', q)
<1> DEFINE E == Members(kern.senders[q])
           F == Members(kern'.senders[q])
           S == Comers(call, q, Puts)
           T == Comers(call', q, Puts)
           n == Length[q] - queue[q].waiting
           m == Length[q] - queue'[q].waiting
           l == queue[q].rxLock
           i == queue'[q].rxLock
           p == Placing(call, q, Puts)
           r == Placing(call', q, Puts)
<1>1. n \in Nat /\ m \in Nat /\ l \in Int /\ l >= -1 /\ i \in Int /\ i >= -1
  BY Numbers, NextNumbers DEF WakingAt, Guarded
<1>2. F \subseteq E /\ S \in SUBSET Task /\ T \in SUBSET Task
  BY DEF Comers
<1>3. Side(E, S, n, l, p) /\ S \subseteq T /\ (r => p \/ m = 0) /\ m + Pending(l) <= n + Pending(i)
  BY DEF WakingAt, PutSide
<1>4. PutSide(kern', queue', call', q) <=> Side(F, T, m, i, r)
  BY DEF PutSide
<1> HIDE DEF E, F, S, T, n, m, l, i, p, r
<1> QED  BY <1>1, <1>2, <1>3, <1>4, SideStays

\* What one attempt of t at the call c does: its call ends or goes on to wait, and there is
\* less for those who wait at q, or one of them is woken.
Serves(t, c, q) ==
  /\ Fewer(kern, kern')
  /\ \E d : call' = [call EXCEPT ![t] = d] /\ d.pc \in {"run", "suspend"}
  /\ \A p \in Queue \ {q} : queue'[p] = queue[p]
  /\ queue'[q].txLock = queue[q].txLock /\ queue'[q].rxLock = queue[q].rxLock
  /\ Served(Members(kern.receivers[q]), Members(kern'.receivers[q]), Comers(call, q, Gets), t,
            queue[q].waiting, queue'[q].waiting)
  /\ Served(Members(kern.senders[q]), Members(kern'.senders[q]), Comers(call, q, Puts), t,
            Length[q] - queue[q].waiting, Length[q] - queue'[q].waiting)

\* A task woken from an event list waits no more.
LEMMA WokenHead ==
  ASSUME NEW k, KOk(k), IdleTask \in Rd(k), NEW q \in Queue
  PROVE  /\ Moves(k, WakeAndYield(k, k.receivers[q])) /\ Moves(k, WakeAndYield(k, k.senders[q]))
         /\ Members(k.receivers[q]) # {} =>
              \E h \in Members(k.receivers[q]) :
                h \notin Members(WakeAndYield(k, k.receivers[q]).receivers[q])
         /\ Members(k.senders[q]) # {} =>
              \E h \in Members(k.senders[q]) :
                h \notin Members(WakeAndYield(k, k.senders[q]).senders[q])
<1>1. /\ k.senders[q] \in Lists(Task) /\ Members(k.senders[q]) \subseteq InEvent(k)
      /\ k.receivers[q] \in Lists(Task) /\ Members(k.receivers[q]) \subseteq InEvent(k)
  BY EventLists
<1>2. /\ k.receivers[q] # <<>> <=> Members(k.receivers[q]) # {}
      /\ k.senders[q] # <<>> <=> Members(k.senders[q]) # {}
      /\ Members(k.receivers[q]) \subseteq Task /\ Members(k.senders[q]) \subseteq Task
  BY <1>1, ListBasics
<1>3. ASSUME NEW l \in Lists(Task), Members(l) \subseteq InEvent(k)
      PROVE  /\ Moves(k, WakeAndYield(k, l))
             /\ l # <<>> => Head(l) \in Members(l) \ Waiters(WakeAndYield(k, l))
  BY <1>3, WakeAndYieldOK
<1>4. \A j, h : h \in Task \ Waiters(j) =>
        h \notin Members(j.receivers[q]) /\ h \notin Members(j.senders[q])
  BY DEF Waiters
<1> QED  BY <1>1, <1>2, <1>3, <1>4

\* An attempt for which there is nothing to do yet.
LEMMA NotYetServes ==
  ASSUME KInv, NEW t \in Task, NEW c \in CallRec, c.q \in Queue, NotYet(t, c),
         \/ queue[c.q].waiting = 0 /\ ~Coming(call[t], c.q, Puts)
         \/ Length[c.q] - queue[c.q].waiting = 0 /\ ~Coming(call[t], c.q, Gets)
  PROVE  Serves(t, c, c.q)
<1> DEFINE q == c.q
<1>1. kern' = kern /\ queue' = queue
  BY DEF NotYet
<1>2. \E d : call' = [call EXCEPT ![t] = d] /\ d.pc \in {"run", "suspend"}
  <2>1. CASE c.ticks = 0
    <3>1. NoCall.pc = "run"
      BY NoCallOK
    <3> QED  BY <2>1, <3>1 DEF NotYet
  <2>2. CASE c.ticks # 0
    <3> DEFINE since == IF c.entryTimeSet THEN c.since ELSE vTaskSetTimeOutState(kern)
               d == [c EXCEPT !.pc = "suspend", !.entryTimeSet = TRUE, !.since = since]
    <3>1. call' = [call EXCEPT ![t] = d]
      BY <2>2 DEF NotYet
    <3> HIDE DEF since
    <3>2. d.pc = "suspend"
      BY DEF CallRec
    <3> QED  BY <3>1, <3>2
  <2> QED  BY <2>1, <2>2
<1>3. Fewer(kern, kern')
  BY <1>1 DEF Fewer
<1>4. /\ t \in Comers(call, q, Gets) => Coming(call[t], q, Gets)
      /\ t \in Comers(call, q, Puts) => Coming(call[t], q, Puts)
  BY DEF Comers
<1>5. queue[q].waiting \in Nat /\ Length[q] - queue[q].waiting \in Nat
  BY Numbers
<1>6. /\ queue[q].waiting = 0 \/ (queue[q].waiting <= queue[q].waiting /\ t \notin Comers(call, q, Gets))
      /\ Length[q] - queue[q].waiting = 0
           \/ (Length[q] - queue[q].waiting <= Length[q] - queue[q].waiting /\ t \notin Comers(call, q, Puts))
  BY <1>4, <1>5
<1>7. /\ Served(Members(kern.receivers[q]), Members(kern'.receivers[q]), Comers(call, q, Gets), t,
                queue[q].waiting, queue'[q].waiting)
      /\ Served(Members(kern.senders[q]), Members(kern'.senders[q]), Comers(call, q, Puts), t,
                Length[q] - queue[q].waiting, Length[q] - queue'[q].waiting)
  BY <1>1, <1>6 DEF Served
<1> QED  BY <1>1, <1>2, <1>3, <1>7 DEF Serves

\* An attempt that ends the call.
LEMMA DoneServes ==
  ASSUME NEW t, NEW c, NEW x, Done(t, c, x)
  PROVE  \E d : call' = [call EXCEPT ![t] = d] /\ d.pc \in {"run", "suspend"}
<1> DEFINE d == [NoCall EXCEPT !.op = c.op, !.q = c.q, !.item = x]
<1>1. d.pc = "run"
  BY DEF NoCall
<1>2. call' = [call EXCEPT ![t] = d]
  BY DEF Done
<1> QED  BY <1>1, <1>2

\* One attempt at a call.
LEMMA AttemptServes ==
  ASSUME KInv, NEW t \in Task, t \in Rd(kern), NEW c \in CallRec, Calling(c),
         call[t].pc = "run" \/ call[t] = c,
         c.op \in {"send", "sendFront"} /\ Kind[c.q] = "mutex" => queue[c.q].holder = t,
         Attempt(t, c)
  PROVE  Serves(t, c, c.q)
<1> DEFINE q == c.q
           n == queue[q].waiting
           room == Length[q] - queue[q].waiting
<1>0. /\ q \in Queue /\ KOk(kern) /\ IdleTask \in Rd(kern) /\ queue[q] \in QueueRec(q)
      /\ queue = [p \in Queue |-> queue[p]]
  BY DEF Calling, KInv, IdleOK, IInv, Queues, Good
<1>1. n \in Nat /\ room \in Nat /\ Length[q] \in Nat
  BY <1>0, Numbers
<1>2. /\ c.op \in Puts => ~Coming(call[t], q, Gets) /\ t \notin Comers(call, q, Gets)
      /\ c.op \in Gets => ~Coming(call[t], q, Puts) /\ t \notin Comers(call, q, Puts)
  BY DEF Coming, Comers, Gets, Puts, RetryPc
<1>3. ASSUME NEW position, AttemptSend(t, c, position), c.op \in Puts
      PROVE  Serves(t, c, q)
  <2>1. CASE NotYet(t, c) /\ ~Fits(q)
    <3>1. n \in 0..Length[q]
      BY <1>0 DEF QueueRec
    <3>2. room = 0
      BY <1>1, <2>1, <3>1 DEF Fits
    <3> QED  BY <1>0, <1>2, <1>3, <2>1, <3>2, NotYetServes
  <2>2. CASE ~(NotYet(t, c) /\ ~Fits(q))
    <3> DEFINE k == Disinherited(kern, q)
    <3>1. /\ kern' = WakeAndYield(k, k.receivers[q]) /\ Done(t, c, None)
          /\ queue' = [queue EXCEPT ![q] = prvCopyDataToQueue(q, queue[q], c.item, position)]
          /\ n < Length[q]
      BY <1>3, <2>2 DEF AttemptSend, Fits
    <3>2. SamePlaces(kern, k)
      <4>1. CASE Kind[q] = "mutex"
        <5>1. k = vTaskPriorityDisinherit(kern, queue[q].holder) /\ queue[q].holder = t
          BY <1>3, <4>1 DEF Disinherited, Puts
        <5> QED  BY <1>0, <5>1, DisinheritOK
      <4>2. CASE Kind[q] # "mutex"
        BY <1>0, <4>2 DEF Disinherited, SamePlaces, SameRest, SameEvents
      <4> QED  BY <4>1, <4>2
    <3> HIDE DEF k
    <3>3. KOk(k) /\ IdleTask \in Rd(k) /\ Fewer(kern, k) /\ k.receivers = kern.receivers
      BY <1>0, <3>2, FewerFacts DEF SamePlaces, SameEvents
    <3>4. /\ Moves(k, kern')
          /\ Members(kern.receivers[q]) # {} =>
               \E h \in Members(kern.receivers[q]) : h \notin Members(kern'.receivers[q])
      BY <1>0, <3>1, <3>3, WokenHead
    <3>5. Fewer(kern, kern')
      BY <3>3, <3>4, FewerFacts DEF Moves
    <3>6. /\ \A p \in Queue \ {q} : queue'[p] = queue[p]
          /\ queue'[q] = prvCopyDataToQueue(q, queue[q], c.item, position)
      BY <1>0, <3>1
    <3>7. /\ queue'[q].waiting = n + 1
          /\ queue'[q].txLock = queue[q].txLock /\ queue'[q].rxLock = queue[q].rxLock
      BY <1>0, <3>6, CopyFields
    <3>8. Length[q] - queue'[q].waiting + 1 <= room
      BY <1>1, <3>7
    <3>9. queue'[q].waiting <= n + (IF t \in Comers(call, q, Gets) THEN 0 ELSE 1)
      BY <1>1, <1>2, <1>3, <3>7
    <3>10. Served(Members(kern.receivers[q]), Members(kern'.receivers[q]), Comers(call, q, Gets), t,
                  queue[q].waiting, queue'[q].waiting)
      BY <3>4, <3>9 DEF Served
    <3>11. Served(Members(kern.senders[q]), Members(kern'.senders[q]), Comers(call, q, Puts), t,
                  Length[q] - queue[q].waiting, Length[q] - queue'[q].waiting)
      BY <3>8 DEF Served
    <3>12. \E d : call' = [call EXCEPT ![t] = d] /\ d.pc \in {"run", "suspend"}
      BY <3>1, DoneServes
    <3> QED  BY <3>5, <3>6, <3>7, <3>10, <3>11, <3>12 DEF Serves
  <2> QED  BY <2>1, <2>2
<1>4. ASSUME AttemptReceive(t, c), c.op \in Gets
      PROVE  Serves(t, c, q)
  <2>1. CASE NotYet(t, c) /\ IsEmpty(q)
    BY <1>0, <1>2, <1>4, <2>1, NotYetServes DEF IsEmpty
  <2>2. CASE ~(NotYet(t, c) /\ IsEmpty(q))
    <3>1. /\ kern' = WakeAndYield(kern, kern.senders[q])
          /\ Done(t, c, queue[q].buf[ReadPosition(q, queue[q])])
          /\ queue' = [queue EXCEPT ![q] = Taken(q, queue[q], t)]
          /\ n # 0
      BY <1>4, <2>2 DEF AttemptReceive, IsEmpty
    <3>2. /\ Moves(kern, kern')
          /\ Members(kern.senders[q]) # {} =>
               \E h \in Members(kern.senders[q]) : h \notin Members(kern'.senders[q])
      BY <1>0, <3>1, WokenHead
    <3>3. Fewer(kern, kern')
      BY <3>2 DEF Moves
    <3>4. /\ \A p \in Queue \ {q} : queue'[p] = queue[p]
          /\ queue'[q] = Taken(q, queue[q], t)
      BY <1>0, <3>1
    <3>5. /\ queue'[q].waiting = n - 1
          /\ queue'[q].txLock = queue[q].txLock /\ queue'[q].rxLock = queue[q].rxLock
      BY <1>0, <3>4, TakenFields
    <3>6. queue'[q].waiting + 1 <= n
      BY <1>1, <3>5
    <3>7. Length[q] - queue'[q].waiting <= room + (IF t \in Comers(call, q, Puts) THEN 0 ELSE 1)
      BY <1>1, <1>2, <1>4, <3>5
    <3>8. Served(Members(kern.receivers[q]), Members(kern'.receivers[q]), Comers(call, q, Gets), t,
                 queue[q].waiting, queue'[q].waiting)
      BY <3>6 DEF Served
    <3>9. Served(Members(kern.senders[q]), Members(kern'.senders[q]), Comers(call, q, Puts), t,
                 Length[q] - queue[q].waiting, Length[q] - queue'[q].waiting)
      BY <3>2, <3>7 DEF Served
    <3>10. \E d : call' = [call EXCEPT ![t] = d] /\ d.pc \in {"run", "suspend"}
      BY <3>1, DoneServes
    <3> QED  BY <3>3, <3>4, <3>5, <3>8, <3>9, <3>10 DEF Serves
  <2> QED  BY <2>1, <2>2
<1>5. ASSUME AttemptPeek(t, c), c.op \in Gets
      PROVE  Serves(t, c, q)
  <2>1. CASE NotYet(t, c) /\ IsEmpty(q)
    BY <1>0, <1>2, <1>5, <2>1, NotYetServes DEF IsEmpty
  <2>2. CASE ~(NotYet(t, c) /\ IsEmpty(q))
    <3>1. /\ kern' = WakeAndYield(kern, kern.receivers[q])
          /\ Done(t, c, queue[q].buf[ReadPosition(q, queue[q])])
          /\ queue' = queue
      BY <1>5, <2>2 DEF AttemptPeek
    <3>2. /\ Moves(kern, kern')
          /\ Members(kern.receivers[q]) # {} =>
               \E h \in Members(kern.receivers[q]) : h \notin Members(kern'.receivers[q])
      BY <1>0, <3>1, WokenHead
    <3>3. Fewer(kern, kern')
      BY <3>2 DEF Moves
    <3>4. queue[q].waiting <= n + (IF t \in Comers(call, q, Gets) THEN 0 ELSE 1)
      BY <1>1
    <3>5. Length[q] - queue[q].waiting <= room /\ t \notin Comers(call, q, Puts)
      BY <1>1, <1>2, <1>5
    <3>6. Served(Members(kern.receivers[q]), Members(kern'.receivers[q]), Comers(call, q, Gets), t,
                 queue[q].waiting, queue'[q].waiting)
      BY <3>1, <3>2, <3>4 DEF Served
    <3>7. Served(Members(kern.senders[q]), Members(kern'.senders[q]), Comers(call, q, Puts), t,
                 Length[q] - queue[q].waiting, Length[q] - queue'[q].waiting)
      BY <3>1, <3>5 DEF Served
    <3>8. \E d : call' = [call EXCEPT ![t] = d] /\ d.pc \in {"run", "suspend"}
      BY <3>1, DoneServes
    <3> QED  BY <3>1, <3>3, <3>6, <3>7, <3>8 DEF Serves
  <2> QED  BY <2>1, <2>2
<1>6. \/ \E position : AttemptSend(t, c, position) /\ c.op \in Puts
      \/ AttemptReceive(t, c) /\ c.op \in Gets
      \/ AttemptPeek(t, c) /\ c.op \in Gets
  BY DEF Attempt, Gets, Puts
<1> QED  BY <1>3, <1>4, <1>5, <1>6

LEMMA ServesWakes ==
  ASSUME KInv, KInv', Waking(kern, queue, call), NEW t \in Task, t = kern.current,
         t \in Rd(kern), NEW c, c.q \in Queue, call[t].pc = "run" \/ call[t] = c,
         Serves(t, c, c.q)
  PROVE  Waking(kern', queue', call')
<1>1. PICK d : call' = [call EXCEPT ![t] = d] /\ d.pc \in {"run", "suspend"}
  BY DEF Serves
<1>2. /\ d.pc \notin {"check", "place"}
      /\ \A q, ops : ~Placing(call', q, ops)
      /\ \A v \in Task : call'[v].pc \notin {"check", "place"}
      /\ \A v \in Task : call'[v] = IF v = t THEN d ELSE call[v]
  <2>1. d.pc # "place" /\ d.pc # "check"
    BY <1>1
  <2>2. \A v \in Task : call'[v] = IF v = t THEN d ELSE call[v]
    BY <1>1 DEF KInv
  <2> QED  BY <1>1, <2>1, <2>2, NonePlacing
<1>3. Fewer(kern, kern')
  BY DEF Serves
<1>4. ASSUME NEW q \in Queue, q # c.q PROVE WakingAt(kern', queue', call', q)
  <2>1. WakingAt(kern, queue, call, q) /\ queue'[q] = queue[q]
    BY <1>4 DEF Waking, Serves
  <2>2. \A ops : ~Coming(call[t], q, ops)
    BY <1>4 DEF Coming, RetryPc
  <2>3. Stays(call[t], d, q)
    BY <1>2, <2>2 DEF Stays
  <2>4. \A v \in Task : call'[v] = call[v] \/ Stays(call[v], call'[v], q)
    BY <1>2, <2>3
  <2> QED  BY <1>3, <2>1, <2>4, QuietAt DEF Fewer
<1>5. WakingAt(kern', queue', call', c.q)
  <2> DEFINE q == c.q
  <2>1. /\ q \in Queue /\ WakingAt(kern, queue, call, q)
        /\ queue'[q].txLock = queue[q].txLock /\ queue'[q].rxLock = queue[q].rxLock
        /\ Served(Members(kern.receivers[q]), Members(kern'.receivers[q]), Comers(call, q, Gets), t,
                  queue[q].waiting, queue'[q].waiting)
        /\ Served(Members(kern.senders[q]), Members(kern'.senders[q]), Comers(call, q, Puts), t,
                  Length[q] - queue[q].waiting, Length[q] - queue'[q].waiting)
    BY DEF Waking, Serves
  <2> HIDE DEF q
  <2>2. t \notin Members(kern.receivers[q]) /\ t \notin Members(kern.senders[q])
    BY <2>1 DEF KInv, KOk, OneList, InEvent
  <2>3. \A ops : Comers(call, q, ops) \ {t} \subseteq Comers(call', q, ops)
    BY <1>1, Movers
  <2>4. Guarded(queue', call', q)
    BY <1>2, <2>1 DEF WakingAt, Guarded
  <2>5. GetSide(kern', queue', call', q)
    BY <1>2, <1>3, <2>1, <2>2, <2>3, GetServed
  <2>6. PutSide(kern', queue', call', q)
    BY <1>2, <1>3, <2>1, <2>2, <2>3, PutServed
  <2> QED  BY <2>4, <2>5, <2>6 DEF WakingAt, q
<1> QED  BY <1>4, <1>5 DEF Waking

\* A call on a queue.
LEMMA CallsWakes ==
  ASSUME KInv, KInv', Waking(kern, queue, call), NEW t \in Caller,
         NEW op \in {"send", "sendFront", "receive", "peek"},
         NEW q \in Queue, NEW ticks, NEW x \in Item \cup {None},
         Kind[q] = "queue" /\ op \in {"send", "sendFront"} => x \in Item,
         op \in {"send", "sendFront"} /\ Kind[q] = "mutex" => queue[q].holder = t,
         Calls(t, op, q, ticks, x)
  PROVE  Waking(kern', queue', call')
<1> DEFINE c == [NoCall EXCEPT !.op = op, !.q = q, !.ticks = ticks, !.item = x]
<1>1. Running(t, "run") /\ <<op, q, ticks>> \in May[t] /\ Attempt(t, c)
  BY DEF Calls
<1>2. t \in Task /\ t = kern.current /\ call[t].pc = "run" /\ t \in Rd(kern)
  BY <1>1, AtRun
<1>3. ticks \in 0..MaxDelay
  BY <1>1, <1>2, CallTicks
<1>4. c \in CallRec /\ c.op = op /\ c.q = q /\ c.item = x
  <2>1. NoCall \in CallRec /\ NoCall.pc = "run"
    BY NoCallOK
  <2> QED  BY <1>3, <2>1 DEF CallRec
<1> HIDE DEF c
<1>5. Calling(c)
  BY <1>4 DEF Calling
<1>6. Serves(t, c, c.q)
  BY <1>1, <1>2, <1>4, <1>5, AttemptServes
<1> QED  BY <1>2, <1>4, <1>6, ServesWakes

\* The calls of a task.
LEMMA UserCallWakes ==
  ASSUME KInv, KInv', Waking(kern, queue, call), NEW t \in Caller, UserCall(t)
  PROVE  Waking(kern', queue', call')
<1>1. ASSUME NEW q \in Queue, NEW ticks, NEW x \in Item,
             csp_queue_enqueue(t, q, x, ticks) \/ xQueueSendToFront(t, q, x, ticks)
      PROVE  Waking(kern', queue', call')
  <2>1. Kind[q] = "queue" /\ (Calls(t, "send", q, ticks, x) \/ Calls(t, "sendFront", q, ticks, x))
    BY <1>1 DEF csp_queue_enqueue, xQueueSendToFront
  <2> QED  BY <2>1, CallsWakes
<1>2. ASSUME NEW q \in Queue, NEW ticks,
             \/ csp_queue_dequeue(t, q, ticks) \/ xQueuePeek(t, q, ticks)
             \/ csp_bin_sem_wait(t, q, ticks)
      PROVE  Waking(kern', queue', call')
  <2>1. Calls(t, "receive", q, ticks, None) \/ Calls(t, "peek", q, ticks, None)
    BY <1>2 DEF csp_queue_dequeue, xQueuePeek, csp_bin_sem_wait
  <2> QED  BY <2>1, CallsWakes
<1>3. ASSUME NEW q \in Queue, csp_bin_sem_post(t, q) PROVE Waking(kern', queue', call')
  <2> DEFINE n == 0
  <2>1. Calls(t, "send", q, n, None)
    BY <1>3 DEF csp_bin_sem_post
  <2>2. Kind[q] # "queue" /\ (Kind[q] = "mutex" => queue[q].holder = t)
    BY <1>3 DEF csp_bin_sem_post
  <2> HIDE DEF n
  <2> QED  BY <2>1, <2>2, CallsWakes
<1> QED  BY <1>1, <1>2, <1>3, YieldCallWakes, DelayCallWakes, CreateWakes, DeleteWakes DEF UserCall

\* A second attempt.
LEMMA RetryWakes ==
  ASSUME KInv, KInv', Waking(kern, queue, call), NEW t \in Caller, Retry(t)
  PROVE  Waking(kern', queue', call')
<1>1. Running(t, "try") /\ Attempt(t, call[t]) /\ t \in Task
  BY DEF Retry, Caller
<1>2. /\ t = kern.current /\ call[t].pc = "try" /\ call[t] \in CallRec /\ InShape(call[t])
      /\ t \in Rd(kern) \/ Going(call[t])
      /\ call[t].pc \in InCallPc \ {"resume", "yield"} => Calling(call[t])
  BY <1>1, AtPoint
<1>3. Calling(call[t]) /\ t \in Rd(kern)
  BY <1>2 DEF InCallPc, Going
<1>4. call[t].op \in {"send", "sendFront"} => Kind[call[t].q] # "mutex"
  BY <1>2 DEF InShape, InCallPc
<1>5. Serves(t, call[t], call[t].q)
  BY <1>1, <1>2, <1>3, <1>4, AttemptServes
<1> QED  BY <1>1, <1>2, <1>3, <1>5, ServesWakes DEF Calling

\* A step of the running task in its call c on q, after which it has not begun to wait:
\* the other queues are left alone.
LEMMA OtherQueues ==
  ASSUME KInv, Waking(kern, queue, call), NEW t \in Task, NEW d, call' = [call EXCEPT ![t] = d],
         NEW q, call[t].q = q, d.q = q,
         \A p \in Queue \ {q} : /\ queue'[p] = queue[p]
                                /\ Members(kern'.receivers[p]) \subseteq Members(kern.receivers[p])
                                /\ Members(kern'.senders[p]) \subseteq Members(kern.senders[p])
  PROVE  \A p \in Queue \ {q} : WakingAt(kern', queue', call', p)
<1>1. SUFFICES ASSUME NEW p \in Queue \ {q} PROVE WakingAt(kern', queue', call', p)
  OBVIOUS
<1>2. \A v \in Task : call'[v] = IF v = t THEN d ELSE call[v]
  BY DEF KInv
<1>3. Stays(call[t], d, p)
  BY DEF Stays, Coming
<1>4. \A v \in Task : call'[v] = call[v] \/ Stays(call[v], call'[v], p)
  BY <1>2, <1>3
<1>5. WakingAt(kern, queue, call, p)
  BY DEF Waking
<1> QED  BY <1>4, <1>5, QuietAt

\* The queue is locked.
LEMMA LockWakes ==
  ASSUME KInv, KInv', Waking(kern, queue, call), NEW t \in Caller, prvLockQueue(t)
  PROVE  Waking(kern', queue', call')
<1> DEFINE q == call[t].q
<1>1. Running(t, "lock") /\ GoTo(t, "check") /\ kern' = kern /\ t \in Task
  BY DEF prvLockQueue, Caller
<1>2. /\ t = kern.current /\ call[t].pc = "lock"
      /\ call[t].pc \in InCallPc \ {"resume", "yield"} => Calling(call[t])
  BY <1>1, AtPoint
<1>3. q \in Queue /\ queue = [p \in Queue |-> queue[p]] /\ queue[q] \in QueueRec(q)
  <2>1. q \in Queue
    BY <1>2 DEF Calling, InCallPc
  <2> QED  BY <2>1 DEF KInv, IInv, Queues, Good
<1>4. "check" \in Pc
  BY DEF Pc
<1>5. PICK c \in CallRec : call' = [call EXCEPT ![t] = c] /\ c.pc = "check" /\ c.q = q
  BY <1>1, <1>4, NextPoint
<1>6. /\ \A p \in Queue \ {q} : queue'[p] = queue[p]
      /\ queue'[q].waiting = queue[q].waiting
      /\ queue'[q].txLock = IF queue[q].txLock = -1 THEN 0 ELSE queue[q].txLock
      /\ queue'[q].rxLock = IF queue[q].rxLock = -1 THEN 0 ELSE queue[q].rxLock
  BY <1>3 DEF prvLockQueue, queueUNLOCKED, queueLOCKED_UNMODIFIED, QueueRec
<1>7. \A p \in Queue \ {q} : WakingAt(kern', queue', call', p)
  BY <1>1, <1>5, <1>6, OtherQueues
<1> HIDE DEF q
<1>8. WakingAt(kern', queue', call', q)
  <2>1. WakingAt(kern, queue, call, q)
    BY <1>3 DEF Waking
  <2>2. /\ queue[q].waiting \in Nat /\ Length[q] - queue[q].waiting \in Nat
        /\ queue[q].txLock \in Int /\ queue[q].rxLock \in Int
        /\ queue[q].txLock >= -1 /\ queue[q].rxLock >= -1
    BY <1>3, <2>1, Numbers DEF WakingAt, Guarded
  <2>3. /\ queue'[q].txLock >= -1 /\ queue'[q].txLock # -1
        /\ queue'[q].rxLock >= -1 /\ queue'[q].rxLock # -1
        /\ Pending(queue'[q].txLock) = Pending(queue[q].txLock)
        /\ Pending(queue'[q].rxLock) = Pending(queue[q].rxLock)
    BY <1>6, <2>2 DEF Pending, queueUNLOCKED
  <2>4. Guarded(queue', call', q)
    BY <2>3 DEF Guarded
  <2>5. \A ops : ~Placing(call', q, ops) /\ Comers(call, q, ops) \subseteq Comers(call', q, ops)
    <3>1. \A ops : ~Coming(call[t], q, ops)
      BY <1>2 DEF Coming, RetryPc
    <3>2. c.pc # "place"
      BY <1>5
    <3> QED  BY <1>1, <1>2, <1>5, <3>1, <3>2, NonePlacing, Movers
  <2>6. /\ queue'[q].waiting + Pending(queue[q].txLock)
             <= queue[q].waiting + Pending(queue'[q].txLock)
        /\ Length[q] - queue'[q].waiting + Pending(queue[q].rxLock)
             <= Length[q] - queue[q].waiting + Pending(queue'[q].rxLock)
    <3>1. Pending(queue[q].txLock) \in Nat /\ Pending(queue[q].rxLock) \in Nat
      BY <2>2, PendingNat
    <3>2. queue'[q].waiting = queue[q].waiting
      BY <1>6
    <3> QED  BY <2>2, <2>3, <3>1, <3>2
  <2>7. GetSide(kern', queue', call', q)
    BY <1>1, <1>3, <2>1, <2>3, <2>5, <2>6, GetStays
  <2>8. PutSide(kern', queue', call', q)
    BY <1>1, <1>3, <2>1, <2>3, <2>5, <2>6, PutStays
  <2> QED  BY <2>4, <2>7, <2>8 DEF WakingAt
<1> QED  BY <1>7, <1>8 DEF Waking

\* The time and the queue are looked at.
LEMMA CheckWakes ==
  ASSUME KInv, KInv', Waking(kern, queue, call), NEW t \in Caller, Check(t)
  PROVE  Waking(kern', queue', call')
<1> DEFINE q == call[t].q
<1>1. Running(t, "check") /\ kern' = kern /\ queue' = queue /\ t \in Task
  BY DEF Check, Caller
<1>2. /\ t = kern.current /\ call[t].pc = "check" /\ call[t] \in CallRec
      /\ call \in [Task -> CallRec]
      /\ call[t].pc \in InCallPc \ {"resume", "yield"} => Calling(call[t])
  BY <1>1, AtPoint
<1>3. q \in Queue
  BY <1>2 DEF Calling, InCallPc
<1>4. PICK d : /\ call' = [call EXCEPT ![t] = d] /\ d.q = q /\ d.op = call[t].op
               /\ d.pc = "unlockTx" \/ (d.pc = "place" /\ MustWait(t))
  <2> DEFINE c == call[t]
             late == xTaskCheckForTimeOut(kern, c.since, c.ticks)
             ticks == IF c.ticks = MaxDelay THEN c.ticks ELSE c.ticks - Elapsed(kern, c.since)
             since == IF c.ticks = MaxDelay THEN c.since ELSE vTaskSetTimeOutState(kern)
             pc == IF MustWait(t) THEN "place" ELSE "unlockTx"
             then == IF MustWait(t) THEN "yield" ELSE "try"
             d == [c EXCEPT !.pc = "unlockTx", !.then = "fail"]
             e == [c EXCEPT !.ticks = ticks, !.since = since, !.pc = pc, !.then = then]
  <2>1. call' = [call EXCEPT ![t] = IF late THEN d ELSE e]
    BY DEF Check
  <2>2. d.pc = "unlockTx" /\ d.op = c.op /\ d.q = c.q
    BY <1>2 DEF CallRec
  <2>3. pc = "unlockTx" \/ (pc = "place" /\ MustWait(t))
    OBVIOUS
  <2> HIDE DEF late, ticks, since, pc, then
  <2>4. e.pc = pc /\ e.op = c.op /\ e.q = c.q
    BY <1>2 DEF CallRec
  <2> HIDE DEF d, e
  <2> QED  BY <2>1, <2>2, <2>3, <2>4
<1>5. \A p \in Queue \ {q} : WakingAt(kern', queue', call', p)
  BY <1>1, <1>4, OtherQueues
<1>6. \A v \in Task : call'[v] = IF v = t THEN d ELSE call[v]
  BY <1>2, <1>4
<1>7. WakingAt(kern', queue', call', q)
  <2>1. WakingAt(kern, queue, call, q)
    BY <1>3 DEF Waking
  <2>2. /\ queue[q].waiting \in Nat /\ Length[q] - queue[q].waiting \in Nat /\ Length[q] \in Nat
        /\ queue[q].waiting \in 0..Length[q]
        /\ queue[q].txLock \in Int /\ queue[q].rxLock \in Int
        /\ queue[q].txLock >= -1 /\ queue[q].rxLock >= -1
    <3>1. queue[q].waiting \in 0..Length[q]
      BY <1>3 DEF KInv, IInv, Queues, Good, QueueRec
    <3> QED  BY <1>3, <2>1, <3>1, Numbers DEF WakingAt, Guarded
  <2>3. queue[q].txLock # -1 /\ queue[q].rxLock # -1
    BY <1>1, <1>2, <2>1 DEF WakingAt, Guarded
  <2>4. Guarded(queue', call', q)
    BY <1>1, <2>2, <2>3 DEF Guarded
  <2>5. \A ops : Comers(call, q, ops) \subseteq Comers(call', q, ops)
    <3>1. \A ops : ~Coming(call[t], q, ops)
      BY <1>2 DEF Coming, RetryPc
    <3> QED  BY <1>1, <1>4, <3>1, Movers
  <2>6. \A ops : Placing(call', q, ops) => Placing(call, q, ops) \/ (d.pc = "place" /\ d.op \in ops)
    BY <1>6 DEF Placing
  <2>7. /\ d.pc = "place" /\ d.op \in Gets => queue[q].waiting = 0
        /\ d.pc = "place" /\ d.op \in Puts => Length[q] - queue[q].waiting = 0
    <3>1. d.pc = "place" /\ d.op \in Gets => IsEmpty(q)
      BY <1>4 DEF MustWait, Sends, Gets
    <3>2. d.pc = "place" /\ d.op \in Puts => ~Fits(q)
      BY <1>4 DEF MustWait, Sends, Puts
    <3> QED  BY <2>2, <3>1, <3>2 DEF IsEmpty, Fits
  <2>8. /\ queue[q].waiting + Pending(queue[q].txLock)
             <= queue[q].waiting + Pending(queue[q].txLock)
        /\ Length[q] - queue[q].waiting + Pending(queue[q].rxLock)
             <= Length[q] - queue[q].waiting + Pending(queue[q].rxLock)
    <3>1. Pending(queue[q].txLock) \in Nat /\ Pending(queue[q].rxLock) \in Nat
      BY <2>2, PendingNat
    <3> QED  BY <2>2, <3>1
  <2> HIDE DEF q
  <2>9. GetSide(kern', queue', call', q)
    BY <1>1, <1>3, <2>1, <2>2, <2>5, <2>6, <2>7, <2>8, GetStays
  <2>10. PutSide(kern', queue', call', q)
    BY <1>1, <1>3, <2>1, <2>2, <2>5, <2>6, <2>7, <2>8, PutStays
  <2> QED  BY <2>4, <2>9, <2>10 DEF WakingAt
<1> QED  BY <1>5, <1>7 DEF Waking

\* The task goes to sleep.
LEMMA PlaceWakes ==
  ASSUME KInv, KInv', Waking(kern, queue, call), NEW t \in Caller, Place(t)
  PROVE  Waking(kern', queue', call')
<1> DEFINE q == call[t].q
           k == IF Kind[q] = "mutex" THEN vTaskPriorityInherit(kern, queue[q].holder) ELSE kern
           i == IF Sends(t) THEN [k EXCEPT !.senders[q] = ByPriority(k, @)]
                ELSE [k EXCEPT !.receivers[q] = ByPriority(k, @)]
<1>1. /\ Running(t, "place") /\ GoTo(t, "unlockTx") /\ kern' = BlockCurrent(i, call[t].ticks)
      /\ queue' = queue /\ t \in Task
  BY DEF Place, Caller
<1>2. /\ t = kern.current /\ call[t].pc = "place" /\ call[t] \in CallRec /\ InShape(call[t])
      /\ KOk(kern)
      /\ t \in Rd(kern) \/ Going(call[t])
      /\ call[t].pc \in InCallPc \ {"resume", "yield"} => Calling(call[t])
  BY <1>1, AtPoint
<1>3. /\ t \in Rd(kern) /\ q \in Queue /\ call[t].then = "yield"
      /\ call[t].ticks \in 0..MaxDelay /\ call[t].op \in Gets \cup Puts
  BY <1>2 DEF Going, InCallPc, Calling, InShape, CallRec, Gets, Puts
<1>4. SamePlaces(kern, k)
  <2>1. CASE Kind[q] = "mutex"
    <3>1. queue[q].holder \in Task \cup {None}
      BY <1>3 DEF KInv, IInv, Queues, Good, QueueRec
    <3> QED  BY <1>2, <2>1, <3>1, InheritOK DEF KInv
  <2>2. CASE Kind[q] # "mutex"
    BY <2>2 DEF KInv, SamePlaces, SameRest, SameEvents
  <2> QED  BY <2>1, <2>2
<1>5. /\ KOk(k) /\ k.current = t /\ k.current \in Rd(k)
      /\ k.senders = kern.senders /\ k.receivers = kern.receivers
  BY <1>2, <1>3, <1>4 DEF SamePlaces, SameRest, SameEvents
<1>6. /\ call[t].op \in Puts => i = [k EXCEPT !.senders[q] = ByPriority(k, @)]
      /\ call[t].op \in Gets => i = [k EXCEPT !.receivers[q] = ByPriority(k, @)]
  BY DEF Sends, Puts, Gets
<1> HIDE DEF k
<1> HIDE DEF i
<1>7. /\ call[t].op \in Puts => /\ Joins(kern.senders, kern'.senders, q, t)
                                /\ kern'.receivers = kern.receivers
      /\ call[t].op \in Gets => /\ Joins(kern.receivers, kern'.receivers, q, t)
                                /\ kern'.senders = kern.senders
  <2> DEFINE w == call[t].ticks
  <2>1. w \in 0..MaxDelay /\ kern' = BlockCurrent(i, w)
    BY <1>1, <1>3
  <2> HIDE DEF w, q
  <2>2. ASSUME i = [k EXCEPT !.senders[q] = ByPriority(k, @)]
        PROVE  Joins(k.senders, kern'.senders, q, t) /\ kern'.receivers = k.receivers
    BY <1>3, <1>5, <2>1, <2>2, BlockOK
  <2>3. ASSUME i = [k EXCEPT !.receivers[q] = ByPriority(k, @)]
        PROVE  Joins(k.receivers, kern'.receivers, q, t) /\ kern'.senders = k.senders
    BY <1>3, <1>5, <2>1, <2>3, BlockOK
  <2> QED  BY <1>5, <1>6, <2>2, <2>3
<1>8. "unlockTx" \in Pc
  BY DEF Pc
<1>9. PICK c \in CallRec : /\ call' = [call EXCEPT ![t] = c] /\ c.pc = "unlockTx"
                           /\ c.then = "yield" /\ c.q = q /\ c.op = call[t].op
  BY <1>1, <1>3, <1>8, NextPoint
<1>10. \A p \in Queue \ {q} : WakingAt(kern', queue', call', p)
  <2>1. \A p \in Queue \ {q} : /\ Members(kern'.receivers[p]) \subseteq Members(kern.receivers[p])
                               /\ Members(kern'.senders[p]) \subseteq Members(kern.senders[p])
    BY <1>3, <1>7 DEF Joins
  <2> QED  BY <1>1, <1>9, <2>1, OtherQueues
<1> HIDE DEF q
<1>11. WakingAt(kern', queue', call', q)
  <2>1. WakingAt(kern, queue, call, q)
    BY <1>3 DEF Waking
  <2>2. /\ queue[q].waiting \in Nat /\ Length[q] - queue[q].waiting \in Nat
        /\ queue[q].txLock \in Int /\ queue[q].rxLock \in Int
        /\ queue[q].txLock >= -1 /\ queue[q].rxLock >= -1
    BY <1>3, <2>1, Numbers DEF WakingAt, Guarded
  <2>3. /\ \A ops : /\ ~Placing(call', q, ops)
                    /\ Comers(call, q, ops) \subseteq Comers(call', q, ops)
                    /\ Comers(call, q, ops) \in SUBSET Task /\ Comers(call', q, ops) \in SUBSET Task
                    /\ call[t].op \in ops => t \in Comers(call', q, ops) /\ Placing(call, q, ops)
        /\ \A v \in Task : call'[v].pc \notin {"check", "place"}
    <3>1. \A ops : ~Coming(call[t], q, ops)
      BY <1>2 DEF Coming, RetryPc
    <3>2. c.pc # "place" /\ c.pc # "check"
      BY <1>9
    <3>3. \A ops : call[t].op \in ops => Coming(c, q, ops)
      BY <1>9 DEF Coming, RetryPc
    <3>4. \A ops : call[t].op \in ops => Placing(call, q, ops)
      BY <1>1, <1>2 DEF Placing, q
    <3>5. \A ops : /\ Comers(call, q, ops) \subseteq Comers(call', q, ops)
                   /\ Comers(call, q, ops) \in SUBSET Task /\ Comers(call', q, ops) \in SUBSET Task
                   /\ call[t].op \in ops => t \in Comers(call', q, ops)
      BY <1>1, <1>9, <3>1, <3>3, Movers
    <3> QED  BY <1>1, <1>2, <1>9, <3>2, <3>4, <3>5, NonePlacing
  <2>4. Guarded(queue', call', q)
    BY <1>1, <2>2, <2>3 DEF Guarded
  <2>5. /\ queue[q].waiting + Pending(queue[q].txLock)
             <= queue[q].waiting + Pending(queue[q].txLock)
        /\ Length[q] - queue[q].waiting + Pending(queue[q].rxLock)
             <= Length[q] - queue[q].waiting + Pending(queue[q].rxLock)
    <3>1. Pending(queue[q].txLock) \in Nat /\ Pending(queue[q].rxLock) \in Nat
      BY <2>2, PendingNat
    <3> QED  BY <2>2, <3>1
  <2>6. ASSUME kern'.receivers = kern.receivers PROVE GetSide(kern', queue', call', q)
    BY <1>1, <1>3, <2>1, <2>2, <2>3, <2>5, <2>6, GetStays
  <2>7. ASSUME kern'.senders = kern.senders PROVE PutSide(kern', queue', call', q)
    BY <1>1, <1>3, <2>1, <2>2, <2>3, <2>5, <2>7, PutStays
  <2>8. ASSUME call[t].op \in Gets, Joins(kern.receivers, kern'.receivers, q, t)
        PROVE  GetSide(kern', queue', call', q)
    <3> DEFINE E == Members(kern.receivers[q])
               F == Members(kern'.receivers[q])
               S == Comers(call, q, Gets)
               T == Comers(call', q, Gets)
               n == queue[q].waiting
               l == queue[q].txLock
               p == Placing(call, q, Gets)
               r == Placing(call', q, Gets)
    <3>1. n \in Nat /\ l \in Int /\ l >= -1 /\ S \in SUBSET Task /\ T \in SUBSET Task
      BY <2>2, <2>3
    <3>2. Side(E, S, n, l, p) /\ p /\ ~r
      BY <2>1, <2>3, <2>8 DEF WakingAt, GetSide
    <3>3. F = E \cup {t}
      BY <1>3, <2>8 DEF Joins
    <3>4. F \subseteq T
      BY <2>3, <2>8, <3>2, <3>3 DEF Side
    <3>5. GetSide(kern', queue', call', q) <=> Side(F, T, n, l, r)
      BY <1>1 DEF GetSide
    <3> HIDE DEF E, F, S, T, n, l, p, r
    <3> QED  BY <3>1, <3>2, <3>4, <3>5, SidePlaced
  <2>9. ASSUME call[t].op \in Puts, Joins(kern.senders, kern'.senders, q, t)
        PROVE  PutSide(kern', queue', call', q)
    <3> DEFINE E == Members(kern.senders[q])
               F == Members(kern'.senders[q])
               S == Comers(call, q, Puts)
               T == Comers(call', q, Puts)
               n == Length[q] - queue[q].waiting
               l == queue[q].rxLock
               p == Placing(call, q, Puts)
               r == Placing(call', q, Puts)
    <3>1. n \in Nat /\ l \in Int /\ l >= -1 /\ S \in SUBSET Task /\ T \in SUBSET Task
      BY <2>2, <2>3
    <3>2. Side(E, S, n, l, p) /\ p /\ ~r
      BY <2>1, <2>3, <2>9 DEF WakingAt, PutSide
    <3>3. F = E \cup {t}
      BY <1>3, <2>9 DEF Joins
    <3>4. F \subseteq T
      BY <2>3, <2>9, <3>2, <3>3 DEF Side
    <3>5. PutSide(kern', queue', call', q) <=> Side(F, T, n, l, r)
      BY <1>1 DEF PutSide
    <3> HIDE DEF E, F, S, T, n, l, p, r
    <3> QED  BY <3>1, <3>2, <3>4, <3>5, SidePlaced
  <2> QED  BY <1>3, <1>7, <2>4, <2>6, <2>7, <2>8, <2>9 DEF WakingAt
<1> QED  BY <1>10, <1>11 DEF Waking

\* The queue is unlocked, in two steps: what they have in common.
LEMMA UnlockAt ==
  ASSUME KInv, NEW t \in Caller, NEW pc \in {"unlockTx", "unlockRx"}, Running(t, pc),
         NEW next \in {"unlockRx", "resume"}, GoTo(t, next)
  PROVE  LET q == call[t].q
         IN  /\ q \in Queue /\ KOk(kern) /\ kern.suspended = 1 /\ queue[q] \in QueueRec(q)
             /\ queue = [p \in Queue |-> queue[p]]
             /\ \E c \in CallRec : call' = [call EXCEPT ![t] = c] /\ c.q = q
             /\ \A ops : /\ ~Placing(call', q, ops)
                         /\ Comers(call, q, ops) \subseteq Comers(call', q, ops)
             /\ \A v \in Task : call'[v].pc \notin {"check", "place"}
<1> DEFINE q == call[t].q
<1>1. t \in Task
  BY DEF Caller
<1>2. /\ t = kern.current /\ call[t].pc = pc /\ KOk(kern)
      /\ pc \in Held => kern.suspended = 1
      /\ call[t].pc \in InCallPc \ {"resume", "yield"} => Calling(call[t])
  BY <1>1, AtPoint
<1>3. kern.suspended = 1 /\ q \in Queue
  BY <1>2 DEF Held, InCallPc, Calling
<1>4. queue = [p \in Queue |-> queue[p]] /\ queue[q] \in QueueRec(q)
  BY <1>3 DEF KInv, IInv, Queues, Good
<1>5. next \in Pc
  BY DEF Pc
<1>6. PICK c \in CallRec : /\ call' = [call EXCEPT ![t] = c] /\ c.pc = next /\ c.q = q
                           /\ c.op = call[t].op /\ c.then = call[t].then
  BY <1>1, <1>5, NextPoint
<1>7. \A ops : Coming(call[t], q, ops) => Coming(c, q, ops)
  BY <1>6 DEF Coming, RetryPc
<1>8. c.pc # "place" /\ c.pc # "check"
  BY <1>6
<1>9. \A ops : Comers(call, q, ops) \subseteq Comers(call', q, ops)
  BY <1>1, <1>6, <1>7, Movers
<1>10. /\ \A ops : ~Placing(call', q, ops)
       /\ \A v \in Task : call'[v].pc \notin {"check", "place"}
  BY <1>1, <1>2, <1>6, <1>8, NonePlacing
<1> QED  BY <1>2, <1>3, <1>4, <1>6, <1>9, <1>10

LEMMA UnlockWakes ==
  ASSUME KInv, KInv', Waking(kern, queue, call), NEW t \in Caller, Unlock(t)
  PROVE  Waking(kern', queue', call')
<1> DEFINE q == call[t].q
<1>1. /\ Running(t, "unlockTx") /\ GoTo(t, "unlockRx") /\ t \in Task
      /\ kern' = WakeUpTo(kern, queue[q].txLock, kern.receivers[q])
      /\ queue' = [queue EXCEPT ![q].txLock = queueUNLOCKED]
  BY DEF Unlock, Caller
<1>2. /\ q \in Queue /\ KOk(kern) /\ kern.suspended = 1 /\ queue[q] \in QueueRec(q)
      /\ queue = [p \in Queue |-> queue[p]]
      /\ \E c \in CallRec : call' = [call EXCEPT ![t] = c] /\ c.q = q
      /\ \A ops : /\ ~Placing(call', q, ops)
                  /\ Comers(call, q, ops) \subseteq Comers(call', q, ops)
      /\ \A v \in Task : call'[v].pc \notin {"check", "place"}
  BY <1>1, UnlockAt
<1>3. PICK c \in CallRec : call' = [call EXCEPT ![t] = c] /\ c.q = q
  BY <1>2
<1>4. /\ \A p \in Queue \ {q} : queue'[p] = queue[p]
      /\ queue'[q].waiting = queue[q].waiting
      /\ queue'[q].txLock = queueUNLOCKED /\ queue'[q].rxLock = queue[q].rxLock
  BY <1>1, <1>2 DEF QueueRec
<1>5. /\ Fewer(kern, kern')
      /\ \A y \in 1..Len(kern.receivers[q]) :
           y <= queue[q].txLock => kern.receivers[q][y] \notin Members(kern'.receivers[q])
  <2> DEFINE l == kern.receivers[q]
             n == queue[q].txLock
  <2>1. l \in Lists(Task) /\ Members(l) \subseteq InEvent(kern) /\ n \in Int
    BY <1>2, EventLists, Numbers
  <2>2. \A y \in 1..Len(l) : l[y] \in Task
    BY <2>1 DEF Lists
  <2>3. /\ Calm(kern, WakeUpTo(kern, n, l))
        /\ \A y \in 1..Len(l) : y <= n => l[y] \notin Waiters(WakeUpTo(kern, n, l))
    <3> HIDE DEF l, n
    <3> QED  BY <1>2, <2>1, WakeUpToOK
  <2>4. kern' = WakeUpTo(kern, n, l)
    BY <1>1
  <2>5. \A h \in Task : h \notin Waiters(kern') => h \notin Members(kern'.receivers[q])
    BY <1>2 DEF Waiters
  <2> HIDE DEF l, n
  <2>6. \A y \in 1..Len(l) : y <= n => l[y] \notin Members(kern'.receivers[q])
    BY <2>2, <2>3, <2>4, <2>5
  <2> QED  BY <2>3, <2>4, <2>6 DEF Calm, l, n
<1>6. \A p \in Queue \ {q} : WakingAt(kern', queue', call', p)
  BY <1>1, <1>3, <1>4, <1>5, OtherQueues DEF Fewer
<1> HIDE DEF q
<1>7. WakingAt(kern', queue', call', q)
  <2>1. WakingAt(kern, queue, call, q)
    BY <1>2 DEF Waking
  <2>2. /\ queue[q].waiting \in Nat /\ Length[q] - queue[q].waiting \in Nat
        /\ queue[q].txLock \in Int /\ queue[q].rxLock \in Int
        /\ queue[q].txLock >= -1 /\ queue[q].rxLock >= -1
    BY <1>2, <2>1, Numbers DEF WakingAt, Guarded
  <2>3. Guarded(queue', call', q)
    BY <1>2, <1>4, <2>2 DEF Guarded, queueUNLOCKED
  <2>4. Length[q] - queue'[q].waiting + Pending(queue[q].rxLock)
          <= Length[q] - queue[q].waiting + Pending(queue'[q].rxLock)
    <3>1. Pending(queue[q].rxLock) \in Nat
      BY <2>2, PendingNat
    <3> QED  BY <1>4, <2>2, <3>1
  <2>5. PutSide(kern', queue', call', q)
    BY <1>2, <1>4, <1>5, <2>1, <2>2, <2>4, PutStays DEF Fewer
  <2>6. GetSide(kern', queue', call', q)
    <3> DEFINE l == kern.receivers[q]
               F == Members(kern'.receivers[q])
               S == Comers(call, q, Gets)
               T == Comers(call', q, Gets)
               n == queue[q].waiting
               lock == queue[q].txLock
               p == Placing(call, q, Gets)
               r == Placing(call', q, Gets)
    <3>1. n \in Nat /\ lock \in Int /\ lock >= -1 /\ S \in SUBSET Task /\ T \in SUBSET Task
      BY <2>2 DEF Comers
    <3>2. Side(Members(l), S, n, lock, p) /\ ~r /\ S \subseteq T
      BY <1>2, <2>1 DEF WakingAt, GetSide
    <3>3. /\ l \in Lists(Task) /\ F \subseteq Members(l)
          /\ \A y \in 1..Len(l) : y <= lock => l[y] \notin F
      BY <1>2, <1>5, EventLists DEF Fewer
    <3>4. GetSide(kern', queue', call', q) <=> Side(F, T, n, queueUNLOCKED, r)
      BY <1>4 DEF GetSide
    <3> HIDE DEF l, F, S, T, n, lock, p, r
    <3> QED  BY <3>1, <3>2, <3>3, <3>4, SideUnlocked
  <2> QED  BY <2>3, <2>5, <2>6 DEF WakingAt
<1> QED  BY <1>6, <1>7 DEF Waking

LEMMA UnlockRxWakes ==
  ASSUME KInv, KInv', Waking(kern, queue, call), NEW t \in Caller, UnlockRx(t)
  PROVE  Waking(kern', queue', call')
<1> DEFINE q == call[t].q
<1>1. /\ Running(t, "unlockRx") /\ GoTo(t, "resume") /\ t \in Task
      /\ kern' = WakeUpTo(kern, queue[q].rxLock, kern.senders[q])
      /\ queue' = [queue EXCEPT ![q].rxLock = queueUNLOCKED]
  BY DEF UnlockRx, Caller
<1>2. /\ q \in Queue /\ KOk(kern) /\ kern.suspended = 1 /\ queue[q] \in QueueRec(q)
      /\ queue = [p \in Queue |-> queue[p]]
      /\ \E c \in CallRec : call' = [call EXCEPT ![t] = c] /\ c.q = q
      /\ \A ops : /\ ~Placing(call', q, ops)
                  /\ Comers(call, q, ops) \subseteq Comers(call', q, ops)
      /\ \A v \in Task : call'[v].pc \notin {"check", "place"}
  BY <1>1, UnlockAt
<1>3. PICK c \in CallRec : call' = [call EXCEPT ![t] = c] /\ c.q = q
  BY <1>2
<1>4. /\ \A p \in Queue \ {q} : queue'[p] = queue[p]
      /\ queue'[q].waiting = queue[q].waiting
      /\ queue'[q].rxLock = queueUNLOCKED /\ queue'[q].txLock = queue[q].txLock
  BY <1>1, <1>2 DEF QueueRec
<1>5. /\ Fewer(kern, kern')
      /\ \A y \in 1..Len(kern.senders[q]) :
           y <= queue[q].rxLock => kern.senders[q][y] \notin Members(kern'.senders[q])
  <2> DEFINE l == kern.senders[q]
             n == queue[q].rxLock
  <2>1. l \in Lists(Task) /\ Members(l) \subseteq InEvent(kern) /\ n \in Int
    BY <1>2, EventLists, Numbers
  <2>2. \A y \in 1..Len(l) : l[y] \in Task
    BY <2>1 DEF Lists
  <2>3. /\ Calm(kern, WakeUpTo(kern, n, l))
        /\ \A y \in 1..Len(l) : y <= n => l[y] \notin Waiters(WakeUpTo(kern, n, l))
    <3> HIDE DEF l, n
    <3> QED  BY <1>2, <2>1, WakeUpToOK
  <2>4. kern' = WakeUpTo(kern, n, l)
    BY <1>1
  <2>5. \A h \in Task : h \notin Waiters(kern') => h \notin Members(kern'.senders[q])
    BY <1>2 DEF Waiters
  <2> HIDE DEF l, n
  <2>6. \A y \in 1..Len(l) : y <= n => l[y] \notin Members(kern'.senders[q])
    BY <2>2, <2>3, <2>4, <2>5
  <2> QED  BY <2>3, <2>4, <2>6 DEF Calm, l, n
<1>6. \A p \in Queue \ {q} : WakingAt(kern', queue', call', p)
  BY <1>1, <1>3, <1>4, <1>5, OtherQueues DEF Fewer
<1> HIDE DEF q
<1>7. WakingAt(kern', queue', call', q)
  <2>1. WakingAt(kern, queue, call, q)
    BY <1>2 DEF Waking
  <2>2. /\ queue[q].waiting \in Nat /\ Length[q] - queue[q].waiting \in Nat
        /\ queue[q].txLock \in Int /\ queue[q].rxLock \in Int
        /\ queue[q].txLock >= -1 /\ queue[q].rxLock >= -1
    BY <1>2, <2>1, Numbers DEF WakingAt, Guarded
  <2>3. Guarded(queue', call', q)
    BY <1>2, <1>4, <2>2 DEF Guarded, queueUNLOCKED
  <2>4. queue'[q].waiting + Pending(queue[q].txLock) <= queue[q].waiting + Pending(queue'[q].txLock)
    <3>1. Pending(queue[q].txLock) \in Nat
      BY <2>2, PendingNat
    <3> QED  BY <1>4, <2>2, <3>1
  <2>5. GetSide(kern', queue', call', q)
    BY <1>2, <1>4, <1>5, <2>1, <2>2, <2>4, GetStays DEF Fewer
  <2>6. PutSide(kern', queue', call', q)
    <3> DEFINE l == kern.senders[q]
               F == Members(kern'.senders[q])
               S == Comers(call, q, Puts)
               T == Comers(call', q, Puts)
               n == Length[q] - queue[q].waiting
               lock == queue[q].rxLock
               p == Placing(call, q, Puts)
               r == Placing(call', q, Puts)
    <3>1. n \in Nat /\ lock \in Int /\ lock >= -1 /\ S \in SUBSET Task /\ T \in SUBSET Task
      BY <2>2 DEF Comers
    <3>2. Side(Members(l), S, n, lock, p) /\ ~r /\ S \subseteq T
      BY <1>2, <2>1 DEF WakingAt, PutSide
    <3>3. /\ l \in Lists(Task) /\ F \subseteq Members(l)
          /\ \A y \in 1..Len(l) : y <= lock => l[y] \notin F
      BY <1>2, <1>5, EventLists DEF Fewer
    <3>4. PutSide(kern', queue', call', q) <=> Side(F, T, n, queueUNLOCKED, r)
      BY <1>4 DEF PutSide
    <3> HIDE DEF l, F, S, T, n, lock, p, r
    <3> QED  BY <3>1, <3>2, <3>3, <3>4, SideUnlocked
  <2> QED  BY <2>3, <2>5, <2>6 DEF WakingAt
<1> QED  BY <1>6, <1>7 DEF Waking

\* The steps of a call.
LEMMA InCallWakes ==
  ASSUME KInv, KInv', Waking(kern, queue, call), NEW t \in Caller, InCall(t)
  PROVE  Waking(kern', queue', call')
BY RetryWakes, QuietCallWakes, LockWakes, CheckWakes, PlaceWakes, UnlockWakes, UnlockRxWakes DEF InCall

\* An interrupt wakes the first task of an event list.
LEMMA WokenFromISR ==
  ASSUME KInv, NEW l \in Lists(Task), Members(l) \subseteq InEvent(kern), WakeFromISR(l)
  PROVE  /\ Fewer(kern, kern')
         /\ Members(l) # {} => \E h \in Members(l) : h \in Task \ Waiters(kern')
<1>1. KOk(kern)
  BY DEF KInv
<1>2. CASE l = <<>>
  <2>1. kern' = kern /\ Members(l) = {}
    BY <1>2, ListBasics DEF WakeFromISR
  <2> QED  BY <2>1 DEF Fewer
<1>3. CASE l # <<>>
  <2> DEFINE h == Head(l)
  <2>1. h \in Task /\ h \in InEvent(kern) /\ h \in Members(l)
    BY <1>3, ListBasics
  <2>2. kern' = xTaskRemoveFromEventList(kern, h)
    BY <1>3 DEF WakeFromISR
  <2> HIDE DEF h
  <2>3. Calm(kern, kern') /\ h \notin Waiters(kern')
    BY <1>1, <2>1, <2>2, WakeOK
  <2> QED  BY <2>1, <2>3 DEF Calm
<1> QED  BY <1>2, <1>3

\* No task is about to wait at a queue that is not locked.
LEMMA UnlockedQueue ==
  ASSUME NEW Q, NEW cl, NEW q, Guarded(Q, cl, q), Q[q].txLock = -1 \/ Q[q].rxLock = -1
  PROVE  \A ops : ~Placing(cl, q, ops)
BY DEF Guarded, Placing

\* A device sends.
LEMMA SendFromISRWakes ==
  ASSUME KInv, KInv', Waking(kern, queue, call), NEW q \in Queue, NEW x, SendFromISR(q, x)
  PROVE  Waking(kern', queue', call')
<1> DEFINE Q == queue[q]
<1>1. /\ Q \in QueueRec(q) /\ KOk(kern) /\ queue = [p \in Queue |-> queue[p]]
      /\ WakingAt(kern, queue, call, q)
  BY DEF KInv, IInv, Queues, Good, Waking
<1>2. /\ Q.waiting \in Nat /\ Length[q] - Q.waiting \in Nat /\ Length[q] \in Nat
      /\ Q.txLock \in Int /\ Q.rxLock \in Int /\ Q.txLock >= -1 /\ Q.rxLock >= -1
  BY <1>1, Numbers DEF WakingAt, Guarded
<1>3. call' = call
  BY DEF SendFromISR
<1>4. ASSUME Q.txLock = -1, queue' = [queue EXCEPT ![q] = prvCopyDataToQueue(q, Q, x, "back")],
             WakeFromISR(kern.receivers[q])
      PROVE  Waking(kern', queue', call')
  <2>1. /\ Fewer(kern, kern')
        /\ Members(kern.receivers[q]) # {} =>
             \E h \in Members(kern.receivers[q]) : h \in Task \ Waiters(kern')
    BY <1>1, <1>4, EventLists, WokenFromISR
  <2>2. /\ \A p \in Queue \ {q} : queue'[p] = queue[p]
        /\ queue'[q] = prvCopyDataToQueue(q, Q, x, "back")
    BY <1>1, <1>4
  <2>3. /\ queue'[q].waiting = Q.waiting + 1
        /\ queue'[q].txLock = Q.txLock /\ queue'[q].rxLock = Q.rxLock
    BY <1>1, <2>2, CopyFields
  <2>4. \A p \in Queue \ {q} : WakingAt(kern', queue', call', p)
    BY <1>3, <2>1, <2>2, QuietAt DEF Waking, Fewer
  <2>5. Guarded(queue', call', q) /\ \A ops : ~Placing(call', q, ops)
    <3>1. Guarded(queue', call', q)
      BY <1>1, <1>3, <2>3 DEF WakingAt, Guarded
    <3> QED  BY <1>4, <2>3, <3>1, UnlockedQueue
  <2>6. /\ End \notin Members(kern.receivers[q]) /\ End \notin Comers(call, q, Gets)
        /\ Comers(call, q, Gets) \ {End} \subseteq Comers(call', q, Gets)
    <3>1. Members(kern.receivers[q]) \subseteq Task
      BY <1>1, KernMembers DEF KOk
    <3> QED  BY <1>3, <3>1, MarkersAssumption DEF Comers
  <2>7. Served(Members(kern.receivers[q]), Members(kern'.receivers[q]), Comers(call, q, Gets), End,
               queue[q].waiting, queue'[q].waiting)
    <3>1. queue'[q].waiting <= queue[q].waiting + (IF End \in Comers(call, q, Gets) THEN 0 ELSE 1)
      BY <1>2, <2>3, <2>6
    <3>2. \A h \in Task \ Waiters(kern') : h \notin Members(kern'.receivers[q])
      BY DEF Waiters
    <3> QED  BY <2>1, <3>1, <3>2 DEF Served
  <2>8. GetSide(kern', queue', call', q)
    BY <1>1, <2>1, <2>3, <2>5, <2>6, <2>7, GetServed
  <2>9. Length[q] - queue'[q].waiting + Pending(queue[q].rxLock)
          <= Length[q] - queue[q].waiting + Pending(queue'[q].rxLock)
    <3>1. Pending(queue[q].rxLock) \in Nat
      BY <1>2, PendingNat
    <3> QED  BY <1>2, <2>3, <3>1
  <2>10. PutSide(kern', queue', call', q)
    BY <1>1, <1>2, <1>3, <2>1, <2>3, <2>5, <2>9, PutStays DEF Fewer
  <2> QED  BY <2>4, <2>5, <2>8, <2>10 DEF Waking, WakingAt
<1>5. ASSUME Q.txLock # -1, kern' = kern,
             queue' = [queue EXCEPT ![q] = [prvCopyDataToQueue(q, Q, x, "back")
                                              EXCEPT !.txLock = @ + 1]]
      PROVE  Waking(kern', queue', call')
  <2>1. /\ \A p \in Queue \ {q} : queue'[p] = queue[p]
        /\ queue'[q].waiting = Q.waiting + 1
        /\ queue'[q].txLock = Q.txLock + 1 /\ queue'[q].rxLock = Q.rxLock
    <3> DEFINE R == prvCopyDataToQueue(q, Q, x, "back")
    <3>1. R.waiting = Q.waiting + 1 /\ R.txLock = Q.txLock /\ R.rxLock = Q.rxLock
      BY <1>1, CopyFields
    <3>2. DOMAIN R = DOMAIN Q
      BY <1>1 DEF prvCopyDataToQueue, QueueRec
    <3>3. "txLock" \in DOMAIN R
      BY <1>1, <3>2 DEF QueueRec
    <3> HIDE DEF R
    <3>4. queue'[q] = [R EXCEPT !.txLock = R.txLock + 1] /\ \A p \in Queue \ {q} : queue'[p] = queue[p]
      BY <1>1, <1>5 DEF R
    <3> QED  BY <3>1, <3>3, <3>4
  <2>2. \A p \in Queue \ {q} : WakingAt(kern', queue', call', p)
    BY <1>3, <1>5, <2>1, QuietAt DEF Waking
  <2>3. /\ queue'[q].txLock >= -1 /\ queue'[q].txLock # -1
        /\ Pending(queue'[q].txLock) = Pending(queue[q].txLock) + 1
        /\ Pending(queue[q].txLock) \in Nat /\ Pending(queue[q].rxLock) \in Nat
    BY <1>2, <1>5, <2>1 DEF Pending, queueUNLOCKED
  <2>4. Guarded(queue', call', q)
    BY <1>1, <1>3, <2>1, <2>3 DEF WakingAt, Guarded
  <2>5. /\ queue'[q].waiting + Pending(queue[q].txLock)
             <= queue[q].waiting + Pending(queue'[q].txLock)
        /\ Length[q] - queue'[q].waiting + Pending(queue[q].rxLock)
             <= Length[q] - queue[q].waiting + Pending(queue'[q].rxLock)
    BY <1>2, <2>1, <2>3
  <2>6. GetSide(kern', queue', call', q)
    BY <1>1, <1>3, <1>5, <2>3, <2>5, GetStays
  <2>7. PutSide(kern', queue', call', q)
    BY <1>1, <1>2, <1>3, <1>5, <2>1, <2>5, PutStays
  <2> QED  BY <2>2, <2>4, <2>6, <2>7 DEF Waking, WakingAt
<1> QED  BY <1>4, <1>5 DEF SendFromISR, queueUNLOCKED

\* A device receives.
LEMMA ReceiveFromISRWakes ==
  ASSUME KInv, KInv', Waking(kern, queue, call), NEW q \in Queue, ReceiveFromISR(q)
  PROVE  Waking(kern', queue', call')
<1> DEFINE Q == queue[q]
<1>1. /\ Q \in QueueRec(q) /\ KOk(kern) /\ queue = [p \in Queue |-> queue[p]]
      /\ WakingAt(kern, queue, call, q)
  BY DEF KInv, IInv, Queues, Good, Waking
<1>2. /\ Q.waiting \in Nat /\ Length[q] - Q.waiting \in Nat /\ Length[q] \in Nat
      /\ Q.txLock \in Int /\ Q.rxLock \in Int /\ Q.txLock >= -1 /\ Q.rxLock >= -1
  BY <1>1, Numbers DEF WakingAt, Guarded
<1>3. call' = call
  BY DEF ReceiveFromISR
<1>4. ASSUME Q.rxLock = -1, queue' = [queue EXCEPT ![q] = Taken(q, Q, None)],
             WakeFromISR(kern.senders[q])
      PROVE  Waking(kern', queue', call')
  <2>1. /\ Fewer(kern, kern')
        /\ Members(kern.senders[q]) # {} =>
             \E h \in Members(kern.senders[q]) : h \in Task \ Waiters(kern')
    BY <1>1, <1>4, EventLists, WokenFromISR
  <2>2. /\ \A p \in Queue \ {q} : queue'[p] = queue[p]
        /\ queue'[q] = Taken(q, Q, None)
    BY <1>1, <1>4
  <2>3. /\ queue'[q].waiting = Q.waiting - 1
        /\ queue'[q].txLock = Q.txLock /\ queue'[q].rxLock = Q.rxLock
    BY <1>1, <2>2, TakenFields
  <2>4. \A p \in Queue \ {q} : WakingAt(kern', queue', call', p)
    BY <1>3, <2>1, <2>2, QuietAt DEF Waking, Fewer
  <2>5. Guarded(queue', call', q) /\ \A ops : ~Placing(call', q, ops)
    <3>1. Guarded(queue', call', q)
      BY <1>1, <1>3, <2>3 DEF WakingAt, Guarded
    <3> QED  BY <1>4, <2>3, <3>1, UnlockedQueue
  <2>6. /\ End \notin Members(kern.senders[q]) /\ End \notin Comers(call, q, Puts)
        /\ Comers(call, q, Puts) \ {End} \subseteq Comers(call', q, Puts)
    <3>1. Members(kern.senders[q]) \subseteq Task
      BY <1>1, KernMembers DEF KOk
    <3> QED  BY <1>3, <3>1, MarkersAssumption DEF Comers
  <2>7. Served(Members(kern.senders[q]), Members(kern'.senders[q]), Comers(call, q, Puts), End,
               Length[q] - queue[q].waiting, Length[q] - queue'[q].waiting)
    <3>1. Length[q] - queue'[q].waiting
            <= Length[q] - queue[q].waiting + (IF End \in Comers(call, q, Puts) THEN 0 ELSE 1)
      BY <1>2, <2>3, <2>6
    <3>2. \A h \in Task \ Waiters(kern') : h \notin Members(kern'.senders[q])
      BY DEF Waiters
    <3> QED  BY <2>1, <3>1, <3>2 DEF Served
  <2>8. PutSide(kern', queue', call', q)
    BY <1>1, <2>1, <2>3, <2>5, <2>6, <2>7, PutServed
  <2>9. queue'[q].waiting + Pending(queue[q].txLock) <= queue[q].waiting + Pending(queue'[q].txLock)
    <3>1. Pending(queue[q].txLock) \in Nat
      BY <1>2, PendingNat
    <3> QED  BY <1>2, <2>3, <3>1
  <2>10. GetSide(kern', queue', call', q)
    BY <1>1, <1>2, <1>3, <2>1, <2>3, <2>5, <2>9, GetStays DEF Fewer
  <2> QED  BY <2>4, <2>5, <2>8, <2>10 DEF Waking, WakingAt
<1>5. ASSUME Q.rxLock # -1, kern' = kern,
             queue' = [queue EXCEPT ![q] = [Taken(q, Q, None) EXCEPT !.rxLock = @ + 1]]
      PROVE  Waking(kern', queue', call')
  <2>1. /\ \A p \in Queue \ {q} : queue'[p] = queue[p]
        /\ queue'[q].waiting = Q.waiting - 1
        /\ queue'[q].rxLock = Q.rxLock + 1 /\ queue'[q].txLock = Q.txLock
    <3> DEFINE R == Taken(q, Q, None)
    <3>1. R.waiting = Q.waiting - 1 /\ R.txLock = Q.txLock /\ R.rxLock = Q.rxLock
      BY <1>1, TakenFields
    <3>2. DOMAIN R = DOMAIN Q
      BY <1>1 DEF Taken, QueueRec
    <3>3. "rxLock" \in DOMAIN R
      BY <1>1, <3>2 DEF QueueRec
    <3> HIDE DEF R
    <3>4. queue'[q] = [R EXCEPT !.rxLock = R.rxLock + 1] /\ \A p \in Queue \ {q} : queue'[p] = queue[p]
      BY <1>1, <1>5 DEF R
    <3> QED  BY <3>1, <3>3, <3>4
  <2>2. \A p \in Queue \ {q} : WakingAt(kern', queue', call', p)
    BY <1>3, <1>5, <2>1, QuietAt DEF Waking
  <2>3. /\ queue'[q].rxLock >= -1 /\ queue'[q].rxLock # -1
        /\ Pending(queue'[q].rxLock) = Pending(queue[q].rxLock) + 1
        /\ Pending(queue[q].txLock) \in Nat /\ Pending(queue[q].rxLock) \in Nat
    BY <1>2, <1>5, <2>1 DEF Pending, queueUNLOCKED
  <2>4. Guarded(queue', call', q)
    BY <1>1, <1>3, <2>1, <2>3 DEF WakingAt, Guarded
  <2>5. /\ queue'[q].waiting + Pending(queue[q].txLock)
             <= queue[q].waiting + Pending(queue'[q].txLock)
        /\ Length[q] - queue'[q].waiting + Pending(queue[q].rxLock)
             <= Length[q] - queue[q].waiting + Pending(queue'[q].rxLock)
    BY <1>2, <2>1, <2>3
  <2>6. GetSide(kern', queue', call', q)
    BY <1>1, <1>2, <1>3, <1>5, <2>1, <2>5, GetStays
  <2>7. PutSide(kern', queue', call', q)
    BY <1>1, <1>3, <1>5, <2>3, <2>5, PutStays
  <2> QED  BY <2>2, <2>4, <2>6, <2>7 DEF Waking, WakingAt
<1> QED  BY <1>4, <1>5 DEF ReceiveFromISR, queueUNLOCKED

\* The tick and the other interrupts.
LEMMA InterruptWakes ==
  ASSUME KInv, KInv', Waking(kern, queue, call), Interrupt
  PROVE  Waking(kern', queue', call')
<1>1. CASE vPortTickISR
  <2>1. kern' = xTaskIncrementTick(kern) /\ call' = call /\ queue' = queue
    BY <1>1 DEF vPortTickISR
  <2>2. Fewer(kern, kern')
    BY <2>1, TickOK DEF Calm, KInv
  <2> QED  BY <2>1, <2>2, QuietWakes
<1> QED  BY <1>1, SendFromISRWakes, ReceiveFromISRWakes DEF Interrupt

\* Every step.
LEMMA NextWakes ==
  ASSUME KInv, KInv', Waking(kern, queue, call), [Next]_vars
  PROVE  Waking(kern', queue', call')
<1>1. CASE Next
  BY <1>1, UserCallWakes, InCallWakes, IdleStepWakes, InterruptWakes DEF Next, TaskStep
<1>2. CASE UNCHANGED vars
  <2>1. kern' = kern /\ call' = call /\ queue' = queue
    BY <1>2 DEF vars
  <2>2. Fewer(kern, kern')
    BY <2>1 DEF Fewer
  <2> QED  BY <2>1, <2>2, QuietWakes
<1> QED  BY <1>1, <1>2

\* At the start no task waits, or is about to.
LEMMA InitWakes == Init => Waking(kern, queue, call)
<1>1. SUFFICES ASSUME Init, NEW q \in Queue PROVE WakingAt(kern, queue, call, q)
  BY DEF Waking
<1>2. kern.receivers[q] = <<>> /\ kern.senders[q] = <<>>
  BY <1>1 DEF Init
<1>3. queue[q].txLock = -1 /\ queue[q].rxLock = -1
  BY <1>1 DEF Init, queueUNLOCKED
<1>4. \A t \in Task : call[t].pc \in {"run", "absent"}
  BY <1>1 DEF Init, NoCall
<1>5. Members(kern.receivers[q]) = {} /\ Members(kern.senders[q]) = {}
  BY <1>2, ListBasics
<1>6. Guarded(queue, call, q)
  BY <1>3, <1>4 DEF Guarded
<1>7. \A ops : ~Placing(call, q, ops)
  BY <1>4 DEF Placing
<1> QED  BY <1>5, <1>6, <1>7 DEF WakingAt, GetSide, PutSide, Side

\* While a task waits for an item, the tasks that come for the items are those of NoLostWakeup.
LEMMA WakingTells == KInv /\ Waking(kern, queue, call) => NoLostWakeup
<1>1. SUFFICES ASSUME KInv, Waking(kern, queue, call), NEW q \in Queue
               PROVE  /\ kern.receivers[q] # <<>> =>
                           queue[q].waiting <= Cardinality(Retriers(q, {"receive", "peek"}))
                                               + Pending(queue[q].txLock)
                      /\ kern.senders[q] # <<>> =>
                           Length[q] - queue[q].waiting
                             <= Cardinality(Retriers(q, {"send", "sendFront"}))
                                + Pending(queue[q].rxLock)
  BY DEF NoLostWakeup
<1> DEFINE R == Members(kern.receivers[q])
           W == Members(kern.senders[q])
           G == Comers(call, q, Gets)
           P == Comers(call, q, Puts)
<1>2. /\ Side(R, G, queue[q].waiting, queue[q].txLock, Placing(call, q, Gets))
      /\ Side(W, P, Length[q] - queue[q].waiting, queue[q].rxLock, Placing(call, q, Puts))
  BY <1>1 DEF Waking, WakingAt, GetSide, PutSide
<1>3. kern.receivers[q] \in Lists(Task) /\ kern.senders[q] \in Lists(Task)
  BY <1>1, EventLists DEF KInv
<1>4. (kern.receivers[q] # <<>> => R # {}) /\ (kern.senders[q] # <<>> => W # {})
  BY <1>3, ListBasics
<1>5. R \subseteq G /\ W \subseteq P
  BY <1>2 DEF Side
<1>6. G \cap P = {}
  BY DEF Comers, Coming, Gets, Puts
<1>7. /\ \A t \in Task : Contains(kern.receivers[q], t) <=> t \in R
      /\ \A t \in Task : Contains(kern.senders[q], t) <=> t \in W
  BY ContainsMembers
<1>8. \A ops : \A t \in Task :
        t \in Retriers(q, ops) <=> t \in Comers(call, q, ops) \ (R \cup W)
  <2> HIDE DEF R, W
  <2> QED  BY <1>7 DEF Retriers, Comers, Coming, RetryPc
<1>9. Retriers(q, Gets) = G \ R /\ Retriers(q, Puts) = P \ W
  <2>1. \A ops : Retriers(q, ops) \subseteq Task /\ Comers(call, q, ops) \subseteq Task
    BY DEF Retriers, Comers
  <2> HIDE DEF R, W
  <2> QED  BY <1>5, <1>6, <1>8, <2>1
<1> HIDE DEF R, W, G, P
<1> QED  BY <1>2, <1>4, <1>9 DEF Side, Gets, Puts

WInv == KInv /\ Waking(kern, queue, call)

\* A task that waits for an item is woken for it, or another has been and will come: no send
\* or receive between the test of the queue, the sleep and the two halves of prvUnlockQueue
\* is missed, with any number of tasks, of any priorities, at any number of queues.
THEOREM NoWakeupLost == Spec => []NoLostWakeup
<1>1. Init => WInv
  BY InitKInv, InitWakes DEF WInv
<1>2. WInv /\ [Next]_vars => WInv'
  <2> SUFFICES ASSUME WInv, [Next]_vars PROVE WInv'
    OBVIOUS
  <2>1. KInv /\ KInv' /\ Waking(kern, queue, call)
    BY NextKeeps DEF WInv
  <2>2. Waking(kern', queue', call')
    BY <2>1, NextWakes
  <2> QED  BY <2>1, <2>2 DEF WInv, Waking, WakingAt, Guarded, GetSide, PutSide, Placing, Comers
<1>3. WInv => NoLostWakeup
  BY WakingTells DEF WInv
<1> QED  BY <1>1, <1>2, <1>3, PTL DEF Spec

=============================================================================
