----------------------------- MODULE KernelQueue -----------------------------
(* A queue of the kernel as its users see it. *)
EXTENDS Kernel

CONSTANT fifo    \* the queue looked at

ASSUME FifoAssumption == fifo \in Queue /\ Kind[fifo] = "queue"

\* The contents of a queue, from the ring buffer.
Contents(q) ==
  [i \in 1..queue[q].waiting |-> queue[q].buf[(queue[q].readFrom + i) % Length[q]]]

\* What the last call of t has brought from q.
Received(q, t) ==
  IF call[t].pc = "run" /\ call[t].q = q /\ call[t].op \in {"receive", "peek"}
  THEN call[t].item ELSE None

Fifo == INSTANCE MessageQueue WITH
  Reader <- Task, Value <- Item, Capacity <- Length[fifo], Nothing <- None,
  items <- Contents(fifo), got <- [t \in Task |-> Received(fifo, t)]

\* A queue gives its items out in order, each of them once, to tasks and interrupts, as
\* MessageQueue says, though calls fail half-way, sleep and are taken up again.
QueueOfMessages == Fifo!Spec

=============================================================================
