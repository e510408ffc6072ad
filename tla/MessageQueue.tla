---------------------------- MODULE MessageQueue ----------------------------
(***************************************************************************)
(* What a queue promises its users: a bounded sequence of items.  Sending  *)
(* appends one, or puts it first; receiving takes the first; peeking       *)
(* copies it; and each does it at once.                                    *)
(***************************************************************************)
EXTENDS Sequences, Naturals

CONSTANTS
  Reader,     \* who receives: tasks and, without a name, interrupts
  Value,      \* what is sent
  Capacity,   \* how many items fit
  Nothing

VARIABLES
  items,      \* the items in the queue, the next one first
  got         \* got[r]: what the last call of r has brought

vars == <<items, got>>

Init == items = <<>> /\ got = [r \in Reader |-> Nothing]

Send(v) ==
  /\ Len(items) < Capacity
  /\ items' = Append(items, v) \/ items' = <<v>> \o items
  /\ \/ UNCHANGED got
     \/ \E r \in Reader : got' = [got EXCEPT ![r] = Nothing]

Receive(r) ==
  /\ items # <<>>
  /\ got' = [got EXCEPT ![r] = Head(items)]
  /\ items' = Tail(items)

Peek(r) ==
  /\ items # <<>>
  /\ got' = [got EXCEPT ![r] = Head(items)]
  /\ UNCHANGED items

ReceiveFromISR ==
  /\ items # <<>> /\ items' = Tail(items)
  /\ UNCHANGED got

\* Readers that make another call, which brings nothing, or end.
Forget(R) ==
  /\ got' = [r \in Reader |-> IF r \in R THEN Nothing ELSE got[r]]
  /\ UNCHANGED items

Next ==
  \/ \E v \in Value : Send(v)
  \/ \E r \in Reader : Receive(r) \/ Peek(r)
  \/ \E R \in SUBSET Reader : Forget(R)
  \/ ReceiveFromISR

Spec == Init /\ [][Next]_vars

=============================================================================
