------------------------------ MODULE RdpStream ------------------------------
(***************************************************************************)
(* What RDP promises in one direction (doc/protocolstack.rst: buffering,   *)
(* re-ordering, retransmission): the receiver's user is given the messages *)
(* of one connection of the sender, from the first one on, in order,       *)
(* without gap or duplicate, and none that was not submitted.              *)
(***************************************************************************)
EXTENDS Naturals, Sequences

VARIABLES
    sent,   \* sent[e]: messages submitted on the sender's e-th connection
    given   \* messages <<e, k>> given to the receiver on its connection

vars == <<sent, given>>

Init == sent = <<>> /\ given = <<>>

\* The sender starts a connection.
Open == sent' = Append(sent, 0) /\ UNCHANGED given

\* The receiver starts a connection.
Restart == given' = <<>> /\ UNCHANGED sent

\* The sender submits a message on its latest connection.
Submit ==
    /\ sent # <<>>
    /\ sent' = [sent EXCEPT ![Len(sent)] = @ + 1]
    /\ UNCHANGED given

\* The receiver is given the next r messages.
Give ==
    \E e \in DOMAIN sent :
        /\ given # <<>> => e = given[1][1]
        /\ \E r \in 1 .. sent[e] - Len(given) :
              given' = given \o [i \in 1 .. r |-> <<e, Len(given) + i>>]
        /\ UNCHANGED sent

Next == Open \/ Restart \/ Submit \/ Give

Spec == Init /\ [][Next]_vars

=============================================================================
