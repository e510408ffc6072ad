-------------------------------- MODULE MCRdp --------------------------------
(* Model-checking instances of Rdp. *)
EXTENDS Rdp

RandOnce == [n \in Node |-> IF n = "client" THEN <<65534>> ELSE <<300>>]
Sends(k, l) == [n \in Node |-> IF n = "client" THEN k ELSE l]
Three == Sends(3, 0)
Four == Sends(4, 0)
Seven == Sends(7, 0)

RandThrice == [n \in Node |-> IF n = "client" THEN <<65534, 1000, 20000>> ELSE <<300, 4000>>]
RandServerTwice == [n \in Node |-> IF n = "client" THEN <<65534>> ELSE <<300, 302>>]
One == Sends(1, 0)

None == Sends(0, 0)
Two == Sends(2, 0)

\* The instances satisfy these hypotheses of the theorems of RdpProofs and
\* RdpPairProofs.  All but the one with RandThrice satisfy ConnectsOnce as well.
ASSUME DistinctNumbers /\ SeparateNumbers /\ HalfRange /\ SlotsApart

=============================================================================
