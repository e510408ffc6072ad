-------------------------------- MODULE MCSfp --------------------------------
(* A model-checking instance of Sfp. *)
EXTENDS Sfp

\* An ordinary message, two blobs of the same size, one of another, a message, two blobs.
SomeItems == <<0, 3, 3, 4, 0, 3, 5>>

SomeTails == {[offset |-> 0, total |-> 3, length |-> 2],   \* looks like a first fragment
              [offset |-> 2, total |-> 3, length |-> 1],   \* like a last one
              [offset |-> 0, total |-> 2, length |-> 0],   \* like an empty one
              [offset |-> 9, total |-> 3, length |-> 1]}   \* like none

=============================================================================
