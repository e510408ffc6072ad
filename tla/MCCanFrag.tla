------------------------------ MODULE MCCanFrag ------------------------------
(* Model-checking instances of CanFrag. *)
EXTENDS CanFrag

\* Two tasks of one node and one task of another.
SrcThree == [t \in Task |-> IF t = "c" THEN "far" ELSE "near"]

=============================================================================
