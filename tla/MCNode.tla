------------------------------- MODULE MCNode -------------------------------
(* Model-checking instance of Node: a service that accepts connections on    *)
(* CSP_ANY and one on a connection-less socket bound to port 1.              *)
EXTENDS Node, TLC

BoundAny == [p \in 0 .. 2 |-> CASE p = 1 -> "echo" [] p = 2 -> "server" [] OTHER -> None]
DportEach == [c \in Client |-> IF c = "alice" THEN 0 ELSE 1]

=============================================================================
