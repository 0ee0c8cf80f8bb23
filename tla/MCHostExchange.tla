---------------------------- MODULE MCHostExchange ----------------------------
(* Finite instances of HostExchange for TLC. *)
EXTENDS HostExchange

CONSTANTS c1, c2, c3, i1, i2

\* A caller that uses an id again, and one with an id of its own.
OneIdTwice == [c \in Calls |-> IF c = c3 THEN i2 ELSE i1]
===============================================================================
