-------------------------- MODULE MCFramedTransport --------------------------
(* Model-checking instances of FramedTransport.                              *)
EXTENDS FramedTransport

CONSTANTS c1, c2

\* Two calls are enough for a send and a close, in either order.
TwoCalls == {c1, c2}
===============================================================================
