---------------------------- MODULE MCFrameDecoder ----------------------------
(* Finite instances of FrameDecoder for TLC: bits for bytes, prefixes of     *)
(* three bits, and a limit of five bits.                                      *)
EXTENDS FrameDecoder

\* An empty frame, a frame that looks like a prefix, one at the limit and one
\* over it.
BitPayloads == {<<>>, <<0, 0, 1>>, <<1, 0, 1, 1, 0>>, <<1, 1, 0, 0, 1, 0>>}
===============================================================================
