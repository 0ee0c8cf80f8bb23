-------------------------- MODULE MCResourceRegistry --------------------------
(* Finite instances of ResourceRegistry for TLC. *)
EXTENDS ResourceRegistry, TLC

CONSTANTS s1, s2, s3

\* A chain s3 below s2 below s1 is declared link by link, in any order and with
\* parts of it missing; s1 below s2 closes a cycle.
ChainDeclarations == {<<s2, s1>>, <<s3, s2>>, <<s1, s2>>, <<s2, None>>}

NoDeclarations == {}

\* Fibers, drawn ids and kinds are interchangeable.
Symmetry == Permutations(Fibers) \cup Permutations(AutoIds) \cup Permutations(Kinds)
===============================================================================
