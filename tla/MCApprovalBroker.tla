--------------------------- MODULE MCApprovalBroker ---------------------------
(* Finite instances of ApprovalBroker for TLC. *)
EXTENDS ApprovalBroker, TLC

CONSTANTS r1, r2, r3, r4, k1, k2, k3, a1

\* One actor; two requests coalesce, two others have keys of their own.
ThreeKeys == r1 :> k1 @@ r2 :> k1 @@ r3 :> k2 @@ r4 :> k3

\* Two requests that coalesce, and others that coalesce among themselves.
TwoKeys == [r \in Requests |-> IF r \in {r1, r2} THEN k1 ELSE k2]

OneActor == [k \in {k1, k2, k3} |-> a1]
===============================================================================
