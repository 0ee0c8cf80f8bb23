--------------------------- MODULE ResourceLifetime ---------------------------
(***************************************************************************)
(* What the ResourceRegistry promises about one resource, as its reference *)
(* documentation states it (docs/reference/services/resource-registry.md): *)
(* it has usable handles, more can be made from one that is still usable,  *)
(* and once none is left its cleanup starts, exactly once.                 *)
(***************************************************************************)
CONSTANT Holders

VARIABLES
    opened,     \* has the resource been handed to a caller?
    holders,    \* the holders of a usable handle
    cleaned     \* has its cleanup started?

vars == <<opened, holders, cleaned>>

Init == ~opened /\ holders = {} /\ ~cleaned

Open(i) ==
    /\ ~opened
    /\ opened'
    /\ holders' = {i}
    /\ UNCHANGED cleaned

\* A further handle is made from one that is usable.
Join(i) ==
    /\ holders # {}
    /\ i \notin holders
    /\ holders' = holders \cup {i}
    /\ UNCHANGED <<opened, cleaned>>

Leave(i) ==
    /\ i \in holders
    /\ holders' = holders \ {i}
    /\ UNCHANGED <<opened, cleaned>>

Clean ==
    /\ opened /\ ~cleaned
    /\ holders = {}
    /\ cleaned'
    /\ UNCHANGED <<opened, holders>>

Next == Clean \/ \E i \in Holders : Open(i) \/ Join(i) \/ Leave(i)

Spec == Init /\ [][Next]_vars
===============================================================================
