-------------------------- MODULE ApprovalCoalescing --------------------------
(***************************************************************************)
(* What the approval broker promises its callers (engineering/SPEC.md      *)
(* 14.4): requests for one key share one prompt while it is open, the      *)
(* user's outcome applies to all of them at once, and a denial for the     *)
(* scope decides every later request for the key without a prompt.         *)
(***************************************************************************)
CONSTANTS Requests, Keys, KeyOf, Verdicts, Undecided

VARIABLES
    bypass,     \* the development mode that approves everything
    open,       \* key -> the requests waiting for its prompt
    denied,     \* keys denied for the scope
    decision    \* request -> what its caller gets, or Undecided

vars == <<bypass, open, denied, decision>>

Init ==
    /\ bypass \in BOOLEAN
    /\ open = [k \in Keys |-> {}]
    /\ denied = {}
    /\ decision = [r \in Requests |-> Undecided]

Attach(r) ==
    /\ decision[r] = Undecided
    /\ KeyOf[r] \notin denied
    /\ r \notin open[KeyOf[r]]
    /\ open' = [open EXCEPT ![KeyOf[r]] = @ \cup {r}]
    /\ UNCHANGED <<bypass, denied, decision>>

\* One outcome for everybody who waits; only a denial for the scope, or one
\* whose audit failed, also closes the key.
Decide(k, verdict) ==
    /\ open[k] # {}
    /\ open' = [open EXCEPT ![k] = {}]
    /\ decision' = [r \in Requests |-> IF r \in open[k] THEN verdict ELSE decision[r]]
    /\ \/ denied' = denied /\ verdict # "denied-for-scope"
       \/ denied' = denied \cup {k} /\ verdict \in {"denied-for-scope", "failed"}
    /\ UNCHANGED bypass

\* A request that never waits: turned away, or decided by an earlier denial.
\* Nobody is approved without a prompt, except in development mode.
Return(r, verdict) ==
    /\ decision[r] = Undecided
    /\ r \notin open[KeyOf[r]]
    /\ verdict = "denied-for-scope" => KeyOf[r] \in denied
    /\ verdict = "approved" => bypass
    /\ verdict # "denied-once"
    /\ decision' = [decision EXCEPT ![r] = verdict]
    /\ UNCHANGED <<bypass, open, denied>>

Next ==
    \/ \E r \in Requests : Attach(r) \/ \E v \in Verdicts : Return(r, v)
    \/ \E k \in Keys, v \in Verdicts : Decide(k, v)

Spec == Init /\ [][Next]_vars
===============================================================================
