-------------------------- MODULE PermissionRegistry --------------------------
(***************************************************************************)
(* The tracked grants of packages/core/src/runtime/permission-registry.ts: *)
(* how they are issued, used, revoked, expired and consumed by calls that  *)
(* wait for the audit log between reading a grant and acting on it.        *)
(*                                                                         *)
(* Every Ref operation is a step and so is every audit event, and they     *)
(* interleave freely.  Mostly a fiber runs from one audit event to the     *)
(* next without giving way; the scheduler may make it yield in between,    *)
(* and two history variables say where that has happened and where it has  *)
(* done harm.                                                              *)
(***************************************************************************)
EXTENDS Naturals, FiniteSets

CONSTANTS
    Calls,      \* calls of check, grant, revoke, inspect and use; one each
    Tokens,     \* what nextToken draws; a UUID is never drawn twice
    MaxYields,  \* bound: how often a fiber is made to yield between two effects
    None        \* no grant, no token, no map read

ASSUME YieldsAssumption == MaxYields \in Nat

Statuses == {"active", "revoked", "expired", "consumed"}

\* `waiters' are the calls of use whose Deferred the grant holds.
Grant == [oneTime : BOOLEAN, expires : BOOLEAN, status : Statuses,
          waiters : SUBSET Calls]

ASSUME NoneAssumption == None \notin Tokens /\ None \notin Grant

GrantMap == [Tokens -> Grant \cup {None}]

Places == {"new", "issuing", "entering", "transition", "writing", "signalling",
           "auditing", "rereading", "noting", "registering", "rechecking",
           "racing", "running", "leaving", "returned"}

Locals == [op : {"none", "issue", "revoke", "inspect", "use"},
           token : Tokens \cup {None},
           late : BOOLEAN,                  \* expiresAt <= now at the call
           to : Statuses,                   \* the status transitionGrant sets
           seen : GrantMap \cup {None},     \* the map transitionGrant read
           todo : SUBSET Calls]             \* the Deferreds it has to complete

VARIABLES
    grants,     \* token -> TrackedGrant or None
    due,        \* the tokens whose expiresAt the clock has passed
    drawn,      \* the tokens nextToken has drawn
    signalled,  \* the calls whose Deferred has been completed
    pc, loc,    \* where each call is, and its local variables
    ran,        \* history: token -> the calls that started their effect
    torn,       \* history: the tokens whose grant a transition overwrote, or
                \* consumed, though it was not any more as the call had read it
    yields      \* history: how often a fiber was made to yield so far

vars == <<grants, due, drawn, signalled, pc, loc, ran, torn, yields>>

NoLocals == [op |-> "none", token |-> None, late |-> FALSE, to |-> "active",
             seen |-> None, todo |-> {}]

\* Type correctness: maps, waiters and local variables have their declared shapes.
TypeOK ==
    /\ grants \in GrantMap
    /\ due \in SUBSET Tokens /\ drawn \in SUBSET Tokens
    /\ signalled \in SUBSET Calls
    /\ pc \in [Calls -> Places]
    /\ loc \in [Calls -> Locals]
    /\ ran \in [Tokens -> SUBSET Calls]
    /\ torn \in SUBSET Tokens
    /\ yields \in 0..MaxYields

Init ==
    /\ grants = [t \in Tokens |-> None]
    /\ due = {} /\ drawn = {} /\ signalled = {}
    /\ pc = [c \in Calls |-> "new"]
    /\ loc = [c \in Calls |-> NoLocals]
    /\ ran = [t \in Tokens |-> {}]
    /\ torn = {}
    /\ yields = 0

-------------------------------------------------------------------------------

\* From these places a fiber goes on before any other starts a step of its own,
\* unless it is made to yield.
Committed == {"entering", "transition", "writing", "signalling", "rereading",
              "registering", "rechecking", "leaving"}

ItsTurn(c) == pc[c] \in Committed \/ \A d \in Calls : pc[d] \notin Committed

\* A step that was a fiber's turn, or that another had to yield for.
Count(itsTurn) ==
    \/ itsTurn /\ yields' = yields
    \/ ~itsTurn /\ yields < MaxYields /\ yields' = yields + 1

\* The call c takes a step from `place'.
From(c, place) == pc[c] = place /\ Count(ItsTurn(c))

Goto(c, place) == pc' = [pc EXCEPT ![c] = place]

HeldGrant(c) == grants[loc[c].token]

Missing(c) == HeldGrant(c) = None

IsActive(c) == ~Missing(c) /\ HeldGrant(c).status = "active"

\* transitionGrant is called for the status `to'.
StartTransition(c, to) ==
    /\ loc' = [loc EXCEPT ![c].to = to]
    /\ Goto(c, "transition")

\* time goes by: expiresAt of t is now in the past
ClockPasses(t) ==
    /\ t \notin due
    /\ due' = due \cup {t}
    /\ UNCHANGED <<grants, drawn, signalled, pc, loc, ran, torn, yields>>

Begin(c, op, t) ==
    /\ From(c, "new")
    /\ loc' = [loc EXCEPT ![c] = [NoLocals EXCEPT !.op = op, !.token = t,
                                   !.late = t \in due,
                                   !.to = IF op = "revoke" THEN "revoked" ELSE "active"]]
    /\ Goto(c, CASE op = "issue"  -> "issuing"
                 [] op = "revoke" -> "transition"
                 [] OTHER         -> "entering")

-------------------------------------------------------------------------------
(* issuing: the token is drawn, the audit events written, the grant stored *)

\* grant, and check once a rule allows the capability, up to the audit events
Issue(c, t) ==
    /\ t \notin drawn
    /\ Begin(c, "issue", t)
    /\ drawn' = drawn \cup {t}
    /\ UNCHANGED <<grants, due, signalled, ran, torn>>

\* mutant: only an expired grant gets a status
NewGrantUnstamped(c, oneTime, expires) ==
    IF expires /\ loc[c].late
      THEN [oneTime |-> oneTime, expires |-> expires, status |-> "expired", waiters |-> {}]
      ELSE [oneTime |-> oneTime, expires |-> expires, waiters |-> {}]

NewGrant(c, oneTime, expires) ==
    [oneTime |-> oneTime, expires |-> expires,
     status |-> IF expires /\ loc[c].late THEN "expired" ELSE "active",
     waiters |-> {}]

Publish(c, oneTime, expires) ==
    /\ From(c, "issuing")
    /\ grants' = [grants EXCEPT ![loc[c].token] = NewGrant(c, oneTime, expires)]
    /\ Goto(c, "returned")
    /\ UNCHANGED <<due, drawn, signalled, loc, ran, torn>>

\* revoke, inspect and use take any token, one that no grant has among them
Call(c, op, t) ==
    /\ Begin(c, op, t)
    /\ UNCHANGED <<grants, due, drawn, signalled, ran, torn>>

-------------------------------------------------------------------------------
(* expireIfNeeded, and what inspect and use do with the grant it returns *)

\* mutant: a one-time grant is consumed only if it expires as well
ConsumesNever(g) == g.oneTime /\ g.expires

Consumes(g) == g.oneTime

\* The caller holds the grant that expireIfNeeded returned.
Proceed(c) ==
    \/ /\ loc[c].op = "inspect" \/ ~IsActive(c)     \* a snapshot, or PermissionRevokedError
       /\ Goto(c, "returned")
       /\ UNCHANGED loc
    \/ /\ loc[c].op = "use" /\ IsActive(c)
       /\ \/ Consumes(HeldGrant(c)) /\ StartTransition(c, "consumed")
          \/ ~Consumes(HeldGrant(c)) /\ Goto(c, "noting") /\ UNCHANGED loc

Expiring(c) == IsActive(c) /\ HeldGrant(c).expires /\ loc[c].late

Enter(c) ==
    /\ From(c, "entering")
    /\ IF Expiring(c) THEN StartTransition(c, "expired") ELSE Proceed(c)
    /\ UNCHANGED <<grants, due, drawn, signalled, ran, torn>>

\* after the transition to expired the map is read once more
Reread(c) ==
    /\ From(c, "rereading")
    /\ Proceed(c)
    /\ UNCHANGED <<grants, due, drawn, signalled, ran, torn>>

-------------------------------------------------------------------------------
(* transitionGrant: read the map, set the status, complete the waiters,     *)
(* write the audit event.                                                   *)

AfterTransition(c) ==
    CASE loc[c].to = "expired"  -> "rereading"
      [] loc[c].to = "consumed" -> "noting"
      [] OTHER                  -> "returned"

\* mutant: a grant that is no longer active is moved to the new status too
TransitionsFromAny(c) == ~Missing(c)

Transitions(c) == IsActive(c)

ReadGrants(c) ==
    /\ From(c, "transition")
    /\ IF Transitions(c)
         THEN /\ loc' = [loc EXCEPT ![c].seen = grants]
              /\ Goto(c, "writing")
         ELSE /\ Goto(c, IF Missing(c) THEN "returned" ELSE AfterTransition(c))
              /\ UNCHANGED loc
    /\ torn' = IF loc[c].to = "consumed" /\ ~Transitions(c) /\ ~Missing(c)
               THEN torn \cup {loc[c].token} ELSE torn
    /\ UNCHANGED <<grants, due, drawn, signalled, ran>>

WriteGrants(c) ==
    LET t == loc[c].token
        waiters == loc[c].seen[t].waiters
    IN  /\ From(c, "writing")
        /\ grants' = [loc[c].seen EXCEPT ![t].status = loc[c].to]
        /\ loc' = [loc EXCEPT ![c].seen = None, ![c].todo = waiters]
        /\ Goto(c, IF waiters = {} THEN "auditing" ELSE "signalling")
        /\ torn' = torn \cup {u \in Tokens : grants[u] # loc[c].seen[u]}
        /\ UNCHANGED <<due, drawn, signalled, ran>>

RestOf(c, d) == loc[c].todo \ {d}

Signal(c, d) ==
    /\ From(c, "signalling")
    /\ d \in loc[c].todo
    /\ signalled' = signalled \cup {d}
    /\ loc' = [loc EXCEPT ![c].todo = RestOf(c, d)]
    /\ IF RestOf(c, d) = {} THEN Goto(c, "auditing") ELSE UNCHANGED pc
    /\ UNCHANGED <<grants, due, drawn, ran, torn>>

Audited(c) ==
    /\ From(c, "auditing")
    /\ Goto(c, AfterTransition(c))
    /\ UNCHANGED <<grants, due, drawn, signalled, loc, ran, torn>>

\* The audit log refuses the event, or the call is interrupted as it waits for it.
AuditFails(c) ==
    /\ \E place \in {"issuing", "auditing", "noting"} : From(c, place)
    /\ Goto(c, "returned")
    /\ UNCHANGED <<grants, due, drawn, signalled, loc, ran, torn>>

-------------------------------------------------------------------------------
(* use, once the grant was found to be active *)

StartEffect(c, place) ==
    /\ ran' = [ran EXCEPT ![loc[c].token] = @ \cup {c}]
    /\ Goto(c, place)

\* the `use' event is written: a consumed grant is not tracked any further
UseNoted(c) ==
    /\ From(c, "noting")
    /\ \/ loc[c].to = "consumed" /\ StartEffect(c, "running")
       \/ loc[c].to # "consumed" /\ Goto(c, "registering") /\ UNCHANGED ran
    /\ UNCHANGED <<grants, due, drawn, signalled, loc, torn>>


WithWaiters(t, waiters) ==
    IF grants[t] = None THEN grants ELSE [grants EXCEPT ![t].waiters = waiters]

AddWaiter(c) ==
    /\ From(c, "registering")
    /\ grants' = WithWaiters(loc[c].token, HeldGrant(c).waiters \cup {c})
    /\ Goto(c, "rechecking")
    /\ UNCHANGED <<due, drawn, signalled, loc, ran, torn>>

\* mutant: the grant is not read again once the waiter is in place
StillHeldUnread(c) == TRUE

StillHeld(c) == Missing(c) \/ IsActive(c)

Recheck(c) ==
    /\ From(c, "rechecking")
    /\ \/ StillHeld(c) /\ StartEffect(c, "racing")
       \/ ~StillHeld(c) /\ Goto(c, "leaving") /\ UNCHANGED ran
    /\ UNCHANGED <<grants, due, drawn, signalled, loc, torn>>

\* The effect ends by itself, or its caller is interrupted.
EffectEnds(c) ==
    /\ \/ From(c, "racing") /\ Goto(c, "leaving")
       \/ From(c, "running") /\ Goto(c, "returned")
    /\ UNCHANGED <<grants, due, drawn, signalled, loc, ran, torn>>

\* The other side of the race wins and the effect has ended, interrupted: on the
\* spot, in the middle of the transition that completes the Deferred, or later.
CutShort(c) ==
    /\ pc[c] = "racing" /\ c \in signalled
    /\ Count(ItsTurn(c) \/ \E d \in Calls : pc[d] = "signalling")
    /\ Goto(c, "leaving")
    /\ UNCHANGED <<grants, due, drawn, signalled, loc, ran, torn>>

\* mutant: the waiter stays with a grant that is no longer active
RemainingWaitersActive(c) ==
    IF IsActive(c) THEN HeldGrant(c).waiters \ {c} ELSE HeldGrant(c).waiters

RemainingWaiters(c) == HeldGrant(c).waiters \ {c}

RemoveWaiter(c) ==
    /\ From(c, "leaving")
    /\ grants' = WithWaiters(loc[c].token, RemainingWaiters(c))
    /\ Goto(c, "returned")
    /\ UNCHANGED <<due, drawn, signalled, loc, ran, torn>>

-------------------------------------------------------------------------------

\* What a call does by itself, apart from waiting for the audit log or its effect.
Advance(c) ==
    \/ Enter(c) \/ Reread(c) \/ ReadGrants(c) \/ WriteGrants(c)
    \/ \E d \in Calls : Signal(c, d)
    \/ AddWaiter(c) \/ Recheck(c) \/ CutShort(c) \/ RemoveWaiter(c)

Start(c) ==
    \E t \in Tokens : Issue(c, t) \/ \E op \in {"revoke", "inspect", "use"} : Call(c, op, t)

Answered(c) ==
    \/ \E oneTime, expires \in BOOLEAN : Publish(c, oneTime, expires)
    \/ Audited(c) \/ AuditFails(c) \/ UseNoted(c)

Next ==
    \/ \E t \in Tokens : ClockPasses(t)
    \/ \E c \in Calls : Start(c) \/ Answered(c) \/ Advance(c) \/ EffectEnds(c)

Spec == Init /\ [][Next]_vars

\* Neither the audit log has to answer nor an effect to end, unless it is told to.
FairSpec == Spec /\ \A c \in Calls : WF_vars(Advance(c))

-------------------------------------------------------------------------------

\* No transition has undone what others did to the grant, or gone on in spite of
\* it; none can have as long as no fiber was made to yield between two effects.
Intact(t) == t \notin torn \/ yields = 0

\* A grant that was revoked, expired or consumed keeps that status for ever: no
\* call that read the map earlier brings it back to life or renames its end,
\* but for the write that tears it.
StatusIsFinal ==
    [][\A t \in Tokens : Intact(t)' /\ grants[t] # None /\ grants[t].status # "active"
                         => (grants'[t] # None /\ grants'[t].status = grants[t].status)]_vars

\* At most one call ever starts its effect under a one-time grant, however many
\* hold the token and use it at once, unless the grant is torn.
OneTimeUsedOnce ==
    \A t \in Tokens :
        Intact(t) /\ grants[t] # None /\ grants[t].oneTime => Cardinality(ran[t]) <= 1

EndedUse(c) ==
    /\ pc[c] = "racing" /\ HeldGrant(c) # None
    /\ HeldGrant(c).status # "active"

\* An effect that still runs after its grant has ended has been told to stop, or
\* is on the list of the call that ended the grant: a use that registers while a
\* revocation is under way falls through neither, unless the grant is torn.
RevocationReaches ==
    \A c \in Calls : EndedUse(c) /\ Intact(loc[c].token) =>
        c \in signalled \/ \E d \in Calls : c \in loc[d].todo

\* A grant that is not torn holds the Deferreds of uses in progress only.
NoWaiterLeaks ==
    \A t \in Tokens : Intact(t) /\ grants[t] # None =>
        \A c \in grants[t].waiters :
            loc[c].token = t /\ pc[c] \in {"rechecking", "racing", "leaving"}


===============================================================================
