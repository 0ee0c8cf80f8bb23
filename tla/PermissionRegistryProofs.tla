----------------------- MODULE PermissionRegistryProofs -----------------------
(***************************************************************************)
(* Theorems about PermissionRegistry, for any set of calls and tokens and  *)
(* in every schedule.  A grant is spoken of until a transition tears it;   *)
(* that takes a fiber which yields between two effects.                    *)
(***************************************************************************)
EXTENDS PermissionRegistry, FiniteSetTheorems, TLAPS

\* Type correctness, made inductive: after its start a call has a token, and the
\* map it is going to write back holds a grant under it.
LocalsOf(c) ==
    /\ pc[c] # "new" => loc[c].token \in Tokens
    /\ pc[c] = "writing" =>
        /\ loc[c].seen \in GrantMap /\ loc[c].seen[loc[c].token] \in Grant
        /\ loc[c].seen[loc[c].token].status = "active"

LocalsInv == TypeOK /\ \A c \in Calls : LocalsOf(c)

\* Without yields, no two calls are in the middle of their steps, except that a
\* call which completes Deferreds resumes the uses it stops.
Interrupting == {"signalling", "leaving"}

OneAtATime ==
    \A c, d \in Calls : c # d /\ pc[c] \in Committed /\ pc[d] \in Committed =>
        /\ {pc[c], pc[d]} \subseteq Interrupting
        /\ ~(pc[c] = "signalling" /\ pc[d] = "signalling")

\* Then the map that a transition read is still the map when it writes it back,
\* its grant still active; an expiry or a consumption begins on an active grant.
ReadIsCurrent ==
    \A c \in Calls :
        /\ pc[c] = "writing" => loc[c].seen = grants /\ IsActive(c)
        /\ pc[c] = "transition" /\ loc[c].op # "revoke" => IsActive(c)

\* Then nothing is torn.
YieldsInv == yields = 0 => torn = {} /\ OneAtATime /\ ReadIsCurrent

\* A call whose token is not torn.
Whole(c) == loc[c].token \notin torn

\* A token stands for nothing before it is drawn, and while it is being issued
\* it belongs to one call.
TokensInv ==
    /\ \A t \in Tokens \ torn : grants[t] = None => ran[t] = {}
    /\ \A t \in Tokens \ torn : grants[t] # None => t \in drawn
    /\ \A c \in Calls : pc[c] = "issuing" => loc[c].token \in drawn
    /\ \A c \in Calls : pc[c] = "issuing" /\ Whole(c) => grants[loc[c].token] = None
    /\ \A c, d \in Calls : c # d /\ pc[c] = "issuing" /\ pc[d] = "issuing" =>
        loc[c].token # loc[d].token

\* The call c has consumed the grant of its token.
HasConsumed(c) ==
    /\ loc[c].to = "consumed"
    /\ pc[c] \in {"signalling", "auditing", "noting", "running", "returned"}

\* Who is on the way to the race, or in it, uses a grant that is not one-time.
Tracking(c) ==
    \/ pc[c] = "noting" /\ loc[c].to # "consumed"
    \/ pc[c] \in {"registering", "rechecking", "racing"}

ConsumptionInv ==
    /\ \A c \in Calls : loc[c].to = "consumed" =>
        HasConsumed(c) \/ pc[c] \in {"transition", "writing"}
    /\ \A c \in Calls : loc[c].to = "consumed" => loc[c].op = "use"
    /\ \A c \in Calls : pc[c] = "transition" /\ loc[c].op # "revoke" /\ Whole(c) => ~Missing(c)
    /\ \A c \in Calls : HasConsumed(c) /\ Whole(c) => ~Missing(c) /\ ~IsActive(c)
    /\ \A c, d \in Calls :
        HasConsumed(c) /\ HasConsumed(d) /\ Whole(c) /\ loc[c].token = loc[d].token
        => c = d
    /\ \A c \in Calls : Tracking(c) /\ Whole(c) => ~Missing(c) /\ ~HeldGrant(c).oneTime
    /\ \A t \in Tokens \ torn : grants[t] # None /\ grants[t].oneTime =>
        \A c \in ran[t] : HasConsumed(c) /\ loc[c].token = t

\* A use that races has its Deferred with the grant, and a call that completes
\* Deferreds has them all on its list.
WaitersInv ==
    /\ \A c \in Calls : pc[c] \in {"rechecking", "racing"} /\ Whole(c) =>
        c \in HeldGrant(c).waiters
    /\ \A c \in Calls : pc[c] # "signalling" => loc[c].todo = {}

\* The grants of tokens that are not torn hold no stray Deferred, and their end
\* reaches every use.
LeaksInv ==
    \A t \in Tokens \ torn : grants[t] # None =>
        \A c \in grants[t].waiters :
            loc[c].token = t /\ pc[c] \in {"rechecking", "racing", "leaving"}

ReachInv ==
    \A c \in Calls : EndedUse(c) /\ Whole(c) =>
        c \in signalled \/ \E d \in Calls : c \in loc[d].todo

GrantsInv ==
    YieldsInv /\ TokensInv /\ ConsumptionInv /\ WaitersInv /\ LeaksInv /\ ReachInv

-------------------------------------------------------------------------------
(* What every step has in common *)

Step(c) == Start(c) \/ Answered(c) \/ Advance(c) \/ EffectEnds(c)

LEMMA NextCases ==
  ASSUME [Next]_vars
  PROVE  \/ \E c \in Calls : Step(c)
         \/ UNCHANGED <<grants, drawn, signalled, pc, loc, ran, torn, yields>>
  BY DEF Next, ClockPasses, Step, vars

\* A torn grant stays so, and yields are counted up.
LEMMA HistoryStep ==
  ASSUME LocalsInv, [Next]_vars
  PROVE  /\ torn \in SUBSET torn' /\ torn' \in SUBSET Tokens
         /\ yields' \in 0..MaxYields /\ yields =< yields'
<1> USE YieldsAssumption
<1>1. ASSUME NEW c \in Calls, Step(c)
      PROVE  yields' \in 0..MaxYields /\ yields =< yields'
  <2>1. yields \in 0..MaxYields
    BY DEF LocalsInv, TypeOK
  <2>2. \E itsTurn \in BOOLEAN : Count(itsTurn)
    <3>1. ItsTurn(c) \in BOOLEAN
      BY DEF ItsTurn
    <3>2. Count(ItsTurn(c)) \/ CutShort(c)
      BY <1>1
      DEF Step, Start, Issue, Call, Begin, Answered, Publish, Audited, AuditFails, UseNoted,
          EffectEnds, Advance, Enter, Reread, ReadGrants, WriteGrants, Signal, AddWaiter,
          Recheck, RemoveWaiter, From
    <3>3. CutShort(c) => \E itsTurn \in BOOLEAN : Count(itsTurn)
      BY DEF CutShort, ItsTurn
    <3>4. QED
      BY <3>1, <3>2, <3>3
  <2>3. QED
    BY <2>1, <2>2 DEF Count
<1>2. ASSUME NEW c \in Calls, Step(c)
      PROVE  torn \in SUBSET torn' /\ torn' \in SUBSET Tokens
  <2>1. torn \in SUBSET Tokens
    BY DEF LocalsInv, TypeOK
  <2>2. CASE ReadGrants(c)
    BY <2>1, <2>2 DEF ReadGrants, From, LocalsInv, LocalsOf
  <2>3. CASE WriteGrants(c)
    BY <2>1, <2>3 DEF WriteGrants
  <2>4. CASE torn' = torn
    BY <2>1, <2>4
  <2>5. QED
    BY <1>2, <2>2, <2>3, <2>4
    DEF Step, Start, Issue, Call, Answered, Publish, Audited, AuditFails, UseNoted,
        EffectEnds, Advance, Enter, Reread, Signal, AddWaiter, Recheck, CutShort,
        RemoveWaiter
<1>3. CASE torn' = torn /\ yields' = yields
  BY <1>3 DEF LocalsInv, TypeOK
<1>4. QED
  BY <1>1, <1>2, <1>3, NextCases

\* A step of one call leaves the places and the locals of the others alone.
LEMMA OthersStay ==
  ASSUME LocalsInv, NEW c \in Calls, Step(c)
  PROVE  \A d \in Calls : d # c => pc'[d] = pc[d] /\ loc'[d] = loc[d]
<1>1. ASSUME Start(c)
      PROVE  \A d \in Calls : d # c => pc'[d] = pc[d] /\ loc'[d] = loc[d]
  BY <1>1 DEF LocalsInv, TypeOK, Start, Issue, Call, Begin, Goto
<1>2. ASSUME Answered(c)
      PROVE  \A d \in Calls : d # c => pc'[d] = pc[d] /\ loc'[d] = loc[d]
  BY <1>2 DEF LocalsInv, TypeOK, Answered, Publish, Audited, AuditFails, UseNoted,
     StartEffect, Goto
<1>3. ASSUME Advance(c) \/ EffectEnds(c)
      PROVE  \A d \in Calls : d # c => pc'[d] = pc[d] /\ loc'[d] = loc[d]
  BY <1>3 DEF LocalsInv, TypeOK, Advance, Enter, Reread, Proceed, StartTransition,
     ReadGrants, WriteGrants, Signal, AddWaiter, Recheck, StartEffect, CutShort,
     RemoveWaiter, EffectEnds, Goto
<1>4. QED
  BY <1>1, <1>2, <1>3 DEF Step

-------------------------------------------------------------------------------
(* Types *)

LEMMA InitLocals == Init => LocalsInv
  BY YieldsAssumption DEF Init, LocalsInv, LocalsOf, TypeOK, GrantMap, Grant, Places, Locals, NoLocals,
     Statuses

\* What a call remembers when it starts.
LEMMA BeginLocals ==
  ASSUME LocalsInv, NEW c \in Calls, NEW op \in {"issue", "revoke", "inspect", "use"},
         NEW t \in Tokens, Begin(c, op, t)
  PROVE  /\ pc[c] = "new" /\ loc' \in [Calls -> Locals] /\ pc' \in [Calls -> Places]
         /\ loc'[c].op = op /\ loc'[c].token = t /\ loc'[c].todo = {}
         /\ loc'[c].to = IF op = "revoke" THEN "revoked" ELSE "active"
         /\ pc'[c] = CASE op = "issue"  -> "issuing"
                       [] op = "revoke" -> "transition"
                       [] OTHER         -> "entering"
<1> DEFINE begun(late, to) ==
             [NoLocals EXCEPT !.op = op, !.token = t, !.late = late, !.to = to]
           to == IF op = "revoke" THEN "revoked" ELSE "active"
<1>1. \A late \in BOOLEAN, to1 \in Statuses :
        /\ begun(late, to1) \in Locals
        /\ begun(late, to1).op = op /\ begun(late, to1).token = t
        /\ begun(late, to1).todo = {} /\ begun(late, to1).to = to1
  BY DEF NoLocals, Locals, Statuses
<1>2. loc' = [loc EXCEPT ![c] = begun(t \in due, to)]
  BY Zenon DEF Begin
<1> HIDE DEF begun
<1>3. (t \in due) \in BOOLEAN /\ to \in Statuses
  BY DEF Statuses
<1>4. /\ pc[c] = "new" /\ pc' \in [Calls -> Places]
      /\ pc'[c] = CASE op = "issue"  -> "issuing"
                    [] op = "revoke" -> "transition"
                    [] OTHER         -> "entering"
  BY DEF LocalsInv, TypeOK, Begin, From, Goto, Places
<1>5. QED
  BY <1>1, <1>2, <1>3, <1>4 DEF LocalsInv, TypeOK

LEMMA StartLocals ==
  ASSUME LocalsInv, NEW c \in Calls, Start(c)
  PROVE  LocalsInv'
<1>0. torn' \in SUBSET Tokens /\ yields' \in 0..MaxYields
  BY HistoryStep DEF Next
<1> USE <1>0
<1>1. ASSUME NEW op \in {"issue", "revoke", "inspect", "use"}, NEW t \in Tokens,
             Begin(c, op, t), UNCHANGED <<grants, due, signalled, ran>>,
             drawn' \in SUBSET Tokens
      PROVE  LocalsInv'
  <2>1. \A d \in Calls : d # c => pc'[d] = pc[d] /\ loc'[d] = loc[d]
    BY <1>1 DEF LocalsInv, TypeOK, Begin, Goto
  <2>2. QED
    BY <1>1, <2>1, BeginLocals DEF LocalsInv, LocalsOf, TypeOK
<1>2. QED
  BY <1>1 DEF Start, Issue, Call, LocalsInv, TypeOK

LEMMA AnsweredLocals ==
  ASSUME LocalsInv, NEW c \in Calls, Answered(c) \/ EffectEnds(c)
  PROVE  LocalsInv'
<1>0. torn' \in SUBSET Tokens /\ yields' \in 0..MaxYields
  BY HistoryStep DEF Next
<1> USE <1>0
<1>1. ASSUME NEW oneTime \in BOOLEAN, NEW expires \in BOOLEAN, Publish(c, oneTime, expires)
      PROVE  LocalsInv'
  <2>1. NewGrant(c, oneTime, expires) \in Grant
    BY DEF NewGrant, Grant, Statuses
  <2>2. grants' \in GrantMap
    BY <1>1, <2>1 DEF LocalsInv, TypeOK, Publish, GrantMap
  <2>3. QED
    BY <1>1, <2>2 DEF LocalsInv, LocalsOf, TypeOK, Publish, From, Goto, Places
<1>2. CASE Audited(c)
  BY <1>2 DEF LocalsInv, LocalsOf, TypeOK, Audited, AfterTransition, From, Goto, Places
<1>3. CASE AuditFails(c)
  BY <1>3 DEF LocalsInv, LocalsOf, TypeOK, AuditFails, From, Goto, Places
<1>4. CASE UseNoted(c) \/ EffectEnds(c)
  BY <1>4 DEF LocalsInv, LocalsOf, TypeOK, UseNoted, StartEffect, EffectEnds, From, Goto,
     Places
<1>5. QED
  BY <1>1, <1>2, <1>3, <1>4 DEF Answered

LEMMA AdvanceLocals ==
  ASSUME LocalsInv, NEW c \in Calls, Advance(c)
  PROVE  LocalsInv'
<1>0. torn' \in SUBSET Tokens /\ yields' \in 0..MaxYields
  BY HistoryStep DEF Next
<1> USE <1>0
<1>1. CASE Enter(c) \/ Reread(c)
  <2>1. ASSUME NEW to \in Statuses, StartTransition(c, to), pc[c] # "new",
               UNCHANGED <<grants, due, drawn, signalled, ran>>
        PROVE  LocalsInv'
    BY <2>1 DEF LocalsInv, LocalsOf, TypeOK, StartTransition, Goto, Locals, Places
  <2>2. ASSUME NEW place \in {"returned", "noting"}, Goto(c, place), pc[c] # "new",
               UNCHANGED <<grants, due, drawn, signalled, loc, ran>>
        PROVE  LocalsInv'
    BY <2>2 DEF LocalsInv, LocalsOf, TypeOK, Goto, Places
  <2>3. QED
    BY <1>1, <2>1, <2>2 DEF Enter, Reread, Proceed, From, Statuses
<1>2. CASE ReadGrants(c)
  <2>1. loc[c].token \in Tokens /\ pc[c] = "transition"
    BY <1>2 DEF LocalsInv, LocalsOf, ReadGrants, From
  <2>2. CASE Transitions(c)
    <3>1. /\ grants \in GrantMap /\ grants[loc[c].token] \in Grant
          /\ grants[loc[c].token].status = "active"
      BY <2>1, <2>2 DEF LocalsInv, TypeOK, GrantMap, Transitions, IsActive, Missing,
         HeldGrant
    <3>2. loc' = [loc EXCEPT ![c].seen = grants] /\ Goto(c, "writing")
      BY <1>2, <2>2 DEF ReadGrants
    <3>3. QED
      BY <1>2, <2>1, <3>1, <3>2
      DEF LocalsInv, LocalsOf, TypeOK, ReadGrants, Goto, Locals, Places
  <2>3. CASE ~Transitions(c)
    BY <1>2, <2>1, <2>3
    DEF LocalsInv, LocalsOf, TypeOK, ReadGrants, AfterTransition, Goto, Places
  <2>4. QED
    BY <2>2, <2>3
<1>3. CASE WriteGrants(c)
  <2> DEFINE t == loc[c].token
             was == loc[c].seen
  <2>1. t \in Tokens /\ was \in GrantMap /\ was[t] \in Grant /\ loc[c].to \in Statuses
    BY <1>3 DEF LocalsInv, LocalsOf, TypeOK, WriteGrants, From, Locals
  <2>2. /\ [was[t] EXCEPT !.status = loc[c].to] \in Grant
        /\ was[t].waiters \in SUBSET Calls
    BY <2>1 DEF Grant
  <2>3. grants' \in GrantMap
    BY <1>3, <2>1, <2>2 DEF WriteGrants, GrantMap
  <2>4. loc' \in [Calls -> Locals] /\ loc'[c].token = t
    <3> DEFINE left == [loc[c] EXCEPT !.seen = None, !.todo = was[t].waiters]
    <3>1. left \in Locals
      <4>1. \A l \in Locals, w \in SUBSET Calls :
              [l EXCEPT !.seen = None, !.todo = w] \in Locals
        BY DEF Locals
      <4>2. QED
        BY <2>2, <4>1 DEF LocalsInv, TypeOK
    <3>2. loc' = [loc EXCEPT ![c] = left]
      BY <1>3 DEF WriteGrants, LocalsInv, TypeOK
    <3>3. QED
      BY <3>1, <3>2 DEF LocalsInv, TypeOK, Locals
  <2>5. pc' \in [Calls -> Places] /\ pc'[c] \in {"auditing", "signalling"}
    BY <1>3 DEF WriteGrants, Goto, LocalsInv, TypeOK, Places
  <2>6. QED
    BY <1>3, <2>1, <2>3, <2>4, <2>5, OthersStay
    DEF LocalsInv, LocalsOf, TypeOK, WriteGrants, Step, Advance
<1>4. ASSUME NEW d \in Calls, Signal(c, d)
      PROVE  LocalsInv'
  <2>1. loc[c].todo \ {d} \in SUBSET Calls /\ pc[c] = "signalling"
    BY <1>4 DEF LocalsInv, TypeOK, Locals, Signal, From
  <2>2. pc' \in [Calls -> Places] /\ pc'[c] \in {"signalling", "auditing"}
    BY <1>4, <2>1 DEF LocalsInv, TypeOK, Signal, Goto, Places
  <2>3. loc' \in [Calls -> Locals] /\ loc'[c].token = loc[c].token
    <3>1. \A l \in Locals, w \in SUBSET Calls :
            [l EXCEPT !.todo = w] \in Locals /\ [l EXCEPT !.todo = w].token = l.token
      BY DEF Locals
    <3>2. loc' = [loc EXCEPT ![c] = [loc[c] EXCEPT !.todo = loc[c].todo \ {d}]]
      BY <1>4 DEF Signal, RestOf
    <3>3. QED
      BY <2>1, <3>1, <3>2 DEF LocalsInv, TypeOK
  <2>4. TypeOK'
    BY <1>4, <2>2, <2>3 DEF LocalsInv, TypeOK, Signal
  <2>5. Step(c)
    BY <1>4 DEF Step, Advance
  <2>6. \A e \in Calls : LocalsOf(e)'
    BY <2>1, <2>2, <2>3, <2>5, OthersStay DEF LocalsInv, LocalsOf
  <2>7. QED
    BY <2>4, <2>6 DEF LocalsInv
<1>5. CASE AddWaiter(c)
  BY <1>5 DEF LocalsInv, LocalsOf, TypeOK, AddWaiter, WithWaiters, HeldGrant, From, Goto,
     GrantMap, Grant, Places
<1>6. CASE Recheck(c) \/ CutShort(c)
  BY <1>6 DEF LocalsInv, LocalsOf, TypeOK, Recheck, CutShort, StartEffect, From, Goto, Places
<1>7. CASE RemoveWaiter(c)
  BY <1>7 DEF LocalsInv, LocalsOf, TypeOK, RemoveWaiter, WithWaiters, RemainingWaiters,
     HeldGrant, From, Goto, GrantMap, Grant, Places
<1>8. QED
  BY <1>1, <1>2, <1>3, <1>4, <1>5, <1>6, <1>7 DEF Advance

LEMMA NextLocals == LocalsInv /\ [Next]_vars => LocalsInv'
<1> SUFFICES ASSUME LocalsInv, [Next]_vars
             PROVE  LocalsInv'
  OBVIOUS
<1>0. torn' \in SUBSET Tokens /\ yields' \in 0..MaxYields
  BY HistoryStep
<1>1. CASE \E t \in Tokens : ClockPasses(t)
  BY <1>0, <1>1 DEF ClockPasses, LocalsInv, LocalsOf, TypeOK
<1>2. CASE UNCHANGED vars
  BY <1>2 DEF vars, LocalsInv, LocalsOf, TypeOK
<1>3. QED
  BY <1>1, <1>2, StartLocals, AnsweredLocals, AdvanceLocals DEF Next

\* In every schedule the maps, the places and the locals have their types.
THEOREM TypeCorrect == Spec => []TypeOK
<1>1. Spec => []LocalsInv
  BY InitLocals, NextLocals, PTL DEF Spec
<1>2. LocalsInv => TypeOK
  BY DEF LocalsInv
<1>3. QED
  BY <1>1, <1>2, PTL

-------------------------------------------------------------------------------
(* Where a call goes, when fibers do not yield *)

\* While nobody has yielded, a call takes its steps in its turn, or as it is
\* resumed by one that completes its Deferred.
LEMMA InTurn ==
  ASSUME LocalsInv, NEW c \in Calls, Step(c), yields' = 0
  PROVE  /\ yields = 0
         /\ ItsTurn(c) \/ (pc'[c] = "leaving" /\ \E d \in Calls : pc[d] = "signalling")
<1>1. yields \in 0..MaxYields
  BY DEF LocalsInv, TypeOK
<1>2. \A itsTurn \in BOOLEAN : Count(itsTurn) => yields = 0 /\ itsTurn
  BY <1>1, YieldsAssumption DEF Count
<1>3. CASE CutShort(c)
  <2> DEFINE turn == ItsTurn(c) \/ \E d \in Calls : pc[d] = "signalling"
  <2>1. turn \in BOOLEAN
    BY DEF ItsTurn
  <2>2. Count(turn) /\ pc'[c] = "leaving"
    BY <1>3 DEF CutShort, Goto, LocalsInv, TypeOK
  <2>3. QED
    BY <1>2, <2>1, <2>2
<1>4. CASE ~CutShort(c)
  <2>1. ItsTurn(c) \in BOOLEAN
    BY DEF ItsTurn
  <2>2. Count(ItsTurn(c))
    BY <1>4
    DEF Step, Start, Issue, Call, Begin, Answered, Publish, Audited, AuditFails, UseNoted,
        EffectEnds, Advance, Enter, Reread, ReadGrants, WriteGrants, Signal, AddWaiter,
        Recheck, RemoveWaiter, From
  <2>3. QED
    BY <1>2, <2>1, <2>2
<1>5. QED
  BY <1>3, <1>4

LEMMA StepPlaces ==
  ASSUME LocalsInv, NEW c \in Calls, Step(c), yields' = 0
  PROVE  /\ \/ pc'[c] \notin Committed
            \/ pc[c] \in Committed
            \/ \A d \in Calls : pc[d] \notin Committed
            \/ pc'[c] = "leaving" /\ \E d \in Calls : pc[d] = "signalling"
         /\ pc[c] = "signalling" => pc'[c] \in {"signalling", "auditing"}
         /\ pc[c] = "leaving" => pc'[c] = "returned"
<1>1. \/ pc[c] \in Committed
      \/ \A d \in Calls : pc[d] \notin Committed
      \/ pc'[c] = "leaving" /\ \E d \in Calls : pc[d] = "signalling"
  BY InTurn DEF ItsTurn
<1>2. CASE Start(c) \/ Answered(c) \/ EffectEnds(c)
  BY <1>1, <1>2 DEF LocalsInv, TypeOK, Start, Issue, Call, Begin, Answered, Publish, Audited,
     AuditFails, UseNoted, StartEffect, EffectEnds, From, Goto
<1>3. CASE Advance(c)
  BY <1>1, <1>3 DEF LocalsInv, TypeOK, Advance, Enter, Reread, Proceed, StartTransition,
     ReadGrants, WriteGrants, Signal, AddWaiter, Recheck, StartEffect, CutShort,
     RemoveWaiter, From, Goto
<1>4. QED
  BY <1>2, <1>3 DEF Step

LEMMA OneAtATimeStep ==
  ASSUME LocalsInv, OneAtATime, NEW c \in Calls, Step(c), yields' = 0
  PROVE  OneAtATime'
  BY StepPlaces, OthersStay DEF OneAtATime, Interrupting, Committed

\* Only a call at a place of its own choosing touches the grants: no other is
\* between reading and writing them.
LEMMA GrantsFrame ==
  ASSUME LocalsInv, OneAtATime, NEW c \in Calls, Step(c), yields' = 0, grants' # grants
  PROVE  \A d \in Calls : d # c /\ pc[d] \in Committed => pc[d] \in Interrupting
<1>1. pc'[c] # "leaving" \/ pc[c] \in Committed
  BY DEF Step, Start, Issue, Call, Begin, Answered, Publish, Audited, AuditFails, UseNoted,
     EffectEnds, Advance, Enter, Reread, ReadGrants, WriteGrants, Signal, AddWaiter,
     Recheck, CutShort, RemoveWaiter, From, Goto, LocalsInv, TypeOK, Committed
<1>2. pc[c] \in Committed \/ \A d \in Calls : pc[d] \notin Committed
  BY <1>1, InTurn DEF ItsTurn
<1>3. QED
  BY <1>2 DEF OneAtATime

\* A step neither takes a grant away nor changes what it is, renames no end, and
\* moves only the Deferred of the call that makes it, unless it tears the grant.
GrantsKept(c) ==
    /\ \A t \in Tokens \ torn' : grants[t] # None =>
        /\ grants'[t] # None
        /\ grants'[t].oneTime = grants[t].oneTime
        /\ grants[t].status # "active" => grants'[t].status = grants[t].status
        /\ \A d \in Calls : d # c =>
            (d \in grants'[t].waiters <=> d \in grants[t].waiters)
        /\ pc[c] = "leaving" /\ t = loc[c].token => c \notin grants'[t].waiters
        /\ pc[c] = "registering" /\ t = loc[c].token => c \in grants'[t].waiters
        /\ pc[c] \notin {"leaving", "registering"} \/ t # loc[c].token =>
            grants'[t].waiters = grants[t].waiters
        /\ pc[c] # "writing" \/ t # loc[c].token => grants'[t].status = grants[t].status
    /\ \A t \in Tokens \ torn' : grants[t] = None /\ grants'[t] # None =>
        pc[c] = "issuing" /\ t = loc[c].token /\ grants'[t].waiters = {}

LEMMA StepKeepsGrants ==
  ASSUME LocalsInv, TokensInv, NEW c \in Calls, Step(c)
  PROVE  GrantsKept(c)
<1> DEFINE t == loc[c].token
<1>1. CASE grants' = grants /\ pc[c] \notin {"leaving", "registering"}
  BY <1>1 DEF GrantsKept
<1>2. ASSUME NEW g \in Grant, t \in Tokens, grants' = [grants EXCEPT ![t] = g],
             \/ t \in torn'
             \/ grants[t] = None /\ pc[c] = "issuing" /\ g.waiters = {}
             \/ /\ grants[t] # None
                /\ g.oneTime = grants[t].oneTime
                /\ \/ pc[c] = "registering" /\ g.status = grants[t].status
                      /\ g.waiters = grants[t].waiters \cup {c}
                   \/ pc[c] = "leaving" /\ g.status = grants[t].status
                      /\ g.waiters = grants[t].waiters \ {c}
      PROVE  GrantsKept(c)
  <2>1. /\ grants'[t] = g /\ g # None
        /\ \A u \in Tokens : u # t => grants'[u] = grants[u]
    BY <1>2, NoneAssumption DEF LocalsInv, TypeOK, GrantMap
  <2>2. QED
    BY <1>2, <2>1 DEF GrantsKept
<1>3. ASSUME NEW oneTime \in BOOLEAN, NEW expires \in BOOLEAN, Publish(c, oneTime, expires)
      PROVE  GrantsKept(c)
  <2>1. NewGrant(c, oneTime, expires) \in Grant /\ NewGrant(c, oneTime, expires).waiters = {}
    BY DEF NewGrant, Grant, Statuses
  <2>2. pc[c] = "issuing" /\ t \in Tokens /\ (t \in torn' \/ grants[t] = None)
    BY <1>3 DEF Publish, From, TokensInv, Whole, LocalsInv, LocalsOf
  <2>3. QED
    BY <1>2, <1>3, <2>1, <2>2 DEF Publish
<1>4. CASE WriteGrants(c)
  <2> DEFINE was == loc[c].seen
             g == [was[t] EXCEPT !.status = loc[c].to]
  <2>1. /\ pc[c] = "writing" /\ t \in Tokens /\ was \in GrantMap
        /\ was[t] \in Grant /\ was[t].status = "active" /\ was[t] # None
        /\ loc[c].to \in Statuses
    BY <1>4, NoneAssumption DEF WriteGrants, From, LocalsInv, LocalsOf, TypeOK, Locals
  <2>2. /\ g \in Grant /\ g # None
        /\ g.oneTime = was[t].oneTime /\ g.waiters = was[t].waiters
    BY <2>1, NoneAssumption DEF Grant
  <2>3. \A u \in Tokens \ torn' :
          /\ was[u] = grants[u]
          /\ u # t => grants'[u] = grants[u]
          /\ u = t => grants'[u] = g
    <3>1. \A u \in Tokens \ torn' : was[u] = grants[u]
      BY <1>4 DEF WriteGrants
    <3>2. grants' = [was EXCEPT ![t] = g]
      BY <1>4 DEF WriteGrants
    <3> HIDE DEF g
    <3>3. QED
      BY <2>1, <3>1, <3>2 DEF GrantMap
  <2> HIDE DEF g
  <2>4. QED
    BY <2>1, <2>2, <2>3 DEF GrantsKept
<1>5. CASE AddWaiter(c) \/ RemoveWaiter(c)
  <2> DEFINE waiters == IF pc[c] = "registering" THEN grants[t].waiters \cup {c}
                        ELSE grants[t].waiters \ {c}
             g == [grants[t] EXCEPT !.waiters = waiters]
  <2>1. t \in Tokens /\ pc[c] \in {"registering", "leaving"}
    BY <1>5 DEF AddWaiter, RemoveWaiter, From, LocalsInv, LocalsOf
  <2>2. CASE grants[t] = None
    BY <1>5, <2>1, <2>2
    DEF AddWaiter, RemoveWaiter, WithWaiters, GrantsKept
  <2>3. CASE grants[t] # None
    <3>1. grants[t] \in Grant
      BY <2>1, <2>3 DEF LocalsInv, TypeOK, GrantMap
    <3>2. /\ g \in Grant /\ g.oneTime = grants[t].oneTime
          /\ g.status = grants[t].status /\ g.waiters = waiters
      BY <3>1 DEF Grant
    <3>3. grants' = [grants EXCEPT ![t] = g]
      BY <1>5, <2>3, <3>1
      DEF AddWaiter, RemoveWaiter, WithWaiters, RemainingWaiters, HeldGrant, From
    <3>4. QED
      BY <1>2, <2>1, <2>3, <3>2, <3>3
  <2>4. QED
    BY <2>2, <2>3
<1>6. QED
  BY <1>1, <1>3, <1>4, <1>5
  DEF Step, Start, Issue, Call, Begin, Answered, Audited, AuditFails, UseNoted, EffectEnds,
      Advance, Enter, Reread, ReadGrants, Signal, Recheck, CutShort, From

LEMMA ReadStep ==
  ASSUME LocalsInv, OneAtATime, ReadIsCurrent, NEW c \in Calls, Step(c), yields' = 0
  PROVE  ReadIsCurrent'
<1>1. ASSUME NEW d \in Calls, d # c
      PROVE  /\ pc'[d] = "writing" => loc'[d].seen = grants' /\ IsActive(d)'
             /\ pc'[d] = "transition" /\ loc'[d].op # "revoke" => IsActive(d)'
  <2>1. pc[d] \in {"writing", "transition"} => grants' = grants
    BY <1>1, GrantsFrame DEF Interrupting, Committed
  <2>2. QED
    BY <1>1, <2>1, OthersStay DEF ReadIsCurrent, IsActive, Missing, HeldGrant
<1>2. ASSUME pc'[c] \in {"writing", "transition"}
      PROVE  \/ /\ pc'[c] = "writing" /\ IsActive(c) /\ loc'[c].seen = grants
                /\ loc'[c].token = loc[c].token /\ grants' = grants
             \/ /\ pc'[c] = "transition" /\ IsActive(c)
                /\ loc'[c].token = loc[c].token /\ grants' = grants
             \/ pc'[c] = "transition" /\ loc'[c].op = "revoke"
  <2>1. CASE Start(c)
    BY <1>2, <2>1 DEF Start, Issue, Call, Begin, Goto, LocalsInv, TypeOK, NoLocals
  <2>2. CASE Answered(c) \/ EffectEnds(c)
    BY <1>2, <2>2 DEF Answered, Publish, Audited, AuditFails, AfterTransition, UseNoted,
       StartEffect, EffectEnds, Goto, LocalsInv, TypeOK
  <2>3. CASE Enter(c) \/ Reread(c)
    BY <1>2, <2>3 DEF Enter, Reread, Expiring, Proceed, StartTransition, Goto, LocalsInv,
       TypeOK, Locals
  <2>4. CASE ReadGrants(c)
    BY <1>2, <2>4 DEF ReadGrants, Transitions, AfterTransition, Goto, LocalsInv, TypeOK,
       Locals
  <2>5. CASE Advance(c) /\ ~(Enter(c) \/ Reread(c) \/ ReadGrants(c))
    BY <1>2, <2>5 DEF Advance, WriteGrants, Signal, AddWaiter, Recheck, StartEffect,
       CutShort, RemoveWaiter, From, Goto, LocalsInv, TypeOK
  <2>6. QED
    BY <2>1, <2>2, <2>3, <2>4, <2>5 DEF Step
<1>3. QED
  BY <1>1, <1>2 DEF ReadIsCurrent, IsActive, Missing, HeldGrant

\* As long as nobody has yielded nothing is torn.
LEMMA YieldsStep ==
  ASSUME LocalsInv, YieldsInv, ConsumptionInv, NEW c \in Calls, Step(c)
  PROVE  YieldsInv'
<1> SUFFICES ASSUME yields' = 0
             PROVE  torn' = {} /\ OneAtATime' /\ ReadIsCurrent'
  BY DEF YieldsInv
<1>1. torn = {} /\ OneAtATime /\ ReadIsCurrent
  BY InTurn DEF YieldsInv
<1>2. torn' = {}
  <2>1. CASE ReadGrants(c)
    <3>1. loc[c].to = "consumed" => Transitions(c)
      BY <1>1, <2>1 DEF ReadGrants, From, ReadIsCurrent, ConsumptionInv, Transitions
    <3>2. QED
      BY <1>1, <2>1, <3>1 DEF ReadGrants
  <2>2. CASE WriteGrants(c)
    BY <1>1, <2>2 DEF WriteGrants, From, ReadIsCurrent
  <2>3. CASE torn' = torn
    BY <1>1, <2>3
  <2>4. QED
    BY <2>1, <2>2, <2>3
    DEF Step, Start, Issue, Call, Answered, Publish, Audited, AuditFails, UseNoted,
        EffectEnds, Advance, Enter, Reread, Signal, AddWaiter, Recheck, CutShort,
        RemoveWaiter
<1>3. QED
  BY <1>1, <1>2, OneAtATimeStep, ReadStep

\* What is whole after a step was so before.
LEMMA WholeStays ==
  ASSUME LocalsInv, NEW c \in Calls, Step(c)
  PROVE  /\ \A t \in Tokens \ torn' : t \notin torn
         /\ \A d \in Calls : Whole(d)' /\ loc'[d].token = loc[d].token =>
                Whole(d) /\ loc[d].token \notin torn'
<1>1. torn \in SUBSET torn'
  BY HistoryStep DEF Next, Step
<1>2. QED
  BY <1>1 DEF Whole

\* A call that starts its effect has consumed the grant or found it still held.
LEMMA EffectStarts ==
  ASSUME LocalsInv, NEW c \in Calls, Step(c)
  PROVE  \/ ran' = ran
         \/ /\ ran' = [ran EXCEPT ![loc[c].token] = @ \cup {c}]
            /\ loc' = loc /\ grants' = grants /\ loc[c].token \in Tokens
            /\ \/ pc[c] = "noting" /\ loc[c].to = "consumed" /\ pc'[c] = "running"
               \/ pc[c] = "rechecking" /\ pc'[c] = "racing" /\ StillHeld(c)
<1>1. CASE UseNoted(c)
  BY <1>1 DEF UseNoted, StartEffect, From, Goto, LocalsInv, LocalsOf, TypeOK
<1>2. CASE Recheck(c)
  BY <1>2 DEF Recheck, StartEffect, From, Goto, LocalsInv, LocalsOf, TypeOK
<1>3. QED
  BY <1>1, <1>2
  DEF Step, Start, Issue, Call, Answered, Publish, Audited, AuditFails, EffectEnds, Advance,
      Enter, Reread, ReadGrants, WriteGrants, Signal, AddWaiter, CutShort, RemoveWaiter

LEMMA TokensStep ==
  ASSUME LocalsInv, TokensInv, ConsumptionInv, NEW c \in Calls, Step(c)
  PROVE  TokensInv'
<1>1. GrantsKept(c)
  BY StepKeepsGrants
<1>2. \A t \in Tokens \ torn' : grants'[t] = None => ran'[t] = {}
  <2>1. ran' # ran /\ Whole(c) => ~Missing(c)
    BY EffectStarts DEF ConsumptionInv, HasConsumed, Tracking
  <2>2. QED
    BY <1>1, <2>1, EffectStarts, WholeStays DEF Whole, GrantsKept, TokensInv, LocalsInv, TypeOK, Missing,
       HeldGrant
<1>3. drawn \subseteq drawn'
  BY DEF Step, Start, Issue, Call, Answered, Publish, Audited, AuditFails, UseNoted,
     EffectEnds, Advance, Enter, Reread, ReadGrants, WriteGrants, Signal, AddWaiter,
     Recheck, CutShort, RemoveWaiter
<1>4. \A t \in Tokens \ torn' : grants'[t] # None => t \in drawn'
  BY <1>1, <1>3, WholeStays DEF GrantsKept, TokensInv
<1>5. pc'[c] = "issuing" =>
        /\ loc'[c].token \in drawn' \ drawn /\ loc'[c].token \in Tokens
        /\ grants' = grants
  <2>1. CASE Start(c)
    BY <2>1, BeginLocals DEF Start, Issue, Call
  <2>2. CASE Answered(c) \/ EffectEnds(c)
    BY <2>2 DEF Answered, Publish, Audited, AuditFails, AfterTransition, UseNoted,
       StartEffect, EffectEnds, Goto, LocalsInv, TypeOK
  <2>3. CASE Advance(c)
    BY <2>3 DEF Advance, Enter, Reread, Proceed, StartTransition, ReadGrants,
       AfterTransition, WriteGrants, Signal, AddWaiter, Recheck, StartEffect, CutShort,
       RemoveWaiter, From, Goto, LocalsInv, TypeOK
  <2>4. QED
    BY <2>1, <2>2, <2>3 DEF Step
<1>6. \A d \in Calls : pc'[d] = "issuing" =>
        /\ loc'[d].token \in drawn'
        /\ Whole(d)' => grants'[loc'[d].token] = None
  <2>1. ASSUME NEW d \in Calls, d # c, pc[d] = "issuing"
        PROVE  /\ loc[d].token \in drawn' /\ loc'[d].token = loc[d].token
               /\ Whole(d)' => grants'[loc[d].token] = None
    <3>1. loc[d].token \in drawn' /\ loc[d].token \in Tokens /\ loc'[d] = loc[d]
      BY <1>3, <2>1, OthersStay DEF TokensInv, LocalsInv, LocalsOf
    <3>2. ASSUME Whole(d)', grants'[loc[d].token] # None
          PROVE  FALSE
      <4>1. Whole(d) /\ loc[d].token \notin torn'
        BY <3>1, <3>2, WholeStays
      <4>2. grants[loc[d].token] = None
        BY <2>1, <4>1 DEF TokensInv
      <4>3. pc[c] = "issuing" /\ loc[d].token = loc[c].token
        BY <1>1, <3>1, <3>2, <4>1, <4>2 DEF GrantsKept
      <4>4. QED
        BY <2>1, <4>3 DEF TokensInv
    <3>3. QED
      BY <3>1, <3>2
  <2>2. ASSUME pc'[c] = "issuing", Whole(c)'
        PROVE  grants'[loc'[c].token] = None
    <3>1. loc'[c].token \in Tokens \ torn' /\ loc'[c].token \notin drawn
      BY <1>5, <2>2 DEF Whole
    <3>2. QED
      BY <1>5, <2>2, <3>1, WholeStays DEF TokensInv
  <2>3. QED
    BY <1>5, <2>1, <2>2, OthersStay
<1>7. \A d, e \in Calls : d # e /\ pc'[d] = "issuing" /\ pc'[e] = "issuing" =>
        loc'[d].token # loc'[e].token
  BY <1>5, OthersStay DEF TokensInv
<1>8. QED
  BY <1>2, <1>4, <1>6, <1>7 DEF TokensInv

\* How a call comes to have consumed its grant, and to keep having done so.
LEMMA ConsumptionCases ==
  ASSUME LocalsInv, ConsumptionInv, NEW c \in Calls, Step(c),
         loc'[c].to = "consumed"
  PROVE  /\ loc'[c].token = loc[c].token /\ loc'[c].op = "use"
         /\ \/ HasConsumed(c) /\ HasConsumed(c)'
            \/ /\ pc'[c] \in {"transition", "writing"}
               /\ pc[c] \notin {"returned", "running"}
               /\ pc'[c] = "transition" => IsActive(c) /\ grants' = grants
            \/ /\ pc[c] = "writing" /\ pc'[c] \in {"signalling", "auditing"}
               /\ Whole(c)' => IsActive(c) /\ ~Missing(c)' /\ ~IsActive(c)'
            \/ pc[c] = "transition" /\ pc'[c] = "noting" /\ ~Whole(c)'
            \/ pc[c] = "transition" /\ pc'[c] = "returned" /\ Missing(c)
<1>1. CASE Start(c)
  BY <1>1, BeginLocals DEF Start, Issue, Call
<1>2. CASE Answered(c) \/ EffectEnds(c)
  BY <1>2 DEF Answered, Publish, Audited, AuditFails, AfterTransition, UseNoted,
     StartEffect, EffectEnds, From, Goto, LocalsInv, TypeOK, HasConsumed, ConsumptionInv
<1>3. CASE Enter(c) \/ Reread(c)
  BY <1>3 DEF Enter, Reread, Proceed, StartTransition, From, Goto, LocalsInv, TypeOK, Locals,
     HasConsumed, ConsumptionInv
<1>4. CASE ReadGrants(c)
  BY <1>4 DEF ReadGrants, Transitions, From, Goto, LocalsInv, LocalsOf, TypeOK, Locals,
     AfterTransition, Whole, HasConsumed, ConsumptionInv
<1>5. CASE WriteGrants(c)
  <2> DEFINE t == loc[c].token
             g == [loc[c].seen[t] EXCEPT !.status = "consumed"]
  <2>1. /\ pc[c] = "writing" /\ t \in Tokens /\ loc[c].seen \in GrantMap
        /\ loc[c].seen[t] \in Grant /\ loc[c].seen[t].status = "active"
    BY <1>5 DEF WriteGrants, From, LocalsInv, LocalsOf
  <2>2. /\ loc'[c].token = t /\ loc'[c].op = loc[c].op /\ loc'[c].to = loc[c].to
        /\ pc'[c] \in {"signalling", "auditing"}
    BY <1>5 DEF WriteGrants, Goto, LocalsInv, TypeOK, Locals
  <2>3. grants'[t] = g /\ g \in Grant /\ g.status = "consumed"
    BY <1>5, <2>1, <2>2 DEF WriteGrants, Grant, Statuses, GrantMap
  <2>4. Whole(c)' => grants[t] = loc[c].seen[t]
    BY <1>5, <2>1, <2>2 DEF WriteGrants, Whole
  <2> HIDE DEF g
  <2>5. QED
    BY <2>1, <2>2, <2>3, <2>4, NoneAssumption
    DEF ConsumptionInv, IsActive, Missing, HeldGrant
<1>6. ASSUME NEW d \in Calls, Signal(c, d)
      PROVE  /\ loc'[c].token = loc[c].token /\ loc'[c].op = "use"
             /\ HasConsumed(c) /\ HasConsumed(c)'
  BY <1>6 DEF Signal, From, Goto, LocalsInv, TypeOK, Locals, HasConsumed, ConsumptionInv
<1>7. CASE AddWaiter(c) \/ Recheck(c) \/ CutShort(c) \/ RemoveWaiter(c)
  BY <1>7 DEF AddWaiter, Recheck, StartEffect, CutShort, RemoveWaiter, From, Goto,
     HasConsumed, ConsumptionInv
<1>8. QED
  BY <1>1, <1>2, <1>3, <1>4, <1>5, <1>6, <1>7 DEF Step, Advance

LEMMA StillConsumed ==
  ASSUME LocalsInv, NEW c \in Calls, Step(c), HasConsumed(c)
  PROVE  HasConsumed(c)' /\ loc'[c].token = loc[c].token
<1>1. CASE Start(c)
  BY <1>1 DEF Start, Issue, Call, Begin, From, HasConsumed
<1>2. CASE Answered(c) \/ EffectEnds(c)
  BY <1>2 DEF Answered, Publish, Audited, AuditFails, AfterTransition, UseNoted,
     StartEffect, EffectEnds, From, Goto, LocalsInv, TypeOK, HasConsumed
<1>3. CASE Advance(c)
  BY <1>3 DEF Advance, Enter, Reread, ReadGrants, WriteGrants, Signal, AddWaiter, Recheck,
     CutShort, RemoveWaiter, From, Goto, LocalsInv, TypeOK, Locals, HasConsumed
<1>4. QED
  BY <1>1, <1>2, <1>3 DEF Step

\* A use is tracked only if the grant it read was not one-time.
LEMMA TrackingStarts ==
  ASSUME LocalsInv, NEW c \in Calls, Step(c), Tracking(c)'
  PROVE  /\ loc'[c].token = loc[c].token
         /\ Tracking(c) \/ (IsActive(c) /\ ~HeldGrant(c).oneTime)
<1>1. CASE Start(c)
  BY <1>1, BeginLocals DEF Start, Issue, Call, Tracking
<1>2. CASE Answered(c) \/ EffectEnds(c)
  BY <1>2 DEF Answered, Publish, Audited, AuditFails, AfterTransition, UseNoted,
     StartEffect, EffectEnds, From, Goto, LocalsInv, TypeOK, Tracking
<1>3. CASE Enter(c) \/ Reread(c)
  BY <1>3 DEF Enter, Reread, Proceed, Consumes, StartTransition, From, Goto, LocalsInv,
     TypeOK, Tracking
<1>4. CASE Advance(c) /\ ~(Enter(c) \/ Reread(c))
  BY <1>4 DEF Advance, ReadGrants, AfterTransition, WriteGrants, Signal, AddWaiter, Recheck,
     StartEffect, CutShort, RemoveWaiter, From, Goto, LocalsInv, TypeOK, Locals, Tracking
<1>5. QED
  BY <1>1, <1>2, <1>3, <1>4 DEF Step

\* Who consumes a grant uses it.
LEMMA TransitionUses ==
  ASSUME LocalsInv, ConsumptionInv, NEW c \in Calls, Step(c), loc'[c].to = "consumed",
         pc[c] = "transition"
  PROVE  loc[c].op # "revoke" /\ loc'[c].token = loc[c].token
<1>1. ReadGrants(c)
  BY DEF Step, Start, Issue, Call, Begin, Answered, Publish, Audited, AuditFails, UseNoted,
     EffectEnds, Advance, Enter, Reread, WriteGrants, Signal, AddWaiter, Recheck, CutShort,
     RemoveWaiter, From
<1>2. loc'[c].to = loc[c].to /\ loc'[c].token = loc[c].token
  BY <1>1 DEF ReadGrants, LocalsInv, TypeOK, Locals
<1>3. QED
  BY <1>2 DEF ConsumptionInv

\* An expiry or a consumption begins on an active grant.
LEMMA TransitionStarts ==
  ASSUME LocalsInv, NEW c \in Calls, Step(c), pc'[c] = "transition", loc'[c].op # "revoke"
  PROVE  IsActive(c) /\ loc'[c].token = loc[c].token /\ grants' = grants
<1>1. CASE Start(c)
  BY <1>1, BeginLocals DEF Start, Issue, Call
<1>2. CASE Answered(c) \/ EffectEnds(c)
  BY <1>2 DEF Answered, Publish, Audited, AuditFails, AfterTransition, UseNoted,
     StartEffect, EffectEnds, Goto, LocalsInv, TypeOK
<1>3. CASE Enter(c) \/ Reread(c)
  BY <1>3 DEF Enter, Reread, Expiring, Proceed, StartTransition, Goto, LocalsInv, TypeOK,
     Locals
<1>4. CASE Advance(c) /\ ~(Enter(c) \/ Reread(c))
  BY <1>4 DEF Advance, ReadGrants, AfterTransition, WriteGrants, Signal, AddWaiter, Recheck,
     StartEffect, CutShort, RemoveWaiter, From, Goto, LocalsInv, TypeOK
<1>5. QED
  BY <1>1, <1>2, <1>3, <1>4 DEF Step

LEMMA ConsumptionStep ==
  ASSUME LocalsInv, TokensInv, ConsumptionInv, NEW c \in Calls, Step(c)
  PROVE  ConsumptionInv'
<1>1. GrantsKept(c)
  BY StepKeepsGrants
<1>2. \A d \in Calls : d # c => pc'[d] = pc[d] /\ loc'[d] = loc[d]
  BY OthersStay
<1>3. \A d \in Calls : loc'[d].to = "consumed" =>
        /\ HasConsumed(d)' \/ pc'[d] \in {"transition", "writing"}
        /\ loc'[d].op = "use"
  <2>1. loc'[c].to = "consumed" =>
          /\ HasConsumed(c)' \/ pc'[c] \in {"transition", "writing"}
          /\ loc'[c].op = "use"
    BY ConsumptionCases DEF HasConsumed
  <2>2. QED
    BY <1>2, <2>1 DEF ConsumptionInv, HasConsumed
<1>4. \A d \in Calls : HasConsumed(d)' /\ Whole(d)' => ~Missing(d)' /\ ~IsActive(d)'
  <2>1. ASSUME NEW d \in Calls, HasConsumed(d), Whole(d)', loc'[d].token = loc[d].token
        PROVE  ~Missing(d)' /\ ~IsActive(d)'
    <3>1. Whole(d) /\ loc[d].token \in Tokens \ torn'
      BY <2>1, WholeStays DEF HasConsumed, LocalsInv, LocalsOf
    <3>2. QED
      BY <1>1, <2>1, <3>1 DEF GrantsKept, ConsumptionInv, Missing, IsActive, HeldGrant
  <2>2. HasConsumed(c)' /\ Whole(c)' => ~Missing(c)' /\ ~IsActive(c)'
    <3>1. pc[c] = "transition" /\ loc'[c].to = "consumed" /\ Whole(c)' /\ Missing(c)
            => pc'[c] # "returned"
      BY ConsumptionCases, WholeStays, TransitionUses DEF ConsumptionInv
    <3>2. QED
      BY <2>1, <3>1, ConsumptionCases DEF HasConsumed
  <2>3. QED
    BY <1>2, <2>1, <2>2 DEF HasConsumed
<1>5. \A d, e \in Calls :
        HasConsumed(d)' /\ HasConsumed(e)' /\ Whole(d)' /\ loc'[d].token = loc'[e].token
        => d = e
  <2>1. ASSUME NEW d \in Calls, d # c, HasConsumed(d)', HasConsumed(c)', Whole(c)',
               loc'[d].token = loc'[c].token
        PROVE  FALSE
    <3>1. HasConsumed(d) /\ loc[d].token = loc[c].token /\ Whole(c) /\ Whole(d)
      BY <1>2, <2>1, ConsumptionCases, WholeStays DEF HasConsumed, Whole
    <3>2. ~IsActive(c) /\ ~Missing(c)
      BY <3>1 DEF ConsumptionInv, IsActive, Missing, HeldGrant
    <3>3. HasConsumed(c)
      BY <2>1, <3>2, ConsumptionCases DEF HasConsumed
    <3>4. QED
      BY <2>1, <3>1, <3>3 DEF ConsumptionInv
  <2>2. ASSUME NEW d \in Calls, NEW e \in Calls, d # c, e # c,
               HasConsumed(d)', HasConsumed(e)', Whole(d)', loc'[d].token = loc'[e].token
        PROVE  d = e
    BY <1>2, <2>2, WholeStays DEF ConsumptionInv, HasConsumed
  <2>3. QED
    BY <2>1, <2>2 DEF Whole
<1>6. \A d \in Calls : Tracking(d)' /\ Whole(d)' => ~Missing(d)' /\ ~(HeldGrant(d).oneTime)'
  <2>1. ASSUME NEW d \in Calls, ~Missing(d), ~HeldGrant(d).oneTime, Whole(d)',
               loc'[d].token = loc[d].token, loc[d].token \in Tokens
        PROVE  ~Missing(d)' /\ ~(HeldGrant(d).oneTime)'
    BY <1>1, <2>1, WholeStays DEF GrantsKept, Missing, HeldGrant
  <2>2. ASSUME Tracking(c)', Whole(c)'
        PROVE  ~Missing(c) /\ ~HeldGrant(c).oneTime /\ loc'[c].token = loc[c].token
    BY <2>2, TrackingStarts, WholeStays DEF ConsumptionInv, IsActive
  <2>3. \A d \in Calls : Tracking(d) => loc[d].token \in Tokens
    BY DEF Tracking, LocalsInv, LocalsOf
  <2>4. LocalsInv'
    BY NextLocals DEF Next, Step
  <2>5. Tracking(c)' => loc'[c].token \in Tokens
    BY <2>4 DEF Tracking, LocalsInv, LocalsOf
  <2>6. ASSUME NEW d \in Calls, d # c, Tracking(d)', Whole(d)'
        PROVE  ~Missing(d)' /\ ~(HeldGrant(d).oneTime)'
    <3>1. Tracking(d) /\ Whole(d) /\ loc'[d].token = loc[d].token
      BY <1>2, <2>6, WholeStays DEF Tracking
    <3>2. QED
      BY <2>1, <2>3, <2>6, <3>1 DEF ConsumptionInv
  <2>7. QED
    BY <2>1, <2>2, <2>5, <2>6
<1>7. ASSUME NEW t \in Tokens, t \notin torn', grants'[t] # None, grants'[t].oneTime, NEW d \in ran'[t]
      PROVE  HasConsumed(d)' /\ loc'[d].token = t
  <2>0. t \notin torn
    BY <1>7, WholeStays
  <2>1. grants[t] # None /\ grants[t].oneTime
    <3>1. CASE grants[t] = None
      <4>1. ran[t] = {} /\ pc[c] = "issuing" /\ t = loc[c].token
        BY <1>1, <1>7, <2>0, <3>1 DEF GrantsKept, TokensInv
      <4>2. ran' = ran
        BY <4>1, EffectStarts
      <4>3. QED
        BY <1>7, <4>1, <4>2
    <3>2. CASE grants[t] # None
      BY <1>1, <1>7, <3>2 DEF GrantsKept
    <3>3. QED
      BY <3>1, <3>2
  <2>2. CASE d \in ran[t]
    <3>1. d \in Calls /\ HasConsumed(d) /\ loc[d].token = t
      BY <2>0, <2>1, <2>2 DEF ConsumptionInv, LocalsInv, TypeOK
    <3>2. QED
      BY <1>2, <3>1, StillConsumed DEF HasConsumed
  <2>3. CASE d \notin ran[t]
    <3>1. d = c /\ loc[c].token = t /\ loc'[c] = loc[c]
      BY <1>7, <2>3, EffectStarts DEF LocalsInv, TypeOK
    <3>2. pc[c] = "rechecking" => ~grants[t].oneTime
      BY <2>0, <3>1 DEF ConsumptionInv, Tracking, HeldGrant, Whole
    <3>3. pc'[c] = "running" /\ loc[c].to = "consumed"
      BY <1>7, <2>1, <2>3, <3>2, EffectStarts
    <3>4. QED
      BY <3>1, <3>3 DEF HasConsumed
  <2>4. QED
    BY <2>2, <2>3
<1>8. ASSUME NEW d \in Calls, pc'[d] = "transition", loc'[d].op # "revoke", Whole(d)'
      PROVE  ~Missing(d)'
  <2>1. CASE d # c
    <3>1. /\ pc[d] = "transition" /\ loc[d].op # "revoke" /\ loc'[d].token = loc[d].token
          /\ loc[d].token \in Tokens
      BY <1>2, <1>8, <2>1 DEF LocalsInv, LocalsOf
    <3>2. Whole(d) /\ loc[d].token \notin torn' /\ ~Missing(d)
      BY <1>8, <3>1, WholeStays DEF ConsumptionInv
    <3>3. QED
      BY <1>1, <3>1, <3>2 DEF GrantsKept, Missing, HeldGrant
  <2>2. CASE d = c
    BY <1>8, <2>2, TransitionStarts DEF IsActive, Missing, HeldGrant
  <2>3. QED
    BY <2>1, <2>2
<1>9. QED
  BY <1>3, <1>4, <1>5, <1>6, <1>7, <1>8 DEF ConsumptionInv

-------------------------------------------------------------------------------
(* Waiters *)

\* Where a use is that has, or is about to have, a Deferred with its grant.
LEMMA UsePlaces ==
  ASSUME LocalsInv, NEW c \in Calls, Step(c)
  PROVE  /\ pc'[c] = "rechecking" => pc[c] = "registering"
         /\ pc'[c] = "racing" => pc[c] = "rechecking" /\ grants' = grants /\ StillHeld(c)
         /\ pc'[c] \in {"rechecking", "racing"} => loc'[c] = loc[c]
         /\ pc[c] = "registering" => pc'[c] = "rechecking"
         /\ pc[c] \in {"rechecking", "racing"} =>
              pc'[c] \in {"racing", "leaving"} /\ loc'[c] = loc[c]
<1>1. CASE Start(c)
  BY <1>1, BeginLocals DEF Start, Issue, Call
<1>2. CASE Answered(c) \/ EffectEnds(c)
  BY <1>2 DEF Answered, Publish, Audited, AuditFails, AfterTransition, UseNoted,
     StartEffect, EffectEnds, From, Goto, LocalsInv, TypeOK
<1>3. CASE Advance(c)
  BY <1>3 DEF Advance, Enter, Reread, Proceed, StartTransition, ReadGrants,
     AfterTransition, WriteGrants, Signal, AddWaiter, Recheck, StartEffect, CutShort,
     RemoveWaiter, From, Goto, LocalsInv, TypeOK
<1>4. QED
  BY <1>1, <1>2, <1>3 DEF Step

\* A Deferred goes from the list of a transition to the completed ones; only the
\* write of a transition makes a list.
LEMMA ListKept ==
  ASSUME LocalsInv, WaitersInv, NEW c \in Calls, Step(c)
  PROVE  /\ pc'[c] # "signalling" => loc'[c].todo = {}
         /\ \A d \in loc[c].todo : d \in loc'[c].todo \/ d \in signalled'
         /\ signalled \subseteq signalled'
         /\ pc[c] = "writing" => loc'[c].todo = loc[c].seen[loc[c].token].waiters
<1>1. CASE Start(c)
  BY <1>1, BeginLocals DEF Start, Issue, Call, WaitersInv
<1>2. CASE Answered(c) \/ EffectEnds(c)
  BY <1>2 DEF Answered, Publish, Audited, AuditFails, AfterTransition, UseNoted,
     StartEffect, EffectEnds, From, Goto, LocalsInv, TypeOK, WaitersInv
<1>3. CASE Enter(c) \/ Reread(c) \/ ReadGrants(c)
  BY <1>3 DEF Enter, Reread, Proceed, StartTransition, ReadGrants, AfterTransition, From,
     Goto, LocalsInv, TypeOK, Locals, WaitersInv
<1>4. CASE WriteGrants(c)
  BY <1>4 DEF WriteGrants, From, Goto, LocalsInv, TypeOK, Locals, WaitersInv
<1>5. ASSUME NEW d \in Calls, Signal(c, d)
      PROVE  /\ pc[c] = "signalling" /\ signalled' = signalled \cup {d}
             /\ loc'[c].todo = loc[c].todo \ {d}
             /\ pc'[c] # "signalling" => loc'[c].todo = {}
  BY <1>5 DEF Signal, RestOf, From, Goto, LocalsInv, TypeOK, Locals
<1>6. CASE AddWaiter(c) \/ Recheck(c) \/ CutShort(c) \/ RemoveWaiter(c)
  BY <1>6 DEF AddWaiter, Recheck, StartEffect, CutShort, RemoveWaiter, From, Goto, LocalsInv,
     TypeOK, WaitersInv
<1>7. QED
  BY <1>1, <1>2, <1>3, <1>4, <1>5, <1>6 DEF Step, Advance

LEMMA WaitersStep ==
  ASSUME LocalsInv, TokensInv, ConsumptionInv, WaitersInv, NEW c \in Calls,
         Step(c)
  PROVE  WaitersInv'
<1>1. GrantsKept(c)
  BY StepKeepsGrants
<1>2. \A d \in Calls : pc[d] \in {"registering", "rechecking", "racing"} =>
        loc[d].token \in Tokens /\ (Whole(d) => grants[loc[d].token] # None)
  BY DEF ConsumptionInv, Tracking, Missing, HeldGrant, LocalsInv, LocalsOf
<1>3. ASSUME NEW d \in Calls, pc'[d] \in {"rechecking", "racing"}, Whole(d)'
      PROVE  d \in grants'[loc'[d].token].waiters
  <2>1. /\ pc[d] \in {"registering", "rechecking", "racing"} /\ loc'[d].token = loc[d].token
        /\ d # c => pc'[d] = pc[d]
    BY <1>3, OthersStay, UsePlaces
  <2>2. Whole(d) /\ loc[d].token \in Tokens \ torn'
    BY <1>2, <1>3, <2>1, WholeStays
  <2>3. CASE d # c
    BY <1>1, <1>2, <1>3, <2>1, <2>2, <2>3 DEF GrantsKept, WaitersInv, HeldGrant
  <2>4. CASE d = c
    BY <1>1, <1>2, <1>3, <2>1, <2>2, <2>4, UsePlaces DEF GrantsKept, WaitersInv, HeldGrant
  <2>5. QED
    BY <2>3, <2>4
<1>4. \A d \in Calls : pc'[d] # "signalling" => loc'[d].todo = {}
  BY OthersStay, ListKept DEF WaitersInv
<1>5. QED
  BY <1>3, <1>4 DEF WaitersInv, HeldGrant

LEMMA LeaksStep ==
  ASSUME LocalsInv, TokensInv, LeaksInv, NEW c \in Calls, Step(c)
  PROVE  LeaksInv'
<1>1. GrantsKept(c)
  BY StepKeepsGrants
<1> SUFFICES ASSUME NEW t \in Tokens, t \notin torn', grants'[t] # None, NEW d \in grants'[t].waiters
             PROVE  loc'[d].token = t /\ pc'[d] \in {"rechecking", "racing", "leaving"}
  BY DEF LeaksInv
<1>2. d \in Calls
  <2>1. LocalsInv'
    BY NextLocals DEF Next, Step
  <2>2. QED
    BY <2>1 DEF LocalsInv, TypeOK, GrantMap, Grant
<1>3. t \notin torn
  BY WholeStays
<1>7. grants[t] # None
  BY <1>1 DEF GrantsKept
<1>4. CASE d \in grants[t].waiters
  <2>1. loc[d].token = t /\ pc[d] \in {"rechecking", "racing", "leaving"}
    BY <1>3, <1>4, <1>7 DEF LeaksInv
  <2>2. ~(d = c /\ pc[c] = "leaving")
    BY <1>1, <1>7, <2>1 DEF GrantsKept
  <2>3. QED
    BY <1>2, <2>1, <2>2, OthersStay, UsePlaces
<1>5. CASE d \notin grants[t].waiters
  <2>1. d = c /\ pc[c] = "registering" /\ loc[c].token = t
    BY <1>1, <1>2, <1>7, <1>5 DEF GrantsKept
  <2>2. QED
    BY <2>1, UsePlaces
<1>6. QED
  BY <1>4, <1>5

LEMMA ReachesStep ==
  ASSUME LocalsInv, TokensInv, ConsumptionInv, WaitersInv, ReachInv, NEW c \in Calls, Step(c)
  PROVE  ReachInv'
<1>1. GrantsKept(c)
  BY StepKeepsGrants
<1> SUFFICES ASSUME NEW d \in Calls, EndedUse(d)', Whole(d)'
             PROVE  d \in signalled' \/ \E e \in Calls : d \in loc'[e].todo
  BY DEF ReachInv
<1> DEFINE t == loc[d].token
<1>2. /\ pc'[d] = "racing" /\ grants'[loc'[d].token] # None
      /\ grants'[loc'[d].token].status # "active"
  BY DEF EndedUse, HeldGrant
<1>3. pc[d] = "racing" /\ loc'[d] = loc[d]
  <2>1. CASE d = c
    <3>1. pc[c] = "rechecking" /\ grants' = grants /\ StillHeld(c) /\ loc'[c] = loc[c]
      BY <1>2, <2>1, UsePlaces
    <3>2. ~Missing(c)
      BY <2>1, <3>1, WholeStays DEF ConsumptionInv, Tracking
    <3>3. QED
      BY <1>2, <2>1, <3>1, <3>2 DEF StillHeld, IsActive, Missing, HeldGrant
  <2>2. CASE d # c
    BY <1>2, <2>2, OthersStay
  <2>3. QED
    BY <2>1, <2>2
<1>4. /\ t \in Tokens \ torn' /\ Whole(d) /\ grants[t] # None
      /\ d \in grants[t].waiters
  BY <1>3, WholeStays DEF LocalsInv, LocalsOf, ConsumptionInv, Tracking, Missing, WaitersInv, HeldGrant
<1>5. CASE grants[t].status # "active"
  <2>1. d \in signalled \/ \E e \in Calls : d \in loc[e].todo
    BY <1>3, <1>4, <1>5 DEF ReachInv, EndedUse, HeldGrant
  <2>2. QED
    BY <2>1, OthersStay, ListKept
<1>6. CASE grants[t].status = "active"
  <2>1. pc[c] = "writing" /\ t = loc[c].token
    BY <1>1, <1>2, <1>3, <1>4, <1>6 DEF GrantsKept
  <2>2. loc'[c].todo = grants[t].waiters
    <3>1. loc'[c].todo = loc[c].seen[t].waiters
      BY <2>1, ListKept
    <3>2. WriteGrants(c)
      BY <2>1 DEF Step, Start, Issue, Call, Begin, Answered, Publish, Audited, AuditFails,
         UseNoted, EffectEnds, Advance, Enter, Reread, ReadGrants, Signal, AddWaiter,
         Recheck, CutShort, RemoveWaiter, From
    <3>3. QED
      BY <1>4, <3>1, <3>2 DEF WriteGrants
  <2>3. QED
    BY <1>4, <2>2
<1>7. QED
  BY <1>5, <1>6

-------------------------------------------------------------------------------
(* The invariant, and what follows from it *)

LEMMA InitGrants == Init => GrantsInv
  BY DEF Init, NoLocals, GrantsInv, YieldsInv, OneAtATime, Committed, ReadIsCurrent,
     TokensInv, ConsumptionInv, HasConsumed, Tracking, WaitersInv, LeaksInv, ReachInv,
     EndedUse

LEMMA NextGrants ==
  ASSUME LocalsInv, GrantsInv, [Next]_vars
  PROVE  GrantsInv'
<1>1. ASSUME NEW c \in Calls, Step(c)
      PROVE  GrantsInv'
  BY <1>1, YieldsStep, TokensStep, ConsumptionStep, WaitersStep, LeaksStep, ReachesStep
  DEF GrantsInv
<1>2. CASE UNCHANGED <<grants, drawn, signalled, pc, loc, ran, torn, yields>>
  BY <1>2 DEF GrantsInv, YieldsInv, OneAtATime, ReadIsCurrent, Whole, TokensInv,
     ConsumptionInv, HasConsumed, Tracking, WaitersInv, LeaksInv, ReachInv, EndedUse,
     IsActive, Missing, HeldGrant
<1>3. QED
  BY <1>1, <1>2, NextCases

\* In every schedule the grants that are not torn, their waiters and the calls
\* that use them agree, and before the first yield nothing is torn.
THEOREM GrantsHold == Spec => [](LocalsInv /\ GrantsInv)
<1>1. Init => LocalsInv /\ GrantsInv
  BY InitLocals, InitGrants
<1>2. LocalsInv /\ GrantsInv /\ [Next]_vars => LocalsInv' /\ GrantsInv'
  BY NextLocals, NextGrants
<1>3. QED
  BY <1>1, <1>2, PTL DEF Spec

\* A grant is intact exactly if it is not torn.
LEMMA IntactIs ==
  ASSUME GrantsInv
  PROVE  \A t : Intact(t) => t \notin torn
  BY DEF GrantsInv, YieldsInv, Intact

\* Whoever has started an effect under a one-time grant has consumed it, and
\* only one call can have.
LEMMA ConsumedOnce ==
  ASSUME LocalsInv, GrantsInv
  PROVE  OneTimeUsedOnce
<1> SUFFICES ASSUME NEW t \in Tokens, Intact(t), grants[t] # None, grants[t].oneTime
             PROVE  Cardinality(ran[t]) <= 1
  BY DEF OneTimeUsedOnce
<1>0. t \notin torn /\ ran[t] \in SUBSET Calls
  BY IntactIs DEF LocalsInv, TypeOK
<1>1. ran[t] \subseteq Calls /\ \A c, d \in ran[t] : c = d
  BY <1>0 DEF GrantsInv, ConsumptionInv, Whole
<1>2. CASE ran[t] = {}
  BY <1>2, FS_EmptySet
<1>3. ASSUME NEW c \in ran[t]
      PROVE  Cardinality(ran[t]) <= 1
  <2>1. ran[t] = {c}
    BY <1>1, <1>3
  <2>2. Cardinality({c}) = 1
    BY FS_Singleton
  <2>3. QED
    BY <2>1, <2>2
<1>4. QED
  BY <1>2, <1>3

\* However many calls hold the token, one of them at most runs under it, in every
\* schedule, until a consumption that found the grant ended goes on in spite of
\* it or a transition writes back a map that others have changed
\* (permission-registry.ts:640-672); neither happens before the first yield.
THEOREM OneTimeGrants == Spec => []OneTimeUsedOnce
<1>1. LocalsInv /\ GrantsInv => OneTimeUsedOnce
  BY ConsumedOnce
<1>2. QED
  BY <1>1, GrantsHold, PTL

\* A use that registers itself while its grant ends does not fall between, in
\* every schedule, unless the grant is torn.
THEOREM RevocationsReach == Spec => []RevocationReaches
<1>1. GrantsInv => RevocationReaches
  BY IntactIs DEF GrantsInv, ReachInv, RevocationReaches, Whole
<1>2. QED
  BY <1>1, GrantsHold, PTL

\* Every path out of use takes its Deferred off the grant, in every schedule,
\* unless the grant is torn.
THEOREM WaitersLeave == Spec => []NoWaiterLeaks
<1>1. GrantsInv => NoWaiterLeaks
  BY IntactIs DEF GrantsInv, LeaksInv, NoWaiterLeaks
<1>2. QED
  BY <1>1, GrantsHold, PTL

\* Whatever ends a grant first ends it for good, in every schedule, but for the
\* write that tears it.
THEOREM StatusesAreFinal == Spec => StatusIsFinal
<1>1. ASSUME LocalsInv, GrantsInv, GrantsInv', [Next]_vars
      PROVE  \A t \in Tokens : Intact(t)' /\ grants[t] # None /\ grants[t].status # "active"
                => (grants'[t] # None /\ grants'[t].status = grants[t].status)
  <2> SUFFICES ASSUME NEW t \in Tokens, Intact(t)', grants[t] # None,
                      grants[t].status # "active"
               PROVE  grants'[t] # None /\ grants'[t].status = grants[t].status
    OBVIOUS
  <2>1. t \notin torn'
    BY <1>1 DEF GrantsInv, YieldsInv, Intact
  <2>2. ASSUME NEW c \in Calls, Step(c)
        PROVE  grants'[t] # None /\ grants'[t].status = grants[t].status
    BY <1>1, <2>1, <2>2, StepKeepsGrants DEF GrantsKept, GrantsInv
  <2>3. QED
    BY <1>1, <2>2, NextCases
<1>2. LocalsInv /\ GrantsInv /\ GrantsInv' /\ [Next]_vars
        => [\A t \in Tokens : Intact(t)' /\ grants[t] # None /\ grants[t].status # "active"
                => (grants'[t] # None /\ grants'[t].status = grants[t].status)]_vars
  BY <1>1
<1>3. QED
  BY <1>2, GrantsHold, PTL DEF Spec, StatusIsFinal

===============================================================================
