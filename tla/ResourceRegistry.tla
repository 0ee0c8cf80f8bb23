--------------------------- MODULE ResourceRegistry ---------------------------
(***************************************************************************)
(* The ResourceRegistry of packages/core/src/runtime/resources.ts: handles *)
(* of long-lived resources, owned by scopes that nest, each stamped with a *)
(* generation, several handles possibly sharing one cleanup.               *)
(*                                                                         *)
(* Fibers run the operations.  They are cooperative, so a Ref.modify, a    *)
(* SubscriptionRef.modify or a synchronous block is one step, and a fiber  *)
(* may yield between any two effects: `pc' and `loc' say where each one is.*)
(* The `lifecycle' semaphore has one permit.  A caller queued for it has   *)
(* changed nothing yet, so an operation appears when it gets the permit.   *)
(***************************************************************************)
EXTENDS Naturals, FiniteSets

CONSTANTS
    Fibers,         \* callers of the registry
    Scopes,         \* owner scopes
    Kinds,          \* resource kinds
    NamedIds,       \* ids that callers ask for (RegisterResourceInput.id)
    AutoIds,        \* ids that nextId draws; a UUIDv7 is never drawn twice
    Shareable,      \* ids whose handles some caller passes to share
    Declarations,   \* the <<scope, parent>> pairs that callers declare
    MaxGeneration,  \* bound on the generations that are explored
    None            \* no id, no scope, no fiber, no entry, no plan

Ids == NamedIds \cup AutoIds

ASSUME BoundAssumption == MaxGeneration \in Nat
ASSUME IdAssumption == Shareable \subseteq Ids
ASSUME ScopeAssumption ==
    /\ Declarations \subseteq Scopes \X (Scopes \cup {None})
    /\ IsFiniteSet(Scopes)

\* The resource a handle stands for: the registration that supplied the cleanup.
Roots == Ids \X Nat

\* `root' is not in the code: it records which registration the entry's
\* cleanup group belonged to when the entry was made.
Entry == [kind : Kinds, gen : Nat, scope : Scopes, reusable : BOOLEAN,
          group : Ids, root : Roots, disposing : BOOLEAN]

Handle == [kind : Kinds, id : Ids, gen : Nat, root : Roots]

Tombstone == [kind : Kinds, gen : Nat, reusable : BOOLEAN]

ASSUME NoneAssumption ==
    /\ None \notin Ids \cup Scopes \cup Fibers
    /\ None \notin Entry /\ None \notin Tombstone /\ None \notin Roots

Locations == {"idle", "allocated", "planned", "closing", "releasing",
              "finalizing", "cleaning", "clearing", "awaiting", "waiting",
              "shutting"}

Locals == [op : {"none", "dispose", "closeScope", "close"},
           id : Ids \cup {None}, scope : Scopes \cup {None},
           group : Ids \cup {None}, todo : SUBSET Ids]

VARIABLES
    entries,        \* id -> StoredResourceEntry or None
    tombstones,     \* disposedGenerations
    scopeParents,   \* scope -> declared parent or None
    plans,          \* cleanupPlans: cleanup group -> the root it cleans up
    refs,           \* RcMap: cleanup group -> ids of the entries retaining it
    armed,          \* groups whose RcMap entry has not been finalized
    rcOpen,         \* RcMap state, Open or Closed
    lifecycle,      \* holder of the permit
    pc, loc,        \* where each fiber is, and its local variables
    issued,         \* history: the handles returned to callers
    cleaned,        \* history: the roots whose cleanup has been started
    mixed           \* history: the groups that lost the plan of a resource
                    \* handed out to the registration of another one

vars == <<entries, tombstones, scopeParents, plans, refs, armed, rcOpen,
          lifecycle, pc, loc, issued, cleaned, mixed>>
rcVars == <<plans, refs, armed, rcOpen, cleaned, mixed>>

NoLocals == [op |-> "none", id |-> None, scope |-> None, group |-> None,
             todo |-> {}]

\* Type correctness: the maps of the registry, its RcMap and the fibers' local
\* variables hold what their declarations in resources.ts say.
TypeOK ==
    /\ entries \in [Ids -> Entry \cup {None}]
    /\ tombstones \in [Ids -> Tombstone \cup {None}]
    /\ scopeParents \in [Scopes -> Scopes \cup {None}]
    /\ plans \in [Ids -> Roots \cup {None}]
    /\ refs \in [Ids -> SUBSET Ids]
    /\ armed \in SUBSET Ids
    /\ rcOpen \in BOOLEAN
    /\ lifecycle \in Fibers \cup {None}
    /\ pc \in [Fibers -> Locations]
    /\ loc \in [Fibers -> Locals]
    /\ issued \in SUBSET Handle
    /\ cleaned \in SUBSET Roots
    /\ mixed \in SUBSET Ids

Init ==
    /\ entries = [i \in Ids |-> None]
    /\ tombstones = [i \in Ids |-> None]
    /\ scopeParents = [s \in Scopes |-> None]
    /\ plans = [i \in Ids |-> None]
    /\ refs = [i \in Ids |-> {}]
    /\ armed = {}
    /\ rcOpen = TRUE
    /\ lifecycle = None
    /\ pc = [f \in Fibers |-> "idle"]
    /\ loc = [f \in Fibers |-> NoLocals]
    /\ issued = {}
    /\ cleaned = {}
    /\ mixed = {}

-------------------------------------------------------------------------------
(* Scopes *)

\* With a scope, the set has the parent declared for it.
ParentClosed(C) ==
    \A s \in C : scopeParents[s] # None => scopeParents[s] \in C

\* s and the scopes met by following declared parents from it, cycles included:
\* the least set of scopes with s in it that has its scopes' parents.
Ancestry(s) ==
    {t \in Scopes :
        \A C \in SUBSET Scopes : s \in C /\ ParentClosed(C) => t \in C}

\* A mutant of the next definition, which only looks one level down.
DescendantsOneLevel(root) == {s \in Scopes : s = root \/ scopeParents[s] = root}

\* descendantScopes
Descendants(root) == {s \in Scopes : root \in Ancestry(s)}

\* scopeDepth counts the parent links it follows before a root or a repetition.
ScopeDepth(s) == Cardinality({t \in Ancestry(s) : scopeParents[t] # None})

Live(i) == entries[i] # None

Takeable(i) == Live(i) /\ ~entries[i].disposing

\* The snapshot closeScope takes of what it has to dispose of.
EntriesOf(scopes) == {i \in Ids : Live(i) /\ entries[i].scope \in scopes}

\* A mutant of the next definition, with the order of the comparison swapped.
FirstInOrderSwapped(todo) ==
    {i \in todo : \A j \in todo :
        ScopeDepth(entries[j].scope) >= ScopeDepth(entries[i].scope)}

\* entriesInDependencyOrder: deepest scopes first.  createdAt orders the
\* entries of equally deep scopes; here they may come in any order.
FirstInOrder(todo) ==
    {i \in todo : \A j \in todo :
        ScopeDepth(entries[j].scope) =< ScopeDepth(entries[i].scope)}

-------------------------------------------------------------------------------
(* Registration *)

\* A mutant of the next definition: reuse keeps the generation of the tombstone.
GenerationForKept(i, kind, reusable) ==
    IF tombstones[i] = None THEN 0 ELSE tombstones[i].gen

\* generationForRegistration
GenerationFor(i, kind, reusable) ==
    LET old == tombstones[i]
    IN  IF old = None THEN 0
        ELSE IF reusable /\ old.reusable /\ old.kind = kind THEN old.gen
        ELSE old.gen + 1

FreshAutoIds == {i \in AutoIds : ~Live(i) /\ tombstones[i] = None}

\* availableRegistrationId: the id asked for unless it is live, else a new one.
RegistrationIds(requested) ==
    IF requested \in NamedIds /\ ~Live(requested)
    THEN {requested}
    ELSE FreshAutoIds

\* A mutant of the next definition, without the test of `disposing'.
FreshWhileStored(h) ==
    Live(h.id) /\ entries[h.id].kind = h.kind /\ entries[h.id].gen = h.gen

\* assertFresh, and the same test in share
Fresh(h) ==
    /\ Live(h.id)
    /\ entries[h.id].kind = h.kind
    /\ entries[h.id].gen = h.gen
    /\ ~entries[h.id].disposing

\* The entry is stored while the permit is held; `next' is where the fiber goes.
Store(f, i, entry, next) ==
    /\ pc[f] = "idle"
    /\ lifecycle = None
    /\ entry.gen =< MaxGeneration
    /\ entries' = [entries EXCEPT ![i] = entry]
    /\ lifecycle' = f
    /\ pc' = [pc EXCEPT ![f] = next]
    /\ loc' = [loc EXCEPT ![f] = [NoLocals EXCEPT !.id = i]]
    /\ UNCHANGED <<tombstones, scopeParents, issued>>
    /\ UNCHANGED rcVars

Register(f, requested, kind, scope, reusable) ==
    \E i \in RegistrationIds(requested) :
        LET gen == GenerationFor(i, kind, reusable)
        IN  Store(f, i,
                  [kind |-> kind, gen |-> gen, scope |-> scope,
                   reusable |-> reusable, group |-> i, root |-> <<i, gen>>,
                   disposing |-> FALSE],
                  "allocated")

\* The resources that were handed to a caller.
Promised == {h.root : h \in issued}

\* cleanupPlans.set: overwrites what the group held, be it the plan of a resource
\* registered under the same id before, which a shared handle still holds.
RecordPlan(f) ==
    /\ pc[f] = "allocated"
    /\ LET i == loc[f].id
           g == entries[i].group
       IN  /\ plans' = [plans EXCEPT ![g] = entries[i].root]
           /\ mixed' = IF plans[g] \in Promised THEN mixed \cup {g} ELSE mixed
    /\ pc' = [pc EXCEPT ![f] = "planned"]
    /\ UNCHANGED <<entries, tombstones, scopeParents, refs, armed, rcOpen,
                   lifecycle, loc, issued, cleaned>>

\* A stale handle fails and changes nothing, so only a fresh one has a step.
Share(f, h, target) ==
    /\ Fresh(h)
    /\ \E i \in FreshAutoIds :
        Store(f, i,
              [kind |-> h.kind, gen |-> GenerationFor(i, h.kind, FALSE),
               scope |-> target, reusable |-> FALSE,
               group |-> entries[h.id].group, root |-> entries[h.id].root,
               disposing |-> FALSE],
              "planned")

Goto(f, next) == pc' = [pc EXCEPT ![f] = next]

HandleOf(i) == [kind |-> entries[i].kind, id |-> i, gen |-> entries[i].gen,
                root |-> entries[i].root]

\* A mutant of the next definition: the reference is not tied to the entry.
AcquireUnscoped(f) ==
    /\ pc[f] = "planned"
    /\ rcOpen
    /\ armed' = armed \cup {entries[loc[f].id].group}
    /\ issued' = issued \cup {HandleOf(loc[f].id)}
    /\ lifecycle' = None
    /\ Goto(f, "idle")
    /\ loc' = [loc EXCEPT ![f] = NoLocals]
    /\ UNCHANGED <<entries, tombstones, scopeParents, plans, refs, rcOpen, cleaned,
                   mixed>>

\* RcMap.get adds the entry to the holders of its group, and arms the group's
\* finalizer if it was not; then the permit and the handle are given back.
Acquire(f) ==
    /\ pc[f] = "planned"
    /\ rcOpen
    /\ LET i == loc[f].id
           g == entries[i].group
       IN  /\ refs' = [refs EXCEPT ![g] = @ \cup {i}]
           /\ armed' = armed \cup {g}
           /\ issued' = issued \cup {HandleOf(i)}
    /\ lifecycle' = None
    /\ Goto(f, "idle")
    /\ loc' = [loc EXCEPT ![f] = NoLocals]
    /\ UNCHANGED <<entries, tombstones, scopeParents, plans, rcOpen, cleaned, mixed>>

\* RcMap.get of a closed map interrupts the fiber: the entry it stored stays.
AcquireClosed(f) ==
    /\ pc[f] = "planned"
    /\ ~rcOpen
    /\ lifecycle' = None
    /\ Goto(f, "idle")
    /\ loc' = [loc EXCEPT ![f] = NoLocals]
    /\ UNCHANGED <<entries, tombstones, scopeParents, issued>>
    /\ UNCHANGED rcVars

DeclareScope(scope, parent) ==
    /\ lifecycle = None
    /\ scopeParents' = [scopeParents EXCEPT ![scope] = parent]
    /\ UNCHANGED <<entries, tombstones, lifecycle, pc, loc, issued>>
    /\ UNCHANGED rcVars

-------------------------------------------------------------------------------
(* Disposal *)

\* A mutant of the next definition, which counts down instead of keeping.
TombstoneOfCountingDown(e) ==
    [kind |-> e.kind, gen |-> IF e.reusable THEN e.gen + 1 ELSE e.gen - 1,
     reusable |-> e.reusable]

\* markDisposed
TombstoneOf(e) ==
    [kind |-> e.kind, gen |-> IF e.reusable THEN e.gen + 1 ELSE e.gen,
     reusable |-> e.reusable]

\* takeEntry, then markDisposed: from here on only f disposes of the entry.
Take(f, i) ==
    /\ Takeable(i)
    /\ entries' = [entries EXCEPT ![i].disposing = TRUE]
    /\ tombstones' = [tombstones EXCEPT ![i] = TombstoneOf(entries[i])]
    /\ Goto(f, "releasing")

\* dispose(id) of an entry nobody is disposing of.
DisposeTake(f, i) ==
    /\ pc[f] = "idle"
    /\ lifecycle = None
    /\ Take(f, i)
    /\ loc' = [loc EXCEPT ![f] = [NoLocals EXCEPT !.op = "dispose", !.id = i]]
    /\ UNCHANGED <<scopeParents, lifecycle, issued>>
    /\ UNCHANGED rcVars

\* dispose(id) while another fiber disposes of it: wait for the removal.  With
\* no entry under that id the call returns at once.
DisposeJoin(f, i) ==
    /\ pc[f] = "idle"
    /\ lifecycle = None
    /\ Live(i)
    /\ entries[i].disposing
    /\ Goto(f, "awaiting")
    /\ loc' = [loc EXCEPT ![f] = [NoLocals EXCEPT !.op = "dispose", !.id = i]]
    /\ UNCHANGED <<entries, tombstones, scopeParents, lifecycle, issued>>
    /\ UNCHANGED rcVars

\* A mutant of the next definition: the other holders are not looked at.
LastHolderFirst(i, g) == i \in refs[g] /\ g \in armed

\* The last reference to the group goes, and its finalizer has not run.
LastHolder(i, g) == refs[g] = {i} /\ g \in armed

\* Closing the handle's scope drops its reference; the last one to go finds the
\* group's finalizer, unless closing the map has already run it.
Release(f) ==
    /\ pc[f] = "releasing"
    /\ LET i == loc[f].id
           g == entries[i].group
           last == LastHolder(i, g)
       IN  /\ refs' = [refs EXCEPT ![g] = @ \ {i}]
           /\ armed' = IF last THEN armed \ {g} ELSE armed
           /\ Goto(f, IF last THEN "finalizing" ELSE "clearing")
           /\ loc' = [loc EXCEPT ![f].group = IF last THEN g ELSE None]
    /\ UNCHANGED <<entries, tombstones, scopeParents, plans, rcOpen, lifecycle,
                   issued, cleaned, mixed>>

\* Where a fiber goes when a group is finalized: on with the entry it disposes
\* of, or on with the groups left when it is closing the map.
AfterCleanup(f) == IF loc[f].id = None THEN "shutting" ELSE "clearing"

\* finalizeCleanup: look the plan up and start it; a plan that is missing is
\* logged and the disposal goes on.
CleanupStart(f) ==
    /\ pc[f] = "finalizing"
    /\ LET plan == plans[loc[f].group]
       IN  /\ cleaned' = IF plan = None THEN cleaned ELSE cleaned \cup {plan}
           /\ Goto(f, IF plan = None THEN AfterCleanup(f) ELSE "cleaning")
    /\ UNCHANGED <<entries, tombstones, scopeParents, plans, refs, armed, rcOpen,
                   lifecycle, loc, issued, mixed>>

\* The cleanup succeeded, failed, died or ran out of its grace period: in every
\* case the plan is deleted and the disposal goes on.
CleanupEnd(f) ==
    /\ pc[f] = "cleaning"
    /\ plans' = [plans EXCEPT ![loc[f].group] = None]
    /\ Goto(f, AfterCleanup(f))
    /\ UNCHANGED <<entries, tombstones, scopeParents, refs, armed, rcOpen,
                   lifecycle, loc, issued, cleaned, mixed>>

\* clearEntry deletes whatever is stored under the id and wakes the subscribers
\* of `entries' that wait for a snapshot without it.
Clear(f) ==
    /\ pc[f] = "clearing"
    /\ LET i == loc[f].id
           woken == {g \in Fibers : pc[g] = "waiting" /\ loc[g].id = i}
           next == IF lifecycle = f THEN "closing" ELSE "awaiting"
       IN  /\ entries' = [entries EXCEPT ![i] = None]
           /\ pc' = [g \in Fibers |-> IF g = f THEN next
                                     ELSE IF g \in woken THEN "idle" ELSE pc[g]]
           /\ loc' = [g \in Fibers |-> IF g \in woken THEN NoLocals ELSE loc[g]]
    /\ UNCHANGED <<tombstones, scopeParents, lifecycle, issued>>
    /\ UNCHANGED rcVars

\* awaitRemoval: return when the id is absent, else subscribe to `entries'.
AwaitAbsent(f) ==
    /\ pc[f] = "awaiting"
    /\ ~Live(loc[f].id)
    /\ Goto(f, "idle")
    /\ loc' = [loc EXCEPT ![f] = NoLocals]
    /\ UNCHANGED <<entries, tombstones, scopeParents, lifecycle, issued>>
    /\ UNCHANGED rcVars

\* A mutant of the next definition: it misses a removal before it subscribes.
AwaitUnconditionally(f) ==
    /\ pc[f] = "awaiting"
    /\ Goto(f, "waiting")
    /\ UNCHANGED <<entries, tombstones, scopeParents, lifecycle, loc, issued>>
    /\ UNCHANGED rcVars

AwaitSubscribe(f) ==
    /\ pc[f] = "awaiting"
    /\ Live(loc[f].id)
    /\ Goto(f, "waiting")
    /\ UNCHANGED <<entries, tombstones, scopeParents, lifecycle, loc, issued>>
    /\ UNCHANGED rcVars

-------------------------------------------------------------------------------
(* Closing a scope, closing the registry: both keep the permit throughout *)

BeginClose(f, op, scope, todo) ==
    /\ pc[f] = "idle"
    /\ lifecycle = None
    /\ lifecycle' = f
    /\ Goto(f, "closing")
    /\ loc' = [loc EXCEPT ![f] = [NoLocals EXCEPT !.op = op, !.scope = scope,
                                                 !.todo = todo]]
    /\ UNCHANGED <<entries, tombstones, scopeParents, issued>>
    /\ UNCHANGED rcVars

CloseScope(f, scope) ==
    BeginClose(f, "closeScope", scope, EntriesOf(Descendants(scope)))

CloseRegistry(f) == BeginClose(f, "close", None, EntriesOf(Scopes))

\* Entries of the snapshot that another fiber has taken since are passed over.
Remaining(f) == {i \in loc[f].todo : Takeable(i)}

\* disposeForScopeClose of the next entry.
CloseTake(f) ==
    /\ pc[f] = "closing"
    /\ \E i \in FirstInOrder(Remaining(f)) :
        /\ Take(f, i)
        /\ loc' = [loc EXCEPT ![f].id = i]
    /\ UNCHANGED <<scopeParents, lifecycle, issued>>
    /\ UNCHANGED rcVars

\* ScopeClosed is published and the permit given back.
CloseScopeDone(f) ==
    /\ pc[f] = "closing"
    /\ loc[f].op = "closeScope"
    /\ Remaining(f) = {}
    /\ lifecycle' = None
    /\ Goto(f, "idle")
    /\ loc' = [loc EXCEPT ![f] = NoLocals]
    /\ UNCHANGED <<entries, tombstones, scopeParents, issued>>
    /\ UNCHANGED rcVars

\* Closing registryScope closes the RcMap, which then finalizes what is armed:
\* the groups whose last holder is still being disposed of by another fiber.
CloseMap(f) ==
    /\ pc[f] = "closing"
    /\ loc[f].op = "close"
    /\ Remaining(f) = {}
    /\ rcOpen' = FALSE
    /\ Goto(f, "shutting")
    /\ loc' = [loc EXCEPT ![f] = [NoLocals EXCEPT !.op = "close"]]
    /\ UNCHANGED <<entries, tombstones, scopeParents, plans, refs, armed,
                   lifecycle, issued, cleaned, mixed>>

CloseMapNext(f) ==
    /\ pc[f] = "shutting"
    /\ \E g \in armed :
        /\ armed' = armed \ {g}
        /\ loc' = [loc EXCEPT ![f].group = g]
    /\ Goto(f, "finalizing")
    /\ UNCHANGED <<entries, tombstones, scopeParents, plans, refs, rcOpen,
                   lifecycle, issued, cleaned, mixed>>

CloseMapDone(f) ==
    /\ pc[f] = "shutting"
    /\ armed = {}
    /\ lifecycle' = None
    /\ Goto(f, "idle")
    /\ loc' = [loc EXCEPT ![f] = NoLocals]
    /\ UNCHANGED <<entries, tombstones, scopeParents, issued>>
    /\ UNCHANGED rcVars

-------------------------------------------------------------------------------

\* What a caller may start.
Call(f) ==
    \/ \E requested \in NamedIds \cup {None}, kind \in Kinds, scope \in Scopes,
          reusable \in BOOLEAN : Register(f, requested, kind, scope, reusable)
    \/ \E h \in {x \in issued : x.id \in Shareable}, target \in Scopes :
          Share(f, h, target)
    \/ \E i \in Ids : DisposeTake(f, i) \/ DisposeJoin(f, i)
    \/ \E scope \in Scopes : CloseScope(f, scope)
    \/ CloseRegistry(f)

\* What an operation under way does next.
Proceed(f) ==
    \/ RecordPlan(f) \/ Acquire(f) \/ AcquireClosed(f)
    \/ Release(f) \/ CleanupStart(f) \/ CleanupEnd(f)
    \/ Clear(f) \/ AwaitAbsent(f) \/ AwaitSubscribe(f)
    \/ CloseTake(f) \/ CloseScopeDone(f)
    \/ CloseMap(f) \/ CloseMapNext(f) \/ CloseMapDone(f)

Next ==
    \/ \E f \in Fibers : Call(f) \/ Proceed(f)
    \/ \E d \in Declarations : DeclareScope(d[1], d[2])

Spec == Init /\ [][Next]_vars

\* The scheduler runs every fiber that can run; nobody has to call anything.
FairSpec == Spec /\ \A f \in Fibers : WF_vars(Proceed(f))

-------------------------------------------------------------------------------
(* Properties *)

\* f has closed the RcMap entry of g and has not looked its plan up yet.
AboutToFinalize(f, g) == pc[f] = "finalizing" /\ loc[f].group = g

\* assertFresh and share reject a handle for good once they have rejected it:
\* whatever is registered later under the same id, by whom and of what kind,
\* never gets the generation of a handle that went stale.
StaleStaysStale ==
    [][\A h \in issued : ~Fresh(h) => ~Fresh(h)']_vars

\* A cleanup is never run twice: no fiber is about to start a plan that has
\* been started, whoever shares the resource and whoever disposes of it.
NoDoubleCleanup ==
    \A f \in Fibers : pc[f] = "finalizing" /\ loc[f].group \notin mixed =>
        LET plan == plans[loc[f].group]
        IN  /\ plan # None => plan \notin cleaned
            /\ \A g \in Fibers \ {f} : ~AboutToFinalize(g, loc[f].group)

\* The ids whose handle of the resource p can be used.
UsersOf(p) ==
    {i \in Ids : /\ Takeable(i) /\ i \in refs[entries[i].group]
                 /\ entries[i].root = p}

\* No resource is cleaned up under a handle that is still usable: a retained
\* entry nobody disposes of belongs to a root whose cleanup has not started.
NoUseAfterCleanup ==
    \A p \in cleaned : p[1] \notin mixed => UsersOf(p) = {}

\* "the resource's cleanup runs only after the last sharing scope closes", and
\* it does run: a resource handed to a caller is still held by some entry, or
\* it is being finalized, or it has been cleaned up.  It is never forgotten.
NoLostCleanup ==
    \A p \in Promised : p[1] \notin mixed =>
        \/ p \in cleaned
        \/ \E i \in Ids : Live(i) /\ entries[i].root = p
        \/ \E f \in Fibers : AboutToFinalize(f, p[1]) /\ plans[p[1]] = p

\* A resource is cleaned up exactly once, and after its last usable handle is
\* gone, whoever shares it, disposes of its handles or closes their scopes; but
\* for the resources of an id that was registered again while a shared handle
\* held the old one, whose plan the registration overwrote.
CleanedUpOnce == NoDoubleCleanup /\ NoUseAfterCleanup /\ NoLostCleanup

\* ScopeClosed is published when nothing the scope or a scope below it owns is
\* left, but for what another fiber is already disposing of.
ScopeDrained ==
    [][\A f \in Fibers :
        loc[f].op = "closeScope" /\ pc[f] = "closing" /\ pc'[f] = "idle" =>
            \A i \in Ids : entries[i] # None =>
                \/ entries[i].disposing
                \/ loc[f].scope \notin Ancestry(entries[i].scope)]_vars

StrictlyBelow(s, t) == t \in Ancestry(s) /\ s \notin Ancestry(t)

\* closeScope takes what a child scope owns before what its parent owns.
ChildrenFirst ==
    [][\A f \in Fibers :
        pc[f] = "closing" /\ pc'[f] = "releasing" =>
            \A i \in Remaining(f) :
                ~StrictlyBelow(entries[i].scope, entries[loc'[f].id].scope)]_vars

BoundedRoots == Ids \X (0 .. MaxGeneration)

Lifetime(p) == INSTANCE ResourceLifetime WITH
    Holders <- Ids, opened <- p \in Promised, holders <- UsersOf(p),
    cleaned <- p \in cleaned

\* The registry implements the lifetime it promises of each resource: a handle
\* joins only a resource that has a usable one, and the cleanup starts once,
\* after the last.  It does so until the plan of the resource's group is
\* overwritten by that of another resource.
ImplementsLifetime ==
    /\ \A p \in BoundedRoots : Lifetime(p)!Init
    /\ [][\A p \in BoundedRoots :
            p[1] \in mixed' \/ [Lifetime(p)!Next]_(Lifetime(p)!vars)]_vars

\* A resource whose last usable handle is gone is eventually cleaned up, if no
\* other resource takes its plan's place.
CleanupHappens ==
    \A p \in BoundedRoots :
        p \in Promised /\ UsersOf(p) = {} ~> p \in cleaned \/ p[1] \in mixed

\* f waits for an id to be free under which another resource was registered
\* since: nobody disposes of that one.
Overtaken(f) ==
    pc[f] \in {"awaiting", "waiting"} /\ Takeable(loc[f].id)

\* Every operation that got the permit returns, and so does one that waits for
\* a removal, unless the id is registered again before it looks.
OperationsReturn ==
    \A f \in Fibers : pc[f] # "idle" ~> pc[f] = "idle" \/ Overtaken(f)
===============================================================================
