------------------------ MODULE ResourceRegistryProofs ------------------------
(***************************************************************************)
(* Theorems about ResourceRegistry, for any set of fibers, scopes and ids. *)
(***************************************************************************)
EXTENDS ResourceRegistry, FiniteSetTheorems, TLAPS

\* f disposes of the entry loc[f].id.
Disposing(f) ==
    \/ pc[f] \in {"releasing", "clearing"}
    \/ pc[f] \in {"finalizing", "cleaning"} /\ loc[f].id # None

Registering(f) == pc[f] \in {"allocated", "planned"}

HoldsPermit(f) ==
    \/ pc[f] \in {"allocated", "planned", "closing", "shutting"}
    \/ pc[f] \in {"releasing", "finalizing", "cleaning", "clearing"} /\ loc[f].op # "dispose"

\* The permit excludes: who is at a place that needs it has it.
PermitInv == \A f \in Fibers : HoldsPermit(f) => lifecycle = f

\* What a fiber remembers is still so: its entry is stored, usable while it
\* registers it, and its own while it disposes of it.
LocalsInv ==
    /\ \A f \in Fibers : Registering(f) => loc[f].id \in Ids /\ Takeable(loc[f].id)
    /\ \A f \in Fibers : Disposing(f) =>
        loc[f].id \in Ids /\ Live(loc[f].id) /\ entries[loc[f].id].disposing
    /\ \A f, g \in Fibers : Disposing(f) /\ Disposing(g) /\ f # g =>
        loc[f].id # loc[g].id
    /\ \A f \in Fibers : pc[f] \in {"finalizing", "cleaning"} => loc[f].group \in Ids
    /\ \A f \in Fibers : pc[f] \in {"awaiting", "waiting"} => loc[f].id \in Ids
    /\ \A f \in Fibers : pc[f] \in {"finalizing", "cleaning"} /\ loc[f].id = None =>
        loc[f].op = "close"
    /\ \A f \in Fibers : pc[f] = "shutting" => loc[f].id = None /\ loc[f].op = "close"

ControlInv == TypeOK /\ PermitInv /\ LocalsInv

LEMMA NoLocalsType == NoLocals \in Locals
  BY DEF NoLocals, Locals

LEMMA GenerationIsNat ==
  ASSUME TypeOK, NEW i \in Ids, NEW kind \in Kinds, NEW reusable \in BOOLEAN
  PROVE  GenerationFor(i, kind, reusable) \in Nat
  BY DEF TypeOK, Tombstone, GenerationFor

LEMMA RegistrationIdFree ==
  ASSUME NEW requested, NEW i \in RegistrationIds(requested)
  PROVE  i \in Ids /\ ~Live(i)
  BY DEF RegistrationIds, FreshAutoIds, Ids

LEMMA StoreType ==
  ASSUME TypeOK, NEW f \in Fibers, NEW i \in Ids, NEW e \in Entry,
         NEW next \in Locations, Store(f, i, e, next)
  PROVE  TypeOK'
  BY NoLocalsType DEF Store, TypeOK, Locals, NoLocals, rcVars

LEMMA TakeType ==
  ASSUME TypeOK, NEW f \in Fibers, NEW i \in Ids, Take(f, i)
  PROVE  /\ entries' \in [Ids -> Entry \cup {None}]
         /\ tombstones' \in [Ids -> Tombstone \cup {None}]
         /\ pc' \in [Fibers -> Locations]
         /\ entries'[i] = [entries[i] EXCEPT !.disposing = TRUE]
         /\ entries'[i] \in Entry /\ entries'[i].disposing
         /\ tombstones'[i] = TombstoneOf(entries[i])
         /\ \A j \in Ids : j # i => entries'[j] = entries[j] /\ tombstones'[j] = tombstones[j]
<1>1. entries[i] \in Entry
  BY DEF Take, Takeable, Live, TypeOK
<1>2. /\ [entries[i] EXCEPT !.disposing = TRUE] \in Entry
      /\ [entries[i] EXCEPT !.disposing = TRUE].disposing
  BY <1>1 DEF Entry
<1>3. TombstoneOf(entries[i]) \in Tombstone
  BY <1>1 DEF Entry, TombstoneOf, Tombstone
<1>4. QED
  BY <1>2, <1>3 DEF Take, TypeOK, Goto, Locations

LEMMA InitControl == Init => ControlInv
  BY DEF Init, ControlInv, TypeOK, PermitInv, LocalsInv, HoldsPermit,
     Registering, Disposing, Locations, Locals, NoLocals, Handle, Roots

LEMMA StoreControl ==
  ASSUME ControlInv, NEW f \in Fibers, NEW i \in Ids, NEW e \in Entry,
         ~Live(i), ~e.disposing,
         NEW next \in {"allocated", "planned"}, Store(f, i, e, next)
  PROVE  ControlInv'
<1>1. TypeOK'
  BY StoreType DEF ControlInv, Locations
<1>2. e # None
  BY NoneAssumption
<1>3. PermitInv'
  BY NoneAssumption DEF Store, ControlInv, TypeOK, PermitInv, HoldsPermit
<1>4. LocalsInv'
  <2>1. \A g \in Fibers : ~Registering(g)
    BY NoneAssumption DEF Store, ControlInv, PermitInv, HoldsPermit, Registering
  <2>2. /\ pc' = [pc EXCEPT ![f] = next]
        /\ loc'[f].id = i
        /\ \A g \in Fibers : g # f => pc'[g] = pc[g] /\ loc'[g] = loc[g]
        /\ pc'[f] = next
        /\ \A j \in Ids : j # i => entries'[j] = entries[j]
        /\ entries'[i] = e
    BY DEF Store, ControlInv, TypeOK, NoLocals
  <2>3. \A g \in Fibers : Registering(g)' => g = f
    BY <2>1, <2>2 DEF Registering
  <2>4. \A g \in Fibers : Disposing(g)' => g # f /\ Disposing(g)
    BY <2>2 DEF Disposing
  <2>5. \A g \in Fibers : Disposing(g) => loc[g].id # i
    BY DEF ControlInv, LocalsInv
  <2>6. QED
    BY <1>2, <2>1, <2>2, <2>3, <2>4, <2>5
    DEF ControlInv, LocalsInv, Live, Takeable, Registering
<1>5. QED
  BY <1>1, <1>3, <1>4 DEF ControlInv

\* f takes entry i: the entry becomes its own.
LEMMA TakeLocals ==
  ASSUME ControlInv, NEW f \in Fibers, NEW i \in Ids, Take(f, i),
         pc[f] \in {"idle", "closing"}, loc' \in [Fibers -> Locals], loc'[f].id = i,
         \A g \in Fibers : g # f => loc'[g] = loc[g],
         \A g \in Fibers : ~Registering(g)
  PROVE  LocalsInv'
<1>1. /\ pc'[f] = "releasing"
      /\ \A g \in Fibers : g # f => pc'[g] = pc[g]
      /\ entries'[i] # None
      /\ entries'[i].disposing
      /\ \A j \in Ids : j # i => entries'[j] = entries[j]
      /\ \A g \in Fibers : Disposing(g) => loc[g].id # i
  <2>1. entries'[i] # None /\ entries'[i].disposing
    BY TakeType, NoneAssumption DEF ControlInv
  <2>2. QED
    BY <2>1, TakeType DEF ControlInv, LocalsInv, Take, Takeable, Goto, TypeOK
<1>2. QED
  BY <1>1 DEF ControlInv, LocalsInv, Disposing, Registering, Live, Takeable

\* What register and share have in common: an entry is stored under a free id.
Stores(f, i, e, next) ==
    /\ Store(f, i, e, next)
    /\ ~Live(i) /\ ~e.disposing
    /\ e.gen = GenerationFor(i, e.kind, e.reusable)

Closes(f) ==
    \E op \in {"closeScope", "close"}, scope \in Scopes \cup {None},
       todo \in SUBSET Ids : BeginClose(f, op, scope, todo)

LEMMA RegisterStores ==
  ASSUME TypeOK, NEW f \in Fibers, NEW requested, NEW kind \in Kinds,
         NEW scope \in Scopes, NEW reusable \in BOOLEAN,
         Register(f, requested, kind, scope, reusable)
  PROVE  \E i \in Ids, e \in Entry : Stores(f, i, e, "allocated")
                                   /\ e.group = i /\ e.root = <<i, e.gen>>
<1>1. PICK i \in RegistrationIds(requested) :
        Store(f, i,
          [kind |-> kind, gen |-> GenerationFor(i, kind, reusable), scope |-> scope,
           reusable |-> reusable, group |-> i,
           root |-> <<i, GenerationFor(i, kind, reusable)>>, disposing |-> FALSE],
          "allocated")
  BY DEF Register
<1>2. i \in Ids /\ ~Live(i)
  BY RegistrationIdFree
<1>3. GenerationFor(i, kind, reusable) \in Nat
  BY <1>2, GenerationIsNat
<1> DEFINE gen == GenerationFor(i, kind, reusable)
           e == [kind |-> kind, gen |-> gen, scope |-> scope, reusable |-> reusable,
                 group |-> i, root |-> <<i, gen>>, disposing |-> FALSE]
<1>4. e \in Entry
  BY <1>2, <1>3 DEF Entry, Roots
<1>5. /\ ~e.disposing /\ e.gen = GenerationFor(i, e.kind, e.reusable)
      /\ e.group = i /\ e.root = <<i, e.gen>>
  OBVIOUS
<1>6. Stores(f, i, e, "allocated")
  BY <1>1, <1>2, <1>5 DEF Stores
<1> HIDE DEF e
<1>7. QED
  BY <1>2, <1>4, <1>5, <1>6

LEMMA ShareStores ==
  ASSUME TypeOK, NEW f \in Fibers, NEW h \in issued, NEW target \in Scopes,
         Share(f, h, target)
  PROVE  /\ h.id \in Ids /\ Takeable(h.id)
         /\ \E i \in FreshAutoIds, e \in Entry :
              /\ Stores(f, i, e, "planned")
              /\ e.group = entries[h.id].group /\ e.root = entries[h.id].root
<1>1. PICK i \in FreshAutoIds :
        Store(f, i,
          [kind |-> h.kind, gen |-> GenerationFor(i, h.kind, FALSE),
           scope |-> target, reusable |-> FALSE,
           group |-> entries[h.id].group, root |-> entries[h.id].root,
           disposing |-> FALSE],
          "planned")
  BY DEF Share
<1>2. i \in Ids /\ ~Live(i)
  BY DEF FreshAutoIds, Ids
<1>3. h.kind \in Kinds /\ h.id \in Ids /\ entries[h.id] \in Entry /\ Takeable(h.id)
  BY DEF Share, Fresh, Live, Takeable, TypeOK, Handle
<1>4. GenerationFor(i, h.kind, FALSE) \in Nat
  BY <1>2, <1>3, GenerationIsNat
<1> DEFINE e == [kind |-> h.kind, gen |-> GenerationFor(i, h.kind, FALSE),
                 scope |-> target, reusable |-> FALSE,
                 group |-> entries[h.id].group, root |-> entries[h.id].root,
                 disposing |-> FALSE]
<1>5. e \in Entry
  BY <1>3, <1>4 DEF Entry
<1>6. /\ ~e.disposing /\ e.gen = GenerationFor(i, e.kind, e.reusable)
      /\ e.group = entries[h.id].group /\ e.root = entries[h.id].root
  OBVIOUS
<1>7. Stores(f, i, e, "planned")
  BY <1>1, <1>2, <1>6 DEF Stores
<1> HIDE DEF e
<1>8. QED
  BY <1>3, <1>5, <1>6, <1>7

LEMMA CallCases ==
  ASSUME TypeOK, NEW f \in Fibers, Call(f)
  PROVE  \/ \E i \in Ids, e \in Entry, next \in {"allocated", "planned"} :
              Stores(f, i, e, next)
         \/ \E i \in Ids : DisposeTake(f, i) \/ DisposeJoin(f, i)
         \/ Closes(f)
<1>1. FreshAutoIds \subseteq Ids
  BY DEF FreshAutoIds, Ids
<1>2. QED
  BY <1>1, RegisterStores, ShareStores
  DEF Call, CloseScope, CloseRegistry, EntriesOf, Closes

LEMMA CallControl ==
  ASSUME ControlInv, NEW f \in Fibers, Call(f)
  PROVE  ControlInv'
<1>1. ASSUME NEW i \in Ids, NEW e \in Entry, NEW next \in {"allocated", "planned"},
             Stores(f, i, e, next)
      PROVE  ControlInv'
  BY <1>1, StoreControl DEF Stores
<1>3. ASSUME NEW i \in Ids, DisposeTake(f, i)
      PROVE  ControlInv'
  <2>1. TypeOK'
    BY <1>3, TakeType, NoLocalsType DEF DisposeTake, ControlInv, TypeOK, Locals, NoLocals, rcVars
  <2>2. PermitInv'
    BY <1>3, NoneAssumption
    DEF DisposeTake, Take, Goto, ControlInv, PermitInv, HoldsPermit, TypeOK, NoLocals
  <2>3. \A g \in Fibers : ~Registering(g)
    BY <1>3, NoneAssumption DEF DisposeTake, ControlInv, PermitInv, HoldsPermit, Registering
  <2>4. LocalsInv'
    <3>1. /\ loc'[f].id = i
          /\ \A g \in Fibers : g # f => loc'[g] = loc[g]
      BY <1>3 DEF DisposeTake, ControlInv, TypeOK, NoLocals
    <3>2. QED
      BY <1>3, <2>1, <2>3, <3>1, TakeLocals DEF DisposeTake, TypeOK
  <2>5. QED
    BY <2>1, <2>2, <2>4 DEF ControlInv
<1>4. ASSUME NEW i \in Ids, DisposeJoin(f, i)
      PROVE  ControlInv'
  <2>1. TypeOK'
    BY <1>4, NoLocalsType
    DEF DisposeJoin, ControlInv, TypeOK, Locals, NoLocals, rcVars, Goto, Locations
  <2>2. PermitInv'
    BY <1>4 DEF DisposeJoin, Goto, ControlInv, PermitInv, HoldsPermit, TypeOK
  <2>3. LocalsInv'
    BY <1>4 DEF DisposeJoin, Goto, ControlInv, LocalsInv, TypeOK, NoLocals,
       Registering, Disposing, Live, Takeable
  <2>4. QED
    BY <2>1, <2>2, <2>3 DEF ControlInv
<1>5. ASSUME NEW op \in {"closeScope", "close"}, NEW scope \in Scopes \cup {None},
             NEW todo \in SUBSET Ids, BeginClose(f, op, scope, todo)
      PROVE  ControlInv'
  <2>1. TypeOK'
    BY <1>5, NoLocalsType
    DEF BeginClose, ControlInv, TypeOK, Locals, NoLocals, rcVars, Goto, Locations
  <2>2. PermitInv'
    BY <1>5, NoneAssumption
    DEF BeginClose, Goto, ControlInv, PermitInv, HoldsPermit, TypeOK
  <2>3. LocalsInv'
    BY <1>5 DEF BeginClose, Goto, ControlInv, LocalsInv, TypeOK, NoLocals,
       Registering, Disposing, Live, Takeable
  <2>4. QED
    BY <2>1, <2>2, <2>3 DEF ControlInv
<1>6. QED
  BY <1>1, <1>3, <1>4, <1>5, CallCases DEF ControlInv, Closes

LEMMA ProceedType ==
  ASSUME ControlInv, NEW f \in Fibers, Proceed(f)
  PROVE  TypeOK'
<1>1. CASE RecordPlan(f)
  BY <1>1
  DEF RecordPlan, ControlInv, TypeOK, LocalsInv, Registering, Live, Takeable,
     Locations, Entry
<1>2. CASE Acquire(f)
  BY <1>2
  DEF Acquire, ControlInv, TypeOK, LocalsInv, Registering, Live, Takeable,
     Locals, NoLocals, Goto, Locations, Entry, Handle, HandleOf
<1>3. CASE AcquireClosed(f)
  BY <1>3
  DEF AcquireClosed, ControlInv, TypeOK, Locals, NoLocals, rcVars, Goto,
     Locations
<1>4. CASE Release(f)
  <2>1. loc[f].id \in Ids /\ entries[loc[f].id] \in Entry
    BY <1>4 DEF Release, ControlInv, TypeOK, LocalsInv, Disposing, Live
  <2>2. entries[loc[f].id].group \in Ids
    BY <2>1 DEF Entry
  <2>3. loc' \in [Fibers -> Locals]
    BY <1>4, <2>2 DEF Release, ControlInv, TypeOK, Locals
  <2>4. QED
    BY <1>4, <2>2, <2>3 DEF Release, ControlInv, TypeOK, Goto, Locations
<1>5. CASE CleanupStart(f)
  BY <1>5
  DEF CleanupStart, ControlInv, TypeOK, LocalsInv, Goto, Locations, AfterCleanup
<1>7. CASE CleanupEnd(f)
  BY <1>7 DEF CleanupEnd, ControlInv, TypeOK, Goto, Locations, AfterCleanup
<1>8. CASE Clear(f)
  BY <1>8 DEF Clear, ControlInv, TypeOK, Locals, NoLocals, rcVars, Locations
<1>9. CASE AwaitAbsent(f)
  BY <1>9
  DEF AwaitAbsent, ControlInv, TypeOK, Locals, NoLocals, rcVars, Goto, Locations
<1>10. CASE AwaitSubscribe(f)
  BY <1>10 DEF AwaitSubscribe, ControlInv, TypeOK, rcVars, Goto, Locations
<1>11. CASE CloseTake(f)
  <2>1. PICK i \in FirstInOrder(Remaining(f)) :
          Take(f, i) /\ loc' = [loc EXCEPT ![f].id = i]
    BY <1>11 DEF CloseTake
  <2>2. i \in Ids
    BY DEF FirstInOrder, Remaining, ControlInv, TypeOK, Locals
  <2>3. loc' \in [Fibers -> Locals]
    BY <2>1, <2>2 DEF ControlInv, TypeOK, Locals
  <2>4. QED
    BY <1>11, <2>1, <2>2, <2>3, TakeType
    DEF CloseTake, ControlInv, TypeOK, rcVars
<1>12. CASE CloseScopeDone(f)
  BY <1>12
  DEF CloseScopeDone, ControlInv, TypeOK, Locals, NoLocals, rcVars, Goto,
     Locations
<1>13. CASE CloseMap(f)
  BY <1>13 DEF CloseMap, ControlInv, TypeOK, Locals, NoLocals, Goto, Locations
<1>14. CASE CloseMapNext(f)
  <2>1. PICK g \in armed :
          armed' = armed \ {g} /\ loc' = [loc EXCEPT ![f].group = g]
    BY <1>14 DEF CloseMapNext
  <2>2. loc' \in [Fibers -> Locals]
    BY <2>1 DEF ControlInv, TypeOK, Locals
  <2>3. QED
    BY <1>14, <2>2 DEF CloseMapNext, ControlInv, TypeOK, Goto, Locations
<1>15. CASE CloseMapDone(f)
  BY <1>15
  DEF CloseMapDone, ControlInv, TypeOK, Locals, NoLocals, rcVars, Goto,
     Locations
<1>16. QED
  BY <1>1, <1>2, <1>3, <1>4, <1>5, <1>7, <1>8, <1>9, <1>10, <1>11, <1>12,
     <1>13, <1>14, <1>15
  DEF Proceed

LEMMA ProceedPermit ==
  ASSUME ControlInv, NEW f \in Fibers, Proceed(f)
  PROVE  PermitInv'
<1>1. CASE RecordPlan(f)
  BY <1>1 DEF RecordPlan, ControlInv, PermitInv, HoldsPermit
<1>2. CASE Acquire(f)
  BY <1>2 DEF Acquire, ControlInv, TypeOK, PermitInv, HoldsPermit, Goto
<1>3. CASE AcquireClosed(f)
  BY <1>3 DEF AcquireClosed, ControlInv, TypeOK, PermitInv, HoldsPermit, Goto
<1>4. CASE Release(f)
  BY <1>4 DEF Release, ControlInv, PermitInv, HoldsPermit, Goto
<1>5. CASE CleanupStart(f)
  BY <1>5
  DEF CleanupStart, ControlInv, PermitInv, LocalsInv, HoldsPermit, Goto,
     AfterCleanup
<1>7. CASE CleanupEnd(f)
  BY <1>7
  DEF CleanupEnd, ControlInv, PermitInv, LocalsInv, HoldsPermit, Goto,
     AfterCleanup
<1>8. CASE Clear(f)
  BY <1>8 DEF Clear, ControlInv, PermitInv, HoldsPermit
<1>9. CASE AwaitAbsent(f)
  BY <1>9 DEF AwaitAbsent, ControlInv, PermitInv, HoldsPermit, Goto
<1>10. CASE AwaitSubscribe(f)
  BY <1>10 DEF AwaitSubscribe, ControlInv, PermitInv, HoldsPermit, Goto
<1>11. CASE CloseTake(f)
  BY <1>11 DEF CloseTake, ControlInv, PermitInv, HoldsPermit, Goto, Take
<1>12. CASE CloseScopeDone(f)
  BY <1>12 DEF CloseScopeDone, ControlInv, TypeOK, PermitInv, HoldsPermit, Goto
<1>13. CASE CloseMap(f)
  BY <1>13 DEF CloseMap, ControlInv, PermitInv, HoldsPermit, Goto
<1>14. CASE CloseMapNext(f)
  BY <1>14 DEF CloseMapNext, ControlInv, PermitInv, HoldsPermit, Goto
<1>15. CASE CloseMapDone(f)
  BY <1>15 DEF CloseMapDone, ControlInv, TypeOK, PermitInv, HoldsPermit, Goto
<1>16. QED
  BY <1>1, <1>2, <1>3, <1>4, <1>5, <1>7, <1>8, <1>9, <1>10, <1>11, <1>12,
     <1>13, <1>14, <1>15
  DEF Proceed

LEMMA ProceedLocals ==
  ASSUME ControlInv, NEW f \in Fibers, Proceed(f)
  PROVE  LocalsInv'
<1>1. CASE RecordPlan(f)
  BY <1>1
  DEF RecordPlan, ControlInv, LocalsInv, Registering, Disposing, Live, Takeable
<1>2. CASE Acquire(f)
  BY <1>2
  DEF Acquire, ControlInv, TypeOK, LocalsInv, Goto, Registering, Disposing,
     Live, Takeable
<1>3. CASE AcquireClosed(f)
  BY <1>3
  DEF AcquireClosed, ControlInv, TypeOK, LocalsInv, Goto, Registering,
     Disposing, Live, Takeable
<1>4. CASE Release(f)
  <2>1. Disposing(f) /\ loc[f].id \in Ids /\ Live(loc[f].id)
    BY <1>4 DEF Release, ControlInv, LocalsInv, Disposing
  <2>2. entries[loc[f].id].group \in Ids
    BY <2>1 DEF ControlInv, TypeOK, Live, Entry
  <2>3. /\ \A g \in Fibers \ {f} : pc'[g] = pc[g] /\ loc'[g] = loc[g]
        /\ loc'[f].id = loc[f].id /\ loc'[f].op = loc[f].op /\ entries' = entries
        /\ pc'[f] \in {"finalizing", "clearing"}
        /\ pc'[f] = "finalizing" => loc'[f].group \in Ids
    BY <1>4, <2>2 DEF Release, ControlInv, TypeOK, Goto, Locals
  <2>4. \A g \in Fibers : /\ Registering(g)' => Registering(g)
                          /\ Disposing(g)' => Disposing(g)
                          /\ loc'[g].id = loc[g].id
    BY <2>1, <2>3 DEF Registering, Disposing
  <2>5. QED
    BY <1>4, <2>1, <2>3, <2>4, NoneAssumption
    DEF Release, ControlInv, LocalsInv, Live, Takeable
<1>5. CASE CleanupStart(f)
  BY <1>5
  DEF CleanupStart, ControlInv, LocalsInv, Goto, Registering, Disposing, Live,
     Takeable, AfterCleanup
<1>7. CASE CleanupEnd(f)
  BY <1>7
  DEF CleanupEnd, ControlInv, LocalsInv, Goto, Registering, Disposing, Live,
     Takeable, AfterCleanup
<1>8. CASE Clear(f)
  BY <1>8
  DEF Clear, ControlInv, LocalsInv, Registering, Disposing, Live, Takeable
<1>9. CASE AwaitAbsent(f)
  BY <1>9
  DEF AwaitAbsent, ControlInv, TypeOK, LocalsInv, Goto, Registering, Disposing,
     Live, Takeable
<1>10. CASE AwaitSubscribe(f)
  BY <1>10
  DEF AwaitSubscribe, ControlInv, LocalsInv, Goto, Registering, Disposing, Live,
     Takeable
<1>11. CASE CloseTake(f)
  <2>1. PICK i \in FirstInOrder(Remaining(f)) :
          Take(f, i) /\ loc' = [loc EXCEPT ![f].id = i]
    BY <1>11 DEF CloseTake
  <2>2. i \in Ids
    BY DEF FirstInOrder, Remaining, ControlInv, TypeOK, Locals
  <2>3. /\ loc' \in [Fibers -> Locals]
        /\ loc'[f].id = i
        /\ \A g \in Fibers : g # f => loc'[g] = loc[g]
    BY <2>1, <2>2 DEF ControlInv, TypeOK, Locals
  <2>4. \A g \in Fibers : ~Registering(g)
    BY <1>11 DEF CloseTake, ControlInv, PermitInv, HoldsPermit, Registering
  <2>5. QED
    BY <1>11, <2>2, <2>3, <2>4, TakeLocals DEF CloseTake
<1>12. CASE CloseScopeDone(f)
  BY <1>12
  DEF CloseScopeDone, ControlInv, LocalsInv, Goto, Registering, Disposing, Live,
     Takeable
<1>13. CASE CloseMap(f)
  BY <1>13
  DEF CloseMap, ControlInv, TypeOK, LocalsInv, Goto, NoLocals, Registering,
     Disposing, Live, Takeable
<1>14. CASE CloseMapNext(f)
  BY <1>14
  DEF CloseMapNext, ControlInv, TypeOK, LocalsInv, Goto, Registering, Disposing,
     Live, Takeable
<1>15. CASE CloseMapDone(f)
  BY <1>15
  DEF CloseMapDone, ControlInv, TypeOK, LocalsInv, Goto, Registering, Disposing,
     Live, Takeable
<1>16. QED
  BY <1>1, <1>2, <1>3, <1>4, <1>5, <1>7, <1>8, <1>9, <1>10, <1>11, <1>12,
     <1>13, <1>14, <1>15
  DEF Proceed

LEMMA DeclareControl ==
  ASSUME ControlInv, NEW d \in Declarations, DeclareScope(d[1], d[2])
  PROVE  ControlInv'
<1>1. d[1] \in Scopes /\ d[2] \in Scopes \cup {None}
  BY ScopeAssumption
<1>2. QED
  BY <1>1 DEF DeclareScope, ControlInv, TypeOK, PermitInv, LocalsInv, HoldsPermit,
     Registering, Disposing, Live, Takeable, rcVars

LEMMA NextControl == ControlInv /\ [Next]_vars => ControlInv'
<1> SUFFICES ASSUME ControlInv, [Next]_vars
             PROVE  ControlInv'
  OBVIOUS
<1>1. ASSUME NEW f \in Fibers, Proceed(f)
      PROVE  ControlInv'
  BY <1>1, ProceedType, ProceedPermit, ProceedLocals DEF ControlInv
<1>2. CASE UNCHANGED vars
  BY <1>2 DEF vars, ControlInv, TypeOK, PermitInv, LocalsInv, HoldsPermit,
     Registering, Disposing, Live, Takeable
<1>3. QED
  BY <1>1, <1>2, CallControl, DeclareControl DEF Next

\* In every reachable state the variables have their types, a fiber at a place
\* that needs the permit has it, and what a fiber remembers of its entry holds.
THEOREM ControlHolds == Spec => []ControlInv
  BY InitControl, NextControl, PTL DEF Spec

\* Each variable keeps its type. TypeOK alone is not preserved: that a group or a
\* root is an id needs the entry in loc to exist.
THEOREM TypeCorrect == Spec => []TypeOK
<1>1. ControlInv => TypeOK
  BY DEF ControlInv
<1>2. QED
  BY <1>1, ControlHolds, PTL

-------------------------------------------------------------------------------
(* Generations *)

\* The tombstone of h's id keeps every later registration above h.
Retired(h) ==
    LET old == tombstones[h.id]
    IN  old # None /\ IF old.reusable THEN h.gen < old.gen ELSE h.gen =< old.gen

\* The strengthening of "a stale handle stays stale": under an id, the stored
\* entry is at or above every handle ever issued, and equals one only if it is
\* that handle's own; with no entry, the tombstone stands in for it.
GenerationInv ==
    /\ \A i \in Ids : Live(i) /\ entries[i].disposing =>
          tombstones[i] = TombstoneOf(entries[i])
    /\ \A h \in issued : Live(h.id) =>
          /\ h.gen =< entries[h.id].gen
          /\ h.gen = entries[h.id].gen => h.kind = entries[h.id].kind
    /\ \A h \in issued : ~Live(h.id) => Retired(h)

LEMMA InitGeneration == Init => GenerationInv
  BY DEF Init, GenerationInv, Live

\* A registration gets a generation above every handle issued under its id.
LEMMA GenerationAbove ==
  ASSUME TypeOK, GenerationInv, NEW i \in Ids, ~Live(i), NEW kind \in Kinds,
         NEW reusable \in BOOLEAN, NEW h \in issued, h.id = i
  PROVE  h.gen < GenerationFor(i, kind, reusable)
  BY DEF GenerationInv, Retired, GenerationFor, TypeOK, Handle, Tombstone

LEMMA StoreGeneration ==
  ASSUME TypeOK, GenerationInv, NEW f \in Fibers, NEW i \in Ids, ~Live(i),
         NEW e \in Entry, ~e.disposing, NEW next, Store(f, i, e, next),
         \A h \in issued : h.id = i => h.gen < e.gen
  PROVE  GenerationInv' /\ \A h \in issued : ~Fresh(h) => ~Fresh(h)'
<1>1. /\ entries'[i] = e /\ e # None
      /\ \A j \in Ids : j # i => entries'[j] = entries[j]
      /\ tombstones' = tombstones /\ issued' = issued
  BY NoneAssumption DEF Store, TypeOK
<1>2. \A h \in issued : h.id \in Ids /\ h.gen \in Nat
  BY DEF TypeOK, Handle
<1>3. e.gen \in Nat
  BY DEF Entry
<1>4. GenerationInv'
  BY <1>1, <1>2, <1>3 DEF GenerationInv, Live, Retired, TombstoneOf
<1>5. \A h \in issued : ~Fresh(h) => ~Fresh(h)'
  BY <1>1, <1>2, <1>3 DEF Fresh, Live
<1>6. QED
  BY <1>4, <1>5

LEMMA TakeGeneration ==
  ASSUME TypeOK, GenerationInv, NEW f \in Fibers, NEW i \in Ids, Take(f, i),
         UNCHANGED issued
  PROVE  GenerationInv' /\ \A h \in issued : ~Fresh(h) => ~Fresh(h)'
<1>1. entries[i] \in Entry /\ Live(i) /\ ~entries[i].disposing
  BY DEF Take, Takeable, Live, TypeOK
<1>2. /\ entries'[i] = [entries[i] EXCEPT !.disposing = TRUE]
      /\ entries'[i] # None
      /\ tombstones'[i] = TombstoneOf(entries[i])
      /\ \A j \in Ids : j # i => entries'[j] = entries[j] /\ tombstones'[j] = tombstones[j]
  BY TakeType, NoneAssumption
<1>3. /\ entries'[i].disposing /\ entries'[i].kind = entries[i].kind
      /\ entries'[i].gen = entries[i].gen /\ entries'[i].reusable = entries[i].reusable
  BY <1>1, <1>2 DEF Entry
<1>4. tombstones'[i] = TombstoneOf(entries'[i])
  BY <1>2, <1>3 DEF TombstoneOf
<1>5. \A h \in issued : h.id \in Ids
  BY DEF TypeOK, Handle
<1>6. GenerationInv'
  <2>1. \A j \in Ids : (Live(j) /\ entries[j].disposing)' =>
          tombstones'[j] = TombstoneOf(entries'[j])
    BY <1>2, <1>4 DEF GenerationInv, Live
  <2>2. ASSUME NEW h \in issued
        PROVE  /\ Live(h.id)' <=> Live(h.id)
               /\ entries'[h.id].gen = entries[h.id].gen
               /\ entries'[h.id].kind = entries[h.id].kind
    <3>1. CASE h.id = i
      BY <1>1, <1>2, <1>3, <3>1 DEF Live
    <3>2. CASE h.id # i
      BY <1>2, <1>5, <3>2 DEF Live
    <3>3. QED
      BY <3>1, <3>2
  <2>3. \A h \in issued : Live(h.id)' =>
          /\ h.gen =< entries'[h.id].gen
          /\ h.gen = entries'[h.id].gen => h.kind = entries'[h.id].kind
    BY <2>2 DEF GenerationInv
  <2>4. \A h \in issued : ~Live(h.id)' => Retired(h)'
    BY <1>2, <1>5 DEF GenerationInv, Live, Retired
  <2>5. QED
    BY <2>1, <2>3, <2>4 DEF GenerationInv, TombstoneOf
<1>7. ASSUME NEW h \in issued, ~Fresh(h)
      PROVE  ~Fresh(h)'
  <2>1. CASE h.id = i
    BY <1>3, <2>1 DEF Fresh
  <2>2. CASE h.id # i
    BY <1>2, <1>5, <1>7, <2>2 DEF Fresh, Live
  <2>3. QED
    BY <2>1, <2>2
<1>8. QED
  BY <1>6, <1>7

LEMMA CallGeneration ==
  ASSUME ControlInv, GenerationInv, NEW f \in Fibers, Call(f)
  PROVE  GenerationInv' /\ \A h \in issued : ~Fresh(h) => ~Fresh(h)'
<1>1. ASSUME NEW i \in Ids, NEW e \in Entry, NEW next, Stores(f, i, e, next)
      PROVE  GenerationInv' /\ \A h \in issued : ~Fresh(h) => ~Fresh(h)'
  <2>1. \A h \in issued : h.id = i => h.gen < e.gen
    BY <1>1, GenerationAbove DEF Stores, ControlInv, Entry
  <2>2. QED
    BY <1>1, <2>1, StoreGeneration DEF Stores, ControlInv
<1>2. ASSUME NEW i \in Ids, DisposeTake(f, i)
      PROVE  GenerationInv' /\ \A h \in issued : ~Fresh(h) => ~Fresh(h)'
  BY <1>2, TakeGeneration DEF DisposeTake, ControlInv
<1>3. ASSUME UNCHANGED <<entries, tombstones, issued>>
      PROVE  GenerationInv' /\ \A h \in issued : ~Fresh(h) => ~Fresh(h)'
  BY <1>3 DEF GenerationInv, Fresh, Live, Retired, TombstoneOf
<1>4. QED
  BY <1>1, <1>2, <1>3, CallCases DEF ControlInv, Closes, BeginClose, DisposeJoin

\* The steps under way that touch what GenerationInv is about: giving a handle
\* out, taking an entry and removing one.
LEMMA ProceedGeneration ==
  ASSUME ControlInv, GenerationInv, NEW f \in Fibers, Proceed(f)
  PROVE  GenerationInv' /\ \A h \in issued : ~Fresh(h) => ~Fresh(h)'
<1>1. CASE Acquire(f)
  <2>1. loc[f].id \in Ids /\ Takeable(loc[f].id)
    BY <1>1 DEF Acquire, ControlInv, LocalsInv, Registering
  <2>2. QED
    BY <1>1, <2>1
    DEF Acquire, GenerationInv, Fresh, Live, Takeable, Retired, TombstoneOf, HandleOf,
        ControlInv, TypeOK, Entry
<1>2. CASE CloseTake(f)
  <2>1. PICK i \in FirstInOrder(Remaining(f)) : Take(f, i)
    BY <1>2 DEF CloseTake
  <2>2. i \in Ids
    BY DEF FirstInOrder, Remaining, ControlInv, TypeOK, Locals
  <2>3. QED
    BY <1>2, <2>1, <2>2, TakeGeneration DEF CloseTake, ControlInv
<1>3. CASE Clear(f)
  <2> DEFINE i == loc[f].id
  <2>1. i \in Ids /\ Live(i) /\ entries[i].disposing /\ entries[i] \in Entry
    BY <1>3 DEF Clear, ControlInv, LocalsInv, Disposing, Live, TypeOK
  <2>2. /\ entries'[i] = None
        /\ \A j \in Ids : j # i => entries'[j] = entries[j]
        /\ tombstones' = tombstones /\ issued' = issued
    BY <1>3, <2>1 DEF Clear, ControlInv, TypeOK
  <2>3. \A h \in issued : h.id \in Ids /\ h.gen \in Nat
    BY DEF ControlInv, TypeOK, Handle
  <2>4. \A h \in issued : h.id = i => Retired(h)
    <3>1. tombstones[i] = TombstoneOf(entries[i])
      BY <2>1 DEF GenerationInv
    <3>2. TombstoneOf(entries[i]) \in Tombstone
      BY <2>1 DEF TombstoneOf, Tombstone, Entry
    <3>3. tombstones[i] # None
      BY <3>1, <3>2, NoneAssumption
    <3>4. /\ entries[i].gen \in Nat /\ entries[i].reusable \in BOOLEAN
          /\ tombstones[i].reusable = entries[i].reusable
          /\ tombstones[i].gen = IF entries[i].reusable THEN entries[i].gen + 1
                                 ELSE entries[i].gen
      BY <2>1, <3>1 DEF TombstoneOf, Entry
    <3>5. ASSUME NEW h \in issued, h.id = i
          PROVE  h.gen \in Nat /\ h.gen =< entries[i].gen
      BY <2>1, <2>3, <3>5 DEF GenerationInv
    <3>6. QED
      BY <3>3, <3>4, <3>5 DEF Retired
  <2>5. QED
    BY <2>2, <2>3, <2>4 DEF GenerationInv, Fresh, Live, Retired, TombstoneOf
<1>4. ASSUME UNCHANGED <<entries, tombstones, issued>>
      PROVE  GenerationInv' /\ \A h \in issued : ~Fresh(h) => ~Fresh(h)'
  BY <1>4 DEF GenerationInv, Fresh, Live, Retired, TombstoneOf
<1>5. QED
  BY <1>1, <1>2, <1>3, <1>4
  DEF Proceed, RecordPlan, AcquireClosed, Release, CleanupStart,
      CleanupEnd, AwaitAbsent, AwaitSubscribe, CloseScopeDone, CloseMap, CloseMapNext,
      CloseMapDone

LEMMA NextGeneration ==
  ASSUME ControlInv, GenerationInv, [Next]_vars
  PROVE  GenerationInv' /\ \A h \in issued : ~Fresh(h) => ~Fresh(h)'
<1>1. ASSUME UNCHANGED <<entries, tombstones, issued>>
      PROVE  GenerationInv' /\ \A h \in issued : ~Fresh(h) => ~Fresh(h)'
  BY <1>1 DEF GenerationInv, Fresh, Live, Retired, TombstoneOf
<1>2. QED
  BY <1>1, CallGeneration, ProceedGeneration DEF Next, DeclareScope, vars

\* The generations stay ordered in every reachable state.
THEOREM GenerationsHold == Spec => [](ControlInv /\ GenerationInv)
<1>1. Init => ControlInv /\ GenerationInv
  BY InitControl, InitGeneration
<1>2. ControlInv /\ GenerationInv /\ [Next]_vars => ControlInv' /\ GenerationInv'
  BY NextControl, NextGeneration
<1>3. QED
  BY <1>1, <1>2, PTL DEF Spec

\* Once assertFresh has rejected a handle it always will.
THEOREM StaleHandlesStayStale == Spec => StaleStaysStale
<1>1. ControlInv /\ GenerationInv /\ [Next]_vars
        => [\A h \in issued : ~Fresh(h) => ~Fresh(h)']_vars
  BY NextGeneration
<1>2. QED
  BY <1>1, GenerationsHold, PTL DEF Spec, StaleStaysStale

-------------------------------------------------------------------------------
(* Closing a scope *)

\* f has taken the snapshot of closeScope and not published ScopeClosed yet.
ClosingScope(f) ==
    /\ loc[f].op = "closeScope"
    /\ pc[f] \in {"closing", "releasing", "finalizing", "cleaning", "clearing"}

\* The snapshot has everything usable in the scope and below it: no entry can be
\* added, and no scope declared, until the permit is given back.
SnapshotInv ==
    \A f \in Fibers : ClosingScope(f) =>
        \A i \in Ids :
            Takeable(i) /\ loc[f].scope \in Ancestry(entries[i].scope) =>
                i \in loc[f].todo

\* The ancestry of a scope depends on the declared parents only.
LEMMA SameAncestry ==
  ASSUME scopeParents' = scopeParents, NEW s
  PROVE  (Ancestry(s))' = Ancestry(s)
  BY DEF Ancestry, ParentClosed

\* A step that adds no entry and keeps the snapshots keeps them complete.
LEMMA SnapshotKept ==
  ASSUME SnapshotInv,
         \A s : (Ancestry(s))' = Ancestry(s),
         \A i \in Ids : Takeable(i)' =>
             Takeable(i) /\ entries'[i].scope = entries[i].scope,
         \A g \in Fibers : ClosingScope(g)' =>
             /\ ClosingScope(g)
             /\ loc'[g].scope = loc[g].scope /\ loc'[g].todo = loc[g].todo
  PROVE  SnapshotInv'
  BY DEF SnapshotInv

\* Who closes a scope holds the permit.
LEMMA ClosingHolds ==
  ASSUME ControlInv, NEW f \in Fibers, ClosingScope(f)
  PROVE  lifecycle = f /\ lifecycle # None
  BY NoneAssumption DEF ControlInv, PermitInv, HoldsPermit, ClosingScope

\* A call that starts finds nobody closing a scope.
LEMMA CallSnapshot ==
  ASSUME ControlInv, SnapshotInv, NEW f \in Fibers, Call(f)
  PROVE  SnapshotInv'
<1>1. lifecycle = None /\ \A g \in Fibers : ~ClosingScope(g)
  BY ClosingHolds
  DEF Call, Register, Share, Store, DisposeTake, DisposeJoin, CloseScope,
     CloseRegistry, BeginClose
<1>2. ASSUME NEW i \in Ids, NEW e \in Entry, NEW next, Stores(f, i, e, next)
      PROVE  SnapshotInv'
  BY <1>1, <1>2
  DEF Stores, Store, SnapshotInv, ClosingScope, ControlInv, TypeOK, NoLocals
<1>3. ASSUME NEW i \in Ids, DisposeTake(f, i) \/ DisposeJoin(f, i)
      PROVE  SnapshotInv'
  <2>1. /\ loc'[f].op = "dispose"
        /\ \A g \in Fibers : g # f => loc'[g] = loc[g]
    <3>1. CASE DisposeTake(f, i)
      BY <3>1 DEF DisposeTake, ControlInv, TypeOK, NoLocals
    <3>2. CASE DisposeJoin(f, i)
      BY <3>2 DEF DisposeJoin, ControlInv, TypeOK, NoLocals
    <3>3. QED
      BY <1>3, <3>1, <3>2
  <2>2. \A g \in Fibers : g # f => pc'[g] = pc[g]
    BY <1>3 DEF DisposeTake, DisposeJoin, Take, Goto, ControlInv, TypeOK
  <2>3. QED
    BY <1>1, <2>1, <2>2 DEF SnapshotInv, ClosingScope
<1>4. ASSUME NEW scope \in Scopes, CloseScope(f, scope)
      PROVE  SnapshotInv'
  <2>1. /\ loc'[f].scope = scope
        /\ loc'[f].todo = EntriesOf(Descendants(scope))
        /\ \A g \in Fibers : g # f => pc'[g] = pc[g] /\ loc'[g] = loc[g]
        /\ scopeParents' = scopeParents /\ entries' = entries
    BY <1>4
    DEF CloseScope, BeginClose, Goto, ControlInv, TypeOK, NoLocals
  <2>2. \A s : (Ancestry(s))' = Ancestry(s)
    BY <2>1, SameAncestry
  <2>3. ASSUME NEW i \in Ids, Takeable(i), scope \in Ancestry(entries[i].scope)
        PROVE  i \in EntriesOf(Descendants(scope))
    <3>1. entries[i].scope \in Scopes
      BY <2>3 DEF ControlInv, TypeOK, Takeable, Live, Entry
    <3>2. QED
      BY <2>3, <3>1 DEF EntriesOf, Descendants, Takeable
  <2>4. \A g \in Fibers : ClosingScope(g)' => g = f
    BY <1>1, <2>1 DEF ClosingScope
  <2>5. \A i \in Ids : Takeable(i)' <=> Takeable(i)
    BY <2>1 DEF Takeable, Live
  <2>6. QED
    BY <2>1, <2>2, <2>3, <2>4, <2>5 DEF SnapshotInv
<1>5. ASSUME CloseRegistry(f)
      PROVE  SnapshotInv'
  BY <1>1, <1>5
  DEF CloseRegistry, BeginClose, Goto, SnapshotInv, ClosingScope, ControlInv,
     TypeOK, NoLocals
<1>6. ASSUME NEW h \in issued, NEW target \in Scopes, Share(f, h, target)
      PROVE  SnapshotInv'
  <2>1. FreshAutoIds \subseteq Ids
    BY DEF FreshAutoIds, Ids
  <2>2. QED
    BY <1>2, <1>6, <2>1, ShareStores DEF ControlInv
<1>7. ASSUME NEW requested, NEW kind \in Kinds, NEW scope \in Scopes,
             NEW reusable \in BOOLEAN,
             Register(f, requested, kind, scope, reusable)
      PROVE  SnapshotInv'
  BY <1>2, <1>7, RegisterStores DEF ControlInv
<1>8. QED
  BY <1>3, <1>4, <1>5, <1>6, <1>7 DEF Call

\* Operations under way only take entries away.
LEMMA ProceedSnapshot ==
  ASSUME ControlInv, SnapshotInv, NEW f \in Fibers, Proceed(f)
  PROVE  SnapshotInv'
<1>1. scopeParents' = scopeParents
  BY DEF Proceed, RecordPlan, Acquire, AcquireClosed, Release, CleanupStart,
     CleanupEnd, Clear, AwaitAbsent, AwaitSubscribe, CloseTake, CloseScopeDone,
     CloseMap, CloseMapNext, CloseMapDone
<1>2. \A s : (Ancestry(s))' = Ancestry(s)
  BY <1>1, SameAncestry
<1>3. \A i \in Ids : Takeable(i)' =>
          Takeable(i) /\ entries'[i].scope = entries[i].scope
  <2>1. CASE CloseTake(f)
    <3>1. PICK i \in FirstInOrder(Remaining(f)) : Take(f, i)
      BY <2>1 DEF CloseTake
    <3>2. i \in Ids
      BY DEF FirstInOrder, Remaining, ControlInv, TypeOK, Locals
    <3>3. QED
      BY <3>1, <3>2, TakeType DEF ControlInv, Takeable, Live
  <2>2. CASE Clear(f)
    BY <2>2 DEF Clear, ControlInv, TypeOK, Takeable, Live
  <2>3. CASE entries' = entries
    BY <2>3 DEF Takeable, Live
  <2>4. QED
    BY <2>1, <2>2, <2>3
    DEF Proceed, RecordPlan, Acquire, AcquireClosed, Release, CleanupStart,
       CleanupEnd, AwaitAbsent, AwaitSubscribe, CloseScopeDone, CloseMap,
       CloseMapNext, CloseMapDone
<1>4. ASSUME NEW g \in Fibers, ClosingScope(g)'
      PROVE  /\ ClosingScope(g)
             /\ loc'[g].scope = loc[g].scope /\ loc'[g].todo = loc[g].todo
  <2>1. CASE g # f
    BY <1>4, <2>1
    DEF Proceed, RecordPlan, Acquire, AcquireClosed, Release, CleanupStart,
       CleanupEnd, Clear, AwaitAbsent, AwaitSubscribe, CloseTake, CloseScopeDone,
       CloseMap, CloseMapNext, CloseMapDone, Goto, Take, ClosingScope,
       ControlInv, TypeOK, NoLocals
  <2>2. CASE g = f
    <3>1. CASE RecordPlan(f) \/ Acquire(f) \/ AcquireClosed(f) \/ AwaitAbsent(f)
               \/ AwaitSubscribe(f) \/ CloseScopeDone(f) \/ CloseMap(f)
               \/ CloseMapDone(f)
      BY <1>4, <2>2, <3>1
      DEF RecordPlan, Acquire, AcquireClosed, AwaitAbsent, AwaitSubscribe,
         CloseScopeDone, CloseMap, CloseMapDone, Goto, ClosingScope, ControlInv,
         TypeOK, NoLocals
    <3>2. CASE Release(f) \/ CleanupStart(f) \/ CleanupEnd(f) \/ Clear(f)
      BY <1>4, <2>2, <3>2
      DEF Release, CleanupStart, CleanupEnd, Clear, Goto, ClosingScope,
         ControlInv, TypeOK, Locals
    <3>3. CASE CloseTake(f) \/ CloseMapNext(f)
      BY <1>4, <2>2, <3>3
      DEF CloseTake, CloseMapNext, ClosingScope, ControlInv, LocalsInv, TypeOK,
         Locals
    <3>4. QED
      BY <3>1, <3>2, <3>3 DEF Proceed
  <2>3. QED
    BY <2>1, <2>2
<1>5. QED
  BY <1>2, <1>3, <1>4, SnapshotKept

\* The snapshots stay complete.
LEMMA NextSnapshot ==
  ASSUME ControlInv, SnapshotInv, [Next]_vars
  PROVE  SnapshotInv'
<1>1. ASSUME NEW d \in Declarations, DeclareScope(d[1], d[2])
      PROVE  SnapshotInv'
  <2>1. \A g \in Fibers : ~ClosingScope(g)
    BY <1>1, ClosingHolds DEF DeclareScope
  <2>2. QED
    BY <1>1, <2>1 DEF DeclareScope, SnapshotInv, ClosingScope
<1>2. ASSUME UNCHANGED vars
      PROVE  SnapshotInv'
  BY <1>2, SameAncestry, SnapshotKept DEF vars, ClosingScope, Takeable, Live
<1>3. QED
  BY <1>1, <1>2, CallSnapshot, ProceedSnapshot DEF Next

\* Who publishes ScopeClosed has disposed of its snapshot.
LEMMA DoneDrained ==
  ASSUME ControlInv, SnapshotInv, [Next]_vars, NEW f \in Fibers,
         loc[f].op = "closeScope", pc[f] = "closing", pc'[f] = "idle",
         NEW i \in Ids, entries[i] # None, ~entries[i].disposing
  PROVE  loc[f].scope \notin Ancestry(entries[i].scope)
<1>1. Remaining(f) = {}
  <2>1. ASSUME NEW g \in Fibers, Call(g)
        PROVE  FALSE
    BY <2>1, ClosingHolds
    DEF Call, Register, Share, Store, DisposeTake, DisposeJoin, CloseScope,
       CloseRegistry, BeginClose, ClosingScope
  <2>2. ASSUME NEW g \in Fibers, Proceed(g), g # f
        PROVE  FALSE
    BY <2>2
    DEF Proceed, RecordPlan, Acquire, AcquireClosed, Release, CleanupStart,
       CleanupEnd, Clear, AwaitAbsent, AwaitSubscribe, CloseTake, CloseScopeDone,
       CloseMap, CloseMapNext, CloseMapDone, Goto, Take, ControlInv, TypeOK
  <2>3. ASSUME Proceed(f)
        PROVE  Remaining(f) = {}
    BY <2>3
    DEF Proceed, RecordPlan, Acquire, AcquireClosed, Release, CleanupStart,
       CleanupEnd, Clear, AwaitAbsent, AwaitSubscribe, CloseTake, CloseScopeDone,
       CloseMap, CloseMapNext, CloseMapDone, Goto, Take, ControlInv, TypeOK
  <2>4. QED
    BY <2>1, <2>2, <2>3 DEF Next, DeclareScope, vars
<1>2. Takeable(i) /\ i \notin loc[f].todo
  BY <1>1 DEF Takeable, Live, Remaining
<1>3. QED
  BY <1>2 DEF SnapshotInv, ClosingScope

\* ScopeClosed is published when nothing the scope or a scope below it owns is
\* left, but for what another fiber is already disposing of.
THEOREM ScopesDrained == Spec => ScopeDrained
<1>1. Init => SnapshotInv
  BY DEF Init, SnapshotInv, ClosingScope
<1>2. ControlInv /\ SnapshotInv /\ [Next]_vars => SnapshotInv'
  BY NextSnapshot
<1>3. ControlInv /\ SnapshotInv /\ [Next]_vars =>
        [\A f \in Fibers :
          loc[f].op = "closeScope" /\ pc[f] = "closing" /\ pc'[f] = "idle" =>
            \A i \in Ids : entries[i] # None =>
                \/ entries[i].disposing
                \/ loc[f].scope \notin Ancestry(entries[i].scope)]_vars
  BY DoneDrained
<1>4. QED
  BY <1>1, <1>2, <1>3, ControlHolds, PTL DEF Spec, ScopeDrained

-------------------------------------------------------------------------------
(* Child scopes first *)

LEMMA AncestryHasSelf ==
  ASSUME NEW s \in Scopes
  PROVE  s \in Ancestry(s)
  BY DEF Ancestry

\* Above an ancestor there are only ancestors.
LEMMA AncestryTransitive ==
  ASSUME NEW s, NEW t \in Ancestry(s)
  PROVE  Ancestry(t) \subseteq Ancestry(s)
  BY DEF Ancestry

\* A scope without a declared parent is its only ancestor.
LEMMA RootIsAlone ==
  ASSUME NEW s \in Scopes, scopeParents[s] = None
  PROVE  Ancestry(s) = {s}
<1>1. ParentClosed({s})
  BY DEF ParentClosed
<1>2. QED
  BY <1>1, AncestryHasSelf DEF Ancestry

\* The parent links above an ancestor are among those above the scope, which
\* has one more unless the two are on a cycle: a scope is deeper than each
\* scope it is strictly below.  So sorting by depth puts children first.
LEMMA BelowIsDeeper ==
  ASSUME NEW s \in Scopes, NEW t \in Scopes, StrictlyBelow(s, t)
  PROVE  /\ ScopeDepth(s) \in Nat /\ ScopeDepth(t) \in Nat
         /\ ScopeDepth(t) < ScopeDepth(s)
<1> DEFINE Linked(u) == {v \in Ancestry(u) : scopeParents[v] # None}
<1>1. Linked(t) \subseteq Linked(s) /\ Linked(s) \subseteq Scopes
  BY AncestryTransitive DEF StrictlyBelow, Ancestry
<1>2. s \in Linked(s)
  <2>1. ASSUME scopeParents[s] = None
        PROVE  FALSE
    <3>1. t = s
      BY <2>1, RootIsAlone DEF StrictlyBelow
    <3>2. QED
      BY <3>1, AncestryHasSelf DEF StrictlyBelow
  <2>2. QED
    BY <2>1, AncestryHasSelf
<1>3. s \notin Linked(t)
  BY DEF StrictlyBelow
<1>4. IsFiniteSet(Linked(s)) /\ IsFiniteSet(Linked(t))
  BY <1>1, FS_Subset, ScopeAssumption
<1>5. /\ Cardinality(Linked(s)) \in Nat /\ Cardinality(Linked(t)) \in Nat
      /\ Cardinality(Linked(t)) =< Cardinality(Linked(s))
      /\ Cardinality(Linked(s)) # Cardinality(Linked(t))
  BY <1>1, <1>2, <1>3, <1>4, FS_Subset, FS_CardinalityType
<1>6. /\ ScopeDepth(s) = Cardinality(Linked(s))
      /\ ScopeDepth(t) = Cardinality(Linked(t))
  BY DEF ScopeDepth
<1>7. QED
  BY <1>5, <1>6

\* The entry that closeScope takes next is none that another of its entries is
\* strictly below.
LEMMA TakenHasNoneBelow ==
  ASSUME ControlInv, [Next]_vars, NEW f \in Fibers,
         pc[f] = "closing", pc'[f] = "releasing", NEW i \in Remaining(f)
  PROVE  ~StrictlyBelow(entries[i].scope, entries[loc'[f].id].scope)
<1>1. CloseTake(f)
  <2>1. ASSUME NEW g \in Fibers, Call(g)
        PROVE  FALSE
    <3>1. lifecycle = f /\ lifecycle # None
      BY NoneAssumption DEF ControlInv, PermitInv, HoldsPermit
    <3>2. QED
      BY <2>1, <3>1
      DEF Call, Register, Share, Store, DisposeTake, DisposeJoin, CloseScope,
         CloseRegistry, BeginClose
  <2>2. ASSUME NEW g \in Fibers, Proceed(g), g # f
        PROVE  FALSE
    BY <2>2
    DEF Proceed, RecordPlan, Acquire, AcquireClosed, Release, CleanupStart,
       CleanupEnd, Clear, AwaitAbsent, AwaitSubscribe, CloseTake, CloseScopeDone,
       CloseMap, CloseMapNext, CloseMapDone, Goto, Take, ControlInv, TypeOK
  <2>3. ASSUME Proceed(f)
        PROVE  CloseTake(f)
    BY <2>3
    DEF Proceed, RecordPlan, Acquire, AcquireClosed, Release, CleanupStart,
       CleanupEnd, Clear, AwaitAbsent, AwaitSubscribe, CloseScopeDone,
       CloseMap, CloseMapNext, CloseMapDone, Goto, ControlInv, TypeOK
  <2>4. QED
    BY <2>1, <2>2, <2>3 DEF Next, DeclareScope, vars
<1>2. PICK k \in FirstInOrder(Remaining(f)) : loc'[f].id = k
  BY <1>1 DEF CloseTake, ControlInv, TypeOK, Locals
<1>3. k \in Remaining(f)
  BY DEF FirstInOrder
<1>4. entries[i].scope \in Scopes /\ entries[k].scope \in Scopes
  BY <1>3 DEF Remaining, Takeable, Live, ControlInv, TypeOK, Locals, Entry
<1>5. ScopeDepth(entries[i].scope) =< ScopeDepth(entries[k].scope)
  BY DEF FirstInOrder
<1>6. QED
  BY <1>2, <1>4, <1>5, BelowIsDeeper

\* closeScope takes what a child scope owns before what its parent owns, however
\* deep the tree, whatever parents were declared and whoever else disposes.
THEOREM ChildrenTakenFirst == Spec => ChildrenFirst
<1>1. ControlInv /\ [Next]_vars =>
        [\A f \in Fibers :
          pc[f] = "closing" /\ pc'[f] = "releasing" =>
            \A i \in Remaining(f) :
              ~StrictlyBelow(entries[i].scope, entries[loc'[f].id].scope)]_vars
  BY TakenHasNoneBelow
<1>2. QED
  BY <1>1, ControlHolds, PTL DEF Spec, ChildrenFirst

-------------------------------------------------------------------------------
(***************************************************************************)
(* A resource is cleaned up exactly once, after its last usable handle has *)
(* gone: CleanedUpOnce and the refinement of ResourceLifetime.  The        *)
(* argument follows a cleanup group's plan: it is due while the group is   *)
(* armed, then in the hands of the one fiber that finalizes the group,     *)
(* then started.  A group in `mixed' has lost its plan, so what is said of *)
(* plans is said of the other groups; what is said of entries, references  *)
(* and handles holds of all.                                               *)
(***************************************************************************)

\* The id of the entry that f registers owns its cleanup group.
Opens(f) == Registering(f) /\ entries[loc[f].id].group = loc[f].id

\* f has closed the RcMap entry of a group and its plan is not deleted yet.
Finalizing(f) == pc[f] \in {"finalizing", "cleaning"}

\* The plan of g is for a resource that was handed out and is not cleaned up.
Due(g) == plans[g] # None /\ plans[g] \in Promised \ cleaned

\* An entry stands for its own registration, or for that of the id it shares the
\* group of, which was handed to a caller before.
EntryInv ==
    \A i \in Ids : Live(i) =>
        /\ entries[i].root[1] = entries[i].group
        /\ entries[i].group = i => entries[i].root = <<i, entries[i].gen>>
        /\ entries[i].group # i => entries[i].root \in Promised

\* A group is held by entries of its own, whose resource was handed out, from
\* the end of their registration until their disposal releases it.
RefsInv ==
    \A g \in Ids : \A j \in refs[g] :
        /\ Live(j) /\ entries[j].group = g /\ entries[j].root \in Promised
        /\ \A f \in Fibers : loc[f].id = j =>
               ~Registering(f) /\ (Disposing(f) => pc[f] = "releasing")

\* What was handed out was registered with a generation of its own, which no
\* registration under way has; only what was handed out is cleaned up.
PromisedInv ==
    /\ \A p \in Promised : \E h \in issued : h.id = p[1] /\ h.gen = p[2]
    /\ \A f \in Fibers : Opens(f) => entries[loc[f].id].root \notin Promised
    /\ \A p \in cleaned : p[1] \notin mixed => p \in Promised

\* A plan is stored under the group of its resource, by who registers it.
PlanInv ==
    /\ \A g \in Ids : plans[g] # None => plans[g][1] = g
    /\ \A f \in Fibers : Opens(f) /\ pc[f] = "planned" /\ loc[f].id \notin mixed =>
           plans[loc[f].id] = entries[loc[f].id].root

\* An armed group is held, and all its entries stand for the plan that is due.
ArmedInv ==
    \A g \in armed : g \notin mixed =>
        /\ Due(g)
        /\ refs[g] # {}
        /\ \A j \in refs[g] : entries[j].root = plans[g]

\* A group is finalized by one fiber, and not armed again meanwhile.
FinalInv ==
    \A f \in Fibers : Finalizing(f) =>
        /\ loc[f].id # None => entries[loc[f].id].group = loc[f].group
        /\ loc[f].group \notin mixed =>
               /\ loc[f].group \notin armed
               /\ pc[f] = "finalizing" => Due(loc[f].group)
               /\ pc[f] = "cleaning" => plans[loc[f].group] \in cleaned
               /\ \A g \in Fibers : Finalizing(g) /\ loc[g].group = loc[f].group =>
                      g = f

\* Until the map is closed a group that is held is armed; closing the map leaves
\* no usable handle.
OpenInv ==
    /\ \A g \in Ids : \A j \in refs[g] :
           (rcOpen => g \in armed) /\ (Takeable(j) => rcOpen)
    /\ \A f \in Fibers :
           (Finalizing(f) /\ loc[f].id = None) \/ pc[f] = "shutting" => ~rcOpen
    /\ \A f \in Fibers :
           (pc[f] = "closing" \/ Disposing(f)) /\ loc[f].op = "close" =>
               \A i \in Ids : Takeable(i) => i \in loc[f].todo

\* Who shares a resource does so while it has a usable handle, and a handle that
\* is fresh is usable.
ShareInv ==
    /\ \A f \in Fibers : Registering(f) /\ ~Opens(f) =>
           /\ pc[f] = "planned"
           /\ \E j \in refs[entries[loc[f].id].group] :
                  Takeable(j) /\ entries[j].root = entries[loc[f].id].root
    /\ \A h \in issued : Fresh(h) => h.id \in refs[entries[h.id].group]

\* The plan of a resource that is not cleaned up is kept for it.
KeptInv ==
    \A p \in Promised : p[1] \notin mixed =>
        \/ p \in cleaned
        \/ /\ plans[p[1]] = p
           /\ p[1] \in armed \/ \E f \in Fibers : AboutToFinalize(f, p[1])

\* The inductive invariant.
CleanupInv ==
    /\ ControlInv
    /\ GenerationInv
    /\ EntryInv
    /\ RefsInv
    /\ PromisedInv
    /\ PlanInv
    /\ ArmedInv
    /\ FinalInv
    /\ OpenInv
    /\ ShareInv
    /\ KeptInv

-------------------------------------------------------------------------------
(* What the invariant says of one state *)

\* What is stored under an id is an entry.
LEMMA EntryType ==
    ASSUME TypeOK, NEW i \in Ids, Live(i)
    PROVE  /\ entries[i] \in Entry /\ entries[i].group \in Ids
           /\ entries[i].root \in Roots /\ entries[i].gen \in Nat
  BY DEF TypeOK, Live, Entry

\* Nothing holds or finalizes a group whose plan is not for a resource handed out.
LEMMA GroupIsFree ==
    ASSUME CleanupInv, NEW g \in Ids, g \notin mixed, plans[g] \notin Promised
    PROVE  /\ g \notin armed
           /\ rcOpen => refs[g] = {}
           /\ \A f \in Fibers : Finalizing(f) => loc[f].group # g
<1> USE DEF CleanupInv
<1>1. g \notin armed
  BY DEF ArmedInv, Due
<1>2. rcOpen => refs[g] = {}
  BY <1>1 DEF OpenInv
<1>3. ASSUME NEW f \in Fibers, Finalizing(f), loc[f].group = g
      PROVE  FALSE
  <2>1. pc[f] = "cleaning" /\ plans[g] \in cleaned
    BY <1>3 DEF FinalInv, Finalizing, Due
  <2>2. plans[g] # None
    BY <2>1, NoneAssumption DEF ControlInv, TypeOK
  <2> QED  BY <2>1, <2>2 DEF PlanInv, PromisedInv
<1> QED  BY <1>1, <1>2, <1>3

\* So it is once a registration has recorded its plan.
LEMMA OpensAlone ==
    ASSUME CleanupInv, NEW f \in Fibers, Opens(f), pc[f] = "planned",
           loc[f].id \notin mixed
    PROVE  /\ loc[f].id \in Ids
           /\ loc[f].id \notin armed
           /\ rcOpen => refs[loc[f].id] = {}
           /\ \A g \in Fibers : Finalizing(g) => loc[g].group # loc[f].id
<1>1. loc[f].id \in Ids
  BY DEF CleanupInv, ControlInv, LocalsInv, Opens
<1>2. plans[loc[f].id] \notin Promised
  BY DEF CleanupInv, PlanInv, PromisedInv
<1> QED  BY <1>1, <1>2, GroupIsFree

\* A usable handle's resource is due and nobody finalizes its group.
LEMMA UsableIsDue ==
    ASSUME CleanupInv, NEW g \in Ids, NEW j \in refs[g], Takeable(j)
    PROVE  /\ rcOpen /\ g \in armed /\ entries[j].group = g
           /\ entries[j].root \in Promised
           /\ g \notin mixed =>
                  /\ Due(g) /\ entries[j].root = plans[g]
                  /\ \A f \in Fibers : Finalizing(f) => loc[f].group # g
<1>1. rcOpen /\ g \in armed
  BY DEF CleanupInv, OpenInv
<1>2. entries[j].group = g /\ entries[j].root \in Promised
  BY DEF CleanupInv, RefsInv
<1>3. g \notin mixed => Due(g) /\ entries[j].root = plans[g]
  BY <1>1 DEF CleanupInv, ArmedInv
<1>4. g \notin mixed => \A f \in Fibers : Finalizing(f) => loc[f].group # g
  BY <1>1 DEF CleanupInv, FinalInv
<1> QED  BY <1>1, <1>2, <1>3, <1>4

\* Who registers holds the permit, so nobody else registers or closes.
LEMMA PermitAlone ==
    ASSUME CleanupInv, NEW f \in Fibers, NEW g \in Fibers, HoldsPermit(f),
           HoldsPermit(g)
    PROVE  f = g
  BY DEF CleanupInv, ControlInv, PermitInv

\* Nothing is stored, handed out or cleaned up at first.
LEMMA CleanupInit == Init => CleanupInv
<1> SUFFICES ASSUME Init PROVE CleanupInv
  OBVIOUS
<1>1. ControlInv /\ GenerationInv
  BY InitControl, InitGeneration
<1>2. /\ \A i \in Ids : ~Live(i) /\ refs[i] = {} /\ plans[i] = None
      /\ \A f \in Fibers : pc[f] = "idle"
      /\ issued = {} /\ cleaned = {} /\ armed = {}
  BY DEF Init, Live
<1>3. EntryInv /\ RefsInv /\ PlanInv /\ ArmedInv /\ FinalInv
  BY <1>2
     DEF EntryInv, RefsInv, PlanInv, ArmedInv, FinalInv, Finalizing, Opens,
         Registering
<1>4. PromisedInv /\ OpenInv /\ ShareInv /\ KeptInv
  BY <1>2
     DEF PromisedInv, OpenInv, ShareInv, KeptInv, Promised, Finalizing, Opens,
         Registering, Disposing
<1> QED  BY <1>1, <1>3, <1>4 DEF CleanupInv

-------------------------------------------------------------------------------
(* The steps, one lemma each *)

\* Waiting for an entry to go, starting to close, having closed, and giving up a
\* registration because the map is closed change nothing it is about.
LEMMA QuietStep ==
    ASSUME CleanupInv, ControlInv', GenerationInv',
           UNCHANGED <<entries, rcVars, issued>>,
           \A g \in Fibers :
               \/ pc'[g] = pc[g] /\ loc'[g] = loc[g]
               \/ pc'[g] \in {"idle", "awaiting", "waiting"} /\
                  pc[g] \in {"idle", "awaiting", "waiting", "closing", "shutting",
                            "planned"}
               \/ /\ pc'[g] = "closing" /\ pc[g] = "idle"
                  /\ loc'[g].op = "close" => \A i \in Ids : Takeable(i) =>
                         i \in loc'[g].todo
    PROVE  CleanupInv'
<1> USE DEF CleanupInv
<1>1. /\ entries' = entries /\ plans' = plans /\ refs' = refs /\ armed' = armed
      /\ rcOpen' = rcOpen /\ cleaned' = cleaned /\ issued' = issued
      /\ mixed' = mixed
  BY DEF rcVars
<1>2. /\ Promised' = Promised
      /\ \A i : Live(i)' <=> Live(i)
      /\ \A i : Takeable(i)' <=> Takeable(i)
      /\ \A h : Fresh(h)' <=> Fresh(h)
      /\ \A g : Due(g)' <=> Due(g)
  BY <1>1 DEF Promised, Live, Takeable, Fresh, Due
<1>3. ASSUME NEW g \in Fibers, Registering(g)'
      PROVE  /\ pc'[g] = pc[g] /\ loc'[g] = loc[g]
             /\ Registering(g) /\ (Opens(g)' <=> Opens(g))
  BY <1>1, <1>3 DEF Registering, Opens
<1>4. ASSUME NEW g \in Fibers, \/ Disposing(g)' \/ Finalizing(g) \/ Finalizing(g)'
                               \/ pc'[g] = "shutting"
      PROVE  pc'[g] = pc[g] /\ loc'[g] = loc[g]
  BY <1>4 DEF Disposing, Finalizing
<1>5. EntryInv' /\ ArmedInv'
  BY <1>1, <1>2 DEF EntryInv, ArmedInv
<1>6. RefsInv'
  BY <1>1, <1>2, <1>3, <1>4 DEF RefsInv, Registering, Disposing
<1>7. PromisedInv' /\ PlanInv'
  BY <1>1, <1>2, <1>3 DEF PromisedInv, PlanInv, Opens
<1>8. FinalInv'
  BY <1>1, <1>2, <1>4 DEF FinalInv, Finalizing
<1>9. OpenInv'
  <2>1. \A f \in Fibers : (Finalizing(f) /\ loc[f].id = None)' \/
            pc'[f] = "shutting" => ~rcOpen'
    BY <1>1, <1>4 DEF OpenInv, Finalizing
  <2>2. ASSUME NEW f \in Fibers, (pc[f] = "closing" \/ Disposing(f))',
               loc'[f].op = "close", NEW i \in Ids, Takeable(i)
        PROVE  i \in loc'[f].todo
    BY <2>2 DEF OpenInv, Disposing
  <2> QED  BY <1>1, <1>2, <2>1, <2>2 DEF OpenInv
<1>10. ShareInv'
  BY <1>1, <1>2, <1>3 DEF ShareInv, Registering, Opens
<1>11. KeptInv'
  BY <1>1, <1>2, <1>4 DEF KeptInv, AboutToFinalize, Finalizing
<1> QED  BY <1>5, <1>6, <1>7, <1>8, <1>9, <1>10, <1>11

\* An entry that is stored is new to everything, and a registration under way
\* has a generation of its own.
LEMMA StoreStep ==
    ASSUME CleanupInv, ControlInv', GenerationInv',
           NEW f \in Fibers, NEW i \in Ids, NEW e \in Entry,
           NEW next \in {"allocated", "planned"}, Stores(f, i, e, next),
           \/ next = "allocated" /\ e.group = i /\ e.root = <<i, e.gen>>
           \/ /\ next = "planned" /\ tombstones[i] = None
              /\ \E h \in issued : /\ Fresh(h)
                                   /\ e.group = entries[h.id].group
                                   /\ e.root = entries[h.id].root
    PROVE  CleanupInv'
<1> USE DEF CleanupInv, ControlInv
<1>1. /\ pc[f] = "idle" /\ lifecycle = None /\ ~Live(i) /\ ~e.disposing
      /\ entries' = [entries EXCEPT ![i] = e]
      /\ pc' = [pc EXCEPT ![f] = next]
      /\ loc' = [loc EXCEPT ![f] = [NoLocals EXCEPT !.id = i]]
      /\ plans' = plans /\ refs' = refs /\ armed' = armed /\ rcOpen' = rcOpen
      /\ cleaned' = cleaned /\ issued' = issued /\ e # None
      /\ mixed' = mixed
      /\ e.gen = GenerationFor(i, e.kind, e.reusable)
      /\ e.kind \in Kinds /\ e.reusable \in BOOLEAN
  BY NoneAssumption DEF Stores, Store, rcVars, Entry
<1>2. /\ entries'[i] = e /\ pc'[f] = next /\ loc'[f].id = i
      /\ loc'[f].op = "none"
      /\ \A j \in Ids : j # i => entries'[j] = entries[j]
      /\ \A g \in Fibers : g # f => pc'[g] = pc[g] /\ loc'[g] = loc[g]
  BY <1>1 DEF TypeOK, NoLocals
<1>3. /\ Promised' = Promised
      /\ \A g : Due(g)' <=> Due(g)
  BY <1>1 DEF Promised, Due
<1>4. /\ Live(i)' /\ Takeable(i)'
      /\ \A j \in Ids : j # i => /\ Live(j)' <=> Live(j)
                                 /\ Takeable(j)' <=> Takeable(j)
  BY <1>1, <1>2 DEF Live, Takeable
<1>5. \A g \in Fibers : ~HoldsPermit(g)
  BY <1>1, NoneAssumption DEF PermitInv
<1>6. \A g \in Fibers : ~Registering(g) /\ (Registering(g)' => g = f)
  BY <1>2, <1>5 DEF Registering, HoldsPermit
<1>7. \A h \in issued : h.id = i => h.gen < e.gen
  BY <1>1, GenerationAbove
<1>8. \A g \in Ids : i \notin refs[g] /\ \A j \in refs[g] : j \in Ids /\ j # i
  BY <1>1 DEF RefsInv, TypeOK
<1>9. ASSUME next = "planned"
      PROVE  e.gen = 0
  BY <1>1, <1>9 DEF GenerationFor
<1>10. ASSUME next = "planned"
       PROVE  /\ e.group # i /\ e.root[1] = e.group /\ e.root \in Promised
              /\ \E j \in refs[e.group] : Takeable(j) /\ entries[j].root = e.root
  <2>1. PICK h \in issued : /\ Fresh(h)
                            /\ e.group = entries[h.id].group
                            /\ e.root = entries[h.id].root
    BY <1>10
  <2>2. h.id \in Ids /\ Takeable(h.id) /\ Live(h.id)
    BY <2>1 DEF Fresh, Takeable, TypeOK, Handle
  <2>3. h.id \in refs[e.group] /\ e.group \in Ids
    BY <2>1, <2>2, EntryType DEF ShareInv
  <2>4. e.root \in Promised /\ e.root[1] = e.group
    BY <2>1, <2>2, <2>3 DEF RefsInv, EntryInv
  <2>5. e.group # i
    <3> SUFFICES ASSUME e.group = i PROVE FALSE
      OBVIOUS
    <3>1. PICK x \in issued : x.id = i
      BY <2>4 DEF PromisedInv
    <3>2. x.gen < 0 /\ x.gen \in Nat
      BY <1>7, <1>9, <1>10, <3>1 DEF TypeOK, Handle
    <3> QED  BY <3>2
  <2> QED  BY <2>1, <2>2, <2>3, <2>4, <2>5
<1>11. next = "allocated" => e.group = i /\ e.root = <<i, e.gen>>
  OBVIOUS
<1>12. EntryInv'
  BY <1>2, <1>3, <1>4, <1>10, <1>11 DEF EntryInv
<1>13. RefsInv'
  BY <1>1, <1>2, <1>3, <1>4, <1>6, <1>8 DEF RefsInv, Disposing
<1>14. ASSUME Opens(f)'
       PROVE  next = "allocated" /\ <<i, e.gen>> \notin Promised
  <2>1. e.group = i
    BY <1>2, <1>14 DEF Opens
  <2>2. next = "allocated"
    BY <1>10, <2>1
  <2>3. ~\E h \in issued : h.id = i /\ h.gen = e.gen
    BY <1>7 DEF Entry, TypeOK, Handle
  <2> QED  BY <2>2, <2>3 DEF PromisedInv
<1>15. \A g \in Fibers : Opens(g)' => g = f
  BY <1>6 DEF Opens
<1>16. PromisedInv'
  BY <1>1, <1>2, <1>3, <1>11, <1>14, <1>15 DEF PromisedInv
<1>17. PlanInv'
  BY <1>1, <1>2, <1>14, <1>15 DEF PlanInv
<1>18. ArmedInv'
  BY <1>1, <1>2, <1>3, <1>8 DEF ArmedInv, TypeOK
<1>19. \A g \in Fibers : Finalizing(g)' => g # f /\ Finalizing(g)
  BY <1>2 DEF Finalizing
<1>20. FinalInv'
  <2>1. ASSUME NEW g \in Fibers, Finalizing(g), loc[g].id # None
        PROVE  loc[g].id \in Ids /\ loc[g].id # i
    BY <1>1, <2>1 DEF Finalizing, Disposing, LocalsInv
  <2> QED  BY <1>1, <1>2, <1>3, <1>19, <2>1 DEF FinalInv, Finalizing
<1>21. OpenInv'
  <2>1. \A g \in Ids : \A j \in refs[g] :
            (rcOpen => g \in armed) /\ (Takeable(j)' => rcOpen)
    BY <1>4, <1>8 DEF OpenInv
  <2>2. \A g \in Fibers : (Finalizing(g) /\ loc[g].id = None)' \/
            pc'[g] = "shutting" => ~rcOpen
    BY <1>2, <1>19 DEF OpenInv
  <2>3. \A g \in Fibers : ~((pc[g] = "closing" \/ Disposing(g)) /\
            loc[g].op = "close")'
    BY <1>2, <1>5 DEF HoldsPermit, Disposing
  <2> QED  BY <1>1, <2>1, <2>2, <2>3 DEF OpenInv
<1>22. ShareInv'
  <2>1. ASSUME NEW g \in Fibers, Registering(g)', ~Opens(g)'
        PROVE  /\ pc'[g] = "planned"
               /\ \E j \in refs'[entries'[loc'[g].id].group] :
                      Takeable(j)' /\ entries'[j].root = entries'[loc'[g].id].root
    <3>1. g = f /\ next = "planned"
      BY <1>2, <1>6, <1>11, <2>1 DEF Opens
    <3>2. PICK j \in refs[e.group] : Takeable(j) /\ entries[j].root = e.root
      BY <1>10, <3>1
    <3>3. e.group \in Ids /\ j \in Ids /\ j # i
      BY <1>8, <3>2 DEF Entry
    <3> QED  BY <1>1, <1>2, <1>4, <3>1, <3>2, <3>3
  <2>2. ASSUME NEW h \in issued, Fresh(h)'
        PROVE  h.id \in refs'[entries'[h.id].group]
    <3>1. h.id # i /\ h.id \in Ids
      BY <1>2, <1>7, <2>2 DEF Fresh, TypeOK, Handle, Entry
    <3>2. Fresh(h)
      BY <1>2, <2>2, <3>1 DEF Fresh, Live
    <3> QED  BY <1>1, <1>2, <3>1, <3>2 DEF ShareInv
  <2> QED  BY <1>1, <2>1, <2>2 DEF ShareInv
<1>23. KeptInv'
  <2>1. \A g \in Fibers, p \in Promised :
            AboutToFinalize(g, p[1]) => AboutToFinalize(g, p[1])'
    BY <1>1, <1>2 DEF AboutToFinalize
  <2> QED  BY <1>1, <1>3, <2>1 DEF KeptInv
<1> QED
  BY <1>12, <1>13, <1>16, <1>17, <1>18, <1>20, <1>21, <1>22, <1>23

\* Recording a plan overwrites none that is still due, unless the group is mixed
\* from then on.
LEMMA RecordPlanStep ==
    ASSUME CleanupInv, ControlInv', GenerationInv', NEW f \in Fibers,
           RecordPlan(f)
    PROVE  CleanupInv'
<1> USE DEF CleanupInv, ControlInv
<1> DEFINE i == loc[f].id
<1>1. Opens(f)
  BY DEF RecordPlan, ShareInv, Registering
<1>2. /\ i \in Ids /\ Takeable(i)
      /\ entries[i].root \notin Promised /\ entries[i].root = <<i, entries[i].gen>>
      /\ entries[i].group = i
  BY <1>1 DEF EntryInv, Opens, Takeable, LocalsInv, PromisedInv
<1>3. /\ plans' = [plans EXCEPT ![i] = entries[i].root]
      /\ mixed' = IF plans[i] \in Promised THEN mixed \cup {i} ELSE mixed
      /\ pc' = [pc EXCEPT ![f] = "planned"]
      /\ pc[f] = "allocated"
      /\ entries' = entries /\ refs' = refs /\ armed' = armed
      /\ rcOpen' = rcOpen /\ loc' = loc /\ issued' = issued /\ cleaned' = cleaned
  BY <1>2 DEF RecordPlan
<1>4. /\ i \notin mixed' => i \notin mixed /\ plans[i] \notin Promised
      /\ \A g \in Ids : g # i => (g \in mixed' <=> g \in mixed)
  BY <1>3
<1>5. i \notin mixed' =>
          i \notin armed /\ \A g \in Fibers : Finalizing(g) => loc[g].group # i
  BY <1>2, <1>4, GroupIsFree
<1> HIDE DEF i
<1>6. /\ Promised' = Promised
      /\ \A j : /\ Live(j)' <=> Live(j)
                /\ Takeable(j)' <=> Takeable(j)
      /\ \A h : Fresh(h)' <=> Fresh(h)
  BY <1>3 DEF Promised, Live, Takeable, Fresh
<1>7. /\ plans'[i] = entries[i].root
      /\ \A g \in Ids : g # i => plans'[g] = plans[g] /\ (Due(g)' <=> Due(g))
  BY <1>2, <1>3, <1>6 DEF TypeOK, Due
<1>8. /\ pc'[f] = "planned"
      /\ \A g \in Fibers : g # f => pc'[g] = pc[g]
      /\ \A g \in Fibers : /\ Registering(g)' <=> Registering(g)
                           /\ Opens(g)' <=> Opens(g)
                           /\ Disposing(g)' <=> Disposing(g)
                           /\ Finalizing(g)' <=> Finalizing(g)
  BY <1>3 DEF Registering, Opens, Disposing, Finalizing, TypeOK
<1>9. EntryInv' /\ RefsInv'
  BY <1>3, <1>6, <1>8 DEF EntryInv, RefsInv, Disposing
<1>10. PromisedInv'
  <2>1. \A p \in cleaned : p[1] \notin mixed' => p[1] \notin mixed
    BY <1>3
  <2> QED  BY <1>3, <1>6, <1>8, <2>1 DEF PromisedInv
<1>11. PlanInv'
  <2>1. \A g \in Fibers : Opens(g) => g = f
    BY <1>1, PermitAlone DEF Opens, Registering, HoldsPermit
  <2>2. \A g \in Ids : plans'[g] # None => plans'[g][1] = g
    BY <1>2, <1>7 DEF PlanInv
  <2> QED  BY <1>3, <1>7, <1>8, <2>1, <2>2 DEF PlanInv, i
<1>12. ArmedInv'
  BY <1>3, <1>4, <1>5, <1>7 DEF ArmedInv, TypeOK
<1>13. FinalInv'
  <2>1. \A g \in Fibers : Finalizing(g) => loc[g].group \in Ids
    BY DEF LocalsInv, Finalizing
  <2>2. ASSUME NEW g \in Fibers, Finalizing(g), loc[g].group \notin mixed'
        PROVE  loc[g].group # i /\ loc[g].group \notin mixed /\ g # f
    BY <1>3, <1>4, <1>5, <2>1, <2>2 DEF Finalizing
  <2> QED  BY <1>3, <1>7, <1>8, <2>1, <2>2 DEF FinalInv
<1>14. OpenInv'
  BY <1>3, <1>6, <1>8 DEF OpenInv
<1>15. ShareInv'
  BY <1>3, <1>6, <1>8 DEF ShareInv
<1>16. KeptInv'
  <2>1. \A g \in Fibers, p \in Promised :
            AboutToFinalize(g, p[1]) => AboutToFinalize(g, p[1])'
    BY <1>3 DEF AboutToFinalize, TypeOK
  <2>2. ASSUME NEW p \in Promised, p[1] \notin mixed', p \notin cleaned
        PROVE  /\ plans'[p[1]] = p
               /\ p[1] \in armed \/ \E g \in Fibers : AboutToFinalize(g, p[1])'
    <3>1. p[1] \in Ids /\ p[1] \notin mixed
      BY <1>3, <2>2 DEF Promised, TypeOK, Handle, Roots
    <3>2. /\ plans[p[1]] = p
          /\ p[1] \in armed \/ \E g \in Fibers : AboutToFinalize(g, p[1])
      BY <2>2, <3>1 DEF KeptInv
    <3>3. p[1] # i
      BY <1>4, <2>2, <3>2
    <3> QED  BY <1>7, <2>1, <2>2, <3>1, <3>2, <3>3
  <2> QED  BY <1>3, <1>6, <2>2 DEF KeptInv
<1> QED
  BY <1>9, <1>10, <1>11, <1>12, <1>13, <1>14, <1>15, <1>16

\* The plan of the resource an acquiring fiber hands out is recorded and due, and
\* if the fiber shares it, some handle of it is still usable.
\* The plan of the resource an acquiring fiber hands out is recorded and due, and
\* if the fiber shares it, some handle of it is still usable.
LEMMA AcquiresDue ==
    ASSUME CleanupInv, NEW f \in Fibers, pc[f] = "planned", rcOpen,
           NEW i, i = loc[f].id, NEW g, g = entries[i].group,
           NEW p, p = entries[i].root
    PROVE  /\ p[1] = g
           /\ g \notin mixed =>
                  /\ plans[g] = p /\ p \notin cleaned /\ plans[g] # None
                  /\ \A j \in refs[g] : entries[j].root = p
                  /\ \A x \in Fibers : Finalizing(x) => loc[x].group # g
           /\ Opens(f) => p \notin Promised /\ p = <<i, entries[i].gen>>
           /\ ~Opens(f) => /\ p \in Promised
                           /\ \E j \in refs[g] : Takeable(j) /\ entries[j].root = p
<1> USE DEF CleanupInv, ControlInv
<1>0. /\ Registering(f) /\ i \in Ids /\ Takeable(i)
      /\ Live(i) /\ g \in Ids /\ p \in Roots /\ p # None
  BY EntryType, NoneAssumption DEF Registering, LocalsInv, Takeable
<1>1. p[1] = g
  BY <1>0 DEF EntryInv
<1>2. CASE Opens(f)
  <2>1. g = i /\ p \notin Promised /\ p = <<i, entries[i].gen>>
    BY <1>0, <1>2 DEF EntryInv, Opens, PromisedInv
  <2>2. ASSUME g \notin mixed
        PROVE  /\ plans[g] = p /\ p \notin cleaned
               /\ refs[g] = {}
               /\ \A x \in Fibers : Finalizing(x) => loc[x].group # g
    <3>1. plans[g] = p
      BY <1>0, <1>2, <2>1, <2>2 DEF PlanInv
    <3>2. p \notin cleaned
      BY <1>1, <2>1, <2>2 DEF PromisedInv
    <3> QED  BY <1>2, <2>1, <2>2, <3>1, <3>2, OpensAlone
  <2> QED  BY <1>0, <1>1, <1>2, <2>1, <2>2
<1>3. CASE ~Opens(f)
  <2>1. PICK j \in refs[g] : Takeable(j) /\ entries[j].root = p
    BY <1>0, <1>3 DEF ShareInv
  <2>2. /\ g \in armed /\ p \in Promised
        /\ g \notin mixed =>
               /\ Due(g) /\ p = plans[g]
               /\ \A x \in Fibers : Finalizing(x) => loc[x].group # g
    BY <1>0, <2>1, UsableIsDue
  <2>3. g \notin mixed => \A k \in refs[g] : entries[k].root = p
    BY <2>2 DEF ArmedInv
  <2> QED  BY <1>1, <1>3, <2>1, <2>2, <2>3 DEF Due
<1> QED  BY <1>2, <1>3

\* A handle given out arms its group with the plan recorded for it.
\* A handle given out arms its group with the plan recorded for it.
LEMMA AcquireStep ==
    ASSUME CleanupInv, ControlInv', GenerationInv', NEW f \in Fibers,
           Acquire(f), NEW i, i = loc[f].id, NEW g, g = entries[i].group,
           NEW p, p = entries[i].root
    PROVE  CleanupInv'
<1> USE DEF CleanupInv, ControlInv
<1>1. /\ pc[f] = "planned" /\ Registering(f) /\ i \in Ids /\ Takeable(i)
      /\ Live(i) /\ g \in Ids /\ p \in Roots /\ entries[i].gen \in Nat
  BY EntryType DEF Acquire, Registering, LocalsInv, Takeable
<1>2. /\ refs' = [refs EXCEPT ![g] = refs[g] \cup {i}]
      /\ armed' = armed \cup {g} /\ rcOpen /\ rcOpen' = rcOpen
      /\ issued' = issued \cup {HandleOf(i)}
      /\ pc' = [pc EXCEPT ![f] = "idle"]
      /\ loc' = [loc EXCEPT ![f] = NoLocals]
      /\ entries' = entries /\ plans' = plans /\ cleaned' = cleaned
      /\ mixed' = mixed
  BY DEF Acquire, Goto
<1>3. /\ pc'[f] = "idle"
      /\ \A x \in Fibers : x # f => pc'[x] = pc[x] /\ loc'[x] = loc[x]
      /\ refs'[g] = refs[g] \cup {i}
      /\ \A x \in Ids : x # g => refs'[x] = refs[x]
  BY <1>1, <1>2 DEF TypeOK
<1>4. /\ Promised' = Promised \cup {p}
      /\ \A j : Live(j)' <=> Live(j)
      /\ \A j : Takeable(j)' <=> Takeable(j)
      /\ \A h : Fresh(h)' <=> Fresh(h)
  <2>1. HandleOf(i).root = p
    BY DEF HandleOf
  <2> QED  BY <1>2, <2>1 DEF Promised, Live, Takeable, Fresh
<1>6. \A x \in Fibers : x # f => ~Registering(x)
  BY <1>1, PermitAlone DEF Registering, HoldsPermit
<1>7. /\ p[1] = g
      /\ g \notin mixed =>
             /\ plans[g] = p /\ p \notin cleaned /\ plans[g] # None
             /\ \A j \in refs[g] : entries[j].root = p
             /\ \A x \in Fibers : Finalizing(x) => loc[x].group # g
      /\ p \in Promised \/ p = <<i, entries[i].gen>>
  BY <1>1, <1>2, AcquiresDue
<1>8. HandleOf(i).id = i /\ HandleOf(i).gen = entries[i].gen /\
          HandleOf(i).root = p
  BY DEF HandleOf
<1>10. \A x \in Ids : Due(x) => Due(x)'
  BY <1>2, <1>4 DEF Due
<1>11. g \notin mixed => Due(g)'
  BY <1>2, <1>4, <1>7 DEF Due
<1>12. EntryInv'
  BY <1>2, <1>4 DEF EntryInv
<1>13. RefsInv'
  <2>1. ASSUME NEW x \in Ids, NEW j \in refs'[x]
        PROVE  Live(j) /\ entries[j].group = x /\ entries[j].root \in Promised'
    BY <1>1, <1>3, <1>4, <2>1 DEF RefsInv
  <2>2. ASSUME NEW x \in Ids, NEW j \in refs'[x], NEW y \in Fibers, loc'[y].id = j
        PROVE  ~Registering(y)' /\ (Disposing(y)' => pc'[y] = "releasing")
    <3>1. CASE y = f
      BY <1>3, <3>1 DEF Registering, Disposing
    <3>2. CASE y # f
      <4>1. CASE j \in refs[x]
        BY <1>3, <2>2, <3>2, <4>1 DEF RefsInv, Registering, Disposing
      <4>2. CASE j = i
        <5>1. ~Registering(y)'
          BY <1>3, <1>6, <3>2 DEF Registering
        <5>2. ~Disposing(y)
          BY <1>1, <1>3, <2>2, <3>2, <4>2 DEF LocalsInv, Takeable
        <5> QED  BY <1>3, <3>2, <5>1, <5>2 DEF Disposing
      <4> QED  BY <1>3, <2>2, <4>1, <4>2
    <3> QED  BY <3>1, <3>2
  <2> QED  BY <1>2, <1>4, <2>1, <2>2 DEF RefsInv
<1>14. \A x \in Fibers : ~Registering(x)' /\ ~Opens(x)'
  BY <1>3, <1>6 DEF Registering, Opens
<1>15. PromisedInv'
  <2>1. \A q \in Promised' : \E h \in issued' : h.id = q[1] /\ h.gen = q[2]
    BY <1>2, <1>4, <1>7, <1>8 DEF PromisedInv
  <2> QED  BY <1>2, <1>4, <1>14, <2>1 DEF PromisedInv
<1>16. PlanInv'
  BY <1>2, <1>14 DEF PlanInv
<1>17. ArmedInv'
  <2>1. ASSUME NEW x \in armed', x \notin mixed
        PROVE  /\ Due(x)' /\ refs'[x] # {}
               /\ \A j \in refs'[x] : entries[j].root = plans[x]
    <3>1. CASE x = g
      BY <1>1, <1>3, <1>7, <1>11, <2>1, <3>1
    <3>2. CASE x # g
      BY <1>2, <1>3, <1>10, <2>1, <3>2 DEF ArmedInv, TypeOK
    <3> QED  BY <3>1, <3>2
  <2> QED  BY <1>2, <2>1 DEF ArmedInv
<1>18. \A x \in Fibers : Finalizing(x)' => x # f /\ Finalizing(x)
  BY <1>3 DEF Finalizing
<1>19. FinalInv'
  <2>1. \A x \in Fibers : Finalizing(x) => loc[x].group \in Ids
    BY DEF LocalsInv, Finalizing
  <2> QED
    BY <1>2, <1>3, <1>7, <1>10, <1>18, <2>1 DEF FinalInv
<1>20. OpenInv'
  <2>1. \A x \in Ids : \A j \in refs'[x] :
            (rcOpen => x \in armed') /\ (Takeable(j) => rcOpen)
    BY <1>1, <1>2, <1>3 DEF OpenInv
  <2>2. \A x \in Fibers : (Finalizing(x) /\ loc[x].id = None)' \/
            pc'[x] = "shutting" => ~rcOpen
    BY <1>3, <1>18 DEF OpenInv
  <2>3. ASSUME NEW x \in Fibers, ((pc[x] = "closing" \/ Disposing(x)) /\
                   loc[x].op = "close")'
        PROVE  \A j \in Ids : Takeable(j) => j \in loc'[x].todo
    <3>1. x # f
      BY <1>3, <2>3 DEF Disposing
    <3> QED  BY <1>3, <2>3, <3>1 DEF OpenInv, Disposing
  <2> QED  BY <1>2, <1>4, <2>1, <2>2, <2>3 DEF OpenInv
<1>21. ShareInv'
  <2>1. ASSUME NEW h \in issued', Fresh(h)
        PROVE  h.id \in refs'[entries[h.id].group]
    <3>1. CASE h \in issued
      <4>1. h.id \in refs[entries[h.id].group] /\ h.id \in Ids
        BY <2>1, <3>1 DEF ShareInv, TypeOK, Handle
      <4>2. entries[h.id].group \in Ids
        BY <2>1, <4>1, EntryType DEF Fresh
      <4> QED  BY <1>3, <4>1, <4>2
    <3>2. CASE h = HandleOf(i)
      BY <1>3, <1>8, <3>2
    <3> QED  BY <1>2, <2>1, <3>1, <3>2
  <2> QED  BY <1>2, <1>4, <1>14, <2>1 DEF ShareInv
<1>22. KeptInv'
  <2>1. \A x \in Fibers, q \in Promised :
            AboutToFinalize(x, q[1]) => AboutToFinalize(x, q[1])'
    BY <1>1, <1>3 DEF AboutToFinalize
  <2>2. ASSUME NEW q \in Promised, q[1] \notin mixed, q \notin cleaned
        PROVE  /\ plans[q[1]] = q
               /\ q[1] \in armed' \/ \E x \in Fibers : AboutToFinalize(x, q[1])'
    <3>1. plans[q[1]] = q
      BY <2>2 DEF KeptInv
    <3>2. CASE q[1] \in armed
      BY <1>2, <3>1, <3>2
    <3>3. CASE \E x \in Fibers : AboutToFinalize(x, q[1])
      BY <2>1, <3>1, <3>3
    <3> QED  BY <2>2, <3>2, <3>3 DEF KeptInv
  <2>3. p[1] \notin mixed => plans[p[1]] = p /\ p[1] \in armed'
    BY <1>2, <1>7
  <2> QED  BY <1>2, <1>4, <2>2, <2>3 DEF KeptInv
<1> QED
  BY <1>12, <1>13, <1>15, <1>16, <1>17, <1>19, <1>20, <1>21, <1>22

\* From here on the handle of entry i is not usable.
LEMMA TakeStep ==
    ASSUME CleanupInv, ControlInv', GenerationInv', NEW f \in Fibers,
           NEW i \in Ids, Take(f, i), pc[f] \in {"idle", "closing"},
           \A g \in Fibers : ~Registering(g),
           UNCHANGED <<rcVars, issued>>,
           \A g \in Fibers : g # f => loc'[g] = loc[g],
           loc'[f].id = i,
           loc'[f].op = "close" => /\ pc[f] = "closing" /\ loc[f].op = "close"
                                   /\ loc'[f].todo = loc[f].todo,
           \A h \in issued : ~Fresh(h) => ~Fresh(h)'
    PROVE  CleanupInv'
<1> USE DEF CleanupInv, ControlInv
<1>1. /\ plans' = plans /\ refs' = refs /\ armed' = armed /\ rcOpen' = rcOpen
      /\ cleaned' = cleaned /\ issued' = issued /\ mixed' = mixed
  BY DEF rcVars
<1>2. /\ entries[i] \in Entry /\ Takeable(i) /\ Live(i)
      /\ entries'[i] = [entries[i] EXCEPT !.disposing = TRUE]
      /\ entries'[i] \in Entry
      /\ \A j \in Ids : j # i => entries'[j] = entries[j]
  BY TakeType, EntryType DEF Take, Takeable
<1>3. /\ entries'[i].group = entries[i].group /\ entries'[i].root = entries[i].root
      /\ entries'[i].gen = entries[i].gen /\ entries'[i].disposing
      /\ entries'[i] # None
  BY <1>2, NoneAssumption DEF Entry
<1>4. /\ Promised' = Promised
      /\ \A g : Due(g)' <=> Due(g)
  BY <1>1 DEF Promised, Due
<1>5. ASSUME NEW j \in Ids
      PROVE  /\ Live(j)' <=> Live(j)
             /\ Takeable(j)' => Takeable(j)
             /\ entries'[j].group = entries[j].group
             /\ entries'[j].root = entries[j].root
             /\ entries'[j].gen = entries[j].gen
  BY <1>2, <1>3 DEF Live, Takeable
<1>6. /\ pc'[f] = "releasing"
      /\ \A g \in Fibers : g # f => pc'[g] = pc[g]
  BY DEF Take, Goto, TypeOK
<1>7. \A g \in Fibers : ~Registering(g)' /\ ~Opens(g)'
  BY <1>6 DEF Registering, Opens
<1>8. \A g \in Fibers : Finalizing(g)' => g # f /\ Finalizing(g)
  BY <1>6 DEF Finalizing
<1>9. EntryInv'
  BY <1>4, <1>5 DEF EntryInv
<1>10. RefsInv'
  <2>1. \A g \in Ids : \A j \in refs[g] : j \in Ids
    BY DEF TypeOK
  <2>2. \A g \in Fibers : Disposing(g)' => g = f \/ Disposing(g)
    BY <1>6 DEF Disposing
  <2> QED  BY <1>1, <1>4, <1>5, <1>6, <1>7, <2>1, <2>2 DEF RefsInv
<1>11. PromisedInv' /\ PlanInv'
  BY <1>1, <1>4, <1>7 DEF PromisedInv, PlanInv
<1>12. ArmedInv'
  BY <1>1, <1>4, <1>5 DEF ArmedInv, TypeOK
<1>13. FinalInv'
  <2>1. ASSUME NEW g \in Fibers, Finalizing(g), loc[g].id # None
        PROVE  loc[g].id \in Ids
    BY <2>1 DEF LocalsInv, Finalizing, Disposing
  <2> QED  BY <1>1, <1>4, <1>5, <1>6, <1>8, <2>1 DEF FinalInv
<1>14. OpenInv'
  <2>1. \A g \in Ids : \A j \in refs[g] :
            (rcOpen => g \in armed) /\ (Takeable(j)' => rcOpen)
    BY <1>5 DEF OpenInv, TypeOK
  <2>2. \A g \in Fibers : (Finalizing(g) /\ loc[g].id = None)' \/
            pc'[g] = "shutting" => ~rcOpen
    BY <1>6, <1>8 DEF OpenInv
  <2>3. ASSUME NEW g \in Fibers, ((pc[g] = "closing" \/ Disposing(g)) /\
                   loc[g].op = "close")', NEW j \in Ids, Takeable(j)'
        PROVE  j \in loc'[g].todo
    <3>1. CASE g = f
      BY <1>5, <2>3, <3>1 DEF OpenInv
    <3>2. CASE g # f
      BY <1>5, <1>6, <2>3, <3>2 DEF OpenInv, Disposing
    <3> QED  BY <3>1, <3>2
  <2> QED  BY <1>1, <2>1, <2>2, <2>3 DEF OpenInv
<1>15. ShareInv'
  <2>1. ASSUME NEW h \in issued, Fresh(h)'
        PROVE  h.id \in refs[entries'[h.id].group]
    <3>1. Fresh(h) /\ h.id \in Ids
      BY <2>1 DEF TypeOK, Handle
    <3> QED  BY <1>5, <3>1 DEF ShareInv
  <2> QED  BY <1>1, <1>7, <2>1 DEF ShareInv
<1>16. KeptInv'
  <2>1. \A g \in Fibers, p \in Promised :
            AboutToFinalize(g, p[1]) => AboutToFinalize(g, p[1])'
    BY <1>6 DEF AboutToFinalize
  <2> QED  BY <1>1, <1>4, <2>1 DEF KeptInv
<1> QED
  BY <1>9, <1>10, <1>11, <1>12, <1>13, <1>14, <1>15, <1>16

\* The last reference of a group hands its plan over to the fiber that drops it.
LEMMA ReleaseStep ==
    ASSUME CleanupInv, ControlInv', GenerationInv', NEW f \in Fibers,
           Release(f), NEW i, i = loc[f].id, NEW g, g = entries[i].group
    PROVE  CleanupInv'
<1> USE DEF CleanupInv, ControlInv
<1> DEFINE last == LastHolder(i, g)
<1>1. /\ pc[f] = "releasing" /\ Disposing(f) /\ i \in Ids /\ Live(i)
      /\ entries[i].disposing /\ g \in Ids /\ i # None
  BY EntryType, NoneAssumption DEF Release, Disposing, LocalsInv
<1>2. /\ refs' = [refs EXCEPT ![g] = refs[g] \ {i}]
      /\ armed' = IF last THEN armed \ {g} ELSE armed
      /\ pc' = [pc EXCEPT ![f] = IF last THEN "finalizing" ELSE "clearing"]
      /\ loc' = [loc EXCEPT ![f].group = IF last THEN g ELSE None]
      /\ entries' = entries /\ plans' = plans /\ rcOpen' = rcOpen
      /\ issued' = issued /\ cleaned' = cleaned /\ mixed' = mixed
  BY DEF Release, Goto
<1>3. /\ pc'[f] = IF last THEN "finalizing" ELSE "clearing"
      /\ \A x \in Fibers : x # f => pc'[x] = pc[x] /\ loc'[x] = loc[x]
      /\ loc'[f].id = i /\ loc'[f].op = loc[f].op /\ loc'[f].todo = loc[f].todo
      /\ last => loc'[f].group = g
      /\ refs'[g] = refs[g] \ {i}
      /\ \A x \in Ids : x # g => refs'[x] = refs[x]
  BY <1>1, <1>2 DEF TypeOK, Locals
<1>4. /\ Promised' = Promised
      /\ \A j : Live(j)' <=> Live(j)
      /\ \A j : Takeable(j)' <=> Takeable(j)
      /\ \A h : Fresh(h)' <=> Fresh(h)
      /\ \A x : Due(x)' <=> Due(x)
  BY <1>2 DEF Promised, Live, Takeable, Fresh, Due
<1>5. \A x \in Fibers : /\ Registering(x)' => x # f /\ Registering(x)
                        /\ Opens(x)' => x # f /\ Opens(x)
                        /\ Registering(x)' /\ Opens(x) => Opens(x)'
                        /\ Disposing(x)' => Disposing(x)
                        /\ Finalizing(x)' => Finalizing(x) \/ (x = f /\ last)
  BY <1>1, <1>2, <1>3 DEF Registering, Opens, Disposing, Finalizing
<1>6. last => g \in armed /\ refs[g] = {i}
  BY DEF LastHolder
<1>7. \A x \in Ids : refs'[x] \subseteq refs[x] \ {i}
  BY <1>1, <1>3 DEF RefsInv
<1> HIDE DEF last
<1>8. EntryInv' /\ PromisedInv' /\ PlanInv'
  <2>1. \A x \in Fibers : Opens(x)' => Opens(x) /\ loc'[x] = loc[x] /\
            pc'[x] = pc[x]
    BY <1>3, <1>5
  <2> QED  BY <1>2, <1>4, <2>1 DEF EntryInv, PromisedInv, PlanInv
<1>9. RefsInv'
  BY <1>2, <1>3, <1>4, <1>5, <1>7 DEF RefsInv, TypeOK
<1>10. ArmedInv'
  <2>1. ASSUME NEW x \in armed', x \notin mixed
        PROVE  refs'[x] # {}
    <3>1. x \in armed /\ x \in Ids
      BY <1>2, <2>1 DEF TypeOK
    <3>2. CASE x = g
      <4>1. ~last /\ refs[g] # {}
        BY <1>2, <1>6, <2>1, <3>1, <3>2 DEF ArmedInv
      <4> QED  BY <1>3, <3>1, <3>2, <4>1 DEF LastHolder, last
    <3>3. CASE x # g
      BY <1>3, <2>1, <3>1, <3>3 DEF ArmedInv
    <3> QED  BY <3>2, <3>3
  <2>2. armed' \subseteq armed /\ armed \subseteq Ids
    BY <1>2 DEF TypeOK
  <2> QED  BY <1>2, <1>4, <1>7, <2>1, <2>2 DEF ArmedInv
<1>11. FinalInv'
  <2>1. ASSUME NEW x \in Fibers, Finalizing(x)
        PROVE  /\ x # f /\ pc'[x] = pc[x] /\ loc'[x] = loc[x]
               /\ last /\ g \notin mixed => loc[x].group # g
    BY <1>1, <1>3, <1>6, <2>1 DEF Finalizing, FinalInv
  <2>2. armed' \subseteq armed /\ (last => g \notin armed' /\ (g \notin mixed => Due(g)))
    BY <1>2, <1>6 DEF ArmedInv
  <2>3. ASSUME NEW x \in Fibers, Finalizing(x)'
        PROVE  /\ loc'[x].id # None => entries[loc'[x].id].group = loc'[x].group
               /\ loc'[x].group \notin mixed =>
                      /\ loc'[x].group \notin armed'
                      /\ pc'[x] = "finalizing" => Due(loc'[x].group)
                      /\ pc'[x] = "cleaning" => plans[loc'[x].group] \in cleaned
                      /\ \A y \in Fibers : Finalizing(y)' /\ loc'[y].group =
                             loc'[x].group => y = x
    <3>1. CASE x = f
      <4>1. last /\ pc'[x] = "finalizing" /\ loc'[x].group = g /\ loc'[x].id = i
        BY <1>1, <1>3, <1>5, <2>1, <2>3, <3>1
      <4> QED  BY <1>5, <2>1, <2>2, <3>1, <4>1
    <3>2. CASE x # f
      <4>1. Finalizing(x)
        BY <1>5, <2>3, <3>2
      <4>2. ASSUME NEW y \in Fibers, Finalizing(y)', loc'[y].group = loc'[x].group,
                   loc'[x].group \notin mixed
            PROVE  y = x
        <5>1. CASE y = f
          BY <1>3, <1>5, <2>1, <4>1, <4>2, <5>1
        <5>2. CASE y # f
          BY <1>5, <2>1, <4>1, <4>2, <5>2 DEF FinalInv
        <5> QED  BY <5>1, <5>2
      <4> QED  BY <2>1, <2>2, <4>1, <4>2 DEF FinalInv
    <3> QED  BY <3>1, <3>2
  <2> QED  BY <1>2, <1>4, <2>3 DEF FinalInv
<1>12. OpenInv'
  <2>1. ASSUME NEW x \in Ids, NEW j \in refs'[x]
        PROVE  (rcOpen => x \in armed') /\ (Takeable(j) => rcOpen)
    <3>1. /\ j \in refs[x] /\ j # i
          /\ (rcOpen => x \in armed) /\ (Takeable(j) => rcOpen)
      BY <1>7, <2>1 DEF OpenInv
    <3> QED  BY <1>2, <1>6, <3>1
  <2>2. \A x \in Fibers : (Finalizing(x) /\ loc[x].id = None)' \/
            pc'[x] = "shutting" => ~rcOpen
    BY <1>1, <1>3, <1>5 DEF OpenInv
  <2>3. ASSUME NEW x \in Fibers, ((pc[x] = "closing" \/ Disposing(x)) /\
                   loc[x].op = "close")'
        PROVE  \A j \in Ids : Takeable(j) => j \in loc'[x].todo
    <3>1. CASE x = f
      BY <1>1, <1>3, <2>3, <3>1 DEF OpenInv
    <3>2. CASE x # f
      BY <1>3, <1>5, <2>3, <3>2 DEF OpenInv
    <3> QED  BY <3>1, <3>2
  <2> QED  BY <1>2, <1>4, <2>1, <2>2, <2>3 DEF OpenInv
<1>13. ShareInv'
  <2>1. ASSUME NEW x \in Ids, NEW j \in refs[x], Takeable(j)
        PROVE  j \in refs'[x]
    BY <1>1, <1>3, <2>1 DEF Takeable
  <2>2. ASSUME NEW x \in Fibers, Registering(x)', ~Opens(x)'
        PROVE  /\ pc'[x] = "planned"
               /\ \E j \in refs'[entries[loc'[x].id].group] :
                      Takeable(j) /\ entries[j].root = entries[loc'[x].id].root
    <3>1. Registering(x) /\ ~Opens(x) /\ pc'[x] = pc[x] /\ loc'[x] = loc[x]
      BY <1>3, <1>5, <2>2
    <3>2. entries[loc[x].id].group \in Ids
      BY <3>1, EntryType DEF LocalsInv, Takeable
    <3> QED  BY <2>1, <3>1, <3>2 DEF ShareInv
  <2>3. ASSUME NEW h \in issued, Fresh(h)
        PROVE  h.id \in refs'[entries[h.id].group]
    <3>1. h.id \in Ids /\ Takeable(h.id) /\ Live(h.id)
      BY <2>3 DEF TypeOK, Handle, Fresh, Takeable, Live
    <3> QED  BY <2>1, <2>3, <3>1, EntryType DEF ShareInv
  <2> QED  BY <1>2, <1>4, <2>2, <2>3 DEF ShareInv
<1>14. KeptInv'
  <2>1. ASSUME NEW p \in Promised, p[1] \notin mixed, p \notin cleaned
        PROVE  /\ plans[p[1]] = p
               /\ p[1] \in armed' \/ \E x \in Fibers : AboutToFinalize(x, p[1])'
    <3>1. plans[p[1]] = p
      BY <2>1 DEF KeptInv
    <3>2. CASE p[1] \in armed /\ ~(last /\ p[1] = g)
      BY <1>2, <3>1, <3>2
    <3>3. CASE last /\ p[1] = g
      BY <1>3, <3>1, <3>3 DEF AboutToFinalize
    <3>4. CASE \E x \in Fibers : AboutToFinalize(x, p[1])
      <4>1. PICK x \in Fibers : AboutToFinalize(x, p[1])
        BY <3>4
      <4>2. AboutToFinalize(x, p[1])'
        BY <1>1, <1>3, <4>1 DEF AboutToFinalize
      <4> QED  BY <3>1, <4>2
    <3> QED  BY <2>1, <3>2, <3>3, <3>4 DEF KeptInv
  <2> QED  BY <1>2, <1>4, <2>1 DEF KeptInv
<1> QED  BY <1>8, <1>9, <1>10, <1>11, <1>12, <1>13, <1>14

\* Starting a cleanup settles the plan of the one group f finalizes.
LEMMA CleanupStartStep ==
    ASSUME CleanupInv, ControlInv', GenerationInv', NEW f \in Fibers,
           CleanupStart(f), NEW g, g = loc[f].group
    PROVE  CleanupInv'
<1> USE DEF CleanupInv, ControlInv
<1>1. /\ pc[f] = "finalizing" /\ Finalizing(f) /\ g \in Ids
      /\ g \notin mixed => Due(g) /\ g \notin armed
  BY DEF CleanupStart, Finalizing, FinalInv, LocalsInv
<1>2. /\ cleaned' = IF plans[g] = None THEN cleaned ELSE cleaned \cup {plans[g]}
      /\ pc' = [pc EXCEPT ![f] =
                    IF plans[g] = None THEN AfterCleanup(f) ELSE "cleaning"]
      /\ entries' = entries /\ plans' = plans /\ refs' = refs /\ armed' = armed
      /\ rcOpen' = rcOpen /\ loc' = loc /\ issued' = issued /\ mixed' = mixed
  BY DEF CleanupStart, Goto
<1>3. /\ pc'[f] = IF plans[g] = None THEN AfterCleanup(f) ELSE "cleaning"
      /\ \A x \in Fibers : x # f => pc'[x] = pc[x]
  BY <1>2 DEF TypeOK
<1>4. /\ Promised' = Promised
      /\ \A j : Live(j)' <=> Live(j)
      /\ \A j : Takeable(j)' <=> Takeable(j)
      /\ \A h : Fresh(h)' <=> Fresh(h)
  BY <1>2 DEF Promised, Live, Takeable, Fresh
<1>5. \A x \in Ids : x # g /\ Due(x) => Due(x)'
  BY <1>1, <1>2, <1>4 DEF Due, PlanInv
<1>6. \A x \in Fibers :
          /\ Registering(x)' <=> Registering(x)
          /\ Opens(x)' <=> Opens(x)
          /\ Disposing(x)' <=> Disposing(x)
          /\ Finalizing(x)' => Finalizing(x) /\ (x = f => plans[g] # None)
          /\ Registering(x) => x # f
  BY <1>1, <1>2, <1>3
     DEF Registering, Opens, Disposing, Finalizing, AfterCleanup
<1>7. EntryInv'
  BY <1>2, <1>4 DEF EntryInv
<1>8. RefsInv'
  BY <1>1, <1>2, <1>3, <1>4, <1>6 DEF RefsInv, Disposing
<1>9. PromisedInv'
  <2>1. \A p \in cleaned' : p[1] \notin mixed => p \in Promised
    BY <1>1, <1>2 DEF PromisedInv, PlanInv, Due
  <2> QED  BY <1>2, <1>4, <1>6, <2>1 DEF PromisedInv
<1>10. PlanInv'
  BY <1>2, <1>3, <1>6 DEF PlanInv, Opens
<1>11. ArmedInv'
  BY <1>1, <1>2, <1>5 DEF ArmedInv, TypeOK
<1>12. FinalInv'
  <2>1. ASSUME NEW x \in Fibers, Finalizing(x), x # f, loc[x].group \notin mixed
        PROVE  /\ loc[x].group # g /\ loc[x].group \in Ids
               /\ pc[x] = "finalizing" => Due(loc[x].group)'
    BY <1>1, <1>2, <1>5, <2>1 DEF FinalInv, LocalsInv, Finalizing
  <2>2. cleaned \subseteq cleaned' /\ (plans[g] # None => plans[g] \in cleaned')
    BY <1>2
  <2> QED  BY <1>2, <1>3, <1>6, <2>1, <2>2 DEF FinalInv
<1>13. OpenInv'
  <2>1. \A x \in Fibers : (Finalizing(x) /\ loc[x].id = None)' \/
            pc'[x] = "shutting" => ~rcOpen
    BY <1>1, <1>2, <1>3, <1>6 DEF OpenInv, AfterCleanup
  <2>2. \A x \in Fibers : (pc[x] = "closing" \/ Disposing(x))' =>
            pc[x] = "closing" \/ Disposing(x)
    BY <1>3, <1>6 DEF AfterCleanup
  <2> QED  BY <1>2, <1>4, <2>1, <2>2 DEF OpenInv
<1>14. ShareInv'
  BY <1>1, <1>2, <1>3, <1>4, <1>6 DEF ShareInv
<1>15. KeptInv'
  <2>1. ASSUME NEW p \in Promised, p[1] \notin mixed, p \notin cleaned'
        PROVE  /\ plans[p[1]] = p
               /\ p[1] \in armed \/ \E x \in Fibers : AboutToFinalize(x, p[1])'
    <3>1. plans[p[1]] = p /\ p \notin cleaned
      BY <1>2, <2>1 DEF KeptInv
    <3>2. p[1] # g
      BY <1>1, <1>2, <2>1, <3>1 DEF Due
    <3>3. \A x \in Fibers : AboutToFinalize(x, p[1]) => AboutToFinalize(x, p[1])'
      BY <1>2, <1>3, <3>2 DEF AboutToFinalize
    <3> QED  BY <2>1, <3>1, <3>3 DEF KeptInv
  <2> QED  BY <1>2, <1>4, <2>1 DEF KeptInv
<1> QED
  BY <1>7, <1>8, <1>9, <1>10, <1>11, <1>12, <1>13, <1>14, <1>15

\* Deleting the plan of a cleanup that has ended loses nothing: the plan is that
\* of the cleanup, and no registration has the group.
\* Deleting the plan of a cleanup that has ended loses nothing: the plan is that
\* of the cleanup, and no registration has the group.
LEMMA CleanupEndStep ==
    ASSUME CleanupInv, ControlInv', GenerationInv', NEW f \in Fibers,
           CleanupEnd(f), NEW g, g = loc[f].group
    PROVE  CleanupInv'
<1> USE DEF CleanupInv, ControlInv
<1>1. /\ pc[f] = "cleaning" /\ Finalizing(f) /\ g \in Ids
      /\ g \notin mixed => plans[g] \in cleaned /\ g \notin armed
  BY DEF CleanupEnd, Finalizing, FinalInv, LocalsInv
<1>2. /\ plans' = [plans EXCEPT ![g] = None]
      /\ pc' = [pc EXCEPT ![f] = AfterCleanup(f)]
      /\ entries' = entries /\ cleaned' = cleaned /\ refs' = refs
      /\ armed' = armed /\ rcOpen' = rcOpen /\ loc' = loc /\ issued' = issued
      /\ mixed' = mixed
  BY DEF CleanupEnd, Goto
<1>3. /\ pc'[f] = AfterCleanup(f)
      /\ \A x \in Fibers : x # f => pc'[x] = pc[x]
      /\ plans'[g] = None
      /\ \A x \in Ids : x # g => plans'[x] = plans[x]
  BY <1>1, <1>2 DEF TypeOK
<1>4. /\ Promised' = Promised
      /\ \A j : Live(j)' <=> Live(j)
      /\ \A j : Takeable(j)' <=> Takeable(j)
      /\ \A h : Fresh(h)' <=> Fresh(h)
      /\ \A x \in Ids : x # g => (Due(x)' <=> Due(x))
  BY <1>2, <1>3 DEF Promised, Live, Takeable, Fresh, Due
<1>5. \A x \in Fibers : /\ Registering(x)' <=> Registering(x)
                        /\ Opens(x)' <=> Opens(x)
                        /\ Disposing(x)' <=> Disposing(x)
                        /\ Finalizing(x)' <=> Finalizing(x) /\ x # f
  BY <1>1, <1>2, <1>3
     DEF Registering, Opens, Disposing, Finalizing, AfterCleanup
<1>6. EntryInv'
  BY <1>2, <1>4 DEF EntryInv
<1>7. RefsInv'
  BY <1>1, <1>2, <1>3, <1>4, <1>5 DEF RefsInv, AfterCleanup
<1>8. PromisedInv'
  BY <1>2, <1>4, <1>5 DEF PromisedInv
<1>9. PlanInv'
  <2>1. \A x \in Fibers : Opens(x) /\ pc[x] = "planned" /\ loc[x].id \notin mixed =>
            x # f /\ loc[x].id # g /\ loc[x].id \in Ids
    BY <1>1, OpensAlone
  <2>2. \A x \in Fibers : Opens(x)' => Opens(x) /\ x # f
    BY <1>1, <1>5 DEF Opens, Registering
  <2> QED  BY <1>2, <1>3, <2>1, <2>2 DEF PlanInv
<1>10. (g \notin mixed => g \notin armed) /\ armed \subseteq Ids
  BY <1>1 DEF TypeOK
<1>11. ArmedInv'
  BY <1>2, <1>3, <1>4, <1>10 DEF ArmedInv
<1>12. FinalInv'
  <2>1. ASSUME NEW x \in Fibers, Finalizing(x), x # f, loc[x].group \notin mixed
        PROVE  loc[x].group # g /\ loc[x].group \in Ids
    BY <1>1, <2>1 DEF FinalInv, LocalsInv, Finalizing
  <2> QED  BY <1>2, <1>3, <1>4, <1>5, <2>1 DEF FinalInv
<1>13. OpenInv'
  <2>1. pc'[f] = "shutting" => ~rcOpen
    BY <1>1, <1>3 DEF OpenInv, AfterCleanup
  <2> QED  BY <1>1, <1>2, <1>3, <1>4, <1>5, <2>1 DEF OpenInv, AfterCleanup
<1>14. ShareInv'
  BY <1>1, <1>2, <1>3, <1>4, <1>5 DEF ShareInv, AfterCleanup, Registering
<1>15. KeptInv'
  <2>1. ASSUME NEW p \in Promised, p[1] \notin mixed, p \notin cleaned
        PROVE  /\ plans'[p[1]] = p
               /\ p[1] \in armed \/ \E x \in Fibers : AboutToFinalize(x, p[1])'
    <3>1. plans[p[1]] = p /\ p[1] # g /\ p[1] \in Ids
      BY <1>1, <2>1 DEF KeptInv, Promised, TypeOK, Handle, Roots
    <3>2. \A x \in Fibers : AboutToFinalize(x, p[1]) => AboutToFinalize(x, p[1])'
      BY <1>2, <1>3, <3>1 DEF AboutToFinalize
    <3> QED  BY <1>3, <2>1, <3>1, <3>2 DEF KeptInv
  <2> QED  BY <1>2, <1>4, <2>1 DEF KeptInv
<1> QED
  BY <1>6, <1>7, <1>8, <1>9, <1>11, <1>12, <1>13, <1>14, <1>15

\* An entry is removed by the only fiber that disposes of it, past its release.
LEMMA ClearStep ==
    ASSUME CleanupInv, ControlInv', GenerationInv', NEW f \in Fibers, Clear(f),
           NEW i, i = loc[f].id, \A h \in issued : ~Fresh(h) => ~Fresh(h)'
    PROVE  CleanupInv'
<1> USE DEF CleanupInv, ControlInv
<1>1. /\ pc[f] = "clearing" /\ Disposing(f) /\ i \in Ids /\ Live(i)
      /\ ~Takeable(i)
  BY DEF Clear, Disposing, LocalsInv, Takeable
<1>2. /\ entries' = [entries EXCEPT ![i] = None]
      /\ plans' = plans /\ refs' = refs /\ armed' = armed
      /\ rcOpen' = rcOpen /\ cleaned' = cleaned /\ issued' = issued
      /\ mixed' = mixed
      /\ pc'[f] \in {"closing", "awaiting"}
      /\ loc'[f] = loc[f]
  BY <1>1 DEF Clear, rcVars
<1>3. \A x \in Fibers : x # f =>
          \/ pc'[x] = pc[x] /\ loc'[x] = loc[x]
          \/ pc[x] = "waiting" /\ pc'[x] = "idle"
  BY DEF Clear
<1>4. /\ entries'[i] = None
      /\ \A j \in Ids : j # i => entries'[j] = entries[j]
  BY <1>1, <1>2 DEF TypeOK
<1>5. /\ Promised' = Promised
      /\ \A j \in Ids : /\ Live(j)' <=> Live(j) /\ j # i
                        /\ Takeable(j)' <=> Takeable(j)
      /\ \A x : Due(x)' <=> Due(x)
  BY <1>1, <1>2, <1>4 DEF Promised, Live, Takeable, Due
<1>6. \A g \in Ids : i \notin refs[g] /\ refs[g] \subseteq Ids
  BY <1>1 DEF RefsInv, TypeOK
<1>7. ASSUME NEW x \in Fibers, Registering(x)
      PROVE  loc[x].id \in Ids /\ loc[x].id # i
  BY <1>1, <1>7 DEF LocalsInv
<1>8. ASSUME NEW x \in Fibers, x # f, Disposing(x)
      PROVE  loc[x].id \in Ids /\ loc[x].id # i
  BY <1>1, <1>8 DEF LocalsInv
<1>9. ASSUME NEW x \in Fibers
      PROVE  /\ Registering(x)' <=> Registering(x)
             /\ Opens(x)' <=> Opens(x)
             /\ Disposing(x)' <=> Disposing(x) /\ x # f
             /\ Finalizing(x)' <=> Finalizing(x)
             /\ Registering(x) \/ Finalizing(x) => x # f
             /\ Registering(x) \/ Finalizing(x) \/ Disposing(x)' =>
                    pc'[x] = pc[x] /\ loc'[x] = loc[x]
  <2>1. /\ Registering(x)' <=> Registering(x)
        /\ Disposing(x)' <=> Disposing(x) /\ x # f
        /\ Finalizing(x)' <=> Finalizing(x)
        /\ Registering(x) \/ Finalizing(x) => x # f
    BY <1>1, <1>2, <1>3 DEF Registering, Disposing, Finalizing
  <2>2. Registering(x) \/ Finalizing(x) \/ Disposing(x)' =>
            pc'[x] = pc[x] /\ loc'[x] = loc[x]
    BY <1>3, <2>1 DEF Registering, Disposing, Finalizing
  <2>3. Opens(x)' <=> Opens(x)
    BY <1>4, <1>7, <2>1, <2>2 DEF Opens
  <2> QED  BY <2>1, <2>2, <2>3
<1>10. EntryInv'
  BY <1>4, <1>5 DEF EntryInv
<1>11. RefsInv'
  BY <1>2, <1>4, <1>5, <1>6, <1>9 DEF RefsInv, Disposing, Registering
<1>12. PromisedInv' /\ PlanInv'
  <2>1. \A x \in Fibers : Opens(x) => /\ loc'[x] = loc[x] /\ pc'[x] = pc[x]
                                      /\ loc[x].id \in Ids /\ loc[x].id # i
    BY <1>7, <1>9 DEF Opens
  <2> QED  BY <1>2, <1>4, <1>5, <1>9, <2>1 DEF PromisedInv, PlanInv
<1>13. ArmedInv'
  BY <1>2, <1>4, <1>5, <1>6 DEF ArmedInv, TypeOK
<1>14. FinalInv'
  <2>1. ASSUME NEW x \in Fibers, Finalizing(x), loc[x].id # None
        PROVE  loc[x].id \in Ids /\ loc[x].id # i
    BY <1>8, <1>9, <2>1 DEF Finalizing, Disposing
  <2> QED  BY <1>2, <1>4, <1>5, <1>9, <2>1 DEF FinalInv
<1>15. OpenInv'
  <2>1. \A g \in Ids : \A j \in refs[g] :
            (rcOpen => g \in armed) /\ (Takeable(j)' => rcOpen)
    BY <1>5, <1>6 DEF OpenInv
  <2>2. \A x \in Fibers : (Finalizing(x) /\ loc[x].id = None)' \/
            pc'[x] = "shutting" => ~rcOpen
    BY <1>2, <1>3, <1>9 DEF OpenInv
  <2>3. ASSUME NEW x \in Fibers, ((pc[x] = "closing" \/ Disposing(x)) /\
                   loc[x].op = "close")'
        PROVE  \A j \in Ids : Takeable(j) => j \in loc'[x].todo
    <3>1. CASE x = f
      BY <1>1, <1>2, <2>3, <3>1 DEF OpenInv
    <3>2. CASE x # f
      BY <1>3, <1>9, <2>3, <3>2 DEF OpenInv
    <3> QED  BY <3>1, <3>2
  <2> QED  BY <1>2, <1>5, <2>1, <2>2, <2>3 DEF OpenInv
<1>16. ShareInv'
  <2>1. ASSUME NEW x \in Fibers, Registering(x)', ~Opens(x)'
        PROVE  /\ pc'[x] = "planned"
               /\ \E j \in refs[entries'[loc'[x].id].group] :
                      Takeable(j)' /\ entries'[j].root = entries'[loc'[x].id].root
    <3>1. /\ Registering(x) /\ ~Opens(x) /\ pc'[x] = pc[x] /\ loc'[x] = loc[x]
          /\ loc[x].id \in Ids /\ loc[x].id # i
      BY <1>7, <1>9, <2>1
    <3>2. entries[loc[x].id].group \in Ids
      BY <3>1, EntryType DEF LocalsInv, Takeable
    <3> QED  BY <1>4, <1>5, <1>6, <3>1, <3>2 DEF ShareInv
  <2>2. ASSUME NEW h \in issued, Fresh(h)'
        PROVE  h.id \in refs[entries'[h.id].group]
    <3>1. Fresh(h) /\ h.id \in Ids /\ h.id # i
      BY <1>4, <2>2 DEF TypeOK, Handle, Fresh, Live
    <3> QED  BY <1>4, <3>1 DEF ShareInv
  <2> QED  BY <1>2, <2>1, <2>2 DEF ShareInv
<1>17. KeptInv'
  <2>1. \A x \in Fibers, p \in Promised :
            AboutToFinalize(x, p[1]) => AboutToFinalize(x, p[1])'
    BY <1>9 DEF AboutToFinalize, Finalizing
  <2> QED  BY <1>2, <1>5, <2>1 DEF KeptInv
<1> QED
  BY <1>10, <1>11, <1>12, <1>13, <1>14, <1>15, <1>16, <1>17

\* When close has disposed of its snapshot no usable handle is left.
LEMMA CloseMapStep ==
    ASSUME CleanupInv, ControlInv', GenerationInv', NEW f \in Fibers, CloseMap(f)
    PROVE  CleanupInv'
<1> USE DEF CleanupInv, ControlInv
<1>1. /\ pc[f] = "closing" /\ loc[f].op = "close" /\ Remaining(f) = {}
      /\ rcOpen' = FALSE
      /\ entries' = entries /\ plans' = plans /\ refs' = refs /\ armed' = armed
      /\ cleaned' = cleaned /\ issued' = issued /\ mixed' = mixed
  BY DEF CloseMap
<1>2. /\ pc'[f] = "shutting"
      /\ \A x \in Fibers : x # f => pc'[x] = pc[x] /\ loc'[x] = loc[x]
  BY DEF CloseMap, Goto, TypeOK
<1>3. /\ Promised' = Promised
      /\ \A j : Live(j)' <=> Live(j)
      /\ \A j : Takeable(j)' <=> Takeable(j)
      /\ \A h : Fresh(h)' <=> Fresh(h)
      /\ \A x : Due(x)' <=> Due(x)
  BY <1>1 DEF Promised, Live, Takeable, Fresh, Due
<1>4. \A x \in Fibers :
        /\ Registering(x)' <=> Registering(x) /\ x # f
        /\ Opens(x)' <=> Opens(x) /\ x # f
        /\ Disposing(x)' <=> Disposing(x) /\ x # f
        /\ Finalizing(x)' <=> Finalizing(x) /\ x # f
        /\ Registering(x) \/ Finalizing(x) \/ Disposing(x) => x # f
  BY <1>1, <1>2 DEF Registering, Opens, Disposing, Finalizing
<1>5. \A j \in Ids : ~Takeable(j)
  BY <1>1 DEF OpenInv, Remaining
<1>6. EntryInv' /\ ArmedInv'
  BY <1>1, <1>3 DEF EntryInv, ArmedInv
<1>7. RefsInv'
  BY <1>1, <1>2, <1>3, <1>4 DEF RefsInv, Disposing
<1>8. PromisedInv' /\ PlanInv'
  BY <1>1, <1>2, <1>3, <1>4 DEF PromisedInv, PlanInv
<1>9. FinalInv'
  BY <1>1, <1>2, <1>3, <1>4 DEF FinalInv
<1>10. OpenInv'
  BY <1>1, <1>3, <1>5, <1>2 DEF OpenInv, TypeOK
<1>11. ShareInv'
  BY <1>1, <1>2, <1>3, <1>4 DEF ShareInv
<1>12. KeptInv'
  BY <1>1, <1>2, <1>3 DEF KeptInv, AboutToFinalize
<1> QED  BY <1>6, <1>7, <1>8, <1>9, <1>10, <1>11, <1>12

\* Closing the map takes over a group that another fiber leaves armed.
LEMMA CloseMapNextStep ==
    ASSUME CleanupInv, ControlInv', GenerationInv', NEW f \in Fibers,
           CloseMapNext(f)
    PROVE  CleanupInv'
<1> USE DEF CleanupInv, ControlInv
<1>1. PICK g \in armed :
        armed' = armed \ {g} /\ loc' = [loc EXCEPT ![f].group = g]
  BY DEF CloseMapNext
<1>2. /\ pc[f] = "shutting" /\ ~rcOpen /\ loc[f].id = None /\ g \in Ids
      /\ entries' = entries /\ plans' = plans /\ refs' = refs
      /\ rcOpen' = rcOpen /\ cleaned' = cleaned /\ issued' = issued
      /\ mixed' = mixed
  BY DEF CloseMapNext, OpenInv, LocalsInv, TypeOK
<1>3. /\ pc'[f] = "finalizing" /\ loc'[f].group = g /\ loc'[f].id = None
      /\ \A x \in Fibers : x # f => pc'[x] = pc[x] /\ loc'[x] = loc[x]
  BY <1>1, <1>2 DEF CloseMapNext, Goto, TypeOK, Locals
<1>4. /\ Promised' = Promised
      /\ \A j : Live(j)' <=> Live(j)
      /\ \A j : Takeable(j)' <=> Takeable(j)
      /\ \A h : Fresh(h)' <=> Fresh(h)
      /\ \A x : Due(x)' <=> Due(x)
  BY <1>2 DEF Promised, Live, Takeable, Fresh, Due
<1>5. \A x \in Fibers :
        /\ Registering(x)' <=> Registering(x)
        /\ Opens(x)' <=> Opens(x)
        /\ Disposing(x)' <=> Disposing(x)
        /\ Finalizing(x)' <=> (Finalizing(x) \/ x = f)
        /\ Registering(x) \/ Finalizing(x) \/ Disposing(x) => x # f
  BY <1>2, <1>3 DEF Registering, Opens, Disposing, Finalizing
<1>6. EntryInv'
  BY <1>2, <1>4 DEF EntryInv
<1>7. RefsInv'
  BY <1>2, <1>3, <1>4, <1>5 DEF RefsInv
<1>8. PromisedInv' /\ PlanInv'
  BY <1>2, <1>3, <1>4, <1>5 DEF PromisedInv, PlanInv
<1>9. ArmedInv'
  BY <1>1, <1>2, <1>4 DEF ArmedInv, TypeOK
<1>10. FinalInv'
  <2>1. g \notin mixed => Due(g) /\ \A x \in Fibers : Finalizing(x) => loc[x].group # g
    BY DEF ArmedInv, FinalInv
  <2> QED  BY <1>1, <1>2, <1>3, <1>4, <1>5, <2>1 DEF FinalInv
<1>11. OpenInv'
  <2>1. \A x \in Ids : \A j \in refs[x] : ~Takeable(j)
    BY <1>2 DEF OpenInv
  <2>2. \A x \in Fibers : (pc[x] = "closing" \/ Disposing(x))' =>
            (pc[x] = "closing" \/ Disposing(x)) /\ x # f
    BY <1>3, <1>5
  <2> QED  BY <1>2, <1>3, <1>4, <2>1, <2>2 DEF OpenInv
<1>12. ShareInv'
  BY <1>2, <1>3, <1>4, <1>5 DEF ShareInv
<1>13. KeptInv'
  <2>1. \A x \in Fibers, p \in Promised :
            AboutToFinalize(x, p[1]) => AboutToFinalize(x, p[1])'
    BY <1>2, <1>3 DEF AboutToFinalize
  <2>2. \A p \in Promised : p[1] = g => AboutToFinalize(f, p[1])'
    BY <1>3 DEF AboutToFinalize
  <2> QED  BY <1>1, <1>2, <1>4, <2>1, <2>2 DEF KeptInv
<1> QED
  BY <1>6, <1>7, <1>8, <1>9, <1>10, <1>11, <1>12, <1>13

-------------------------------------------------------------------------------
(* Every step, and the theorem *)

\* register stores a registration of its own.
LEMMA RegisterStep ==
    ASSUME CleanupInv, ControlInv', GenerationInv', NEW f \in Fibers,
           NEW requested, NEW kind \in Kinds, NEW scope \in Scopes,
           NEW reusable \in BOOLEAN,
           Register(f, requested, kind, scope, reusable)
    PROVE  CleanupInv'
<1> USE DEF CleanupInv, ControlInv
<1>1. PICK i \in RegistrationIds(requested) :
        Store(f, i,
          [kind |-> kind, gen |-> GenerationFor(i, kind, reusable),
           scope |-> scope, reusable |-> reusable, group |-> i,
           root |-> <<i, GenerationFor(i, kind, reusable)>>,
           disposing |-> FALSE],
          "allocated")
  BY DEF Register
<1>2. i \in Ids /\ ~Live(i)
  BY RegistrationIdFree
<1>3. GenerationFor(i, kind, reusable) \in Nat
  BY <1>2, GenerationIsNat
<1> DEFINE gen == GenerationFor(i, kind, reusable)
           e == [kind |-> kind, gen |-> gen, scope |-> scope,
                 reusable |-> reusable, group |-> i, root |-> <<i, gen>>,
                 disposing |-> FALSE]
<1>4. e \in Entry
  BY <1>2, <1>3 DEF Entry, Roots
<1>5. /\ ~e.disposing /\ e.gen = GenerationFor(i, e.kind, e.reusable)
      /\ e.group = i /\ e.root = <<i, e.gen>>
  OBVIOUS
<1>6. Stores(f, i, e, "allocated")
  BY <1>1, <1>2, <1>5 DEF Stores
<1> HIDE DEF e
<1> HIDE DEF CleanupInv, ControlInv
<1> QED  BY <1>2, <1>4, <1>5, <1>6, StoreStep

\* What a caller starts keeps the invariant.
LEMMA CallCleanup ==
    ASSUME CleanupInv, ControlInv', GenerationInv', NEW f \in Fibers, Call(f),
           \A h \in issued : ~Fresh(h) => ~Fresh(h)'
    PROVE  CleanupInv'
<1> USE DEF CleanupInv, ControlInv
<1>1. ASSUME NEW requested \in NamedIds \cup {None}, NEW kind \in Kinds,
             NEW scope \in Scopes, NEW reusable \in BOOLEAN,
             Register(f, requested, kind, scope, reusable)
      PROVE  CleanupInv'
  BY <1>1, RegisterStep
<1>2. ASSUME NEW h \in issued, NEW target \in Scopes,
             Share(f, h, target)
      PROVE  CleanupInv'
  <2>1. PICK i \in FreshAutoIds, e \in Entry :
          /\ Stores(f, i, e, "planned")
          /\ e.group = entries[h.id].group /\ e.root = entries[h.id].root
    BY <1>2, ShareStores
  <2>2. i \in Ids /\ tombstones[i] = None
    BY DEF FreshAutoIds, Ids
  <2>3. Fresh(h)
    BY <1>2 DEF Share
  <2> QED  BY <1>2, <2>1, <2>2, <2>3, StoreStep
<1>3. ASSUME NEW i \in Ids, DisposeTake(f, i)
      PROVE  CleanupInv'
  <2>1. \A g \in Fibers : ~Registering(g)
    BY <1>3, NoneAssumption DEF DisposeTake, PermitInv, HoldsPermit, Registering
  <2>2. /\ loc'[f].id = i /\ loc'[f].op = "dispose"
        /\ \A g \in Fibers : g # f => loc'[g] = loc[g]
    BY <1>3 DEF DisposeTake, TypeOK, NoLocals
  <2> QED  BY <1>3, <2>1, <2>2, TakeStep DEF DisposeTake
<1>4. ASSUME NEW i \in Ids, DisposeJoin(f, i)
      PROVE  CleanupInv'
  <2>1. /\ pc[f] = "idle" /\ pc'[f] = "awaiting"
        /\ \A g \in Fibers : g # f => pc'[g] = pc[g] /\ loc'[g] = loc[g]
    BY <1>4 DEF DisposeJoin, Goto, TypeOK
  <2> QED  BY <1>4, <2>1, QuietStep DEF DisposeJoin
<1>5. ASSUME NEW op, NEW scope, NEW todo, BeginClose(f, op, scope, todo),
             op = "close" => \A i \in Ids : Takeable(i) => i \in todo
      PROVE  CleanupInv'
  <2>1. /\ pc[f] = "idle" /\ pc'[f] = "closing"
        /\ loc'[f].op = op /\ loc'[f].todo = todo
        /\ \A g \in Fibers : g # f => pc'[g] = pc[g] /\ loc'[g] = loc[g]
    BY <1>5 DEF BeginClose, Goto, TypeOK, NoLocals
  <2> QED  BY <1>5, <2>1, QuietStep DEF BeginClose
<1>6. \A i \in Ids : Takeable(i) => i \in EntriesOf(Scopes)
  BY DEF EntriesOf, Takeable, TypeOK, Live, Entry
<1> QED
  BY <1>1, <1>2, <1>3, <1>4, <1>5, <1>6 DEF Call, CloseScope, CloseRegistry

\* So does every step of an operation under way.
LEMMA ProceedCleanup ==
    ASSUME CleanupInv, ControlInv', GenerationInv', NEW f \in Fibers,
           Proceed(f), \A h \in issued : ~Fresh(h) => ~Fresh(h)'
    PROVE  CleanupInv'
<1> USE DEF CleanupInv, ControlInv
<1>1. ASSUME pc[f] \in {"awaiting", "closing", "shutting", "planned"},
             pc' \in {[pc EXCEPT ![f] = "idle"], [pc EXCEPT ![f] = "waiting"]},
             UNCHANGED <<entries, rcVars, issued>>,
             \A g \in Fibers : g # f => loc'[g] = loc[g]
      PROVE  CleanupInv'
  <2>1. /\ pc'[f] \in {"idle", "waiting"}
        /\ \A g \in Fibers : g # f => pc'[g] = pc[g] /\ loc'[g] = loc[g]
    BY <1>1 DEF TypeOK
  <2> QED  BY <1>1, <2>1, QuietStep
<1>2. CASE AcquireClosed(f) \/ AwaitAbsent(f) \/ AwaitSubscribe(f) \/
           CloseScopeDone(f) \/ CloseMapDone(f)
  <2>1. \A g \in Fibers : g # f => loc'[g] = loc[g]
    BY <1>2
       DEF AcquireClosed, AwaitAbsent, AwaitSubscribe, CloseScopeDone,
           CloseMapDone, TypeOK
  <2>2. /\ pc[f] \in {"awaiting", "closing", "shutting", "planned"}
        /\ pc' \in {[pc EXCEPT ![f] = "idle"], [pc EXCEPT ![f] = "waiting"]}
    BY <1>2
       DEF AcquireClosed, AwaitAbsent, AwaitSubscribe, CloseScopeDone,
           CloseMapDone, Goto
  <2>3. UNCHANGED <<entries, rcVars, issued>>
    BY <1>2
       DEF AcquireClosed, AwaitAbsent, AwaitSubscribe, CloseScopeDone,
           CloseMapDone
  <2> QED  BY <1>1, <2>1, <2>2, <2>3
<1>3. CASE CloseTake(f)
  <2>1. PICK i \in FirstInOrder(Remaining(f)) :
          Take(f, i) /\ loc' = [loc EXCEPT ![f].id = i]
    BY <1>3 DEF CloseTake
  <2>2. i \in Ids
    BY DEF FirstInOrder, Remaining, TypeOK, Locals
  <2>3. /\ loc'[f].id = i /\ loc'[f].op = loc[f].op
        /\ loc'[f].todo = loc[f].todo
        /\ \A g \in Fibers : g # f => loc'[g] = loc[g]
    BY <2>1, <2>2 DEF TypeOK, Locals
  <2>4. pc[f] = "closing" /\ UNCHANGED <<rcVars, issued>>
    BY <1>3 DEF CloseTake
  <2>5. \A g \in Fibers : ~Registering(g)
    BY <2>4 DEF PermitInv, HoldsPermit, Registering
  <2> QED  BY <2>1, <2>2, <2>3, <2>4, <2>5, TakeStep
<1> QED
  BY <1>2, <1>3, RecordPlanStep, AcquireStep, ReleaseStep, CleanupStartStep,
     CleanupEndStep, ClearStep, CloseMapStep, CloseMapNextStep
     DEF Proceed

\* The invariant is inductive.
LEMMA NextCleanup ==
    ASSUME CleanupInv, [Next]_vars
    PROVE  CleanupInv'
<1>1. ControlInv' /\ GenerationInv' /\ \A h \in issued : ~Fresh(h) => ~Fresh(h)'
  BY NextControl, NextGeneration DEF CleanupInv
<1>2. CASE UNCHANGED <<entries, rcVars, issued, pc, loc>>
  BY <1>1, <1>2, QuietStep
<1> QED
  BY <1>1, <1>2, CallCleanup, ProceedCleanup DEF Next, DeclareScope, vars, rcVars

\* What the invariant says of the properties the runs check.
LEMMA CleanupMeans == CleanupInv => CleanedUpOnce
<1> SUFFICES ASSUME CleanupInv PROVE CleanedUpOnce
  OBVIOUS
<1> USE DEF CleanupInv, ControlInv
<1>1. NoDoubleCleanup
  BY DEF NoDoubleCleanup, FinalInv, Finalizing, Due, AboutToFinalize
<1>2. NoUseAfterCleanup
  <2>1. ASSUME NEW p \in cleaned, p[1] \notin mixed, NEW i \in UsersOf(p)
        PROVE  FALSE
    <3>1. /\ i \in Ids /\ Takeable(i) /\ i \in refs[entries[i].group]
          /\ entries[i].root = p /\ entries[i].group \in Ids
      BY <2>1, EntryType DEF UsersOf, Takeable
    <3>2. p[1] = entries[i].group
      BY <3>1 DEF EntryInv, Takeable
    <3> QED  BY <2>1, <3>1, <3>2, UsableIsDue DEF Due
  <2> QED  BY <2>1 DEF NoUseAfterCleanup
<1>3. NoLostCleanup
  <2>1. ASSUME NEW p \in Promised, p[1] \notin mixed, p[1] \in armed,
               plans[p[1]] = p
        PROVE  \E i \in Ids : Live(i) /\ entries[i].root = p
    <3>1. PICK j \in refs[p[1]] : entries[j].root = p
      BY <2>1 DEF ArmedInv
    <3>2. p[1] \in Ids /\ j \in Ids
      BY <2>1, <3>1 DEF TypeOK
    <3> QED  BY <3>1, <3>2 DEF RefsInv
  <2> QED  BY <2>1 DEF NoLostCleanup, KeptInv
<1> QED  BY <1>1, <1>2, <1>3 DEF CleanedUpOnce

\* However many fibers share, dispose and close, a resource's cleanup starts at
\* most once, never under a usable handle, and is never forgotten, unless its
\* id is registered again while a shared handle holds it.
THEOREM CleanedUp == Spec => []CleanedUpOnce
<1>1. CleanupInv /\ [Next]_vars => CleanupInv'
  BY NextCleanup
<1> QED  BY <1>1, CleanupInit, CleanupMeans, PTL DEF Spec

-------------------------------------------------------------------------------
(* The lifetime the registry promises of a resource p *)

\* i is a usable handle of its resource.
Held(i) == Takeable(i) /\ i \in refs[entries[i].group]

\* The bound on generations holds for all that is stored or was handed out.
BoundInv ==
    /\ \A i \in Ids : Live(i) => entries[i].gen =< MaxGeneration
    /\ Promised \subseteq BoundedRoots

\* The abstract view of who holds p.
LEMMA UsersMean ==
    ASSUME NEW p
    PROVE  UsersOf(p) = {i \in Ids : Held(i) /\ entries[i].root = p}
  BY DEF UsersOf, Held

\* A step that leaves the usable handles alone leaves those of p alone.
LEMMA SameHandles ==
    ASSUME NEW p,
           \A i \in Ids : (Held(i)' <=> Held(i)) /\
               (Held(i) => entries'[i].root = entries[i].root)
    PROVE  UsersOf(p)' = UsersOf(p)
  BY DEF UsersOf, Held

\* A step of which the lifetime of p sees nothing is a stutter of it.
LEMMA Stutters ==
    ASSUME NEW p, (p \in Promised)' <=> p \in Promised, UsersOf(p)' = UsersOf(p),
           (p \in cleaned)' <=> p \in cleaned
    PROVE  UNCHANGED Lifetime(p)!vars
  BY DEF Lifetime!vars

\* Acquire opens a resource for its first handle and joins it for a further one.
LEMMA AcquireMaps ==
    ASSUME CleanupInv, BoundInv, NEW f \in Fibers, Acquire(f), NEW p
    PROVE  [Lifetime(p)!Next]_(Lifetime(p)!vars) /\ BoundInv'
<1> USE DEF CleanupInv, ControlInv
<1> DEFINE i == loc[f].id
           g == entries[i].group
           q == entries[i].root
<1>1. /\ pc[f] = "planned" /\ i \in Ids /\ Takeable(i) /\ Live(i) /\ g \in Ids
      /\ rcOpen /\ entries[i].gen \in Nat
  BY EntryType DEF Acquire, Registering, LocalsInv, Takeable
<1>2. /\ refs' = [refs EXCEPT ![g] = refs[g] \cup {i}]
      /\ issued' = issued \cup {HandleOf(i)}
      /\ entries' = entries /\ cleaned' = cleaned
  BY DEF Acquire
<1>3. Promised' = Promised \cup {q}
  <2>1. HandleOf(i).root = q
    BY DEF HandleOf
  <2> QED  BY <1>2, <2>1 DEF Promised
<1>4. ~Held(i)
  BY <1>1 DEF Held, RefsInv, Registering
<1>5. /\ Opens(f) => q \notin Promised /\ q = <<i, entries[i].gen>>
      /\ ~Opens(f) => /\ q \in Promised
                      /\ \E j \in refs[g] : Takeable(j) /\ entries[j].root = q
  BY <1>1, AcquiresDue
<1>6. q[1] = g /\ \A j \in refs[g] : j \in Ids /\ entries[j].group = g
  BY <1>1 DEF EntryInv, RefsInv, TypeOK
<1> HIDE DEF q, g, i
<1>7. \A j \in Ids : /\ Takeable(j)' <=> Takeable(j)
                     /\ Live(j)' <=> Live(j)
                     /\ Held(j)' <=> Held(j) \/ j = i
  <2>1. \A j \in Ids : /\ Takeable(j)' <=> Takeable(j)
                       /\ Live(j)' <=> Live(j)
    BY <1>2 DEF Takeable, Live
  <2>2. refs'[g] = refs[g] \cup {i} /\ \A x \in Ids : x # g => refs'[x] = refs[x]
    BY <1>1, <1>2 DEF TypeOK
  <2>3. \A j \in Ids : Takeable(j) => entries[j].group \in Ids
    BY EntryType DEF Takeable
  <2>4. entries[i].group = g
    BY DEF g
  <2> QED  BY <1>1, <1>2, <2>1, <2>2, <2>3, <2>4 DEF Held
<1>8. UsersOf(p)' = IF p = q THEN UsersOf(p) \cup {i} ELSE UsersOf(p)
  BY <1>1, <1>2, <1>7 DEF UsersOf, Held, q
<1>9. BoundInv'
  <2>1. q \in BoundedRoots
    BY <1>1, <1>5, BoundAssumption DEF BoundInv, BoundedRoots
  <2> QED  BY <1>1, <1>2, <1>3, <1>7, <2>1 DEF BoundInv
<1>10. CASE p # q
  BY <1>2, <1>3, <1>8, <1>9, <1>10, Stutters
<1>11. CASE p = q /\ Opens(f)
  <2>1. \A j \in UsersOf(p) : p \in Promised
    BY <1>11, EntryType DEF UsersOf, RefsInv, Takeable
  <2>2. UsersOf(p) = {}
    BY <1>5, <1>11, <2>1
  <2>3. UsersOf(p)' = {i}
    BY <1>8, <1>11, <2>2
  <2>4. p \notin Promised /\ p \in Promised' /\ ((p \in cleaned)' <=> p \in cleaned)
    BY <1>2, <1>3, <1>5, <1>11
  <2>5. Lifetime(p)!Open(i)
    BY <2>3, <2>4 DEF Lifetime!Open
  <2> QED  BY <1>1, <1>9, <2>5 DEF Lifetime!Next
<1>12. CASE p = q /\ ~Opens(f)
  <2>1. PICK j \in refs[g] : Takeable(j) /\ entries[j].root = p
    BY <1>5, <1>12
  <2>2. j \in UsersOf(p)
    BY <1>6, <2>1 DEF UsersOf
  <2>3. i \notin UsersOf(p)
    BY <1>4, UsersMean
  <2>4. UsersOf(p)' = UsersOf(p) \cup {i}
    BY <1>8, <1>12
  <2>5. /\ (p \in Promised)' <=> p \in Promised
        /\ (p \in cleaned)' <=> p \in cleaned
    BY <1>2, <1>3, <1>5, <1>12
  <2>6. Lifetime(p)!Join(i)
    BY <2>2, <2>3, <2>4, <2>5 DEF Lifetime!Join
  <2> QED  BY <1>1, <1>9, <2>6 DEF Lifetime!Next
<1> QED  BY <1>10, <1>11, <1>12

\* Taking an entry ends its handle, if it was given one.
LEMMA TakeMaps ==
    ASSUME CleanupInv, BoundInv, NEW f \in Fibers, NEW i \in Ids, Take(f, i),
           UNCHANGED <<refs, issued, cleaned>>, NEW p
    PROVE  [Lifetime(p)!Next]_(Lifetime(p)!vars) /\ BoundInv'
<1> USE DEF CleanupInv, ControlInv
<1>1. /\ entries[i] \in Entry /\ Takeable(i) /\ Live(i)
      /\ entries'[i] = [entries[i] EXCEPT !.disposing = TRUE]
      /\ entries'[i] \in Entry
      /\ \A j \in Ids : j # i => entries'[j] = entries[j]
  BY TakeType, EntryType DEF Take, Takeable
<1>2. /\ entries'[i].gen = entries[i].gen /\ entries'[i].disposing
      /\ entries'[i] # None
  BY <1>1, NoneAssumption DEF Entry
<1>3. \A j \in Ids : Held(j)' <=> Held(j) /\ j # i
  BY <1>1, <1>2 DEF Held, Takeable, Live
<1>4. Promised' = Promised
  BY DEF Promised
<1>5. BoundInv'
  BY <1>1, <1>2, <1>4 DEF BoundInv, Live
<1>6. UsersOf(p)' = UsersOf(p) \ {i}
  BY <1>1, <1>3 DEF UsersOf, Held
<1>7. /\ (p \in Promised)' <=> p \in Promised
      /\ (p \in cleaned)' <=> p \in cleaned
  BY <1>4
<1>8. CASE i \in UsersOf(p)
  <2>1. Lifetime(p)!Leave(i)
    BY <1>6, <1>7, <1>8 DEF Lifetime!Leave
  <2> QED  BY <1>5, <2>1 DEF Lifetime!Next
<1>9. CASE i \notin UsersOf(p)
  <2>1. UsersOf(p)' = UsersOf(p)
    BY <1>6, <1>9
  <2> QED  BY <1>5, <1>7, <2>1, Stutters
<1> QED  BY <1>8, <1>9

\* A cleanup that starts is that of a resource handed out, not cleaned up, whose
\* usable handles have gone.
LEMMA CleanupStartMaps ==
    ASSUME CleanupInv, BoundInv, NEW f \in Fibers, CleanupStart(f),
           NEW p, p[1] \notin mixed
    PROVE  [Lifetime(p)!Next]_(Lifetime(p)!vars)
<1> USE DEF CleanupInv, ControlInv
<1> DEFINE g == loc[f].group
<1>1. /\ pc[f] = "finalizing" /\ Finalizing(f) /\ g \in Ids
      /\ g \notin mixed => Due(g) /\ g \notin armed
  BY DEF CleanupStart, Finalizing, FinalInv, LocalsInv
<1>2. /\ cleaned' = IF plans[g] = None THEN cleaned ELSE cleaned \cup {plans[g]}
      /\ entries' = entries /\ refs' = refs /\ issued' = issued
  BY DEF CleanupStart
<1>3. Promised' = Promised /\ UsersOf(p)' = UsersOf(p)
  BY <1>2 DEF Promised, UsersOf, Takeable, Live
<1> HIDE DEF g
<1>4. CASE plans[g] # None /\ plans[g] = p
  <2>1. p[1] = g /\ p \in Promised /\ p \notin cleaned /\ g \notin armed
    BY <1>1, <1>4 DEF Due, PlanInv
  <2>2. UsersOf(p) = {}
    <3> SUFFICES ASSUME NEW j \in UsersOf(p) PROVE FALSE
      OBVIOUS
    <3>1. /\ j \in Ids /\ Takeable(j) /\ j \in refs[entries[j].group]
          /\ entries[j].root = p /\ entries[j].group \in Ids
      BY EntryType DEF UsersOf, Takeable
    <3>2. entries[j].group = g
      BY <2>1, <3>1 DEF EntryInv, Takeable
    <3> QED  BY <2>1, <3>1, <3>2, UsableIsDue
  <2>3. p \in cleaned'
    BY <1>2, <1>4
  <2>4. Lifetime(p)!Clean
    BY <1>3, <2>1, <2>2, <2>3 DEF Lifetime!Clean
  <2> QED  BY <2>4 DEF Lifetime!Next
<1>5. CASE ~(plans[g] # None /\ plans[g] = p)
  <2>1. (p \in cleaned)' <=> p \in cleaned
    BY <1>2, <1>5
  <2> QED  BY <1>3, <2>1, Stutters
<1> QED  BY <1>4, <1>5

\* Releasing an entry and removing it concern handles nobody can use.
LEMMA LeavingMaps ==
    ASSUME CleanupInv, BoundInv, NEW f \in Fibers, Release(f) \/ Clear(f), NEW p
    PROVE  UNCHANGED Lifetime(p)!vars /\ BoundInv'
<1> USE DEF CleanupInv, ControlInv
<1> DEFINE i == loc[f].id
           g == entries[i].group
<1>1. i \in Ids /\ Live(i) /\ ~Takeable(i) /\ g \in Ids
  BY EntryType DEF Release, Clear, Disposing, LocalsInv, Takeable
<1>2. cleaned' = cleaned /\ Promised' = Promised
  BY DEF Release, Clear, rcVars, Promised
<1>3. CASE Release(f)
  <2>1. entries' = entries /\ refs' = [refs EXCEPT ![g] = refs[g] \ {i}]
    BY <1>3 DEF Release
  <2>2. /\ refs'[g] = refs[g] \ {i}
        /\ \A x \in Ids : x # g => refs'[x] = refs[x]
    BY <1>1, <2>1 DEF TypeOK
  <2>3. \A j \in Ids : (Takeable(j)' <=> Takeable(j)) /\ (Live(j)' <=> Live(j))
    BY <2>1 DEF Takeable, Live
  <2>4. \A j \in Ids : Takeable(j) => j # i /\ entries[j].group \in Ids
    BY <1>1, EntryType DEF Takeable
  <2> HIDE DEF i, g
  <2>5. \A j \in Ids : Held(j)' <=> Held(j)
    BY <2>1, <2>2, <2>3, <2>4 DEF Held
  <2>6. UsersOf(p)' = UsersOf(p)
    BY <2>1, <2>5, SameHandles
  <2> QED  BY <1>2, <2>1, <2>3, <2>6, Stutters DEF BoundInv
<1>4. CASE Clear(f)
  <2>1. refs' = refs /\ entries' = [entries EXCEPT ![i] = None]
    BY <1>4 DEF Clear, rcVars
  <2>2. /\ entries'[i] = None
        /\ \A j \in Ids : j # i => entries'[j] = entries[j]
    BY <1>1, <2>1 DEF TypeOK
  <2>3. \A j \in Ids : Live(j)' => j # i /\ Live(j)
    BY <2>2 DEF Live
  <2>4. \A j \in Ids : /\ Held(j)' <=> Held(j)
                       /\ Held(j) => entries'[j].root = entries[j].root
    BY <1>1, <2>1, <2>2 DEF Held, Takeable, Live
  <2>5. UsersOf(p)' = UsersOf(p)
    BY <2>4, SameHandles
  <2> QED  BY <1>2, <2>2, <2>3, <2>5, Stutters DEF BoundInv
<1> QED  BY <1>3, <1>4

\* What is stored is no handle yet.
LEMMA StoreMaps ==
    ASSUME CleanupInv, BoundInv, NEW f \in Fibers, NEW i \in Ids,
           NEW e \in Entry, NEW next \in {"allocated", "planned"}, NEW p,
           Stores(f, i, e, next)
    PROVE  UNCHANGED Lifetime(p)!vars /\ BoundInv'
<1> USE DEF CleanupInv, ControlInv
<1>1. /\ ~Live(i) /\ entries' = [entries EXCEPT ![i] = e]
      /\ refs' = refs /\ issued' = issued /\ cleaned' = cleaned
      /\ e.gen =< MaxGeneration
  BY DEF Stores, Store, rcVars
<1>2. entries'[i] = e /\ \A j \in Ids : j # i => entries'[j] = entries[j]
  BY <1>1 DEF TypeOK
<1>3. e.group \in Ids /\ i \notin refs[e.group]
  BY <1>1 DEF RefsInv, Entry
<1>4. \A j \in Ids : /\ Held(j)' <=> Held(j)
                     /\ Held(j) => entries'[j].root = entries[j].root
  BY <1>1, <1>2, <1>3 DEF Held, Takeable, Live
<1>5. Promised' = Promised /\ UsersOf(p)' = UsersOf(p)
  BY <1>1, <1>4, SameHandles DEF Promised
<1>6. BoundInv'
  BY <1>1, <1>2, <1>5 DEF BoundInv, Live
<1> QED  BY <1>1, <1>5, <1>6, Stutters

\* Every other step leaves entries, references and handles alone.
LEMMA OtherMaps ==
    ASSUME BoundInv, UNCHANGED <<entries, refs, issued, cleaned>>, NEW p
    PROVE  UNCHANGED Lifetime(p)!vars /\ BoundInv'
<1>1. Promised' = Promised /\ UsersOf(p)' = UsersOf(p)
  BY DEF Promised, UsersOf, Takeable, Live
<1> QED  BY <1>1, Stutters DEF BoundInv, Live

\* Every step of the registry is one of the lifetime of p, or a stutter of it.
LEMMA StepMaps ==
    ASSUME CleanupInv, BoundInv, [Next]_vars, NEW p
    PROVE  /\ p[1] \in mixed' \/ [Lifetime(p)!Next]_(Lifetime(p)!vars)
           /\ BoundInv'
<1> USE DEF CleanupInv, ControlInv
<1> DEFINE Maps == [Lifetime(p)!Next]_(Lifetime(p)!vars) /\ BoundInv'
<1>1. ASSUME NEW f \in Fibers, Call(f)
      PROVE  Maps
  <2>1. ASSUME NEW i \in Ids, DisposeTake(f, i)
        PROVE  Maps
    BY <2>1, TakeMaps DEF DisposeTake, rcVars
  <2>2. ASSUME NEW i \in Ids, DisposeJoin(f, i)
        PROVE  Maps
    BY <2>2, OtherMaps DEF DisposeJoin, rcVars
  <2>3. ASSUME Closes(f)
        PROVE  Maps
    BY <2>3, OtherMaps DEF Closes, BeginClose, rcVars
  <2> QED  BY <1>1, <2>1, <2>2, <2>3, CallCases, StoreMaps
<1>2. ASSUME NEW f \in Fibers, Proceed(f), ~CleanupStart(f)
      PROVE  Maps
  <2>1. CASE CloseTake(f)
    <3>1. PICK i \in FirstInOrder(Remaining(f)) : Take(f, i)
      BY <2>1 DEF CloseTake
    <3>2. i \in Ids
      BY DEF FirstInOrder, Remaining, TypeOK, Locals
    <3> QED  BY <2>1, <3>1, <3>2, TakeMaps DEF CloseTake, rcVars
  <2>2. CASE UNCHANGED <<entries, refs, issued, cleaned>>
    BY <2>2, OtherMaps
  <2>3. CASE Acquire(f) \/ Release(f) \/ Clear(f)
    BY <2>3, AcquireMaps, LeavingMaps
  <2> QED
    BY <1>2, <2>1, <2>2, <2>3
       DEF Proceed, RecordPlan, AcquireClosed, CleanupEnd, AwaitAbsent,
           AwaitSubscribe, CloseScopeDone, CloseMap, CloseMapNext,
           CloseMapDone, rcVars
<1>3. ASSUME NEW f \in Fibers, CleanupStart(f)
      PROVE  /\ p[1] \in mixed' \/ [Lifetime(p)!Next]_(Lifetime(p)!vars)
             /\ BoundInv'
  <2>1. mixed' = mixed /\ entries' = entries /\ issued' = issued
    BY <1>3 DEF CleanupStart
  <2>2. BoundInv'
    BY <2>1 DEF BoundInv, Promised, Live
  <2> QED  BY <1>3, <2>1, <2>2, CleanupStartMaps
<1>4. ASSUME UNCHANGED <<entries, refs, issued, cleaned>>
      PROVE  Maps
  BY <1>4, OtherMaps
<1> QED  BY <1>1, <1>2, <1>3, <1>4 DEF Next, DeclareScope, vars, rcVars

\* Nothing is open at first.
LEMMA InitMaps == Init => (\A p \in BoundedRoots : Lifetime(p)!Init) /\ BoundInv
<1> SUFFICES ASSUME Init PROVE (\A p \in BoundedRoots : Lifetime(p)!Init) /\ BoundInv
  OBVIOUS
<1>1. issued = {} /\ cleaned = {} /\ \A i \in Ids : ~Live(i)
  BY DEF Init, Live
<1>2. Promised = {} /\ \A p : UsersOf(p) = {}
  BY <1>1 DEF Promised, UsersOf, Takeable
<1> QED  BY <1>1, <1>2 DEF Lifetime!Init, BoundInv

\* The registry implements the lifetime it promises of each resource: a handle
\* joins only a resource that has a usable one, and the cleanup starts once,
\* after the last; until the plan of its group is overwritten.
THEOREM LifetimeImplemented == Spec => ImplementsLifetime
<1>1. Init => (\A p \in BoundedRoots : Lifetime(p)!Init) /\ CleanupInv /\ BoundInv
  BY InitMaps, CleanupInit
<1>2. CleanupInv /\ BoundInv /\ [Next]_vars =>
          /\ CleanupInv' /\ BoundInv'
          /\ [\A p \in BoundedRoots :
                 p[1] \in mixed' \/ [Lifetime(p)!Next]_(Lifetime(p)!vars)]_vars
  BY NextCleanup, StepMaps
<1> QED
  BY <1>1, <1>2, PTL DEF Spec, ImplementsLifetime
===============================================================================
