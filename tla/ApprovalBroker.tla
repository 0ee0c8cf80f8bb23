---------------------------- MODULE ApprovalBroker ----------------------------
(***************************************************************************)
(* The ApprovalBroker of packages/core/src/runtime/approval-broker.ts.     *)
(* Requests with the same key (operation, actor, resource) share a prompt; *)
(* an actor has one active prompt and a bounded queue of further ones,     *)
(* which a prompt loop, a fiber in a FiberMap, works off.                  *)
(*                                                                         *)
(* A Ref.modify is one step.  Completing a waiter's Deferred resumes the   *)
(* waiting fiber on the spot, so whatever its caller does next may happen  *)
(* before the loop completes the next waiter or returns.                   *)
(***************************************************************************)
EXTENDS Naturals, Sequences

CONSTANTS
    Requests,       \* calls of ask; each is made at most once
    Keys,           \* approvalKey values
    Actors,
    KeyOf,          \* request -> its key
    ActorOf,        \* key -> its actor, which is part of the key
    MaxQueueDepth,  \* maxQueueDepthPerActor
    Impatient,      \* requests whose ask may be interrupted while it waits
    Situations,     \* what else may happen
    None            \* no entry, no loop, no answer yet

\* shutdown: the broker is shut down.  interruptStart: an ask is interrupted
\* between taking the active slot and starting the loop, where the fiber may yield.
ASSUME SituationAssumption ==
    Impatient \subseteq Requests /\ Situations \subseteq {"shutdown", "interruptStart"}
ASSUME QueueAssumption == MaxQueueDepth \in Nat \ {0}
ASSUME KeyAssumption == KeyOf \in [Requests -> Keys] /\ ActorOf \in [Keys -> Actors]

\* approved-once and approved-for-scope are handled alike, and so are
\* denied-once, timed-out, canceled and revoked.
Decisions == {"approved", "denied-once", "denied-for-scope"}

\* "failed" stands for a typed error: the input, the prompt or the audit failed.
Answers == Decisions \cup {"failed", "overflow", "interrupted", "broker shutdown"}

\* `prompt' names the request whose ask created the entry.
Entry == [prompt : Requests, key : Keys, waiters : SUBSET Requests]

ASSUME NoneAssumption == None \notin Entry \cup Requests \cup Answers

Places == {"none", "scheduled", "prompting", "decided", "completing", "stopping",
           "failing", "ended"}

Loops == [at : Places, entry : Entry \cup {None}, next : Entry \cup {None},
          result : Answers \cup {None}, todo : SUBSET Requests]

VARIABLES
    devApproveAll,  \* the option, chosen when the broker is made
    active,         \* actor -> its active entry or None
    queued,         \* actor -> its queued entries
    denied,         \* the keys in deniedScopes, over all actors
    closed,         \* the FiberMap is closed: the broker was shut down
    fiberAt,        \* FiberMap: key -> the loop registered under it, or None
    loop,           \* the loop that the ask of a request started
    pc,             \* request -> where its ask is
    answer,         \* request -> what its Deferred or its ask was completed with
    usurped         \* history: the actors one of whose loops was interrupted by
                    \* another one started under its key

vars == <<devApproveAll, active, queued, denied, closed, fiberAt, loop, pc, answer,
          usurped>>
state == <<active, queued, denied>>

NoLoop == [at |-> "none", entry |-> None, next |-> None, result |-> None, todo |-> {}]

\* Type correctness: the actors' queues, the FiberMap, the loops and the asks
\* hold what their declarations in approval-broker.ts say.
TypeOK ==
    /\ devApproveAll \in BOOLEAN
    /\ active \in [Actors -> Entry \cup {None}]
    /\ queued \in [Actors -> Seq(Entry)]
    /\ denied \in SUBSET Keys
    /\ closed \in BOOLEAN
    /\ fiberAt \in [Keys -> Requests \cup {None}]
    /\ loop \in [Requests -> Loops]
    /\ pc \in [Requests -> {"new", "starting", "waiting", "returned", "abandoned"}]
    /\ answer \in [Requests -> Answers \cup {None}]
    /\ usurped \in SUBSET Actors

Init ==
    /\ devApproveAll \in BOOLEAN
    /\ active = [a \in Actors |-> None]
    /\ queued = [a \in Actors |-> <<>>]
    /\ denied = {}
    /\ closed = FALSE
    /\ fiberAt = [k \in Keys |-> None]
    /\ loop = [r \in Requests |-> NoLoop]
    /\ pc = [r \in Requests |-> "new"]
    /\ answer = [r \in Requests |-> None]
    /\ usurped = {}

-------------------------------------------------------------------------------
(* ask *)

ActorOfRequest(r) == ActorOf[KeyOf[r]]

\* A mutant of the next definition: the entry is filed under the actor alone.
NewEntryByActor(r) == [prompt |-> r, key |-> ActorOfRequest(r), waiters |-> {r}]

NewEntry(r) == [prompt |-> r, key |-> KeyOf[r], waiters |-> {r}]

AddWaiter(e, r) == [e EXCEPT !.waiters = @ \cup {r}]

IsActive(k) == active[ActorOf[k]] # None /\ active[ActorOf[k]].key = k

QueuePositions(k) ==
    {n \in DOMAIN queued[ActorOf[k]] : queued[ActorOf[k]][n].key = k}

\* The ask returns without having waited.
ReturnAtOnce(r, result) ==
    /\ pc' = [pc EXCEPT ![r] = "returned"]
    /\ answer' = [answer EXCEPT ![r] = result]

\* The request or its trace id is invalid, or its "approval requested" audit
\* event could not be written.
AskFails(r) ==
    /\ pc[r] = "new"
    /\ ReturnAtOnce(r, "failed")
    /\ UNCHANGED <<devApproveAll, state, closed, fiberAt, loop, usurped>>

AskBypass(r) ==
    /\ pc[r] = "new"
    /\ devApproveAll
    /\ ReturnAtOnce(r, "approved")
    /\ UNCHANGED <<devApproveAll, state, closed, fiberAt, loop, usurped>>

\* enqueue, in the order in which it looks: the denied scopes first.
Enqueue(r) == pc[r] = "new" /\ ~devApproveAll

AskDenied(r) ==
    /\ Enqueue(r)
    /\ KeyOf[r] \in denied
    /\ ReturnAtOnce(r, "denied-for-scope")
    /\ UNCHANGED <<devApproveAll, state, closed, fiberAt, loop, usurped>>

JoinActive(r) ==
    /\ Enqueue(r)
    /\ KeyOf[r] \notin denied
    /\ IsActive(KeyOf[r])
    /\ active' = [active EXCEPT ![ActorOfRequest(r)] = AddWaiter(@, r)]
    /\ pc' = [pc EXCEPT ![r] = "waiting"]
    /\ UNCHANGED <<devApproveAll, queued, denied, closed, fiberAt, loop, usurped, answer>>

JoinQueued(r) ==
    /\ Enqueue(r)
    /\ KeyOf[r] \notin denied
    /\ ~IsActive(KeyOf[r])
    /\ \E n \in QueuePositions(KeyOf[r]) :
        /\ \A m \in QueuePositions(KeyOf[r]) : n =< m
        /\ queued' = [queued EXCEPT ![ActorOfRequest(r)][n] = AddWaiter(@, r)]
    /\ pc' = [pc EXCEPT ![r] = "waiting"]
    /\ UNCHANGED <<devApproveAll, active, denied, closed, fiberAt, loop, usurped, answer>>

\* Neither cached nor coalesced: the request needs a prompt of its own.
NeedsPrompt(r) ==
    /\ Enqueue(r)
    /\ KeyOf[r] \notin denied
    /\ ~IsActive(KeyOf[r])
    /\ QueuePositions(KeyOf[r]) = {}

\* A mutant of the next definition: the slot is free while anything is queued.
SlotFreeTooEarly(a) == active[a] = None \/ queued[a] # <<>>

SlotFree(a) == active[a] = None

TakeSlot(r) ==
    /\ NeedsPrompt(r)
    /\ SlotFree(ActorOfRequest(r))
    /\ active' = [active EXCEPT ![ActorOfRequest(r)] = NewEntry(r)]
    /\ pc' = [pc EXCEPT ![r] = "starting"]
    /\ UNCHANGED <<devApproveAll, queued, denied, closed, fiberAt, loop, usurped, answer>>

\* A mutant of the next definition, off by one.
HasRoomForOneMore(a) == Len(queued[a]) =< MaxQueueDepth

HasRoom(a) == Len(queued[a]) < MaxQueueDepth

Overflow(r) ==
    /\ NeedsPrompt(r)
    /\ ~SlotFree(ActorOfRequest(r))
    /\ ~HasRoom(ActorOfRequest(r))
    /\ ReturnAtOnce(r, "overflow")
    /\ UNCHANGED <<devApproveAll, state, closed, fiberAt, loop, usurped>>

JoinQueue(r) ==
    /\ NeedsPrompt(r)
    /\ ~SlotFree(ActorOfRequest(r))
    /\ HasRoom(ActorOfRequest(r))
    /\ queued' = [queued EXCEPT ![ActorOfRequest(r)] = Append(@, NewEntry(r))]
    /\ pc' = [pc EXCEPT ![r] = "waiting"]
    /\ UNCHANGED <<devApproveAll, active, denied, closed, fiberAt, loop, usurped, answer>>

\* What an interruption makes of a loop: one that has not run yet just ends,
\* without the finalizer it never installed.
Interrupted(l) ==
    CASE l.at = "scheduled" -> [l EXCEPT !.at = "ended"]
      [] l.at \in {"prompting", "decided", "completing"} -> [l EXCEPT !.at = "stopping"]
      [] OTHER -> l

\* startPromptLoop: FiberMap.run schedules the loop and interrupts the one it
\* finds under the same key.
StartLoop(r) ==
    /\ pc[r] = "starting"
    /\ ~closed
    /\ loop' = [p \in Requests |->
            IF p = r THEN [NoLoop EXCEPT !.at = "scheduled", !.entry = NewEntry(r)]
            ELSE IF p = fiberAt[KeyOf[r]] THEN Interrupted(loop[p])
            ELSE loop[p]]
    /\ usurped' = IF fiberAt[KeyOf[r]] = None THEN usurped
                  ELSE usurped \cup {ActorOfRequest(r)}
    /\ fiberAt' = [fiberAt EXCEPT ![KeyOf[r]] = r]
    /\ pc' = [pc EXCEPT ![r] = "waiting"]
    /\ UNCHANGED <<devApproveAll, state, closed, answer>>

\* FiberMap.run on a closed map interrupts the caller.
StartClosed(r) ==
    /\ pc[r] = "starting"
    /\ closed
    /\ ReturnAtOnce(r, "interrupted")
    /\ UNCHANGED <<devApproveAll, state, closed, fiberAt, loop, usurped>>

\* The caller is interrupted; its waiter stays in the entry.
Abandon(r) ==
    /\ \/ pc[r] = "waiting" /\ answer[r] = None /\ r \in Impatient
       \/ pc[r] = "starting" /\ "interruptStart" \in Situations
    /\ pc' = [pc EXCEPT ![r] = "abandoned"]
    /\ UNCHANGED <<devApproveAll, state, closed, fiberAt, loop, usurped, answer>>

-------------------------------------------------------------------------------
(* runPromptLoop *)

Move(r, place) == loop' = [loop EXCEPT ![r].at = place]

Begin(r) ==
    /\ loop[r].at = "scheduled"
    /\ Move(r, "prompting")
    /\ UNCHANGED <<devApproveAll, state, closed, fiberAt, pc, answer, usurped>>

\* The prompt port answers, or fails, or its outcome does not decode.
PromptReturns(r, result) ==
    /\ loop[r].at = "prompting"
    /\ loop' = [loop EXCEPT ![r].at = "decided", ![r].result = result]
    /\ UNCHANGED <<devApproveAll, state, closed, fiberAt, pc, answer, usurped>>

\* Whose waiters finishPrompt completes: those of the active entry as it is now.
Removed(e) == IF IsActive(e.key) THEN active[ActorOf[e.key]] ELSE e

\* A mutant of the next definition: every denial is taken for the whole scope.
DeniesScopeAlways(result) == result \in {"denied-once", "denied-for-scope"}

DeniesScope(result) == result = "denied-for-scope"

\* finishPrompt, after the decision's audit event: the waiters to complete are
\* taken out of the state, and the head of the queue becomes active.
Finish(r, audited) ==
    /\ loop[r].at = "decided"
    /\ LET l == loop[r]
           k == l.entry.key
           a == ActorOf[k]
           next == IF queued[a] = <<>> THEN None ELSE Head(queued[a])
       IN  /\ active' = [active EXCEPT ![a] = next]
           /\ queued' = [queued EXCEPT ![a] = IF next = None THEN <<>> ELSE Tail(@)]
           /\ denied' = IF DeniesScope(l.result) THEN denied \cup {k} ELSE denied
           /\ loop' = [loop EXCEPT ![r] =
                  [at |-> "completing", entry |-> l.entry, next |-> next,
                   result |-> IF audited THEN l.result ELSE "failed",
                   todo |-> Removed(l.entry).waiters]]
    /\ UNCHANGED <<devApproveAll, closed, fiberAt, pc, answer, usurped>>

\* completeSuccess and completeFailure, one waiter at a time; completing a
\* Deferred a second time has no effect.
CompleteWaiter(r) ==
    /\ loop[r].at \in {"completing", "failing"}
    /\ \E w \in loop[r].todo :
        /\ answer' = [answer EXCEPT ![w] = IF @ = None THEN loop[r].result ELSE @]
        /\ loop' = [loop EXCEPT ![r].todo = @ \ {w}]
    /\ UNCHANGED <<devApproveAll, state, closed, fiberAt, pc, usurped>>

PromptNext(r) ==
    /\ loop[r].at = "completing"
    /\ loop[r].todo = {}
    /\ loop[r].next # None
    /\ loop' = [loop EXCEPT ![r] = [NoLoop EXCEPT !.at = "prompting",
                                                 !.entry = loop[r].next]]
    /\ UNCHANGED <<devApproveAll, state, closed, fiberAt, pc, answer, usurped>>

\* A mutant of the next definition: the loop shows one prompt and returns.
IsDoneAfterOne(l) == l.todo = {} /\ l.at \in {"completing", "failing"}

IsDone(l) ==
    /\ l.todo = {}
    /\ l.at = "failing" \/ (l.at = "completing" /\ l.next = None)

\* The fiber exits, and the FiberMap forgets it if it still holds it.
LoopEnds(r) ==
    /\ IsDone(loop[r])
    /\ loop' = [loop EXCEPT ![r] = [NoLoop EXCEPT !.at = "ended"]]
    /\ fiberAt' = [fiberAt EXCEPT ![KeyOf[r]] = IF @ = r /\ ~closed THEN None ELSE @]
    /\ UNCHANGED <<devApproveAll, state, closed, pc, answer, usurped>>

\* interruptPromptLoop is given the entry the loop was started with: it fails
\* the active entry and the queue only while that entry is still the active one.
InterruptLoop(r) ==
    /\ loop[r].at = "stopping"
    /\ LET a == ActorOfRequest(r)
           entries == IF IsActive(KeyOf[r])
                      THEN {active[a]} \cup {queued[a][n] : n \in DOMAIN queued[a]}
                      ELSE {NewEntry(r)}
       IN  /\ active' = [active EXCEPT ![a] = None]
           /\ queued' = [queued EXCEPT ![a] = <<>>]
           /\ loop' = [loop EXCEPT ![r] =
                  [NoLoop EXCEPT !.at = "failing", !.result = "broker shutdown",
                                 !.todo = UNION {e.waiters : e \in entries}]]
    /\ UNCHANGED <<devApproveAll, denied, closed, fiberAt, pc, answer, usurped>>

\* Closing the broker's scope closes the FiberMap and interrupts its fibers.
Shutdown ==
    /\ "shutdown" \in Situations
    /\ ~closed
    /\ closed' = TRUE
    /\ loop' = [r \in Requests |-> IF fiberAt[KeyOf[r]] = r THEN Interrupted(loop[r])
                                  ELSE loop[r]]
    /\ UNCHANGED <<devApproveAll, state, fiberAt, pc, answer, usurped>>

-------------------------------------------------------------------------------

Ask(r) ==
    \/ AskFails(r) \/ AskBypass(r) \/ AskDenied(r)
    \/ JoinActive(r) \/ JoinQueued(r) \/ TakeSlot(r) \/ Overflow(r) \/ JoinQueue(r)

Start(r) == StartLoop(r) \/ StartClosed(r)

Run(r) ==
    \/ Begin(r)
    \/ \E result \in Decisions \cup {"failed"} : PromptReturns(r, result)
    \/ \E audited \in BOOLEAN : Finish(r, audited)
    \/ CompleteWaiter(r) \/ PromptNext(r) \/ LoopEnds(r) \/ InterruptLoop(r)

Next ==
    \/ \E r \in Requests : Ask(r) \/ Start(r) \/ Abandon(r) \/ Run(r)
    \/ Shutdown

Spec == Init /\ [][Next]_vars

\* Runnable fibers run, and every prompt is answered in the end; nobody has to
\* ask, give up or shut the broker down.
FairSpec == Spec /\ \A r \in Requests : WF_vars(Start(r)) /\ WF_vars(Run(r))

-------------------------------------------------------------------------------
(* Properties *)

Prompting(r) == loop[r].at \in {"prompting", "decided"}

OnePromptFor(a) ==
    /\ \A r, s \in Requests : Prompting(r) /\ Prompting(s) /\ r # s =>
        {ActorOf[loop[r].entry.key], ActorOf[loop[s].entry.key]} # {a}
    /\ \A r \in Requests : Prompting(r) /\ ActorOf[loop[r].entry.key] = a =>
        IsActive(loop[r].entry.key)

\* Two loops never show prompts of one actor at a time, and what is shown is its
\* active entry, until one of the actor's loops is interrupted because its key is
\* asked for again before the loop has returned. engineering/SPEC.md 14.4 and the
\* page of the service say "at most one active prompt per actor" without the
\* exception.
OnePromptUnlessUsurped == \A a \in Actors \ usurped : OnePromptFor(a)

EntryKeys(a) ==
    {queued[a][n].key : n \in DOMAIN queued[a]} \cup
    (IF active[a] = None THEN {} ELSE {active[a].key})

\* A key denied for the scope is never prompted for again: from the moment the
\* denial is recorded no entry, loop or starting ask is left that asks for it,
\* unless a loop of the actor has been usurped.
DeniedStaysDenied ==
    /\ \A a \in Actors \ usurped : EntryKeys(a) \cap denied = {}
    /\ \A r \in Requests : ActorOfRequest(r) \notin usurped =>
        /\ loop[r].at \in {"scheduled", "prompting", "decided"} => loop[r].entry.key \notin denied
        /\ pc[r] = "starting" /\ active[ActorOfRequest(r)] # None => KeyOf[r] \notin denied

\* Requests for one key never wait for two prompts, and the queue keeps to its
\* bound even while the head moves to the active slot or two loops work it off.
Coalesced ==
    \A a \in Actors :
        /\ Len(queued[a]) =< MaxQueueDepth
        /\ \A m, n \in DOMAIN queued[a] : queued[a][m].key = queued[a][n].key => m = n
        /\ \A n \in DOMAIN queued[a] : active[a] # None /\ active[a].key # queued[a][n].key

\* The entries, the queues and the loops agree: one entry per key, none for a key
\* that was denied, whoever asks, joins or moves up while a decision is audited.
EntriesSound == Coalesced /\ DeniedStaysDenied

\* The promise to callers, seen from this state: the decision falls for all
\* waiters at once, when finishPrompt takes the entry out.
Promised(r) ==
    IF answer[r] # None THEN answer[r]
    ELSE IF \E s \in Requests : loop[s].at = "completing" /\ r \in loop[s].todo
    THEN loop[CHOOSE s \in Requests : loop[s].at = "completing" /\ r \in loop[s].todo].result
    ELSE None

Coalescing == INSTANCE ApprovalCoalescing WITH
    Verdicts <- Answers, Undecided <- None, bypass <- devApproveAll,
    open <- [k \in Keys |-> {r \in Requests :
        KeyOf[r] = k /\ \E a \in Actors :
            \/ active[a] # None /\ r \in active[a].waiters
            \/ \E n \in DOMAIN queued[a] : r \in queued[a][n].waiters}],
    denied <- denied,
    decision <- [r \in Requests |-> Promised(r)]

\* "the user's outcome applies to all waiting callers atomically", and a denial
\* for the scope prevents later prompts: every step is one of the specification,
\* up to the shutdown or to the first loop that is usurped.
ImplementsCoalescing ==
    /\ Coalescing!Init
    /\ [][closed' \/ usurped' # {} \/ [Coalescing!Next]_(Coalescing!vars)]_vars

\* Every ask gets an answer, given that every prompt does and no loop of the actor
\* is usurped.
EveryAskAnswered ==
    \A r \in Requests : pc[r] \in {"starting", "waiting"} ~>
        \/ answer[r] # None \/ pc[r] = "abandoned"
        \/ closed \/ ActorOfRequest(r) \in usurped
===============================================================================
