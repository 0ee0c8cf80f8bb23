------------------------------ MODULE HostExchange ------------------------------
(* The request and event exchange with the host: createHostProtocolExchange   *)
(* of packages/core/src/runtime/host-client.ts.  Requests share one reader    *)
(* fiber, which matches response frames to the pending requests by id and     *)
(* hands event frames to the subscribers.  The first frame it cannot accept   *)
(* ends the exchange for everybody.  A request gives way while it sends and   *)
(* while it waits for its response; the reader while it waits for a frame and *)
(* while the audit log notes that a response had no trace id.  There is one   *)
(* event method: the bus keeps each apart from the others.                    *)
EXTENDS Naturals, Sequences

CONSTANTS
    Calls,         \* calls of request
    Ids,           \* request ids
    IdOf,          \* the id of each request; callers choose it
    Subscribers,   \* calls of subscribe
    EventReplayLimit,
    MaxResponses,  \* bound: response frames of the host per request
    MaxEvents,     \* bound: event frames of the host
    None

ASSUME IdAssumption == IdOf \in [Calls -> Ids]
ASSUME LimitAssumption == EventReplayLimit \in Nat \ {0}
ASSUME BoundAssumption == MaxResponses \in Nat /\ MaxEvents \in Nat
ASSUME NoneAssumption ==
    None \notin Calls \cup [tag : {"failed"}]
                \cup [tag : {"response"}, of : Calls, traced : BOOLEAN]

VARIABLES
    stage,      \* where each request is
    deferred,   \* what completed its Deferred
    sent,       \* requests the host has got
    responses,  \* response frames the reader got to each request
    pending,    \* reader.pending
    fatal,      \* reader.fatal and eventBus.fatal
    reader,     \* the reader fiber
    held,       \* the pending request of a response whose audit is under way
    heldFrom,   \* the request that response answers
    published,  \* events published so far; the replay holds the last ones
    sub,        \* where each subscriber is
    queue,      \* its queue: event numbers, or Failure
    seen,       \* the events it got
    robbed      \* history: requests whose entry another one has deleted

vars == <<stage, deferred, sent, responses, pending, fatal, reader, held,
          heldFrom, published, sub, queue, seen, robbed>>

busVars == <<published, sub, queue, seen>>
frameVars == <<sent, responses>>
heldVars == <<held, heldFrom>>

Failure == 0

\* A Deferred that failed, and one that succeeded with the response to call c.
Failed == [tag |-> "failed"]
Response(c, traced) == [tag |-> "response", of |-> c, traced |-> traced]
------------------------------------------------------------------------------
Init ==
    /\ stage = [c \in Calls |-> "idle"]
    /\ deferred = [c \in Calls |-> None]
    /\ sent = {}
    /\ responses = [c \in Calls |-> 0]
    /\ pending = [i \in Ids |-> None]
    /\ fatal = FALSE
    /\ reader = "off"
    /\ held = None
    /\ heldFrom = None
    /\ published = 0
    /\ sub = [s \in Subscribers |-> "idle"]
    /\ queue = [s \in Subscribers |-> <<>>]
    /\ seen = [s \in Subscribers |-> <<>>]
    /\ robbed = {}

Stage(c, place) == stage' = [stage EXCEPT ![c] = place]

\* Mutant: whether the reader was started before is not looked at.
StartedAgain == "receiving"

\* startHostProtocolReader
Started == IF reader = "off" THEN "receiving" ELSE reader

\* pending.delete(id), whoever's entry is there by now.
Forget(c) ==
    /\ pending' = [pending EXCEPT ![IdOf[c]] = None]
    /\ robbed' = robbed \cup ({pending[IdOf[c]]} \ {c, None})

------------------------------------------------------------------------------
(* A request                                                                  *)

\* Mutant: only a duplicate is refused.
MayIssueAlways(c) == pending[IdOf[c]] = None

MayIssue(c) == ~fatal /\ pending[IdOf[c]] = None

\* A request is entered as pending, the reader started, and the send begins; or
\* the exchange has failed, or the id is taken.
Issue(c) ==
    /\ stage[c] = "idle"
    /\ IF MayIssue(c)
       THEN /\ pending' = [pending EXCEPT ![IdOf[c]] = c]
            /\ reader' = Started
            /\ Stage(c, "sending")
       ELSE Stage(c, "done") /\ UNCHANGED <<pending, reader>>
    /\ UNCHANGED <<deferred, frameVars, fatal, heldVars, busVars, robbed>>

\* The frame reaches the host, which may respond before the send returns.
Reach(c) ==
    /\ stage[c] = "sending"
    /\ sent' = sent \cup {c}
    /\ UNCHANGED <<stage, deferred, responses, pending, fatal, reader, heldVars,
                   busVars, robbed>>

Sent(c) ==
    /\ stage[c] = "sending" /\ c \in sent
    /\ Stage(c, "waiting")
    /\ UNCHANGED <<deferred, frameVars, pending, fatal, reader, heldVars,
                   busVars, robbed>>

SendFails(c) ==
    /\ stage[c] = "sending"
    /\ Forget(c)
    /\ Stage(c, "done")
    /\ UNCHANGED <<deferred, frameVars, fatal, reader, heldVars, busVars>>

\* The Deferred is completed: the request returns.
Resume(c) ==
    /\ stage[c] = "waiting" /\ deferred[c] # None
    /\ Forget(c)
    /\ Stage(c, "done")
    /\ UNCHANGED <<deferred, frameVars, fatal, reader, heldVars, busVars>>

\* Its caller gives up.  Only a request that waits takes its entry back; that of
\* one that is still sending stays, and its response finds it.
Interrupt(c) ==
    /\ stage[c] \in {"sending", "waiting"}
    /\ IF stage[c] = "waiting" THEN Forget(c) ELSE UNCHANGED <<pending, robbed>>
    /\ Stage(c, "done")
    /\ UNCHANGED <<deferred, frameVars, fatal, reader, heldVars, busVars>>

------------------------------------------------------------------------------
(* The reader                                                                 *)

\* failHostEventBus: a failure behind whatever each subscriber has to take.
TellSubscribers ==
    IF fatal THEN queue
    ELSE [s \in Subscribers |->
             IF sub[s] = "on" THEN Append(queue[s], Failure) ELSE queue[s]]

\* failHostProtocolReader.  Calls of it after the first find nothing to do.
Fail ==
    /\ fatal' = TRUE
    /\ deferred' = [c \in Calls |->
                      IF pending[IdOf[c]] = c /\ deferred[c] = None THEN Failed
                      ELSE deferred[c]]
    /\ pending' = [i \in Ids |-> None]
    /\ queue' = TellSubscribers
    /\ held' = None /\ heldFrom' = None

Settle(c, response) ==
    deferred' = [deferred EXCEPT ![c] = IF @ = None THEN response ELSE @]

\* validateResponseEnvelope: the trace ids of requests differ.
Accepts(p, c) == p = c

\* A response to call c arrives with its trace id.  With no request pending under
\* the id, or another one, the reader fails: a late response ends the exchange.
Receive(c) ==
    /\ reader = "receiving"
    /\ c \in sent /\ responses[c] < MaxResponses
    /\ responses' = [responses EXCEPT ![c] = @ + 1]
    /\ LET p == pending[IdOf[c]]
       IN IF Accepts(p, c)
          THEN /\ Settle(p, Response(c, TRUE))
               /\ pending' = [pending EXCEPT ![IdOf[c]] = None]
               /\ UNCHANGED <<fatal, reader, heldVars, queue>>
          ELSE Fail /\ reader' = "closing"
    /\ UNCHANGED <<stage, sent, published, sub, seen, robbed>>

\* A response without a trace id: the audit log is told before it is accepted.
ReceiveUntraced(c) ==
    /\ reader = "receiving"
    /\ c \in sent /\ responses[c] < MaxResponses
    /\ responses' = [responses EXCEPT ![c] = @ + 1]
    /\ IF pending[IdOf[c]] # None
       THEN /\ reader' = "auditing"
            /\ held' = pending[IdOf[c]] /\ heldFrom' = c
            /\ UNCHANGED <<deferred, pending, fatal, queue>>
       ELSE Fail /\ reader' = "closing"
    /\ UNCHANGED <<stage, sent, published, sub, seen, robbed>>

\* The entry may have gone in the meantime, or belong to another request.
Audited ==
    /\ reader = "auditing"
    /\ Settle(held, Response(heldFrom, FALSE))
    /\ Forget(held)
    /\ reader' = "receiving"
    /\ held' = None /\ heldFrom' = None
    /\ UNCHANGED <<stage, frameVars, fatal, busVars>>

\* The audit fails, a frame is malformed or of another kind, the connection
\* fails, or the host ends it.
ReaderFails ==
    /\ reader \in {"receiving", "auditing"}
    /\ Fail
    /\ reader' = "closing"
    /\ UNCHANGED <<stage, frameVars, published, sub, seen, robbed>>

\* The transport the reader closes behind it is closed.
Closed ==
    /\ reader = "closing"
    /\ reader' = "stopped"
    /\ UNCHANGED <<stage, deferred, frameVars, pending, fatal, heldVars, busVars,
                   robbed>>

\* close: the exchange fails and its reader is interrupted.
Close ==
    /\ reader \notin {"closing", "stopped"} /\ ~fatal
    /\ Fail
    /\ reader' = IF reader = "off" THEN "stopped" ELSE "closing"
    /\ UNCHANGED <<stage, frameVars, published, sub, seen, robbed>>

------------------------------------------------------------------------------
(* Events                                                                     *)

\* The numbers of the last n events, oldest first.
LastEvents(n) == [i \in 1 .. n |-> published - n + i]

Lesser(m, n) == IF m < n THEN m ELSE n

Replay == LastEvents(Lesser(published, EventReplayLimit))

\* publishHostEvent
Publish ==
    /\ reader = "receiving" /\ published < MaxEvents
    /\ published' = published + 1
    /\ queue' = [s \in Subscribers |->
                   IF sub[s] = "on" THEN Append(queue[s], published') ELSE queue[s]]
    /\ UNCHANGED <<stage, deferred, frameVars, pending, fatal, reader, heldVars,
                   sub, seen, robbed>>

\* Mutant: what was published before is not replayed.
FirstItemsNoReplay == IF fatal THEN <<Failure>> ELSE <<>>

FirstItems == IF fatal THEN <<Failure>> ELSE Replay

\* subscribeHostEvent
Subscribe(s) ==
    /\ sub[s] = "idle"
    /\ sub' = [sub EXCEPT ![s] = "on"]
    /\ queue' = [queue EXCEPT ![s] = FirstItems]
    /\ reader' = Started
    /\ UNCHANGED <<stage, deferred, frameVars, pending, fatal, heldVars,
                   published, seen, robbed>>

\* The subscriber takes an item; a failure ends its stream.
TakeItem(s) ==
    /\ sub[s] = "on" /\ queue[s] # <<>>
    /\ queue' = [queue EXCEPT ![s] = Tail(@)]
    /\ IF Head(queue[s]) = Failure
       THEN sub' = [sub EXCEPT ![s] = "ended"] /\ UNCHANGED seen
       ELSE seen' = [seen EXCEPT ![s] = Append(@, Head(queue[s]))] /\ UNCHANGED sub
    /\ UNCHANGED <<stage, deferred, frameVars, pending, fatal, reader, heldVars,
                   published, robbed>>

Unsubscribe(s) ==
    /\ sub[s] = "on"
    /\ sub' = [sub EXCEPT ![s] = "ended"]
    /\ queue' = [queue EXCEPT ![s] = <<>>]
    /\ UNCHANGED <<stage, deferred, frameVars, pending, fatal, reader, heldVars,
                   published, seen, robbed>>

------------------------------------------------------------------------------
Next ==
    \/ \E c \in Calls : \/ Issue(c) \/ Reach(c) \/ Sent(c) \/ SendFails(c)
                        \/ Resume(c) \/ Interrupt(c)
                        \/ Receive(c) \/ ReceiveUntraced(c)
    \/ Audited \/ ReaderFails \/ Closed \/ Close
    \/ Publish
    \/ \E s \in Subscribers : Subscribe(s) \/ TakeItem(s) \/ Unsubscribe(s)

Spec == Init /\ [][Next]_vars
------------------------------------------------------------------------------
Outcome == {Failed} \cup [tag : {"response"}, of : Calls, traced : BOOLEAN]

TypeOK ==
    /\ stage \in [Calls -> {"idle", "sending", "waiting", "done"}]
    /\ deferred \in [Calls -> Outcome \cup {None}]
    /\ sent \in SUBSET {c \in Calls : stage[c] # "idle"}
    /\ responses \in [Calls -> 0 .. MaxResponses]
    /\ pending \in [Ids -> Calls \cup {None}]
    /\ fatal \in BOOLEAN
    /\ reader \in {"off", "receiving", "auditing", "closing", "stopped"}
    /\ fatal = (reader \in {"closing", "stopped"})
    /\ held \in IF reader = "auditing" THEN Calls ELSE {None}
    /\ heldFrom \in IF reader = "auditing" THEN Calls ELSE {None}
    /\ published \in 0 .. MaxEvents
    /\ sub \in [Subscribers -> {"idle", "on", "ended"}]
    /\ queue \in [Subscribers -> Seq(0 .. MaxEvents)]
    /\ seen \in [Subscribers -> Seq(1 .. MaxEvents)]
    /\ robbed \in SUBSET Calls

\* A request that was sent, or is being sent, is either still pending under its
\* id in an exchange that works, or its Deferred is completed, by the response to
\* itself if that had a trace id; unless another request with its id has deleted
\* its entry (pending.delete goes by the id).
NobodyForgotten ==
    \A c \in Calls \ robbed : stage[c] \in {"sending", "waiting"} =>
        \/ deferred[c] = None /\ pending[IdOf[c]] = c /\ ~fatal
        \/ deferred[c] = Failed /\ fatal
        \/ /\ deferred[c] \notin {None, Failed}
           /\ IdOf[deferred[c].of] = IdOf[c]
           /\ deferred[c].traced => deferred[c].of = c

\* The events in a queue: the failure, if it is there, is at the end.
EventsIn(q) ==
    IF q # <<>> /\ q[Len(q)] = Failure THEN SubSeq(q, 1, Len(q) - 1) ELSE q

\* What a subscriber has got and has still to take.
Events(s) == seen[s] \o EventsIn(queue[s])

\* However subscribing, publishing and failing interleave, a subscriber gets each
\* event once and in order: the replay, then every later one, then the failure.
EventsInOrder ==
    \A s \in Subscribers :
        /\ \A i \in DOMAIN Events(s) : Events(s)[i] = Events(s)[1] + i - 1
        /\ \A i \in DOMAIN queue[s] : queue[s][i] = Failure => i = Len(queue[s])
        /\ sub[s] = "on" =>
            /\ fatal = \E i \in DOMAIN queue[s] : queue[s][i] = Failure
            /\ \/ fatal /\ Events(s) = <<>>
               \/ /\ Events(s) = LastEvents(Len(Events(s)))
                  /\ Len(Events(s)) >= Lesser(published, EventReplayLimit)
===============================================================================
