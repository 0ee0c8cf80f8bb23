------------------------- MODULE HostExchangeProofs -------------------------
(* Safety of HostExchange, for any requests, ids, subscribers and bounds.    *)
EXTENDS HostExchange, SequenceTheorems, TLAPS

\* TypeOK in three parts: the requests, the reader and the event bus.
RequestTypes ==
    /\ stage \in [Calls -> {"idle", "sending", "waiting", "done"}]
    /\ deferred \in [Calls -> Outcome \cup {None}]
    /\ sent \in SUBSET {c \in Calls : stage[c] # "idle"}
    /\ responses \in [Calls -> 0 .. MaxResponses]
    /\ pending \in [Ids -> Calls \cup {None}]
    /\ robbed \in SUBSET Calls

ReaderTypes ==
    /\ fatal \in BOOLEAN
    /\ reader \in {"off", "receiving", "auditing", "closing", "stopped"}
    /\ fatal = (reader \in {"closing", "stopped"})
    /\ held \in IF reader = "auditing" THEN Calls ELSE {None}
    /\ heldFrom \in IF reader = "auditing" THEN Calls ELSE {None}

BusTypes ==
    /\ published \in 0 .. MaxEvents
    /\ sub \in [Subscribers -> {"idle", "on", "ended"}]
    /\ queue \in [Subscribers -> Seq(0 .. MaxEvents)]
    /\ seen \in [Subscribers -> Seq(1 .. MaxEvents)]

\* What is on the books about a request: its Deferred, and its entry.
Booked(c) ==
    /\ stage[c] = "idle" => deferred[c] = None /\ pending[IdOf[c]] # c
    /\ pending[IdOf[c]] = c => deferred[c] = None /\ ~fatal
    /\ deferred[c] = Failed => fatal
    /\ deferred[c] \notin {None, Failed} =>
           /\ IdOf[deferred[c].of] = IdOf[c]
           /\ deferred[c].traced => deferred[c].of = c

\* Entries and held responses carry the id they are under.
IdsInv ==
    /\ \A i \in Ids : pending[i] # None => IdOf[pending[i]] = i
    /\ held # None => IdOf[heldFrom] = IdOf[held] /\ stage[held] # "idle"

BookedInv == \A c \in Calls : Booked(c)

\* NobodyForgotten, for one request.
Remembered(c) ==
    c \notin robbed /\ stage[c] \in {"sending", "waiting"} =>
        \/ deferred[c] = None /\ pending[IdOf[c]] = c /\ ~fatal
        \/ deferred[c] = Failed /\ fatal
        \/ /\ deferred[c] \notin {None, Failed}
           /\ IdOf[deferred[c].of] = IdOf[c]
           /\ deferred[c].traced => deferred[c].of = c

\* What completes a Deferred.
LEMMA Outcomes ==
    /\ Failed \in Outcome /\ Failed # None
    /\ \A c \in Calls, t \in BOOLEAN :
           /\ Response(c, t) \in Outcome
           /\ Response(c, t) \notin {None, Failed}
           /\ Response(c, t).of = c /\ Response(c, t).traced = t
<1>1. \A c \in Calls, t \in BOOLEAN :
          /\ Response(c, t) \in Outcome
          /\ Response(c, t) # None
          /\ Response(c, t).of = c /\ Response(c, t).traced = t
  BY NoneAssumption DEF Response, Outcome
<1>2. Failed \in Outcome /\ Failed # None
  BY NoneAssumption DEF Failed, Outcome
<1>3. \A c \in Calls, t \in BOOLEAN : Response(c, t) # Failed
  <2>1. \A c \in Calls, t \in BOOLEAN : Response(c, t).tag # Failed.tag
    BY DEF Response, Failed
  <2> QED  BY <2>1
<1> QED  BY <1>1, <1>2, <1>3

\* The end of the exchange keeps the types.
LEMMA FailTypes ==
    ASSUME RequestTypes, BusTypes, Fail
    PROVE  /\ fatal' = TRUE
           /\ deferred' \in [Calls -> Outcome \cup {None}]
           /\ pending' \in [Ids -> Calls \cup {None}]
           /\ held' = None /\ heldFrom' = None
           /\ queue' \in [Subscribers -> Seq(0 .. MaxEvents)]
<1>1. \A s \in Subscribers : Append(queue[s], Failure) \in Seq(0 .. MaxEvents)
  BY BoundAssumption DEF BusTypes, Failure
<1>2. queue' \in [Subscribers -> Seq(0 .. MaxEvents)]
  BY <1>1 DEF Fail, TellSubscribers, BusTypes
<1> QED  BY <1>2, Outcomes DEF Fail, RequestTypes

\* A function on 1 .. n is a sequence.
LEMMA ISeq ==
    ASSUME NEW S, NEW n \in Nat, NEW f, f = [i \in 1 .. n |-> f[i]],
           \A i \in 1 .. n : f[i] \in S
    PROVE  f \in Seq(S)
  OBVIOUS

\* A subscriber starts with a queue of event numbers, or the failure.
LEMMA FirstItemsType ==
    ASSUME BusTypes
    PROVE  FirstItems \in Seq(0 .. MaxEvents)
<1>1. CASE fatal
  BY <1>1, BoundAssumption DEF FirstItems, Failure
<1>2. CASE ~fatal
  <2>. DEFINE n == Lesser(published, EventReplayLimit)
  <2>1. n \in 0 .. published
    BY LimitAssumption DEF Lesser, BusTypes
  <2>2. \A i \in 1 .. n : published - n + i \in 0 .. MaxEvents
    BY <2>1, BoundAssumption DEF BusTypes
  <2>3. FirstItems = [i \in 1 .. n |-> published - n + i]
    BY <1>2 DEF FirstItems, Replay, LastEvents
  <2>4. n \in Nat
    BY <2>1 DEF BusTypes
  <2>. HIDE DEF n
  <2> QED  BY <2>2, <2>3, <2>4, ISeq
<1> QED  BY <1>1, <1>2

\* Deleting an entry keeps the types.
LEMMA ForgetTypes ==
    ASSUME RequestTypes, NEW c \in Calls, Forget(c)
    PROVE  /\ pending' \in [Ids -> Calls \cup {None}]
           /\ robbed' \in SUBSET Calls
<1>1. pending[IdOf[c]] \in Calls \cup {None}
  BY IdAssumption DEF RequestTypes
<1> QED  BY <1>1 DEF Forget, RequestTypes

\* The three parts are all of TypeOK.
LEMMA TypeParts == TypeOK <=> RequestTypes /\ ReaderTypes /\ BusTypes
  BY DEF TypeOK, RequestTypes, ReaderTypes, BusTypes

\* A step keeps the types of the requests.
LEMMA RequestTypesStep ==
    ASSUME RequestTypes, ReaderTypes, BusTypes, [Next]_vars
    PROVE  RequestTypes'
<1> USE IdAssumption, LimitAssumption, BoundAssumption, NoneAssumption
<1>1. ASSUME NEW c \in Calls, Issue(c)
      PROVE  RequestTypes'
  <2>1. CASE MayIssue(c)
    <3>1. /\ pending' = [pending EXCEPT ![IdOf[c]] = c]
          /\ stage' = [stage EXCEPT ![c] = "sending"]
          /\ UNCHANGED <<deferred, sent, responses, robbed>>
      BY <1>1, <2>1 DEF Issue, Stage, frameVars
    <3> QED  BY <3>1 DEF RequestTypes
  <2>2. CASE ~MayIssue(c)
    <3>1. /\ stage' = [stage EXCEPT ![c] = "done"]
          /\ UNCHANGED <<deferred, sent, responses, pending, robbed>>
      BY <1>1, <2>2 DEF Issue, Stage, frameVars
    <3> QED  BY <3>1 DEF RequestTypes
  <2> QED  BY <2>1, <2>2
<1>2. ASSUME NEW c \in Calls, Reach(c)
      PROVE  RequestTypes'
  BY <1>2 DEF Reach, RequestTypes
<1>3. ASSUME NEW c \in Calls, Sent(c)
      PROVE  RequestTypes'
  BY <1>3 DEF Sent, Stage, RequestTypes, frameVars
<1>4. ASSUME NEW c \in Calls, SendFails(c)
      PROVE  RequestTypes'
  <2>1. /\ pending' \in [Ids -> Calls \cup {None}]
        /\ robbed' \in SUBSET Calls
        /\ stage' = [stage EXCEPT ![c] = "done"]
        /\ UNCHANGED <<deferred, sent, responses>>
    BY <1>4, ForgetTypes DEF SendFails, Stage, frameVars, RequestTypes
  <2> QED  BY <2>1 DEF RequestTypes
<1>5. ASSUME NEW c \in Calls, Resume(c)
      PROVE  RequestTypes'
  <2>1. /\ pending' \in [Ids -> Calls \cup {None}]
        /\ robbed' \in SUBSET Calls
        /\ stage' = [stage EXCEPT ![c] = "done"]
        /\ UNCHANGED <<deferred, sent, responses>>
    BY <1>5, ForgetTypes DEF Resume, Stage, frameVars, RequestTypes
  <2> QED  BY <2>1 DEF RequestTypes
<1>6. ASSUME NEW c \in Calls, Interrupt(c)
      PROVE  RequestTypes'
  <2>1. /\ pending' \in [Ids -> Calls \cup {None}]
        /\ robbed' \in SUBSET Calls
        /\ stage' = [stage EXCEPT ![c] = "done"]
        /\ UNCHANGED <<deferred, sent, responses>>
    BY <1>6, ForgetTypes DEF Interrupt, Stage, frameVars, RequestTypes
  <2> QED  BY <2>1 DEF RequestTypes
<1>7. ASSUME NEW c \in Calls, Receive(c)
      PROVE  RequestTypes'
  <2>1. CASE Accepts(pending[IdOf[c]], c)
    <3>1. /\ deferred' = [deferred EXCEPT ![c] =
                             IF deferred[c] = None THEN Response(c, TRUE) ELSE deferred[c]]
          /\ pending' = [pending EXCEPT ![IdOf[c]] = None]
          /\ responses' = [responses EXCEPT ![c] = responses[c] + 1]
          /\ responses[c] < MaxResponses
          /\ UNCHANGED <<stage, sent, robbed>>
      BY <1>7, <2>1 DEF Receive, Accepts, Settle
    <3>2. responses' \in [Calls -> 0 .. MaxResponses]
      BY <3>1 DEF RequestTypes
    <3>3. Response(c, TRUE) \in Outcome
      BY Outcomes
    <3>4. deferred' \in [Calls -> Outcome \cup {None}]
      BY <3>1, <3>3 DEF RequestTypes
    <3> QED  BY <3>1, <3>2, <3>4 DEF RequestTypes
  <2>2. CASE ~Accepts(pending[IdOf[c]], c)
    <3>1. /\ Fail
          /\ responses' = [responses EXCEPT ![c] = responses[c] + 1]
          /\ responses[c] < MaxResponses
          /\ UNCHANGED <<stage, sent, robbed>>
      BY <1>7, <2>2 DEF Receive
    <3>2. responses' \in [Calls -> 0 .. MaxResponses]
      BY <3>1 DEF RequestTypes
    <3> QED  BY <3>1, <3>2, FailTypes DEF RequestTypes
  <2> QED  BY <2>1, <2>2
<1>8. ASSUME NEW c \in Calls, ReceiveUntraced(c)
      PROVE  RequestTypes'
  <2>1. /\ responses' = [responses EXCEPT ![c] = responses[c] + 1]
        /\ responses[c] < MaxResponses
        /\ UNCHANGED <<stage, sent, robbed>>
        /\ Fail \/ UNCHANGED <<deferred, pending>>
    BY <1>8 DEF ReceiveUntraced
  <2>2. responses' \in [Calls -> 0 .. MaxResponses]
    BY <2>1 DEF RequestTypes
  <2> QED  BY <2>1, <2>2, FailTypes DEF RequestTypes
<1>9. ASSUME Audited
      PROVE  RequestTypes'
  <2>1. held \in Calls /\ heldFrom \in Calls
    BY <1>9 DEF Audited, ReaderTypes
  <2>2. /\ deferred' = [deferred EXCEPT ![held] =
                           IF deferred[held] = None THEN Response(heldFrom, FALSE)
                           ELSE deferred[held]]
        /\ Forget(held)
        /\ UNCHANGED <<stage, sent, responses>>
    BY <1>9 DEF Audited, Settle, frameVars
  <2>3. pending' \in [Ids -> Calls \cup {None}] /\ robbed' \in SUBSET Calls
    BY <2>1, <2>2, ForgetTypes
  <2> QED  BY <2>1, <2>2, <2>3, Outcomes DEF RequestTypes
<1>10. ASSUME ReaderFails
      PROVE  RequestTypes'
  <2>1. Fail /\ UNCHANGED <<stage, sent, responses, robbed>>
    BY <1>10 DEF ReaderFails, frameVars
  <2> QED  BY <2>1, FailTypes DEF RequestTypes
<1>11. ASSUME Closed
      PROVE  RequestTypes'
  <2>1. UNCHANGED <<stage, deferred, sent, responses, pending, robbed>>
    BY <1>11 DEF Closed, frameVars
  <2> QED  BY <2>1 DEF RequestTypes
<1>12. ASSUME Close
      PROVE  RequestTypes'
  <2>1. Fail /\ UNCHANGED <<stage, sent, responses, robbed>>
    BY <1>12 DEF Close, frameVars
  <2> QED  BY <2>1, FailTypes DEF RequestTypes
<1>13. ASSUME Publish
      PROVE  RequestTypes'
  <2>1. UNCHANGED <<stage, deferred, sent, responses, pending, robbed>>
    BY <1>13 DEF Publish, frameVars
  <2> QED  BY <2>1 DEF RequestTypes
<1>14. ASSUME NEW s \in Subscribers, Subscribe(s)
      PROVE  RequestTypes'
  <2>1. UNCHANGED <<stage, deferred, sent, responses, pending, robbed>>
    BY <1>14 DEF Subscribe, frameVars
  <2> QED  BY <2>1 DEF RequestTypes
<1>15. ASSUME NEW s \in Subscribers, TakeItem(s)
      PROVE  RequestTypes'
  <2>1. UNCHANGED <<stage, deferred, sent, responses, pending, robbed>>
    BY <1>15 DEF TakeItem, frameVars
  <2> QED  BY <2>1 DEF RequestTypes
<1>16. ASSUME NEW s \in Subscribers, Unsubscribe(s)
      PROVE  RequestTypes'
  <2>1. UNCHANGED <<stage, deferred, sent, responses, pending, robbed>>
    BY <1>16 DEF Unsubscribe, frameVars
  <2> QED  BY <2>1 DEF RequestTypes
<1>17. CASE UNCHANGED vars
  BY <1>17 DEF vars, RequestTypes, busVars, frameVars, heldVars
<1> QED
  BY <1>1, <1>2, <1>3, <1>4, <1>5, <1>6, <1>7, <1>8, <1>9, <1>10,
     <1>11, <1>12, <1>13, <1>14, <1>15, <1>16, <1>17 DEF Next

\* A step keeps the types of the reader.
LEMMA ReaderTypesStep ==
    ASSUME RequestTypes, ReaderTypes, BusTypes, [Next]_vars
    PROVE  ReaderTypes'
<1> USE IdAssumption, LimitAssumption, BoundAssumption, NoneAssumption
<1>1. ASSUME NEW c \in Calls, Issue(c)
      PROVE  ReaderTypes'
  BY <1>1 DEF Issue, MayIssue, Started, ReaderTypes, heldVars
<1>2. ASSUME NEW c \in Calls, Reach(c)
      PROVE  ReaderTypes'
  BY <1>2 DEF Reach, ReaderTypes, heldVars
<1>3. ASSUME NEW c \in Calls, Sent(c)
      PROVE  ReaderTypes'
  BY <1>3 DEF Sent, ReaderTypes, heldVars
<1>4. ASSUME NEW c \in Calls, SendFails(c)
      PROVE  ReaderTypes'
  BY <1>4 DEF SendFails, ReaderTypes, heldVars
<1>5. ASSUME NEW c \in Calls, Resume(c)
      PROVE  ReaderTypes'
  BY <1>5 DEF Resume, ReaderTypes, heldVars
<1>6. ASSUME NEW c \in Calls, Interrupt(c)
      PROVE  ReaderTypes'
  BY <1>6 DEF Interrupt, ReaderTypes, heldVars
<1>7. ASSUME NEW c \in Calls, Receive(c)
      PROVE  ReaderTypes'
  BY <1>7, FailTypes DEF Receive, RequestTypes, ReaderTypes, heldVars
<1>8. ASSUME NEW c \in Calls, ReceiveUntraced(c)
      PROVE  ReaderTypes'
  <2>1. CASE pending[IdOf[c]] # None
    <3>1. /\ reader' = "auditing" /\ UNCHANGED fatal
          /\ held' = pending[IdOf[c]] /\ heldFrom' = c /\ reader = "receiving"
      BY <1>8, <2>1 DEF ReceiveUntraced
    <3>2. pending[IdOf[c]] \in Calls
      BY <2>1 DEF RequestTypes
    <3> QED  BY <3>1, <3>2 DEF ReaderTypes
  <2>2. CASE pending[IdOf[c]] = None
    <3>1. Fail /\ reader' = "closing"
      BY <1>8, <2>2 DEF ReceiveUntraced
    <3> QED  BY <3>1 DEF Fail, ReaderTypes
  <2> QED  BY <2>1, <2>2
<1>9. ASSUME Audited
      PROVE  ReaderTypes'
  BY <1>9 DEF Audited, ReaderTypes, heldVars
<1>10. ASSUME ReaderFails
      PROVE  ReaderTypes'
  BY <1>10, FailTypes DEF ReaderFails, RequestTypes, ReaderTypes, heldVars
<1>11. ASSUME Closed
      PROVE  ReaderTypes'
  BY <1>11 DEF Closed, ReaderTypes, heldVars
<1>12. ASSUME Close
      PROVE  ReaderTypes'
  BY <1>12, FailTypes DEF Close, RequestTypes, ReaderTypes, heldVars
<1>13. ASSUME Publish
      PROVE  ReaderTypes'
  BY <1>13 DEF Publish, ReaderTypes, heldVars
<1>14. ASSUME NEW s \in Subscribers, Subscribe(s)
      PROVE  ReaderTypes'
  BY <1>14 DEF Subscribe, Started, ReaderTypes, heldVars
<1>15. ASSUME NEW s \in Subscribers, TakeItem(s)
      PROVE  ReaderTypes'
  BY <1>15 DEF TakeItem, ReaderTypes, heldVars
<1>16. ASSUME NEW s \in Subscribers, Unsubscribe(s)
      PROVE  ReaderTypes'
  BY <1>16 DEF Unsubscribe, ReaderTypes, heldVars
<1>17. CASE UNCHANGED vars
  BY <1>17 DEF vars, ReaderTypes, busVars, frameVars, heldVars
<1> QED
  BY <1>1, <1>2, <1>3, <1>4, <1>5, <1>6, <1>7, <1>8, <1>9, <1>10,
     <1>11, <1>12, <1>13, <1>14, <1>15, <1>16, <1>17 DEF Next

\* A step keeps the types of the event bus.
LEMMA BusTypesStep ==
    ASSUME RequestTypes, ReaderTypes, BusTypes, [Next]_vars
    PROVE  BusTypes'
<1> USE IdAssumption, LimitAssumption, BoundAssumption, NoneAssumption
<1>1. ASSUME NEW c \in Calls, Issue(c)
      PROVE  BusTypes'
  BY <1>1 DEF Issue, BusTypes, busVars
<1>2. ASSUME NEW c \in Calls, Reach(c)
      PROVE  BusTypes'
  BY <1>2 DEF Reach, BusTypes, busVars
<1>3. ASSUME NEW c \in Calls, Sent(c)
      PROVE  BusTypes'
  BY <1>3 DEF Sent, BusTypes, busVars
<1>4. ASSUME NEW c \in Calls, SendFails(c)
      PROVE  BusTypes'
  BY <1>4 DEF SendFails, BusTypes, busVars
<1>5. ASSUME NEW c \in Calls, Resume(c)
      PROVE  BusTypes'
  BY <1>5 DEF Resume, BusTypes, busVars
<1>6. ASSUME NEW c \in Calls, Interrupt(c)
      PROVE  BusTypes'
  BY <1>6 DEF Interrupt, BusTypes, busVars
<1>7. ASSUME NEW c \in Calls, Receive(c)
      PROVE  BusTypes'
  <2>1. (Fail \/ UNCHANGED queue) /\ UNCHANGED <<published, sub, seen>>
    BY <1>7 DEF Receive
  <2> QED  BY <2>1, FailTypes DEF BusTypes
<1>8. ASSUME NEW c \in Calls, ReceiveUntraced(c)
      PROVE  BusTypes'
  <2>1. (Fail \/ UNCHANGED queue) /\ UNCHANGED <<published, sub, seen>>
    BY <1>8 DEF ReceiveUntraced
  <2> QED  BY <2>1, FailTypes DEF BusTypes
<1>9. ASSUME Audited
      PROVE  BusTypes'
  BY <1>9 DEF Audited, BusTypes, busVars
<1>10. ASSUME ReaderFails
      PROVE  BusTypes'
  <2>1. (Fail \/ UNCHANGED queue) /\ UNCHANGED <<published, sub, seen>>
    BY <1>10 DEF ReaderFails
  <2> QED  BY <2>1, FailTypes DEF BusTypes
<1>11. ASSUME Closed
      PROVE  BusTypes'
  BY <1>11 DEF Closed, BusTypes, busVars
<1>12. ASSUME Close
      PROVE  BusTypes'
  <2>1. (Fail \/ UNCHANGED queue) /\ UNCHANGED <<published, sub, seen>>
    BY <1>12 DEF Close
  <2> QED  BY <2>1, FailTypes DEF BusTypes
<1>13. ASSUME Publish
      PROVE  BusTypes'
  <2>1. published' \in 1 .. MaxEvents
    BY <1>13 DEF Publish, BusTypes
  <2>2. \A s \in Subscribers : Append(queue[s], published') \in Seq(0 .. MaxEvents)
    BY <2>1 DEF BusTypes
  <2>3. queue' \in [Subscribers -> Seq(0 .. MaxEvents)]
    BY <1>13, <2>2 DEF Publish, BusTypes
  <2>4. UNCHANGED <<sub, seen>>
    BY <1>13 DEF Publish
  <2> QED  BY <2>1, <2>3, <2>4 DEF BusTypes
<1>14. ASSUME NEW s \in Subscribers, Subscribe(s)
      PROVE  BusTypes'
  BY <1>14, FirstItemsType DEF Subscribe, BusTypes
<1>15. ASSUME NEW s \in Subscribers, TakeItem(s)
      PROVE  BusTypes'
  <2>1. /\ queue[s] \in Seq(0 .. MaxEvents) /\ queue[s] # <<>>
        /\ seen[s] \in Seq(1 .. MaxEvents)
        /\ queue' = [queue EXCEPT ![s] = Tail(queue[s])]
        /\ UNCHANGED published
    BY <1>15 DEF TakeItem, BusTypes
  <2>2. queue' \in [Subscribers -> Seq(0 .. MaxEvents)]
    BY <2>1 DEF BusTypes
  <2>3. CASE Head(queue[s]) = Failure
    <3>1. UNCHANGED seen /\ sub' = [sub EXCEPT ![s] = "ended"]
      BY <1>15, <2>3 DEF TakeItem
    <3> QED  BY <2>1, <2>2, <3>1 DEF BusTypes
  <2>4. CASE Head(queue[s]) # Failure
    <3>1. Head(queue[s]) \in 1 .. MaxEvents
      BY <2>1, <2>4 DEF Failure
    <3>2. Append(seen[s], Head(queue[s])) \in Seq(1 .. MaxEvents)
      BY <2>1, <3>1
    <3>3. /\ seen' = [seen EXCEPT ![s] = Append(seen[s], Head(queue[s]))]
          /\ UNCHANGED sub
      BY <1>15, <2>4 DEF TakeItem
    <3>4. seen' \in [Subscribers -> Seq(1 .. MaxEvents)]
      BY <3>2, <3>3 DEF BusTypes
    <3> QED  BY <2>1, <2>2, <3>3, <3>4 DEF BusTypes
  <2> QED  BY <2>3, <2>4
<1>16. ASSUME NEW s \in Subscribers, Unsubscribe(s)
      PROVE  BusTypes'
  BY <1>16 DEF Unsubscribe, BusTypes
<1>17. CASE UNCHANGED vars
  BY <1>17 DEF vars, BusTypes, busVars, frameVars, heldVars
<1> QED
  BY <1>1, <1>2, <1>3, <1>4, <1>5, <1>6, <1>7, <1>8, <1>9, <1>10,
     <1>11, <1>12, <1>13, <1>14, <1>15, <1>16, <1>17 DEF Next

\* A step keeps the types.
LEMMA TypeStep == TypeOK /\ [Next]_vars => TypeOK'
  BY TypeParts, RequestTypesStep, ReaderTypesStep, BusTypesStep
     DEF TypeOK, RequestTypes, ReaderTypes, BusTypes

\* A step leaves entries under the ids of their requests.
LEMMA IdsStep ==
    ASSUME TypeOK, BookedInv, IdsInv, [Next]_vars
    PROVE  IdsInv'
<1> USE IdAssumption, LimitAssumption, BoundAssumption, NoneAssumption
<1>1. ASSUME NEW c \in Calls, Issue(c)
      PROVE  IdsInv'
  <2>1. CASE MayIssue(c)
    <3>1. /\ pending' = [pending EXCEPT ![IdOf[c]] = c]
          /\ stage' = [stage EXCEPT ![c] = "sending"]
          /\ UNCHANGED <<held, heldFrom>>
      BY <1>1, <2>1 DEF Issue, Stage, heldVars
    <3> QED  BY <3>1 DEF IdsInv, TypeOK
  <2>2. CASE ~MayIssue(c)
    <3>1. /\ stage' = [stage EXCEPT ![c] = "done"]
          /\ UNCHANGED <<held, heldFrom, pending>>
      BY <1>1, <2>2 DEF Issue, Stage, heldVars
    <3> QED  BY <3>1 DEF IdsInv, TypeOK
  <2> QED  BY <2>1, <2>2
<1>2. ASSUME NEW c \in Calls, Reach(c)
      PROVE  IdsInv'
  BY <1>2
     DEF Reach, IdsInv, TypeOK, busVars, frameVars, heldVars
<1>3. ASSUME NEW c \in Calls, Sent(c)
      PROVE  IdsInv'
  BY <1>3
     DEF Sent, Stage, IdsInv, TypeOK, busVars, frameVars, heldVars
<1>4. ASSUME NEW c \in Calls, SendFails(c)
      PROVE  IdsInv'
  BY <1>4
     DEF SendFails, Forget, Stage, IdsInv, TypeOK, busVars, frameVars, heldVars
<1>5. ASSUME NEW c \in Calls, Resume(c)
      PROVE  IdsInv'
  BY <1>5
     DEF Resume, Forget, Stage, IdsInv, TypeOK, busVars, frameVars, heldVars
<1>6. ASSUME NEW c \in Calls, Interrupt(c)
      PROVE  IdsInv'
  BY <1>6
     DEF Interrupt, Forget, Stage, IdsInv, TypeOK, busVars, frameVars, heldVars
<1>7. ASSUME NEW c \in Calls, Receive(c)
      PROVE  IdsInv'
  <2>1. CASE Accepts(pending[IdOf[c]], c)
    <3>1. /\ pending' = [pending EXCEPT ![IdOf[c]] = None]
          /\ UNCHANGED <<held, heldFrom, stage>>
      BY <1>7, <2>1 DEF Receive, heldVars
    <3> QED  BY <3>1 DEF IdsInv, TypeOK
  <2>2. CASE ~Accepts(pending[IdOf[c]], c)
    <3>1. Fail
      BY <1>7, <2>2 DEF Receive
    <3> QED  BY <3>1 DEF Fail, IdsInv
  <2> QED  BY <2>1, <2>2
<1>8. ASSUME NEW c \in Calls, ReceiveUntraced(c)
      PROVE  IdsInv'
  <2>1. CASE pending[IdOf[c]] # None
    <3>1. /\ UNCHANGED <<pending, stage>>
          /\ held' = pending[IdOf[c]] /\ heldFrom' = c
      BY <1>8, <2>1 DEF ReceiveUntraced
    <3>2. /\ IdOf[held'] = IdOf[c] /\ held' \in Calls
          /\ pending[IdOf[held']] = held'
      BY <2>1, <3>1 DEF IdsInv, TypeOK
    <3>3. stage[held'] # "idle"
      BY <3>2 DEF BookedInv, Booked
    <3> QED  BY <3>1, <3>2, <3>3 DEF IdsInv
  <2>2. CASE pending[IdOf[c]] = None
    <3>1. Fail
      BY <1>8, <2>2 DEF ReceiveUntraced
    <3> QED  BY <3>1 DEF Fail, IdsInv
  <2> QED  BY <2>1, <2>2
<1>9. ASSUME Audited
      PROVE  IdsInv'
  <2>1. held' = None /\ UNCHANGED stage
        /\ pending' = [pending EXCEPT ![IdOf[held]] = None]
    BY <1>9 DEF Audited, Forget
  <2> QED  BY <2>1 DEF IdsInv, TypeOK
<1>10. ASSUME ReaderFails
      PROVE  IdsInv'
  BY <1>10 DEF ReaderFails, Fail, IdsInv, TypeOK, frameVars, busVars
<1>11. ASSUME Closed
      PROVE  IdsInv'
  BY <1>11
     DEF Closed, IdsInv, TypeOK, busVars, frameVars, heldVars
<1>12. ASSUME Close
      PROVE  IdsInv'
  BY <1>12 DEF Close, Fail, IdsInv, TypeOK, frameVars, busVars
<1>13. ASSUME Publish
      PROVE  IdsInv'
  BY <1>13
     DEF Publish, IdsInv, TypeOK, busVars, frameVars, heldVars
<1>14. ASSUME NEW s \in Subscribers, Subscribe(s)
      PROVE  IdsInv'
  BY <1>14
     DEF Subscribe, Started, FirstItems, IdsInv, TypeOK, busVars, frameVars,
         heldVars
<1>15. ASSUME NEW s \in Subscribers, TakeItem(s)
      PROVE  IdsInv'
  BY <1>15
     DEF TakeItem, IdsInv, TypeOK, busVars, frameVars, heldVars
<1>16. ASSUME NEW s \in Subscribers, Unsubscribe(s)
      PROVE  IdsInv'
  BY <1>16
     DEF Unsubscribe, IdsInv, TypeOK, busVars, frameVars, heldVars
<1>17. CASE UNCHANGED vars
  BY <1>17 DEF vars, IdsInv, TypeOK, busVars, frameVars, heldVars
<1> QED
  BY <1>1, <1>2, <1>3, <1>4, <1>5, <1>6, <1>7, <1>8, <1>9, <1>10,
     <1>11, <1>12, <1>13, <1>14, <1>15, <1>16, <1>17 DEF Next

\* The end of the exchange clears the books.
LEMMA FailBooked ==
    ASSUME TypeOK, BookedInv, Fail, UNCHANGED stage
    PROVE  BookedInv'
<1> SUFFICES ASSUME NEW c \in Calls PROVE Booked(c)'
  BY DEF BookedInv
<1>1. Booked(c) /\ IdOf[c] \in Ids
  BY IdAssumption DEF BookedInv
<1>2. /\ pending'[IdOf[c]] = None /\ fatal' = TRUE
      /\ deferred'[c] = IF pending[IdOf[c]] = c /\ deferred[c] = None THEN Failed
                        ELSE deferred[c]
  BY <1>1 DEF Fail
<1>3. c # None
  BY NoneAssumption
<1> QED  BY <1>1, <1>2, <1>3 DEF Booked

\* A step keeps the books.
LEMMA BookedStep ==
    ASSUME TypeOK, IdsInv, BookedInv, [Next]_vars
    PROVE  BookedInv'
<1> USE IdAssumption, LimitAssumption, BoundAssumption, NoneAssumption
<1>1. ASSUME NEW c \in Calls, Issue(c)
      PROVE  BookedInv'
  BY <1>1
     DEF Issue, MayIssue, Started, Stage, BookedInv, Booked, TypeOK, busVars,
         frameVars, heldVars
<1>2. ASSUME NEW c \in Calls, Reach(c)
      PROVE  BookedInv'
  BY <1>2
     DEF Reach, BookedInv, Booked, TypeOK, busVars, frameVars, heldVars
<1>3. ASSUME NEW c \in Calls, Sent(c)
      PROVE  BookedInv'
  BY <1>3
     DEF Sent, Stage, BookedInv, Booked, TypeOK, busVars, frameVars, heldVars
<1>4. ASSUME NEW c \in Calls, SendFails(c)
      PROVE  BookedInv'
  BY <1>4
     DEF SendFails, Forget, Stage, BookedInv, Booked, TypeOK, busVars, frameVars,
         heldVars
<1>5. ASSUME NEW c \in Calls, Resume(c)
      PROVE  BookedInv'
  BY <1>5
     DEF Resume, Forget, Stage, BookedInv, Booked, TypeOK, busVars, frameVars,
         heldVars
<1>6. ASSUME NEW c \in Calls, Interrupt(c)
      PROVE  BookedInv'
  BY <1>6
     DEF Interrupt, Forget, Stage, BookedInv, Booked, TypeOK, busVars, frameVars,
         heldVars
<1>7. ASSUME NEW c \in Calls, Receive(c)
      PROVE  BookedInv'
  <2>. SUFFICES ASSUME NEW e \in Calls PROVE Booked(e)'
    BY DEF BookedInv
  <2>0. Booked(e) /\ IdOf[e] \in Ids /\ e # None
    BY DEF BookedInv
  <2>1. CASE Accepts(pending[IdOf[c]], c)
    <3>1. /\ deferred' = [deferred EXCEPT ![c] =
                             IF deferred[c] = None THEN Response(c, TRUE) ELSE deferred[c]]
          /\ pending' = [pending EXCEPT ![IdOf[c]] = None]
          /\ UNCHANGED <<fatal, stage>>
          /\ pending[IdOf[c]] = c
      BY <1>7, <2>1 DEF Receive, Accepts, Settle
    <3>2. stage[c] # "idle"
      BY <3>1 DEF BookedInv, Booked
    <3> QED  BY <2>0, <3>1, <3>2, Outcomes DEF Booked, TypeOK
  <2>2. CASE ~Accepts(pending[IdOf[c]], c)
    <3>1. Fail /\ UNCHANGED stage
      BY <1>7, <2>2 DEF Receive
    <3> QED  BY <3>1, FailBooked DEF BookedInv
  <2> QED  BY <2>1, <2>2
<1>8. ASSUME NEW c \in Calls, ReceiveUntraced(c)
      PROVE  BookedInv'
  <2>1. CASE pending[IdOf[c]] # None
    BY <1>8, <2>1 DEF ReceiveUntraced, BookedInv, Booked
  <2>2. CASE pending[IdOf[c]] = None
    <3>1. Fail /\ UNCHANGED stage
      BY <1>8, <2>2 DEF ReceiveUntraced
    <3> QED  BY <3>1, FailBooked
  <2> QED  BY <2>1, <2>2
<1>9. ASSUME Audited
      PROVE  BookedInv'
  <2>. SUFFICES ASSUME NEW e \in Calls PROVE Booked(e)'
    BY DEF BookedInv
  <2>0. Booked(e) /\ IdOf[e] \in Ids /\ e # None
    BY DEF BookedInv
  <2>1. /\ held \in Calls /\ heldFrom \in Calls
        /\ IdOf[heldFrom] = IdOf[held] /\ stage[held] # "idle"
    BY <1>9 DEF Audited, TypeOK, IdsInv
  <2>2. /\ deferred' = [deferred EXCEPT ![held] =
                           IF deferred[held] = None THEN Response(heldFrom, FALSE)
                           ELSE deferred[held]]
        /\ pending' = [pending EXCEPT ![IdOf[held]] = None]
        /\ UNCHANGED <<fatal, stage>>
    BY <1>9 DEF Audited, Settle, Forget
  <2>3. /\ Response(heldFrom, FALSE) \notin {None, Failed}
        /\ Response(heldFrom, FALSE).of = heldFrom
        /\ Response(heldFrom, FALSE).traced = FALSE
    BY <2>1, Outcomes
  <2> QED  BY <2>0, <2>1, <2>2, <2>3 DEF Booked, TypeOK
<1>10. ASSUME ReaderFails
      PROVE  BookedInv'
  <2>1. Fail /\ UNCHANGED stage
    BY <1>10 DEF ReaderFails
  <2> QED  BY <2>1, FailBooked
<1>11. ASSUME Closed
      PROVE  BookedInv'
  BY <1>11
     DEF Closed, BookedInv, Booked, TypeOK, busVars, frameVars, heldVars
<1>12. ASSUME Close
      PROVE  BookedInv'
  <2>1. Fail /\ UNCHANGED stage
    BY <1>12 DEF Close
  <2> QED  BY <2>1, FailBooked
<1>13. ASSUME Publish
      PROVE  BookedInv'
  BY <1>13
     DEF Publish, BookedInv, Booked, TypeOK, busVars, frameVars, heldVars
<1>14. ASSUME NEW s \in Subscribers, Subscribe(s)
      PROVE  BookedInv'
  BY <1>14
     DEF Subscribe, Started, FirstItems, BookedInv, Booked, TypeOK, busVars,
         frameVars, heldVars
<1>15. ASSUME NEW s \in Subscribers, TakeItem(s)
      PROVE  BookedInv'
  BY <1>15
     DEF TakeItem, BookedInv, Booked, TypeOK, busVars, frameVars, heldVars
<1>16. ASSUME NEW s \in Subscribers, Unsubscribe(s)
      PROVE  BookedInv'
  BY <1>16
     DEF Unsubscribe, BookedInv, Booked, TypeOK, busVars, frameVars, heldVars
<1>17. CASE UNCHANGED vars
  BY <1>17 DEF vars, BookedInv, Booked, TypeOK, busVars, frameVars, heldVars
<1> QED
  BY <1>1, <1>2, <1>3, <1>4, <1>5, <1>6, <1>7, <1>8, <1>9, <1>10,
     <1>11, <1>12, <1>13, <1>14, <1>15, <1>16, <1>17 DEF Next

\* Nor does the end of the exchange forget a request.
LEMMA FailRemembered ==
    ASSUME TypeOK, NobodyForgotten, Fail, UNCHANGED <<stage, robbed>>
    PROVE  NobodyForgotten'
<1> SUFFICES ASSUME NEW c \in Calls PROVE Remembered(c)'
  BY DEF NobodyForgotten, Remembered
<1>1. Remembered(c)
  BY DEF NobodyForgotten, Remembered
<1>2. /\ fatal' = TRUE
      /\ deferred'[c] = IF pending[IdOf[c]] = c /\ deferred[c] = None THEN Failed
                        ELSE deferred[c]
  BY DEF Fail
<1> QED  BY <1>1, <1>2 DEF Remembered

\* A step forgets no request.
LEMMA RememberedStep ==
    ASSUME TypeOK, IdsInv, BookedInv, NobodyForgotten, [Next]_vars
    PROVE  NobodyForgotten'
<1> USE IdAssumption, LimitAssumption, BoundAssumption, NoneAssumption
<1>1. ASSUME NEW c \in Calls, Issue(c)
      PROVE  NobodyForgotten'
  <2>. SUFFICES ASSUME NEW e \in Calls PROVE Remembered(e)'
    BY DEF NobodyForgotten, Remembered
  <2>0. Remembered(e) /\ Booked(e) /\ IdOf[e] \in Ids /\ e # None
    BY DEF NobodyForgotten, Remembered, BookedInv
  <2>1. CASE MayIssue(c)
    <3>1. /\ pending' = [pending EXCEPT ![IdOf[c]] = c]
          /\ stage' = [stage EXCEPT ![c] = "sending"]
          /\ UNCHANGED <<deferred, fatal, robbed>>
          /\ ~fatal /\ pending[IdOf[c]] = None /\ stage[c] = "idle"
      BY <1>1, <2>1 DEF Issue, MayIssue, Stage
    <3>2. deferred[c] = None
      BY <3>1 DEF BookedInv, Booked
    <3> QED  BY <2>0, <3>1, <3>2 DEF Remembered, TypeOK
  <2>2. CASE ~MayIssue(c)
    BY <1>1, <2>0, <2>2 DEF Issue, Stage, Remembered, TypeOK
  <2> QED  BY <2>1, <2>2
<1>2. ASSUME NEW c \in Calls, Reach(c)
      PROVE  NobodyForgotten'
  BY <1>2 DEF Reach, NobodyForgotten, frameVars, heldVars, busVars
<1>3. ASSUME NEW c \in Calls, Sent(c)
      PROVE  NobodyForgotten'
  BY <1>3
     DEF Sent, Stage, NobodyForgotten, Remembered, BookedInv, Booked, TypeOK,
         busVars, frameVars, heldVars
<1>4. ASSUME NEW c \in Calls, SendFails(c)
      PROVE  NobodyForgotten'
  <2>. SUFFICES ASSUME NEW e \in Calls PROVE Remembered(e)'
    BY DEF NobodyForgotten, Remembered
  <2>0. Remembered(e) /\ Booked(e) /\ IdOf[e] \in Ids /\ e # None
    BY DEF NobodyForgotten, Remembered, BookedInv
  <2>1. /\ pending' = [pending EXCEPT ![IdOf[c]] = None]
        /\ robbed' = robbed \cup ({pending[IdOf[c]]} \ {c, None})
        /\ stage' = [stage EXCEPT ![c] = "done"]
        /\ UNCHANGED <<deferred, fatal>>
    BY <1>4 DEF SendFails, Forget, Stage
  <2> QED  BY <2>0, <2>1 DEF Remembered, TypeOK
<1>5. ASSUME NEW c \in Calls, Resume(c)
      PROVE  NobodyForgotten'
  <2>. SUFFICES ASSUME NEW e \in Calls PROVE Remembered(e)'
    BY DEF NobodyForgotten, Remembered
  <2>0. Remembered(e) /\ Booked(e) /\ IdOf[e] \in Ids /\ e # None
    BY DEF NobodyForgotten, Remembered, BookedInv
  <2>1. /\ pending' = [pending EXCEPT ![IdOf[c]] = None]
        /\ robbed' = robbed \cup ({pending[IdOf[c]]} \ {c, None})
        /\ stage' = [stage EXCEPT ![c] = "done"]
        /\ UNCHANGED <<deferred, fatal>>
    BY <1>5 DEF Resume, Forget, Stage
  <2> QED  BY <2>0, <2>1 DEF Remembered, TypeOK
<1>6. ASSUME NEW c \in Calls, Interrupt(c)
      PROVE  NobodyForgotten'
  <2>. SUFFICES ASSUME NEW e \in Calls PROVE Remembered(e)'
    BY DEF NobodyForgotten, Remembered
  <2>0. Remembered(e) /\ Booked(e) /\ IdOf[e] \in Ids /\ e # None
    BY DEF NobodyForgotten, Remembered, BookedInv
  <2>1. /\ stage' = [stage EXCEPT ![c] = "done"]
        /\ UNCHANGED <<deferred, fatal>>
        /\ \/ UNCHANGED <<pending, robbed>>
           \/ /\ pending' = [pending EXCEPT ![IdOf[c]] = None]
              /\ robbed' = robbed \cup ({pending[IdOf[c]]} \ {c, None})
    BY <1>6 DEF Interrupt, Forget, Stage
  <2> QED  BY <2>0, <2>1 DEF Remembered, TypeOK
<1>7. ASSUME NEW c \in Calls, Receive(c)
      PROVE  NobodyForgotten'
  <2>. SUFFICES ASSUME NEW e \in Calls PROVE Remembered(e)'
    BY DEF NobodyForgotten, Remembered
  <2>0. Remembered(e) /\ Booked(e) /\ IdOf[e] \in Ids /\ e # None
    BY DEF NobodyForgotten, Remembered, BookedInv
  <2>1. CASE Accepts(pending[IdOf[c]], c)
    <3>1. /\ deferred' = [deferred EXCEPT ![c] =
                             IF deferred[c] = None THEN Response(c, TRUE) ELSE deferred[c]]
          /\ pending' = [pending EXCEPT ![IdOf[c]] = None]
          /\ UNCHANGED <<fatal, stage, robbed>>
          /\ pending[IdOf[c]] = c
      BY <1>7, <2>1 DEF Receive, Accepts, Settle
    <3>2. deferred[c] = None
      BY <3>1 DEF BookedInv, Booked
    <3>3. /\ Response(c, TRUE) \notin {None, Failed}
          /\ Response(c, TRUE).of = c
      BY Outcomes
    <3>4. deferred'[c] = Response(c, TRUE)
      BY <3>1, <3>2 DEF TypeOK
    <3>5. CASE e = c
      BY <3>3, <3>4, <3>5 DEF Remembered
    <3>6. CASE e # c
      <4>1. /\ deferred'[e] = deferred[e]
            /\ pending[IdOf[e]] = e => pending'[IdOf[e]] = e
        BY <2>0, <3>1, <3>6 DEF TypeOK
      <4> QED  BY <2>0, <3>1, <4>1 DEF Remembered
    <3> QED  BY <3>5, <3>6
  <2>2. CASE ~Accepts(pending[IdOf[c]], c)
    <3>1. Fail /\ UNCHANGED <<stage, robbed>>
      BY <1>7, <2>2 DEF Receive
    <3> QED  BY <3>1, FailRemembered DEF NobodyForgotten, Remembered
  <2> QED  BY <2>1, <2>2
<1>8. ASSUME NEW c \in Calls, ReceiveUntraced(c)
      PROVE  NobodyForgotten'
  <2>1. CASE pending[IdOf[c]] # None
    BY <1>8, <2>1 DEF ReceiveUntraced, NobodyForgotten
  <2>2. CASE pending[IdOf[c]] = None
    <3>1. Fail /\ UNCHANGED <<stage, robbed>>
      BY <1>8, <2>2 DEF ReceiveUntraced
    <3> QED  BY <3>1, FailRemembered
  <2> QED  BY <2>1, <2>2
<1>9. ASSUME Audited
      PROVE  NobodyForgotten'
  <2>. SUFFICES ASSUME NEW e \in Calls PROVE Remembered(e)'
    BY DEF NobodyForgotten, Remembered
  <2>0. Remembered(e) /\ Booked(e) /\ IdOf[e] \in Ids /\ e # None
    BY DEF NobodyForgotten, Remembered, BookedInv
  <2>1. /\ held \in Calls /\ heldFrom \in Calls
        /\ IdOf[heldFrom] = IdOf[held]
    BY <1>9 DEF Audited, TypeOK, IdsInv
  <2>2. /\ deferred' = [deferred EXCEPT ![held] =
                           IF deferred[held] = None THEN Response(heldFrom, FALSE)
                           ELSE deferred[held]]
        /\ pending' = [pending EXCEPT ![IdOf[held]] = None]
        /\ robbed' = robbed \cup ({pending[IdOf[held]]} \ {held, None})
        /\ UNCHANGED <<fatal, stage>>
    BY <1>9 DEF Audited, Settle, Forget
  <2>3. /\ Response(heldFrom, FALSE) \notin {None, Failed}
        /\ Response(heldFrom, FALSE).of = heldFrom
        /\ Response(heldFrom, FALSE).traced = FALSE
    BY <2>1, Outcomes
  <2> QED  BY <2>0, <2>1, <2>2, <2>3 DEF Remembered, TypeOK
<1>10. ASSUME ReaderFails
      PROVE  NobodyForgotten'
  <2>1. Fail /\ UNCHANGED <<stage, robbed>>
    BY <1>10 DEF ReaderFails
  <2> QED  BY <2>1, FailRemembered
<1>11. ASSUME Closed
      PROVE  NobodyForgotten'
  BY <1>11 DEF Closed, NobodyForgotten, frameVars, heldVars, busVars
<1>12. ASSUME Close
      PROVE  NobodyForgotten'
  <2>1. Fail /\ UNCHANGED <<stage, robbed>>
    BY <1>12 DEF Close
  <2> QED  BY <2>1, FailRemembered
<1>13. ASSUME Publish
      PROVE  NobodyForgotten'
  BY <1>13 DEF Publish, NobodyForgotten, frameVars, heldVars, busVars
<1>14. ASSUME NEW s \in Subscribers, Subscribe(s)
      PROVE  NobodyForgotten'
  BY <1>14 DEF Subscribe, NobodyForgotten, frameVars, heldVars, busVars
<1>15. ASSUME NEW s \in Subscribers, TakeItem(s)
      PROVE  NobodyForgotten'
  BY <1>15 DEF TakeItem, NobodyForgotten, frameVars, heldVars, busVars
<1>16. ASSUME NEW s \in Subscribers, Unsubscribe(s)
      PROVE  NobodyForgotten'
  BY <1>16 DEF Unsubscribe, NobodyForgotten, frameVars, heldVars, busVars
<1>17. CASE UNCHANGED vars
  BY <1>17 DEF vars, NobodyForgotten, Remembered, BookedInv, Booked, TypeOK,
               busVars, frameVars, heldVars
<1> QED
  BY <1>1, <1>2, <1>3, <1>4, <1>5, <1>6, <1>7, <1>8, <1>9, <1>10,
     <1>11, <1>12, <1>13, <1>14, <1>15, <1>16, <1>17 DEF Next

-----------------------------------------------------------------------------
(* The event bus.                                                          *)

\* A queue with the failure in it, and one with nothing behind the failure.
Fails(q) == \E i \in DOMAIN q : q[i] = Failure
FailsLast(q) == \A i \in DOMAIN q : q[i] = Failure => i = Len(q)

\* EventsInOrder for one subscriber, and what one has before it subscribes.
InOrder(s) ==
    /\ \A i \in DOMAIN Events(s) : Events(s)[i] = Events(s)[1] + i - 1
    /\ FailsLast(queue[s])
    /\ sub[s] = "on" =>
        /\ fatal = Fails(queue[s])
        /\ \/ fatal /\ Events(s) = <<>>
           \/ /\ Events(s) = LastEvents(Len(Events(s)))
              /\ Len(Events(s)) >= Lesser(published, EventReplayLimit)
    /\ sub[s] = "idle" => seen[s] = <<>> /\ queue[s] = <<>>

BusInv == \A s \in Subscribers : InOrder(s)

\* A queue without the failure holds events only.
LEMMA EventsOfNoFailure ==
    ASSUME NEW q \in Seq(Nat), ~Fails(q)
    PROVE  EventsIn(q) = q
<1>1. q # <<>> => Len(q) \in DOMAIN q
  OBVIOUS
<1> QED  BY <1>1 DEF EventsIn, Fails

\* The failure is all that is left out.
LEMMA EventsOfAppended ==
    ASSUME NEW q \in Seq(Nat)
    PROVE  EventsIn(Append(q, Failure)) = q
<1>1. /\ Append(q, Failure) # <<>>
      /\ Len(Append(q, Failure)) = Len(q) + 1
      /\ Append(q, Failure)[Len(q) + 1] = Failure
      /\ Append(q, Failure) \in Seq(Nat)
  BY DEF Failure
<1>2. EventsIn(Append(q, Failure)) = SubSeq(Append(q, Failure), 1, Len(q))
  BY <1>1 DEF EventsIn
<1>3. SubSeq(Append(q, Failure), 1, Len(q)) = q
  BY <1>1
<1> QED  BY <1>2, <1>3

\* A queue of the failure, and an empty one, hold no event.
LEMMA EventsOfEmpty ==
    /\ EventsIn(<<>>) = <<>>
    /\ EventsIn(<<Failure>>) = <<>>
<1>1. <<>> \in Seq(Nat) /\ Append(<<>>, Failure) = <<Failure>>
  OBVIOUS
<1> QED  BY <1>1, EventsOfAppended DEF EventsIn

\* The events of a queue are events.
LEMMA EventsInType ==
    ASSUME NEW q \in Seq(Nat)
    PROVE  EventsIn(q) \in Seq(Nat)
<1>1. CASE q # <<>> /\ q[Len(q)] = Failure
  <2>1. /\ SubSeq(q, 1, Len(q) - 1) \in Seq(Nat)
    BY <1>1
  <2> QED  BY <1>1, <2>1 DEF EventsIn
<1>2. CASE ~(q # <<>> /\ q[Len(q)] = Failure)
  BY <1>2 DEF EventsIn
<1> QED  BY <1>1, <1>2

\* Appending to the second of two sequences appends to both.
LEMMA ConcatAppended ==
    ASSUME NEW e \in Seq(Nat), NEW q \in Seq(Nat), NEW x \in Nat
    PROVE  e \o Append(q, x) = Append(e \o q, x)
<1>1. <<x>> \in Seq(Nat) /\ e \o q \in Seq(Nat)
  BY ConcatProperties
<1>2. Append(q, x) = q \o <<x>> /\ Append(e \o q, x) = (e \o q) \o <<x>>
  BY <1>1, AppendIsConcat
<1>3. e \o (q \o <<x>>) = (e \o q) \o <<x>>
  BY <1>1, ConcatAssociative
<1> QED  BY <1>2, <1>3

\* A sequence whose first element is appended to another one instead.
LEMMA ConcatMoved ==
    ASSUME NEW e \in Seq(Nat), NEW r \in Seq(Nat), NEW t \in Seq(Nat), NEW x \in Nat,
           Len(r) = Len(t) + 1, r[1] = x,
           \A i \in 1 .. Len(t) : t[i] = r[i + 1]
    PROVE  Append(e, x) \o t = e \o r
<1>1. /\ <<x>> \in Seq(Nat) /\ Len(<<x>>) = 1 /\ <<x>>[1] = x
      /\ Len(t) \in Nat
  OBVIOUS
<1>2. /\ <<x>> \o t \in Seq(Nat) /\ Len(<<x>> \o t) = 1 + Len(t)
      /\ \A i \in 1 .. 1 + Len(t) :
             (<<x>> \o t)[i] = IF i <= 1 THEN <<x>>[i] ELSE t[i - 1]
  BY <1>1, ConcatProperties
<1>3. ASSUME NEW i \in 1 .. Len(r)
      PROVE  r[i] = (<<x>> \o t)[i]
  <2>1. i \in 1 .. 1 + Len(t)
    BY <1>1
  <2>2. CASE i = 1
    BY <1>1, <1>2, <2>1, <2>2
  <2>3. CASE i # 1
    <3>1. i - 1 \in 1 .. Len(t) /\ (i - 1) + 1 = i /\ ~(i <= 1)
      BY <1>1, <2>1, <2>3
    <3> QED  BY <1>2, <2>1, <3>1
  <2> QED  BY <2>2, <2>3
<1>4. r = <<x>> \o t
  <2>1. Len(r) = Len(<<x>> \o t)
    BY <1>1, <1>2
  <2> QED  BY <1>2, <1>3, <2>1, SeqEqual
<1>5. (e \o <<x>>) \o t = e \o (<<x>> \o t)
  BY <1>1, ConcatAssociative
<1>6. Append(e, x) = e \o <<x>>
  BY AppendIsConcat
<1> QED  BY <1>4, <1>5, <1>6

\* Taking an event moves it to those the subscriber has got.
LEMMA EventTaken ==
    ASSUME NEW e \in Seq(Nat), NEW q \in Seq(Nat), q # <<>>, Head(q) # Failure
    PROVE  Append(e, Head(q)) \o EventsIn(Tail(q)) = e \o EventsIn(q)
<1>1. /\ Tail(q) \in Seq(Nat) /\ Head(q) \in Nat /\ Len(q) \in Nat \ {0}
      /\ Len(Tail(q)) = Len(q) - 1
      /\ \A i \in 1 .. Len(q) - 1 : Tail(q)[i] = q[i + 1]
      /\ Head(q) = q[1]
  OBVIOUS
<1>2. \A r, t \in Seq(Nat) :
          Len(r) = Len(t) + 1 /\ r[1] = Head(q)
              /\ (\A i \in 1 .. Len(t) : t[i] = r[i + 1])
          => Append(e, Head(q)) \o t = e \o r
  BY <1>1, ConcatMoved
<1>3. CASE q[Len(q)] = Failure
  <2>1. Len(q) # 1
    BY <1>1, <1>3
  <2>2. /\ Tail(q) # <<>>
        /\ Tail(q)[Len(Tail(q))] = Failure
    <3>1. Len(q) - 1 \in 1 .. Len(q) - 1 /\ (Len(q) - 1) + 1 = Len(q)
      BY <1>1, <2>1
    <3>2. Tail(q)[Len(q) - 1] = q[Len(q)]
      BY <1>1, <3>1
    <3>3. Len(Tail(q)) # 0
      BY <1>1, <2>1
    <3>4. Tail(q) # <<>>
      BY <1>1, <3>3, EmptySeq
    <3> QED  BY <1>1, <1>3, <3>2, <3>4
  <2>3. /\ EventsIn(q) = SubSeq(q, 1, Len(q) - 1)
        /\ EventsIn(Tail(q)) = SubSeq(Tail(q), 1, Len(Tail(q)) - 1)
    BY <1>3, <2>2 DEF EventsIn
  <2>. DEFINE r == SubSeq(q, 1, Len(q) - 1)
              t == SubSeq(Tail(q), 1, Len(Tail(q)) - 1)
  <2>4. r \in Seq(Nat) /\ Len(r) = Len(q) - 1
        /\ \A i \in 1 .. Len(q) - 1 : r[i] = q[i]
    BY <1>1
  <2>5. t \in Seq(Nat) /\ Len(t) = Len(q) - 2
        /\ \A i \in 1 .. Len(q) - 2 : t[i] = Tail(q)[i]
    BY <1>1, <2>1
  <2>. HIDE DEF r, t
  <2>6. Len(r) = Len(t) + 1 /\ r[1] = Head(q)
        /\ \A i \in 1 .. Len(t) : t[i] = r[i + 1]
    <3>1. Len(q) - 1 >= 1 /\ Len(q) - 1 = Len(q) - 2 + 1
      BY <1>1, <2>1
    <3>2. Len(r) = Len(t) + 1 /\ r[1] = Head(q)
      BY <1>1, <2>4, <2>5, <3>1
    <3>3. ASSUME NEW i \in 1 .. Len(t)
          PROVE  t[i] = r[i + 1]
      <4>1. i \in 1 .. Len(q) - 2 /\ i + 1 \in 1 .. Len(q) - 1 /\ i \in 1 .. Len(q) - 1
        BY <1>1, <2>5
      <4> QED  BY <1>1, <2>4, <2>5, <4>1
    <3> QED  BY <3>2, <3>3
  <2>7. Append(e, Head(q)) \o t = e \o r
    BY <1>2, <2>4, <2>5, <2>6
  <2> QED  BY <2>3, <2>7 DEF r, t
<1>4. CASE q[Len(q)] # Failure
  <2>1. EventsIn(q) = q
    BY <1>4 DEF EventsIn
  <2>2. EventsIn(Tail(q)) = Tail(q)
    <3>1. CASE Tail(q) = <<>>
      BY <3>1, EventsOfEmpty
    <3>2. CASE Tail(q) # <<>>
      <4>1. Len(Tail(q)) \in 1 .. Len(q) - 1
        BY <1>1, <3>2
      <4>2. Tail(q)[Len(Tail(q))] = q[Len(q)]
        BY <1>1, <4>1
      <4> QED  BY <1>4, <4>2 DEF EventsIn
    <3> QED  BY <3>1, <3>2
  <2>3. Len(q) = Len(Tail(q)) + 1 /\ q[1] = Head(q)
        /\ \A i \in 1 .. Len(Tail(q)) : Tail(q)[i] = q[i + 1]
    BY <1>1
  <2> QED  BY <1>1, <1>2, <2>1, <2>2, <2>3
<1> QED  BY <1>3, <1>4

\* What a subscriber has got and has to take are sequences of numbers.
LEMMA BusSeqs ==
    ASSUME BusTypes, NEW s \in Subscribers
    PROVE  /\ queue[s] \in Seq(Nat) /\ seen[s] \in Seq(Nat)
           /\ EventsIn(queue[s]) \in Seq(Nat)
           /\ Events(s) \in Seq(Nat)
           /\ Len(Events(s)) \in Nat /\ DOMAIN Events(s) = 1 .. Len(Events(s))
           /\ published \in Nat
<1>1. queue[s] \in Seq(0 .. MaxEvents) /\ seen[s] \in Seq(1 .. MaxEvents)
  BY DEF BusTypes
<1>2. queue[s] \in Seq(Nat) /\ seen[s] \in Seq(Nat)
  <2>1. 0 .. MaxEvents \subseteq Nat /\ 1 .. MaxEvents \subseteq Nat
    BY BoundAssumption
  <2> QED  BY <1>1, <2>1, SeqMonotonic
<1>3. EventsIn(queue[s]) \in Seq(Nat)
  BY <1>2, EventsInType
<1>4. Events(s) \in Seq(Nat)
  BY <1>2, <1>3, ConcatProperties DEF Events
<1>5. Len(Events(s)) \in Nat /\ DOMAIN Events(s) = 1 .. Len(Events(s))
  BY <1>4, LenProperties
<1> QED  BY <1>2, <1>3, <1>4, <1>5, BoundAssumption DEF BusTypes

\* A subscriber whose queue and events are left alone stays in order.
LEMMA UntouchedInOrder ==
    ASSUME NEW s \in Subscribers, InOrder(s),
           queue'[s] = queue[s], seen'[s] = seen[s], sub'[s] = sub[s],
           sub[s] = "on" => fatal' = fatal /\ published' = published
    PROVE  InOrder(s)'
<1>1. Events(s)' = Events(s)
  BY DEF Events
<1>2. published' = published => LastEvents(Len(Events(s)))' = LastEvents(Len(Events(s)))
  BY <1>1 DEF LastEvents
<1> QED  BY <1>1, <1>2 DEF InOrder

\* The last events, oldest first, count up.
LEMMA LastEventsCount ==
    ASSUME NEW n \in Nat, published \in Nat
    PROVE  \A i \in DOMAIN LastEvents(n) :
               LastEvents(n)[i] = LastEvents(n)[1] + i - 1
  BY DEF LastEvents

\* The failure of the exchange is put behind what there is to take.
LEMMA FailInOrder ==
    ASSUME BusTypes, fatal \in BOOLEAN, BusInv, Fail, UNCHANGED <<published, sub, seen>>
    PROVE  BusInv'
<1>. SUFFICES ASSUME NEW s \in Subscribers PROVE InOrder(s)'
  BY DEF BusInv
<1>0. InOrder(s)
  BY DEF BusInv
<1>1. CASE fatal
  BY <1>0, <1>1, UntouchedInOrder DEF Fail, TellSubscribers
<1>2. CASE ~fatal /\ sub[s] # "on"
  <2>1. queue'[s] = queue[s]
    BY <1>2 DEF Fail, TellSubscribers
  <2> QED  BY <1>0, <1>2, <2>1, UntouchedInOrder
<1>3. CASE ~fatal /\ sub[s] = "on"
  <2>1. queue'[s] = Append(queue[s], Failure) /\ fatal' = TRUE
    BY <1>3 DEF Fail, TellSubscribers
  <2>2. queue[s] \in Seq(Nat) /\ ~Fails(queue[s])
    BY <1>0, <1>3, BusSeqs DEF InOrder
  <2>3. EventsIn(queue'[s]) = EventsIn(queue[s])
    BY <2>1, <2>2, EventsOfAppended, EventsOfNoFailure
  <2>4. Events(s)' = Events(s)
    BY <2>3 DEF Events
  <2>5. /\ DOMAIN queue'[s] = DOMAIN queue[s] \cup {Len(queue[s]) + 1}
        /\ Len(queue'[s]) = Len(queue[s]) + 1
        /\ \A i \in DOMAIN queue[s] : queue'[s][i] = queue[s][i]
        /\ queue'[s][Len(queue[s]) + 1] = Failure
    BY <2>1, <2>2 DEF Failure
  <2>6. FailsLast(queue'[s]) /\ Fails(queue'[s])
    BY <2>2, <2>5 DEF FailsLast, Fails
  <2>7. LastEvents(Len(Events(s)))' = LastEvents(Len(Events(s)))
    BY <2>4 DEF LastEvents
  <2> QED  BY <1>0, <1>3, <2>1, <2>4, <2>6, <2>7 DEF InOrder
<1> QED  BY <1>1, <1>2, <1>3

\* An event is put behind what there is to take.
LEMMA PublishInOrder ==
    ASSUME BusTypes, ReaderTypes, BusInv, Publish
    PROVE  BusInv'
<1>. SUFFICES ASSUME NEW s \in Subscribers PROVE InOrder(s)'
  BY DEF BusInv
<1>0. InOrder(s)
  BY DEF BusInv
<1>1. CASE sub[s] # "on"
  <2>1. queue'[s] = queue[s] /\ seen'[s] = seen[s] /\ sub'[s] = sub[s]
    BY <1>1 DEF Publish
  <2> QED  BY <1>0, <1>1, <2>1, UntouchedInOrder
<1>2. CASE sub[s] = "on"
  <2>1. /\ queue'[s] = Append(queue[s], published + 1)
        /\ published' = published + 1 /\ ~fatal /\ fatal' = fatal
        /\ seen'[s] = seen[s] /\ sub'[s] = "on"
    BY <1>2 DEF Publish, ReaderTypes
  <2>2. /\ queue[s] \in Seq(Nat) /\ seen[s] \in Seq(Nat) /\ published \in Nat
        /\ Events(s) \in Seq(Nat) /\ Len(Events(s)) \in Nat
    BY BusSeqs
  <2>3. ~Fails(queue[s])
    BY <1>0, <1>2, <2>1 DEF InOrder
  <2>4. ~Fails(queue'[s]) /\ queue'[s] \in Seq(Nat)
    <3>1. /\ DOMAIN queue'[s] = DOMAIN queue[s] \cup {Len(queue[s]) + 1}
          /\ \A i \in DOMAIN queue[s] : queue'[s][i] = queue[s][i]
          /\ queue'[s][Len(queue[s]) + 1] = published + 1
          /\ queue'[s] \in Seq(Nat)
      BY <2>1, <2>2
    <3> QED  BY <2>2, <2>3, <3>1 DEF Fails, Failure
  <2>5. Events(s)' = Append(Events(s), published + 1)
    <3>1. Events(s) = seen[s] \o queue[s]
      BY <2>2, <2>3, EventsOfNoFailure DEF Events
    <3>2. Events(s)' = seen[s] \o Append(queue[s], published + 1)
      BY <2>1, <2>4, EventsOfNoFailure DEF Events
    <3>3. published + 1 \in Nat
      BY <2>2
    <3>4. seen[s] \o Append(queue[s], published + 1)
              = Append(seen[s] \o queue[s], published + 1)
      BY <2>2, <3>3, ConcatAppended
    <3> QED  BY <3>1, <3>2, <3>4
  <2>. DEFINE n == Len(Events(s))
  <2>6. /\ Events(s) = [i \in 1 .. n |-> published - n + i]
        /\ n >= Lesser(published, EventReplayLimit)
    BY <1>0, <1>2, <2>1 DEF InOrder, LastEvents
  <2>7. Events(s)' = [i \in 1 .. n + 1 |-> (published + 1) - (n + 1) + i]
    <3>. DEFINE e == Events(s)
                f == Append(e, published + 1)
    <3>1. /\ f \in Seq(Nat) /\ Len(f) = n + 1
          /\ \A i \in 1 .. n : f[i] = e[i]
          /\ f[n + 1] = published + 1
      BY <2>2, AppendProperties
    <3>2. \A i \in 1 .. n : e[i] = published - n + i
      BY <2>6
    <3>. HIDE DEF e, f
    <3>3. f = [i \in 1 .. n + 1 |-> f[i]]
      BY <3>1
    <3>4. \A i \in 1 .. n + 1 : f[i] = (published + 1) - (n + 1) + i
      <4>. DEFINE m == n
      <4>1. m \in Nat /\ published \in Nat
        BY <2>2
      <4>. HIDE DEF m
      <4>2. \A i \in 1 .. m + 1 : i \in 1 .. m \/ i = m + 1
        BY <4>1
      <4>3. \A i \in 1 .. m : published - m + i = (published + 1) - (m + 1) + i
        BY <4>1
      <4>4. (published + 1) - (m + 1) + (m + 1) = published + 1
        BY <4>1
      <4> QED  BY <3>1, <3>2, <4>2, <4>3, <4>4 DEF m
    <3>5. f = [i \in 1 .. n + 1 |-> (published + 1) - (n + 1) + i]
      BY <3>3, <3>4
    <3> QED  BY <2>5, <3>5 DEF f, e
  <2>8. Len(Events(s)') = n + 1
    BY <2>2, <2>5
  <2>9. Events(s)' = LastEvents(Len(Events(s)))'
    BY <2>1, <2>7, <2>8 DEF LastEvents
  <2>10. \A i \in DOMAIN Events(s)' : Events(s)'[i] = Events(s)'[1] + i - 1
    <3>1. (published + 1) \in Nat /\ n + 1 \in Nat
      BY <2>2
    <3> QED  BY <2>7, <3>1
  <2>11. Len(Events(s))' >= Lesser(published', EventReplayLimit)
    BY <2>1, <2>2, <2>6, <2>8, LimitAssumption DEF Lesser
  <2>12. FailsLast(queue'[s]) /\ fatal' = Fails(queue'[s])
    <3>1. fatal' = FALSE
      BY <2>1 DEF ReaderTypes
    <3> QED  BY <2>4, <3>1 DEF FailsLast, Fails
  <2> QED  BY <2>1, <2>9, <2>10, <2>11, <2>12 DEF InOrder
<1> QED  BY <1>1, <1>2

\* A subscriber takes what is first in its queue.
LEMMA TakeInOrder ==
    ASSUME BusTypes, BusInv, NEW t \in Subscribers, TakeItem(t)
    PROVE  BusInv'
<1>. SUFFICES ASSUME NEW s \in Subscribers PROVE InOrder(s)'
  BY DEF BusInv
<1>0. InOrder(s)
  BY DEF BusInv
<1>1. CASE s # t
  <2>1. /\ queue'[s] = queue[s] /\ seen'[s] = seen[s] /\ sub'[s] = sub[s]
        /\ fatal' = fatal /\ published' = published
    BY <1>1 DEF TakeItem, BusTypes
  <2> QED  BY <1>0, <2>1, UntouchedInOrder
<1>2. CASE s = t
  <2>1. /\ queue[s] # <<>> /\ queue'[s] = Tail(queue[s]) /\ sub[s] = "on"
        /\ fatal' = fatal /\ published' = published
    BY <1>2 DEF TakeItem, BusTypes
  <2>2. queue[s] \in Seq(Nat) /\ seen[s] \in Seq(Nat)
    BY BusSeqs
  <2>3. /\ Tail(queue[s]) \in Seq(Nat) /\ Len(Tail(queue[s])) = Len(queue[s]) - 1
        /\ DOMAIN Tail(queue[s]) = 1 .. Len(queue[s]) - 1
        /\ \A i \in 1 .. Len(queue[s]) - 1 : Tail(queue[s])[i] = queue[s][i + 1]
        /\ Head(queue[s]) = queue[s][1] /\ Len(queue[s]) \in Nat \ {0}
        /\ DOMAIN queue[s] = 1 .. Len(queue[s])
    BY <2>1, <2>2
  <2>4. FailsLast(queue[s])
    BY <1>0 DEF InOrder
  <2>5. CASE Head(queue[s]) = Failure
    <3>1. sub'[s] = "ended" /\ seen'[s] = seen[s]
      BY <1>2, <2>5 DEF TakeItem, BusTypes
    <3>2. Len(queue[s]) = 1
      <4>1. 1 \in DOMAIN queue[s] /\ queue[s][1] = Failure
        BY <2>3, <2>5
      <4> QED  BY <2>4, <4>1 DEF FailsLast
    <3>3. queue[s] = <<Failure>> /\ queue'[s] = <<>>
      BY <2>1, <2>2, <2>3, <2>5, <3>2
    <3>4. Events(s)' = Events(s)
      BY <3>1, <3>3, EventsOfEmpty DEF Events
    <3>5. FailsLast(queue'[s])
      BY <3>3 DEF FailsLast
    <3> QED  BY <1>0, <3>1, <3>4, <3>5 DEF InOrder
  <2>6. CASE Head(queue[s]) # Failure
    <3>1. sub'[s] = "on" /\ seen'[s] = Append(seen[s], Head(queue[s]))
      BY <1>2, <2>1, <2>6 DEF TakeItem, BusTypes
    <3>2. Events(s)' = Events(s)
      BY <2>1, <2>2, <2>6, <3>1, EventTaken DEF Events
    <3>3. FailsLast(queue'[s])
      <4>. SUFFICES ASSUME NEW i \in 1 .. Len(queue[s]) - 1,
                           Tail(queue[s])[i] = Failure
                    PROVE  i = Len(queue[s]) - 1
        BY <2>1, <2>3 DEF FailsLast
      <4>1. i + 1 \in DOMAIN queue[s] /\ queue[s][i + 1] = Failure
        BY <2>3
      <4>2. i + 1 = Len(queue[s])
        BY <2>4, <4>1 DEF FailsLast
      <4> QED  BY <2>3, <4>2
    <3>4. Fails(queue'[s]) <=> Fails(queue[s])
      <4>1. ASSUME NEW i \in DOMAIN queue[s], queue[s][i] = Failure
            PROVE  i - 1 \in 1 .. Len(queue[s]) - 1 /\ Tail(queue[s])[i - 1] = Failure
        <5>1. i # 1
          BY <2>3, <2>6, <4>1
        <5>2. i - 1 \in 1 .. Len(queue[s]) - 1 /\ (i - 1) + 1 = i
          BY <2>3, <5>1
        <5> QED  BY <2>3, <4>1, <5>2
      <4>2. ASSUME NEW i \in 1 .. Len(queue[s]) - 1, Tail(queue[s])[i] = Failure
            PROVE  i + 1 \in DOMAIN queue[s] /\ queue[s][i + 1] = Failure
        BY <2>3, <4>2
      <4> QED  BY <2>1, <2>3, <4>1, <4>2 DEF Fails
    <3>5. LastEvents(Len(Events(s)))' = LastEvents(Len(Events(s)))
      BY <2>1, <3>2 DEF LastEvents
    <3> QED  BY <1>0, <2>1, <3>1, <3>2, <3>3, <3>4, <3>5 DEF InOrder, Fails
  <2> QED  BY <2>5, <2>6
<1> QED  BY <1>1, <1>2

\* A subscriber starts with the replay, or with the failure.
LEMMA SubscribeInOrder ==
    ASSUME BusTypes, fatal \in BOOLEAN, BusInv, NEW t \in Subscribers, Subscribe(t)
    PROVE  BusInv'
<1>. SUFFICES ASSUME NEW s \in Subscribers PROVE InOrder(s)'
  BY DEF BusInv
<1>0. InOrder(s)
  BY DEF BusInv
<1>1. CASE s # t
  <2>1. /\ queue'[s] = queue[s] /\ seen'[s] = seen[s] /\ sub'[s] = sub[s]
        /\ fatal' = fatal /\ published' = published
    BY <1>1 DEF Subscribe, BusTypes
  <2> QED  BY <1>0, <2>1, UntouchedInOrder
<1>2. CASE s = t
  <2>1. /\ queue'[s] = FirstItems /\ seen'[s] = seen[s] /\ sub'[s] = "on"
        /\ fatal' = fatal /\ published' = published /\ seen[s] = <<>>
    BY <1>0, <1>2 DEF Subscribe, BusTypes, InOrder
  <2>2. CASE fatal
    <3>1. queue'[s] = <<Failure>>
      BY <2>1, <2>2 DEF FirstItems
    <3>2. Events(s)' = <<>>
      <4>1. Events(s)' = <<>> \o <<>>
        BY <2>1, <3>1, EventsOfEmpty DEF Events
      <4> QED  BY <4>1
    <3>3. FailsLast(queue'[s]) /\ Fails(queue'[s])
      BY <3>1 DEF FailsLast, Fails
    <3> QED  BY <2>1, <2>2, <3>2, <3>3 DEF InOrder, Fails
  <2>3. CASE ~fatal
    <3>. DEFINE n == Lesser(published, EventReplayLimit)
                q == LastEvents(n)
    <3>1. n \in 0 .. published /\ n \in Nat /\ published \in Nat
      BY LimitAssumption, BusSeqs DEF Lesser
    <3>2. \A i \in 1 .. n : published - n + i \in Nat \ {Failure}
      BY <3>1 DEF Failure
    <3>3. q = [i \in 1 .. n |-> published - n + i] /\ queue'[s] = q
      BY <2>1, <2>3 DEF FirstItems, Replay, LastEvents
    <3>. HIDE DEF n, q
    <3>4. q = [i \in 1 .. n |-> q[i]] /\ \A i \in 1 .. n : q[i] \in Nat
      BY <3>2, <3>3
    <3>5. q \in Seq(Nat) /\ Len(q) = n /\ DOMAIN q = 1 .. n
      <4>1. q \in Seq(Nat)
        BY <3>1, <3>4, ISeq
      <4>2. DOMAIN q = 1 .. n
        BY <3>4
      <4> QED  BY <3>1, <4>1, <4>2, LenProperties
    <3>6. ~Fails(q)
      BY <3>2, <3>3, <3>5 DEF Fails
    <3>7. Events(s)' = q
      <4>1. Events(s)' = <<>> \o q
        BY <2>1, <3>3, <3>5, <3>6, EventsOfNoFailure DEF Events
      <4> QED  BY <3>5, <4>1, ConcatEmptySeq
    <3>8. Events(s)' = LastEvents(Len(Events(s)))'
      BY <2>1, <3>3, <3>5, <3>7 DEF LastEvents
    <3>9. \A i \in DOMAIN Events(s)' : Events(s)'[i] = Events(s)'[1] + i - 1
      BY <3>1, <3>3, <3>5, <3>7
    <3>10. Len(Events(s))' >= Lesser(published', EventReplayLimit)
      BY <2>1, <3>1, <3>5, <3>7 DEF n
    <3>11. FailsLast(queue'[s]) /\ ~Fails(queue'[s])
      BY <3>3, <3>6 DEF Fails, FailsLast
    <3>12. fatal' = Fails(queue'[s])
      BY <2>1, <2>3, <3>11 DEF Fails
    <3> QED  BY <2>1, <3>8, <3>9, <3>10, <3>11, <3>12 DEF InOrder, Fails
  <2> QED  BY <2>2, <2>3
<1> QED  BY <1>1, <1>2

\* A subscriber that leaves keeps the events it has got.
LEMMA UnsubscribeInOrder ==
    ASSUME BusTypes, BusInv, NEW t \in Subscribers, Unsubscribe(t)
    PROVE  BusInv'
<1>. SUFFICES ASSUME NEW s \in Subscribers PROVE InOrder(s)'
  BY DEF BusInv
<1>0. InOrder(s)
  BY DEF BusInv
<1>1. CASE s # t
  <2>1. /\ queue'[s] = queue[s] /\ seen'[s] = seen[s] /\ sub'[s] = sub[s]
        /\ fatal' = fatal /\ published' = published
    BY <1>1 DEF Unsubscribe, BusTypes
  <2> QED  BY <1>0, <2>1, UntouchedInOrder
<1>2. CASE s = t
  <2>1. queue'[s] = <<>> /\ seen'[s] = seen[s] /\ sub'[s] = "ended"
    BY <1>2 DEF Unsubscribe, BusTypes
  <2>2. /\ seen[s] \in Seq(Nat) /\ EventsIn(queue[s]) \in Seq(Nat)
    BY BusSeqs
  <2>3. Events(s)' = seen[s]
    <3>1. Events(s)' = seen[s] \o <<>>
      BY <2>1, EventsOfEmpty DEF Events
    <3> QED  BY <2>2, <3>1
  <2>4. /\ DOMAIN Events(s) = 1 .. Len(seen[s]) + Len(EventsIn(queue[s]))
        /\ \A i \in 1 .. Len(seen[s]) :
               /\ i \in 1 .. Len(seen[s]) + Len(EventsIn(queue[s]))
               /\ 1 \in 1 .. Len(seen[s])
               /\ Events(s)[i] = seen[s][i]
        /\ DOMAIN seen[s] = 1 .. Len(seen[s]) /\ Len(seen[s]) \in Nat
        /\ Len(EventsIn(queue[s])) \in Nat
    <3>. DEFINE e == seen[s]
                q == EventsIn(queue[s])
    <3>1. e \in Seq(Nat) /\ q \in Seq(Nat) /\ Events(s) = e \o q
      BY <2>2 DEF Events
    <3>. HIDE DEF e, q
    <3>2. /\ Len(e) \in Nat /\ DOMAIN e = 1 .. Len(e) /\ Len(q) \in Nat
          /\ e \o q \in Seq(Nat) /\ Len(e \o q) = Len(e) + Len(q)
          /\ \A i \in 1 .. Len(e) + Len(q) :
                 (e \o q)[i] = IF i <= Len(e) THEN e[i] ELSE q[i - Len(e)]
      BY <3>1, ConcatProperties, LenProperties
    <3>3. DOMAIN (e \o q) = 1 .. Len(e) + Len(q)
      BY <3>2, LenProperties
    <3>4. \A i \in 1 .. Len(e) :
              /\ i \in 1 .. Len(e) + Len(q) /\ i <= Len(e)
              /\ 1 \in 1 .. Len(e)
      BY <3>2
    <3>5. \A i \in 1 .. Len(e) : (e \o q)[i] = e[i]
      BY <3>2, <3>4
    <3> QED  BY <3>1, <3>2, <3>3, <3>4, <3>5 DEF e, q
  <2>5. \A i \in DOMAIN seen[s] : seen[s][i] = seen[s][1] + i - 1
    <3>. TAKE i \in DOMAIN seen[s]
    <3>1. /\ i \in 1 .. Len(seen[s]) + Len(EventsIn(queue[s]))
          /\ 1 \in 1 .. Len(seen[s])
      BY <2>4
    <3>2. Events(s)[i] = Events(s)[1] + i - 1
      BY <1>0, <2>4, <3>1 DEF InOrder
    <3> QED  BY <2>4, <3>1, <3>2
  <2>6. FailsLast(queue'[s])
    BY <2>1 DEF FailsLast
  <2> QED  BY <2>1, <2>3, <2>5, <2>6 DEF InOrder
<1> QED  BY <1>1, <1>2

\* A step keeps every subscriber in order.
LEMMA BusStep ==
    ASSUME TypeOK, BusInv, [Next]_vars
    PROVE  BusInv'
<1>0. BusTypes /\ ReaderTypes /\ fatal \in BOOLEAN
  BY TypeParts DEF ReaderTypes
<1>1. ASSUME UNCHANGED <<queue, seen, sub, fatal, published>>
      PROVE  BusInv'
  BY <1>1, UntouchedInOrder DEF BusInv
<1>2. ASSUME NEW c \in Calls,
             \/ Issue(c) \/ Reach(c) \/ Sent(c) \/ SendFails(c)
             \/ Resume(c) \/ Interrupt(c)
      PROVE  BusInv'
  BY <1>1, <1>2 DEF Issue, Reach, Sent, SendFails, Resume, Interrupt, busVars
<1>3. ASSUME NEW c \in Calls, Receive(c) \/ ReceiveUntraced(c)
      PROVE  BusInv'
  <2>1. UNCHANGED <<published, sub, seen>>
    BY <1>3 DEF Receive, ReceiveUntraced
  <2>2. Fail \/ UNCHANGED <<fatal, queue>>
    BY <1>3 DEF Receive, ReceiveUntraced
  <2> QED  BY <1>0, <1>1, <2>1, <2>2, FailInOrder
<1>4. CASE Audited \/ Closed
  BY <1>1, <1>4 DEF Audited, Closed, busVars
<1>5. CASE ReaderFails \/ Close
  BY <1>0, <1>5, FailInOrder DEF ReaderFails, Close
<1>6. CASE Publish
  BY <1>0, <1>6, PublishInOrder
<1>7. ASSUME NEW s \in Subscribers, Subscribe(s) \/ TakeItem(s) \/ Unsubscribe(s)
      PROVE  BusInv'
  BY <1>0, <1>7, SubscribeInOrder, TakeInOrder, UnsubscribeInOrder
<1>8. CASE UNCHANGED vars
  BY <1>1, <1>8 DEF vars, busVars
<1> QED  BY <1>2, <1>3, <1>4, <1>5, <1>6, <1>7, <1>8 DEF Next

\* What the induction of the theorems carries from step to step.
ExchangeInv == TypeOK /\ IdsInv /\ BookedInv /\ NobodyForgotten /\ BusInv

\* The invariant holds before anything is asked.
LEMMA InvInit == Init => ExchangeInv
<1> SUFFICES ASSUME Init PROVE ExchangeInv
  OBVIOUS
<1> USE IdAssumption, BoundAssumption, NoneAssumption
<1>1. TypeOK
  <2>1. RequestTypes
    BY DEF Init, RequestTypes
  <2>2. ReaderTypes
    <3>1. reader = "off" /\ fatal = FALSE /\ held = None /\ heldFrom = None
      BY DEF Init
    <3>2. (reader \in {"closing", "stopped"}) = FALSE
      BY <3>1
    <3>3. fatal \in BOOLEAN /\ fatal = (reader \in {"closing", "stopped"})
      BY <3>1, <3>2
    <3> QED  BY <3>1, <3>3 DEF ReaderTypes
  <2>3. BusTypes
    BY DEF Init, BusTypes
  <2> QED  BY <2>1, <2>2, <2>3, TypeParts
<1>2. IdsInv
  BY DEF Init, IdsInv
<1>3. BookedInv
  BY Outcomes DEF Init, BookedInv, Booked
<1>4. NobodyForgotten
  BY DEF Init, NobodyForgotten
<1>5. BusInv
  <2>. SUFFICES ASSUME NEW s \in Subscribers PROVE InOrder(s)
    BY DEF BusInv
  <2>1. sub[s] = "idle" /\ seen[s] = <<>> /\ queue[s] = <<>>
    BY DEF Init
  <2>2. Events(s) = <<>>
    <3>1. Events(s) = <<>> \o <<>>
      BY <2>1, EventsOfEmpty DEF Events
    <3> QED  BY <3>1
  <2> QED  BY <2>1, <2>2 DEF InOrder, FailsLast
<1> QED  BY <1>1, <1>2, <1>3, <1>4, <1>5 DEF ExchangeInv

\* Every step keeps it.
LEMMA InvStep == ExchangeInv /\ [Next]_vars => ExchangeInv'
  BY TypeStep, IdsStep, BookedStep, RememberedStep, BusStep DEF ExchangeInv

\* The books of the exchange are in order in every reachable state: entries and
\* held responses carry the ids they are under, an entry stands for a Deferred
\* that nobody completed, and an exchange that failed has no entries (request,
\* receive and failHostProtocolReader of host-client.ts).
THEOREM InvariantHolds == Spec => []ExchangeInv
  BY InvInit, InvStep, PTL DEF Spec

\* The variables keep their types, for any number of requests and frames.
THEOREM TypeCorrect == Spec => []TypeOK
<1>1. ExchangeInv => TypeOK
  BY DEF ExchangeInv
<1> QED  BY <1>1, InvariantHolds, PTL

\* No request that is being sent or waits is forgotten, whatever the order of
\* responses, failures, interruptions and other requests, and none is answered
\* with the traced response to another (request, receive, pending.delete).
THEOREM RequestsRemembered == Spec => []NobodyForgotten
<1>1. ExchangeInv => NobodyForgotten
  BY DEF ExchangeInv
<1> QED  BY <1>1, InvariantHolds, PTL

\* However subscribing, publishing and failing interleave, each subscriber gets
\* the replay, every later event and then the failure, once and in order
\* (subscribeHostEvent, publishHostEvent, failHostEventBus).
THEOREM SubscribersInOrder == Spec => []EventsInOrder
<1>1. ExchangeInv => EventsInOrder
  BY DEF ExchangeInv, BusInv, InOrder, EventsInOrder, Fails, FailsLast
<1> QED  BY <1>1, InvariantHolds, PTL
=============================================================================
