-------------------------- MODULE BridgeCallsProofs --------------------------
(* Safety of BridgeCalls, for any dispatches, ids and bound.                 *)
EXTENDS BridgeCalls, TLAPS

Early == {"none", "forked", "building", "announcing"}

\* The id of d is taken by it.
Live(d) == stage[d] \in {"noting", "verifying", "refusing", "joining",
                         "canceling", "closing"}

OnlyCancels(d) == \A k \in DOMAIN inbox[d] : inbox[d][k] = "cancel"

OneRequest(d) ==
    \A j, k \in DOMAIN inbox[d] :
        inbox[d][j] = "request" /\ inbox[d][k] = "request" => j = k

\* Where a dispatch, its child, its server and its handler can be together.
Places(d) ==
    /\ Live(d) => pendingCalls[IdOf[d]] = d
    /\ stage[d] \in {"idle", "noting", "verifying", "refusing"} =>
           child[d] = "none"
    /\ stage[d] = "joining" =>
           child[d] \in {"forked", "building", "announcing", "awaiting",
                         "reporting"}
    /\ stage[d] = "canceling" =>
           child[d] = "exited" /\ handler[d] = "none" /\ OnlyCancels(d)
    /\ stage[d] = "closing" => server[d] = "closed"
    /\ stage[d] = "done" /\ child[d] # "none" =>
           child[d] = "exited" /\ server[d] = "closed"
    /\ child[d] \in Early => handler[d] = "none" /\ OnlyCancels(d)
    /\ Active(d) => child[d] = "awaiting"
    /\ child[d] = "awaiting" /\ handler[d] # "none" => OnlyCancels(d)
    /\ child[d] = "reporting" => handler[d] # "none" /\ OnlyCancels(d)
    /\ OneRequest(d)

PlacesInv == \A d \in Dispatches : Places(d)

\* What has been reported, and what is going to be answered.
Reports(d) ==
    /\ (answer[d] = None) <=> stage[d] \notin {"closing", "done"}
    /\ stage[d] \in {"idle", "noting", "verifying"} => reported[d] = <<>>
    /\ stage[d] = "refusing" => reported[d] = <<"Failed">>
    /\ stage[d] = "canceling" => reported[d] = <<"Canceled">>
    /\ child[d] \in {"forked", "building", "announcing", "awaiting"} =>
           reported[d] = <<>>
    /\ child[d] = "reporting" =>
           /\ handler[d] \in {"succeeded", "failed", "interrupted"}
           /\ reported[d] = <<StateFor(handler[d])>>
    /\ stage[d] = "closing" /\ child[d] \notin {"none", "exited"} =>
           answer[d] = "interrupted"

ReportsInv == \A d \in Dispatches : Reports(d)

\* An id in use has no terminal state until its call has reported one.
TerminalInv ==
    \A d \in Dispatches :
        Live(d) /\ reported[d] = <<>> => terminal[IdOf[d]] = None

\* A cancel that came before the request is the first envelope in the inbox.
CancelInv ==
    \A d \in Dispatches : CancelRequested(d) /\ server[d] = "up" =>
        /\ child[d] # "forked"
        /\ child[d] \in {"building", "announcing"} =>
               inbox[d] # <<>> /\ Head(inbox[d]) = "cancel"

\* AnswersMatch, for one dispatch.
Answered(d) ==
    /\ answer[d] = "success" => reported[d] = <<"Completed">>
    /\ answer[d] \in {"failure", "refused"} => reported[d] = <<"Failed">>
    /\ answer[d] = "Cancelled" => reported[d] = <<"Canceled">>
    /\ answer[d] \in {"InvalidState", "defect"} => reported[d] = <<>>
    /\ answer[d] = "interrupted" => Len(reported[d]) <= 1

\* d was cancelled before its request reached the server.
CancelledInTime(d) ==
    /\ CancelRequested(d) /\ handler[d] = "none"
    /\ child[d] = "awaiting" /\ server[d] = "up" =>
           inbox[d] # <<>> /\ Head(inbox[d]) = "cancel"


\* A cancel at the end of an inbox adds no request.
LEMMA AppendCancel ==
    ASSUME NEW q \in Seq({"request", "cancel"})
    PROVE  /\ \A k \in DOMAIN Append(q, "cancel") :
                  Append(q, "cancel")[k] = "cancel" \/
                  (k \in DOMAIN q /\ Append(q, "cancel")[k] = q[k])
           /\ q # <<>> => Append(q, "cancel") # <<>>
                            /\ Head(Append(q, "cancel")) = Head(q)
           /\ Append(q, "cancel") # <<>>
           /\ q = <<>> => Head(Append(q, "cancel")) = "cancel"
  OBVIOUS
\* What Record and Interrupted store is of the right type.
LEMMA RecordTypes ==
    ASSUME TypeOK, NEW d \in Dispatches, NEW s \in TerminalStates, Record(d, s)
    PROVE  /\ terminal' \in [Ids -> TerminalStates \cup {None}]
           /\ old' \in SUBSET {i \in Ids : terminal'[i] # None}
           /\ reported' \in [Dispatches -> Seq(TerminalStates)]
<1>1. s # None
  BY NoneAssumption DEF TerminalStates
<1>2. IdOf[d] \in Ids
  BY IdAssumption
<1>3. terminal' \in [Ids -> TerminalStates \cup {None}]
  BY <1>2 DEF Record, TypeOK
<1>4. old' \in SUBSET {i \in Ids : terminal'[i] # None}
  BY <1>1, <1>2 DEF Record, TypeOK
<1>5. reported' \in [Dispatches -> Seq(TerminalStates)]
  BY DEF Record, TypeOK
<1> QED  BY <1>3, <1>4, <1>5

LEMMA InterruptedTypes ==
    ASSUME TypeOK, NEW d \in Dispatches, Interrupted(d)
    PROVE  /\ child' = [child EXCEPT ![d] = "exited"]
           /\ stage' = [stage EXCEPT ![d] = "canceling"]
           /\ terminal' \in [Ids -> TerminalStates \cup {None}]
           /\ old' \in SUBSET {i \in Ids : terminal'[i] # None}
           /\ reported' \in [Dispatches -> Seq(TerminalStates)]
<1>1. Record(d, "Canceled") /\ "Canceled" \in TerminalStates
  BY DEF Interrupted, TerminalStates
<1>2. /\ child' = [child EXCEPT ![d] = "exited"]
      /\ stage' = [stage EXCEPT ![d] = "canceling"]
  BY DEF Interrupted, Child, Stage
<1> QED  BY <1>1, <1>2, RecordTypes

\* A step keeps the types.
LEMMA TypeStep ==
    ASSUME TypeOK, ReportsInv, [Next]_vars
    PROVE  TypeOK'
<1> USE IdAssumption, NoneAssumption, BoundAssumption
<1>1. ASSUME NEW d \in Dispatches, Begin(d)
      PROVE  TypeOK'
  <2>1. /\ terminal' = Kept /\ old' = {}
        /\ UNCHANGED <<child, inbox, server, handler, cancels, reported>>
    BY <1>1 DEF Begin, serverVars
  <2>2. Kept \in [Ids -> TerminalStates \cup {None}]
    BY DEF TypeOK, Kept
  <2>3. CASE MayRun(d)
    <3>1. /\ pendingCalls' = [pendingCalls EXCEPT ![IdOf[d]] = d]
          /\ stage' = [stage EXCEPT ![d] = "noting"]
          /\ UNCHANGED answer
      BY <1>1, <2>3 DEF Begin, Stage
    <3> QED  BY <2>1, <2>2, <3>1 DEF TypeOK
  <2>4. CASE ~MayRun(d)
    <3>1. /\ answer' = [answer EXCEPT ![d] = "InvalidState"]
          /\ stage' = [stage EXCEPT ![d] = "done"]
          /\ UNCHANGED pendingCalls
      BY <1>1, <2>4 DEF Begin, Stage
    <3> QED  BY <2>1, <2>2, <3>1 DEF TypeOK, Answers
  <2> QED  BY <2>3, <2>4
<1>2. ASSUME NEW d \in Dispatches, Noted(d)
      PROVE  TypeOK'
  BY <1>2
     DEF Noted, Stage, TypeOK, TerminalStates, Answers, StateFor, AnswerFor,
         serverVars, terminalVars
<1>3. ASSUME NEW d \in Dispatches, Refuse(d)
      PROVE  TypeOK'
  BY <1>3
     DEF Refuse, Record, Stage, TypeOK, TerminalStates, Answers, StateFor,
         AnswerFor, serverVars, terminalVars
<1>4. ASSUME NEW d \in Dispatches, Refused(d)
      PROVE  TypeOK'
  BY <1>4
     DEF Refused, Return, Stage, TypeOK, TerminalStates, Answers, StateFor,
         AnswerFor, serverVars, terminalVars
<1>5. ASSUME NEW d \in Dispatches, Fork(d)
      PROVE  TypeOK'
  <2>1. UNCHANGED <<inbox, server, handler, pendingCalls, cancels, answer>>
    BY <1>5 DEF Fork, serverVars
  <2>2. CASE MustInterrupt(d)
    <3>1. Interrupted(d)
      BY <1>5, <2>2 DEF Fork
    <3> QED  BY <2>1, <3>1, InterruptedTypes DEF TypeOK
  <2>3. CASE ~MustInterrupt(d)
    BY <1>5, <2>1, <2>3 DEF Fork, Child, Stage, TypeOK, terminalVars
  <2> QED  BY <2>2, <2>3
<1>6. ASSUME NEW d \in Dispatches, Canceled(d)
      PROVE  TypeOK'
  BY <1>6
     DEF Canceled, Return, Stage, TypeOK, TerminalStates, Answers, StateFor,
         AnswerFor, serverVars, terminalVars
<1>7. ASSUME NEW d \in Dispatches, Start(d)
      PROVE  TypeOK'
  BY <1>7
     DEF Start, Child, TypeOK, TerminalStates, Answers, StateFor, AnswerFor,
         serverVars, terminalVars
<1>8. ASSUME NEW d \in Dispatches, BuildFails(d)
      PROVE  TypeOK'
  BY <1>8
     DEF BuildFails, Return, Child, Stage, TypeOK, TerminalStates, Answers,
         StateFor, AnswerFor, serverVars, terminalVars
<1>9. ASSUME NEW d \in Dispatches, Built(d)
      PROVE  TypeOK'
  BY <1>9
     DEF Built, Child, TypeOK, TerminalStates, Answers, StateFor, AnswerFor,
         serverVars, terminalVars
<1>10. ASSUME NEW d \in Dispatches, Announced(d)
      PROVE  TypeOK'
  BY <1>10
     DEF Announced, Child, TypeOK, TerminalStates, Answers, StateFor, AnswerFor,
         serverVars, terminalVars
<1>11. ASSUME NEW d \in Dispatches, ServeRequest(d)
      PROVE  TypeOK'
  BY <1>11
     DEF ServeRequest, Received, TypeOK, TerminalStates, Answers, StateFor,
         AnswerFor, serverVars, terminalVars
<1>12. ASSUME NEW d \in Dispatches, ServeCancel(d)
      PROVE  TypeOK'
  BY <1>12
     DEF ServeCancel, Received, Active, TypeOK, TerminalStates, Answers, StateFor,
         AnswerFor, serverVars, terminalVars
<1>13. ASSUME NEW d \in Dispatches, ServeStrayCancel(d)
      PROVE  TypeOK'
  BY <1>13
     DEF ServeStrayCancel, Received, Active, TypeOK, TerminalStates, Answers,
         StateFor, AnswerFor, serverVars, terminalVars
<1>14. ASSUME NEW d \in Dispatches,
           NEW outcome \in {"succeeded", "failed", "interrupted"}, HandlerEnds(d, outcome)
      PROVE  TypeOK'
  BY <1>14
     DEF HandlerEnds, Active, Child, Record, TypeOK, TerminalStates, Answers,
         StateFor, AnswerFor, serverVars, terminalVars
<1>15. ASSUME NEW d \in Dispatches, Reported(d)
      PROVE  TypeOK'
  BY <1>15
     DEF Reported, ReportsInv, Reports, Return, Child, Stage, TypeOK,
         TerminalStates, Answers, StateFor, AnswerFor, serverVars, terminalVars
<1>16. ASSUME NEW d \in Dispatches, Cancel(d)
      PROVE  TypeOK'
  <2>1. /\ UNCHANGED <<server, handler, pendingCalls, answer>>
        /\ cancels' = [cancels EXCEPT ![d] = cancels[d] + 1]
        /\ cancels[d] < MaxCancels
    BY <1>16 DEF Cancel
  <2>2. cancels' \in [Dispatches -> 0 .. MaxCancels]
    BY <2>1 DEF TypeOK
  <2>3. CASE child[d] = "forked" /\ stage[d] = "joining"
    <3>1. Interrupted(d) /\ UNCHANGED inbox
      BY <1>16, <2>3 DEF Cancel
    <3> QED  BY <2>1, <2>2, <3>1, InterruptedTypes DEF TypeOK
  <2>4. CASE ~(child[d] = "forked" /\ stage[d] = "joining")
    <3>1. UNCHANGED <<stage, child, terminal, old, reported>>
      BY <1>16, <2>4 DEF Cancel, terminalVars
    <3>2. inbox' \in [Dispatches -> Seq({"request", "cancel"})]
      <4>1. Append(inbox[d], "cancel") \in Seq({"request", "cancel"})
        BY DEF TypeOK
      <4>2. inbox' = inbox \/ inbox' = [inbox EXCEPT ![d] = Append(inbox[d], "cancel")]
        BY <1>16, <2>4 DEF Cancel
      <4> QED  BY <4>1, <4>2 DEF TypeOK
    <3> QED  BY <2>1, <2>2, <3>1, <3>2 DEF TypeOK
  <2> QED  BY <2>3, <2>4
<1>17. ASSUME NEW d \in Dispatches, Interrupt(d)
      PROVE  TypeOK'
  BY <1>17
     DEF Interrupt, Return, Stage, Active, TypeOK, TerminalStates, Answers,
         StateFor, AnswerFor, serverVars, terminalVars
<1>18. ASSUME NEW d \in Dispatches, Close(d)
      PROVE  TypeOK'
  BY <1>18
     DEF Close, ScopeClosed, Active, Child, Stage, TypeOK, TerminalStates,
         Answers, StateFor, AnswerFor, serverVars, terminalVars
<1>19. ASSUME NEW i \in Ids, Age(i)
      PROVE  TypeOK'
  BY <1>19
     DEF Age, TypeOK, TerminalStates, Answers, StateFor, AnswerFor, serverVars,
         terminalVars
<1>20. CASE UNCHANGED vars
  BY <1>20 DEF vars, TypeOK, TerminalStates, Answers, StateFor, AnswerFor
<1> QED
  BY <1>1, <1>2, <1>3, <1>4, <1>5, <1>6, <1>7, <1>8, <1>9, <1>10, <1>11, <1>12,
     <1>13, <1>14, <1>15, <1>16, <1>17, <1>18, <1>19, <1>20
     DEF Next, Goes, Ends

\* A step keeps dispatch, child, server and handler together.
LEMMA PlacesStep ==
    ASSUME TypeOK, PlacesInv, [Next]_vars
    PROVE  PlacesInv'
<1> USE IdAssumption, NoneAssumption, BoundAssumption
<1>1. ASSUME NEW d \in Dispatches, Begin(d)
      PROVE  PlacesInv'
  <2>1. CASE MayRun(d)
    BY <1>1, <2>1
       DEF Begin, Kept, MayRun, Stage, PlacesInv, Places, Live, OnlyCancels,
           OneRequest, Early, Active, TypeOK, serverVars, terminalVars
  <2>2. CASE ~(MayRun(d))
    BY <1>1, <2>2
       DEF Begin, Kept, MayRun, Stage, PlacesInv, Places, Live, OnlyCancels,
           OneRequest, Early, Active, TypeOK, serverVars, terminalVars
  <2> QED  BY <2>1, <2>2
<1>2. ASSUME NEW d \in Dispatches, Noted(d)
      PROVE  PlacesInv'
  BY <1>2
     DEF Noted, Stage, PlacesInv, Places, Live, OnlyCancels, OneRequest, Early,
         Active, TypeOK, serverVars, terminalVars
<1>3. ASSUME NEW d \in Dispatches, Refuse(d)
      PROVE  PlacesInv'
  BY <1>3
     DEF Refuse, Record, Stage, PlacesInv, Places, Live, OnlyCancels, OneRequest,
         Early, Active, TypeOK, serverVars, terminalVars
<1>4. ASSUME NEW d \in Dispatches, Refused(d)
      PROVE  PlacesInv'
  BY <1>4
     DEF Refused, Return, Stage, PlacesInv, Places, Live, OnlyCancels, OneRequest,
         Early, Active, TypeOK, serverVars, terminalVars
<1>5. ASSUME NEW d \in Dispatches, Fork(d)
      PROVE  PlacesInv'
  <2>. SUFFICES ASSUME NEW e \in Dispatches PROVE Places(e)'
    BY DEF PlacesInv
  <2>1. CASE e # d
    BY <1>5, <2>1
       DEF Fork, Interrupted, MustInterrupt, Record, Child, Stage, PlacesInv,
           Places, Live, OnlyCancels, OneRequest, Early, Active, TypeOK,
           serverVars, terminalVars
  <2>2. CASE e = d /\ MustInterrupt(d)
    BY <1>5, <2>2
       DEF Fork, Interrupted, MustInterrupt, Record, Child, Stage, PlacesInv,
           Places, Live, OnlyCancels, OneRequest, Early, Active, TypeOK,
           serverVars, terminalVars
  <2>3. CASE e = d /\ ~(MustInterrupt(d))
    BY <1>5, <2>3
       DEF Fork, Interrupted, MustInterrupt, Record, Child, Stage, PlacesInv,
           Places, Live, OnlyCancels, OneRequest, Early, Active, TypeOK,
           serverVars, terminalVars
  <2> QED  BY <2>1, <2>2, <2>3
<1>6. ASSUME NEW d \in Dispatches, Canceled(d)
      PROVE  PlacesInv'
  BY <1>6
     DEF Canceled, Return, Stage, PlacesInv, Places, Live, OnlyCancels,
         OneRequest, Early, Active, TypeOK, serverVars, terminalVars
<1>7. ASSUME NEW d \in Dispatches, Start(d)
      PROVE  PlacesInv'
  BY <1>7
     DEF Start, Child, PlacesInv, Places, Live, OnlyCancels, OneRequest, Early,
         Active, TypeOK, serverVars, terminalVars
<1>8. ASSUME NEW d \in Dispatches, BuildFails(d)
      PROVE  PlacesInv'
  BY <1>8
     DEF BuildFails, Return, Child, Stage, PlacesInv, Places, Live, OnlyCancels,
         OneRequest, Early, Active, TypeOK, serverVars, terminalVars
<1>9. ASSUME NEW d \in Dispatches, Built(d)
      PROVE  PlacesInv'
  BY <1>9
     DEF Built, Child, PlacesInv, Places, Live, OnlyCancels, OneRequest, Early,
         Active, TypeOK, serverVars, terminalVars
<1>10. ASSUME NEW d \in Dispatches, Announced(d)
      PROVE  PlacesInv'
  BY <1>10
     DEF Announced, Child, PlacesInv, Places, Live, OnlyCancels, OneRequest,
         Early, Active, TypeOK, serverVars, terminalVars
<1>11. ASSUME NEW d \in Dispatches, ServeRequest(d)
      PROVE  PlacesInv'
  BY <1>11
     DEF ServeRequest, Received, PlacesInv, Places, Live, OnlyCancels, OneRequest,
         Early, Active, TypeOK, serverVars, terminalVars
<1>12. ASSUME NEW d \in Dispatches, ServeCancel(d)
      PROVE  PlacesInv'
  BY <1>12
     DEF ServeCancel, Received, Active, PlacesInv, Places, Live, OnlyCancels,
         OneRequest, Early, TypeOK, serverVars, terminalVars
<1>13. ASSUME NEW d \in Dispatches, ServeStrayCancel(d)
      PROVE  PlacesInv'
  <2>. SUFFICES ASSUME NEW e \in Dispatches PROVE Places(e)'
    BY DEF PlacesInv
  <2>1. CASE e # d
    BY <1>13, <2>1
       DEF ServeStrayCancel, Received, Active, PlacesInv, Places, Live,
           OnlyCancels, OneRequest, Early, TypeOK, serverVars, terminalVars
  <2>2. CASE e = d
    BY <1>13, <2>2
       DEF ServeStrayCancel, Received, Active, PlacesInv, Places, Live,
           OnlyCancels, OneRequest, Early, TypeOK, serverVars, terminalVars
  <2> QED  BY <2>1, <2>2
<1>14. ASSUME NEW d \in Dispatches,
           NEW outcome \in {"succeeded", "failed", "interrupted"}, HandlerEnds(d, outcome)
      PROVE  PlacesInv'
  BY <1>14
     DEF HandlerEnds, Active, Child, Record, PlacesInv, Places, Live, OnlyCancels,
         OneRequest, Early, TypeOK, serverVars, terminalVars
<1>15. ASSUME NEW d \in Dispatches, Reported(d)
      PROVE  PlacesInv'
  BY <1>15
     DEF Reported, Return, Child, Stage, PlacesInv, Places, Live, OnlyCancels,
         OneRequest, Early, Active, TypeOK, serverVars, terminalVars
<1>16. ASSUME NEW d \in Dispatches, Cancel(d)
      PROVE  PlacesInv'
  <2>. SUFFICES ASSUME NEW e \in Dispatches PROVE Places(e)'
    BY DEF PlacesInv
  <2>1. UNCHANGED <<server, handler, pendingCalls>> /\ pendingCalls[IdOf[d]] = d
    BY <1>16 DEF Cancel
  <2>2. Places(e) /\ Places(d)
    BY DEF PlacesInv
  <2>3. CASE child[d] = "forked" /\ stage[d] = "joining"
    <3>1. /\ stage' = [stage EXCEPT ![d] = "canceling"]
          /\ child' = [child EXCEPT ![d] = "exited"]
          /\ UNCHANGED inbox
      BY <1>16, <2>3 DEF Cancel, Interrupted, Child, Stage
    <3>2. handler[d] = "none" /\ OnlyCancels(d)
      BY <2>2, <2>3 DEF Places, Early
    <3> QED  BY <2>1, <2>2, <3>1, <3>2
             DEF Places, Early, Active, Live, OnlyCancels, OneRequest, TypeOK
  <2>4. CASE ~(child[d] = "forked" /\ stage[d] = "joining")
    <3>1. UNCHANGED <<stage, child>>
      BY <1>16, <2>4 DEF Cancel, terminalVars
    <3>2. inbox' = inbox \/ inbox' = [inbox EXCEPT ![d] = Append(inbox[d], "cancel")]
      BY <1>16, <2>4 DEF Cancel
    <3>3. CASE inbox' = inbox \/ e # d
      <4>1. inbox'[e] = inbox[e]
        BY <3>2, <3>3 DEF TypeOK
      <4> QED  BY <2>1, <2>2, <3>1, <4>1
               DEF Places, Early, Active, Live, OnlyCancels, OneRequest
    <3>4. CASE e = d /\ inbox' = [inbox EXCEPT ![d] = Append(inbox[d], "cancel")]
      <4>1. inbox'[d] = Append(inbox[d], "cancel") /\ inbox[d] \in Seq({"request", "cancel"})
        BY <3>4 DEF TypeOK
      <4>2. /\ OnlyCancels(d) => OnlyCancels(d)'
            /\ OneRequest(d) => OneRequest(d)'
        BY <4>1, AppendCancel DEF OnlyCancels, OneRequest
      <4> QED  BY <2>1, <2>2, <3>1, <3>4, <4>2 DEF Places, Early, Active, Live
    <3> QED  BY <3>2, <3>3, <3>4
  <2> QED  BY <2>3, <2>4
<1>17. ASSUME NEW d \in Dispatches, Interrupt(d)
      PROVE  PlacesInv'
  BY <1>17
     DEF Interrupt, Return, Stage, Active, PlacesInv, Places, Live, OnlyCancels,
         OneRequest, Early, TypeOK, serverVars, terminalVars
<1>18. ASSUME NEW d \in Dispatches, Close(d)
      PROVE  PlacesInv'
  BY <1>18
     DEF Close, ScopeClosed, Active, Child, Stage, PlacesInv, Places, Live,
         OnlyCancels, OneRequest, Early, TypeOK, serverVars, terminalVars
<1>19. ASSUME NEW i \in Ids, Age(i)
      PROVE  PlacesInv'
  BY <1>19
     DEF Age, PlacesInv, Places, Live, OnlyCancels, OneRequest, Early, Active,
         TypeOK, serverVars, terminalVars
<1>20. CASE UNCHANGED vars
  BY <1>20 DEF vars, PlacesInv, Places, Live, OnlyCancels, OneRequest, Early,
               Active, TypeOK
<1> QED
  BY <1>1, <1>2, <1>3, <1>4, <1>5, <1>6, <1>7, <1>8, <1>9, <1>10, <1>11, <1>12,
     <1>13, <1>14, <1>15, <1>16, <1>17, <1>18, <1>19, <1>20
     DEF Next, Goes, Ends

\* A step keeps what is reported and answered.
LEMMA ReportsStep ==
    ASSUME TypeOK, PlacesInv, ReportsInv, [Next]_vars
    PROVE  ReportsInv'
<1> USE IdAssumption, NoneAssumption, BoundAssumption
<1>1. ASSUME NEW d \in Dispatches, Begin(d)
      PROVE  ReportsInv'
  <2>. SUFFICES ASSUME NEW e \in Dispatches PROVE Reports(e)'
    BY DEF ReportsInv
  <2>1. CASE e # d
    BY <1>1, <2>1
       DEF Begin, Kept, MayRun, Stage, ReportsInv, Reports, Active, TypeOK,
           PlacesInv, Places, StateFor, Early, Answers, serverVars, terminalVars
  <2>2. CASE e = d /\ MayRun(d)
    BY <1>1, <2>2
       DEF Begin, Kept, MayRun, Stage, ReportsInv, Reports, Active, TypeOK,
           PlacesInv, Places, StateFor, Early, Answers, serverVars, terminalVars
  <2>3. CASE e = d /\ ~(MayRun(d))
    BY <1>1, <2>3
       DEF Begin, Kept, MayRun, Stage, ReportsInv, Reports, Active, TypeOK,
           PlacesInv, Places, StateFor, Early, Answers, serverVars, terminalVars
  <2> QED  BY <2>1, <2>2, <2>3
<1>2. ASSUME NEW d \in Dispatches, Noted(d)
      PROVE  ReportsInv'
  BY <1>2
     DEF Noted, Stage, ReportsInv, Reports, Active, TypeOK, PlacesInv, Places,
         StateFor, Early, serverVars, terminalVars
<1>3. ASSUME NEW d \in Dispatches, Refuse(d)
      PROVE  ReportsInv'
  <2>. SUFFICES ASSUME NEW e \in Dispatches PROVE Reports(e)'
    BY DEF ReportsInv
  <2>1. /\ stage' = [stage EXCEPT ![d] = "refusing"]
        /\ reported' = [reported EXCEPT ![d] = Append(reported[d], "Failed")]
        /\ UNCHANGED <<child, handler, answer>>
        /\ stage[d] = "verifying"
    BY <1>3 DEF Refuse, Record, Stage, serverVars
  <2>2. /\ reported[d] = <<>> /\ child[d] = "none" /\ answer[d] = None
    BY <2>1 DEF ReportsInv, Reports, PlacesInv, Places
  <2>3. CASE e # d
    BY <2>1, <2>3 DEF ReportsInv, Reports, TypeOK
  <2>4. CASE e = d
    <3>1. reported'[d] = <<"Failed">>
      BY <2>1, <2>2 DEF TypeOK
    <3>2. /\ stage'[d] = "refusing" /\ child'[d] = "none"
          /\ answer'[d] = None
      BY <2>1, <2>2 DEF TypeOK
    <3> QED  BY <2>4, <3>1, <3>2 DEF Reports
  <2> QED  BY <2>3, <2>4
<1>4. ASSUME NEW d \in Dispatches, Refused(d)
      PROVE  ReportsInv'
  BY <1>4
     DEF Refused, Return, Stage, ReportsInv, Reports, Active, TypeOK, PlacesInv,
         Places, StateFor, Early, serverVars, terminalVars
<1>5. ASSUME NEW d \in Dispatches, Fork(d)
      PROVE  ReportsInv'
  <2>1. CASE MustInterrupt(d)
    BY <1>5, <2>1
       DEF Fork, Interrupted, MustInterrupt, Record, Child, Stage, ReportsInv,
           Reports, Active, TypeOK, PlacesInv, Places, StateFor, Early,
           serverVars, terminalVars
  <2>2. CASE ~(MustInterrupt(d))
    BY <1>5, <2>2
       DEF Fork, Interrupted, MustInterrupt, Record, Child, Stage, ReportsInv,
           Reports, Active, TypeOK, PlacesInv, Places, StateFor, Early,
           serverVars, terminalVars
  <2> QED  BY <2>1, <2>2
<1>6. ASSUME NEW d \in Dispatches, Canceled(d)
      PROVE  ReportsInv'
  BY <1>6
     DEF Canceled, Return, Stage, ReportsInv, Reports, Active, TypeOK, PlacesInv,
         Places, StateFor, Early, serverVars, terminalVars
<1>7. ASSUME NEW d \in Dispatches, Start(d)
      PROVE  ReportsInv'
  BY <1>7
     DEF Start, Child, ReportsInv, Reports, Active, TypeOK, PlacesInv, Places,
         StateFor, Early, serverVars, terminalVars
<1>8. ASSUME NEW d \in Dispatches, BuildFails(d)
      PROVE  ReportsInv'
  BY <1>8
     DEF BuildFails, Return, Child, Stage, ReportsInv, Reports, Active, TypeOK,
         PlacesInv, Places, StateFor, Early, serverVars, terminalVars
<1>9. ASSUME NEW d \in Dispatches, Built(d)
      PROVE  ReportsInv'
  BY <1>9
     DEF Built, Child, ReportsInv, Reports, Active, TypeOK, PlacesInv, Places,
         StateFor, Early, serverVars, terminalVars
<1>10. ASSUME NEW d \in Dispatches, Announced(d)
      PROVE  ReportsInv'
  BY <1>10
     DEF Announced, Child, ReportsInv, Reports, Active, TypeOK, PlacesInv, Places,
         StateFor, Early, serverVars, terminalVars
<1>11. ASSUME NEW d \in Dispatches, ServeRequest(d)
      PROVE  ReportsInv'
  <2>. SUFFICES ASSUME NEW e \in Dispatches PROVE Reports(e)'
    BY DEF ReportsInv
  <2>1. /\ UNCHANGED <<stage, child, reported, answer>>
        /\ handler' = [handler EXCEPT ![d] = "running"]
        /\ inbox[d] # <<>> /\ Head(inbox[d]) = "request"
    BY <1>11 DEF ServeRequest, Received, terminalVars
  <2>2. child[d] # "reporting"
    <3>1. ~OnlyCancels(d)
      <4>1. 1 \in DOMAIN inbox[d] /\ inbox[d][1] = "request"
        BY <2>1 DEF TypeOK
      <4> QED  BY <4>1 DEF OnlyCancels
    <3> QED  BY <3>1 DEF PlacesInv, Places
  <2>3. Reports(e)
    BY DEF ReportsInv
  <2>4. CASE e # d
    <3>1. handler'[e] = handler[e]
      BY <2>1, <2>4 DEF TypeOK
    <3> QED  BY <2>1, <2>3, <3>1 DEF Reports, StateFor
  <2>5. CASE e = d
    BY <2>1, <2>2, <2>3, <2>5 DEF Reports
  <2> QED  BY <2>4, <2>5
<1>12. ASSUME NEW d \in Dispatches, ServeCancel(d)
      PROVE  ReportsInv'
  BY <1>12
     DEF ServeCancel, Received, Active, ReportsInv, Reports, TypeOK, PlacesInv,
         Places, StateFor, Early, serverVars, terminalVars
<1>13. ASSUME NEW d \in Dispatches, ServeStrayCancel(d)
      PROVE  ReportsInv'
  BY <1>13
     DEF ServeStrayCancel, Received, Active, ReportsInv, Reports, TypeOK,
         PlacesInv, Places, StateFor, Early, serverVars, terminalVars
<1>14. ASSUME NEW d \in Dispatches,
           NEW outcome \in {"succeeded", "failed", "interrupted"}, HandlerEnds(d, outcome)
      PROVE  ReportsInv'
  <2>. SUFFICES ASSUME NEW e \in Dispatches PROVE Reports(e)'
    BY DEF ReportsInv
  <2>1. /\ handler' = [handler EXCEPT ![d] = outcome]
        /\ child' = [child EXCEPT ![d] = "reporting"]
        /\ reported' = [reported EXCEPT
                           ![d] = Append(reported[d], StateFor(outcome))]
        /\ UNCHANGED <<stage, answer>>
        /\ Active(d)
    BY <1>14 DEF HandlerEnds, Record, Child
  <2>2. child[d] = "awaiting" /\ reported[d] = <<>>
    BY <2>1 DEF ReportsInv, Reports, PlacesInv, Places
  <2>3. /\ stage[d] \notin {"idle", "noting", "verifying", "refusing",
                            "canceling"}
        /\ stage[d] = "closing" => answer[d] = "interrupted"
        /\ (answer[d] = None) <=> stage[d] \notin {"closing", "done"}
    BY <2>2 DEF ReportsInv, Reports, PlacesInv, Places
  <2>4. CASE e # d
    BY <2>1, <2>4 DEF ReportsInv, Reports, TypeOK, StateFor
  <2>5. CASE e = d
    <3>1. reported'[d] = <<StateFor(outcome)>>
      BY <2>1, <2>2 DEF TypeOK
    <3>2. handler'[d] = outcome /\ child'[d] = "reporting"
      BY <2>1 DEF TypeOK
    <3>3. StateFor(handler'[d]) = StateFor(outcome)
      BY <3>2
    <3>4. StateFor(handler[d])' = StateFor(handler'[d])
      BY DEF StateFor
    <3> QED  BY <2>1, <2>3, <2>5, <3>1, <3>2, <3>3, <3>4 DEF Reports
  <2> QED  BY <2>4, <2>5
<1>15. ASSUME NEW d \in Dispatches, Reported(d)
      PROVE  ReportsInv'
  <2>. SUFFICES ASSUME NEW e \in Dispatches PROVE Reports(e)'
    BY DEF ReportsInv
  <2>1. CASE e # d
    BY <1>15, <2>1
       DEF Reported, Return, Child, Stage, ReportsInv, Reports, Active, TypeOK,
           PlacesInv, Places, StateFor, Early, AnswerFor, TerminalStates,
           serverVars, terminalVars
  <2>2. CASE e = d
    BY <1>15, <2>2
       DEF Reported, Return, Child, Stage, ReportsInv, Reports, Active, TypeOK,
           PlacesInv, Places, StateFor, Early, AnswerFor, TerminalStates,
           serverVars, terminalVars
  <2> QED  BY <2>1, <2>2
<1>16. ASSUME NEW d \in Dispatches, Cancel(d)
      PROVE  ReportsInv'
  <2>. SUFFICES ASSUME NEW e \in Dispatches PROVE Reports(e)'
    BY DEF ReportsInv
  <2>1. UNCHANGED <<handler, answer>>
    BY <1>16 DEF Cancel
  <2>2. CASE child[d] = "forked" /\ stage[d] = "joining"
    <3>1. /\ stage' = [stage EXCEPT ![d] = "canceling"]
          /\ child' = [child EXCEPT ![d] = "exited"]
          /\ reported' = [reported EXCEPT ![d] = Append(reported[d], "Canceled")]
      BY <1>16, <2>2 DEF Cancel, Interrupted, Record, Child, Stage
    <3>2. reported[d] = <<>> /\ answer[d] = None
      BY <2>2 DEF ReportsInv, Reports
    <3>3. CASE e # d
      BY <2>1, <3>1, <3>3 DEF ReportsInv, Reports, TypeOK, StateFor
    <3>4. CASE e = d
      <4>1. reported'[d] = <<"Canceled">>
        BY <3>1, <3>2 DEF TypeOK
      <4> QED  BY <2>1, <3>1, <3>2, <3>4, <4>1 DEF Reports, TypeOK
    <3> QED  BY <3>3, <3>4
  <2>3. CASE ~(child[d] = "forked" /\ stage[d] = "joining")
    <3>1. UNCHANGED <<stage, child, reported>>
      BY <1>16, <2>3 DEF Cancel, terminalVars
    <3> QED  BY <2>1, <3>1 DEF ReportsInv, Reports, StateFor
  <2> QED  BY <2>2, <2>3
<1>17. ASSUME NEW d \in Dispatches, Interrupt(d)
      PROVE  ReportsInv'
  BY <1>17
     DEF Interrupt, Return, Stage, Active, ReportsInv, Reports, TypeOK, PlacesInv,
         Places, StateFor, Early, serverVars, terminalVars
<1>18. ASSUME NEW d \in Dispatches, Close(d)
      PROVE  ReportsInv'
  BY <1>18
     DEF Close, ScopeClosed, Active, Child, Stage, ReportsInv, Reports, TypeOK,
         PlacesInv, Places, StateFor, Early, serverVars, terminalVars
<1>19. ASSUME NEW i \in Ids, Age(i)
      PROVE  ReportsInv'
  BY <1>19
     DEF Age, ReportsInv, Reports, Active, TypeOK, PlacesInv, Places, StateFor,
         Early, serverVars, terminalVars
<1>20. CASE UNCHANGED vars
  BY <1>20 DEF vars, ReportsInv, Reports, Active, TypeOK, PlacesInv, Places,
               StateFor, Early
<1> QED
  BY <1>1, <1>2, <1>3, <1>4, <1>5, <1>6, <1>7, <1>8, <1>9, <1>10, <1>11, <1>12,
     <1>13, <1>14, <1>15, <1>16, <1>17, <1>18, <1>19, <1>20
     DEF Next, Goes, Ends

\* A step records a terminal state for calls that have none.
LEMMA TerminalStep ==
    ASSUME TypeOK, PlacesInv, ReportsInv, TerminalInv, [Next]_vars
    PROVE  TerminalInv'
<1> USE IdAssumption, NoneAssumption, BoundAssumption
<1>1. ASSUME NEW d \in Dispatches, Begin(d)
      PROVE  TerminalInv'
  <2>1. CASE MayRun(d)
    BY <1>1, <2>1
       DEF Begin, Kept, MayRun, Stage, TerminalInv, Live, TypeOK, PlacesInv,
           Places, ReportsInv, Reports, serverVars, terminalVars
  <2>2. CASE ~(MayRun(d))
    BY <1>1, <2>2
       DEF Begin, Kept, MayRun, Stage, TerminalInv, Live, TypeOK, PlacesInv,
           Places, ReportsInv, Reports, serverVars, terminalVars
  <2> QED  BY <2>1, <2>2
<1>2. ASSUME NEW d \in Dispatches, Noted(d)
      PROVE  TerminalInv'
  BY <1>2
     DEF Noted, Stage, TerminalInv, Live, TypeOK, PlacesInv, Places, ReportsInv,
         Reports, serverVars, terminalVars
<1>3. ASSUME NEW d \in Dispatches, Refuse(d)
      PROVE  TerminalInv'
  BY <1>3
     DEF Refuse, Record, Stage, TerminalInv, Live, TypeOK, PlacesInv, Places,
         ReportsInv, Reports, serverVars, terminalVars
<1>4. ASSUME NEW d \in Dispatches, Refused(d)
      PROVE  TerminalInv'
  BY <1>4
     DEF Refused, Return, Stage, TerminalInv, Live, TypeOK, PlacesInv, Places,
         ReportsInv, Reports, serverVars, terminalVars
<1>5. ASSUME NEW d \in Dispatches, Fork(d)
      PROVE  TerminalInv'
  <2>1. CASE MustInterrupt(d)
    BY <1>5, <2>1
       DEF Fork, Interrupted, MustInterrupt, Record, Child, Stage, TerminalInv,
           Live, TypeOK, PlacesInv, Places, ReportsInv, Reports, serverVars,
           terminalVars
  <2>2. CASE ~(MustInterrupt(d))
    BY <1>5, <2>2
       DEF Fork, Interrupted, MustInterrupt, Record, Child, Stage, TerminalInv,
           Live, TypeOK, PlacesInv, Places, ReportsInv, Reports, serverVars,
           terminalVars
  <2> QED  BY <2>1, <2>2
<1>6. ASSUME NEW d \in Dispatches, Canceled(d)
      PROVE  TerminalInv'
  BY <1>6
     DEF Canceled, Return, Stage, TerminalInv, Live, TypeOK, PlacesInv, Places,
         ReportsInv, Reports, serverVars, terminalVars
<1>7. ASSUME NEW d \in Dispatches, Start(d)
      PROVE  TerminalInv'
  BY <1>7
     DEF Start, Child, TerminalInv, Live, TypeOK, PlacesInv, Places, ReportsInv,
         Reports, serverVars, terminalVars
<1>8. ASSUME NEW d \in Dispatches, BuildFails(d)
      PROVE  TerminalInv'
  BY <1>8
     DEF BuildFails, Return, Child, Stage, TerminalInv, Live, TypeOK, PlacesInv,
         Places, ReportsInv, Reports, serverVars, terminalVars
<1>9. ASSUME NEW d \in Dispatches, Built(d)
      PROVE  TerminalInv'
  BY <1>9
     DEF Built, Child, TerminalInv, Live, TypeOK, PlacesInv, Places, ReportsInv,
         Reports, serverVars, terminalVars
<1>10. ASSUME NEW d \in Dispatches, Announced(d)
      PROVE  TerminalInv'
  BY <1>10
     DEF Announced, Child, TerminalInv, Live, TypeOK, PlacesInv, Places,
         ReportsInv, Reports, serverVars, terminalVars
<1>11. ASSUME NEW d \in Dispatches, ServeRequest(d)
      PROVE  TerminalInv'
  BY <1>11
     DEF ServeRequest, Received, TerminalInv, Live, TypeOK, PlacesInv, Places,
         ReportsInv, Reports, serverVars, terminalVars
<1>12. ASSUME NEW d \in Dispatches, ServeCancel(d)
      PROVE  TerminalInv'
  BY <1>12
     DEF ServeCancel, Received, Active, TerminalInv, Live, TypeOK, PlacesInv,
         Places, ReportsInv, Reports, serverVars, terminalVars
<1>13. ASSUME NEW d \in Dispatches, ServeStrayCancel(d)
      PROVE  TerminalInv'
  BY <1>13
     DEF ServeStrayCancel, Received, Active, TerminalInv, Live, TypeOK, PlacesInv,
         Places, ReportsInv, Reports, serverVars, terminalVars
<1>14. ASSUME NEW d \in Dispatches,
           NEW outcome \in {"succeeded", "failed", "interrupted"}, HandlerEnds(d, outcome)
      PROVE  TerminalInv'
  BY <1>14
     DEF HandlerEnds, Active, Child, Record, TerminalInv, Live, TypeOK, PlacesInv,
         Places, ReportsInv, Reports, serverVars, terminalVars
<1>15. ASSUME NEW d \in Dispatches, Reported(d)
      PROVE  TerminalInv'
  BY <1>15
     DEF Reported, Return, Child, Stage, TerminalInv, Live, TypeOK, PlacesInv,
         Places, ReportsInv, Reports, serverVars, terminalVars
<1>16. ASSUME NEW d \in Dispatches, Cancel(d)
      PROVE  TerminalInv'
  <2>1. CASE child[d] = "forked" /\ stage[d] = "joining"
    BY <1>16, <2>1
       DEF Cancel, Interrupted, Record, Child, Stage, TerminalInv, Live, TypeOK,
           PlacesInv, Places, ReportsInv, Reports, serverVars, terminalVars
  <2>2. CASE ~(child[d] = "forked" /\ stage[d] = "joining")
    BY <1>16, <2>2
       DEF Cancel, Interrupted, Record, Child, Stage, TerminalInv, Live, TypeOK,
           PlacesInv, Places, ReportsInv, Reports, serverVars, terminalVars
  <2> QED  BY <2>1, <2>2
<1>17. ASSUME NEW d \in Dispatches, Interrupt(d)
      PROVE  TerminalInv'
  BY <1>17
     DEF Interrupt, Return, Stage, Active, TerminalInv, Live, TypeOK, PlacesInv,
         Places, ReportsInv, Reports, serverVars, terminalVars
<1>18. ASSUME NEW d \in Dispatches, Close(d)
      PROVE  TerminalInv'
  BY <1>18
     DEF Close, ScopeClosed, Active, Child, Stage, TerminalInv, Live, TypeOK,
         PlacesInv, Places, ReportsInv, Reports, serverVars, terminalVars
<1>19. ASSUME NEW i \in Ids, Age(i)
      PROVE  TerminalInv'
  BY <1>19
     DEF Age, TerminalInv, Live, TypeOK, PlacesInv, Places, ReportsInv, Reports,
         serverVars, terminalVars
<1>20. CASE UNCHANGED vars
  BY <1>20 DEF vars, TerminalInv, Live, TypeOK, PlacesInv, Places, ReportsInv,
               Reports
<1> QED
  BY <1>1, <1>2, <1>3, <1>4, <1>5, <1>6, <1>7, <1>8, <1>9, <1>10, <1>11, <1>12,
     <1>13, <1>14, <1>15, <1>16, <1>17, <1>18, <1>19, <1>20
     DEF Next, Goes, Ends

\* A step keeps an early cancel at the head of the inbox.
LEMMA CancelStep ==
    ASSUME TypeOK, PlacesInv, CancelInv, [Next]_vars
    PROVE  CancelInv'
<1> USE IdAssumption, NoneAssumption, BoundAssumption
<1>1. ASSUME NEW d \in Dispatches, Begin(d)
      PROVE  CancelInv'
  <2>1. CASE MayRun(d)
    BY <1>1, <2>1
       DEF Begin, Kept, MayRun, Stage, CancelInv, CancelRequested, TypeOK,
           PlacesInv, Places, Early, OnlyCancels, serverVars, terminalVars
  <2>2. CASE ~(MayRun(d))
    BY <1>1, <2>2
       DEF Begin, Kept, MayRun, Stage, CancelInv, CancelRequested, TypeOK,
           PlacesInv, Places, Early, OnlyCancels, serverVars, terminalVars
  <2> QED  BY <2>1, <2>2
<1>2. ASSUME NEW d \in Dispatches, Noted(d)
      PROVE  CancelInv'
  BY <1>2
     DEF Noted, Stage, CancelInv, CancelRequested, TypeOK, PlacesInv, Places,
         Early, OnlyCancels, serverVars, terminalVars
<1>3. ASSUME NEW d \in Dispatches, Refuse(d)
      PROVE  CancelInv'
  BY <1>3
     DEF Refuse, Record, Stage, CancelInv, CancelRequested, TypeOK, PlacesInv,
         Places, Early, OnlyCancels, serverVars, terminalVars
<1>4. ASSUME NEW d \in Dispatches, Refused(d)
      PROVE  CancelInv'
  BY <1>4
     DEF Refused, Return, Stage, CancelInv, CancelRequested, TypeOK, PlacesInv,
         Places, Early, OnlyCancels, serverVars, terminalVars
<1>5. ASSUME NEW d \in Dispatches, Fork(d)
      PROVE  CancelInv'
  <2>1. CASE MustInterrupt(d)
    BY <1>5, <2>1
       DEF Fork, Interrupted, MustInterrupt, Record, Child, Stage, CancelInv,
           CancelRequested, TypeOK, PlacesInv, Places, Early, OnlyCancels,
           serverVars, terminalVars
  <2>2. CASE ~(MustInterrupt(d))
    BY <1>5, <2>2
       DEF Fork, Interrupted, MustInterrupt, Record, Child, Stage, CancelInv,
           CancelRequested, TypeOK, PlacesInv, Places, Early, OnlyCancels,
           serverVars, terminalVars
  <2> QED  BY <2>1, <2>2
<1>6. ASSUME NEW d \in Dispatches, Canceled(d)
      PROVE  CancelInv'
  BY <1>6
     DEF Canceled, Return, Stage, CancelInv, CancelRequested, TypeOK, PlacesInv,
         Places, Early, OnlyCancels, serverVars, terminalVars
<1>7. ASSUME NEW d \in Dispatches, Start(d)
      PROVE  CancelInv'
  BY <1>7
     DEF Start, Child, CancelInv, CancelRequested, TypeOK, PlacesInv, Places,
         Early, OnlyCancels, serverVars, terminalVars
<1>8. ASSUME NEW d \in Dispatches, BuildFails(d)
      PROVE  CancelInv'
  BY <1>8
     DEF BuildFails, Return, Child, Stage, CancelInv, CancelRequested, TypeOK,
         PlacesInv, Places, Early, OnlyCancels, serverVars, terminalVars
<1>9. ASSUME NEW d \in Dispatches, Built(d)
      PROVE  CancelInv'
  BY <1>9
     DEF Built, Child, CancelInv, CancelRequested, TypeOK, PlacesInv, Places,
         Early, OnlyCancels, serverVars, terminalVars
<1>10. ASSUME NEW d \in Dispatches, Announced(d)
      PROVE  CancelInv'
  BY <1>10
     DEF Announced, Child, CancelInv, CancelRequested, TypeOK, PlacesInv, Places,
         Early, OnlyCancels, serverVars, terminalVars
<1>11. ASSUME NEW d \in Dispatches, ServeRequest(d)
      PROVE  CancelInv'
  BY <1>11
     DEF ServeRequest, Received, CancelInv, CancelRequested, TypeOK, PlacesInv,
         Places, Early, OnlyCancels, serverVars, terminalVars
<1>12. ASSUME NEW d \in Dispatches, ServeCancel(d)
      PROVE  CancelInv'
  BY <1>12
     DEF ServeCancel, Received, Active, CancelInv, CancelRequested, TypeOK,
         PlacesInv, Places, Early, OnlyCancels, serverVars, terminalVars
<1>13. ASSUME NEW d \in Dispatches, ServeStrayCancel(d)
      PROVE  CancelInv'
  BY <1>13
     DEF ServeStrayCancel, Received, Active, CancelInv, CancelRequested, TypeOK,
         PlacesInv, Places, Early, OnlyCancels, serverVars, terminalVars
<1>14. ASSUME NEW d \in Dispatches,
           NEW outcome \in {"succeeded", "failed", "interrupted"}, HandlerEnds(d, outcome)
      PROVE  CancelInv'
  BY <1>14
     DEF HandlerEnds, Active, Child, Record, CancelInv, CancelRequested, TypeOK,
         PlacesInv, Places, Early, OnlyCancels, serverVars, terminalVars
<1>15. ASSUME NEW d \in Dispatches, Reported(d)
      PROVE  CancelInv'
  BY <1>15
     DEF Reported, Return, Child, Stage, CancelInv, CancelRequested, TypeOK,
         PlacesInv, Places, Early, OnlyCancels, serverVars, terminalVars
<1>16. ASSUME NEW d \in Dispatches, Cancel(d)
      PROVE  CancelInv'
  <2>. SUFFICES ASSUME NEW e \in Dispatches, CancelRequested(e)', server'[e] = "up"
                PROVE  /\ child'[e] # "forked"
                       /\ child'[e] \in {"building", "announcing"} =>
                              inbox'[e] # <<>> /\ Head(inbox'[e]) = "cancel"
    BY DEF CancelInv
  <2>1. /\ UNCHANGED <<server, handler, pendingCalls>> /\ pendingCalls[IdOf[d]] = d
        /\ cancels' = [cancels EXCEPT ![d] = cancels[d] + 1]
    BY <1>16 DEF Cancel
  <2>2. CASE child[d] = "forked" /\ stage[d] = "joining"
    <3>1. child' = [child EXCEPT ![d] = "exited"] /\ UNCHANGED inbox
      BY <1>16, <2>2 DEF Cancel, Interrupted, Child
    <3> QED  BY <2>1, <3>1 DEF CancelInv, CancelRequested, TypeOK
  <2>3. CASE ~(child[d] = "forked" /\ stage[d] = "joining")
    <3>1. UNCHANGED <<stage, child>>
      BY <1>16, <2>3 DEF Cancel, terminalVars
    <3>2. inbox' = IF child[d] \notin {"none", "forked"} /\ server[d] = "up"
                   THEN [inbox EXCEPT ![d] = Append(inbox[d], "cancel")]
                   ELSE inbox
      BY <1>16, <2>3 DEF Cancel
    <3>3. CASE e # d
      <4>1. inbox'[e] = inbox[e] /\ CancelRequested(e)
        BY <2>1, <3>2, <3>3 DEF TypeOK, CancelRequested
      <4> QED  BY <2>1, <3>1, <4>1 DEF CancelInv
    <3>4. CASE e = d
      <4>1. server[d] = "up"
        BY <2>1, <3>4
      <4>2. child[d] # "forked"
        BY <2>3, <3>4, <4>1 DEF PlacesInv, Places, TypeOK
      <4>3. CASE child[d] \in {"building", "announcing"}
        <5>1. inbox'[d] = Append(inbox[d], "cancel")
          BY <3>2, <4>1, <4>3 DEF TypeOK
        <5>2. OnlyCancels(d) /\ inbox[d] \in Seq({"request", "cancel"})
          BY <4>3 DEF PlacesInv, Places, Early, TypeOK
        <5>3. inbox[d] # <<>> => Head(inbox[d]) = "cancel"
          <6>1. ASSUME inbox[d] # <<>>
               PROVE  1 \in DOMAIN inbox[d] /\ Head(inbox[d]) = inbox[d][1]
            BY <5>2, <6>1
          <6> QED  BY <5>2, <6>1 DEF OnlyCancels
        <5> QED  BY <3>1, <3>4, <4>2, <5>1, <5>2, <5>3, AppendCancel
      <4> QED  BY <3>1, <3>4, <4>2, <4>3
    <3> QED  BY <3>3, <3>4
  <2> QED  BY <2>2, <2>3
<1>17. ASSUME NEW d \in Dispatches, Interrupt(d)
      PROVE  CancelInv'
  BY <1>17
     DEF Interrupt, Return, Stage, Active, CancelInv, CancelRequested, TypeOK,
         PlacesInv, Places, Early, OnlyCancels, serverVars, terminalVars
<1>18. ASSUME NEW d \in Dispatches, Close(d)
      PROVE  CancelInv'
  BY <1>18
     DEF Close, ScopeClosed, Active, Child, Stage, CancelInv, CancelRequested,
         TypeOK, PlacesInv, Places, Early, OnlyCancels, serverVars, terminalVars
<1>19. ASSUME NEW i \in Ids, Age(i)
      PROVE  CancelInv'
  BY <1>19
     DEF Age, CancelInv, CancelRequested, TypeOK, PlacesInv, Places, Early,
         OnlyCancels, serverVars, terminalVars
<1>20. CASE UNCHANGED vars
  BY <1>20 DEF vars, CancelInv, CancelRequested, TypeOK, PlacesInv, Places, Early,
               OnlyCancels
<1> QED
  BY <1>1, <1>2, <1>3, <1>4, <1>5, <1>6, <1>7, <1>8, <1>9, <1>10, <1>11, <1>12,
     <1>13, <1>14, <1>15, <1>16, <1>17, <1>18, <1>19, <1>20
     DEF Next, Goes, Ends

\* A step answers what has been reported.
LEMMA AnswersStep ==
    ASSUME TypeOK, PlacesInv, ReportsInv, AnswersMatch, [Next]_vars
    PROVE  AnswersMatch'
<1> USE IdAssumption, NoneAssumption, BoundAssumption
<1>1. ASSUME NEW d \in Dispatches, Begin(d)
      PROVE  AnswersMatch'
  <2>1. CASE MayRun(d)
    BY <1>1, <2>1
       DEF Begin, Kept, MayRun, Stage, AnswersMatch, ReportsInv, Reports, TypeOK,
           serverVars, terminalVars
  <2>2. CASE ~(MayRun(d))
    BY <1>1, <2>2
       DEF Begin, Kept, MayRun, Stage, AnswersMatch, ReportsInv, Reports, TypeOK,
           serverVars, terminalVars
  <2> QED  BY <2>1, <2>2
<1>2. ASSUME NEW d \in Dispatches, Noted(d)
      PROVE  AnswersMatch'
  BY <1>2
     DEF Noted, Stage, AnswersMatch, ReportsInv, Reports, TypeOK, serverVars,
         terminalVars
<1>3. ASSUME NEW d \in Dispatches, Refuse(d)
      PROVE  AnswersMatch'
  BY <1>3
     DEF Refuse, Record, Stage, AnswersMatch, ReportsInv, Reports, TypeOK,
         serverVars, terminalVars
<1>4. ASSUME NEW d \in Dispatches, Refused(d)
      PROVE  AnswersMatch'
  BY <1>4
     DEF Refused, Return, Stage, AnswersMatch, ReportsInv, Reports, TypeOK,
         serverVars, terminalVars
<1>5. ASSUME NEW d \in Dispatches, Fork(d)
      PROVE  AnswersMatch'
  <2>. SUFFICES ASSUME NEW e \in Dispatches PROVE Answered(e)'
    BY DEF AnswersMatch, Answered
  <2>0. Answered(e) /\ Answered(d) /\ Reports(d) /\ Places(d)
    BY DEF AnswersMatch, Answered, ReportsInv, PlacesInv
  <2>1. CASE MustInterrupt(d)
    <3>1. /\ reported' = [reported EXCEPT ![d] = Append(reported[d], "Canceled")]
          /\ UNCHANGED answer
      BY <1>5, <2>1 DEF Fork, Interrupted, Record
    <3>2. answer[d] = None
      BY <1>5, <2>0, <2>1 DEF Reports, Fork
    <3>3. CASE e # d
      BY <2>0, <3>1, <3>3 DEF Answered, TypeOK
    <3>4. CASE e = d
      BY <3>1, <3>2, <3>4 DEF Answered
    <3> QED  BY <3>3, <3>4
  <2>2. CASE ~(MustInterrupt(d))
    <3>1. UNCHANGED <<reported, answer>>
      BY <1>5, <2>2 DEF Fork, terminalVars
    <3> QED  BY <2>0, <3>1 DEF Answered
  <2> QED  BY <2>1, <2>2
<1>6. ASSUME NEW d \in Dispatches, Canceled(d)
      PROVE  AnswersMatch'
  BY <1>6
     DEF Canceled, Return, Stage, AnswersMatch, ReportsInv, Reports, TypeOK,
         serverVars, terminalVars
<1>7. ASSUME NEW d \in Dispatches, Start(d)
      PROVE  AnswersMatch'
  BY <1>7
     DEF Start, Child, AnswersMatch, ReportsInv, Reports, TypeOK, serverVars,
         terminalVars
<1>8. ASSUME NEW d \in Dispatches, BuildFails(d)
      PROVE  AnswersMatch'
  BY <1>8
     DEF BuildFails, Return, Child, Stage, AnswersMatch, ReportsInv, Reports,
         TypeOK, serverVars, terminalVars
<1>9. ASSUME NEW d \in Dispatches, Built(d)
      PROVE  AnswersMatch'
  BY <1>9
     DEF Built, Child, AnswersMatch, ReportsInv, Reports, TypeOK, serverVars,
         terminalVars
<1>10. ASSUME NEW d \in Dispatches, Announced(d)
      PROVE  AnswersMatch'
  BY <1>10
     DEF Announced, Child, AnswersMatch, ReportsInv, Reports, TypeOK, serverVars,
         terminalVars
<1>11. ASSUME NEW d \in Dispatches, ServeRequest(d)
      PROVE  AnswersMatch'
  BY <1>11
     DEF ServeRequest, Received, AnswersMatch, ReportsInv, Reports, TypeOK,
         serverVars, terminalVars
<1>12. ASSUME NEW d \in Dispatches, ServeCancel(d)
      PROVE  AnswersMatch'
  BY <1>12
     DEF ServeCancel, Received, Active, AnswersMatch, ReportsInv, Reports, TypeOK,
         serverVars, terminalVars
<1>13. ASSUME NEW d \in Dispatches, ServeStrayCancel(d)
      PROVE  AnswersMatch'
  BY <1>13
     DEF ServeStrayCancel, Received, Active, AnswersMatch, ReportsInv, Reports,
         TypeOK, serverVars, terminalVars
<1>14. ASSUME NEW d \in Dispatches,
           NEW outcome \in {"succeeded", "failed", "interrupted"}, HandlerEnds(d, outcome)
      PROVE  AnswersMatch'
  <2>. SUFFICES ASSUME NEW e \in Dispatches PROVE Answered(e)'
    BY DEF AnswersMatch, Answered
  <2>0. Answered(e) /\ Answered(d) /\ Reports(d) /\ Places(d)
    BY DEF AnswersMatch, Answered, ReportsInv, PlacesInv
  <2>1. /\ reported' = [reported EXCEPT
                           ![d] = Append(reported[d], StateFor(outcome))]
        /\ UNCHANGED answer
        /\ Active(d)
    BY <1>14 DEF HandlerEnds, Record
  <2>2. child[d] = "awaiting" /\ reported[d] = <<>>
    BY <2>0, <2>1 DEF Reports, Places
  <2>3. answer[d] \in {None, "interrupted"}
    BY <2>0, <2>2 DEF Reports, Places
  <2>4. CASE e # d
    BY <2>0, <2>1, <2>4 DEF Answered, TypeOK
  <2>5. CASE e = d
    <3>1. reported'[d] = <<StateFor(outcome)>> /\ Len(reported'[d]) = 1
      BY <2>1, <2>2 DEF TypeOK
    <3> QED  BY <2>1, <2>3, <2>5, <3>1 DEF Answered
  <2> QED  BY <2>4, <2>5
<1>15. ASSUME NEW d \in Dispatches, Reported(d)
      PROVE  AnswersMatch'
  <2>. SUFFICES ASSUME NEW e \in Dispatches PROVE Answered(e)'
    BY DEF AnswersMatch, Answered
  <2>0. Answered(e) /\ Answered(d) /\ Reports(d) /\ Places(d)
    BY DEF AnswersMatch, Answered, ReportsInv, PlacesInv
  <2>1. /\ answer' = [answer EXCEPT ![d] = AnswerFor(handler[d])]
        /\ UNCHANGED reported
        /\ child[d] = "reporting"
    BY <1>15 DEF Reported, Return, terminalVars
  <2>2. /\ handler[d] \in {"succeeded", "failed", "interrupted"}
        /\ reported[d] = <<StateFor(handler[d])>>
    BY <2>0, <2>1 DEF Reports
  <2>3. CASE e # d
    BY <2>0, <2>1, <2>3 DEF Answered, TypeOK
  <2>4. CASE e = d
    <3>1. answer'[d] = AnswerFor(handler[d]) /\ reported'[d] = <<StateFor(handler[d])>>
      BY <2>1, <2>2 DEF TypeOK
    <3> QED  BY <2>2, <2>4, <3>1 DEF Answered, AnswerFor, StateFor
  <2> QED  BY <2>3, <2>4
<1>16. ASSUME NEW d \in Dispatches, Cancel(d)
      PROVE  AnswersMatch'
  <2>. SUFFICES ASSUME NEW e \in Dispatches PROVE Answered(e)'
    BY DEF AnswersMatch, Answered
  <2>0. Answered(e) /\ Answered(d) /\ Reports(d) /\ Places(d)
    BY DEF AnswersMatch, Answered, ReportsInv, PlacesInv
  <2>1. CASE child[d] = "forked" /\ stage[d] = "joining"
    <3>1. /\ reported' = [reported EXCEPT ![d] = Append(reported[d], "Canceled")]
          /\ UNCHANGED answer
      BY <1>16, <2>1 DEF Cancel, Interrupted, Record
    <3>2. answer[d] = None
      BY <1>16, <2>0, <2>1 DEF Reports, Cancel
    <3>3. CASE e # d
      BY <2>0, <3>1, <3>3 DEF Answered, TypeOK
    <3>4. CASE e = d
      BY <3>1, <3>2, <3>4 DEF Answered
    <3> QED  BY <3>3, <3>4
  <2>2. CASE ~(child[d] = "forked" /\ stage[d] = "joining")
    <3>1. UNCHANGED <<reported, answer>>
      BY <1>16, <2>2 DEF Cancel, terminalVars
    <3> QED  BY <2>0, <3>1 DEF Answered
  <2> QED  BY <2>1, <2>2
<1>17. ASSUME NEW d \in Dispatches, Interrupt(d)
      PROVE  AnswersMatch'
  <2>. SUFFICES ASSUME NEW e \in Dispatches PROVE Answered(e)'
    BY DEF AnswersMatch, Answered
  <2>0. Answered(e) /\ Answered(d) /\ Reports(d) /\ Places(d)
    BY DEF AnswersMatch, Answered, ReportsInv, PlacesInv
  <2>1. /\ answer' = [answer EXCEPT ![d] = "interrupted"]
        /\ UNCHANGED reported
        /\ stage[d] \in {"noting", "verifying", "refusing", "joining", "canceling"}
    BY <1>17 DEF Interrupt, Return, terminalVars
  <2>2. Len(reported[d]) <= 1
    <3>1. reported[d] = <<>> \/ \E s \in TerminalStates : reported[d] = <<s>>
      BY <2>0, <2>1 DEF Reports, Places, StateFor, TerminalStates
    <3>2. CASE reported[d] = <<>>
      BY <3>2
    <3>3. ASSUME NEW s \in TerminalStates, reported[d] = <<s>>
          PROVE  Len(reported[d]) <= 1
      <4>1. Len(<<s>>) = 1
        OBVIOUS
      <4> QED  BY <3>3, <4>1
    <3> QED  BY <3>1, <3>2, <3>3
  <2>3. CASE e # d
    BY <2>0, <2>1, <2>3 DEF Answered, TypeOK
  <2>4. CASE e = d
    <3>1. answer'[d] = "interrupted" /\ reported'[d] = reported[d]
      BY <2>1 DEF TypeOK
    <3> QED  BY <2>2, <2>4, <3>1 DEF Answered
  <2> QED  BY <2>3, <2>4
<1>18. ASSUME NEW d \in Dispatches, Close(d)
      PROVE  AnswersMatch'
  BY <1>18
     DEF Close, ScopeClosed, Active, Child, Stage, AnswersMatch, ReportsInv,
         Reports, TypeOK, serverVars, terminalVars
<1>19. ASSUME NEW i \in Ids, Age(i)
      PROVE  AnswersMatch'
  BY <1>19
     DEF Age, AnswersMatch, ReportsInv, Reports, TypeOK, serverVars, terminalVars
<1>20. CASE UNCHANGED vars
  BY <1>20 DEF vars, AnswersMatch, ReportsInv, Reports, TypeOK
<1> QED
  BY <1>1, <1>2, <1>3, <1>4, <1>5, <1>6, <1>7, <1>8, <1>9, <1>10, <1>11, <1>12,
     <1>13, <1>14, <1>15, <1>16, <1>17, <1>18, <1>19, <1>20
     DEF Next, Goes, Ends

\* A request that the server takes is that of a call in progress.
LEMMA ServedInTime ==
    ASSUME TypeOK, PlacesInv, NEW d \in Dispatches, ServeRequest(d)
    PROVE  stage[d] = "joining" /\ child[d] = "awaiting" /\ server[d] = "up"
           /\ Head(inbox[d]) = "request" /\ handler[d] = "none"
<1>1. server[d] = "up" /\ inbox[d] # <<>> /\ Head(inbox[d]) = "request"
  BY DEF ServeRequest, Received
<1>2. ~OnlyCancels(d)
  <2>1. 1 \in DOMAIN inbox[d] /\ inbox[d][1] = "request"
    BY <1>1 DEF TypeOK
  <2> QED  BY <2>1 DEF OnlyCancels
<1>3. Places(d)
  BY DEF PlacesInv
<1> QED  BY <1>1, <1>2, <1>3 DEF Places, Early, TypeOK

\* What the induction of the theorems carries from step to step.
BridgeInv ==
    TypeOK /\ PlacesInv /\ ReportsInv /\ TerminalInv /\ CancelInv /\ AnswersMatch

\* The invariant holds when nothing has arrived yet.
LEMMA InvInit == Init => BridgeInv
<1> SUFFICES ASSUME Init PROVE BridgeInv
  OBVIOUS
<1> USE IdAssumption, NoneAssumption, BoundAssumption
<1>1. TypeOK
  BY DEF Init, TypeOK
<1>2. PlacesInv
  <2>1. ASSUME NEW d \in Dispatches PROVE Places(d)
    <3>1. /\ stage[d] = "idle" /\ child[d] = "none" /\ handler[d] = "none"
          /\ inbox[d] = <<>>
      BY DEF Init
    <3>2. OnlyCancels(d) /\ OneRequest(d)
      BY <3>1 DEF OnlyCancels, OneRequest
    <3> QED  BY <3>1, <3>2 DEF Places, Live, Active
  <2> QED  BY <2>1 DEF PlacesInv
<1>3. ReportsInv
  BY DEF Init, ReportsInv, Reports
<1>4. TerminalInv
  BY DEF Init, TerminalInv, Live
<1>5. CancelInv
  BY DEF Init, CancelInv, CancelRequested
<1>6. AnswersMatch
  BY DEF Init, AnswersMatch, Answers
<1> QED  BY <1>1, <1>2, <1>3, <1>4, <1>5, <1>6 DEF BridgeInv

\* Every step keeps it.
LEMMA InvStep == BridgeInv /\ [Next]_vars => BridgeInv'
  BY TypeStep, PlacesStep, ReportsStep, TerminalStep, CancelStep, AnswersStep
     DEF BridgeInv

\* In every reachable state the parts of a call fit together: its stage, its
\* child fiber, its server, its handler, its reports and its answer (dispatch,
\* runDispatch and cancel of rpc-handlers.ts).
THEOREM InvariantHolds == Spec => []BridgeInv
  BY InvInit, InvStep, PTL DEF Spec

\* The variables keep their types, however many frames arrive.
THEOREM TypeCorrect == Spec => []TypeOK
<1>1. BridgeInv => TypeOK
  BY DEF BridgeInv
<1> QED  BY <1>1, InvariantHolds, PTL

\* Two handlers never run for one request id, and none outlives its dispatch
\* (pendingCalls and the order of the finalizers of dispatch).
THEOREM OneHandler == Spec => []OneHandlerPerId
<1>1. BridgeInv => OneHandlerPerId
  <2>1. ASSUME BridgeInv, NEW d \in Dispatches, Active(d)
        PROVE  pendingCalls[IdOf[d]] = d /\ stage[d] \in {"joining", "closing"}
    <3>1. Places(d)
      BY <2>1 DEF BridgeInv, PlacesInv
    <3>2. stage[d] \in {"idle", "noting", "verifying", "refusing", "joining",
                        "canceling", "closing", "done"}
      BY <2>1 DEF BridgeInv, TypeOK
    <3> QED  BY <2>1, <3>1, <3>2 DEF Places, Live
  <2> QED  BY <2>1 DEF OneHandlerPerId
<1> QED  BY <1>1, InvariantHolds, PTL

\* What a call answers is the terminal state it has reported, and it reports at
\* most one (dispatch and runDispatch both report).
THEOREM AnswersTrue == Spec => []AnswersMatch
<1>1. BridgeInv => AnswersMatch
  BY DEF BridgeInv
<1> QED  BY <1>1, InvariantHolds, PTL

\* A terminal state is replaced by none but its removal.
LEMMA TerminalKept ==
    ASSUME BridgeInv, [Next]_vars
    PROVE  \A e \in Dispatches : terminal[IdOf[e]] # None =>
                 terminal'[IdOf[e]] \in {terminal[IdOf[e]], None}
<1> USE IdAssumption, NoneAssumption, BoundAssumption
<1>bi. TypeOK /\ TerminalInv /\ ReportsInv /\ PlacesInv
  BY DEF BridgeInv
<1>1. ASSUME NEW d \in Dispatches, Begin(d)
      PROVE  \A e \in Dispatches : terminal[IdOf[e]] # None =>
                 terminal'[IdOf[e]] \in {terminal[IdOf[e]], None}
  <2>1. CASE MayRun(d)
    BY <1>bi, <1>1, <2>1
       DEF Begin, Kept, MayRun, Stage, TypeOK, TerminalInv, ReportsInv, Reports,
           PlacesInv, Places, Live, serverVars, terminalVars
  <2>2. CASE ~(MayRun(d))
    BY <1>bi, <1>1, <2>2
       DEF Begin, Kept, MayRun, Stage, TypeOK, TerminalInv, ReportsInv, Reports,
           PlacesInv, Places, Live, serverVars, terminalVars
  <2> QED  BY <2>1, <2>2
<1>2. ASSUME NEW d \in Dispatches, Noted(d)
      PROVE  \A e \in Dispatches : terminal[IdOf[e]] # None =>
                 terminal'[IdOf[e]] \in {terminal[IdOf[e]], None}
  BY <1>2, <1>bi
     DEF Noted, Stage, TypeOK, TerminalInv, ReportsInv, Reports, PlacesInv,
         Places, Live, serverVars, terminalVars
<1>3. ASSUME NEW d \in Dispatches, Refuse(d)
      PROVE  \A e \in Dispatches : terminal[IdOf[e]] # None =>
                 terminal'[IdOf[e]] \in {terminal[IdOf[e]], None}
  BY <1>3, <1>bi
     DEF Refuse, Record, Stage, TypeOK, TerminalInv, ReportsInv, Reports,
         PlacesInv, Places, Live, serverVars, terminalVars
<1>4. ASSUME NEW d \in Dispatches, Refused(d)
      PROVE  \A e \in Dispatches : terminal[IdOf[e]] # None =>
                 terminal'[IdOf[e]] \in {terminal[IdOf[e]], None}
  BY <1>4, <1>bi
     DEF Refused, Return, Stage, TypeOK, TerminalInv, ReportsInv, Reports,
         PlacesInv, Places, Live, serverVars, terminalVars
<1>5. ASSUME NEW d \in Dispatches, Fork(d)
      PROVE  \A e \in Dispatches : terminal[IdOf[e]] # None =>
                 terminal'[IdOf[e]] \in {terminal[IdOf[e]], None}
  <2>1. CASE MustInterrupt(d)
    BY <1>bi, <1>5, <2>1
       DEF Fork, Interrupted, MustInterrupt, Record, Child, Stage, TypeOK,
           TerminalInv, ReportsInv, Reports, PlacesInv, Places, Live, serverVars,
           terminalVars
  <2>2. CASE ~(MustInterrupt(d))
    BY <1>bi, <1>5, <2>2
       DEF Fork, Interrupted, MustInterrupt, Record, Child, Stage, TypeOK,
           TerminalInv, ReportsInv, Reports, PlacesInv, Places, Live, serverVars,
           terminalVars
  <2> QED  BY <2>1, <2>2
<1>6. ASSUME NEW d \in Dispatches, Canceled(d)
      PROVE  \A e \in Dispatches : terminal[IdOf[e]] # None =>
                 terminal'[IdOf[e]] \in {terminal[IdOf[e]], None}
  BY <1>6, <1>bi
     DEF Canceled, Return, Stage, TypeOK, TerminalInv, ReportsInv, Reports,
         PlacesInv, Places, Live, serverVars, terminalVars
<1>7. ASSUME NEW d \in Dispatches, Start(d)
      PROVE  \A e \in Dispatches : terminal[IdOf[e]] # None =>
                 terminal'[IdOf[e]] \in {terminal[IdOf[e]], None}
  BY <1>7, <1>bi
     DEF Start, Child, TypeOK, TerminalInv, ReportsInv, Reports, PlacesInv,
         Places, Live, serverVars, terminalVars
<1>8. ASSUME NEW d \in Dispatches, BuildFails(d)
      PROVE  \A e \in Dispatches : terminal[IdOf[e]] # None =>
                 terminal'[IdOf[e]] \in {terminal[IdOf[e]], None}
  BY <1>8, <1>bi
     DEF BuildFails, Return, Child, Stage, TypeOK, TerminalInv, ReportsInv,
         Reports, PlacesInv, Places, Live, serverVars, terminalVars
<1>9. ASSUME NEW d \in Dispatches, Built(d)
      PROVE  \A e \in Dispatches : terminal[IdOf[e]] # None =>
                 terminal'[IdOf[e]] \in {terminal[IdOf[e]], None}
  BY <1>9, <1>bi
     DEF Built, Child, TypeOK, TerminalInv, ReportsInv, Reports, PlacesInv,
         Places, Live, serverVars, terminalVars
<1>10. ASSUME NEW d \in Dispatches, Announced(d)
      PROVE  \A e \in Dispatches : terminal[IdOf[e]] # None =>
                 terminal'[IdOf[e]] \in {terminal[IdOf[e]], None}
  BY <1>10, <1>bi
     DEF Announced, Child, TypeOK, TerminalInv, ReportsInv, Reports, PlacesInv,
         Places, Live, serverVars, terminalVars
<1>11. ASSUME NEW d \in Dispatches, ServeRequest(d)
      PROVE  \A e \in Dispatches : terminal[IdOf[e]] # None =>
                 terminal'[IdOf[e]] \in {terminal[IdOf[e]], None}
  BY <1>11, <1>bi
     DEF ServeRequest, Received, TypeOK, TerminalInv, ReportsInv, Reports,
         PlacesInv, Places, Live, serverVars, terminalVars
<1>12. ASSUME NEW d \in Dispatches, ServeCancel(d)
      PROVE  \A e \in Dispatches : terminal[IdOf[e]] # None =>
                 terminal'[IdOf[e]] \in {terminal[IdOf[e]], None}
  BY <1>12, <1>bi
     DEF ServeCancel, Received, Active, TypeOK, TerminalInv, ReportsInv, Reports,
         PlacesInv, Places, Live, serverVars, terminalVars
<1>13. ASSUME NEW d \in Dispatches, ServeStrayCancel(d)
      PROVE  \A e \in Dispatches : terminal[IdOf[e]] # None =>
                 terminal'[IdOf[e]] \in {terminal[IdOf[e]], None}
  BY <1>13, <1>bi
     DEF ServeStrayCancel, Received, Active, TypeOK, TerminalInv, ReportsInv,
         Reports, PlacesInv, Places, Live, serverVars, terminalVars
<1>14. ASSUME NEW d \in Dispatches,
           NEW outcome \in {"succeeded", "failed", "interrupted"}, HandlerEnds(d, outcome)
      PROVE  \A e \in Dispatches : terminal[IdOf[e]] # None =>
                 terminal'[IdOf[e]] \in {terminal[IdOf[e]], None}
  <2>1. /\ terminal' = [terminal EXCEPT ![IdOf[d]] = StateFor(outcome)]
        /\ Active(d)
    BY <1>14 DEF HandlerEnds, Record
  <2>2. Places(d) /\ Reports(d)
    BY <1>bi DEF PlacesInv, ReportsInv
  <2>3. child[d] = "awaiting" /\ reported[d] = <<>>
    BY <2>1, <2>2 DEF Places, Reports
  <2>4. Live(d)
    BY <1>bi, <2>2, <2>3 DEF Places, Live, TypeOK
  <2>5. terminal[IdOf[d]] = None
    BY <1>bi, <2>3, <2>4 DEF TerminalInv
  <2> QED  BY <1>bi, <2>1, <2>5 DEF TypeOK
<1>15. ASSUME NEW d \in Dispatches, Reported(d)
      PROVE  \A e \in Dispatches : terminal[IdOf[e]] # None =>
                 terminal'[IdOf[e]] \in {terminal[IdOf[e]], None}
  BY <1>15, <1>bi
     DEF Reported, Return, Child, Stage, TypeOK, TerminalInv, ReportsInv, Reports,
         PlacesInv, Places, Live, serverVars, terminalVars
<1>16. ASSUME NEW d \in Dispatches, Cancel(d)
      PROVE  \A e \in Dispatches : terminal[IdOf[e]] # None =>
                 terminal'[IdOf[e]] \in {terminal[IdOf[e]], None}
  <2>1. CASE child[d] = "forked" /\ stage[d] = "joining"
    BY <1>bi, <1>16, <2>1
       DEF Cancel, Interrupted, Record, Child, Stage, TypeOK, TerminalInv,
           ReportsInv, Reports, PlacesInv, Places, Live, serverVars, terminalVars
  <2>2. CASE ~(child[d] = "forked" /\ stage[d] = "joining")
    BY <1>bi, <1>16, <2>2
       DEF Cancel, Interrupted, Record, Child, Stage, TypeOK, TerminalInv,
           ReportsInv, Reports, PlacesInv, Places, Live, serverVars, terminalVars
  <2> QED  BY <2>1, <2>2
<1>17. ASSUME NEW d \in Dispatches, Interrupt(d)
      PROVE  \A e \in Dispatches : terminal[IdOf[e]] # None =>
                 terminal'[IdOf[e]] \in {terminal[IdOf[e]], None}
  BY <1>17, <1>bi
     DEF Interrupt, Return, Stage, Active, TypeOK, TerminalInv, ReportsInv,
         Reports, PlacesInv, Places, Live, serverVars, terminalVars
<1>18. ASSUME NEW d \in Dispatches, Close(d)
      PROVE  \A e \in Dispatches : terminal[IdOf[e]] # None =>
                 terminal'[IdOf[e]] \in {terminal[IdOf[e]], None}
  BY <1>18, <1>bi
     DEF Close, ScopeClosed, Active, Child, Stage, TypeOK, TerminalInv,
         ReportsInv, Reports, PlacesInv, Places, Live, serverVars, terminalVars
<1>19. ASSUME NEW i \in Ids, Age(i)
      PROVE  \A e \in Dispatches : terminal[IdOf[e]] # None =>
                 terminal'[IdOf[e]] \in {terminal[IdOf[e]], None}
  BY <1>19, <1>bi
     DEF Age, TypeOK, TerminalInv, ReportsInv, Reports, PlacesInv, Places, Live,
         serverVars, terminalVars
<1>20. CASE UNCHANGED vars
  BY <1>20, <1>bi DEF vars, TypeOK, TerminalInv, ReportsInv, Reports, PlacesInv,
                      Places, Live
<1> QED
  BY <1>1, <1>2, <1>3, <1>4, <1>5, <1>6, <1>7, <1>8, <1>9, <1>10, <1>11, <1>12,
     <1>13, <1>14, <1>15, <1>16, <1>17, <1>18, <1>19, <1>20
     DEF Next, Goes, Ends

\* Only the server's taking a request starts a handler.
LEMMA OnlyServed ==
    ASSUME TypeOK, PlacesInv, [Next]_vars, NEW e \in Dispatches,
           handler[e] = "none", handler'[e] # "none"
    PROVE  ServeRequest(e)
<1>1. CASE UNCHANGED vars
  BY <1>1 DEF vars
<1>2. ASSUME NEW d \in Dispatches, Begin(d) \/ Goes(d) \/ Cancel(d) \/ Interrupt(d)
      PROVE  ServeRequest(e)
  <2>1. CASE Begin(d)
    BY <2>1 DEF Begin, serverVars
  <2>2. CASE Noted(d) \/ Refuse(d) \/ Refused(d) \/ Fork(d) \/ Canceled(d)
    BY <2>2 DEF Noted, Refuse, Refused, Fork, Canceled, serverVars
  <2>3. CASE Start(d) \/ BuildFails(d) \/ Built(d) \/ Announced(d) \/ Reported(d)
    BY <2>3 DEF Start, BuildFails, Built, Announced, Reported, serverVars
  <2>4. CASE ServeRequest(d)
    <3>1. handler' = [handler EXCEPT ![d] = "running"]
      BY <2>4 DEF ServeRequest
    <3>2. e = d
      BY <3>1 DEF TypeOK
    <3> QED  BY <2>4, <3>2
  <2>5. CASE ServeCancel(d)
    <3>1. Active(d) /\ handler' = [handler EXCEPT ![d] = "stopping"]
      BY <2>5 DEF ServeCancel
    <3> QED  BY <3>1 DEF TypeOK, Active
  <2>6. CASE ServeStrayCancel(d) \/ Close(d) \/ Cancel(d)
    BY <2>6 DEF ServeStrayCancel, Close, Cancel, serverVars
  <2>7. CASE Interrupt(d)
    <3>1. handler' = IF Active(d) THEN [handler EXCEPT ![d] = "stopping"]
                     ELSE handler
      BY <2>7 DEF Interrupt
    <3> QED  BY <3>1 DEF TypeOK, Active
  <2> QED  BY <1>2, <2>1, <2>2, <2>3, <2>4, <2>5, <2>6, <2>7 DEF Goes
<1>3. ASSUME NEW d \in Dispatches, Ends(d)
      PROVE  ServeRequest(e)
  <2>1. PICK outcome \in {"succeeded", "failed", "interrupted"} :
            HandlerEnds(d, outcome)
    BY <1>3 DEF Ends
  <2>2. Active(d) /\ handler' = [handler EXCEPT ![d] = outcome]
    BY <2>1 DEF HandlerEnds
  <2> QED  BY <2>2 DEF TypeOK, Active
<1>4. ASSUME NEW i \in Ids, Age(i)
      PROVE  ServeRequest(e)
  BY <1>4 DEF Age, serverVars
<1> QED  BY <1>1, <1>2, <1>3, <1>4 DEF Next

\* While a terminal state is remembered it does not change, and no handler is
\* started for its id (dispatch, terminalStates).
THEOREM TerminalsAreFinal == Spec => TerminalIsFinal
<1>1. ASSUME BridgeInv, [Next]_vars
      PROVE  \A d \in Dispatches : terminal[IdOf[d]] # None =>
                 /\ terminal'[IdOf[d]] \in {terminal[IdOf[d]], None}
                 /\ handler[d] = "none" => handler'[d] = "none"
  <2>1. \A d \in Dispatches : terminal[IdOf[d]] # None =>
            terminal'[IdOf[d]] \in {terminal[IdOf[d]], None}
    BY <1>1, TerminalKept
  <2>2. ASSUME NEW d \in Dispatches, terminal[IdOf[d]] # None, handler[d] = "none"
        PROVE  handler'[d] = "none"
    <3>1. ~ServeRequest(d)
      <4>1. ASSUME ServeRequest(d) PROVE FALSE
        <5>1. stage[d] = "joining" /\ child[d] = "awaiting"
          BY <1>1, <4>1, ServedInTime DEF BridgeInv
        <5> QED  BY <1>1, <2>2, <5>1
                 DEF BridgeInv, TerminalInv, ReportsInv, Reports, Live
      <4> QED  BY <4>1
    <3> QED  BY <1>1, <2>2, <3>1, OnlyServed DEF BridgeInv
  <2> QED  BY <2>1, <2>2
<1> QED  BY <1>1, InvariantHolds, PTL DEF Spec, TerminalIsFinal

\* A call cancelled in time stays so: its handler is never started.
LEMMA InTimeStep ==
    ASSUME BridgeInv, [Next]_vars, NEW e \in Dispatches, CancelledInTime(e)
    PROVE  CancelledInTime(e)'
<1> USE IdAssumption, NoneAssumption, BoundAssumption
<1>1. TypeOK /\ PlacesInv /\ CancelInv
  BY DEF BridgeInv
<1>2. handler[e] = "none" /\ cancels[e] > 0
  BY DEF CancelledInTime, CancelRequested
<1>3. handler'[e] = "none"
  <2>1. ~ServeRequest(e)
    BY <1>1, <1>2, ServedInTime DEF CancelledInTime
  <2> QED  BY <1>1, <1>2, <2>1, OnlyServed
<1>4. cancels'[e] > 0
  <2>1. ASSUME NEW d \in Dispatches, Cancel(d)
        PROVE  cancels'[e] > 0
    <3>1. cancels' = [cancels EXCEPT ![d] = cancels[d] + 1]
      BY <2>1 DEF Cancel
    <3> QED  BY <1>1, <1>2, <3>1 DEF TypeOK
  <2>2. (\E d \in Dispatches : Cancel(d)) \/ UNCHANGED cancels
    BY DEF Next, Goes, Ends, vars, Begin, Noted, Refuse, Refused, Fork, Canceled,
           Start, BuildFails, Built, Announced, Received, ServeRequest,
           ServeCancel, ServeStrayCancel, HandlerEnds, Reported, Interrupt,
           Close, Age
  <2> QED  BY <1>2, <2>1, <2>2
<1>5. ASSUME child'[e] = "awaiting", server'[e] = "up"
      PROVE  inbox'[e] # <<>> /\ Head(inbox'[e]) = "cancel"
  <2>1. /\ server[e] = "up"
        /\ child[e] \in {"announcing", "awaiting"}
        /\ \/ inbox'[e] = inbox[e] /\ child[e] = "awaiting"
           \/ inbox'[e] = Append(inbox[e], "cancel") /\ child[e] = "awaiting"
           \/ inbox'[e] = Append(inbox[e], "request")
           \/ inbox'[e] = Tail(inbox[e]) /\ (ServeRequest(e) \/ ServeCancel(e))
    <3>1. CASE UNCHANGED vars
      BY <1>5, <3>1 DEF vars
    <3>2. ASSUME NEW i \in Ids, Age(i)
          PROVE  UNCHANGED <<server, child, inbox>>
      BY <3>2 DEF Age, serverVars
    <3>3. ASSUME NEW d \in Dispatches,
                 \/ Begin(d) \/ Noted(d) \/ Refuse(d)
          PROVE  UNCHANGED <<server, child, inbox>>
      BY <3>3 DEF Begin, Noted, Refuse, serverVars
    <3>4. ASSUME NEW d \in Dispatches,
                 \/ Refused(d) \/ Canceled(d) \/ Interrupt(d)
          PROVE  UNCHANGED <<child, inbox>> /\ server[e] = "up"
      <4>1. UNCHANGED <<child, inbox>> /\ server' = [server EXCEPT ![d] = "closed"]
        BY <3>4 DEF Refused, Canceled, Interrupt, Return
      <4> QED  BY <1>1, <1>5, <4>1 DEF TypeOK
    <3>5. ASSUME NEW d \in Dispatches, Fork(d) \/ Start(d) \/ Built(d) \/ Close(d)
          PROVE  UNCHANGED <<server, inbox>> /\ child[e] = "awaiting"
      <4>1. UNCHANGED <<server, inbox>> /\
            \E c \in {"exited", "forked", "building", "announcing", "none"} :
                child' = [child EXCEPT ![d] = c]
        BY <3>5 DEF Fork, Start, Built, Close, Interrupted, Child, serverVars
      <4> QED  BY <1>1, <1>5, <4>1 DEF TypeOK
    <3>6. ASSUME NEW d \in Dispatches, BuildFails(d) \/ Reported(d)
          PROVE  UNCHANGED inbox /\ child[e] = "awaiting" /\ server[e] = "up"
      <4>1. /\ UNCHANGED inbox /\ child' = [child EXCEPT ![d] = "exited"]
            /\ server' = [server EXCEPT ![d] = "closed"]
        BY <3>6 DEF BuildFails, Reported, Return, Child
      <4> QED  BY <1>1, <1>5, <4>1 DEF TypeOK
    <3>7. ASSUME NEW d \in Dispatches, Announced(d)
          PROVE  /\ UNCHANGED server
                 /\ \/ e # d /\ child[e] = "awaiting" /\ inbox'[e] = inbox[e]
                    \/ e = d /\ child[e] = "announcing"
                       /\ inbox'[e] = Append(inbox[e], "request")
      <4>1. /\ child' = [child EXCEPT ![d] = "awaiting"] /\ UNCHANGED server
            /\ inbox' = [inbox EXCEPT ![d] = Append(inbox[d], "request")]
            /\ child[d] = "announcing"
        BY <3>7 DEF Announced, Child
      <4> QED  BY <1>1, <1>5, <4>1 DEF TypeOK
    <3>8. ASSUME NEW d \in Dispatches, ServeRequest(d) \/ ServeCancel(d)
          PROVE  /\ UNCHANGED <<server, child>>
                 /\ \/ inbox'[e] = inbox[e]
                    \/ e = d /\ inbox'[e] = Tail(inbox[e])
      <4>1. /\ UNCHANGED <<server, child>>
            /\ inbox' = [inbox EXCEPT ![d] = Tail(inbox[d])]
        BY <3>8 DEF ServeRequest, ServeCancel, Received
      <4> QED  BY <1>1, <4>1 DEF TypeOK
    <3>9. ASSUME NEW d \in Dispatches, ServeStrayCancel(d)
          PROVE  /\ UNCHANGED child /\ server[e] = "up" /\ inbox'[e] = inbox[e]
      <4>1. /\ UNCHANGED child /\ server' = [server EXCEPT ![d] = "deaf"]
            /\ inbox' = [inbox EXCEPT ![d] = Tail(inbox[d])]
        BY <3>9 DEF ServeStrayCancel, Received
      <4> QED  BY <1>1, <1>5, <4>1 DEF TypeOK
    <3>10. ASSUME NEW d \in Dispatches, Ends(d)
           PROVE  UNCHANGED <<server, inbox>> /\ child[e] = "awaiting"
      <4>1. UNCHANGED <<server, inbox>> /\ child' = [child EXCEPT ![d] = "reporting"]
        BY <3>10 DEF Ends, HandlerEnds, Child
      <4> QED  BY <1>1, <1>5, <4>1 DEF TypeOK
    <3>11. ASSUME NEW d \in Dispatches, Cancel(d)
           PROVE  /\ UNCHANGED server /\ child[e] = "awaiting"
                  /\ \/ inbox'[e] = inbox[e]
                     \/ inbox'[e] = Append(inbox[e], "cancel")
      <4>1. CASE child[d] = "forked" /\ stage[d] = "joining"
        <5>1. /\ UNCHANGED <<server, inbox>>
              /\ child' = [child EXCEPT ![d] = "exited"]
          BY <3>11, <4>1 DEF Cancel, Interrupted, Child
        <5> QED  BY <1>1, <1>5, <5>1 DEF TypeOK
      <4>2. CASE ~(child[d] = "forked" /\ stage[d] = "joining")
        <5>1. /\ UNCHANGED <<server, child>>
              /\ \/ inbox' = inbox
                 \/ inbox' = [inbox EXCEPT ![d] = Append(inbox[d], "cancel")]
          BY <3>11, <4>2 DEF Cancel
        <5> QED  BY <1>1, <1>5, <5>1 DEF TypeOK
      <4> QED  BY <4>1, <4>2
    <3> QED  BY <1>5, <3>1, <3>2, <3>3, <3>4, <3>5, <3>6, <3>7, <3>8, <3>9, <3>10,
                <3>11 DEF Next, Goes
  <2>2. ~ServeRequest(e) /\ ~ServeCancel(e)
    BY <1>1, <1>2, ServedInTime DEF CancelledInTime, ServeCancel, Active
  <2>3. inbox[e] # <<>> /\ Head(inbox[e]) = "cancel"
    BY <1>1, <2>1 DEF CancelledInTime, CancelInv
  <2>4. inbox[e] \in Seq({"request", "cancel"})
    BY <1>1 DEF TypeOK
  <2>5. ASSUME NEW x \in {"request", "cancel"}, inbox'[e] = Append(inbox[e], x)
        PROVE  inbox'[e] # <<>> /\ Head(inbox'[e]) = "cancel"
    BY <2>3, <2>4, <2>5
  <2> QED  BY <2>1, <2>2, <2>3, <2>5
<1> QED  BY <1>3, <1>4, <1>5 DEF CancelledInTime, CancelRequested

\* A call that was cancelled before its request went to the server never runs
\* its handler (cancel, and the order in which a server reads its inbox).
THEOREM CancelledCallsNeverStart == Spec => CancelledNeverStarts
<1>1. ASSUME NEW d \in Dispatches
      PROVE  Spec => [](CancelRequested(d) /\ child[d] # "awaiting"
                          /\ handler[d] = "none" => [](handler[d] = "none"))
  <2>1. BridgeInv /\ CancelledInTime(d) /\ [Next]_vars => CancelledInTime(d)'
    BY InTimeStep
  <2>2. CancelRequested(d) /\ child[d] # "awaiting" /\ handler[d] = "none"
          => CancelledInTime(d)
    BY DEF CancelledInTime
  <2>3. CancelledInTime(d) => handler[d] = "none"
    BY DEF CancelledInTime
  <2> QED  BY <2>1, <2>2, <2>3, InvariantHolds, PTL DEF Spec
<1> QED  BY <1>1 DEF CancelledNeverStarts

===============================================================================
