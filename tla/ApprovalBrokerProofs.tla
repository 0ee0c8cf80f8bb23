------------------------- MODULE ApprovalBrokerProofs -------------------------
(***************************************************************************)
(* Proofs about ApprovalBroker: the type, one prompt for an actor, and     *)
(* what the entries of its queue hold.  The argument is that at most one   *)
(* request at a time drives an actor's queue, and that the active entry is *)
(* its entry.                                                              *)
(***************************************************************************)
EXTENDS ApprovalBroker, TLAPS

\* A loop shows a prompt from the moment it is scheduled until the decision is
\* taken out of the queue; after that it only completes those who waited.
Shown == {"scheduled", "prompting", "decided"}

\* The entries a loop holds belong to the actor of the request that started it,
\* and a request that has not started a loop has none.
LoopOK(r) ==
    /\ loop[r].at \in Shown \cup {"completing"} =>
           /\ loop[r].entry # None
           /\ ActorOf[loop[r].entry.key] = ActorOfRequest(r)
    /\ loop[r].next # None => ActorOf[loop[r].next.key] = ActorOfRequest(r)
    /\ pc[r] \in {"new", "starting"} => loop[r].at = "none"

\* Every loop holds what it should.
LoopsInv == \A r \in Requests : LoopOK(r)

\* An entry is filed under the actor of its key.
FiledInv ==
    \A a \in Actors :
        /\ active[a] # None => ActorOf[active[a].key] = a
        /\ \A n \in DOMAIN queued[a] : ActorOf[queued[a][n].key] = a

\* The type invariant, strengthened to be inductive.
TypeInv == TypeOK /\ LoopsInv /\ FiledInv

\* A waiter is added to an entry, and nothing else about it changes.
LEMMA WaiterAdded ==
    ASSUME NEW e \in Entry, NEW r \in Requests
    PROVE  AddWaiter(e, r) \in Entry /\ AddWaiter(e, r).key = e.key
  BY DEF AddWaiter, Entry

\* An interruption changes where a loop is and nothing else about it.
LEMMA LoopInterrupted ==
    ASSUME NEW l \in Loops
    PROVE  /\ Interrupted(l) \in Loops
           /\ Interrupted(l).entry = l.entry /\ Interrupted(l).next = l.next
           /\ l.at = "scheduled" => Interrupted(l).at = "ended"
           /\ l.at \in {"prompting", "decided", "completing"} =>
                  Interrupted(l).at = "stopping"
           /\ l.at \in {"none", "stopping", "failing", "ended"} =>
                  Interrupted(l).at = l.at
<1>1. CASE l.at = "scheduled"
  BY <1>1 DEF Interrupted, Loops, Places
<1>2. CASE l.at \in {"prompting", "decided", "completing"}
  BY <1>2 DEF Interrupted, Loops, Places
<1>3. CASE l.at \in {"none", "stopping", "failing", "ended"}
  BY <1>3 DEF Interrupted, Loops, Places
<1> QED
  BY <1>1, <1>2, <1>3 DEF Loops, Places

\* Every step of the broker keeps the type invariant: one case per action.
LEMMA TypeStep == TypeInv /\ [Next]_vars => TypeInv'
<1> SUFFICES ASSUME TypeInv, [Next]_vars PROVE TypeInv'
  OBVIOUS
<1> USE KeyAssumption, NoneAssumption DEF TypeInv
<1>1. ASSUME NEW q \in Requests,
             \/ AskFails(q) \/ AskBypass(q) \/ AskDenied(q) \/ Overflow(q)
             \/ StartClosed(q) \/ Abandon(q)
      PROVE  TypeInv'
  <2>1. TypeOK'
    BY <1>1
       DEF AskFails, AskBypass, AskDenied, Overflow, StartClosed, Abandon,
           ReturnAtOnce, state, TypeOK, Answers, Decisions
  <2>2. LoopsInv'
    BY <1>1
       DEF AskFails, AskBypass, AskDenied, Overflow, StartClosed, Abandon,
           ReturnAtOnce, state, TypeOK, LoopsInv, LoopOK, ActorOfRequest,
           NeedsPrompt, Enqueue
  <2>3. FiledInv'
    BY <1>1
       DEF AskFails, AskBypass, AskDenied, Overflow, StartClosed, Abandon,
           ReturnAtOnce, state, FiledInv
  <2> QED  BY <2>1, <2>2, <2>3
<1>2. ASSUME NEW q \in Requests, JoinActive(q)
      PROVE  TypeInv'
  <2>4. ActorOfRequest(q) \in Actors /\ active[ActorOfRequest(q)] \in Entry
    BY <1>2 DEF JoinActive, IsActive, ActorOfRequest, TypeOK
  <2>5. active' = [active EXCEPT ![ActorOfRequest(q)] =
            AddWaiter(active[ActorOfRequest(q)], q)]
     BY <1>2 DEF JoinActive
  <2>6. /\ pc' = [pc EXCEPT ![q] = "waiting"]
        /\ UNCHANGED <<devApproveAll, queued, denied, closed, fiberAt, loop,
                       answer, usurped>>
     BY <1>2 DEF JoinActive
  <2>7. AddWaiter(active[ActorOfRequest(q)], q) \in Entry
    BY <2>4, WaiterAdded
  <2>1. TypeOK'
    BY <2>4, <2>5, <2>6, <2>7 DEF TypeOK
  <2>2. LoopsInv'
    BY <1>2 DEF JoinActive, TypeOK, LoopsInv, LoopOK, ActorOfRequest, Enqueue
  <2>3. FiledInv'
    BY <2>4, <2>5, <2>6, WaiterAdded DEF TypeOK, FiledInv
  <2> QED  BY <2>1, <2>2, <2>3
<1>3. ASSUME NEW q \in Requests, JoinQueued(q)
      PROVE  TypeInv'
  <2> DEFINE a == ActorOfRequest(q)
  <2>4. a \in Actors
    BY DEF ActorOfRequest
  <2>5. PICK n \in DOMAIN queued[a] : queued' = [queued EXCEPT ![a][n] =
                                          AddWaiter(queued[a][n], q)]
     BY <1>3 DEF JoinQueued, QueuePositions, ActorOfRequest
  <2>6. /\ pc' = [pc EXCEPT ![q] = "waiting"]
        /\ UNCHANGED <<devApproveAll, active, denied, closed, fiberAt, loop,
                       answer, usurped>>
     BY <1>3 DEF JoinQueued
  <2>7. queued[a] \in Seq(Entry) /\ queued[a][n] \in Entry
    BY <2>4 DEF TypeOK
  <2>8. /\ AddWaiter(queued[a][n], q) \in Entry
        /\ AddWaiter(queued[a][n], q).key = queued[a][n].key
     BY <2>7, WaiterAdded
  <2> HIDE DEF a
  <2>9. queued' = [queued EXCEPT ![a] = [queued[a] EXCEPT ![n] =
            AddWaiter(queued[a][n], q)]]
    BY <2>5
  <2>10. [queued[a] EXCEPT ![n] = AddWaiter(queued[a][n], q)] \in Seq(Entry)
     BY <2>7, <2>8
  <2>1. TypeOK'
    BY <2>4, <2>6, <2>9, <2>10 DEF TypeOK
  <2>2. LoopsInv'
    BY <1>3 DEF JoinQueued, TypeOK, LoopsInv, LoopOK, ActorOfRequest, Enqueue
  <2>3. FiledInv'
    BY <2>4, <2>6, <2>7, <2>8, <2>9 DEF TypeOK, FiledInv
  <2> QED  BY <2>1, <2>2, <2>3
<1>4. ASSUME NEW q \in Requests, TakeSlot(q)
      PROVE  TypeInv'
  <2>1. TypeOK'
    BY <1>4 DEF TakeSlot, TypeOK, NewEntry, Entry, ActorOfRequest
  <2>2. LoopsInv'
    BY <1>4
       DEF TakeSlot, TypeOK, LoopsInv, LoopOK, ActorOfRequest, NeedsPrompt,
           Enqueue
  <2>3. FiledInv'
    BY <1>4 DEF TakeSlot, TypeOK, FiledInv, ActorOfRequest, NewEntry, Entry
  <2> QED  BY <2>1, <2>2, <2>3
<1>5. ASSUME NEW q \in Requests, JoinQueue(q)
      PROVE  TypeInv'
  <2>0. NewEntry(q) \in Entry
    BY DEF NewEntry, Entry
  <2>1. TypeOK'
    BY <1>5, <2>0 DEF JoinQueue, TypeOK, ActorOfRequest
  <2>2. LoopsInv'
    BY <1>5
       DEF JoinQueue, TypeOK, LoopsInv, LoopOK, ActorOfRequest, NeedsPrompt,
           Enqueue
  <2>3. FiledInv'
    BY <1>5, <2>0 DEF JoinQueue, TypeOK, FiledInv, ActorOfRequest, NewEntry
  <2> QED  BY <2>1, <2>2, <2>3
<1>6. ASSUME NEW q \in Requests, StartLoop(q)
      PROVE  TypeInv'
  <2>0. NewEntry(q) \in Entry /\ NewEntry(q).key = KeyOf[q]
    BY DEF NewEntry, Entry
  <2>4. ASSUME NEW p \in Requests
        PROVE  /\ loop'[p] \in Loops /\ loop[p] \in Loops
               /\ p = q => /\ loop'[p].at = "scheduled"
                           /\ loop'[p].entry = NewEntry(q)
                           /\ loop'[p].next = None
               /\ p # q => loop'[p] \in {loop[p], Interrupted(loop[p])}
    <3>1. loop[p] \in Loops
      BY DEF TypeOK
    <3>2. p = q => loop'[p] =
              [NoLoop EXCEPT !.at = "scheduled", !.entry = NewEntry(q)]
      BY <1>6 DEF StartLoop
    <3>3. p # q => loop'[p] \in {loop[p], Interrupted(loop[p])}
      BY <1>6 DEF StartLoop
    <3>4. CASE p = q
      BY <2>0, <3>1, <3>2, <3>4 DEF NoLoop, Loops, Places
    <3>5. CASE p # q
      <4>1. Interrupted(loop[p]) \in Loops
        BY <3>1, LoopInterrupted
      <4> QED  BY <3>1, <3>3, <3>5, <4>1
    <3> QED  BY <3>4, <3>5
  <2>1. TypeOK'
    <3>1. loop' \in [Requests -> Loops]
      BY <1>6, <2>4 DEF StartLoop
    <3>2. fiberAt' \in [Keys -> Requests \cup {None}]
      BY <1>6 DEF StartLoop, TypeOK
    <3>3. usurped' \in SUBSET Actors
      BY <1>6 DEF StartLoop, TypeOK, ActorOfRequest
    <3> QED  BY <1>6, <3>1, <3>2, <3>3 DEF StartLoop, TypeOK, state
  <2>2. LoopsInv' 
    <3> SUFFICES ASSUME NEW p \in Requests
                 PROVE  LoopOK(p)'
      BY DEF LoopsInv
    <3>1. LoopOK(p)
      BY DEF LoopsInv
    <3>4. pc'[p] = IF p = q THEN "waiting" ELSE pc[p]
      BY <1>6 DEF StartLoop, TypeOK
    <3>2. CASE p = q
      BY <2>0, <2>4, <3>2, <3>4 DEF LoopOK, ActorOfRequest, Entry
    <3>3. CASE p # q
      <4>1. CASE loop'[p] = loop[p]
        BY <3>1, <3>3, <3>4, <4>1 DEF LoopOK, ActorOfRequest
      <4>2. CASE loop'[p] = Interrupted(loop[p])
        BY <2>4, <3>1, <3>3, <3>4, <4>2, LoopInterrupted
           DEF LoopOK, ActorOfRequest, Shown, Loops, Places
      <4> QED  BY <2>4, <3>3, <4>1, <4>2
    <3> QED  BY <3>2, <3>3
  <2>3. FiledInv'
    BY <1>6 DEF StartLoop, FiledInv, state
  <2> QED  BY <2>1, <2>2, <2>3
<1>7. ASSUME NEW q \in Requests, Begin(q)
      PROVE  TypeInv'
  <2>4. loop[q] \in Loops
    BY DEF TypeOK
  <2>5. loop' \in [Requests -> Loops]
    BY <1>7, <2>4 DEF Begin, Move, TypeOK, state, Loops, Places
  <2>1. TypeOK'
    BY <1>7, <2>5 DEF Begin, Move, TypeOK, state, Loops, Places
  <2>2. LoopsInv'
    BY <1>7
       DEF Begin, Move, TypeOK, LoopsInv, LoopOK, ActorOfRequest, Loops, Shown
  <2>3. FiledInv'
    BY <1>7 DEF Begin, FiledInv, state
  <2> QED  BY <2>1, <2>2, <2>3
<1>8. ASSUME NEW q \in Requests, NEW result \in Decisions \cup {"failed"},
             PromptReturns(q, result)
      PROVE  TypeInv'
  <2>4. loop[q] \in Loops
    BY DEF TypeOK
  <2>5. loop' \in [Requests -> Loops]
    BY <1>8, <2>4 DEF PromptReturns, TypeOK, state, Loops, Places, Answers
  <2>1. TypeOK'
    BY <1>8, <2>5 DEF PromptReturns, TypeOK, state, Loops, Places, Answers
  <2>2. LoopsInv'
    BY <1>8
       DEF PromptReturns, TypeOK, LoopsInv, LoopOK, ActorOfRequest, Loops, Shown
  <2>3. FiledInv'
    BY <1>8 DEF PromptReturns, FiledInv, state
  <2> QED  BY <2>1, <2>2, <2>3
<1>9. ASSUME NEW q \in Requests, NEW audited \in BOOLEAN, Finish(q, audited)
      PROVE  TypeInv'
  <2> DEFINE k == loop[q].entry.key
             a == ActorOf[k]
             next == IF queued[a] = <<>> THEN None ELSE Head(queued[a])
  <2>0. /\ /\ loop[q].entry \in Entry
           /\ k \in Keys
           /\ a \in Actors
           /\ a = ActorOfRequest(q)
    <3>1. loop[q] \in Loops /\ loop[q].at = "decided" /\ LoopOK(q)
      BY <1>9 DEF Finish, TypeOK, LoopsInv
    <3>2. loop[q].entry \in Entry
      BY <3>1 DEF LoopOK, Loops, Shown
    <3> QED  BY <3>1, <3>2 DEF Entry, LoopOK, Shown
  <2>5. /\ next \in Entry \cup {None}
        /\ (next # None => ActorOf[next.key] = a /\ queued[a] # <<>>)
        BY <2>0 DEF TypeOK, FiledInv
  <2>6. Removed(loop[q].entry).waiters \in SUBSET Requests
        BY <2>0 DEF TypeOK, Removed, IsActive, Entry
  <2>7. /\ active' = [active EXCEPT ![a] = next]
        /\ queued' =
               [queued EXCEPT ![a] = IF next = None THEN <<>> ELSE Tail(@)]
        /\ denied' =
               IF DeniesScope(loop[q].result) THEN denied \cup {k} ELSE denied
        /\ loop' = [loop EXCEPT ![q] =
                  [at |-> "completing", entry |-> loop[q].entry, next |-> next,
                   result |-> IF audited THEN loop[q].result ELSE "failed",
                   todo |-> Removed(loop[q].entry).waiters]]
        BY <1>9 DEF Finish
  <2>8. UNCHANGED <<devApproveAll, closed, fiberAt, pc, answer, usurped>>
    BY <1>9 DEF Finish
  <2> HIDE DEF k, a, next
  <2>9. Tail(queued[a]) \in Seq(Entry) \/ queued[a] = <<>>
    BY <2>0 DEF TypeOK
  <2>1. TypeOK'
     <3>1. loop[q].result \in Answers \cup {None}
       BY DEF TypeOK, Loops
     <3>2. loop' \in [Requests -> Loops]
       BY <2>0, <2>5, <2>6, <2>7, <3>1 DEF TypeOK, Loops, Places, Answers
     <3>3. active' \in [Actors -> Entry \cup {None}]
       BY <2>0, <2>5, <2>7 DEF TypeOK
     <3>4. queued' \in [Actors -> Seq(Entry)]
       BY <2>0, <2>5, <2>7, <2>9 DEF TypeOK
     <3>5. denied' \in SUBSET Keys
       BY <2>0, <2>7 DEF TypeOK
     <3> QED  BY <2>8, <3>2, <3>3, <3>4, <3>5 DEF TypeOK
  <2>2. LoopsInv'
    <3> SUFFICES ASSUME NEW p \in Requests
                 PROVE  LoopOK(p)'
      BY DEF LoopsInv
    <3>1. LoopOK(p) /\ pc' = pc
      BY <2>8 DEF LoopsInv
    <3>2. CASE p = q
      <4>1. /\ loop'[p].at = "completing" /\ loop'[p].entry = loop[q].entry
            /\ loop'[p].next = next
        BY <2>7, <3>2 DEF TypeOK
      <4>2. loop[q].at = "decided"
        BY <1>9 DEF Finish
      <4>3. ActorOfRequest(p)' = ActorOfRequest(p)
        BY DEF ActorOfRequest
      <4>4. k = loop[q].entry.key /\ a = ActorOf[k]
        BY DEF k, a
      <4> QED
        BY <2>0, <2>5, <3>1, <3>2, <4>1, <4>2, <4>3, <4>4 DEF LoopOK, Shown
    <3>3. CASE p # q
      <4>1. loop'[p] = loop[p]
        BY <2>7, <3>3 DEF TypeOK
      <4> QED  BY <3>1, <4>1 DEF LoopOK, ActorOfRequest
    <3> QED  BY <3>2, <3>3
  <2>3. FiledInv'
    BY <2>0, <2>5, <2>7, <2>8 DEF FiledInv, TypeOK
  <2> QED  BY <2>1, <2>2, <2>3
<1>10. ASSUME NEW q \in Requests, CompleteWaiter(q)
       PROVE  TypeInv'
  <2>4. loop[q] \in Loops
    BY DEF TypeOK
  <2>6. PICK w \in loop[q].todo :
             /\ answer' = [answer EXCEPT ![w] = IF @ = None THEN loop[q].result
                                                ELSE @]
             /\ loop' = [loop EXCEPT ![q].todo = loop[q].todo \ {w}]
    BY <1>10 DEF CompleteWaiter
  <2>7. UNCHANGED <<devApproveAll, state, closed, fiberAt, pc, usurped>>
    BY <1>10 DEF CompleteWaiter
  <2>8. [loop[q] EXCEPT !.todo = loop[q].todo \ {w}] \in Loops
    BY <2>4 DEF Loops
  <2>5. loop' \in [Requests -> Loops]
    BY <2>6, <2>8 DEF TypeOK
  <2>1. TypeOK'
    <3>1. answer' \in [Requests -> Answers \cup {None}]
      BY <2>4, <2>6 DEF TypeOK, Loops
    <3> QED  BY <2>5, <2>7, <3>1 DEF TypeOK, state
  <2>2. LoopsInv'
    BY <2>4, <2>6, <2>7
       DEF TypeOK, LoopsInv, LoopOK, ActorOfRequest, Loops, Shown
  <2>3. FiledInv'
    BY <1>10 DEF CompleteWaiter, FiledInv, state
  <2> QED  BY <2>1, <2>2, <2>3
<1>11. ASSUME NEW q \in Requests, PromptNext(q)
       PROVE  TypeInv'
  <2>4. loop[q] \in Loops
    BY DEF TypeOK
  <2>5. loop' \in [Requests -> Loops]
    BY <1>11, <2>4 DEF PromptNext, TypeOK, state, Loops, Places, NoLoop
  <2>1. TypeOK'
    BY <1>11, <2>5 DEF PromptNext, TypeOK, state, Loops, Places, NoLoop
  <2>2. LoopsInv'
    BY <1>11
       DEF PromptNext, TypeOK, LoopsInv, LoopOK, ActorOfRequest, Loops, Shown,
           NoLoop
  <2>3. FiledInv'
    BY <1>11 DEF PromptNext, FiledInv, state
  <2> QED  BY <2>1, <2>2, <2>3
<1>12. ASSUME NEW q \in Requests, LoopEnds(q)
       PROVE  TypeInv'
  <2>4. loop[q] \in Loops
    BY DEF TypeOK
  <2>5. loop' \in [Requests -> Loops]
    BY <1>12, <2>4 DEF LoopEnds, TypeOK, state, Loops, Places, NoLoop
  <2>1. TypeOK'
    BY <1>12, <2>5 DEF LoopEnds, TypeOK, state, Loops, Places, NoLoop
  <2>2. LoopsInv'
    BY <1>12
       DEF LoopEnds, IsDone, TypeOK, LoopsInv, LoopOK, ActorOfRequest, Loops,
           Shown, NoLoop
  <2>3. FiledInv'
    BY <1>12 DEF LoopEnds, FiledInv, state
  <2> QED  BY <2>1, <2>2, <2>3
<1>13. ASSUME NEW q \in Requests, InterruptLoop(q)
       PROVE  TypeInv'
  <2> DEFINE a == ActorOfRequest(q)
             entries == IF IsActive(KeyOf[q])
                      THEN {active[a]} \cup
                          {queued[a][n] : n \in DOMAIN queued[a]}
                      ELSE {NewEntry(q)}
  <2>0. a \in Actors
    BY DEF ActorOfRequest
  <2>4. entries \subseteq Entry
    <3>1. CASE IsActive(KeyOf[q])
      <4>1. active[a] \in Entry
        BY <2>0, <3>1 DEF TypeOK, IsActive, ActorOfRequest
      <4>2. \A n \in DOMAIN queued[a] : queued[a][n] \in Entry
        BY <2>0 DEF TypeOK
      <4> QED  BY <3>1, <4>1, <4>2
    <3>2. CASE ~IsActive(KeyOf[q])
      BY <3>2 DEF NewEntry, Entry
    <3> QED  BY <3>1, <3>2
  <2>5. UNION {e.waiters : e \in entries} \in SUBSET Requests
     BY <2>4 DEF Entry
  <2>6. /\ active' = [active EXCEPT ![a] = None]
        /\ queued' = [queued EXCEPT ![a] = <<>>]
        /\ loop' = [loop EXCEPT ![q] =
                  [NoLoop EXCEPT !.at = "failing", !.result = "broker shutdown",
                                 !.todo = UNION {e.waiters : e \in entries}]]
        /\ UNCHANGED <<devApproveAll, denied, closed, fiberAt, pc, answer, usurped>>
        /\ loop[q].at = "stopping"
     BY <1>13 DEF InterruptLoop
  <2> HIDE DEF a, entries
  <2>7. [NoLoop EXCEPT !.at = "failing", !.result = "broker shutdown",
                       !.todo = UNION {e.waiters : e \in entries}] \in Loops
    BY <2>5 DEF NoLoop, Loops, Places, Answers
  <2>1. TypeOK'
    <3>1. loop' \in [Requests -> Loops]
      BY <2>6, <2>7 DEF TypeOK
    <3>2. /\ active' \in [Actors -> Entry \cup {None}]
          /\ queued' \in [Actors -> Seq(Entry)]
      BY <2>0, <2>6 DEF TypeOK
    <3> QED  BY <2>6, <3>1, <3>2 DEF TypeOK
  <2>2. LoopsInv'
    BY <2>5, <2>6
       DEF TypeOK, LoopsInv, LoopOK, ActorOfRequest, Loops, Shown, NoLoop
  <2>3. FiledInv'
    BY <2>0, <2>6 DEF TypeOK, FiledInv
  <2> QED  BY <2>1, <2>2, <2>3
<1>14. ASSUME Shutdown
       PROVE  TypeInv'
  <2>4. ASSUME NEW p \in Requests
        PROVE  loop[p] \in Loops /\ loop'[p] \in {loop[p], Interrupted(loop[p])}
    BY <1>14 DEF Shutdown, TypeOK
  <2>5. loop' \in [Requests -> Loops]
    BY <1>14, <2>4, LoopInterrupted DEF Shutdown
  <2>1. TypeOK'
    BY <1>14, <2>5 DEF Shutdown, TypeOK, state
  <2>2. LoopsInv' 
    <3> SUFFICES ASSUME NEW p \in Requests
                 PROVE  LoopOK(p)'
      BY DEF LoopsInv
    <3>1. LoopOK(p) /\ pc'[p] = pc[p]
      BY <1>14 DEF Shutdown, LoopsInv
    <3>2. CASE loop'[p] = loop[p]
      BY <3>1, <3>2 DEF LoopOK, ActorOfRequest
    <3>3. CASE loop'[p] = Interrupted(loop[p])
      BY <2>4, <3>1, <3>3, LoopInterrupted
         DEF LoopOK, ActorOfRequest, Shown, Loops, Places
    <3> QED  BY <2>4, <3>2, <3>3
  <2>3. FiledInv'
    BY <1>14 DEF Shutdown, FiledInv, state
  <2> QED  BY <2>1, <2>2, <2>3
<1>15. CASE UNCHANGED vars
  BY <1>15 DEF vars, state, TypeOK, LoopsInv, LoopOK, FiledInv, ActorOfRequest
<1> QED
  BY <1>1, <1>2, <1>3, <1>4, <1>5, <1>6, <1>7, <1>8, <1>9, <1>10, <1>11, <1>12,
     <1>13, <1>14, <1>15
     DEF Next, Ask, Start, Run

\* The invariant holds when the broker is made.
LEMMA TypeInit == Init => TypeInv
<1> SUFFICES ASSUME Init PROVE TypeInv
  OBVIOUS
<1>1. NoLoop \in Loops
  BY DEF NoLoop, Loops, Places
<1>2. TypeOK
  <2>1. queued \in [Actors -> Seq(Entry)]
    BY DEF Init
  <2>2. loop \in [Requests -> Loops]
    BY <1>1 DEF Init
  <2>3. pc \in [Requests -> {"new", "starting", "waiting", "returned",
                            "abandoned"}]
    BY DEF Init
  <2> QED  BY <2>1, <2>2, <2>3 DEF Init, TypeOK
<1>3. LoopsInv
  BY NoneAssumption DEF Init, LoopsInv, LoopOK, NoLoop, Shown
<1>4. FiledInv
  BY NoneAssumption DEF Init, FiledInv
<1> QED  BY <1>2, <1>3, <1>4 DEF TypeInv

\* The strengthened type invariant holds in every reachable state.
LEMMA TypeInvariant == Spec => []TypeInv
<1> QED  BY TypeInit, TypeStep, PTL DEF Spec

\* The broker's state always has its type, for every set of requests, keys and
\* actors and every situation: no assumption but those on the constants.
THEOREM TypeCorrect == Spec => []TypeOK
<1>1. TypeInv => TypeOK
  BY DEF TypeInv
<1> QED  BY <1>1, TypeInvariant, PTL

-------------------------------------------------------------------------------

\* A request drives its actor's queue while it is between taking the slot and
\* starting its loop, while its loop shows a prompt, and while the loop still has
\* another entry to prompt for (approval-broker.ts:192-236).
Drives(r) ==
    \/ pc[r] = "starting"
    \/ loop[r].at \in Shown
    \/ loop[r].at = "completing" /\ loop[r].next # None

\* The key a driver prompts for, or is about to.
Subject(r) ==
    IF pc[r] = "starting" THEN KeyOf[r]
    ELSE IF loop[r].at = "completing" THEN loop[r].next.key
    ELSE loop[r].entry.key

\* No loop of the request's actor has been usurped: its queue is in order.
Kept(r) == ActorOfRequest(r) \notin usurped

\* While the broker is open no loop has been interrupted; once it is closed
\* every loop is interrupted, failing or over.
ShutInv ==
    \A r \in Requests : Kept(r) => loop[r].at \in
        {"none", "ended"} \cup (IF closed THEN {"stopping", "failing"}
                                ELSE Shown \cup {"completing"})

\* The fiber map holds a loop under the key it was started for.
HolderInv == \A k \in Keys : fiberAt[k] # None => KeyOf[fiberAt[k]] = k

\* The fiber map holds the loop of a key until it ends.
MapInv ==
    \A r \in Requests : Kept(r) /\ loop[r].at \notin {"none", "ended"} =>
        fiberAt[KeyOf[r]] = r

\* An actor has at most one driver, and the actor's active entry is the
\* driver's: the reason why there is one prompt for an actor.
DriveInv ==
    \A r \in Requests : Kept(r) /\ Drives(r) =>
        /\ active[ActorOfRequest(r)] # None
        /\ active[ActorOfRequest(r)].key = Subject(r)
        /\ \A s \in Requests :
               Drives(s) /\ ActorOfRequest(s) = ActorOfRequest(r) => s = r

\* Nobody starts a prompt for a scope that has been denied.
StartInv ==
    \A r \in Requests : Kept(r) /\ pc[r] = "starting" => KeyOf[r] \notin denied

\* No entry is kept for a scope that has been denied.
FreshInv == \A a \in Actors \ usurped : EntryKeys(a) \cap denied = {}

\* The inductive invariant of the broker: the type, who drives which queue, and
\* what the entries of a queue say.
PromptInv ==
    /\ TypeInv
    /\ HolderInv
    /\ ShutInv
    /\ ~closed => MapInv /\ DriveInv
    /\ StartInv
    /\ FreshInv
    /\ Coalesced

\* What one request does: its ask, or the loop its ask has started.
Moves(q) == Ask(q) \/ Start(q) \/ Abandon(q) \/ Run(q)

\* A step after which the queue it is about is in order.
CalmNext ==
    \/ \E q \in Requests : Kept(q)' /\ Moves(q)
    \/ Shutdown
    \/ UNCHANGED vars

\* Such a step usurps nobody.
LEMMA CalmKept ==
    ASSUME TypeInv, CalmNext
    PROVE  usurped' = usurped /\ \A p \in Requests : (Kept(p)' <=> Kept(p))
<1>1. ASSUME NEW q \in Requests, Kept(q)', Moves(q)
      PROVE  usurped' = usurped
  <2>1. CASE StartLoop(q)
    BY <1>1, <2>1 DEF StartLoop, Kept, ActorOfRequest
  <2>2. CASE ~StartLoop(q)
    BY <1>1, <2>2
       DEF Moves, Ask, AskFails, AskBypass, AskDenied, JoinActive, JoinQueued,
           TakeSlot, Overflow, JoinQueue, Start, StartClosed, Abandon, Run, Begin,
           PromptReturns, Finish, CompleteWaiter, PromptNext, LoopEnds, InterruptLoop
  <2> QED  BY <2>1, <2>2
<1>2. ASSUME Shutdown \/ UNCHANGED vars
      PROVE  usurped' = usurped
  BY <1>2 DEF Shutdown, vars
<1>3. usurped' = usurped
  BY <1>1, <1>2 DEF CalmNext
<1> QED  BY <1>3 DEF Kept, ActorOfRequest

\* A loop is started in a calm step only when none is registered under its key.
LEMMA StartsAlone ==
    ASSUME NEW q \in Requests, Kept(q), StartLoop(q), usurped' = usurped
    PROVE  fiberAt[KeyOf[q]] = None
  BY DEF StartLoop, Kept

\* The requests of an actor are kept together.
LEMMA KeptTogether ==
    ASSUME NEW q \in Requests, Kept(q)
    PROVE  \A p \in Requests : ActorOfRequest(p) = ActorOfRequest(q) => Kept(p)
  BY DEF Kept

\* Who is usurped stays so.
LEMMA UsurpedGrows == ASSUME [Next]_vars PROVE usurped \subseteq usurped'
  BY DEF Next, Ask, AskFails, AskBypass, AskDenied, JoinActive, JoinQueued,
         TakeSlot, Overflow, JoinQueue, Start, StartLoop, StartClosed, Abandon,
         Run, Begin, PromptReturns, Finish, CompleteWaiter, PromptNext,
         LoopEnds, InterruptLoop, Shutdown, vars

\* The loops of a kept actor are interrupted by the shutdown only.
LEMMA ShutStep ==
    ASSUME PromptInv, CalmNext
    PROVE  ShutInv'
<1> USE NoneAssumption, KeyAssumption DEF PromptInv, TypeInv
<1>99. usurped' = usurped /\ \A p \in Requests : (Kept(p)' <=> Kept(p))
  BY CalmKept
<1> USE <1>99
<1>1. ASSUME NEW q \in Requests, Kept(q), Ask(q) \/ StartClosed(q) \/ Abandon(q)
      PROVE  ShutInv'
  BY <1>1
     DEF Ask, AskFails, AskBypass, AskDenied, JoinActive, JoinQueued, TakeSlot,
         Overflow, JoinQueue, StartClosed, Abandon, ReturnAtOnce, state, ShutInv
<1>2. ASSUME NEW q \in Requests, Kept(q), StartLoop(q)
      PROVE  ShutInv'
  <2>1. ~closed /\ ~closed' /\ fiberAt[KeyOf[q]] = None
    BY <1>2, StartsAlone DEF StartLoop
  <2>2. ASSUME NEW p \in Requests
        PROVE  loop'[p].at = IF p = q THEN "scheduled" ELSE loop[p].at
    BY <1>2, <2>1 DEF StartLoop, NoLoop
  <2> QED  BY <2>1, <2>2 DEF ShutInv, Shown
<1>3. ASSUME NEW q \in Requests, Kept(q), Begin(q)
      PROVE  ShutInv'
  BY <1>3 DEF Begin, Move, ShutInv, Shown, TypeOK, Loops
<1>4. ASSUME NEW q \in Requests, Kept(q), NEW result \in Decisions \cup {"failed"},
             PromptReturns(q, result)
      PROVE  ShutInv'
  <2>1. loop[q] \in Loops /\ loop[q].at = "prompting" /\ closed' = closed
    BY <1>4 DEF PromptReturns, TypeOK
  <2>2. ASSUME NEW p \in Requests
        PROVE  loop'[p].at = IF p = q THEN "decided" ELSE loop[p].at
    BY <1>4, <2>1 DEF PromptReturns, TypeOK, Loops
  <2> QED  BY <2>1, <2>2 DEF ShutInv, Shown
<1>5. ASSUME NEW q \in Requests, Kept(q), NEW audited \in BOOLEAN, Finish(q, audited)
      PROVE  ShutInv'
  BY <1>5 DEF Finish, ShutInv, Shown, TypeOK, Loops
<1>6. ASSUME NEW q \in Requests, Kept(q), CompleteWaiter(q)
      PROVE  ShutInv'
  BY <1>6 DEF CompleteWaiter, ShutInv, Shown, TypeOK, Loops
<1>7. ASSUME NEW q \in Requests, Kept(q), PromptNext(q)
      PROVE  ShutInv'
  BY <1>7 DEF PromptNext, ShutInv, Shown, TypeOK, Loops, NoLoop
<1>8. ASSUME NEW q \in Requests, Kept(q), LoopEnds(q)
      PROVE  ShutInv'
  BY <1>8 DEF LoopEnds, ShutInv, Shown, TypeOK, Loops, NoLoop
<1>9. ASSUME NEW q \in Requests, Kept(q), InterruptLoop(q)
      PROVE  ShutInv'
  BY <1>9 DEF InterruptLoop, ShutInv, Shown, TypeOK, Loops, NoLoop
<1>10. ASSUME Shutdown
       PROVE  ShutInv'
  <2>1. closed' /\ ~closed
    BY <1>10 DEF Shutdown
  <2>2. ASSUME NEW p \in Requests, Kept(p)
        PROVE  loop'[p].at \in {"none", "ended", "stopping", "failing"}
    <3>1. /\ loop[p] \in Loops
          /\ loop[p].at \in {"none", "ended"} \cup Shown \cup {"completing"}
      BY <2>1, <2>2 DEF ShutInv, TypeOK
    <3>2. CASE loop[p].at \in {"none", "ended"}
      BY <1>10, <3>1, <3>2, LoopInterrupted DEF Shutdown
    <3>3. CASE loop[p].at \in Shown \cup {"completing"}
      BY <1>10, <2>1, <2>2, <3>1, <3>3, LoopInterrupted DEF Shutdown, MapInv, Shown
    <3> QED  BY <3>1, <3>2, <3>3
  <2> QED  BY <2>1, <2>2 DEF ShutInv
<1>11. CASE UNCHANGED vars
  BY <1>11 DEF vars, state, ShutInv
<1> QED
  BY <1>1, <1>2, <1>3, <1>4, <1>5, <1>6, <1>7, <1>8, <1>9, <1>10, <1>11
     DEF CalmNext, Moves, Start, Run

\* Every step keeps the fiber map right.
LEMMA MapStep ==
    ASSUME PromptInv, CalmNext, ~closed'
    PROVE  MapInv'
<1> USE NoneAssumption, KeyAssumption DEF PromptInv, TypeInv
<1>99. usurped' = usurped /\ \A p \in Requests : (Kept(p)' <=> Kept(p))
  BY CalmKept
<1> USE <1>99
<1>0. ~closed
  BY DEF CalmNext, Moves, Ask, AskFails, AskBypass, AskDenied, JoinActive, JoinQueued,
         TakeSlot, Overflow, JoinQueue, Start, StartLoop, StartClosed, Abandon,
         Run, Begin, PromptReturns, Finish, CompleteWaiter, PromptNext,
         LoopEnds, InterruptLoop, Shutdown, vars
<1> USE <1>0
<1>1. ASSUME NEW q \in Requests, Kept(q),
             \/ AskFails(q) \/ AskBypass(q) \/ AskDenied(q) \/ JoinActive(q)
             \/ JoinQueued(q) \/ Overflow(q) \/ JoinQueue(q) \/ StartClosed(q)
             \/ Abandon(q)
      PROVE  MapInv'
  BY <1>1
     DEF AskFails, AskBypass, AskDenied, JoinActive, JoinQueued, Overflow,
         JoinQueue, StartClosed, Abandon, ReturnAtOnce, state, MapInv, TypeOK
<1>2. ASSUME NEW q \in Requests, Kept(q), TakeSlot(q)
      PROVE  MapInv'
  BY <1>2 DEF TakeSlot, MapInv, TypeOK
<1>3. ASSUME NEW q \in Requests, Kept(q), StartLoop(q)
      PROVE  MapInv'
  <2>1. fiberAt[KeyOf[q]] = None
    BY <1>3, StartsAlone
  <2>2. ASSUME NEW p \in Requests, p # q
        PROVE  loop'[p] = loop[p]
    BY <1>3, <2>1, <2>2 DEF StartLoop, TypeOK
  <2>3. fiberAt' = [fiberAt EXCEPT ![KeyOf[q]] = q]
    BY <1>3 DEF StartLoop, TypeOK
  <2>4. ASSUME NEW p \in Requests, Kept(p), p # q, loop[p].at \notin {"none", "ended"}
        PROVE  fiberAt[KeyOf[p]] = p /\ KeyOf[p] # KeyOf[q]
    BY <2>1, <2>4 DEF MapInv
  <2>5. ASSUME NEW p \in Requests, Kept(p), p # q, loop'[p].at \notin {"none", "ended"}
        PROVE  fiberAt'[KeyOf[p]] = p
    BY <2>2, <2>3, <2>4, <2>5 DEF TypeOK
  <2>6. fiberAt'[KeyOf[q]] = q
    BY <2>3 DEF TypeOK
  <2> QED  BY <2>5, <2>6 DEF MapInv
<1>4. ASSUME NEW q \in Requests, Kept(q), Begin(q)
      PROVE  MapInv'
  BY <1>4 DEF Begin, Move, MapInv, TypeOK, Loops
<1>5. ASSUME NEW q \in Requests, Kept(q), NEW result \in Decisions \cup {"failed"},
             PromptReturns(q, result)
      PROVE  MapInv'
  BY <1>5 DEF PromptReturns, MapInv, TypeOK, Loops
<1>6. ASSUME NEW q \in Requests, Kept(q), NEW audited \in BOOLEAN, Finish(q, audited)
      PROVE  MapInv'
  BY <1>6 DEF Finish, MapInv, TypeOK, Loops
<1>7. ASSUME NEW q \in Requests, Kept(q), CompleteWaiter(q)
      PROVE  MapInv'
  BY <1>7 DEF CompleteWaiter, MapInv, TypeOK, Loops, state
<1>8. ASSUME NEW q \in Requests, Kept(q), PromptNext(q)
      PROVE  MapInv'
  BY <1>8 DEF PromptNext, MapInv, TypeOK, Loops, NoLoop
<1>9. ASSUME NEW q \in Requests, Kept(q), LoopEnds(q)
      PROVE  MapInv'
  BY <1>9 DEF LoopEnds, IsDone, MapInv, TypeOK, Loops, NoLoop
<1>10. ASSUME NEW q \in Requests, Kept(q), InterruptLoop(q)
       PROVE  MapInv'
  BY <1>10 DEF InterruptLoop, ShutInv, Shown
<1>11. CASE Shutdown
  BY <1>11 DEF Shutdown
<1>12. CASE UNCHANGED vars
  BY <1>12 DEF vars, state, MapInv
<1> QED
  BY <1>1, <1>2, <1>3, <1>4, <1>5, <1>6, <1>7, <1>8, <1>9, <1>10, <1>11, <1>12
     DEF CalmNext, Moves, Ask, Start, Run

\* A step that makes no driver, and leaves the keys of the active entries alone,
\* keeps one driver for an actor.
LEMMA DriveFrame ==
    ASSUME DriveInv,
           \A p \in Requests : Kept(p)' <=> Kept(p),
           \A p \in Requests : Drives(p)' =>
               Drives(p) /\ Subject(p)' = Subject(p),
           \A p \in Requests : active[ActorOfRequest(p)] # None =>
               /\ active'[ActorOfRequest(p)] # None
               /\ active'[ActorOfRequest(p)].key = active[ActorOfRequest(p)].key
    PROVE  DriveInv'
<1>1. \A p \in Requests : ActorOfRequest(p)' = ActorOfRequest(p)
  BY DEF ActorOfRequest
<1> SUFFICES ASSUME NEW p \in Requests, Kept(p), Drives(p)'
             PROVE  /\ active'[ActorOfRequest(p)] # None
                    /\ active'[ActorOfRequest(p)].key = Subject(p)'
                    /\ \A s \in Requests :
                         Drives(s)' /\ ActorOfRequest(s) = ActorOfRequest(p) =>
                             s = p
  BY <1>1 DEF DriveInv
<1> QED  BY DEF DriveInv

\* Every step keeps one driver for an actor: a slot is taken only when it is free
\* and handed over only by the driver.
LEMMA DriveStep ==
    ASSUME PromptInv, CalmNext, ~closed, ~closed'
    PROVE  DriveInv'
<1> USE NoneAssumption, KeyAssumption DEF PromptInv, TypeInv
<1>99. usurped' = usurped /\ \A p \in Requests : (Kept(p)' <=> Kept(p))
  BY CalmKept
<1> USE <1>99
<1>1. ASSUME NEW q \in Requests, Kept(q),
             \/ AskFails(q) \/ AskBypass(q) \/ AskDenied(q) \/ Overflow(q)
             \/ StartClosed(q) \/ Abandon(q)
      PROVE  DriveInv'
  <2>1. \A p \in Requests : Drives(p)' => Drives(p) /\ Subject(p)' = Subject(p)
    BY <1>1
       DEF AskFails, AskBypass, AskDenied, Overflow, NeedsPrompt, Enqueue,
           StartClosed, Abandon, ReturnAtOnce, Drives, Subject, TypeOK,
           LoopsInv, LoopOK, Shown
  <2>2. active' = active
    BY <1>1
       DEF AskFails, AskBypass, AskDenied, Overflow, StartClosed, Abandon, state
  <2> QED  BY <2>1, <2>2, DriveFrame
<1>2. ASSUME NEW q \in Requests, Kept(q), JoinActive(q)
      PROVE  DriveInv'
  <2>1. \A p \in Requests : Drives(p)' => Drives(p) /\ Subject(p)' = Subject(p)
    BY <1>2
       DEF JoinActive, Enqueue, Drives, Subject, TypeOK, LoopsInv, LoopOK, Shown
  <2>2. ActorOfRequest(q) \in Actors /\ active[ActorOfRequest(q)] \in Entry
    BY <1>2 DEF JoinActive, IsActive, ActorOfRequest, TypeOK
  <2>3. active' = [active EXCEPT ![ActorOfRequest(q)] =
            AddWaiter(active[ActorOfRequest(q)], q)]
    BY <1>2 DEF JoinActive
  <2>4. \A p \in Requests : active[ActorOfRequest(p)] # None =>
               /\ active'[ActorOfRequest(p)] # None
               /\ active'[ActorOfRequest(p)].key = active[ActorOfRequest(p)].key
    BY <2>2, <2>3, WaiterAdded DEF TypeOK, ActorOfRequest
  <2> QED  BY <2>1, <2>4, DriveFrame
<1>3. ASSUME NEW q \in Requests, Kept(q), JoinQueued(q) \/ JoinQueue(q)
      PROVE  DriveInv'
  <2>1. \A p \in Requests : Drives(p)' => Drives(p) /\ Subject(p)' = Subject(p)
    BY <1>3
       DEF JoinQueued, JoinQueue, NeedsPrompt, Enqueue, Drives, Subject, TypeOK,
           LoopsInv, LoopOK, Shown
  <2>2. active' = active
    BY <1>3 DEF JoinQueued, JoinQueue
  <2> QED  BY <2>1, <2>2, DriveFrame
<1>4. ASSUME NEW q \in Requests, Kept(q), TakeSlot(q)
      PROVE  DriveInv'
  <2>1. /\ active[ActorOfRequest(q)] = None /\ loop' = loop
        /\ pc' = [pc EXCEPT ![q] = "starting"]
        /\ active' = [active EXCEPT ![ActorOfRequest(q)] = NewEntry(q)]
    BY <1>4 DEF TakeSlot, SlotFree
  <2>2. NewEntry(q) \in Entry /\ NewEntry(q).key = KeyOf[q]
    BY DEF NewEntry, Entry
  <2>3. \A p \in Requests : p # q =>
            Drives(p)' = Drives(p) /\ Subject(p)' = Subject(p)
    BY <2>1 DEF Drives, Subject, TypeOK
  <2>4. \A p \in Requests : p # q /\ Drives(p) =>
            ActorOfRequest(p) # ActorOfRequest(q)
    BY <1>4, <2>1, KeptTogether DEF DriveInv
  <2>5. Subject(q)' = KeyOf[q]
    BY <2>1 DEF Subject, TypeOK
  <2>6. \A p \in Requests : ActorOfRequest(p)' =
            ActorOfRequest(p) /\ ActorOfRequest(p) \in Actors
    BY DEF ActorOfRequest
  <2>7. ASSUME NEW p \in Requests, Kept(p), Drives(p)'
        PROVE  /\ active'[ActorOfRequest(p)] # None
               /\ active'[ActorOfRequest(p)].key = Subject(p)'
    <3>1. CASE p = q
      BY <2>1, <2>2, <2>5, <2>6, <3>1 DEF TypeOK
    <3>2. CASE p # q
      BY <2>1, <2>3, <2>4, <2>6, <2>7, <3>2 DEF TypeOK, DriveInv
    <3> QED  BY <3>1, <3>2
  <2>8. ASSUME NEW p \in Requests, NEW s \in Requests, Kept(p), Drives(p)', Drives(s)',
               ActorOfRequest(s) = ActorOfRequest(p)
        PROVE  s = p
    BY <2>3, <2>4, <2>8 DEF DriveInv
  <2> QED  BY <2>6, <2>7, <2>8 DEF DriveInv
<1>5. ASSUME NEW q \in Requests, Kept(q), StartLoop(q)
      PROVE  DriveInv'
  <2>1. fiberAt[KeyOf[q]] = None /\ pc[q] = "starting" /\ active' = active
    BY <1>5, StartsAlone DEF StartLoop, state
  <2>2. ASSUME NEW p \in Requests, p # q
        PROVE  loop'[p] = loop[p] /\ pc'[p] = pc[p]
    BY <1>5, <2>1, <2>2 DEF StartLoop, TypeOK
  <2>3. /\ pc'[q] = "waiting"
        /\ loop'[q].at = "scheduled"
        /\ loop'[q].entry.key = KeyOf[q]
    BY <1>5 DEF StartLoop, TypeOK, NoLoop, NewEntry
  <2>4. ASSUME NEW p \in Requests, Drives(p)'
        PROVE  Drives(p) /\ Subject(p)' = Subject(p)
    BY <2>1, <2>2, <2>3, <2>4 DEF Drives, Subject
  <2> QED  BY <2>1, <2>4, DriveFrame
<1>6. ASSUME NEW q \in Requests, Kept(q), Begin(q)
      PROVE  DriveInv'
  <2>1. \A p \in Requests : Drives(p)' => Drives(p) /\ Subject(p)' = Subject(p)
    BY <1>6 DEF Begin, Move, Drives, Subject, TypeOK, Loops, Shown
  <2> QED  BY <1>6, <2>1, DriveFrame DEF Begin, state
<1>7. ASSUME NEW q \in Requests, Kept(q), NEW result \in Decisions \cup {"failed"},
             PromptReturns(q, result)
      PROVE  DriveInv'
  <2>1. ASSUME NEW p \in Requests
        PROVE  /\ loop'[p].at = IF p = q THEN "decided" ELSE loop[p].at
               /\ loop'[p].entry = loop[p].entry /\ loop'[p].next = loop[p].next
    BY <1>7 DEF PromptReturns, TypeOK, Loops
  <2>2. pc' = pc /\ active' = active /\ loop[q].at = "prompting"
    BY <1>7 DEF PromptReturns, state
  <2>3. \A p \in Requests : Drives(p)' => Drives(p) /\ Subject(p)' = Subject(p)
    BY <2>1, <2>2 DEF Drives, Subject, Shown
  <2> QED  BY <2>2, <2>3, DriveFrame
<1>8. ASSUME NEW q \in Requests, Kept(q), NEW audited \in BOOLEAN, Finish(q, audited)
      PROVE  DriveInv'
  <2> DEFINE a == ActorOfRequest(q)
             next == IF queued[a] = <<>> THEN None ELSE Head(queued[a])
  <2>1. loop[q].at = "decided" /\ ActorOf[loop[q].entry.key] = a /\ a \in Actors
    BY <1>8 DEF Finish, LoopsInv, LoopOK, Shown, ActorOfRequest
  <2>2. /\ active' = [active EXCEPT ![a] = next]
        /\ loop'[q].at = "completing" /\ loop'[q].next = next
        /\ pc' = pc
    BY <1>8, <2>1 DEF Finish, TypeOK
  <2>3. ASSUME NEW p \in Requests, p # q
        PROVE  loop'[p] = loop[p]
    BY <1>8, <2>3 DEF Finish, TypeOK
  <2>4. pc[q] # "starting" /\ Drives(q)
    BY <2>1 DEF LoopsInv, LoopOK, Drives, Shown
  <2> HIDE DEF a, next
  <2>5. Drives(q)' => next # None /\ Subject(q)' = next.key
    BY <2>2, <2>4 DEF Drives, Subject, Shown
  <2>6. \A p \in Requests : p # q =>
            Drives(p)' = Drives(p) /\ Subject(p)' = Subject(p)
    BY <2>2, <2>3 DEF Drives, Subject
  <2>7. \A p \in Requests : p # q /\ Drives(p) => ActorOfRequest(p) # a
    BY <1>8, <2>4 DEF DriveInv, a
  <2>8. \A p \in Requests : ActorOfRequest(p)' = ActorOfRequest(p)
    BY DEF ActorOfRequest
  <2>9. ASSUME NEW p \in Requests, Kept(p), Drives(p)'
        PROVE  /\ active'[ActorOfRequest(p)] # None
               /\ active'[ActorOfRequest(p)].key = Subject(p)'
    <3>1. CASE p = q
      BY <2>1, <2>2, <2>5, <2>9, <3>1 DEF TypeOK, a
    <3>2. CASE p # q
      BY <2>2, <2>6, <2>7, <2>9, <3>2 DEF TypeOK, DriveInv
    <3> QED  BY <3>1, <3>2
  <2>10. ASSUME NEW p \in Requests, NEW s \in Requests, Kept(p), Drives(p)', Drives(s)',
                ActorOfRequest(s) = ActorOfRequest(p)
         PROVE  s = p
    BY <1>8, <2>4, <2>6, <2>10 DEF DriveInv
  <2> QED  BY <2>8, <2>9, <2>10 DEF DriveInv
<1>9. ASSUME NEW q \in Requests, Kept(q), CompleteWaiter(q)
      PROVE  DriveInv'
  <2>1. \A p \in Requests : Drives(p)' => Drives(p) /\ Subject(p)' = Subject(p)
    BY <1>9 DEF CompleteWaiter, Drives, Subject, TypeOK, Loops
  <2> QED  BY <1>9, <2>1, DriveFrame DEF CompleteWaiter, state
<1>10. ASSUME NEW q \in Requests, Kept(q), PromptNext(q)
       PROVE  DriveInv'
  <2>1. /\ loop' = [loop EXCEPT ![q] = [NoLoop EXCEPT !.at =
               "prompting", !.entry = loop[q].next]]
        /\ pc' = pc /\ active' = active
        /\ loop[q].at = "completing" /\ loop[q].next # None
    BY <1>10 DEF PromptNext, state
  <2>2. \A p \in Requests : Drives(p)' => Drives(p) /\ Subject(p)' = Subject(p)
    BY <2>1 DEF Drives, Subject, TypeOK, NoLoop
  <2> QED  BY <2>1, <2>2, DriveFrame
<1>11. ASSUME NEW q \in Requests, Kept(q), LoopEnds(q)
       PROVE  DriveInv'
  <2>1. \A p \in Requests : Drives(p)' => Drives(p) /\ Subject(p)' = Subject(p)
    BY <1>11 DEF LoopEnds, IsDone, Drives, Subject, TypeOK, NoLoop, Shown
  <2> QED  BY <1>11, <2>1, DriveFrame DEF LoopEnds, state
<1>12. ASSUME NEW q \in Requests, Kept(q), InterruptLoop(q)
       PROVE  DriveInv'
  BY <1>12 DEF InterruptLoop, ShutInv, Shown
<1>13. CASE Shutdown
  BY <1>13 DEF Shutdown
<1>14. CASE UNCHANGED vars
  BY <1>14 DEF vars, state, DriveInv, Drives, Subject, ActorOfRequest
<1> QED
  BY <1>1, <1>2, <1>3, <1>4, <1>5, <1>6, <1>7, <1>8, <1>9, <1>10, <1>11, <1>12,
     <1>13, <1>14
     DEF CalmNext, Moves, Ask, Start, Run

\* A decision that denies a scope is about the active key, and who is about to
\* start for it is the driver: nobody else is.
LEMMA StartStep ==
    ASSUME PromptInv, CalmNext
    PROVE  StartInv'
<1> USE NoneAssumption, KeyAssumption DEF PromptInv, TypeInv
<1>99. usurped' = usurped /\ \A p \in Requests : (Kept(p)' <=> Kept(p))
  BY CalmKept
<1> USE <1>99
<1>1. ASSUME NEW q \in Requests, Kept(q), Ask(q) \/ Start(q) \/ Abandon(q)
      PROVE  StartInv'
  <2>1. denied' = denied
    BY <1>1
       DEF Ask, AskFails, AskBypass, AskDenied, JoinActive, JoinQueued,
           TakeSlot, Overflow, JoinQueue, Start, StartLoop, StartClosed,
           Abandon, state
  <2>2. \A p \in Requests : pc'[p] = "starting" =>
            pc[p] = "starting" \/ KeyOf[p] \notin denied
    BY <1>1
       DEF Ask, AskFails, AskBypass, AskDenied, JoinActive, JoinQueued,
           TakeSlot, NeedsPrompt, Overflow, JoinQueue, Start, StartLoop,
           StartClosed, Abandon, ReturnAtOnce, TypeOK
  <2> QED  BY <2>1, <2>2 DEF StartInv
<1>2. ASSUME NEW q \in Requests, Kept(q), NEW audited \in BOOLEAN, Finish(q, audited)
      PROVE  StartInv'
  <2>1. /\ pc' = pc /\ loop[q].at = "decided"
        /\ denied' \subseteq denied \cup {loop[q].entry.key}
    BY <1>2 DEF Finish
  <2>2. ~closed /\ Drives(q) /\ pc[q] # "starting"
    BY <1>2, <2>1 DEF ShutInv, Shown, Drives, LoopsInv, LoopOK
  <2>3. ActorOf[loop[q].entry.key] = ActorOfRequest(q)
    BY <2>1 DEF LoopsInv, LoopOK, Shown
  <2>4. ASSUME NEW p \in Requests, pc[p] = "starting"
        PROVE  KeyOf[p] # loop[q].entry.key
    BY <1>2, <2>2, <2>3, <2>4 DEF DriveInv, Drives, ActorOfRequest
  <2> QED  BY <2>1, <2>4 DEF StartInv
<1>3. ASSUME NEW q \in Requests, Kept(q), NEW result,
             \/ Begin(q) \/ PromptReturns(q, result) \/ CompleteWaiter(q)
             \/ PromptNext(q) \/ LoopEnds(q) \/ InterruptLoop(q)
      PROVE  StartInv'
  BY <1>3
     DEF Begin, PromptReturns, CompleteWaiter, PromptNext, LoopEnds,
         InterruptLoop, state, StartInv
<1>4. CASE Shutdown \/ UNCHANGED vars
  BY <1>4 DEF Shutdown, vars, state, StartInv
<1> QED
  BY <1>1, <1>2, <1>3, <1>4 DEF CalmNext, Moves, Run

\* What a loop is about to finish is the active entry of its actor.
LEMMA FinishesActive ==
    ASSUME PromptInv, NEW q \in Requests, Kept(q), loop[q].at \in Shown
    PROVE  /\ ~closed /\ Drives(q) /\ pc[q] # "starting"
           /\ active[ActorOfRequest(q)] # None
           /\ active[ActorOfRequest(q)].key = loop[q].entry.key
           /\ ActorOf[loop[q].entry.key] = ActorOfRequest(q)
           /\ ActorOfRequest(q) \in Actors
<1> USE NoneAssumption, KeyAssumption DEF PromptInv, TypeInv
<1>1. ~closed /\ Drives(q) /\ pc[q] # "starting"
  BY DEF ShutInv, Shown, Drives, LoopsInv, LoopOK
<1>2. /\ ActorOf[loop[q].entry.key] = ActorOfRequest(q)
      /\ ActorOfRequest(q) \in Actors
  BY DEF LoopsInv, LoopOK, ActorOfRequest
<1>3. Subject(q) = loop[q].entry.key
  BY <1>1 DEF Subject, Shown
<1> QED  BY <1>1, <1>2, <1>3 DEF DriveInv

\* A decision that denies a scope takes the only entry for it with it.
LEMMA FreshStep ==
    ASSUME PromptInv, CalmNext
    PROVE  FreshInv'
<1> USE NoneAssumption, KeyAssumption DEF PromptInv, TypeInv
<1>99. usurped' = usurped /\ \A p \in Requests : (Kept(p)' <=> Kept(p))
  BY CalmKept
<1> USE <1>99
<1>1. ASSUME NEW q \in Requests, Kept(q), JoinActive(q)
      PROVE  FreshInv'
  <2>1. ActorOfRequest(q) \in Actors /\ active[ActorOfRequest(q)] \in Entry
    BY <1>1 DEF JoinActive, IsActive, ActorOfRequest, TypeOK
  <2>2. /\ active' = [active EXCEPT ![ActorOfRequest(q)] =
               AddWaiter(active[ActorOfRequest(q)], q)]
        /\ queued' = queued /\ denied' = denied
    BY <1>1 DEF JoinActive
  <2>3. \A a \in Actors : EntryKeys(a)' = EntryKeys(a)
    BY <2>1, <2>2, WaiterAdded DEF EntryKeys, TypeOK
  <2> QED  BY <2>2, <2>3 DEF FreshInv
<1>2. ASSUME NEW q \in Requests, Kept(q), JoinQueued(q)
      PROVE  FreshInv'
  <2> DEFINE b == ActorOfRequest(q)
  <2>1. b \in Actors
    BY DEF ActorOfRequest
  <2>2. PICK n \in DOMAIN queued[b] : queued' = [queued EXCEPT ![b][n] =
                                          AddWaiter(queued[b][n], q)]
    BY <1>2 DEF JoinQueued, QueuePositions, ActorOfRequest
  <2>3. queued[b] \in Seq(Entry) /\ queued[b][n] \in Entry
    BY <2>1 DEF TypeOK
  <2>4. AddWaiter(queued[b][n], q).key = queued[b][n].key
    BY <2>3, WaiterAdded
  <2> HIDE DEF b
  <2>5. \A a \in Actors : /\ DOMAIN queued'[a] = DOMAIN queued[a]
                          /\ \A m \in DOMAIN queued[a] :
                                 queued'[a][m].key = queued[a][m].key
    BY <2>1, <2>2, <2>4 DEF TypeOK
  <2>6. active' = active /\ denied' = denied
    BY <1>2 DEF JoinQueued
  <2>7. \A a \in Actors : EntryKeys(a)' = EntryKeys(a)
    BY <2>5, <2>6 DEF EntryKeys
  <2> QED  BY <2>6, <2>7 DEF FreshInv
<1>3. ASSUME NEW q \in Requests, Kept(q), TakeSlot(q)
      PROVE  FreshInv'
  <2>1. /\ KeyOf[q] \notin denied /\ NewEntry(q).key = KeyOf[q]
        /\ active' = [active EXCEPT ![ActorOfRequest(q)] = NewEntry(q)]
        /\ queued' = queued /\ denied' = denied
    BY <1>3 DEF TakeSlot, NeedsPrompt, NewEntry
  <2>2. \A a \in Actors : EntryKeys(a)' \subseteq EntryKeys(a) \cup {KeyOf[q]}
    BY <2>1 DEF EntryKeys, TypeOK
  <2> QED  BY <2>1, <2>2 DEF FreshInv
<1>4. ASSUME NEW q \in Requests, Kept(q), JoinQueue(q)
      PROVE  FreshInv'
  <2> DEFINE b == ActorOfRequest(q)
  <2>1. /\ KeyOf[q] \notin denied /\ NewEntry(q).key = KeyOf[q] /\ b \in Actors
        /\ queued' = [queued EXCEPT ![b] = Append(queued[b], NewEntry(q))]
        /\ active' = active /\ denied' = denied
    BY <1>4 DEF JoinQueue, NeedsPrompt, NewEntry, ActorOfRequest
  <2> HIDE DEF b
  <2>2. ASSUME NEW a \in Actors, NEW n \in DOMAIN queued'[a]
        PROVE  queued'[a][n].key \in EntryKeys(a) \cup {KeyOf[q]}
    <3>1. CASE a = b
      <4>1. /\ queued'[a] = Append(queued[a], NewEntry(q))
            /\ queued[a] \in Seq(Entry)
        BY <2>1, <3>1 DEF TypeOK
      <4>2. n \in DOMAIN queued[a] \/ queued'[a][n] = NewEntry(q)
        BY <4>1
      <4>3. n \in DOMAIN queued[a] => queued'[a][n] = queued[a][n]
        BY <4>1
      <4> QED  BY <2>1, <4>2, <4>3 DEF EntryKeys
    <3>2. CASE a # b
      <4>1. queued'[a] = queued[a]
        BY <2>1, <3>2 DEF TypeOK
      <4> QED  BY <4>1 DEF EntryKeys
    <3> QED  BY <3>1, <3>2
  <2>3. \A a \in Actors : EntryKeys(a)' \subseteq EntryKeys(a) \cup {KeyOf[q]}
    <3> SUFFICES ASSUME NEW a \in Actors, NEW k \in EntryKeys(a)'
                 PROVE  k \in EntryKeys(a) \cup {KeyOf[q]}
      OBVIOUS
    <3>1. CASE \E n \in DOMAIN queued'[a] : k = queued'[a][n].key
      BY <2>2, <3>1
    <3>2. CASE k \in IF active'[a] = None THEN {} ELSE {active'[a].key}
      BY <2>1, <3>2 DEF EntryKeys
    <3> QED  BY <3>1, <3>2 DEF EntryKeys
  <2> QED  BY <2>1, <2>3 DEF FreshInv
<1>5. ASSUME NEW q \in Requests, Kept(q), NEW audited \in BOOLEAN, Finish(q, audited)
      PROVE  FreshInv'
  <2> DEFINE b == ActorOfRequest(q)
             k == loop[q].entry.key
             next == IF queued[b] = <<>> THEN None ELSE Head(queued[b])
  <2>1. loop[q].at \in Shown
    BY <1>5 DEF Finish, Shown
  <2>2. /\ /\ b \in Actors
           /\ active[b] # None
           /\ active[b].key = k
           /\ ActorOf[k] = b
    BY <1>5, <2>1, FinishesActive
  <2>3. /\ active' = [active EXCEPT ![b] = next]
        /\ queued' = [queued EXCEPT ![b] = IF next = None THEN <<>>
                                           ELSE Tail(queued[b])]
        /\ denied' \subseteq denied \cup {k}
    BY <1>5, <2>2 DEF Finish
  <2> HIDE DEF b, k
  <2>4. ASSUME NEW a \in Actors, a # b
        PROVE  EntryKeys(a)' = EntryKeys(a) /\ k \notin EntryKeys(a)
    <3>1. EntryKeys(a)' = EntryKeys(a)
      BY <2>3, <2>4 DEF EntryKeys, TypeOK
    <3>2. k \notin EntryKeys(a)
      BY <2>2, <2>4 DEF EntryKeys, FiledInv
    <3> QED  BY <3>1, <3>2
  <2>5. \A n \in DOMAIN queued[b] :
            queued[b][n].key # k /\ queued[b][n].key \in EntryKeys(b)
    BY <2>2 DEF Coalesced, EntryKeys
  <2>6. queued[b] \in Seq(Entry)
    BY <2>2 DEF TypeOK
  <2>7. ASSUME NEW n \in DOMAIN queued'[b]
        PROVE  n + 1 \in DOMAIN queued[b] /\ queued'[b][n] = queued[b][n + 1]
    <3>1. queued[b] # <<>> /\ queued'[b] = Tail(queued[b])
      BY <2>2, <2>3, <2>7 DEF TypeOK
    <3> QED  BY <2>6, <3>1
  <2>8. active'[b] # None => 1 \in DOMAIN queued[b] /\ active'[b] = queued[b][1]
    <3>1. active'[b] = next
      BY <2>2, <2>3 DEF TypeOK
    <3> QED  BY <2>6, <3>1
  <2>9. ASSUME NEW x \in EntryKeys(b)'
        PROVE  x \in EntryKeys(b) \ {k}
    <3>1. CASE \E n \in DOMAIN queued'[b] : x = queued'[b][n].key
      BY <2>5, <2>7, <3>1
    <3>2. CASE x \in IF active'[b] = None THEN {} ELSE {active'[b].key}
      BY <2>5, <2>8, <3>2
    <3> QED  BY <3>1, <3>2 DEF EntryKeys, b, ActorOfRequest
  <2>10. ASSUME NEW a \in Actors \ usurped
         PROVE  EntryKeys(a)' \cap denied' = {}
    BY <2>3, <2>4, <2>9 DEF FreshInv, b, ActorOfRequest
  <2> QED  BY <2>10 DEF FreshInv
<1>6. ASSUME NEW q \in Requests, Kept(q), InterruptLoop(q)
      PROVE  FreshInv'
  <2>1. /\ active' = [active EXCEPT ![ActorOfRequest(q)] = None]
        /\ queued' = [queued EXCEPT ![ActorOfRequest(q)] = <<>>]
        /\ denied' = denied
    BY <1>6 DEF InterruptLoop
  <2>2. \A a \in Actors : EntryKeys(a)' \subseteq EntryKeys(a)
    BY <2>1 DEF EntryKeys, TypeOK
  <2> QED  BY <2>1, <2>2 DEF FreshInv
<1>7. CASE UNCHANGED state
  BY <1>7 DEF state, FreshInv, EntryKeys
<1> QED
  BY <1>1, <1>2, <1>3, <1>4, <1>5, <1>6, <1>7
     DEF CalmNext, Moves, Ask, Start, Run, AskFails, AskBypass, AskDenied, Overflow,
         StartLoop, StartClosed, Abandon, Begin, PromptReturns, CompleteWaiter,
         PromptNext, LoopEnds, Shutdown, vars, state

\* The part of Coalesced about one actor.
QueueOK(a) ==
    /\ Len(queued[a]) =< MaxQueueDepth
    /\ \A m, n \in DOMAIN queued[a] : queued[a][m].key = queued[a][n].key =>
           m = n
    /\ \A n \in DOMAIN queued[a] :
           active[a] # None /\ active[a].key # queued[a][n].key

\* A queue stays in order when its entries keep their keys and their places.
LEMMA QueueFrame ==
    ASSUME TypeOK, NEW a \in Actors, QueueOK(a),
           queued'[a] \in Seq(Entry),
           Len(queued'[a]) = Len(queued[a]),
           \A n \in DOMAIN queued[a] : queued'[a][n].key = queued[a][n].key,
           active[a] # None =>
               active'[a] # None /\ active'[a].key = active[a].key
    PROVE  QueueOK(a)'
<1>1. queued[a] \in Seq(Entry)
  BY DEF TypeOK
<1>2. DOMAIN queued'[a] = DOMAIN queued[a]
  BY <1>1
<1> QED  BY <1>2 DEF QueueOK

\* Every step keeps the queue of an actor within its bound and without
\* duplicates.
LEMMA QueueStep ==
    ASSUME PromptInv, [Next]_vars
    PROVE  Coalesced'
<1> USE NoneAssumption, KeyAssumption, QueueAssumption DEF PromptInv, TypeInv
<1> SUFFICES ASSUME NEW a \in Actors
             PROVE  QueueOK(a)'
  BY DEF Coalesced, QueueOK
<1>0. QueueOK(a) /\ queued[a] \in Seq(Entry)
  BY DEF Coalesced, QueueOK, TypeOK
<1>1. ASSUME NEW q \in Requests, JoinActive(q)
      PROVE  QueueOK(a)'
  <2>1. ActorOfRequest(q) \in Actors /\ active[ActorOfRequest(q)] \in Entry
    BY <1>1 DEF JoinActive, IsActive, ActorOfRequest, TypeOK
  <2>2. /\ active' = [active EXCEPT ![ActorOfRequest(q)] =
               AddWaiter(active[ActorOfRequest(q)], q)]
        /\ queued' = queued
    BY <1>1 DEF JoinActive
  <2>3. active[a] # None => active'[a] # None /\ active'[a].key = active[a].key
    BY <2>1, <2>2, WaiterAdded DEF TypeOK
  <2> QED  BY <1>0, <2>2, <2>3, QueueFrame
<1>2. ASSUME NEW q \in Requests, JoinQueued(q)
      PROVE  QueueOK(a)'
  <2> DEFINE b == ActorOfRequest(q)
  <2>1. b \in Actors
    BY DEF ActorOfRequest
  <2>2. PICK n \in DOMAIN queued[b] : queued' = [queued EXCEPT ![b][n] =
                                          AddWaiter(queued[b][n], q)]
    BY <1>2 DEF JoinQueued, QueuePositions, ActorOfRequest
  <2>3. queued[b] \in Seq(Entry) /\ queued[b][n] \in Entry
    BY <2>1 DEF TypeOK
  <2>4. /\ AddWaiter(queued[b][n], q) \in Entry
        /\ AddWaiter(queued[b][n], q).key = queued[b][n].key
    BY <2>3, WaiterAdded
  <2> HIDE DEF b
  <2>5. active' = active
    BY <1>2 DEF JoinQueued
  <2>6. queued'[a] = IF a = b THEN [queued[b] EXCEPT ![n] =
            AddWaiter(queued[b][n], q)] ELSE queued[a]
    BY <2>1, <2>2 DEF TypeOK
  <2>7. queued'[a] \in Seq(Entry) /\ Len(queued'[a]) = Len(queued[a])
    BY <1>0, <2>3, <2>4, <2>6
  <2>8. \A m \in DOMAIN queued[a] : queued'[a][m].key = queued[a][m].key
    BY <2>4, <2>6
  <2> QED  BY <1>0, <2>5, <2>7, <2>8, QueueFrame
<1>3. ASSUME NEW q \in Requests, TakeSlot(q)
      PROVE  QueueOK(a)'
  <2>1. /\ active[ActorOfRequest(q)] = None
        /\ active' = [active EXCEPT ![ActorOfRequest(q)] = NewEntry(q)]
        /\ queued' = queued
    BY <1>3 DEF TakeSlot, SlotFree
  <2>2. CASE a = ActorOfRequest(q)
    BY <2>1, <2>2 DEF QueueOK, Coalesced
  <2>3. CASE a # ActorOfRequest(q)
    BY <1>0, <2>1, <2>3 DEF QueueOK, TypeOK
  <2> QED  BY <2>2, <2>3
<1>4. ASSUME NEW q \in Requests, JoinQueue(q)
      PROVE  QueueOK(a)'
  <2> DEFINE b == ActorOfRequest(q)
             new == NewEntry(q)
  <2>1. /\ active[b] # None /\ Len(queued[b]) < MaxQueueDepth
        /\ active' = active
        /\ queued' = [queued EXCEPT ![b] = Append(queued[b], new)]
    BY <1>4 DEF JoinQueue, SlotFree, HasRoom
  <2>2. new.key = KeyOf[q] /\ active[b].key # KeyOf[q]
    BY <1>4, <2>1 DEF JoinQueue, NeedsPrompt, IsActive, ActorOfRequest, NewEntry
  <2>3. \A n \in DOMAIN queued[b] : queued[b][n].key # KeyOf[q]
    BY <1>4 DEF JoinQueue, NeedsPrompt, QueuePositions, ActorOfRequest
  <2> HIDE DEF b, new
  <2>4. CASE a = b
    <3>1. queued'[a] = Append(queued[a], new)
      BY <2>1, <2>4 DEF TypeOK
    <3>2. /\ Len(queued'[a]) = Len(queued[a]) + 1
          /\ DOMAIN queued'[a] = DOMAIN queued[a] \cup {Len(queued[a]) + 1}
      BY <1>0, <3>1
    <3>3. queued'[a][Len(queued[a]) + 1] = new
      BY <1>0, <3>1
    <3>4. \A n \in DOMAIN queued[a] : queued'[a][n] = queued[a][n]
      BY <1>0, <3>1
    <3>5. Len(queued'[a]) =< MaxQueueDepth
      BY <1>0, <2>1, <2>4, <3>2
    <3>6. ASSUME NEW m \in DOMAIN queued'[a], NEW n \in DOMAIN queued'[a],
                 queued'[a][m].key = queued'[a][n].key
          PROVE  m = n
      BY <1>0, <2>2, <2>3, <2>4, <3>2, <3>3, <3>4, <3>6 DEF QueueOK
    <3>7. ASSUME NEW n \in DOMAIN queued'[a]
          PROVE  active'[a] # None /\ active'[a].key # queued'[a][n].key
      BY <1>0, <2>1, <2>2, <2>4, <3>2, <3>3, <3>4 DEF QueueOK
    <3> QED  BY <3>5, <3>6, <3>7 DEF QueueOK
  <2>5. CASE a # b
    BY <1>0, <2>1, <2>5 DEF QueueOK, TypeOK
  <2> QED  BY <2>4, <2>5
<1>5. ASSUME NEW q \in Requests, NEW audited \in BOOLEAN, Finish(q, audited)
      PROVE  QueueOK(a)'
  <2> DEFINE b == ActorOfRequest(q)
             next == IF queued[b] = <<>> THEN None ELSE Head(queued[b])
  <2>1. ActorOf[loop[q].entry.key] = b
    BY <1>5 DEF Finish, LoopsInv, LoopOK, Shown
  <2>2. /\ active' = [active EXCEPT ![b] = next]
        /\ queued' = [queued EXCEPT ![b] = IF next = None THEN <<>>
                                           ELSE Tail(queued[b])]
    BY <1>5, <2>1 DEF Finish
  <2> HIDE DEF b
  <2>3. CASE a # b
    BY <1>0, <2>2, <2>3 DEF QueueOK, TypeOK
  <2>4. CASE a = b /\ queued[a] = <<>>
    <3>1. queued'[a] = <<>>
      BY <2>2, <2>4 DEF TypeOK
    <3> QED  BY <3>1 DEF QueueOK
  <2>5. CASE a = b /\ queued[a] # <<>>
    <3>1. /\ queued'[a] = Tail(queued[a])
          /\ active'[a] = queued[a][1] /\ active'[a] \in Entry
      <4>1. Head(queued[a]) = queued[a][1] /\ Head(queued[a]) \in Entry
        BY <1>0, <2>5
      <4> QED  BY <2>2, <2>5, <4>1 DEF TypeOK
    <3>2. /\ Len(queued'[a]) = Len(queued[a]) - 1
          /\ \A n \in DOMAIN queued'[a] :
                 n + 1 \in DOMAIN queued[a] /\ queued'[a][n] = queued[a][n + 1]
          /\ \A n \in DOMAIN queued'[a] : n \in Nat /\ n # 0
          /\ 1 \in DOMAIN queued[a] /\ Len(queued[a]) \in Nat
      BY <1>0, <2>5, <3>1
    <3>3. Len(queued'[a]) =< MaxQueueDepth
      BY <1>0, <3>2 DEF QueueOK
    <3>4. ASSUME NEW m \in DOMAIN queued'[a], NEW n \in DOMAIN queued'[a],
                 queued'[a][m].key = queued'[a][n].key
          PROVE  m = n
      BY <1>0, <3>2, <3>4 DEF QueueOK
    <3>5. ASSUME NEW n \in DOMAIN queued'[a]
          PROVE  active'[a] # None /\ active'[a].key # queued'[a][n].key
      BY <1>0, <3>1, <3>2 DEF QueueOK
    <3> QED  BY <3>3, <3>4, <3>5 DEF QueueOK
  <2> QED  BY <2>3, <2>4, <2>5
<1>6. ASSUME NEW q \in Requests, InterruptLoop(q)
      PROVE  QueueOK(a)'
  <2>1. /\ active' = [active EXCEPT ![ActorOfRequest(q)] = None]
        /\ queued' = [queued EXCEPT ![ActorOfRequest(q)] = <<>>]
    BY <1>6 DEF InterruptLoop
  <2>2. CASE a = ActorOfRequest(q)
    <3>1. queued'[a] = <<>>
      BY <2>1, <2>2 DEF TypeOK
    <3> QED  BY <3>1 DEF QueueOK
  <2>3. CASE a # ActorOfRequest(q)
    BY <1>0, <2>1, <2>3 DEF QueueOK, TypeOK
  <2> QED  BY <2>2, <2>3
<1>7. CASE UNCHANGED <<active, queued>>
  BY <1>0, <1>7 DEF QueueOK
<1> QED
  BY <1>1, <1>2, <1>3, <1>4, <1>5, <1>6, <1>7
     DEF Next, Ask, Start, Run, AskFails, AskBypass, AskDenied, Overflow,
         StartLoop, StartClosed, Abandon, Begin, PromptReturns, CompleteWaiter,
         PromptNext, LoopEnds, Shutdown, vars, state

\* The inductive invariant holds when the broker is made.
LEMMA PromptInit == Init => PromptInv
<1> SUFFICES ASSUME Init PROVE PromptInv
  OBVIOUS
<1>1. TypeInv
  BY TypeInit
<1>2. HolderInv /\ ShutInv /\ MapInv /\ StartInv
  BY KeyAssumption DEF Init, HolderInv, ShutInv, MapInv, StartInv, NoLoop
<1>3. DriveInv
  BY DEF Init, DriveInv, Drives, NoLoop, Shown
<1>4. FreshInv
  BY DEF Init, FreshInv
<1>5. Coalesced
  BY QueueAssumption DEF Init, Coalesced
<1> QED  BY <1>1, <1>2, <1>3, <1>4, <1>5 DEF PromptInv

\* What a request does leaves the queues of other actors alone ...
LEMMA ActorAlone ==
    ASSUME TypeInv, NEW q \in Requests, Moves(q),
           NEW a \in Actors, a # ActorOfRequest(q)
    PROVE  active'[a] = active[a] /\ queued'[a] = queued[a]
<1> USE KeyAssumption, NoneAssumption DEF TypeInv
<1>1. ActorOfRequest(q) \in Actors
  BY DEF ActorOfRequest
<1>2. CASE \E audited \in BOOLEAN : Finish(q, audited)
  <2>1. ActorOf[loop[q].entry.key] = ActorOfRequest(q)
    BY <1>2 DEF Finish, LoopsInv, LoopOK, Shown
  <2> QED  BY <1>1, <1>2, <2>1 DEF Finish, TypeOK
<1>3. CASE Ask(q) \/ Start(q) \/ Abandon(q)
  BY <1>1, <1>3
     DEF Ask, AskFails, AskBypass, AskDenied, JoinActive, JoinQueued, TakeSlot,
         Overflow, JoinQueue, Start, StartLoop, StartClosed, Abandon, TypeOK, state
<1>4. CASE Run(q) /\ ~ \E audited \in BOOLEAN : Finish(q, audited)
  BY <1>1, <1>4
     DEF Run, Begin, PromptReturns, CompleteWaiter, PromptNext, LoopEnds,
         InterruptLoop, TypeOK, state
<1> QED  BY <1>2, <1>3, <1>4 DEF Moves

\* ... and their loops and asks, too.
LEMMA OthersAlone ==
    ASSUME TypeInv, HolderInv, NEW q \in Requests, Moves(q),
           NEW p \in Requests, ActorOfRequest(p) # ActorOfRequest(q)
    PROVE  /\ loop'[p] = loop[p] /\ pc'[p] = pc[p] /\ closed' = closed
           /\ fiberAt'[KeyOf[p]] = fiberAt[KeyOf[p]]
           /\ active'[ActorOfRequest(p)] = active[ActorOfRequest(p)]
           /\ queued'[ActorOfRequest(p)] = queued[ActorOfRequest(p)]
<1> USE KeyAssumption, NoneAssumption DEF TypeInv
<1>1. p # q /\ KeyOf[p] # KeyOf[q]
  BY DEF ActorOfRequest
<1>2. /\ ActorOfRequest(p) \in Actors /\ ActorOfRequest(q) \in Actors
      /\ KeyOf[p] \in Keys /\ KeyOf[q] \in Keys
  BY DEF ActorOfRequest
<1>3. CASE StartLoop(q)
  <2>1. fiberAt[KeyOf[q]] # p
    BY <1>1, <1>2 DEF HolderInv
  <2> QED  BY <1>1, <1>2, <1>3, <2>1 DEF StartLoop, TypeOK, state
<1>4. CASE \E audited \in BOOLEAN : Finish(q, audited)
  <2>1. ActorOf[loop[q].entry.key] = ActorOfRequest(q)
    BY <1>4 DEF Finish, LoopsInv, LoopOK, Shown
  <2> QED  BY <1>1, <1>2, <1>4, <2>1 DEF Finish, TypeOK
<1>5. CASE Ask(q) \/ StartClosed(q) \/ Abandon(q)
  BY <1>1, <1>2, <1>5
     DEF Ask, AskFails, AskBypass, AskDenied, JoinActive, JoinQueued, TakeSlot,
         Overflow, JoinQueue, StartClosed, Abandon, ReturnAtOnce, TypeOK, state
<1>6. CASE Begin(q) \/ CompleteWaiter(q) \/ PromptNext(q) \/ LoopEnds(q)
  BY <1>1, <1>2, <1>6
     DEF Begin, Move, CompleteWaiter, PromptNext, LoopEnds, TypeOK, state
<1>7. CASE \E result \in Decisions \cup {"failed"} : PromptReturns(q, result)
  BY <1>1, <1>2, <1>7 DEF PromptReturns, TypeOK, state
<1>8. CASE InterruptLoop(q)
  BY <1>1, <1>2, <1>8 DEF InterruptLoop, TypeOK
<1> QED  BY <1>3, <1>4, <1>5, <1>6, <1>7, <1>8 DEF Moves, Start, Run

\* Only keys of its own actor are denied by what a request does.
LEMMA DeniesOwn ==
    ASSUME TypeInv, NEW q \in Requests, Moves(q), NEW k \in denied'
    PROVE  k \in denied \/ ActorOf[k] = ActorOfRequest(q)
<1>1. CASE \E audited \in BOOLEAN : Finish(q, audited)
  <2>1. ActorOf[loop[q].entry.key] = ActorOfRequest(q)
    BY <1>1 DEF Finish, TypeInv, LoopsInv, LoopOK, Shown
  <2> QED  BY <1>1, <2>1 DEF Finish
<1>2. CASE ~ \E audited \in BOOLEAN : Finish(q, audited)
  BY <1>2
     DEF Moves, Ask, AskFails, AskBypass, AskDenied, JoinActive, JoinQueued,
         TakeSlot, Overflow, JoinQueue, Start, StartLoop, StartClosed, Abandon,
         Run, Begin, PromptReturns, CompleteWaiter, PromptNext, LoopEnds,
         InterruptLoop, state
<1> QED  BY <1>1, <1>2

\* The rest of the invariant, where the step is about an actor that is usurped:
\* it says nothing about that actor, and the others are left alone.
LEMMA UsurpedStep ==
    ASSUME PromptInv, [Next]_vars, NEW q \in Requests, Moves(q), ~Kept(q)'
    PROVE  /\ ShutInv' /\ StartInv' /\ FreshInv'
           /\ ~closed' => MapInv' /\ DriveInv'
<1> USE KeyAssumption, NoneAssumption DEF PromptInv
<1>1. ASSUME NEW p \in Requests, Kept(p)'
      PROVE  Kept(p) /\ ActorOfRequest(p) # ActorOfRequest(q)
  BY <1>1, UsurpedGrows DEF Kept, ActorOfRequest
<1>2. ASSUME NEW p \in Requests, Kept(p)'
      PROVE  /\ loop'[p] = loop[p] /\ pc'[p] = pc[p] /\ closed' = closed
             /\ fiberAt'[KeyOf[p]] = fiberAt[KeyOf[p]]
             /\ active'[ActorOfRequest(p)] = active[ActorOfRequest(p)]
             /\ queued'[ActorOfRequest(p)] = queued[ActorOfRequest(p)]
             /\ KeyOf[p] \in denied' => KeyOf[p] \in denied
  <2>1. /\ loop'[p] = loop[p] /\ pc'[p] = pc[p] /\ closed' = closed
        /\ fiberAt'[KeyOf[p]] = fiberAt[KeyOf[p]]
        /\ active'[ActorOfRequest(p)] = active[ActorOfRequest(p)]
        /\ queued'[ActorOfRequest(p)] = queued[ActorOfRequest(p)]
    BY <1>1, <1>2, OthersAlone
  <2>2. KeyOf[p] \in denied' => KeyOf[p] \in denied
    BY <1>1, <1>2, DeniesOwn DEF ActorOfRequest
  <2> QED  BY <2>1, <2>2
<1>3. ShutInv' /\ StartInv' /\ (~closed' => MapInv')
  BY <1>1, <1>2 DEF ShutInv, StartInv, MapInv
<1>4. ASSUME ~closed', NEW p \in Requests, Kept(p)', Drives(p)'
      PROVE  /\ active'[ActorOfRequest(p)] # None
             /\ active'[ActorOfRequest(p)].key = Subject(p)'
             /\ \A s \in Requests :
                    Drives(s)' /\ ActorOfRequest(s) = ActorOfRequest(p) => s = p
  <2>1. \A s \in Requests : ActorOfRequest(s) = ActorOfRequest(p) => Kept(s)'
    BY <1>4 DEF Kept, ActorOfRequest
  <2>2. \A s \in Requests : ActorOfRequest(s) = ActorOfRequest(p) =>
            Drives(s)' = Drives(s) /\ Subject(s)' = Subject(s)
    BY <1>2, <2>1 DEF Drives, Subject
  <2>3. ~closed /\ Kept(p) /\ Drives(p)
    BY <1>1, <1>2, <1>4, <2>2
  <2> QED  BY <1>2, <1>4, <2>2, <2>3 DEF DriveInv
<1>5. ~closed' => DriveInv'
  BY <1>4 DEF DriveInv, ActorOfRequest
<1>6. ASSUME NEW a \in Actors, a \notin usurped'
      PROVE  EntryKeys(a)' \cap denied' = {}
  <2>1. a # ActorOfRequest(q) /\ a \notin usurped
    BY <1>6, UsurpedGrows DEF Kept, ActorOfRequest
  <2>2. active'[a] = active[a] /\ queued'[a] = queued[a]
    BY <2>1, ActorAlone DEF PromptInv
  <2>3. EntryKeys(a)' = EntryKeys(a)
    BY <2>2 DEF EntryKeys
  <2>4. ASSUME NEW k \in EntryKeys(a), k \in denied'
        PROVE  k \in denied
    <3>1. ActorOf[k] = a
      BY <2>4 DEF EntryKeys, TypeInv, FiledInv
    <3> QED  BY <2>1, <2>4, <3>1, DeniesOwn
  <2> QED  BY <2>1, <2>3, <2>4 DEF FreshInv
<1>7. FreshInv'
  BY <1>6 DEF FreshInv
<1> QED  BY <1>3, <1>5, <1>7

\* A loop is registered under its own key, and only there.
LEMMA HolderStep ==
    ASSUME PromptInv, [Next]_vars
    PROVE  HolderInv'
<1> USE KeyAssumption, NoneAssumption DEF PromptInv, TypeInv
<1>1. ASSUME NEW q \in Requests, StartLoop(q) \/ LoopEnds(q)
      PROVE  HolderInv'
  <2>1. \A k \in Keys : fiberAt'[k] # None =>
            fiberAt'[k] = fiberAt[k] \/ (k = KeyOf[q] /\ fiberAt'[k] = q)
    BY <1>1 DEF StartLoop, LoopEnds, TypeOK
  <2> QED  BY <2>1 DEF HolderInv
<1>2. CASE fiberAt' = fiberAt
  BY <1>2 DEF HolderInv
<1> QED
  BY <1>1, <1>2
     DEF Next, Ask, AskFails, AskBypass, AskDenied, JoinActive, JoinQueued,
         TakeSlot, Overflow, JoinQueue, Start, StartClosed, Abandon, Run, Begin,
         PromptReturns, Finish, CompleteWaiter, PromptNext, InterruptLoop,
         Shutdown, vars

\* Every step keeps the inductive invariant.
LEMMA PromptStep == PromptInv /\ [Next]_vars => PromptInv'
<1> SUFFICES ASSUME PromptInv, [Next]_vars
             PROVE  PromptInv'
  OBVIOUS
<1>1. TypeInv'
  BY TypeStep DEF PromptInv
<1>2. HolderInv' /\ Coalesced'
  BY HolderStep, QueueStep
<1>3. CASE CalmNext
  <2>1. ShutInv' /\ StartInv' /\ FreshInv'
    BY <1>3, ShutStep, StartStep, FreshStep
  <2>2. ASSUME ~closed'
        PROVE  MapInv' /\ DriveInv'
    <3>1. ~closed
      BY <2>2
         DEF Next, Ask, AskFails, AskBypass, AskDenied, JoinActive, JoinQueued,
             TakeSlot, Overflow, JoinQueue, Start, StartLoop, StartClosed,
             Abandon, Run, Begin, PromptReturns, Finish, CompleteWaiter,
             PromptNext, LoopEnds, InterruptLoop, Shutdown, vars
    <3> QED  BY <1>3, <2>2, <3>1, MapStep, DriveStep
  <2> QED  BY <1>1, <1>2, <2>1, <2>2 DEF PromptInv
<1>4. CASE ~CalmNext
  <2>1. PICK q \in Requests : Moves(q) /\ ~Kept(q)'
    BY <1>4 DEF Next, CalmNext, Moves
  <2>2. /\ ShutInv' /\ StartInv' /\ FreshInv'
        /\ ~closed' => MapInv' /\ DriveInv'
    BY <2>1, UsurpedStep
  <2> QED  BY <1>1, <1>2, <2>2 DEF PromptInv
<1> QED  BY <1>3, <1>4

\* The inductive invariant holds in every reachable state.
LEMMA PromptInvariant == Spec => []PromptInv
<1> QED  BY PromptInit, PromptStep, PTL DEF Spec

\* An actor is shown one prompt at a time, and it is for the active entry
\* (approval-broker.ts:178-236), for every number of requests, keys and actors,
\* through shutdowns, failures and abandoned requests, until FiberMap.run has
\* interrupted a loop of that very actor; the other actors are not concerned.
THEOREM OnePrompt == Spec => []OnePromptUnlessUsurped
<1>1. PromptInv => OnePromptUnlessUsurped
  <2> SUFFICES ASSUME PromptInv, NEW a \in Actors, a \notin usurped
               PROVE  OnePromptFor(a)
    BY DEF OnePromptUnlessUsurped
  <2>1. ASSUME NEW r \in Requests, Prompting(r), ActorOf[loop[r].entry.key] = a
        PROVE  /\ loop[r].at \in Shown /\ Kept(r) /\ ~closed /\ Drives(r)
               /\ ActorOfRequest(r) = a
               /\ IsActive(loop[r].entry.key)
    <3>1. loop[r].at \in Shown
      BY <2>1 DEF Prompting, Shown
    <3>2. ActorOfRequest(r) = a
      BY <2>1, <3>1 DEF PromptInv, TypeInv, LoopsInv, LoopOK
    <3>3. Kept(r)
      BY <3>2 DEF Kept
    <3> QED  BY <3>1, <3>2, <3>3, FinishesActive DEF IsActive
  <2>2. ASSUME NEW r \in Requests, NEW s \in Requests, Prompting(r), Prompting(s),
               r # s, ActorOf[loop[r].entry.key] = a, ActorOf[loop[s].entry.key] = a
        PROVE  FALSE
    BY <2>1, <2>2 DEF PromptInv, DriveInv
  <2> QED  BY <2>1, <2>2 DEF OnePromptFor
<1> QED  BY <1>1, PromptInvariant, PTL

\* The entries of a queue are never duplicates of each other or of the active one
\* and never exceed the queue's depth, whatever happens; and while no loop of the
\* actor has been usurped none is about a denied scope (approval-broker.ts:168-190).
THEOREM EntriesHold == Spec => []EntriesSound
<1>1. PromptInv => EntriesSound
  <2> SUFFICES ASSUME PromptInv PROVE EntriesSound
    OBVIOUS
  <2>1. \A a \in Actors \ usurped : EntryKeys(a) \cap denied = {}
    BY DEF PromptInv, FreshInv
  <2>2. ASSUME NEW r \in Requests, Kept(r), loop[r].at \in Shown
        PROVE  loop[r].entry.key \notin denied
    BY <2>1, <2>2, FinishesActive DEF EntryKeys, Kept
  <2> QED
    BY <2>1, <2>2
       DEF EntriesSound, DeniedStaysDenied, PromptInv, StartInv, Shown, Kept
<1> QED  BY <1>1, PromptInvariant, PTL

-----------------------------------------------------------------------------
(***************************************************************************)
(* ApprovalBroker implements ApprovalCoalescing.  The refinement mapping   *)
(* counts a decision from the moment the entry leaves the queue, so the    *)
(* invariant says where every waiter is: in one entry, or in the hands of  *)
(* one loop.                                                               *)
(***************************************************************************)

\* A request that waits for a decision: it has been made, it has no answer, and
\* no loop is about to give it one.
Waits(w) ==
    /\ pc[w] # "new"
    /\ answer[w] = None
    /\ \A s \in Requests : loop[s].at = "completing" => w \notin loop[s].todo

\* An entry has waiters, they asked for its key and they all still wait.
EntryOK(e) == e.waiters # {} /\ \A w \in e.waiters :
    KeyOf[w] = e.key /\ Waits(w)

\* The entries of an actor: the active one and those in its queue.
Entries(a) ==
    {queued[a][n] : n \in DOMAIN queued[a]} \cup
    (IF active[a] = None THEN {} ELSE {active[a]})

\* All entries hold requests that wait.
WaitInv == \A a \in Actors : \A e \in Entries(a) : EntryOK(e)

\* A waiter is to be completed by one loop at most.
TodoInv ==
    \A s, t \in Requests : loop[s].at = "completing" => \A w \in loop[s].todo :
        /\ pc[w] # "new"
        /\ loop[t].at = "completing" /\ w \in loop[t].todo => s = t

\* A request that has not been made has no answer.
NewInv == \A r \in Requests : pc[r] = "new" => answer[r] = None

\* A loop that has decided has a decision to give.
ResultInv ==
    \A r \in Requests : loop[r].at \in {"decided", "completing"} =>
        loop[r].result \in Decisions \cup {"failed"}

\* The broker has not been shut down and no loop has been usurped.
Undisturbed == closed = FALSE /\ usurped = {}

\* The invariant behind the refinement: the prompts' invariant, and who waits
\* where as long as the broker is undisturbed.
WaiterInv ==
    /\ PromptInv
    /\ Undisturbed
    /\ WaitInv
    /\ TodoInv
    /\ NewInv
    /\ ResultInv

\* A prompt that is over leaves the other loops alone.
LEMMA PromptIsOver ==
    ASSUME TypeOK, NEW q \in Requests, PromptNext(q) \/ LoopEnds(q)
    PROVE  /\ loop'[q].at \in {"prompting", "ended"}
           /\ \A p \in Requests : p # q => loop'[p] = loop[p]
<1>1. CASE PromptNext(q)
  <2>1. loop' = [loop EXCEPT ![q] = [NoLoop EXCEPT !.at = "prompting", !.entry =
            loop[q].next]]
    BY <1>1 DEF PromptNext
  <2> QED  BY <2>1 DEF TypeOK, NoLoop
<1>2. CASE LoopEnds(q)
  BY <1>2 DEF LoopEnds, TypeOK, NoLoop
<1> QED  BY <1>1, <1>2

\* An answer decides the loop that prompted, and no other.
LEMMA PromptAnswered ==
    ASSUME TypeOK, NEW q \in Requests, NEW result, PromptReturns(q, result)
    PROVE  /\ loop'[q].at = "decided"
           /\ \A p \in Requests : p # q => loop'[p] = loop[p]
<1>1. loop[q] \in Loops
  BY DEF TypeOK
<1> QED  BY <1>1 DEF PromptReturns, TypeOK, Loops

\* A broker that was disturbed stays so.
LEMMA DisturbanceLasts ==
    ASSUME [Next]_vars, Undisturbed'
    PROVE  Undisturbed /\ ~Shutdown
<1>1. closed = FALSE /\ ~Shutdown
  BY DEF Undisturbed, Next, Ask, AskFails, AskBypass, AskDenied, JoinActive,
         JoinQueued, TakeSlot, Overflow, JoinQueue, Start, StartLoop, StartClosed,
         Abandon, Run, Begin, PromptReturns, Finish, CompleteWaiter, PromptNext,
         LoopEnds, InterruptLoop, Shutdown, vars
<1>2. usurped = {}
  BY UsurpedGrows DEF Undisturbed
<1> QED  BY <1>1, <1>2 DEF Undisturbed

\* In an undisturbed broker every actor is kept.
LEMMA AllKept == ASSUME WaiterInv PROVE \A q \in Requests : Kept(q)
  BY DEF WaiterInv, Undisturbed, Kept

\* A loop that disturbs nobody is started under a key that has none.
LEMMA StartsCalmly ==
    ASSUME WaiterInv, Undisturbed', NEW q \in Requests, StartLoop(q)
    PROVE  fiberAt[KeyOf[q]] = None
<1>1. Kept(q) /\ usurped' = usurped
  BY AllKept DEF WaiterInv, Undisturbed
<1> QED  BY <1>1, StartsAlone

\* A request gets an answer only after it has been made.
LEMMA NewStep ==
    ASSUME WaiterInv, [Next]_vars
    PROVE  NewInv'
<1> USE DEF WaiterInv, PromptInv, TypeInv
<1>99. \A p \in Requests : Kept(p)
  BY AllKept
<1> USE <1>99
<1>1. ASSUME NEW q \in Requests, Ask(q) \/ Start(q) \/ Abandon(q)
      PROVE  NewInv'
  BY <1>1
     DEF Ask, AskFails, AskBypass, AskDenied, JoinActive, JoinQueued, TakeSlot,
         Overflow, JoinQueue, Start, StartLoop, StartClosed, Abandon,
         ReturnAtOnce, NewInv, TypeOK
<1>2. ASSUME NEW q \in Requests, CompleteWaiter(q)
      PROVE  NewInv'
  <2>1. loop[q].at = "completing"
    BY <1>2 DEF Undisturbed, CompleteWaiter, ShutInv, Shown
  <2>2. PICK w \in loop[q].todo : answer' = [answer EXCEPT ![w] =
            IF @ = None THEN loop[q].result
            ELSE @]
    BY <1>2 DEF CompleteWaiter
  <2>3. pc[w] # "new" /\ pc' = pc
    BY <1>2, <2>1 DEF TodoInv, CompleteWaiter
  <2> QED  BY <2>2, <2>3 DEF NewInv, TypeOK
<1>3. CASE UNCHANGED <<pc, answer>>
  BY <1>3 DEF NewInv
<1> QED
  BY <1>1, <1>2, <1>3
     DEF Next, Run, Begin, PromptReturns, Finish, PromptNext, LoopEnds,
         InterruptLoop, Shutdown, vars

\* A loop decides with the result of its prompt.
LEMMA ResultStep ==
    ASSUME WaiterInv, [Next]_vars, Undisturbed'
    PROVE  ResultInv'
<1> USE NoneAssumption, KeyAssumption DEF WaiterInv, PromptInv, TypeInv
<1>99. \A p \in Requests : Kept(p)
  BY AllKept
<1> USE <1>99
<1>1. ASSUME NEW q \in Requests, StartLoop(q)
      PROVE  ResultInv'
  <2>1. fiberAt[KeyOf[q]] = None
    BY <1>1, StartsCalmly
  <2>2. ASSUME NEW p \in Requests
        PROVE  p # q => loop'[p] = loop[p]
    BY <1>1, <2>1 DEF StartLoop
  <2>3. loop'[q].at = "scheduled"
    BY <1>1 DEF StartLoop, NoLoop
  <2> QED  BY <2>2, <2>3 DEF ResultInv
<1>2. ASSUME NEW q \in Requests, Begin(q)
      PROVE  ResultInv'
  BY <1>2 DEF Begin, Move, ResultInv, TypeOK, Loops
<1>3. ASSUME NEW q \in Requests, NEW result \in Decisions \cup {"failed"},
             PromptReturns(q, result)
      PROVE  ResultInv'
  <2>1. ASSUME NEW p \in Requests
        PROVE  loop'[p].result = IF p = q THEN result ELSE loop[p].result
    BY <1>3 DEF PromptReturns, TypeOK, Loops
  <2>2. \A p \in Requests : p # q => loop'[p] = loop[p]
    BY <1>3 DEF PromptReturns, TypeOK
  <2> QED  BY <2>1, <2>2 DEF ResultInv
<1>4. ASSUME NEW q \in Requests, NEW audited \in BOOLEAN, Finish(q, audited)
      PROVE  ResultInv'
  BY <1>4 DEF Finish, ResultInv, TypeOK
<1>5. ASSUME NEW q \in Requests, CompleteWaiter(q)
      PROVE  ResultInv'
  BY <1>5 DEF CompleteWaiter, ResultInv, TypeOK, Loops
<1>6. ASSUME NEW q \in Requests,
             PromptNext(q) \/ LoopEnds(q) \/ InterruptLoop(q)
      PROVE  ResultInv'
  <2>1. ~InterruptLoop(q)
    BY DEF Undisturbed, InterruptLoop, ShutInv, Shown
  <2>2. loop'[q].at \in {"prompting", "ended"} /\ \A p \in Requests : p # q =>
            loop'[p] = loop[p]
    BY <1>6, <2>1, PromptIsOver
  <2> QED  BY <2>2 DEF ResultInv
<1>7. ~Shutdown
  BY DisturbanceLasts
<1>8. CASE UNCHANGED loop
  BY <1>8 DEF ResultInv
<1> QED
  BY <1>1, <1>2, <1>3, <1>4, <1>5, <1>6, <1>7, <1>8
     DEF Next, Ask, AskFails, AskBypass, AskDenied, JoinActive, JoinQueued,
         TakeSlot, Overflow, JoinQueue, Start, StartClosed, Abandon, Run, vars

\* The waiters of a decided entry were with no other loop, so no waiter is
\* completed twice.
LEMMA TodoStep ==
    ASSUME WaiterInv, [Next]_vars, Undisturbed'
    PROVE  TodoInv'
<1> USE NoneAssumption, KeyAssumption DEF WaiterInv, PromptInv, TypeInv
<1>99. \A p \in Requests : Kept(p)
  BY AllKept
<1> USE <1>99
<1>0. ASSUME
             \A s \in Requests : loop'[s].at = "completing" => loop[s].at =
                 "completing" /\ loop'[s].todo \subseteq loop[s].todo,
             \A w \in Requests : pc[w] # "new" => pc'[w] # "new"
      PROVE  TodoInv'
  BY <1>0 DEF TodoInv, TypeOK, Loops
<1>1. ASSUME NEW q \in Requests, Ask(q) \/ StartClosed(q) \/ Abandon(q)
      PROVE  TodoInv'
  BY <1>0, <1>1
     DEF Ask, AskFails, AskBypass, AskDenied, JoinActive, JoinQueued, TakeSlot,
         Overflow, JoinQueue, StartClosed, Abandon, ReturnAtOnce, TypeOK
<1>2. ASSUME NEW q \in Requests, StartLoop(q)
      PROVE  TodoInv'
  <2>1. fiberAt[KeyOf[q]] = None
    BY <1>2, StartsCalmly
  <2>2. ASSUME NEW p \in Requests
        PROVE  p # q => loop'[p] = loop[p]
    BY <1>2, <2>1 DEF StartLoop
  <2>3. loop'[q].at = "scheduled"
    BY <1>2 DEF StartLoop, NoLoop
  <2>4. \A w \in Requests : pc[w] # "new" => pc'[w] # "new"
    BY <1>2 DEF StartLoop, TypeOK
  <2> QED  BY <1>0, <2>2, <2>3, <2>4
<1>3. ASSUME NEW q \in Requests, Begin(q)
      PROVE  TodoInv'
  BY <1>0, <1>3 DEF Begin, Move, TypeOK, Loops
<1>4. ASSUME NEW q \in Requests, NEW result \in Decisions \cup {"failed"},
             PromptReturns(q, result)
      PROVE  TodoInv'
  <2>1. loop'[q].at = "decided" /\ \A p \in Requests : p # q =>
            loop'[p] = loop[p]
    BY <1>4, PromptAnswered
  <2> QED  BY <1>0, <1>4, <2>1 DEF PromptReturns
<1>5. ASSUME NEW q \in Requests, NEW audited \in BOOLEAN, Finish(q, audited)
      PROVE  TodoInv'
  <2>1. loop[q].at = "decided" /\ pc' = pc
    BY <1>5 DEF Finish
  <2>2. /\ Removed(loop[q].entry) = active[ActorOfRequest(q)]
        /\ EntryOK(Removed(loop[q].entry))
    BY <2>1, FinishesActive DEF Removed, IsActive, Shown, WaitInv, Entries
  <2>3. \A p \in Requests : p # q => loop'[p] = loop[p]
    BY <1>5 DEF Finish, TypeOK
  <2>4. loop'[q].todo = Removed(loop[q].entry).waiters
    BY <1>5 DEF Finish, TypeOK
  <2>5. \A w \in loop'[q].todo : Waits(w)
    BY <2>2, <2>4 DEF EntryOK
  <2>6. ASSUME NEW s \in Requests, NEW t \in Requests, loop'[s].at =
                   "completing",
               NEW w \in loop'[s].todo
        PROVE  /\ pc'[w] # "new"
               /\ loop'[t].at = "completing" /\ w \in loop'[t].todo => s = t
    <3>1. CASE s = q
      BY <2>1, <2>3, <2>5, <2>6, <3>1 DEF Waits
    <3>2. CASE s # q
      BY <2>1, <2>3, <2>5, <2>6, <3>2 DEF Waits, TodoInv
    <3> QED  BY <3>1, <3>2
  <2> QED  BY <2>6 DEF TodoInv
<1>6. ASSUME NEW q \in Requests, CompleteWaiter(q)
      PROVE  TodoInv'
  BY <1>0, <1>6 DEF CompleteWaiter, TypeOK, Loops
<1>7. ASSUME NEW q \in Requests,
             PromptNext(q) \/ LoopEnds(q) \/ InterruptLoop(q)
      PROVE  TodoInv'
  <2>1. ~InterruptLoop(q)
    BY DEF Undisturbed, InterruptLoop, ShutInv, Shown
  <2>2. loop'[q].at \in {"prompting", "ended"} /\ \A p \in Requests : p # q =>
            loop'[p] = loop[p]
    BY <1>7, <2>1, PromptIsOver
  <2>3. pc' = pc
    BY <1>7, <2>1 DEF PromptNext, LoopEnds
  <2> QED  BY <1>0, <2>2, <2>3
<1>8. ~Shutdown
  BY DisturbanceLasts
<1>9. CASE UNCHANGED vars
  BY <1>0, <1>9 DEF vars
<1> QED
  BY <1>1, <1>2, <1>3, <1>4, <1>5, <1>6, <1>7, <1>8, <1>9 DEF Next, Start, Run

\* The four ways of an ask to end in an entry.
Joins(q) == JoinActive(q) \/ JoinQueued(q) \/ TakeSlot(q) \/ JoinQueue(q)

\* Joining adds the request to an entry or makes one for it, and loses none.
LEMMA Joined ==
    ASSUME TypeOK, NEW q \in Requests, Joins(q)
    PROVE  /\ \A a \in Actors : \A e \in Entries(a)' :
                  \/ e \in Entries(a)
                  \/ e = NewEntry(q)
                  \/ \E f \in Entries(a) :
                         f.key = KeyOf[q] /\ e = AddWaiter(f, q)
           /\ \A a \in Actors : \A f \in Entries(a) :
                  f \in Entries(a)' \/ AddWaiter(f, q) \in Entries(a)'
           /\ \E a \in Actors : \/ NewEntry(q) \in Entries(a)'
                                \/ \E f \in Entries(a) :
                                       AddWaiter(f, q) \in Entries(a)'
<1> USE KeyAssumption, NoneAssumption
<1> DEFINE b == ActorOfRequest(q)
<1>0. b \in Actors /\ NewEntry(q) \in Entry /\ b = ActorOf[KeyOf[q]]
  BY DEF ActorOfRequest, NewEntry, Entry
<1> HIDE DEF b
<1>5. \A a \in Actors :
          queued[a] \in Seq(Entry) /\ active[a] \in Entry \cup {None}
  BY DEF TypeOK
<1>1. CASE JoinActive(q)
  <2>1. /\ active[b] \in Entry /\ active[b].key = KeyOf[q]
        /\ active' = [active EXCEPT ![b] = AddWaiter(active[b], q)]
        /\ queued' = queued
    BY <1>0, <1>1, <1>5 DEF JoinActive, IsActive, b
  <2>2. AddWaiter(active[b], q) # None /\ active[b] # None
    BY <2>1, WaiterAdded
  <2>3. /\ Entries(b) = {queued[b][n] : n \in DOMAIN queued[b]} \cup {active[b]}
        /\ Entries(b)' = {queued[b][n] : n \in DOMAIN queued[b]}
                         \cup {AddWaiter(active[b], q)}
    BY <1>0, <2>1, <2>2 DEF Entries, TypeOK, b, ActorOfRequest
  <2>4. \A a \in Actors : a # b => Entries(a)' = Entries(a)
    BY <2>1 DEF Entries, TypeOK
  <2> QED  BY <1>0, <2>1, <2>3, <2>4
<1>2. CASE JoinQueued(q)
  <2>1. PICK n \in DOMAIN queued[b] :
            /\ queued[b][n].key = KeyOf[q]
            /\ queued' = [queued EXCEPT ![b][n] = AddWaiter(queued[b][n], q)]
    BY <1>0, <1>2 DEF JoinQueued, QueuePositions, b
  <2>2. active' = active
    BY <1>2 DEF JoinQueued
  <2>3. /\ DOMAIN queued'[b] = DOMAIN queued[b]
        /\ queued'[b][n] = AddWaiter(queued[b][n], q)
        /\ \A m \in DOMAIN queued[b] : m # n => queued'[b][m] = queued[b][m]
    BY <1>0, <2>1 DEF TypeOK
  <2>4. \A a \in Actors : a # b => Entries(a)' = Entries(a)
    BY <2>1, <2>2 DEF Entries, TypeOK
  <2>5. \A e \in Entries(b)' :
            e \in Entries(b) \/ e = AddWaiter(queued[b][n], q)
    <3> SUFFICES ASSUME NEW e \in Entries(b)'
                 PROVE  e \in Entries(b) \/ e = AddWaiter(queued[b][n], q)
      OBVIOUS
    <3>1. CASE e \in IF active'[b] = None THEN {} ELSE {active'[b]}
      BY <2>2, <3>1 DEF Entries
    <3>2. CASE \E m \in DOMAIN queued'[b] : e = queued'[b][m]
      BY <2>3, <3>2 DEF Entries
    <3> QED  BY <3>1, <3>2 DEF Entries, b, ActorOfRequest
  <2>6. \A f \in Entries(b) :
            f \in Entries(b)' \/ AddWaiter(f, q) \in Entries(b)'
    <3> SUFFICES ASSUME NEW f \in Entries(b)
                 PROVE  f \in Entries(b)' \/ AddWaiter(f, q) \in Entries(b)'
      OBVIOUS
    <3>1. CASE f \in IF active[b] = None THEN {} ELSE {active[b]}
      BY <2>2, <3>1 DEF Entries, b, ActorOfRequest
    <3>2. CASE \E m \in DOMAIN queued[b] : f = queued[b][m]
      BY <2>3, <3>2 DEF Entries, b, ActorOfRequest
    <3> QED  BY <3>1, <3>2 DEF Entries
  <2>7. /\ queued[b][n] \in Entries(b)
        /\ AddWaiter(queued[b][n], q) \in Entries(b)'
    BY <2>1, <2>3 DEF Entries, b, ActorOfRequest
  <2> QED  BY <1>0, <2>1, <2>4, <2>5, <2>6, <2>7
<1>3. CASE TakeSlot(q)
  <2>1. /\ active[b] = None /\ queued' = queued
        /\ active' = [active EXCEPT ![b] = NewEntry(q)]
    BY <1>3 DEF TakeSlot, SlotFree, b
  <2>2. Entries(b)' = Entries(b) \cup {NewEntry(q)}
    BY <1>0, <2>1 DEF Entries, TypeOK, b, ActorOfRequest
  <2>3. \A a \in Actors : a # b => Entries(a)' = Entries(a)
    BY <2>1 DEF Entries, TypeOK
  <2> QED  BY <1>0, <2>2, <2>3
<1>4. CASE JoinQueue(q)
  <2>1. /\ queued' = [queued EXCEPT ![b] = Append(queued[b], NewEntry(q))]
        /\ active' = active
    BY <1>4 DEF JoinQueue, b
  <2>2. queued'[b] = Append(queued[b], NewEntry(q)) /\ queued[b] \in Seq(Entry)
    BY <1>0, <2>1 DEF TypeOK
  <2>3. /\ DOMAIN queued'[b] = DOMAIN queued[b] \cup {Len(queued[b]) + 1}
        /\ \A n \in DOMAIN queued[b] : queued'[b][n] = queued[b][n]
        /\ queued'[b][Len(queued[b]) + 1] = NewEntry(q)
    BY <2>2
  <2>4. Entries(b)' = Entries(b) \cup {NewEntry(q)}
    BY <2>1, <2>3 DEF Entries, b, ActorOfRequest
  <2>5. \A a \in Actors : a # b => Entries(a)' = Entries(a)
    BY <2>1 DEF Entries, TypeOK
  <2> QED  BY <1>0, <2>4, <2>5
<1> QED  BY <1>1, <1>2, <1>3, <1>4 DEF Joins

\* What a decision takes out of the state, and what it leaves.
LEMMA Finished ==
    ASSUME PromptInv, NEW q \in Requests, Kept(q), NEW audited \in BOOLEAN,
           Finish(q, audited)
    PROVE  LET b == ActorOfRequest(q)
               k == loop[q].entry.key
           IN  /\ b \in Actors /\ k \in Keys /\ active[b] # None
               /\ active[b] \in Entries(b) /\ active[b].key = k
               /\ Removed(loop[q].entry) = active[b]
               /\ \A a \in Actors : \A e \in Entries(a)' :
                      e \in Entries(a) /\ e.key # k
               /\ \A a \in Actors : \A e \in Entries(a) :
                      e \in Entries(a)' \/ e = active[b]
<1> USE KeyAssumption, NoneAssumption DEF PromptInv, TypeInv
<1> DEFINE b == ActorOfRequest(q)
           k == loop[q].entry.key
           next == IF queued[b] = <<>> THEN None ELSE Head(queued[b])
<1>1. loop[q].at \in Shown
  BY DEF Finish, Shown
<1>2. b \in Actors /\ active[b] # None /\ active[b].key = k /\ ActorOf[k] = b
  BY <1>1, FinishesActive
<1>3. /\ active' = [active EXCEPT ![b] = next]
      /\ queued' = [queued EXCEPT ![b] = IF next = None THEN <<>>
                                         ELSE Tail(queued[b])]
  BY <1>2 DEF Finish
<1>4. /\ active[b] \in Entries(b)
      /\ k \in Keys
      /\ Removed(loop[q].entry) = active[b]
  BY <1>2 DEF Entries, Entry, TypeOK, Removed, IsActive
<1> HIDE DEF b, k
<1>5. ASSUME NEW a \in Actors, a # b
      PROVE  Entries(a)' = Entries(a) /\ \A e \in Entries(a) : e.key # k
  <2>1. Entries(a)' = Entries(a)
    BY <1>3, <1>5 DEF Entries, TypeOK
  <2>2. \A e \in Entries(a) : ActorOf[e.key] = a
    BY DEF Entries, FiledInv
  <2> QED  BY <1>2, <1>5, <2>1, <2>2
<1>6. \A n \in DOMAIN queued[b] : queued[b][n].key # k
  BY <1>2 DEF Coalesced
<1>7. queued[b] \in Seq(Entry)
  BY <1>2 DEF TypeOK
<1>8. ASSUME NEW e \in Entries(b)'
      PROVE  \E n \in DOMAIN queued[b] : e = queued[b][n]
  <2>1. CASE \E n \in DOMAIN queued'[b] : e = queued'[b][n]
    <3>1. queued[b] # <<>> /\ queued'[b] = Tail(queued[b])
      BY <1>2, <1>3, <2>1 DEF TypeOK
    <3>2. \A n \in DOMAIN queued'[b] :
              n + 1 \in DOMAIN queued[b] /\ queued'[b][n] = queued[b][n + 1]
      BY <1>7, <3>1
    <3> QED  BY <2>1, <3>2
  <2>2. CASE e \in IF active'[b] = None THEN {} ELSE {active'[b]}
    <3>1. e = next /\ next # None
      BY <1>2, <1>3, <2>2 DEF TypeOK
    <3> QED  BY <1>7, <3>1
  <2> QED  BY <2>1, <2>2 DEF Entries, b, ActorOfRequest
<1>9. ASSUME NEW n \in DOMAIN queued[b]
      PROVE  queued[b][n] \in Entries(b)'
  <2>1. queued[b] # <<>> /\ next = queued[b][1] /\ next \in Entry
    BY <1>7, <1>9
  <2>2. /\ queued'[b] = Tail(queued[b])
        /\ active'[b] = queued[b][1]
        /\ active'[b] # None
    BY <1>2, <1>3, <2>1 DEF TypeOK
  <2>3. CASE n = 1
    BY <2>2, <2>3 DEF Entries, b, ActorOfRequest
  <2>4. CASE n # 1
    <3>1. n - 1 \in DOMAIN queued'[b] /\ queued'[b][n - 1] = queued[b][n]
      BY <1>7, <1>9, <2>1, <2>2, <2>4
    <3> QED  BY <3>1 DEF Entries, b, ActorOfRequest
  <2> QED  BY <2>3, <2>4
<1>10. \A a \in Actors : \A e \in Entries(a)' : e \in Entries(a) /\ e.key # k
  <2> SUFFICES ASSUME NEW a \in Actors, NEW e \in Entries(a)'
               PROVE  e \in Entries(a) /\ e.key # k
    OBVIOUS
  <2>1. CASE a = b
    <3>1. e \in Entries(b)'
      BY <2>1 DEF b, ActorOfRequest
    <3> QED  BY <1>6, <1>8, <2>1, <3>1 DEF Entries
  <2>2. CASE a # b
    BY <1>5, <2>2
  <2> QED  BY <2>1, <2>2
<1>11. \A a \in Actors : \A e \in Entries(a) :
           e \in Entries(a)' \/ e = active[b]
  <2> SUFFICES ASSUME NEW a \in Actors, NEW e \in Entries(a)
               PROVE  e \in Entries(a)' \/ e = active[b]
    OBVIOUS
  <2>1. CASE a = b
    <3>1. e = active[b] \/ \E n \in DOMAIN queued[b] : e = queued[b][n]
      BY <2>1 DEF Entries
    <3>2. Entries(a)' = Entries(b)'
      BY <2>1 DEF b, ActorOfRequest
    <3> QED  BY <1>9, <3>1, <3>2
  <2>2. CASE a # b
    BY <1>5, <2>2
  <2> QED  BY <2>1, <2>2
<1> QED  BY <1>2, <1>4, <1>10, <1>11 DEF b, k

\* Nobody stops waiting, and nobody starts to, but by these steps.
LEMMA WaitsStep ==
    ASSUME WaiterInv, Undisturbed', NEW q \in Requests,
           \/ AskFails(q) \/ AskBypass(q) \/ AskDenied(q) \/ Overflow(q)
           \/ Start(q) \/ Abandon(q) \/ Begin(q) \/ CompleteWaiter(q)
           \/ PromptNext(q) \/ LoopEnds(q)
           \/ \E result \in Decisions \cup {"failed"} : PromptReturns(q, result)
    PROVE  /\ \A w \in Requests : Waits(w) => Waits(w)'
           /\ active' = active /\ queued' = queued
<1> USE NoneAssumption, KeyAssumption DEF WaiterInv, PromptInv, TypeInv
<1>99. \A p \in Requests : Kept(p)
  BY AllKept
<1> USE <1>99
<1>0. ASSUME NEW w \in Requests, Waits(w), pc'[w] # "new", answer'[w] = None,
             \A s \in Requests :
                 loop'[s].at = "completing" /\ w \in loop'[s].todo =>
                     loop[s].at = "completing" /\ w \in loop[s].todo
      PROVE  Waits(w)'
  BY <1>0 DEF Waits
<1>1. CASE \/ AskFails(q) \/ AskBypass(q) \/ AskDenied(q) \/ Overflow(q)
           \/ Abandon(q)
  <2>1. loop' = loop /\ active' = active /\ queued' = queued
    BY <1>1 DEF AskFails, AskBypass, AskDenied, Overflow, Abandon, state
  <2>2. ASSUME NEW w \in Requests, Waits(w)
        PROVE  pc'[w] # "new" /\ answer'[w] = None
    BY <1>1, <2>2
       DEF Waits, AskFails, AskBypass, AskDenied, Overflow, NeedsPrompt,
           Enqueue, Abandon, ReturnAtOnce, TypeOK
  <2> QED  BY <1>0, <2>1, <2>2
<1>2. CASE Start(q)
  <2>1. StartLoop(q)
    BY <1>2 DEF Undisturbed, Start, StartClosed
  <2>2. fiberAt[KeyOf[q]] = None
    BY <2>1, StartsCalmly
  <2>3. ASSUME NEW p \in Requests
        PROVE  p # q => loop'[p] = loop[p]
    BY <2>1, <2>2 DEF StartLoop
  <2>4. loop'[q].at = "scheduled"
    BY <2>1 DEF StartLoop, NoLoop
  <2>5. answer' = answer /\ active' = active /\ queued' =
            queued /\ \A w \in Requests : pc[w] # "new" => pc'[w] # "new"
    BY <2>1 DEF StartLoop, state, TypeOK
  <2> QED  BY <1>0, <2>3, <2>4, <2>5 DEF Waits
<1>3. CASE Begin(q)
  <2>1. \A s \in Requests : loop'[s].at = "completing" => loop'[s] = loop[s]
    BY <1>3 DEF Begin, Move, TypeOK, Loops
  <2> QED  BY <1>0, <1>3, <2>1 DEF Begin, state, Waits
<1>4. CASE CompleteWaiter(q)
  <2>1. loop[q].at = "completing"
    BY <1>4 DEF Undisturbed, CompleteWaiter, ShutInv, Shown
  <2>2. PICK w \in loop[q].todo :
            /\ answer' =
                   [answer EXCEPT ![w] = IF @ = None THEN loop[q].result ELSE @]
            /\ loop' = [loop EXCEPT ![q].todo = loop[q].todo \ {w}]
    BY <1>4 DEF CompleteWaiter
  <2>3. \A s \in Requests :
            loop'[s].at = loop[s].at /\ loop'[s].todo \subseteq loop[s].todo
    BY <2>2 DEF TypeOK, Loops
  <2>4. \A v \in Requests : Waits(v) => answer'[v] = None
    BY <2>1, <2>2 DEF Waits, TypeOK
  <2> QED  BY <1>0, <1>4, <2>3, <2>4 DEF CompleteWaiter, state, Waits
<1>5. CASE PromptNext(q) \/ LoopEnds(q)
  <2>1. \A s \in Requests : loop'[s].at = "completing" => loop'[s] = loop[s]
    BY <1>5, PromptIsOver
  <2> QED  BY <1>0, <1>5, <2>1 DEF PromptNext, LoopEnds, state, Waits
<1>6. CASE \E result \in Decisions \cup {"failed"} : PromptReturns(q, result)
  <2>0. PICK result \in Decisions \cup {"failed"} : PromptReturns(q, result)
    BY <1>6
  <2>1. loop'[q].at = "decided" /\ \A p \in Requests : p # q =>
            loop'[p] = loop[p]
    BY <2>0, PromptAnswered
  <2> QED  BY <1>0, <2>0, <2>1 DEF PromptReturns, state, Waits
<1> QED  BY <1>1, <1>2, <1>3, <1>4, <1>5, <1>6

\* Every step keeps every entry's waiters waiting: a decision takes its entry
\* out in the step that stops them waiting.
LEMMA WaitStep ==
    ASSUME WaiterInv, [Next]_vars, Undisturbed'
    PROVE  WaitInv'
<1> USE NoneAssumption, KeyAssumption DEF WaiterInv, PromptInv, TypeInv
<1>99. \A p \in Requests : Kept(p)
  BY AllKept
<1> USE <1>99
<1>1. ASSUME NEW q \in Requests, Joins(q)
      PROVE  WaitInv'
  <2>1. \A w \in Requests : Waits(w) => Waits(w)'
    BY <1>1
       DEF Joins, JoinActive, JoinQueued, TakeSlot, JoinQueue, Waits, TypeOK
  <2>2. Waits(q)'
    <3>1. pc'[q] # "new" /\ answer' = answer /\ loop' = loop /\ pc[q] = "new"
      BY <1>1
         DEF Joins, JoinActive, JoinQueued, TakeSlot, JoinQueue, NeedsPrompt,
             Enqueue, TypeOK
    <3> QED  BY <3>1 DEF Waits, NewInv, TodoInv
  <2> SUFFICES ASSUME NEW a \in Actors, NEW e \in Entries(a)'
               PROVE  EntryOK(e)'
    BY DEF WaitInv
  <2>3. CASE e \in Entries(a)
    <3>1. e \in Entry /\ EntryOK(e)
      BY <2>3 DEF WaitInv, Entries, TypeOK
    <3> QED  BY <2>1, <3>1 DEF EntryOK, Entry
  <2>4. CASE e = NewEntry(q)
    BY <2>2, <2>4 DEF EntryOK, NewEntry
  <2>5. CASE \E f \in Entries(a) : f.key = KeyOf[q] /\ e = AddWaiter(f, q)
    <3>1. PICK f \in Entries(a) : f.key = KeyOf[q] /\ e = AddWaiter(f, q)
      BY <2>5
    <3>2. f \in Entry /\ EntryOK(f)
      BY DEF WaitInv, Entries, TypeOK
    <3>3. e.key = f.key /\ e.waiters = f.waiters \cup {q}
      BY <3>1, <3>2 DEF AddWaiter, Entry
    <3>4. \A w \in e.waiters : w \in Requests /\ KeyOf[w] = e.key /\ Waits(w)'
      BY <2>1, <2>2, <3>1, <3>2, <3>3 DEF EntryOK, Entry
    <3> QED  BY <3>3, <3>4 DEF EntryOK
  <2> QED  BY <1>1, <2>3, <2>4, <2>5, Joined
<1>2. ASSUME NEW q \in Requests, NEW audited \in BOOLEAN, Finish(q, audited)
      PROVE  WaitInv'
  <2> SUFFICES ASSUME NEW a \in Actors, NEW e \in Entries(a)'
               PROVE  EntryOK(e)'
    BY DEF WaitInv
  <2>1. e \in Entries(a) /\ e.key # loop[q].entry.key
    BY <1>2, Finished
  <2>2. e \in Entry /\ EntryOK(e)
    BY <2>1 DEF WaitInv, Entries, TypeOK
  <2>3. /\ EntryOK(Removed(loop[q].entry))
        /\ Removed(loop[q].entry).key = loop[q].entry.key
    BY <1>2, Finished DEF WaitInv
  <2>4. /\ pc' = pc /\ answer' = answer
        /\ loop'[q].todo = Removed(loop[q].entry).waiters
        /\ \A p \in Requests : p # q => loop'[p] = loop[p]
    BY <1>2 DEF Finish, TypeOK
  <2>5. \A w \in e.waiters : w \in Requests /\ Waits(w)'
    BY <2>1, <2>2, <2>3, <2>4 DEF EntryOK, Waits, Entry
  <2> QED  BY <2>2, <2>5 DEF EntryOK
<1>3. ASSUME \A w \in Requests : Waits(w) => Waits(w)', active' = active,
             queued' = queued
      PROVE  WaitInv'
  <2> SUFFICES ASSUME NEW a \in Actors, NEW e \in Entries(a)'
               PROVE  EntryOK(e)'
    BY DEF WaitInv
  <2>1. e \in Entries(a) /\ e \in Entry
    BY <1>3 DEF Entries, TypeOK
  <2>2. EntryOK(e)
    BY <2>1 DEF WaitInv
  <2> QED  BY <1>3, <2>1, <2>2 DEF EntryOK, Entry
<1>4. CASE UNCHANGED vars
  BY <1>3, <1>4 DEF vars, state, Waits
<1>5. \A q \in Requests : ~InterruptLoop(q)
  BY DEF Undisturbed, InterruptLoop, ShutInv, Shown
<1>6. ~Shutdown
  BY DisturbanceLasts
<1> QED
  BY <1>1, <1>2, <1>3, <1>4, <1>5, <1>6, WaitsStep DEF Next, Ask, Run, Joins

\* The refinement's invariant holds when the broker is made.
LEMMA WaiterInit == Init => WaiterInv
<1> SUFFICES ASSUME Init PROVE WaiterInv
  OBVIOUS
<1>1. Undisturbed /\ NewInv
  BY DEF Init, Undisturbed, NewInv
<1>2. TodoInv /\ ResultInv
  BY DEF Init, TodoInv, ResultInv, NoLoop
<1>3. WaitInv
  BY DEF Init, WaitInv, Entries
<1> QED  BY <1>1, <1>2, <1>3, PromptInit DEF WaiterInv

\* Every step keeps the refinement's invariant.
LEMMA WaiterStep ==
    ASSUME WaiterInv, [Next]_vars, Undisturbed'
    PROVE  WaiterInv'
<1>1. PromptInv'
  BY PromptStep DEF WaiterInv
<1> QED
  BY <1>1, WaitStep, TodoStep, NewStep, ResultStep DEF WaiterInv

-------------------------------------------------------------------------------

\* The requests that are in an entry.
InEntry(r) == \E a \in Actors : \E e \in Entries(a) : r \in e.waiters

\* What the refinement mapping substitutes for the abstract variables, written
\* with the entries.
Open == [k \in Keys |-> {r \in Requests : KeyOf[r] = k /\ InEntry(r)}]

\* The decision each caller has been promised.
Decided == [r \in Requests |-> Promised(r)]

\* Open, in the words of the module that states the refinement.
Filed ==
    [k \in Keys |-> {r \in Requests : KeyOf[r] = k /\ \E a \in Actors :
        \/ active[a] # None /\ r \in active[a].waiters
        \/ \E n \in DOMAIN queued[a] : r \in queued[a][n].waiters}]

\* What the refinement mapping calls open is what the entries hold, before and
\* after a step.
LEMMA OpenIs == Open = Filed /\ Open' = Filed'
<1>1. ASSUME NEW r \in Requests
      PROVE  InEntry(r) <=> \E a \in Actors :
                \/ active[a] # None /\ r \in active[a].waiters
                \/ \E n \in DOMAIN queued[a] : r \in queued[a][n].waiters
  BY DEF InEntry, Entries
<1>2. ASSUME NEW r \in Requests
      PROVE  InEntry(r)' <=> \E a \in Actors :
                \/ active'[a] # None /\ r \in active'[a].waiters
                \/ \E n \in DOMAIN queued'[a] : r \in queued'[a][n].waiters
  BY DEF InEntry, Entries
<1>3. Open = Filed
  BY <1>1 DEF Open, Filed
<1>4. Open' = Filed'
  BY <1>2 DEF Open, Filed
<1> QED  BY <1>3, <1>4

\* Somebody who waits has no decision yet.
LEMMA WaitersUndecided ==
    ASSUME WaiterInv, NEW r \in Requests, InEntry(r)
    PROVE  Promised(r) = None /\ Waits(r)
<1>1. Waits(r)
  BY DEF InEntry, WaiterInv, WaitInv, EntryOK
<1> QED  BY <1>1 DEF Waits, Promised

\* The loop that is to complete a waiter is the only one.
LEMMA PromisedBy ==
    ASSUME NEW r \in Requests, NEW s \in Requests,
           answer[r] = None, loop[s].at = "completing", r \in loop[s].todo,
           \A t \in Requests :
               loop[t].at = "completing" /\ r \in loop[t].todo => t = s
    PROVE  Promised(r) = loop[s].result
<1>1. (CHOOSE t \in Requests :
          loop[t].at = "completing" /\ r \in loop[t].todo) = s
  OBVIOUS
<1> QED  BY <1>1 DEF Promised

\* A request that is put in an entry joins those who wait for its key.
LEMMA AttachMaps ==
    ASSUME NEW q \in Requests, Promised(q) = None, KeyOf[q] \notin denied,
           ~InEntry(q),
           \A r \in Requests : InEntry(r)' <=> InEntry(r) \/ r = q,
           \A r \in Requests : Promised(r)' = Promised(r),
           devApproveAll' = devApproveAll, denied' = denied
    PROVE  Coalescing!Next
<1>1. q \notin Filed[KeyOf[q]]
  BY OpenIs, KeyAssumption DEF Open
<1>2. Filed' = [Filed EXCEPT ![KeyOf[q]] = Filed[KeyOf[q]] \cup {q}]
  BY OpenIs, KeyAssumption DEF Open
<1>3. Decided' = Decided /\ Decided[q] = None
  BY DEF Decided
<1>4. Coalescing!Attach(q)
  BY <1>1, <1>2, <1>3 DEF Coalescing!Attach, Decided, Filed
<1> QED  BY <1>4 DEF Coalescing!Next

\* A request that is turned away or decided at once.
LEMMA ReturnMaps ==
    ASSUME NEW q \in Requests, NEW verdict \in Answers, Promised(q) = None,
           ~InEntry(q),
           verdict = "denied-for-scope" => KeyOf[q] \in denied,
           verdict = "approved" => devApproveAll,
           verdict # "denied-once",
           \A r \in Requests : InEntry(r)' <=> InEntry(r),
           \A r \in Requests :
               Promised(r)' = IF r = q THEN verdict ELSE Promised(r),
           devApproveAll' = devApproveAll, denied' = denied
    PROVE  Coalescing!Next
<1>1. q \notin Filed[KeyOf[q]]
  BY OpenIs, KeyAssumption DEF Open
<1>2. Filed' = Filed
  BY OpenIs DEF Open
<1>3. Decided' = [Decided EXCEPT ![q] = verdict] /\ Decided[q] = None
  BY DEF Decided
<1>4. Coalescing!Return(q, verdict)
  BY <1>1, <1>2, <1>3 DEF Coalescing!Return, Decided, Filed
<1> QED  BY <1>4 DEF Coalescing!Next

\* A step that callers do not see.
LEMMA StutterMaps ==
    ASSUME \A r \in Requests : InEntry(r)' <=> InEntry(r),
           \A r \in Requests : Promised(r)' = Promised(r),
           devApproveAll' = devApproveAll, denied' = denied
    PROVE  UNCHANGED Coalescing!vars
<1>1. Filed' = Filed
  BY OpenIs DEF Open
<1>2. Decided' = Decided
  BY DEF Decided
<1> QED  BY <1>1, <1>2 DEF Coalescing!vars, Decided, Filed

\* One outcome for everybody who waits for a key.
LEMMA DecideMaps ==
    ASSUME NEW k \in Keys, NEW verdict \in Answers,
           \E r \in Requests : InEntry(r) /\ KeyOf[r] = k,
           \A r \in Requests : InEntry(r)' <=> InEntry(r) /\ KeyOf[r] # k,
           \A r \in Requests :
               Promised(r)' = IF InEntry(r) /\ KeyOf[r] = k THEN verdict
                              ELSE Promised(r),
           \/ denied' = denied /\ verdict # "denied-for-scope"
           \/ /\ denied' = denied \cup {k}
              /\ verdict \in {"denied-for-scope", "failed"},
           devApproveAll' = devApproveAll
    PROVE  Coalescing!Next
<1>1. Filed[k] # {}
  BY OpenIs DEF Open
<1>2. Filed' = [Filed EXCEPT ![k] = {}]
  BY OpenIs DEF Open
<1>3. \A r \in Requests : r \in Filed[k] <=> InEntry(r) /\ KeyOf[r] = k
  BY OpenIs DEF Open
<1>4. Decided' =
          [r \in Requests |-> IF r \in Filed[k] THEN verdict ELSE Decided[r]]
  BY <1>3 DEF Decided
<1>5. Coalescing!Decide(k, verdict)
  BY <1>1, <1>2, <1>4 DEF Coalescing!Decide, Decided, Filed
<1> QED  BY <1>5 DEF Coalescing!Next

\* A decision stands while the answer and the loop that holds the waiter do.
LEMMA PromisedKept ==
    ASSUME WaiterInv, TodoInv', NEW r \in Requests, answer'[r] = answer[r],
           \A s \in Requests :
               /\ loop'[s].at = "completing" /\ r \in loop'[s].todo <=>
                  loop[s].at = "completing" /\ r \in loop[s].todo
               /\ loop'[s].at = "completing" /\ r \in loop'[s].todo =>
                      loop'[s].result = loop[s].result
    PROVE  Promised(r)' = Promised(r)
<1>1. CASE answer[r] # None
  BY <1>1 DEF Promised
<1>2. CASE answer[r] = None /\ \E s \in Requests :
               loop[s].at = "completing" /\ r \in loop[s].todo
  <2>1. PICK s \in Requests : loop[s].at = "completing" /\ r \in loop[s].todo
    BY <1>2
  <2>2. \A t \in Requests : loop[t].at = "completing" /\ r \in loop[t].todo =>
            t = s
    BY <2>1 DEF WaiterInv, TodoInv
  <2>3. (CHOOSE t \in Requests :
            loop[t].at = "completing" /\ r \in loop[t].todo) = s
    BY <2>1, <2>2
  <2>4. (CHOOSE t \in Requests :
            loop'[t].at = "completing" /\ r \in loop'[t].todo) = s
    BY <2>1, <2>2
  <2>5. /\ loop'[s].at = "completing"
        /\ r \in loop'[s].todo
        /\ loop'[s].result = loop[s].result
    BY <2>1
  <2>6. Promised(r) = loop[s].result
    BY <1>2, <2>1, <2>3 DEF Promised
  <2>7. Promised(r)' = loop'[s].result
    BY <1>2, <2>4, <2>5 DEF Promised
  <2> QED  BY <2>5, <2>6, <2>7
<1>3. CASE /\ answer[r] = None
           /\ ~\E s \in Requests :
                  loop[s].at = "completing" /\ r \in loop[s].todo
  BY <1>3 DEF Promised
<1> QED  BY <1>1, <1>2, <1>3

\* Who is in an entry depends on the entries alone.
LEMMA EntriesKept ==
    ASSUME active' = active, queued' = queued
    PROVE  \A r \in Requests : InEntry(r)' <=> InEntry(r)
  BY DEF InEntry, Entries

\* A request that has only been made is in no entry and has no decision.
LEMMA NewUndecided ==
    ASSUME WaiterInv, NEW q \in Requests, pc[q] = "new"
    PROVE  Promised(q) = None /\ ~InEntry(q) /\ answer[q] = None
<1>1. answer[q] = None
  BY DEF WaiterInv, NewInv
<1>2. ~\E s \in Requests : loop[s].at = "completing" /\ q \in loop[s].todo
  BY DEF WaiterInv, TodoInv
<1>3. ~InEntry(q)
  BY WaitersUndecided DEF Waits
<1> QED  BY <1>1, <1>2, <1>3 DEF Promised

\* An ask returns at once or joins those who wait.
LEMMA AskMaps ==
    ASSUME WaiterInv, WaiterInv', NEW q \in Requests, Ask(q)
    PROVE  Coalescing!Next
<1> USE DEF WaiterInv, PromptInv, TypeInv
<1>0. /\ pc[q] = "new"
      /\ loop' = loop
      /\ devApproveAll' = devApproveAll
      /\ denied' = denied
  BY DEF Ask, AskFails, AskBypass, AskDenied, JoinActive, JoinQueued, TakeSlot,
         Overflow, JoinQueue, NeedsPrompt, Enqueue, state
<1>1. Promised(q) = None /\ ~InEntry(q) /\ answer[q] = None
  BY <1>0, NewUndecided
<1>2. ASSUME NEW verdict \in Answers, ReturnAtOnce(q, verdict), UNCHANGED state,
             verdict = "denied-for-scope" => KeyOf[q] \in denied,
             verdict = "approved" => devApproveAll, verdict # "denied-once"
      PROVE  Coalescing!Next
  <2>1. answer' = [answer EXCEPT ![q] = verdict] /\ verdict # None
    BY <1>2, NoneAssumption DEF ReturnAtOnce
  <2>2. Promised(q)' = verdict
    BY <2>1 DEF Promised, TypeOK
  <2>3. \A r \in Requests : r # q => Promised(r)' = Promised(r)
    BY <1>0, <2>1, PromisedKept DEF TypeOK
  <2>4. \A r \in Requests : InEntry(r)' <=> InEntry(r)
    BY <1>2, EntriesKept DEF state
  <2> QED  BY <1>0, <1>1, <1>2, <2>2, <2>3, <2>4, ReturnMaps
<1>3. CASE AskFails(q) \/ AskBypass(q) \/ AskDenied(q) \/ Overflow(q)
  BY <1>2, <1>3 DEF AskFails, AskBypass, AskDenied, Overflow, Answers, Decisions
<1>4. CASE Joins(q)
  <2>1. answer' = answer /\ KeyOf[q] \notin denied
    BY <1>4 DEF Joins, JoinActive, JoinQueued, TakeSlot, JoinQueue, NeedsPrompt
  <2>2. \A r \in Requests : Promised(r)' = Promised(r)
    BY <1>0, <2>1, PromisedKept
  <2>3. ASSUME NEW r \in Requests
        PROVE  InEntry(r)' <=> InEntry(r) \/ r = q
    <3>1. \A a \in Actors : \A f \in Entries(a) : f \in Entry
      BY DEF Entries, TypeOK
    <3>2. \A f \in Entry : AddWaiter(f, q).waiters = f.waiters \cup {q}
      BY DEF AddWaiter, Entry
    <3>3. NewEntry(q).waiters = {q}
      BY DEF NewEntry
    <3>4. ASSUME InEntry(r)'
          PROVE  InEntry(r) \/ r = q
      <4>0. PICK a \in Actors : \E e \in Entries(a)' : r \in e.waiters
        BY <3>4 DEF InEntry
      <4>1. PICK e \in Entries(a)' : r \in e.waiters
        BY <4>0
      <4> QED  BY <1>4, <3>1, <3>2, <3>3, <4>1, Joined DEF InEntry
    <3>5. ASSUME InEntry(r)
          PROVE  InEntry(r)'
      <4>0. PICK a \in Actors : \E f \in Entries(a) : r \in f.waiters
        BY <3>5 DEF InEntry
      <4>1. PICK f \in Entries(a) : r \in f.waiters
        BY <4>0
      <4> QED  BY <1>4, <3>1, <3>2, <4>1, Joined DEF InEntry
    <3>6. InEntry(q)'
      BY <1>4, <3>1, <3>2, <3>3, Joined DEF InEntry
    <3> QED  BY <3>4, <3>5, <3>6
  <2> QED  BY <1>0, <1>1, <2>1, <2>2, <2>3, AttachMaps
<1> QED  BY <1>3, <1>4 DEF Ask, Joins

\* A decision is taken for all who wait for a key at once, though the code
\* completes them one after the other later.
LEMMA FinishMaps ==
    ASSUME WaiterInv, WaiterInv', NEW q \in Requests, NEW audited \in BOOLEAN,
           Finish(q, audited)
    PROVE  Coalescing!Next
<1> USE DEF WaiterInv, PromptInv, TypeInv
<1> DEFINE b == ActorOfRequest(q)
           k == loop[q].entry.key
           verdict == IF audited THEN loop[q].result ELSE "failed"
<1>1. /\ /\ b \in Actors
         /\ k \in Keys
         /\ active[b] \in Entries(b)
         /\ active[b].key = k
      /\ Removed(loop[q].entry) = active[b]
      /\ \A a \in Actors : \A e \in Entries(a)' : e \in Entries(a) /\ e.key # k
      /\ \A a \in Actors : \A e \in Entries(a) :
             e \in Entries(a)' \/ e = active[b]
  BY AllKept, Finished
<1>2. /\ devApproveAll' = devApproveAll /\ answer' = answer
      /\ denied' =
             IF DeniesScope(loop[q].result) THEN denied \cup {k} ELSE denied
      /\ loop'[q].at = "completing" /\ loop'[q].result = verdict
      /\ loop'[q].todo = active[b].waiters
      /\ loop[q].at = "decided"
      /\ \A s \in Requests : s # q => loop'[s] = loop[s]
  BY <1>1 DEF Finish, TypeOK
<1> HIDE DEF b, k, verdict
<1>3. loop[q].result \in Decisions \cup {"failed"}
  BY <1>2 DEF ResultInv
<1>4. verdict \in Answers
  BY <1>3 DEF verdict, Answers
<1>5. \A a \in Actors : \A e \in Entries(a) : EntryOK(e) /\ e \in Entry
  BY DEF WaitInv, Entries, TypeOK
<1>6. ASSUME NEW r \in Requests
      PROVE  r \in active[b].waiters <=> InEntry(r) /\ KeyOf[r] = k
  <2>1. r \in active[b].waiters => InEntry(r) /\ KeyOf[r] = k
    BY <1>1, <1>5 DEF InEntry, EntryOK
  <2>2. ASSUME InEntry(r), KeyOf[r] = k
        PROVE  r \in active[b].waiters
    <3>0. PICK a \in Actors : \E e \in Entries(a) : r \in e.waiters
      BY <2>2 DEF InEntry
    <3>1. PICK e \in Entries(a) : r \in e.waiters
      BY <3>0
    <3> QED  BY <1>1, <1>5, <2>2, <3>1 DEF EntryOK
  <2> QED  BY <2>1, <2>2
<1>7. ASSUME NEW r \in Requests
      PROVE  InEntry(r)' <=> InEntry(r) /\ KeyOf[r] # k
  <2>1. ASSUME InEntry(r)'
        PROVE  InEntry(r) /\ KeyOf[r] # k
    <3>0. PICK a \in Actors : \E e \in Entries(a)' : r \in e.waiters
      BY <2>1 DEF InEntry
    <3>1. PICK e \in Entries(a)' : r \in e.waiters
      BY <3>0
    <3> QED  BY <1>1, <1>5, <3>1 DEF InEntry, EntryOK
  <2>2. ASSUME InEntry(r), KeyOf[r] # k
        PROVE  InEntry(r)'
    <3>0. PICK a \in Actors : \E e \in Entries(a) : r \in e.waiters
      BY <2>2 DEF InEntry
    <3>1. PICK e \in Entries(a) : r \in e.waiters
      BY <3>0
    <3>2. e # active[b]
      BY <1>6, <2>2, <3>1
    <3> QED  BY <1>1, <3>1, <3>2 DEF InEntry
  <2> QED  BY <2>1, <2>2
<1>8. ASSUME NEW r \in Requests, InEntry(r), KeyOf[r] = k
      PROVE  Promised(r)' = verdict
  <2>1. answer'[r] = None /\ r \in loop'[q].todo
    BY <1>2, <1>6, <1>8, WaitersUndecided DEF Waits
  <2>2. \A t \in Requests : loop'[t].at = "completing" /\ r \in loop'[t].todo =>
            t = q
    BY <1>2, <2>1 DEF TodoInv
  <2>3. (CHOOSE t \in Requests :
            loop'[t].at = "completing" /\ r \in loop'[t].todo) = q
    BY <1>2, <2>1, <2>2
  <2> QED  BY <1>2, <2>1, <2>3 DEF Promised
<1>9. ASSUME NEW r \in Requests, ~(InEntry(r) /\ KeyOf[r] = k)
      PROVE  Promised(r)' = Promised(r)
  BY <1>2, <1>6, <1>9, PromisedKept
<1>10. \E r \in Requests : InEntry(r) /\ KeyOf[r] = k
  BY <1>1, <1>5, <1>6 DEF EntryOK, Entry
<1>11. \/ denied' = denied /\ verdict # "denied-for-scope"
       \/ /\ denied' = denied \cup {k}
          /\ verdict \in {"denied-for-scope", "failed"}
  BY <1>2 DEF DeniesScope, verdict
<1> QED  BY <1>1, <1>2, <1>4, <1>7, <1>8, <1>9, <1>10, <1>11, DecideMaps

\* What a loop does between two decisions is not seen by the callers; to
\* complete a waiter hands over what it was promised.
LEMMA RestMaps ==
    ASSUME WaiterInv, WaiterInv', NEW q \in Requests,
           \/ Start(q) \/ Abandon(q) \/ Begin(q) \/ CompleteWaiter(q)
           \/ PromptNext(q) \/ LoopEnds(q)
           \/ \E result \in Decisions \cup {"failed"} : PromptReturns(q, result)
    PROVE  UNCHANGED Coalescing!vars
<1> USE DEF WaiterInv, PromptInv, TypeInv
<1>99. \A p \in Requests : Kept(p)
  BY AllKept
<1> USE <1>99
<1>1. /\ devApproveAll' = devApproveAll
      /\ denied' = denied
      /\ active' = active
      /\ queued' = queued
  BY DEF Start, StartLoop, StartClosed, Abandon, Begin, CompleteWaiter,
         PromptNext, LoopEnds, PromptReturns, state
<1>2. \A r \in Requests : InEntry(r)' <=> InEntry(r)
  BY <1>1, EntriesKept
<1>3. ASSUME answer' = answer, NEW s \in Requests,
             loop[s].at # "completing" \/ loop[s].todo = {},
             loop'[s].at # "completing",
             \A p \in Requests : p # s => loop'[p] = loop[p]
      PROVE  \A r \in Requests : Promised(r)' = Promised(r)
  BY <1>3, PromisedKept
<1>4. CASE Start(q)
  <2>1. StartLoop(q) /\ answer' = answer
    BY <1>4 DEF Undisturbed, Start, StartClosed, StartLoop
  <2>2. fiberAt[KeyOf[q]] = None /\ loop[q].at = "none"
    BY <2>1, StartsCalmly DEF StartLoop, LoopsInv, LoopOK
  <2>3. \A p \in Requests : p # q => loop'[p] = loop[p]
    BY <2>1, <2>2, NoneAssumption DEF StartLoop
  <2>4. loop'[q].at = "scheduled"
    BY <2>1 DEF StartLoop, NoLoop
  <2> QED  BY <1>1, <1>2, <1>3, <2>1, <2>2, <2>3, <2>4, StutterMaps
<1>5. CASE Abandon(q)
  <2>1. \A r \in Requests : Promised(r)' = Promised(r)
    BY <1>5, PromisedKept DEF Abandon
  <2> QED  BY <1>1, <1>2, <2>1, StutterMaps
<1>6. CASE Begin(q)
  <2>1. /\ /\ loop[q].at = "scheduled"
           /\ loop'[q].at = "prompting"
           /\ answer' = answer
        /\ \A p \in Requests : p # q => loop'[p] = loop[p]
    BY <1>6 DEF Begin, Move, TypeOK, Loops
  <2> QED  BY <1>1, <1>2, <1>3, <2>1, StutterMaps
<1>7. CASE PromptNext(q) \/ LoopEnds(q)
  <2>1. (loop[q].at # "completing" \/ loop[q].todo = {}) /\ answer' = answer
    BY <1>7 DEF PromptNext, LoopEnds, IsDone
  <2> QED  BY <1>1, <1>2, <1>3, <1>7, <2>1, PromptIsOver, StutterMaps
<1>8. CASE \E result \in Decisions \cup {"failed"} : PromptReturns(q, result)
  <2>1. PICK result \in Decisions \cup {"failed"} : PromptReturns(q, result)
    BY <1>8
  <2>2. loop[q].at = "prompting" /\ answer' = answer
    BY <2>1 DEF PromptReturns
  <2> QED  BY <1>1, <1>2, <1>3, <2>1, <2>2, PromptAnswered, StutterMaps
<1>9. CASE CompleteWaiter(q)
  <2>1. loop[q].at = "completing"
    BY <1>9 DEF Undisturbed, CompleteWaiter, ShutInv, Shown
  <2>2. PICK w \in loop[q].todo :
            /\ answer' =
                   [answer EXCEPT ![w] = IF @ = None THEN loop[q].result ELSE @]
            /\ loop' = [loop EXCEPT ![q].todo = loop[q].todo \ {w}]
    BY <1>9 DEF CompleteWaiter
  <2>3. w \in Requests /\ loop[q].result # None
    BY <2>1, NoneAssumption DEF ResultInv, TypeOK, Loops, Answers
  <2>4. ASSUME NEW s \in Requests
        PROVE  /\ loop'[s].at = loop[s].at /\ loop'[s].result = loop[s].result
               /\ loop'[s].todo = IF s = q THEN loop[s].todo \ {w}
                                  ELSE loop[s].todo
    <3>1. loop[s] \in Loops
      BY DEF TypeOK
    <3>2. loop'[s] = IF s = q THEN [loop[s] EXCEPT !.todo = loop[s].todo \ {w}]
                     ELSE loop[s]
      BY <2>2 DEF TypeOK
    <3> QED  BY <3>1, <3>2 DEF Loops
  <2>5. ASSUME NEW r \in Requests, r # w
        PROVE  Promised(r)' = Promised(r)
    <3>1. answer'[r] = answer[r]
      BY <2>2, <2>5 DEF TypeOK
    <3> QED  BY <2>4, <2>5, <3>1, PromisedKept
  <2>6. Promised(w)' = Promised(w)
    <3>1. CASE answer[w] # None
      BY <2>2, <2>3, <3>1 DEF Promised, TypeOK
    <3>2. CASE answer[w] = None
      <4>1. \A t \in Requests :
                loop[t].at = "completing" /\ w \in loop[t].todo => t = q
        BY <2>1 DEF TodoInv
      <4>2. Promised(w) = loop[q].result
        BY <2>1, <2>3, <3>2, <4>1, PromisedBy
      <4>3. answer'[w] = loop[q].result
        BY <2>2, <2>3, <3>2 DEF TypeOK
      <4> QED  BY <2>3, <4>2, <4>3 DEF Promised
    <3> QED  BY <3>1, <3>2
  <2> QED  BY <1>1, <1>2, <2>5, <2>6, StutterMaps
<1> QED  BY <1>4, <1>5, <1>6, <1>7, <1>8, <1>9

\* The refinement's invariant holds in every reachable state in which the broker
\* has not been disturbed.
LEMMA WaiterInvariant == Spec => [](Undisturbed => WaiterInv)
<1>1. (Undisturbed => WaiterInv) /\ [Next]_vars => (Undisturbed => WaiterInv)'
  BY WaiterStep, DisturbanceLasts
<1> QED  BY <1>1, WaiterInit, PTL DEF Spec

\* The initial states map to initial states.
LEMMA InitMaps == Init => Coalescing!Init
<1> SUFFICES ASSUME Init PROVE Coalescing!Init
  OBVIOUS
<1>1. \A r \in Requests : ~InEntry(r) /\ Promised(r) = None
  <2> SUFFICES ASSUME NEW r \in Requests PROVE ~InEntry(r) /\ Promised(r) = None
    OBVIOUS
  <2>1. \A a \in Actors : Entries(a) = {}
    BY DEF Init, Entries
  <2>2. answer[r] = None /\ \A s \in Requests : loop[s].at = "none"
    BY DEF Init, NoLoop
  <2> QED  BY <2>1, <2>2 DEF InEntry, Promised
<1>2. Filed = [k \in Keys |-> {}]
  BY <1>1, OpenIs DEF Open
<1>3. Decided = [r \in Requests |-> None]
  BY <1>1 DEF Decided
<1> QED  BY <1>2, <1>3 DEF Init, Coalescing!Init, Filed, Decided

\* Every step maps to a step of the abstract specification or to a stutter.
LEMMA StepMaps ==
    ASSUME WaiterInv, WaiterInv', [Next]_vars
    PROVE  [Coalescing!Next]_(Coalescing!vars)
<1>1. CASE UNCHANGED vars
  <2>1. \A r \in Requests : InEntry(r)' <=> InEntry(r)
    BY <1>1, EntriesKept DEF vars, state
  <2>2. \A r \in Requests : Promised(r)' = Promised(r)
    BY <1>1, PromisedKept DEF vars, WaiterInv
  <2> QED  BY <1>1, <2>1, <2>2, StutterMaps DEF vars, state
<1>2. CASE Next
  <2>1. ~Shutdown /\ \A q \in Requests : ~InterruptLoop(q)
    BY DisturbanceLasts, AllKept
       DEF InterruptLoop, WaiterInv, Undisturbed, PromptInv, ShutInv, Shown
  <2>2. PICK q \in Requests : Ask(q) \/ Start(q) \/ Abandon(q) \/ Run(q)
    BY <1>2, <2>1 DEF Next
  <2>3. CASE Ask(q)
    BY <2>3, AskMaps
  <2>4. CASE \E audited \in BOOLEAN : Finish(q, audited)
    BY <2>4, FinishMaps
  <2>5. CASE \/ Start(q) \/ Abandon(q) \/ Begin(q) \/ CompleteWaiter(q)
             \/ PromptNext(q) \/ LoopEnds(q)
             \/ \E result \in Decisions \cup {"failed"} :
                    PromptReturns(q, result)
    BY <2>5, RestMaps
  <2> QED  BY <2>1, <2>2, <2>3, <2>4, <2>5 DEF Run
<1> QED  BY <1>1, <1>2

\* The broker implements ApprovalCoalescing: one decision for everybody who
\* waits for a key, whatever the interleaving of asks, prompts, failures and
\* abandoned requests (approval-broker.ts:123-236), for every number of
\* requests, keys and actors: every step up to the shutdown, or to the first
\* loop that FiberMap.run interrupts because its key is asked for again.
THEOREM CoalescingImplemented == Spec => ImplementsCoalescing
<1>1. ASSUME Undisturbed => WaiterInv, (Undisturbed => WaiterInv)', PromptInv',
             [Next]_vars
      PROVE  [closed' \/ usurped' # {} \/ [Coalescing!Next]_(Coalescing!vars)]_vars
  <2>1. CASE Undisturbed'
    BY <1>1, <2>1, DisturbanceLasts, StepMaps
  <2>2. CASE ~Undisturbed'
    <3>1. closed' \in BOOLEAN
      BY <1>1 DEF PromptInv, TypeInv, TypeOK
    <3> QED  BY <2>2, <3>1 DEF Undisturbed
  <2> QED  BY <2>1, <2>2
<1> QED
  BY <1>1, InitMaps, PromptInvariant, WaiterInvariant, PTL
     DEF Spec, ImplementsCoalescing
===============================================================================
