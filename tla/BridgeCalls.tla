------------------------------ MODULE BridgeCalls ------------------------------
(* The calls of a bridge handler runtime: dispatch and cancel of              *)
(* makeDesktopRpcHandlerRuntime (packages/bridge/src/rpc-handlers.ts), with   *)
(* the RPC server that each dispatch builds for itself (makeDesktopServer-    *)
(* Protocol in protocol.ts, and RpcServer.ts of the vendored Effect).  A      *)
(* dispatch gives way while its state observer or the origin check is at work *)
(* and while it waits for its child fiber, which builds the handlers, hands   *)
(* the request to the server and waits for the response; between those points *)
(* it runs without a break.  A dispatch d carries the request id IdOf[d]:     *)
(* dispatches with one id are a frame and its duplicates.                     *)
EXTENDS Naturals, Sequences

CONSTANTS
    Dispatches,   \* request frames that arrive
    Ids,          \* request ids
    IdOf,         \* the id each frame carries
    Stubborn,     \* dispatches whose handler cannot be interrupted
    MaxCancels,   \* bound: cancel frames per dispatch
    None

ASSUME IdAssumption == IdOf \in [Dispatches -> Ids]
ASSUME StubbornAssumption == Stubborn \subseteq Dispatches
ASSUME BoundAssumption == MaxCancels \in Nat
ASSUME NoneAssumption ==
    None \notin Dispatches \cup {"Completed", "Failed", "Canceled", "success",
        "failure", "Cancelled", "InvalidState", "refused", "defect",
        "interrupted"}

VARIABLES
    stage,        \* where each dispatch is
    child,        \* where its child fiber, runDispatch, is
    inbox,        \* envelopes in the queue of its server
    server,       \* up, deaf (its reader died of a defect) or closed
    handler,      \* what the handler of the method does
    pendingCalls, \* the call in progress under each id
    cancels,      \* cancel frames accepted for each dispatch
    terminal,     \* terminalStates
    old,          \* ids whose terminal state is older than the time to live
    reported,     \* terminal states each dispatch has reported to onState
    answer        \* what each dispatch returned

vars == <<stage, child, inbox, server, handler, pendingCalls, cancels, terminal,
          old, reported, answer>>

serverVars == <<inbox, server, handler>>
terminalVars == <<terminal, old, reported>>

TerminalStates == {"Completed", "Failed", "Canceled"}

Answers == {"success", "failure", "Cancelled", "InvalidState", "refused",
            "defect", "interrupted"}
------------------------------------------------------------------------------
Init ==
    /\ stage = [d \in Dispatches |-> "idle"]
    /\ child = [d \in Dispatches |-> "none"]
    /\ inbox = [d \in Dispatches |-> <<>>]
    /\ server = [d \in Dispatches |-> "up"]
    /\ handler = [d \in Dispatches |-> "none"]
    /\ pendingCalls = [i \in Ids |-> None]
    /\ cancels = [d \in Dispatches |-> 0]
    /\ terminal = [i \in Ids |-> None]
    /\ old = {}
    /\ reported = [d \in Dispatches |-> <<>>]
    /\ answer = [d \in Dispatches |-> None]

Active(d) == handler[d] \in {"running", "stopping"}

\* cancelRequested of the PendingCall of d.
CancelRequested(d) == cancels[d] > 0

Stage(d, s) == stage' = [stage EXCEPT ![d] = s]
Child(d, s) == child' = [child EXCEPT ![d] = s]

\* The dispatch returns; the scope of Effect.scoped closes and with it the
\* server, whose inbox nobody reads any more.
Return(d, a) ==
    /\ Stage(d, "closing")
    /\ answer' = [answer EXCEPT ![d] = a]
    /\ server' = [server EXCEPT ![d] = "closed"]

\* recordTerminalState, and onState with the same state.
Record(d, s) ==
    /\ terminal' = [terminal EXCEPT ![IdOf[d]] = s]
    /\ old' = old \ {IdOf[d]}
    /\ reported' = [reported EXCEPT ![d] = Append(@, s)]

------------------------------------------------------------------------------
(* A dispatch, up to its child fiber.                                         *)

\* purgeExpiredTerminalStates, at the start of every dispatch.
Kept == [i \in Ids |-> IF i \in old THEN None ELSE terminal[i]]

\* Mutant: a duplicate of a call in progress is let through.
MayRunTwice(d) == Kept[IdOf[d]] = None

\* Mutant: the terminal states are not looked at.
MayRunAgain(d) == pendingCalls[IdOf[d]] = None

\* No call of this id is remembered or in progress.
MayRun(d) == Kept[IdOf[d]] = None /\ pendingCalls[IdOf[d]] = None

Begin(d) ==
    /\ stage[d] = "idle"
    /\ terminal' = Kept
    /\ old' = {}
    /\ IF MayRun(d)
       THEN /\ pendingCalls' = [pendingCalls EXCEPT ![IdOf[d]] = d]
            /\ Stage(d, "noting")
            /\ UNCHANGED answer
       ELSE /\ Stage(d, "done")
            /\ answer' = [answer EXCEPT ![d] = "InvalidState"]
            /\ UNCHANGED pendingCalls
    /\ UNCHANGED <<child, serverVars, cancels, reported>>

\* onState has been told of the pending call; the origin is verified.
Noted(d) ==
    /\ stage[d] = "noting"
    /\ Stage(d, "verifying")
    /\ UNCHANGED <<child, serverVars, pendingCalls, cancels, terminalVars, answer>>

\* The origin check fails or the group has no such method: failCall.
Refuse(d) ==
    /\ stage[d] = "verifying"
    /\ Record(d, "Failed")
    /\ Stage(d, "refusing")
    /\ UNCHANGED <<child, serverVars, pendingCalls, cancels, answer>>

Refused(d) ==
    /\ stage[d] = "refusing"
    /\ Return(d, "refused")
    /\ UNCHANGED <<child, inbox, handler, pendingCalls, cancels, terminalVars>>

\* The child fiber is interrupted before it has started: the dispatch finds an
\* interruption in its exit and reports the call as canceled.
Interrupted(d) ==
    /\ Child(d, "exited")
    /\ Record(d, "Canceled")
    /\ Stage(d, "canceling")

\* Mutant: the flag a cancel left behind is not looked at.
MustInterruptNever(d) == FALSE

\* A cancel came before there was a fiber to interrupt.
MustInterrupt(d) == CancelRequested(d)

\* The child is forked; it starts when the scheduler comes to it.
Fork(d) ==
    /\ stage[d] = "verifying"
    /\ IF MustInterrupt(d) THEN Interrupted(d)
       ELSE Child(d, "forked") /\ Stage(d, "joining") /\ UNCHANGED terminalVars
    /\ UNCHANGED <<serverVars, pendingCalls, cancels, answer>>

Canceled(d) ==
    /\ stage[d] = "canceling"
    /\ Return(d, "Cancelled")
    /\ UNCHANGED <<child, inbox, handler, pendingCalls, cancels, terminalVars>>

------------------------------------------------------------------------------
(* The child fiber, its server and the handler.                               *)

\* runDispatch starts: from here on a cancel goes to the inbox (pending.cancel).
Start(d) ==
    /\ child[d] = "forked"
    /\ Child(d, "building")
    /\ UNCHANGED <<stage, serverVars, pendingCalls, cancels, terminalVars, answer>>

\* Layer.build: the handlers' layer may take its time, and may fail.
BuildFails(d) ==
    /\ child[d] = "building" /\ stage[d] = "joining"
    /\ Child(d, "exited")
    /\ Return(d, "defect")
    /\ UNCHANGED <<inbox, handler, pendingCalls, cancels, terminalVars>>

Built(d) ==
    /\ child[d] = "building" /\ stage[d] = "joining"
    /\ Child(d, "announcing")
    /\ UNCHANGED <<stage, serverVars, pendingCalls, cancels, terminalVars, answer>>

\* onState has been told that the call runs; the server gets the request.
Announced(d) ==
    /\ child[d] = "announcing" /\ stage[d] = "joining"
    /\ Child(d, "awaiting")
    /\ inbox' = [inbox EXCEPT ![d] = Append(@, "request")]
    /\ UNCHANGED <<stage, server, handler, pendingCalls, cancels, terminalVars,
                   answer>>

Received(d, envelope) ==
    /\ server[d] = "up"
    /\ inbox[d] # <<>> /\ Head(inbox[d]) = envelope
    /\ inbox' = [inbox EXCEPT ![d] = Tail(@)]
    /\ UNCHANGED <<stage, child, pendingCalls, cancels, terminalVars, answer>>

\* The request: its handler starts.
ServeRequest(d) ==
    /\ Received(d, "request")
    /\ handler' = [handler EXCEPT ![d] = "running"]
    /\ UNCHANGED server

\* Mutant: the interruption is lost.
ServeCancelIgnored(d) ==
    /\ Active(d)
    /\ Received(d, "cancel")
    /\ UNCHANGED <<handler, server>>

\* A cancel of the request the server is working on: its handler is interrupted.
ServeCancel(d) ==
    /\ Active(d)
    /\ Received(d, "cancel")
    /\ handler' = [handler EXCEPT ![d] = "stopping"]
    /\ UNCHANGED server

\* A cancel of a request the server has not got yet, or has answered: its
\* Interrupt carries the host's id, which is no decimal number, RequestId throws
\* on it, and the fiber that reads the inbox dies.
ServeStrayCancel(d) ==
    /\ ~Active(d)
    /\ Received(d, "cancel")
    /\ server' = [server EXCEPT ![d] = "deaf"]
    /\ UNCHANGED handler

\* Mutant: the terminal state is spelt as the error is.
StateForMisspelt(outcome) ==
    CASE outcome = "succeeded"   -> "Completed"
      [] outcome = "failed"      -> "Failed"
      [] outcome = "interrupted" -> "Cancelled"

\* Mutant: a cancellation is recorded as any other error.
StateForAnyError(outcome) ==
    IF outcome = "succeeded" THEN "Completed" ELSE "Failed"

StateFor(outcome) ==
    CASE outcome = "succeeded"   -> "Completed"
      [] outcome = "failed"      -> "Failed"
      [] outcome = "interrupted" -> "Canceled"

\* The handler ends, by itself or interrupted; its response resumes the child,
\* which records the terminal state and reports it.
HandlerEnds(d, outcome) ==
    /\ Active(d)
    /\ handler[d] = "running" => outcome # "interrupted"
    /\ handler[d] = "stopping" =>
           outcome = IF d \in Stubborn THEN "succeeded" ELSE "interrupted"
    /\ handler' = [handler EXCEPT ![d] = outcome]
    /\ Child(d, "reporting")
    /\ Record(d, StateFor(outcome))
    /\ UNCHANGED <<stage, inbox, server, pendingCalls, cancels, answer>>

AnswerFor(outcome) ==
    CASE outcome = "succeeded"   -> "success"
      [] outcome = "failed"      -> "failure"
      [] outcome = "interrupted" -> "Cancelled"

\* The child returns and the dispatch, which has joined it, with it.
Reported(d) ==
    /\ child[d] = "reporting" /\ stage[d] = "joining"
    /\ Child(d, "exited")
    /\ Return(d, AnswerFor(handler[d]))
    /\ UNCHANGED <<inbox, handler, pendingCalls, cancels, terminalVars>>

------------------------------------------------------------------------------
(* Cancellation, interruption and the end of a dispatch.                      *)

\* cancel: by the flag, by interrupting the child, or by an envelope.  The scope
\* that closes interrupts the child by itself.
Cancel(d) ==
    /\ pendingCalls[IdOf[d]] = d
    /\ cancels[d] < MaxCancels
    /\ cancels' = [cancels EXCEPT ![d] = @ + 1]
    /\ IF child[d] = "forked" /\ stage[d] = "joining"
       THEN Interrupted(d) /\ UNCHANGED inbox
       ELSE /\ inbox' = IF child[d] \notin {"none", "forked"} /\ server[d] = "up"
                        THEN [inbox EXCEPT ![d] = Append(@, "cancel")] ELSE inbox
            /\ UNCHANGED <<stage, child, terminalVars>>
    /\ UNCHANGED <<server, handler, pendingCalls, answer>>

\* The caller of dispatch is interrupted: the scope closes, and first the server
\* in it, which interrupts its handler.
Interrupt(d) ==
    /\ stage[d] \in {"noting", "verifying", "refusing", "joining", "canceling"}
    /\ Return(d, "interrupted")
    /\ handler' = IF Active(d) THEN [handler EXCEPT ![d] = "stopping"] ELSE handler
    /\ UNCHANGED <<child, inbox, pendingCalls, cancels, terminalVars>>

\* Mutant: the finalizer that frees the id does not wait for the server.
ScopeClosedEarly(d) == stage[d] = "closing"

\* The server has shut down once its handler has ended.
ScopeClosed(d) == stage[d] = "closing" /\ ~Active(d)

\* Then the child goes and, last, the pending call.
Close(d) ==
    /\ ScopeClosed(d)
    /\ Stage(d, "done")
    /\ Child(d, IF child[d] = "none" THEN "none" ELSE "exited")
    /\ pendingCalls' = [pendingCalls EXCEPT
                          ![IdOf[d]] = IF @ = d THEN None ELSE @]
    /\ UNCHANGED <<serverVars, cancels, terminalVars, answer>>

\* Time passes: a terminal state outlives its time.
Age(i) ==
    /\ terminal[i] # None /\ i \notin old
    /\ old' = old \cup {i}
    /\ UNCHANGED <<stage, child, serverVars, pendingCalls, cancels, terminal,
                   reported, answer>>

------------------------------------------------------------------------------
\* The steps of a call whose end the code or its callers can count on.
Goes(d) ==
    \/ Noted(d) \/ Refuse(d) \/ Refused(d) \/ Fork(d) \/ Canceled(d)
    \/ Start(d) \/ BuildFails(d) \/ Built(d) \/ Announced(d) \/ Reported(d)
    \/ ServeRequest(d) \/ ServeCancel(d) \/ ServeStrayCancel(d)
    \/ Close(d)

Ends(d) == \E outcome \in {"succeeded", "failed", "interrupted"} :
               HandlerEnds(d, outcome)

Next ==
    \/ \E d \in Dispatches : Begin(d) \/ Goes(d) \/ Ends(d) \/ Cancel(d)
                             \/ Interrupt(d)
    \/ \E i \in Ids : Age(i)

Spec == Init /\ [][Next]_vars

\* Observers, the origin check and the layers return, and a handler that was
\* interrupted ends.  One that was not may run for ever.
FairSpec ==
    /\ Spec
    /\ \A d \in Dispatches : /\ WF_vars(Goes(d))
                             /\ WF_vars(handler[d] = "stopping" /\ Ends(d))
------------------------------------------------------------------------------
TypeOK ==
    /\ stage \in [Dispatches -> {"idle", "noting", "verifying", "refusing",
                                 "joining", "canceling", "closing", "done"}]
    /\ child \in [Dispatches -> {"none", "forked", "building", "announcing",
                                 "awaiting", "reporting", "exited"}]
    /\ inbox \in [Dispatches -> Seq({"request", "cancel"})]
    /\ server \in [Dispatches -> {"up", "deaf", "closed"}]
    /\ handler \in [Dispatches -> {"none", "running", "stopping", "succeeded",
                                   "failed", "interrupted"}]
    /\ pendingCalls \in [Ids -> Dispatches \cup {None}]
    /\ cancels \in [Dispatches -> 0 .. MaxCancels]
    /\ terminal \in [Ids -> TerminalStates \cup {None}]
    /\ old \in SUBSET {i \in Ids : terminal[i] # None}
    /\ reported \in [Dispatches -> Seq(TerminalStates)]
    /\ answer \in [Dispatches -> Answers \cup {None}]

\* However a request is duplicated, cancelled, interrupted and sent again, two
\* handlers never run for one id at a time, and none outlives its dispatch
\* (pendingCalls, the order of the finalizers of dispatch).
OneHandlerPerId ==
    \A d \in Dispatches : Active(d) =>
        /\ pendingCalls[IdOf[d]] = d
        /\ stage[d] \in {"joining", "closing"}
        /\ \A e \in Dispatches : IdOf[e] = IdOf[d] /\ Active(e) => e = d

\* A call reports at most one terminal state, and it is the one its caller's
\* answer speaks of (runDispatch and dispatch both report).
AnswersMatch ==
    \A d \in Dispatches :
        /\ answer[d] = "success" => reported[d] = <<"Completed">>
        /\ answer[d] \in {"failure", "refused"} => reported[d] = <<"Failed">>
        /\ answer[d] = "Cancelled" => reported[d] = <<"Canceled">>
        /\ answer[d] \in {"InvalidState", "defect"} => reported[d] = <<>>
        /\ answer[d] = "interrupted" => Len(reported[d]) <= 1

\* A call that was cancelled before its request went to the server never runs
\* its handler, whether the cancel found a flag, a fiber or an inbox (cancel).
CancelledNeverStarts ==
    \A d \in Dispatches :
        [](CancelRequested(d) /\ child[d] # "awaiting" /\ handler[d] = "none"
             => [](handler[d] = "none"))

\* While the terminal state of an id is remembered it does not change, and no
\* handler is started for the id (dispatch, terminalStates).
TerminalIsFinal ==
    [][\A d \in Dispatches : terminal[IdOf[d]] # None =>
           /\ terminal'[IdOf[d]] \in {terminal[IdOf[d]], None}
           /\ handler[d] = "none" => handler'[d] = "none"]_vars

\* The cancel came before the request, and the server cannot be reached.
Deaf(d) == server[d] = "deaf" /\ handler[d] = "none"

\* A call that was cancelled ends, and so does one whose caller has gone, unless
\* the cancel overtook the request on the way to the server.
CancelEnds ==
    \A d \in Dispatches :
        (CancelRequested(d) \/ stage[d] = "closing") ~> (stage[d] = "done" \/ Deaf(d))

\* What the documents promise: a cancelled call ends.
CancelAlwaysEnds == \A d \in Dispatches : CancelRequested(d) ~> stage[d] = "done"
===============================================================================
