---------------------------- MODULE FramedTransport ----------------------------
(* One end of a framed connection: makeFramedSocketConnection of packages/    *)
(* core/src/runtime/transport.ts over the stdio socket (fromTransformStream   *)
(* of the vendored Socket.ts) and its bounded receive queue (Queue.ts).  The  *)
(* socket forks a handler fiber for every chunk it reads; the handler pushes  *)
(* the chunk through the decoder and offers the frames it completes, in       *)
(* order, to the queue, where it waits while the queue is full.  A fiber that *)
(* is forked or resumed runs at once, until it waits: running and releasing   *)
(* say that such a stretch is under way, and only its own steps are enabled.  *)
(* A frame is the number of its place on the wire.  The model starts with the *)
(* connection open.                                                           *)
EXTENDS Naturals, Sequences, FiniteSets

CONSTANTS
    Capacity,    \* DEFAULT_UNFRAME_STREAM_QUEUE_CAPACITY
    Calls,       \* calls of send and close
    MaxFrames,   \* bound: frames the peer sends
    MaxChunks,   \* bound: chunks the reader is handed
    None

ASSUME CapacityAssumption == Capacity \in Nat \ {0}
ASSUME BoundAssumption == MaxFrames \in Nat /\ MaxChunks \in Nat

Errors == {"TransportClosed", "TransportReadFailed", "FrameTooLarge",
           "FrameTruncated"}
Exits == Errors \cup {"end"}

ASSUME NoneAssumption == None \notin Exits

VARIABLES
    decoded,     \* frames the decoder has completed
    partial,     \* the decoder holds a piece of a frame
    handlers,    \* per chunk: its first frame, the next it offers, its last
    alive,       \* handlers that have not returned and were not interrupted
    messages,    \* Queue.messages
    offers,      \* Queue.state.offers: handlers that wait, with their next frame
    queue,       \* Queue.state: open, closing or done
    queueExit,   \* the exit of a queue that is closing or done
    running,     \* the handler that is offering its frames, or 0
    releasing,   \* releaseCapacity is walking over the offers
    room,        \* its n
    run,         \* the reader fiber: reading, ending (its scope closes), over
    cause,       \* why the run ended
    latch,       \* the socket's latch: whether a write goes ahead
    closed,      \* the connection's closed flag
    calls,       \* where each call of send or close is
    received,    \* frames the consumer of receive has got
    outcome,     \* how receive ended
    backlog,     \* history: a chunk came in behind a handler with frames left
    cutOff       \* history: handlers were waiting when the peer ended the stream

vars == <<decoded, partial, handlers, alive, messages, offers, queue, queueExit,
          running, releasing, room, run, cause, latch, closed, calls, received,
          outcome, backlog, cutOff>>

decoderVars == <<decoded, partial>>
queueVars == <<messages, offers, queue, queueExit>>
stepVars == <<running, releasing, room>>
readerVars == <<run, cause, latch>>
callVars == <<closed, calls>>
consumerVars == <<received, outcome>>
historyVars == <<backlog, cutOff>>
------------------------------------------------------------------------------
\* No fiber is running: what comes next is an event or a microtask.
Quiet == running = 0 /\ ~releasing

\* The frames a handler has still to deliver.
Left(h) == handlers[h].next .. handlers[h].last

Init ==
    /\ decoded = 0
    /\ partial = FALSE
    /\ handlers = <<>>
    /\ alive = {}
    /\ messages = <<>>
    /\ offers = <<>>
    /\ queue = "open"
    /\ queueExit = None
    /\ running = 0
    /\ releasing = FALSE
    /\ room = 0
    /\ run = "reading"
    /\ cause = None
    /\ latch = TRUE
    /\ closed = FALSE
    /\ calls = [c \in Calls |-> "idle"]
    /\ received = <<>>
    /\ outcome = None
    /\ backlog = FALSE
    /\ cutOff = FALSE

------------------------------------------------------------------------------
(* The reader of the socket and the handlers it forks.                        *)

\* The reader is handed a chunk that completes m frames and ends in the middle
\* of one or not, and forks its handler, which starts to offer them.
Arrive(m, piece) ==
    /\ Quiet /\ run = "reading"
    /\ Len(handlers) < MaxChunks
    /\ decoded + m <= MaxFrames
    /\ m > 0 \/ piece
    /\ handlers' = Append(handlers, [first |-> decoded + 1, next |-> decoded + 1,
                                     last |-> decoded + m])
    /\ decoded' = decoded + m
    /\ partial' = piece
    /\ IF m = 0 THEN UNCHANGED <<alive, running>>
       ELSE /\ alive' = alive \cup {Len(handlers')}
            /\ running' = Len(handlers')
    /\ backlog' = \/ backlog
                  \/ m > 0 /\ \E i \in DOMAIN offers : Cardinality(Left(offers[i])) > 1
    /\ UNCHANGED <<queueVars, releasing, room, readerVars, callVars,
                   consumerVars, cutOff>>

\* Handler h has got its next frame into the queue.
Advance(h) == handlers' = [handlers EXCEPT ![h].next = @ + 1]

\* Mutant: the handler goes on past the last frame of its chunk.
GoesOnTooFar(h) ==
    IF handlers'[h].next <= handlers[h].last + 1
    THEN running' = h /\ alive' = alive
    ELSE running' = 0 /\ alive' = alive \ {h}

\* It goes on with the frame after that, or returns.
GoesOn(h) ==
    IF handlers'[h].next <= handlers[h].last
    THEN running' = h /\ alive' = alive
    ELSE running' = 0 /\ alive' = alive \ {h}

\* Queue.offer of a queue with room.  Handlers are interrupted before the queue
\* is failed or ended, or never run again: the queue of a running one is open.
Offer ==
    /\ running # 0
    /\ Len(messages) < Capacity
    /\ messages' = Append(messages, handlers[running].next)
    /\ Advance(running)
    /\ GoesOn(running)
    /\ UNCHANGED <<decoderVars, offers, queue, queueExit, releasing, room,
                   readerVars, callVars, consumerVars, historyVars>>

\* Mutant: the queue has the dropping strategy.
OfferDrops ==
    /\ running # 0
    /\ Len(messages) >= Capacity
    /\ Advance(running)
    /\ GoesOn(running)
    /\ UNCHANGED <<decoderVars, queueVars, releasing, room, readerVars, callVars,
                   consumerVars, historyVars>>

\* Queue.offer of a full queue: the handler waits behind those that wait.
OfferWaits ==
    /\ running # 0
    /\ Len(messages) >= Capacity
    /\ offers' = Append(offers, running)
    /\ running' = 0
    /\ UNCHANGED <<decoderVars, handlers, alive, messages, queue, queueExit,
                   releasing, room, readerVars, callVars, consumerVars,
                   historyVars>>

------------------------------------------------------------------------------
(* The consumer of receive, and what taking sets off.                         *)

\* takeAll: every message is taken, then the handlers that wait get the room.
Take ==
    /\ Quiet /\ outcome = None
    /\ messages # <<>>
    /\ received' = received \o messages
    /\ messages' = <<>>
    /\ IF offers = <<>>
       THEN /\ queue' = IF queue = "closing" THEN "done" ELSE queue
            /\ UNCHANGED <<releasing, room>>
       ELSE releasing' = TRUE /\ room' = Capacity /\ UNCHANGED queue
    /\ UNCHANGED <<decoderVars, handlers, alive, offers, queueExit, running,
                   readerVars, callVars, outcome, historyVars>>

\* Mutant: the handlers that wait are taken from the back.
ReleaseLast ==
    /\ releasing /\ running = 0
    /\ room > 0 /\ offers # <<>>
    /\ LET h == offers[Len(offers)]
       IN /\ messages' = Append(messages, handlers[h].next)
          /\ Advance(h)
          /\ IF h \in alive THEN GoesOn(h) ELSE UNCHANGED <<alive, running>>
    /\ offers' = SubSeq(offers, 1, Len(offers) - 1)
    /\ room' = room - 1
    /\ UNCHANGED <<decoderVars, queue, queueExit, releasing, readerVars,
                   callVars, consumerVars, historyVars>>

\* One turn of the loop of releaseCapacity: the first handler that waits gets
\* its frame in and, if it lives, runs on, offering the rest of its frames
\* before the loop comes to the next one.
Release ==
    /\ releasing /\ running = 0
    /\ room > 0 /\ offers # <<>>
    /\ messages' = Append(messages, handlers[Head(offers)].next)
    /\ offers' = Tail(offers)
    /\ room' = room - 1
    /\ Advance(Head(offers))
    /\ IF Head(offers) \in alive THEN GoesOn(Head(offers))
       ELSE UNCHANGED <<alive, running>>
    /\ UNCHANGED <<decoderVars, queue, queueExit, releasing, readerVars,
                   callVars, consumerVars, historyVars>>

ReleaseEnds ==
    /\ releasing /\ running = 0
    /\ room = 0 \/ offers = <<>>
    /\ releasing' = FALSE
    /\ room' = 0
    /\ UNCHANGED <<decoderVars, handlers, alive, queueVars, running, readerVars,
                   callVars, consumerVars, historyVars>>

TakeEnd ==
    /\ Quiet /\ outcome = None
    /\ queue = "done"
    /\ outcome' = queueExit
    /\ UNCHANGED <<decoderVars, handlers, alive, queueVars, stepVars, readerVars,
                   callVars, received, historyVars>>

------------------------------------------------------------------------------
(* The end of the run.                                                        *)

\* Mutant: a queue that is empty is closing, too.
CloseQueueLater(exit) ==
    IF queue # "open" THEN UNCHANGED <<queue, queueExit>>
    ELSE queueExit' = exit /\ queue' = "closing"

\* Queue.fail, or Queue.end with exit "end": what is queued can be taken first.
CloseQueue(exit) ==
    IF queue # "open" THEN UNCHANGED <<queue, queueExit>>
    ELSE /\ queueExit' = exit
         /\ queue' = IF messages = <<>> /\ offers = <<>> THEN "done"
                     ELSE "closing"

\* The scope of the run closes: its handlers are interrupted, and one that
\* waits takes its offer back if the queue is still open.
EndRun(why, stillOpen) ==
    /\ run' = "ending"
    /\ cause' = why
    /\ alive' = {}
    /\ offers' = IF stillOpen THEN <<>> ELSE offers

\* The peer ends the stream, or reading from it fails.
ReadEnds(why) ==
    /\ Quiet /\ run = "reading"
    /\ EndRun(why, TRUE)
    /\ cutOff' = (cutOff \/ (why = "end" /\ offers # <<>>))
    /\ UNCHANGED <<decoderVars, handlers, messages, queue, queueExit, stepVars,
                   latch, callVars, consumerVars, backlog>>

\* A chunk announces a frame over the limit: its handler fails, and the run.
ArriveOversized ==
    /\ Quiet /\ run = "reading"
    /\ Len(handlers) < MaxChunks
    /\ EndRun("FrameTooLarge", TRUE)
    /\ UNCHANGED <<decoderVars, handlers, messages, queue, queueExit, stepVars,
                   latch, callVars, consumerVars, historyVars>>

\* finishAndEndQueue after a clean end, failOpenAndQueue after an error.
Verdict == IF cause = "end" /\ partial THEN "FrameTruncated" ELSE cause

\* The stream's reader is cancelled; the latch closes, the queue learns why.
FinishRun ==
    /\ Quiet /\ run = "ending"
    /\ run' = "over"
    /\ latch' = FALSE
    /\ CloseQueue(Verdict)
    /\ UNCHANGED <<decoderVars, handlers, alive, messages, offers, stepVars,
                   cause, callVars, consumerVars, historyVars>>

------------------------------------------------------------------------------
(* The calls of the connection's owner.                                       *)

At(c, place) == calls' = [calls EXCEPT ![c] = place]

\* send writes, or waits at the latch of a socket whose run is over.  (Nobody
\* opens that latch again: the connection runs its socket once.)
Send(c) ==
    /\ Quiet /\ calls[c] = "idle"
    /\ At(c, IF closed THEN "TransportClosed" ELSE IF latch THEN "writing"
             ELSE "latched")
    /\ UNCHANGED <<decoderVars, handlers, alive, queueVars, stepVars, readerVars,
                   closed, consumerVars, historyVars>>

Written(c) ==
    /\ Quiet /\ calls[c] = "writing"
    /\ At(c, "ok")
    /\ UNCHANGED <<decoderVars, handlers, alive, queueVars, stepVars, readerVars,
                   closed, consumerVars, historyVars>>

CloseAgain(c) ==
    /\ Quiet /\ calls[c] = "idle" /\ closed
    /\ At(c, "ok")
    /\ UNCHANGED <<decoderVars, handlers, alive, queueVars, stepVars, readerVars,
                   closed, consumerVars, historyVars>>

\* close fails the queue, then writes a CloseEvent, which goes through the
\* latch and ends the run, then waits for the reader.
Close(c) ==
    /\ Quiet /\ calls[c] = "idle" /\ ~closed
    /\ closed' = TRUE
    /\ CloseQueue("TransportClosed")
    /\ At(c, IF latch THEN "interrupting" ELSE "latched")
    /\ IF run = "reading" THEN EndRun("end", FALSE)
       ELSE UNCHANGED <<run, cause, alive, offers>>
    /\ UNCHANGED <<decoderVars, handlers, messages, stepVars, latch,
                   consumerVars, historyVars>>

CloseReturns(c) ==
    /\ Quiet /\ calls[c] = "interrupting" /\ run = "over"
    /\ At(c, "ok")
    /\ UNCHANGED <<decoderVars, handlers, alive, queueVars, stepVars, readerVars,
                   closed, consumerVars, historyVars>>

------------------------------------------------------------------------------
Next ==
    \/ \E m \in 0 .. MaxFrames, piece \in BOOLEAN : Arrive(m, piece)
    \/ ArriveOversized
    \/ Offer \/ OfferWaits
    \/ Take \/ Release \/ ReleaseEnds \/ TakeEnd
    \/ \E why \in {"end", "TransportReadFailed"} : ReadEnds(why)
    \/ FinishRun
    \/ \E c \in Calls : \/ Send(c) \/ Written(c)
                        \/ Close(c) \/ CloseAgain(c) \/ CloseReturns(c)

Spec == Init /\ [][Next]_vars

\* A fiber that can run runs, cancelling the reader ends, a write is answered
\* and the consumer keeps taking.  Nothing is assumed of the peer or the owner.
FairSpec ==
    /\ Spec
    /\ WF_vars(Offer \/ OfferWaits \/ Release \/ ReleaseEnds)
    /\ WF_vars(Take \/ TakeEnd)
    /\ WF_vars(FinishRun)
    /\ \A c \in Calls : WF_vars(Written(c) \/ CloseReturns(c))
------------------------------------------------------------------------------
\* Every frame that has left its handler, in the order the consumer gets them.
Passed == received \o messages

Handler == [first : Nat \ {0}, next : Nat \ {0}, last : Nat]

TypeOK ==
    /\ decoded \in 0 .. MaxFrames
    /\ partial \in BOOLEAN
    /\ handlers \in Seq(Handler)
    /\ alive \subseteq DOMAIN handlers
    /\ messages \in Seq(1 .. MaxFrames)
    /\ offers \in Seq(DOMAIN handlers)
    /\ queue \in {"open", "closing", "done"}
    /\ queueExit \in IF queue = "open" THEN {None} ELSE Exits
    /\ running \in alive \cup {0}
    /\ releasing \in BOOLEAN
    /\ room \in 0 .. Capacity
    /\ run \in {"reading", "ending", "over"}
    /\ cause \in IF run = "reading" THEN {None}
                ELSE {"end", "TransportReadFailed", "FrameTooLarge"}
    /\ latch = (run # "over")
    /\ closed \in BOOLEAN
    /\ calls \in [Calls -> {"idle", "writing", "interrupting", "latched", "ok",
                           "TransportClosed"}]
    /\ received \in Seq(1 .. MaxFrames)
    /\ outcome \in Exits \cup {None}
    /\ backlog \in BOOLEAN
    /\ cutOff \in BOOLEAN

\* While the connection is read no frame is lost, made up or doubled, and those
\* of one chunk pass in their order, however the handlers wait and resume one
\* another (Queue.offer, releaseCapacity).
NothingLostWhileOpen ==
    run = "reading" =>
        /\ \A k \in 1 .. decoded :
               Cardinality({i \in DOMAIN Passed : Passed[i] = k})
                   = IF \E h \in alive : k \in Left(h) THEN 0 ELSE 1
        /\ Len(Passed) <= decoded
        /\ \A h \in DOMAIN handlers, i, j \in DOMAIN Passed :
               /\ i < j
               /\ {Passed[i], Passed[j]} \subseteq handlers[h].first .. handlers[h].last
               => Passed[i] < Passed[j]

\* Frames pass in the order of the wire, without a gap, up to the first chunk
\* that comes in behind a handler that waits with more than one frame.
OrderedUnlessBacklog ==
    ~backlog => \A i \in DOMAIN Passed : Passed[i] = i

\* receive ends without an error only if no frame is cut off: every frame was
\* received, or handlers were still waiting when the peer ended the stream.
EndIsComplete ==
    outcome = "end" =>
        /\ ~partial
        /\ cutOff \/ Len(received) = decoded

\* Every frame is accounted for, while the connection is read and after its end.
FramesAccountedFor == NothingLostWhileOpen /\ EndIsComplete

\* Once the stream has ended or the connection was closed the consumer is told
\* (failCause, finalize, finishAndEndQueue).
ReceiverReleased == (run # "reading" \/ closed) ~> outcome # None
===============================================================================
