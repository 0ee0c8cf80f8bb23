------------------------ MODULE FramedTransportProofs ------------------------
(* Safety of FramedTransport, for any capacity of the queue, any calls and    *)
(* any bounds on the frames and chunks of the peer.                           *)
EXTENDS FramedTransport, FiniteSetTheorems, TLAPS

\* TypeOK in two parts: the frames and their handlers, and the rest.
FrameTypes ==
    /\ decoded \in 0 .. MaxFrames
    /\ handlers \in Seq(Handler)
    /\ alive \subseteq DOMAIN handlers
    /\ messages \in Seq(1 .. MaxFrames)
    /\ offers \in Seq(DOMAIN handlers)
    /\ running \in alive \cup {0}
    /\ received \in Seq(1 .. MaxFrames)

\* What the two fibers, the queue and the calls keep.
ControlTypes ==
    /\ partial \in BOOLEAN
    /\ queue \in {"open", "closing", "done"}
    /\ queueExit \in IF queue = "open" THEN {None} ELSE Exits
    /\ releasing \in BOOLEAN
    /\ room \in 0 .. Capacity
    /\ run \in {"reading", "ending", "over"}
    /\ cause \in IF run = "reading" THEN {None}
                ELSE {"end", "TransportReadFailed", "FrameTooLarge"}
    /\ latch = (run # "over")
    /\ closed \in BOOLEAN
    /\ calls \in [Calls -> {"idle", "writing", "interrupting", "latched", "ok",
                           "TransportClosed"}]
    /\ outcome \in Exits \cup {None}
    /\ backlog \in BOOLEAN
    /\ cutOff \in BOOLEAN

\* The handlers share the decoded frames out in the order of their chunks, and
\* each goes through its own from the first on.
ChunksInv ==
    /\ \A h \in DOMAIN handlers :
           /\ 1 <= handlers[h].first
           /\ handlers[h].first <= handlers[h].next
           /\ handlers[h].next <= handlers[h].last + 1
           /\ handlers[h].last <= decoded
    /\ \A g, h \in DOMAIN handlers :
           g < h => handlers[g].last < handlers[h].first
    /\ \A k \in 1 .. decoded : \E h \in DOMAIN handlers :
           k \in handlers[h].first .. handlers[h].last

\* The frames that the handler of chunk h has got into the queue.
Gone(h) == handlers[h].first .. handlers[h].next - 1

\* What has passed into the queue is what the handlers have got into it, each
\* frame once, those of a chunk in their order.
PassedInv ==
    /\ \A i \in DOMAIN Passed : \E h \in DOMAIN handlers : Passed[i] \in Gone(h)
    /\ \A h \in DOMAIN handlers : \A k \in Gone(h) :
           \E i \in DOMAIN Passed : Passed[i] = k
    /\ \A i, j \in DOMAIN Passed : i # j => Passed[i] # Passed[j]
    /\ \A h \in DOMAIN handlers, i, j \in DOMAIN Passed :
           /\ i < j
           /\ {Passed[i], Passed[j]} \subseteq handlers[h].first .. handlers[h].last
           => Passed[i] < Passed[j]

\* A handler waits at most once, not while it runs, and with a frame in hand.
OffersInv ==
    /\ \A i, j \in DOMAIN offers : i # j => offers[i] # offers[j]
    /\ \A i \in DOMAIN offers :
           /\ offers[i] # running
           /\ handlers[offers[i]].next <= handlers[offers[i]].last
    /\ running # 0 => handlers[running].next <= handlers[running].last

\* While the stream is read a handler with frames left runs or waits for room:
\* none is dropped between releasing one and the next.
AliveInv ==
    /\ run = "reading" =>
           \A h \in DOMAIN handlers :
               /\ h \in alive <=> handlers[h].next <= handlers[h].last
               /\ h \in alive <=> h = running \/ \E i \in DOMAIN offers : offers[i] = h
    /\ run # "reading" => alive = {}

\* A handler waits for room only if there is none beyond what the take that
\* releases them has made.
RoomInv ==
    /\ ~releasing => room = 0
    /\ offers # <<>> => Len(messages) + room >= Capacity

\* Without a backlog the handlers that wait have one frame each, the next ones
\* in the order of the wire, and only the last of them may have more.
OrderInv ==
    ~backlog =>
        /\ \A i \in DOMAIN Passed : Passed[i] = i
        /\ \A i \in DOMAIN offers :
               /\ handlers[offers[i]].next = Len(Passed) + i
               /\ i < Len(offers) \/ running # 0 => handlers[offers[i]].last = Len(Passed) + i
        /\ running = 0 /\ run = "reading" =>
               decoded = IF offers = <<>> THEN Len(Passed)
                         ELSE handlers[offers[Len(offers)]].last
        /\ running # 0 =>
               /\ handlers[running].last = decoded
               /\ handlers[running].next = Len(Passed) + Len(offers) + 1
               /\ offers = <<>> \/ Len(messages) >= Capacity

\* Every decoded frame is in the queue or was, unless handlers were cut off.
AllPassed == cutOff \/ Len(Passed) = decoded

\* The queue learns of the end when all frames have passed, and the receiver
\* when it has taken them.
EndInv ==
    /\ run = "reading" => queue = "open"
    /\ queue = "done" => messages = <<>> /\ offers = <<>>
    /\ queue = "open" /\ run # "reading" /\ cause = "end" =>
           offers = <<>> /\ AllPassed
    /\ queueExit = "end" => run = "over" /\ offers = <<>> /\ ~partial /\ AllPassed
    /\ outcome = "end" => queue = "done" /\ queueExit = "end"

------------------------------------------------------------------------------
(* The sequences.                                                             *)

\* The two parts are all of TypeOK.
LEMMA TypeParts == TypeOK <=> FrameTypes /\ ControlTypes
  BY DEF TypeOK, FrameTypes, ControlTypes

\* What has passed is a sequence of frames, as long as its two parts.
LEMMA PassedShape ==
    ASSUME FrameTypes
    PROVE  /\ Passed \in Seq(1 .. MaxFrames)
           /\ Len(Passed) = Len(received) + Len(messages)
           /\ Len(Passed) \in Nat
           /\ DOMAIN Passed = 1 .. Len(Passed)
  BY DEF FrameTypes, Passed

\* A frame that enters the queue is the next that has passed.
LEMMA PassedAppend ==
    ASSUME NEW S, NEW r \in Seq(S), NEW m \in Seq(S), NEW x \in S
    PROVE  r \o Append(m, x) = Append(r \o m, x)
<1>1. /\ r \o Append(m, x) \in Seq(S)
      /\ Append(r \o m, x) \in Seq(S)
  OBVIOUS
<1>2. Len(r \o Append(m, x)) = Len(Append(r \o m, x))
  OBVIOUS
<1>3. \A i \in 1 .. Len(r \o Append(m, x)) :
          (r \o Append(m, x))[i] = Append(r \o m, x)[i]
  OBVIOUS
<1> QED  BY <1>1, <1>2, <1>3

\* Taking what is queued changes nothing about what has passed.
LEMMA PassedTaken ==
    ASSUME NEW S, NEW r \in Seq(S), NEW m \in Seq(S)
    PROVE  (r \o m) \o <<>> = r \o m
  OBVIOUS

\* What Advance does to the records of the handlers.
LEMMA Advanced ==
    ASSUME handlers \in Seq(Handler), NEW h \in DOMAIN handlers, Advance(h)
    PROVE  /\ handlers' \in Seq(Handler)
           /\ DOMAIN handlers' = DOMAIN handlers
           /\ Len(handlers') = Len(handlers)
           /\ \A g \in DOMAIN handlers :
                  /\ handlers'[g].first = handlers[g].first
                  /\ handlers'[g].last = handlers[g].last
                  /\ handlers'[g].next = IF g = h THEN handlers[g].next + 1
                                         ELSE handlers[g].next
<1>1. \A g \in DOMAIN handlers : handlers[g] \in Handler
  OBVIOUS
<1>2. handlers' = [handlers EXCEPT ![h] = [handlers[h] EXCEPT !.next = @ + 1]]
  BY <1>1 DEF Advance, Handler
<1>3. [handlers[h] EXCEPT !.next = @ + 1] \in Handler
  BY <1>1 DEF Handler
<1>4. /\ [handlers[h] EXCEPT !.next = @ + 1].first = handlers[h].first
      /\ [handlers[h] EXCEPT !.next = @ + 1].last = handlers[h].last
      /\ [handlers[h] EXCEPT !.next = @ + 1].next = handlers[h].next + 1
  BY <1>1 DEF Handler
<1>5. handlers' \in Seq(Handler)
  BY <1>2, <1>3
<1>6. DOMAIN handlers' = DOMAIN handlers /\ Len(handlers') = Len(handlers)
  BY <1>2
<1>7. \A g \in DOMAIN handlers :
          handlers'[g] = IF g = h THEN [handlers[h] EXCEPT !.next = @ + 1]
                         ELSE handlers[g]
  BY <1>2
<1> QED  BY <1>4, <1>5, <1>6, <1>7

\* What a chunk adds to them.
LEMMA Arrived ==
    ASSUME FrameTypes, NEW m \in 0 .. MaxFrames, NEW piece, Arrive(m, piece)
    PROVE  /\ handlers' \in Seq(Handler)
           /\ Len(handlers') = Len(handlers) + 1
           /\ DOMAIN handlers' = DOMAIN handlers \cup {Len(handlers) + 1}
           /\ Len(handlers) + 1 \notin DOMAIN handlers
           /\ DOMAIN handlers = 1 .. Len(handlers)
           /\ Len(handlers) \in Nat
           /\ \A g \in DOMAIN handlers : handlers'[g] = handlers[g]
           /\ handlers'[Len(handlers) + 1].first = decoded + 1
           /\ handlers'[Len(handlers) + 1].next = decoded + 1
           /\ handlers'[Len(handlers) + 1].last = decoded + m
<1>. DEFINE new == [first |-> decoded + 1, next |-> decoded + 1, last |-> decoded + m]
<1>1. new \in Handler
  BY BoundAssumption DEF FrameTypes, Handler
<1>2. new.first = decoded + 1 /\ new.next = decoded + 1 /\ new.last = decoded + m
  OBVIOUS
<1>3. handlers' = Append(handlers, new) /\ handlers \in Seq(Handler)
  BY DEF Arrive, FrameTypes
<1>. HIDE DEF new
<1> QED  BY <1>1, <1>2, <1>3

------------------------------------------------------------------------------
(* What a step does to the frames: it delivers one, reads a chunk, or leaves  *)
(* them where they are.                                                       *)

\* Handler h delivers its next frame.
Moved(h) ==
    /\ h \in DOMAIN handlers
    /\ handlers[h].next <= handlers[h].last
    /\ Advance(h)
    /\ Passed' = Append(Passed, handlers[h].next)
    /\ decoded' = decoded

\* No frame is delivered or read.
Still ==
    /\ handlers' = handlers
    /\ Passed' = Passed
    /\ decoded' = decoded

\* The fields of a handler are numbers, and its next frame is one of the wire.
LEMMA Fields ==
    ASSUME FrameTypes, ChunksInv, NEW h \in DOMAIN handlers
    PROVE  /\ handlers[h].first \in Nat \ {0}
           /\ handlers[h].next \in Nat \ {0}
           /\ handlers[h].last \in Nat
           /\ handlers[h].next <= handlers[h].last
                  => handlers[h].next \in 1 .. decoded
<1>1. handlers[h] \in Handler
  BY DEF FrameTypes
<1>2. /\ handlers[h].first \in Nat \ {0}
      /\ handlers[h].next \in Nat \ {0}
      /\ handlers[h].last \in Nat
  BY <1>1 DEF Handler
<1>3. handlers[h].last <= decoded
  BY DEF ChunksInv
<1> QED  BY <1>2, <1>3 DEF FrameTypes

\* A frame that was read is a frame of the wire.
LEMMA OnTheWire ==
    ASSUME FrameTypes, NEW k \in 1 .. decoded
    PROVE  k \in 1 .. MaxFrames
  BY BoundAssumption DEF FrameTypes

\* The frame of a running or waiting handler enters the queue.
LEMMA EntersQueue ==
    ASSUME FrameTypes, ChunksInv, NEW h \in DOMAIN handlers,
           handlers[h].next <= handlers[h].last, Advance(h),
           messages' = Append(messages, handlers[h].next),
           received' = received, decoded' = decoded
    PROVE  Moved(h) /\ messages' \in Seq(1 .. MaxFrames)
<1>1. handlers[h].next \in 1 .. MaxFrames
  BY Fields, OnTheWire
<1>2. Passed' = Append(Passed, handlers[h].next)
  BY <1>1, PassedAppend DEF Passed, FrameTypes
<1>3. messages' \in Seq(1 .. MaxFrames)
  BY <1>1 DEF FrameTypes
<1> QED  BY <1>2, <1>3 DEF Moved

\* The handler that runs offers its frame to a queue with room.
LEMMA OfferMoves ==
    ASSUME FrameTypes, ChunksInv, OffersInv, Offer
    PROVE  Moved(running) /\ messages' \in Seq(1 .. MaxFrames)
<1>1. running \in DOMAIN handlers /\ handlers[running].next <= handlers[running].last
  BY DEF FrameTypes, OffersInv, Offer
<1>2. /\ Advance(running)
      /\ messages' = Append(messages, handlers[running].next)
      /\ received' = received /\ decoded' = decoded
  BY DEF Offer, consumerVars, decoderVars
<1> QED  BY <1>1, <1>2, EntersQueue

\* The first handler that waits, and those behind it.
LEMMA HeadWaits ==
    ASSUME FrameTypes, OffersInv, offers # <<>>
    PROVE  /\ Head(offers) \in DOMAIN handlers
           /\ Head(offers) = offers[1] /\ 1 \in DOMAIN offers
           /\ handlers[Head(offers)].next <= handlers[Head(offers)].last
           /\ Tail(offers) \in Seq(DOMAIN handlers)
           /\ Len(Tail(offers)) = Len(offers) - 1
           /\ DOMAIN Tail(offers) = 1 .. Len(offers) - 1
           /\ \A i \in DOMAIN Tail(offers) :
                  Tail(offers)[i] = offers[i + 1] /\ i + 1 \in DOMAIN offers
<1>1. offers \in Seq(DOMAIN handlers)
  BY DEF FrameTypes
<1>2. /\ Head(offers) \in DOMAIN handlers
      /\ Head(offers) = offers[1] /\ 1 \in DOMAIN offers
      /\ Tail(offers) \in Seq(DOMAIN handlers)
      /\ Len(Tail(offers)) = Len(offers) - 1
      /\ DOMAIN Tail(offers) = 1 .. Len(offers) - 1
      /\ \A i \in DOMAIN Tail(offers) :
             Tail(offers)[i] = offers[i + 1] /\ i + 1 \in DOMAIN offers
  BY <1>1
<1> QED  BY <1>2 DEF OffersInv

\* The first handler that waits gets its frame in.
LEMMA ReleaseMoves ==
    ASSUME FrameTypes, ChunksInv, OffersInv, Release
    PROVE  Moved(Head(offers)) /\ messages' \in Seq(1 .. MaxFrames)
<1>1. /\ offers # <<>>
      /\ Advance(Head(offers))
      /\ messages' = Append(messages, handlers[Head(offers)].next)
      /\ received' = received /\ decoded' = decoded
  BY DEF Release, consumerVars, decoderVars
<1> QED  BY <1>1, HeadWaits, EntersQueue

\* Taking what is queued only moves it to the consumer.
LEMMA TakeIsStill ==
    ASSUME FrameTypes, Take
    PROVE  Still
<1>1. /\ received' = received \o messages /\ messages' = <<>>
      /\ handlers' = handlers /\ decoded' = decoded
  BY DEF Take, decoderVars
<1> QED  BY <1>1, PassedTaken DEF Still, Passed, FrameTypes

\* Every other step but the arrival of a chunk leaves the frames alone.
LEMMA OthersAreStill ==
    ASSUME \/ ArriveOversized
           \/ OfferWaits
           \/ ReleaseEnds \/ TakeEnd
           \/ \E why \in {"end", "TransportReadFailed"} : ReadEnds(why)
           \/ FinishRun
           \/ \E c \in Calls : \/ Send(c) \/ Written(c)
                               \/ Close(c) \/ CloseAgain(c) \/ CloseReturns(c)
           \/ UNCHANGED vars
    PROVE  /\ Still /\ received' = received /\ messages' = messages
<1>1. /\ handlers' = handlers /\ decoded' = decoded
      /\ received' = received /\ messages' = messages
  <2>1. CASE ArriveOversized
    BY <2>1 DEF ArriveOversized, decoderVars, consumerVars
  <2>2. CASE OfferWaits
    BY <2>2 DEF OfferWaits, decoderVars, consumerVars
  <2>3. CASE ReleaseEnds \/ TakeEnd
    BY <2>3 DEF ReleaseEnds, TakeEnd, decoderVars, consumerVars, queueVars
  <2>4. CASE \E why \in {"end", "TransportReadFailed"} : ReadEnds(why)
    BY <2>4 DEF ReadEnds, decoderVars, consumerVars
  <2>5. CASE FinishRun
    BY <2>5 DEF FinishRun, decoderVars, consumerVars
  <2>6. ASSUME NEW c \in Calls,
               \/ Send(c) \/ Written(c)
               \/ Close(c) \/ CloseAgain(c) \/ CloseReturns(c)
        PROVE  /\ handlers' = handlers /\ decoded' = decoded
               /\ received' = received /\ messages' = messages
    BY <2>6 DEF Send, Written, Close, CloseAgain, CloseReturns,
                decoderVars, consumerVars, queueVars
  <2>7. CASE UNCHANGED vars
    BY <2>7 DEF vars
  <2> QED  BY <2>1, <2>2, <2>3, <2>4, <2>5, <2>6, <2>7
<1> QED  BY <1>1 DEF Still, Passed

\* These are the kinds of steps there are.
LEMMA KindsOfSteps ==
    ASSUME FrameTypes, ChunksInv, OffersInv, [Next]_vars
    PROVE  \/ Still
           \/ \E h \in DOMAIN handlers : Moved(h)
           \/ \E m \in 0 .. MaxFrames, piece \in BOOLEAN : Arrive(m, piece)
<1>1. CASE Offer
  BY <1>1, OfferMoves DEF Moved
<1>2. CASE Release
  BY <1>2, ReleaseMoves DEF Moved
<1>3. CASE Take
  BY <1>3, TakeIsStill
<1>4. CASE \/ ArriveOversized
           \/ OfferWaits
           \/ ReleaseEnds \/ TakeEnd
           \/ \E why \in {"end", "TransportReadFailed"} : ReadEnds(why)
           \/ FinishRun
           \/ \E c \in Calls : \/ Send(c) \/ Written(c)
                               \/ Close(c) \/ CloseAgain(c) \/ CloseReturns(c)
           \/ UNCHANGED vars
  BY <1>4, OthersAreStill
<1> QED  BY <1>1, <1>2, <1>3, <1>4 DEF Next

\* Nothing has passed of a chunk that comes in.
LEMMA ArriveKeepsPassed ==
    ASSUME NEW m, NEW piece, Arrive(m, piece)
    PROVE  Passed' = Passed /\ decoded' = decoded + m
  BY DEF Arrive, Passed, queueVars, consumerVars

\* The chunks stay side by side, in the order of the wire, without a gap.
LEMMA ChunksStep ==
    ASSUME FrameTypes, ChunksInv, OffersInv, [Next]_vars
    PROVE  ChunksInv'
<1>1. CASE Still
  BY <1>1 DEF Still, ChunksInv
<1>2. ASSUME NEW h \in DOMAIN handlers, Moved(h)
      PROVE  ChunksInv'
  <2>1. /\ DOMAIN handlers' = DOMAIN handlers
        /\ decoded' = decoded
        /\ \A g \in DOMAIN handlers :
               /\ handlers'[g].first = handlers[g].first
               /\ handlers'[g].last = handlers[g].last
               /\ handlers'[g].next = IF g = h THEN handlers[g].next + 1
                                      ELSE handlers[g].next
    BY <1>2, Advanced DEF Moved, FrameTypes
  <2>2. \A g \in DOMAIN handlers' :
           /\ 1 <= handlers'[g].first
           /\ handlers'[g].first <= handlers'[g].next
           /\ handlers'[g].next <= handlers'[g].last + 1
           /\ handlers'[g].last <= decoded'
    <3>. TAKE g \in DOMAIN handlers'
    <3>1. /\ 1 <= handlers[g].first
          /\ handlers[g].first <= handlers[g].next
          /\ handlers[g].next <= handlers[g].last + 1
          /\ handlers[g].last <= decoded
      BY <2>1 DEF ChunksInv
    <3>2. g = h => handlers[g].next <= handlers[g].last
      BY <1>2 DEF Moved
    <3> QED  BY <2>1, <3>1, <3>2, Fields
  <2>3. \A f, g \in DOMAIN handlers' :
           f < g => handlers'[f].last < handlers'[g].first
    BY <2>1 DEF ChunksInv
  <2>4. \A k \in 1 .. decoded' : \E g \in DOMAIN handlers' :
           k \in handlers'[g].first .. handlers'[g].last
    BY <2>1 DEF ChunksInv
  <2> QED  BY <2>2, <2>3, <2>4 DEF ChunksInv
<1>3. ASSUME NEW m \in 0 .. MaxFrames, NEW piece \in BOOLEAN, Arrive(m, piece)
      PROVE  ChunksInv'
  <2>. DEFINE n == Len(handlers) + 1
  <2>1. /\ DOMAIN handlers' = DOMAIN handlers \cup {n}
        /\ DOMAIN handlers = 1 .. Len(handlers) /\ Len(handlers) \in Nat
        /\ \A g \in DOMAIN handlers : handlers'[g] = handlers[g]
        /\ handlers'[n].first = decoded + 1
        /\ handlers'[n].next = decoded + 1
        /\ handlers'[n].last = decoded + m
    BY <1>3, Arrived
  <2>2. decoded' = decoded + m /\ decoded \in Nat /\ m \in Nat
    BY <1>3, ArriveKeepsPassed, BoundAssumption DEF FrameTypes
  <2>. HIDE DEF n
  <2>3. \A g \in DOMAIN handlers' :
           /\ 1 <= handlers'[g].first
           /\ handlers'[g].first <= handlers'[g].next
           /\ handlers'[g].next <= handlers'[g].last + 1
           /\ handlers'[g].last <= decoded'
    <3>. TAKE g \in DOMAIN handlers'
    <3>1. CASE g = n
      BY <2>1, <2>2, <3>1
    <3>2. CASE g \in DOMAIN handlers
      BY <2>1, <2>2, <3>2, Fields DEF ChunksInv
    <3> QED  BY <2>1, <3>1, <3>2
  <2>4. \A f, g \in DOMAIN handlers' :
           f < g => handlers'[f].last < handlers'[g].first
    <3>. TAKE f, g \in DOMAIN handlers'
    <3>. HAVE f < g
    <3>1. f \in DOMAIN handlers
      BY <2>1 DEF n
    <3>2. CASE g = n
      BY <2>1, <2>2, <3>1, <3>2, Fields DEF ChunksInv
    <3>3. CASE g \in DOMAIN handlers
      BY <2>1, <3>1, <3>3 DEF ChunksInv
    <3> QED  BY <2>1, <3>2, <3>3
  <2>5. \A k \in 1 .. decoded' : \E g \in DOMAIN handlers' :
           k \in handlers'[g].first .. handlers'[g].last
    <3>. TAKE k \in 1 .. decoded'
    <3>1. CASE k <= decoded
      BY <2>1, <2>2, <3>1 DEF ChunksInv
    <3>2. CASE k > decoded
      <4>1. k \in handlers'[n].first .. handlers'[n].last
        BY <2>1, <2>2, <3>2
      <4> QED  BY <2>1, <4>1
    <3> QED  BY <2>2, <3>1, <3>2
  <2> QED  BY <2>3, <2>4, <2>5 DEF ChunksInv
<1> QED  BY <1>1, <1>2, <1>3, KindsOfSteps

\* Two chunks have no frame in common.
LEMMA ChunksDisjoint ==
    ASSUME FrameTypes, ChunksInv, NEW g \in DOMAIN handlers,
           NEW h \in DOMAIN handlers, NEW k \in Int,
           k \in handlers[g].first .. handlers[g].last,
           k \in handlers[h].first .. handlers[h].last
    PROVE  g = h
<1>1. g \in Nat /\ h \in Nat
  BY DEF FrameTypes
<1>2. CASE g < h
  BY <1>2, Fields DEF ChunksInv
<1>3. CASE h < g
  BY <1>3, Fields DEF ChunksInv
<1> QED  BY <1>1, <1>2, <1>3

\* A frame that has gone is of its handler's chunk.
LEMMA GoneOfChunk ==
    ASSUME FrameTypes, ChunksInv, NEW h \in DOMAIN handlers
    PROVE  Gone(h) \subseteq handlers[h].first .. handlers[h].last
  BY Fields DEF Gone, ChunksInv

\* Appending keeps what is there.
LEMMA AppendShape ==
    ASSUME NEW S, NEW s \in Seq(S), NEW x \in S
    PROVE  /\ DOMAIN s = 1 .. Len(s) /\ Len(s) \in Nat
           /\ Append(s, x) \in Seq(S)
           /\ Len(Append(s, x)) = Len(s) + 1
           /\ DOMAIN Append(s, x) = DOMAIN s \cup {Len(s) + 1}
           /\ \A i \in DOMAIN s : Append(s, x)[i] = s[i] /\ s[i] \in S
           /\ Append(s, x)[Len(s) + 1] = x
  OBVIOUS

\* What a handler that delivers a frame does to the frames that have passed.
LEMMA MovedPasses ==
    ASSUME FrameTypes, ChunksInv, NEW h \in DOMAIN handlers, Moved(h)
    PROVE  /\ DOMAIN Passed = 1 .. Len(Passed) /\ Len(Passed) \in Nat
           /\ Len(Passed') = Len(Passed) + 1
           /\ DOMAIN Passed' = DOMAIN Passed \cup {Len(Passed) + 1}
           /\ \A i \in DOMAIN Passed : Passed'[i] = Passed[i]
           /\ Passed'[Len(Passed) + 1] = handlers[h].next
           /\ \A i \in DOMAIN Passed : Passed[i] \in Int
<1>. DEFINE S == 1 .. MaxFrames
            x == handlers[h].next
<1>. HIDE DEF S, x
<1>1. Passed \in Seq(S)
  BY PassedShape DEF S
<1>2. x \in S
  BY Fields, OnTheWire DEF Moved, S, x
<1>3. Passed' = Append(Passed, x)
  BY DEF Moved, x
<1>4. /\ DOMAIN Passed = 1 .. Len(Passed) /\ Len(Passed) \in Nat
      /\ Len(Append(Passed, x)) = Len(Passed) + 1
      /\ DOMAIN Append(Passed, x)
             = DOMAIN Passed \cup {Len(Passed) + 1}
      /\ \A i \in DOMAIN Passed :
             /\ Append(Passed, x)[i] = Passed[i]
             /\ Passed[i] \in S
      /\ Append(Passed, x)[Len(Passed) + 1] = x
  BY <1>1, <1>2, AppendShape
<1>5. \A i \in DOMAIN Passed : Passed[i] \in Int
  BY <1>4 DEF S
<1> QED  BY <1>3, <1>4, <1>5 DEF x

\* What it does to the frames that are gone from their handlers.
LEMMA MovedGone ==
    ASSUME FrameTypes, ChunksInv, NEW h \in DOMAIN handlers, Moved(h)
    PROVE  /\ DOMAIN handlers' = DOMAIN handlers
           /\ \A g \in DOMAIN handlers :
                  /\ handlers'[g].first = handlers[g].first
                  /\ handlers'[g].last = handlers[g].last
                  /\ Gone(g)' = IF g = h THEN Gone(h) \cup {handlers[h].next}
                                ELSE Gone(g)
<1>1. /\ DOMAIN handlers' = DOMAIN handlers
      /\ \A g \in DOMAIN handlers :
             /\ handlers'[g].first = handlers[g].first
             /\ handlers'[g].last = handlers[g].last
             /\ handlers'[g].next = IF g = h THEN handlers[g].next + 1
                                    ELSE handlers[g].next
  BY Advanced DEF Moved, FrameTypes
<1>2. ASSUME NEW g \in DOMAIN handlers
      PROVE  Gone(g)' = IF g = h THEN Gone(h) \cup {handlers[h].next} ELSE Gone(g)
  <2>1. CASE g # h
    BY <1>1, <2>1 DEF Gone
  <2>2. CASE g = h
    <3>1. /\ handlers'[h].first = handlers[h].first
          /\ handlers'[h].next = handlers[h].next + 1
      BY <1>1
    <3>2. /\ handlers[h].first \in Nat /\ handlers[h].next \in Nat
          /\ handlers[h].first <= handlers[h].next
      BY Fields DEF ChunksInv
    <3>3. handlers'[h].first .. handlers'[h].next - 1
              = (handlers[h].first .. handlers[h].next - 1) \cup {handlers[h].next}
      BY <3>1, <3>2
    <3> QED  BY <2>2, <3>3 DEF Gone
  <2> QED  BY <2>1, <2>2
<1> QED  BY <1>1, <1>2

\* A frame that has passed and is of a chunk has gone from its handler.
LEMMA PassedOfChunk ==
    ASSUME FrameTypes, ChunksInv, PassedInv, NEW h \in DOMAIN handlers,
           NEW i \in DOMAIN Passed,
           Passed[i] \in handlers[h].first .. handlers[h].last
    PROVE  Passed[i] \in Gone(h)
<1>1. PICK g \in DOMAIN handlers : Passed[i] \in Gone(g)
  BY DEF PassedInv
<1>2. Passed[i] \in handlers[g].first .. handlers[g].last /\ Passed[i] \in Int
  BY <1>1, GoneOfChunk DEF Gone
<1>3. g = h
  BY <1>2, ChunksDisjoint
<1> QED  BY <1>1, <1>3

\* What has passed is what is gone from the handlers, without a double, and of
\* each chunk in its order.
LEMMA PassedStep ==
    ASSUME FrameTypes, ChunksInv, OffersInv, PassedInv, [Next]_vars
    PROVE  PassedInv'
<1>1. CASE Still
  BY <1>1 DEF Still, PassedInv, Gone
<1>2. ASSUME NEW h \in DOMAIN handlers, Moved(h)
      PROVE  PassedInv'
  <2>. DEFINE n == Len(Passed) + 1
              x == handlers[h].next
  <2>1. /\ DOMAIN Passed = 1 .. Len(Passed) /\ Len(Passed) \in Nat
        /\ DOMAIN Passed' = DOMAIN Passed \cup {n}
        /\ \A i \in DOMAIN Passed : Passed'[i] = Passed[i]
        /\ Passed'[n] = x
        /\ \A i \in DOMAIN Passed : Passed[i] \in Int
    BY <1>2, MovedPasses
  <2>2. /\ DOMAIN handlers' = DOMAIN handlers
        /\ \A g \in DOMAIN handlers :
               /\ handlers'[g].first = handlers[g].first
               /\ handlers'[g].last = handlers[g].last
               /\ Gone(g)' = IF g = h THEN Gone(h) \cup {x} ELSE Gone(g)
    BY <1>2, MovedGone
  <2>3. /\ x \in Int /\ x \in handlers[h].first .. handlers[h].last
        /\ \A k \in Gone(h) : k < x
    BY <1>2, Fields DEF Moved, ChunksInv, Gone
  <2>. HIDE DEF x
  <2>4. \A i \in DOMAIN Passed' : \E g \in DOMAIN handlers' :
            Passed'[i] \in Gone(g)'
    <3>. TAKE i \in DOMAIN Passed'
    <3>1. CASE i = n
      BY <2>1, <2>2, <3>1
    <3>2. CASE i \in DOMAIN Passed
      <4>1. PICK g \in DOMAIN handlers : Passed[i] \in Gone(g)
        BY <3>2 DEF PassedInv
      <4>2. Passed[i] \in Gone(g)'
        BY <2>2, <4>1
      <4> QED  BY <2>1, <2>2, <3>2, <4>2
    <3> QED  BY <2>1, <3>1, <3>2
  <2>5. \A g \in DOMAIN handlers' : \A k \in Gone(g)' :
            \E i \in DOMAIN Passed' : Passed'[i] = k
    <3>. TAKE g \in DOMAIN handlers'
    <3>. TAKE k \in Gone(g)'
    <3>1. CASE k = x
      BY <2>1, <3>1
    <3>2. CASE k # x
      <4>1. k \in Gone(g)
        BY <2>2, <3>2
      <4>2. PICK i \in DOMAIN Passed : Passed[i] = k
        BY <2>2, <4>1 DEF PassedInv
      <4> QED  BY <2>1, <4>2
    <3> QED  BY <3>1, <3>2
  <2>6. \A i \in DOMAIN Passed : Passed[i] # x
    <3>. SUFFICES ASSUME NEW i \in DOMAIN Passed, Passed[i] = x PROVE FALSE
      OBVIOUS
    <3>1. Passed[i] \in Gone(h)
      BY <2>3, PassedOfChunk
    <3> QED  BY <2>3, <3>1
  <2>7. \A i, j \in DOMAIN Passed' : i # j => Passed'[i] # Passed'[j]
    BY <2>1, <2>6 DEF PassedInv
  <2>8. ASSUME NEW g \in DOMAIN handlers', NEW i \in DOMAIN Passed',
               NEW j \in DOMAIN Passed', i < j,
               Passed'[i] \in handlers'[g].first .. handlers'[g].last,
               Passed'[j] \in handlers'[g].first .. handlers'[g].last
        PROVE  Passed'[i] < Passed'[j]
    <3>1. i \in DOMAIN Passed
      BY <2>1, <2>8
    <3>2. CASE j \in DOMAIN Passed
      <4>1. /\ Passed[i] \in handlers[g].first .. handlers[g].last
            /\ Passed[j] \in handlers[g].first .. handlers[g].last
        BY <2>1, <2>2, <2>8, <3>1, <3>2
      <4>2. Passed[i] < Passed[j]
        BY <2>2, <2>8, <3>1, <3>2, <4>1 DEF PassedInv
      <4> QED  BY <2>1, <3>1, <3>2, <4>2
    <3>3. CASE j = n
      <4>1. x \in handlers[g].first .. handlers[g].last /\ g \in DOMAIN handlers
        BY <2>1, <2>2, <2>8, <3>3
      <4>2. g = h
        BY <2>3, <4>1, ChunksDisjoint
      <4>3. Passed[i] \in Gone(h)
        <5>1. Passed[i] \in handlers[h].first .. handlers[h].last
          BY <2>1, <2>2, <2>8, <3>1, <4>2
        <5> QED  BY <3>1, <5>1, PassedOfChunk
      <4> QED  BY <2>1, <2>3, <3>1, <3>3, <4>3
    <3> QED  BY <2>1, <3>2, <3>3
  <2> QED  BY <2>4, <2>5, <2>7, <2>8 DEF PassedInv
<1>3. ASSUME NEW m \in 0 .. MaxFrames, NEW piece \in BOOLEAN, Arrive(m, piece)
      PROVE  PassedInv'
  <2>. DEFINE n == Len(handlers) + 1
  <2>1. /\ DOMAIN handlers' = DOMAIN handlers \cup {n}
        /\ \A g \in DOMAIN handlers : handlers'[g] = handlers[g]
        /\ handlers'[n].first = decoded + 1
        /\ handlers'[n].next = decoded + 1
        /\ handlers'[n].last = decoded + m
        /\ Passed' = Passed
    BY <1>3, Arrived, ArriveKeepsPassed
  <2>2. decoded \in Nat /\ m \in Nat
    BY BoundAssumption DEF FrameTypes
  <2>. HIDE DEF n
  <2>3. \A g \in DOMAIN handlers : Gone(g)' = Gone(g)
    BY <2>1 DEF Gone
  <2>4. \A g \in DOMAIN handlers' : g = n => Gone(g)' = {}
    BY <2>1, <2>2 DEF Gone
  <2>5. \A i \in DOMAIN Passed' : \E g \in DOMAIN handlers' :
            Passed'[i] \in Gone(g)'
    BY <2>1, <2>3 DEF PassedInv
  <2>6. \A g \in DOMAIN handlers' : \A k \in Gone(g)' :
            \E i \in DOMAIN Passed' : Passed'[i] = k
    BY <2>1, <2>3, <2>4 DEF PassedInv
  <2>7. \A i, j \in DOMAIN Passed' : i # j => Passed'[i] # Passed'[j]
    BY <2>1 DEF PassedInv
  <2>8. \A i \in DOMAIN Passed :
            Passed[i] \notin handlers'[n].first .. handlers'[n].last
    <3>. TAKE i \in DOMAIN Passed
    <3>1. PICK g \in DOMAIN handlers : Passed[i] \in Gone(g)
      BY DEF PassedInv
    <3>2. /\ handlers[g].next <= handlers[g].last + 1
          /\ handlers[g].last <= decoded
          /\ handlers[g].first \in Nat /\ handlers[g].next \in Nat
          /\ handlers[g].last \in Nat
      BY Fields DEF ChunksInv
    <3>3. Passed[i] \in Int /\ Passed[i] <= decoded
      BY <2>2, <3>1, <3>2 DEF Gone
    <3> QED  BY <2>1, <2>2, <3>3
  <2>9. \A g \in DOMAIN handlers', i, j \in DOMAIN Passed' :
           /\ i < j
           /\ {Passed'[i], Passed'[j]}
                  \subseteq handlers'[g].first .. handlers'[g].last
           => Passed'[i] < Passed'[j]
    BY <2>1, <2>8 DEF PassedInv
  <2> QED  BY <2>5, <2>6, <2>7, <2>9 DEF PassedInv
<1> QED  BY <1>1, <1>2, <1>3, KindsOfSteps

------------------------------------------------------------------------------
(* Who runs, who waits, and who is alive.                                     *)

\* The handlers stay who they are and where they are.
Parked ==
    /\ Still
    /\ running' = running /\ (running # 0 => messages' = messages)
    /\ offers' = offers /\ alive' = alive
    /\ run' = "reading" <=> run = "reading"
    /\ backlog' = backlog

\* The run ends: none is alive, and those that wait stay or withdraw.
Ended ==
    /\ Still
    /\ running = 0 /\ running' = 0 /\ messages' = messages
    /\ offers' \in {<<>>, offers} /\ alive' = {}
    /\ run = "reading" /\ run' = "ending"
    /\ backlog' = backlog

\* A step that does not read, offer or release parks the handlers or ends the run.
LEMMA ParkedOrEnded ==
    ASSUME FrameTypes, [Next]_vars
    PROVE  \/ \E m \in 0 .. MaxFrames, piece \in BOOLEAN : Arrive(m, piece)
           \/ Offer \/ OfferWaits \/ Release
           \/ Parked \/ Ended
<1>1. CASE ArriveOversized
  BY <1>1, OthersAreStill DEF ArriveOversized, EndRun, Ended, Quiet, stepVars,
                              historyVars
<1>2. CASE Take
  BY <1>2, TakeIsStill DEF Take, Parked, Quiet, readerVars, historyVars
<1>3. CASE ReleaseEnds \/ TakeEnd
  BY <1>3, OthersAreStill DEF ReleaseEnds, TakeEnd, Parked, queueVars, stepVars,
                              readerVars, historyVars
<1>4. CASE \E why \in {"end", "TransportReadFailed"} : ReadEnds(why)
  BY <1>4, OthersAreStill DEF ReadEnds, EndRun, Ended, Quiet, stepVars
<1>5. CASE FinishRun
  BY <1>5, OthersAreStill DEF FinishRun, Parked, stepVars, historyVars
<1>6. ASSUME NEW c \in Calls, Close(c)
      PROVE  Parked \/ Ended
  <2>1. Still /\ messages' = messages
    BY <1>6, OthersAreStill
  <2>2. CASE run = "reading"
    BY <1>6, <2>1, <2>2 DEF Close, EndRun, Ended, Quiet, stepVars, historyVars
  <2>3. CASE run # "reading"
    BY <1>6, <2>1, <2>3 DEF Close, Parked, stepVars, historyVars
  <2> QED  BY <2>2, <2>3
<1>7. ASSUME NEW c \in Calls,
             Send(c) \/ Written(c) \/ CloseAgain(c) \/ CloseReturns(c)
      PROVE  Parked
  BY <1>7, OthersAreStill DEF Send, Written, CloseAgain, CloseReturns, Parked,
                              queueVars, stepVars, readerVars, historyVars
<1>8. CASE UNCHANGED vars
  BY <1>8, OthersAreStill DEF vars, Parked
<1> QED  BY <1>1, <1>2, <1>3, <1>4, <1>5, <1>6, <1>7, <1>8 DEF Next

\* Only a chunk, an offer, a release and taking change what is queued or got.
LEMMA QueuedTypes ==
    ASSUME FrameTypes, ChunksInv, OffersInv, [Next]_vars
    PROVE  /\ messages' \in Seq(1 .. MaxFrames)
           /\ received' \in Seq(1 .. MaxFrames)
<1>1. CASE Offer \/ Release
  BY <1>1, OfferMoves, ReleaseMoves DEF Offer, Release, FrameTypes, consumerVars
<1>2. CASE Take
  BY <1>2 DEF Take, FrameTypes
<1>3. ASSUME NEW m \in 0 .. MaxFrames, NEW piece \in BOOLEAN, Arrive(m, piece)
      PROVE  messages' = messages /\ received' = received
  BY <1>3 DEF Arrive, queueVars, consumerVars
<1>4. CASE \/ ArriveOversized
           \/ OfferWaits
           \/ ReleaseEnds \/ TakeEnd
           \/ \E why \in {"end", "TransportReadFailed"} : ReadEnds(why)
           \/ FinishRun
           \/ \E c \in Calls : \/ Send(c) \/ Written(c)
                               \/ Close(c) \/ CloseAgain(c) \/ CloseReturns(c)
           \/ UNCHANGED vars
  BY <1>4, OthersAreStill DEF FrameTypes
<1> QED  BY <1>1, <1>2, <1>3, <1>4 DEF Next, FrameTypes

\* The handler that has delivered a frame runs on, or has returned.
LEMMA GoneOn ==
    ASSUME FrameTypes, NEW h \in alive, GoesOn(h)
    PROVE  /\ alive' \subseteq alive
           /\ running' \in alive' \cup {0}
  BY DEF GoesOn

\* A step keeps the types of the frames and their handlers.
LEMMA FrameTypesStep ==
    ASSUME FrameTypes, ChunksInv, OffersInv, [Next]_vars
    PROVE  FrameTypes'
<1>1. ASSUME NEW m \in 0 .. MaxFrames, NEW piece \in BOOLEAN, Arrive(m, piece)
      PROVE  FrameTypes'
  <2>1. /\ handlers' \in Seq(Handler)
        /\ DOMAIN handlers' = DOMAIN handlers \cup {Len(handlers) + 1}
        /\ Len(handlers') = Len(handlers) + 1
    BY <1>1, Arrived
  <2>2. decoded' \in 0 .. MaxFrames
    BY <1>1, BoundAssumption DEF Arrive, FrameTypes
  <2>3. offers' = offers /\ messages' = messages /\ received' = received
    BY <1>1 DEF Arrive, queueVars, consumerVars
  <2>4. offers \in Seq(DOMAIN handlers')
    BY <2>1 DEF FrameTypes
  <2>5. CASE m = 0
    <3>1. alive' = alive /\ running' = running
      BY <1>1, <2>5 DEF Arrive
    <3> QED  BY <2>1, <2>2, <2>3, <2>4, <3>1 DEF FrameTypes
  <2>6. CASE m # 0
    <3>1. /\ alive' = alive \cup {Len(handlers')}
          /\ running' = Len(handlers')
      BY <1>1, <2>6 DEF Arrive
    <3> QED  BY <2>1, <2>2, <2>3, <2>4, <3>1 DEF FrameTypes
  <2> QED  BY <2>5, <2>6
<1>2. ASSUME NEW h \in DOMAIN handlers, Moved(h)
      PROVE  /\ handlers' \in Seq(Handler)
             /\ DOMAIN handlers' = DOMAIN handlers
             /\ decoded' = decoded
  BY <1>2, Advanced DEF Moved, FrameTypes
<1>3. CASE Offer
  <2>1. /\ handlers' \in Seq(Handler)
        /\ DOMAIN handlers' = DOMAIN handlers
        /\ decoded' = decoded
    BY <1>2, <1>3, OfferMoves DEF Moved
  <2>2. running \in alive
    BY <1>3 DEF Offer, FrameTypes
  <2>3. alive' \subseteq alive /\ running' \in alive' \cup {0}
    BY <1>3, <2>2, GoneOn DEF Offer
  <2>4. offers' = offers
    BY <1>3 DEF Offer
  <2> QED  BY <2>1, <2>3, <2>4, QueuedTypes DEF FrameTypes
<1>4. CASE Release
  <2>1. /\ handlers' \in Seq(Handler)
        /\ DOMAIN handlers' = DOMAIN handlers
        /\ decoded' = decoded
    BY <1>2, <1>4, ReleaseMoves DEF Moved
  <2>2. alive' \subseteq alive /\ running' \in alive' \cup {0}
    <3>1. CASE Head(offers) \in alive
      BY <1>4, <3>1, GoneOn DEF Release
    <3>2. CASE Head(offers) \notin alive
      BY <1>4, <3>2 DEF Release, FrameTypes
    <3> QED  BY <3>1, <3>2
  <2>3. offers' = Tail(offers) /\ offers # <<>>
    BY <1>4 DEF Release
  <2>4. offers' \in Seq(DOMAIN handlers)
    BY <2>3, HeadWaits
  <2> QED  BY <2>1, <2>2, <2>4, QueuedTypes DEF FrameTypes
<1>5. CASE OfferWaits
  <2>1. running \in DOMAIN handlers
    BY <1>5 DEF OfferWaits, FrameTypes
  <2>2. /\ offers' = Append(offers, running) /\ running' = 0
        /\ handlers' = handlers /\ alive' = alive /\ decoded' = decoded
    BY <1>5 DEF OfferWaits, decoderVars
  <2>3. offers' \in Seq(DOMAIN handlers)
    BY <2>1, <2>2 DEF FrameTypes
  <2> QED  BY <2>2, <2>3, QueuedTypes DEF FrameTypes
<1>6. decoded' \in 0 .. MaxFrames
  <2>1. \A h \in DOMAIN handlers : Moved(h) => decoded' = decoded
    BY DEF Moved
  <2> QED  BY <1>1, <2>1, KindsOfSteps DEF Still, FrameTypes
<1>7. CASE Parked
  BY <1>6, <1>7, QueuedTypes DEF Parked, Still, FrameTypes
<1>8. CASE Ended
  <2>1. offers' \in Seq(DOMAIN handlers)
    <3>1. <<>> \in Seq(DOMAIN handlers)
      OBVIOUS
    <3>2. CASE offers' = <<>>
      BY <3>1, <3>2
    <3>3. CASE offers' = offers
      BY <3>3 DEF FrameTypes
    <3> QED  BY <1>8, <3>2, <3>3 DEF Ended
  <2> QED  BY <1>6, <1>8, <2>1, QueuedTypes DEF Ended, Still, FrameTypes
<1> QED  BY <1>1, <1>3, <1>4, <1>5, <1>7, <1>8, ParkedOrEnded

\* A handler number is not 0, and is at most the number of chunks.
LEMMA HandlerNumbers ==
    ASSUME FrameTypes
    PROVE  /\ 0 \notin DOMAIN handlers
           /\ Len(handlers) + 1 \notin DOMAIN handlers
           /\ Len(handlers) + 1 # 0
           /\ \A i \in DOMAIN offers : offers[i] \in DOMAIN handlers
           /\ DOMAIN offers = 1 .. Len(offers) /\ Len(offers) \in Nat
           /\ running # 0 => running \in DOMAIN handlers
  BY DEF FrameTypes

\* What GoesOn decides by: whether a frame is left.
LEMMA GoesOnByLast ==
    ASSUME FrameTypes, NEW h \in DOMAIN handlers, Moved(h), GoesOn(h)
    PROVE  /\ handlers'[h].next <= handlers'[h].last
                  => running' = h /\ alive' = alive
           /\ ~(handlers'[h].next <= handlers'[h].last)
                  => running' = 0 /\ alive' = alive \ {h}
<1>1. handlers'[h].last = handlers[h].last
  BY Advanced DEF Moved, FrameTypes
<1> QED  BY <1>1 DEF GoesOn

\* No handler waits twice or waits and runs, and each that does has a frame.
LEMMA OffersStep ==
    ASSUME FrameTypes, ChunksInv, OffersInv, [Next]_vars
    PROVE  OffersInv'
<1>1. ASSUME NEW m \in 0 .. MaxFrames, NEW piece \in BOOLEAN, Arrive(m, piece)
      PROVE  OffersInv'
  <2>. DEFINE n == Len(handlers) + 1
  <2>1. /\ Len(handlers') = n
        /\ \A g \in DOMAIN handlers : handlers'[g] = handlers[g]
        /\ handlers'[n].next = decoded + 1
        /\ handlers'[n].last = decoded + m
    BY <1>1, Arrived
  <2>2. offers' = offers /\ running = 0
    BY <1>1 DEF Arrive, queueVars, Quiet
  <2>3. /\ m = 0 => running' = 0
        /\ m # 0 => running' = n
    BY <1>1, <2>1, <2>2 DEF Arrive
  <2>4. decoded \in Nat /\ m \in Nat
    BY BoundAssumption DEF FrameTypes
  <2>. HIDE DEF n
  <2>5. \A i \in DOMAIN offers :
            /\ offers[i] # n /\ offers[i] # 0
            /\ handlers'[offers[i]] = handlers[offers[i]]
    BY <2>1, HandlerNumbers DEF n
  <2>6. \A i \in DOMAIN offers' :
            /\ offers'[i] # running'
            /\ handlers'[offers'[i]].next <= handlers'[offers'[i]].last
    BY <2>2, <2>3, <2>5 DEF OffersInv
  <2>7. running' # 0 => handlers'[running'].next <= handlers'[running'].last
    BY <2>1, <2>3, <2>4
  <2> QED  BY <2>2, <2>6, <2>7 DEF OffersInv
<1>2. CASE Offer
  <2>1. /\ Moved(running) /\ running \in DOMAIN handlers
        /\ GoesOn(running) /\ offers' = offers
    BY <1>2, OfferMoves DEF Moved, Offer
  <2>2. \A g \in DOMAIN handlers :
           /\ handlers'[g].last = handlers[g].last
           /\ g # running => handlers'[g].next = handlers[g].next
    BY <2>1, Advanced DEF Moved, FrameTypes
  <2>3. running' \in {0, running}
    BY <2>1, GoesOnByLast
  <2>4. running' # 0 => handlers'[running'].next <= handlers'[running'].last
    BY <2>1, GoesOnByLast
  <2>5. \A i \in DOMAIN offers' :
            /\ offers'[i] # running'
            /\ handlers'[offers'[i]].next <= handlers'[offers'[i]].last
    BY <2>1, <2>2, <2>3, HandlerNumbers DEF OffersInv
  <2> QED  BY <2>1, <2>4, <2>5 DEF OffersInv
<1>3. CASE OfferWaits
  <2>1. /\ offers' = Append(offers, running) /\ running' = 0 /\ running # 0
        /\ handlers' = handlers
    BY <1>3 DEF OfferWaits
  <2>2. offers \in Seq(DOMAIN handlers) /\ running \in DOMAIN handlers
    BY <2>1, HandlerNumbers DEF FrameTypes
  <2>3. /\ DOMAIN offers' = DOMAIN offers \cup {Len(offers) + 1}
        /\ \A i \in DOMAIN offers : offers'[i] = offers[i]
        /\ offers'[Len(offers) + 1] = running
    BY <2>1, <2>2, AppendShape
  <2>4. \A i, j \in DOMAIN offers' : i # j => offers'[i] # offers'[j]
    BY <2>3 DEF OffersInv
  <2>5. \A i \in DOMAIN offers' :
            /\ offers'[i] # running'
            /\ handlers'[offers'[i]].next <= handlers'[offers'[i]].last
    BY <2>1, <2>2, <2>3, HandlerNumbers DEF OffersInv
  <2> QED  BY <2>1, <2>4, <2>5 DEF OffersInv
<1>4. CASE Release
  <2>. DEFINE h == Head(offers)
  <2>1. /\ Moved(h) /\ offers' = Tail(offers) /\ offers # <<>>
        /\ running = 0
        /\ IF h \in alive THEN GoesOn(h) ELSE running' = running
    BY <1>4, ReleaseMoves DEF Release
  <2>2. /\ h \in DOMAIN handlers /\ h = offers[1] /\ 1 \in DOMAIN offers
        /\ DOMAIN offers' = 1 .. Len(offers) - 1
        /\ \A i \in DOMAIN offers' :
               offers'[i] = offers[i + 1] /\ i + 1 \in DOMAIN offers
    BY <2>1, HeadWaits
  <2>. HIDE DEF h
  <2>3. \A g \in DOMAIN handlers :
           /\ handlers'[g].last = handlers[g].last
           /\ g # h => handlers'[g].next = handlers[g].next
    BY <2>1, <2>2, Advanced DEF Moved, FrameTypes
  <2>4. /\ running' \in {0, h}
        /\ running' # 0 => handlers'[running'].next <= handlers'[running'].last
    BY <2>1, <2>2, GoesOnByLast
  <2>5. Len(offers) \in Nat /\ DOMAIN offers = 1 .. Len(offers)
    BY HandlerNumbers
  <2>6. \A i \in DOMAIN offers' :
            /\ offers'[i] \in DOMAIN handlers
            /\ offers'[i] # h /\ offers'[i] # 0
            /\ handlers[offers'[i]].next <= handlers[offers'[i]].last
    <3>. TAKE i \in DOMAIN offers'
    <3>1. i + 1 # 1 /\ i + 1 \in DOMAIN offers
      BY <2>2, <2>5
    <3> QED  BY <2>2, <3>1, HandlerNumbers DEF OffersInv
  <2>7. \A i, j \in DOMAIN offers' : i # j => offers'[i] # offers'[j]
    BY <2>2, <2>5 DEF OffersInv
  <2> QED  BY <2>3, <2>4, <2>6, <2>7 DEF OffersInv
<1>5. CASE Parked
  BY <1>5 DEF Parked, Still, OffersInv
<1>6. CASE Ended
  BY <1>6, HandlerNumbers DEF Ended, Still, OffersInv
<1> QED  BY <1>1, <1>2, <1>3, <1>4, <1>5, <1>6, ParkedOrEnded

\* While the connection is read, the handlers with frames left are those that
\* live, and each of them runs or waits.
LEMMA AliveStep ==
    ASSUME FrameTypes, ChunksInv, OffersInv, AliveInv, [Next]_vars
    PROVE  AliveInv'
<1>1. ASSUME NEW m \in 0 .. MaxFrames, NEW piece \in BOOLEAN, Arrive(m, piece)
      PROVE  AliveInv'
  <2>. DEFINE n == Len(handlers) + 1
  <2>1. /\ Len(handlers') = n
        /\ DOMAIN handlers' = DOMAIN handlers \cup {n}
        /\ \A g \in DOMAIN handlers : handlers'[g] = handlers[g]
        /\ handlers'[n].next = decoded + 1
        /\ handlers'[n].last = decoded + m
        /\ n \notin DOMAIN handlers /\ n # 0 /\ 0 \notin DOMAIN handlers
    BY <1>1, Arrived, HandlerNumbers
  <2>2. /\ offers' = offers /\ running = 0
        /\ run = "reading" /\ run' = run
    BY <1>1 DEF Arrive, queueVars, Quiet, readerVars
  <2>3. /\ m = 0 => running' = 0 /\ alive' = alive
        /\ m # 0 => running' = n /\ alive' = alive \cup {n}
    BY <1>1, <2>1, <2>2 DEF Arrive
  <2>4. /\ decoded \in Nat /\ m \in Nat
        /\ n \notin alive
        /\ \A i \in DOMAIN offers : offers[i] # n
    BY <2>1, HandlerNumbers, BoundAssumption DEF FrameTypes
  <2>. HIDE DEF n
  <2>5. \A g \in DOMAIN handlers :
            /\ g \in alive' <=> g \in alive
            /\ g \in alive <=> handlers[g].next <= handlers[g].last
            /\ g \in alive <=> \E i \in DOMAIN offers : offers[i] = g
            /\ g # running'
    BY <2>1, <2>2, <2>3 DEF AliveInv
  <2>6. /\ n \in alive' <=> m # 0
        /\ n = running' <=> m # 0
        /\ handlers'[n].next <= handlers'[n].last <=> m # 0
    BY <2>1, <2>3, <2>4
  <2> QED  BY <2>1, <2>2, <2>4, <2>5, <2>6 DEF AliveInv
<1>2. CASE Offer
  <2>1. /\ Moved(running) /\ running \in DOMAIN handlers
        /\ GoesOn(running) /\ offers' = offers /\ run' = run /\ running \in alive
    BY <1>2, OfferMoves DEF Moved, Offer, readerVars, FrameTypes
  <2>2. /\ DOMAIN handlers' = DOMAIN handlers
        /\ \A g \in DOMAIN handlers :
              /\ handlers'[g].last = handlers[g].last
              /\ g # running => handlers'[g].next = handlers[g].next
    BY <2>1, Advanced DEF Moved, FrameTypes
  <2>3. /\ handlers'[running].next <= handlers'[running].last
               => running' = running /\ alive' = alive
        /\ ~(handlers'[running].next <= handlers'[running].last)
               => running' = 0 /\ alive' = alive \ {running}
    BY <2>1, GoesOnByLast
  <2>4. run = "reading"
    BY <2>1 DEF AliveInv
  <2>5. \A i \in DOMAIN offers : offers[i] # running
    BY DEF OffersInv
  <2>6. \A g \in DOMAIN handlers :
            /\ g \in alive <=> handlers[g].next <= handlers[g].last
            /\ g \in alive <=> g = running \/ \E i \in DOMAIN offers : offers[i] = g
    BY <2>4 DEF AliveInv
  <2>7. \A g \in DOMAIN handlers : g # 0
    BY HandlerNumbers
  <2>8. CASE handlers'[running].next <= handlers'[running].last
    BY <2>1, <2>2, <2>3, <2>4, <2>6, <2>8 DEF AliveInv
  <2>9. CASE ~(handlers'[running].next <= handlers'[running].last)
    BY <2>1, <2>2, <2>3, <2>4, <2>5, <2>6, <2>7, <2>9 DEF AliveInv
  <2> QED  BY <2>8, <2>9
<1>3. CASE OfferWaits
  <2>1. /\ offers' = Append(offers, running) /\ running' = 0 /\ running # 0
        /\ handlers' = handlers /\ alive' = alive /\ run' = run
    BY <1>3 DEF OfferWaits, readerVars
  <2>2. offers \in Seq(DOMAIN handlers) /\ running \in DOMAIN handlers
    BY <2>1, HandlerNumbers DEF FrameTypes
  <2>3. /\ DOMAIN offers' = DOMAIN offers \cup {Len(offers) + 1}
        /\ \A i \in DOMAIN offers : offers'[i] = offers[i]
        /\ offers'[Len(offers) + 1] = running
    BY <2>1, <2>2, AppendShape
  <2>4. \A g : (\E i \in DOMAIN offers' : offers'[i] = g)
                  <=> g = running \/ \E i \in DOMAIN offers : offers[i] = g
    BY <2>3
  <2> QED  BY <2>1, <2>4, HandlerNumbers DEF AliveInv
<1>4. CASE Release
  <2>. DEFINE h == Head(offers)
  <2>1. /\ Moved(h) /\ offers' = Tail(offers) /\ offers # <<>>
        /\ running = 0 /\ run' = run
        /\ IF h \in alive THEN GoesOn(h) ELSE alive' = alive /\ running' = running
    BY <1>4, ReleaseMoves DEF Release, readerVars
  <2>2. /\ h \in DOMAIN handlers /\ h = offers[1] /\ 1 \in DOMAIN offers
        /\ DOMAIN offers' = 1 .. Len(offers) - 1
        /\ \A i \in DOMAIN offers' :
               offers'[i] = offers[i + 1] /\ i + 1 \in DOMAIN offers
        /\ Len(offers) \in Nat /\ DOMAIN offers = 1 .. Len(offers)
    BY <2>1, HeadWaits, HandlerNumbers
  <2>. HIDE DEF h
  <2>3. CASE run # "reading"
    <3>1. alive = {}
      BY <2>3 DEF AliveInv
    <3> QED  BY <2>1, <2>3, <3>1 DEF AliveInv
  <2>4. CASE run = "reading"
    <3>1. h \in alive
      BY <2>2, <2>4 DEF AliveInv
    <3>2. /\ handlers'[h].next <= handlers'[h].last
                 => running' = h /\ alive' = alive
          /\ ~(handlers'[h].next <= handlers'[h].last)
                 => running' = 0 /\ alive' = alive \ {h}
      BY <2>1, <2>2, <3>1, GoesOnByLast
    <3>3. /\ DOMAIN handlers' = DOMAIN handlers
          /\ \A g \in DOMAIN handlers :
                /\ handlers'[g].last = handlers[g].last
                /\ g # h => handlers'[g].next = handlers[g].next
      BY <2>1, <2>2, Advanced DEF Moved, FrameTypes
    <3>4. \A g : (\E i \in DOMAIN offers : offers[i] = g)
                    <=> g = h \/ \E i \in DOMAIN offers' : offers'[i] = g
      <4>1. ASSUME NEW i \in DOMAIN offers, i # 1
            PROVE  i - 1 \in DOMAIN offers' /\ offers'[i - 1] = offers[i]
        BY <2>2, <4>1
      <4> QED  BY <2>2, <4>1
    <3>5. \A i \in DOMAIN offers' : offers'[i] # h
      <4>. TAKE i \in DOMAIN offers'
      <4>1. i + 1 # 1 /\ i + 1 \in DOMAIN offers
        BY <2>2
      <4> QED  BY <2>2, <4>1 DEF OffersInv
    <3>6. \A g \in DOMAIN handlers :
              /\ g \in alive <=> handlers[g].next <= handlers[g].last
              /\ g \in alive <=> g = h \/ \E i \in DOMAIN offers' : offers'[i] = g
              /\ g # 0
      BY <2>1, <2>4, <3>4, HandlerNumbers DEF AliveInv
    <3>7. CASE handlers'[h].next <= handlers'[h].last
      BY <2>1, <2>4, <3>2, <3>3, <3>6, <3>7 DEF AliveInv
    <3>8. CASE ~(handlers'[h].next <= handlers'[h].last)
      BY <2>1, <2>4, <3>2, <3>3, <3>5, <3>6, <3>8 DEF AliveInv
    <3> QED  BY <3>7, <3>8
  <2> QED  BY <2>3, <2>4
<1>5. CASE Parked
  BY <1>5 DEF Parked, Still, AliveInv
<1>6. CASE Ended
  BY <1>6 DEF Ended, Still, AliveInv
<1> QED  BY <1>1, <1>2, <1>3, <1>4, <1>5, <1>6, ParkedOrEnded

------------------------------------------------------------------------------
(* Type correctness.                                                          *)

\* Closing the queue leaves it closing or done, with an exit.
LEMMA CloseQueueTypes ==
    ASSUME ControlTypes, NEW exit \in Exits, CloseQueue(exit)
    PROVE  /\ queue' \in {"closing", "done"}
           /\ queueExit' \in Exits
<1>1. CASE queue # "open"
  BY <1>1 DEF CloseQueue, ControlTypes
<1>2. CASE queue = "open"
  BY <1>2 DEF CloseQueue
<1> QED  BY <1>1, <1>2

\* A step keeps the other types.
LEMMA ControlTypesStep ==
    ASSUME FrameTypes, ControlTypes, [Next]_vars
    PROVE  ControlTypes'
<1> USE CapacityAssumption
<1>1. ASSUME NEW m \in 0 .. MaxFrames, NEW piece \in BOOLEAN, Arrive(m, piece)
      PROVE  ControlTypes'
  <2>1. backlog' \in BOOLEAN
    BY <1>1 DEF Arrive, ControlTypes
  <2> QED  BY <1>1, <2>1 DEF Arrive, ControlTypes, queueVars, readerVars, callVars,
                         consumerVars
<1>2. CASE ArriveOversized
  BY <1>2 DEF ArriveOversized, EndRun, ControlTypes, decoderVars, stepVars,
              callVars, consumerVars, historyVars
<1>3. CASE Offer \/ OfferWaits
  BY <1>3 DEF Offer, OfferWaits, ControlTypes, decoderVars, readerVars,
              callVars, consumerVars, historyVars
<1>4. CASE Take
  <2>1. queue' \in {"open", "closing", "done"} /\ (queue' = "open" <=> queue = "open")
    BY <1>4 DEF Take, ControlTypes
  <2>2. releasing' \in BOOLEAN /\ room' \in 0 .. Capacity
    <3>1. Capacity \in 0 .. Capacity
      OBVIOUS
    <3>2. CASE offers = <<>>
      BY <1>4, <3>2 DEF Take, ControlTypes
    <3>3. CASE offers # <<>>
      BY <1>4, <3>1, <3>3 DEF Take
    <3> QED  BY <3>2, <3>3
  <2> QED  BY <1>4, <2>1, <2>2 DEF Take, ControlTypes, decoderVars, readerVars,
                                   callVars, historyVars
<1>5. CASE Release
  <2>1. room' \in 0 .. Capacity
    BY <1>5 DEF Release, ControlTypes
  <2> QED  BY <1>5, <2>1 DEF Release, ControlTypes, decoderVars, readerVars, callVars,
                         consumerVars, historyVars
<1>6. CASE ReleaseEnds
  <2>1. 0 \in 0 .. Capacity
    OBVIOUS
  <2> QED  BY <1>6, <2>1 DEF ReleaseEnds, ControlTypes, decoderVars, queueVars,
                             readerVars, callVars, consumerVars, historyVars
<1>7. CASE TakeEnd
  BY <1>7 DEF TakeEnd, ControlTypes, decoderVars, queueVars, stepVars,
              readerVars, callVars, historyVars
<1>8. ASSUME NEW why \in {"end", "TransportReadFailed"}, ReadEnds(why)
      PROVE  ControlTypes'
  <2>1. cutOff' \in BOOLEAN
    BY <1>8 DEF ReadEnds, ControlTypes
  <2> QED  BY <1>8, <2>1 DEF ReadEnds, EndRun, ControlTypes, decoderVars,
                             stepVars, callVars, consumerVars
<1>9. CASE FinishRun
  <2>1. Verdict \in Exits
    BY <1>9 DEF FinishRun, Verdict, ControlTypes, Exits, Errors
  <2>2. queue' \in {"closing", "done"} /\ queueExit' \in Exits
    BY <1>9, <2>1, CloseQueueTypes DEF FinishRun
  <2>3. run = "ending" /\ run' = "over" /\ latch' = FALSE
    BY <1>9 DEF FinishRun
  <2> QED  BY <1>9, <2>2, <2>3 DEF FinishRun, ControlTypes, decoderVars,
                                   stepVars, callVars, consumerVars, historyVars
<1>10. ASSUME NEW c \in Calls,
              Send(c) \/ Written(c) \/ CloseAgain(c) \/ CloseReturns(c)
       PROVE  ControlTypes'
  <2>1. calls' \in [Calls -> {"idle", "writing", "interrupting", "latched", "ok",
                              "TransportClosed"}]
    BY <1>10 DEF Send, Written, CloseAgain, CloseReturns, At, ControlTypes
  <2> QED  BY <1>10, <2>1 DEF Send, Written, CloseAgain, CloseReturns, ControlTypes,
                          decoderVars, queueVars, stepVars, readerVars,
                          consumerVars, historyVars
<1>11. ASSUME NEW c \in Calls, Close(c)
       PROVE  ControlTypes'
  <2>1. calls' \in [Calls -> {"idle", "writing", "interrupting", "latched", "ok",
                              "TransportClosed"}]
    BY <1>11 DEF Close, At, ControlTypes
  <2>2. queue' \in {"closing", "done"} /\ queueExit' \in Exits
    BY <1>11, CloseQueueTypes DEF Close, Exits, Errors
  <2>3. /\ run' \in {"reading", "ending", "over"}
        /\ cause' \in IF run' = "reading" THEN {None}
                      ELSE {"end", "TransportReadFailed", "FrameTooLarge"}
        /\ latch' = (run' # "over")
    <3>1. CASE run = "reading"
      BY <1>11, <3>1 DEF Close, EndRun, ControlTypes
    <3>2. CASE run # "reading"
      BY <1>11, <3>2 DEF Close, ControlTypes
    <3> QED  BY <3>1, <3>2
  <2> QED  BY <1>11, <2>1, <2>2, <2>3 DEF Close, ControlTypes, decoderVars,
                                          stepVars, consumerVars, historyVars
<1>12. CASE UNCHANGED vars
  BY <1>12 DEF vars, ControlTypes
<1> QED  BY <1>1, <1>2, <1>3, <1>4, <1>5, <1>6, <1>7, <1>8, <1>9, <1>10, <1>11,
            <1>12 DEF Next

\* What releaseCapacity and those that wait have to do with each other: a
\* handler waits only in front of a queue that is full, or that the loop is
\* about to fill.
LEMMA RoomStep ==
    ASSUME FrameTypes, ControlTypes, OffersInv, RoomInv, [Next]_vars
    PROVE  RoomInv'
<1> USE CapacityAssumption
<1>0. /\ Len(messages) \in Nat /\ room \in Nat
      /\ messages \in Seq(1 .. MaxFrames)
      /\ \A x : Len(Append(messages, x)) = Len(messages) + 1
  BY DEF FrameTypes, ControlTypes
<1>1. ASSUME NEW m \in 0 .. MaxFrames, NEW piece \in BOOLEAN, Arrive(m, piece)
      PROVE  RoomInv'
  BY <1>1 DEF Arrive, RoomInv, queueVars
<1>2. CASE Offer
  <2>1. /\ messages' = Append(messages, handlers[running].next)
        /\ offers' = offers /\ releasing' = releasing /\ room' = room
    BY <1>2 DEF Offer
  <2>2. Len(messages') = Len(messages) + 1
    BY <1>0, <2>1
  <2> QED  BY <1>0, <2>1, <2>2 DEF RoomInv
<1>3. CASE OfferWaits
  BY <1>0, <1>3 DEF OfferWaits, RoomInv
<1>4. CASE Take
  <2>1. CASE offers = <<>>
    BY <1>4, <2>1 DEF Take, RoomInv
  <2>2. CASE offers # <<>>
    <3>1. releasing' = TRUE /\ room' = Capacity /\ messages' = <<>>
      BY <1>4, <2>2 DEF Take
    <3> QED  BY <3>1 DEF RoomInv
  <2> QED  BY <2>1, <2>2
<1>5. CASE Release
  <2>1. /\ messages' = Append(messages, handlers[Head(offers)].next)
        /\ offers # <<>> /\ releasing /\ releasing' = releasing
        /\ room > 0 /\ room' = room - 1
    BY <1>5 DEF Release
  <2>2. Len(messages') = Len(messages) + 1
    BY <1>0, <2>1
  <2> QED  BY <1>0, <2>1, <2>2 DEF RoomInv
<1>6. CASE ReleaseEnds
  BY <1>0, <1>6 DEF ReleaseEnds, RoomInv, queueVars
<1>7. CASE ArriveOversized
  BY <1>7 DEF ArriveOversized, EndRun, RoomInv, stepVars
<1>8. CASE \E why \in {"end", "TransportReadFailed"} : ReadEnds(why)
  BY <1>8 DEF ReadEnds, EndRun, RoomInv, stepVars
<1>9. CASE TakeEnd \/ FinishRun
  BY <1>9 DEF TakeEnd, FinishRun, RoomInv, queueVars, stepVars
<1>10. ASSUME NEW c \in Calls,
              Send(c) \/ Written(c) \/ CloseAgain(c) \/ CloseReturns(c)
       PROVE  RoomInv'
  BY <1>10 DEF Send, Written, CloseAgain, CloseReturns, RoomInv, queueVars, stepVars
<1>11. ASSUME NEW c \in Calls, Close(c)
       PROVE  RoomInv'
  BY <1>11 DEF Close, EndRun, RoomInv, stepVars
<1>12. CASE UNCHANGED vars
  BY <1>12 DEF vars, RoomInv
<1> QED  BY <1>1, <1>2, <1>3, <1>4, <1>5, <1>6, <1>7, <1>8, <1>9, <1>10, <1>11,
            <1>12 DEF Next

------------------------------------------------------------------------------
(* The order of the frames.                                                   *)

\* A handler with at most one frame left, and with one left, has one left.
LEMMA OneLeft ==
    ASSUME FrameTypes, ChunksInv, NEW h \in DOMAIN handlers,
           handlers[h].next <= handlers[h].last, ~(Cardinality(Left(h)) > 1)
    PROVE  handlers[h].next = handlers[h].last
<1>1. handlers[h].next \in Int /\ handlers[h].last \in Int
  BY Fields
<1>2. Cardinality(Left(h)) = handlers[h].last - handlers[h].next + 1
  BY <1>1, FS_Interval DEF Left
<1> QED  BY <1>1, <1>2

\* A step that has seen no backlog keeps what has passed in order.
LEMMA OrderStep ==
    ASSUME FrameTypes, ControlTypes, ChunksInv, OffersInv, AliveInv, RoomInv,
           OrderInv, [Next]_vars
    PROVE  OrderInv'
<1>0. /\ Len(Passed) \in Nat /\ DOMAIN Passed = 1 .. Len(Passed)
      /\ Len(offers) \in Nat /\ DOMAIN offers = 1 .. Len(offers)
      /\ offers \in Seq(DOMAIN handlers)
      /\ offers = <<>> <=> Len(offers) = 0
      /\ decoded \in Nat
  BY PassedShape, HandlerNumbers, BoundAssumption DEF FrameTypes
<1>1. ASSUME NEW m \in 0 .. MaxFrames, NEW piece \in BOOLEAN, Arrive(m, piece),
             ~backlog'
      PROVE  OrderInv'
  <2>. DEFINE n == Len(handlers) + 1
              last == offers[Len(offers)]
  <2>1. /\ Len(handlers') = n
        /\ \A g \in DOMAIN handlers : handlers'[g] = handlers[g]
        /\ handlers'[n].next = decoded + 1
        /\ handlers'[n].last = decoded + m
        /\ n \notin DOMAIN handlers /\ n # 0
    BY <1>1, Arrived, HandlerNumbers
  <2>2. /\ offers' = offers /\ running = 0 /\ run = "reading" /\ run' = run
        /\ messages' = messages /\ ~releasing
        /\ Passed' = Passed /\ decoded' = decoded + m
        /\ ~backlog
    BY <1>1, ArriveKeepsPassed DEF Arrive, queueVars, Quiet, readerVars
  <2>3. /\ m = 0 => running' = 0
        /\ m # 0 => running' = n
        /\ m \in Nat
    BY <1>1, <2>1, <2>2, BoundAssumption DEF Arrive
  <2>4. \A i \in DOMAIN offers :
            /\ offers[i] \in DOMAIN handlers
            /\ handlers[offers[i]].next <= handlers[offers[i]].last
    BY HandlerNumbers DEF OffersInv
  <2>5. m # 0 => \A i \in DOMAIN offers : ~(Cardinality(Left(offers[i])) > 1)
    BY <1>1, <2>3 DEF Arrive
  <2>6. m # 0 => \A i \in DOMAIN offers :
                     handlers[offers[i]].next = handlers[offers[i]].last
    BY <2>4, <2>5, OneLeft
  <2>. HIDE DEF n
  <2>7. decoded = IF offers = <<>> THEN Len(Passed) ELSE handlers[last].last
    BY <2>2 DEF OrderInv
  <2>8. \A i \in DOMAIN offers : handlers[offers[i]].next = Len(Passed) + i
    BY <2>2 DEF OrderInv
  <2>9. m # 0 => decoded = Len(Passed) + Len(offers)
    <3>1. CASE offers = <<>>
      BY <1>0, <2>7, <3>1
    <3>2. CASE offers # <<>>
      <4>1. Len(offers) \in DOMAIN offers
        BY <1>0, <3>2
      <4> QED  BY <2>6, <2>7, <2>8, <3>2, <4>1
    <3> QED  BY <3>1, <3>2
  <2>10. offers = <<>> \/ Len(messages) >= Capacity
    BY <2>2 DEF RoomInv, FrameTypes
  <2>11. \A i \in DOMAIN Passed' : Passed'[i] = i
    BY <2>2 DEF OrderInv
  <2>12. ASSUME NEW i \in DOMAIN offers'
         PROVE  /\ handlers'[offers'[i]].next = Len(Passed') + i
                /\ i < Len(offers') \/ running' # 0
                       => handlers'[offers'[i]].last = Len(Passed') + i
    <3>1. handlers'[offers'[i]] = handlers[offers[i]] /\ i \in DOMAIN offers
      BY <2>1, <2>2, <2>4, <2>12
    <3>2. i < Len(offers) => handlers[offers[i]].last = Len(Passed) + i
      BY <2>2, <3>1 DEF OrderInv
    <3> QED  BY <2>2, <2>3, <2>6, <2>8, <3>1, <3>2
  <2>13. CASE m = 0
    <3>1. decoded' = IF offers' = <<>> THEN Len(Passed')
                     ELSE handlers'[offers'[Len(offers')]].last
      <4>1. CASE offers = <<>>
        BY <1>0, <2>2, <2>7, <2>13, <4>1
      <4>2. CASE offers # <<>>
        <5>1. last \in DOMAIN handlers
          BY <1>0, <2>4, <4>2
        <5> QED  BY <1>0, <2>1, <2>2, <2>7, <2>13, <4>2, <5>1
      <4> QED  BY <4>1, <4>2
    <3> QED  BY <2>3, <2>11, <2>12, <2>13, <3>1 DEF OrderInv
  <2>14. CASE m # 0
    <3>1. /\ handlers'[running'].last = decoded'
          /\ handlers'[running'].next = Len(Passed') + Len(offers') + 1
          /\ offers' = <<>> \/ Len(messages') >= Capacity
      BY <2>1, <2>2, <2>3, <2>9, <2>10, <2>14
    <3>2. running' # 0
      BY <2>1, <2>3, <2>14
    <3> QED  BY <2>11, <2>12, <3>1, <3>2 DEF OrderInv
  <2> QED  BY <2>13, <2>14
<1>2. ASSUME Offer, ~backlog'
      PROVE  OrderInv'
  <2>1. /\ Moved(running) /\ running \in DOMAIN handlers /\ running # 0
        /\ GoesOn(running) /\ offers' = offers /\ backlog' = backlog
        /\ Len(messages) < Capacity /\ decoded' = decoded
    BY <1>2, OfferMoves DEF Moved, Offer, historyVars
  <2>2. /\ handlers[running].last = decoded
        /\ handlers[running].next = Len(Passed) + Len(offers) + 1
        /\ offers = <<>> \/ Len(messages) >= Capacity
        /\ \A i \in DOMAIN Passed : Passed[i] = i
    BY <1>2, <2>1 DEF OrderInv
  <2>3. offers = <<>>
    BY <2>1, <2>2, CapacityAssumption DEF FrameTypes
  <2>4. handlers[running].next = Len(Passed) + 1
    BY <1>0, <2>2, <2>3
  <2>5. /\ DOMAIN Passed' = DOMAIN Passed \cup {Len(Passed) + 1}
        /\ \A i \in DOMAIN Passed : Passed'[i] = Passed[i]
        /\ Passed'[Len(Passed) + 1] = handlers[running].next
        /\ Len(Passed') = Len(Passed) + 1
    BY <2>1, MovedPasses
  <2>6. \A i \in DOMAIN Passed' : Passed'[i] = i
    BY <2>2, <2>4, <2>5
  <2>7. /\ handlers'[running].last = handlers[running].last
        /\ handlers'[running].next = handlers[running].next + 1
    BY <2>1, Advanced DEF Moved, FrameTypes
  <2>8. DOMAIN offers' = {} /\ offers' = <<>> /\ Len(offers') = 0
    BY <2>1, <2>3
  <2>9. CASE handlers'[running].next <= handlers'[running].last
    <3>1. running' = running
      BY <2>1, <2>9, GoesOnByLast
    <3>2. /\ handlers'[running'].last = decoded'
          /\ handlers'[running'].next = Len(Passed') + Len(offers') + 1
      BY <1>0, <2>1, <2>2, <2>4, <2>5, <2>7, <2>8, <3>1
    <3> QED  BY <2>1, <2>6, <2>8, <3>1, <3>2 DEF OrderInv
  <2>10. CASE ~(handlers'[running].next <= handlers'[running].last)
    <3>1. running' = 0
      BY <2>1, <2>10, GoesOnByLast
    <3>2. handlers[running].next <= handlers[running].last
      BY <2>1 DEF Moved
    <3>3. decoded' = Len(Passed')
      BY <1>0, <2>1, <2>2, <2>4, <2>5, <2>7, <2>10, <3>2
    <3> QED  BY <2>6, <2>8, <3>1, <3>3 DEF OrderInv
  <2> QED  BY <2>9, <2>10
<1>3. ASSUME OfferWaits, ~backlog'
      PROVE  OrderInv'
  <2>1. /\ offers' = Append(offers, running) /\ running' = 0 /\ running # 0
        /\ handlers' = handlers /\ backlog' = backlog /\ decoded' = decoded
    BY <1>3 DEF OfferWaits, historyVars, decoderVars
  <2>2. Passed' = Passed
    BY <1>3, OthersAreStill DEF Still
  <2>3. running \in DOMAIN handlers
    BY <2>1, HandlerNumbers
  <2>4. /\ DOMAIN offers' = DOMAIN offers \cup {Len(offers) + 1}
        /\ \A i \in DOMAIN offers : offers'[i] = offers[i]
        /\ offers'[Len(offers) + 1] = running
        /\ Len(offers') = Len(offers) + 1
    BY <1>0, <2>1, <2>3, AppendShape
  <2>5. /\ handlers[running].last = decoded
        /\ handlers[running].next = Len(Passed) + Len(offers) + 1
        /\ \A i \in DOMAIN offers :
               /\ handlers[offers[i]].next = Len(Passed) + i
               /\ handlers[offers[i]].last = Len(Passed) + i
        /\ \A i \in DOMAIN Passed : Passed[i] = i
    BY <1>3, <2>1 DEF OrderInv
  <2>6. ASSUME NEW i \in DOMAIN offers'
        PROVE  /\ handlers'[offers'[i]].next = Len(Passed') + i
               /\ i < Len(offers') => handlers'[offers'[i]].last = Len(Passed') + i
    BY <1>0, <2>1, <2>2, <2>4, <2>5
  <2>7. offers' # <<>> /\ handlers'[offers'[Len(offers')]].last = decoded'
    <3>1. offers' # <<>>
      BY <2>4
    <3> QED  BY <2>1, <2>4, <2>5, <3>1
  <2> QED  BY <2>1, <2>2, <2>5, <2>6, <2>7 DEF OrderInv
<1>4. ASSUME Release, ~backlog'
      PROVE  OrderInv'
  <2>. DEFINE h == Head(offers)
  <2>1. /\ Moved(h) /\ offers' = Tail(offers) /\ offers # <<>>
        /\ running = 0 /\ run' = run /\ decoded' = decoded /\ ~backlog
        /\ IF h \in alive THEN GoesOn(h) ELSE alive' = alive /\ running' = running
    BY <1>4, ReleaseMoves DEF Release, readerVars, decoderVars, historyVars
  <2>2. /\ h \in DOMAIN handlers /\ h = offers[1] /\ 1 \in DOMAIN offers
        /\ DOMAIN offers' = 1 .. Len(offers) - 1
        /\ Len(offers') = Len(offers) - 1
        /\ \A i \in DOMAIN offers' :
               offers'[i] = offers[i + 1] /\ i + 1 \in DOMAIN offers
    BY <2>1, HeadWaits
  <2>. HIDE DEF h
  <2>3. /\ \A i \in DOMAIN Passed : Passed[i] = i
        /\ \A i \in DOMAIN offers :
               /\ handlers[offers[i]].next = Len(Passed) + i
               /\ i < Len(offers) => handlers[offers[i]].last = Len(Passed) + i
        /\ run = "reading" => decoded = handlers[offers[Len(offers)]].last
    BY <2>1 DEF OrderInv
  <2>4. /\ DOMAIN Passed' = DOMAIN Passed \cup {Len(Passed) + 1}
        /\ \A i \in DOMAIN Passed : Passed'[i] = Passed[i]
        /\ Passed'[Len(Passed) + 1] = handlers[h].next
        /\ Len(Passed') = Len(Passed) + 1
    BY <2>1, <2>2, MovedPasses
  <2>5. handlers[h].next = Len(Passed) + 1 /\ handlers[h].next <= handlers[h].last
    BY <2>1, <2>2, <2>3 DEF Moved
  <2>6. \A i \in DOMAIN Passed' : Passed'[i] = i
    BY <2>3, <2>4, <2>5
  <2>7. \A g \in DOMAIN handlers :
           /\ handlers'[g].last = handlers[g].last
           /\ handlers'[g].next = IF g = h THEN handlers[g].next + 1
                                  ELSE handlers[g].next
    BY <2>1, <2>2, Advanced DEF Moved, FrameTypes
  <2>8. \A i \in DOMAIN offers' :
            /\ offers'[i] \in DOMAIN handlers
            /\ offers'[i] # h
            /\ offers'[i] = offers[i + 1] /\ i + 1 \in DOMAIN offers
    <3>. TAKE i \in DOMAIN offers'
    <3>1. i + 1 # 1 /\ i + 1 \in DOMAIN offers
      BY <1>0, <2>2
    <3> QED  BY <2>2, <3>1, HandlerNumbers DEF OffersInv
  <2>9. h \in alive <=> run = "reading"
    BY <2>2 DEF AliveInv
  <2>10. running' # 0 => /\ handlers'[h].next <= handlers'[h].last
                         /\ running' = h /\ run = "reading"
    BY <2>1, <2>2, <2>9, GoesOnByLast
  <2>11. running' = 0 /\ run = "reading" => ~(handlers'[h].next <= handlers'[h].last)
    <3>1. h # 0
      BY <2>2, HandlerNumbers
    <3> QED  BY <2>1, <2>2, <2>9, <3>1, GoesOnByLast
  <2>12. handlers[h].next \in Nat /\ handlers[h].last \in Nat
    BY <2>2, Fields
  <2>13. running' # 0 => Len(offers) = 1 /\ offers' = <<>>
    <3>1. 1 < Len(offers) => handlers[h].last = Len(Passed) + 1
      BY <2>2, <2>3
    <3>2. running' # 0 => ~(1 < Len(offers))
      BY <1>0, <2>2, <2>5, <2>7, <2>10, <2>12, <3>1
    <3>3. offers' = <<>> <=> Len(offers') = 0
      <4>1. offers' \in Seq(DOMAIN handlers)
        BY <2>1, HeadWaits
      <4> QED  BY <4>1
    <3> QED  BY <1>0, <2>1, <2>2, <3>2, <3>3
  <2>14. ASSUME NEW i \in DOMAIN offers'
         PROVE  /\ handlers'[offers'[i]].next = Len(Passed') + i
                /\ i < Len(offers') \/ running' # 0
                       => handlers'[offers'[i]].last = Len(Passed') + i
    <3>1. /\ handlers'[offers'[i]].next = handlers[offers[i + 1]].next
          /\ handlers'[offers'[i]].last = handlers[offers[i + 1]].last
      BY <2>7, <2>8, <2>14
    <3>2. handlers[offers[i + 1]].next = Len(Passed) + (i + 1)
      BY <2>3, <2>8, <2>14
    <3>3. i + 1 < Len(offers) => handlers[offers[i + 1]].last = Len(Passed) + (i + 1)
      BY <2>3, <2>8, <2>14
    <3>4. running' = 0
      BY <2>13, <2>14
    <3>5. i \in Nat
      BY <2>2, <2>14
    <3>6. /\ Len(Passed') = Len(Passed) + 1
          /\ Len(offers') = Len(offers) - 1
          /\ Len(Passed) \in Nat /\ Len(offers) \in Nat
      BY <1>0, <2>2, <2>4
    <3>7. Len(Passed) + (i + 1) = Len(Passed') + i
      BY <3>5, <3>6
    <3>8. i < Len(offers') => i + 1 < Len(offers)
      BY <3>5, <3>6
    <3> QED  BY <3>1, <3>2, <3>3, <3>4, <3>7, <3>8
  <2>15. running' = 0 /\ run = "reading" =>
             decoded' = IF offers' = <<>> THEN Len(Passed')
                        ELSE handlers'[offers'[Len(offers')]].last
    <3>. SUFFICES ASSUME running' = 0, run = "reading"
                  PROVE  decoded' = IF offers' = <<>> THEN Len(Passed')
                                    ELSE handlers'[offers'[Len(offers')]].last
      OBVIOUS
    <3>1. CASE Len(offers) = 1
      <4>1. offers' = <<>>
        <5>1. offers' \in Seq(DOMAIN handlers)
          BY <2>1, HeadWaits
        <5> QED  BY <2>2, <3>1, <5>1
      <4>2. decoded = handlers[h].last
        BY <2>2, <2>3, <3>1
      <4>3. handlers[h].last = Len(Passed) + 1
        BY <1>0, <2>2, <2>5, <2>7, <2>11, <2>12
      <4> QED  BY <2>1, <2>4, <4>1, <4>2, <4>3
    <3>2. CASE Len(offers) # 1
      <4>1. Len(offers') \in DOMAIN offers' /\ offers' # <<>>
            /\ Len(offers') + 1 = Len(offers)
        <5>1. /\ Len(offers) \in Nat /\ Len(offers) > 1
              /\ Len(offers') = Len(offers) - 1
          BY <1>0, <2>1, <2>2, <3>2
        <5>2. Len(offers') \in 1 .. Len(offers) - 1
          BY <5>1
        <5>3. Len(offers') \in DOMAIN offers' /\ offers' # <<>>
          BY <2>2, <5>2
        <5> QED  BY <5>1, <5>3
      <4>2. offers'[Len(offers')] = offers[Len(offers)]
        BY <2>8, <4>1
      <4>3. offers'[Len(offers')] \in DOMAIN handlers
        BY <2>8, <4>1
      <4> QED  BY <2>1, <2>3, <2>7, <4>1, <4>2, <4>3
    <3> QED  BY <3>1, <3>2
  <2>16. running' # 0 =>
             /\ handlers'[running'].last = decoded'
             /\ handlers'[running'].next = Len(Passed') + Len(offers') + 1
             /\ offers' = <<>> \/ Len(messages') >= Capacity
    <3>. SUFFICES ASSUME running' # 0
                  PROVE  /\ handlers'[running'].last = decoded'
                         /\ handlers'[running'].next
                                = Len(Passed') + Len(offers') + 1
                         /\ offers' = <<>> \/ Len(messages') >= Capacity
      OBVIOUS
    <3>1. running' = h /\ run = "reading" /\ Len(offers) = 1 /\ offers' = <<>>
      BY <2>10, <2>13
    <3>2. decoded = handlers[h].last
      BY <2>2, <2>3, <3>1
    <3>3. /\ Len(Passed') = Len(Passed) + 1 /\ Len(Passed) \in Nat
          /\ Len(offers') = 0
      BY <1>0, <2>2, <2>4, <3>1
    <3>4. /\ handlers'[h].last = handlers[h].last
          /\ handlers'[h].next = handlers[h].next + 1
      BY <2>2, <2>7
    <3>5. handlers'[h].next = Len(Passed') + Len(offers') + 1
      BY <2>5, <3>3, <3>4
    <3> QED  BY <2>1, <3>1, <3>2, <3>4, <3>5
  <2> QED  BY <2>1, <2>6, <2>14, <2>15, <2>16 DEF OrderInv
<1>5. CASE Parked
  BY <1>5 DEF Parked, Still, OrderInv
<1>6. CASE Ended
  <2>1. /\ Passed' = Passed /\ handlers' = handlers /\ running' = 0
        /\ run' # "reading" /\ backlog' = backlog
    BY <1>6 DEF Ended, Still
  <2>2. CASE offers' = <<>>
    BY <2>1, <2>2 DEF OrderInv
  <2>3. CASE offers' = offers
    <3>1. running = 0
      BY <1>6 DEF Ended
    <3> QED  BY <2>1, <2>3, <3>1 DEF OrderInv
  <2> QED  BY <1>6, <2>2, <2>3 DEF Ended
<1>7. CASE backlog'
  BY <1>7 DEF OrderInv
<1> QED  BY <1>1, <1>2, <1>3, <1>4, <1>5, <1>6, <1>7, ParkedOrEnded

------------------------------------------------------------------------------
(* Every frame is accounted for.                                              *)

\* What has passed, as a map from places to frames, doubles none of them.
LEMMA PassedInjective ==
    ASSUME FrameTypes, ChunksInv, PassedInv
    PROVE  Passed \in Injection(1 .. Len(Passed), 1 .. decoded)
<1>1. /\ Passed \in Seq(1 .. MaxFrames)
      /\ DOMAIN Passed = 1 .. Len(Passed)
  BY PassedShape
<1>2. \A i \in DOMAIN Passed : Passed[i] \in 1 .. decoded
  <2>. TAKE i \in DOMAIN Passed
  <2>1. PICK h \in DOMAIN handlers : Passed[i] \in Gone(h)
    BY DEF PassedInv
  <2>2. /\ handlers[h].next <= handlers[h].last + 1
        /\ handlers[h].last <= decoded /\ 1 <= handlers[h].first
    BY DEF ChunksInv
  <2>3. /\ handlers[h].first \in Nat /\ handlers[h].next \in Nat
        /\ handlers[h].last \in Nat
    BY Fields
  <2>4. decoded \in Nat
    BY BoundAssumption DEF FrameTypes
  <2> QED  BY <2>1, <2>2, <2>3, <2>4 DEF Gone
<1>3. Passed \in [1 .. Len(Passed) -> 1 .. decoded]
  <2>. DEFINE p == Passed
              S == 1 .. MaxFrames
              T == 1 .. decoded
  <2>. HIDE DEF p, S, T
  <2>1. p \in Seq(S) /\ DOMAIN p = 1 .. Len(p) /\ \A i \in DOMAIN p : p[i] \in T
    BY <1>1, <1>2 DEF p, S, T
  <2>2. p = [i \in 1 .. Len(p) |-> p[i]]
    BY <2>1
  <2>3. p \in [1 .. Len(p) -> T]
    BY <2>1, <2>2
  <2> QED  BY <2>3 DEF p, T
<1>4. IsInjective(Passed)
  BY DEF PassedInv, IsInjective
<1> QED  BY <1>3, <1>4 DEF Injection

\* Not more frames pass than were read, and as many if each has passed.
LEMMA PassedCount ==
    ASSUME FrameTypes, ChunksInv, PassedInv
    PROVE  /\ Len(Passed) <= decoded
           /\ (\A k \in 1 .. decoded : \E i \in DOMAIN Passed : Passed[i] = k)
                  => Len(Passed) = decoded
<1>. DEFINE S == 1 .. Len(Passed)
            T == 1 .. decoded
<1>1. /\ Len(Passed) \in Nat /\ decoded \in Nat
      /\ DOMAIN Passed = 1 .. Len(Passed)
  BY PassedShape, BoundAssumption DEF FrameTypes
<1>2. /\ IsFiniteSet(S) /\ Cardinality(S) = Len(Passed)
      /\ IsFiniteSet(T) /\ Cardinality(T) = decoded
  <2>1. \A n \in Nat : IsFiniteSet(1 .. n) /\ Cardinality(1 .. n) = n
    <3>. TAKE n \in Nat
    <3>1. 1 \in Int /\ n \in Int
      OBVIOUS
    <3>2. /\ IsFiniteSet(1 .. n)
          /\ Cardinality(1 .. n) = IF 1 > n THEN 0 ELSE n - 1 + 1
      BY <3>1, FS_Interval
    <3> QED  BY <3>2
  <2> QED  BY <1>1, <2>1
<1>3. Passed \in Injection(S, T)
  BY PassedInjective
<1>4. DOMAIN Passed = S
  BY <1>1
<1>. HIDE DEF S, T
<1>5. /\ Cardinality(S) <= Cardinality(T)
      /\ Cardinality(S) = Cardinality(T) <=> Passed \in Surjection(S, T)
  BY <1>2, <1>3, FS_Injection
<1>6. (\A k \in T : \E i \in DOMAIN Passed : Passed[i] = k)
          => Passed \in Surjection(S, T)
  BY <1>3, <1>4 DEF Injection, Surjection
<1>7. /\ Len(Passed) <= decoded
      /\ (\A k \in T : \E i \in DOMAIN Passed : Passed[i] = k)
             => Len(Passed) = decoded
  BY <1>1, <1>2, <1>5, <1>6
<1> QED  BY <1>7 DEF T

\* While the connection is read and no handler runs or waits, each frame that
\* was read has passed.
LEMMA IdleHasPassed ==
    ASSUME FrameTypes, ChunksInv, PassedInv, AliveInv,
           run = "reading", running = 0, offers = <<>>
    PROVE  Len(Passed) = decoded
<1>1. \A h \in DOMAIN handlers : ~(handlers[h].next <= handlers[h].last)
  BY HandlerNumbers DEF AliveInv
<1>2. ASSUME NEW k \in 1 .. decoded
      PROVE  \E i \in DOMAIN Passed : Passed[i] = k
  <2>1. PICK h \in DOMAIN handlers : k \in handlers[h].first .. handlers[h].last
    BY DEF ChunksInv
  <2>2. k \in Gone(h)
    BY <1>1, <2>1, Fields DEF Gone
  <2> QED  BY <2>2 DEF PassedInv
<1> QED  BY <1>2, PassedCount

\* A step that finds the queue open, or does not touch it, keeps what is known
\* of its end.
LEMMA EndStep ==
    ASSUME FrameTypes, ControlTypes, ChunksInv, PassedInv, OffersInv, AliveInv,
           EndInv, [Next]_vars
    PROVE  EndInv'
<1> USE NoneAssumption
<1>1. queue = "open" => queueExit # "end" /\ outcome # "end"
  BY DEF ControlTypes, EndInv, Exits, Errors
<1>2. ASSUME NEW m \in 0 .. MaxFrames, NEW piece \in BOOLEAN, Arrive(m, piece)
      PROVE  EndInv'
  <2>1. /\ run = "reading" /\ run' = run /\ queue' = queue
        /\ queueExit' = queueExit /\ outcome' = outcome
    BY <1>2 DEF Arrive, queueVars, readerVars, consumerVars
  <2> QED  BY <1>1, <2>1 DEF EndInv
<1>3. CASE Offer \/ OfferWaits
  <2>1. /\ run' = run /\ queue' = queue
        /\ queueExit' = queueExit /\ outcome' = outcome
        /\ running # 0
    BY <1>3 DEF Offer, OfferWaits, readerVars, consumerVars
  <2>2. run = "reading"
    BY <2>1 DEF FrameTypes, AliveInv
  <2> QED  BY <1>1, <2>1, <2>2 DEF EndInv
<1>4. CASE Take
  <2>1. /\ run' = run /\ queueExit' = queueExit /\ outcome' = outcome
        /\ cause' = cause /\ partial' = partial /\ cutOff' = cutOff
        /\ offers' = offers /\ messages # <<>> /\ messages' = <<>>
    BY <1>4 DEF Take, readerVars, decoderVars, historyVars
  <2>2. Passed' = Passed /\ decoded' = decoded
    BY <1>4, TakeIsStill DEF Still
  <2>3. /\ queue' = "done" => queue = "done" \/ offers = <<>>
        /\ queue' = "open" <=> queue = "open"
    BY <1>4 DEF Take
  <2>4. queue # "done" /\ outcome # "end"
    BY <2>1 DEF EndInv
  <2> QED  BY <2>1, <2>2, <2>3, <2>4 DEF EndInv, AllPassed
<1>5. CASE Release
  <2>1. /\ run' = run /\ queue' = queue /\ cause' = cause
        /\ queueExit' = queueExit /\ outcome' = outcome
        /\ offers # <<>>
    BY <1>5 DEF Release, readerVars, consumerVars
  <2> QED  BY <2>1 DEF EndInv
<1>6. CASE TakeEnd
  <2>1. /\ queue = "done" /\ outcome' = queueExit
        /\ Passed' = Passed /\ decoded' = decoded
        /\ run' = run /\ queue' = queue /\ cause' = cause
        /\ queueExit' = queueExit /\ partial' = partial /\ cutOff' = cutOff
        /\ offers' = offers /\ messages' = messages
    BY <1>6 DEF TakeEnd, decoderVars, queueVars, readerVars, historyVars, Passed
  <2> QED  BY <2>1 DEF EndInv, AllPassed
<1>7. ASSUME NEW why \in {"end", "TransportReadFailed"}, ReadEnds(why)
      PROVE  EndInv'
  <2>1. /\ run = "reading" /\ run' = "ending" /\ queue' = queue /\ cause' = why
        /\ queueExit' = queueExit /\ outcome' = outcome
        /\ offers' = <<>> /\ running = 0
        /\ cutOff' = (cutOff \/ (why = "end" /\ offers # <<>>))
    BY <1>7 DEF ReadEnds, EndRun, Quiet, consumerVars
  <2>2. Passed' = Passed /\ decoded' = decoded
    BY <1>7, OthersAreStill DEF Still
  <2>3. offers = <<>> => Len(Passed) = decoded
    BY <2>1, IdleHasPassed
  <2>4. queue = "open"
    BY <2>1 DEF EndInv
  <2>5. cause' = "end" => AllPassed'
    BY <2>1, <2>2, <2>3 DEF AllPassed
  <2> QED  BY <1>1, <2>1, <2>4, <2>5 DEF EndInv
<1>8. CASE ArriveOversized
  <2>1. /\ run = "reading" /\ run' = "ending" /\ queue' = queue
        /\ cause' = "FrameTooLarge"
        /\ queueExit' = queueExit /\ outcome' = outcome
    BY <1>8 DEF ArriveOversized, EndRun, consumerVars
  <2>2. queue = "open"
    BY <2>1 DEF EndInv
  <2> QED  BY <1>1, <2>1, <2>2 DEF EndInv
<1>9. CASE FinishRun
  <2>1. /\ run = "ending" /\ run' = "over" /\ cause' = cause /\ partial' = partial
        /\ outcome' = outcome /\ cutOff' = cutOff
        /\ offers' = offers /\ messages' = messages
        /\ CloseQueue(Verdict)
    BY <1>9 DEF FinishRun, decoderVars, consumerVars, historyVars
  <2>2. Passed' = Passed /\ decoded' = decoded
    BY <1>9, OthersAreStill DEF Still
  <2>3. queueExit # "end" /\ outcome # "end"
    BY <2>1 DEF EndInv
  <2>4. CASE queue = "open"
    <3>1. /\ queueExit' = Verdict
          /\ queue' = IF messages = <<>> /\ offers = <<>> THEN "done" ELSE "closing"
      BY <2>1, <2>4 DEF CloseQueue
    <3>2. Verdict = "end" => offers = <<>> /\ AllPassed /\ ~partial
      BY <2>1, <2>4 DEF Verdict, EndInv
    <3>3. AllPassed' <=> AllPassed
      BY <2>1, <2>2 DEF AllPassed
    <3> QED  BY <2>1, <2>3, <3>1, <3>2, <3>3 DEF EndInv
  <2>5. CASE queue # "open"
    <3>1. queue' = queue /\ queueExit' = queueExit
      BY <2>1, <2>5 DEF CloseQueue
    <3> QED  BY <2>1, <2>3, <2>5, <3>1 DEF EndInv
  <2> QED  BY <2>4, <2>5
<1>10. ASSUME NEW c \in Calls, Close(c)
       PROVE  EndInv'
  <2>1. /\ outcome' = outcome /\ cutOff' = cutOff /\ partial' = partial
        /\ messages' = messages /\ CloseQueue("TransportClosed")
    BY <1>10 DEF Close, decoderVars, consumerVars, historyVars
  <2>2. Passed' = Passed /\ decoded' = decoded
    BY <1>10, OthersAreStill DEF Still
  <2>3. CASE queue = "open"
    <3>1. /\ queueExit' = "TransportClosed"
          /\ queue' = IF messages = <<>> /\ offers = <<>> THEN "done" ELSE "closing"
      BY <2>1, <2>3 DEF CloseQueue
    <3>2. offers' = offers /\ run' # "reading"
      BY <1>10 DEF Close, EndRun
    <3> QED  BY <1>1, <2>1, <2>3, <3>1, <3>2 DEF EndInv
  <2>4. CASE queue # "open"
    <3>1. queue' = queue /\ queueExit' = queueExit
      BY <2>1, <2>4 DEF CloseQueue
    <3>2. /\ run # "reading" /\ run' = run /\ cause' = cause /\ offers' = offers
      BY <1>10, <2>4 DEF Close, EndInv
    <3>3. AllPassed' <=> AllPassed
      BY <2>1, <2>2 DEF AllPassed
    <3> QED  BY <2>1, <2>4, <3>1, <3>2, <3>3 DEF EndInv
  <2> QED  BY <2>3, <2>4
<1>11. ASSUME UNCHANGED <<decoded, partial, messages, received, offers, queue,
                          queueExit, run, cause, outcome, cutOff>>
       PROVE  EndInv'
  BY <1>11 DEF EndInv, AllPassed, Passed
<1>12. CASE ReleaseEnds
  BY <1>11, <1>12 DEF ReleaseEnds, decoderVars, queueVars, readerVars,
                      consumerVars, historyVars
<1>13. ASSUME NEW c \in Calls,
              Send(c) \/ Written(c) \/ CloseAgain(c) \/ CloseReturns(c)
       PROVE  EndInv'
  BY <1>11, <1>13 DEF Send, Written, CloseAgain, CloseReturns, decoderVars,
                      queueVars, readerVars, consumerVars, historyVars
<1>14. CASE UNCHANGED vars
  BY <1>11, <1>14 DEF vars
<1> QED  BY <1>2, <1>3, <1>4, <1>5, <1>6, <1>7, <1>8, <1>9, <1>10, <1>12, <1>13,
            <1>14 DEF Next

\* One of the frames that were read has passed once or not at all.
LEMMA PassedOnce ==
    ASSUME FrameTypes, ChunksInv, PassedInv, AliveInv, run = "reading",
           NEW k \in 1 .. decoded
    PROVE  Cardinality({i \in DOMAIN Passed : Passed[i] = k})
               = IF \E h \in alive : k \in Left(h) THEN 0 ELSE 1
<1>. DEFINE places == {i \in DOMAIN Passed : Passed[i] = k}
<1>1. PICK h \in DOMAIN handlers : k \in handlers[h].first .. handlers[h].last
  BY DEF ChunksInv
<1>2. /\ handlers[h].first \in Nat /\ handlers[h].next \in Nat
      /\ handlers[h].last \in Nat /\ k \in Nat
      /\ handlers[h].first <= handlers[h].next
      /\ alive \subseteq DOMAIN handlers
  <2>1. handlers[h].first <= handlers[h].next
    BY DEF ChunksInv
  <2>2. k \in Nat /\ alive \subseteq DOMAIN handlers
    BY BoundAssumption DEF FrameTypes
  <2> QED  BY <2>1, <2>2, Fields
<1>3. CASE k \in Gone(h)
  <2>1. PICK i \in DOMAIN Passed : Passed[i] = k
    BY <1>3 DEF PassedInv
  <2>2. places = {i}
    BY <2>1 DEF PassedInv
  <2>3. Cardinality(places) = 1
    BY <2>2, FS_Singleton
  <2>4. ASSUME NEW g \in alive, k \in Left(g)
        PROVE  FALSE
    <3>1. g \in DOMAIN handlers /\ k \in Int
      BY <1>2
    <3>2. k \in handlers[g].first .. handlers[g].last
      <4>1. /\ handlers[g].first <= handlers[g].next
            /\ handlers[g].first \in Nat /\ handlers[g].next \in Nat
            /\ handlers[g].last \in Nat
        BY <3>1, Fields DEF ChunksInv
      <4> QED  BY <2>4, <4>1 DEF Left
    <3>3. g = h
      BY <1>1, <3>1, <3>2, ChunksDisjoint
    <3> QED  BY <1>2, <1>3, <2>4, <3>3 DEF Left, Gone
  <2> QED  BY <2>3, <2>4
<1>4. CASE k \notin Gone(h)
  <2>1. k \in Left(h) /\ handlers[h].next <= handlers[h].last
    BY <1>1, <1>2, <1>4 DEF Left, Gone
  <2>2. h \in alive
    BY <2>1 DEF AliveInv
  <2>3. places = {}
    <3>. SUFFICES ASSUME NEW i \in DOMAIN Passed, Passed[i] = k
                  PROVE  FALSE
      OBVIOUS
    <3>1. Passed[i] \in Gone(h)
      BY <1>1, PassedOfChunk
    <3> QED  BY <1>4, <3>1
  <2>4. Cardinality(places) = 0
    BY <2>3, FS_EmptySet
  <2> QED  BY <2>1, <2>2, <2>4
<1> QED  BY <1>3, <1>4

\* The invariant accounts for the frames.
LEMMA InvImpliesAccounted ==
    ASSUME FrameTypes, ControlTypes, ChunksInv, PassedInv, AliveInv, EndInv
    PROVE  FramesAccountedFor
<1>1. NothingLostWhileOpen
  BY PassedOnce, PassedCount DEF NothingLostWhileOpen, PassedInv
<1>2. EndIsComplete
  <2>. SUFFICES ASSUME outcome = "end"
                PROVE  ~partial /\ (cutOff \/ Len(received) = decoded)
    BY DEF EndIsComplete
  <2>1. messages = <<>> /\ ~partial /\ AllPassed
    BY DEF EndInv
  <2>2. Len(Passed) = Len(received)
    <3>1. Len(messages) = 0 /\ Len(received) \in Nat
      BY <2>1 DEF FrameTypes
    <3> QED  BY <3>1, PassedShape
  <2> QED  BY <2>1, <2>2 DEF AllPassed
<1> QED  BY <1>1, <1>2 DEF FramesAccountedFor

------------------------------------------------------------------------------
(* The theorems.                                                              *)

\* The inductive invariant.
IInv ==
    /\ FrameTypes /\ ControlTypes
    /\ ChunksInv /\ PassedInv /\ OffersInv /\ AliveInv /\ RoomInv
    /\ OrderInv
    /\ EndInv

\* It holds when the connection opens.
LEMMA InitInv ==
    ASSUME Init
    PROVE  IInv
<1>1. Passed = <<>>
  BY DEF Init, Passed
<1>2. handlers = <<>> /\ offers = <<>> /\ messages = <<>> /\ decoded = 0
  BY DEF Init
<1>3. DOMAIN handlers = {} /\ DOMAIN Passed = {} /\ DOMAIN offers = {}
      /\ Len(Passed) = 0
  BY <1>1, <1>2
<1>4. FrameTypes
  <2>1. \A S : <<>> \in Seq(S)
    OBVIOUS
  <2>2. 0 \in 0 .. MaxFrames
    BY BoundAssumption
  <2>3. alive = {} /\ running = 0 /\ received = <<>>
    BY DEF Init
  <2> QED  BY <1>2, <2>1, <2>2, <2>3 DEF FrameTypes
<1>5. ControlTypes
  <2>1. 0 \in 0 .. Capacity
    BY CapacityAssumption
  <2>2. calls \in [Calls -> {"idle", "writing", "interrupting", "latched", "ok",
                             "TransportClosed"}]
    BY DEF Init
  <2> QED  BY <2>1, <2>2 DEF Init, ControlTypes
<1>6. ChunksInv /\ PassedInv
  BY <1>2, <1>3 DEF ChunksInv, PassedInv
<1>7. OffersInv /\ AliveInv /\ RoomInv
  BY <1>2, <1>3 DEF Init, OffersInv, AliveInv, RoomInv
<1>8. OrderInv
  BY <1>2, <1>3 DEF Init, OrderInv
<1>9. EndInv
  BY NoneAssumption DEF Init, EndInv, Exits, Errors
<1> QED  BY <1>4, <1>5, <1>6, <1>7, <1>8, <1>9 DEF IInv

\* Every step keeps it.
LEMMA StepInv ==
    ASSUME IInv, [Next]_vars
    PROVE  IInv'
<1>1. FrameTypes' /\ ControlTypes'
  BY FrameTypesStep, ControlTypesStep DEF IInv
<1>2. ChunksInv' /\ PassedInv'
  BY ChunksStep, PassedStep DEF IInv
<1>3. OffersInv' /\ AliveInv' /\ RoomInv'
  BY OffersStep, AliveStep, RoomStep DEF IInv
<1>4. OrderInv'
  BY OrderStep DEF IInv
<1>5. EndInv'
  BY EndStep DEF IInv
<1> QED  BY <1>1, <1>2, <1>3, <1>4, <1>5 DEF IInv

\* So it holds throughout.
LEMMA InvariantHolds == Spec => []IInv
  BY InitInv, StepInv, PTL DEF Spec

\* Every variable keeps its type (makeFramedSocketConnection, Queue.ts).
THEOREM TypeCorrect == Spec => []TypeOK
<1>1. IInv => TypeOK
  BY TypeParts DEF IInv
<1> QED  BY <1>1, InvariantHolds, PTL

\* While the connection is read no frame is lost, made up or doubled, and those
\* of one chunk keep their order, however the handlers wait and resume one
\* another; and receive ends without an error only when every frame was received
\* or handlers were cut off by the end of the stream (Queue.offer,
\* releaseCapacity, finishAndEndQueue).
THEOREM EveryFrameAccountedFor == Spec => []FramesAccountedFor
<1>1. IInv => FramesAccountedFor
  BY InvImpliesAccounted DEF IInv
<1> QED  BY <1>1, InvariantHolds, PTL

\* Frames pass in the order of the wire, without a gap, until a chunk comes in
\* behind a handler that waits with more than one frame (Queue.offer puts a
\* handler that is resumed and finds the queue full behind those that wait).
THEOREM OrderKeptWithoutBacklog == Spec => []OrderedUnlessBacklog
<1>1. IInv => OrderedUnlessBacklog
  BY DEF IInv, OrderInv, OrderedUnlessBacklog
<1> QED  BY <1>1, InvariantHolds, PTL
===============================================================================
