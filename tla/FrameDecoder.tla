----------------------------- MODULE FrameDecoder -----------------------------
(* The length-prefixed codec of packages/core/src/runtime/transport.ts:       *)
(* encodeFrame and the class FrameDecoder.  A peer encodes payloads one after *)
(* the other; the socket hands the bytes over in chunks whose borders mean    *)
(* nothing, and each chunk is one push, which runs to its end without         *)
(* yielding.  Bytes are digits of a small Base and a prefix has PrefixBytes   *)
(* of them (four bytes of base 256 in the code).                              *)
EXTENDS Naturals, Sequences, SequencesExt

CONSTANTS
    Base,            \* a byte is one of 0 .. Base - 1
    PrefixBytes,     \* LENGTH_PREFIX_BYTES
    MaxFrameBytes,   \* the decoder's limit
    CompactAt,       \* consumed chunks that are always dropped: 32 in the code
    Payloads,        \* payloads a peer may send; some exceed MaxFrameBytes
    MaxFrames,       \* bound: frames on the wire
    MaxChunk         \* bound: bytes of a chunk

Byte == 0 .. Base - 1

\* What a digit with k digits behind it is worth.
Weight[k \in 0 .. PrefixBytes] == IF k = 0 THEN 1 ELSE Base * Weight[k - 1]

ASSUME BytesAssumption == Base \in Nat \ {0, 1} /\ PrefixBytes \in Nat \ {0}
ASSUME LimitAssumption == MaxFrameBytes \in 0 .. Weight[PrefixBytes] - 1
ASSUME CompactAssumption == CompactAt \in Nat \ {0}
ASSUME PayloadAssumption ==
    \A p \in Payloads : p \in Seq(Byte) /\ Len(p) < Weight[PrefixBytes]
ASSUME BoundAssumption == MaxFrames \in Nat /\ MaxChunk \in Nat

VARIABLES
    payloads,   \* what the peer has encoded, in order
    pushed,     \* how many bytes of the wire have been pushed
    decoder,    \* the private fields of the FrameDecoder
    frames,     \* every frame a push has returned so far
    outcome,    \* "open", or how decoding ended
    kept        \* bytes pushed before the push that threw

vars == <<payloads, pushed, decoder, frames, outcome, kept>>
------------------------------------------------------------------------------
SmallerOf(a, b) == IF a < b THEN a ELSE b

\* setUint32 and getUint32, big-endian.
PrefixOf(n) ==
    [i \in 1 .. PrefixBytes |-> (n \div Weight[PrefixBytes - i]) % Base]

LengthIn(prefix) ==
    LET value[i \in 0 .. PrefixBytes] ==
            IF i = 0 THEN 0 ELSE value[i - 1] * Base + prefix[i]
    IN  value[PrefixBytes]

\* The peer's encodeFrame; its own limit may be larger than this decoder's.
encodeFrame(payload) == PrefixOf(Len(payload)) \o payload

Wire == FlattenSeq([i \in DOMAIN payloads |-> encodeFrame(payloads[i])])

\* Expecting nothing is <<>>, expecting a body of n bytes is <<n>>.
EmptyDecoder ==
    [chunks |-> <<>>, bufferedBytes |-> 0, expectedBodyBytes |-> <<>>,
     headChunkIndex |-> 0, headChunkOffset |-> 0]

\* Mutant: the head index survives the splice.
compactConsumedChunksKeepingHead(d) ==
    IF d.headChunkIndex < CompactAt /\ d.headChunkIndex * 2 < Len(d.chunks)
    THEN d
    ELSE [d EXCEPT !.chunks = SubSeq(@, d.headChunkIndex + 1, Len(@))]

\* Consumed chunks are dropped when they are half of the list, or many.
compactConsumedChunks(d) ==
    IF d.headChunkIndex < CompactAt /\ d.headChunkIndex * 2 < Len(d.chunks)
    THEN d
    ELSE [d EXCEPT !.chunks = SubSeq(@, d.headChunkIndex + 1, Len(@)),
                   !.headChunkIndex = 0]

\* One round of the loop of readBytes: from the chunk at the head, which goes
\* when it is exhausted, as many of the n bytes as are missing and it has.
copyOnce(r, n) ==
    LET d     == r.decoder
        chunk == d.chunks[d.headChunkIndex + 1]
        take  == SmallerOf(n - Len(r.bytes), Len(chunk) - d.headChunkOffset)
        end   == d.headChunkOffset + take
        read  == [d EXCEPT !.bufferedBytes = @ - take,
                           !.headChunkOffset = end]
    IN  [decoder |-> IF end < Len(chunk) THEN read
                     ELSE compactConsumedChunks(
                              [read EXCEPT !.headChunkIndex = @ + 1,
                                           !.headChunkOffset = 0]),
         bytes |-> r.bytes \o SubSeq(chunk, d.headChunkOffset + 1, end)]

\* Copies n bytes from the buffered chunks.  Every round but the last exhausts
\* a chunk, so there are no more rounds than chunks.
readBytes(d, n) ==
    LET round[k \in 0 .. Len(d.chunks)] ==
            IF k = 0 THEN [decoder |-> d, bytes |-> <<>>]
            ELSE LET r == round[k - 1]
                 IN  IF Len(r.bytes) = n THEN r ELSE copyOnce(r, n)
    IN  round[Len(d.chunks)]

TooLarge(length) == length > MaxFrameBytes

\* Mutant: a body is waited for with "at most" where "fewer than" is meant.
NeedsOneMore(d) ==
    IF d.expectedBodyBytes = <<>> THEN PrefixBytes
    ELSE Head(d.expectedBodyBytes) + 1

\* The bytes the next step of the loop waits for.
Needs(d) ==
    IF d.expectedBodyBytes = <<>> THEN PrefixBytes
    ELSE Head(d.expectedBodyBytes)

\* One round of the loop of push, for a prefix or for a body.  A length over the
\* limit throws, and what this push had decoded goes with it.
decodeOnce(r) ==
    LET read   == readBytes(r.decoder, Needs(r.decoder))
        length == LengthIn(read.bytes)
    IN  IF r.decoder.expectedBodyBytes # <<>>
        THEN [r EXCEPT !.decoder = [read.decoder EXCEPT !.expectedBodyBytes = <<>>],
                       !.frames = Append(@, read.bytes)]
        ELSE IF TooLarge(length)
        THEN [decoder |-> read.decoder, frames |-> <<>>, tooLarge |-> TRUE]
        ELSE [r EXCEPT !.decoder =
                           [read.decoder EXCEPT !.expectedBodyBytes = <<length>>]]

Stopped(r) == r.tooLarge \/ r.decoder.bufferedBytes < Needs(r.decoder)

\* The loop of push: prefix, body, prefix, ... while the bytes last.  Only an
\* empty body takes no byte, and a prefix comes before it: hence the rounds.
drain(d) ==
    LET round[k \in 0 .. 2 * d.bufferedBytes + 1] ==
            IF k = 0 THEN [decoder |-> d, frames |-> <<>>, tooLarge |-> FALSE]
            ELSE LET r == round[k - 1] IN IF Stopped(r) THEN r ELSE decodeOnce(r)
    IN  round[2 * d.bufferedBytes + 1]

Buffered(chunk) ==
    IF chunk = <<>> THEN decoder
    ELSE [decoder EXCEPT !.chunks = Append(@, chunk),
                         !.bufferedBytes = @ + Len(chunk)]

push(chunk) == drain(Buffered(chunk))

\* finish: nothing buffered, or the stage at which the bytes ran out.
finish(d) ==
    IF d.expectedBodyBytes # <<>> THEN "body"
    ELSE IF d.bufferedBytes = 0 THEN "end"
    ELSE "length"

------------------------------------------------------------------------------
Init ==
    /\ payloads \in UNION {[1 .. n -> Payloads] : n \in 0 .. MaxFrames}
    /\ pushed = 0
    /\ decoder = EmptyDecoder
    /\ frames = <<>>
    /\ outcome = "open"
    /\ kept = 0

\* The next n bytes of the wire arrive as one chunk.
Push(n) ==
    /\ outcome = "open"
    /\ pushed + n <= Len(Wire)
    /\ LET r == push(SubSeq(Wire, pushed + 1, pushed + n))
       IN /\ decoder' = r.decoder
          /\ frames' = frames \o r.frames
          /\ outcome' = IF r.tooLarge THEN "tooLarge" ELSE outcome
          /\ kept' = pushed
    /\ pushed' = pushed + n
    /\ UNCHANGED payloads

\* The stream ends, after the last byte or in the middle of a frame.
Finish ==
    /\ outcome = "open"
    /\ outcome' = finish(decoder)
    /\ UNCHANGED <<payloads, pushed, decoder, frames, kept>>

Next == Finish \/ \E n \in 0 .. MaxChunk : Push(n)

Spec == Init /\ [][Next]_vars
------------------------------------------------------------------------------
\* The wire cut at the end of the k-th frame, and the frames whose last byte is
\* among the first n bytes: what a decoder that sees all bytes at once returns.
EndOf(k) == Len(FlattenSeq([i \in 1 .. k |-> encodeFrame(payloads[i])]))

CompleteIn(n) == {k \in 0 .. Len(payloads) : EndOf(k) <= n}

LastCompleteIn(n) == CHOOSE k \in CompleteIn(n) : \A j \in CompleteIn(n) : j <= k

\* An oversized frame announces itself with its prefix.
OversizedIn(n) ==
    \E k \in DOMAIN payloads :
        Len(payloads[k]) > MaxFrameBytes /\ EndOf(k - 1) + PrefixBytes <= n

Unread(d) ==
    SubSeq(FlattenSeq(SubSeq(d.chunks, d.headChunkIndex + 1, Len(d.chunks))),
           d.headChunkOffset + 1, d.headChunkOffset + d.bufferedBytes)

\* The decoder's fields stay together: the count is the number of bytes left in
\* the chunk list, these are the latest bytes pushed, and consumed chunks never
\* make up half of the list (readBytes, compactConsumedChunks).
BufferOK ==
    /\ outcome \in {"open", "tooLarge", "end", "length", "body"}
    /\ pushed \in 0 .. Len(Wire)
    /\ decoder.bufferedBytes \in 0 .. pushed
    /\ Len(FlattenSeq(SubSeq(decoder.chunks, decoder.headChunkIndex + 1,
                             Len(decoder.chunks))))
           = decoder.headChunkOffset + decoder.bufferedBytes
    /\ Unread(decoder) = SubSeq(Wire, pushed - decoder.bufferedBytes + 1, pushed)
    /\ \/ decoder.headChunkIndex = 0
       \/ /\ decoder.headChunkIndex < CompactAt
          /\ decoder.headChunkIndex * 2 < Len(decoder.chunks)

\* Whatever the chunk borders, the frames returned are exactly those whose last
\* byte has been pushed, as the peer encoded them (push).
BordersDoNotMatter ==
    outcome # "tooLarge" =>
        frames = SubSeq(payloads, 1, LastCompleteIn(pushed))

\* An oversized frame is refused on its prefix, before its body arrives, and no
\* other is; what its chunk completed before it is lost with the throw, and
\* nothing that an earlier chunk completed is (push).
OversizedRefused ==
    /\ (outcome = "tooLarge") = OversizedIn(pushed)
    /\ outcome = "tooLarge" =>
           frames = SubSeq(payloads, 1, LastCompleteIn(kept))

\* finish is silent exactly at a frame border, and otherwise names the part of
\* the frame that is missing (finish).
FinishIsExact ==
    LET rest == pushed - EndOf(LastCompleteIn(pushed))
    IN /\ outcome = "end" => rest = 0
       /\ outcome = "length" => rest \in 1 .. PrefixBytes - 1
       /\ outcome = "body" => rest >= PrefixBytes

\* What comes out is what the bytes say, however they were cut into chunks.
DecodesTheWire == BordersDoNotMatter /\ OversizedRefused /\ FinishIsExact
===============================================================================
