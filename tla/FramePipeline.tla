--------------------------- MODULE FramePipeline ---------------------------
(***************************************************************************)
(* The way of received bytes to the hub: luasocket's receive buffer, the   *)
(* read loop of a connection (core/server.lua) and its inbound pipeline of *)
(* stages (core/iostream.lua), into which the handlers of ZON (core/hub.lua)*)
(* and HSND (core/hub_dispatch.lua) splice new stages while it is in use.  *)
(*                                                                         *)
(* A byte is the at-th byte of the of-th message, deflated or not.  Every  *)
(* frame is one byte and a newline; the filter that follows HSND is        *)
(* BlobLen bytes.  Deflating keeps the number of bytes: what matters is    *)
(* which bytes a stage takes for deflated ones.                            *)
(*                                                                         *)
(* The peer keeps to the protocol: it asks for compression at most once,   *)
(* and uploads its filter once, as the hub asks for it once.               *)
(***************************************************************************)
EXTENDS Integers, Sequences, FiniteSets, SequencesExt

CONSTANTS
    BlobLen,
    BufSize,        \* BUF_SIZE of luasocket
    MaxReadLen,     \* _maxreadlen: bytes per read, and of the longest frame
    MaxMessages,    \* bound: what the peer sends
    LateZon         \* whether the peer may send ZON after its filter

ASSUME PipelineAssumption ==
    /\ {BlobLen, BufSize, MaxReadLen} \subseteq Nat \ {0}
    /\ MaxMessages \in Nat /\ LateZon \in BOOLEAN

VARIABLES
    sent,           \* kinds of the messages the peer has sent
    fin,            \* it has closed its side
    wire,           \* bytes the hub has not read from the kernel
    cbuf,           \* bytes in luasocket's buffer
    pipe,           \* the pipeline: stages, the terminal one last, input_buf,
                    \* deferred frames, sticky_overflow
    control,        \* "idle", "reading", "closed": of the read handler
    last,           \* the read that is worked on found the end of the stream
    handed          \* frames dispatched and filters stored, oldest first

pipeVars == <<sent, fin, wire, cbuf, pipe, control, last, handed>>

\* The sequences of ss, one after the other.
Joined(ss) ==
    LET first[i \in 0..Len(ss)] == IF i = 0 THEN <<>> ELSE first[i - 1] \o ss[i]
    IN first[Len(ss)]

MessageKinds == {"text", "zon", "hsnd"}
Byte == [of : 1..MaxMessages, at : 1..2 + BlobLen, zip : BOOLEAN]
Stage == [kind : {"line", "inflate", "counted"}, buf : Seq(Byte), left : 0..BlobLen]

PipeTypeOK ==
    /\ sent \in Seq(MessageKinds) /\ Len(sent) <= MaxMessages
    /\ {fin, last} \subseteq BOOLEAN
    /\ {wire, cbuf, pipe.input} \subseteq Seq(Byte)
    /\ pipe.stages \in Seq(Stage) /\ pipe.stages # <<>>
    /\ pipe.deferred \in Seq(Seq(Byte)) /\ pipe.sticky \in BOOLEAN
    /\ control \in {"idle", "reading", "closed"}
    /\ handed \in Seq(Seq(Byte))

----------------------------------------------------------------------------
\* The peer.

Newline(b) == b.at = 2
Frame(m) == <<[of |-> m, at |-> 1, zip |-> FALSE], [of |-> m, at |-> 2, zip |-> FALSE]>>
Blob(m) == [i \in 1..BlobLen |-> [of |-> m, at |-> 2 + i, zip |-> FALSE]]
Items(m, kind) == IF kind = "hsnd" THEN <<Frame(m), Blob(m)>> ELSE <<Frame(m)>>
Deflated(bytes) == [i \in DOMAIN bytes |-> [bytes[i] EXCEPT !.zip = TRUE]]
Inflated(bytes) == [i \in DOMAIN bytes |-> [bytes[i] EXCEPT !.zip = FALSE]]
Did(kind) == \E m \in DOMAIN sent : sent[m] = kind

Send(kind) ==
    /\ ~fin /\ Len(sent) < MaxMessages
    /\ kind = "text" \/ ~Did(kind)
    /\ kind = "zon" /\ Did("hsnd") => LateZon
    /\ sent' = Append(sent, kind)
    /\ LET bytes == Joined(Items(Len(sent'), kind)) IN
       wire' = wire \o IF Did("zon") THEN Deflated(bytes) ELSE bytes
    /\ UNCHANGED <<fin, cbuf, pipe, control, last, handed>>

Finish ==
    /\ ~fin /\ fin' = TRUE
    /\ UNCHANGED <<sent, wire, cbuf, pipe, control, last, handed>>

----------------------------------------------------------------------------
\* The stages: what a push of chunk makes of the stage, the unit it returns
\* (with its newline; an empty one is nil), whether it overflows, and the
\* filter it hands over.

LineStage == [kind |-> "line", buf |-> <<>>, left |-> 0]
InflateStage == [kind |-> "inflate", buf |-> <<>>, left |-> 0]
CountedStage == [kind |-> "counted", buf |-> <<>>, left |-> BlobLen]

PushLine(stage, chunk) ==
    LET buf == stage.buf \o chunk
        end == SelectInSeq(buf, Newline) IN
    [stage |-> [stage EXCEPT !.buf = SubSeq(buf, end + 1, Len(buf))],
     unit |-> SubSeq(buf, 1, end),
     overflow |-> (IF end = 0 THEN Len(buf) ELSE end - 1) > MaxReadLen,
     stored |-> <<>>]

\* inflate_push of zlib_stream.c: all of the chunk, or an error.
Inflate(chunk) == IF \A i \in DOMAIN chunk : chunk[i].zip THEN Inflated(chunk) ELSE <<>>

PushInflate(stage, chunk) ==
    [stage |-> stage, unit |-> Inflate(chunk),
     overflow |-> Len(Inflate(chunk)) < Len(chunk), stored |-> <<>>]

PushCounted(stage, chunk) ==
    LET n == IF Len(chunk) < stage.left THEN Len(chunk) ELSE stage.left
        buf == stage.buf \o SubSeq(chunk, 1, n)
        fires == stage.left > 0 /\ n = stage.left IN
    [stage |-> [stage EXCEPT !.buf = IF fires THEN <<>> ELSE buf, !.left = @ - n],
     unit |-> SubSeq(chunk, n + 1, Len(chunk)), overflow |-> FALSE,
     stored |-> IF fires THEN <<buf>> ELSE <<>>]

Push(stage, chunk) ==
    CASE stage.kind = "line" -> PushLine(stage, chunk)
      [] stage.kind = "inflate" -> PushInflate(stage, chunk)
      [] stage.kind = "counted" -> PushCounted(stage, chunk)

\* One stage more: what came so far goes through it.
Through(so_far, stage) ==
    LET r == Push(stage, so_far.unit) IN
    [stages |-> Append(so_far.stages, r.stage), unit |-> r.unit,
     overflow |-> so_far.overflow \/ r.overflow, stored |-> so_far.stored \o r.stored]

\* _pull: the input goes through all the stages.
Pull(p) ==
    LET pulled[i \in 0..Len(p.stages)] ==
            IF i = 0 THEN [stages |-> <<>>, unit |-> p.input, overflow |-> p.sticky,
                           stored |-> <<>>]
            ELSE CHOOSE r \in {Through(so_far, p.stages[i]) : so_far \in {pulled[i - 1]}} : TRUE
    IN pulled[Len(p.stages)]

\* next_frame: a deferred frame, or what comes through the stages.
NextFrame(p) ==
    IF p.deferred # <<>>
    THEN [pipe |-> [p EXCEPT !.deferred = Tail(@), !.sticky = FALSE],
          unit |-> Head(p.deferred), overflow |-> p.sticky, stored |-> <<>>]
    ELSE LET r == Pull(p) IN
         [pipe |-> [p EXCEPT !.stages = r.stages, !.input = <<>>, !.sticky = FALSE],
          unit |-> r.unit, overflow |-> r.overflow, stored |-> r.stored]

----------------------------------------------------------------------------
\* Splicing a stage into the pipeline p: the pipeline after, and a filter the
\* stage stores at once.

\* Variant: what the front stage held is forgotten.
PrependLosing(new, p) ==
    [pipe |-> [p EXCEPT !.stages = <<new, [Head(@) EXCEPT !.buf = <<>>]>> \o Tail(@)],
     stored |-> <<>>]

\* prepend: what the front stage holds goes through the new one. (Only a line
\* stage holds bytes it can give back.)
Prepend(new, p) ==
    LET front == Head(p.stages)
        residual == IF front.kind = "line" THEN front.buf ELSE <<>> IN
    [pipe |-> [p EXCEPT
        !.stages = <<new, IF front.kind = "line" THEN LineStage ELSE front>> \o Tail(@),
        !.input = residual \o @], stored |-> <<>>]

\* The complete lines of these bytes, and the rest.
Newlines(bytes, n) == Cardinality({i \in 1..n : Newline(bytes[i])})
LineEnd(bytes, k) ==
    CHOOSE i \in 0..Len(bytes) : Newlines(bytes, i) = k /\ (i = 0 \/ Newline(bytes[i]))
Line(bytes, k) == SubSeq(bytes, LineEnd(bytes, k - 1) + 1, LineEnd(bytes, k))
Lines(bytes) == [k \in 1..Newlines(bytes, Len(bytes)) |-> Line(bytes, k)]
Rest(bytes) ==
    SubSeq(bytes, LineEnd(bytes, Newlines(bytes, Len(bytes))) + 1, Len(bytes))

\* Variant: the new stage goes to the front, whatever is there.
InsertInFront(new, p) == Prepend(new, p)

\* insert_before_terminal: what the line stage holds goes through the new one, and
\* the frames that come of it are deferred.
InsertBeforeTerminal(new, p) ==
    IF Len(p.stages) < 2 THEN Prepend(new, p)
    ELSE LET line == Last(p.stages)
             r == Push(new, line.buf)
             rest == Rest(r.unit) IN
         [pipe |-> [p EXCEPT
            !.stages = Front(@) \o <<r.stage, [line EXCEPT !.buf = rest]>>,
            !.deferred = @ \o Lines(r.unit),
            !.sticky = @ \/ r.overflow \/ Len(rest) > MaxReadLen
                         \/ \E k \in DOMAIN Lines(r.unit) : Len(Lines(r.unit)[k]) > MaxReadLen + 1],
          stored |-> r.stored]

\* dispatch: what the handler of this frame makes of the pipeline.  A line that is
\* no frame of the peer is refused by the parser.
Dispatched(frame, p) ==
    LET is(kind) == \E m \in DOMAIN sent : sent[m] = kind /\ frame = Frame(m) IN
    CASE is("zon") -> Prepend(InflateStage, p)
      [] is("hsnd") -> InsertBeforeTerminal(CountedStage, p)
      [] OTHER -> [pipe |-> p, stored |-> <<>>]

----------------------------------------------------------------------------
\* The read handler.

\* A socket is readable if the kernel has something, or if bytes were left in
\* luasocket's buffer (dirty).
Readable == wire # <<>> \/ fin \/ cbuf # <<>>

\* recvraw takes up to BufSize bytes at a time until it has enough: n bytes in all.
Takes(n) ==
    LET has == Len(cbuf) + n IN
    \/ has <= MaxReadLen
    \/ Len(cbuf) < MaxReadLen /\ has < MaxReadLen + BufSize

\* _readbuffer: n bytes more had arrived. The end of the stream is seen when there
\* was nothing else to fill the request with.
Receive(n) ==
    /\ control = "idle" /\ Readable /\ n <= Len(wire) /\ (n = 0 \/ Takes(n))
    /\ LET bytes == cbuf \o SubSeq(wire, 1, n)
           k == IF Len(bytes) < MaxReadLen THEN Len(bytes) ELSE MaxReadLen IN
       /\ cbuf' = SubSeq(bytes, k + 1, Len(bytes))
       /\ wire' = SubSeq(wire, n + 1, Len(wire))
       /\ last' \in {FALSE, fin /\ wire' = <<>> /\ Len(bytes) < MaxReadLen}
       /\ bytes # <<>> \/ last'
       /\ pipe' = [pipe EXCEPT !.input = @ \o SubSeq(bytes, 1, k)]
    /\ control' = "reading"
    /\ UNCHANGED <<sent, fin, handed>>

\* The loop over the frames: one of them is dispatched.
HandFrame ==
    /\ control = "reading"
    /\ \E r \in {NextFrame(pipe)} :
       /\ r.unit # <<>> /\ ~r.overflow
       /\ \E d \in {Dispatched(r.unit, r.pipe)} :
            pipe' = d.pipe /\ handed' = handed \o r.stored \o <<r.unit>> \o d.stored
    /\ UNCHANGED <<sent, fin, wire, cbuf, control, last>>

\* ... or none is left: the handler returns, or closes after the last read; or a
\* stage overflows: "receive buffer exceeded".
EndRead ==
    /\ control = "reading"
    /\ \E r \in {NextFrame(pipe)} :
       /\ r.unit = <<>> \/ r.overflow
       /\ pipe' = r.pipe /\ handed' = handed \o r.stored
       /\ control' = IF last \/ r.overflow THEN "closed" ELSE "idle"
    /\ UNCHANGED <<sent, fin, wire, cbuf, last>>

----------------------------------------------------------------------------
PipeInit ==
    /\ sent = <<>> /\ fin = FALSE /\ wire = <<>> /\ cbuf = <<>>
    /\ pipe = [stages |-> <<LineStage>>, input |-> <<>>, deferred |-> <<>>, sticky |-> FALSE]
    /\ control = "idle" /\ last = FALSE /\ handed = <<>>

PipeNext ==
    \/ \E kind \in MessageKinds : Send(kind)
    \/ Finish
    \/ \E n \in 0..Len(wire) : Receive(n)
    \/ HandFrame \/ EndRead

\* The event loop comes back to a readable socket, and a read handler returns.
PipeSpec ==
    /\ PipeInit /\ [][PipeNext]_pipeVars
    /\ WF_pipeVars(\E n \in 0..Len(wire) : Receive(n))
    /\ WF_pipeVars(HandFrame \/ EndRead)

----------------------------------------------------------------------------
SentItems == Joined([m \in DOMAIN sent |-> Items(m, sent[m])])

\* Splicing moves bytes between the buffers of the pipeline while some of them are
\* half a frame or half a filter: at any moment what was handed over and what is
\* on its way, from the terminal stage back to the kernel, is what was sent.
BytesKept ==
    LET held == Joined([i \in DOMAIN pipe.stages |->
                    pipe.stages[Len(pipe.stages) + 1 - i].buf]) IN
    Joined(handed) \o Joined(pipe.deferred) \o
        Inflated(held \o pipe.input \o cbuf \o wire) = Joined(SentItems)

\* A connection is closed because its peer closed it, and all the peer sent before was
\* handed over: no stage takes what it is given for too long or for garbage, and the
\* end of the stream is not seen before the bytes in front of it (_readbuffer: a last
\* read that brings bytes and the end together).
ClosedAfterAll == control = "closed" => fin /\ handed = SentItems

\* Nothing the peer sent is lost: not on the way, by the splices and the reads, and not
\* at the end, by closing too early.
Conserved == BytesKept /\ ClosedAfterAll

\* The pipeline is a stream of items: frames are cut where the peer ended them,
\* plain or deflated, filters are taken whole and never for frames, nothing of a
\* peer that keeps to the protocol overflows, and all it sent before it closed is
\* handed over (the comment at prepend, iostream.lua; hub.lua at ZON).
Stream == INSTANCE FrameStream WITH sent <- SentItems, got <- handed
ImplementsStream == Stream!Spec
=============================================================================
