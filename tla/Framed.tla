------------------------------- MODULE Framed -------------------------------
(***************************************************************************)
(* actix-codec::Framed: a Stream of frames and a Sink of items over one    *)
(* I/O object, with the LinesCodec.  Every call holds the Framed by        *)
(* exclusive reference; a call is a sequence of steps, one per call it     *)
(* makes on the codec or the I/O object, and at names the call under way.  *)
(* The I/O object reads what its peer sends in pieces of any size, takes   *)
(* what is written in pieces of any size, and may answer Pending or an     *)
(* error whenever it is asked.                                             *)
(***************************************************************************)
EXTENDS LinesCodec

CONSTANTS
    Limits,   \* max_length of the codecs
    HW,       \* high-water mark of the write buffer, in bytes
    MaxItem,  \* bound: bytes of an item
    MaxInput, \* bound: bytes the peer sends
    MaxDuplex,\* bound: bytes the peer sends while the sink is in use
    MaxOutput \* bound: bytes encoded

ASSUME FramedAssumption ==
    /\ Limits \subseteq Nat /\ NoLimit \in Nat
    /\ HW \in Nat \ {0} /\ MaxItem \in Nat
    /\ MaxInput \in Nat /\ MaxDuplex \in Nat /\ MaxOutput \in Nat

VARIABLES
    flags,      \* Framed::flags
    lines,      \* Framed::codec
    read_buf,   \* Framed::read_buf
    write_buf,  \* Framed::write_buf: encoded bytes, numbered as they are encoded
    at,         \* the call under way, or "idle"
    item,       \* the answer of the last next_item
    sent,       \* the answer of the last flush, poll_ready or close
    ready,      \* poll_ready was answered and not used by a start_send
    input,      \* io: all that the peer sends
    preload,    \* the bytes of input the Framed was made with
    taken,      \* the bytes of input read so far, those included
    written,    \* io: bytes taken by poll_write
    delivered,  \* io: how many of them reached the peer
    shut,       \* io: shut down
    results,    \* frames and decode errors handed out, repeated ones once
    encoded     \* bytes encoded so far

framed == <<flags, lines, read_buf, write_buf>>
io == <<input, preload, taken, written, delivered, shut>>
vars == <<framed, at, item, sent, ready, io, results, encoded>>
readSide == <<flags, lines, read_buf, item, input, preload, taken, results>>
writeSide == <<write_buf, sent, ready, written, delivered, shut, encoded>>

Answers == {"none", "pending", "ok", "err", "end"}

TypeOK ==
    /\ flags \subseteq {"EOF", "READABLE"}
    /\ lines \in [max_length : Limits, next_index : 0 .. MaxInput]
    /\ read_buf \in Seq(Bytes)
    /\ write_buf \in Seq(1 .. MaxOutput)
    /\ at \in {"idle", "next", "flush", "ready", "close", "shutdown"}
    /\ item \in Answers /\ sent \in Answers
    /\ ready \in BOOLEAN
    /\ input \in Seq(Bytes)
    /\ preload \in 0 .. Len(input) /\ taken \in preload .. Len(input)
    /\ written \in Seq(1 .. MaxOutput)
    /\ delivered \in 0 .. Len(written)
    /\ shut \in BOOLEAN
    /\ encoded \in 0 .. MaxOutput

(* Framed::new, or from_parts of FramedParts::with_read_buf.               *)
Init ==
    /\ flags = {}
    /\ \E max \in Limits : lines = codec(max)
    /\ input \in UNION {[1 .. n -> Bytes] : n \in 0 .. MaxInput}
    /\ preload \in 0 .. Len(input)
    /\ taken = preload
    /\ read_buf = SubSeq(input, 1, preload)
    /\ write_buf = <<>>
    /\ at = "idle"
    /\ item = "none" /\ sent = "none"
    /\ ready = FALSE
    /\ written = <<>> /\ delivered = 0 /\ shut = FALSE
    /\ results = <<>>
    /\ encoded = 0

-----------------------------------------------------------------------------
(* next_item. *)

PollNext ==
    /\ at = "idle"
    /\ at' = "next"
    /\ UNCHANGED <<framed, item, sent, ready, io, results, encoded>>

(* The first half of the loop: decode, or decode_eof, while READABLE.  An  *)
(* error that repeats is the same error.                                   *)
HandOut(out) ==
    results' = IF out = Overlong /\ results # <<>> /\ results[Len(results)] = Overlong
               THEN results ELSE Append(results, out)

Returns(answer) == at' = "idle" /\ item' = answer

(* Fault: still readable after a None. *)
NeedMore_readable == UNCHANGED flags

NeedMore == flags' = flags \ {"READABLE"}

Decode ==
    /\ at = "next"
    /\ "READABLE" \in flags
    /\ LET d == IF "EOF" \in flags THEN decode_eof(lines, read_buf) ELSE decode(lines, read_buf)
       IN  /\ lines' = d.codec
           /\ read_buf' = d.src
           /\ \/ d.out # None /\ HandOut(d.out) /\ UNCHANGED flags
                 /\ Returns(IF d.out.kind = "line" THEN "ok" ELSE "err")
              \/ d.out = None /\ "EOF" \in flags /\ Returns("end") /\ UNCHANGED <<flags, results>>
              \/ d.out = None /\ "EOF" \notin flags /\ NeedMore /\ UNCHANGED <<at, item, results>>
    /\ UNCHANGED <<writeSide, input, preload, taken>>

(* The second half: poll_read_buf. *)
Reading == at = "next" /\ "READABLE" \notin flags

ReadPending ==
    /\ Reading
    /\ Returns("pending")
    /\ UNCHANGED <<framed, sent, ready, io, results, encoded>>

ReadError ==
    /\ Reading
    /\ Returns("err")
    /\ UNCHANGED <<framed, sent, ready, io, results, encoded>>

ReadSome ==
    /\ Reading
    /\ \E n \in 1 .. Len(input) - taken :
          /\ read_buf' = read_buf \o SubSeq(input, taken + 1, taken + n)
          /\ taken' = taken + n
    /\ flags' = flags \cup {"READABLE"}
    /\ UNCHANGED <<lines, at, item, input, preload, results, writeSide>>

ReadEof ==
    /\ Reading
    /\ taken = Len(input)
    /\ flags' = flags \cup {"EOF", "READABLE"}
    /\ UNCHANGED <<lines, read_buf, at, item, input, preload, taken, results, writeSide>>

-----------------------------------------------------------------------------
(* Fault: a rebuilt Framed starts with no flags. *)
Carried_empty(f) == {}

(* replace_codec and into_map_codec with a new codec of the same limit;    *)
(* from_parts of into_parts and into_map_io keep the codec.                *)
Carried(f) == f

Rebuild ==
    /\ at = "idle"
    /\ lines' \in {lines, codec(lines.max_length)}
    /\ flags' = Carried(flags)
    /\ UNCHANGED <<read_buf, write_buf, at, item, sent, ready, io, results, encoded>>

-----------------------------------------------------------------------------
(* Sink. *)

SinkUsed == Len(input) <= MaxDuplex

is_write_ready == Len(write_buf) < HW

PollReady ==
    /\ at = "idle" /\ ~shut /\ SinkUsed
    /\ \/ is_write_ready /\ ready' = TRUE /\ sent' = "ok" /\ UNCHANGED at
       \/ ~is_write_ready /\ at' = "ready" /\ UNCHANGED <<ready, sent>>
    /\ UNCHANGED <<readSide, write_buf, written, delivered, shut, encoded>>

(* start_send, after a poll_ready that was Ready, as Sink asks of callers: *)
(* the bytes of the line and a delimiter.                                  *)
StartSend ==
    /\ at = "idle" /\ ready /\ ~shut
    /\ \E n \in 0 .. MaxItem :
          /\ encoded + n + 1 <= MaxOutput
          /\ write_buf' = write_buf \o [i \in 1 .. n + 1 |-> encoded + i]
          /\ encoded' = encoded + n + 1
    /\ ready' = FALSE
    /\ UNCHANGED <<readSide, at, sent, written, delivered, shut>>

PollFlush ==
    /\ at = "idle" /\ SinkUsed
    /\ at' = "flush"
    /\ UNCHANGED <<framed, item, sent, ready, io, results, encoded>>

Flushing == at \in {"flush", "ready"}

(* poll_write took the first n bytes. *)
advance(n) == write_buf' = SubSeq(write_buf, n + 1, Len(write_buf))

WriteSome ==
    /\ Flushing /\ ~shut
    /\ \E n \in 1 .. Len(write_buf) :
          /\ written' = written \o SubSeq(write_buf, 1, n)
          /\ advance(n)
    /\ UNCHANGED <<readSide, at, sent, ready, delivered, shut, encoded>>

(* poll_write, poll_flush or poll_shutdown answers Pending or an error, or *)
(* poll_write takes nothing, which is an error too.                        *)
SendGivesUp ==
    /\ at \in {"flush", "ready", "close", "shutdown"}
    /\ at' = "idle"
    /\ sent' \in {"pending", "err"}
    /\ UNCHANGED <<framed, item, ready, io, results, encoded>>

(* io.poll_flush: all that was written is with the peer. *)
io_poll_flush == delivered' = Len(written)

(* Fault: an `if` for the `while`, one write is taken for all. *)
FlushDone_early ==
    /\ Flushing
    /\ io_poll_flush
    /\ ready' = (ready \/ at = "ready")
    /\ at' = "idle"
    /\ sent' = "ok"
    /\ UNCHANGED <<readSide, write_buf, written, shut, encoded>>

FlushDone ==
    /\ Flushing
    /\ write_buf = <<>>
    /\ io_poll_flush
    /\ ready' = (ready \/ at = "ready")
    /\ at' = "idle"
    /\ sent' = "ok"
    /\ UNCHANGED <<readSide, write_buf, written, shut, encoded>>

PollClose ==
    /\ at = "idle" /\ SinkUsed
    /\ at' = "close"
    /\ UNCHANGED <<framed, item, sent, ready, io, results, encoded>>

CloseFlushed ==
    /\ at = "close"
    /\ io_poll_flush
    /\ at' = "shutdown"
    /\ UNCHANGED <<readSide, write_buf, sent, ready, written, shut, encoded>>

Shutdown ==
    /\ at = "shutdown"
    /\ shut' = TRUE
    /\ at' = "idle"
    /\ sent' = "ok"
    /\ UNCHANGED <<readSide, write_buf, ready, written, delivered, encoded>>

(* The I/O object delivers when it likes, too. *)
Deliver ==
    /\ delivered' \in delivered + 1 .. Len(written)
    /\ UNCHANGED <<readSide, at, write_buf, sent, ready, written, shut, encoded>>

Next ==
    \/ PollNext \/ Decode \/ ReadPending \/ ReadError \/ ReadSome \/ ReadEof
    \/ Rebuild
    \/ PollReady \/ StartSend \/ PollFlush \/ WriteSome \/ SendGivesUp \/ FlushDone
    \/ PollClose \/ CloseFlushed \/ Shutdown
    \/ Deliver

Spec == Init /\ [][Next]_vars

(* The task polls the stream again and again, as the wakers of its reads   *)
(* make it do; a call that was begun goes on; and the peer sends what it   *)
(* has and then closes, whatever the Pending and the errors in between.    *)
Fairness ==
    /\ SF_vars(PollNext)
    /\ WF_vars(Decode)
    /\ WF_vars(WriteSome \/ SendGivesUp \/ FlushDone \/ CloseFlushed \/ Shutdown)
    /\ SF_vars(ReadSome \/ ReadEof)

FairSpec == Spec /\ Fairness

-----------------------------------------------------------------------------
(* What the input means, whatever its division into pieces.                *)

Delimiters == {i \in DOMAIN input : input[i] = "LF"}

(* The bytes of the k-th line, the last of which may have no delimiter.    *)
Raw(k) ==
    LET before(i) == Cardinality({d \in Delimiters : d < i})
        own == {i \in DOMAIN input : input[i] # "LF" /\ before(i) = k - 1}
    IN  [i \in 1 .. Cardinality(own) |->
            input[CHOOSE j \in own : Cardinality({x \in own : x < j}) = i - 1]]

Count == Cardinality(Delimiters)
         + (IF Chomp(Raw(Cardinality(Delimiters) + 1)) = <<>> THEN 0 ELSE 1)

Line(k) ==
    IF lines.max_length # NoLimit /\ Len(Chomp(Raw(k))) > lines.max_length
    THEN Overlong ELSE try_into_utf8(Chomp(Raw(k)))

Stuck == results # <<>> /\ results[Len(results)] = Overlong

(* lines.rs, LinesCodec: "Will split input up by LF or CRLF delimiters."   *)
(* However the input was cut into reads, preloaded, or handed to another   *)
(* Framed or codec half way, the frames are the lines of the input, in     *)
(* order; a line over the limit is an error, after which there is nothing  *)
(* more, and the end comes after the last line only.                       *)
FramesAreLines ==
    /\ \A k \in DOMAIN results :
          /\ k <= Count /\ results[k] = Line(k)
          /\ results[k] = Overlong => k = Len(results)
    /\ item = "end" => Len(results) = Count

(* framed.rs, next_item: "Repeatedly call `decode` or `decode_eof` as long *)
(* as it is "readable"".  A next_item that answers Pending has handed out  *)
(* every complete line that was read: the task sleeps until more arrives,  *)
(* so a line that was forgotten in the buffer would wait for another one.  *)
(* Bytes the Framed was made with are looked at after the first read.      *)
NoLineHeldBack ==
    at = "idle" /\ item = "pending" /\ taken > preload =>
        Len(results) = Cardinality({d \in Delimiters : d <= taken})

(* The stream ends, after all lines, unless a line over the limit stops it. *)
StreamEnds == <>(item = "end" \/ Stuck)

(* framed.rs, flush and write: bytes leave in the order they were encoded, *)
(* whatever a poll_write takes of them and however often it is asked.      *)
BytesKeepOrder == written \o write_buf = [i \in 1 .. encoded |-> i]

(* framed.rs, flush and close: a flush that answers Ok has brought to the  *)
(* peer all that was ever encoded, and the I/O object is shut down when    *)
(* all that was written to it is with the peer.                            *)
OkMeansDelivered ==
    [][/\ Flushing /\ at' = "idle" /\ sent' = "ok" => delivered' = encoded'
       /\ shut' /\ ~shut => delivered' = Len(written')]_vars

(* framed.rs, is_write_ready and poll_ready: a caller that asks first adds *)
(* at most one item to a buffer that was below the mark.                   *)
BufferBounded == Len(write_buf) <= HW + MaxItem
=============================================================================
