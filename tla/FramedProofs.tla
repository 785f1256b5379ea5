---------------------------- MODULE FramedProofs ----------------------------
(***************************************************************************)
(* Proofs about Framed: its sink, for every high-water mark, item size and *)
(* bound; and its stream, for every input, limit and division into reads.  *)
(***************************************************************************)
EXTENDS Framed, SequenceTheorems, FiniteSetTheorems, WellFoundedInduction, TLAPS

(* Where the encoded bytes are: those the I/O object took, then those in   *)
(* the write buffer, together all that was encoded, in order.              *)
TypeW ==
    /\ write_buf \in Seq(Nat) /\ written \in Seq(Nat)
    /\ encoded \in Nat
    /\ delivered \in 0 .. Len(written)

(* What makes the buffer bounded: a Ready that was not used yet still      *)
(* holds; and what makes a shutdown safe: its flush was the last thing.    *)
SinkInv ==
    /\ TypeW
    /\ BytesKeepOrder
    /\ Len(write_buf) <= HW + MaxItem
    /\ ready => Len(write_buf) < HW
    /\ at = "shutdown" => delivered = Len(written)

LEMMA Regroup ==
    ASSUME NEW s \in Seq(Nat), NEW t \in Seq(Nat), NEW u \in Seq(Nat)
    PROVE  (s \o t) \o u = s \o (t \o u)
BY SMTT(60)

LEMMA SinkInit == Init => SinkInv
<1> SUFFICES ASSUME Init PROVE SinkInv
  OBVIOUS
<1>1. /\ write_buf = <<>> /\ written = <<>> /\ encoded = 0 /\ delivered = 0
      /\ ready = FALSE /\ at = "idle"
  BY DEF Init
<1>2. <<>> \in Seq(Nat) /\ Len(<<>>) = 0
  OBVIOUS
<1>3. written \o write_buf = [i \in 1 .. encoded |-> i]
  BY <1>1
<1>4. QED
  BY <1>1, <1>2, <1>3, FramedAssumption DEF SinkInv, TypeW, BytesKeepOrder

(* A partial write moves bytes from the head of the buffer to the wire.    *)
LEMMA WriteStep == SinkInv /\ WriteSome => SinkInv'
<1> SUFFICES ASSUME SinkInv, WriteSome PROVE SinkInv'
  OBVIOUS
<1>1. PICK n \in 1 .. Len(write_buf) :
          /\ written' = written \o SubSeq(write_buf, 1, n)
          /\ write_buf' = SubSeq(write_buf, n + 1, Len(write_buf))
  BY DEF WriteSome, advance
<1>2. /\ write_buf \in Seq(Nat) /\ written \in Seq(Nat) /\ Len(write_buf) \in Nat
      /\ n \in Nat /\ n >= 1 /\ n <= Len(write_buf)
  BY <1>1 DEF SinkInv, TypeW
<1> DEFINE head == SubSeq(write_buf, 1, n)
           tail == SubSeq(write_buf, n + 1, Len(write_buf))
<1>3. /\ head \in Seq(Nat) /\ tail \in Seq(Nat)
      /\ Len(head) = n /\ Len(tail) = Len(write_buf) - n
  BY <1>2
<1>4. head \o tail = write_buf
  BY <1>2, ConcatAdjacentSubSeq, SubSeqFull
<1>5. (written \o head) \o tail = written \o write_buf
  <2> HIDE DEF head, tail
  <2>1. (written \o head) \o tail = written \o (head \o tail)
    BY <1>2, <1>3, Regroup
  <2>2. QED
    BY <2>1, <1>4
<1>6. Len(written') = Len(written) + n /\ written' \in Seq(Nat)
  BY <1>1, <1>2, <1>3
<1>7. UNCHANGED <<encoded, ready, at, delivered>> /\ at \in {"flush", "ready"}
  BY DEF WriteSome, Flushing, readSide
<1>8. BytesKeepOrder'
  BY <1>1, <1>5, <1>7 DEF SinkInv, BytesKeepOrder
<1>9. Len(write_buf') = Len(write_buf) - n /\ write_buf' \in Seq(Nat)
  BY <1>1, <1>3
<1>10. TypeW'
  BY <1>2, <1>6, <1>7, <1>9 DEF SinkInv, TypeW
<1>11. Len(write_buf') <= HW + MaxItem /\ (ready' => Len(write_buf') < HW)
  BY <1>2, <1>7, <1>9, FramedAssumption DEF SinkInv
<1>12. QED
  BY <1>7, <1>8, <1>10, <1>11 DEF SinkInv

(* An item's bytes go to the end of a buffer that was below the mark.      *)
LEMMA SendStep == SinkInv /\ StartSend => SinkInv'
<1> SUFFICES ASSUME SinkInv, StartSend PROVE SinkInv'
  OBVIOUS
<1>1. PICK n \in 0 .. MaxItem :
          /\ write_buf' = write_buf \o [i \in 1 .. n + 1 |-> encoded + i]
          /\ encoded' = encoded + n + 1
  BY DEF StartSend
<1> DEFINE item_bytes == [i \in 1 .. n + 1 |-> encoded + i]
<1>2. /\ write_buf \in Seq(Nat) /\ written \in Seq(Nat) /\ encoded \in Nat
      /\ n \in Nat /\ n <= MaxItem
  BY <1>1, FramedAssumption DEF SinkInv, TypeW
<1>3. item_bytes \in Seq(Nat) /\ Len(item_bytes) = n + 1
  BY <1>2
<1>4. write_buf' \in Seq(Nat) /\ Len(write_buf') = Len(write_buf) + n + 1
  BY <1>1, <1>2, <1>3, ConcatProperties
<1>5. UNCHANGED <<written, delivered, at>> /\ ready /\ ~ready' /\ at = "idle"
  BY DEF StartSend
<1>6. written' \o write_buf' = (written \o write_buf) \o item_bytes
  <2>1. written' \o write_buf' = written \o (write_buf \o item_bytes)
    BY <1>1, <1>5
  <2> HIDE DEF item_bytes
  <2>2. QED
    BY <2>1, <1>2, <1>3, Regroup
<1>7. (written \o write_buf) \o item_bytes = [i \in 1 .. encoded + n + 1 |-> i]
  <2>1. written \o write_buf = [i \in 1 .. encoded |-> i]
    BY DEF SinkInv, BytesKeepOrder
  <2> DEFINE before == [i \in 1 .. encoded |-> i]
             after == [i \in 1 .. encoded + n + 1 |-> i]
  <2>2. before \in Seq(Nat) /\ Len(before) = encoded
    BY <1>2
  <2>3. after \in Seq(Nat) /\ Len(after) = encoded + n + 1
    BY <1>2
  <2>4. /\ before \o item_bytes \in Seq(Nat)
        /\ Len(before \o item_bytes) = encoded + n + 1
        /\ \A i \in 1 .. encoded + n + 1 :
              (before \o item_bytes)[i] = IF i <= encoded THEN before[i] ELSE item_bytes[i - encoded]
    BY <1>2, <1>3, <2>2, ConcatProperties
  <2>5. \A i \in 1 .. encoded + n + 1 : (before \o item_bytes)[i] = after[i]
    BY <1>2, <2>4
  <2>6. before \o item_bytes = after
    BY <2>3, <2>4, <2>5, SeqEqual
  <2>7. QED
    BY <2>1, <2>6
<1>8. BytesKeepOrder'
  BY <1>1, <1>6, <1>7 DEF BytesKeepOrder
<1>9. Len(write_buf') <= HW + MaxItem
  BY <1>2, <1>4, <1>5, FramedAssumption DEF SinkInv
<1>10. TypeW'
  BY <1>1, <1>2, <1>4, <1>5 DEF SinkInv, TypeW
<1>11. QED
  BY <1>5, <1>8, <1>9, <1>10 DEF SinkInv

LEMMA SinkStep == SinkInv /\ [Next]_vars => SinkInv'
<1> SUFFICES ASSUME SinkInv, [Next]_vars PROVE SinkInv'
  OBVIOUS
<1> USE DEF readSide, framed, io
<1>1. CASE WriteSome
  BY <1>1, WriteStep
<1>2. CASE StartSend
  BY <1>2, SendStep
<1>3. ASSUME UNCHANGED <<write_buf, written, encoded, delivered, ready>>,
             at' # "shutdown" \/ at' = at
      PROVE  SinkInv'
  BY <1>3 DEF SinkInv, TypeW, BytesKeepOrder
<1>4. CASE PollNext \/ ReadPending \/ ReadError \/ Rebuild \/ PollFlush \/ SendGivesUp \/ PollClose
  BY <1>3, <1>4 DEF PollNext, ReadPending, ReadError, Returns, Rebuild, PollFlush, SendGivesUp,
                    PollClose, Reading
<1>5. CASE Decode \/ ReadSome \/ ReadEof
  BY <1>3, <1>5 DEF Decode, ReadSome, ReadEof, Returns, writeSide
<1>6. CASE PollReady
  BY <1>6 DEF PollReady, is_write_ready, SinkInv, TypeW, BytesKeepOrder
<1>7. CASE FlushDone
  <2>1. Len(write_buf) = 0
    BY <1>7 DEF FlushDone
  <2>2. UNCHANGED <<write_buf, written, encoded>> /\ delivered' = Len(written) /\ at' = "idle"
    BY <1>7 DEF FlushDone, io_poll_flush
  <2>3. QED
    BY <2>1, <2>2, FramedAssumption DEF SinkInv, TypeW, BytesKeepOrder
<1>8. CASE CloseFlushed
  BY <1>8 DEF CloseFlushed, io_poll_flush, SinkInv, TypeW, BytesKeepOrder
<1>9. CASE Shutdown
  BY <1>3, <1>9 DEF Shutdown
<1>10. CASE Deliver
  <2>1. PICK d \in delivered + 1 .. Len(written) : delivered' = d
    BY <1>10 DEF Deliver
  <2>2. UNCHANGED <<write_buf, written, encoded, ready, at>>
    BY <1>10 DEF Deliver
  <2>3. at # "shutdown" /\ delivered' \in 0 .. Len(written)
    BY <2>1 DEF SinkInv, TypeW
  <2>4. QED
    BY <2>2, <2>3 DEF SinkInv, TypeW, BytesKeepOrder
<1>11. CASE UNCHANGED vars
  BY <1>3, <1>11 DEF vars
<1>12. QED
  BY <1>1, <1>2, <1>4, <1>5, <1>6, <1>7, <1>8, <1>9, <1>10, <1>11 DEF Next

(* framed.rs, write and flush: whatever the partial writes and errors, the *)
(* bytes taken by the I/O object and those in the buffer are together the  *)
(* bytes that were encoded, in their order.                                *)
THEOREM BytesInOrder == Spec => []BytesKeepOrder
<1>1. SinkInv => BytesKeepOrder
  BY DEF SinkInv
<1>2. QED
  BY SinkInit, SinkStep, <1>1, PTL DEF Spec

(* framed.rs, poll_ready: one item at most beyond the high-water mark.     *)
THEOREM WriteBufferBounded == Spec => []BufferBounded
<1>1. SinkInv => BufferBounded
  BY DEF SinkInv, BufferBounded
<1>2. QED
  BY SinkInit, SinkStep, <1>1, PTL DEF Spec

(* framed.rs, flush and close: Ok from a flush means that all that was     *)
(* encoded is with the peer, Ok from a close that all that was written is. *)
THEOREM OkIsDelivered == Spec => OkMeansDelivered
<1> DEFINE Ok == /\ Flushing /\ at' = "idle" /\ sent' = "ok" => delivered' = encoded'
                 /\ shut' /\ ~shut => delivered' = Len(written')
<1>1. ASSUME SinkInv, [Next]_vars PROVE [Ok]_vars
  <2> USE DEF readSide, framed, io
  <2>1. CASE FlushDone
    <3>1. /\ write_buf = <<>> /\ delivered' = Len(written)
          /\ UNCHANGED <<encoded, shut>>
      BY <2>1 DEF FlushDone, io_poll_flush
    <3>2. written \in Seq(Nat) /\ encoded \in Nat
      BY <1>1 DEF SinkInv, TypeW
    <3>3. written \o write_buf = written
      BY <3>1, <3>2, ConcatEmptySeq
    <3>4. Len(written) = encoded
      <4>1. written = [i \in 1 .. encoded |-> i]
        BY <1>1, <3>3 DEF SinkInv, BytesKeepOrder
      <4>2. QED
        BY <3>2, <4>1
    <3>5. QED
      BY <3>1, <3>4
  <2>2. CASE Shutdown
    BY <1>1, <2>2 DEF Shutdown, SinkInv, Flushing
  <2>3. CASE PollNext \/ ReadPending \/ ReadError \/ Rebuild \/ PollFlush \/ PollClose
    BY <2>3 DEF PollNext, ReadPending, ReadError, Reading, Rebuild, PollFlush, PollClose, Flushing
  <2>4. CASE Decode \/ ReadSome \/ ReadEof
    BY <2>4 DEF Decode, ReadSome, ReadEof, Reading, Flushing, writeSide
  <2>5. CASE PollReady \/ StartSend \/ WriteSome \/ SendGivesUp \/ CloseFlushed \/ Deliver
    BY <2>5 DEF PollReady, StartSend, WriteSome, SendGivesUp, CloseFlushed, Deliver, Flushing
  <2>6. CASE UNCHANGED vars
    BY <2>6
  <2>7. QED
    BY <1>1, <2>1, <2>2, <2>3, <2>4, <2>5, <2>6 DEF Next
<1>2. QED
  BY SinkInit, SinkStep, <1>1, PTL DEF Spec, OkMeansDelivered

-----------------------------------------------------------------------------
(* The stream.  The delimiters among the first p bytes of the input.        *)
Nb(p) == Cardinality({d \in Delimiters : d <= p})

(* A line runs from the byte after lo to the next delimiter or the end.    *)
IsLine(lo, hi) ==
    /\ lo \in 0 .. Len(input) /\ hi \in lo .. Len(input)
    /\ lo # 0 => input[lo] = "LF"
    /\ \A i \in lo + 1 .. hi : input[i] # "LF"
    /\ hi # Len(input) => input[hi + 1] = "LF"

LEMMA DelimitersFinite ==
    ASSUME input \in Seq(Bytes)
    PROVE  /\ IsFiniteSet(Delimiters) /\ Cardinality(Delimiters) \in Nat
           /\ Delimiters \subseteq 1 .. Len(input)
           /\ \A p \in Int : /\ IsFiniteSet({d \in Delimiters : d <= p})
                             /\ Nb(p) \in Nat
           /\ Nb(Len(input)) = Cardinality(Delimiters)
<1>1. Len(input) \in Nat /\ Delimiters \subseteq 1 .. Len(input)
  BY DEF Delimiters
<1>2. IsFiniteSet(Delimiters) /\ Cardinality(Delimiters) \in Nat
  <2>1. IsFiniteSet(1 .. Len(input))
    BY <1>1, FS_Interval
  <2>2. IsFiniteSet(Delimiters)
    BY <1>1, <2>1, FS_Subset
  <2>3. QED
    BY <2>2, FS_CardinalityType
<1>3. ASSUME NEW p \in Int
      PROVE  IsFiniteSet({d \in Delimiters : d <= p}) /\ Nb(p) \in Nat
  <2>1. {d \in Delimiters : d <= p} \in SUBSET Delimiters
    OBVIOUS
  <2>2. QED
    BY <1>2, <2>1, FS_Subset, FS_CardinalityType DEF Nb
<1>4. {d \in Delimiters : d <= Len(input)} = Delimiters
  <2> \A d \in Delimiters : d <= Len(input)
    BY <1>1
  <2> QED
    OBVIOUS
<1>5. QED
  BY <1>1, <1>2, <1>3, <1>4 DEF Nb

LEMMA Interval ==
    ASSUME NEW a \in Int, NEW b \in Int, a <= b
    PROVE  IsFiniteSet(a + 1 .. b) /\ Cardinality(a + 1 .. b) = b - a
<1>1. a + 1 \in Int
  OBVIOUS
<1>2. /\ IsFiniteSet(a + 1 .. b)
      /\ Cardinality(a + 1 .. b) = IF a + 1 > b THEN 0 ELSE b - (a + 1) + 1
  BY <1>1, FS_Interval
<1>3. QED
  BY <1>2

(* From one delimiter to the next the count goes up by one.                 *)
LEMMA CountSteps ==
    ASSUME input \in Seq(Bytes), NEW p \in Nat, NEW q \in Nat, p <= q, q <= Len(input),
           \A i \in p + 1 .. q : input[i] # "LF"
    PROVE  /\ Nb(q) = Nb(p)
           /\ q < Len(input) /\ input[q + 1] = "LF" => Nb(q + 1) = Nb(p) + 1
<1>1. Delimiters \subseteq 1 .. Len(input) /\ Len(input) \in Nat
  BY DelimitersFinite
<1>2. {d \in Delimiters : d <= q} = {d \in Delimiters : d <= p}
  BY <1>1 DEF Delimiters
<1>3. ASSUME q < Len(input), input[q + 1] = "LF" PROVE Nb(q + 1) = Nb(p) + 1
  <2>1. {d \in Delimiters : d <= q + 1} = {d \in Delimiters : d <= p} \cup {q + 1}
    <3>1. q + 1 \in Delimiters
      BY <1>1, <1>3 DEF Delimiters
    <3>2. \A d \in Delimiters : d <= q + 1 <=> d <= q \/ d = q + 1
      BY <1>1
    <3>3. {d \in Delimiters : d <= q + 1} = {d \in Delimiters : d <= q} \cup {q + 1}
      BY <3>1, <3>2
    <3>4. QED
      BY <1>2, <3>3
  <2> DEFINE S == {d \in Delimiters : d <= p}
  <2>2. q + 1 \notin S
    OBVIOUS
  <2>3. IsFiniteSet(S) /\ Nb(p) = Cardinality(S)
    BY DelimitersFinite DEF Nb
  <2> HIDE DEF S
  <2>4. Cardinality(S \cup {q + 1}) = Cardinality(S) + 1
    BY <2>2, <2>3, FS_AddElement
  <2>5. QED
    BY <2>1, <2>3, <2>4 DEF Nb, S
<1>4. QED
  BY <1>2, <1>3 DEF Nb

LEMMA CountMonotone ==
    ASSUME input \in Seq(Bytes), NEW p \in Int, NEW q \in Int, p <= q
    PROVE  /\ Nb(p) <= Nb(q)
           /\ \A d \in Delimiters : p < d /\ d <= q => Nb(p) < Nb(q)
<1>1. {d \in Delimiters : d <= p} \in SUBSET {d \in Delimiters : d <= q}
  BY DelimitersFinite
<1>2. Nb(p) <= Nb(q) /\ (Nb(p) = Nb(q) => {d \in Delimiters : d <= p} = {d \in Delimiters : d <= q})
  BY <1>1, DelimitersFinite, FS_Subset DEF Nb
<1>3. ASSUME NEW d \in Delimiters, p < d, d <= q PROVE Nb(p) # Nb(q)
  <2>1. d \in Int
    BY DelimitersFinite
  <2>2. d \in {e \in Delimiters : e <= q} /\ d \notin {e \in Delimiters : e <= p}
    BY <1>3, <2>1
  <2>3. QED
    BY <1>2, <2>2
<1>4. Nb(p) \in Nat /\ Nb(q) \in Nat
  BY DelimitersFinite
<1>5. QED
  BY <1>2, <1>3, <1>4

(* Raw(k) is the k-th line: its definition counts, this says where it is.   *)
LEMMA RawIsLine ==
    ASSUME input \in Seq(Bytes), NEW lo \in Nat, NEW hi \in Nat, IsLine(lo, hi)
    PROVE  Raw(Nb(lo) + 1) = SubSeq(input, lo + 1, hi)
<1> DEFINE k == Nb(lo) + 1
           before(i) == Cardinality({d \in Delimiters : d < i})
           own == {i \in DOMAIN input : input[i] # "LF" /\ before(i) = k - 1}
<1>1. /\ Len(input) \in Nat /\ DOMAIN input = 1 .. Len(input) /\ lo <= hi /\ hi <= Len(input)
      /\ Nb(lo) \in Nat
  <2>1. lo \in Int
    OBVIOUS
  <2>2. Nb(lo) \in Nat
    BY <2>1, DelimitersFinite
  <2>3. QED
    BY <2>2 DEF IsLine
<1>0. /\ lo \in Int /\ hi \in Int /\ lo + 1 \in Int
      /\ \A i \in lo + 1 .. hi : input[i] # "LF"
      /\ lo # 0 => input[lo] = "LF"
      /\ hi # Len(input) => input[hi + 1] = "LF"
  BY DEF IsLine
<1> DEFINE n == Len(input)
<1>b. n \in Int /\ lo \in Int /\ hi \in Int /\ 0 <= lo /\ lo <= hi /\ hi <= n
  <2>1. lo <= hi /\ hi <= n
    BY <1>1
  <2>2. 0 <= lo /\ lo \in Int /\ hi \in Int
    OBVIOUS
  <2>3. n \in Int
    BY <1>1
  <2>4. QED
    BY <2>1, <2>2, <2>3
<1> HIDE DEF n
<1>2. ASSUME NEW i \in Int PROVE before(i) = Nb(i - 1)
  <2>1. {d \in Delimiters : d < i} = {d \in Delimiters : d <= i - 1}
    BY DelimitersFinite
  <2>2. QED
    BY <2>1 DEF Nb
<1>3. own = lo + 1 .. hi
  <2>1. ASSUME NEW i \in lo + 1 .. hi PROVE i \in own
    <3>1. /\ i \in 1 .. Len(input) /\ i - 1 \in Nat /\ lo <= i - 1 /\ i - 1 <= Len(input)
          /\ input[i] # "LF"
          /\ \A j \in lo + 1 .. i - 1 : input[j] # "LF"
      <4>1. i \in Int /\ lo + 1 <= i /\ i <= hi
        BY <1>0, <2>1
      <4>2. /\ i \in 1 .. Len(input) /\ i - 1 \in Nat /\ lo <= i - 1 /\ i - 1 <= Len(input)
            /\ \A j \in lo + 1 .. i - 1 : j \in lo + 1 .. hi
        <5>1. /\ i \in 1 .. n /\ i - 1 \in Nat /\ lo <= i - 1 /\ i - 1 <= n
              /\ \A j \in lo + 1 .. i - 1 : j \in lo + 1 .. hi
          BY <1>b, <4>1
        <5>2. QED
          BY <5>1 DEF n
      <4>3. QED
        BY <1>0, <2>1, <4>2
    <3>2. Nb(i - 1) = Nb(lo)
      BY <3>1, CountSteps
    <3>3. before(i) = k - 1
      BY <1>1, <1>2, <3>1, <3>2
    <3>4. QED
      BY <1>1, <3>1, <3>3
  <2>2. ASSUME NEW i \in own, i <= lo PROVE FALSE
    <3>1. lo \in Delimiters /\ i < lo /\ i \in 1 .. Len(input)
      <4>1. i \in 1 .. Len(input) /\ input[i] # "LF"
        BY <1>1
      <4>2. lo # 0 /\ input[lo] = "LF" /\ lo \in 1 .. Len(input)
        <5>1. lo # 0 /\ lo \in 1 .. Len(input)
          BY <1>b, <2>2, <4>1 DEF n
        <5>2. QED
          BY <1>0, <5>1
      <4>3. QED
        BY <1>1, <2>2, <4>1, <4>2 DEF Delimiters
    <3>2. Nb(i - 1) < Nb(lo)
      BY <1>1, <3>1, CountMonotone
    <3>3. Nb(i - 1) = Nb(lo)
      BY <1>1, <1>2, <3>1
    <3>4. QED
      BY <1>1, <3>2, <3>3
  <2>3. ASSUME NEW i \in own, i > hi PROVE FALSE
    <3>1. i \in 1 .. Len(input) /\ hi + 1 \in Delimiters /\ i > hi + 1
      <4>1. i \in 1 .. Len(input) /\ input[i] # "LF"
        BY <1>1
      <4>2. input[hi + 1] = "LF" /\ hi + 1 \in 1 .. Len(input)
        <5>1. hi # Len(input) /\ hi + 1 \in 1 .. Len(input)
          BY <1>b, <2>3, <4>1 DEF n
        <5>2. QED
          BY <1>0, <5>1
      <4>3. QED
        BY <1>1, <2>3, <4>1, <4>2 DEF Delimiters
    <3>2. Nb(lo) < Nb(i - 1)
      BY <1>1, <3>1, CountMonotone
    <3>3. Nb(i - 1) = Nb(lo)
      BY <1>1, <1>2, <3>1
    <3>4. QED
      BY <1>1, <3>2, <3>3
  <2>4. QED
    BY <1>1, <2>1, <2>2, <2>3
<1>4. Cardinality(own) = hi - lo
  <2> HIDE DEF own, k
  <2>1. Cardinality(lo + 1 .. hi) = hi - lo
    BY <1>0, <1>1, Interval
  <2>2. QED
    BY <1>3, <2>1
<1>5. ASSUME NEW j \in own PROVE Cardinality({x \in own : x < j}) = j - lo - 1
  <2>1. {x \in own : x < j} = lo + 1 .. j - 1
    BY <1>1, <1>3
  <2>2. j \in Int /\ lo + 1 <= j /\ j - 1 \in Int
    BY <1>0, <1>3
  <2> HIDE DEF own, k
  <2>3. Cardinality(lo + 1 .. j - 1) = j - lo - 1
    BY <1>0, <2>2, Interval
  <2>4. QED
    BY <2>1, <2>3
<1>6. ASSUME NEW i \in 1 .. hi - lo
      PROVE  (CHOOSE j \in own : Cardinality({x \in own : x < j}) = i - 1) = lo + i
  <2> HIDE DEF own
  <2>1. lo + i \in own /\ Cardinality({x \in own : x < lo + i}) = i - 1
    BY <1>1, <1>3, <1>5
  <2>2. \A j \in own : Cardinality({x \in own : x < j}) = i - 1 => j = lo + i
    BY <1>1, <1>3, <1>5
  <2>3. QED
    BY <2>1, <2>2
<1>7. Raw(k) = [i \in 1 .. Cardinality(own) |->
                  input[CHOOSE j \in own : Cardinality({x \in own : x < j}) = i - 1]]
  BY DEF Raw
<1>8. Raw(k) = [i \in 1 .. hi - lo |-> input[lo + i]]
  <2> HIDE DEF own, k
  <2>1. QED
    BY <1>4, <1>6, <1>7
<1>9. SubSeq(input, lo + 1, hi) = [i \in 1 .. hi - lo |-> input[lo + i]]
  BY <1>1
<1>10. QED
  BY <1>8, <1>9

-----------------------------------------------------------------------------
(* The codec.  No delimiter among the first n bytes.                        *)
NoLF(s, n) == \A i \in 1 .. n : s[i] # "LF"

Codecs == [max_length : Nat, next_index : Nat]

LEMMA LeastElement ==
    ASSUME NEW S, S \subseteq Nat, S # {}
    PROVE  \E m \in S : \A n \in S : m <= n
<1> DEFINE R == OpToRel(<, Nat)
<1>1. IsWellFoundedOn(R, Nat)
  BY NatLessThanWellFounded
<1>2. PICK m \in S : \A n \in S : <<n, m>> \notin R
  <2> HIDE DEF R
  <2>1. QED
    BY <1>1, WFMin
<1>3. ASSUME NEW n \in S PROVE ~(n < m)
  <2>1. <<n, m>> \in Nat \X Nat
    OBVIOUS
  <2>2. <<n, m>> \notin {ss \in Nat \X Nat : ss[1] < ss[2]}
    BY <1>2 DEF OpToRel
  <2>3. QED
    BY <2>1, <2>2
<1>4. QED
  BY <1>3

LEMMA SubSeqOfBytes ==
    ASSUME NEW s \in Seq(Bytes), NEW a \in Nat, NEW b \in Nat, 1 <= a, a <= b + 1, b <= Len(s)
    PROVE  /\ SubSeq(s, a, b) \in Seq(Bytes)
           /\ Len(SubSeq(s, a, b)) = b - a + 1
           /\ \A i \in 1 .. b - a + 1 : SubSeq(s, a, b)[i] = s[a - 1 + i]
<1>1. a \in Int /\ b \in Int
  OBVIOUS
<1>2. \A i \in a .. b : s[i] \in Bytes
  OBVIOUS
<1>3. /\ SubSeq(s, a, b) \in Seq(Bytes)
      /\ Len(SubSeq(s, a, b)) = IF a <= b THEN b - a + 1 ELSE 0
      /\ \A i \in 1 .. b - a + 1 : SubSeq(s, a, b)[i] = s[a + i - 1]
  BY <1>1, <1>2, SubSeqProperties
<1>4. \A i \in 1 .. b - a + 1 : a + i - 1 = a - 1 + i
  BY <1>1
<1>5. QED
  BY <1>3, <1>4

LEMMA ChompFacts ==
    ASSUME NEW s \in Seq(Bytes)
    PROVE  /\ Chomp(s) \in Seq(Bytes)
           /\ Len(Chomp(s)) = IF s # <<>> /\ s[Len(s)] = "CR" THEN Len(s) - 1 ELSE Len(s)
           /\ Chomp(s) = <<>> <=> s = <<>> \/ s = <<"CR">>
           /\ Chomp(s) = s <=> s = <<>> \/ s[Len(s)] # "CR"
<1>1. Len(s) \in Nat /\ (s = <<>> <=> Len(s) = 0)
  OBVIOUS
<1>2. CASE s # <<>> /\ s[Len(s)] = "CR"
  <2> DEFINE t == SubSeq(s, 1, Len(s) - 1)
  <2>1. Chomp(s) = t
    BY <1>2 DEF Chomp
  <2>2. t \in Seq(Bytes) /\ Len(t) = Len(s) - 1
    <3>1. PICK n : n = Len(s) - 1
      OBVIOUS
    <3>2. n \in Int /\ n >= 0 /\ \A i \in 1 .. n : s[i] \in Bytes
      BY <1>1, <1>2, <3>1
    <3>3. SubSeq(s, 1, n) \in Seq(Bytes) /\ Len(SubSeq(s, 1, n)) = IF 1 <= n THEN n - 1 + 1 ELSE 0
      BY <3>2, SubSeqProperties
    <3>4. QED
      BY <3>1, <3>2, <3>3
  <2> HIDE DEF t
  <2>3. t = <<>> <=> Len(s) = 1
    <3>1. t = <<>> <=> Len(t) = 0
      BY <2>2
    <3>2. QED
      BY <1>1, <2>2, <3>1
  <2>4. Len(s) = 1 <=> s = <<"CR">>
    BY <1>1, <1>2
  <2>5. t # s
    BY <1>1, <2>2
  <2>6. QED
    BY <1>2, <2>1, <2>2, <2>3, <2>4, <2>5
<1>3. CASE ~(s # <<>> /\ s[Len(s)] = "CR")
  <2>1. Chomp(s) = s
    BY <1>3 DEF Chomp
  <2>2. s = <<"CR">> => Len(s) = 1 /\ s[1] = "CR"
    OBVIOUS
  <2>3. QED
    BY <1>1, <1>3, <2>1, <2>2
<1>4. QED
  BY <1>2, <1>3

(* The limit is on the line without its carriage return.                    *)
LEMMA TooLongMeans ==
    ASSUME NEW c \in Codecs, NEW s \in Seq(Bytes)
    PROVE  TooLong(c, s, Len(s)) <=> c.max_length # NoLimit /\ Len(Chomp(s)) > c.max_length
<1>1. Len(s) \in Nat /\ c.max_length \in Nat /\ (s = <<>> <=> Len(s) = 0)
  BY DEF Codecs
<1>2. QED
  BY <1>1, ChompFacts DEF TooLong

(* Once over the limit, a line stays so whatever follows.                   *)
LEMMA TooLongGrows ==
    ASSUME NEW c \in Codecs, NEW s \in Seq(Bytes), NEW t \in Seq(Bytes),
           NEW j \in Nat, NEW l \in Nat, j <= l, s[j] = t[j], TooLong(c, s, j)
    PROVE  TooLong(c, t, l)
<1>1. c.max_length \in Nat
  BY DEF Codecs
<1>2. QED
  BY <1>1 DEF TooLong

(* The search resumes where the last one ended and misses nothing.          *)
LEMMA SearchFinds ==
    ASSUME NEW c \in Codecs, NEW src \in Seq(Bytes),
           c.next_index <= Len(src), NoLF(src, c.next_index)
    PROVE  /\ Found(c, src) = {} <=> NoLF(src, Len(src))
           /\ Found(c, src) # {} =>
                 LET m == First(Found(c, src)) IN
                 m \in 1 .. Len(src) /\ src[m] = "LF" /\ NoLF(src, m - 1)
<1> DEFINE start == IF c.next_index < Len(src) THEN c.next_index ELSE 0
<1>1. Len(src) \in Nat /\ c.next_index \in Nat
  BY DEF Codecs
<1>2. Found(c, src) = {i \in start + 1 .. Len(src) : src[i] = "LF"}
  BY DEF Found
<1>3. start \in Nat /\ start <= Len(src) /\ NoLF(src, start)
  BY <1>1 DEF NoLF
<1> HIDE DEF start
<1>4. Found(c, src) = {i \in 1 .. Len(src) : src[i] = "LF"}
  BY <1>1, <1>2, <1>3 DEF NoLF
<1>5. Found(c, src) = {} <=> NoLF(src, Len(src))
  BY <1>4 DEF NoLF
<1>6. ASSUME Found(c, src) # {}
      PROVE  LET m == First(Found(c, src)) IN
             m \in 1 .. Len(src) /\ src[m] = "LF" /\ NoLF(src, m - 1)
  <2>1. Found(c, src) \subseteq Nat
    BY <1>1, <1>4
  <2>2. \E m \in Found(c, src) : \A n \in Found(c, src) : m <= n
    BY <1>6, <2>1, LeastElement
  <2>3. PICK m : m = First(Found(c, src))
    OBVIOUS
  <2>4. m \in Found(c, src) /\ \A n \in Found(c, src) : m <= n
    BY <2>2, <2>3 DEF First
  <2>5. m \in 1 .. Len(src) /\ src[m] = "LF"
    BY <1>4, <2>4
  <2>6. ASSUME NEW i \in 1 .. m - 1, src[i] = "LF" PROVE FALSE
    <3>1. i \in Found(c, src)
      BY <1>1, <1>4, <2>5, <2>6
    <3>2. m <= i
      BY <2>4, <3>1
    <3>3. QED
      BY <2>5, <3>2
  <2>7. QED
    BY <2>3, <2>5, <2>6 DEF NoLF
<1>7. QED
  BY <1>5, <1>6

(* A line over the limit, as far as it is there.                            *)
Overrun(c, src) == \E j \in 1 .. Len(src) : NoLF(src, j) /\ TooLong(c, src, j)

(* What decode does, once the search is understood.                         *)
LEMMA DecodeCases ==
    ASSUME NEW c \in Codecs, NEW src \in Seq(Bytes),
           c.next_index <= Len(src), NoLF(src, c.next_index)
    PROVE  \/ /\ src = <<>> /\ ~Overrun(c, src)
              /\ decode(c, src) = Result(None, [c EXCEPT !.next_index = 0], src)
           \/ /\ Overrun(c, src)
              /\ decode(c, src) = Result(Overlong, c, src)
           \/ /\ src # <<>> /\ NoLF(src, Len(src)) /\ ~Overrun(c, src)
              /\ decode(c, src) = Result(None, [c EXCEPT !.next_index = Len(src)], src)
           \/ \E m \in 1 .. Len(src) :
                 /\ src[m] = "LF" /\ NoLF(src, m - 1) /\ ~Overrun(c, src)
                 /\ ~TooLong(c, src, m - 1)
                 /\ decode(c, src) = Result(try_into_utf8(Chomp(SubSeq(src, 1, m - 1))),
                                            [c EXCEPT !.next_index = 0],
                                            SubSeq(src, m + 1, Len(src)))
<1> DEFINE len == IF Found(c, src) = {} THEN Len(src) ELSE First(Found(c, src)) - 1
<1>1. /\ Len(src) \in Nat /\ (src = <<>> <=> Len(src) = 0)
      /\ c.max_length \in Nat
  BY DEF Codecs
<1>2. /\ len \in 0 .. Len(src) /\ NoLF(src, len)
      /\ Found(c, src) = {} <=> len = Len(src)
      /\ Found(c, src) # {} => src[len + 1] = "LF"
  <2>1. CASE Found(c, src) = {}
    BY <1>1, <2>1, SearchFinds
  <2>2. CASE Found(c, src) # {}
    <3>1. PICK m : m = First(Found(c, src))
      OBVIOUS
    <3>2. m \in 1 .. Len(src) /\ src[m] = "LF" /\ NoLF(src, m - 1) /\ len = m - 1
      BY <2>2, <3>1, SearchFinds
    <3> HIDE DEF len
    <3>3. QED
      BY <1>1, <2>2, <3>2
  <2>3. QED
    BY <2>1, <2>2
<1>3. decode(c, src) =
        CASE src = <<>> -> Result(None, [c EXCEPT !.next_index = 0], src)
          [] src # <<>> /\ TooLong(c, src, len) -> Result(Overlong, c, src)
          [] src # <<>> /\ ~TooLong(c, src, len) /\ Found(c, src) = {} ->
                Result(None, [c EXCEPT !.next_index = len], src)
          [] OTHER ->
                Result(try_into_utf8(Chomp(SubSeq(src, 1, len))), [c EXCEPT !.next_index = 0],
                       SubSeq(src, len + 2, Len(src)))
  BY DEF decode
<1> HIDE DEF len
<1>4. ASSUME src # <<>>, ~TooLong(c, src, len) PROVE ~Overrun(c, src)
  <2> SUFFICES ASSUME NEW j \in 1 .. Len(src), NoLF(src, j), TooLong(c, src, j) PROVE FALSE
    BY DEF Overrun
  <2>1. j <= len
    <3> SUFFICES ASSUME j > len PROVE FALSE
      BY <1>1, <1>2
    <3>1. len + 1 \in 1 .. j /\ Found(c, src) # {}
      BY <1>1, <1>2
    <3>2. QED
      BY <1>2, <3>1 DEF NoLF
  <2>2. j \in Nat /\ len \in Nat
    BY <1>2
  <2>3. TooLong(c, src, len)
    BY <2>1, <2>2, TooLongGrows
  <2>4. QED
    BY <1>4, <2>3
<1>5. CASE src = <<>>
  <2>1. ~Overrun(c, src)
    BY <1>5 DEF Overrun
  <2>2. QED
    BY <1>3, <1>5, <2>1
<1>6. CASE src # <<>> /\ TooLong(c, src, len)
  <2>1. len \in 1 .. Len(src)
    BY <1>1, <1>2, <1>6 DEF TooLong
  <2>2. Overrun(c, src)
    BY <1>2, <1>6, <2>1 DEF Overrun
  <2>3. QED
    BY <1>3, <1>6, <2>2
<1>7. CASE src # <<>> /\ ~TooLong(c, src, len) /\ Found(c, src) = {}
  <2>1. len = Len(src)
    BY <1>2, <1>7
  <2>2. decode(c, src) = Result(None, [c EXCEPT !.next_index = Len(src)], src)
    BY <1>3, <1>7, <2>1
  <2>3. QED
    BY <1>2, <1>4, <1>7, <2>1, <2>2
<1>8. CASE src # <<>> /\ ~TooLong(c, src, len) /\ Found(c, src) # {}
  <2>1. decode(c, src) =
          Result(try_into_utf8(Chomp(SubSeq(src, 1, len))), [c EXCEPT !.next_index = 0],
                 SubSeq(src, len + 2, Len(src)))
    BY <1>3, <1>8
  <2>2. PICK m : m = len + 1
    OBVIOUS
  <2>3. m \in 1 .. Len(src) /\ len = m - 1 /\ len + 2 = m + 1
    BY <1>1, <1>2, <1>8, <2>2
  <2>4. QED
    BY <1>2, <1>4, <1>8, <2>1, <2>2, <2>3
<1>9. QED
  BY <1>5, <1>6, <1>7, <1>8

(* What is handed out for a line, and how many lines there are.             *)
LEMMA LineAt ==
    ASSUME input \in Seq(Bytes), lines \in Codecs,
           NEW lo \in Nat, NEW hi \in Nat, IsLine(lo, hi),
           NEW raw, raw = SubSeq(input, lo + 1, hi)
    PROVE  /\ raw \in Seq(Bytes) /\ Len(raw) = hi - lo
           /\ \A i \in 1 .. hi - lo : raw[i] = input[lo + i]
           /\ Line(Nb(lo) + 1) = IF TooLong(lines, raw, Len(raw)) THEN Overlong
                                 ELSE try_into_utf8(Chomp(raw))
           /\ hi # Len(input) => Nb(lo) + 1 <= Count
           /\ hi = Len(input) => Count = IF Chomp(raw) = <<>> THEN Nb(lo) ELSE Nb(lo) + 1
<1>1. /\ Len(input) \in Nat /\ lo <= hi /\ hi <= Len(input)
      /\ \A i \in lo + 1 .. hi : input[i] # "LF"
      /\ hi # Len(input) => input[hi + 1] = "LF"
  BY DEF IsLine
<1>2. lo \in Int /\ hi \in Int /\ hi + 1 \in Int
  OBVIOUS
<1>3. /\ Nb(lo) \in Nat /\ Cardinality(Delimiters) \in Nat
      /\ Nb(Len(input)) = Cardinality(Delimiters)
  BY <1>2, DelimitersFinite
<1>4. raw \in Seq(Bytes) /\ Len(raw) = hi - lo /\ \A i \in 1 .. hi - lo : raw[i] = input[lo + i]
  <2>1. PICK a \in Int : a = lo + 1
    BY <1>2
  <2>2. \A i \in a .. hi : input[i] \in Bytes
    BY <1>1, <2>1
  <2>3. /\ SubSeq(input, a, hi) \in Seq(Bytes)
        /\ Len(SubSeq(input, a, hi)) = IF a <= hi THEN hi - a + 1 ELSE 0
        /\ \A i \in 1 .. hi - a + 1 : SubSeq(input, a, hi)[i] = input[a + i - 1]
    <3>1. a \in Int /\ hi \in Int
      BY <1>2
    <3>2. QED
      BY ONLY <2>2, <3>1, SubSeqProperties
  <2>4. \A i \in 1 .. hi - a + 1 : a + i - 1 = lo + i
    BY <2>1
  <2>5. hi - a + 1 = hi - lo
    BY <2>1
  <2>6. \A i \in 1 .. hi - lo : raw[i] = input[lo + i]
    BY <2>1, <2>3, <2>4, <2>5
  <2>7. raw \in Seq(Bytes) /\ Len(raw) = hi - lo
    BY <1>1, <2>1, <2>3
  <2>8. QED
    BY <2>6, <2>7
<1>5. Raw(Nb(lo) + 1) = raw
  BY RawIsLine
<1>6. TooLong(lines, raw, Len(raw)) <=>
        lines.max_length # NoLimit /\ Len(Chomp(raw)) > lines.max_length
  BY <1>4, TooLongMeans
<1>7. Line(Nb(lo) + 1) = IF TooLong(lines, raw, Len(raw)) THEN Overlong
                         ELSE try_into_utf8(Chomp(raw))
  BY <1>5, <1>6 DEF Line
<1>8. Count >= Cardinality(Delimiters)
  BY <1>3 DEF Count
<1>9. ASSUME hi # Len(input) PROVE Nb(lo) + 1 <= Count
  <2>1. hi < Len(input) /\ input[hi + 1] = "LF"
    BY <1>1, <1>9
  <2>2. Nb(hi + 1) = Nb(lo) + 1
    BY <1>1, <2>1, CountSteps
  <2>3. Nb(hi + 1) <= Nb(Len(input))
    BY <1>1, <1>2, <2>1, CountMonotone
  <2>4. Count \in Nat
    BY <1>3 DEF Count
  <2>5. QED
    BY <1>3, <1>8, <2>2, <2>3, <2>4
<1>10. ASSUME hi = Len(input)
       PROVE  Count = IF Chomp(raw) = <<>> THEN Nb(lo) ELSE Nb(lo) + 1
  <2>1. Nb(hi) = Nb(lo)
    BY <1>1, CountSteps
  <2>2. Cardinality(Delimiters) = Nb(lo)
    BY <1>3, <1>10, <2>1
  <2>3. Raw(Cardinality(Delimiters) + 1) = raw
    BY <1>5, <2>2
  <2>4. Count = Cardinality(Delimiters) + IF Chomp(raw) = <<>> THEN 0 ELSE 1
    BY <2>3 DEF Count
  <2>5. QED
    BY <1>3, <2>2, <2>4
<1>11. QED
  BY <1>4, <1>7, <1>9, <1>10

LEMMA NextLine ==
    ASSUME input \in Seq(Bytes), NEW lo \in 0 .. Len(input), lo # 0 => input[lo] = "LF"
    PROVE  \E hi \in lo .. Len(input) : IsLine(lo, hi)
<1> DEFINE ends == {h \in lo .. Len(input) : h # Len(input) => input[h + 1] = "LF"}
<1>1. Len(input) \in ends /\ ends \subseteq Nat
  OBVIOUS
<1>2. PICK hi \in ends : \A h \in ends : hi <= h
  <2> HIDE DEF ends
  <2>1. QED
    BY <1>1, LeastElement
<1>3. ASSUME NEW i \in lo + 1 .. hi PROVE input[i] # "LF"
  <2> SUFFICES ASSUME input[i] = "LF" PROVE FALSE
    OBVIOUS
  <2>1. i - 1 \in ends
    <3>1. i - 1 \in lo .. Len(input) /\ (i - 1) + 1 = i
      BY <1>2, <1>3
    <3>2. QED
      BY <3>1
  <2>2. hi <= i - 1
    BY <1>2, <2>1
  <2>3. QED
    BY <1>2, <1>3, <2>2
<1>4. QED
  BY <1>2, <1>3 DEF IsLine

-----------------------------------------------------------------------------
(* The inductive invariant of the stream.                                   *)
Frames == {Overlong} \cup [kind : {"line", "utf8"}, line : Seq(Bytes)]

TypeR ==
    /\ flags \subseteq {"EOF", "READABLE"}
    /\ lines \in Codecs
    /\ read_buf \in Seq(Bytes) /\ input \in Seq(Bytes)
    /\ preload \in 0 .. Len(input) /\ taken \in preload .. Len(input)
    /\ results \in Seq(Frames)

(* The bytes that decoded lines and their delimiters made up.               *)
Consumed == taken - Len(read_buf)

(* Between two lines: the buffer is what was read and not consumed, the     *)
(* results are the lines before it, the search index has passed no          *)
(* delimiter, and what stays in the buffer without READABLE is no full line.*)
Regular ==
    /\ Consumed \in 0 .. taken
    /\ \A i \in 1 .. Len(read_buf) : read_buf[i] = input[Consumed + i]
    /\ Consumed # 0 => input[Consumed] = "LF"
    /\ lines.next_index <= Len(read_buf) /\ NoLF(read_buf, lines.next_index)
    /\ Nb(Consumed) = IF Stuck THEN Len(results) - 1 ELSE Len(results)
    /\ Stuck => Overrun(lines, read_buf) /\ "READABLE" \in flags
    /\ "READABLE" \notin flags /\ taken > preload => NoLF(read_buf, Len(read_buf))

(* After the end: everything is handed out, at most a CR stays behind.      *)
Drained ==
    /\ "EOF" \in flags
    /\ read_buf = <<>> \/ read_buf = <<"CR">>
    /\ lines.next_index = 0
    /\ Len(results) = Count

HandedOut ==
    \A k \in DOMAIN results :
        /\ k <= Count /\ results[k] = Line(k)
        /\ results[k] = Overlong => k = Len(results)

StreamInv ==
    /\ TypeR
    /\ "EOF" \in flags => "READABLE" \in flags /\ taken = Len(input)
    /\ item = "pending" /\ at # "next" => "READABLE" \notin flags
    /\ Regular \/ Drained
    /\ item = "end" => Drained
    /\ HandedOut

LEMMA StreamInvImplies == StreamInv => FramesAreLines /\ NoLineHeldBack
<1> SUFFICES ASSUME StreamInv PROVE FramesAreLines /\ NoLineHeldBack
  OBVIOUS
<1>1. FramesAreLines
  BY DEF StreamInv, HandedOut, Drained, FramesAreLines
<1>2. ASSUME at = "idle", item = "pending", taken > preload
      PROVE  Len(results) = Cardinality({d \in Delimiters : d <= taken})
  <2>1. "READABLE" \notin flags /\ Regular
    BY <1>2 DEF StreamInv, Drained
  <2>2. /\ NoLF(read_buf, Len(read_buf)) /\ ~Stuck /\ Nb(Consumed) = Len(results)
        /\ Consumed \in 0 .. taken
        /\ \A i \in 1 .. Len(read_buf) : read_buf[i] = input[Consumed + i]
    BY <1>2, <2>1 DEF Regular
  <2>3. PICK p \in Nat, q \in Nat : p = Consumed /\ q = taken
    BY <2>2 DEF StreamInv, TypeR
  <2>4. input \in Seq(Bytes) /\ q <= Len(input) /\ Len(read_buf) \in Nat /\ Len(read_buf) = q - p
    BY <2>3 DEF StreamInv, TypeR, Consumed
  <2>5. ASSUME NEW i \in p + 1 .. q PROVE input[i] # "LF"
    <3>1. i - p \in 1 .. Len(read_buf) /\ p + (i - p) = i
      BY <2>4
    <3>2. QED
      BY <2>2, <2>3, <3>1 DEF NoLF
  <2>6. Nb(q) = Nb(p)
    BY <2>2, <2>3, <2>4, <2>5, CountSteps
  <2>7. QED
    BY <2>2, <2>3, <2>6 DEF Nb
<1>3. QED
  BY <1>1, <1>2 DEF NoLineHeldBack

LEMMA StreamInit == Init => StreamInv
<1> SUFFICES ASSUME Init PROVE StreamInv
  OBVIOUS
<1>1. /\ flags = {} /\ results = <<>> /\ item = "none"
      /\ preload \in 0 .. Len(input) /\ taken = preload
      /\ read_buf = SubSeq(input, 1, preload)
  BY DEF Init
<1>2. input \in Seq(Bytes)
  <2>1. PICK n \in 0 .. MaxInput : input \in [1 .. n -> Bytes]
    BY DEF Init
  <2>2. n \in Nat
    BY FramedAssumption
  <2>3. QED
    BY <2>1, <2>2, SeqDef
<1>3. /\ read_buf \in Seq(Bytes) /\ Len(read_buf) = preload
      /\ \A i \in 1 .. preload : read_buf[i] = input[i]
  <2>1. preload \in Int /\ preload >= 0 /\ \A i \in 1 .. preload : input[i] \in Bytes
    BY <1>1, <1>2
  <2>2. /\ SubSeq(input, 1, preload) \in Seq(Bytes)
        /\ Len(SubSeq(input, 1, preload)) = IF 1 <= preload THEN preload - 1 + 1 ELSE 0
        /\ \A i \in 1 .. preload - 1 + 1 : SubSeq(input, 1, preload)[i] = input[1 + i - 1]
    BY <2>1, SubSeqProperties
  <2>3. QED
    BY <1>1, <2>1, <2>2
<1>4. lines \in Codecs /\ lines.next_index = 0
  BY FramedAssumption DEF Init, codec, Codecs
<1>5. TypeR
  BY <1>1, <1>2, <1>3, <1>4 DEF TypeR
<1>6. Consumed = 0 /\ ~Stuck /\ Len(results) = 0
  BY <1>1, <1>3 DEF Consumed, Stuck
<1>7. Nb(0) = 0
  <2>1. {d \in Delimiters : d <= 0} = {}
    BY <1>2 DEF Delimiters
  <2>2. QED
    BY <2>1, FS_EmptySet DEF Nb
<1>8. Regular
  BY <1>1, <1>3, <1>4, <1>6, <1>7 DEF Regular, NoLF
<1>9. HandedOut
  BY <1>1 DEF HandedOut
<1>10. QED
  BY <1>1, <1>5, <1>8, <1>9 DEF StreamInv

(* What a line is does not change: the input and the limit stay.            *)
LEMMA MeaningKept ==
    ASSUME input' = input, lines.max_length' = lines.max_length
    PROVE  /\ Count' = Count
           /\ \A k : Line(k)' = Line(k)
           /\ \A p : Nb(p)' = Nb(p)
<1>1. Delimiters' = Delimiters
  BY DEF Delimiters
<1>2. ASSUME NEW p PROVE Nb(p)' = Nb(p)
  BY <1>1 DEF Nb
<1>3. ASSUME NEW k PROVE Raw(k)' = Raw(k)
  BY <1>1 DEF Raw
<1>4. Count' = Count
  <2>1. Raw(Cardinality(Delimiters) + 1)' = Raw(Cardinality(Delimiters) + 1)
    BY <1>1 DEF Raw
  <2>2. QED
    BY <1>1, <2>1 DEF Count
<1>5. ASSUME NEW k PROVE Line(k)' = Line(k)
  BY <1>3 DEF Line
<1>6. QED
  BY <1>2, <1>4, <1>5

(* Calls of the sink, and a rebuilt Framed, leave the stream where it was.  *)
LEMMA StreamKept ==
    ASSUME StreamInv, UNCHANGED <<flags, read_buf, input, preload, taken, results>>,
           lines' \in Codecs, lines'.max_length = lines.max_length,
           lines'.next_index \in {0, lines.next_index},
           item' = "end" => Drained,
           item' = "pending" /\ at' # "next" => "READABLE" \notin flags
    PROVE  StreamInv'
<1>1. /\ Count' = Count /\ (\A k : Line(k)' = Line(k)) /\ (\A p : Nb(p)' = Nb(p))
  BY MeaningKept
<1>2. Consumed' = Consumed /\ (Stuck <=> Stuck')
  BY DEF Consumed, Stuck
<1>3. TypeR'
  BY DEF StreamInv, TypeR
<1>4. HandedOut'
  BY <1>1 DEF StreamInv, HandedOut
<1>5. Drained => Drained'
  BY <1>1 DEF Drained
<1>6. ASSUME Regular PROVE Regular'
  <2>1. Overrun(lines, read_buf) => Overrun(lines, read_buf)'
    BY DEF Overrun, TooLong
  <2>2. PICK p : p = Consumed
    OBVIOUS
  <2>3. Nb(Consumed)' = Nb(Consumed)
    <3>1. Nb(p)' = Nb(p)
      BY <1>1
    <3>2. QED
      BY <3>1, <2>2, <1>2 DEF Nb
  <2>4. lines'.next_index <= Len(read_buf') /\ NoLF(read_buf', lines'.next_index)
    <3>1. Len(read_buf) >= 0
      BY DEF StreamInv, TypeR
    <3>2. QED
      BY <1>6, <3>1 DEF Regular, NoLF
  <2>5. QED
    BY <1>2, <1>6, <2>1, <2>3, <2>4 DEF Regular, NoLF
<1>7. QED
  BY <1>3, <1>4, <1>5, <1>6 DEF StreamInv

(* A read appends to the buffer: what is consumed stays the same.           *)
LEMMA StreamReads == StreamInv /\ ReadSome => StreamInv'
<1> SUFFICES ASSUME StreamInv, ReadSome PROVE StreamInv'
  OBVIOUS
<1>1. PICK n \in 1 .. Len(input) - taken :
        /\ read_buf' = read_buf \o SubSeq(input, taken + 1, taken + n)
        /\ taken' = taken + n
  BY DEF ReadSome
<1>2. /\ flags' = flags \cup {"READABLE"} /\ "READABLE" \notin flags /\ at = "next"
      /\ UNCHANGED <<lines, at, item, input, preload, results>>
  BY DEF ReadSome, Reading
<1>3. /\ flags \subseteq {"EOF", "READABLE"} /\ lines \in Codecs
      /\ read_buf \in Seq(Bytes) /\ input \in Seq(Bytes)
      /\ preload \in 0 .. Len(input) /\ taken \in preload .. Len(input)
      /\ results \in Seq(Frames)
      /\ Len(read_buf) \in Nat /\ Len(input) \in Nat /\ taken \in Nat /\ n \in Nat
      /\ taken + n <= Len(input)
  BY <1>1 DEF StreamInv, TypeR
<1>4. Regular /\ "EOF" \notin flags /\ item # "end"
  BY <1>2 DEF StreamInv, Drained
<1> DEFINE more == SubSeq(input, taken + 1, taken + n)
<1>5. more \in Seq(Bytes) /\ Len(more) = n /\ \A i \in 1 .. n : more[i] = input[taken + i]
  <2>1. PICK a \in Int, b \in Int : a = taken + 1 /\ b = taken + n
    BY <1>3
  <2>2. a <= b + 1 /\ \A i \in a .. b : input[i] \in Bytes
    BY <1>3, <2>1
  <2>3. /\ SubSeq(input, a, b) \in Seq(Bytes)
        /\ Len(SubSeq(input, a, b)) = IF a <= b THEN b - a + 1 ELSE 0
        /\ \A i \in 1 .. b - a + 1 : SubSeq(input, a, b)[i] = input[a + i - 1]
    BY <2>2, SubSeqProperties
  <2>4. b - a + 1 = n /\ \A i \in 1 .. n : a + i - 1 = taken + i
    BY <1>3, <2>1
  <2>5. QED
    BY <1>3, <2>1, <2>2, <2>3, <2>4
<1> HIDE DEF more
<1>6. /\ read_buf' \in Seq(Bytes) /\ Len(read_buf') = Len(read_buf) + n
      /\ \A i \in 1 .. Len(read_buf) + n :
            read_buf'[i] = IF i <= Len(read_buf) THEN read_buf[i] ELSE more[i - Len(read_buf)]
  <2>1. read_buf' = read_buf \o more
    BY <1>1 DEF more
  <2>2. QED
    BY <1>3, <1>5, <2>1, ConcatProperties
<1>7. Consumed' = Consumed /\ Consumed \in 0 .. taken /\ taken = Consumed + Len(read_buf)
  BY <1>1, <1>3, <1>4, <1>6 DEF Consumed, Regular
<1>8. ASSUME NEW i \in 1 .. Len(read_buf') PROVE read_buf'[i] = input'[Consumed' + i]
  <2>1. CASE i <= Len(read_buf)
    <3>1. i \in 1 .. Len(read_buf) /\ read_buf'[i] = read_buf[i]
      BY <1>3, <1>6, <2>1
    <3>2. read_buf[i] = input[Consumed + i]
      BY <1>4, <3>1 DEF Regular
    <3>3. QED
      BY <1>2, <1>7, <3>1, <3>2
  <2>2. CASE i > Len(read_buf)
    <3>1. i - Len(read_buf) \in 1 .. n /\ taken + (i - Len(read_buf)) = Consumed + i
      BY <1>3, <1>6, <1>7, <2>2
    <3>2. QED
      BY <1>2, <1>3, <1>5, <1>6, <1>7, <2>2, <3>1
  <2>3. QED
    BY <1>3, <1>6, <2>1, <2>2
<1>9. /\ Count' = Count /\ (\A k : Line(k)' = Line(k)) /\ (\A p : Nb(p)' = Nb(p))
  BY <1>2, MeaningKept
<1>10. Nb(Consumed)' = Nb(Consumed) /\ (Stuck <=> Stuck')
  <2>1. PICK p : p = Consumed
    OBVIOUS
  <2>2. Nb(p)' = Nb(p)
    BY <1>9
  <2>3. QED
    BY <1>2, <1>7, <2>1, <2>2 DEF Nb, Stuck
<1>11. ~Stuck
  BY <1>2, <1>4 DEF Regular
<1>12. NoLF(read_buf', lines'.next_index) /\ lines'.next_index <= Len(read_buf')
  <2>1. lines.next_index \in Nat /\ lines.next_index <= Len(read_buf)
        /\ NoLF(read_buf, lines.next_index)
    BY <1>3, <1>4 DEF Regular, Codecs
  <2>2. PICK x \in Nat : x = lines.next_index
    BY <2>1
  <2>3. ASSUME NEW i \in 1 .. x PROVE read_buf'[i] # "LF"
    <3>1. i \in 1 .. Len(read_buf) /\ read_buf'[i] = read_buf[i]
      BY <1>3, <1>6, <2>1, <2>2
    <3>2. QED
      BY <2>1, <2>2, <3>1 DEF NoLF
  <2>4. QED
    BY <1>2, <1>3, <1>6, <2>1, <2>2, <2>3 DEF NoLF
<1>13. Regular'
  <2>1. Consumed' \in 0 .. taken'
    BY <1>1, <1>3, <1>7
  <2>2. Consumed' # 0 => input'[Consumed'] = "LF"
    BY <1>2, <1>4, <1>7 DEF Regular
  <2>3. Nb(Consumed)' = IF Stuck' THEN Len(results') - 1 ELSE Len(results')
    BY <1>2, <1>4, <1>10, <1>11 DEF Regular
  <2>4. "READABLE" \in flags'
    BY <1>2
  <2>5. QED
    BY <1>8, <1>10, <1>11, <1>12, <2>1, <2>2, <2>3, <2>4 DEF Regular
<1>14. TypeR'
  BY <1>1, <1>2, <1>3, <1>6 DEF TypeR
<1>15. HandedOut'
  BY <1>2, <1>9 DEF StreamInv, HandedOut
<1>16. QED
  BY <1>2, <1>4, <1>13, <1>14, <1>15 DEF StreamInv

(* The buffer between two lines: where its first line is in the input.      *)
LEMMA BufferHolds ==
    ASSUME StreamInv, Regular
    PROVE  \E lo \in Nat, hi \in Nat :
              /\ lo = Consumed /\ IsLine(lo, hi) /\ taken = lo + Len(read_buf)
              /\ \A j \in 0 .. Len(read_buf) : NoLF(read_buf, j) => lo + j <= hi
              /\ \A m \in 1 .. Len(read_buf) :
                    read_buf[m] = "LF" /\ NoLF(read_buf, m - 1) => hi = lo + m - 1
<1>1. /\ read_buf \in Seq(Bytes) /\ input \in Seq(Bytes)
      /\ Len(read_buf) \in Nat /\ Len(input) \in Nat /\ taken \in Nat /\ taken <= Len(input)
  BY DEF StreamInv, TypeR
<1>2. PICK lo \in Nat : lo = Consumed
  BY DEF Regular
<1>3. /\ lo <= taken /\ taken = lo + Len(read_buf)
      /\ \A i \in 1 .. Len(read_buf) : read_buf[i] = input[lo + i]
      /\ lo # 0 => input[lo] = "LF"
  BY <1>1, <1>2 DEF Regular, Consumed
<1>4. PICK hi \in lo .. Len(input) : IsLine(lo, hi)
  <2>1. lo \in 0 .. Len(input)
    BY <1>1, <1>3
  <2>2. QED
    BY <1>1, <1>3, <2>1, NextLine
<1>5. /\ hi \in Nat /\ lo <= hi /\ hi <= Len(input)
      /\ \A i \in lo + 1 .. hi : input[i] # "LF"
      /\ hi # Len(input) => input[hi + 1] = "LF"
  BY <1>4 DEF IsLine
<1>6. ASSUME NEW j \in 0 .. Len(read_buf), NoLF(read_buf, j) PROVE lo + j <= hi
  <2> SUFFICES ASSUME lo + j > hi PROVE FALSE
    BY <1>5
  <2>1. hi # Len(input) /\ hi + 1 - lo \in 1 .. j /\ lo + (hi + 1 - lo) = hi + 1
    BY <1>1, <1>3, <1>5
  <2>2. read_buf[hi + 1 - lo] = input[hi + 1]
    BY <1>1, <1>3, <2>1
  <2>3. QED
    BY <1>5, <1>6, <2>1, <2>2 DEF NoLF
<1>7. ASSUME NEW m \in 1 .. Len(read_buf), read_buf[m] = "LF", NoLF(read_buf, m - 1)
      PROVE  hi = lo + m - 1
  <2>1. lo + (m - 1) <= hi
    BY <1>6, <1>7
  <2>2. input[lo + m] = "LF"
    BY <1>3, <1>7
  <2>3. ~(lo + m <= hi)
    <3> SUFFICES ASSUME lo + m <= hi PROVE FALSE
      OBVIOUS
    <3>1. lo + m \in lo + 1 .. hi
      BY <1>5
    <3>2. QED
      BY <1>5, <2>2, <3>1
  <2>4. QED
    BY <1>5, <2>1, <2>3
<1>8. QED
  BY <1>2, <1>3, <1>4, <1>5, <1>6, <1>7

(* A line that is too long already is so when it is complete.               *)
LEMMA OverrunIsOverlong ==
    ASSUME StreamInv, Regular, Overrun(lines, read_buf), NEW k, k = Nb(Consumed) + 1
    PROVE  Line(k) = Overlong /\ k <= Count /\ k \in Nat
<1>1. PICK lo \in Nat, hi \in Nat :
        /\ lo = Consumed /\ IsLine(lo, hi)
        /\ \A j \in 0 .. Len(read_buf) : NoLF(read_buf, j) => lo + j <= hi
  BY BufferHolds
<1>2. /\ read_buf \in Seq(Bytes) /\ input \in Seq(Bytes) /\ lines \in Codecs
      /\ \A i \in 1 .. Len(read_buf) : read_buf[i] = input[lo + i]
      /\ lo <= hi
  BY <1>1 DEF StreamInv, TypeR, Regular, IsLine
<1>3. PICK j \in 1 .. Len(read_buf) : NoLF(read_buf, j) /\ TooLong(lines, read_buf, j)
  BY DEF Overrun
<1>4. PICK raw : raw = SubSeq(input, lo + 1, hi)
  OBVIOUS
<1>5. /\ raw \in Seq(Bytes) /\ Len(raw) = hi - lo
      /\ \A i \in 1 .. hi - lo : raw[i] = input[lo + i]
      /\ Line(Nb(lo) + 1) = IF TooLong(lines, raw, Len(raw)) THEN Overlong
                            ELSE try_into_utf8(Chomp(raw))
      /\ hi # Len(input) => Nb(lo) + 1 <= Count
      /\ hi = Len(input) => Count = IF Chomp(raw) = <<>> THEN Nb(lo) ELSE Nb(lo) + 1
  <2>1. IsLine(lo, hi) /\ input \in Seq(Bytes) /\ lines \in Codecs
    BY <1>1, <1>2
  <2>2. QED
    BY <2>1, <1>4, LineAt
<1>6. j \in Nat /\ 1 <= j /\ j <= hi - lo
  <2>1. j \in 0 .. Len(read_buf) /\ j \in Nat
    BY <1>3
  <2>2. lo + j <= hi
    BY <1>1, <1>3, <2>1
  <2>3. QED
    BY <1>2, <2>1, <2>2
<1>7. read_buf[j] = raw[j]
  BY <1>2, <1>5, <1>6
<1>8. hi - lo \in Nat
  BY <1>2
<1>9. TooLong(lines, raw, Len(raw))
  BY <1>2, <1>3, <1>5, <1>6, <1>7, <1>8, TooLongGrows
<1>10. Chomp(raw) # <<>>
  <2>1. Len(Chomp(raw)) > lines.max_length /\ lines.max_length \in Nat
    BY <1>2, <1>5, <1>9, TooLongMeans DEF Codecs
  <2>2. QED
    BY <2>1
<1>11. Nb(lo) \in Nat
  <2>1. lo \in Int
    OBVIOUS
  <2>2. QED
    BY <1>2, <2>1, DelimitersFinite
<1>12. Nb(lo) + 1 <= Count
  BY <1>5, <1>10, <1>11
<1>13. k = Nb(lo) + 1
  BY <1>1
<1>14. QED
  BY <1>5, <1>9, <1>11, <1>12, <1>13

(* The first k results are lines and one more is handed out.                *)
LEMMA OneMore ==
    ASSUME StreamInv, ~Stuck, NEW out \in Frames, HandOut(out),
           input' = input, lines'.max_length = lines.max_length,
           NEW k, k = Len(results) + 1, k <= Count, out = Line(k)
    PROVE  /\ results' \in Seq(Frames) /\ Len(results') = k
           /\ HandedOut'
           /\ Stuck' <=> out = Overlong
<1>1. results \in Seq(Frames) /\ Len(results) \in Nat /\ k \in Nat
  BY DEF StreamInv, TypeR
<1>2. results' = Append(results, out)
  BY DEF HandOut, Stuck
<1>3. /\ results' \in Seq(Frames) /\ Len(results') = k /\ results' # <<>>
      /\ DOMAIN results' = 1 .. k
      /\ results'[k] = out
      /\ \A i \in 1 .. Len(results) : results'[i] = results[i]
  BY <1>1, <1>2, AppendProperties
<1>4. Count' = Count /\ (\A i : Line(i)' = Line(i))
  BY MeaningKept
<1>5. ASSUME NEW i \in 1 .. Len(results) PROVE results[i] # Overlong /\ i <= Count /\ results[i] = Line(i)
  <2>1. i \in DOMAIN results
    BY <1>1
  <2>2. /\ i <= Count /\ results[i] = Line(i)
        /\ results[i] = Overlong => i = Len(results)
    BY <2>1 DEF StreamInv, HandedOut
  <2>3. i = Len(results) => results[i] # Overlong
    <3>1. i = Len(results) => results # <<>>
      BY <1>1
    <3>2. QED
      BY <3>1 DEF Stuck
  <2>4. QED
    BY <2>2, <2>3
<1>6. ASSUME NEW i \in DOMAIN results'
      PROVE  /\ i <= Count' /\ results'[i] = Line(i)'
             /\ results'[i] = Overlong => i = Len(results')
  <2>1. CASE i = k
    BY <1>3, <1>4, <2>1
  <2>2. CASE i # k
    <3>1. i \in 1 .. Len(results)
      BY <1>1, <1>3, <2>2
    <3>2. QED
      BY <1>3, <1>4, <1>5, <3>1
  <2>3. QED
    BY <2>1, <2>2
<1>7. Stuck' <=> out = Overlong
  BY <1>3 DEF Stuck
<1>8. QED
  BY <1>3, <1>6, <1>7 DEF HandedOut

(* What next_item does with what the codec answered.                        *)
LEMMA DecodeAnswers ==
    ASSUME Decode, NEW d,
           d = IF "EOF" \in flags THEN decode_eof(lines, read_buf) ELSE decode(lines, read_buf)
    PROVE  /\ at = "next" /\ "READABLE" \in flags
           /\ lines' = d.codec /\ read_buf' = d.src
           /\ UNCHANGED <<input, preload, taken>>
           /\ d.out # None =>
                 /\ HandOut(d.out) /\ UNCHANGED flags /\ item' \in {"ok", "err"} /\ at' = "idle"
           /\ d.out = None /\ "EOF" \in flags =>
                 /\ item' = "end" /\ at' = "idle" /\ UNCHANGED <<flags, results>>
           /\ d.out = None /\ "EOF" \notin flags =>
                 /\ flags' = flags \ {"READABLE"} /\ UNCHANGED <<at, item, results>>
BY DEF Decode, Returns, NeedMore

LEMMA DecodesOverlong == StreamInv /\ Regular /\ Overrun(lines, read_buf) /\ Decode => StreamInv'
<1> SUFFICES ASSUME StreamInv, Regular, Overrun(lines, read_buf), Decode PROVE StreamInv'
  OBVIOUS
<1>1. /\ lines \in Codecs /\ read_buf \in Seq(Bytes) /\ Len(read_buf) \in Nat
      /\ input \in Seq(Bytes)
      /\ lines.next_index <= Len(read_buf) /\ NoLF(read_buf, lines.next_index)
  BY DEF StreamInv, TypeR, Regular
<1>2. decode(lines, read_buf) = Result(Overlong, lines, read_buf)
  BY <1>1, DecodeCases
<1>3. Overlong # None
  BY DEF Overlong, None
<1>4. decode_eof(lines, read_buf) = Result(Overlong, lines, read_buf)
  BY <1>2, <1>3 DEF decode_eof, Result
<1> DEFINE d == Result(Overlong, lines, read_buf)
<1>5. d.out = Overlong /\ d.codec = lines /\ d.src = read_buf
  BY DEF Result
<1>6. d = IF "EOF" \in flags THEN decode_eof(lines, read_buf) ELSE decode(lines, read_buf)
  BY <1>2, <1>4
<1> HIDE DEF d
<1>7. /\ "READABLE" \in flags
      /\ UNCHANGED <<lines, read_buf, input, preload, taken, flags>>
      /\ HandOut(Overlong) /\ item' \in {"ok", "err"}
  BY <1>3, <1>5, <1>6, DecodeAnswers
<1>8. CASE Stuck
  <2>1. results' = results
    BY <1>7, <1>8 DEF HandOut, Stuck
  <2>2. lines'.next_index \in {0, lines.next_index} /\ lines'.max_length = lines.max_length
        /\ lines' \in Codecs
    BY <1>1, <1>7
  <2>3. QED
    BY <1>7, <2>1, <2>2, StreamKept
<1>9. CASE ~Stuck
  <2>1. PICK k : k = Nb(Consumed) + 1
    OBVIOUS
  <2>2. k = Len(results) + 1
    BY <1>9, <2>1 DEF Regular
  <2>3. Line(k) = Overlong /\ k <= Count /\ k \in Nat
    BY <2>1, OverrunIsOverlong
  <2>4. Overlong \in Frames
    BY DEF Frames
  <2>5. /\ results' \in Seq(Frames) /\ Len(results') = k
        /\ HandedOut' /\ Stuck'
    BY <1>7, <1>9, <2>2, <2>3, <2>4, OneMore
  <2>6. Consumed' = Consumed /\ Len(results') - 1 = Len(results)
    <3>1. Len(results) \in Nat
      BY DEF StreamInv, TypeR
    <3>2. QED
      BY <1>7, <2>2, <2>5, <3>1 DEF Consumed
  <2>7. Nb(Consumed)' = Nb(Consumed)
    BY <1>7, <2>6 DEF Nb, Delimiters
  <2>8. Overrun(lines, read_buf)'
    BY <1>7 DEF Overrun, NoLF, TooLong
  <2>9. Regular'
    BY <1>7, <1>9, <2>5, <2>6, <2>7, <2>8 DEF Regular, NoLF
  <2>10. TypeR'
    BY <1>7, <2>5 DEF StreamInv, TypeR
  <2>11. QED
    BY <1>7, <2>5, <2>9, <2>10 DEF StreamInv
<1>10. QED
  BY <1>8, <1>9

(* A delimiter at m: the line before it is handed out and consumed.         *)
LEMMA DecodesLine ==
    ASSUME StreamInv, Regular, Decode, ~Overrun(lines, read_buf),
           NEW m \in 1 .. Len(read_buf), read_buf[m] = "LF", NoLF(read_buf, m - 1),
           ~TooLong(lines, read_buf, m - 1),
           decode(lines, read_buf) = Result(try_into_utf8(Chomp(SubSeq(read_buf, 1, m - 1))),
                                            [lines EXCEPT !.next_index = 0],
                                            SubSeq(read_buf, m + 1, Len(read_buf)))
    PROVE  StreamInv'
<1>1. /\ lines \in Codecs /\ read_buf \in Seq(Bytes) /\ Len(read_buf) \in Nat
      /\ input \in Seq(Bytes) /\ Len(input) \in Nat /\ taken \in Nat /\ taken <= Len(input)
      /\ m \in Nat /\ 1 <= m /\ m <= Len(read_buf)
  BY DEF StreamInv, TypeR
<1>2. PICK lo \in Nat, hi \in Nat :
        /\ lo = Consumed /\ IsLine(lo, hi) /\ taken = lo + Len(read_buf)
        /\ hi = lo + m - 1
  BY BufferHolds
<1>3. PICK raw : raw = SubSeq(input, lo + 1, hi)
  OBVIOUS
<1>4. /\ raw \in Seq(Bytes) /\ Len(raw) = m - 1
      /\ \A i \in 1 .. m - 1 : raw[i] = input[lo + i]
      /\ Line(Nb(lo) + 1) = IF TooLong(lines, raw, Len(raw)) THEN Overlong
                            ELSE try_into_utf8(Chomp(raw))
      /\ hi # Len(input) => Nb(lo) + 1 <= Count
  <2>1. IsLine(lo, hi) /\ input \in Seq(Bytes) /\ lines \in Codecs
    BY <1>1, <1>2
  <2>2. hi - lo = m - 1
    BY <1>1, <1>2
  <2>3. /\ raw \in Seq(Bytes) /\ Len(raw) = hi - lo
        /\ \A i \in 1 .. hi - lo : raw[i] = input[lo + i]
        /\ Line(Nb(lo) + 1) = IF TooLong(lines, raw, Len(raw)) THEN Overlong
                              ELSE try_into_utf8(Chomp(raw))
        /\ hi # Len(input) => Nb(lo) + 1 <= Count
    BY <2>1, <1>3, LineAt
  <2>4. QED
    BY <2>2, <2>3
<1>5. \A i \in 1 .. Len(read_buf) : read_buf[i] = input[lo + i]
  BY <1>2 DEF Regular
<1>6. raw = SubSeq(read_buf, 1, m - 1)
  <2>1. PICK n \in Nat : n = m - 1
    BY <1>1
  <2>2. 1 <= n + 1 /\ n <= Len(read_buf) /\ n - 1 + 1 = n /\ 1 \in Nat
    BY <1>1, <2>1
  <2>3. /\ SubSeq(read_buf, 1, n) \in Seq(Bytes)
        /\ Len(SubSeq(read_buf, 1, n)) = n - 1 + 1
        /\ \A i \in 1 .. n - 1 + 1 : SubSeq(read_buf, 1, n)[i] = read_buf[1 - 1 + i]
    BY <1>1, <2>2, SubSeqOfBytes
  <2>4. Len(SubSeq(read_buf, 1, n)) = Len(raw)
    BY <1>4, <2>1, <2>2, <2>3
  <2>5. ASSUME NEW i \in 1 .. Len(raw) PROVE raw[i] = SubSeq(read_buf, 1, n)[i]
    <3>1. i \in 1 .. n - 1 + 1 /\ i \in 1 .. Len(read_buf) /\ 1 - 1 + i = i /\ i \in 1 .. m - 1
      BY <1>1, <1>4, <2>1
    <3>2. QED
      BY <1>4, <1>5, <2>3, <3>1
  <2>6. raw = SubSeq(read_buf, 1, n)
    BY <1>4, <2>3, <2>4, <2>5, SeqEqual
  <2>7. QED
    BY <2>1, <2>6
<1>7. ~TooLong(lines, raw, Len(raw))
  <2>1. CASE m - 1 = 0
    <3>1. lines.max_length \in Nat
      BY <1>1 DEF Codecs
    <3>2. QED
      BY <1>4, <2>1, <3>1 DEF TooLong
  <2>2. CASE m - 1 # 0
    <3>1. m - 1 \in 1 .. m - 1 /\ m - 1 \in 1 .. Len(read_buf)
      BY <1>1, <2>2
    <3>2. raw[m - 1] = read_buf[m - 1]
      BY <1>4, <1>5, <3>1
    <3>3. QED
      BY <1>4, <3>2 DEF TooLong
  <2>3. QED
    BY <2>1, <2>2
<1> DEFINE out == try_into_utf8(Chomp(raw))
           rest == SubSeq(read_buf, m + 1, Len(read_buf))
           fresh == [lines EXCEPT !.next_index = 0]
           d == Result(out, fresh, rest)
<1>8. out \in Frames /\ out # None /\ out # Overlong
  <2>1. Chomp(raw) \in Seq(Bytes)
    BY <1>4, ChompFacts
  <2>2. QED
    BY <2>1 DEF Frames, try_into_utf8, None, Overlong
<1> HIDE DEF out
<1>9. decode(lines, read_buf) = d
  BY <1>6 DEF out
<1>10. d.out = out /\ d.codec = fresh /\ d.src = rest
  BY DEF Result
<1>11. decode_eof(lines, read_buf) = d
  <2> HIDE DEF d
  <2>1. QED
    BY <1>8, <1>9, <1>10 DEF decode_eof
<1> HIDE DEF d
<1>12. /\ "READABLE" \in flags /\ lines' = fresh /\ read_buf' = rest
       /\ UNCHANGED <<input, preload, taken, flags>>
       /\ HandOut(out) /\ item' \in {"ok", "err"}
  BY <1>8, <1>9, <1>10, <1>11, DecodeAnswers
<1>13. ~Stuck
  BY DEF Regular
<1>14. fresh \in Codecs /\ fresh.max_length = lines.max_length /\ fresh.next_index = 0
  BY <1>1 DEF Codecs
<1>15. /\ rest \in Seq(Bytes) /\ Len(rest) = Len(read_buf) - m
       /\ \A i \in 1 .. Len(read_buf) - m : rest[i] = read_buf[m + i]
  <2>1. PICK a \in Nat, b \in Nat : a = m + 1 /\ b = Len(read_buf)
    BY <1>1
  <2>2. 1 <= a /\ a <= b + 1 /\ b <= Len(read_buf)
    BY <1>1, <2>1
  <2>3. /\ SubSeq(read_buf, a, b) \in Seq(Bytes)
        /\ Len(SubSeq(read_buf, a, b)) = b - a + 1
        /\ \A i \in 1 .. b - a + 1 : SubSeq(read_buf, a, b)[i] = read_buf[a - 1 + i]
    BY <1>1, <2>2, SubSeqOfBytes
  <2>4. b - a + 1 = Len(read_buf) - m /\ a - 1 = m
    BY <1>1, <2>1
  <2>5. QED
    BY <2>1, <2>3, <2>4
<1> HIDE DEF rest, fresh
<1>16. PICK k : k = Nb(lo) + 1
  OBVIOUS
<1>17. /\ k = Len(results) + 1 /\ k <= Count /\ out = Line(k)
  <2>1. hi # Len(input)
    BY <1>1, <1>2
  <2>2. Nb(lo) = Len(results)
    BY <1>2, <1>13 DEF Regular
  <2>3. QED
    BY <1>4, <1>7, <1>16, <2>1, <2>2 DEF out
<1>18. results' \in Seq(Frames) /\ Len(results') = k /\ HandedOut' /\ ~Stuck'
  BY <1>8, <1>12, <1>13, <1>14, <1>17, OneMore
<1>19. Consumed' = lo + m
  BY <1>1, <1>2, <1>12, <1>15 DEF Consumed
<1>20. Nb(Consumed)' = k
  <2>1. /\ lo \in Nat /\ hi \in Nat /\ lo <= hi /\ hi <= Len(input) /\ hi < Len(input)
        /\ input[hi + 1] = "LF"
        /\ \A i \in lo + 1 .. hi : input[i] # "LF"
    BY <1>1, <1>2 DEF IsLine
  <2>2. Nb(hi + 1) = Nb(lo) + 1
    BY <1>1, <2>1, CountSteps
  <2>3. hi + 1 = lo + m
    BY <1>1, <1>2
  <2>4. QED
    BY <1>12, <1>16, <1>19, <2>2, <2>3 DEF Nb, Delimiters
<1>21. Regular'
  <2>1. Consumed' \in 0 .. taken'
    BY <1>1, <1>2, <1>12, <1>19
  <2>2. ASSUME NEW i \in 1 .. Len(read_buf') PROVE read_buf'[i] = input'[Consumed' + i]
    <3>1. i \in 1 .. Len(read_buf) - m /\ m + i \in 1 .. Len(read_buf)
          /\ lo + (m + i) = (lo + m) + i
      <4>1. Len(read_buf') = Len(read_buf) - m
        BY <1>12, <1>15
      <4>2. i \in Nat /\ 1 <= i /\ i <= Len(read_buf) - m
        BY <1>1, <2>2, <4>1
      <4>3. PICK l \in Nat : l = Len(read_buf)
        BY <1>1
      <4>4. m \in Nat /\ 1 <= m /\ lo \in Nat /\ i <= l - m
        BY <1>1, <1>2, <4>2, <4>3
      <4>5. i \in 1 .. l - m /\ m + i \in 1 .. l /\ lo + (m + i) = (lo + m) + i
        BY <4>2, <4>3, <4>4
      <4>6. QED
        BY <4>3, <4>5
    <3>2. rest[i] = read_buf[m + i] /\ read_buf[m + i] = input[lo + (m + i)]
      BY <1>5, <1>15, <3>1
    <3>3. QED
      BY <1>12, <1>19, <3>1, <3>2
  <2>3. input'[Consumed'] = "LF"
    BY <1>1, <1>5, <1>12, <1>19
  <2>4. lines'.next_index = 0 /\ Len(read_buf') >= 0
    BY <1>1, <1>12, <1>14, <1>15
  <2>5. QED
    BY <1>12, <1>18, <1>20, <2>1, <2>2, <2>3, <2>4 DEF Regular, NoLF
<1>22. TypeR'
  BY <1>12, <1>14, <1>15, <1>18 DEF StreamInv, TypeR
<1>23. QED
  BY <1>12, <1>18, <1>21, <1>22 DEF StreamInv

(* No full line, and more may come: READABLE is taken back.                 *)
LEMMA DecodesNothing ==
    ASSUME StreamInv, Regular, Decode, ~Overrun(lines, read_buf), "EOF" \notin flags,
           NoLF(read_buf, Len(read_buf)),
           NEW n \in {0, Len(read_buf)},
           decode(lines, read_buf) = Result(None, [lines EXCEPT !.next_index = n], read_buf)
    PROVE  StreamInv'
<1>1. /\ lines \in Codecs /\ read_buf \in Seq(Bytes) /\ Len(read_buf) \in Nat
  BY DEF StreamInv, TypeR
<1> DEFINE c == [lines EXCEPT !.next_index = n]
<1>2. c \in Codecs /\ c.max_length = lines.max_length /\ c.next_index = n
  BY <1>1 DEF Codecs
<1> HIDE DEF c
<1> DEFINE d == Result(None, c, read_buf)
<1>3. d.out = None /\ d.codec = c /\ d.src = read_buf
  BY DEF Result
<1>4. d = IF "EOF" \in flags THEN decode_eof(lines, read_buf) ELSE decode(lines, read_buf)
  BY DEF c
<1> HIDE DEF d
<1>5. /\ lines' = c /\ flags' = flags \ {"READABLE"} /\ at = "next"
      /\ UNCHANGED <<read_buf, input, preload, taken, at, item, results>>
  BY <1>3, <1>4, DecodeAnswers
<1>6. ~Stuck /\ item # "end"
  BY DEF Regular, StreamInv, Drained
<1>7. /\ Count' = Count /\ (\A k : Line(k)' = Line(k))
  BY <1>2, <1>5, MeaningKept
<1>8. Consumed' = Consumed /\ Nb(Consumed)' = Nb(Consumed) /\ (Stuck' <=> Stuck)
  BY <1>5 DEF Consumed, Nb, Delimiters, Stuck
<1>9. lines'.next_index <= Len(read_buf') /\ NoLF(read_buf', lines'.next_index)
  BY <1>1, <1>2, <1>5 DEF NoLF
<1>10. Regular'
  BY <1>5, <1>6, <1>8, <1>9 DEF Regular, NoLF
<1>11. TypeR'
  BY <1>2, <1>5 DEF StreamInv, TypeR
<1>12. HandedOut'
  BY <1>5, <1>7 DEF StreamInv, HandedOut
<1>13. QED
  BY <1>5, <1>6, <1>10, <1>11, <1>12 DEF StreamInv

(* At the end of the input: what is left is the last line, or nothing.      *)
LEMMA DecodesLast ==
    ASSUME StreamInv, Regular, Decode, ~Overrun(lines, read_buf), "EOF" \in flags,
           NoLF(read_buf, Len(read_buf)),
           NEW n \in {0, Len(read_buf)}, read_buf = <<>> => n = 0,
           decode(lines, read_buf) = Result(None, [lines EXCEPT !.next_index = n], read_buf)
    PROVE  StreamInv'
<1>1. /\ lines \in Codecs /\ read_buf \in Seq(Bytes) /\ Len(read_buf) \in Nat
      /\ input \in Seq(Bytes) /\ Len(input) \in Nat /\ taken = Len(input)
      /\ results \in Seq(Frames) /\ Len(results) \in Nat
  BY DEF StreamInv, TypeR
<1>2. PICK lo \in Nat, hi \in Nat :
        /\ lo = Consumed /\ IsLine(lo, hi) /\ taken = lo + Len(read_buf)
        /\ hi = Len(input)
  <2>1. PICK lo \in Nat, hi \in Nat :
          /\ lo = Consumed /\ IsLine(lo, hi) /\ taken = lo + Len(read_buf)
          /\ \A j \in 0 .. Len(read_buf) : NoLF(read_buf, j) => lo + j <= hi
    BY BufferHolds
  <2>2. lo + Len(read_buf) <= hi /\ hi <= Len(input)
    BY <1>1, <2>1 DEF IsLine
  <2>3. hi = Len(input)
    BY <1>1, <2>1, <2>2
  <2>4. QED
    BY <2>1, <2>3
<1>3. PICK raw : raw = SubSeq(input, lo + 1, hi)
  OBVIOUS
<1>4. /\ raw \in Seq(Bytes) /\ Len(raw) = Len(read_buf)
      /\ \A i \in 1 .. Len(read_buf) : raw[i] = input[lo + i]
      /\ Line(Nb(lo) + 1) = IF TooLong(lines, raw, Len(raw)) THEN Overlong
                            ELSE try_into_utf8(Chomp(raw))
      /\ Count = IF Chomp(raw) = <<>> THEN Nb(lo) ELSE Nb(lo) + 1
  <2>1. IsLine(lo, hi) /\ input \in Seq(Bytes) /\ lines \in Codecs
    BY <1>1, <1>2
  <2>2. hi - lo = Len(read_buf)
    <3>1. PICK l \in Nat : l = Len(read_buf)
      BY <1>1
    <3>2. hi = lo + l /\ lo \in Nat
      BY <1>1, <1>2, <3>1
    <3>3. hi - lo = l
      BY <3>2
    <3>4. QED
      BY <3>1, <3>3
  <2>3. /\ raw \in Seq(Bytes) /\ Len(raw) = hi - lo
        /\ \A i \in 1 .. hi - lo : raw[i] = input[lo + i]
        /\ Line(Nb(lo) + 1) = IF TooLong(lines, raw, Len(raw)) THEN Overlong
                              ELSE try_into_utf8(Chomp(raw))
        /\ hi = Len(input) => Count = IF Chomp(raw) = <<>> THEN Nb(lo) ELSE Nb(lo) + 1
    BY <2>1, <1>3, LineAt
  <2>4. QED
    BY <1>2, <2>2, <2>3
<1>5. raw = read_buf
  <2>1. \A i \in 1 .. Len(read_buf) : read_buf[i] = raw[i]
    BY <1>2, <1>4 DEF Regular
  <2>2. QED
    BY <1>1, <1>4, <2>1, SeqEqual
<1>6. ~Stuck /\ Nb(lo) = Len(results)
  BY <1>2 DEF Regular
<1>7. ~TooLong(lines, read_buf, Len(read_buf))
  <2>1. CASE Len(read_buf) = 0
    <3>1. lines.max_length \in Nat
      BY <1>1 DEF Codecs
    <3>2. QED
      BY <2>1, <3>1 DEF TooLong
  <2>2. CASE Len(read_buf) # 0
    <3>1. Len(read_buf) \in 1 .. Len(read_buf)
      BY <1>1, <2>2
    <3>2. QED
      BY <3>1 DEF Overrun
  <2>3. QED
    BY <2>1, <2>2
<1> DEFINE c == [lines EXCEPT !.next_index = n]
           fresh == [c EXCEPT !.next_index = 0]
           first == Result(None, c, read_buf)
           rest == SubSeq(read_buf, Len(Chomp(read_buf)) + 1, Len(read_buf))
           out == IF Chomp(read_buf) = <<>> THEN None ELSE try_into_utf8(Chomp(read_buf))
           left == IF Chomp(read_buf) = read_buf THEN <<>> ELSE rest
           d == decode_eof(lines, read_buf)
<1>8. /\ fresh \in Codecs /\ fresh.max_length = lines.max_length /\ fresh.next_index = 0
      /\ n = 0 => c = fresh
  BY <1>1 DEF Codecs
<1>9. first.out = None /\ first.codec = c /\ first.src = read_buf
  BY DEF Result
<1>10. decode(lines, read_buf) = first
  OBVIOUS
<1>11. d = IF read_buf = <<>> THEN first ELSE Result(out, fresh, left)
  <2> HIDE DEF first, c
  <2>1. QED
    BY <1>9, <1>10 DEF decode_eof
<1>12. Chomp(<<>>) = <<>>
  BY DEF Chomp
<1> HIDE DEF fresh, c
<1>13. /\ d.codec = fresh
       /\ d.out = out
       /\ d.src = IF read_buf = <<>> THEN <<>> ELSE left
  <2>1. CASE read_buf = <<>>
    BY <1>8, <1>9, <1>11, <1>12, <2>1
  <2>2. CASE read_buf # <<>>
    <3>1. d = Result(out, fresh, left)
      BY <1>11, <2>2
    <3> HIDE DEF d, out, left
    <3>2. QED
      BY <2>2, <3>1 DEF Result
  <2>3. QED
    BY <2>1, <2>2
<1>14. left = <<>> \/ left = <<"CR">>
  <2> SUFFICES ASSUME Chomp(read_buf) # read_buf PROVE rest = <<"CR">>
    OBVIOUS
  <2>1. read_buf # <<>> /\ read_buf[Len(read_buf)] = "CR" /\ Len(Chomp(read_buf)) = Len(read_buf) - 1
    BY <1>1, ChompFacts
  <2>2. PICK l \in Nat : l = Len(read_buf)
    BY <1>1
  <2>3. l >= 1 /\ Len(Chomp(read_buf)) + 1 = l
    BY <1>1, <2>1, <2>2
  <2>4. rest = SubSeq(read_buf, l, l)
    BY <2>2, <2>3
  <2>5. Len(rest) = l - l + 1 /\ rest[1] = read_buf[l - 1 + 1] /\ rest \in Seq(Bytes)
    <3>1. l <= l + 1 /\ l <= Len(read_buf) /\ 1 \in 1 .. l - l + 1
      BY <2>2
    <3>2. /\ SubSeq(read_buf, l, l) \in Seq(Bytes)
          /\ Len(SubSeq(read_buf, l, l)) = l - l + 1
          /\ \A i \in 1 .. l - l + 1 : SubSeq(read_buf, l, l)[i] = read_buf[l - 1 + i]
      BY <1>1, <2>3, <3>1, SubSeqOfBytes
    <3>3. QED
      BY <2>4, <3>1, <3>2
  <2>6. l - l + 1 = 1 /\ l - 1 + 1 = l
    BY <2>2
  <2> HIDE DEF rest
  <2>7. Len(rest) = 1 /\ rest[1] = "CR"
    BY <2>1, <2>2, <2>5, <2>6
  <2>8. QED
    BY <2>5, <2>7
<1> HIDE DEF d, left
<1>15. /\ lines' = fresh /\ UNCHANGED <<input, preload, taken, flags>> /\ at' = "idle"
       /\ read_buf' = <<>> \/ read_buf' = <<"CR">>
       /\ out # None => HandOut(out) /\ item' \in {"ok", "err"}
       /\ out = None => item' = "end" /\ results' = results
  <2>1. d = IF "EOF" \in flags THEN decode_eof(lines, read_buf) ELSE decode(lines, read_buf)
    BY DEF d
  <2> HIDE DEF out
  <2>2. QED
    BY <1>13, <1>14, <2>1, DecodeAnswers
<1>16. /\ Count' = Count /\ (\A k : Line(k)' = Line(k))
  BY <1>8, <1>15, MeaningKept
<1>17. results' \in Seq(Frames) /\ Len(results') = Count /\ HandedOut'
  <2>1. CASE Chomp(read_buf) = <<>>
    <3>1. results' = results /\ Count = Nb(lo)
      BY <1>4, <1>5, <1>15, <2>1
    <3>2. HandedOut'
      BY <1>16, <3>1 DEF StreamInv, HandedOut
    <3>3. QED
      BY <1>1, <1>6, <3>1, <3>2
  <2>2. CASE Chomp(read_buf) # <<>>
    <3>1. Chomp(read_buf) \in Seq(Bytes)
      BY <1>1, ChompFacts
    <3>2. out = try_into_utf8(Chomp(read_buf))
      BY <2>2
    <3> HIDE DEF out
    <3>3. out \in Frames /\ out # None
      BY <3>1, <3>2 DEF Frames, try_into_utf8, None
    <3>4. PICK k : k = Nb(lo) + 1
      OBVIOUS
    <3>5. k = Len(results) + 1 /\ k <= Count /\ k = Count /\ out = Line(k)
      BY <1>1, <1>4, <1>5, <1>6, <1>7, <2>2, <3>2, <3>4
    <3>6. HandOut(out)
      BY <1>15, <3>3
    <3>7. input' = input /\ lines'.max_length = lines.max_length
      BY <1>8, <1>15
    <3>8. QED
      BY <1>6, <3>3, <3>5, <3>6, <3>7, OneMore
  <2>3. QED
    BY <2>1, <2>2
<1>18. Drained'
  BY <1>8, <1>15, <1>16, <1>17 DEF Drained
<1>19. TypeR'
  <2>1. <<>> \in Seq(Bytes) /\ <<"CR">> \in Seq(Bytes)
    BY DEF Bytes
  <2>2. QED
    BY <1>8, <1>15, <1>17, <2>1 DEF StreamInv, TypeR
<1>20. item' # "pending"
  BY <1>15
<1>21. QED
  BY <1>15, <1>17, <1>18, <1>19, <1>20 DEF StreamInv

LEMMA StreamDecodes == StreamInv /\ Decode => StreamInv'
<1> SUFFICES ASSUME StreamInv, Decode PROVE StreamInv'
  OBVIOUS
<1>1. /\ lines \in Codecs /\ read_buf \in Seq(Bytes) /\ Len(read_buf) \in Nat
      /\ Regular \/ Drained
  BY DEF StreamInv, TypeR
<1>2. CASE Drained
  <2>1. "EOF" \in flags /\ "READABLE" \in flags /\ lines.next_index = 0
        /\ (read_buf = <<>> \/ read_buf = <<"CR">>)
    BY <1>2 DEF StreamInv, Drained
  <2>2. NoLF(read_buf, Len(read_buf)) /\ NoLF(read_buf, 0)
    BY <2>1 DEF NoLF
  <2>3. ~Overrun(lines, read_buf)
    <3> SUFFICES ASSUME NEW j \in 1 .. Len(read_buf), TooLong(lines, read_buf, j) PROVE FALSE
      BY DEF Overrun
    <3>1. j = 1 /\ read_buf[1] = "CR"
      <4>1. read_buf = <<"CR">> => Len(read_buf) = 1 /\ read_buf[1] = "CR"
        OBVIOUS
      <4>2. read_buf = <<>> => Len(read_buf) = 0
        OBVIOUS
      <4>3. PICK l \in Nat : l = Len(read_buf)
        BY <1>1
      <4>4. l # 0
        BY <4>3
      <4>5. read_buf = <<"CR">>
        BY <2>1, <4>2, <4>3, <4>4
      <4>6. QED
        BY <4>1, <4>5
    <3>2. lines.max_length \in Nat
      BY <1>1 DEF Codecs
    <3>3. QED
      BY <3>1, <3>2 DEF TooLong
  <2>4. PICK n \in {0, Len(read_buf)} :
          decode(lines, read_buf) = Result(None, [lines EXCEPT !.next_index = n], read_buf)
    <3>1. lines.next_index <= Len(read_buf) /\ NoLF(read_buf, lines.next_index)
      BY <1>1, <2>1, <2>2
    <3>2. ~\E m \in 1 .. Len(read_buf) : read_buf[m] = "LF"
      BY <2>2 DEF NoLF
    <3>3. QED
      BY <1>1, <2>3, <3>1, <3>2, DecodeCases
  <2> DEFINE c == [lines EXCEPT !.next_index = n]
             fresh == [c EXCEPT !.next_index = 0]
             rest == SubSeq(read_buf, Len(Chomp(read_buf)) + 1, Len(read_buf))
             first == Result(None, c, read_buf)
             d == decode_eof(lines, read_buf)
  <2>5. Chomp(read_buf) = <<>>
    BY <1>1, <2>1, ChompFacts
  <2>6. read_buf # <<>> => Chomp(read_buf) # read_buf /\ rest = read_buf
    <3>1. SubSeq(read_buf, 1, Len(read_buf)) = read_buf
      BY <1>1, SubSeqFull
    <3>2. read_buf = <<"CR">> => Len(read_buf) = 1
      OBVIOUS
    <3>3. Len(Chomp(read_buf)) + 1 = 1
      BY <2>5
    <3>4. QED
      BY <2>1, <2>5, <3>1, <3>2, <3>3 DEF rest
  <2>7. first.out = None /\ first.codec = c /\ first.src = read_buf
    BY DEF Result
  <2>8. c \in Codecs /\ fresh \in Codecs /\ c.max_length = lines.max_length
        /\ fresh.max_length = lines.max_length /\ fresh.next_index = 0
        /\ (read_buf = <<>> => c.next_index = 0)
    <3>1. n \in Nat /\ (read_buf = <<>> => n = 0)
      BY <1>1
    <3>2. QED
      BY <1>1, <3>1 DEF Codecs
  <2> HIDE DEF rest
  <2>9. d = IF read_buf = <<>> THEN first ELSE Result(None, fresh, read_buf)
    <3>0. decode(lines, read_buf) = first
      BY <2>4
    <3> HIDE DEF first, c
    <3>1. d = IF read_buf = <<>> THEN first
              ELSE Result(None, fresh, IF Chomp(read_buf) = read_buf THEN <<>> ELSE rest)
      BY <2>5, <2>7, <3>0 DEF decode_eof, rest
    <3>2. QED
      BY <2>6, <3>1
  <2> HIDE DEF fresh, c
  <2>10. d.out = None /\ d.src = read_buf /\ d.codec \in Codecs
         /\ d.codec.max_length = lines.max_length /\ d.codec.next_index = 0
    <3>1. CASE read_buf = <<>>
      BY <2>7, <2>8, <2>9, <3>1
    <3>2. CASE read_buf # <<>>
      <4>1. d = Result(None, fresh, read_buf)
        BY <2>9, <3>2
      <4> HIDE DEF d
      <4>2. QED
        BY <2>8, <4>1 DEF Result
    <3>3. QED
      BY <3>1, <3>2
  <2>11. d = IF "EOF" \in flags THEN decode_eof(lines, read_buf) ELSE decode(lines, read_buf)
    BY <2>1
  <2> HIDE DEF d
  <2>12. /\ lines' = d.codec /\ read_buf' = read_buf
         /\ UNCHANGED <<input, preload, taken, flags, results>> /\ item' = "end"
    BY <2>1, <2>10, <2>11, DecodeAnswers
  <2>13. QED
    BY <1>2, <2>10, <2>12, StreamKept
<1>3. CASE Regular
  <2>1. lines.next_index <= Len(read_buf) /\ NoLF(read_buf, lines.next_index)
    BY <1>3 DEF Regular
  <2>2. CASE Overrun(lines, read_buf)
    BY <1>3, <2>2, DecodesOverlong
  <2>3. CASE read_buf = <<>> /\ ~Overrun(lines, read_buf)
             /\ decode(lines, read_buf) = Result(None, [lines EXCEPT !.next_index = 0], read_buf)
    <3>1. NoLF(read_buf, Len(read_buf)) /\ 0 \in {0, Len(read_buf)}
      BY <2>3 DEF NoLF
    <3>2. QED
      BY <1>3, <2>3, <3>1, DecodesNothing, DecodesLast
  <2>4. CASE read_buf # <<>> /\ NoLF(read_buf, Len(read_buf)) /\ ~Overrun(lines, read_buf)
             /\ decode(lines, read_buf) =
                  Result(None, [lines EXCEPT !.next_index = Len(read_buf)], read_buf)
    <3>1. Len(read_buf) \in {0, Len(read_buf)}
      OBVIOUS
    <3>2. QED
      BY <1>3, <2>4, <3>1, DecodesNothing, DecodesLast
  <2>5. ASSUME NEW m \in 1 .. Len(read_buf), read_buf[m] = "LF", NoLF(read_buf, m - 1),
               ~Overrun(lines, read_buf), ~TooLong(lines, read_buf, m - 1),
               decode(lines, read_buf) = Result(try_into_utf8(Chomp(SubSeq(read_buf, 1, m - 1))),
                                                [lines EXCEPT !.next_index = 0],
                                                SubSeq(read_buf, m + 1, Len(read_buf)))
        PROVE  StreamInv'
    BY <1>3, <2>5, DecodesLine
  <2>6. QED
    BY <1>1, <2>1, <2>2, <2>3, <2>4, <2>5, DecodeCases
<1>4. QED
  BY <1>1, <1>2, <1>3

LEMMA StreamStep == StreamInv /\ [Next]_vars => StreamInv'
<1> SUFFICES ASSUME StreamInv, [Next]_vars PROVE StreamInv'
  OBVIOUS
<1>1. lines \in Codecs /\ (item = "end" => Drained)
      /\ (item = "pending" /\ at # "next" => "READABLE" \notin flags)
  BY DEF StreamInv, TypeR
<1>2. ASSUME UNCHANGED <<flags, lines, read_buf, item, input, preload, taken, results>>,
             at = "next" => at' = "next"
      PROVE  StreamInv'
  <2>1. at' # "next" /\ item' = "pending" => "READABLE" \notin flags
    BY <1>1, <1>2
  <2>2. lines'.next_index \in {0, lines.next_index} /\ lines'.max_length = lines.max_length
        /\ lines' \in Codecs /\ (item' = "end" => Drained)
    BY <1>1, <1>2
  <2>3. QED
    BY <1>2, <2>1, <2>2, StreamKept
<1>3. CASE PollNext \/ PollReady \/ StartSend \/ PollFlush \/ WriteSome \/ SendGivesUp
           \/ FlushDone \/ PollClose \/ CloseFlushed \/ Shutdown \/ Deliver
  BY <1>2, <1>3 DEF PollNext, PollReady, StartSend, PollFlush, WriteSome, SendGivesUp, FlushDone,
       PollClose, CloseFlushed, Shutdown, Deliver, Flushing, readSide, framed, io
<1>4. CASE Rebuild
  <2>1. /\ lines' \in {lines, codec(lines.max_length)} /\ flags' = flags /\ at = "idle"
        /\ UNCHANGED <<read_buf, at, item, input, preload, taken, results>>
    BY <1>4 DEF Rebuild, io, Carried
  <2>2. lines'.next_index \in {0, lines.next_index} /\ lines'.max_length = lines.max_length
        /\ lines' \in Codecs
    BY <1>1, <2>1 DEF codec, Codecs
  <2>3. QED
    BY <1>1, <2>1, <2>2, StreamKept
<1>5. CASE ReadPending \/ ReadError
  <2>1. /\ UNCHANGED <<flags, lines, read_buf, input, preload, taken, results>>
        /\ "READABLE" \notin flags /\ item' \in {"pending", "err"}
    BY <1>5 DEF ReadPending, ReadError, Reading, Returns, framed, io
  <2>2. lines'.next_index \in {0, lines.next_index} /\ lines'.max_length = lines.max_length
        /\ lines' \in Codecs
    BY <1>1, <2>1
  <2>3. QED
    BY <2>1, <2>2, StreamKept
<1>6. CASE ReadSome
  BY <1>6, StreamReads
<1>7. CASE ReadEof
  <2>1. /\ UNCHANGED <<lines, read_buf, at, item, input, preload, taken, results>>
        /\ flags' = flags \cup {"EOF", "READABLE"} /\ "READABLE" \notin flags
        /\ taken = Len(input) /\ at = "next"
    BY <1>7 DEF ReadEof, Reading
  <2>2. Regular /\ item # "end" /\ ~Stuck
    BY <1>1, <2>1 DEF StreamInv, Drained, Regular
  <2>3. /\ Count' = Count /\ (\A k : Line(k)' = Line(k))
    BY <2>1, MeaningKept
  <2>4. HandedOut'
    BY <2>1, <2>3 DEF StreamInv, HandedOut
  <2>5. Consumed' = Consumed /\ Nb(Consumed)' = Nb(Consumed) /\ (Stuck' <=> Stuck)
    BY <2>1 DEF Consumed, Nb, Delimiters, Stuck
  <2>6. Regular'
    BY <2>1, <2>2, <2>5 DEF Regular, NoLF
  <2>7. TypeR'
    BY <2>1 DEF StreamInv, TypeR
  <2>8. QED
    BY <2>1, <2>2, <2>4, <2>6, <2>7 DEF StreamInv
<1>8. CASE Decode
  BY <1>8, StreamDecodes
<1>9. CASE UNCHANGED vars
  BY <1>2, <1>9 DEF vars, framed, io
<1>10. QED
  BY <1>3, <1>4, <1>5, <1>6, <1>7, <1>8, <1>9 DEF Next

(* framed.rs, next_item, with lines.rs, decode and decode_eof: however the  *)
(* input was cut into reads and whatever else was done in between, what is  *)
(* handed out are the lines of the input, in order, up to the first that is *)
(* over the limit, and the end comes after the last one.                    *)
THEOREM StreamIsLines == Spec => []FramesAreLines
<1>1. Spec => []StreamInv
  BY StreamInit, StreamStep, PTL DEF Spec
<1>2. QED
  BY <1>1, StreamInvImplies, PTL

(* framed.rs, next_item: Pending is answered only when no complete line is  *)
(* left in the buffer.                                                      *)
THEOREM NothingHeldBack == Spec => []NoLineHeldBack
<1>1. Spec => []StreamInv
  BY StreamInit, StreamStep, PTL DEF Spec
<1>2. QED
  BY <1>1, StreamInvImplies, PTL
=============================================================================
