----------------------------- MODULE LinesCodec -----------------------------
(***************************************************************************)
(* The decoder of actix-codec::LinesCodec, on a buffer of bytes.  A byte   *)
(* is one of four classes: a delimiter, a carriage return, a letter, or a  *)
(* byte that makes its line invalid UTF-8.                                 *)
(***************************************************************************)
EXTENDS Naturals, Sequences, FiniteSets

CONSTANT NoLimit    \* usize::MAX, the max_length of LinesCodec::new

Bytes == {"LF", "CR", "a", "bad"}

codec(max) == [max_length |-> max, next_index |-> 0]

None == [kind |-> "none", line |-> <<>>]
Overlong == [kind |-> "overlong", line |-> <<>>]

(* Carriage returns at the end of a line: one is removed.                  *)
Chomp(bytes) ==
    IF bytes # <<>> /\ bytes[Len(bytes)] = "CR"
    THEN SubSeq(bytes, 1, Len(bytes) - 1) ELSE bytes

(* The result of one call: what it returns, the codec and the buffer.      *)
Result(out, c, src) == [out |-> out, codec |-> c, src |-> src]

try_into_utf8(bytes) ==
    [kind |-> IF \E i \in DOMAIN bytes : bytes[i] = "bad" THEN "utf8" ELSE "line",
     line |-> bytes]

(* Fault: the search begins one byte too late. *)
Found_late(c, src) ==
    LET start == IF c.next_index < Len(src) THEN c.next_index ELSE 0
    IN  {i \in start + 2 .. Len(src) : src[i] = "LF"}

(* Delimiters at or after the byte where the previous search ended.        *)
Found(c, src) ==
    LET start == IF c.next_index < Len(src) THEN c.next_index ELSE 0
    IN  {i \in start + 1 .. Len(src) : src[i] = "LF"}

TooLong(c, src, len) ==
    /\ c.max_length # NoLimit
    /\ len > c.max_length
    /\ ~(len = c.max_length + 1 /\ src[len] = "CR")

First(S) == CHOOSE i \in S : \A j \in S : i <= j

decode(c, src) ==
    LET fresh == [c EXCEPT !.next_index = 0]
        found == Found(c, src)
        len == IF found = {} THEN Len(src) ELSE First(found) - 1
    IN  CASE src = <<>> -> Result(None, fresh, src)
          [] src # <<>> /\ TooLong(c, src, len) -> Result(Overlong, c, src)
          [] src # <<>> /\ ~TooLong(c, src, len) /\ found = {} ->
                Result(None, [c EXCEPT !.next_index = len], src)
          [] OTHER ->
                Result(try_into_utf8(Chomp(SubSeq(src, 1, len))), fresh,
                       SubSeq(src, len + 2, Len(src)))

decode_eof(c, src) ==
    LET d == decode(c, src)
        fresh == [d.codec EXCEPT !.next_index = 0]
        rest == SubSeq(src, Len(Chomp(src)) + 1, Len(src))
    IN  CASE d.out # None \/ d.src = <<>> -> d
          [] OTHER -> Result(IF Chomp(src) = <<>> THEN None ELSE try_into_utf8(Chomp(src)),
                             fresh, IF Chomp(src) = src THEN <<>> ELSE rest)
=============================================================================
