------------------------- MODULE LocalChannelProofs -------------------------
(***************************************************************************)
(* Proofs about LocalChannel, for every number of tasks, senders and       *)
(* messages: no wake-up is lost, and the buffer is drained in order before *)
(* the stream ends.                                                        *)
(***************************************************************************)
EXTENDS LocalChannel, FiniteSetTheorems, TLAPS

(* The senders: those in the buffer are few enough to be counted, and the   *)
(* messages that own them are in the buffer.                                *)
CountOK ==
    /\ IsFiniteSet(carrying)
    /\ AllSenders \in 0 .. MaxSenders
    /\ \A m \in carrying : \E k \in 1 .. Len(buffer) : buffer[k] = m

(* What is in the buffer of a live receiver: all that has been accepted and *)
(* not been handed out.                                                     *)
BufferOK ==
    receiver = "alive" =>
        /\ Len(received) + Len(buffer) = accepted
        /\ \A k \in 1 .. Len(buffer) : buffer[k] = Len(received) + k

Inv == TypeOK /\ CountOK /\ BufferOK /\ NoLostWake

LEMMA InitInv == Init => Inv
<1> SUFFICES ASSUME Init PROVE Inv
  OBVIOUS
<1>1. IsFiniteSet(carrying) /\ Cardinality(carrying) = 0
  BY FS_EmptySet DEF Init
<1>2. TypeOK
  <2>1. buffer \in Seq(1 .. MaxSends) /\ received \in Seq(1 .. MaxSends)
    BY DEF Init
  <2>2. blocked_recv \in Waker!Cells /\ polled \in Waker!Cells
    BY DEF Init, Waker!new, Waker!Cells
  <2>3. senders \in 0 .. MaxSenders /\ accepted \in 0 .. MaxSends
    BY ConstantsAssumption DEF Init
  <2>4. QED
    BY <2>1, <2>2, <2>3 DEF Init, TypeOK
<1>3. AllSenders \in 0 .. MaxSenders
  BY <1>1, ConstantsAssumption DEF Init, AllSenders
<1>4. CountOK /\ BufferOK /\ NoLostWake
  BY <1>1, <1>3 DEF Init, CountOK, BufferOK, NoLostWake
<1>5. QED
  BY <1>2, <1>4 DEF Inv

-----------------------------------------------------------------------------
LEMMA AppendFacts ==
    ASSUME NEW S, NEW q \in Seq(S), NEW x \in S
    PROVE  /\ Append(q, x) \in Seq(S)
           /\ Len(q) \in Nat
           /\ Len(Append(q, x)) = Len(q) + 1
           /\ \A k \in 1 .. Len(q) : Append(q, x)[k] = q[k]
           /\ Append(q, x)[Len(q) + 1] = x
OBVIOUS

LEMMA TailFacts ==
    ASSUME NEW S, NEW q \in Seq(S), q # <<>>
    PROVE  /\ Tail(q) \in Seq(S)
           /\ Head(q) = q[1] /\ Head(q) \in S
           /\ Len(q) \in Nat \ {0}
           /\ Len(Tail(q)) = Len(q) - 1
           /\ \A k \in 1 .. Len(q) - 1 : Tail(q)[k] = q[k + 1]
OBVIOUS

(* The waker cell after a wake: whoever was in it is woken.                 *)
LEMMA WakeFacts ==
    ASSUME TypeOK, Waker!wake
    PROVE  /\ blocked_recv' = NoTask
           /\ woken' \subseteq Tasks
           /\ woken \subseteq woken'
           /\ blocked_recv # NoTask => blocked_recv \in woken'
BY DEF TypeOK, Waker!wake, Waker!Cells

-----------------------------------------------------------------------------
LEMMA SendStep ==
    ASSUME Inv, NEW carry \in {"nothing", "clone"}, Send(carry)
    PROVE  Inv'
<1> USE ConstantsAssumption
<1>1. CASE ~has_receiver
  <2>1. UNCHANGED vars
    BY <1>1 DEF Send, vars
  <2>2. QED
    BY <2>1 DEF Inv, TypeOK, CountOK, BufferOK, NoLostWake, AllSenders, Waker!Cells, vars
<1>2. CASE has_receiver
  <2>1. /\ accepted' = accepted + 1 /\ accepted' \in 1 .. MaxSends
        /\ buffer' = Append(buffer, accepted')
        /\ Waker!wake
        /\ UNCHANGED <<has_receiver, receiver, received, polled, ended>>
    BY <1>2 DEF Send, Inv, TypeOK
  <2>2. /\ buffer' \in Seq(1 .. MaxSends) /\ Len(buffer) \in Nat /\ Len(buffer') = Len(buffer) + 1
        /\ \A k \in 1 .. Len(buffer) : buffer'[k] = buffer[k]
        /\ buffer'[Len(buffer) + 1] = accepted'
    BY <2>1, AppendFacts DEF Inv, TypeOK
  <2>3. /\ carrying' \subseteq 1 .. MaxSends /\ senders' \in 0 .. MaxSenders
        /\ carrying' \subseteq carrying \cup {accepted'} /\ IsFiniteSet(carrying')
        /\ AllSenders' \in 0 .. MaxSenders
    <3>1. CASE carry = "nothing"
      BY <1>2, <3>1 DEF Send, Inv, TypeOK, CountOK, AllSenders
    <3>2. CASE carry = "clone"
      <4>1. /\ carrying' = carrying \cup {accepted'} /\ senders' = senders
            /\ AllSenders < MaxSenders
        BY <1>2, <3>2 DEF Send
      <4>2. /\ IsFiniteSet(carrying') /\ Cardinality(carrying) \in Nat
            /\ Cardinality(carrying') \in {Cardinality(carrying), Cardinality(carrying) + 1}
        BY <4>1, FS_AddElement, FS_CardinalityType DEF Inv, CountOK
      <4>3. QED
        BY <2>1, <4>1, <4>2 DEF Inv, TypeOK, CountOK, AllSenders
    <3>3. QED
      BY <3>1, <3>2
  <2>4. TypeOK'
    BY <2>1, <2>2, <2>3, WakeFacts DEF Inv, TypeOK, Waker!Cells
  <2>5. \A m \in carrying' : \E k \in 1 .. Len(buffer') : buffer'[k] = m
    <3>1. SUFFICES ASSUME NEW m \in carrying' PROVE \E k \in 1 .. Len(buffer') : buffer'[k] = m
      OBVIOUS
    <3>2. CASE m = accepted'
      BY <2>2, <3>2
    <3>3. CASE m \in carrying
      <4>1. PICK k \in 1 .. Len(buffer) : buffer[k] = m
        BY <3>3 DEF Inv, CountOK
      <4>2. QED
        BY <2>2, <4>1
    <3>4. QED
      BY <2>3, <3>2, <3>3
  <2>6. CountOK'
    BY <2>3, <2>5 DEF CountOK
  <2>7. BufferOK'
    <3>1. SUFFICES ASSUME receiver = "alive"
                   PROVE  /\ Len(received') + Len(buffer') = accepted'
                          /\ \A k \in 1 .. Len(buffer') : buffer'[k] = Len(received') + k
      BY <2>1 DEF BufferOK
    <3>2. Len(received) + Len(buffer) = accepted /\ Len(received) \in Nat
      BY <3>1 DEF Inv, BufferOK, TypeOK
    <3>3. \A k \in 1 .. Len(buffer) : buffer'[k] = Len(received) + k
      BY <2>2, <3>1 DEF Inv, BufferOK
    <3>4. buffer'[Len(buffer) + 1] = Len(received) + (Len(buffer) + 1)
      BY <2>1, <2>2, <3>2
    <3>5. \A k \in 1 .. Len(buffer') : k \in 1 .. Len(buffer) \/ k = Len(buffer) + 1
      BY <2>2
    <3>6. Len(received') + Len(buffer') = accepted'
      BY <2>1, <2>2, <3>2
    <3>7. QED
      BY <2>1, <3>3, <3>4, <3>5, <3>6
  <2>8. NoLostWake'
    BY <2>1, WakeFacts DEF Inv, NoLostWake
  <2>9. QED
    BY <2>4, <2>6, <2>7, <2>8 DEF Inv
<1>3. QED
  BY <1>1, <1>2

LEMMA CloseStep == Inv /\ CloseSender => Inv'
<1> SUFFICES ASSUME Inv, CloseSender PROVE Inv'
  OBVIOUS
<1>1. /\ Waker!wake /\ has_receiver' = FALSE
      /\ UNCHANGED <<buffer, carrying, receiver, senders, accepted, received, polled, ended>>
  BY DEF CloseSender, Close
<1>2. TypeOK'
  BY <1>1, WakeFacts DEF Inv, TypeOK, Waker!Cells
<1>3. CountOK' /\ BufferOK'
  BY <1>1 DEF Inv, CountOK, BufferOK, AllSenders
<1>4. NoLostWake'
  BY <1>1, WakeFacts DEF Inv, NoLostWake
<1>5. QED
  BY <1>2, <1>3, <1>4 DEF Inv

LEMMA NewStep == Inv /\ NewSender => Inv'
<1> SUFFICES ASSUME Inv, NewSender PROVE Inv'
  OBVIOUS
<1>1. /\ senders' = senders + 1 /\ AllSenders < MaxSenders
      /\ UNCHANGED <<buffer, carrying, blocked_recv, has_receiver, receiver, accepted, received,
                     polled, ended, woken>>
  BY DEF NewSender
<1>2. Cardinality(carrying) \in Nat /\ senders \in Nat
  BY FS_CardinalityType DEF Inv, CountOK, TypeOK
<1>3. senders' \in 0 .. MaxSenders /\ AllSenders' \in 0 .. MaxSenders
  BY <1>1, <1>2, ConstantsAssumption DEF AllSenders
<1>4. TypeOK'
  BY <1>1, <1>3 DEF Inv, TypeOK, Waker!Cells
<1>5. CountOK' /\ BufferOK'
  BY <1>1, <1>3 DEF Inv, CountOK, BufferOK
<1>6. NoLostWake'
  BY <1>1, <1>2 DEF Inv, NoLostWake
<1>7. QED
  BY <1>4, <1>5, <1>6 DEF Inv

(* Dropping the last sender but one leaves a sender; dropping the last      *)
(* wakes the receiver.                                                      *)
LEMMA DropSenderStep == Inv /\ DropSender => Inv'
<1> SUFFICES ASSUME Inv, DropSender PROVE Inv'
  OBVIOUS
<1>1. /\ senders' = senders - 1 /\ senders > 0
      /\ IF LastSender THEN Waker!wake ELSE UNCHANGED <<blocked_recv, woken>>
      /\ UNCHANGED <<buffer, carrying, has_receiver, receiver, accepted, received, polled, ended>>
  BY DEF DropSender
<1>2. Cardinality(carrying) \in Nat /\ senders \in Nat
  BY FS_CardinalityType DEF Inv, CountOK, TypeOK
<1>3. senders' \in 0 .. MaxSenders /\ AllSenders' \in 0 .. MaxSenders
  BY <1>1, <1>2, ConstantsAssumption DEF AllSenders, Inv, TypeOK, CountOK
<1>4. TypeOK'
  BY <1>1, <1>3, WakeFacts DEF Inv, TypeOK, Waker!Cells
<1>5. CountOK' /\ BufferOK'
  BY <1>1, <1>3 DEF Inv, CountOK, BufferOK
<1>6. NoLostWake'
  <2>1. SUFFICES ASSUME receiver = "alive", polled # NoTask, polled \notin woken'
                 PROVE  /\ blocked_recv' = polled
                        /\ buffer = <<>> /\ has_receiver /\ senders' > 0
    BY <1>1 DEF NoLostWake
  <2>2. polled \notin woken
    BY <1>1, <2>1, WakeFacts DEF Inv
  <2>3. blocked_recv = polled /\ buffer = <<>> /\ has_receiver
    BY <2>1, <2>2 DEF Inv, NoLostWake
  <2>4. ~LastSender
    BY <1>1, <2>1, <2>3, WakeFacts DEF Inv
  <2>5. carrying = {}
    BY <2>3 DEF Inv, CountOK
  <2>6. Cardinality(carrying) = 0
    BY <2>5, FS_EmptySet
  <2>7. senders # 1
    BY <2>1, <2>3, <2>4, <2>6 DEF LastSender, strong_count, AllSenders
  <2>8. QED
    BY <1>1, <1>2, <2>3, <2>4, <2>7
<1>7. QED
  BY <1>4, <1>5, <1>6 DEF Inv

LEMMA PollStep == ASSUME Inv, NEW t \in Tasks, Poll(t) PROVE Inv'
<1> USE ConstantsAssumption
<1>1. /\ receiver = "alive" /\ woken' = woken \ {t}
      /\ UNCHANGED <<has_receiver, receiver, accepted>>
  BY DEF Poll
<1>2. Cardinality(carrying) \in Nat /\ senders \in Nat
  BY FS_CardinalityType DEF Inv, CountOK, TypeOK
<1>3. CASE buffer # <<>>
  <2>1. /\ buffer' = Tail(buffer) /\ received' = Append(received, Head(buffer))
        /\ carrying' = carrying \ {Head(buffer)}
        /\ senders' = IF Head(buffer) \in carrying THEN senders + 1 ELSE senders
        /\ polled' = NoTask /\ ended' = FALSE /\ UNCHANGED blocked_recv
    BY <1>3 DEF Poll, PollSome
  <2>2. /\ buffer' \in Seq(1 .. MaxSends) /\ Len(buffer) \in Nat \ {0}
        /\ Len(buffer') = Len(buffer) - 1 /\ Head(buffer) = buffer[1]
        /\ Head(buffer) \in 1 .. MaxSends
        /\ \A k \in 1 .. Len(buffer) - 1 : buffer'[k] = buffer[k + 1]
    BY <1>3, <2>1, TailFacts DEF Inv, TypeOK
  <2>3. received' \in Seq(1 .. MaxSends) /\ Len(received') = Len(received) + 1
    BY <2>1, <2>2, AppendFacts DEF Inv, TypeOK
  <2>4. /\ IsFiniteSet(carrying')
        /\ Cardinality(carrying') = IF Head(buffer) \in carrying
                                    THEN Cardinality(carrying) - 1 ELSE Cardinality(carrying)
    BY <2>1, FS_RemoveElement DEF Inv, CountOK
  <2>5. senders' \in Nat /\ AllSenders' = AllSenders
    BY <1>2, <2>1, <2>4 DEF AllSenders
  <2>6. Cardinality(carrying') \in Nat
    BY <2>4, FS_CardinalityType
  <2>7. senders' \in 0 .. MaxSenders
    BY <2>5, <2>6 DEF Inv, CountOK, AllSenders
  <2>8. TypeOK'
    BY <1>1, <2>1, <2>2, <2>3, <2>7 DEF Inv, TypeOK, Waker!Cells
  <2>9. \A m \in carrying' : \E k \in 1 .. Len(buffer') : buffer'[k] = m
    <3>1. SUFFICES ASSUME NEW m \in carrying' PROVE \E k \in 1 .. Len(buffer') : buffer'[k] = m
      OBVIOUS
    <3>2. PICK k \in 1 .. Len(buffer) : buffer[k] = m
      BY <2>1, <3>1 DEF Inv, CountOK
    <3>3. k # 1
      BY <2>1, <2>2, <3>1, <3>2
    <3>4. k - 1 \in 1 .. Len(buffer') /\ buffer'[k - 1] = m
      BY <2>2, <3>2, <3>3
    <3>5. QED
      BY <3>4
  <2>10. CountOK'
    BY <2>4, <2>5, <2>9 DEF Inv, CountOK
  <2>11. BufferOK'
    <3>1. Len(received) + Len(buffer) = accepted /\ Len(received) \in Nat
      BY <1>1 DEF Inv, BufferOK, TypeOK
    <3>2. Len(received') + Len(buffer') = accepted'
      BY <1>1, <2>2, <2>3, <3>1
    <3>3. \A k \in 1 .. Len(buffer') : k + 1 \in 1 .. Len(buffer) /\ buffer'[k] = buffer[k + 1]
      BY <2>2
    <3>4. \A k \in 1 .. Len(buffer) : buffer[k] = Len(received) + k
      BY <1>1 DEF Inv, BufferOK
    <3>5. \A k \in 1 .. Len(buffer') : buffer'[k] = Len(received') + k
      BY <2>3, <3>1, <3>3, <3>4
    <3>6. QED
      BY <3>2, <3>5 DEF BufferOK
  <2>12. NoLostWake'
    BY <2>1 DEF NoLostWake
  <2>13. QED
    BY <2>8, <2>10, <2>11, <2>12 DEF Inv
<1>4. CASE buffer = <<>>
  <2>1. UNCHANGED <<buffer, received, carrying, senders>>
    BY <1>4 DEF Poll, PollSome
  <2>2. CountOK' /\ BufferOK'
    BY <1>1, <2>1 DEF Inv, CountOK, BufferOK, AllSenders
  <2>3. \/ Closed /\ polled' = NoTask /\ ended' = TRUE /\ UNCHANGED blocked_recv
        \/ ~Closed /\ blocked_recv' = t /\ polled' = t /\ ended' = FALSE
    BY <1>4 DEF Poll, PollSome, Waker!register
  <2>4. TypeOK'
    BY <1>1, <2>1, <2>3 DEF Inv, TypeOK, Waker!Cells
  <2>5. NoLostWake'
    <3>1. CASE Closed
      BY <2>3, <3>1 DEF NoLostWake
    <3>2. CASE ~Closed
      <4>1. carrying = {}
        BY <1>4 DEF Inv, CountOK
      <4>2. Cardinality(carrying) = 0
        BY <4>1, FS_EmptySet
      <4>3. has_receiver /\ senders # 0
        BY <1>1, <3>2, <4>2 DEF Closed, strong_count, AllSenders
      <4>4. QED
        BY <1>1, <1>2, <1>4, <2>1, <2>3, <3>2, <4>3 DEF NoLostWake
    <3>3. QED
      BY <3>1, <3>2
  <2>6. QED
    BY <2>2, <2>4, <2>5 DEF Inv
<1>5. QED
  BY <1>3, <1>4

LEMMA DropReceiverStep == Inv /\ DropReceiver => Inv'
<1> SUFFICES ASSUME Inv, DropReceiver PROVE Inv'
  OBVIOUS
<1>1. /\ buffer' = <<>> /\ carrying' = {} /\ polled' = NoTask
      /\ receiver' \in {"dropped", "abort"} /\ (has_receiver' = FALSE \/ has_receiver' = has_receiver)
      /\ UNCHANGED <<blocked_recv, senders, accepted, received, ended, woken>>
  BY DEF DropReceiver
<1>2. IsFiniteSet(carrying') /\ Cardinality(carrying') = 0
  BY <1>1, FS_EmptySet
<1>3. TypeOK'
  <2>1. has_receiver' \in BOOLEAN
    BY <1>1 DEF Inv, TypeOK
  <2>2. buffer' \in Seq(1 .. MaxSends) /\ carrying' \subseteq 1 .. MaxSends
    BY <1>1
  <2>3. QED
    BY <1>1, <2>1, <2>2 DEF Inv, TypeOK, Waker!Cells
<1>4. AllSenders' \in 0 .. MaxSenders
  BY <1>1, <1>2 DEF Inv, TypeOK, AllSenders
<1>5. CountOK' /\ BufferOK' /\ NoLostWake'
  BY <1>1, <1>2, <1>4 DEF CountOK, BufferOK, NoLostWake
<1>6. QED
  BY <1>3, <1>5 DEF Inv

LEMMA NextInv == Inv /\ [Next]_vars => Inv'
<1> SUFFICES ASSUME Inv, [Next]_vars PROVE Inv'
  OBVIOUS
<1>1. CASE UNCHANGED vars
  BY <1>1 DEF Inv, TypeOK, CountOK, BufferOK, NoLostWake, AllSenders, Waker!Cells, vars
<1>2. CASE Next
  BY <1>2, SendStep, CloseStep, NewStep, DropSenderStep, PollStep, DropReceiverStep DEF Next
<1>3. QED
  BY <1>1, <1>2

-----------------------------------------------------------------------------
(* A pending receiver that nobody has woken can be woken by whatever it     *)
(* waits for.                                                               *)
THEOREM WakesNeverLost == Spec => []NoLostWake
<1>1. Init => Inv
  BY InitInv
<1>2. Inv /\ [Next]_vars => Inv'
  BY NextInv
<1>3. Inv => NoLostWake
  BY DEF Inv
<1>4. QED
  BY <1>1, <1>2, <1>3, PTL DEF Spec

(* Messages are handed out in order, and all of them before the end.        *)
THEOREM DrainedInOrder == Spec => DrainsInOrder
<1> DEFINE Order == \A t \in Tasks : Poll(t) =>
                      \/ received' = Append(received, Len(received) + 1)
                      \/ Len(received) = accepted /\ UNCHANGED received
<1>1. ASSUME Inv PROVE Order
  <2>1. SUFFICES ASSUME NEW t \in Tasks, Poll(t)
                 PROVE  \/ received' = Append(received, Len(received) + 1)
                        \/ Len(received) = accepted /\ UNCHANGED received
    OBVIOUS
  <2>2. receiver = "alive"
    BY <2>1 DEF Poll
  <2>3. CASE buffer # <<>>
    <3>1. received' = Append(received, Head(buffer))
      BY <2>1, <2>3 DEF Poll, PollSome
    <3>2. Head(buffer) = buffer[1] /\ 1 \in 1 .. Len(buffer)
      BY <1>1, <2>3, TailFacts DEF Inv, TypeOK
    <3>3. QED
      BY <1>1, <2>2, <3>1, <3>2 DEF Inv, BufferOK
  <2>4. CASE buffer = <<>>
    <3>1. UNCHANGED received
      BY <2>1, <2>4 DEF Poll, PollSome
    <3>2. Len(received) + 0 = accepted /\ Len(received) \in Nat
      BY <1>1, <2>2, <2>4 DEF Inv, BufferOK, TypeOK
    <3>3. QED
      BY <3>1, <3>2
  <2>5. QED
    BY <2>3, <2>4
<1>2. Inv => [Order]_vars
  BY <1>1
<1>3. Init => Inv
  BY InitInv
<1>4. Inv /\ [Next]_vars => Inv'
  BY NextInv
<1>5. QED
  BY <1>2, <1>3, <1>4, PTL DEF Spec, DrainsInOrder
=============================================================================
