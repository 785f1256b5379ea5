------------------------------- MODULE TlsProofs -------------------------------
(***************************************************************************)
(* Proofs about the two sides of actix-tls.  The acceptor, for every finite *)
(* set of connections, every set of limits and any number of failures of   *)
(* the other service: the limit on handshakes, and the wake-ups of the     *)
(* worker.  The connector, for lists of addresses of any length: a request *)
(* tries them in order and stops at the first that answers.                *)
(***************************************************************************)
EXTENDS TlsAcceptor, Connector, FiniteSetTheorems, SequenceTheorems, TLAPS

(* The counter counts the handshakes, those of services that have been      *)
(* replaced included.                                                       *)
CountOK ==
    /\ count = Cardinality(Handshaking)
    /\ place = "first" => count <= capacity

(* Whoever is remembered by the counter found it full, and it is full.      *)
WakerOK == waker # NoTask => waker = Worker /\ ~Counter!below

(* Why a worker that is not scheduled may sleep.                            *)
SleepOK ==
    worker = "serving" /\ turn # Worker /\ Worker \notin woken =>
        \/ waker = Worker
        \/ "other" \in asked /\ other = "pending"
        \/ "conns" \in asked /\ \A c \in Conns : stage[c] # "queued"

Inv == TypeOK /\ CountOK /\ WakerOK /\ SleepOK

LEMMA InvImplies == Inv => LimitRespected /\ NoLostWake
BY ConstantsAssumption
   DEF Inv, CountOK, WakerOK, SleepOK, LimitRespected, NoLostWake, Ready

LEMMA HandshakingFinite == IsFiniteSet(Handshaking)
BY FS_Subset, ConstantsAssumption DEF Handshaking

(* No connection enters or leaves its handshake: the count may stay.        *)
LEMMA SameHandshakes ==
    ASSUME Inv, UNCHANGED <<place, capacity, count>>,
           \A c \in Conns : stage'[c] = "handshake" <=> stage[c] = "handshake"
    PROVE  CountOK'
<1>1. Handshaking' = Handshaking
  BY DEF Handshaking
<1>2. QED
  BY <1>1 DEF Inv, CountOK

LEMMA OneMore ==
    ASSUME TypeOK, count = Cardinality(Handshaking), NEW c \in Conns, stage[c] # "handshake",
           AcceptorCall(c)
    PROVE  count' = Cardinality(Handshaking')
<1>1. Handshaking' = Handshaking \cup {c} /\ c \notin Handshaking
  BY DEF Handshaking, AcceptorCall, TypeOK, Stages
<1>2. count' = count + 1
  BY DEF AcceptorCall, Counter!get
<1>3. QED
  BY <1>1, <1>2, HandshakingFinite, FS_AddElement

LEMMA OneLess ==
    ASSUME TypeOK, count = Cardinality(Handshaking), NEW c \in Conns, stage[c] = "handshake",
           NEW to \in Stages \ {"handshake"}, stage' = [stage EXCEPT ![c] = to], DropGuard
    PROVE  count' = Cardinality(Handshaking') /\ count' \in Nat /\ count' = count - 1
<1>1. Handshaking' = Handshaking \ {c} /\ c \in Handshaking
  BY DEF Handshaking, TypeOK
<1>2. count' = count - 1
  BY DEF DropGuard, Counter!drop
<1>3. /\ Cardinality(Handshaking') = Cardinality(Handshaking) - 1
      /\ Cardinality(Handshaking') \in Nat
  BY <1>1, HandshakingFinite, FS_RemoveElement, FS_CardinalityType
<1>4. QED
  BY <1>2, <1>3

(* A guard that is dropped wakes the worker if that makes room.             *)
LEMMA DropFacts ==
    ASSUME Inv, DropGuard, count' \in Nat
    PROVE  /\ waker' \in {Worker, NoTask}
           /\ WakerOK'
           /\ woken' \subseteq Tasks /\ woken \subseteq woken'
           /\ waker = Worker /\ waker' # Worker => Worker \in woken'
           /\ capacity' = capacity
<1>1. waker \in {Worker, NoTask} /\ count \in Nat /\ capacity \in Nat /\ woken \subseteq Tasks
  BY ConstantsAssumption DEF Inv, TypeOK
<1>2. count' = count - 1 /\ capacity' = capacity
  BY DEF DropGuard, Counter!drop
<1>3. CASE count = capacity
  <2>1. waker' = NoTask /\ woken' = woken \cup ({waker} \ {NoTask})
    BY <1>3 DEF DropGuard, Counter!drop, Counter!wake
  <2>2. QED
    BY <1>1, <1>2, <2>1, ConstantsAssumption DEF WakerOK, Tasks
<1>4. CASE count # capacity
  <2>1. waker' = waker /\ woken' = woken
    BY <1>4 DEF DropGuard, Counter!drop
  <2>2. WakerOK'
    BY <1>1, <1>2, <1>4, <2>1 DEF Inv, WakerOK, Counter!below
  <2>3. QED
    BY <1>1, <1>2, <2>1, <2>2
<1>5. QED
  BY <1>3, <1>4

LEMMA InitInv == Init => Inv
<1> SUFFICES ASSUME Init PROVE Inv
  OBVIOUS
<1>1. Handshaking = {}
  BY DEF Init, Handshaking
<1>2. Cardinality(Handshaking) = 0
  BY <1>1, FS_EmptySet
<1>3. TypeOK
  BY ConstantsAssumption DEF Init, TypeOK, Stages, Tasks, Counter!Create, Counter!new
<1>4. CountOK /\ WakerOK /\ SleepOK
  BY <1>2, <1>3, ConstantsAssumption
     DEF Init, CountOK, WakerOK, SleepOK, Counter!Create, Counter!new, TypeOK
<1>5. QED
  BY <1>3, <1>4 DEF Inv

-----------------------------------------------------------------------------
(* The environment's steps leave the counter and the handshakes alone.      *)
LEMMA EnvironmentStep ==
    ASSUME Inv,
           \/ \E num \in Limits : max_concurrent_tls_connect(num)
           \/ BuildEnds \/ OtherReady \/ OtherUnready
           \/ \E c \in Conns : Arrive(c) \/ Handshakes(c) \/ OtherWorks(c) \/ Expire(c)
    PROVE  Inv'
<1> USE ConstantsAssumption
<1>1. ASSUME NEW num \in Limits, max_concurrent_tls_connect(num) PROVE Inv'
  <2>1. UNCHANGED <<place, counter, service, conns, turn, asked, woken, changes>> /\ MAX_CONN' = num
    BY <1>1 DEF max_concurrent_tls_connect
  <2>2. TypeOK' /\ WakerOK' /\ SleepOK'
    BY <2>1 DEF Inv, TypeOK, WakerOK, SleepOK, Counter!below, counter, service, conns
  <2>3. CountOK'
    BY <2>1, SameHandshakes DEF counter, conns
  <2>4. QED
    BY <2>2, <2>3 DEF Inv
<1>2. CASE BuildEnds
  <2>1. TypeOK'
    BY <1>2 DEF BuildEnds, WakeBy, Inv, TypeOK, Tasks, counter, conns
  <2>2. WakerOK' /\ SleepOK'
    BY <1>2 DEF BuildEnds, WakeBy, Inv, WakerOK, SleepOK, Counter!below, counter, conns
  <2>3. CountOK'
    BY <1>2, SameHandshakes DEF BuildEnds, counter, conns
  <2>4. QED
    BY <2>1, <2>2, <2>3 DEF Inv
<1>3. CASE OtherReady
  <2>1. TypeOK'
    BY <1>3 DEF OtherReady, WakeBy, Inv, TypeOK, Tasks, counter, conns
  <2>2. WakerOK' /\ SleepOK'
    BY <1>3 DEF OtherReady, WakeBy, Inv, WakerOK, SleepOK, Counter!below, counter, conns
  <2>3. CountOK'
    BY <1>3, SameHandshakes DEF OtherReady, counter, conns
  <2>4. QED
    BY <2>1, <2>2, <2>3 DEF Inv
<1>4. CASE OtherUnready
  <2>1. TypeOK'
    BY <1>4 DEF OtherUnready, WakeBy, Inv, TypeOK, Tasks, counter, conns
  <2>2. WakerOK' /\ SleepOK'
    BY <1>4 DEF OtherUnready, WakeBy, Inv, WakerOK, SleepOK, Counter!below, counter, conns
  <2>3. CountOK'
    BY <1>4, SameHandshakes DEF OtherUnready, counter, conns
  <2>4. QED
    BY <2>1, <2>2, <2>3 DEF Inv
<1>5. ASSUME NEW c \in Conns, Arrive(c) PROVE Inv'
  <2>1. TypeOK'
    BY <1>5 DEF Arrive, WakeBy, Inv, TypeOK, Stages, Tasks, counter, service
  <2>2. WakerOK' /\ SleepOK'
    BY <1>5 DEF Arrive, WakeBy, Inv, TypeOK, WakerOK, SleepOK, Counter!below, counter, service
  <2>3. \A d \in Conns : stage'[d] = "handshake" <=> stage[d] = "handshake"
    BY <1>5 DEF Arrive, Inv, TypeOK
  <2>4. CountOK'
    BY <1>5, <2>3, SameHandshakes DEF Arrive, counter
  <2>5. QED
    BY <2>1, <2>2, <2>4 DEF Inv
<1>6. ASSUME NEW c \in Conns, Progress(c) PROVE Inv'
  <2>1. TypeOK'
    BY <1>6 DEF Progress, Inv, TypeOK, Tasks, counter, service
  <2>2. WakerOK' /\ SleepOK'
    BY <1>6 DEF Progress, Inv, WakerOK, SleepOK, Counter!below, counter, service
  <2>3. CountOK'
    BY <1>6, SameHandshakes DEF Progress, counter
  <2>4. QED
    BY <2>1, <2>2, <2>3 DEF Inv
<1>7. ASSUME NEW c \in Conns, Expire(c) PROVE Inv'
  <2>1. TypeOK'
    BY <1>7 DEF Expire, Inv, TypeOK, Tasks, counter, service
  <2>2. WakerOK' /\ SleepOK'
    BY <1>7 DEF Expire, Inv, WakerOK, SleepOK, Counter!below, counter, service
  <2>3. CountOK'
    BY <1>7, SameHandshakes DEF Expire, counter
  <2>4. QED
    BY <2>1, <2>2, <2>3 DEF Inv
<1>8. QED
  BY <1>1, <1>2, <1>3, <1>4, <1>5, <1>6, <1>7 DEF Handshakes, OtherWorks

-----------------------------------------------------------------------------
(* The worker's steps: it goes to sleep in two of them, and takes a         *)
(* connection only below the limit.                                         *)
LEMMA WorkerTurn ==
    ASSUME Inv, WorkerStep
    PROVE  Inv'
<1> USE ConstantsAssumption
<1>1. CASE BuildPending
  <2>1. TypeOK' /\ WakerOK' /\ SleepOK'
    BY <1>1 DEF BuildPending, Inv, TypeOK, WakerOK, SleepOK, Counter!below, counter, service, conns
  <2>2. CountOK'
    BY <1>1, SameHandshakes DEF BuildPending, counter, conns
  <2>3. QED
    BY <2>1, <2>2 DEF Inv
<1>2. CASE Built
  <2>1. TypeOK' /\ WakerOK' /\ SleepOK'
    BY <1>2 DEF Built, Inv, TypeOK, WakerOK, SleepOK, Counter!below, counter, conns
  <2>2. CountOK'
    BY <1>2, SameHandshakes DEF Built, counter, conns
  <2>3. QED
    BY <2>1, <2>2 DEF Inv
<1>3. CASE BuildFails
  <2>1. TypeOK'
    BY <1>3 DEF BuildFails, Inv, TypeOK, Stages
  <2>2. WakerOK' /\ SleepOK'
    BY <1>3 DEF BuildFails, WakerOK, SleepOK
  <2>3. Handshaking' = {}
    BY <1>3 DEF BuildFails, Handshaking
  <2>4. count' = 0 /\ capacity' \in Nat
    BY <1>3, <2>1 DEF BuildFails, TypeOK
  <2>5. CountOK'
    BY <2>3, <2>4, FS_EmptySet DEF CountOK
  <2>6. QED
    BY <2>1, <2>2, <2>5 DEF Inv
<1>4. CASE ReadinessFails
  <2>1. /\ waker' \in {Worker, NoTask}
        /\ waker' # waker => waker' = Worker /\ ~Counter!below
        /\ UNCHANGED <<capacity, count>>
    BY <1>4 DEF ReadinessFails, NewService, Inv, TypeOK, Counter!available, Counter!register
  <2>2. TypeOK'
    BY <1>4, <2>1 DEF ReadinessFails, Inv, TypeOK, conns
  <2>3. WakerOK' /\ SleepOK'
    BY <1>4, <2>1 DEF ReadinessFails, Inv, WakerOK, SleepOK, Counter!below
  <2>4. CountOK'
    BY <1>4, <2>1, SameHandshakes DEF ReadinessFails, conns
  <2>5. QED
    BY <2>2, <2>3, <2>4 DEF Inv
<1>5. CASE NotReady
  <2>1. /\ waker' \in {Worker, NoTask}
        /\ Counter!below => waker' = waker
        /\ ~Counter!below => waker' = Worker
    BY <1>5 DEF NotReady, Inv, TypeOK, Counter!available, Counter!register
  <2>2. TypeOK'
    BY <1>5, <2>1 DEF NotReady, Inv, TypeOK, conns, service
  <2>3. WakerOK'
    BY <1>5, <2>1 DEF NotReady, Inv, WakerOK, Counter!below
  <2>4. other \in {"ready", "pending"}
    BY <1>5 DEF NotReady, Inv, TypeOK
  <2>5. SleepOK'
    BY <1>5, <2>1, <2>4 DEF NotReady, Ready, SleepOK, service
  <2>6. CountOK'
    BY <1>5, SameHandshakes DEF NotReady, conns
  <2>7. QED
    BY <2>2, <2>3, <2>5, <2>6 DEF Inv
<1>6. CASE NothingQueued
  <2>1. TypeOK' /\ WakerOK' /\ SleepOK'
    BY <1>6 DEF NothingQueued, Inv, TypeOK, WakerOK, SleepOK, Counter!below,
                counter, service, conns
  <2>2. CountOK'
    BY <1>6, SameHandshakes DEF NothingQueued, counter, conns
  <2>3. QED
    BY <2>1, <2>2 DEF Inv
<1>7. ASSUME NEW c \in Conns, Call(c) PROVE Inv'
  <2>1. /\ turn = Worker /\ Counter!below /\ stage[c] = "queued"
        /\ UNCHANGED <<place, MAX_CONN, service, turn, asked, changes>>
    BY <1>7 DEF Call, Ready
  <2>2. SleepOK'
    BY <2>1 DEF SleepOK
  <2>3. CASE stage' = [stage EXCEPT ![c] = "dropped"] /\ UNCHANGED <<counter, input, expired, woken>>
    <3>1. TypeOK' /\ WakerOK'
      BY <2>1, <2>3 DEF Inv, TypeOK, Stages, WakerOK, Counter!below, counter, service
    <3>2. \A d \in Conns : stage'[d] = "handshake" <=> stage[d] = "handshake"
      BY <2>1, <2>3 DEF Inv, TypeOK
    <3>3. CountOK'
      BY <2>1, <2>3, <3>2, SameHandshakes DEF counter
    <3>4. QED
      BY <2>2, <3>1, <3>3 DEF Inv
  <2>4. CASE place # "first" /\ OtherCall(c) /\ UNCHANGED counter /\ woken' = woken \cup {c}
    <3>1. TypeOK' /\ WakerOK'
      BY <2>1, <2>4 DEF OtherCall, Inv, TypeOK, Stages, Tasks, WakerOK, Counter!below,
                        counter, service
    <3>2. \A d \in Conns : stage'[d] = "handshake" <=> stage[d] = "handshake"
      BY <2>1, <2>4 DEF OtherCall, Inv, TypeOK
    <3>3. CountOK'
      BY <2>1, <2>4, <3>2, SameHandshakes DEF counter
    <3>4. QED
      BY <2>2, <3>1, <3>3 DEF Inv
  <2>5. CASE place = "first" /\ AcceptorCall(c) /\ woken' = woken \cup {c}
    <3>1. count' = count + 1 /\ UNCHANGED <<capacity, waker>>
      BY <2>5 DEF AcceptorCall, Counter!get
    <3>2. TypeOK' /\ WakerOK'
      BY <2>1, <2>5, <3>1 DEF AcceptorCall, Inv, TypeOK, Stages, Tasks, WakerOK, Counter!below,
                              service
    <3>3. count' = Cardinality(Handshaking')
      BY <2>1, <2>5, OneMore DEF Inv, CountOK
    <3>4. count' <= capacity'
      BY <2>1, <3>1 DEF Inv, TypeOK, Counter!below
    <3>5. QED
      BY <2>2, <3>2, <3>3, <3>4 DEF Inv, CountOK
  <2>6. QED
    BY <1>7, <2>3, <2>4, <2>5 DEF Call
<1>8. QED
  BY <1>1, <1>2, <1>3, <1>4, <1>5, <1>6, <1>7 DEF WorkerStep

-----------------------------------------------------------------------------
(* What the end of a handshake leaves of the invariant, once its types are  *)
(* known.                                                                   *)
LEMMA GuardDropped ==
    ASSUME Inv, NEW c \in Conns, turn = c, stage[c] = "handshake",
           NEW to \in Stages \ {"handshake", "queued"}, stage' = [stage EXCEPT ![c] = to],
           DropGuard, UNCHANGED <<place, service, asked>>
    PROVE  /\ CountOK' /\ WakerOK' /\ SleepOK'
           /\ capacity' = capacity /\ count' \in Nat
           /\ waker' \in {Worker, NoTask} /\ woken' \subseteq Tasks
<1> USE ConstantsAssumption
<1>1. count' = Cardinality(Handshaking') /\ count' \in Nat /\ count' = count - 1
  BY OneLess DEF Inv, CountOK
<1>2. /\ WakerOK' /\ capacity' = capacity
      /\ waker' \in {Worker, NoTask} /\ woken' \subseteq Tasks /\ woken \subseteq woken'
      /\ waker = Worker /\ waker' # Worker => Worker \in woken'
  BY <1>1, DropFacts
<1>3. CountOK'
  BY <1>1, <1>2 DEF Inv, TypeOK, CountOK
<1>4. \A d \in Conns : stage'[d] = "queued" => stage[d] = "queued"
  BY DEF Inv, TypeOK
<1>5. SleepOK'
  BY <1>2, <1>4 DEF Inv, SleepOK, service
<1>6. QED
  BY <1>1, <1>2, <1>3, <1>5

LEMMA ConnTurn ==
    ASSUME Inv, NEW c \in Conns, ConnStep(c)
    PROVE  Inv'
<1> USE ConstantsAssumption
<1>1. CASE HandshakeOk(c)
  <2>1. PICK to \in {"other", "done"} :
          /\ stage' = [stage EXCEPT ![c] = to]
          /\ input' = [input EXCEPT ![c] = "none"]
          /\ expired' = [expired EXCEPT ![c] = FALSE]
          /\ turn' \in {turn, NoTask}
    BY <1>1 DEF HandshakeOk, OtherCall, End
  <2>2. /\ turn = c /\ stage[c] = "handshake" /\ DropGuard
        /\ UNCHANGED <<place, MAX_CONN, service, asked, changes>>
    BY <1>1 DEF HandshakeOk
  <2>3. /\ CountOK' /\ WakerOK' /\ SleepOK'
        /\ capacity' = capacity /\ count' \in Nat
        /\ waker' \in {Worker, NoTask} /\ woken' \subseteq Tasks
    BY <2>1, <2>2, GuardDropped DEF Stages
  <2>4. TypeOK'
    BY <2>1, <2>2, <2>3 DEF Inv, TypeOK, Stages, service
  <2>5. QED
    BY <2>3, <2>4 DEF Inv
<1>2. CASE HandshakeFails(c)
  <2>1. PICK to \in {"tls_error", "timeout"} : End(c, to)
    BY <1>2 DEF HandshakeFails
  <2>2. /\ turn = c /\ stage[c] = "handshake" /\ DropGuard
        /\ UNCHANGED <<place, MAX_CONN, service, asked, changes>>
    BY <1>2 DEF HandshakeFails
  <2>3. /\ CountOK' /\ WakerOK' /\ SleepOK'
        /\ capacity' = capacity /\ count' \in Nat
        /\ waker' \in {Worker, NoTask} /\ woken' \subseteq Tasks
    BY <2>1, <2>2, GuardDropped DEF Stages, End
  <2>4. TypeOK'
    BY <2>1, <2>2, <2>3 DEF Inv, TypeOK, Stages, service, End
  <2>5. QED
    BY <2>3, <2>4 DEF Inv
<1>3. ASSUME stage[c] = "other", turn = c, NEW to \in {"done", "service_error"}, End(c, to),
             UNCHANGED <<place, MAX_CONN, counter, service, asked, woken, changes>>
      PROVE  Inv'
  <2>1. TypeOK' /\ WakerOK'
    BY <1>3 DEF End, Inv, TypeOK, Stages, WakerOK, Counter!below, counter, service
  <2>2. \A d \in Conns : /\ stage'[d] = "handshake" <=> stage[d] = "handshake"
                         /\ stage'[d] = "queued" <=> stage[d] = "queued"
    BY <1>3 DEF End, Inv, TypeOK
  <2>3. SleepOK'
    BY <1>3, <2>2 DEF End, Inv, SleepOK, counter, service
  <2>4. CountOK'
    BY <1>3, <2>2, SameHandshakes DEF counter
  <2>5. QED
    BY <2>1, <2>3, <2>4 DEF Inv
<1>4. CASE OtherOk(c) /\ place # "first"
  <2>1. /\ stage[c] = "other" /\ turn = c /\ turn' = turn /\ AcceptorCall(c)
        /\ UNCHANGED <<place, MAX_CONN, service, asked, woken, changes>>
    BY <1>4 DEF OtherOk
  <2>2. count' = count + 1 /\ UNCHANGED <<capacity, waker>>
    BY <2>1 DEF AcceptorCall, Counter!get
  <2>3. TypeOK' /\ WakerOK'
    BY <2>1, <2>2 DEF AcceptorCall, Inv, TypeOK, Stages, WakerOK, Counter!below, service
  <2>4. \A d \in Conns : stage'[d] = "queued" <=> stage[d] = "queued"
    BY <2>1 DEF AcceptorCall, Inv, TypeOK
  <2>5. SleepOK'
    BY <2>1, <2>2, <2>4 DEF Inv, SleepOK, service
  <2>6. count' = Cardinality(Handshaking')
    BY <2>1, OneMore DEF Inv, CountOK
  <2>7. QED
    BY <1>4, <2>1, <2>3, <2>5, <2>6 DEF Inv, CountOK
<1>5. CASE PollPending(c)
  <2>1. TypeOK' /\ WakerOK' /\ SleepOK'
    BY <1>5 DEF PollPending, Inv, TypeOK, WakerOK, SleepOK, Counter!below, counter, service, conns
  <2>2. CountOK'
    BY <1>5, SameHandshakes DEF PollPending, counter, conns
  <2>3. QED
    BY <2>1, <2>2 DEF Inv
<1>6. CASE OtherFails(c)
  BY <1>3, <1>6 DEF OtherFails
<1>7. CASE OtherOk(c) /\ place = "first"
  BY <1>3, <1>7 DEF OtherOk
<1>8. QED
  BY <1>1, <1>2, <1>4, <1>5, <1>6, <1>7 DEF ConnStep

LEMMA PollStarts ==
    ASSUME Inv, NEW t \in Tasks, StartPoll(t)
    PROVE  Inv'
<1> USE ConstantsAssumption
<1>1. TypeOK' /\ WakerOK'
  BY DEF StartPoll, Inv, TypeOK, WakerOK, Counter!below, counter, service, conns
<1>2. SleepOK'
  BY DEF StartPoll, Inv, SleepOK, counter, service, conns
<1>3. CountOK'
  BY SameHandshakes DEF StartPoll, counter, conns
<1>4. QED
  BY <1>1, <1>2, <1>3 DEF Inv

LEMMA NextInv == Inv /\ [Next]_vars => Inv'
<1> SUFFICES ASSUME Inv, [Next]_vars PROVE Inv'
  OBVIOUS
<1>1. CASE UNCHANGED vars
  <2>1. TypeOK' /\ WakerOK' /\ SleepOK'
    BY <1>1 DEF Inv, TypeOK, WakerOK, SleepOK, Counter!below, vars, counter, service, conns
  <2>2. CountOK'
    BY <1>1, SameHandshakes DEF vars, counter, conns
  <2>3. QED
    BY <2>1, <2>2 DEF Inv
<1>2. CASE Next
  BY <1>2, EnvironmentStep, WorkerTurn, ConnTurn, PollStarts DEF Next
<1>3. QED
  BY <1>1, <1>2

LEMMA InvHolds == Spec => []Inv
BY InitInv, NextInv, PTL DEF Spec

-----------------------------------------------------------------------------
(* Every variable of the acceptor's thread keeps its type; the counter      *)
(* never goes below zero.                                                   *)
THEOREM TypeCorrect == Spec => []TypeOK
<1>1. Inv => TypeOK
  BY DEF Inv
<1>2. QED
  BY InvHolds, <1>1, PTL

(* Whatever is set later, whatever is restarted: a pipeline that starts     *)
(* with the acceptor never runs more handshakes at once than the limit its  *)
(* thread took.                                                             *)
THEOREM HandshakesLimited == Spec => []LimitRespected
<1>1. Inv => LimitRespected
  BY InvImplies
<1>2. QED
  BY InvHolds, <1>1, PTL

(* A guard, a service or a connection that ends what the worker waits for   *)
(* finds its waker.                                                         *)
THEOREM WakesNeverLost == Spec => []NoLostWake
<1>1. Inv => NoLostWake
  BY InvImplies
<1>2. QED
  BY InvHolds, <1>1, PTL

-----------------------------------------------------------------------------
(* The connector.                                                           *)

(* The lists, and what ConnectInfo makes of one.                            *)
Lists ==
    /\ candidates \in Seq(Addrs) /\ addrs \in Seq(Addrs)
    /\ tried \in Seq([to : Addrs, res : {"ok", "err"}])
    /\ addr.list \in Seq(Addrs)

ShapeOK(a) ==
    /\ a.variant = "None" <=> a.list = <<>>
    /\ a.variant = "Multi" \/ Len(a.list) <= 1

(* The attempts that ended are the first addresses, and those before number *)
(* n have failed.                                                           *)
TriedInOrder(n) ==
    /\ Len(tried) <= Len(candidates)
    /\ \A k \in 1 .. Len(tried) : tried[k].to = candidates[k]
    /\ \A k \in 1 .. Len(tried) : k < n => tried[k].res = "err"

(* What the TCP connector has left is what has not been tried; the attempt  *)
(* under way is at the address after those that were.                       *)
Attempting ==
    /\ stream \in Addrs
    /\ io = "pending" =>
         /\ TriedInOrder(Len(tried) + 1)
         /\ Len(candidates) = Len(tried) + 1 + Len(addrs)
         /\ stream = candidates[Len(tried) + 1]
         /\ \A k \in 1 .. Len(addrs) : addrs[k] = candidates[Len(tried) + 1 + k]
    /\ io # "pending" =>
         /\ TriedInOrder(Len(tried))
         /\ Len(tried) # 0 /\ tried[Len(tried)].res = io
         /\ Len(candidates) = Len(tried) + Len(addrs)
         /\ \A k \in 1 .. Len(addrs) : addrs[k] = candidates[Len(tried) + k]

Stage ==
    CASE fut = "resolved" -> /\ tried = <<>> /\ candidates = addr.list /\ ShapeOK(addr)
                             /\ result = "none" /\ answer = "pending"
      [] fut = "lookup" -> /\ tried = <<>> /\ result = "none"
                           /\ answer \in {"pending", "err", "cancelled", "ok"}
      [] fut = "tcp" -> Attempting /\ result = "none" /\ answer \in {"pending", "ok"}
      [] fut = "tls" -> /\ TriedInOrder(Len(tried)) /\ Len(tried) # 0
                        /\ tried[Len(tried)].res = "ok"
                        /\ result = "none" /\ answer \in {"pending", "ok"}
      [] fut = "end" -> FirstReachableWins
      [] OTHER -> FALSE

RequestInv == Lists /\ io \in {"pending", "ok", "err"} /\ Stage

LEMMA RequestInvImplies == RequestInv => FirstReachableWins
<1> SUFFICES ASSUME RequestInv PROVE FirstReachableWins
  OBVIOUS
<1>1. Len(tried) \in Nat /\ Len(candidates) \in Nat
  BY DEF RequestInv, Lists
<1>2. CASE fut \in {"resolved", "lookup"}
  <2>1. tried = <<>> /\ result = "none"
    BY <1>2 DEF RequestInv, Stage
  <2>2. QED
    BY <1>1, <2>1 DEF FirstReachableWins
<1>3. CASE fut = "tcp"
  <2>1. result = "none" /\ Attempting
    BY <1>3 DEF RequestInv, Stage
  <2>2. QED
    BY <1>1, <2>1 DEF FirstReachableWins, Attempting, TriedInOrder
<1>4. CASE fut = "tls"
  <2>1. result = "none" /\ TriedInOrder(Len(tried))
    BY <1>4 DEF RequestInv, Stage
  <2>2. QED
    BY <1>1, <2>1 DEF FirstReachableWins, TriedInOrder
<1>5. CASE fut = "end"
  BY <1>5 DEF RequestInv, Stage
<1>6. fut \in {"resolved", "lookup", "tcp", "tls", "end"}
  BY DEF RequestInv, Stage
<1>7. QED
  BY <1>2, <1>3, <1>4, <1>5, <1>6

(* The lists of the environment are sequences, and set_addrs keeps them.    *)
LEMMA ListsAreSequences ==
    ASSUME NEW list \in AddrLists
    PROVE  list \in Seq(Addrs)
<1>1. PICK n \in 0 .. MaxAddrs : list \in [1 .. n -> Addrs]
  BY DEF AddrLists
<1>2. n \in Nat
  BY AddressesAssumption
<1>3. QED
  BY <1>1, <1>2, SeqDef

LEMMA SetAddrs ==
    ASSUME NEW list \in Seq(Addrs)
    PROVE  set_addrs(list).list = list /\ ShapeOK(set_addrs(list))
<1>1. PICK n \in Nat : n = Len(list)
  OBVIOUS
<1>2. list = <<>> <=> n = 0
  BY <1>1, EmptySeq
<1>3. CASE n >= 2
  <2>1. set_addrs(list) = [variant |-> "Multi", list |-> list]
    BY <1>1, <1>3 DEF set_addrs
  <2>2. list # <<>>
    BY <1>2, <1>3
  <2>3. QED
    BY <2>1, <2>2 DEF ShapeOK
<1>4. CASE n = 0
  <2>1. list = <<>>
    BY <1>2, <1>4
  <2>2. QED
    BY <2>1 DEF set_addrs, From, None, ShapeOK
<1>5. CASE n = 1
  <2>1. list # <<>>
    BY <1>2, <1>5
  <2>2. list = <<Head(list)>>
    <3>1. Head(list) = list[1] /\ Head(list) \in Addrs
      BY <2>1
    <3>2. <<Head(list)>> \in Seq(Addrs) /\ Len(<<Head(list)>>) = 1 /\ <<Head(list)>>[1] = list[1]
      BY <3>1
    <3>3. \A k \in 1 .. Len(list) : list[k] = <<Head(list)>>[k]
      BY <1>1, <1>5, <3>2
    <3>4. QED
      BY <1>1, <1>5, <3>2, <3>3, SeqEqual
  <2>3. set_addrs(list) = From(list)
    BY <1>1, <1>5 DEF set_addrs
  <2>4. set_addrs(list) = [variant |-> "One", list |-> <<Head(list)>>]
    BY <2>1, <2>3 DEF From
  <2>5. set_addrs(list).variant = "One" /\ set_addrs(list).list = list
    BY <2>2, <2>4
  <2>6. Len(list) <= 1
    BY <1>1, <1>5
  <2>7. ShapeOK(set_addrs(list))
    BY <2>1, <2>5, <2>6 DEF ShapeOK
  <2>8. QED
    BY <2>5, <2>7
<1>6. QED
  BY <1>3, <1>4, <1>5

LEMMA Singleton ==
    ASSUME NEW list \in Seq(Addrs), list # <<>>, Len(list) <= 1
    PROVE  Len(list) = 1
<1>1. Len(list) \in Nat /\ Len(list) # 0
  OBVIOUS
<1>2. QED
  BY <1>1

LEMMA NewRequestInv == NewRequest => RequestInv
<1> SUFFICES ASSUME NewRequest PROVE RequestInv
  OBVIOUS
<1>1. PICK list \in AddrLists : addr = set_addrs(list)
  BY DEF NewRequest, Requests
<1>2. list \in Seq(Addrs) /\ addr.list = list /\ ShapeOK(addr)
  BY <1>1, ListsAreSequences, SetAddrs
<1>3. Lists
  BY <1>2 DEF NewRequest, Lists
<1>4. Stage
  BY <1>2 DEF NewRequest, ResolverCall, Stage
<1>5. QED
  BY <1>3, <1>4 DEF NewRequest, RequestInv

-----------------------------------------------------------------------------
(* A call of the TCP connector with the whole list, before any attempt.     *)
LEMMA TcpCalled ==
    ASSUME NEW a, ShapeOK(a), a.list \in Seq(Addrs), TcpCall(a),
           tried' = <<>>, candidates' = a.list, addr'.list \in Seq(Addrs),
           result = "none", answer' \in {"pending", "ok"}, RequestInv
    PROVE  RequestInv'
<1>1. CASE a.list = <<>>
  <2>1. result' = "Unresolved" /\ fut' = "end" /\ UNCHANGED <<addrs, io>>
    BY <1>1 DEF ShapeOK, TcpCall, is_unresolved, Finish
  <2>2. FirstReachableWins'
    BY <1>1, <2>1 DEF FirstReachableWins
  <2>3. Stage'
    BY <2>1, <2>2 DEF Stage
  <2>4. Lists'
    BY <2>1 DEF RequestInv, Lists
  <2>5. QED
    BY <2>1, <2>3, <2>4 DEF RequestInv
<1>2. CASE a.list # <<>>
  <2>1. /\ fut' = "tcp" /\ stream' = Head(a.list) /\ io' = "pending" /\ result' = result
        /\ addrs' = IF a.variant = "Multi" THEN Tail(a.list) ELSE <<>>
    BY <1>2 DEF ShapeOK, TcpCall, is_unresolved
  <2>2. /\ Len(a.list) \in Nat \ {0} /\ Head(a.list) = a.list[1] /\ Head(a.list) \in Addrs
        /\ Tail(a.list) \in Seq(Addrs) /\ Len(Tail(a.list)) = Len(a.list) - 1
        /\ \A k \in 1 .. Len(a.list) - 1 : Tail(a.list)[k] = a.list[k + 1]
    BY <1>2
  <2>3. /\ addrs' \in Seq(Addrs) /\ Len(addrs') = Len(a.list) - 1
        /\ \A k \in 1 .. Len(addrs') : addrs'[k] = a.list[k + 1]
    <3>1. CASE a.variant = "Multi"
      BY <2>1, <2>2, <3>1
    <3>2. CASE a.variant # "Multi"
      <4>1. Len(a.list) <= 1
        BY <3>2 DEF ShapeOK
      <4>2. Len(a.list) = 1
        BY <1>2, <4>1, Singleton
      <4>3. addrs' = <<>>
        BY <2>1, <3>2
      <4>4. QED
        BY <4>2, <4>3
    <3>3. QED
      BY <3>1, <3>2
  <2>4. Len(tried') = 0
    OBVIOUS
  <2>5. TriedInOrder(Len(tried) + 1)'
    BY <2>2, <2>4 DEF TriedInOrder
  <2>6. Attempting'
    BY <2>1, <2>2, <2>3, <2>4, <2>5 DEF Attempting
  <2>7. Stage'
    BY <2>1, <2>6 DEF Stage
  <2>8. Lists'
    BY <2>3 DEF Lists
  <2>9. QED
    BY <2>1, <2>7, <2>8 DEF RequestInv
<1>3. QED
  BY <1>1, <1>2

(* A request that ends keeps its lists; what is left to show is the         *)
(* property, for its result.                                                *)
LEMMA Finished ==
    ASSUME RequestInv, NEW res, Finish(res), UNCHANGED <<candidates, tried>>, addr'.list \in Seq(Addrs),
           FirstReachableWins'
    PROVE  RequestInv'
<1>1. fut' = "end" /\ UNCHANGED <<addrs, io>>
  BY DEF Finish
<1>2. Stage'
  BY <1>1 DEF Stage
<1>3. QED
  BY <1>1, <1>2 DEF RequestInv, Lists

LEMMA NothingDone ==
    ASSUME RequestInv, UNCHANGED <<addr, fut, answer, addrs, stream, io, result, candidates, tried>>
    PROVE  RequestInv'
BY DEF RequestInv, Lists, Stage, Attempting, TriedInOrder, ShapeOK, FirstReachableWins

-----------------------------------------------------------------------------
LEMMA LookupEnded ==
    ASSUME RequestInv, LookupEnds
    PROVE  RequestInv'
<1>1. /\ fut = "lookup" /\ UNCHANGED <<addr, fut, addrs, stream, io, result, tried>>
      /\ answer' \in {"ok", "err", "cancelled"}
      /\ candidates' \in AddrLists \/ candidates' = candidates
  BY DEF LookupEnds
<1>2. candidates' \in Seq(Addrs)
  BY <1>1, ListsAreSequences DEF RequestInv, Lists
<1>3. Lists'
  BY <1>1, <1>2 DEF RequestInv, Lists
<1>4. Stage'
  BY <1>1 DEF RequestInv, Stage
<1>5. QED
  BY <1>1, <1>3, <1>4 DEF RequestInv

LEMMA AttemptEnded ==
    ASSUME RequestInv, AttemptEnds
    PROVE  RequestInv'
<1>1. /\ fut = "tcp" /\ io = "pending" /\ io' \in {"ok", "err"}
      /\ tried' = Append(tried, [to |-> stream, res |-> io'])
      /\ UNCHANGED <<addr, fut, answer, addrs, stream, result, candidates>>
  BY DEF AttemptEnds
<1>2. /\ stream \in Addrs /\ TriedInOrder(Len(tried) + 1)
      /\ Len(candidates) = Len(tried) + 1 + Len(addrs)
      /\ stream = candidates[Len(tried) + 1]
      /\ \A k \in 1 .. Len(addrs) : addrs[k] = candidates[Len(tried) + 1 + k]
      /\ result = "none" /\ answer \in {"pending", "ok"}
  BY <1>1 DEF RequestInv, Stage, Attempting
<1>3. /\ Len(tried) \in Nat /\ Len(addrs) \in Nat
      /\ tried' \in Seq([to : Addrs, res : {"ok", "err"}])
      /\ Len(tried') = Len(tried) + 1
      /\ \A k \in 1 .. Len(tried) : tried'[k] = tried[k]
      /\ tried'[Len(tried) + 1] = [to |-> stream, res |-> io']
  BY <1>1, <1>2 DEF RequestInv, Lists
<1>4. TriedInOrder(Len(tried))'
  BY <1>1, <1>2, <1>3 DEF TriedInOrder
<1>5. Attempting'
  BY <1>1, <1>2, <1>3, <1>4 DEF Attempting
<1>6. Stage'
  BY <1>1, <1>2, <1>5 DEF Stage
<1>7. Lists'
  BY <1>1, <1>3 DEF RequestInv, Lists
<1>8. QED
  BY <1>1, <1>6, <1>7 DEF RequestInv

LEMMA HandshakeEnded ==
    ASSUME RequestInv, HandshakeEnds
    PROVE  RequestInv'
<1>1. /\ fut = "tls" /\ io' \in {"ok", "err"}
      /\ UNCHANGED <<addr, fut, answer, addrs, stream, result, candidates, tried>>
  BY DEF HandshakeEnds
<1>2. Stage'
  BY <1>1 DEF RequestInv, Stage, TriedInOrder
<1>3. QED
  BY <1>1, <1>2 DEF RequestInv, Lists

LEMMA ResolvedStep ==
    ASSUME RequestInv, Resolved
    PROVE  RequestInv'
<1>1. /\ fut = "resolved" /\ TcpCall(addr') /\ candidates' = addr'.list
      /\ UNCHANGED <<answer, tried>>
      /\ addr' = addr \/ \E a \in Addrs : addr' = From(<<a>>)
  BY DEF Resolved
<1>2. tried = <<>> /\ ShapeOK(addr) /\ result = "none" /\ answer = "pending"
      /\ addr.list \in Seq(Addrs)
  BY <1>1 DEF RequestInv, Stage, Lists
<1>3. ShapeOK(addr') /\ addr'.list \in Seq(Addrs)
  <2>1. CASE addr' = addr
    BY <1>2, <2>1
  <2>2. ASSUME NEW a \in Addrs, addr' = From(<<a>>)
        PROVE  ShapeOK(addr') /\ addr'.list \in Seq(Addrs)
    <3>1. addr' = [variant |-> "One", list |-> <<a>>]
      BY <2>2 DEF From
    <3>2. QED
      BY <3>1 DEF ShapeOK
  <2>3. QED
    BY <1>1, <2>1, <2>2
<1>4. QED
  BY <1>1, <1>2, <1>3, TcpCalled

LEMMA LookUpStep ==
    ASSUME RequestInv, LookUp
    PROVE  RequestInv'
<1>1. /\ fut = "lookup" /\ answer = "ok" /\ addr' = set_addrs(candidates)
      /\ UNCHANGED <<answer, candidates, tried>>
  BY DEF LookUp
<1>2. tried = <<>> /\ result = "none" /\ candidates \in Seq(Addrs)
  BY <1>1 DEF RequestInv, Stage, Lists
<1>3. addr'.list = candidates /\ ShapeOK(addr')
  BY <1>1, <1>2, SetAddrs
<1>4. CASE is_unresolved(addr')
  <2>1. candidates = <<>> /\ Finish("NoRecords")
    BY <1>3, <1>4 DEF LookUp, is_unresolved, ShapeOK
  <2>2. FirstReachableWins'
    BY <1>1, <1>2, <2>1 DEF FirstReachableWins, Finish
  <2>3. QED
    BY <1>1, <1>2, <1>3, <2>1, <2>2, Finished
<1>5. CASE ~is_unresolved(addr')
  <2>1. TcpCall(addr')
    BY <1>5 DEF LookUp
  <2>2. QED
    BY <1>1, <1>2, <1>3, <2>1, TcpCalled
<1>6. QED
  BY <1>4, <1>5

LEMMA LookUpFailed ==
    ASSUME RequestInv, LookUpFails
    PROVE  RequestInv'
<1>1. /\ fut = "lookup" /\ answer \in {"err", "cancelled"}
      /\ UNCHANGED <<addr, answer, candidates, tried>>
      /\ Finish(IF answer = "err" THEN "Resolver" ELSE "Io")
  BY DEF LookUpFails
<1>2. tried = <<>> /\ candidates \in Seq(Addrs) /\ addr.list \in Seq(Addrs)
  BY <1>1 DEF RequestInv, Stage, Lists
<1>3. FirstReachableWins'
  BY <1>1, <1>2 DEF FirstReachableWins, Finish
<1>4. QED
  BY <1>1, <1>2, <1>3, Finished

LEMMA ConnectedStep ==
    ASSUME RequestInv, Connected
    PROVE  RequestInv'
<1>1. fut = "tcp" /\ io = "ok" /\ UNCHANGED <<addr, answer, candidates, tried>>
  BY DEF Connected
<1>2. /\ TriedInOrder(Len(tried)) /\ Len(tried) # 0 /\ tried[Len(tried)].res = "ok"
      /\ result = "none" /\ answer \in {"pending", "ok"}
      /\ Len(tried) \in Nat /\ addr.list \in Seq(Addrs)
  BY <1>1 DEF RequestInv, Stage, Attempting, Lists
<1>3. ASSUME NEW res \in {"ok", "InvalidServerName"}, Finish(res) PROVE RequestInv'
  <2>1. FirstReachableWins'
    BY <1>1, <1>2, <1>3 DEF FirstReachableWins, TriedInOrder, Finish
  <2>2. QED
    BY <1>1, <1>2, <1>3, <2>1, Finished
<1>4. CASE fut' = "tls" /\ io' = "pending" /\ UNCHANGED <<addrs, stream, result, polling>>
  <2>1. Stage'
    BY <1>1, <1>2, <1>4 DEF Stage, TriedInOrder
  <2>2. QED
    BY <1>1, <1>4, <2>1 DEF RequestInv, Lists
<1>5. QED
  BY <1>3, <1>4 DEF Connected

LEMMA ReconnectStep ==
    ASSUME RequestInv, Reconnect
    PROVE  RequestInv'
<1>1. /\ fut = "tcp" /\ io = "err" /\ addrs # <<>>
      /\ stream' = Head(addrs) /\ addrs' = Tail(addrs) /\ io' = "pending"
      /\ UNCHANGED <<addr, fut, answer, result, candidates, tried>>
  BY DEF Reconnect
<1>2. /\ TriedInOrder(Len(tried)) /\ Len(tried) # 0 /\ tried[Len(tried)].res = "err"
      /\ Len(candidates) = Len(tried) + Len(addrs)
      /\ \A k \in 1 .. Len(addrs) : addrs[k] = candidates[Len(tried) + k]
      /\ result = "none" /\ answer \in {"pending", "ok"} /\ Len(tried) \in Nat
  BY <1>1 DEF RequestInv, Stage, Attempting, Lists
<1>3. /\ Len(addrs) \in Nat \ {0} /\ Head(addrs) = addrs[1] /\ Head(addrs) \in Addrs
      /\ Tail(addrs) \in Seq(Addrs) /\ Len(Tail(addrs)) = Len(addrs) - 1
      /\ \A k \in 1 .. Len(addrs) - 1 : Tail(addrs)[k] = addrs[k + 1]
  BY <1>1 DEF RequestInv, Lists
<1>4. TriedInOrder(Len(tried) + 1)'
  BY <1>1, <1>2 DEF TriedInOrder
<1>5. stream' = candidates[Len(tried) + 1]
  BY <1>1, <1>2, <1>3
<1>6. \A k \in 1 .. Len(addrs') : addrs'[k] = candidates[Len(tried) + 1 + k]
  <2>1. SUFFICES ASSUME NEW k \in 1 .. Len(addrs) - 1
                 PROVE  Tail(addrs)[k] = candidates[Len(tried) + 1 + k]
    BY <1>1, <1>3
  <2>2. addrs[k + 1] = candidates[Len(tried) + (k + 1)]
    BY <1>2, <1>3
  <2>3. Len(tried) + (k + 1) = Len(tried) + 1 + k
    BY <1>2
  <2>4. QED
    BY <1>3, <2>2, <2>3
<1>7. Attempting'
  BY <1>1, <1>2, <1>3, <1>4, <1>5, <1>6 DEF Attempting
<1>8. Stage'
  BY <1>1, <1>2, <1>7 DEF Stage
<1>9. QED
  BY <1>1, <1>3, <1>8 DEF RequestInv, Lists

LEMMA UnreachableStep ==
    ASSUME RequestInv, Unreachable
    PROVE  RequestInv'
<1>1. /\ fut = "tcp" /\ io = "err" /\ addrs = <<>> /\ Finish("Io")
      /\ UNCHANGED <<addr, answer, candidates, tried>>
  BY DEF Unreachable
<1>2. /\ TriedInOrder(Len(tried)) /\ Len(tried) # 0 /\ tried[Len(tried)].res = "err"
      /\ Len(candidates) = Len(tried) + Len(addrs)
      /\ Len(tried) \in Nat /\ addr.list \in Seq(Addrs)
  BY <1>1 DEF RequestInv, Stage, Attempting, Lists
<1>3. Len(candidates) = Len(tried)
  BY <1>1, <1>2
<1>4. FirstReachableWins'
  BY <1>1, <1>2, <1>3 DEF FirstReachableWins, TriedInOrder, Finish
<1>5. QED
  BY <1>1, <1>2, <1>4, Finished

LEMMA HandshakenStep ==
    ASSUME RequestInv, Handshaken
    PROVE  RequestInv'
<1>1. /\ fut = "tls" /\ UNCHANGED <<addr, answer, candidates, tried>>
      /\ Finish(IF io = "ok" THEN "ok" ELSE "Handshake")
  BY DEF Handshaken
<1>2. /\ TriedInOrder(Len(tried)) /\ Len(tried) # 0 /\ tried[Len(tried)].res = "ok"
      /\ Len(tried) \in Nat /\ addr.list \in Seq(Addrs)
  BY <1>1 DEF RequestInv, Stage, Lists
<1>3. FirstReachableWins'
  BY <1>1, <1>2 DEF FirstReachableWins, TriedInOrder, Finish
<1>4. QED
  BY <1>1, <1>2, <1>3, Finished

LEMMA RequestStepInv == RequestInv /\ [RequestStep]_request => RequestInv'
<1> SUFFICES ASSUME RequestInv, [RequestStep]_request PROVE RequestInv'
  OBVIOUS
<1>1. CASE UNCHANGED request \/ PollRequest \/ Pending
  <2>1. UNCHANGED <<addr, fut, answer, addrs, stream, io, result, candidates, tried>>
    BY <1>1 DEF request, PollRequest, Pending
  <2>2. QED
    BY <2>1, NothingDone
<1>2. QED
  BY <1>1, LookupEnded, AttemptEnded, HandshakeEnded, ResolvedStep, LookUpStep, LookUpFailed,
     ConnectedStep, ReconnectStep, UnreachableStep, HandshakenStep DEF RequestStep, Poll

(* A request tries its addresses one after the other in the order it was    *)
(* given them, and ends with the first that answers, or with an error when  *)
(* all have failed; however many there are.                                 *)
THEOREM FallsBackInOrder == RequestSpec => []FirstReachableWins
<1>1. RequestSpec => []RequestInv
  BY NewRequestInv, RequestStepInv, PTL DEF RequestSpec
<1>2. QED
  BY <1>1, RequestInvImplies, PTL
=============================================================================
