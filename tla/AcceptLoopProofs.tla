------------------------- MODULE AcceptLoopProofs -------------------------
(***************************************************************************)
(* Proofs about AcceptLoop, for every number of workers and listeners,     *)
(* every limit and every value of the bounds.                              *)
(***************************************************************************)
EXTENDS AcceptLoop, SequenceTheorems, TLAPS

(* Where the accept thread stands: in the poll no event is left over,       *)
(* inside accept() it has a listener, and between counting and sending it   *)
(* has a worker.                                                            *)
PcOK ==
    /\ pc = "poll" => events = {}
    /\ pc \in {"accept", "one", "send"} => scan # <<>>
    /\ pc = "send" => next_worker < Len(handles)

TypeInv == TypeOK /\ PcOK

-----------------------------------------------------------------------------
(* The interests: what membership in WakerInterest says of a record.        *)

LEMMA InterestType ==
    /\ \A i \in Idx : WorkerAvailable(i) \in WakerInterest
    /\ \A w \in Inst : Worker(w) \in WakerInterest
    /\ Pause \in WakerInterest /\ Resume \in WakerInterest /\ Stop \in WakerInterest
BY DEF WakerInterest

LEMMA InterestFields ==
    ASSUME NEW m \in WakerInterest
    PROVE  /\ m.type = "WorkerAvailable" => m.idx \in Idx /\ m = WorkerAvailable(m.idx)
           /\ m.type = "Worker" => m.handle \in Inst /\ m = Worker(m.handle)
BY DEF WakerInterest, WorkerAvailable, Worker, Pause, Resume, Stop

LEMMA InstFields ==
    ASSUME NEW w \in Inst
    PROVE  w[1] \in Idx /\ w[2] \in Gens /\ w = <<w[1], w[2]>>
BY DEF Inst

LEMMA SwapRemoveType ==
    ASSUME NEW S, NEW s \in Seq(S), s # <<>>, NEW k \in 1 .. Len(s)
    PROVE  /\ SwapRemove(s, k) \in Seq(S)
           /\ Len(SwapRemove(s, k)) = Len(s) - 1
           /\ \A j \in 1 .. Len(s) - 1 :
                SwapRemove(s, k)[j] = IF j = k THEN s[Len(s)] ELSE s[j]
<1>1. Len(s) \in Nat \ {0}
  OBVIOUS
<1>2. \A j \in 1 .. Len(s) - 1 : (IF j = k THEN s[Len(s)] ELSE s[j]) \in S
  BY <1>1
<1>3. QED
  BY <1>1, <1>2 DEF SwapRemove

-----------------------------------------------------------------------------
LEMMA TypeInit == Init => TypeInv
<1> SUFFICES ASSUME Init PROVE TypeInv
  OBVIOUS
<1> USE ConstantsAssumption
<1>1. handles \in Seq(Inst)
  <2>1. \A k \in 1 .. NumWorkers : <<k - 1, 0>> \in Inst
    BY DEF Inst, Idx, Gens
  <2>2. QED
    BY <2>1 DEF Init
<1>2. 0 \in Listeners /\ 0 \in Gens
  BY DEF Listeners, Gens
<1>3. scan \in Seq(Listeners) /\ queue \in Seq(WakerInterest) /\ cmds \in Seq(Idx)
  BY DEF Init
<1>4. /\ alive \in [Inst -> {"unborn", "alive", "dead"}]
      /\ wwake \in [Inst -> {"idle", "push", "signal"}]
      /\ ltimeout \in [Listeners -> {"none", "armed", "due"}]
  BY DEF Init
<1>5. PcOK
  BY DEF Init, PcOK
<1>6. /\ reg \subseteq Listeners /\ ready \subseteq Listeners
      /\ backlog \in [Listeners -> Nat]
      /\ cnt \in [Inst -> Int] /\ chan \in [Inst -> Nat] /\ active \in [Inst -> Nat]
      /\ gen \in [Idx -> Gens]
  BY <1>2 DEF Init
<1>7. /\ pc = "poll" /\ events = {} /\ ret = "events"
      /\ forced \in BOOLEAN /\ inc_res \in BOOLEAN /\ paused \in BOOLEAN
      /\ timeout \in BOOLEAN /\ signalled \in BOOLEAN
      /\ next_worker = 0 /\ next_listener = 0 /\ avail = Idx
      /\ srv = "run" /\ swake = "idle" /\ arrived = 0 /\ errors = 0 /\ ncmds = 0
  BY DEF Init
<1>8. QED
  BY <1>1, <1>2, <1>3, <1>4, <1>5, <1>6, <1>7 DEF TypeInv, TypeOK


-----------------------------------------------------------------------------
(* What the parts shared by several actions do to the types.                *)

LEMMA RegisterType ==
    ASSUME TypeOK, NEW S \in SUBSET Listeners, RegisterAll(S) \/ DeregisterAll(S)
    PROVE  reg' \subseteq Listeners /\ ready' \subseteq Listeners
<1>1. CASE RegisterAll(S)
  BY <1>1 DEF RegisterAll, TypeOK
<1>2. CASE DeregisterAll(S)
  BY <1>2 DEF DeregisterAll, TypeOK
<1>3. QED
  BY <1>1, <1>2

LEMMA DeregisterAllType ==
    ASSUME TypeOK,
           deregister_all \/ UNCHANGED <<ltimeout, reg, ready>>
    PROVE  /\ ltimeout' \in [Listeners -> {"none", "armed", "due"}]
           /\ reg' \subseteq Listeners /\ ready' \subseteq Listeners
<1>1. CASE deregister_all
  BY <1>1, RegisterType DEF deregister_all
<1>2. CASE UNCHANGED <<ltimeout, reg, ready>>
  BY <1>2 DEF TypeOK
<1>3. QED
  BY <1>1, <1>2

LEMMA ProcessTimeoutType ==
    ASSUME TypeOK,
           process_timeout \/ UNCHANGED <<ltimeout, timeout, reg, ready>>
    PROVE  /\ ltimeout' \in [Listeners -> {"none", "armed", "due"}]
           /\ timeout' \in BOOLEAN
           /\ reg' \subseteq Listeners /\ ready' \subseteq Listeners
<1>1. CASE process_timeout
  <2>1. ltimeout' \in [Listeners -> {"none", "armed", "due"}]
    BY <1>1 DEF process_timeout, TypeOK
  <2>2. timeout' \in BOOLEAN
    BY <1>1 DEF process_timeout
  <2>3. QED
    BY <1>1, <2>1, <2>2, RegisterType DEF process_timeout
<1>2. CASE UNCHANGED <<ltimeout, timeout, reg, ready>>
  BY <1>2 DEF TypeOK
<1>3. QED
  BY <1>1, <1>2

LEMMA PoppedType ==
    ASSUME TypeOK, NEW t, Popped(t)
    PROVE  /\ Head(queue) \in WakerInterest
           /\ queue' \in Seq(WakerInterest)
           /\ t = "WorkerAvailable" => Head(queue).idx \in Idx
           /\ t = "Worker" => Head(queue).handle \in Inst
<1>1. Head(queue) \in WakerInterest /\ queue' \in Seq(WakerInterest)
  BY DEF Popped, TypeOK
<1>2. QED
  BY <1>1, InterestFields DEF Popped

LEMMA AcceptAllType ==
    ASSUME TypeInv, pc = "waker", accept_all \/ UNCHANGED <<pc, ret, scan>>
    PROVE  /\ pc' \in {"accept", "waker"}
           /\ ret' \in {"events", "waker"}
           /\ scan' \in Seq(Listeners)
           /\ pc' = "accept" => scan' # <<>>
<1>1. CASE accept_all
  <2>1. \A k \in 1 .. NumListeners : (next_listener + k - 1) % NumListeners \in Listeners
    BY ConstantsAssumption DEF TypeInv, TypeOK, Listeners
  <2>2. /\ scan' \in Seq(Listeners)
        /\ Len(scan') = NumListeners
    BY <1>1, <2>1, ConstantsAssumption DEF accept_all
  <2>3. scan' # <<>>
    BY <2>2, ConstantsAssumption
  <2>4. QED
    BY <1>1, <2>2, <2>3 DEF accept_all
<1>2. CASE UNCHANGED <<pc, ret, scan>>
  BY <1>2 DEF TypeInv, TypeOK
<1>3. QED
  BY <1>1, <1>2

LEMMA AcceptReturnType ==
    ASSUME TypeInv, pc = "accept", AcceptReturn
    PROVE  /\ scan' \in Seq(Listeners)
           /\ pc' \in {"accept", "events", "waker"}
           /\ pc' = "accept" => scan' # <<>>
           /\ next_listener' \in Listeners
<1>1. scan \in Seq(Listeners) /\ scan # <<>>
  BY DEF TypeInv, TypeOK, PcOK
<1>2. (next_listener + 1) % NumListeners \in Listeners
  BY ConstantsAssumption DEF TypeInv, TypeOK, Listeners
<1>3. scan' \in Seq(Listeners)
  BY <1>1 DEF AcceptReturn
<1>4. QED
  BY <1>2, <1>3 DEF AcceptReturn, TypeInv, TypeOK

LEMMA SetNextType ==
    ASSUME TypeOK, next_worker < Len(handles), set_next
    PROVE  next_worker' \in Nat /\ next_worker' < Len(handles)
BY SMTT(30) DEF TypeOK, set_next

LEMMA NextType ==
    ASSUME TypeOK, next_worker < Len(handles)
    PROVE  Next_ \in Inst /\ Next_[1] \in Idx
<1>1. Next_ \in Inst
  BY DEF TypeOK, Next_
<1>2. QED
  BY <1>1, InstFields

LEMMA DropGuardType ==
    ASSUME TypeOK, NEW w \in Inst, DropGuard(w)
    PROVE  /\ cnt' \in [Inst -> Int]
           /\ wwake' \in [Inst -> {"idle", "push", "signal"}]
BY DEF TypeOK, DropGuard

-----------------------------------------------------------------------------
LEMMA TypeStep == TypeInv /\ [Next]_vars => TypeInv'
<1> SUFFICES ASSUME TypeInv, [Next]_vars PROVE TypeInv'
  OBVIOUS
<1>0. TypeOK /\ PcOK
  BY DEF TypeInv
<1> USE DEF thread, dispatch, listeners, wakerq, workers, server, bounds
<1>1. CASE PollReturn
  <2>1. TypeOK'
    BY <1>0, <1>1 DEF PollReturn, TypeOK
  <2>2. PcOK'
    BY <1>0, <1>1 DEF PollReturn, PcOK
  <2>3. QED
    BY <2>1, <2>2 DEF TypeInv
<1>2. CASE HandleWakerEvent
  <2>1. TypeOK'
    BY <1>0, <1>2 DEF HandleWakerEvent, TypeOK
  <2>2. PcOK'
    BY <1>0, <1>2 DEF HandleWakerEvent, PcOK
  <2>3. QED
    BY <2>1, <2>2 DEF TypeInv
<1>3. CASE EventsDone
  <2>1. /\ ltimeout' \in [Listeners -> {"none", "armed", "due"}]
        /\ timeout' \in BOOLEAN
        /\ reg' \subseteq Listeners /\ ready' \subseteq Listeners
    BY <1>0, <1>3, ProcessTimeoutType DEF EventsDone
  <2>2. QED
    <3>1. TypeOK'
      BY <1>0, <1>3, <2>1 DEF EventsDone, TypeOK
    <3>2. PcOK'
      BY <1>0, <1>3, <2>1 DEF EventsDone, PcOK
    <3>3. QED
      BY <3>1, <3>2 DEF TypeInv
<1>4. ASSUME NEW l \in Listeners, HandleListenerEvent(l) PROVE TypeInv'
  <2>1. TypeOK'
    BY <1>0, <1>4 DEF HandleListenerEvent, TypeOK
  <2>2. PcOK'
    BY <1>0, <1>4 DEF HandleListenerEvent, PcOK
  <2>3. QED
    BY <2>1, <2>2 DEF TypeInv
<1>5. CASE HandleWorkerAvailable
  <2>1. queue' \in Seq(WakerInterest) /\ Head(queue).idx \in Idx
    BY <1>0, <1>5, PoppedType DEF HandleWorkerAvailable
  <2>2. /\ pc' \in {"accept", "waker"} /\ ret' \in {"events", "waker"}
        /\ scan' \in Seq(Listeners) /\ (pc' = "accept" => scan' # <<>>)
    BY <1>5, AcceptAllType DEF HandleWorkerAvailable, AcceptAllUnlessPaused, Popped
  <2>3. QED
    <3>1. TypeOK'
      BY <1>0, <1>5, <2>1, <2>2 DEF HandleWorkerAvailable, TypeOK
    <3>2. PcOK'
      BY <1>0, <1>5, <2>1, <2>2 DEF HandleWorkerAvailable, PcOK
    <3>3. QED
      BY <3>1, <3>2 DEF TypeInv
<1>6. CASE HandleWorker
  <2>1. /\ queue' \in Seq(WakerInterest)
        /\ Head(queue).handle \in Inst /\ Head(queue).handle[1] \in Idx
    BY <1>0, <1>6, PoppedType, InstFields DEF HandleWorker
  <2>2. /\ pc' \in {"accept", "waker"} /\ ret' \in {"events", "waker"}
        /\ scan' \in Seq(Listeners) /\ (pc' = "accept" => scan' # <<>>)
    BY <1>6, AcceptAllType DEF HandleWorker, AcceptAllUnlessPaused, Popped
  <2>3. handles' \in Seq(Inst)
    BY <1>0, <1>6, <2>1 DEF HandleWorker, TypeOK
  <2>4. QED
    <3>1. TypeOK'
      BY <1>0, <1>6, <2>1, <2>2, <2>3 DEF HandleWorker, TypeOK
    <3>2. PcOK'
      BY <1>0, <1>6, <2>1, <2>2, <2>3 DEF HandleWorker, PcOK
    <3>3. QED
      BY <3>1, <3>2 DEF TypeInv
<1>7. CASE HandlePause
  <2>1. queue' \in Seq(WakerInterest)
    BY <1>0, <1>7, PoppedType DEF HandlePause
  <2>2. /\ ltimeout' \in [Listeners -> {"none", "armed", "due"}]
        /\ reg' \subseteq Listeners /\ ready' \subseteq Listeners
    BY <1>0, <1>7, DeregisterAllType DEF HandlePause
  <2>3. QED
    <3>1. TypeOK'
      BY <1>0, <1>7, <2>1, <2>2 DEF HandlePause, TypeOK
    <3>2. PcOK'
      BY <1>0, <1>7, <2>1, <2>2 DEF HandlePause, PcOK
    <3>3. QED
      BY <3>1, <3>2 DEF TypeInv
<1>8. CASE HandleResume
  <2>1. queue' \in Seq(WakerInterest)
    BY <1>0, <1>8, PoppedType DEF HandleResume
  <2>2. /\ pc' \in {"accept", "waker"} /\ ret' \in {"events", "waker"}
        /\ scan' \in Seq(Listeners) /\ (pc' = "accept" => scan' # <<>>)
    BY <1>8, AcceptAllType DEF HandleResume, Popped
  <2>3. reg' \subseteq Listeners /\ ready' \subseteq Listeners
    <3>1. (IF paused THEN Listeners ELSE {}) \in SUBSET Listeners
      OBVIOUS
    <3>2. QED
      BY <1>0, <1>8, <3>1, RegisterType DEF HandleResume
  <2>4. QED
    <3>1. TypeOK'
      BY <1>0, <1>8, <2>1, <2>2, <2>3 DEF HandleResume, TypeOK
    <3>2. PcOK'
      BY <1>0, <1>8, <2>1, <2>2, <2>3 DEF HandleResume, PcOK
    <3>3. QED
      BY <3>1, <3>2 DEF TypeInv
<1>9. CASE HandleStop
  <2>1. queue' \in Seq(WakerInterest)
    BY <1>0, <1>9, PoppedType DEF HandleStop
  <2>2. /\ ltimeout' \in [Listeners -> {"none", "armed", "due"}]
        /\ reg' \subseteq Listeners /\ ready' \subseteq Listeners
    BY <1>0, <1>9, DeregisterAllType DEF HandleStop
  <2>3. QED
    <3>1. TypeOK'
      BY <1>0, <1>9, <2>1, <2>2 DEF HandleStop, TypeOK
    <3>2. PcOK'
      BY <1>0, <1>9, <2>1, <2>2 DEF HandleStop, PcOK
    <3>3. QED
      BY <3>1, <3>2 DEF TypeInv
<1>10. CASE WakerDrained
  <2>1. TypeOK'
    BY <1>0, <1>10 DEF WakerDrained, TypeOK
  <2>2. PcOK'
    BY <1>0, <1>10 DEF WakerDrained, PcOK
  <2>3. QED
    BY <2>1, <2>2 DEF TypeInv
<1>11. CASE AcceptNothing
  <2>1. /\ scan' \in Seq(Listeners) /\ next_listener' \in Listeners
        /\ pc' \in {"accept", "events", "waker"} /\ (pc' = "accept" => scan' # <<>>)
    BY <1>11, AcceptReturnType DEF AcceptNothing
  <2>2. QED
    <3>1. TypeOK'
      BY <1>0, <1>11, <2>1, SMTT(30) DEF AcceptNothing, TypeOK
    <3>2. PcOK'
      BY <1>0, <1>11, <2>1 DEF AcceptNothing, PcOK
    <3>3. QED
      BY <3>1, <3>2 DEF TypeInv
<1>12. CASE AcceptOk
  <2>1. Head(scan) \in Listeners
    BY <1>0, <1>12 DEF AcceptOk, TypeOK, PcOK
  <2>2. backlog' \in [Listeners -> Nat]
    <3>1. /\ backlog \in [Listeners -> Nat] /\ backlog[Head(scan)] > 0
          /\ backlog' = [backlog EXCEPT ![Head(scan)] = @ - 1]
      BY <1>0, <1>12 DEF AcceptOk, TypeOK
    <3>2. QED
      BY <2>1, <3>1
  <2>3. TypeOK'
    BY <1>0, <1>12, <2>2 DEF AcceptOk, TypeOK
  <2>4. PcOK'
    BY <1>0, <1>12 DEF AcceptOk, PcOK
  <2>5. QED
    BY <2>3, <2>4 DEF TypeInv
<1>13. CASE AcceptConnectionError
  <2>1. Head(scan) \in Listeners
    BY <1>0, <1>13 DEF AcceptConnectionError, TypeOK, PcOK
  <2>2. backlog' \in [Listeners -> Nat]
    <3>1. /\ backlog \in [Listeners -> Nat] /\ backlog[Head(scan)] > 0
          /\ backlog' = [backlog EXCEPT ![Head(scan)] = @ - 1]
      BY <1>0, <1>13 DEF AcceptConnectionError, TypeOK
    <3>2. QED
      BY <2>1, <3>1
  <2>3. TypeOK'
    BY <1>0, <1>13, <2>2 DEF AcceptConnectionError, TypeOK
  <2>4. PcOK'
    BY <1>0, <1>13 DEF AcceptConnectionError, PcOK
  <2>5. QED
    BY <2>3, <2>4 DEF TypeInv
<1>14. CASE AcceptError
  <2>1. /\ scan' \in Seq(Listeners) /\ next_listener' \in Listeners
        /\ pc' \in {"accept", "events", "waker"} /\ (pc' = "accept" => scan' # <<>>)
    BY <1>14, AcceptReturnType DEF AcceptError, set_timeout
  <2>2. /\ ltimeout' \in [Listeners -> {"none", "armed", "due"}]
        /\ reg' \subseteq Listeners /\ ready' \subseteq Listeners
    BY <1>0, <1>14 DEF AcceptError, set_timeout, DeregisterAll, TypeOK
  <2>3. errors' \in 0 .. MaxErrors
    BY <1>0, <1>14, ConstantsAssumption DEF AcceptError, set_timeout, TypeOK
  <2>4. QED
    <3>1. TypeOK'
      BY <1>0, <1>14, <2>1, <2>2, <2>3 DEF AcceptError, set_timeout, TypeOK
    <3>2. PcOK'
      BY <1>0, <1>14, <2>1, <2>2, <2>3 DEF AcceptError, set_timeout, PcOK
    <3>3. QED
      BY <3>1, <3>2 DEF TypeInv
<1>15. CASE NoHandlePanic
  <2>1. TypeOK'
    BY <1>0, <1>15 DEF NoHandlePanic, TypeOK
  <2>2. PcOK'
    BY <1>0, <1>15 DEF NoHandlePanic, PcOK
  <2>3. QED
    BY <2>1, <2>2 DEF TypeInv
<1>16. CASE SkipWorker
  <2>1. next_worker' \in Nat
    BY <1>0, <1>16, SetNextType DEF SkipWorker
  <2>2. QED
    <3>1. TypeOK'
      BY <1>0, <1>16, <2>1 DEF SkipWorker, TypeOK
    <3>2. PcOK'
      BY <1>0, <1>16, <2>1 DEF SkipWorker, PcOK
    <3>3. QED
      BY <3>1, <3>2 DEF TypeInv
<1>17. CASE SendCount
  <2>1. Next_ \in Inst
    BY <1>0, <1>17, NextType DEF SendCount
  <2>2. cnt' \in [Inst -> Int] /\ inc_res' \in BOOLEAN
    BY <1>0, <1>17, <2>1, SMTT(30) DEF SendCount, inc, TypeOK
  <2>3. QED
    <3>1. TypeOK'
      BY <1>0, <1>17, <2>2 DEF SendCount, TypeOK
    <3>2. PcOK'
      BY <1>0, <1>17, <2>2 DEF SendCount, PcOK
    <3>3. QED
      BY <3>1, <3>2 DEF TypeInv
<1>18. CASE SendOk
  <2>1. Next_ \in Inst /\ next_worker' \in Nat
    BY <1>0, <1>18, NextType, SetNextType DEF SendOk, PcOK
  <2>2. chan' \in [Inst -> Nat]
    BY <1>0, <1>18, <2>1 DEF SendOk, TypeOK
  <2>3. QED
    <3>1. TypeOK'
      BY <1>0, <1>18, <2>1, <2>2 DEF SendOk, TypeOK
    <3>2. PcOK'
      BY <1>0, <1>18, <2>1, <2>2 DEF SendOk, PcOK
    <3>3. QED
      BY <3>1, <3>2 DEF TypeInv
<1>19. CASE SendErr
  <2>1. /\ next_worker < Len(handles) /\ handles # <<>>
        /\ next_worker + 1 \in 1 .. Len(handles) /\ handles \in Seq(Inst)
    BY <1>0, <1>19 DEF SendErr, SendUndone, TypeOK, PcOK
  <2>2. Next_ \in Inst /\ Next_[1] \in Idx
    BY <1>0, <2>1, NextType
  <2>3. handles' \in Seq(Inst)
    BY <1>19, <2>1, SwapRemoveType DEF SendErr, SendUndone
  <2>4. cmds' \in Seq(Idx)
    BY <1>0, <1>19, <2>2 DEF SendErr, SendUndone, TypeOK
  <2>5. cnt' \in [Inst -> Int]
    BY <1>0, <1>19, <2>2 DEF SendErr, SendUndone, TypeOK
  <2>6. next_worker' \in Nat
    BY <1>0, <1>19 DEF SendErr, SendUndone, NextAfterRemove, TypeOK
  <2>7. QED
    <3>1. TypeOK'
      BY <1>0, <1>19, <2>3, <2>4, <2>5, <2>6 DEF SendErr, SendUndone, TypeOK
    <3>2. PcOK'
      BY <1>0, <1>19, <2>3, <2>4, <2>5, <2>6 DEF SendErr, SendUndone, PcOK
    <3>3. QED
      BY <3>1, <3>2 DEF TypeInv
<1>20. ASSUME NEW w \in Inst, Recv(w) PROVE TypeInv'
  <2>1. chan' \in [Inst -> Nat] /\ active' \in [Inst -> Nat]
    BY <1>0, <1>20, SMTT(30) DEF Recv, TypeOK
  <2>2. UNCHANGED <<thread, dispatch, next_listener, paused, timeout, listeners, wakerq,
                    alive, cnt, wwake, server, bounds>>
    BY <1>20 DEF Recv
  <2>3. TypeOK'
    BY <1>0, <2>1, <2>2, SMTT(30) DEF TypeOK
  <2>4. PcOK'
    BY <1>0, <2>2 DEF PcOK
  <2>5. QED
    BY <2>3, <2>4 DEF TypeInv
<1>21. ASSUME NEW w \in Inst, Finish(w) PROVE TypeInv'
  <2>1. cnt' \in [Inst -> Int] /\ wwake' \in [Inst -> {"idle", "push", "signal"}]
    BY <1>0, <1>21, DropGuardType DEF Finish
  <2>2. active' \in [Inst -> Nat]
    BY <1>0, <1>21 DEF Finish, TypeOK
  <2>3. QED
    <3>1. TypeOK'
      BY <1>0, <1>21, <2>1, <2>2, SMTT(30) DEF Finish, TypeOK
    <3>2. PcOK'
      BY <1>0, <1>21, <2>1, <2>2 DEF Finish, PcOK
    <3>3. QED
      BY <3>1, <3>2 DEF TypeInv
<1>22. ASSUME NEW w \in Inst, Discard(w) PROVE TypeInv'
  <2>1. cnt' \in [Inst -> Int] /\ wwake' \in [Inst -> {"idle", "push", "signal"}]
    BY <1>0, <1>22, DropGuardType DEF Discard
  <2>2. chan' \in [Inst -> Nat]
    BY <1>0, <1>22 DEF Discard, TypeOK
  <2>3. QED
    <3>1. UNCHANGED <<thread, dispatch, next_listener, paused, timeout, listeners,
                      wakerq, alive, active, server, bounds>>
      BY <1>22 DEF Discard
    <3>2. TypeOK'
      BY <1>0, <2>1, <2>2, <3>1, SMTT(30) DEF TypeOK
    <3>3. PcOK'
      BY <1>0, <3>1 DEF PcOK
    <3>4. QED
      BY <3>2, <3>3 DEF TypeInv
<1>23. ASSUME NEW w \in Inst, WorkerGone(w) PROVE TypeInv'
  <2>1. TypeOK'
    BY <1>0, <1>23, SMTT(30) DEF WorkerGone, TypeOK
  <2>2. PcOK'
    BY <1>0, <1>23 DEF WorkerGone, PcOK
  <2>3. QED
    BY <2>1, <2>2 DEF TypeInv
<1>24. ASSUME NEW w \in Inst, WorkerPush(w) PROVE TypeInv'
  <2>1. queue' \in Seq(WakerInterest)
    BY <1>0, <1>24, InstFields, InterestType DEF WorkerPush, TypeOK
  <2>2. QED
    <3>w. wwake' \in [Inst -> {"idle", "push", "signal"}]
      BY <1>0, <1>24 DEF WorkerPush, AfterPush, TypeOK
    <3>1. TypeOK'
      BY <1>0, <1>24, <2>1, <3>w, SMTT(30) DEF WorkerPush, TypeOK
    <3>2. PcOK'
      BY <1>0, <1>24, <2>1 DEF WorkerPush, AfterPush, PcOK
    <3>3. QED
      BY <3>1, <3>2 DEF TypeInv
<1>25. ASSUME NEW w \in Inst, WorkerSignal(w) PROVE TypeInv'
  <2>1. TypeOK'
    BY <1>0, <1>25, SMTT(30) DEF WorkerSignal, TypeOK
  <2>2. PcOK'
    BY <1>0, <1>25 DEF WorkerSignal, PcOK
  <2>3. QED
    BY <2>1, <2>2 DEF TypeInv
<1>26. ASSUME NEW m \in {Pause, Resume}, ServerPauseOrResume(m) PROVE TypeInv'
  <2>1. ncmds' \in 0 .. MaxCmds
    BY <1>0, <1>26, ConstantsAssumption DEF ServerPauseOrResume, TypeOK
  <2>2. QED
    <3>1. TypeOK'
      BY <1>0, <1>26, <2>1, InterestType DEF ServerPauseOrResume, ServerPush, TypeOK
    <3>2. PcOK'
      BY <1>0, <1>26, <2>1, InterestType DEF ServerPauseOrResume, ServerPush, PcOK
    <3>3. QED
      BY <3>1, <3>2 DEF TypeInv
<1>27. CASE ServerStop
  <2>1. TypeOK'
    BY <1>0, <1>27, InterestType DEF ServerStop, ServerPush, TypeOK
  <2>2. PcOK'
    BY <1>0, <1>27, InterestType DEF ServerStop, ServerPush, PcOK
  <2>3. QED
    BY <2>1, <2>2 DEF TypeInv
<1>28. CASE ServerRestartWorker
  <2> DEFINE i == Head(cmds)
             w == <<i, gen[i] + 1>>
  <2>1. i \in Idx /\ cmds' \in Seq(Idx)
    BY <1>0, <1>28 DEF ServerRestartWorker, TypeOK
  <2>2. gen[i] + 1 \in Gens
    BY <1>0, <1>28, <2>1, ConstantsAssumption DEF ServerRestartWorker, Gens, TypeOK
  <2>3. w \in Inst
    BY <2>1, <2>2 DEF Inst
  <2>4. /\ alive' = [alive EXCEPT ![w] = "alive"]
        /\ gen' = [gen EXCEPT ![i] = gen[i] + 1]
        /\ queue' = Append(queue, Worker(w)) /\ swake' = "signal"
    BY <1>28 DEF ServerRestartWorker, ServerPush
  <2>5. queue' \in Seq(WakerInterest)
    BY <1>0, <2>3, <2>4, InterestType DEF TypeOK
  <2>6. alive' \in [Inst -> {"unborn", "alive", "dead"}] /\ gen' \in [Idx -> Gens]
    BY <1>0, <2>2, <2>3, <2>4 DEF TypeOK
  <2>7. UNCHANGED <<thread, dispatch, next_listener, paused, timeout, listeners, signalled,
                    cnt, chan, active, wwake, srv, bounds>>
    BY <1>28 DEF ServerRestartWorker
  <2>8. swake' = "signal"
    BY <2>4
  <2>9. TypeOK'
    BY <1>0, <2>1, <2>5, <2>6, <2>7, <2>8 DEF TypeOK
  <2>10. PcOK'
    BY <1>0, <2>7 DEF PcOK
  <2>11. QED
    BY <2>9, <2>10 DEF TypeInv
<1>29. CASE ServerRestartFails
  <2>1. TypeOK'
    BY <1>0, <1>29 DEF ServerRestartFails, TypeOK
  <2>2. PcOK'
    BY <1>0, <1>29 DEF ServerRestartFails, PcOK
  <2>3. QED
    BY <2>1, <2>2 DEF TypeInv
<1>30. CASE ServerSignal
  <2>1. TypeOK'
    BY <1>0, <1>30 DEF ServerSignal, TypeOK
  <2>2. PcOK'
    BY <1>0, <1>30 DEF ServerSignal, PcOK
  <2>3. QED
    BY <2>1, <2>2 DEF TypeInv
<1>31. ASSUME NEW l \in Listeners, Arrive(l) PROVE TypeInv'
  <2>1. TypeOK'
    BY <1>0, <1>31, ConstantsAssumption DEF Arrive, TypeOK
  <2>2. PcOK'
    BY <1>0, <1>31, ConstantsAssumption DEF Arrive, PcOK
  <2>3. QED
    BY <2>1, <2>2 DEF TypeInv
<1>32. ASSUME NEW l \in Listeners, Tick(l) PROVE TypeInv'
  <2>1. TypeOK'
    BY <1>0, <1>32 DEF Tick, TypeOK
  <2>2. PcOK'
    BY <1>0, <1>32 DEF Tick, PcOK
  <2>3. QED
    BY <2>1, <2>2 DEF TypeInv
<1>33. CASE UNCHANGED vars
  <2>1. TypeOK'
    BY <1>0, <1>33 DEF vars, TypeOK
  <2>2. PcOK'
    BY <1>0, <1>33 DEF vars, PcOK
  <2>3. QED
    BY <2>1, <2>2 DEF TypeInv
<1>34. QED
  BY <1>1, <1>2, <1>3, <1>4, <1>5, <1>6, <1>7, <1>8, <1>9, <1>10, <1>11, <1>12, <1>13,
     <1>14, <1>15, <1>16, <1>17, <1>18, <1>19, <1>20, <1>21, <1>22, <1>23, <1>24, <1>25,
     <1>26, <1>27, <1>28, <1>29, <1>30, <1>31, <1>32, <1>33
  DEF Next, AcceptThread, LoopStep, DispatchStep, WorkerThread, ServerTask, Environment

(* Every reachable state is well typed, whatever the sizes and the limit. *)
THEOREM TypeCorrect == Spec => []TypeOK
<1>1. TypeInv => TypeOK
  BY DEF TypeInv
<1>2. QED
  BY TypeInit, TypeStep, <1>1, PTL DEF Spec

-----------------------------------------------------------------------------
(* The counters.  A generation that was never started is untouched, so the  *)
(* worker that a restart brings to life starts with a fresh counter.        *)

GenOK ==
    \A w \in Inst :
        /\ w[2] > gen[w[1]] => alive[w] = "unborn"
        /\ alive[w] = "unborn" => wwake[w] = "idle" /\ chan[w] = 0 /\ active[w] = 0

CountInv == TypeInv /\ GenOK /\ CountCoversWork

(* Steps of the accept thread that neither start nor end a send. *)
Aside == LoopStep \/ NoHandlePanic \/ SkipWorker

LEMMA AsideFrame ==
    ASSUME TypeInv, Aside
    PROVE  /\ pc # "send" /\ pc' # "send"
           /\ UNCHANGED <<alive, cnt, chan, active, wwake, gen, srv, swake, cmds>>
<1> USE DEF thread, dispatch, listeners, wakerq, workers, server, bounds
<1>1. ret \in {"events", "waker"}
  BY DEF TypeInv, TypeOK
<1>2. CASE PollReturn \/ HandleWakerEvent \/ EventsDone \/ WakerDrained
  BY <1>2 DEF PollReturn, HandleWakerEvent, EventsDone, WakerDrained
<1>3. CASE \E l \in Listeners : HandleListenerEvent(l)
  BY <1>3 DEF HandleListenerEvent
<1>4. CASE HandleWorkerAvailable \/ HandleWorker \/ HandlePause \/ HandleResume \/ HandleStop
  BY <1>4 DEF HandleWorkerAvailable, HandleWorker, HandlePause, HandleResume, HandleStop,
              Popped, AcceptAllUnlessPaused, accept_all
<1>5. CASE AcceptNothing \/ AcceptOk \/ AcceptConnectionError \/ AcceptError
  BY <1>1, <1>5 DEF AcceptNothing, AcceptOk, AcceptConnectionError, AcceptError, set_timeout, AcceptReturn
<1>6. CASE NoHandlePanic \/ SkipWorker
  BY <1>6 DEF NoHandlePanic, SkipWorker
<1>7. QED
  BY <1>2, <1>3, <1>4, <1>5, <1>6 DEF Aside, LoopStep

LEMMA CountInit == Init => CountInv
<1> SUFFICES ASSUME Init PROVE CountInv
  OBVIOUS
<1>1. TypeInv
  BY TypeInit
<1>2. GenOK
  <2> SUFFICES ASSUME NEW w \in Inst
               PROVE  /\ w[2] > gen[w[1]] => alive[w] = "unborn"
                      /\ alive[w] = "unborn" => wwake[w] = "idle" /\ chan[w] = 0 /\ active[w] = 0
    BY DEF GenOK
  <2>1. gen[w[1]] = 0
    BY InstFields DEF Init
  <2>2. w[2] > 0 => alive[w] = "unborn"
    BY DEF Init
  <2>3. wwake[w] = "idle" /\ chan[w] = 0 /\ active[w] = 0
    BY DEF Init
  <2>4. QED
    BY <2>1, <2>2, <2>3
<1>3. CountCoversWork
  <2> SUFFICES ASSUME NEW w \in Inst
               PROVE  alive[w] # "dead" /\ cnt[w] = 1 + chan[w] + active[w] + InFlight(w)
    BY DEF CountCoversWork
  <2>1. alive[w] # "dead" /\ cnt[w] = 1 /\ chan[w] = 0 /\ active[w] = 0 /\ pc = "poll"
    BY DEF Init
  <2>2. QED
    BY <2>1 DEF InFlight
<1>4. QED
  BY <1>1, <1>2, <1>3 DEF CountInv

LEMMA CountStep == CountInv /\ [Next]_vars => CountInv'
<1> SUFFICES ASSUME CountInv, [Next]_vars PROVE CountInv'
  OBVIOUS
<1>0. TypeInv /\ TypeOK /\ PcOK /\ GenOK /\ CountCoversWork
  BY DEF CountInv, TypeInv
<1>a. TypeInv'
  BY <1>0, TypeStep
<1>b. \A w \in Inst : /\ cnt[w] \in Int /\ chan[w] \in Nat /\ active[w] \in Nat
                      /\ InFlight(w) \in {0, 1} /\ InFlight(w)' \in {0, 1}
  BY <1>0 DEF TypeOK, InFlight
<1> USE DEF thread, dispatch, workers, server, wakerq
<1>1. CASE Aside
  <2>1. /\ pc # "send" /\ pc' # "send"
        /\ UNCHANGED <<alive, cnt, chan, active, wwake, gen>>
    BY <1>0, <1>1, AsideFrame
  <2>2. \A w \in Inst : InFlight(w)' = InFlight(w)
    BY <2>1 DEF InFlight
  <2>3. GenOK'
    BY <1>0, <2>1 DEF GenOK
  <2>4. CountCoversWork'
    BY <1>0, <1>b, <2>1, <2>2 DEF CountCoversWork
  <2>5. QED
    BY <1>a, <2>3, <2>4 DEF CountInv
<1>2. CASE SendCount
  <2>1. Next_ \in Inst /\ Next_' = Next_
    BY <1>0, <1>2, NextType DEF SendCount, Next_
  <2>2. \A w \in Inst : InFlight(w) = 0 /\ InFlight(w)' = (IF w = Next_ THEN 1 ELSE 0)
    BY <1>2, <2>1 DEF SendCount, InFlight
  <2>3. \A w \in Inst : cnt'[w] = cnt[w] + (IF w = Next_ THEN 1 ELSE 0)
    <3>1. cnt \in [Inst -> Int] /\ cnt' = [cnt EXCEPT ![Next_] = @ + 1]
      BY <1>0, <1>2 DEF SendCount, TypeOK
    <3>2. QED
      BY <2>1, <3>1
  <2>4. UNCHANGED <<alive, chan, active, wwake, gen>>
    BY <1>2 DEF SendCount
  <2>5. CountCoversWork'
    BY <1>0, <1>b, <2>2, <2>3, <2>4 DEF CountCoversWork
  <2>6. GenOK'
    BY <1>0, <2>4 DEF GenOK
  <2>7. QED
    BY <1>a, <2>5, <2>6 DEF CountInv
<1>3. CASE SendOk
  <2>1. Next_ \in Inst
    BY <1>0, <1>3, NextType DEF SendOk, PcOK
  <2>2. \A w \in Inst : InFlight(w)' = 0 /\ InFlight(w) = (IF w = Next_ THEN 1 ELSE 0)
    BY <1>3 DEF SendOk, InFlight
  <2>3. \A w \in Inst : chan'[w] = chan[w] + (IF w = Next_ THEN 1 ELSE 0)
    BY <1>0, <1>3, <2>1 DEF SendOk, TypeOK
  <2>4. UNCHANGED <<alive, cnt, active, wwake, gen>> /\ alive[Next_] = "alive"
    BY <1>3 DEF SendOk
  <2>5. CountCoversWork'
    BY <1>0, <1>b, <2>2, <2>3, <2>4 DEF CountCoversWork
  <2>6. GenOK'
    BY <1>0, <1>b, <2>3, <2>4 DEF GenOK
  <2>7. QED
    BY <1>a, <2>5, <2>6 DEF CountInv
<1>4. CASE SendErr
  <2>1. Next_ \in Inst
    BY <1>0, <1>4, NextType DEF SendErr, SendUndone, PcOK
  <2>2. \A w \in Inst : InFlight(w)' = 0 /\ InFlight(w) = (IF w = Next_ THEN 1 ELSE 0)
    BY <1>4 DEF SendErr, SendUndone, InFlight
  <2>3. \A w \in Inst : cnt'[w] = cnt[w] - (IF w = Next_ THEN 1 ELSE 0)
    BY <1>0, <1>4, <2>1, SMTT(30) DEF SendErr, SendUndone, TypeOK
  <2>4. UNCHANGED <<alive, chan, active, wwake, gen>>
    BY <1>4 DEF SendErr, SendUndone
  <2>5. CountCoversWork'
    BY <1>0, <1>b, <2>2, <2>3, <2>4 DEF CountCoversWork
  <2>6. GenOK'
    BY <1>0, <2>4 DEF GenOK
  <2>7. QED
    BY <1>a, <2>5, <2>6 DEF CountInv
<1>5. ASSUME UNCHANGED <<pc, handles, next_worker>> PROVE \A w \in Inst : InFlight(w)' = InFlight(w)
  BY <1>5 DEF InFlight, Next_
<1>6. ASSUME NEW v \in Inst, Recv(v) PROVE CountInv'
  <2>1. \A w \in Inst : InFlight(w)' = InFlight(w)
    BY <1>5, <1>6 DEF Recv
  <2>2. \A w \in Inst : /\ chan'[w] = chan[w] - (IF w = v THEN 1 ELSE 0)
                        /\ active'[w] = active[w] + (IF w = v THEN 1 ELSE 0)
    BY <1>0, <1>6, SMTT(30) DEF Recv, TypeOK
  <2>3. UNCHANGED <<alive, cnt, wwake, gen>> /\ alive[v] = "alive"
    BY <1>6 DEF Recv
  <2>4. CountCoversWork'
    BY <1>0, <1>b, <2>1, <2>2, <2>3 DEF CountCoversWork
  <2>5. GenOK'
    BY <1>0, <1>b, <2>2, <2>3 DEF GenOK
  <2>6. QED
    BY <1>a, <2>4, <2>5 DEF CountInv
<1>7. ASSUME NEW v \in Inst, Finish(v) PROVE CountInv'
  <2>1. \A w \in Inst : InFlight(w)' = InFlight(w)
    BY <1>5, <1>7 DEF Finish
  <2>2. \A w \in Inst : /\ cnt'[w] = cnt[w] - (IF w = v THEN 1 ELSE 0)
                        /\ active'[w] = active[w] - (IF w = v THEN 1 ELSE 0)
                        /\ w # v => wwake'[w] = wwake[w]
    BY <1>0, <1>7 DEF Finish, DropGuard, TypeOK
  <2>3. UNCHANGED <<alive, chan, gen>> /\ active[v] > 0
    BY <1>7 DEF Finish
  <2>4. CountCoversWork'
    BY <1>0, <1>b, <2>1, <2>2, <2>3 DEF CountCoversWork
  <2>5. GenOK'
    BY <1>0, <1>b, <2>2, <2>3 DEF GenOK
  <2>6. QED
    BY <1>a, <2>4, <2>5 DEF CountInv
<1>8. ASSUME NEW v \in Inst, Discard(v) PROVE CountInv'
  <2>1. \A w \in Inst : InFlight(w)' = InFlight(w)
    BY <1>5, <1>8 DEF Discard
  <2>2. \A w \in Inst : /\ cnt'[w] = cnt[w] - (IF w = v THEN 1 ELSE 0)
                        /\ chan'[w] = chan[w] - (IF w = v THEN 1 ELSE 0)
                        /\ w # v => wwake'[w] = wwake[w]
    BY <1>0, <1>8, SMTT(30) DEF Discard, DropGuard, TypeOK
  <2>3. UNCHANGED <<alive, active, gen>> /\ alive[v] = "alive"
    BY <1>8 DEF Discard
  <2>4. CountCoversWork'
    BY <1>0, <1>b, <2>1, <2>2, <2>3 DEF CountCoversWork
  <2>5. GenOK'
    BY <1>0, <1>b, <2>2, <2>3 DEF GenOK
  <2>6. QED
    BY <1>a, <2>4, <2>5 DEF CountInv
<1>9. ASSUME NEW v \in Inst, WorkerGone(v) PROVE CountInv'
  <2>1. \A w \in Inst : InFlight(w)' = InFlight(w)
    BY <1>5, <1>9 DEF WorkerGone
  <2>2. \A w \in Inst : /\ alive'[w] = IF w = v THEN "dead" ELSE alive[w]
                        /\ chan'[w] = IF w = v THEN 0 ELSE chan[w]
    BY <1>0, <1>9 DEF WorkerGone, TypeOK
  <2>3. UNCHANGED <<cnt, active, wwake, gen>> /\ alive[v] = "alive"
    BY <1>9 DEF WorkerGone
  <2>4. CountCoversWork'
    BY <1>0, <1>b, <2>1, <2>2, <2>3 DEF CountCoversWork
  <2>5. GenOK'
    BY <1>0, <1>b, <2>2, <2>3 DEF GenOK
  <2>6. QED
    BY <1>a, <2>4, <2>5 DEF CountInv
<1>10. ASSUME NEW v \in Inst, WorkerPush(v) \/ WorkerSignal(v) PROVE CountInv'
  <2>1. \A w \in Inst : InFlight(w)' = InFlight(w)
    BY <1>5, <1>10 DEF WorkerPush, AfterPush, WorkerSignal
  <2>2. /\ UNCHANGED <<alive, cnt, chan, active, gen>>
        /\ wwake[v] # "idle" /\ \A w \in Inst : w # v => wwake'[w] = wwake[w]
    BY <1>0, <1>10 DEF WorkerPush, AfterPush, WorkerSignal, TypeOK
  <2>3. GenOK'
    BY <1>0, <2>2 DEF GenOK
  <2>4. CountCoversWork'
    BY <1>0, <1>b, <2>1, <2>2 DEF CountCoversWork
  <2>5. QED
    BY <1>a, <2>3, <2>4 DEF CountInv
<1>11. CASE ServerRestartWorker
  <2> DEFINE i == Head(cmds)
             v == <<i, gen[i] + 1>>
  <2>1. i \in Idx /\ gen[i] \in Nat
    BY <1>0, <1>11 DEF ServerRestartWorker, TypeOK, Gens
  <2>2. v \in Inst
    BY <1>0, <1>11, <2>1, ConstantsAssumption DEF ServerRestartWorker, Inst, Gens, TypeOK
  <2>3. alive' = [alive EXCEPT ![v] = "alive"] /\ gen' = [gen EXCEPT ![i] = gen[i] + 1]
    BY <1>11 DEF ServerRestartWorker
  <2>4. alive[v] = "unborn"
    BY <1>0, <2>1, <2>2 DEF GenOK
  <2>5. UNCHANGED <<pc, handles, next_worker, cnt, chan, active, wwake>>
    BY <1>11 DEF ServerRestartWorker
  <2>6. \A w \in Inst : InFlight(w)' = InFlight(w)
    BY <1>5, <2>5
  <2>7. \A w \in Inst : w # v => alive'[w] = alive[w]
    BY <1>0, <2>2, <2>3 DEF TypeOK
  <2>8. alive'[v] = "alive"
    BY <1>0, <2>2, <2>3 DEF TypeOK
  <2>9. ASSUME NEW w \in Inst, w[2] > gen'[w[1]] PROVE w # v /\ w[2] > gen[w[1]]
    <3>1. w[1] \in Idx /\ w[2] \in Int
      BY InstFields DEF Gens
    <3>2. gen \in [Idx -> Int]
      BY <1>0 DEF TypeOK, Gens
    <3> HIDE DEF i
    <3>3. gen'[w[1]] = IF w[1] = i THEN gen[i] + 1 ELSE gen[w[1]]
      BY <2>3, <3>1, <3>2
    <3>4. w[2] > gen[w[1]]
      BY <2>1, <2>9, <3>1, <3>2, <3>3
    <3>5. ASSUME w = v PROVE FALSE
      <4>1. w[1] = i /\ w[2] = gen[i] + 1
        BY <3>5
      <4>2. QED
        BY <2>1, <2>9, <3>3, <4>1
    <3>6. QED
      BY <3>4, <3>5
  <2> HIDE DEF i, v
  <2>10. GenOK'
    BY <1>0, <2>5, <2>7, <2>8, <2>9 DEF GenOK
  <2>11. CountCoversWork'
    BY <1>0, <1>b, <2>2, <2>4, <2>5, <2>6, <2>7, <2>8 DEF CountCoversWork
  <2>12. QED
    BY <1>a, <2>10, <2>11 DEF CountInv
<1>12. CASE \/ \E m \in {Pause, Resume} : ServerPauseOrResume(m)
            \/ ServerStop \/ ServerRestartFails \/ ServerSignal
            \/ Environment \/ UNCHANGED vars
  <2>1. UNCHANGED <<pc, handles, next_worker, alive, cnt, chan, active, wwake, gen>>
    BY <1>12 DEF ServerPauseOrResume, ServerStop, ServerRestartFails, ServerSignal,
                 Environment, Arrive, Tick, vars
  <2>2. \A w \in Inst : InFlight(w)' = InFlight(w)
    BY <1>5, <2>1
  <2>3. GenOK' /\ CountCoversWork'
    BY <1>0, <2>1, <2>2 DEF GenOK, CountCoversWork
  <2>4. QED
    BY <1>a, <2>3 DEF CountInv
<1>13. QED
  BY <1>1, <1>2, <1>3, <1>4, <1>6, <1>7, <1>8, <1>9, <1>10, <1>11, <1>12
  DEF Next, AcceptThread, DispatchStep, Aside, WorkerThread, ServerTask

(* The counter of a live worker is always one more than the connections it  *)
(* owns or is about to be sent, so total() = 0 means that a worker has      *)
(* nothing left and nothing coming, and no counter ever falls below one.    *)
THEOREM CountersCoverWork == Spec => []CountCoversWork
<1>1. CountInv => CountCoversWork
  BY DEF CountInv
<1>2. QED
  BY CountInit, CountStep, <1>1, PTL DEF Spec

-----------------------------------------------------------------------------
(* The waker queue.  NoLostWakeup is inductive over well typed states.      *)

LEMMA WakeupStep == TypeInv /\ NoLostWakeup /\ [Next]_vars => NoLostWakeup'
<1> SUFFICES ASSUME TypeInv, NoLostWakeup, [Next]_vars PROVE NoLostWakeup'
  OBVIOUS
<1>0. /\ ret \in {"events", "waker"}
      /\ wwake \in [Inst -> {"idle", "push", "signal"}]
      /\ Waker \notin Listeners
  BY ConstantsAssumption DEF TypeInv, TypeOK, Waker, Listeners
<1> USE DEF thread, dispatch, listeners, wakerq, workers, server, bounds
<1>1. CASE PollReturn
  <2>1. pc = "poll" /\ events = {} /\ UNCHANGED <<queue, wwake, swake>>
    BY <1>1 DEF PollReturn, TypeInv, PcOK
  <2>2. signalled => Waker \in events'
    BY <1>1 DEF PollReturn
  <2>3. QED
    BY <2>1, <2>2 DEF NoLostWakeup
<1>2. CASE HandleWakerEvent \/ EventsDone \/ WakerDrained
  BY <1>2 DEF HandleWakerEvent, EventsDone, WakerDrained, NoLostWakeup
<1>3. ASSUME NEW l \in Listeners, HandleListenerEvent(l) PROVE NoLostWakeup'
  BY <1>0, <1>3 DEF HandleListenerEvent, NoLostWakeup
<1>4. CASE HandleWorkerAvailable \/ HandleWorker \/ HandlePause \/ HandleResume \/ HandleStop
  <2>1. pc' \in {"waker", "stopped"} \/ (pc' = "accept" /\ ret' = "waker")
    BY <1>4 DEF HandleWorkerAvailable, HandleWorker, HandlePause, HandleResume, HandleStop,
                Popped, AcceptAllUnlessPaused, accept_all
  <2>2. QED
    BY <2>1 DEF NoLostWakeup
<1>5. CASE AcceptNothing \/ AcceptOk \/ AcceptConnectionError \/ AcceptError
  <2>1. pc = "accept" /\ pc' \in {"accept", "one", ret}
    BY <1>5 DEF AcceptNothing, AcceptOk, AcceptConnectionError, AcceptError, set_timeout, AcceptReturn
  <2>2. UNCHANGED <<events, ret, queue, signalled, wwake, swake>>
    BY <1>5 DEF AcceptNothing, AcceptOk, AcceptConnectionError, AcceptError, set_timeout
  <2>3. QED
    BY <1>0, <2>1, <2>2 DEF NoLostWakeup
<1>6. CASE DispatchStep
  <2>1. /\ pc \in {"one", "send"} /\ pc' \in {"accept", "one", "send", "panic"}
        /\ UNCHANGED <<events, ret, queue, signalled, wwake, swake>>
    BY <1>6 DEF DispatchStep, NoHandlePanic, SkipWorker, SendCount, SendOk, SendErr, SendUndone
  <2>2. QED
    BY <2>1 DEF NoLostWakeup
<1>7. ASSUME NEW w \in Inst, Recv(w) \/ WorkerGone(w) PROVE NoLostWakeup'
  BY <1>7 DEF Recv, WorkerGone, NoLostWakeup
<1>8. ASSUME NEW w \in Inst, Finish(w) \/ Discard(w) PROVE NoLostWakeup'
  <2>1. wwake[w] = "idle" /\ \A v \in Inst : v # w => wwake'[v] = wwake[v]
    BY <1>0, <1>8 DEF Finish, Discard, DropGuard
  <2>2. UNCHANGED <<pc, ret, events, queue, signalled, swake>>
    BY <1>8 DEF Finish, Discard
  <2>3. QED
    BY <2>1, <2>2 DEF NoLostWakeup
<1>9. ASSUME NEW w \in Inst, WorkerPush(w) PROVE NoLostWakeup'
  <2>1. wwake'[w] = "signal"
    BY <1>0, <1>9 DEF WorkerPush, AfterPush
  <2>2. QED
    BY <2>1 DEF NoLostWakeup
<1>10. CASE ServerSignal \/ \E w \in Inst : WorkerSignal(w)
  BY <1>10 DEF WorkerSignal, ServerSignal, NoLostWakeup
<1>11. CASE \/ \E m \in {Pause, Resume} : ServerPauseOrResume(m)
            \/ ServerStop \/ ServerRestartWorker
  <2>1. swake' = "signal"
    BY <1>11 DEF ServerPauseOrResume, ServerStop, ServerRestartWorker, ServerPush
  <2>2. QED
    BY <2>1 DEF NoLostWakeup
<1>12. CASE ServerRestartFails \/ Environment \/ UNCHANGED vars
  BY <1>12 DEF ServerRestartFails, Environment, Arrive, Tick, vars, NoLostWakeup
<1>13. QED
  BY <1>1, <1>2, <1>3, <1>4, <1>5, <1>6, <1>7, <1>8, <1>9, <1>10, <1>11, <1>12
  DEF Next, AcceptThread, LoopStep, WorkerThread, ServerTask

(* No interest pushed by a worker or by the server is left in the queue     *)
(* while the accept thread sleeps with nobody about to wake it.             *)
THEOREM WakeupsNeverLost == Spec => []NoLostWakeup
<1>1. Init => NoLostWakeup
  BY DEF Init, NoLostWakeup
<1>2. QED
  BY TypeInit, TypeStep, WakeupStep, <1>1, PTL DEF Spec

-----------------------------------------------------------------------------
(* The round-robin index.                                                   *)

LEMMA NextInRangeStep == TypeInv /\ NextInRange /\ [Next]_vars => NextInRange'
<1> SUFFICES ASSUME TypeInv, NextInRange, [Next]_vars PROVE NextInRange'
  OBVIOUS
<1>0. /\ TypeOK /\ PcOK /\ TypeOK'
      /\ handles \in Seq(Inst) /\ next_worker \in Nat
  BY TypeStep DEF TypeInv, TypeOK
<1> USE DEF thread, dispatch, listeners, wakerq, workers, server, bounds
<1>1. CASE HandleWorker
  <2>1. Head(queue).handle \in Inst
    BY <1>0, <1>1, PoppedType DEF HandleWorker
  <2>2. handles' = Append(handles, Head(queue).handle) /\ next_worker' = next_worker
    BY <1>1 DEF HandleWorker
  <2>3. Len(handles') = Len(handles) + 1 /\ handles' # <<>>
    BY <1>0, <2>1, <2>2
  <2>4. next_worker < Len(handles) + 1
    BY <1>0 DEF NextInRange
  <2>5. QED
    BY <2>2, <2>3, <2>4 DEF NextInRange
<1>2. CASE SkipWorker \/ SendOk
  <2>1. next_worker < Len(handles) /\ set_next /\ handles' = handles
    BY <1>0, <1>2 DEF SkipWorker, SendOk, PcOK
  <2>2. next_worker' < Len(handles) /\ handles # <<>>
    BY <1>0, <2>1, SetNextType
  <2>3. QED
    BY <2>1, <2>2 DEF NextInRange
<1>3. CASE SendErr
  <2>1. /\ next_worker < Len(handles) /\ handles # <<>>
        /\ next_worker + 1 \in 1 .. Len(handles)
    BY <1>0, <1>3 DEF SendErr, SendUndone, PcOK
  <2>2. Len(handles') = Len(handles) - 1 /\ handles' \in Seq(Inst)
    BY <1>0, <1>3, <2>1, SwapRemoveType DEF SendErr, SendUndone
  <2>3. next_worker' = NextAfterRemove(Len(handles) - 1)
    BY <1>3 DEF SendErr, SendUndone
  <2>4. CASE Len(handles) = 1
    BY <1>0, <2>1, <2>2, <2>3, <2>4 DEF NextInRange, NextAfterRemove
  <2>5. CASE Len(handles) # 1
    BY <1>0, <2>1, <2>2, <2>3, <2>5 DEF NextInRange, NextAfterRemove
  <2>6. QED
    BY <2>4, <2>5
<1>4. ASSUME UNCHANGED <<handles, next_worker>> PROVE NextInRange'
  BY <1>4 DEF NextInRange
<1>5. CASE LoopStep /\ ~HandleWorker
  <2>1. UNCHANGED <<handles, next_worker>>
    BY <1>5 DEF LoopStep, PollReturn, HandleWakerEvent, EventsDone, HandleListenerEvent,
                HandleWorkerAvailable, HandlePause, HandleResume, HandleStop, WakerDrained,
                AcceptNothing, AcceptOk, AcceptConnectionError, AcceptError, set_timeout
  <2>2. QED
    BY <1>4, <2>1
<1>6. CASE NoHandlePanic \/ SendCount \/ (\E w \in Inst : WorkerThread(w))
  BY <1>4, <1>6 DEF NoHandlePanic, SendCount, WorkerThread, Recv, Finish, Discard, WorkerGone,
                    WorkerPush, AfterPush, WorkerSignal
<1>7. CASE ServerTask \/ Environment \/ UNCHANGED vars
  BY <1>4, <1>7 DEF ServerTask, ServerPauseOrResume, ServerStop, ServerRestartWorker,
                    ServerRestartFails, ServerSignal, Environment, Arrive, Tick, vars
<1>8. QED
  BY <1>1, <1>2, <1>3, <1>5, <1>6, <1>7 DEF Next, AcceptThread, DispatchStep

(* next_worker is a valid index whenever there is a handle, through every   *)
(* removal, reset and replacement: the only way accept_one can index out of *)
(* bounds is an empty vector.                                               *)
THEOREM NextWorkerInRange == Spec => []NextInRange
<1>1. Init => NextInRange
  <2> SUFFICES ASSUME Init PROVE NextInRange
    OBVIOUS
  <2>1. next_worker = 0 /\ handles = [k \in 1 .. NumWorkers |-> <<k - 1, 0>>]
    BY DEF Init
  <2>2. handles \in Seq(Inst) /\ Len(handles) = NumWorkers
    BY <2>1, TypeInit, ConstantsAssumption DEF TypeInv, TypeOK
  <2>3. QED
    BY <2>1, <2>2, ConstantsAssumption DEF NextInRange
<1>2. QED
  BY TypeInit, TypeStep, NextInRangeStep, <1>1, PTL DEF Spec

-----------------------------------------------------------------------------
(* The connection limit, while no worker has died.                          *)
(*                                                                          *)
(* ConnLimit alone is not inductive: the accept thread decides on a bit, so *)
(* the bit must be tied to the counter.  A worker whose count is at the     *)
(* limit has its bit clear, or the accept thread is about to clear it; so   *)
(* has a worker with a notification on its way, which is why handling the   *)
(* notification may set the bit.  One notification at most is on its way    *)
(* for a worker, and none while its count is at the limit.                  *)

AtMostOne(S) == \A j, k \in S : j = k

QueuedFor(i) == {k \in 1 .. Len(queue) : queue[k] = WorkerAvailable(i)}

Marked(w) == w[1] \notin avail \/ (pc = "send" /\ Next_ = w /\ ~inc_res)

LimitOK(w) ==
    /\ cnt[w] <= Limit + 1
    /\ cnt[w] = Limit + 1 => wwake[w] # "push" /\ QueuedFor(w[1]) = {}
    /\ cnt[w] = Limit + 1 => Marked(w)
    /\ wwake[w] = "push" => Marked(w) /\ QueuedFor(w[1]) = {}
    /\ QueuedFor(w[1]) # {} => Marked(w)
    /\ AtMostOne(QueuedFor(w[1]))

Calm ==
    /\ handles = [k \in 1 .. NumWorkers |-> <<k - 1, 0>>]
    /\ cmds = <<>>
    /\ gen = [i \in Idx |-> 0]
    /\ \A i \in Idx : alive[<<i, 0>>] # "unborn"
    /\ forced = FALSE
    /\ \A k \in 1 .. Len(queue) : queue[k].type # "Worker"
    /\ pc = "one" => avail # {}

LimitInv ==
    CountInv /\ (NobodyDied => Calm /\ \A i \in Idx : LimitOK(<<i, 0>>))

LEMMA QueueTail ==
    ASSUME TypeOK, queue # <<>>, queue' = Tail(queue), NEW i \in Idx
    PROVE  /\ QueuedFor(i) = {} => QueuedFor(i)' = {}
           /\ AtMostOne(QueuedFor(i)) => AtMostOne(QueuedFor(i))'
           /\ AtMostOne(QueuedFor(i)) /\ Head(queue) = WorkerAvailable(i) => QueuedFor(i)' = {}
           /\ (\A k \in 1 .. Len(queue) : queue[k].type # "Worker")
                => (\A k \in 1 .. Len(queue') : queue'[k].type # "Worker")
<1>1. /\ Len(queue') = Len(queue) - 1 /\ Len(queue) \in Nat \ {0}
      /\ \A k \in 1 .. Len(queue') : queue'[k] = queue[k + 1] /\ k + 1 \in 1 .. Len(queue)
      /\ Head(queue) = queue[1] /\ 1 \in 1 .. Len(queue)
  BY DEF TypeOK
<1>2. \A k \in QueuedFor(i)' : k \in Int /\ k + 1 \in QueuedFor(i) /\ k + 1 # 1
  BY <1>1 DEF QueuedFor
<1>3. QueuedFor(i) = {} => QueuedFor(i)' = {}
  BY <1>2
<1>4. AtMostOne(QueuedFor(i)) => AtMostOne(QueuedFor(i))'
  <2> SUFFICES ASSUME AtMostOne(QueuedFor(i)), NEW j \in QueuedFor(i)', NEW k \in QueuedFor(i)'
               PROVE  j = k
    BY DEF AtMostOne
  <2>1. j + 1 = k + 1
    BY <1>2 DEF AtMostOne
  <2>2. QED
    BY <1>2, <2>1
<1>5. AtMostOne(QueuedFor(i)) /\ Head(queue) = WorkerAvailable(i) => QueuedFor(i)' = {}
  <2> SUFFICES ASSUME AtMostOne(QueuedFor(i)), Head(queue) = WorkerAvailable(i),
                      NEW k \in QueuedFor(i)'
               PROVE  FALSE
    OBVIOUS
  <2>1. 1 \in QueuedFor(i)
    BY <1>1 DEF QueuedFor
  <2>2. QED
    BY <1>2, <2>1 DEF AtMostOne
<1>6. QED
  BY <1>1, <1>3, <1>4, <1>5

LEMMA QueueAppend ==
    ASSUME TypeOK, NEW m \in WakerInterest, queue' = Append(queue, m), NEW i \in Idx
    PROVE  /\ m # WorkerAvailable(i) => QueuedFor(i)' = QueuedFor(i)
           /\ QueuedFor(i) = {} => AtMostOne(QueuedFor(i))'
           /\ m.type # "Worker" /\ (\A k \in 1 .. Len(queue) : queue[k].type # "Worker")
                => (\A k \in 1 .. Len(queue') : queue'[k].type # "Worker")
<1>1. /\ Len(queue') = Len(queue) + 1 /\ Len(queue) \in Nat
      /\ queue'[Len(queue) + 1] = m
      /\ \A k \in 1 .. Len(queue) : queue'[k] = queue[k]
  BY DEF TypeOK
<1>2. \A k \in 1 .. Len(queue') : k = Len(queue) + 1 \/ k \in 1 .. Len(queue)
  BY <1>1
<1>3. \A k \in QueuedFor(i)' : k \in QueuedFor(i) \/ (k = Len(queue) + 1 /\ m = WorkerAvailable(i))
  BY <1>1, <1>2 DEF QueuedFor
<1>4. \A k \in QueuedFor(i) : k \in QueuedFor(i)'
  BY <1>1 DEF QueuedFor
<1>5. m # WorkerAvailable(i) => QueuedFor(i)' = QueuedFor(i)
  BY <1>3, <1>4
<1>6. QueuedFor(i) = {} => AtMostOne(QueuedFor(i))'
  BY <1>3 DEF AtMostOne
<1>7. QED
  BY <1>1, <1>2, <1>5, <1>6

(* Death is for ever, so a step that ends with nobody dead began so. *)
LEMMA DeathStays ==
    ASSUME CountInv, [Next]_vars, NobodyDied'
    PROVE  NobodyDied
<1> USE DEF workers
<1>0. TypeInv /\ TypeOK /\ GenOK
  BY DEF CountInv, TypeInv
<1>1. CASE UNCHANGED alive
  BY <1>1 DEF NobodyDied
<1>2. ASSUME NEW v \in Inst, WorkerGone(v) PROVE FALSE
  BY <1>0, <1>2 DEF WorkerGone, TypeOK, NobodyDied
<1>3. CASE ServerRestartWorker
  <2> DEFINE i == Head(cmds)
             v == <<i, gen[i] + 1>>
  <2>1. i \in Idx /\ gen[i] \in Nat
    BY <1>0, <1>3 DEF ServerRestartWorker, TypeOK, Gens
  <2>2. v \in Inst
    BY <1>0, <1>3, <2>1, ConstantsAssumption DEF ServerRestartWorker, Inst, Gens, TypeOK
  <2>3. alive' = [alive EXCEPT ![v] = "alive"]
    BY <1>3 DEF ServerRestartWorker
  <2>4. alive[v] = "unborn"
    BY <1>0, <2>1, <2>2 DEF GenOK
  <2>5. \A w \in Inst : w # v => alive'[w] = alive[w]
    BY <1>0, <2>2, <2>3 DEF TypeOK
  <2> HIDE DEF v
  <2>6. QED
    BY <2>4, <2>5 DEF NobodyDied
<1>4. CASE Aside
  BY <1>0, <1>1, <1>4, AsideFrame
<1>5. CASE SendCount \/ SendOk \/ SendErr
  BY <1>1, <1>5 DEF SendCount, SendOk, SendErr, SendUndone
<1>6. ASSUME NEW w \in Inst,
             Recv(w) \/ Finish(w) \/ Discard(w) \/ WorkerPush(w) \/ WorkerSignal(w)
      PROVE  NobodyDied
  BY <1>1, <1>6 DEF Recv, Finish, Discard, WorkerPush, AfterPush, WorkerSignal
<1>7. CASE \/ \E m \in {Pause, Resume} : ServerPauseOrResume(m)
           \/ ServerStop \/ ServerRestartFails \/ ServerSignal
           \/ Environment \/ UNCHANGED vars
  BY <1>1, <1>7 DEF ServerPauseOrResume, ServerStop, ServerRestartFails, ServerSignal,
                    Environment, Arrive, Tick, vars
<1>8. QED
  BY <1>2, <1>3, <1>4, <1>5, <1>6, <1>7
  DEF Next, AcceptThread, DispatchStep, Aside, WorkerThread, ServerTask

(* While all is calm, the instances in play are those of generation 0. *)
LEMMA CalmInst ==
    ASSUME CountInv, Calm
    PROVE  /\ \A i \in Idx : <<i, 0>> \in Inst
           /\ next_worker < Len(handles) => Next_ = <<next_worker, 0>> /\ next_worker \in Idx
           /\ \A v \in Inst : v[2] # 0 =>
                wwake[v] = "idle" /\ chan[v] = 0 /\ active[v] = 0 /\ alive[v] = "unborn"
<1>0. TypeOK /\ GenOK
  BY DEF CountInv, TypeInv
<1>1. \A i \in Idx : <<i, 0>> \in Inst
  BY ConstantsAssumption DEF Inst, Gens
<1>2. next_worker < Len(handles) => Next_ = <<next_worker, 0>> /\ next_worker \in Idx
  <2>1. handles = [k \in 1 .. NumWorkers |-> <<k - 1, 0>>] /\ Len(handles) = NumWorkers
    BY ConstantsAssumption DEF Calm
  <2>2. next_worker \in Nat
    BY <1>0 DEF TypeOK
  <2>3. QED
    BY <2>1, <2>2, ConstantsAssumption DEF Next_, Idx
<1>3. ASSUME NEW v \in Inst, v[2] # 0
      PROVE  wwake[v] = "idle" /\ chan[v] = 0 /\ active[v] = 0 /\ alive[v] = "unborn"
  <2>1. v[1] \in Idx /\ v[2] \in Nat /\ gen[v[1]] = 0
    BY InstFields DEF Calm, Gens
  <2>2. QED
    BY <1>0, <1>3, <2>1 DEF GenOK
<1>4. QED
  BY <1>1, <1>2, <1>3

(* A step that leaves a worker's counter alone, starts no notification for  *)
(* it and sets no bit of it keeps its part of the invariant.                *)
LEMMA LimitKept ==
    ASSUME NEW w, LimitOK(w), cnt'[w] = cnt[w],
           wwake'[w] = "push" => wwake[w] = "push",
           QueuedFor(w[1]) = {} => QueuedFor(w[1])' = {},
           AtMostOne(QueuedFor(w[1])) => AtMostOne(QueuedFor(w[1]))',
           Marked(w) => Marked(w)'
    PROVE  LimitOK(w)'
BY DEF LimitOK

LEMMA LimitInit == Init => LimitInv
<1> SUFFICES ASSUME Init PROVE LimitInv
  OBVIOUS
<1>1. Calm
  <2>1. handles = [k \in 1 .. NumWorkers |-> <<k - 1, 0>>] /\ gen = [i \in Idx |-> 0]
    BY DEF Init
  <2>2. cmds = <<>> /\ queue = <<>> /\ forced = FALSE /\ pc = "poll"
    BY DEF Init
  <2>3. \A i \in Idx : alive[<<i, 0>>] # "unborn"
    BY ConstantsAssumption DEF Init, Inst, Gens
  <2>4. QED
    BY <2>1, <2>2, <2>3 DEF Calm
<1>2. ASSUME NEW i \in Idx PROVE LimitOK(<<i, 0>>)
  <2>1. <<i, 0>> \in Inst
    BY ConstantsAssumption DEF Inst, Gens
  <2>2. cnt[<<i, 0>>] = 1 /\ wwake[<<i, 0>>] = "idle" /\ queue = <<>>
    BY <2>1 DEF Init
  <2>3. QueuedFor(i) = {}
    BY <2>2 DEF QueuedFor
  <2>4. QED
    BY <2>2, <2>3, ConstantsAssumption DEF LimitOK, AtMostOne
<1>3. QED
  BY <1>1, <1>2, CountInit DEF LimitInv

LEMMA LimitStep == LimitInv /\ [Next]_vars => LimitInv'
<1> SUFFICES ASSUME LimitInv, [Next]_vars PROVE LimitInv'
  OBVIOUS
<1>0. CountInv /\ CountInv' /\ TypeInv /\ TypeOK /\ PcOK /\ TypeOK'
  BY CountStep DEF LimitInv, CountInv, TypeInv
<1> SUFFICES ASSUME NobodyDied'
             PROVE  Calm' /\ \A i \in Idx : LimitOK(<<i, 0>>)'
  BY <1>0 DEF LimitInv
<1>1. NobodyDied /\ Calm /\ \A i \in Idx : LimitOK(<<i, 0>>)
  BY <1>0, DeathStays DEF LimitInv
<1>2. /\ \A i \in Idx : <<i, 0>> \in Inst
      /\ next_worker < Len(handles) => Next_ = <<next_worker, 0>> /\ next_worker \in Idx
      /\ \A v \in Inst : v[2] # 0 =>
            wwake[v] = "idle" /\ chan[v] = 0 /\ active[v] = 0 /\ alive[v] = "unborn"
  BY <1>0, <1>1, CalmInst
<1> DEFINE W(i) == <<i, 0>>
<1>w. \A i \in Idx : /\ W(i) \in Inst /\ W(i)[1] = i /\ cnt[W(i)] \in Int
                     /\ alive[W(i)] = "alive"
  <2>1. \A i \in Idx : W(i) \in Inst
    BY <1>2
  <2>2. \A i \in Idx : cnt[W(i)] \in Int /\ alive[W(i)] \in {"unborn", "alive", "dead"}
    BY <1>0, <2>1 DEF TypeOK
  <2>3. \A i \in Idx : alive[W(i)] = "alive"
    BY <1>1, <2>1, <2>2 DEF NobodyDied, Calm
  <2>4. QED
    BY <2>1, <2>2, <2>3
<1> USE DEF thread, dispatch, listeners, wakerq, workers, server, bounds
<1>3. ASSUME UNCHANGED <<handles, gen, cmds, alive>>, forced' = FALSE,
             pc' = "one" => avail' # {},
             (\A k \in 1 .. Len(queue) : queue[k].type # "Worker")
               => (\A k \in 1 .. Len(queue') : queue'[k].type # "Worker")
      PROVE  Calm'
  BY <1>1, <1>3 DEF Calm
<1>4. CASE \/ PollReturn \/ HandleWakerEvent \/ EventsDone \/ WakerDrained
           \/ (\E l \in Listeners : HandleListenerEvent(l))
           \/ AcceptNothing \/ AcceptOk \/ AcceptConnectionError \/ AcceptError
           \/ NoHandlePanic \/ SkipWorker
  <2>1. /\ pc # "send" /\ pc' # "send" /\ UNCHANGED <<alive, cnt, wwake, gen, cmds>>
    BY <1>0, <1>4, AsideFrame DEF Aside, LoopStep
  <2>2. UNCHANGED <<queue, avail, handles>>
    BY <1>4 DEF PollReturn, HandleWakerEvent, EventsDone, WakerDrained, HandleListenerEvent,
                AcceptNothing, AcceptOk, AcceptConnectionError, AcceptError, set_timeout, NoHandlePanic,
                SkipWorker
  <2>3. pc' = "one" => avail' # {}
    <3>1. CASE AcceptOk \/ SkipWorker
      BY <1>1, <3>1, <2>2 DEF AcceptOk, SkipWorker, Calm
    <3>2. CASE ~(AcceptOk \/ SkipWorker)
      <4>1. ret \in {"events", "waker"}
        BY <1>0 DEF TypeOK
      <4>2. pc' # "one"
        BY <1>4, <3>2, <4>1
        DEF PollReturn, HandleWakerEvent, EventsDone, WakerDrained, HandleListenerEvent,
            AcceptNothing, AcceptConnectionError, AcceptError, set_timeout, AcceptReturn, NoHandlePanic
      <4>3. QED
        BY <4>2
    <3>3. QED
      BY <3>1, <3>2
  <2>4. forced' = FALSE
    <3>1. CASE SkipWorker
      BY <1>1, <3>1 DEF SkipWorker, Calm
    <3>2. CASE ~SkipWorker
      <4>1. UNCHANGED forced
        BY <1>4, <3>2
        DEF PollReturn, HandleWakerEvent, EventsDone, WakerDrained, HandleListenerEvent,
            AcceptNothing, AcceptOk, AcceptConnectionError, AcceptError, set_timeout, NoHandlePanic
      <4>2. QED
        BY <1>1, <4>1 DEF Calm
    <3>3. QED
      BY <3>1, <3>2
  <2>5. Calm'
    BY <1>3, <2>1, <2>2, <2>3, <2>4
  <2>6. ASSUME NEW i \in Idx PROVE LimitOK(W(i))'
    <3>1. Marked(W(i)) => Marked(W(i))'
      BY <2>1, <2>2 DEF Marked
    <3>2. QueuedFor(i)' = QueuedFor(i)
      BY <2>2 DEF QueuedFor
    <3>3. QED
      BY <1>1, <1>w, <2>1, <3>1, <3>2, LimitKept
  <2>7. QED
    BY <2>5, <2>6
<1>5. CASE HandlePause \/ HandleResume \/ HandleStop
  <2>1. /\ pc # "send" /\ pc' # "send" /\ UNCHANGED <<alive, cnt, wwake, gen, cmds>>
    BY <1>0, <1>5, AsideFrame DEF Aside, LoopStep
  <2>2. UNCHANGED <<avail, handles, forced>> /\ queue # <<>> /\ queue' = Tail(queue)
    BY <1>5 DEF HandlePause, HandleResume, HandleStop, Popped
  <2>3. pc' # "one"
    BY <1>5 DEF HandlePause, HandleResume, HandleStop, Popped, accept_all
  <2>4. 0 \in Idx
    BY ConstantsAssumption DEF Idx
  <2>5. Calm'
    BY <1>0, <1>1, <1>3, <2>1, <2>2, <2>3, <2>4, QueueTail DEF Calm
  <2>6. ASSUME NEW i \in Idx PROVE LimitOK(W(i))'
    <3>1. Marked(W(i)) => Marked(W(i))'
      BY <2>1, <2>2 DEF Marked
    <3>2. /\ QueuedFor(i) = {} => QueuedFor(i)' = {}
          /\ AtMostOne(QueuedFor(i)) => AtMostOne(QueuedFor(i))'
      BY <1>0, <2>2, QueueTail
    <3>3. QED
      BY <1>1, <1>w, <2>1, <3>1, <3>2, LimitKept
  <2>7. QED
    BY <2>5, <2>6
<1>6. CASE HandleWorkerAvailable
  <2> DEFINE j == Head(queue).idx
  <2>1. /\ pc # "send" /\ pc' # "send" /\ UNCHANGED <<alive, cnt, wwake, gen, cmds>>
    BY <1>0, <1>6, AsideFrame DEF Aside, LoopStep
  <2>2. /\ UNCHANGED <<handles, forced>> /\ queue # <<>> /\ queue' = Tail(queue)
        /\ avail' = avail \cup {j}
    BY <1>6 DEF HandleWorkerAvailable, Popped
  <2>3. pc' # "one"
    BY <1>6 DEF HandleWorkerAvailable, Popped, AcceptAllUnlessPaused, accept_all
  <2>4. j \in Idx /\ Head(queue) = WorkerAvailable(j)
    BY <1>0, <1>6, PoppedType, InterestFields DEF HandleWorkerAvailable, Popped
  <2>5. Calm'
    BY <1>0, <1>1, <1>3, <2>1, <2>2, <2>3, <2>4, QueueTail DEF Calm
  <2>6. 1 \in QueuedFor(j)
    BY <1>0, <2>2, <2>4 DEF QueuedFor, TypeOK
  <2> HIDE DEF j
  <2>7. ASSUME NEW i \in Idx PROVE LimitOK(W(i))'
    <3>1. CASE i = j
      <4>1. LimitOK(W(i)) /\ QueuedFor(i) # {}
        BY <1>1, <2>6, <3>1
      <4>2. cnt[W(i)] <= Limit + 1 /\ cnt[W(i)] # Limit + 1 /\ wwake[W(i)] # "push"
        BY <1>w, <4>1 DEF LimitOK
      <4>3. QueuedFor(i)' = {}
        BY <1>0, <1>w, <2>2, <2>4, <3>1, <4>1, QueueTail DEF LimitOK
      <4>4. QED
        BY <1>w, <2>1, <4>2, <4>3 DEF LimitOK, AtMostOne
    <3>2. CASE i # j
      <4>1. Marked(W(i)) => Marked(W(i))'
        BY <1>w, <2>1, <2>2, <3>2 DEF Marked
      <4>2. /\ QueuedFor(i) = {} => QueuedFor(i)' = {}
            /\ AtMostOne(QueuedFor(i)) => AtMostOne(QueuedFor(i))'
        BY <1>0, <2>2, QueueTail
      <4>3. QED
        BY <1>1, <1>w, <2>1, <4>1, <4>2, LimitKept
    <3>3. QED
      BY <3>1, <3>2
  <2>8. QED
    BY <2>5, <2>7
<1>7. ~HandleWorker
  <2> SUFFICES ASSUME HandleWorker PROVE FALSE
    OBVIOUS
  <2>1. queue # <<>> /\ Head(queue).type = "Worker"
    BY DEF HandleWorker, Popped
  <2>2. Head(queue) = queue[1] /\ 1 \in 1 .. Len(queue)
    BY <1>0, <2>1 DEF TypeOK
  <2>3. QED
    BY <1>1, <2>1, <2>2 DEF Calm
<1>8. CASE SendCount
  <2>1. next_worker \in Idx /\ Next_ = W(next_worker)
    BY <1>2, <1>8 DEF SendCount
  <2>2. next_worker \in avail
    BY <1>1, <1>8, <2>1 DEF SendCount, Calm
  <2>3. /\ pc = "one" /\ pc' = "send" /\ cnt' = [cnt EXCEPT ![W(next_worker)] = @ + 1]
        /\ inc_res' = (cnt[W(next_worker)] # Limit)
        /\ UNCHANGED <<alive, wwake, gen, cmds, queue, avail, handles, next_worker, forced>>
    BY <1>8, <2>1 DEF SendCount, inc
  <2>4. Calm'
    BY <1>1, <1>3, <2>3 DEF Calm
  <2>5. Next_' = W(next_worker)
    BY <2>1, <2>3 DEF Next_
  <2>6. ASSUME NEW i \in Idx PROVE LimitOK(W(i))'
    <3>1. QueuedFor(i)' = QueuedFor(i)
      BY <2>3 DEF QueuedFor
    <3>2. CASE i = next_worker
      <4>1. ~Marked(W(i))
        BY <1>w, <2>2, <2>3, <3>2 DEF Marked
      <4>2. cnt[W(i)] <= Limit /\ wwake[W(i)] # "push" /\ QueuedFor(i) = {}
        BY <1>1, <1>w, <4>1, ConstantsAssumption DEF LimitOK
      <4>3. cnt'[W(i)] = cnt[W(i)] + 1
        BY <1>0, <1>w, <2>3, <3>2 DEF TypeOK
      <4>4. cnt'[W(i)] = Limit + 1 => Marked(W(i))'
        <5>1. cnt'[W(i)] = Limit + 1 => cnt[W(i)] = Limit
          BY <1>w, <4>3, ConstantsAssumption
        <5>2. inc_res' = (cnt[W(next_worker)] # Limit)
          BY <2>3
        <5>3. cnt[W(i)] = Limit => ~inc_res'
          BY <3>2, <5>2, Zenon
        <5>4. QED
          BY <2>3, <2>5, <3>2, <5>1, <5>3 DEF Marked
      <4>5. QED
        BY <1>w, <2>3, <3>1, <4>2, <4>3, <4>4, ConstantsAssumption DEF LimitOK, AtMostOne
    <3>3. CASE i # next_worker
      <4>1. W(i) # W(next_worker)
        BY <3>3
      <4>2. cnt'[W(i)] = cnt[W(i)]
        BY <1>0, <1>w, <2>3, <4>1 DEF TypeOK
      <4>3. Marked(W(i)) => Marked(W(i))'
        BY <2>3 DEF Marked
      <4>4. QED
        BY <1>1, <1>w, <2>3, <3>1, <4>2, <4>3, LimitKept
    <3>4. QED
      BY <3>2, <3>3
  <2>7. QED
    BY <2>4, <2>6
<1>9. CASE SendOk
  <2>1. next_worker \in Idx /\ Next_ = W(next_worker)
    BY <1>0, <1>2, <1>9 DEF SendOk, PcOK
  <2>2. /\ pc = "send" /\ pc' = "accept" /\ forced' = FALSE
        /\ avail' = IF inc_res THEN avail ELSE avail \ {Next_[1]}
        /\ UNCHANGED <<alive, cnt, wwake, gen, cmds, queue, handles>>
    BY <1>9 DEF SendOk
  <2>3. Calm'
    BY <1>3, <2>2
  <2>4. ASSUME NEW i \in Idx PROVE LimitOK(W(i))'
    <3>1. Marked(W(i)) => Marked(W(i))'
      BY <1>w, <2>2 DEF Marked
    <3>2. QueuedFor(i)' = QueuedFor(i)
      BY <2>2 DEF QueuedFor
    <3>3. QED
      BY <1>1, <1>w, <2>2, <3>1, <3>2, LimitKept
  <2>5. QED
    BY <2>3, <2>4
<1>10. ~SendErr
  <2>1. SendErr => next_worker < Len(handles) /\ alive[Next_] # "alive"
    BY <1>0 DEF SendErr, SendUndone, PcOK
  <2>2. QED
    BY <1>2, <1>w, <2>1
<1>11. ASSUME NEW v \in Inst, WorkerThread(v), v[2] # 0 PROVE FALSE
  BY <1>2, <1>11
  DEF WorkerThread, Recv, Finish, Discard, WorkerGone, WorkerPush, AfterPush, WorkerSignal
<1>12. ASSUME NEW v \in Inst, WorkerThread(v) PROVE v[1] \in Idx /\ v = W(v[1])
  BY <1>11, <1>12, InstFields
<1>13. ASSUME UNCHANGED <<pc, handles, next_worker, inc_res, avail, forced>>
       PROVE  /\ \A i \in Idx : Marked(W(i)) => Marked(W(i))'
              /\ forced' = FALSE /\ (pc' = "one" => avail' # {})
  BY <1>1, <1>13 DEF Marked, Next_, Calm
<1>14. ASSUME NEW v \in Inst, Recv(v) \/ WorkerSignal(v)
       PROVE  Calm' /\ \A i \in Idx : LimitOK(W(i))'
  <2>1. UNCHANGED <<pc, handles, next_worker, inc_res, avail, forced, queue, cnt, alive, gen, cmds>>
    BY <1>14 DEF Recv, WorkerSignal
  <2>2. ASSUME NEW i \in Idx, wwake'[W(i)] = "push" PROVE wwake[W(i)] = "push"
    <3>1. CASE Recv(v)
      BY <2>2, <3>1 DEF Recv
    <3>2. CASE WorkerSignal(v)
      <4>1. wwake' = [wwake EXCEPT ![v] = "idle"]
        BY <3>2 DEF WorkerSignal
      <4>2. DOMAIN wwake = Inst
        BY <1>0 DEF TypeOK
      <4>3. QED
        BY <1>w, <2>2, <4>1, <4>2
    <3>3. QED
      BY <1>14, <3>1, <3>2
  <2>3. Calm'
    BY <1>3, <1>13, <2>1
  <2>4. ASSUME NEW i \in Idx PROVE LimitOK(W(i))'
    <3>1. QueuedFor(i)' = QueuedFor(i)
      BY <2>1 DEF QueuedFor
    <3>2. QED
      BY <1>1, <1>w, <1>13, <2>1, <2>2, <3>1, LimitKept
  <2>5. QED
    BY <2>3, <2>4
<1>15. ASSUME NEW v \in Inst, Finish(v) \/ Discard(v)
       PROVE  Calm' /\ \A i \in Idx : LimitOK(W(i))'
  <2>1. UNCHANGED <<pc, handles, next_worker, inc_res, avail, forced, queue, alive, gen, cmds>>
    BY <1>15 DEF Finish, Discard
  <2>2. wwake[v] = "idle" /\ DropGuard(v)
    BY <1>15 DEF Finish, Discard
  <2>3. v[1] \in Idx /\ v = W(v[1])
    BY <1>12, <1>15 DEF WorkerThread
  <2>4. Calm'
    BY <1>3, <1>13, <2>1
  <2>5. ASSUME NEW i \in Idx PROVE LimitOK(W(i))'
    <3>1. QueuedFor(i)' = QueuedFor(i)
      BY <2>1 DEF QueuedFor
    <3>2. CASE W(i) = v
      <4>1. /\ cnt'[v] = cnt[v] - 1
            /\ wwake'[v] = IF cnt[v] = Limit + 1 THEN "push" ELSE "idle"
        BY <1>0, <2>2 DEF DropGuard, dec, TypeOK
      <4>2. LimitOK(v) /\ cnt[v] \in Int
        BY <1>1, <1>w, <3>2
      <4>3. cnt[v] <= Limit + 1 /\ cnt'[v] # Limit + 1 /\ cnt'[v] <= Limit + 1
        BY <4>1, <4>2, ConstantsAssumption DEF LimitOK
      <4>4. Marked(v) => Marked(v)'
        BY <1>13, <2>1, <3>2
      <4>5. v[1] = i
        BY <1>w, <3>2
      <4>6. LimitOK(v)'
        BY <3>1, <4>1, <4>2, <4>3, <4>4, <4>5 DEF LimitOK
      <4>7. QED
        BY <3>2, <4>6
    <3>3. CASE W(i) # v
      <4>1. cnt'[W(i)] = cnt[W(i)] /\ wwake'[W(i)] = wwake[W(i)]
        BY <1>0, <1>w, <2>2, <3>3 DEF DropGuard, TypeOK
      <4>2. QED
        BY <1>1, <1>w, <1>13, <2>1, <3>1, <4>1, LimitKept
    <3>4. QED
      BY <3>2, <3>3
  <2>6. QED
    BY <2>4, <2>5
<1>16. ASSUME NEW v \in Inst PROVE ~WorkerGone(v)
  BY <1>0 DEF WorkerGone, TypeOK, NobodyDied
<1>17. ASSUME NEW v \in Inst, WorkerPush(v)
       PROVE  Calm' /\ \A i \in Idx : LimitOK(W(i))'
  <2>1. UNCHANGED <<pc, handles, next_worker, inc_res, avail, forced, alive, gen, cmds, cnt>>
    BY <1>17 DEF WorkerPush, AfterPush
  <2>2. v[1] \in Idx /\ v = W(v[1])
    BY <1>12, <1>17 DEF WorkerThread
  <2>3. /\ wwake[v] = "push" /\ queue' = Append(queue, WorkerAvailable(v[1]))
        /\ \A i \in Idx : wwake'[W(i)] = "push" => wwake[W(i)] = "push" /\ W(i) # v
    BY <1>0, <1>w, <1>17 DEF WorkerPush, AfterPush, TypeOK
  <2>4. WorkerAvailable(v[1]) \in WakerInterest /\ WorkerAvailable(v[1]).type # "Worker"
    BY <2>2, InterestType DEF WorkerAvailable
  <2>5. Calm'
    BY <1>0, <1>3, <1>13, <2>1, <2>2, <2>3, <2>4, QueueAppend
  <2>6. ASSUME NEW i \in Idx PROVE LimitOK(W(i))'
    <3>1. CASE i = v[1]
      <4>1. LimitOK(W(i)) /\ W(i) = v
        BY <1>1, <2>2, <3>1
      <4>2. cnt[W(i)] <= Limit + 1 /\ cnt[W(i)] # Limit + 1 /\ Marked(W(i)) /\ QueuedFor(i) = {}
        BY <1>w, <2>3, <4>1 DEF LimitOK
      <4>3. AtMostOne(QueuedFor(i))'
        BY <1>0, <2>3, <2>4, <4>2, QueueAppend
      <4>4. Marked(W(i))' /\ wwake'[W(i)] # "push"
        BY <1>13, <2>1, <2>3, <4>1, <4>2
      <4>5. QED
        BY <1>w, <2>1, <4>2, <4>3, <4>4 DEF LimitOK
    <3>2. CASE i # v[1]
      <4>1. WorkerAvailable(v[1]) # WorkerAvailable(i)
        BY <3>2 DEF WorkerAvailable
      <4>2. QueuedFor(i)' = QueuedFor(i)
        BY <1>0, <2>3, <2>4, <4>1, QueueAppend
      <4>3. QED
        BY <1>1, <1>w, <1>13, <2>1, <2>3, <4>2, LimitKept
    <3>3. QED
      BY <3>1, <3>2
  <2>7. QED
    BY <2>5, <2>6
<1>18. ASSUME NEW m \in {Pause, Resume, Stop}, UNCHANGED <<thread, dispatch, workers, gen, cmds>>,
              queue' = Append(queue, m)
       PROVE  Calm' /\ \A i \in Idx : LimitOK(W(i))'
  <2>1. m \in WakerInterest /\ m.type # "Worker" /\ \A i \in Idx : m # WorkerAvailable(i)
    <3>1. m.type # "Worker" /\ m.type # "WorkerAvailable"
      BY DEF Pause, Resume, Stop
    <3>2. QED
      BY <3>1, InterestType DEF WorkerAvailable
  <2>2. 0 \in Idx
    BY ConstantsAssumption DEF Idx
  <2>3. Calm'
    BY <1>0, <1>3, <1>13, <1>18, <2>1, <2>2, QueueAppend
  <2>4. ASSUME NEW i \in Idx PROVE LimitOK(W(i))'
    <3>1. QueuedFor(i)' = QueuedFor(i)
      BY <1>0, <1>18, <2>1, QueueAppend
    <3>2. QED
      BY <1>1, <1>w, <1>13, <1>18, <3>1, LimitKept
  <2>5. QED
    BY <2>3, <2>4
<1>19. CASE ServerStop \/ \E m \in {Pause, Resume} : ServerPauseOrResume(m)
  BY <1>18, <1>19 DEF ServerStop, ServerPauseOrResume, ServerPush
<1>20. ~ServerRestartWorker /\ ~ServerRestartFails
  BY <1>1 DEF ServerRestartWorker, ServerRestartFails, Calm
<1>21. CASE ServerSignal \/ Environment \/ UNCHANGED vars
  <2>1. UNCHANGED <<pc, handles, next_worker, inc_res, avail, forced, queue, cnt, alive, gen,
                    cmds, wwake>>
    BY <1>21 DEF ServerSignal, Environment, Arrive, Tick, vars
  <2>2. Calm'
    BY <1>3, <1>13, <2>1
  <2>3. ASSUME NEW i \in Idx PROVE LimitOK(W(i))'
    <3>1. QueuedFor(i)' = QueuedFor(i)
      BY <2>1 DEF QueuedFor
    <3>2. QED
      BY <1>1, <1>w, <1>13, <2>1, <3>1, LimitKept
  <2>4. QED
    BY <2>2, <2>3
<1>22. QED
  <2>1. CASE AcceptThread
    BY <2>1, <1>4, <1>5, <1>6, <1>7, <1>8, <1>9, <1>10 DEF AcceptThread, LoopStep, DispatchStep
  <2>2. CASE \E v \in Inst : WorkerThread(v)
    BY <2>2, <1>14, <1>15, <1>16, <1>17 DEF WorkerThread
  <2>3. CASE ServerTask \/ Environment \/ UNCHANGED vars
    BY <2>3, <1>19, <1>20, <1>21 DEF ServerTask
  <2>4. QED
    BY <2>1, <2>2, <2>3 DEF Next

LEMMA LimitInvImplies == LimitInv => ConnLimit /\ BitsHaveHandles
<1> SUFFICES ASSUME LimitInv, NobodyDied
             PROVE  /\ \A w \in Inst : cnt[w] - 1 <= Limit
                    /\ ~forced /\ \A i \in avail : \E k \in 1 .. Len(handles) : handles[k][1] = i
  BY DEF ConnLimit, BitsHaveHandles
<1>0. CountInv /\ TypeOK /\ CountCoversWork /\ Calm /\ \A i \in Idx : LimitOK(<<i, 0>>)
  BY DEF LimitInv, CountInv, TypeInv
<1>1. ASSUME NEW w \in Inst PROVE cnt[w] - 1 <= Limit
  <2>1. CASE w[2] = 0
    <3>1. w[1] \in Idx /\ w = <<w[1], 0>>
      BY <2>1, InstFields
    <3>2. LimitOK(w) /\ cnt[w] \in Int
      BY <1>0, <3>1 DEF TypeOK
    <3>3. QED
      BY <3>2, ConstantsAssumption DEF LimitOK
  <2>2. CASE w[2] # 0
    <3>1. alive[w] = "unborn" /\ chan[w] = 0 /\ active[w] = 0
      BY <1>0, <2>2, CalmInst
    <3>2. InFlight(w) \in {0, 1}
      BY DEF InFlight
    <3>3. cnt[w] = 1 + chan[w] + active[w] + InFlight(w)
      BY <1>0, <3>1 DEF CountCoversWork
    <3>4. QED
      BY <3>1, <3>2, <3>3, ConstantsAssumption
  <2>3. QED
    BY <2>1, <2>2
<1>2. ASSUME NEW i \in avail PROVE \E k \in 1 .. Len(handles) : handles[k][1] = i
  <2>1. i \in 0 .. NumWorkers - 1
    BY <1>0 DEF TypeOK, Idx
  <2>2. handles = [k \in 1 .. NumWorkers |-> <<k - 1, 0>>] /\ Len(handles) = NumWorkers
    BY <1>0, ConstantsAssumption DEF Calm
  <2>3. i + 1 \in 1 .. Len(handles) /\ handles[i + 1][1] = i
    BY <2>1, <2>2, ConstantsAssumption
  <2>4. QED
    BY <2>3
<1>3. QED
  BY <1>0, <1>1, <1>2 DEF Calm

(* While no worker has died no worker is ever given more connections than   *)
(* the limit, for any number of workers and any limit.                      *)
THEOREM LimitRespected == Spec => []ConnLimit
BY LimitInit, LimitStep, LimitInvImplies, PTL DEF Spec

(* While no worker has died every set bit has a handle behind it, so        *)
(* accept_one always ends, and no connection is forced on a full worker.    *)
THEOREM AvailabilityIsReal == Spec => []BitsHaveHandles
BY LimitInit, LimitStep, LimitInvImplies, PTL DEF Spec

-----------------------------------------------------------------------------
(* No listener is forgotten.                                                *)
(*                                                                          *)
(* ListenerWatched speaks of the moments at which the accept thread polls;  *)
(* it is kept because its two halves hold between them too, until the       *)
(* thread stops.                                                            *)

WatchInv ==
    /\ ~paused /\ pc # "stopped" => \A l \in Listeners : l \in reg \/ ltimeout[l] # "none"
    /\ \A l \in Listeners : ltimeout[l] # "none" => timeout

(* The actions that leave the listeners' registrations and deadlines alone. *)
LEMMA WatchFrame ==
    ASSUME WatchInv, UNCHANGED <<reg, ltimeout, timeout>>,
           paused' = paused, pc = "stopped" => pc' = "stopped"
    PROVE  WatchInv'
BY DEF WatchInv

LEMMA WatchStep == TypeInv /\ WatchInv /\ [Next]_vars => WatchInv'
<1> SUFFICES ASSUME TypeInv, WatchInv, [Next]_vars PROVE WatchInv'
  OBVIOUS
<1>0. ltimeout \in [Listeners -> {"none", "armed", "due"}] /\ timeout \in BOOLEAN
  BY DEF TypeInv, TypeOK
<1> USE DEF thread, dispatch, listeners, wakerq, workers, server, bounds
<1>1. CASE PollReturn \/ HandleWakerEvent \/ WakerDrained \/ AcceptNothing \/ AcceptOk
             \/ AcceptConnectionError \/ \E l \in Listeners : HandleListenerEvent(l)
  BY <1>1, WatchFrame
  DEF PollReturn, HandleWakerEvent, WakerDrained, AcceptNothing, AcceptOk,
      AcceptConnectionError, HandleListenerEvent
<1>2. CASE HandleWorkerAvailable \/ HandleWorker
  BY <1>2, WatchFrame DEF HandleWorkerAvailable, HandleWorker, Popped
<1>3. CASE EventsDone
  <2>1. CASE timeout
    <3>1. /\ ltimeout' = [l \in Listeners |-> IF ltimeout[l] = "due" THEN "none" ELSE ltimeout[l]]
          /\ timeout' = \E l \in Listeners : ltimeout[l] = "armed"
          /\ reg' = reg \cup {l \in Listeners : ltimeout[l] = "due" /\ ~paused}
          /\ paused' = paused /\ pc = "events"
      BY <1>3, <2>1 DEF EventsDone, process_timeout, RegisterAll
    <3>2. \A l \in Listeners : ltimeout'[l] # "none" => ltimeout[l] = "armed"
      BY <1>0, <3>1
    <3>3. \A l \in Listeners : ltimeout[l] = "armed" => ltimeout'[l] = "armed"
      BY <3>1
    <3>4. ASSUME ~paused', NEW l \in Listeners PROVE l \in reg' \/ ltimeout'[l] # "none"
      BY <1>0, <3>1, <3>3, <3>4 DEF WatchInv
    <3>5. QED
      BY <3>1, <3>2, <3>4 DEF WatchInv
  <2>2. CASE ~timeout
    BY <1>3, <2>2, WatchFrame DEF EventsDone
  <2>3. QED
    BY <2>1, <2>2
<1>4. CASE HandlePause \/ HandleStop
  <2>1. paused' \/ pc' = "stopped"
    BY <1>4 DEF HandlePause, HandleStop
  <2>2. /\ timeout' = timeout
        /\ deregister_all \/ ltimeout' = ltimeout
    BY <1>4 DEF HandlePause, HandleStop
  <2>3. \A l \in Listeners : ltimeout'[l] # "none" => timeout'
    BY <2>2 DEF WatchInv, deregister_all
  <2>4. QED
    BY <2>1, <2>3 DEF WatchInv
<1>5. CASE HandleResume
  <2>1. /\ pc # "stopped" /\ paused' = FALSE /\ UNCHANGED <<ltimeout, timeout>>
        /\ reg' = reg \cup (IF paused THEN Listeners ELSE {})
    BY <1>5 DEF HandleResume, Popped, RegisterAll
  <2>2. QED
    BY <2>1 DEF WatchInv
<1>6. CASE AcceptError
  <2>1. /\ pc = "accept" /\ paused' = paused /\ timeout' = TRUE
        /\ reg' = reg \ {Head(scan)}
        /\ ltimeout' = [ltimeout EXCEPT ![Head(scan)] = "armed"]
    BY <1>6 DEF AcceptError, DeregisterAll, set_timeout
  <2>2. \A l \in Listeners :
          ltimeout'[l] = IF l = Head(scan) THEN "armed" ELSE ltimeout[l]
    BY <1>0, <2>1
  <2>3. QED
    BY <2>1, <2>2 DEF WatchInv
<1>7. CASE DispatchStep
  BY <1>7, WatchFrame
  DEF DispatchStep, NoHandlePanic, SkipWorker, SendCount, SendOk, SendErr
<1>8. CASE \E w \in Inst : WorkerThread(w)
  BY <1>8, WatchFrame
  DEF WorkerThread, Recv, Finish, Discard, WorkerGone, WorkerPush, WorkerSignal
<1>9. CASE ServerTask \/ UNCHANGED vars
  BY <1>9, WatchFrame
  DEF ServerTask, ServerPauseOrResume, ServerStop, ServerRestartWorker, ServerRestartFails,
      ServerSignal, vars
<1>10. ASSUME NEW l \in Listeners, Arrive(l) PROVE WatchInv'
  BY <1>10, WatchFrame DEF Arrive
<1>11. ASSUME NEW l \in Listeners, Tick(l) PROVE WatchInv'
  <2>1. \A m \in Listeners : ltimeout'[m] = "none" <=> ltimeout[m] = "none"
    BY <1>0, <1>11 DEF Tick
  <2>2. UNCHANGED <<pc, paused, reg, timeout>>
    BY <1>11 DEF Tick
  <2>3. QED
    BY <2>1, <2>2 DEF WatchInv
<1>12. QED
  BY <1>1, <1>2, <1>3, <1>4, <1>5, <1>6, <1>7, <1>8, <1>9, <1>10, <1>11
  DEF Next, AcceptThread, LoopStep, Environment

(* Whatever errors, deadlines, pauses and resumes follow one another, the   *)
(* accept thread never polls unpaused with a listener that is neither       *)
(* registered nor waiting for a deadline, and never polls without a timeout *)
(* while a deadline waits (process_timeout, deregister_all, accept).        *)
THEOREM ListenersNeverForgotten == Spec => []ListenerWatched
<1>1. Init => WatchInv
  BY DEF Init, WatchInv
<1>2. WatchInv => ListenerWatched
  BY DEF WatchInv, ListenerWatched
<1>3. QED
  BY TypeInit, TypeStep, WatchStep, <1>1, <1>2, PTL DEF Spec

-----------------------------------------------------------------------------
(* Edge-triggered readiness.                                                *)
(*                                                                          *)
(* NoLostEdge holds at the poll because, at every step, an edge that was    *)
(* taken from the poll is still in the batch of events or its listener is   *)
(* still in the scan: a listener leaves the scan only when nothing waits on *)
(* it, when it is deregistered, or when no worker is available, and the     *)
(* notification that ends that scans every listener.                        *)

InScan(l) == \E k \in 1 .. Len(scan) : scan[k] = l

Seen(l) == l \in ready \/ l \in events \/ InScan(l)

EdgeInv ==
    /\ pc \in {"poll", "events", "waker"} => scan = <<>>
    /\ ~paused /\ avail # {} => \A l \in reg : backlog[l] > 0 => Seen(l)

LEMMA ModRange ==
    ASSUME NEW n \in Nat \ {0}, NEW x \in 0 .. n - 1
    PROVE  x % n = x /\ (x + n) % n = x
BY SMTT(30)

(* accept_all gives every listener to accept(). *)
LEMMA AcceptAllScans ==
    ASSUME TypeInv, accept_all
    PROVE  \A l \in Listeners : InScan(l)'
<1> USE ConstantsAssumption
<1>1. next_listener \in 0 .. NumListeners - 1
  BY DEF TypeInv, TypeOK, Listeners
<1>2. scan' = [k \in 1 .. NumListeners |-> (next_listener + k - 1) % NumListeners]
  BY DEF accept_all
<1>3. Len(scan') = NumListeners
  BY <1>2
<1>4. ASSUME NEW l \in Listeners PROVE InScan(l)'
  <2>1. l \in 0 .. NumListeners - 1
    BY DEF Listeners
  <2>2. CASE next_listener <= l
    <3>1. l - next_listener + 1 \in 1 .. NumListeners
      BY <1>1, <2>1, <2>2
    <3>2. scan'[l - next_listener + 1] = l
      <4>1. next_listener + (l - next_listener + 1) - 1 = l
        BY <1>1, <2>1
      <4>2. scan'[l - next_listener + 1] =
              (next_listener + (l - next_listener + 1) - 1) % NumListeners
        BY <1>2, <3>1
      <4>3. l % NumListeners = l
        BY <2>1, ModRange
      <4>4. QED
        BY <4>1, <4>2, <4>3
    <3>3. QED
      BY <1>3, <3>1, <3>2 DEF InScan
  <2>3. CASE l < next_listener
    <3> DEFINE k == l + NumListeners - next_listener + 1
    <3>1. k \in 1 .. NumListeners
      BY <1>1, <2>1, <2>3
    <3>2. scan'[k] = l
      <4>1. next_listener + k - 1 = l + NumListeners
        BY <1>1, <2>1
      <4>2. scan'[k] = (next_listener + k - 1) % NumListeners
        BY <1>2, <3>1
      <4>3. (l + NumListeners) % NumListeners = l
        BY <2>1, ModRange
      <4>4. QED
        BY <4>1, <4>2, <4>3
    <3>3. QED
      BY <1>3, <3>1, <3>2 DEF InScan
  <2>4. QED
    BY <1>1, <2>1, <2>2, <2>3
<1>5. QED
  BY <1>4

(* accept() is done with a listener; the others stay in the scan. *)
LEMMA AcceptReturnScans ==
    ASSUME TypeInv, pc = "accept", AcceptReturn
    PROVE  /\ Head(scan) \in Listeners
           /\ pc' \in {"poll", "events", "waker"} => scan' = <<>>
           /\ \A l \in Listeners : InScan(l) => l = Head(scan) \/ InScan(l)'
<1>1. scan \in Seq(Listeners) /\ scan # <<>> /\ scan' = Tail(scan)
  BY DEF TypeInv, TypeOK, PcOK, AcceptReturn
<1>2. Head(scan) = scan[1] /\ Len(scan') = Len(scan) - 1
      /\ \A k \in 1 .. Len(scan) - 1 : scan'[k] = scan[k + 1]
  BY <1>1
<1>3. ASSUME NEW l \in Listeners, NEW k \in 1 .. Len(scan), scan[k] = l, l # Head(scan)
      PROVE  InScan(l)'
  <2>1. k - 1 \in 1 .. Len(scan) - 1
    BY <1>1, <1>2, <1>3
  <2>2. scan'[k - 1] = l
    BY <1>2, <1>3, <2>1
  <2>3. QED
    BY <1>1, <1>2, <2>1, <2>2 DEF InScan
<1>4. pc' \in {"poll", "events", "waker"} => scan' = <<>>
  BY <1>1 DEF AcceptReturn
<1>5. QED
  BY <1>1, <1>3, <1>4 DEF InScan

(* The actions that only take from what has to be seen. *)
LEMMA EdgeFrame ==
    ASSUME TypeInv, EdgeInv, UNCHANGED <<events, scan, ready>>,
           pc' \in {"poll", "events", "waker"} => pc \in {"poll", "events", "waker"},
           ~paused' => ~paused, avail' \subseteq avail, reg' \subseteq reg,
           \A l \in reg' : backlog'[l] > 0 => backlog[l] > 0
    PROVE  EdgeInv'
<1>1. ASSUME ~paused', avail' # {}, NEW l \in reg', backlog'[l] > 0 PROVE Seen(l)'
  <2>1. Seen(l)
    BY <1>1 DEF EdgeInv
  <2>2. QED
    BY <2>1 DEF Seen, InScan
<1>2. QED
  BY <1>1 DEF EdgeInv

(* After accept_all every listener is in the scan, whatever happened before. *)
LEMMA EdgeAcceptAll ==
    ASSUME TypeInv, accept_all, reg' \subseteq Listeners
    PROVE  EdgeInv'
<1>1. pc' = "accept"
  BY DEF accept_all
<1>2. QED
  BY <1>1, AcceptAllScans DEF EdgeInv, Seen

LEMMA EdgeStep == TypeInv /\ EdgeInv /\ [Next]_vars => EdgeInv'
<1> SUFFICES ASSUME TypeInv, EdgeInv, [Next]_vars PROVE EdgeInv'
  OBVIOUS
<1>0. /\ reg \subseteq Listeners /\ ready \subseteq Listeners
      /\ backlog \in [Listeners -> Nat] /\ Waker \notin Listeners
  BY ConstantsAssumption DEF TypeInv, TypeOK, Waker, Listeners
<1>r. reg' \subseteq Listeners
  <2>1. TypeInv'
    BY TypeStep
  <2>2. QED
    BY <2>1 DEF TypeInv, TypeOK
<1> USE DEF thread, dispatch, listeners, wakerq, workers, server, bounds
<1>1. CASE PollReturn
  <2>1. /\ pc = "poll" /\ events = {} /\ pc' = "events"
        /\ ready \subseteq events'
        /\ UNCHANGED <<scan, reg, backlog, paused, avail>>
    BY <1>1 DEF PollReturn, TypeInv, PcOK
  <2>2. QED
    BY <2>1 DEF EdgeInv, Seen, InScan
<1>2. CASE HandleWakerEvent
  <2>1. /\ pc = "events" /\ events' = events \ {Waker}
        /\ pc' = "waker" /\ UNCHANGED <<scan, ready, reg, backlog, paused, avail>>
    BY <1>2 DEF HandleWakerEvent
  <2>2. QED
    BY <1>0, <2>1 DEF EdgeInv, Seen, InScan
<1>3. ASSUME NEW l \in Listeners, HandleListenerEvent(l) PROVE EdgeInv'
  <2>1. /\ pc = "events" /\ pc' = "accept"
        /\ events' = events \ {l} /\ scan' = <<l>>
        /\ UNCHANGED <<ready, reg, backlog, paused, avail>>
    BY <1>3 DEF HandleListenerEvent
  <2>2. InScan(l)'
    <3>1. 1 \in 1 .. Len(scan') /\ scan'[1] = l
      BY <2>1
    <3>2. QED
      BY <3>1 DEF InScan
  <2>3. scan = <<>>
    BY <2>1 DEF EdgeInv
  <2>4. \A m \in Listeners : ~InScan(m)
    BY <2>3 DEF InScan
  <2>5. \A m \in Listeners : Seen(m) => Seen(m)'
    BY <2>1, <2>2, <2>4 DEF Seen
  <2>6. QED
    BY <1>0, <2>1, <2>5 DEF EdgeInv
<1>4. CASE EventsDone
  <2>1. /\ pc = "events" /\ pc' = "poll" /\ events = {}
        /\ UNCHANGED <<scan, events, backlog, paused, avail>>
    BY <1>4 DEF EventsDone
  <2>2. \E S \in SUBSET Listeners : RegisterAll(S)
    <3>1. CASE timeout
      <4>1. RegisterAll({l \in Listeners : ltimeout[l] = "due" /\ ~paused})
        BY <1>4, <3>1 DEF EventsDone, process_timeout
      <4>2. QED
        BY <4>1
    <3>2. CASE ~timeout
      <4>1. RegisterAll({})
        BY <1>4, <3>2 DEF EventsDone, RegisterAll
      <4>2. QED
        BY <4>1
    <3>3. QED
      BY <3>1, <3>2
  <2>3. PICK S \in SUBSET Listeners : RegisterAll(S)
    BY <2>2
  <2>4. /\ reg' = reg \cup S
        /\ ready' = ready \cup {l \in S \ reg : backlog[l] > 0}
    BY <2>3 DEF RegisterAll
  <2>5. ASSUME ~paused', avail' # {}, NEW l \in reg', backlog'[l] > 0 PROVE Seen(l)'
    <3>1. CASE l \in reg
      <4>1. Seen(l)
        BY <2>1, <2>5, <3>1 DEF EdgeInv
      <4>2. QED
        BY <2>1, <2>4, <4>1 DEF Seen, InScan
    <3>2. CASE l \notin reg
      BY <2>1, <2>4, <2>5, <3>2 DEF Seen
    <3>3. QED
      BY <3>1, <3>2
  <2>6. scan' = <<>>
    BY <2>1 DEF EdgeInv
  <2>7. QED
    BY <2>5, <2>6 DEF EdgeInv
<1>5. CASE HandleWorkerAvailable \/ HandleWorker
  <2>1. CASE paused
    <3>1. pc = "waker" /\ paused' /\ UNCHANGED <<pc, scan>>
      BY <1>5, <2>1 DEF HandleWorkerAvailable, HandleWorker, AcceptAllUnlessPaused, Popped
    <3>2. QED
      BY <3>1 DEF EdgeInv
  <2>2. CASE ~paused
    BY <1>r, <1>5, <2>2, EdgeAcceptAll
    DEF HandleWorkerAvailable, HandleWorker, AcceptAllUnlessPaused
  <2>3. QED
    BY <2>1, <2>2
<1>6. CASE HandlePause \/ HandleStop
  <2>1. /\ pc = "waker" /\ pc' \in {"waker", "stopped"} /\ UNCHANGED <<scan, events, backlog, avail>>
    BY <1>6 DEF HandlePause, HandleStop, Popped
  <2>2. scan' = <<>>
    BY <2>1 DEF EdgeInv
  <2>3. CASE paused'
    BY <2>2, <2>3 DEF EdgeInv
  <2>4. CASE ~paused'
    <3>1. HandleStop /\ ~paused /\ deregister_all
      BY <1>6, <2>4 DEF HandlePause, HandleStop
    <3>2. \E S \in SUBSET Listeners : reg' = reg \ S /\ ready' = ready \ S
      BY <3>1 DEF deregister_all, DeregisterAll
    <3>3. ASSUME avail' # {}, NEW l \in reg', backlog'[l] > 0 PROVE Seen(l)'
      <4>1. Seen(l)
        BY <2>1, <3>1, <3>2, <3>3 DEF EdgeInv
      <4>2. QED
        BY <2>1, <3>2, <3>3, <4>1 DEF Seen, InScan
    <3>4. QED
      BY <2>2, <3>3 DEF EdgeInv
  <2>5. QED
    BY <2>3, <2>4
<1>7. CASE HandleResume
  <2>1. CASE paused
    BY <1>r, <1>7, <2>1, EdgeAcceptAll DEF HandleResume
  <2>2. CASE ~paused
    <3>1. reg' = reg /\ ready' = ready
      BY <1>7, <2>2 DEF HandleResume, RegisterAll
    <3>2. UNCHANGED <<pc, scan, events, avail, backlog>>
      BY <1>7, <2>2 DEF HandleResume
    <3>3. QED
      BY <2>2, <3>1, <3>2, EdgeFrame
  <2>3. QED
    BY <2>1, <2>2
<1>8. CASE WakerDrained
  BY <1>8, EdgeFrame DEF WakerDrained
<1>9. CASE AcceptNothing
  <2>1. UNCHANGED <<events, ready, reg, backlog, paused, avail>>
    BY <1>9 DEF AcceptNothing
  <2>2. pc = "accept" /\ AcceptReturn /\ (avail = {} \/ backlog[Head(scan)] = 0)
    BY <1>9 DEF AcceptNothing
  <2>3. ASSUME ~paused', avail' # {}, NEW l \in reg', backlog'[l] > 0 PROVE Seen(l)'
    <3>1. l \in Listeners /\ l # Head(scan)
      BY <1>0, <2>1, <2>2, <2>3
    <3>2. Seen(l)
      BY <2>1, <2>3 DEF EdgeInv
    <3>3. QED
      BY <2>1, <2>2, <3>1, <3>2, AcceptReturnScans DEF Seen
  <2>4. QED
    BY <2>2, <2>3, AcceptReturnScans DEF EdgeInv
<1>10. CASE AcceptOk \/ AcceptConnectionError
  <2>1. /\ pc = "accept" /\ pc' \in {"one", "accept"}
        /\ backlog' = [backlog EXCEPT ![Head(scan)] = @ - 1]
        /\ UNCHANGED <<events, scan, ready, reg, paused, avail>>
    BY <1>10 DEF AcceptOk, AcceptConnectionError
  <2>2. \A l \in reg' : backlog'[l] > 0 => backlog[l] > 0
    BY <1>0, <2>1
  <2>3. QED
    BY <2>1, <2>2, EdgeFrame
<1>11. CASE AcceptError
  <2>1. /\ pc = "accept" /\ AcceptReturn
        /\ reg' = reg \ {Head(scan)} /\ ready' = ready \ {Head(scan)}
        /\ UNCHANGED <<events, backlog, paused, avail>>
    BY <1>11 DEF AcceptError, DeregisterAll
  <2>2. ASSUME ~paused', avail' # {}, NEW l \in reg', backlog'[l] > 0 PROVE Seen(l)'
    <3>1. l \in Listeners /\ l # Head(scan)
      BY <1>0, <2>1, <2>2
    <3>2. Seen(l)
      BY <2>1, <2>2 DEF EdgeInv
    <3>3. QED
      BY <2>1, <3>1, <3>2, AcceptReturnScans DEF Seen
  <2>3. QED
    BY <2>1, <2>2, AcceptReturnScans DEF EdgeInv
<1>12. CASE DispatchStep
  <2>1. /\ pc' \notin {"poll", "events", "waker"}
        /\ avail' \subseteq avail
        /\ UNCHANGED <<events, scan, ready, reg, backlog, paused>>
    BY <1>12 DEF DispatchStep, NoHandlePanic, SkipWorker, SendCount, SendOk, SendErr
  <2>2. QED
    BY <2>1, EdgeFrame
<1>13. CASE \E w \in Inst : WorkerThread(w)
  BY <1>13, EdgeFrame
  DEF WorkerThread, Recv, Finish, Discard, WorkerGone, WorkerPush, WorkerSignal
<1>14. CASE ServerTask \/ UNCHANGED vars
  BY <1>14, EdgeFrame
  DEF ServerTask, ServerPauseOrResume, ServerStop, ServerRestartWorker, ServerRestartFails,
      ServerSignal, vars
<1>15. ASSUME NEW l \in Listeners, Arrive(l) PROVE EdgeInv'
  <2>1. /\ backlog' = [backlog EXCEPT ![l] = @ + 1] /\ ready' = ready \cup (reg \cap {l})
        /\ UNCHANGED <<pc, events, scan, reg, paused, avail>>
    BY <1>15 DEF Arrive
  <2>2. ASSUME ~paused', avail' # {}, NEW m \in reg', backlog'[m] > 0 PROVE Seen(m)'
    <3>1. CASE m = l
      BY <2>1, <2>2, <3>1 DEF Seen
    <3>2. CASE m # l
      <4>1. backlog[m] > 0 /\ m \in reg
        BY <1>0, <2>1, <2>2, <3>2
      <4>2. Seen(m)
        BY <2>1, <2>2, <4>1 DEF EdgeInv
      <4>3. QED
        BY <2>1, <4>2 DEF Seen, InScan
    <3>3. QED
      BY <3>1, <3>2
  <2>3. QED
    BY <2>1, <2>2 DEF EdgeInv
<1>16. ASSUME NEW l \in Listeners, Tick(l) PROVE EdgeInv'
  BY <1>16, EdgeFrame DEF Tick
<1>17. QED
  BY <1>1, <1>2, <1>3, <1>4, <1>5, <1>6, <1>7, <1>8, <1>9, <1>10, <1>11, <1>12, <1>13,
     <1>14, <1>15, <1>16
  DEF Next, AcceptThread, LoopStep, Environment

(* A connection that waits on a registered listener while a worker is       *)
(* available never waits for an edge that was already taken: whenever the   *)
(* accept thread polls unpaused, the poll reports it (accept, accept_all).  *)
THEOREM EdgesNeverLost == Spec => []NoLostEdge
<1>1. Init => EdgeInv
  <2> SUFFICES ASSUME Init PROVE EdgeInv
    OBVIOUS
  <2>1. scan = <<>> /\ \A l \in reg : ~(backlog[l] > 0)
    BY DEF Init
  <2>2. QED
    BY <2>1 DEF EdgeInv
<1>2. TypeInv /\ EdgeInv => NoLostEdge
  <2> SUFFICES ASSUME TypeInv, EdgeInv, pc = "poll", ~paused, avail # {},
                      NEW l \in reg, backlog[l] > 0
               PROVE  l \in ready
    BY DEF NoLostEdge
  <2>1. events = {} /\ scan = <<>>
    BY DEF TypeInv, PcOK, EdgeInv
  <2>2. QED
    BY <2>1 DEF EdgeInv, Seen, InScan
<1>3. QED
  BY TypeInit, TypeStep, EdgeStep, <1>1, <1>2, PTL DEF Spec

-----------------------------------------------------------------------------
(* One worker per index.                                                    *)
(*                                                                          *)
(* OneHolderPerIdx is inductive over well typed states.  The handles, the   *)
(* waker queue and the command channel are each looked at as the set of     *)
(* positions at which they hold something of an index; a fault moves the    *)
(* index from the handles to the commands, a restart from there to the      *)
(* queue, and the Worker interest back to the handles.                      *)

At(s, T) == {k \in 1 .. Len(s) : s[k] \in T}

OfIdx(i) == {w \in Inst : w[1] = i}

Held(i) == At(handles, OfIdx(i))
Coming(i) == At(queue, {Worker(w) : w \in OfIdx(i)})
Reported(i) == At(cmds, {i})

OneHolder(i) ==
    /\ AtMostOne(Held(i)) /\ AtMostOne(Coming(i)) /\ AtMostOne(Reported(i))
    /\ Held(i) = {} \/ Coming(i) = {}
    /\ Held(i) = {} \/ Reported(i) = {}
    /\ Coming(i) = {} \/ Reported(i) = {}

HolderInv == \A i \in Idx : OneHolder(i)

LEMMA AtAppend ==
    ASSUME NEW U, NEW s \in Seq(U), NEW x \in U, NEW T
    PROVE  /\ x \notin T => At(Append(s, x), T) = At(s, T)
           /\ At(s, T) = {} => AtMostOne(At(Append(s, x), T))
<1>1. /\ Len(Append(s, x)) = Len(s) + 1 /\ Len(s) \in Nat
      /\ \A k \in 1 .. Len(s) : Append(s, x)[k] = s[k]
      /\ Append(s, x)[Len(s) + 1] = x
  OBVIOUS
<1> DEFINE t == Append(s, x)
<1> HIDE DEF t
<1>2. x \notin T => At(t, T) = At(s, T)
  BY <1>1 DEF At, t
<1>3. At(s, T) = {} => \A k \in At(t, T) : k = Len(s) + 1
  BY <1>1 DEF At, t
<1>4. QED
  BY <1>2, <1>3 DEF AtMostOne, t

LEMMA AtTail ==
    ASSUME NEW U, NEW s \in Seq(U), s # <<>>, NEW T
    PROVE  /\ At(s, T) = {} => At(Tail(s), T) = {}
           /\ AtMostOne(At(s, T)) => AtMostOne(At(Tail(s), T))
           /\ AtMostOne(At(s, T)) /\ Head(s) \in T => At(Tail(s), T) = {}
<1>1. /\ Len(s) \in Nat /\ Len(s) > 0 /\ Len(Tail(s)) = Len(s) - 1
      /\ \A k \in 1 .. Len(s) - 1 : Tail(s)[k] = s[k + 1]
      /\ Head(s) = s[1]
  OBVIOUS
<1> DEFINE t == Tail(s)
<1> HIDE DEF t
<1>2. \A k \in At(t, T) : k \in Nat /\ k > 0 /\ k + 1 \in At(s, T)
  BY <1>1 DEF At, t
<1>3. Head(s) \in T => 1 \in At(s, T)
  BY <1>1 DEF At
<1>4. AtMostOne(At(s, T)) => AtMostOne(At(t, T))
  BY <1>2 DEF AtMostOne
<1>5. AtMostOne(At(s, T)) /\ Head(s) \in T => At(t, T) = {}
  BY <1>2, <1>3 DEF AtMostOne
<1>6. QED
  BY <1>2, <1>4, <1>5 DEF t

LEMMA AtSwapRemove ==
    ASSUME NEW U, NEW s \in Seq(U), s # <<>>, NEW k \in 1 .. Len(s), NEW T
    PROVE  /\ At(s, T) = {} => At(SwapRemove(s, k), T) = {}
           /\ AtMostOne(At(s, T)) => AtMostOne(At(SwapRemove(s, k), T))
           /\ AtMostOne(At(s, T)) /\ s[k] \in T => At(SwapRemove(s, k), T) = {}
<1> DEFINE t == SwapRemove(s, k)
<1>1. /\ Len(s) \in Nat /\ Len(s) > 0 /\ Len(t) = Len(s) - 1
      /\ \A j \in 1 .. Len(s) - 1 : t[j] = IF j = k THEN s[Len(s)] ELSE s[j]
  BY SwapRemoveType
<1> HIDE DEF t
<1>2. \A j \in At(t, T) :
        /\ j \in 1 .. Len(s) - 1
        /\ IF j = k THEN Len(s) \in At(s, T) ELSE j \in At(s, T)
  BY <1>1 DEF At
<1>3. s[k] \in T => k \in At(s, T)
  BY DEF At
<1>4. AtMostOne(At(s, T)) => AtMostOne(At(t, T))
  BY <1>1, <1>2 DEF AtMostOne
<1>5. AtMostOne(At(s, T)) /\ s[k] \in T => At(t, T) = {}
  BY <1>1, <1>2, <1>3 DEF AtMostOne
<1>6. QED
  BY <1>2, <1>4, <1>5 DEF t

LEMMA HolderSets ==
    ASSUME TypeOK
    PROVE  OneHolderPerIdx <=> HolderInv
<1>1. ASSUME NEW i \in Idx
      PROVE  /\ Held(i) = {k \in 1 .. Len(handles) : handles[k][1] = i}
             /\ Coming(i) = {k \in 1 .. Len(queue) : IsReplacement(k, i)}
             /\ Reported(i) = {k \in 1 .. Len(cmds) : cmds[k] = i}
  <2>1. \A k \in 1 .. Len(handles) : handles[k] \in Inst
    BY DEF TypeOK
  <2>2. ASSUME NEW k \in 1 .. Len(queue)
        PROVE  IsReplacement(k, i) <=> queue[k] \in {Worker(w) : w \in OfIdx(i)}
    <3>1. queue[k] \in WakerInterest
      BY DEF TypeOK
    <3>2. queue[k].type = "Worker" => queue[k].handle \in Inst /\ queue[k] = Worker(queue[k].handle)
      BY <3>1, InterestFields
    <3>3. \A w \in Inst : Worker(w).type = "Worker" /\ Worker(w).handle = w
      BY DEF Worker
    <3>4. QED
      BY <3>2, <3>3 DEF IsReplacement, OfIdx
  <2>3. QED
    BY <2>1, <2>2 DEF Held, Coming, Reported, At, OfIdx
<1>2. QED
  BY <1>1 DEF OneHolderPerIdx, HolderInv, OneHolder, AtMostOne

(* Interests other than Worker: they come and go without a holder. *)
LEMMA OtherInterest ==
    ASSUME NEW i \in Idx
    PROVE  /\ \A j \in Idx : WorkerAvailable(j) \notin {Worker(w) : w \in OfIdx(i)}
           /\ \A m \in {Pause, Resume, Stop} : m \notin {Worker(w) : w \in OfIdx(i)}
<1>1. \A m \in {Worker(w) : w \in OfIdx(i)} : m.type = "Worker"
  BY DEF Worker
<1>2. \A j \in Idx : WorkerAvailable(j).type # "Worker"
  BY DEF WorkerAvailable
<1>3. \A m \in {Pause, Resume, Stop} : m.type # "Worker"
  BY DEF Pause, Resume, Stop
<1>4. QED
  BY <1>1, <1>2, <1>3

LEMMA HolderStep == TypeInv /\ HolderInv /\ [Next]_vars => HolderInv'
<1> SUFFICES ASSUME TypeInv, [Next]_vars, NEW i \in Idx, OneHolder(i)
             PROVE  OneHolder(i)'
  BY DEF HolderInv
<1>0. /\ TypeOK /\ handles \in Seq(Inst) /\ queue \in Seq(WakerInterest) /\ cmds \in Seq(Idx)
  BY DEF TypeInv, TypeOK
<1> USE DEF thread, dispatch, listeners, wakerq, workers, server, bounds
<1>1. CASE UNCHANGED <<handles, queue, cmds>>
  BY <1>1 DEF OneHolder, Held, Coming, Reported
<1>2. CASE /\ UNCHANGED <<handles, cmds>>
           /\ \E t \in {"WorkerAvailable", "Pause", "Resume", "Stop"} : Popped(t)
  <2>1. queue # <<>> /\ queue' = Tail(queue)
    BY <1>2 DEF Popped
  <2>2. /\ Coming(i) = {} => Coming(i)' = {}
        /\ AtMostOne(Coming(i)) => AtMostOne(Coming(i))'
    BY <1>0, <2>1, AtTail DEF Coming, AtMostOne
  <2>3. Held(i)' = Held(i) /\ Reported(i)' = Reported(i)
    BY <1>2 DEF Held, Reported
  <2>4. QED
    BY <2>2, <2>3 DEF OneHolder, AtMostOne
<1>3. CASE HandleWorker
  <2> DEFINE w == Head(queue).handle
  <2>1. /\ w \in Inst /\ Head(queue) = Worker(w) /\ queue # <<>> /\ queue' = Tail(queue)
        /\ handles' = Append(handles, w) /\ UNCHANGED cmds
    BY <1>0, <1>3, PoppedType, InterestFields DEF HandleWorker, Popped
  <2> HIDE DEF w
  <2>2. Reported(i)' = Reported(i)
    BY <2>1 DEF Reported
  <2>3. /\ Coming(i) = {} => Coming(i)' = {}
        /\ AtMostOne(Coming(i)) => AtMostOne(Coming(i)')
    BY <1>0, <2>1, AtTail DEF Coming
  <2>4. CASE w[1] = i
    <3>1. Head(queue) \in {Worker(v) : v \in OfIdx(i)}
      BY <2>1, <2>4 DEF OfIdx
    <3>2. Coming(i)' = {}
      BY <1>0, <2>1, <3>1, AtTail DEF Coming, OneHolder
    <3>3. Coming(i) # {}
      BY <1>0, <2>1, <3>1 DEF Coming, At
    <3>4. AtMostOne(Held(i)')
      BY <1>0, <2>1, <3>3, AtAppend DEF OneHolder, Held
    <3>5. QED
      BY <2>2, <3>2, <3>3, <3>4 DEF OneHolder, AtMostOne
  <2>5. CASE w[1] # i
    <3>1. Held(i)' = Held(i)
      BY <1>0, <2>1, <2>5, AtAppend DEF Held, OfIdx
    <3>2. QED
      BY <2>2, <2>3, <3>1 DEF OneHolder, AtMostOne
  <2>6. QED
    BY <2>4, <2>5
<1>4. CASE SendErr
  <2> DEFINE k == next_worker + 1
  <2>1. /\ k \in 1 .. Len(handles) /\ handles # <<>>
        /\ handles[k] \in Inst /\ handles[k][1] \in Idx
        /\ handles' = SwapRemove(handles, k) /\ cmds' = Append(cmds, handles[k][1])
        /\ UNCHANGED queue
    <3>1. /\ pc = "send" /\ UNCHANGED queue
          /\ handles' = SwapRemove(handles, next_worker + 1) /\ cmds' = Append(cmds, Next_[1])
      BY <1>4 DEF SendErr
    <3>2. next_worker \in Nat /\ next_worker < Len(handles)
      BY <3>1 DEF TypeInv, TypeOK, PcOK
    <3>3. Next_ \in Inst /\ Next_[1] \in Idx
      BY <1>0, <3>2, NextType
    <3>4. QED
      BY <1>0, <3>1, <3>2, <3>3 DEF Next_
  <2> HIDE DEF k
  <2>2. Coming(i)' = Coming(i)
    BY <2>1 DEF Coming
  <2>3. /\ Held(i) = {} => Held(i)' = {}
        /\ AtMostOne(Held(i)) => AtMostOne(Held(i)')
    BY <1>0, <2>1, AtSwapRemove DEF Held
  <2>4. CASE handles[k][1] = i
    <3>1. handles[k] \in OfIdx(i)
      BY <2>1, <2>4 DEF OfIdx
    <3>2. Held(i)' = {}
      BY <1>0, <2>1, <3>1, AtSwapRemove DEF Held, OneHolder
    <3>3. Held(i) # {}
      BY <2>1, <3>1 DEF Held, At
    <3>4. AtMostOne(Reported(i)')
      BY <1>0, <2>1, <3>3, AtAppend DEF OneHolder, Reported
    <3>5. QED
      BY <2>2, <3>2, <3>3, <3>4 DEF OneHolder, AtMostOne
  <2>5. CASE handles[k][1] # i
    <3>1. Reported(i)' = Reported(i)
      BY <1>0, <2>1, <2>5, AtAppend DEF Reported
    <3>2. QED
      BY <2>2, <2>3, <3>1 DEF OneHolder, AtMostOne
  <2>6. QED
    BY <2>4, <2>5
<1>5. CASE ServerRestartWorker \/ ServerRestartFails
  <2> DEFINE h == Head(cmds)
  <2>1. /\ cmds # <<>> /\ h \in Idx /\ cmds' = Tail(cmds) /\ UNCHANGED handles
        /\ \/ UNCHANGED queue
           \/ gen[h] < MaxFaults /\ queue' = Append(queue, Worker(<<h, gen[h] + 1>>))
    BY <1>0, <1>5 DEF ServerRestartWorker, ServerRestartFails, ServerPush
  <2> HIDE DEF h
  <2>2. Held(i)' = Held(i)
    BY <2>1 DEF Held
  <2>3. /\ Reported(i) = {} => Reported(i)' = {}
        /\ AtMostOne(Reported(i)) => AtMostOne(Reported(i)')
    BY <1>0, <2>1, AtTail DEF Reported
  <2>4. CASE UNCHANGED queue
    <3>1. Coming(i)' = Coming(i)
      BY <2>4 DEF Coming
    <3>2. QED
      BY <2>2, <2>3, <3>1 DEF OneHolder, AtMostOne
  <2>5. CASE gen[h] < MaxFaults /\ queue' = Append(queue, Worker(<<h, gen[h] + 1>>))
    <3> DEFINE w == <<h, gen[h] + 1>>
    <3>1. w \in Inst /\ w[1] = h
      BY <1>0, <2>1, <2>5, ConstantsAssumption DEF Inst, Gens, TypeOK
    <3> HIDE DEF w
    <3>2. queue' = Append(queue, Worker(w)) /\ Worker(w) \in WakerInterest
      BY <2>5, <3>1, InterestType DEF w
    <3>3. CASE h = i
      <4>1. Reported(i)' = {}
        BY <1>0, <2>1, <3>3, AtTail DEF OneHolder, Reported, h
      <4>2. Reported(i) # {}
        BY <1>0, <2>1, <3>3 DEF Reported, At, h
      <4>3. AtMostOne(Coming(i)')
        BY <1>0, <3>2, <4>2, AtAppend DEF OneHolder, Coming
      <4>4. QED
        BY <2>2, <4>1, <4>2, <4>3 DEF OneHolder, AtMostOne
    <3>4. CASE h # i
      <4>1. Worker(w) \notin {Worker(v) : v \in OfIdx(i)}
        BY <3>1, <3>4 DEF OfIdx, Worker
      <4>2. Coming(i)' = Coming(i)
        BY <1>0, <3>2, <4>1, AtAppend DEF Coming
      <4>3. QED
        BY <2>2, <2>3, <4>2 DEF OneHolder, AtMostOne
    <3>5. QED
      BY <3>3, <3>4
  <2>6. QED
    BY <2>1, <2>4, <2>5
<1>6. ASSUME NEW m \in {WorkerAvailable(j) : j \in Idx} \cup {Pause, Resume, Stop},
             queue' = Append(queue, m), UNCHANGED <<handles, cmds>>
      PROVE  OneHolder(i)'
  <2>1. m \in WakerInterest /\ m \notin {Worker(w) : w \in OfIdx(i)}
    BY InterestType, OtherInterest
  <2>2. Coming(i)' = Coming(i)
    BY <1>0, <1>6, <2>1, AtAppend DEF Coming
  <2>3. Held(i)' = Held(i) /\ Reported(i)' = Reported(i)
    BY <1>6 DEF Held, Reported
  <2>4. QED
    BY <2>2, <2>3 DEF OneHolder, AtMostOne
<1>7. CASE LoopStep
  BY <1>1, <1>2, <1>3, <1>7
  DEF LoopStep, PollReturn, HandleWakerEvent, HandleListenerEvent, EventsDone,
      HandleWorkerAvailable, HandlePause, HandleResume, HandleStop, WakerDrained,
      AcceptNothing, AcceptOk, AcceptConnectionError, AcceptError
<1>8. CASE DispatchStep
  BY <1>1, <1>4, <1>8 DEF DispatchStep, NoHandlePanic, SkipWorker, SendCount, SendOk
<1>9. ASSUME NEW w \in Inst, WorkerThread(w) PROVE OneHolder(i)'
  <2>1. CASE WorkerPush(w)
    <3>1. queue' = Append(queue, WorkerAvailable(w[1])) /\ UNCHANGED <<handles, cmds>> /\ w[1] \in Idx
      BY <2>1, InstFields DEF WorkerPush
    <3>2. QED
      BY <1>6, <3>1
  <2>2. CASE Recv(w) \/ Finish(w) \/ Discard(w) \/ WorkerGone(w) \/ WorkerSignal(w)
    BY <1>1, <2>2 DEF Recv, Finish, Discard, WorkerGone, WorkerSignal
  <2>3. QED
    BY <1>9, <2>1, <2>2 DEF WorkerThread
<1>10. CASE ServerTask
  <2>1. CASE ServerStop \/ \E m \in {Pause, Resume} : ServerPauseOrResume(m)
    BY <1>6, <2>1 DEF ServerStop, ServerPauseOrResume, ServerPush
  <2>2. CASE ServerSignal
    BY <1>1, <2>2 DEF ServerSignal
  <2>3. QED
    BY <1>5, <1>10, <2>1, <2>2 DEF ServerTask
<1>11. CASE Environment \/ UNCHANGED vars
  BY <1>1, <1>11 DEF Environment, Arrive, Tick, vars
<1>12. QED
  BY <1>7, <1>8, <1>9, <1>10, <1>11 DEF Next, AcceptThread

LEMMA HolderInit == Init => HolderInv
<1> SUFFICES ASSUME Init, NEW i \in Idx PROVE OneHolder(i)
  BY DEF HolderInv
<1>1. handles = [k \in 1 .. NumWorkers |-> <<k - 1, 0>>] /\ queue = <<>> /\ cmds = <<>>
  BY DEF Init
<1>2. Coming(i) = {} /\ Reported(i) = {}
  BY <1>1 DEF Coming, Reported, At
<1>3. Len(handles) = NumWorkers
  BY <1>1, ConstantsAssumption
<1>4. \A k \in Held(i) : k = i + 1
  BY <1>1, <1>3, ConstantsAssumption DEF Held, At, OfIdx
<1>5. QED
  BY <1>2, <1>4 DEF OneHolder, AtMostOne

(* A fault is reported once and its replacement takes the place of the      *)
(* handle that was removed: no index ever has two handles, two replacements *)
(* on their way, or a handle together with a replacement or an unhandled    *)
(* report (remove_next, ServerInner::handle_cmd, handle_waker).             *)
THEOREM OneWorkerPerIndex == Spec => []OneHolderPerIdx
<1>1. TypeInv /\ HolderInv => OneHolderPerIdx
  BY HolderSets DEF TypeInv, HolderInv
<1>2. QED
  BY TypeInit, TypeStep, HolderInit, HolderStep, <1>1, PTL DEF Spec

-----------------------------------------------------------------------------
(* Availability bits.                                                       *)
(*                                                                          *)
(* A bit is cleared by the send that reached the limit, after the count was *)
(* taken: between the two the worker may already have counted down and      *)
(* notified.  So the strengthening also speaks of a send that is about to   *)
(* clear the bit.  It needs HolderInv: the bit a send clears belongs to the *)
(* handle it was sent on and to no other.                                   *)

ClearsBit(w) == pc = "send" /\ ~inc_res /\ Next_ = w

AvailOK(w) ==
    /\ InHandles(w) /\ w[1] \notin avail /\ cnt[w] - 1 < Limit => Notified(w)
    /\ ClearsBit(w) /\ cnt[w] - 1 < Limit => Notified(w)

AvailInv == \A w \in Inst : AvailOK(w)

(* A notification stays on its way until the accept thread takes it. *)
LEMMA NotifiedStays ==
    ASSUME TypeInv, NEW w \in Inst, Notified(w),
           wwake[w] = "push" =>
               \/ wwake'[w] = "push"
               \/ wwake[w] = "push" /\ queue' = Append(queue, WorkerAvailable(w[1])),
           \/ queue' = queue
           \/ \E m \in WakerInterest : queue' = Append(queue, m)
           \/ queue # <<>> /\ queue' = Tail(queue) /\ Head(queue) # WorkerAvailable(w[1])
    PROVE  Notified(w)'
<1>0. queue \in Seq(WakerInterest) /\ WorkerAvailable(w[1]) \in WakerInterest
  BY InterestType, InstFields DEF TypeInv, TypeOK
<1> DEFINE a == WorkerAvailable(w[1])
<1>1. Notified(w) <=> wwake[w] = "push" \/ \E k \in 1 .. Len(queue) : queue[k] = a
  BY DEF Notified
<1>2. Notified(w)' <=> wwake'[w] = "push" \/ \E k \in 1 .. Len(queue') : queue'[k] = a
  BY DEF Notified, WorkerAvailable
<1> HIDE DEF a
<1>3. CASE \E k \in 1 .. Len(queue) : queue[k] = a
  <2>1. PICK k \in 1 .. Len(queue) : queue[k] = a
    BY <1>3
  <2>2. CASE queue' = queue
    BY <1>2, <2>1, <2>2
  <2>3. CASE \E m \in WakerInterest : queue' = Append(queue, m)
    <3>1. k \in 1 .. Len(queue') /\ queue'[k] = a
      BY <1>0, <2>1, <2>3
    <3>2. QED
      BY <1>2, <3>1
  <2>4. CASE queue # <<>> /\ queue' = Tail(queue) /\ Head(queue) # a
    <3>1. /\ Len(queue') = Len(queue) - 1 /\ Len(queue) \in Nat /\ queue[1] # a
          /\ \A j \in 1 .. Len(queue) - 1 : queue'[j] = queue[j + 1]
      BY <1>0, <2>4
    <3>2. k - 1 \in 1 .. Len(queue') /\ queue'[k - 1] = a
      BY <2>1, <3>1
    <3>3. QED
      BY <1>2, <3>2
  <2>5. QED
    BY <2>2, <2>3, <2>4 DEF a
<1>4. CASE wwake[w] = "push"
  <2>1. CASE wwake'[w] = "push"
    BY <1>2, <2>1
  <2>2. CASE queue' = Append(queue, a)
    <3>1. Len(queue) + 1 \in 1 .. Len(queue') /\ queue'[Len(queue) + 1] = a
      BY <1>0, <2>2
    <3>2. QED
      BY <1>2, <3>1
  <2>3. QED
    BY <1>4, <2>1, <2>2 DEF a
<1>5. QED
  BY <1>1, <1>3, <1>4

(* The steps that take no capacity from a worker and clear no bit. *)
LEMMA AvailFrame ==
    ASSUME TypeInv, NEW w \in Inst, AvailOK(w), handles' = handles, avail' = avail,
           cnt'[w] = cnt[w], Notified(w) => Notified(w)', ClearsBit(w)' => ClearsBit(w)
    PROVE  AvailOK(w)'
BY DEF AvailOK, InHandles

LEMMA AvailStep == TypeInv /\ HolderInv /\ AvailInv /\ [Next]_vars => AvailInv'
<1> SUFFICES ASSUME TypeInv, HolderInv, [Next]_vars, NEW w \in Inst, AvailOK(w)
             PROVE  AvailOK(w)'
  BY DEF AvailInv
<1>0. /\ TypeOK /\ handles \in Seq(Inst) /\ queue \in Seq(WakerInterest)
      /\ cnt \in [Inst -> Int] /\ wwake \in [Inst -> {"idle", "push", "signal"}]
      /\ w[1] \in Idx /\ Limit \in Nat
  BY InstFields, ConstantsAssumption DEF TypeInv, TypeOK
<1> USE DEF thread, dispatch, listeners, wakerq, workers, server, bounds
<1>1. CASE UNCHANGED <<handles, avail, cnt, wwake, queue>> /\ pc' # "send"
  <2>1. (Notified(w) => Notified(w)') /\ ~ClearsBit(w)'
    BY <1>1 DEF Notified, ClearsBit
  <2>2. QED
    BY <1>1, <2>1, AvailFrame
<1>2. CASE /\ UNCHANGED <<handles, avail, cnt, wwake>> /\ pc' # "send"
           /\ \E t \in {"Pause", "Resume", "Stop"} : Popped(t)
  <2>1. queue # <<>> /\ queue' = Tail(queue) /\ Head(queue) # WorkerAvailable(w[1])
    BY <1>2 DEF Popped, WorkerAvailable
  <2>2. (Notified(w) => Notified(w)') /\ ~ClearsBit(w)'
    BY <1>2, <2>1, NotifiedStays DEF ClearsBit
  <2>3. QED
    BY <1>2, <2>2, AvailFrame
<1>3. CASE HandleWorkerAvailable
  <2> DEFINE i == Head(queue).idx
  <2>1. /\ Popped("WorkerAvailable") /\ avail' = avail \cup {i}
        /\ UNCHANGED <<handles, cnt, wwake>> /\ pc' # "send"
    BY <1>3 DEF HandleWorkerAvailable, Popped, AcceptAllUnlessPaused, accept_all
  <2>2. CASE w[1] = i
    BY <2>1, <2>2 DEF AvailOK, ClearsBit
  <2>3. CASE w[1] # i
    <3>1. queue # <<>> /\ queue' = Tail(queue) /\ Head(queue) # WorkerAvailable(w[1])
      BY <2>1, <2>3 DEF Popped, WorkerAvailable
    <3>2. Notified(w) => Notified(w)'
      BY <2>1, <3>1, NotifiedStays
    <3>3. QED
      BY <2>1, <3>2 DEF AvailOK, ClearsBit, InHandles
  <2>4. QED
    BY <2>2, <2>3
<1>4. CASE HandleWorker
  <2> DEFINE h == Head(queue).handle
  <2>1. /\ Popped("Worker") /\ avail' = avail \cup {h[1]}
        /\ handles' = Append(handles, h) /\ h \in Inst
        /\ UNCHANGED <<cnt, wwake>> /\ pc' # "send"
    BY <1>0, <1>4, PoppedType DEF HandleWorker, Popped, AcceptAllUnlessPaused, accept_all
  <2> HIDE DEF h
  <2>2. queue # <<>> /\ queue' = Tail(queue) /\ Head(queue) # WorkerAvailable(w[1])
    BY <2>1 DEF Popped, WorkerAvailable
  <2>3. Notified(w) => Notified(w)'
    BY <2>1, <2>2, NotifiedStays
  <2>4. InHandles(w)' => InHandles(w) \/ w = h
    <3>1. /\ Len(handles') = Len(handles) + 1 /\ Len(handles) \in Nat
          /\ \A k \in 1 .. Len(handles) : handles'[k] = handles[k]
          /\ handles'[Len(handles) + 1] = h
      BY <1>0, <2>1
    <3>2. QED
      BY <3>1 DEF InHandles
  <2>5. QED
    BY <2>1, <2>3, <2>4 DEF AvailOK, ClearsBit
<1>5. CASE SendCount
  <2>1. /\ Next_ \in Inst /\ inc_res' = (cnt[Next_] # Limit)
        /\ cnt' = [cnt EXCEPT ![Next_] = @ + 1]
        /\ UNCHANGED <<handles, next_worker, avail, wwake, queue>>
    BY <1>0, <1>5, NextType DEF SendCount, inc
  <2>2. Next_' = Next_ /\ (Notified(w) => Notified(w)')
    BY <2>1 DEF Next_, Notified
  <2>3. cnt[w] \in Int /\ cnt'[w] = IF w = Next_ THEN cnt[w] + 1 ELSE cnt[w]
    BY <1>0, <2>1
  <2>4. ClearsBit(w)' => cnt'[w] - 1 = Limit
    <3>1. ClearsBit(w)' => ~inc_res' /\ Next_ = w
      BY <2>2 DEF ClearsBit
    <3>2. ~inc_res' => cnt[Next_] = Limit
      BY <2>1
    <3>3. QED
      BY <1>0, <2>3, <3>1, <3>2
  <2>5. InHandles(w)' = InHandles(w) /\ (cnt'[w] - 1 < Limit => cnt[w] - 1 < Limit)
    BY <1>0, <2>1, <2>3 DEF InHandles
  <2>6. QED
    BY <1>0, <2>1, <2>2, <2>3, <2>4, <2>5 DEF AvailOK
<1>6. CASE SendOk
  <2>1. /\ pc = "send" /\ pc' = "accept" /\ next_worker < Len(handles) /\ next_worker \in Nat
        /\ avail' = IF inc_res THEN avail ELSE avail \ {Next_[1]}
        /\ UNCHANGED <<handles, cnt, wwake, queue>>
    BY <1>6 DEF SendOk, TypeInv, TypeOK, PcOK
  <2>2. Notified(w)' = Notified(w) /\ InHandles(w)' = InHandles(w) /\ ~ClearsBit(w)'
    BY <2>1 DEF Notified, InHandles, ClearsBit
  <2>3. CASE InHandles(w) /\ ~inc_res /\ w[1] = Next_[1]
    <3>1. PICK k \in 1 .. Len(handles) : handles[k] = w
      BY <2>3 DEF InHandles
    <3>2. k \in Held(w[1]) /\ next_worker + 1 \in Held(w[1])
      BY <1>0, <2>1, <2>3, <3>1, NextType DEF Held, At, OfIdx, Next_
    <3>3. AtMostOne(Held(w[1]))
      BY <1>0 DEF HolderInv, OneHolder
    <3>4. ClearsBit(w)
      BY <2>1, <2>3, <3>1, <3>2, <3>3 DEF AtMostOne, ClearsBit, Next_
    <3>5. QED
      BY <2>1, <2>2, <3>4 DEF AvailOK
  <2>4. CASE ~(InHandles(w) /\ ~inc_res /\ w[1] = Next_[1])
    BY <2>1, <2>2, <2>4 DEF AvailOK
  <2>5. QED
    BY <2>3, <2>4
<1>7. CASE SendErr
  <2> DEFINE k == next_worker + 1
  <2>1. /\ pc' # "send" /\ k \in 1 .. Len(handles) /\ handles # <<>>
        /\ handles[k] = Next_ /\ Next_ \in Inst /\ Next_[1] \in Idx
        /\ handles' = SwapRemove(handles, k) /\ avail' = avail \ {Next_[1]}
        /\ cnt' = [cnt EXCEPT ![Next_] = @ - 1] /\ UNCHANGED <<wwake, queue>>
    <3>1. pc = "send" /\ pc' # "send"
      BY <1>7 DEF SendErr
    <3>2. next_worker \in Nat /\ next_worker < Len(handles)
      BY <3>1 DEF TypeInv, TypeOK, PcOK
    <3>3. Next_ \in Inst /\ Next_[1] \in Idx
      BY <1>0, <3>2, NextType
    <3>4. QED
      BY <1>0, <1>7, <3>1, <3>2, <3>3 DEF SendErr, SendUndone, Next_
  <2> HIDE DEF k
  <2>2. ASSUME InHandles(w)' PROVE InHandles(w) /\ w[1] # Next_[1]
    <3>1. PICK j \in 1 .. Len(handles') : handles'[j] = w
      BY <2>2 DEF InHandles
    <3>2. InHandles(w)
      <4>1. /\ j \in 1 .. Len(handles) - 1 /\ Len(handles) \in Nat /\ Len(handles) > 0
            /\ handles'[j] = IF j = k THEN handles[Len(handles)] ELSE handles[j]
        <5>1. /\ Len(handles') = Len(handles) - 1
              /\ \A m \in 1 .. Len(handles) - 1 :
                    handles'[m] = IF m = k THEN handles[Len(handles)] ELSE handles[m]
          BY <1>0, <2>1, SwapRemoveType
        <5>2. Len(handles) \in Nat
          BY <1>0
        <5>3. QED
          BY <3>1, <5>1, <5>2
      <4>2. j \in 1 .. Len(handles) /\ Len(handles) \in 1 .. Len(handles)
        BY <4>1
      <4>3. QED
        BY <3>1, <4>1, <4>2 DEF InHandles
    <3>3. j \in At(handles', OfIdx(w[1]))
      BY <3>1 DEF At, OfIdx
    <3>4. w[1] = Next_[1] => At(handles', OfIdx(w[1])) = {}
      <4>1. AtMostOne(Held(Next_[1])) /\ Next_ \in OfIdx(Next_[1])
        BY <2>1 DEF HolderInv, OneHolder, OfIdx
      <4>2. At(handles', OfIdx(Next_[1])) = {}
        BY <1>0, <2>1, <4>1, AtSwapRemove DEF Held
      <4>3. QED
        BY <4>2
    <3>5. QED
      BY <3>2, <3>3, <3>4
  <2>3. w[1] # Next_[1] => cnt'[w] = cnt[w]
    BY <1>0, <2>1
  <2>4. Notified(w)' = Notified(w) /\ ~ClearsBit(w)'
    BY <2>1 DEF Notified, ClearsBit
  <2>5. QED
    BY <2>1, <2>2, <2>3, <2>4 DEF AvailOK
<1>8. CASE LoopStep
  BY <1>0, <1>1, <1>2, <1>3, <1>4, <1>8
  DEF LoopStep, PollReturn, HandleWakerEvent, HandleListenerEvent, EventsDone,
      HandlePause, HandleResume, HandleStop, WakerDrained, AcceptNothing, AcceptOk,
      AcceptConnectionError, AcceptError, AcceptReturn, Popped, accept_all, TypeOK
<1>9. CASE DispatchStep
  BY <1>1, <1>5, <1>6, <1>7, <1>9 DEF DispatchStep, NoHandlePanic, SkipWorker
<1>10. ASSUME UNCHANGED <<pc, inc_res, next_worker, handles, avail>>,
              cnt'[w] = cnt[w], Notified(w) => Notified(w)'
       PROVE  AvailOK(w)'
  <2>1. ClearsBit(w)' => ClearsBit(w)
    BY <1>10 DEF ClearsBit, Next_
  <2>2. QED
    BY <1>10, <2>1, AvailFrame
<1>11. ASSUME NEW v \in Inst, WorkerThread(v) PROVE AvailOK(w)'
  <2>1. CASE Recv(v) \/ WorkerGone(v) \/ WorkerSignal(v)
    <3>1. UNCHANGED <<pc, inc_res, next_worker, handles, avail, cnt, queue>>
      BY <2>1 DEF Recv, WorkerGone, WorkerSignal
    <3>2. wwake[w] = "push" => wwake'[w] = "push"
      BY <1>0, <2>1 DEF Recv, WorkerGone, WorkerSignal
    <3>3. Notified(w) => Notified(w)'
      BY <3>1, <3>2 DEF Notified
    <3>4. QED
      BY <1>10, <3>1, <3>3
  <2>2. CASE Finish(v) \/ Discard(v)
    <3>1. /\ UNCHANGED <<pc, inc_res, next_worker, handles, avail, queue>>
          /\ wwake[v] = "idle" /\ cnt' = [cnt EXCEPT ![v] = @ - 1]
          /\ wwake' = [wwake EXCEPT ![v] = IF cnt[v] = Limit + 1 THEN "push" ELSE "idle"]
      BY <2>2 DEF Finish, Discard, DropGuard, dec
    <3>2. CASE w = v /\ cnt[w] = Limit + 1
      <4>1. wwake'[w] = "push"
        BY <1>0, <3>1, <3>2
      <4>2. Notified(w)'
        BY <4>1 DEF Notified
      <4>3. QED
        BY <4>2 DEF AvailOK
    <3>3. CASE w = v /\ cnt[w] # Limit + 1
      <4>1. cnt[w] \in Int /\ cnt'[w] = cnt[w] - 1
        BY <1>0, <3>1, <3>3
      <4>2. cnt'[w] - 1 < Limit => cnt[w] - 1 < Limit
        BY <1>0, <3>3, <4>1
      <4>3. Notified(w) => Notified(w)'
        BY <1>0, <3>1, <3>3 DEF Notified
      <4>4. InHandles(w)' = InHandles(w) /\ ClearsBit(w)' = ClearsBit(w)
        BY <3>1 DEF InHandles, ClearsBit, Next_
      <4>5. QED
        BY <3>1, <4>2, <4>3, <4>4 DEF AvailOK
    <3>4. CASE w # v
      <4>1. cnt'[w] = cnt[w] /\ wwake'[w] = wwake[w]
        BY <1>0, <3>1, <3>4
      <4>2. Notified(w) => Notified(w)'
        BY <3>1, <4>1 DEF Notified
      <4>3. QED
        BY <1>10, <3>1, <4>1, <4>2
    <3>5. QED
      BY <3>2, <3>3, <3>4
  <2>3. CASE WorkerPush(v)
    <3>1. /\ UNCHANGED <<pc, inc_res, next_worker, handles, avail, cnt>>
          /\ queue' = Append(queue, WorkerAvailable(v[1])) /\ v[1] \in Idx
          /\ w # v => wwake'[w] = wwake[w]
      BY <1>0, <2>3, InstFields DEF WorkerPush
    <3>2. WorkerAvailable(v[1]) \in WakerInterest
      BY <3>1, InterestType
    <3>3. Notified(w) => Notified(w)'
      BY <3>1, <3>2, NotifiedStays
    <3>4. QED
      BY <1>10, <3>1, <3>3
  <2>4. QED
    BY <1>11, <2>1, <2>2, <2>3 DEF WorkerThread
<1>12. CASE ServerTask
  <2>1. UNCHANGED <<pc, inc_res, next_worker, handles, avail, cnt, wwake>>
    BY <1>12 DEF ServerTask, ServerPauseOrResume, ServerStop, ServerRestartWorker,
                 ServerRestartFails, ServerSignal
  <2>2. queue' = queue \/ \E m \in WakerInterest : queue' = Append(queue, m)
    <3>1. CASE ServerRestartWorker
      <4>1. Head(cmds) \in Idx /\ gen[Head(cmds)] \in Gens /\ gen[Head(cmds)] < MaxFaults
        BY <1>0, <3>1 DEF ServerRestartWorker, TypeOK
      <4>2. <<Head(cmds), gen[Head(cmds)] + 1>> \in Inst
        BY <4>1, ConstantsAssumption DEF Inst, Gens
      <4>3. QED
        BY <3>1, <4>2, InterestType DEF ServerRestartWorker, ServerPush
    <3>2. CASE ServerStop \/ \E m \in {Pause, Resume} : ServerPauseOrResume(m)
      BY <3>2, InterestType DEF ServerStop, ServerPauseOrResume, ServerPush
    <3>3. CASE ServerRestartFails \/ ServerSignal
      BY <3>3 DEF ServerRestartFails, ServerSignal
    <3>4. QED
      BY <1>12, <3>1, <3>2, <3>3 DEF ServerTask
  <2>3. Notified(w) => Notified(w)'
    BY <2>1, <2>2, NotifiedStays
  <2>4. QED
    BY <1>10, <2>1, <2>3
<1>13. CASE Environment \/ UNCHANGED vars
  <2>1. UNCHANGED <<pc, inc_res, next_worker, handles, avail, cnt, wwake, queue>>
    BY <1>13 DEF Environment, Arrive, Tick, vars
  <2>2. Notified(w) => Notified(w)'
    BY <2>1 DEF Notified
  <2>3. QED
    BY <1>10, <2>1, <2>2
<1>14. QED
  BY <1>8, <1>9, <1>11, <1>12, <1>13 DEF Next, AcceptThread

(* A worker that has capacity again is always heard of: whatever the order  *)
(* in which the accept thread counts, sends and clears the bit and the      *)
(* worker counts down and notifies, and whoever dies and is replaced, a     *)
(* clear bit of a worker below its limit has a notification on its way      *)
(* (send_connection, Counter::dec, WorkerCounterGuard).                     *)
THEOREM AvailabilityNeverLost == Spec => []NoLostAvailability
<1>1. Init => AvailInv
  <2> SUFFICES ASSUME Init, NEW w \in Inst PROVE AvailOK(w)
    BY DEF AvailInv
  <2>1. w[1] \in avail /\ ~ClearsBit(w)
    BY InstFields DEF Init, ClearsBit
  <2>2. QED
    BY <2>1 DEF AvailOK
<1>2. AvailInv => NoLostAvailability
  BY DEF AvailInv, AvailOK, NoLostAvailability
<1>3. QED
  BY TypeInit, TypeStep, HolderInit, HolderStep, AvailStep, <1>1, <1>2, PTL DEF Spec

-----------------------------------------------------------------------------
(* The accept thread and each worker instance keep the contract of          *)
(* ConnAccounting.                                                          *)

Flying(w) == pc = "send" /\ Next_ = w
Up(w) == alive[w] # "dead"

(* A step that changes nothing of instance w in the contract's terms. *)
LEMMA AccountingStutter ==
    ASSUME NEW w \in Inst,
           cnt'[w] = cnt[w], chan'[w] = chan[w], active'[w] = active[w],
           Flying(w)' <=> Flying(w), Up(w)' <=> Up(w)
    PROVE  UNCHANGED Accounting(w)!vars
<1>1. (Flying(w))' = Flying(w) /\ (Up(w))' = Up(w)
  BY Zenon DEF Flying, Up
<1>2. QED
  BY <1>1 DEF Accounting!vars, Flying, Up

LEMMA AccountingStep ==
    ASSUME CountInv, [Next]_vars, NEW w \in Inst
    PROVE  [Accounting(w)!Next]_(Accounting(w)!vars)
<1>0. TypeInv /\ TypeOK /\ PcOK /\ GenOK
  BY DEF CountInv, TypeInv
<1> USE DEF thread, dispatch, workers, server, wakerq
<1>1. CASE Aside
  <2>1. /\ pc # "send" /\ pc' # "send"
        /\ UNCHANGED <<alive, cnt, chan, active>>
    BY <1>0, <1>1, AsideFrame
  <2>2. QED
    BY <2>1, AccountingStutter DEF Flying, Up
<1>2. CASE SendCount
  <2>1. Next_ \in Inst /\ Next_' = Next_ /\ pc = "one" /\ pc' = "send"
    BY <1>0, <1>2, NextType DEF SendCount, Next_
  <2>2. UNCHANGED <<alive, chan, active>>
    BY <1>2 DEF SendCount
  <2>3. cnt'[w] = IF w = Next_ THEN cnt[w] + 1 ELSE cnt[w]
    BY <1>0, <1>2, <2>1 DEF SendCount, TypeOK
  <2>4. CASE w = Next_
    <3>1. ~Flying(w) /\ Flying(w)' /\ (Up(w)' <=> Up(w))
      BY <2>1, <2>2, <2>4 DEF Flying, Up
    <3>2. Accounting(w)!Count
      BY <2>2, <2>3, <2>4, <3>1 DEF Accounting!Count, Flying, Up
    <3>3. QED
      BY <3>2 DEF Accounting!Next
  <2>5. CASE w # Next_
    BY <2>1, <2>2, <2>3, <2>5, AccountingStutter DEF Flying, Up
  <2>6. QED
    BY <2>4, <2>5
<1>3. CASE SendOk
  <2>1. Next_ \in Inst /\ pc = "send" /\ pc' = "accept" /\ alive[Next_] = "alive"
    BY <1>0, <1>3, NextType DEF SendOk, PcOK
  <2>2. UNCHANGED <<alive, cnt, active>>
    BY <1>3 DEF SendOk
  <2>3. chan'[w] = IF w = Next_ THEN chan[w] + 1 ELSE chan[w]
    BY <1>0, <1>3, <2>1 DEF SendOk, TypeOK
  <2>4. CASE w = Next_
    <3>1. Flying(w) /\ ~Flying(w)' /\ Up(w) /\ Up(w)'
      BY <2>1, <2>2, <2>4 DEF Flying, Up
    <3>2. Accounting(w)!Send
      BY <2>2, <2>3, <2>4, <3>1 DEF Accounting!Send, Flying, Up
    <3>3. QED
      BY <3>2 DEF Accounting!Next
  <2>5. CASE w # Next_
    BY <2>1, <2>2, <2>3, <2>5, AccountingStutter DEF Flying, Up
  <2>6. QED
    BY <2>4, <2>5
<1>4. CASE SendErr
  <2>1. Next_ \in Inst /\ pc = "send" /\ pc' # "send" /\ alive[Next_] = "dead"
    BY <1>0, <1>4, NextType DEF SendErr, PcOK
  <2>2. UNCHANGED <<alive, chan, active>>
    BY <1>4 DEF SendErr
  <2>3. cnt'[w] = IF w = Next_ THEN cnt[w] - 1 ELSE cnt[w]
    BY <1>0, <1>4, <2>1 DEF SendErr, SendUndone, TypeOK
  <2>4. CASE w = Next_
    <3>1. Flying(w) /\ ~Flying(w)' /\ ~Up(w) /\ ~Up(w)'
      BY <2>1, <2>2, <2>4 DEF Flying, Up
    <3>2. Accounting(w)!SendFailed
      BY <2>2, <2>3, <2>4, <3>1 DEF Accounting!SendFailed, Flying, Up
    <3>3. QED
      BY <3>2 DEF Accounting!Next
  <2>5. CASE w # Next_
    BY <2>1, <2>2, <2>3, <2>5, AccountingStutter DEF Flying, Up
  <2>6. QED
    BY <2>4, <2>5
<1>5. ASSUME UNCHANGED <<pc, handles, next_worker>> PROVE Flying(w)' <=> Flying(w)
  BY <1>5 DEF Flying, Next_
<1>6. ASSUME NEW v \in Inst, Recv(v) PROVE [Accounting(w)!Next]_(Accounting(w)!vars)
  <2>1. (Flying(w)' <=> Flying(w)) /\ UNCHANGED <<alive, cnt>> /\ alive[v] = "alive" /\ chan[v] > 0
    BY <1>5, <1>6 DEF Recv
  <2>2. /\ chan'[w] = IF w = v THEN chan[w] - 1 ELSE chan[w]
        /\ active'[w] = IF w = v THEN active[w] + 1 ELSE active[w]
    BY <1>0, <1>6 DEF Recv, DropGuard, TypeOK
  <2>3. CASE w = v
    <3>1. Flying(w)' = Flying(w) /\ Up(w) /\ Up(w)'
      BY <2>1, <2>2, <2>3 DEF Flying, Up
    <3>2. Accounting(w)!Recv
      BY <2>1, <2>2, <2>3, <3>1 DEF Accounting!Recv, Flying, Up
    <3>3. QED
      BY <3>2 DEF Accounting!Next
  <2>4. CASE w # v
    BY <2>1, <2>2, <2>4, AccountingStutter DEF Up
  <2>5. QED
    BY <2>3, <2>4
<1>7. ASSUME NEW v \in Inst, Finish(v) PROVE [Accounting(w)!Next]_(Accounting(w)!vars)
  <2>1. (Flying(w)' <=> Flying(w)) /\ UNCHANGED <<alive, chan>> /\ active[v] > 0
    BY <1>5, <1>7 DEF Finish
  <2>2. /\ cnt'[w] = IF w = v THEN cnt[w] - 1 ELSE cnt[w]
        /\ active'[w] = IF w = v THEN active[w] - 1 ELSE active[w]
    BY <1>0, <1>7 DEF Finish, DropGuard, TypeOK
  <2>3. CASE w = v
    <3>1. Flying(w)' = Flying(w) /\ Up(w)' = Up(w)
      BY <2>1, <2>2, <2>3 DEF Flying, Up
    <3>2. Accounting(w)!Finish
      BY <2>1, <2>2, <2>3, <3>1 DEF Accounting!Finish, Flying, Up
    <3>3. QED
      BY <3>2 DEF Accounting!Next
  <2>4. CASE w # v
    BY <2>1, <2>2, <2>4, AccountingStutter DEF Up
  <2>5. QED
    BY <2>3, <2>4
<1>8. ASSUME NEW v \in Inst, Discard(v) PROVE [Accounting(w)!Next]_(Accounting(w)!vars)
  <2>1. (Flying(w)' <=> Flying(w)) /\ UNCHANGED <<alive, active>> /\ alive[v] = "alive" /\ chan[v] > 0
    BY <1>5, <1>8 DEF Discard
  <2>2. /\ cnt'[w] = IF w = v THEN cnt[w] - 1 ELSE cnt[w]
        /\ chan'[w] = IF w = v THEN chan[w] - 1 ELSE chan[w]
    BY <1>0, <1>8 DEF Discard, DropGuard, TypeOK
  <2>3. CASE w = v
    <3>1. Flying(w)' = Flying(w) /\ Up(w) /\ Up(w)'
      BY <2>1, <2>2, <2>3 DEF Flying, Up
    <3>2. Accounting(w)!Discard
      BY <2>1, <2>2, <2>3, <3>1 DEF Accounting!Discard, Flying, Up
    <3>3. QED
      BY <3>2 DEF Accounting!Next
  <2>4. CASE w # v
    BY <2>1, <2>2, <2>4, AccountingStutter DEF Up
  <2>5. QED
    BY <2>3, <2>4
<1>9. ASSUME NEW v \in Inst, WorkerGone(v) PROVE [Accounting(w)!Next]_(Accounting(w)!vars)
  <2>1. (Flying(w)' <=> Flying(w)) /\ UNCHANGED <<cnt, active>> /\ alive[v] = "alive"
    BY <1>5, <1>9 DEF WorkerGone
  <2>2. /\ alive'[w] = IF w = v THEN "dead" ELSE alive[w]
        /\ chan'[w] = IF w = v THEN 0 ELSE chan[w]
    BY <1>0, <1>9 DEF WorkerGone, DropGuard, TypeOK
  <2>3. CASE w = v
    <3>1. Flying(w)' = Flying(w) /\ Up(w) /\ ~Up(w)'
      BY <2>1, <2>2, <2>3 DEF Flying, Up
    <3>2. Accounting(w)!Gone
      BY <2>1, <2>2, <2>3, <3>1 DEF Accounting!Gone, Flying, Up
    <3>3. QED
      BY <3>2 DEF Accounting!Next
  <2>4. CASE w # v
    BY <2>1, <2>2, <2>4, AccountingStutter DEF Up
  <2>5. QED
    BY <2>3, <2>4
<1>10. ASSUME UNCHANGED <<pc, handles, next_worker, cnt, chan, active>>, alive'[w] = "dead" <=> alive[w] = "dead"
       PROVE  UNCHANGED Accounting(w)!vars
  BY <1>5, <1>10, AccountingStutter DEF Up
<1>11. ASSUME NEW v \in Inst, WorkerPush(v) \/ WorkerSignal(v) PROVE UNCHANGED Accounting(w)!vars
  BY <1>10, <1>11 DEF WorkerPush, WorkerSignal
<1>12. CASE ServerRestartWorker
  <2> DEFINE i == Head(cmds)
             v == <<i, gen[i] + 1>>
  <2>1. i \in Idx /\ gen[i] \in Nat
    BY <1>0, <1>12 DEF ServerRestartWorker, TypeOK, Gens
  <2>2. v \in Inst
    BY <1>0, <1>12, <2>1, ConstantsAssumption, SMTT(30) DEF ServerRestartWorker, Inst, Gens, TypeOK
  <2>3. alive[v] = "unborn"
    BY <1>0, <2>1, <2>2 DEF GenOK
  <2>4. alive' = [alive EXCEPT ![v] = "alive"]
    BY <1>12 DEF ServerRestartWorker
  <2>5. alive \in [Inst -> {"unborn", "alive", "dead"}]
    BY <1>0 DEF TypeOK
  <2> HIDE DEF v
  <2>6. alive'[w] = "dead" <=> alive[w] = "dead"
    BY <2>2, <2>3, <2>4, <2>5
  <2>7. UNCHANGED <<pc, handles, next_worker, cnt, chan, active>>
    BY <1>12 DEF ServerRestartWorker
  <2>8. QED
    BY <1>10, <2>6, <2>7
<1>13. CASE \/ \E m \in {Pause, Resume} : ServerPauseOrResume(m)
            \/ ServerStop \/ ServerRestartFails \/ ServerSignal
            \/ Environment \/ UNCHANGED vars
  <2>1. UNCHANGED <<pc, handles, next_worker, alive, cnt, chan, active>>
    BY <1>13 DEF ServerPauseOrResume, ServerStop, ServerRestartFails, ServerSignal,
                 Environment, Arrive, Tick, vars
  <2>2. QED
    BY <1>10, <2>1
<1>14. QED
  BY <1>1, <1>2, <1>3, <1>4, <1>6, <1>7, <1>8, <1>9, <1>11, <1>12, <1>13
  DEF Next, AcceptThread, DispatchStep, Aside, WorkerThread, ServerTask

(* The detailed accept thread, queue, restarts and all, implements the      *)
(* counting contract with every worker instance.                            *)
THEOREM AcceptLoopCounts == Spec => CountsConnections
<1>1. ASSUME Init PROVE \A w \in Inst : Accounting(w)!Init
  <2> SUFFICES ASSUME NEW w \in Inst PROVE Accounting(w)!Init
    OBVIOUS
  <2>1. cnt[w] = 1 /\ chan[w] = 0 /\ active[w] = 0 /\ pc = "poll" /\ alive[w] # "dead"
    BY <1>1 DEF Init
  <2>2. QED
    BY <2>1 DEF Accounting!Init
<1>2. CountInv /\ [Next]_vars => [\A w \in Inst : [Accounting(w)!Next]_(Accounting(w)!vars)]_vars
  BY AccountingStep
<1>3. QED
  BY CountInit, CountStep, <1>1, <1>2, PTL DEF Spec, CountsConnections

=============================================================================
