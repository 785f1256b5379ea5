------------------------ MODULE ServerWorkerProofs ------------------------
(***************************************************************************)
(* Proofs about ServerWorker, for every number of services, timeout and    *)
(* bound.                                                                  *)
(***************************************************************************)
EXTENDS ServerWorker, TLAPS

-----------------------------------------------------------------------------
(* Types.                                                                   *)

LEMMA TypeInit == Init => TypeOK
<1> SUFFICES ASSUME Init PROVE TypeOK
  OBVIOUS
<1>1. <<>> \in Seq(BOOLEAN)
  OBVIOUS
<1>2. svc \in [Services -> Readiness]
  BY DEF Init, Readiness
<1>3. 0 \in Services /\ 0 \in 0 .. ShutdownTimeout + 1 /\ 0 \in 0 .. MaxConns
      /\ 0 \in 0 .. MaxStops /\ 0 \in 0 .. MaxChanges
  BY ConstantsAssumption DEF Services
<1>4. status \in [Services -> {"Available", "Unavailable", "Failed", "Restarting",
                               "Stopping", "Stopped"}]
  BY DEF Init
<1>5. QED
  BY <1>1, <1>2, <1>3, <1>4 DEF Init, TypeOK

LEMMA TypeStep == TypeOK /\ [Next]_vars => TypeOK'
<1> SUFFICES ASSUME TypeOK, [Next]_vars PROVE TypeOK'
  OBVIOUS
<1> USE DEF own, task, around, bounds
<1>1. CASE StartPoll
  BY <1>1 DEF StartPoll, TypeOK
<1>2. CASE PollStop
  <2>1. stops' \in Seq(BOOLEAN) /\ graceful' \in BOOLEAN
    BY <1>2, SMTT(30) DEF PollStop, TypeOK
  <2>2. regs' \subseteq Sources
    BY <1>2 DEF PollStop, StopPending, TypeOK, Sources
  <2>3. QED
    BY <1>2, <2>1, <2>2 DEF PollStop, TypeOK
<1>3. CASE StopNow
  <2>1. status' \in [Services -> {"Available", "Unavailable", "Failed", "Restarting",
                                  "Stopping", "Stopped"}]
    BY <1>3 DEF StopNow, shutdown, TypeOK
  <2>2. QED
    BY <1>3, <2>1 DEF StopNow, TypeOK
<1>4. CASE StopGracefully
  <2>1. status' \in [Services -> {"Available", "Unavailable", "Failed", "Restarting",
                                  "Stopping", "Stopped"}]
    BY <1>4 DEF StopGracefully, shutdown, TypeOK
  <2>2. 0 \in 0 .. ShutdownTimeout + 1
    BY ConstantsAssumption
  <2>3. QED
    BY <1>4, <2>1, <2>2 DEF StopGracefully, TypeOK
<1>5. ASSUME NEW s \in Services
      PROVE  s \in Polled => StatusOf(s) \in {"Available", "Unavailable", "Failed"}
  BY DEF StatusOf, TypeOK, Readiness
<1>6. CASE CheckReady \/ CheckPending
  <2>1. status' \in [Services -> {"Available", "Unavailable", "Failed", "Restarting",
                                  "Stopping", "Stopped"}]
    BY <1>5, <1>6 DEF CheckReady, CheckPending, check_readiness, TypeOK
  <2>2. sregs' \subseteq Services
    BY <1>6 DEF CheckReady, CheckPending, check_readiness, TypeOK, Polled, Checked
  <2>3. QED
    BY <1>6, <2>1, <2>2 DEF CheckReady, CheckPending, TypeOK
<1>7. CASE CheckFailed
  <2>1. status' \in [Services -> {"Available", "Unavailable", "Failed", "Restarting",
                                  "Stopping", "Stopped"}]
    BY <1>5, <1>7 DEF CheckFailed, TypeOK
  <2>2. sregs' \subseteq Services /\ token' \in Services
    BY <1>7 DEF CheckFailed, TypeOK, Polled, Checked, Failing
  <2>3. QED
    BY <1>7, <2>1, <2>2 DEF CheckFailed, Restart, TypeOK
<1>8. CASE Restarting
  <2>1. status' \in [Services -> {"Available", "Unavailable", "Failed", "Restarting",
                                  "Stopping", "Stopped"}]
    BY <1>8 DEF Restarting, TypeOK
  <2>2. svc' \in [Services -> Readiness]
    BY <1>8 DEF Restarting, TypeOK, Readiness
  <2>3. regs' \subseteq Sources /\ sregs' \subseteq Services
    BY <1>8 DEF Restarting, TypeOK, Sources
  <2>4. QED
    BY <1>8, <2>1, <2>2, <2>3 DEF Restarting, TypeOK
<1>9. CASE RecvConn \/ RecvUnconvertible
  BY <1>9, SMTT(30) DEF RecvConn, RecvUnconvertible, TypeOK
<1>10. CASE RecvNothing
  <2>1. regs' \subseteq Sources
    BY <1>10 DEF RecvNothing, ConnPending, TypeOK, Sources
  <2>2. QED
    BY <1>10, <2>1 DEF RecvNothing, TypeOK
<1>11. CASE DrainConn
  BY <1>11 DEF DrainConn, DropGuard, TypeOK
<1>12. CASE DrainDone
  <2>1. regs' \subseteq Sources
    BY <1>12 DEF DrainDone, TypeOK, Sources
  <2>2. QED
    BY <1>12, <2>1 DEF DrainDone, TypeOK
<1>13. CASE ShutdownCheck
  <2>1. regs' \subseteq Sources /\ reply' \in {"none", "true", "false", "dropped"}
        /\ timer' \in {"pending", "fired"}
    BY <1>13 DEF ShutdownCheck, Outcome, Reschedule, TypeOK, Sources
  <2>2. QED
    BY <1>13, <2>1 DEF ShutdownCheck, TypeOK
<1>14. CASE DropWorker
  <2>1. <<>> \in Seq(BOOLEAN)
    OBVIOUS
  <2>2. QED
    BY <1>14, <2>1 DEF DropWorker, TypeOK
<1>15. CASE Finish \/ AcceptCount
  <2>1. cnt' \in Int /\ active' \in Nat /\ nconns' \in 0 .. MaxConns
    BY <1>15, ConstantsAssumption DEF Finish, AcceptCount, TypeOK
  <2>2. inflight' \in BOOLEAN
    BY <1>15 DEF Finish, AcceptCount, TypeOK
  <2>3. QED
    BY <1>15, <2>1, <2>2 DEF Finish, AcceptCount, TypeOK
<1>16. CASE AcceptSend \/ AcceptClose
  <2>1. cnt' \in Int /\ chan' \in Nat
    BY <1>16 DEF AcceptSend, AcceptClose, TypeOK
  <2>2. regs' \subseteq Sources /\ woken' \in BOOLEAN /\ sregs' \subseteq Services
    BY <1>16 DEF AcceptSend, AcceptClose, WakeBy, TypeOK
  <2>3. QED
    BY <1>16, <2>1, <2>2, ZenonT(30) DEF AcceptSend, AcceptClose, TypeOK
<1>17. ASSUME NEW g \in BOOLEAN, SendStop(g) PROVE TypeOK'
  <2>1. stops' \in Seq(BOOLEAN)
    BY <1>17 DEF SendStop, TypeOK
  <2>2. regs' \subseteq Sources /\ woken' \in BOOLEAN /\ sregs' \subseteq Services
    BY <1>17 DEF SendStop, WakeBy, TypeOK
  <2>3. nstops' \in 0 .. MaxStops
    BY <1>17, ConstantsAssumption DEF SendStop, TypeOK
  <2>4. QED
    BY <1>17, <2>1, <2>2, <2>3 DEF SendStop, TypeOK
<1>18. ASSUME NEW s \in Services, ServiceReady(s) PROVE TypeOK'
  BY <1>18 DEF ServiceReady, WakeByService, TypeOK, Readiness
<1>19. ASSUME NEW s \in Services, ServiceChanges(s) PROVE TypeOK'
  <2>1. svc' \in [Services -> Readiness]
    BY <1>19 DEF ServiceChanges, TypeOK, Readiness
  <2>2. sregs' \subseteq Services /\ regs' \subseteq Sources /\ woken' \in BOOLEAN
    BY <1>19 DEF ServiceChanges, WakeByService, TypeOK
  <2>3. nchanges' \in 0 .. MaxChanges
    BY <1>19, ConstantsAssumption DEF ServiceChanges, TypeOK
  <2>4. QED
    BY <1>19, <2>1, <2>2, <2>3 DEF ServiceChanges, TypeOK
<1>20. CASE RestartEnds
  BY <1>20 DEF RestartEnds, WakeBy, TypeOK
<1>21. CASE TimerFires
  <2>1. elapsed' \in 0 .. ShutdownTimeout + 1
    BY <1>21, ConstantsAssumption DEF TimerFires, TypeOK
  <2>2. QED
    BY <1>21, <2>1 DEF TimerFires, WakeBy, TypeOK
<1>22. CASE UNCHANGED vars
  BY <1>22 DEF vars, TypeOK
<1>23. QED
  BY <1>1, <1>2, <1>3, <1>4, <1>6, <1>7, <1>8, <1>9, <1>10, <1>11, <1>12, <1>13, <1>14,
     <1>15, <1>16, <1>17, <1>18, <1>19, <1>20, <1>21, <1>22 DEF Next, Poll

(* Every reachable state of the worker is well typed. *)
THEOREM TypeCorrect == Spec => []TypeOK
BY TypeInit, TypeStep, PTL DEF Spec

-----------------------------------------------------------------------------
(* Services.  Outside shutdown a service that is neither available nor      *)
(* unavailable is the one being recreated, so a check that finds every      *)
(* polled service ready has polled them all.                                *)

Settled(s) == status[s] \in {"Available", "Unavailable"}

StatusOK ==
    wpc \notin {"exit", "gone"} =>
        /\ state \in {"Unavailable", "Available"} => \A s \in Services : Settled(s)
        /\ state = "Restarting" => \A s \in Services : Settled(s) \/ s = token
        /\ wpc = "recv" => state = "Available" /\ \A s \in Services : status[s] = "Available"
        /\ wpc = "timer" => state = "Shutdown"

LEMMA StatusInit == Init => StatusOK
BY DEF Init, StatusOK, Settled

(* Only poll changes what StatusOK speaks of. *)
LEMMA AroundFrame ==
    ASSUME Next, ~Poll
    PROVE  UNCHANGED <<wpc, graceful, state, status, token>>
BY DEF Next, own, Finish, AcceptCount, AcceptSend, AcceptClose, SendStop, ServiceReady,
       ServiceChanges, RestartEnds, TimerFires

LEMMA StatusStep == TypeOK /\ StatusOK /\ [Next]_vars => StatusOK'
<1> SUFFICES ASSUME TypeOK, StatusOK, [Next]_vars PROVE StatusOK'
  OBVIOUS
<1>1. CASE UNCHANGED <<wpc, state, status, token>>
  BY <1>1 DEF StatusOK, Settled
<1>2. CASE StartPoll \/ PollStop
  BY <1>2 DEF StartPoll, PollStop, StatusOK, Settled
<1>3. CASE StopNow \/ DropWorker
  BY <1>3 DEF StopNow, DropWorker, StatusOK
<1>4. CASE StopGracefully
  BY <1>4 DEF StopGracefully, StatusOK
<1>5. CASE CheckReady
  <2>1. \A s \in Services : Settled(s)
    BY <1>5 DEF CheckReady, StatusOK
  <2>2. Polled = Services
    BY <1>5, <2>1 DEF CheckReady, AllReady, Polled, Checked, Settled
  <2>3. \A s \in Services : status'[s] = "Available"
    BY <1>5, <2>2 DEF CheckReady, AllReady, check_readiness, StatusOf, Polled
  <2>4. QED
    BY <1>5, <2>3 DEF CheckReady, StatusOK, Settled
<1>6. CASE CheckPending
  <2>1. \A s \in Services : Settled(s)
    BY <1>6 DEF CheckPending, StatusOK
  <2>2. \A s \in Polled : s \in Services /\ StatusOf(s) \in {"Available", "Unavailable"}
    BY <1>6 DEF CheckPending, NoneFails, Polled, Checked, StatusOf, TypeOK, Readiness
  <2>3. \A s \in Services : Settled(s)'
    BY <1>6, <2>1, <2>2 DEF CheckPending, check_readiness, Settled
  <2>4. QED
    BY <1>6, <2>3 DEF CheckPending, StatusOK
<1>7. CASE CheckFailed
  <2>1. \A s \in Services : Settled(s)
    BY <1>7 DEF CheckFailed, StatusOK
  <2>2. PICK s \in Failing :
          /\ token' = s
          /\ status' = [r \in Services |->
                          IF r = s THEN "Restarting"
                          ELSE IF r \in Polled THEN StatusOf(r) ELSE status[r]]
    BY <1>7 DEF CheckFailed
  <2>3. \A r \in Polled : r # s => svc[r] # "error"
    BY DEF Failing, Polled, Checked, Services
  <2>4. \A r \in Polled : r # s => StatusOf(r) \in {"Available", "Unavailable"}
    BY <2>3 DEF Polled, Checked, StatusOf, TypeOK, Readiness
  <2>5. \A r \in Services : Settled(r)' \/ r = token'
    BY <2>1, <2>2, <2>4 DEF Settled
  <2>6. QED
    BY <1>7, <2>5 DEF CheckFailed, Restart, StatusOK
<1>8. CASE Restarting
  <2>1. \A s \in Services : Settled(s) \/ s = token
    BY <1>8 DEF Restarting, StatusOK
  <2>2. CASE fut = "ok"
    <3>1. status' = [status EXCEPT ![token] = "Unavailable"] /\ state' = "Unavailable" /\ wpc' = "stop"
      BY <1>8, <2>2 DEF Restarting
    <3>2. \A s \in Services : Settled(s)'
      BY <2>1, <3>1 DEF Settled, TypeOK
    <3>3. QED
      BY <3>1, <3>2 DEF StatusOK
  <2>3. CASE fut # "ok"
    BY <1>8, <2>1, <2>3 DEF Restarting, StatusOK, Settled
  <2>4. QED
    BY <2>2, <2>3
<1>9. CASE RecvConn \/ RecvUnconvertible \/ RecvNothing
  BY <1>9 DEF RecvConn, RecvUnconvertible, RecvNothing, StatusOK, Settled
<1>10. CASE DrainConn \/ DrainDone
  BY <1>10 DEF DrainConn, DrainDone, own, StatusOK
<1>11. CASE ShutdownCheck
  BY <1>11 DEF ShutdownCheck, StatusOK
<1>12. QED
  BY <1>1, <1>2, <1>3, <1>4, <1>5, <1>6, <1>7, <1>8, <1>9, <1>10, <1>11, AroundFrame
  DEF Poll, vars, own

(* A connection is handed over only when every service has been found       *)
(* ready, never while a failed one is being recreated.                      *)
THEOREM DispatchOnlyToReady == Spec => []DispatchToReady
<1>1. StatusOK => DispatchToReady
  BY DEF StatusOK, DispatchToReady
<1>2. QED
  BY TypeInit, TypeStep, StatusInit, StatusStep, <1>1, PTL DEF Spec

-----------------------------------------------------------------------------
(* Wakers.  While a poll is under way and nothing has woken the task since  *)
(* it began, the stop channel is empty and holds the waker, unless a        *)
(* graceful stop has been taken; when poll returns Pending, what its state  *)
(* waits for holds the waker too.                                           *)

PolledStop == wpc \in {"match", "recv", "timer", "idle"} /\ ~woken

WakeOK ==
    /\ inflight => open
    /\ PolledStop => state = "Shutdown" \/ ("stop" \in regs /\ stops = <<>>)
    /\ wpc = "idle" /\ ~woken =>
        /\ state = "Shutdown" => timer = "pending" /\ "timer" \in regs
        /\ state = "Unavailable" => \E s \in Services : svc[s] = "pending" /\ s \in sregs
        /\ state = "Restarting" => fut = "pending" /\ "restart" \in regs
        /\ state = "Available" => chan = 0 /\ (open => "conn" \in regs)

LEMMA WakeInit == Init => WakeOK
BY DEF Init, WakeOK, PolledStop

LEMMA WakeStep == TypeOK /\ StatusOK /\ WakeOK /\ [Next]_vars => WakeOK'
<1> SUFFICES ASSUME TypeOK, StatusOK, WakeOK, [Next]_vars PROVE WakeOK'
  OBVIOUS
<1> USE DEF own, task, around, bounds
<1>1. CASE StartPoll
  BY <1>1 DEF StartPoll, WakeOK, PolledStop
<1>2. CASE PollStop
  BY <1>2 DEF PollStop, StopPending, WakeOK, PolledStop
<1>3. CASE StopNow \/ StopGracefully
  BY <1>3 DEF StopNow, StopGracefully, WakeOK, PolledStop
<1>4. CASE CheckReady
  BY <1>4 DEF CheckReady, WakeOK, PolledStop
<1>5. CASE CheckPending
  <2>1. PICK s \in Checked : svc[s] # "ready"
    BY <1>5 DEF CheckPending, AllReady
  <2>2. s \in Services /\ s \in Polled /\ svc[s] = "pending"
    BY <1>5, <2>1 DEF CheckPending, NoneFails, Polled, Checked, TypeOK, Readiness
  <2>3. svc'[s] = "pending" /\ s \in sregs'
    BY <1>5, <2>2 DEF CheckPending, check_readiness
  <2>4. QED
    BY <1>5, <2>2, <2>3 DEF CheckPending, WakeOK, PolledStop
<1>6. CASE CheckFailed
  BY <1>6 DEF CheckFailed, WakeOK, PolledStop
<1>7. CASE Restarting
  BY <1>7 DEF Restarting, WakeOK, PolledStop
<1>8. CASE RecvConn \/ RecvUnconvertible
  BY <1>8 DEF RecvConn, RecvUnconvertible, WakeOK, PolledStop
<1>9. CASE RecvNothing
  <2>1. state = "Available"
    BY <1>9 DEF RecvNothing, StatusOK
  <2>2. QED
    BY <1>9, <2>1 DEF RecvNothing, ConnPending, WakeOK, PolledStop
<1>10. CASE DrainConn \/ DrainDone
  BY <1>10 DEF DrainConn, DrainDone, WakeOK, PolledStop
<1>11. CASE ShutdownCheck
  <2>1. state = "Shutdown"
    BY <1>11 DEF ShutdownCheck, StatusOK
  <2>2. QED
    BY <1>11, <2>1 DEF ShutdownCheck, Reschedule, WakeOK, PolledStop
<1>12. CASE DropWorker
  BY <1>12 DEF DropWorker, WakeOK, PolledStop
<1>13. CASE Finish \/ AcceptCount
  BY <1>13 DEF Finish, AcceptCount, WakeOK, PolledStop
<1>14. CASE AcceptSend
  BY <1>14 DEF AcceptSend, WakeBy, WakeOK, PolledStop
<1>15. CASE AcceptClose
  BY <1>15 DEF AcceptClose, WakeBy, WakeOK, PolledStop
<1>16. ASSUME NEW g \in BOOLEAN, SendStop(g) PROVE WakeOK'
  BY <1>16 DEF SendStop, WakeBy, WakeOK, PolledStop
<1>17. ASSUME NEW s \in Services, ServiceReady(s) PROVE WakeOK'
  BY <1>17 DEF ServiceReady, WakeByService, WakeOK, PolledStop, TypeOK
<1>18. ASSUME NEW s \in Services, ServiceChanges(s) PROVE WakeOK'
  <2>1. UNCHANGED <<wpc, state, stops, chan, open, fut, timer, inflight, regs>>
    BY <1>18 DEF ServiceChanges, WakeByService
  <2>2. CASE svc[s] = "ready" /\ svc' = [svc EXCEPT ![s] = "pending"] /\ UNCHANGED task
    BY <2>1, <2>2 DEF WakeOK, PolledStop, TypeOK
  <2>3. CASE svc' = [svc EXCEPT ![s] = "error"] /\ WakeByService(s)
    BY <2>1, <2>3 DEF WakeByService, WakeOK, PolledStop, TypeOK
  <2>4. QED
    BY <1>18, <2>2, <2>3 DEF ServiceChanges
<1>19. CASE RestartEnds
  BY <1>19 DEF RestartEnds, WakeBy, WakeOK, PolledStop
<1>20. CASE TimerFires
  BY <1>20 DEF TimerFires, WakeBy, WakeOK, PolledStop
<1>21. CASE UNCHANGED vars
  BY <1>21 DEF vars, WakeOK, PolledStop
<1>22. QED
  BY <1>1, <1>2, <1>3, <1>4, <1>5, <1>6, <1>7, <1>8, <1>9, <1>10, <1>11, <1>12, <1>13,
     <1>14, <1>15, <1>16, <1>17, <1>18, <1>19, <1>20, <1>21 DEF Next, Poll

(* No wake-up of a pending worker is ever lost, whatever the services, the  *)
(* accept thread and the server do, and when.                               *)
THEOREM WakesNeverLost == Spec => []NoLostWake
<1>1. WakeOK => NoLostWake
  BY DEF WakeOK, NoLostWake, PolledStop
<1>2. QED
  BY TypeInit, TypeStep, StatusInit, StatusStep, WakeInit, WakeStep, <1>1, PTL DEF Spec

-----------------------------------------------------------------------------
(* Counting.  The contract of ConnAccounting, and what it says of a worker  *)
(* that reads a total of zero.                                              *)

Flying == IF inflight THEN 1 ELSE 0

CountOK ==
    LET work == 1 + chan + active + Flying
    IN  /\ IF wpc = "gone" THEN cnt >= work ELSE cnt = work
        /\ reply = "true" => wpc \in {"exit", "gone"}
        /\ wpc = "exit" /\ reply = "true" => active = 0

LEMMA CountInit == Init => CountOK
BY DEF Init, CountOK, Flying

LEMMA CountStep == TypeOK /\ CountOK /\ [Next]_vars => CountOK'
<1> SUFFICES ASSUME TypeOK, CountOK, [Next]_vars PROVE CountOK'
  OBVIOUS
<1>0. cnt \in Int /\ chan \in Nat /\ active \in Nat /\ Flying \in {0, 1}
  BY DEF TypeOK, Flying
<1> USE DEF own, task, around, bounds
<1>1. CASE /\ UNCHANGED <<cnt, chan, active, inflight, reply>>
           /\ wpc' = wpc \/ (wpc \notin {"exit", "gone"} /\ wpc' # "gone")
  BY <1>1 DEF CountOK, Flying
<1>2. CASE \/ StartPoll \/ PollStop \/ CheckReady \/ CheckPending \/ CheckFailed
           \/ Restarting \/ RecvNothing \/ DrainDone
  BY <1>1, <1>2 DEF StartPoll, PollStop, CheckReady, CheckPending, CheckFailed, Restarting,
                    RecvNothing, DrainDone
<1>3. CASE StopNow
  <2>1. UNCHANGED <<cnt, chan, active, inflight>> /\ wpc = "total" /\ wpc' = "exit"
    BY <1>3 DEF StopNow
  <2>2. reply' = "true" => cnt - 1 = 0
    BY <1>3 DEF StopNow, total
  <2>3. Flying' = Flying
    BY <2>1 DEF Flying
  <2>4. QED
    BY <1>0, <2>1, <2>2, <2>3 DEF CountOK
<1>4. CASE ShutdownCheck
  <2>1. /\ UNCHANGED <<cnt, chan, active, inflight>> /\ wpc = "timer"
        /\ \/ wpc' = "idle" /\ reply' = reply
           \/ wpc' = "exit" /\ reply' = Outcome
    BY <1>4 DEF ShutdownCheck
  <2>2. Outcome = "true" => cnt - 1 = 0
    BY DEF Outcome, total
  <2>3. Flying' = Flying
    BY <2>1 DEF Flying
  <2>4. QED
    BY <1>0, <2>1, <2>2, <2>3 DEF CountOK
<1>5. CASE StopGracefully
  <2>1. /\ UNCHANGED <<cnt, chan, active, inflight>> /\ wpc = "total" /\ wpc' = "match"
        /\ reply' \in {reply, "dropped"}
    BY <1>5 DEF StopGracefully
  <2>2. Flying' = Flying
    BY <2>1 DEF Flying
  <2>3. QED
    BY <1>0, <2>1, <2>2 DEF CountOK
<1>6. CASE RecvConn \/ RecvUnconvertible \/ DrainConn
  <2>1. /\ UNCHANGED <<inflight, reply>>
        /\ wpc \in {"recv", "match"} /\ wpc' = "match"
        /\ chan' = chan - 1
        /\ \/ cnt' = cnt /\ active' = active + 1
           \/ cnt' = cnt - 1 /\ active' = active
    BY <1>6 DEF RecvConn, RecvUnconvertible, DrainConn, DropGuard
  <2>2. Flying' = Flying
    BY <2>1 DEF Flying
  <2>3. QED
    BY <1>0, <2>1, <2>2 DEF CountOK
<1>7. CASE DropWorker
  <2>1. UNCHANGED <<cnt, active, inflight, reply>> /\ wpc = "exit" /\ wpc' = "gone" /\ chan' = 0
    BY <1>7 DEF DropWorker
  <2>2. Flying' = Flying
    BY <2>1 DEF Flying
  <2>3. QED
    BY <1>0, <2>1, <2>2 DEF CountOK
<1>8. CASE Finish
  <2>1. /\ UNCHANGED <<wpc, chan, inflight, reply>> /\ wpc \in {"idle", "gone"}
        /\ cnt' = cnt - 1 /\ active' = active - 1
    BY <1>8 DEF Finish
  <2>2. Flying' = Flying
    BY <2>1 DEF Flying
  <2>3. QED
    BY <1>0, <2>1, <2>2 DEF CountOK
<1>9. CASE AcceptCount
  <2>1. UNCHANGED <<wpc, chan, active, reply>> /\ cnt' = cnt + 1
    BY <1>9 DEF AcceptCount
  <2>2. Flying = 0 /\ Flying' = 1
    BY <1>9 DEF AcceptCount, Flying
  <2>3. QED
    BY <1>0, <2>1, <2>2 DEF CountOK
<1>10. CASE AcceptSend
  <2>1. /\ UNCHANGED <<wpc, active, reply>>
        /\ IF wpc = "gone" THEN cnt' = cnt - 1 /\ chan' = chan
                            ELSE cnt' = cnt /\ chan' = chan + 1
    BY <1>10 DEF AcceptSend
  <2>2. Flying = 1 /\ Flying' = 0
    BY <1>10 DEF AcceptSend, Flying
  <2>3. QED
    BY <1>0, <2>1, <2>2 DEF CountOK
<1>11. CASE \/ AcceptClose \/ RestartEnds \/ TimerFires \/ UNCHANGED vars
            \/ \E g \in BOOLEAN : SendStop(g)
            \/ \E s \in Services : ServiceReady(s) \/ ServiceChanges(s)
  BY <1>1, <1>11 DEF AcceptClose, RestartEnds, TimerFires, SendStop, ServiceReady,
                     ServiceChanges, vars
<1>12. QED
  BY <1>2, <1>3, <1>4, <1>5, <1>6, <1>7, <1>8, <1>9, <1>10, <1>11 DEF Next, Poll

(* A worker that says it stopped gracefully had no connection task left. *)
THEOREM RepliesAreHonest == Spec => []HonestReply
<1>1. CountOK => HonestReply
  BY DEF CountOK, HonestReply
<1>2. QED
  BY TypeInit, TypeStep, CountInit, CountStep, <1>1, PTL DEF Spec

LEMMA AccountingStep ==
    ASSUME TypeOK, CountOK, [Next]_vars
    PROVE  [Accounting!Next]_(Accounting!vars)
<1>0. chan \in Nat
  BY DEF TypeOK
<1> USE DEF own, task, around, bounds
<1>1. ASSUME UNCHANGED <<cnt, chan, active, inflight>>, wpc' # "gone" <=> wpc # "gone"
      PROVE  UNCHANGED Accounting!vars
  BY <1>1 DEF Accounting!vars
<1>2. CASE \/ StartPoll \/ PollStop \/ CheckReady \/ CheckPending \/ CheckFailed
           \/ Restarting \/ RecvNothing \/ DrainDone \/ StopNow \/ StopGracefully
           \/ ShutdownCheck
  BY <1>1, <1>2 DEF StartPoll, PollStop, CheckReady, CheckPending, CheckFailed, Restarting,
                    RecvNothing, DrainDone, StopNow, StopGracefully, ShutdownCheck
<1>3. CASE RecvConn
  BY <1>3 DEF RecvConn, Accounting!Recv, Accounting!Next
<1>4. CASE RecvUnconvertible \/ DrainConn
  BY <1>4 DEF RecvUnconvertible, DrainConn, DropGuard, Accounting!Discard, Accounting!Next
<1>5. CASE DropWorker
  BY <1>5 DEF DropWorker, Accounting!Gone, Accounting!Next
<1>6. CASE Finish
  BY <1>6 DEF Finish, Accounting!Finish, Accounting!Next
<1>7. CASE AcceptCount
  BY <1>7 DEF AcceptCount, Accounting!Count, Accounting!Next
<1>8. CASE AcceptSend
  BY <1>8 DEF AcceptSend, Accounting!Send, Accounting!SendFailed, Accounting!Next
<1>9. CASE \/ AcceptClose \/ RestartEnds \/ TimerFires \/ UNCHANGED vars
           \/ \E g \in BOOLEAN : SendStop(g)
           \/ \E s \in Services : ServiceReady(s) \/ ServiceChanges(s)
  BY <1>1, <1>9 DEF AcceptClose, RestartEnds, TimerFires, SendStop, ServiceReady,
                    ServiceChanges, vars
<1>10. QED
  BY <1>2, <1>3, <1>4, <1>5, <1>6, <1>7, <1>8, <1>9 DEF Next, Poll

(* The worker implements the counting contract that the accept thread       *)
(* relies on.                                                               *)
THEOREM WorkerCounts == Spec => CountsConnections
<1>1. Init => Accounting!Init
  BY DEF Init, Accounting!Init
<1>2. QED
  BY TypeInit, TypeStep, CountInit, CountStep, AccountingStep, <1>1, PTL
  DEF Spec, CountsConnections, Accounting!Spec
=============================================================================
