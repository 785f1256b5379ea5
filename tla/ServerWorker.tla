--------------------------- MODULE ServerWorker ---------------------------
(***************************************************************************)
(* The ServerWorker future of actix-server: one worker's poll function,    *)
(* its services, its graceful and forced shutdown, and the wakers on which *)
(* the runtime decides to poll it again.                                   *)
(*                                                                         *)
(* A future that returned Pending is polled again only after something it  *)
(* registered its waker with has woken it.  `regs` and `sregs` are the     *)
(* sources that hold the waker, `woken` says one of them has used it.  The *)
(* worker's own steps are the accesses poll makes to what other threads    *)
(* change: the stop channel, the counter, the connection channel, the      *)
(* services' readiness and the shutdown timer.                             *)
(*                                                                         *)
(* Connections are counted here, not told apart: poll calls a service only *)
(* after every service has reported ready, so the token decides nothing.   *)
(***************************************************************************)
EXTENDS Integers, Sequences

CONSTANTS
    NumServices,      \* bound service factories
    ShutdownTimeout,  \* shutdown_timeout, in shutdown poll intervals
    MaxConns,         \* bound: connections the accept thread ever counts
    MaxStops,         \* bound: stop messages the server ever sends
    MaxChanges        \* bound: times a service stops being ready or fails

ASSUME ConstantsAssumption ==
    /\ NumServices \in Nat \ {0}
    /\ ShutdownTimeout \in Nat
    /\ MaxConns \in Nat /\ MaxStops \in Nat /\ MaxChanges \in Nat

Services == 0 .. NumServices - 1

Readiness == {"ready", "pending", "error"}

(* What poll may leave its waker with, besides the services. *)
Sources == {"stop", "conn", "restart", "timer"}

VARIABLES
    \* ServerWorker, and where its poll stands
    wpc,        \* "idle": Pending was returned; "stop", "total", "match", "recv",
                \* "timer": inside poll; "exit": Ready was returned; "gone": dropped
    graceful,   \* the stop message in hand
    state,      \* WorkerState
    status,     \* WorkerServiceStatus of each service
    token,      \* the service a Restart recreates
    elapsed,    \* shutdown poll intervals since start_from
    \* What poll reads
    stops,      \* stop messages in stop_rx
    chan,       \* connections in conn_rx
    open,       \* the accept thread still holds the sender
    cnt,        \* raw value of the shared Counter
    svc,        \* what poll_ready of each service would return
    fut,        \* the restart future: "pending", "ok" or "err"
    timer,      \* the shutdown timer: "pending" or "fired"
    \* The task
    regs, sregs,  \* the sources and the services that hold its waker
    woken,
    \* Around the worker
    active,     \* connection tasks, each with a WorkerCounterGuard
    inflight,   \* the accept thread has counted a connection and not sent it yet
    reply,      \* last answer to a stop message: "none", "true", "false", "dropped"
    nconns, nstops, nchanges

own == <<wpc, graceful, state, status, token, elapsed>>
task == <<regs, sregs, woken>>
around == <<active, inflight, reply>>
bounds == <<nconns, nstops, nchanges>>
vars == <<own, stops, chan, open, cnt, svc, fut, timer, task, around, bounds>>

TypeOK ==
    /\ wpc \in {"idle", "stop", "total", "match", "recv", "timer", "exit", "gone"}
    /\ graceful \in BOOLEAN
    /\ state \in {"Unavailable", "Available", "Restarting", "Shutdown"}
    /\ status \in [Services -> {"Available", "Unavailable", "Failed", "Restarting",
                                "Stopping", "Stopped"}]
    /\ token \in Services
    /\ elapsed \in 0 .. ShutdownTimeout + 1
    /\ stops \in Seq(BOOLEAN)
    /\ chan \in Nat
    /\ open \in BOOLEAN
    /\ cnt \in Int
    /\ svc \in [Services -> Readiness]
    /\ fut \in {"pending", "ok", "err"}
    /\ timer \in {"pending", "fired"}
    /\ regs \subseteq Sources
    /\ sregs \subseteq Services
    /\ woken \in BOOLEAN
    /\ active \in Nat
    /\ inflight \in BOOLEAN
    /\ reply \in {"none", "true", "false", "dropped"}
    /\ nconns \in 0 .. MaxConns
    /\ nstops \in 0 .. MaxStops
    /\ nchanges \in 0 .. MaxChanges

(* The spawned future, with the services create_services made: it is        *)
(* scheduled for its first poll.                                            *)
Init ==
    /\ wpc = "idle"
    /\ graceful = FALSE
    /\ state = "Unavailable"
    /\ status = [s \in Services |-> "Unavailable"]
    /\ token = 0
    /\ elapsed = 0
    /\ stops = <<>>
    /\ chan = 0
    /\ open = TRUE
    /\ cnt = 1
    /\ svc \in [Services -> {"ready", "pending"}]
    /\ fut = "pending"
    /\ timer = "pending"
    /\ regs = {}
    /\ sregs = {}
    /\ woken = TRUE
    /\ active = 0
    /\ inflight = FALSE
    /\ reply = "none"
    /\ nconns = 0
    /\ nstops = 0
    /\ nchanges = 0

total == cnt - 1

(* A source uses the waker it holds, if it holds it. *)
WakeBy(src) ==
    /\ woken' = (woken \/ src \in regs)
    /\ regs' = regs \ {src}
    /\ UNCHANGED sregs

WakeByService(s) ==
    /\ woken' = (woken \/ s \in sregs)
    /\ sregs' = sregs \ {s}
    /\ UNCHANGED regs

-----------------------------------------------------------------------------
(* poll: the stop message.                                                  *)

(* The runtime polls a woken task. *)
StartPoll ==
    /\ wpc = "idle"
    /\ woken
    /\ woken' = FALSE
    /\ wpc' = "stop"
    /\ UNCHANGED <<graceful, state, status, token, elapsed, stops, chan, open, cnt, svc,
                   fut, timer, regs, sregs, around, bounds>>

(* poll_recv of an empty channel keeps the waker. *)
StopPending_forgets == UNCHANGED regs
StopPending == regs' = regs \cup {"stop"}

(* At most one message is taken; the waker is left only with an empty       *)
(* channel.                                                                 *)
PollStop ==
    /\ wpc = "stop"
    /\ IF stops = <<>>
       THEN wpc' = "match" /\ StopPending /\ UNCHANGED <<stops, graceful>>
       ELSE wpc' = "total" /\ stops' = Tail(stops) /\ graceful' = Head(stops)
            /\ UNCHANGED regs
    /\ UNCHANGED <<state, status, token, elapsed, chan, open, cnt, svc, fut, timer,
                   woken, sregs, around, bounds>>

(* shutdown(force): only the available services change. *)
shutdown(new) ==
    status' = [s \in Services |-> IF status[s] = "Available" THEN new ELSE status[s]]

(* The worker is idle, or the stop is forced: answer and return Ready. *)
StopNow ==
    /\ wpc = "total"
    /\ total = 0 \/ ~graceful
    /\ reply' = IF total = 0 THEN "true" ELSE "false"
    /\ IF total = 0 THEN UNCHANGED status ELSE shutdown("Stopped")
    /\ wpc' = "exit"
    /\ UNCHANGED <<graceful, state, token, elapsed, stops, chan, open, cnt, svc, fut,
                   timer, task, active, inflight, bounds>>

(* A graceful stop with connections: whatever the state was, a Restart in   *)
(* progress included, it becomes Shutdown with a new timer and start time.  *)
(* The sender of an earlier graceful stop is dropped.                       *)
StopGracefully ==
    /\ wpc = "total"
    /\ total # 0
    /\ graceful
    /\ shutdown("Stopping")
    /\ state' = "Shutdown"
    /\ timer' = "pending"
    /\ elapsed' = 0
    /\ reply' = IF state = "Shutdown" THEN "dropped" ELSE reply
    /\ regs' = regs \ {"timer", "restart"}
    /\ wpc' = "match"
    /\ UNCHANGED <<graceful, token, stops, chan, open, cnt, svc, fut, woken, sregs,
                   active, inflight, bounds>>

-----------------------------------------------------------------------------
(* poll: readiness and connections.                                         *)

Checked == {s \in Services : status[s] \in {"Available", "Unavailable"}}

(* check_readiness returns at the first service whose poll_ready fails. *)
Polled ==
    {s \in Checked : \A r \in Checked : r < s => svc[r] # "error"}

Failing == {s \in Polled : svc[s] = "error"}

AllReady == \A s \in Checked : svc[s] = "ready"

NoneFails == \A s \in Checked : svc[s] # "error"

StatusOf(s) ==
    CASE svc[s] = "ready" -> "Available"
      [] svc[s] = "pending" -> "Unavailable"
      [] svc[s] = "error" -> "Failed"

check_readiness ==
    /\ status' = [s \in Services |-> IF s \in Polled THEN StatusOf(s) ELSE status[s]]
    /\ sregs' = sregs \cup {s \in Polled : svc[s] = "pending"}

CheckReady ==
    /\ wpc = "match"
    /\ state \in {"Unavailable", "Available"}
    /\ AllReady
    /\ check_readiness
    /\ state' = "Available"
    /\ wpc' = IF state = "Available" THEN "recv" ELSE "stop"
    /\ UNCHANGED <<graceful, token, elapsed, stops, chan, open, cnt, svc, fut, timer,
                   regs, woken, around, bounds>>

(* Unavailable and still not ready: Pending.  Available and no longer       *)
(* ready: poll again, as Unavailable.                                       *)
CheckPending ==
    /\ wpc = "match"
    /\ state \in {"Unavailable", "Available"}
    /\ ~AllReady
    /\ NoneFails
    /\ check_readiness
    /\ state' = "Unavailable"
    /\ wpc' = IF state = "Available" THEN "stop" ELSE "idle"
    /\ UNCHANGED <<graceful, token, elapsed, stops, chan, open, cnt, svc, fut, timer,
                   regs, woken, around, bounds>>

(* restart_service: the factory's future is the state. *)
Restart_kept == UNCHANGED <<state, fut>>
Restart == state' = "Restarting" /\ fut' = "pending"

(* check_readiness fails, and restart_service starts the factory's future. *)
CheckFailed ==
    /\ wpc = "match"
    /\ state \in {"Unavailable", "Available"}
    /\ \E s \in Failing :
        /\ token' = s
        /\ status' = [r \in Services |->
                        IF r = s THEN "Restarting"
                        ELSE IF r \in Polled THEN StatusOf(r) ELSE status[r]]
    /\ sregs' = sregs \cup {s \in Polled : svc[s] = "pending"}
    /\ Restart
    /\ wpc' = "stop"
    /\ UNCHANGED <<graceful, elapsed, stops, chan, open, cnt, svc, timer, regs, woken, around,
                   bounds>>

(* The restart future: Pending, the new service, or a panic that drops the  *)
(* worker.                                                                  *)
Restarting ==
    /\ wpc = "match"
    /\ state = "Restarting"
    /\ \/ /\ fut = "pending"
          /\ regs' = regs \cup {"restart"}
          /\ wpc' = "idle"
          /\ UNCHANGED <<state, status, svc, sregs>>
       \/ /\ fut = "ok"
          /\ status' = [status EXCEPT ![token] = "Unavailable"]
          /\ \E r \in {"ready", "pending"} : svc' = [svc EXCEPT ![token] = r]
          /\ sregs' = sregs \ {token}
          /\ state' = "Unavailable"
          /\ wpc' = "stop"
          /\ UNCHANGED regs
       \/ /\ fut = "err"
          /\ wpc' = "exit"
          /\ UNCHANGED <<state, status, svc, regs, sregs>>
    /\ UNCHANGED <<graceful, token, elapsed, stops, chan, open, cnt, fut, timer, woken,
                   around, bounds>>

(* A connection: its service's call spawns a task that owns the guard.  The *)
(* loop checks readiness again, without another look at the stop channel.   *)
RecvConn ==
    /\ wpc = "recv"
    /\ chan > 0
    /\ chan' = chan - 1
    /\ active' = active + 1
    /\ wpc' = "match"
    /\ UNCHANGED <<graceful, state, status, token, elapsed, stops, open, cnt, svc, fut,
                   timer, task, inflight, reply, bounds>>

(* The stream cannot be converted: the guard goes with the connection. *)
RecvUnconvertible ==
    /\ wpc = "recv"
    /\ chan > 0
    /\ chan' = chan - 1
    /\ cnt' = cnt - 1
    /\ wpc' = "match"
    /\ UNCHANGED <<graceful, state, status, token, elapsed, stops, open, svc, fut, timer,
                   task, around, bounds>>

ConnPending_forgets == UNCHANGED regs
ConnPending == regs' = IF open THEN regs \cup {"conn"} ELSE regs

(* Pending; a channel whose sender is gone keeps no waker. *)
RecvNothing ==
    /\ wpc = "recv"
    /\ chan = 0
    /\ ConnPending
    /\ wpc' = "idle"
    /\ UNCHANGED <<graceful, state, status, token, elapsed, stops, chan, open, cnt, svc,
                   fut, timer, woken, sregs, around, bounds>>

-----------------------------------------------------------------------------
(* poll: graceful shutdown.                                                 *)

DropGuard_leaks == UNCHANGED cnt
DropGuard == cnt' = cnt - 1

(* A queued connection is dropped with a guard. *)
DrainConn ==
    /\ wpc = "match"
    /\ state = "Shutdown"
    /\ chan > 0
    /\ chan' = chan - 1
    /\ DropGuard
    /\ UNCHANGED <<own, stops, open, svc, fut, timer, task, around, bounds>>

(* The channel is empty; the timer is polled. *)
DrainDone ==
    /\ wpc = "match"
    /\ state = "Shutdown"
    /\ chan = 0
    /\ regs' = regs \cup (IF open THEN {"conn"} ELSE {})
                    \cup (IF timer = "pending" THEN {"timer"} ELSE {})
    /\ wpc' = IF timer = "pending" THEN "idle" ELSE "timer"
    /\ UNCHANGED <<graceful, state, status, token, elapsed, stops, chan, open, cnt, svc,
                   fut, timer, woken, sregs, around, bounds>>

(* The answer, when the shutdown ends. *)
Outcome_optimistic == "true"
Outcome == IF total = 0 THEN "true" ELSE "false"

(* The timer is set again and, once more, polled. *)
Reschedule_unpolled == timer' = "pending" /\ UNCHANGED regs
Reschedule == timer' = "pending" /\ regs' = regs \cup {"timer"}

(* The timer has fired: done, timed out, or set and polled again. *)
ShutdownCheck ==
    /\ wpc = "timer"
    /\ IF total = 0 \/ elapsed >= ShutdownTimeout
       THEN /\ reply' = Outcome
            /\ state' = "Unavailable"
            /\ wpc' = "exit"
            /\ UNCHANGED <<timer, regs>>
       ELSE /\ Reschedule
            /\ wpc' = "idle"
            /\ UNCHANGED <<reply, state>>
    /\ UNCHANGED <<graceful, status, token, elapsed, stops, chan, open, cnt, svc, fut,
                   woken, sregs, active, inflight, bounds>>

(* The finished (or panicked) future is dropped: what is in the channel     *)
(* goes without a guard, and a sender still held answers nothing.           *)
DropWorker ==
    /\ wpc = "exit"
    /\ wpc' = "gone"
    /\ chan' = 0
    /\ stops' = <<>>
    /\ UNCHANGED <<graceful, state, status, token, elapsed, open, cnt, svc, fut, timer,
                   task, around, bounds>>

-----------------------------------------------------------------------------
(* The rest of the worker's runtime, the accept thread, the server, time.   *)

(* A connection's task ends.  Tasks share the thread with poll; when the    *)
(* worker is gone its runtime drops them.                                   *)
Finish ==
    /\ wpc \in {"idle", "gone"}
    /\ active > 0
    /\ active' = active - 1
    /\ cnt' = cnt - 1
    /\ UNCHANGED <<own, stops, chan, open, svc, fut, timer, task, inflight, reply, bounds>>

(* WorkerHandleAccept::send: counted, ... *)
AcceptCount ==
    /\ open
    /\ ~inflight
    /\ nconns < MaxConns
    /\ nconns' = nconns + 1
    /\ inflight' = TRUE
    /\ cnt' = cnt + 1
    /\ UNCHANGED <<own, stops, chan, open, svc, fut, timer, task, active, reply, nstops,
                   nchanges>>

(* ... then sent, or counted back. *)
AcceptSend ==
    /\ inflight
    /\ inflight' = FALSE
    /\ IF wpc = "gone"
       THEN cnt' = cnt - 1 /\ UNCHANGED <<chan, task>>
       ELSE chan' = chan + 1 /\ WakeBy("conn") /\ UNCHANGED cnt
    /\ UNCHANGED <<own, stops, open, svc, fut, timer, active, reply, bounds>>

(* The accept thread ends, or has removed this worker: its handle is gone. *)
AcceptClose ==
    /\ open
    /\ ~inflight
    /\ open' = FALSE
    /\ WakeBy("conn")
    /\ UNCHANGED <<own, stops, chan, cnt, svc, fut, timer, around, bounds>>

(* WorkerHandleServer::stop. *)
SendStop(g) ==
    /\ nstops < MaxStops
    /\ nstops' = nstops + 1
    /\ IF wpc = "gone"
       THEN UNCHANGED <<stops, task>>
       ELSE stops' = Append(stops, g) /\ WakeBy("stop")
    /\ UNCHANGED <<own, chan, open, cnt, svc, fut, timer, around, nconns, nchanges>>

ServiceReady(s) ==
    /\ svc[s] = "pending"
    /\ svc' = [svc EXCEPT ![s] = "ready"]
    /\ WakeByService(s)
    /\ UNCHANGED <<own, stops, chan, open, cnt, fut, timer, around, bounds>>

ServiceChanges(s) ==
    /\ nchanges < MaxChanges
    /\ nchanges' = nchanges + 1
    /\ \/ svc[s] = "ready" /\ svc' = [svc EXCEPT ![s] = "pending"] /\ UNCHANGED task
       \/ svc[s] # "error" /\ svc' = [svc EXCEPT ![s] = "error"] /\ WakeByService(s)
    /\ UNCHANGED <<own, stops, chan, open, cnt, fut, timer, around, nconns, nstops>>

RestartEnds ==
    /\ state = "Restarting"
    /\ fut = "pending"
    /\ fut' \in {"ok", "err"}
    /\ WakeBy("restart")
    /\ UNCHANGED <<own, stops, chan, open, cnt, svc, timer, around, bounds>>

(* An interval passes; the worker may be late to notice. *)
TimerFires ==
    /\ state = "Shutdown"
    /\ timer = "pending"
    /\ timer' = "fired"
    /\ elapsed' \in (IF elapsed < ShutdownTimeout THEN elapsed + 1 ELSE elapsed)
                        .. ShutdownTimeout + 1
    /\ WakeBy("timer")
    /\ UNCHANGED <<wpc, graceful, state, status, token, stops, chan, open, cnt, svc, fut,
                   around, bounds>>

-----------------------------------------------------------------------------
Poll ==
    \/ StartPoll \/ PollStop \/ StopNow \/ StopGracefully
    \/ CheckReady \/ CheckPending \/ CheckFailed \/ Restarting
    \/ RecvConn \/ RecvUnconvertible \/ RecvNothing
    \/ DrainConn \/ DrainDone \/ ShutdownCheck
    \/ DropWorker

Next ==
    \/ Poll
    \/ Finish
    \/ AcceptCount \/ AcceptSend \/ AcceptClose
    \/ \E g \in BOOLEAN : SendStop(g)
    \/ \E s \in Services : ServiceReady(s) \/ ServiceChanges(s)
    \/ RestartEnds
    \/ TimerFires

Spec == Init /\ [][Next]_vars

(* What any runtime does: it polls a woken task, completes a poll it began, *)
(* and fires timers.                                                        *)
RuntimeFairness == WF_vars(Poll) /\ WF_vars(TimerFires)

(* Besides: a service that is not ready becomes ready, a factory's future   *)
(* ends, and the accept thread completes a send.  Nothing obliges a         *)
(* connection to end.                                                       *)
Fairness ==
    /\ RuntimeFairness
    /\ WF_vars(AcceptSend)
    /\ WF_vars(RestartEnds)
    /\ \A s \in Services : WF_vars(ServiceReady(s))

-----------------------------------------------------------------------------
(* Properties.                                                              *)

(* A pending worker can always be woken for what it waits for.  Once poll   *)
(* has returned Pending and nothing has woken the task since: a stop        *)
(* message waits only behind an earlier graceful one; a worker shutting     *)
(* down has its running timer's wake-up; an unavailable worker has that of  *)
(* a service that is not ready; a restarting one that of the factory's      *)
(* future; and an available worker has no connection in its channel.        *)
NoLostWake ==
    wpc = "idle" /\ ~woken =>
        /\ stops # <<>> => state = "Shutdown"
        /\ state = "Shutdown" => timer = "pending" /\ "timer" \in regs
        /\ state = "Unavailable" => \E s \in Services : svc[s] = "pending" /\ s \in sregs
        /\ state = "Restarting" => fut = "pending" /\ "restart" \in regs
        /\ state = "Available" => chan = 0

(* A worker that answers a stop with `true` ends with no connection task    *)
(* running, however the accept thread's counting and the tasks' ends        *)
(* interleave with its reads of the counter.                                *)
HonestReply == wpc = "exit" /\ reply = "true" => active = 0

(* Whenever a connection may be handed to a service, every service is       *)
(* available: a failed one has been recreated and has reported ready.       *)
DispatchToReady == wpc = "recv" => \A s \in Services : status[s] = "Available"

(* A worker that was told to stop ends, although its connections may never  *)
(* end and its services may never be ready: the shutdown timeout sees to it.*)
StopEndsWorker == RuntimeFairness => (nstops > 0 ~> wpc = "gone")

(* Connections do not stay in the channel of a worker, through services     *)
(* that stop being ready, fail and are recreated.                           *)
ConnsLeaveChannel == Fairness => (chan > 0 ~> chan = 0)

Accounting == INSTANCE ConnAccounting WITH up <- wpc # "gone"

(* The worker keeps its side of the counting: whatever it does with a       *)
(* connection in its channel, the count goes down once, with the guard.     *)
CountsConnections == Accounting!Spec
=============================================================================
