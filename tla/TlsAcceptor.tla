----------------------------- MODULE TlsAcceptor -----------------------------
(***************************************************************************)
(* A TLS acceptor of actix-tls in a service pipeline of actix-service, on  *)
(* one worker thread: the readiness of the pair (AndThenService), the call *)
(* futures with the handshake and its timeout (AcceptFut), the thread's    *)
(* handshake counter, and the restart of the pair when its other half      *)
(* fails.                                                                  *)
(*                                                                         *)
(* The acceptor stands first, acceptor.and_then(app), or second,           *)
(* filter.and_then(acceptor).  The thread runs one task at a time: `turn`  *)
(* is the task whose poll is under way.  The handshake itself, the other   *)
(* service, the clock and the clients are the environment, which acts at   *)
(* any time, also inside a poll.                                           *)
(*                                                                         *)
(* The worker is reduced to what decides when it asks a service and calls  *)
(* it (ServerWorker has all of it); connections carry no order, as the     *)
(* one the channel keeps decides nothing here.                             *)
(***************************************************************************)
EXTENDS Naturals, FiniteSets

CONSTANTS
    Conns,      \* the connections the accept thread sends to this worker
    Worker,     \* the worker's task; a connection's task is the connection
    NoTask,
    Limits,     \* arguments of max_concurrent_tls_connect
    MaxChanges  \* bound: times the other service stops being ready or fails

ASSUME ConstantsAssumption ==
    /\ IsFiniteSet(Conns)
    /\ Worker \notin Conns /\ NoTask \notin Conns /\ Worker # NoTask
    /\ Limits \subseteq Nat
    /\ MaxChanges \in Nat

Tasks == Conns \cup {Worker}

VARIABLES
    place,     \* where the acceptor stands in the pair: "first" or "second"
    MAX_CONN,  \* the process-wide setting
    capacity, count, waker,  \* MAX_CONN_COUNTER, the Counter of this thread
    worker,    \* "starting", "serving", "restarting" or "dead"
    build,     \* what the other factory's future would return
    other,     \* what poll_ready of the other service would return
    stage,     \* where each connection is
    input,     \* what polling its current future would find: "none", "ok", "err"
    expired,   \* its handshake timer has fired
    turn,      \* the task being polled, or NoTask
    asked,     \* what has the worker's waker, besides the counter
    woken,     \* tasks scheduled to be polled
    changes

counter == <<capacity, count, waker>>
conns == <<stage, input, expired>>
service == <<worker, build, other>>
vars == <<place, MAX_CONN, counter, service, conns, turn, asked, woken, changes>>

Counter == INSTANCE Counter

Stages == {"unsent", "queued", "handshake", "other",
           "done", "tls_error", "timeout", "service_error", "dropped"}

TypeOK ==
    /\ place \in {"first", "second"}
    /\ MAX_CONN \in Limits /\ capacity \in Limits
    /\ count \in Nat
    /\ waker \in {Worker, NoTask}
    /\ worker \in {"starting", "serving", "restarting", "dead"}
    /\ build \in {"pending", "ok", "err"}
    /\ other \in {"ready", "pending", "failed"}
    /\ stage \in [Conns -> Stages]
    /\ input \in [Conns -> {"none", "ok", "err"}]
    /\ expired \in [Conns -> BOOLEAN]
    /\ turn \in Tasks \cup {NoTask}
    /\ asked \subseteq {"build", "other", "conns"}
    /\ woken \subseteq Tasks
    /\ changes \in 0 .. MaxChanges

(* The thread's first new_service has just run: it took the limit that was  *)
(* set, for good.                                                           *)
Init ==
    /\ place \in {"first", "second"}
    /\ MAX_CONN \in Limits
    /\ Counter!Create(MAX_CONN)
    /\ worker = "starting"
    /\ build = "pending" /\ other = "pending"
    /\ stage = [c \in Conns |-> "unsent"]
    /\ input = [c \in Conns |-> "none"]
    /\ expired = [c \in Conns |-> FALSE]
    /\ turn = NoTask
    /\ asked = {}
    /\ woken = {Worker}
    /\ changes = 0

Handshaking == {c \in Conns : stage[c] = "handshake"}

-----------------------------------------------------------------------------
(* The environment.                                                         *)

WakeBy(source) ==
    /\ asked' = asked \ {source}
    /\ woken' = IF source \in asked THEN woken \cup {Worker} ELSE woken

max_concurrent_tls_connect(num) ==
    /\ MAX_CONN' = num
    /\ UNCHANGED <<place, counter, service, conns, turn, asked, woken, changes>>

(* The accept thread sends only to workers that have started.               *)
Arrive(c) ==
    /\ worker \in {"serving", "restarting"}
    /\ stage[c] = "unsent"
    /\ stage' = [stage EXCEPT ![c] = "queued"]
    /\ WakeBy("conns")
    /\ UNCHANGED <<place, MAX_CONN, counter, service, input, expired, turn, changes>>

(* The other service is created, ready or not yet, or is not.               *)
BuildEnds ==
    /\ worker \in {"starting", "restarting"} /\ build = "pending"
    /\ \/ build' = "ok" /\ other' \in {"ready", "pending"}
       \/ build' = "err" /\ UNCHANGED other
    /\ WakeBy("build")
    /\ UNCHANGED <<place, MAX_CONN, counter, worker, conns, turn, changes>>

OtherReady ==
    /\ worker = "serving" /\ other = "pending"
    /\ other' = "ready"
    /\ WakeBy("other")
    /\ UNCHANGED <<place, MAX_CONN, counter, worker, build, conns, turn, changes>>

OtherUnready ==
    /\ worker = "serving" /\ other # "failed"
    /\ changes < MaxChanges /\ changes' = changes + 1
    /\ other' \in {"pending", "failed"} \ {other}
    /\ WakeBy("other")
    /\ UNCHANGED <<place, MAX_CONN, counter, worker, build, conns, turn>>

(* The network, or the other service's own work, gives the future of a      *)
(* connection its result.                                                   *)
Progress(c) ==
    /\ input[c] = "none"
    /\ \E r \in {"ok", "err"} : input' = [input EXCEPT ![c] = r]
    /\ woken' = woken \cup {c}
    /\ UNCHANGED <<place, MAX_CONN, counter, service, stage, expired, turn, asked, changes>>

Handshakes(c) == stage[c] = "handshake" /\ Progress(c)
OtherWorks(c) == stage[c] = "other" /\ Progress(c)

(* The Sleep of AcceptFut, which started with the call.                     *)
Expire(c) ==
    /\ stage[c] = "handshake" /\ ~expired[c]
    /\ expired' = [expired EXCEPT ![c] = TRUE]
    /\ woken' = woken \cup {c}
    /\ UNCHANGED <<place, MAX_CONN, counter, service, stage, input, turn, asked, changes>>

-----------------------------------------------------------------------------
(* The worker's task.                                                       *)

StartPoll(t) ==
    /\ worker # "dead" /\ turn = NoTask /\ t \in woken
    /\ turn' = t
    /\ woken' = woken \ {t}
    /\ UNCHANGED <<place, MAX_CONN, counter, service, conns, asked, changes>>

(* AndThenServiceFactoryResponse::poll polls the factories it still waits   *)
(* for; the acceptor's is ready at the first poll, so the other decides.    *)
BuildPending ==
    /\ turn = Worker /\ worker \in {"starting", "restarting"} /\ build = "pending"
    /\ asked' = asked \cup {"build"}
    /\ turn' = NoTask
    /\ UNCHANGED <<place, MAX_CONN, counter, service, conns, woken, changes>>

Built ==
    /\ turn = Worker /\ worker \in {"starting", "restarting"} /\ build = "ok"
    /\ worker' = "serving"
    /\ UNCHANGED <<place, MAX_CONN, counter, build, other, conns, turn, asked, woken, changes>>

(* The worker panics or does not start; its thread ends with all its tasks. *)
BuildFails ==
    /\ turn = Worker /\ worker \in {"starting", "restarting"} /\ build = "err"
    /\ worker' = "dead"
    /\ stage' = [c \in Conns |->
                   IF stage[c] \in {"queued", "handshake", "other"} THEN "dropped" ELSE stage[c]]
    /\ count' = 0 /\ waker' = NoTask
    /\ turn' = NoTask /\ asked' = {} /\ woken' = {}
    /\ input' = [c \in Conns |-> "none"] /\ expired' = [c \in Conns |-> FALSE]
    /\ UNCHANGED <<place, MAX_CONN, capacity, build, other, changes>>

NewService_counts_anew == capacity' = MAX_CONN /\ count' = 0 /\ UNCHANGED waker

(* Acceptor::new_service clones the thread's Counter, whatever MAX_CONN is  *)
(* by now.                                                                  *)
NewService == UNCHANGED <<capacity, count>>

(* AndThenService::poll_ready polls both halves even if the first is        *)
(* Pending, but returns the first's error at once.                          *)
ReadinessFails ==
    /\ turn = Worker /\ worker = "serving" /\ other = "failed"
    /\ IF place = "first" THEN Counter!available(Worker) ELSE UNCHANGED waker
    /\ NewService
    /\ worker' = "restarting" /\ build' = "pending"
    /\ asked' = asked \ {"other"}
    /\ UNCHANGED <<place, MAX_CONN, other, conns, turn, woken, changes>>

Ready == other = "ready" /\ Counter!below

NotReady ==
    /\ turn = Worker /\ worker = "serving" /\ other # "failed"
    /\ ~Ready
    /\ Counter!available(Worker)
    /\ asked' = IF other = "pending" THEN asked \cup {"other"} ELSE asked
    /\ turn' = NoTask
    /\ UNCHANGED <<place, MAX_CONN, capacity, count, service, conns, woken, changes>>

NothingQueued ==
    /\ turn = Worker /\ worker = "serving" /\ Ready
    /\ \A c \in Conns : stage[c] # "queued"
    /\ asked' = asked \cup {"conns"}
    /\ turn' = NoTask
    /\ UNCHANGED <<place, MAX_CONN, counter, service, conns, woken, changes>>

(* AcceptorService::call takes a guard and starts the timer.                *)
AcceptorCall(c) ==
    /\ Counter!get
    /\ stage' = [stage EXCEPT ![c] = "handshake"]
    /\ input' = [input EXCEPT ![c] = "none"]
    /\ expired' = [expired EXCEPT ![c] = FALSE]

OtherCall(c) ==
    /\ stage' = [stage EXCEPT ![c] = "other"]
    /\ input' = [input EXCEPT ![c] = "none"]
    /\ expired' = [expired EXCEPT ![c] = FALSE]

(* StreamService::call: the first half is called here, what it returns is   *)
(* spawned.  A stream that cannot be converted is dropped.                  *)
Call(c) ==
    /\ turn = Worker /\ worker = "serving" /\ Ready
    /\ stage[c] = "queued"
    /\ \/ /\ stage' = [stage EXCEPT ![c] = "dropped"]
          /\ UNCHANGED <<counter, input, expired, woken>>
       \/ /\ IF place = "first" THEN AcceptorCall(c) ELSE OtherCall(c) /\ UNCHANGED counter
          /\ woken' = woken \cup {c}
    /\ UNCHANGED <<place, MAX_CONN, service, turn, asked, changes>>

-----------------------------------------------------------------------------
(* The task of a connection: AndThenServiceResponse::poll.                  *)

AcceptFut_untimed(c) == IF input[c] = "none" THEN "pending" ELSE input[c]

(* AcceptFut::poll: the stream first, and the timer only while it is        *)
(* Pending.                                                                 *)
AcceptFut(c) ==
    CASE input[c] # "none" -> input[c]
      [] input[c] = "none" /\ expired[c] -> "timeout"
      [] OTHER -> "pending"

DropGuard_forgotten == UNCHANGED <<counter, woken>>
(* The future of the handshake is dropped as soon as it has its result.     *)
DropGuard == Counter!drop

(* The connection's task is over: its future goes, with the guard of the    *)
(* connection that the worker counts.                                       *)
End(c, how) ==
    /\ stage' = [stage EXCEPT ![c] = how]
    /\ input' = [input EXCEPT ![c] = "none"]
    /\ expired' = [expired EXCEPT ![c] = FALSE]
    /\ turn' = NoTask

HandshakeOk(c) ==
    /\ turn = c /\ stage[c] = "handshake" /\ AcceptFut(c) = "ok"
    /\ DropGuard
    /\ IF place = "first" THEN OtherCall(c) /\ UNCHANGED turn ELSE End(c, "done")
    /\ UNCHANGED <<place, MAX_CONN, service, asked, changes>>

HandshakeFails(c) ==
    /\ turn = c /\ stage[c] = "handshake" /\ AcceptFut(c) \in {"err", "timeout"}
    /\ DropGuard
    /\ End(c, IF AcceptFut(c) = "err" THEN "tls_error" ELSE "timeout")
    /\ UNCHANGED <<place, MAX_CONN, service, asked, changes>>

(* The second half is called without asking again whether it is ready.      *)
OtherOk(c) ==
    /\ turn = c /\ stage[c] = "other" /\ input[c] = "ok"
    /\ IF place = "first"
       THEN End(c, "done") /\ UNCHANGED counter
       ELSE AcceptorCall(c) /\ UNCHANGED turn
    /\ UNCHANGED <<place, MAX_CONN, service, asked, woken, changes>>

OtherFails(c) ==
    /\ turn = c /\ stage[c] = "other" /\ input[c] = "err"
    /\ End(c, "service_error")
    /\ UNCHANGED <<place, MAX_CONN, counter, service, asked, woken, changes>>

(* The last arm: a task may be woken once more after it has completed.      *)
PollPending(c) ==
    /\ turn = c
    /\ CASE stage[c] = "handshake" -> AcceptFut(c) = "pending"
         [] stage[c] = "other" -> input[c] = "none"
         [] OTHER -> TRUE
    /\ turn' = NoTask
    /\ UNCHANGED <<place, MAX_CONN, counter, service, conns, asked, woken, changes>>

-----------------------------------------------------------------------------
WorkerStep ==
    \/ BuildPending \/ Built \/ BuildFails
    \/ ReadinessFails \/ NotReady \/ NothingQueued
    \/ \E c \in Conns : Call(c)

ConnStep(c) ==
    HandshakeOk(c) \/ HandshakeFails(c) \/ OtherOk(c) \/ OtherFails(c) \/ PollPending(c)

Next ==
    \/ \E num \in Limits : max_concurrent_tls_connect(num)
    \/ BuildEnds \/ OtherReady \/ OtherUnready
    \/ \E c \in Conns : Arrive(c) \/ Handshakes(c) \/ OtherWorks(c) \/ Expire(c)
    \/ \E t \in Tasks : StartPoll(t)
    \/ WorkerStep
    \/ \E c \in Conns : ConnStep(c)

Spec == Init /\ [][Next]_vars

(* The runtime polls every woken task and lets a poll run to its end, and   *)
(* timers fire.  Nothing obliges a client to finish its handshake.          *)
RuntimeFairness ==
    /\ \A t \in Tasks : WF_vars(StartPoll(t))
    /\ WF_vars(WorkerStep)
    /\ \A c \in Conns : WF_vars(ConnStep(c)) /\ WF_vars(Expire(c))

(* The other service is created, gets ready and answers its calls.          *)
OtherFairness ==
    /\ WF_vars(BuildEnds) /\ WF_vars(OtherReady)
    /\ \A c \in Conns : WF_vars(OtherWorks(c))

FairSpec == Spec /\ RuntimeFairness /\ OtherFairness

-----------------------------------------------------------------------------
(* Properties.                                                              *)

(* max_concurrent_tls_connect: "the maximum number of concurrent TLS        *)
(* handshakes per thread", as the thread's first acceptor took it.  It      *)
(* holds through restarts of the pair, whose older calls go on, when the    *)
(* acceptor is the half that is asked right before it is called.            *)
LimitRespected == place = "first" => Cardinality(Handshaking) <= capacity

(* A worker that is not scheduled has no connection it could serve: what    *)
(* it last found lacking has its waker still.                               *)
NoLostWake ==
    worker = "serving" /\ turn # Worker /\ Worker \notin woken =>
        ~(Ready /\ \E c \in Conns : stage[c] = "queued")

(* No handshake outlives its timeout, whatever the client does: its guard   *)
(* comes back to the counter.                                               *)
HandshakesEnd ==
    \A c \in Conns : stage[c] = "handshake" ~> stage[c] # "handshake"

(* A connection sent to the worker is taken out of its channel, however     *)
(* handshakes end and services fail in between.  With a limit of zero       *)
(* nothing is ever taken.                                                   *)
QueueServed ==
    \A c \in Conns : stage[c] = "queued" /\ capacity # 0 ~> stage[c] # "queued"
=============================================================================
