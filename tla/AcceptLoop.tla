---------------------------- MODULE AcceptLoop ----------------------------
(***************************************************************************)
(* The accept thread of actix-server and everything it shares state with:  *)
(* the waker queue, the per-worker connection counters, the worker         *)
(* channels, and the server task that restarts faulted workers.            *)
(*                                                                         *)
(* The processes are the accept thread (variable pc), one thread per       *)
(* worker instance, and the server task.  Worker threads and the server    *)
(* task reach the accept thread only through the waker queue: push an      *)
(* interest under the queue's mutex, then, in a second step, signal the    *)
(* mio waker.  The accept thread reaches a worker through the counter it   *)
(* increments and the channel it sends on, two separate steps as well.     *)
(*                                                                         *)
(* The workers are abstract here: what a ServerWorker does between two     *)
(* changes of its counter, its channel or its life is in no action below.  *)
(***************************************************************************)
EXTENDS Integers, Sequences, FiniteSets

CONSTANTS
    NumWorkers,    \* ServerBuilder::threads
    NumListeners,  \* bound sockets
    Limit,         \* max_concurrent_connections, per worker
    MaxConns,      \* bound: connections that clients ever open
    MaxFaults,     \* bound: times each worker index may die
    MaxErrors,     \* bound: accept() errors that back a listener off
    MaxCmds        \* bound: pause and resume commands

ASSUME ConstantsAssumption ==
    /\ NumWorkers \in Nat \ {0}
    /\ NumListeners \in Nat \ {0}
    /\ Limit \in Nat \ {0}
    /\ MaxConns \in Nat /\ MaxFaults \in Nat /\ MaxErrors \in Nat /\ MaxCmds \in Nat

Idx == 0 .. NumWorkers - 1
Gens == 0 .. MaxFaults

(* A worker instance: its index and how many instances preceded it. *)
Inst == Idx \X Gens

Listeners == 0 .. NumListeners - 1

(* WAKER_TOKEN, a token no listener has. *)
Waker == NumListeners

WorkerAvailable(i) == [type |-> "WorkerAvailable", idx |-> i]
Worker(w) == [type |-> "Worker", handle |-> w]
Pause == [type |-> "Pause"]
Resume == [type |-> "Resume"]
Stop == [type |-> "Stop"]

WakerInterest ==
    {WorkerAvailable(i) : i \in Idx} \cup {Worker(w) : w \in Inst}
        \cup {Pause, Resume, Stop}

VARIABLES
    \* The accept thread (struct Accept, and where poll_with stands)
    pc,             \* "poll", "events", "waker", "accept", "one", "send", "stopped", "panic"
    events,         \* tokens of the current batch of events not yet handled
    scan,           \* listeners still to be given to accept(), the current one first
    ret,            \* where accept() returns to: "events" or (from accept_all) "waker"
    forced,         \* in the inner loop of accept_one: no worker is available
    inc_res,        \* what Counter::inc returned for the send in progress
    handles,        \* the worker handles, a Vec
    next_worker,    \* index into handles, from 0
    next_listener,
    avail,          \* indices whose Availability bit is set
    paused,
    timeout,        \* whether the poll has a timeout
    \* The listeners (ServerSocketInfo, and the operating system's side)
    ltimeout,       \* the back-off deadline: "none", "armed" or "due"
    reg,            \* the listeners registered with the poll
    ready,          \* those with an edge-triggered readiness event pending
    backlog,        \* connections waiting to be accepted
    \* WakerQueue
    queue,
    signalled,      \* the mio waker has been woken since the last poll
    \* Worker instances
    alive,          \* "unborn", "alive", or "dead": the connection receiver is gone
    cnt,            \* raw value of the shared Counter
    chan,           \* connections in the worker's channel
    active,         \* connections with a live WorkerCounterGuard
    wwake,          \* WakerQueue::wake in the worker: "idle", "push", "signal"
    \* The server task
    srv,            \* "run" or "stopping"
    cmds,           \* WorkerFaulted commands in the command channel
    gen,            \* latest generation started for each index
    swake,          \* WakerQueue::wake in the server: "idle" or "signal"
    \* How much of each bound is used
    arrived, errors, ncmds

thread == <<pc, events, scan, ret, forced, inc_res>>
dispatch == <<handles, next_worker, avail>>
listeners == <<ltimeout, reg, ready, backlog>>
wakerq == <<queue, signalled>>
workers == <<alive, cnt, chan, active, wwake>>
server == <<srv, cmds, gen, swake>>
bounds == <<arrived, errors, ncmds>>

vars == <<thread, dispatch, next_listener, paused, timeout, listeners, wakerq,
          workers, server, bounds>>

TypeOK ==
    /\ pc \in {"poll", "events", "waker", "accept", "one", "send", "stopped", "panic"}
    /\ events \subseteq Listeners \cup {Waker}
    /\ scan \in Seq(Listeners)
    /\ ret \in {"events", "waker"}
    /\ forced \in BOOLEAN
    /\ inc_res \in BOOLEAN
    /\ handles \in Seq(Inst)
    /\ next_worker \in Nat
    /\ next_listener \in Listeners
    /\ avail \subseteq Idx
    /\ paused \in BOOLEAN
    /\ timeout \in BOOLEAN
    /\ ltimeout \in [Listeners -> {"none", "armed", "due"}]
    /\ reg \subseteq Listeners
    /\ ready \subseteq Listeners
    /\ backlog \in [Listeners -> Nat]
    /\ queue \in Seq(WakerInterest)
    /\ signalled \in BOOLEAN
    /\ alive \in [Inst -> {"unborn", "alive", "dead"}]
    /\ cnt \in [Inst -> Int]
    /\ chan \in [Inst -> Nat]
    /\ active \in [Inst -> Nat]
    /\ wwake \in [Inst -> {"idle", "push", "signal"}]
    /\ srv \in {"run", "stopping"}
    /\ cmds \in Seq(Idx)
    /\ gen \in [Idx -> Gens]
    /\ swake \in {"idle", "signal"}
    /\ arrived \in 0 .. MaxConns
    /\ errors \in 0 .. MaxErrors
    /\ ncmds \in 0 .. MaxCmds

(* Accept::new_with_sockets: every worker has started and is assumed        *)
(* available, every listener is registered.                                 *)
Init ==
    /\ pc = "poll"
    /\ events = {}
    /\ scan = <<>>
    /\ ret = "events"
    /\ forced = FALSE
    /\ inc_res = TRUE
    /\ handles = [k \in 1 .. NumWorkers |-> <<k - 1, 0>>]
    /\ next_worker = 0
    /\ next_listener = 0
    /\ avail = Idx
    /\ paused = FALSE
    /\ timeout = FALSE
    /\ ltimeout = [l \in Listeners |-> "none"]
    /\ reg = Listeners
    /\ ready = {}
    /\ backlog = [l \in Listeners |-> 0]
    /\ queue = <<>>
    /\ signalled = FALSE
    /\ alive = [w \in Inst |-> IF w[2] = 0 THEN "alive" ELSE "unborn"]
    /\ cnt = [w \in Inst |-> 1]
    /\ chan = [w \in Inst |-> 0]
    /\ active = [w \in Inst |-> 0]
    /\ wwake = [w \in Inst |-> "idle"]
    /\ srv = "run"
    /\ cmds = <<>>
    /\ gen = [i \in Idx |-> 0]
    /\ swake = "idle"
    /\ arrived = 0
    /\ errors = 0
    /\ ncmds = 0

-----------------------------------------------------------------------------
(* Counter: what inc and dec return, given the raw value they found.        *)

inc_off_by_one(prev) == prev # Limit + 1
inc(prev) == prev # Limit

dec_off_by_one(prev) == prev = Limit
dec(prev) == prev = Limit + 1

-----------------------------------------------------------------------------
(* The poll loop: poll_with and process_timeout.                            *)

(* poll() returns the pending events, or none: at its timeout, or because   *)
(* it was interrupted.  Edge-triggered readiness is consumed.               *)
PollReturn ==
    /\ pc = "poll"
    /\ pc' = "events"
    /\ events' = ready \cup (IF signalled THEN {Waker} ELSE {})
    /\ ready' = {}
    /\ signalled' = FALSE
    /\ UNCHANGED <<scan, ret, forced, inc_res, dispatch, next_listener, paused, timeout,
                   ltimeout, reg, backlog, queue, workers, server, bounds>>

HandleWakerEvent ==
    /\ pc = "events"
    /\ Waker \in events
    /\ events' = events \ {Waker}
    /\ pc' = "waker"
    /\ UNCHANGED <<scan, ret, forced, inc_res, dispatch, next_listener, paused, timeout,
                   listeners, wakerq, workers, server, bounds>>

(* A listener event calls accept() whatever paused is. *)
HandleListenerEvent(l) ==
    /\ pc = "events"
    /\ l \in events
    /\ events' = events \ {l}
    /\ pc' = "accept"
    /\ scan' = <<l>>
    /\ ret' = "events"
    /\ UNCHANGED <<forced, inc_res, dispatch, next_listener, paused, timeout,
                   listeners, wakerq, workers, server, bounds>>

(* register(): registering a registered source is an error that is logged.  *)
(* A new registration reports a listener that has a connection waiting.     *)
RegisterAll(S) ==
    /\ reg' = reg \cup S
    /\ ready' = ready \cup {l \in S \ reg : backlog[l] > 0}

DeregisterAll(S) ==
    /\ reg' = reg \ S
    /\ ready' = ready \ S

process_timeout_unregistered ==
    /\ ltimeout' = [l \in Listeners |-> IF ltimeout[l] = "due" THEN "none" ELSE ltimeout[l]]
    /\ timeout' = \E l \in Listeners : ltimeout[l] = "armed"
    /\ UNCHANGED <<reg, ready>>

(* process_timeout: a deadline still ahead keeps its listener waiting and   *)
(* the poll timed; one that has passed is dropped, and the listener is      *)
(* registered again unless the server is paused.                            *)
process_timeout ==
    /\ ltimeout' = [l \in Listeners |-> IF ltimeout[l] = "due" THEN "none" ELSE ltimeout[l]]
    /\ timeout' = \E l \in Listeners : ltimeout[l] = "armed"
    /\ RegisterAll({l \in Listeners : ltimeout[l] = "due" /\ ~paused})

EventsDone ==
    /\ pc = "events"
    /\ events = {}
    /\ pc' = "poll"
    /\ IF timeout THEN process_timeout ELSE UNCHANGED <<ltimeout, timeout, reg, ready>>
    /\ UNCHANGED <<events, scan, ret, forced, inc_res, dispatch, next_listener, paused,
                   backlog, wakerq, workers, server, bounds>>

-----------------------------------------------------------------------------
(* handle_waker: one interest is popped per iteration.                      *)

Popped(type) ==
    /\ pc = "waker"
    /\ queue # <<>>
    /\ Head(queue).type = type
    /\ queue' = Tail(queue)

(* accept_all: every listener once, starting at next_listener. *)
accept_all ==
    /\ pc' = "accept"
    /\ ret' = "waker"
    /\ scan' = [k \in 1 .. NumListeners |-> (next_listener + k - 1) % NumListeners]

AcceptAllNever == UNCHANGED <<pc, ret, scan>>

AcceptAllUnlessPaused ==
    IF paused THEN UNCHANGED <<pc, ret, scan>> ELSE accept_all

HandleWorkerAvailable ==
    /\ Popped("WorkerAvailable")
    /\ avail' = avail \cup {Head(queue).idx}
    /\ AcceptAllUnlessPaused
    /\ UNCHANGED <<events, forced, inc_res, handles, next_worker, next_listener, paused,
                   timeout, listeners, signalled, workers, server, bounds>>

HandleWorker ==
    /\ Popped("Worker")
    /\ avail' = avail \cup {Head(queue).handle[1]}
    /\ handles' = Append(handles, Head(queue).handle)
    /\ AcceptAllUnlessPaused
    /\ UNCHANGED <<events, forced, inc_res, next_worker, next_listener, paused,
                   timeout, listeners, signalled, workers, server, bounds>>

(* deregister_all: every deadline is taken; a listener that had one is      *)
(* skipped.                                                                 *)
deregister_all ==
    /\ ltimeout' = [l \in Listeners |-> "none"]
    /\ DeregisterAll({l \in Listeners : ltimeout[l] = "none"})

HandlePause ==
    /\ Popped("Pause")
    /\ paused' = TRUE
    /\ IF paused THEN UNCHANGED <<ltimeout, reg, ready>> ELSE deregister_all
    /\ UNCHANGED <<thread, dispatch, next_listener, timeout, backlog, signalled,
                   workers, server, bounds>>

HandleResume ==
    /\ Popped("Resume")
    /\ paused' = FALSE
    /\ RegisterAll(IF paused THEN Listeners ELSE {})
    /\ IF paused THEN accept_all ELSE UNCHANGED <<pc, ret, scan>>
    /\ UNCHANGED <<events, forced, inc_res, dispatch, next_listener, timeout, ltimeout,
                   backlog, signalled, workers, server, bounds>>

HandleStop_ignored ==
    /\ Popped("Stop")
    /\ UNCHANGED <<thread, dispatch, next_listener, paused, timeout, listeners, signalled,
                   workers, server, bounds>>

HandleStop ==
    /\ Popped("Stop")
    /\ pc' = "stopped"
    /\ IF paused THEN UNCHANGED <<ltimeout, reg, ready>> ELSE deregister_all
    /\ UNCHANGED <<events, scan, ret, forced, inc_res, dispatch, next_listener, paused,
                   timeout, backlog, signalled, workers, server, bounds>>

(* The queue is drained: back to the batch of events. *)
WakerDrained ==
    /\ pc = "waker"
    /\ queue = <<>>
    /\ pc' = "events"
    /\ UNCHANGED <<events, scan, ret, forced, inc_res, dispatch, next_listener, paused,
                   timeout, listeners, wakerq, workers, server, bounds>>

-----------------------------------------------------------------------------
(* accept(): connections of the listener at the head of scan.               *)

(* accept() returns: on to the next listener of the scan, or back to the    *)
(* caller; accept_all moves next_listener when its scan ends.               *)
AcceptReturn ==
    /\ scan' = Tail(scan)
    /\ pc' = IF Tail(scan) = <<>> THEN ret ELSE "accept"
    /\ next_listener' = IF Tail(scan) = <<>> /\ ret = "waker"
                        THEN (next_listener + 1) % NumListeners
                        ELSE next_listener

(* No worker is available, or accept() would block. *)
AcceptNothing ==
    /\ pc = "accept"
    /\ avail = {} \/ backlog[Head(scan)] = 0
    /\ AcceptReturn
    /\ UNCHANGED <<events, ret, forced, inc_res, dispatch, paused, timeout, listeners,
                   wakerq, workers, server, bounds>>

AcceptOk ==
    /\ pc = "accept"
    /\ avail # {}
    /\ backlog[Head(scan)] > 0
    /\ backlog' = [backlog EXCEPT ![Head(scan)] = @ - 1]
    /\ pc' = "one"
    /\ UNCHANGED <<events, scan, ret, forced, inc_res, dispatch, next_listener, paused,
                   timeout, ltimeout, reg, ready, wakerq, workers, server, bounds>>

(* An error of one connection (refused, aborted, reset): try the next. *)
AcceptConnectionError ==
    /\ pc = "accept"
    /\ avail # {}
    /\ backlog[Head(scan)] > 0
    /\ backlog' = [backlog EXCEPT ![Head(scan)] = @ - 1]
    /\ UNCHANGED <<thread, dispatch, next_listener, paused, timeout, ltimeout, reg, ready,
                   wakerq, workers, server, bounds>>

(* set_timeout: the poll is timed from now on. *)
set_timeout_ignored == UNCHANGED timeout
set_timeout == timeout' = TRUE

(* Any other error, with or without a connection waiting (EMFILE, ENFILE):  *)
(* the listener is deregistered until its deadline.                         *)
AcceptError ==
    /\ pc = "accept"
    /\ avail # {}
    /\ errors < MaxErrors
    /\ errors' = errors + 1
    /\ DeregisterAll({Head(scan)})
    /\ ltimeout' = [ltimeout EXCEPT ![Head(scan)] = "armed"]
    /\ set_timeout
    /\ AcceptReturn
    /\ UNCHANGED <<events, ret, forced, inc_res, dispatch, paused, backlog, wakerq,
                   workers, server, arrived, ncmds>>

-----------------------------------------------------------------------------
(* accept_one() and send_connection(): one connection finds its worker.     *)

Next_ == handles[next_worker + 1]

set_next == next_worker' = (next_worker + 1) % Len(handles)

(* `&self.handles[self.next_worker]` is out of bounds. *)
NoHandlePanic ==
    /\ pc = "one"
    /\ next_worker >= Len(handles)
    /\ pc' = "panic"
    /\ UNCHANGED <<events, scan, ret, forced, inc_res, dispatch, next_listener, paused,
                   timeout, listeners, wakerq, workers, server, bounds>>

(* The next worker's bit is clear: go to the one after it; when no bit at   *)
(* all is set, the connection is forced on the next worker in turn.         *)
SkipWorker ==
    /\ pc = "one"
    /\ next_worker < Len(handles)
    /\ ~forced
    /\ Next_[1] \notin avail
    /\ set_next
    /\ forced' = (avail = {})
    /\ UNCHANGED <<pc, events, scan, ret, inc_res, handles, avail, next_listener, paused,
                   timeout, listeners, wakerq, workers, server, bounds>>

(* WorkerHandleAccept::send, first half: the connection is counted. *)
SendCount ==
    /\ pc = "one"
    /\ next_worker < Len(handles)
    /\ forced \/ Next_[1] \in avail
    /\ inc_res' = inc(cnt[Next_])
    /\ cnt' = [cnt EXCEPT ![Next_] = @ + 1]
    /\ pc' = "send"
    /\ UNCHANGED <<events, scan, ret, forced, dispatch, next_listener, paused, timeout,
                   listeners, wakerq, alive, chan, active, wwake, server, bounds>>

(* Second half: the channel takes the connection. *)
SendOk ==
    /\ pc = "send"
    /\ alive[Next_] = "alive"
    /\ chan' = [chan EXCEPT ![Next_] = @ + 1]
    /\ avail' = IF inc_res THEN avail ELSE avail \ {Next_[1]}
    /\ set_next
    /\ forced' = FALSE
    /\ pc' = "accept"
    /\ UNCHANGED <<events, scan, ret, inc_res, handles, next_listener, paused, timeout,
                   listeners, wakerq, alive, cnt, active, wwake, server, bounds>>

SwapRemove_keeps(s, k) == s

(* Vec::swap_remove. *)
SwapRemove(s, k) ==
    [j \in 1 .. Len(s) - 1 |-> IF j = k THEN s[Len(s)] ELSE s[j]]

(* Where next_worker points once `left` handles remain. *)
NextAfterRemove(left) == IF left # 0 /\ left <= next_worker THEN 0 ELSE next_worker

(* The count is undone. *)
SendUndone_never == UNCHANGED cnt
SendUndone == cnt' = [cnt EXCEPT ![Next_] = @ - 1]

(* Second half: the receiver is gone.  The count is undone, its result      *)
(* ignored; remove_next takes the handle out and reports the fault.  With   *)
(* no handle left the connection is dropped, otherwise another is tried.    *)
SendErr ==
    /\ pc = "send"
    /\ alive[Next_] = "dead"
    /\ SendUndone
    /\ handles' = SwapRemove(handles, next_worker + 1)
    /\ cmds' = Append(cmds, Next_[1])
    /\ avail' = avail \ {Next_[1]}
    /\ next_worker' = NextAfterRemove(Len(handles) - 1)
    /\ pc' = IF Len(handles) = 1 THEN "accept" ELSE "one"
    /\ forced' = (forced /\ Len(handles) # 1)
    /\ UNCHANGED <<events, scan, ret, inc_res, next_listener, paused, timeout, listeners,
                   wakerq, alive, chan, active, wwake, srv, gen, swake, bounds>>

-----------------------------------------------------------------------------
(* Worker threads.  A thread that is inside WakerQueue::wake does nothing   *)
(* else.                                                                    *)

(* The server tells the workers to stop once it has woken the accept thread. *)
ToldToStop == srv = "stopping" /\ swake = "idle"

DropGuard_leaks(w) == UNCHANGED <<cnt, wwake>>

(* Dropping a WorkerCounterGuard: the count goes down, and the drop that    *)
(* takes it below the limit notifies the accept thread.                     *)
DropGuard(w) ==
    /\ cnt' = [cnt EXCEPT ![w] = @ - 1]
    /\ wwake' = [wwake EXCEPT ![w] = IF dec(cnt[w]) THEN "push" ELSE "idle"]

(* The worker takes a connection and starts a task that owns its guard. *)
Recv(w) ==
    /\ alive[w] = "alive"
    /\ wwake[w] = "idle"
    /\ chan[w] > 0
    /\ chan' = [chan EXCEPT ![w] = @ - 1]
    /\ active' = [active EXCEPT ![w] = @ + 1]
    /\ UNCHANGED <<thread, dispatch, next_listener, paused, timeout, listeners, wakerq,
                   alive, cnt, wwake, server, bounds>>

(* A connection's task ends.  The tasks of a dead worker end too: the       *)
(* runtime drops them.                                                      *)
Finish(w) ==
    /\ wwake[w] = "idle"
    /\ active[w] > 0
    /\ active' = [active EXCEPT ![w] = @ - 1]
    /\ DropGuard(w)
    /\ UNCHANGED <<thread, dispatch, next_listener, paused, timeout, listeners, wakerq,
                   alive, chan, server, bounds>>

(* A worker that is shutting down gracefully drops queued connections, each *)
(* with a guard.                                                            *)
Discard(w) ==
    /\ ToldToStop
    /\ alive[w] = "alive"
    /\ wwake[w] = "idle"
    /\ chan[w] > 0
    /\ chan' = [chan EXCEPT ![w] = @ - 1]
    /\ DropGuard(w)
    /\ UNCHANGED <<thread, dispatch, next_listener, paused, timeout, listeners, wakerq,
                   alive, active, server, bounds>>

(* The ServerWorker is dropped, its receiver first: the connections still   *)
(* in the channel go without a guard, so the counter keeps them.  A worker  *)
(* dies of a panic, or ends once the server has told it to stop.            *)
WorkerGone(w) ==
    /\ alive[w] = "alive"
    /\ wwake[w] = "idle"
    /\ ToldToStop \/ w[2] < MaxFaults
    /\ alive' = [alive EXCEPT ![w] = "dead"]
    /\ chan' = [chan EXCEPT ![w] = 0]
    /\ UNCHANGED <<thread, dispatch, next_listener, paused, timeout, listeners, wakerq,
                   cnt, active, wwake, server, bounds>>

(* What WakerQueue::wake does after the push. *)
AfterPush_returns == "idle"
AfterPush == "signal"

(* WakerQueue::wake(WorkerAvailable(idx)): push under the mutex, ... *)
WorkerPush(w) ==
    /\ wwake[w] = "push"
    /\ queue' = Append(queue, WorkerAvailable(w[1]))
    /\ wwake' = [wwake EXCEPT ![w] = AfterPush]
    /\ UNCHANGED <<thread, dispatch, next_listener, paused, timeout, listeners, signalled,
                   alive, cnt, chan, active, server, bounds>>

(* ... then wake the poll. *)
WorkerSignal(w) ==
    /\ wwake[w] = "signal"
    /\ signalled' = TRUE
    /\ wwake' = [wwake EXCEPT ![w] = "idle"]
    /\ UNCHANGED <<thread, dispatch, next_listener, paused, timeout, listeners, queue,
                   alive, cnt, chan, active, server, bounds>>

-----------------------------------------------------------------------------
(* The server task (ServerInner::handle_cmd), one command at a time.        *)

ServerReady == srv = "run" /\ swake = "idle"

(* WakerQueue::wake: push here, signal in ServerSignal. *)
ServerPush(interest) ==
    /\ queue' = Append(queue, interest)
    /\ swake' = "signal"

ServerPauseOrResume(interest) ==
    /\ ServerReady
    /\ ncmds < MaxCmds
    /\ ncmds' = ncmds + 1
    /\ ServerPush(interest)
    /\ UNCHANGED <<thread, dispatch, next_listener, paused, timeout, listeners, signalled,
                   workers, srv, cmds, gen, arrived, errors>>

(* The Stop interest is queued before any worker is told to stop. *)
ServerStop ==
    /\ ServerReady
    /\ srv' = "stopping"
    /\ ServerPush(Stop)
    /\ UNCHANGED <<thread, dispatch, next_listener, paused, timeout, listeners, signalled,
                   workers, cmds, gen, bounds>>

(* WorkerFaulted: a replacement with the same index starts, ... *)
ServerRestartWorker ==
    /\ ServerReady
    /\ cmds # <<>>
    /\ gen[Head(cmds)] < MaxFaults
    /\ LET w == <<Head(cmds), gen[Head(cmds)] + 1>>
       IN  /\ alive' = [alive EXCEPT ![w] = "alive"]
           /\ gen' = [gen EXCEPT ![w[1]] = w[2]]
           /\ ServerPush(Worker(w))
    /\ cmds' = Tail(cmds)
    /\ UNCHANGED <<thread, dispatch, next_listener, paused, timeout, listeners, signalled,
                   cnt, chan, active, wwake, srv, bounds>>

(* ... or cannot be started, and the index stays without a worker. *)
ServerRestartFails ==
    /\ ServerReady
    /\ cmds # <<>>
    /\ cmds' = Tail(cmds)
    /\ UNCHANGED <<thread, dispatch, next_listener, paused, timeout, listeners, wakerq,
                   workers, srv, gen, swake, bounds>>

ServerSignal ==
    /\ swake = "signal"
    /\ signalled' = TRUE
    /\ swake' = "idle"
    /\ UNCHANGED <<thread, dispatch, next_listener, paused, timeout, listeners, queue,
                   workers, srv, cmds, gen, bounds>>

-----------------------------------------------------------------------------
(* The environment.                                                         *)

(* A client connects; a registered listener reports the new edge. *)
Arrive(l) ==
    /\ arrived < MaxConns
    /\ arrived' = arrived + 1
    /\ backlog' = [backlog EXCEPT ![l] = @ + 1]
    /\ ready' = ready \cup (reg \cap {l})
    /\ UNCHANGED <<thread, dispatch, next_listener, paused, timeout, ltimeout, reg, wakerq,
                   workers, server, errors, ncmds>>

(* A listener's deadline passes. *)
Tick(l) ==
    /\ ltimeout[l] = "armed"
    /\ ltimeout' = [ltimeout EXCEPT ![l] = "due"]
    /\ UNCHANGED <<thread, dispatch, next_listener, paused, timeout, reg, ready, backlog,
                   wakerq, workers, server, bounds>>

-----------------------------------------------------------------------------
(* The accept thread up to accept_one, and accept_one itself. *)
LoopStep ==
    \/ PollReturn \/ HandleWakerEvent \/ EventsDone
    \/ \E l \in Listeners : HandleListenerEvent(l)
    \/ HandleWorkerAvailable \/ HandleWorker \/ HandlePause \/ HandleResume \/ HandleStop
    \/ WakerDrained
    \/ AcceptNothing \/ AcceptOk \/ AcceptConnectionError \/ AcceptError

DispatchStep ==
    NoHandlePanic \/ SkipWorker \/ SendCount \/ SendOk \/ SendErr

AcceptThread == LoopStep \/ DispatchStep

WorkerThread(w) ==
    \/ Recv(w) \/ Finish(w) \/ Discard(w) \/ WorkerGone(w)
    \/ WorkerPush(w) \/ WorkerSignal(w)

ServerTask ==
    \/ \E interest \in {Pause, Resume} : ServerPauseOrResume(interest)
    \/ ServerStop \/ ServerRestartWorker \/ ServerRestartFails \/ ServerSignal

Environment == \E l \in Listeners : Arrive(l) \/ Tick(l)

Next ==
    \/ AcceptThread
    \/ \E w \in Inst : WorkerThread(w)
    \/ ServerTask
    \/ Environment

Spec == Init /\ [][Next]_vars

(* The accept thread runs, and the calls it makes return; workers take what *)
(* is in their channels, complete a wake() they began, and every connection *)
(* ends; the server task signals after it pushes and handles a fault; time  *)
(* passes.  Nothing obliges a client to connect, a worker to die or a user  *)
(* to pause, resume or stop.                                                *)
Fairness ==
    /\ WF_vars(AcceptThread)
    /\ \A w \in Inst :
        /\ WF_vars(Recv(w))
        /\ WF_vars(Finish(w))
        /\ WF_vars(WorkerPush(w) \/ WorkerSignal(w))
    /\ WF_vars(ServerSignal)
    /\ WF_vars(ServerRestartWorker \/ ServerRestartFails)
    /\ \A l \in Listeners : WF_vars(Tick(l))

FairSpec == Spec /\ Fairness

(* What a stop needs of this: two threads that run.  Connections may last,  *)
(* deadlines may not pass, and a worker may halt in the middle of a wake(). *)
StopSpec == Spec /\ WF_vars(AcceptThread) /\ WF_vars(ServerSignal)

-----------------------------------------------------------------------------
(* Properties.                                                              *)

InFlight(w) == IF pc = "send" /\ Next_ = w THEN 1 ELSE 0

NobodyDied == \A w \in Inst : alive[w] # "dead"

InHandles(w) == \E k \in 1 .. Len(handles) : handles[k] = w

(* The counter of a live worker is exactly one more than the connections it *)
(* owns: in its channel, in tasks, or counted by the accept thread and not  *)
(* yet sent.  A counter never runs below that, whoever dies and when.  So a *)
(* worker that reads a total of zero and shuts down as idle has nothing in  *)
(* its channel and nothing on its way (ServerWorker::poll, Counter::total). *)
CountCoversWork ==
    \A w \in Inst :
        LET work == 1 + chan[w] + active[w] + InFlight(w)
        IN  IF alive[w] = "dead" THEN cnt[w] >= work ELSE cnt[w] = work

(* While no worker has died, no worker holds more connections than          *)
(* max_concurrent_connections, although the accept thread decides on cached *)
(* availability bits and the workers count down concurrently.               *)
ConnLimit ==
    NobodyDied => \A w \in Inst : cnt[w] - 1 <= Limit

(* An interest in the queue is never stranded: the waker is signalled, or   *)
(* the pusher is about to signal it, or the accept thread is draining the   *)
(* queue, or the accept thread has ended.                                   *)
NoLostWakeup ==
    queue # <<>> =>
        \/ signalled
        \/ Waker \in events
        \/ pc = "waker" \/ (pc \in {"accept", "one", "send"} /\ ret = "waker")
        \/ pc \in {"stopped", "panic"}
        \/ swake = "signal" \/ \E w \in Inst : wwake[w] = "signal"

Notified(w) ==
    \/ wwake[w] = "push"
    \/ \E k \in 1 .. Len(queue) : queue[k] = WorkerAvailable(w[1])

(* A worker that has capacity and whose bit is clear has a notification on  *)
(* its way to the accept thread, even when workers die and are replaced:    *)
(* without one the accept thread would never use that worker again.         *)
NoLostAvailability ==
    \A w \in Inst :
        InHandles(w) /\ w[1] \notin avail /\ cnt[w] - 1 < Limit => Notified(w)

(* When the accept thread goes back to the poll and the server is not       *)
(* paused, every listener is registered or waits for a deadline, and a      *)
(* deadline never waits on an untimed poll: no listener is forgotten.       *)
ListenerWatched ==
    pc = "poll" =>
        \A l \in Listeners :
            /\ ~paused => l \in reg \/ ltimeout[l] # "none"
            /\ ltimeout[l] # "none" => timeout

(* Readiness is edge-triggered: a scan that stops for lack of capacity has  *)
(* consumed the edge.  Yet whenever the accept thread polls unpaused with a *)
(* worker available, a registered listener with a connection waiting has an *)
(* event pending.                                                           *)
NoLostEdge ==
    pc = "poll" /\ ~paused /\ avail # {} =>
        \A l \in reg : backlog[l] > 0 => l \in ready

IsReplacement(k, i) ==
    k \in 1 .. Len(queue) /\ queue[k].type = "Worker" /\ queue[k].handle[1] = i

(* One worker per index: at any time an index has one handle, or one        *)
(* replacement on its way in the queue, or one fault report to the server,  *)
(* never two of these.  Availability is indexed by worker and would confuse *)
(* two handles with one index.                                              *)
OneHolderPerIdx ==
    \A i \in Idx :
        LET H == {k \in 1 .. Len(handles) : handles[k][1] = i}
            Q == {k \in 1 .. Len(queue) : IsReplacement(k, i)}
            F == {k \in 1 .. Len(cmds) : cmds[k] = i}
        IN  /\ \A S \in {H, Q, F} : \A j, k \in S : j = k
            /\ H = {} \/ Q = {}
            /\ H = {} \/ F = {}
            /\ Q = {} \/ F = {}

(* next_worker stays a valid index into handles through swap_remove, resets *)
(* and pushes, as long as there is a handle.                                *)
NextInRange ==
    IF handles = <<>> THEN next_worker = 0 ELSE next_worker < Len(handles)

(* While no worker has died a set bit always belongs to a handle, so        *)
(* accept_one finds a worker within one round and never forces a            *)
(* connection on a full one.                                                *)
BitsHaveHandles ==
    NobodyDied => ~forced /\ \A i \in avail : \E k \in 1 .. Len(handles) : handles[k][1] = i

(* As long as no worker has died: every connection waiting on a listener is *)
(* accepted, unless the server is paused or stopping.                       *)
BacklogDrains ==
    \A l \in Listeners :
        backlog[l] > 0 ~>
            (backlog[l] = 0 \/ paused \/ srv = "stopping" \/ ~NobodyDied)

(* The bits of all handles are clear and another is set, of an index whose  *)
(* handle was removed: accept_one goes round among the handles, and nobody  *)
(* else changes a bit.                                                      *)
Circling ==
    /\ pc = "one" /\ ~forced
    /\ handles # <<>> /\ avail # {}
    /\ \A k \in 1 .. Len(handles) : handles[k][1] \notin avail

(* A stop command ends the accept thread, which the server joins, from      *)
(* wherever the thread is: from back-off, a pause, or a scan without        *)
(* capacity.  Two things come in between, and only if a worker died before  *)
(* the command was handled: the thread panics or it circles.                *)
StopCompletes ==
    srv = "stopping" ~>
        (pc = "stopped" \/ (~NobodyDied /\ (pc = "panic" \/ Circling)))

Accounting(w) ==
    INSTANCE ConnAccounting WITH
        cnt <- cnt[w], chan <- chan[w], active <- active[w],
        inflight <- pc = "send" /\ Next_ = w,
        up <- alive[w] # "dead"

(* The accept thread keeps its side of the counting with every worker       *)
(* instance: counted before sent, counted back when the receiver is gone.   *)
(* This is \A w \in Inst : Accounting(w)!Spec, the quantifier moved inside. *)
CountsConnections ==
    /\ \A w \in Inst : Accounting(w)!Init
    /\ [][\A w \in Inst : [Accounting(w)!Next]_(Accounting(w)!vars)]_vars

-----------------------------------------------------------------------------
(* What the repository says of the accept thread and the code does not do.  *)

(* server.rs joins the thread with "Accept thread must not panic in any     *)
(* case".  It does when a WorkerAvailable notification is handled after the *)
(* last handle was removed: accept_one indexes an empty vector.             *)
AcceptMustNotPanic == pc # "panic"

(* handle.rs, ServerHandle::pause: "Pause accepting incoming connections."  *)
(* An accept error in the batch of events that held the pause gives a       *)
(* deregistered listener a deadline; a resume registers it, and the next    *)
(* pause skips it because of the deadline.                                  *)
PausedIsDeaf ==
    pc = "poll" /\ paused => reg = {}
=============================================================================
