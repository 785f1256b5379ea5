------------------------------ MODULE Server ------------------------------
(***************************************************************************)
(* The life of an actix-server Server: starting its workers, the command   *)
(* loop (ServerInner::run), restarting a faulted worker, graceful and      *)
(* forced shutdown, and dropping the future at any of its awaits.          *)
(*                                                                         *)
(* The accept thread and the workers are reduced to what the server sees   *)
(* of them: a thread that can be joined, and, for a worker, the startup    *)
(* report it owes, the stop messages it has been sent and whether the stop *)
(* in progress has been answered.  AcceptLoop and ServerWorker are the     *)
(* detailed models of the two.                                             *)
(***************************************************************************)
EXTENDS Integers, Sequences, FiniteSets

CONSTANTS
    NumWorkers,   \* ServerBuilder::threads
    SystemStop,   \* ServerBuilder::system_exit was called
    MaxCalls,     \* bound: calls of ServerHandle's pause, resume and stop
    MaxFaults     \* bound: serving workers that die

ASSUME ConstantsAssumption ==
    /\ NumWorkers \in Nat \ {0}
    /\ SystemStop \in BOOLEAN
    /\ MaxCalls \in Nat /\ MaxFaults \in Nat

Idx == 0 .. NumWorkers - 1
Calls == 1 .. MaxCalls
NoCall == 0

VARIABLES
    \* The server future
    spc,        \* "new", "startup", "register", "idle", "restart", "join_workers",
                \* "join_accept", "sleep", "return", "drop_join" and how it may end: "done", "failed",
                \* "abandoned" (its workers not told), "dropped", "panic"
    stopping,
    awaiting,   \* startup reports still expected
    cur,        \* the worker being restarted, or the call being answered
    graceful,   \* of the stop in progress
    sys,        \* System::stop will be called, was called: "no", "due", "called"
    \* Channels and threads
    cmds,       \* the command channel
    call,       \* what became of each call: "unused", "waiting", "done", "dropped"
    signal,     \* a cancellation or an OS signal: "none", a SignalKind, or "taken"
    notified,   \* GracefulShutdownSignal
    accept,     \* the accept thread: "absent", "running", "circling", "stopped", "panic"
    known,      \* the workers the accept thread has a handle of
    nstop,      \* Stop interests pushed to the waker queue
    reports,    \* the startup channel
    \* Workers, by index
    worker,     \* "none", "creating", "serving", "draining" or "gone"
    holds,      \* those that hold a sender of the startup channel
    stops,      \* stop messages: the values of `graceful`
    asked,      \* workers the server waits for
    faults      \* workers that died

loop == <<spc, stopping, awaiting, cur, graceful, sys>>
threads == <<accept, known, nstop>>
workers == <<worker, holds, stops, asked>>
vars == <<loop, cmds, call, signal, notified, threads, reports, workers, faults>>

Ended == {"done", "failed", "abandoned", "dropped", "panic"}

Pause(c) == [type |-> "Pause", call |-> c]
Resume(c) == [type |-> "Resume", call |-> c]
Stop(g, c, s) == [type |-> "Stop", graceful |-> g, call |-> c, system |-> s]
WorkerFaulted(i) == [type |-> "WorkerFaulted", idx |-> i]

SignalKind == {"Cancel", "OsInt", "OsTerm", "OsQuit"}

ServerCommand ==
    [type : {"Pause", "Resume"}, call : Calls]
        \cup [type : {"Stop"}, graceful : BOOLEAN, call : Calls, system : {FALSE}]
        \cup [type : {"WorkerFaulted"}, idx : Idx]

TypeOK ==
    /\ spc \in {"new", "startup", "register", "idle", "restart", "join_workers",
                "join_accept", "sleep", "return", "drop_join"} \cup Ended
    /\ stopping \in BOOLEAN
    /\ awaiting \in 0 .. NumWorkers
    /\ cur \in Nat
    /\ graceful \in BOOLEAN
    /\ sys \in {"no", "due", "called"}
    /\ cmds \in Seq(ServerCommand)
    /\ call \in [Calls -> {"unused", "waiting", "done", "dropped"}]
    /\ signal \in SignalKind \cup {"none", "taken"}
    /\ notified \in BOOLEAN
    /\ accept \in {"absent", "running", "circling", "stopped", "panic"}
    /\ known \subseteq Idx
    /\ nstop \in Nat
    /\ reports \in Seq(Idx \X BOOLEAN)
    /\ worker \in [Idx -> {"none", "creating", "serving", "draining", "gone"}]
    /\ holds \subseteq Idx
    /\ stops \in [Idx -> Seq(BOOLEAN)]
    /\ asked \subseteq Idx
    /\ faults \in 0 .. MaxFaults

Init ==
    /\ spc = "new"
    /\ stopping = FALSE
    /\ awaiting = NumWorkers
    /\ cur = 0
    /\ graceful = FALSE
    /\ sys = "no"
    /\ cmds = <<>>
    /\ call = [c \in Calls |-> "unused"]
    /\ signal = "none"
    /\ notified = FALSE
    /\ accept = "absent"
    /\ known = {}
    /\ nstop = 0
    /\ reports = <<>>
    /\ worker = [i \in Idx |-> "none"]
    /\ holds = {}
    /\ stops = [i \in Idx |-> <<>>]
    /\ asked = {}
    /\ faults = 0

CloseCommands_leaks == UNCHANGED <<cmds, call>>

(* The command channel goes with the future, and so does the completion it  *)
(* has in hand: calls still waiting resolve.                                *)
CloseCommands ==
    /\ cmds' = <<>>
    /\ call' = [c \in Calls |-> IF call[c] = "waiting" THEN "dropped" ELSE call[c]]

(* WorkerHandleServer::stop, on the workers S. *)
SendStops(S, g) ==
    stops' = [i \in Idx |->
                IF i \in S /\ worker[i] # "gone" THEN Append(stops[i], g) ELSE stops[i]]

-----------------------------------------------------------------------------
(* Accept::start.                                                           *)

(* Every worker is spawned before any is waited for. *)
Start ==
    /\ spc = "new"
    /\ spc' = "startup"
    /\ worker' = [i \in Idx |-> "creating"]
    /\ holds' = Idx
    /\ UNCHANGED <<stopping, awaiting, cur, graceful, sys, cmds, call, signal, notified,
                   threads, reports, stops, asked, faults>>

StartupOk ==
    /\ spc = "startup"
    /\ reports # <<>>
    /\ Head(reports)[2]
    /\ reports' = Tail(reports)
    /\ awaiting' = awaiting - 1
    /\ spc' = IF awaiting = 1 THEN "register" ELSE "startup"
    /\ UNCHANGED <<stopping, cur, graceful, sys, cmds, call, signal, notified, threads,
                   workers, faults>>

(* The other workers are asked to stop and the error is returned at once. *)
StartupErr ==
    /\ spc = "startup"
    /\ reports # <<>>
    /\ ~Head(reports)[2]
    /\ SendStops(Idx \ {Head(reports)[1]}, FALSE)
    /\ reports' = <<>>
    /\ spc' = "failed"
    /\ CloseCommands
    /\ UNCHANGED <<stopping, awaiting, cur, graceful, sys, signal, notified, threads,
                   worker, holds, asked, faults>>

(* Every sender is gone and a report is missing. *)
StartupDisconnected ==
    /\ spc = "startup"
    /\ reports = <<>>
    /\ holds = {}
    /\ SendStops(Idx, FALSE)
    /\ spc' = "failed"
    /\ CloseCommands
    /\ UNCHANGED <<stopping, awaiting, cur, graceful, sys, signal, notified, threads,
                   reports, worker, holds, asked, faults>>

(* The listeners are registered and the accept thread starts, ... *)
StartAccept ==
    /\ spc = "register"
    /\ spc' = "idle"
    /\ accept' = "running"
    /\ known' = Idx
    /\ UNCHANGED <<stopping, awaiting, cur, graceful, sys, cmds, call, signal, notified,
                   nstop, reports, workers, faults>>

(* ... or one of the two fails, and nobody tells the workers. *)
StartAcceptFails ==
    /\ spc = "register"
    /\ spc' = "abandoned"
    /\ CloseCommands
    /\ UNCHANGED <<stopping, awaiting, cur, graceful, sys, signal, notified, threads,
                   reports, workers, faults>>

-----------------------------------------------------------------------------
(* The command loop.                                                        *)

(* The Stop arm of handle_cmd up to its first await. *)
BeginStop(g, c, system) ==
    /\ stopping' = TRUE
    /\ graceful' = g
    /\ cur' = c
    /\ sys' = IF SystemStop \/ system THEN "due" ELSE "no"
    /\ notified' = (notified \/ g)
    /\ nstop' = nstop + 1
    /\ SendStops(Idx, g)
    /\ asked' = {i \in Idx : worker[i] # "gone"}
    /\ spc' = IF g THEN "join_workers" ELSE "join_accept"

map_signal(kind) == Stop(kind \in {"Cancel", "OsTerm"}, NoCall, TRUE)

(* The multiplexer looks at the signal before the channel. *)
TakeSignal ==
    /\ spc = "idle"
    /\ signal \in SignalKind
    /\ signal' = "taken"
    /\ LET cmd == map_signal(signal) IN BeginStop(cmd.graceful, cmd.call, cmd.system)
    /\ UNCHANGED <<awaiting, cmds, call, accept, known, reports, worker, holds, faults>>

Taken(type) ==
    /\ spc = "idle"
    /\ signal \notin SignalKind
    /\ cmds # <<>>
    /\ Head(cmds).type = type
    /\ cmds' = Tail(cmds)

(* The interest is pushed, then the caller is answered. *)
TakePauseOrResume ==
    /\ Taken("Pause") \/ Taken("Resume")
    /\ call' = [call EXCEPT ![Head(cmds).call] = "done"]
    /\ UNCHANGED <<loop, signal, notified, threads, reports, workers, faults>>

TakeStop ==
    /\ Taken("Stop")
    /\ BeginStop(Head(cmds).graceful, Head(cmds).call, Head(cmds).system)
    /\ UNCHANGED <<awaiting, call, signal, accept, known, reports, worker, holds, faults>>

(* WorkerFaulted: ServerWorker::start spawns a worker and blocks the loop   *)
(* until its services are created.                                          *)
TakeWorkerFaulted ==
    /\ Taken("WorkerFaulted")
    /\ spc' = "restart"
    /\ cur' = Head(cmds).idx
    /\ worker' = [worker EXCEPT ![Head(cmds).idx] = "creating"]
    /\ holds' = {Head(cmds).idx}
    /\ stops' = [stops EXCEPT ![Head(cmds).idx] = <<>>]
    /\ UNCHANGED <<stopping, awaiting, graceful, sys, call, signal, notified, threads,
                   reports, asked, faults>>

(* Its report is good: the accept thread gets the new handle. *)
RestartOk ==
    /\ spc = "restart"
    /\ reports # <<>>
    /\ Head(reports)[2]
    /\ reports' = <<>>
    /\ known' = known \cup {cur}
    /\ spc' = "idle"
    /\ UNCHANGED <<stopping, awaiting, cur, graceful, sys, cmds, call, signal, notified,
                   accept, nstop, workers, faults>>

(* It is bad, or never comes: the worker stays away. *)
RestartFails ==
    /\ spc = "restart"
    /\ \/ reports # <<>> /\ ~Head(reports)[2]
       \/ reports = <<>> /\ holds = {}
    /\ reports' = <<>>
    /\ spc' = "idle"
    /\ UNCHANGED <<stopping, awaiting, cur, graceful, sys, cmds, call, signal, notified,
                   threads, workers, faults>>

WorkersJoined_first == \E i \in Idx : i \notin asked

(* join_all: every answer has come, or its sender is gone. *)
WorkersJoined == asked = {}

JoinWorkers ==
    /\ spc = "join_workers"
    /\ WorkersJoined
    /\ spc' = "join_accept"
    /\ UNCHANGED <<stopping, awaiting, cur, graceful, sys, cmds, call, signal, notified,
                   threads, reports, workers, faults>>

AcceptJoined_unwaited == TRUE
AcceptJoined == accept \in {"stopped", "panic"}

(* The accept thread is joined, then the caller is answered. *)
JoinAccept ==
    /\ spc = "join_accept"
    /\ AcceptJoined
    /\ accept # "panic"
    /\ call' = [c \in Calls |-> IF c = cur THEN "done" ELSE call[c]]
    /\ spc' = IF sys = "due" THEN "sleep" ELSE "return"
    /\ UNCHANGED <<stopping, awaiting, cur, graceful, sys, cmds, signal, notified, threads,
                   reports, workers, faults>>

(* A panic of the accept thread becomes one of the server. *)
JoinPanics ==
    /\ spc = "join_accept"
    /\ accept = "panic"
    /\ spc' = "panic"
    /\ CloseCommands
    /\ UNCHANGED <<stopping, awaiting, cur, graceful, sys, signal, notified, threads,
                   reports, workers, faults>>

(* After the delay the System is stopped; the future returns. *)
Return ==
    /\ spc \in {"sleep", "return"}
    /\ spc' = "done"
    /\ sys' = IF spc = "sleep" THEN "called" ELSE sys
    /\ CloseCommands
    /\ UNCHANGED <<stopping, awaiting, cur, graceful, signal, notified, threads, reports,
                   workers, faults>>

-----------------------------------------------------------------------------
(* Dropping the future, at an await.                                        *)

DropStop_always == TRUE

(* Stop is pushed only if the accept thread has not been sent one. *)
DropStop == ~stopping

(* With an accept thread to join: forced stops, then a blocking join. *)
DropRunning ==
    /\ spc \in {"idle", "join_workers"}
    /\ spc' = "drop_join"
    /\ nstop' = IF DropStop THEN nstop + 1 ELSE nstop
    /\ SendStops(Idx, FALSE)
    /\ CloseCommands
    /\ UNCHANGED <<stopping, awaiting, cur, graceful, sys, signal, notified, accept,
                   known, reports, worker, holds, asked, faults>>

DropJoined ==
    /\ spc = "drop_join"
    /\ AcceptJoined
    /\ spc' = "dropped"
    /\ UNCHANGED <<stopping, awaiting, cur, graceful, sys, cmds, call, signal, notified,
                   threads, reports, workers, faults>>

(* Before the first poll, or once the accept thread has been joined. *)
DropQuiet ==
    /\ spc \in {"new", "sleep"}
    /\ spc' = "dropped"
    /\ CloseCommands
    /\ UNCHANGED <<stopping, awaiting, cur, graceful, sys, signal, notified, threads,
                   reports, workers, faults>>

-----------------------------------------------------------------------------
(* Worker threads: spawn, create_services, and the worker's end.            *)

(* The reporting worker releases its sender. *)
Released_never(i) == UNCHANGED holds
Released(i) == holds' = holds \ {i}

Receiving == spc \in {"startup", "restart"}

(* Services created: the worker serves if its report can be delivered. *)
Created(i) ==
    /\ worker[i] = "creating"
    /\ worker' = [worker EXCEPT ![i] = IF Receiving THEN "serving" ELSE "gone"]
    /\ reports' = IF Receiving THEN Append(reports, <<i, TRUE>>) ELSE reports
    /\ Released(i)
    /\ stops' = IF Receiving THEN stops ELSE [stops EXCEPT ![i] = <<>>]
    /\ UNCHANGED <<loop, cmds, call, signal, notified, threads, asked, faults>>

CreateFails(i) ==
    /\ worker[i] = "creating"
    /\ worker' = [worker EXCEPT ![i] = "gone"]
    /\ reports' = IF Receiving THEN Append(reports, <<i, FALSE>>) ELSE reports
    /\ Released(i)
    /\ stops' = [stops EXCEPT ![i] = <<>>]
    /\ UNCHANGED <<loop, cmds, call, signal, notified, threads, asked, faults>>

(* A factory panics: the thread ends without a report. *)
CreatePanics(i) ==
    /\ worker[i] = "creating"
    /\ worker' = [worker EXCEPT ![i] = "gone"]
    /\ holds' = holds \ {i}
    /\ stops' = [stops EXCEPT ![i] = <<>>]
    /\ UNCHANGED <<loop, cmds, call, signal, notified, threads, reports, asked, faults>>

CreateStopped_ignored(i) == FALSE

(* A stop request cancels the creation and is confirmed. *)
CreateStopped(i) ==
    /\ worker[i] = "creating"
    /\ stops[i] # <<>>
    /\ worker' = [worker EXCEPT ![i] = "gone"]
    /\ holds' = holds \ {i}
    /\ stops' = [stops EXCEPT ![i] = <<>>]
    /\ UNCHANGED <<loop, cmds, call, signal, notified, threads, reports, asked, faults>>

(* The end of a worker: the sender of any answer it still owes is dropped. *)
Gone(i) ==
    /\ worker' = [worker EXCEPT ![i] = "gone"]
    /\ stops' = [stops EXCEPT ![i] = <<>>]
    /\ asked' = asked \ {i}
    /\ UNCHANGED <<loop, cmds, call, signal, notified, threads, reports, holds>>

(* A stop is answered and the worker ends (idle, or forced), ... *)
WorkerStops(i) ==
    /\ worker[i] \in {"serving", "draining"}
    /\ stops[i] # <<>>
    /\ Gone(i)
    /\ UNCHANGED faults

(* ... or, graceful, it waits for connections, ... *)
WorkerDrains(i) ==
    /\ worker[i] = "serving"
    /\ stops[i] # <<>>
    /\ Head(stops[i])
    /\ worker' = [worker EXCEPT ![i] = "draining"]
    /\ stops' = [stops EXCEPT ![i] = Tail(stops[i])]
    /\ UNCHANGED <<loop, cmds, call, signal, notified, threads, reports, holds, asked,
                   faults>>

(* ... which end, or run into the shutdown timeout. *)
WorkerDrained(i) ==
    /\ worker[i] = "draining"
    /\ Gone(i)
    /\ UNCHANGED faults

(* A serving worker dies. *)
WorkerDies(i) ==
    /\ worker[i] = "serving"
    /\ faults < MaxFaults
    /\ faults' = faults + 1
    /\ Gone(i)

-----------------------------------------------------------------------------
(* The accept thread, the users of ServerHandle, the operating system.      *)

(* A send to a dead worker has failed: its handle is removed and the fault  *)
(* reported.  With the server gone the command is lost.                     *)
AcceptFindsFault(i) ==
    /\ accept = "running"
    /\ i \in known
    /\ worker[i] = "gone"
    /\ known' = known \ {i}
    /\ cmds' = IF spc = "drop_join" THEN cmds ELSE Append(cmds, WorkerFaulted(i))
    /\ UNCHANGED <<loop, call, signal, notified, accept, nstop, reports, workers, faults>>

AcceptStops ==
    /\ accept = "running"
    /\ nstop > 0
    /\ accept' = "stopped"
    /\ UNCHANGED <<loop, cmds, call, signal, notified, known, nstop, reports, workers,
                   faults>>

(* A worker has died, or has ended and was found gone: an availability bit  *)
(* may be set that has no handle.  A replacement may still be in the waker  *)
(* queue, so the handles in hand can be fewer than `known'.                 *)
BitWithoutHandle == faults > 0 \/ known # Idx

(* Without a handle in hand it panics (AcceptLoop, AcceptMustNotPanic), ... *)
AcceptPanics ==
    /\ accept = "running"
    /\ BitWithoutHandle
    /\ accept' = "panic"
    /\ UNCHANGED <<loop, cmds, call, signal, notified, known, nstop, reports, workers,
                   faults>>

(* ... with some, all full, it goes round among them (AcceptLoop, Circling). *)
AcceptCircles ==
    /\ accept = "running"
    /\ BitWithoutHandle
    /\ known # {}
    /\ accept' = "circling"
    /\ UNCHANGED <<loop, cmds, call, signal, notified, known, nstop, reports, workers,
                   faults>>

(* ServerHandle: a command is sent and its answer awaited; with the         *)
(* receiver gone the call resolves at once.                                 *)
HandleCall(c) ==
    /\ call[c] = "unused"
    /\ \A d \in Calls : d < c => call[d] # "unused"
    /\ IF spc \in Ended \cup {"drop_join"}
       THEN call' = [call EXCEPT ![c] = "dropped"] /\ UNCHANGED cmds
       ELSE /\ call' = [call EXCEPT ![c] = "waiting"]
            /\ \E cmd \in {Pause(c), Resume(c)} \cup {Stop(g, c, FALSE) : g \in BOOLEAN} :
                 cmds' = Append(cmds, cmd)
    /\ UNCHANGED <<loop, signal, notified, threads, reports, workers, faults>>

(* StopSignal: the user's future, or OsSignals, whichever was set up. *)
Signal ==
    /\ signal = "none"
    /\ signal' \in SignalKind
    /\ UNCHANGED <<loop, cmds, call, notified, threads, reports, workers, faults>>

-----------------------------------------------------------------------------
ServerTask ==
    \/ Start \/ StartupOk \/ StartupErr \/ StartupDisconnected
    \/ StartAccept \/ StartAcceptFails
    \/ TakeSignal \/ TakePauseOrResume \/ TakeStop \/ TakeWorkerFaulted \/ RestartOk \/ RestartFails
    \/ JoinWorkers \/ JoinAccept \/ JoinPanics \/ Return
    \/ DropJoined

WorkerCreates(i) == Created(i) \/ CreateFails(i) \/ CreatePanics(i) \/ CreateStopped(i)

WorkerEnds(i) == WorkerStops(i) \/ WorkerDrains(i) \/ WorkerDrained(i)

Next ==
    \/ ServerTask
    \/ DropRunning \/ DropQuiet
    \/ \E i \in Idx : WorkerCreates(i) \/ WorkerEnds(i) \/ WorkerDies(i) \/ AcceptFindsFault(i)
    \/ AcceptStops \/ AcceptPanics \/ AcceptCircles
    \/ \E c \in Calls : HandleCall(c)
    \/ Signal

Spec == Init /\ [][Next]_vars

(* The server is polled until it ends; the accept thread stops once told,   *)
(* unless it has panicked or circles (AcceptLoop, StopCompletes); a         *)
(* worker's services are created or fail, and a worker told to stop ends    *)
(* (ServerWorker, StopEndsWorker).                                          *)
Fairness ==
    /\ WF_vars(ServerTask)
    /\ WF_vars(AcceptStops)
    /\ \A i \in Idx : WF_vars(WorkerCreates(i)) /\ WF_vars(WorkerEnds(i))

(* As above, but a factory's future need not end unless it is cancelled. *)
SlowFairness ==
    /\ WF_vars(ServerTask)
    /\ WF_vars(AcceptStops)
    /\ \A i \in Idx : WF_vars(CreateStopped(i)) /\ WF_vars(WorkerEnds(i))

-----------------------------------------------------------------------------
(* Properties.                                                              *)

(* What the contract says of the server's state. *)
StatusAt(pc) ==
    CASE pc = "new" -> "new"
      [] pc \in {"startup", "register"} -> "starting"
      [] pc \in {"idle", "restart"} -> "running"
      [] pc = "join_workers" -> "draining"
      [] pc = "join_accept" -> "stopping"
      [] pc \in {"sleep", "return"} -> "stopped"
      [] pc = "drop_join" -> "dropping"
      [] pc \in Ended -> "ended"

Live == {i \in Idx : worker[i] \in {"creating", "serving", "draining"}}

(* The accept thread owns the listeners; circling, it accepts nothing but   *)
(* does not close them.                                                     *)
Listens == accept \in {"running", "circling"}

Contract == INSTANCE ServerContract WITH
    Workers <- Idx,
    status <- StatusAt(spc),
    listening <- Listens,
    told <- nstop,
    live <- Live,
    notified <- notified

(* The server keeps its contract: "dropping a running server closes its     *)
(* listeners", however it ends and at whichever await it is dropped; the    *)
(* accept thread is never woken after it may have dropped its poll; a       *)
(* restart never leaves two workers with one index; "a graceful shutdown    *)
(* will wait for all workers to stop first", whatever was restarted or died *)
(* in the meantime; and "a forced shutdown does not notify" the signal that *)
(* a graceful one sets.                                                     *)
KeepsContract == Contract!Spec

(* The command loop waits for reports with its thread blocked, at the start *)
(* and at every restart.  It gets away from there although workers fail or  *)
(* die silently: the channel cannot stay open with nobody left to report.   *)
StartupEnds == Fairness => \A s \in {"startup", "restart"} : spc = s ~> spc # s

(* Every call of a ServerHandle resolves once the server has begun to stop  *)
(* or is gone, the calls that arrive meanwhile included, and however long   *)
(* a worker that is being started would take.  The exception is a server    *)
(* that joins an accept thread that circles: it blocks for good.            *)
CallsResolve ==
    SlowFairness =>
        \A c \in Calls :
            call[c] = "waiting" /\ (stopping \/ spc \in Ended) ~>
                (call[c] # "waiting" \/ accept = "circling")

(* No worker outlives its server, be it stopped, dropped or never started   *)
(* for an error of one of them: a worker that is still creating its         *)
(* services, however long that takes, is cancelled.  The exception is an    *)
(* error after all have started (StartAcceptFails), which abandons them.    *)
NoOrphans ==
    SlowFairness =>
        \A i \in Idx :
            spc \in {"done", "failed", "dropped"} ~> worker[i] \in {"none", "gone"}
=============================================================================
