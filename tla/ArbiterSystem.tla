--------------------------- MODULE ArbiterSystem ---------------------------
(***************************************************************************)
(* actix-rt: a System, its controller, and the arbiters of the system.     *)
(*                                                                         *)
(* An arbiter is a thread with a command channel.  It registers with the   *)
(* controller and later deregisters, through the controller's own channel. *)
(* The controller is a task of the thread the SystemRunner blocks; it runs *)
(* only while that thread is in block_on.  Stopping the system sends a     *)
(* stop command to every registered arbiter and publishes the exit code.   *)
(***************************************************************************)
EXTENDS Integers, Sequences

CONSTANTS
    Arbiters,   \* ids of the arbiters that Arbiter::new may start
    SysArbiter, \* the id of the arbiter the system starts with, usize::MAX
    Waiters,    \* SystemStop futures
    MaxStops,   \* bound: calls of System::stop_with_code
    MaxCmds     \* bound: calls of ArbiterHandle's spawn and stop

ASSUME ConstantsAssumption ==
    /\ SysArbiter \notin Arbiters
    /\ MaxStops \in Nat /\ MaxCmds \in Nat

Ids == Arbiters \cup {SysArbiter}

(* What a SystemStop is, besides an exit code. *)
Pending == 0
Failed == -1

Exit(code) == [type |-> "Exit", code |-> code]
RegisterArbiter(a) == [type |-> "RegisterArbiter", id |-> a]
DeregisterArbiter(a) == [type |-> "DeregisterArbiter", id |-> a]

SystemCommand ==
    {Exit(code) : code \in 1 .. MaxStops}
        \cup {RegisterArbiter(a) : a \in Ids} \cup {DeregisterArbiter(a) : a \in Ids}

VARIABLES
    runner,     \* SystemRunner: "idle", "run", "block" (block_on), "returned" or "dropped"
    queue,      \* the controller's channel
    registry,   \* SystemController::arbiters
    stop_tx,    \* the controller still has the sender of the exit code
    code,       \* the exit code published, or 0 for None
    waiter,     \* SystemStop: Pending, Failed or the code it resolved with
    arb,        \* arbiter threads: "unborn", "start", "registered", "run", "stopped",
                \* "done", or "failed" (no runtime)
    created,    \* Arbiter::new has returned
    chan,       \* an arbiter's channel: "Stop" or "Execute"
    nstops,     \* calls of stop_with_code so far; the n-th has code n
    before,     \* arbiters whose creation had returned at the first of them
    ncmds

vars == <<runner, queue, registry, stop_tx, code, waiter, arb, created, chan,
          nstops, before, ncmds>>

(* The runtime exists, and with it the controller and its receiver. *)
Alive == runner \notin {"returned", "dropped"}

(* The thread of the runner is polling tasks. *)
Polling == runner \in {"run", "block"}

TypeOK ==
    /\ runner \in {"idle", "run", "block", "returned", "dropped"}
    /\ queue \in Seq(SystemCommand)
    /\ registry \subseteq Ids
    /\ stop_tx \in BOOLEAN
    /\ code \in 0 .. MaxStops
    /\ waiter \in [Waiters -> Failed .. MaxStops]
    /\ arb \in [Ids -> {"unborn", "start", "registered", "run", "stopped", "done", "failed"}]
    /\ created \subseteq Ids
    /\ chan \in [Ids -> Seq({"Stop", "Execute"})]
    /\ nstops \in 0 .. MaxStops
    /\ before \subseteq Ids
    /\ ncmds \in 0 .. MaxCmds

(* System::with_tokio_rt. *)
Init ==
    /\ runner = "idle"
    /\ queue = <<RegisterArbiter(SysArbiter)>>
    /\ registry = {}
    /\ stop_tx = TRUE
    /\ code = 0
    /\ waiter = [w \in Waiters |-> Pending]
    /\ arb = [a \in Ids |-> IF a = SysArbiter THEN "run" ELSE "unborn"]
    /\ created = {SysArbiter}
    /\ chan = [a \in Ids |-> <<>>]
    /\ nstops = 0
    /\ before = {}
    /\ ncmds = 0

(* A send to the controller; without a receiver it is lost. *)
SendSystem(cmd) == queue' = IF Alive THEN Append(queue, cmd) ELSE queue

Open(a) == arb[a] \in {"start", "registered", "run"}

-----------------------------------------------------------------------------
(* SystemController::poll, one command per step.                            *)

Received(type) ==
    /\ Polling
    /\ queue # <<>>
    /\ Head(queue).type = type
    /\ queue' = Tail(queue)

Publish_again == code' = Head(queue).code /\ UNCHANGED stop_tx

(* The code is published once: the sender is taken. *)
Publish ==
    /\ code' = IF stop_tx THEN Head(queue).code ELSE code
    /\ stop_tx' = FALSE

(* Every registered arbiter is sent a stop, then the code is published. *)
CtrlExit ==
    /\ Received("Exit")
    /\ chan' = [a \in Ids |->
                  IF a \in registry /\ Open(a) THEN Append(chan[a], "Stop") ELSE chan[a]]
    /\ Publish
    /\ UNCHANGED <<runner, registry, waiter, arb, created, nstops, before, ncmds>>

CtrlRegister ==
    /\ Received("RegisterArbiter")
    /\ registry' = registry \cup {Head(queue).id}
    /\ UNCHANGED <<runner, stop_tx, code, waiter, arb, created, chan, nstops, before,
                   ncmds>>

Remove(a) == registry' = registry \ {a}

CtrlDeregister ==
    /\ Received("DeregisterArbiter")
    /\ Remove(Head(queue).id)
    /\ UNCHANGED <<runner, stop_tx, code, waiter, arb, created, chan, nstops, before,
                   ncmds>>

-----------------------------------------------------------------------------
(* The SystemRunner and SystemStop futures.                                 *)

Run ==
    /\ runner = "idle"
    /\ runner' = "run"
    /\ UNCHANGED <<queue, registry, stop_tx, code, waiter, arb, created, chan, nstops,
                   before, ncmds>>

BlockOn ==
    /\ \/ runner = "idle" /\ runner' = "block"
       \/ runner = "block" /\ runner' = "idle"
    /\ UNCHANGED <<queue, registry, stop_tx, code, waiter, arb, created, chan, nstops,
                   before, ncmds>>

(* The runtime is dropped: the controller, what is in its channel, and the  *)
(* runner of the system's own arbiter.                                      *)
DropRuntime ==
    /\ queue' = <<>>
    /\ arb' = [arb EXCEPT ![SysArbiter] = "stopped"]
    /\ chan' = [chan EXCEPT ![SysArbiter] = <<>>]
    /\ UNCHANGED <<registry, stop_tx, code, waiter, created, nstops, before, ncmds>>

(* run_with_code: wait_for_stop finds a code. *)
RunReturns ==
    /\ runner = "run"
    /\ code # 0
    /\ runner' = "returned"
    /\ DropRuntime

DropRunner ==
    /\ runner = "idle"
    /\ runner' = "dropped"
    /\ DropRuntime

(* wait_for_stop: the value is looked at before the sender's absence. *)
WaiterPoll(w) ==
    /\ waiter[w] = Pending
    /\ \/ code # 0 /\ waiter' = [waiter EXCEPT ![w] = code]
       \/ code = 0 /\ ~Alive /\ waiter' = [waiter EXCEPT ![w] = Failed]
    /\ UNCHANGED <<runner, queue, registry, stop_tx, code, arb, created, chan, nstops,
                   before, ncmds>>

-----------------------------------------------------------------------------
(* Arbiter::try_with_tokio_rt and the arbiter's thread.                     *)

New(a) ==
    /\ arb[a] = "unborn"
    /\ arb' = [arb EXCEPT ![a] = "start"]
    /\ UNCHANGED <<runner, queue, registry, stop_tx, code, waiter, created, chan,
                   nstops, before, ncmds>>

(* The runtime cannot be built, or building it panics: the creator gets an  *)
(* error.                                                                   *)
FactoryFails(a) ==
    /\ arb[a] = "start"
    /\ arb' = [arb EXCEPT ![a] = "failed"]
    /\ UNCHANGED <<runner, queue, registry, stop_tx, code, waiter, created, chan,
                   nstops, before, ncmds>>

SendRegister_never(a) == UNCHANGED queue
SendRegister(a) == SendSystem(RegisterArbiter(a))

Register(a) ==
    /\ arb[a] = "start"
    /\ arb' = [arb EXCEPT ![a] = "registered"]
    /\ SendRegister(a)
    /\ UNCHANGED <<runner, registry, stop_tx, code, waiter, created, chan, nstops,
                   before, ncmds>>

(* The ready signal: Arbiter::new returns. *)
Ready(a) ==
    /\ arb[a] = "registered"
    /\ arb' = [arb EXCEPT ![a] = "run"]
    /\ created' = created \cup {a}
    /\ UNCHANGED <<runner, queue, registry, stop_tx, code, waiter, chan, nstops,
                   before, ncmds>>

(* The system's own arbiter shares the thread of the runner. *)
Scheduled(a) == arb[a] = "run" /\ (a = SysArbiter => Polling)

(* ArbiterRunner::poll: a future is handed to the thread's runtime, ... *)
PollExecute(a) ==
    /\ Scheduled(a)
    /\ chan[a] # <<>>
    /\ Head(chan[a]) = "Execute"
    /\ chan' = [chan EXCEPT ![a] = Tail(@)]
    /\ UNCHANGED <<runner, queue, registry, stop_tx, code, waiter, arb, created, nstops,
                   before, ncmds>>

(* ... or the runner ends and takes the receiver with it. *)
PollStop(a) ==
    /\ Scheduled(a)
    /\ chan[a] # <<>>
    /\ Head(chan[a]) = "Stop"
    /\ chan' = [chan EXCEPT ![a] = <<>>]
    /\ arb' = [arb EXCEPT ![a] = "stopped"]
    /\ UNCHANGED <<runner, queue, registry, stop_tx, code, waiter, created, nstops,
                   before, ncmds>>

(* The thread deregisters and ends; the system's own arbiter does not. *)
Deregister(a) ==
    /\ arb[a] = "stopped"
    /\ a # SysArbiter
    /\ arb' = [arb EXCEPT ![a] = "done"]
    /\ SendSystem(DeregisterArbiter(a))
    /\ UNCHANGED <<runner, registry, stop_tx, code, waiter, created, chan, nstops,
                   before, ncmds>>

-----------------------------------------------------------------------------
(* Callers, on any thread.                                                  *)

(* System::stop_with_code. *)
StopWithCode ==
    /\ nstops < MaxStops
    /\ nstops' = nstops + 1
    /\ SendSystem(Exit(nstops + 1))
    /\ before' = IF nstops = 0 /\ Alive THEN created ELSE before
    /\ UNCHANGED <<runner, registry, stop_tx, code, waiter, arb, created, chan, ncmds>>

(* spawn, spawn_fn and stop of Arbiter and ArbiterHandle, which a task of   *)
(* the arbiter can have before new() returns; they are false without a      *)
(* receiver.                                                                *)
Command(a, cmd) ==
    /\ arb[a] \notin {"unborn", "start", "failed"}
    /\ ncmds < MaxCmds
    /\ ncmds' = ncmds + 1
    /\ chan' = IF Open(a) THEN [chan EXCEPT ![a] = Append(@, cmd)] ELSE chan
    /\ UNCHANGED <<runner, queue, registry, stop_tx, code, waiter, arb, created, nstops,
                   before>>

-----------------------------------------------------------------------------
Controller == CtrlExit \/ CtrlRegister \/ CtrlDeregister

Thread(a) ==
    \/ FactoryFails(a) \/ Register(a) \/ Ready(a)
    \/ PollExecute(a) \/ PollStop(a) \/ Deregister(a)

Next ==
    \/ Controller
    \/ Run \/ BlockOn \/ RunReturns \/ DropRunner
    \/ \E w \in Waiters : WaiterPoll(w)
    \/ \E a \in Arbiters : New(a)
    \/ \E a \in Ids : Thread(a) \/ \E cmd \in {"Stop", "Execute"} : Command(a, cmd)
    \/ StopWithCode

Spec == Init /\ [][Next]_vars

(* A thread inside block_on polls its tasks, and an arbiter's thread runs.  *)
(* Nothing obliges anyone to enter block_on.                                *)
Fairness ==
    /\ WF_vars(Controller)
    /\ WF_vars(RunReturns)
    /\ \A a \in Ids : WF_vars(PollExecute(a) \/ PollStop(a)) /\ WF_vars(Deregister(a))
    /\ \A w \in Waiters : WF_vars(WaiterPoll(w))

FairSpec == Spec /\ Fairness

-----------------------------------------------------------------------------
(* Properties.                                                              *)

InQueue(cmd) == \E k \in 1 .. Len(queue) : queue[k] = cmd

(* The first call of stop_with_code decides the exit code, for the runner   *)
(* and for every SystemStop alike, however many calls race it ("will only   *)
(* fire once"); and a SystemStop fails only if the system never stopped.    *)
FirstStopWins ==
    /\ code \in {0, 1}
    /\ \A w \in Waiters : waiter[w] # Pending => waiter[w] = IF code = 0 THEN Failed ELSE code

(* The controller's registry follows the arbiters: one that runs is in it   *)
(* or about to be, one that has ended is not in it or about to leave.  A    *)
(* registration never overtakes the deregistration of its arbiter.          *)
RegistryTracks ==
    Alive =>
        \A a \in Arbiters :
            /\ arb[a] \in {"registered", "run"} =>
                a \in registry \/ InQueue(RegisterArbiter(a))
            /\ a \in registry /\ arb[a] = "done" => InQueue(DeregisterArbiter(a))
            /\ InQueue(DeregisterArbiter(a)) => arb[a] = "done"

(* Stopping the system stops every arbiter whose creation had returned      *)
(* before, unless nobody blocks on the system's runtime any more: an        *)
(* arbiter has registered before its creator is told that it is ready.      *)
StopReachesArbiters ==
    \A a \in Arbiters :
        a \in before ~> (arb[a] = "done" \/ runner \in {"idle", "dropped"})
=============================================================================
