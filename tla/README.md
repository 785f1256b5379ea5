# actix-net in TLA+

TLA+ models of the crates of actix-net that hold its concurrent logic, the TLC
configurations that check them on small instances, and TLAPS proofs of the
properties that matter most, for every value of the constants.

Read a module with its header comment first: it says which code it models, what
a step is, and what has been left abstract. `PROJECT.json` maps each definition
to the lines of the source it stands for, names every run, and lists hazards:
the places of the code that a test would hardly reach.

    tlc -config BuiltServer.cfg BuiltServer.tla   # one model-checking run
    tlapm ServerProofs.tla                        # one proof module

## 1. The system

actix-net is a set of crates for network services on top of tokio and mio. The
core is a multi-threaded TCP server, whose threads talk to each other through
channels, atomics and a waker queue.

    clients --> listeners --> accept thread --(channel, counter)--> worker 0..n
                                  ^   |                               |  |
                                  |   +---- waker queue <-------------+  |
                             waker queue                                 |
                                  |                                      |
    ServerHandle --(commands)--> server task --(stop messages)-----------+
                                  ^
                            OS signals

| component | state it keeps | operations | what is hard |
|---|---|---|---|
| accept loop (`actix-server/src/accept.rs`) | handles, `next_worker`, availability bits, paused flag, poll timeout, listeners with back-off deadlines | the poll loop; accept, dispatch, back-off; the five interests of the waker queue | edge-triggered readiness; workers that die between being counted and being sent to; several events and interests in one batch |
| waker queue (`waker_queue.rs`) | a queue under a mutex, a mio waker | push, then signal; drain | the two steps of a push against the steps of a drain |
| connection counting (`worker.rs`: `Counter`, `WorkerCounterGuard`, `WorkerHandleAccept`) | one atomic per worker | `inc` when a connection is sent, `dec` when its guard is dropped | read by the accept thread, changed by another; only the crossing of the limit notifies |
| server worker (`worker.rs`: `ServerWorker`) | `WorkerState`, services and their status, shutdown timer | `poll`: stop, readiness, restart, dispatch, shutdown | a hand-written future: it must leave its waker with whatever it waits for, on every path |
| server (`server.rs`, `handle.rs`, `signals.rs`, `join_all.rs`, `shutdown.rs`) | the handles of accept thread and workers, the command channel, stop state | startup, pause, resume, stop, restart of a faulted worker, drop | dropping the future at any await; faults while stopping; replies to callers |
| builder, sockets (`builder.rs`, `socket.rs`, `service.rs`) | the next token, factories, listeners | `bind`, `listen`, their Unix forms, `run` | listener, factory and service are matched by a token in one place and by a position in another |
| actix-rt (`system.rs`, `arbiter.rs`) | registry of arbiters, the exit code, one channel per arbiter and one for the controller | `Arbiter::new`, spawn, stop; `System::stop_with_code`, run, block_on | racing stops; stop against registration and deregistration in other threads |
| local-channel, local-waker | buffer, `has_receiver`, reference count, one waker | send, poll, close, clone, drop; register, wake | the reference count decides who is last; messages that own senders re-enter the channel |
| actix-codec (`framed.rs`, `lines.rs`) | read and write buffers, EOF and READABLE flags, how far the decoder has searched | `next_item`, `write`, `flush`, `close`, rebuilding with another codec | frames cut at any byte; partial writes; flags across a rebuild |
| actix-tls (`accept/*`, `connect/*`) | per-thread count of handshakes, deadlines; the addresses still to be tried | readiness, handshake under a timeout; resolve, connect, fall back | a timeout racing the handshake; the guard on each way out; the order of the addresses |
| actix-service, actix-tracing | the states of the combinators' futures | `new_service`, `poll_ready`, `call` | two halves that end in different polls; who holds the waker; which errors and configurations go through which mapper |
| actix-utils (`counter.rs`) | a count, a capacity and one waker | guard, available | the wake-up on the way down from the limit |
| bytestring, actix-macros | none that changes | | |

How they interact, and where it shows in the models:

- *accept thread and worker*: the accept thread increments the worker's counter,
  then sends; the worker's guards decrement it and, at the limit, push
  `WorkerAvailable`. Both sides are shown to keep one contract,
  `ConnAccounting`.
- *accept thread and server*: `Pause`, `Resume`, `Stop` and the handle of a new
  worker go through the waker queue; a send to a dead worker sends
  `WorkerFaulted` the other way.
- *server and worker*: stop messages with a reply channel; a startup report.
- *builder and workers*: a worker gets a clone of every factory and creates the
  services in their order; the accept thread passes on the token of the listener
  that a connection came from, and the worker takes it as an index.
- *arbiters and system*: registration, deregistration and exit go through one
  channel to the controller; stop goes through the arbiters' own.

What makes each one correct:

- accept loop: no worker above its limit, no connection and no readiness event
  forgotten, no capacity forgotten, one handle per worker index; a stop ends it,
  unless a worker has died: then it may panic or circle instead (section 6);
- worker: a connection reaches a service only when all are ready; it never
  sleeps on something nobody will wake it for; it ends when told to; `true` in
  answer to a graceful stop means that nothing is left;
- server: a call is answered, listeners are closed however it ends, a graceful
  stop waits for every worker, no worker thread outlives it; a client meets the
  service that was bound to its address, in every worker and after restarts;
- combinators: what a composed service answers is a matter of the user's answers
  alone, not of how its futures were cut into polls; it never sleeps without its
  waker where something may happen; nothing is called that was not ready;
- system: one exit code, every registered arbiter is stopped;
- channel: order, the end after the last message only, no lost wake-up;
- codec: the frames do not depend on how the bytes arrived, nothing complete is
  held back, bytes leave once and in order;
- TLS acceptors: a thread never runs more handshakes than its limit, no
  handshake outlives its timeout, whoever waits for a place is woken;
- connector: the addresses are tried in order until one answers, the error says
  which stage failed, the request ends.

## 2. Modules

| module | models | proofs |
|---|---|---|
| `ConnAccounting` | the contract between accept thread and worker on counting connections (abstract specification) | |
| `AcceptLoop` | accept thread, waker queue, counters; workers and server task abstract | `AcceptLoopProofs` |
| `ServerWorker` | one worker's future, services, wakers, timers; accept thread abstract | `ServerWorkerProofs` |
| `ServerContract` | what a server promises (abstract specification) | |
| `Server` | the server task; accept thread and workers reduced to what it sees of them | `ServerProofs` |
| `ServerBuilder` | the builder: tokens, factories, listeners | |
| `BuiltServer` | a server from its builder to its end: the two together, and the services of the workers | `ServerProofs` |
| `ServiceTree` | the terms of actix-service's combinators and their shape | `ServiceTaskProofs` |
| `ServiceTask` | a task that makes a composed service, asks it and calls it (run through `MCServiceTask`) | `ServiceTaskProofs` |
| `ArbiterSystem` | actix-rt | `ArbiterSystemProofs` |
| `LocalWaker`, `LocalChannel` | the two crates of that name | `LocalChannelProofs` |
| `LinesCodec`, `Framed` | actix-codec | `FramedProofs` |
| `Counter`, `TlsAcceptor` | the counter of actix-utils; a TLS acceptor and another service under `and_then`, on one worker thread | `TlsProofs` |
| `Connector` | a client request through resolver, TCP connector and TLS connector | `TlsProofs` |

### AcceptLoop

The accept thread is a program with a counter `pc`: `poll`, `events` (a batch of
events in hand), `waker` (draining the queue), `accept` and `one` (inside
`accept` and `accept_one`), `send` (counted, not sent yet). Each step ends where
the code reads or writes something another thread shares: the queue's mutex, the
counter, the worker's channel. In the source `WakerQueue::wake` is two effects,
a push and a signal, and so it is two steps here; `HandleWakerEvent` and
`WakerDrained` are the two ends of the drain, which takes the mutex once per
interest.

A worker instance is an index and a generation, so that a replacement and its
dead predecessor are told apart, as the code does not: it knows them by index,
which is what `OneHolderPerIdx` is about. A worker here only takes a
connection, finishes one, dies, or pushes a notification. When the connection
receiver is dropped the connections in it vanish without their guards ever
existing (`worker.rs`, the fields of `ServerWorker` drop in order), and the
counter stays up.

The events of a batch are handled in any order, which mio leaves open. Time is
the `Tick` that makes a deadline due.

### ServerWorker

`wpc` says where `poll` stands. A step is one access to something another thread
changes. The task is polled again only when `woken`; `regs` and `sregs` are the
sources that hold its waker, so that a path that returns `Pending` without
registering one is a model that stops, and `NoLostWake` sees it. Services change
readiness when they like, and fail; a failed one is restarted by a future that
may fail too. The shutdown timer is counted in polls of
`ServerWorker`'s interval, `elapsed` against `ShutdownTimeout`.

### Server

`spc` names the await at which the server stands. Everything else, worker
threads, the accept thread, callers and signals, moves between two awaits. The
future may be dropped at each (`DropRunning`, `DropQuiet`), which runs the code
of `Drop`. The fairness assumed of accept thread and workers is what the other
two modules show of them (`StopCompletes`, `StopEndsWorker`). What a stop may
meet instead of ending the accept thread is here too: `AcceptPanics`, which the
server's join turns into a panic of its own, and `AcceptCircles`, after which
that join never returns. Both are possible once an availability bit may have lost
its handle (`BitWithoutHandle`), and no run of `Server` is spared them.
`StopSignal` is a variable `signal` of four kinds; `map_signal` makes the `Stop`
command of it.

`ServerContract` is the server seen from outside: a status, whether it listens,
how often the accept thread was told to stop, which workers run, whether a
graceful stop was announced. `KeepsContract` maps `Server` on it (`StatusAt`,
`Live`). That it is a refinement and not five invariants is what makes it hard
to satisfy: a restart may only start a worker whose predecessor has ended, a
drop in the middle of a stop must not tell the accept thread again, and the step
past a graceful wait is only allowed when no worker is left, restarted ones
included.

### ServerBuilder, BuiltServer

`ServerBuilder` is one action per way of giving a server listeners. A bind
resolves to several addresses, in any order, of which some may be refused; each
one that is bound takes a token, pushes a factory and a socket. An error drops the builder.
`at` is history: which call an address belongs to, as its client sees it.

`BuiltServer` conjoins the two: the server moves once the builder has been run,
a worker creates its services in the order of the factories before it may serve,
and loses them when it ends. Each of its steps leaves `Server`'s variables alone
or is a step of `Server`, so the contract proved of `Server` holds of it
(`BuiltContractKept`); the run checks `Server`'s properties in this composition.
`RightService` follows a client's address through token, listener, factory and
position to the service a worker hands the connection to.

### ServiceTree, ServiceTask

A composed factory is a term in postfix order, a sequence of nodes; a node has a
kind and the number of nodes of the term that ends with it, so that an operand
is found without recursion. The constructors have the names of the functions of
the crate, and `Term` says what they make: `ConstantsAssumption` asks it of
`Trees`, and `ComposedIsTerm` proves it of whatever they are applied to.
`Combined` and `Wrapper` say which exist for services and which for factories
only. What passes everything on (a boxed service, `Rc`, a pipeline) is one kind,
`held`.

`ServiceTask` is the task that drives such a term. A poll is a walk over the
tree, one node per step: down to the futures and services that are the user's,
which answer Ready, Pending or an error as they like, and back up through the
combinators, each of which does what its `poll` does. Only the pairs, the
transforms and `apply_cfg` have states of their own; the others forward, and
what they do to a value is recorded in it, as the node it went through.
`AnswersAsComposed` compares the answer with what follows from the users'
answers and the term alone. `Assemble` is the other way to a service, without a
factory (`Pipeline`, `ServiceExt`).

### ArbiterSystem

The controller's channel is `queue`, the arbiters' are `chan`. An arbiter goes
through `start`, `registered`, `run`, `done`; its registration is sent by the
new thread before its creator is told that it is ready, its deregistration after
the runner has ended. The controller handles one command per step and only while
somebody is in `block_on`.

### LocalWaker, LocalChannel

Nothing is concurrent in a thread-local channel, so each call is one step. What
is modelled is the reference count (`strong_count`), from which `Sender::drop`
concludes that the receiver is the only one left, and messages that own a
sender, whose drop re-enters the channel.

### LinesCodec, Framed

`LinesCodec` holds the decoder as operators on a record (the codec) and a
sequence of bytes. There are four classes of bytes: a line feed, a carriage
return, a letter, and one that is not UTF-8. `Framed` holds the loop of
`next_item` and the sink. The I/O object reads the peer's input in pieces of any
size and takes written bytes in pieces of any size; it may answer Pending or an
error at every call. Written bytes are numbered, so that repetition, loss and
disorder all show.

`FramesAreLines` compares what is handed out with a definition of the lines of
the *whole* input, which knows nothing of pieces, of the search position or of
the order in which the limit and the carriage return are looked at.

### Counter, TlsAcceptor

`Counter` is the operations of `actix_utils::counter` on `LocalWaker`'s cell.
`TlsAcceptor` is one worker thread: `turn` is the task whose poll is under way,
the worker's own or that of a connection. The six backends share one shape,
readiness from the thread's counter, a call that takes a guard and starts a
timer, a future that looks at the stream first and at the timer only while the
stream is Pending; they differ in the library they call. The acceptor stands
first or second under `and_then`; the other half may be unready or fail, and
then the worker restarts the pair while older calls go on with their guards.
Of the worker only what decides when it asks a service and calls it is here;
`ServerWorker` has the rest. The setting `MAX_CONN` changes at any time, the
thread's counter keeps what it took.

### Connector

The services keep no state, so one request is the whole model (`RequestSpec`;
its definitions have names of their own because `TlsProofs` extends both sides of
actix-tls). `fut` is the
stage whose future is driven, `registered` says that this future has the waker:
a stage begun and not polled before `Pending` is returned is a request that
nobody wakes. The three TLS connectors differ in one step: rustls refuses a host
that is not a server name before it begins.

## 3. Runs

| run | question | instance |
|---|---|---|
| `accept_workers` | Is every connection counted before it is sent, and no capacity or interest forgotten, when workers die and are replaced? Does a stop end the thread, or what comes in between? | 2 workers, limit 1, 3 connections, 1 fault each |
| `accept_live` | Is a listener, or an event of it, ever forgotten through back-off, pause and resume? Is every waiting connection accepted, and does a stop end the thread out of a pause and a back-off? | 1 worker, 2 listeners, 2 connections, 1 error, 2 commands |
| `worker` | Does the worker future sleep only on what will wake it, dispatch only when ready, end when told? | 2 services, 2 connections, 2 stops, 1 change of readiness |
| `server` | Does a client meet the service bound to its address? Does the server keep its contract, answer its calls and leave no worker behind, however it ends? | every builder of up to 2 binds over 2 addresses and a path; 2 workers, 1 call and 1 signal, 2 faults |
| `services` | Does a composed service answer as the composition does, sleep only with wakers, call only what is ready, and end? | 179 terms of up to 8 nodes, 2 Pending, 2 calls |
| `system` | Does one exit code win and does a stop reach every arbiter? | 2 arbiters and the system's own, 2 stops, 2 commands |
| `channel` | Are messages in order and wake-ups never lost? | 2 tasks, 3 senders, 3 messages |
| `codec` | Do frames depend on how bytes arrive? Do bytes leave once and in order? | every input of up to 4 bytes, limits 0, 1 and none, 4 bytes out |
| `tls_accept` | Does the limit hold, does every handshake end, is every queued connection taken? | 2 connections, limits 0 and 1, 2 failures or pauses of the other service |
| `connector` | Are the addresses tried in order, with every outcome of each stage? | every list of up to 3 of 3 addresses, known or resolved |
| `panic`, `pause` | see section 6 | 2 workers, 4 connections; 1 worker, 1 error, 3 commands |

Why these bounds are enough for the cases of interest:

- *accept loop*. With two workers at a limit of one, `swap_remove` moves a
  handle, both availability bits can be clear, and a decrement at the limit
  races the accept thread. One fault per index gives a replacement next to its
  predecessor. Two listeners are needed for the one that a scan stops before.
  One error and a pause with a resume around it give each combination of
  deadline and registration. A stop meets a dead worker's panic in `accept_workers`.
  A thread that circles, the other exception of `StopCompletes`, is not within
  its bounds: that takes a fourth connection, and several times the states
  (section 6 says where TLC finds it).
- *worker*. Two services give one that is ready while another is not. A second
  stop message arrives while the first is being carried out. A timeout of two
  intervals gives one check that has not expired.
- *server*. Two workers give a start-up that half succeeds. Two faults make one
  worker die again after its restart, or one die while the other is restarted.
  A call and a signal give two stops that race, a stop behind another command,
  and a call behind a stop; a second call adds no new pair. Two binds give two
  tokens from one bind, a bind whose first address is refused, a mix of TCP and
  Unix listeners, and an address bound twice.
- *services*. Each wrapper inside and outside each other, each inside and
  outside each pair, every pair of pairs nested to either side, and some longer
  terms. Two answers of Pending make either half of a pair wait while the other
  goes on, or the same one twice; the second call finds the state the first left.
- *system*. Two stops race each other; two arbiters give one that registers
  while the other is being stopped.
- *channel*. Three senders: one outside, one in the buffer, one cloned.
- *codec*. Four bytes hold a line with both delimiters and the beginning of
  another, and a line that exceeds the limit by its carriage return only. The
  sink is used with inputs of at most one byte (`MaxDuplex`): the two directions
  share no state but the exclusive reference. A high-water mark of two with
  items of one or two bytes makes the mark be met and overrun.

- *TLS*. With a limit of one and two connections the second waits for the first,
  and a restart that counted anew would let both in. It takes two changes of the
  other service to restart the pair while a handshake goes on and have it unready
  afterwards. A limit of zero is legal and takes nothing.
- *connector*. Three addresses: the first, the only one left, and one between.

Invariants that are proved and would repeat in a run what a theorem says for
every instance are not in the runs: the type invariants, `CountCoversWork`,
`NextInRange` and `BitsHaveHandles` of `AcceptLoop`, `RegistryTracks` of
`ArbiterSystem`, `DrainsInOrder` of `LocalChannel`, `BytesKeepOrder` and
`BufferBounded` of `Framed`. Adding one to a cfg checks it.

Deadlock is not checked where the system may rightly stop: when the accept
thread, the worker, the server, the receiver or the request has ended, or the
task has made its last call. It is for
`codec` and `tls_accept`, where there is always another call to make.

## 4. Fairness

- *accept_live*: the accept thread runs, workers take what is sent to them,
  connections end, a push is completed by its signal, the server handles faults,
  deadlines pass. Threads are always scheduled again. That connections end is an
  assumption on the services: without it a full server rightly accepts nothing.
  Nothing is assumed of clients, nor of users of the handle. `BacklogDrains` is
  about a server none of whose workers has died, and `StopCompletes` says what a
  death may make of a stop: a panic, or a thread that circles.
- *accept_workers*: `StopSpec` has two threads run, the accept thread and the
  server's, and nothing else. Connections may last, no deadline need pass, and a
  worker may halt in the middle of a `wake`: a stop does not need them.
- *worker*: `RuntimeFairness` is what a runtime does, it polls a woken task and
  fires timers, and it is all that `StopEndsWorker` needs: neither connections
  nor services need ever finish. `ConnsLeaveChannel` also assumes that services
  become ready and factories' futures end.
- *server*: the server is polled; workers told to stop end (`StopEndsWorker`) and
  the accept thread told to stop ends, panics or circles (`StopCompletes`). A
  panic releases the server as an end does; behind a thread that circles its join
  blocks for good, with the calls that wait for it, and `CallsResolve` exempts
  that state. `StartupEnds` also assumes that
  a factory's future ends, since the server waits for it with its thread blocked.
  `SlowFairness`, for `NoOrphans` and `CallsResolve`, does not: it only has a
  worker that was told to stop notice it while it creates its services. Nothing
  is assumed of callers, signals, faults or drops.
- *services*: a woken task is polled and a poll walks to its end; what a user's
  future or service waits for comes. The number of Pending answers is bounded,
  the requests are not obliged to be made.
- *system*: a thread in `block_on` polls its tasks. Nobody is obliged to enter
  `block_on`, so properties exempt a system nobody runs.
- *channel*: a task polls when it is woken and until it is Pending. Not more:
  a lost wake-up is not repaired by fairness.
- *tls_accept*: `RuntimeFairness` is the runtime, it polls woken tasks, lets a
  poll run to its end and fires timers. `OtherFairness` says that the other
  service is created, gets ready and answers, as far as it does not fail. No
  client is obliged to finish a handshake; that is what the timer is for.
- *connector*: there is no timer in these services, so lookups, attempts and
  handshakes are assumed to end; what is shown is that the future does not fall
  asleep between them.
- *codec*: strong fairness of polling and of the peer's sending, since Pending
  and errors may come in between any number of times.

## 5. Proofs

All theorems hold for every value of the constants under the `ASSUME` of their
module, which asks only that numbers are naturals and, where the code needs it,
positive, and of the services of `ServiceTask` that they are terms. The bounds
(`MaxConns`, ...) are constants too, and arbitrary.

| theorem | statement |
|---|---|
| `AcceptLoopProofs!TypeCorrect` | types; indices of listeners are in range |
| `AcceptLoopProofs!CountersCoverWork` | a live worker's counter is exactly its connections in flight, in its channel and active, plus one |
| `AcceptLoopProofs!WakeupsNeverLost` | no interest is stranded in the waker queue |
| `AcceptLoopProofs!NextWorkerInRange` | `next_worker` indexes `handles` |
| `AcceptLoopProofs!LimitRespected`, `AvailabilityIsReal` | while no worker has died: the limit, and every bit has a handle |
| `AcceptLoopProofs!ListenersNeverForgotten` | an unpaused poll has every listener registered or waiting for a deadline, and a timeout if one does |
| `AcceptLoopProofs!EdgesNeverLost` | no edge is lost to a scan that ran out of capacity |
| `AcceptLoopProofs!OneWorkerPerIndex` | an index has one handle, one replacement on its way or one unhandled report |
| `AcceptLoopProofs!AvailabilityNeverLost` | a worker with capacity and a clear bit has a notification on its way |
| `AcceptLoopProofs!AcceptLoopCounts` | the accept loop implements `ConnAccounting` for every worker |
| `ServerWorkerProofs!TypeCorrect`, `DispatchOnlyToReady`, `WakesNeverLost`, `RepliesAreHonest` | the worker's safety |
| `ServerWorkerProofs!WorkerCounts` | the worker implements `ConnAccounting` |
| `ServerProofs!TypeCorrect` | types; commands name calls and workers that exist |
| `ServerProofs!ContractKept`, `BuiltContractKept` | `Server`, and `BuiltServer`, implement `ServerContract` |
| `ServerProofs!ServiceIsRight` | every client meets the service bound to its address |
| `ArbiterSystemProofs!TypeCorrect`, `OneExitCode`, `RegistryFollows` | types; one exit code; the registry follows the arbiters |
| `LocalChannelProofs!WakesNeverLost`, `DrainedInOrder` | the channel |
| `FramedProofs!BytesInOrder`, `WriteBufferBounded`, `OkIsDelivered` | the sink of `Framed` |
| `FramedProofs!StreamIsLines`, `NothingHeldBack` | the frames handed out are the lines of the whole input, however it arrives; none that is complete stays behind |
| `ServiceTaskProofs!ComposedIsTerm` | the constructors of actix-service make terms |
| `ServiceTaskProofs!TypeCorrect` | types; a value is a sequence of nodes |
| `ServiceTaskProofs!AnswersAreComposed` | a composed service of any shape, its futures cut into any polls: what is answered is what the parts answered, put together as the combinators say |
| `ServiceTaskProofs!UsersFuturesEndOnce`, `SleepingTaskIsWoken`, `CalledWhenReadyHolds` | a composed service of any shape: which futures are polled, who has the waker of a task that sleeps, what is called |
| `TlsProofs!TypeCorrect`, `HandshakesLimited`, `WakesNeverLost` | the acceptor's limit, the wake-ups of its worker |
| `TlsProofs!FallsBackInOrder` | the addresses are tried in order, each once |

The inductive invariants, and why the property alone does not do:

- *CountersCoverWork* needs `GenOK`: a generation that was never started is
  unborn, with nothing in its channel, no connection and no `wake` under way, so
  that the worker a restart brings to life starts with a fresh counter.
- *WakeupsNeverLost* is inductive over well typed states: an interest in the
  queue implies that the waker is signalled, an event is in hand, the drain is
  under way, or its pusher stands between push and signal.
- *LimitRespected* and *AvailabilityIsReal* stand on one invariant, `LimitInv`.
  The accept thread decides on a bit, so the bit is tied to the counter: a worker
  at the limit has its bit clear, or the accept thread is about to clear it; so
  has a worker with a notification on its way; and there is at most one of
  these per worker, none while it is at the limit. All this holds until the
  first death: afterwards a notification of the dead worker may set a bit that
  has no handle, and after a failed send `accept_one` may force a connection on
  whichever worker is next.
- *ListenersNeverForgotten* drops the condition that the thread is in the poll
  (`WatchInv`): each half is kept by every step until the thread stops.
- *EdgesNeverLost*: between two polls an edge that was taken is in the batch of
  events, or its listener is in the scan (`EdgeInv`). A listener leaves the scan
  because nothing waits on it, because it is deregistered, or because no worker is
  available; the notification that ends the last scans every listener, which is
  `AcceptAllScans`: the rotation from `next_listener` leaves none out.
- *OneWorkerPerIndex* is inductive over well typed states. A fault moves the index
  from the handles to the commands, a restart to the queue, the `Worker` interest
  back to the handles; each is a lemma on the positions of a sequence
  (`AtSwapRemove`, `AtAppend`, `AtTail`).
- *AvailabilityNeverLost* needs two things. A send that reached the limit clears
  the bit in a later step, and the worker may count down and notify in between:
  `AvailInv` speaks of a send that is about to clear the bit as well. And the bit
  cleared must not be another handle's, which is *OneWorkerPerIndex*. Deaths,
  replacements and forced connections need no exception here.
- *DispatchOnlyToReady* needs `StatusOK`: in `Available` and `Unavailable` no
  service is in the middle of a restart, in `Restarting` only the one it is for.
- *WakesNeverLost* of the worker needs `WakeOK`, which speaks of the places
  inside `poll` too: since the poll began and unless something has woken the task,
  the stop channel is empty and holds the waker, or a graceful stop was taken.
- *RepliesAreHonest* follows from the counting: a count of zero leaves nothing.
- *ContractKept* needs, for a restart over an ended worker, `Reported`: a report
  in the command channel is of a worker that has ended, whose handle the accept
  thread no longer has, and there is one such report at most, none for a worker
  being restarted; all four parts are needed, since the report waits in the
  channel while other workers are restarted. For the end of a graceful wait it
  needs `Waited`, a worker that runs is one the server waits for; for the one
  stop, `Told`, which ties `stopping` to the number of stops sent; for the
  closed listeners, `Listening`, where the accept thread cannot run.
- *ServiceIsRight* needs `Tokens`, listeners and factories stand at their tokens
  and agree on kind and call, and `ServicesMade`, the services of a worker are
  those of the first factories, and all of them once it serves.
- *OneExitCode* needs that the first call's command is ahead of any other in
  the channel (`FirstExitLeads`) and that the code is published once (`CodeOnce`).
- *RegistryFollows* needs `Ordered`: the registration of an arbiter that has
  ended is followed, in the channel, by its deregistration.
- The channel's two theorems share one invariant: the senders, those inside
  messages included, are finitely many and within the bound; what is in the
  buffer is what was accepted and not handed out, in order.
- The three theorems about the sink share `SinkInv`: a `Ready` that was not used
  yet means that the buffer is still below the mark, and between the flush and
  the shutdown of a close nothing is written.
- *StreamIsLines* and *NothingHeldBack* share `StreamInv`. Between two lines the
  read buffer is the input that was read and not consumed, it begins after a line
  feed, the search index has passed none, and there are as many results as line
  feeds before it (`Regular`); after the end nothing is left but a carriage return
  (`Drained`). A line over the limit is the exception: its error is a result and
  its bytes stay. What the invariant adds to `FramesAreLines` is where the next
  line begins, and that without `READABLE` the buffer holds no whole line. The
  definition of a line, least index and greatest index of sets of positions, has
  no recursion in it; induction over the input is `LeastElement`.
- The theorems of `ServiceTask` share one invariant, over any tree.
  `ControlInv` is the order of polls. *CalledWhenReadyHolds* needs, of a walk that
  asks for readiness, what it has heard when it is at a node: below the second
  half of a pair the services of the first have been asked, and have said yes
  unless the pair is noted as not ready (`AskInv`); of the call, that it is on a
  path that no service interrupts, so that what it calls is a service of the
  root, for which the root's answer spoke (`ReadyInv`, `OnPath`).
  *SleepingTaskIsWoken* needs, while a service is made, that every first half
  the walk has passed holds the waker, and that what has been made needs none
  (`LeftBehind`, `Settled`). *UsersFuturesEndOnce* needs that the walk never comes
  to what has been made (`Place`), and in a call that exactly one future is live,
  below the walk on its way down (`InCall`). *AnswersAreComposed* needs, of each
  of the three jobs, what the values on their way are. In a call (`CarryInv`): the
  value that goes down has passed what a request that reaches this node passes
  (`Reached`), the one that goes up is that followed by the effect of the node it
  comes from (`Result`), and a pair in its second half has had from the first
  what its effect says. While a service is made and in a readiness check
  (`FailInv`): an error on its way has met the mappers between the user's node
  and here (`MadeError`, `AskedError`), no part has failed unless it is that one,
  and what is noted as made has got all its parts (`Gotten`); down go the
  configurations, which no poll changes. All this presupposes types (`DataInv`). Every move of the walk, down, up,
  across a pair, into a future of the node's own, is one lemma that all combinators
  share. About a tree they use only that what is below a node and above it is
  ordered as in a tree (`TreeOrder`, `Operands`, `Parents`, `ServicesOf`), which
  follows from the sizes in a term by least counterexample. `Effect` and `Config`
  are recursive functions over the nodes. That each meets its equation
  (`EffectIs`, `ConfigIs`) is proved in place, because the library's theorem on
  recursive definitions takes an operator as a parameter: partial solutions
  exist up to every node, and the first node without one is a contradiction.

- *HandshakesLimited* and *WakesNeverLost* of the acceptor share one invariant.
  The count is the number of handshakes (`CountOK`), those of services that were
  replaced included. Whoever the counter remembers found it full, and it is
  still full (`WakerOK`): the one decrement that ends this is the one that wakes.
  A worker that is not scheduled has its waker with the counter, the other
  service or the channel, and what it waits for there has not come (`SleepOK`).
- *FallsBackInOrder* needs, for each stage of the future, what is left of the
  list: while connecting, the attempts that failed, the present one and the
  addresses left are together the list of the request.

The refinements are proved step by step: an action of the detailed module is the
action of the abstract one (`ConnAccounting`, `ServerContract`) that it amounts
to, or a stutter.

## 6. Where documentation and code part

- `panic`. `accept_one` indexes `handles[next_worker]`. When the last handle was
  removed because its send failed, a `WorkerAvailable` that the dead worker had
  queued sets a bit again, `accept_all` believes in a worker, and the thread
  panics on an empty vector. `server.rs` joins it with "Accept thread must not
  panic in any case".
- `pause`. An accept error in the batch that also held a pause arms a deadline
  on a listener already deregistered; a resume registers it and keeps the
  deadline; the next pause skips listeners with a deadline. The listener goes on
  accepting.

Without a run of its own:

- A thread that circles. The stale notification of `panic`, with a handle left:
  it sets the bit of an index that has no handle, and no step of `accept_one`
  clears it. Once the bits of all handles are clear, `accept_one` finds none it
  may send to and does not find that there is none, since `available()` counts
  the stale bit: it goes round among the handles, accepts nothing and takes no
  interest from the waker queue, a Stop included, and the server blocks in the
  join. `handle.rs` says of `stop`: "Stop incoming connection processing, stop all
  workers and exit." It is the state `Circling`, which `StopCompletes` and
  `CallsResolve` except; TLC reaches it with two workers, four connections and one
  fault, and with three workers, five connections and a stop.
- A worker that dies at its limit with a connection in its channel keeps its
  counter at the limit (`worker.rs`: `conn_rx` drops first, without guards). It is
  never sent to, and a fault is found only by sending: it is never restarted, and
  with one worker a client that waits is never accepted. `server.rs` says that
  the server takes care of "restarting faulted workers". `WorkerGone` and
  `SendErr` have this behaviour; the liveness properties do not claim otherwise.
- Dropping a receiver (`mpsc.rs`) clears the buffer while the cell is borrowed. A
  message that owns a sender of the channel borrows it again: the drop panics
  before `has_receiver` is reset, and sends go on succeeding, although
  `SendError` is documented as "Error returned when attempting to send after the
  channels' [Receiver] is dropped or closed". See `DropReceiver`.
- `max_concurrent_tls_connect` is "the maximum number of concurrent TLS
  handshakes per thread". `and_then` calls its second half without asking again
  whether it is ready, so an acceptor that stands second goes past it; and
  `LimitRespected` is about one that stands first.
- `Counter::available` is documented to "register to wake task when it is"; the
  counter remembers one task, so of two that wait on one thread only the last is
  woken. In the server there is one worker per thread, and so one task.
- `ConnectInfo::set_port`: "If request provided a port, this will override it";
  `port()` prefers the port of the request. Ports are not modelled.
- `Framed::close` is documented to "Flush write buffer and
  shutdown underlying I/O stream" and flushes the I/O object only. In `Framed`,
  `PollClose`, `CloseFlushed` and `Shutdown` do what the code does, and
  `OkMeansDelivered` says what a shutdown delivers: the bytes already written.
  What is in `write_buf` is lost unless the caller has flushed.

Seen while modelling, with no sentence of the repository against it: an arbiter
whose registration is handled after the system's exit is never stopped
(`StopReachesArbiters` speaks of those created before the stop); after a failed
send `accept_one` goes on with a worker that may be full; a frame in the buffer given to `FramedParts::with_read_buf` is decoded
only after the first read returns, which a test of the crate expects.

## 7. Model-checked only

Liveness, everywhere: `BacklogDrains`, `StopCompletes`, `StopEndsWorker`,
`ConnsLeaveChannel`, `StartupEnds`, `CallsResolve`, `NoOrphans`,
`StopReachesArbiters`, `StreamServed`, `StreamEnds`, `HandshakesEnd`,
`QueueServed`, `RequestEnds`, `JobsEnd`; the proof system does not
do fairness.

## 8. Not modelled

- the setters of the builder, which carry numbers into the constants of the other
  modules, and the conversions between std, mio and tokio sockets: pure I/O.
- the test server: a helper that runs a `Server` on a thread of its own.
- a listener's future of `GracefulShutdownSignal`: it reads a watch channel of
  tokio; setting it is in `Server`, and what sets it in `ServerContract`.
- bytestring: a string type; its invariant is about the contents of bytes.
- actix-macros: code generation.
- the cryptography of TLS, host and port parsing (`host.rs`, `uri.rs`), names
  that a TLS library refuses by a panic, what a `Connection` carries.
- the worker's shutdown in `TlsAcceptor` (it is in `ServerWorker`).
- of actix-service: the types and the cloning of services; a value is the path it
  took, not its contents.
- of actix-utils: `either`, `ready`, `poll_fn`, futures without state.
- of actix-rt: the thread-local current system and arbiter, timers and sockets.
- `BytesCodec`, encoders that fail, codecs of another kind swapped in half way.
- the four 128-bit words of `Availability`: `avail` is the set they represent.
  An index past 511 would panic; the builder sees to it that there is none.
- connection contents, formatting, logging, metrics of time beyond the order of
  events.

## 9. Left to do

- Models: `BytesCodec` and a codec swapped for another in `Framed`; ports in
  `Connector`.
- Accept thread and workers of `Server` replaced by `AcceptLoop` and
  `ServerWorker` themselves: the product is out of reach of the model checker at
  any useful size, and the contracts (`ConnAccounting`, the fairness above) are
  what stands between them.
