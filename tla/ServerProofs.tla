---------------------------- MODULE ServerProofs ----------------------------
(***************************************************************************)
(* Proofs about Server, for every number of workers, calls and faults: it  *)
(* keeps its contract, ServerContract, and so does the BuiltServer that is *)
(* made of it and a builder.                                               *)
(***************************************************************************)
EXTENDS BuiltServer, TLAPS

-----------------------------------------------------------------------------
(* The inductive invariant.                                                 *)

(* Startup stops waiting with the last report. *)
Awaited == spc \in {"new", "startup"} => awaiting >= 1

(* The accept thread is told to stop where `stopping' is set, or when the   *)
(* server is dropped before.                                                *)
Told ==
    /\ nstop \in {0, 1}
    /\ spc \notin {"drop_join", "dropped"} => (nstop = 1 <=> stopping)
    /\ spc \in {"new", "startup", "register", "idle", "restart"} => ~stopping
    /\ spc \in {"join_workers", "join_accept"} => stopping
    /\ spc = "drop_join" => nstop = 1

(* Where the accept thread cannot run. *)
Listening ==
    /\ spc \in {"new", "startup", "register"} => accept = "absent"
    /\ spc \in Ended \cup {"sleep", "return"} => ~Listens

(* A worker that was reported is gone and its handle removed; it is not     *)
(* reported again until it has been restarted.                              *)
Reported ==
    /\ \A k \in DOMAIN cmds, i \in Idx :
          cmds[k] = WorkerFaulted(i) => worker[i] = "gone" /\ i \notin known
    /\ \A k, l \in DOMAIN cmds, i \in Idx :
          cmds[k] = WorkerFaulted(i) /\ cmds[l] = WorkerFaulted(i) => k = l
    /\ accept = "absent" => \A k \in DOMAIN cmds, i \in Idx : cmds[k] # WorkerFaulted(i)
    /\ spc = "restart" =>
          /\ cur \in Idx \ known
          /\ \A k \in DOMAIN cmds : cmds[k] # WorkerFaulted(cur)

(* A graceful stop waits for every worker that is left. *)
Waited == spc = "join_workers" => \A i \in Idx : i \in Live => i \in asked

IInv == TypeOK /\ Awaited /\ Told /\ Listening /\ Reported /\ Waited

-----------------------------------------------------------------------------
(* The command channel as a sequence.                                       *)

LEMMA TailFacts ==
    ASSUME NEW S, NEW q \in Seq(S), q # <<>>
    PROVE  /\ Tail(q) \in Seq(S)
           /\ Head(q) = q[1] /\ Head(q) \in S
           /\ DOMAIN q = 1 .. Len(q)
           /\ DOMAIN Tail(q) = 1 .. Len(q) - 1
           /\ \A k \in 1 .. Len(q) - 1 : Tail(q)[k] = q[k + 1]
           /\ Len(q) \in Nat \ {0}
OBVIOUS

LEMMA AppendFacts ==
    ASSUME NEW S, NEW q \in Seq(S), NEW x \in S
    PROVE  /\ Append(q, x) \in Seq(S)
           /\ Len(q) \in Nat
           /\ DOMAIN q = 1 .. Len(q)
           /\ DOMAIN Append(q, x) = 1 .. Len(q) + 1
           /\ \A k \in 1 .. Len(q) : Append(q, x)[k] = q[k]
           /\ Append(q, x)[Len(q) + 1] = x
OBVIOUS

LEMMA CommandFields ==
    ASSUME NEW c \in ServerCommand
    PROVE  /\ c.type \in {"Pause", "Resume", "Stop"} => c.call \in Calls
           /\ c.type = "Stop" => c.graceful \in BOOLEAN /\ c.system \in BOOLEAN
           /\ c.type = "WorkerFaulted" => c.idx \in Idx /\ c = WorkerFaulted(c.idx)
BY DEF ServerCommand, WorkerFaulted

(* A call's command is not a report. *)
LEMMA CallCommands ==
    ASSUME NEW c \in Calls, NEW i \in Idx,
           NEW cmd \in {Pause(c), Resume(c)} \cup {Stop(g, c, FALSE) : g \in BOOLEAN}
    PROVE  cmd \in ServerCommand /\ cmd # WorkerFaulted(i)
<1>1. cmd \in ServerCommand /\ cmd.type # "WorkerFaulted"
  <2>1. CASE cmd \in {Pause(c), Resume(c)}
    <3>1. cmd \in [type : {"Pause", "Resume"}, call : Calls] /\ cmd.type # "WorkerFaulted"
      BY <2>1 DEF Pause, Resume
    <3>2. QED
      BY <3>1 DEF ServerCommand
  <2>2. ASSUME NEW g \in BOOLEAN, cmd = Stop(g, c, FALSE)
        PROVE  cmd \in ServerCommand /\ cmd.type # "WorkerFaulted"
    BY <2>2 DEF ServerCommand, Stop
  <2>3. QED
    BY <2>1, <2>2
<1>2. WorkerFaulted(i).type = "WorkerFaulted"
  BY DEF WorkerFaulted
<1>3. QED
  BY <1>1, <1>2

-----------------------------------------------------------------------------
LEMMA TypeInit == Init => TypeOK
<1> SUFFICES ASSUME Init PROVE TypeOK
  OBVIOUS
<1>1. cmds \in Seq(ServerCommand) /\ reports \in Seq(Idx \X BOOLEAN)
  BY DEF Init
<1>2. stops \in [Idx -> Seq(BOOLEAN)]
  BY DEF Init
<1>3. /\ call \in [Calls -> {"unused", "waiting", "done", "dropped"}]
      /\ worker \in [Idx -> {"none", "creating", "serving", "draining", "gone"}]
  BY DEF Init
<1>4. awaiting \in 0 .. NumWorkers /\ faults \in 0 .. MaxFaults /\ cur \in Nat /\ nstop \in Nat
  BY ConstantsAssumption DEF Init
<1>5. QED
  BY <1>1, <1>2, <1>3, <1>4 DEF Init, TypeOK

LEMMA SendStopsType ==
    ASSUME TypeOK, NEW S, NEW g \in BOOLEAN, SendStops(S, g)
    PROVE  stops' \in [Idx -> Seq(BOOLEAN)]
<1>1. \A i \in Idx : stops[i] \in Seq(BOOLEAN) /\ Append(stops[i], g) \in Seq(BOOLEAN)
  BY AppendFacts DEF TypeOK
<1>2. QED
  BY <1>1 DEF SendStops

LEMMA CloseCommandsType ==
    ASSUME TypeOK, CloseCommands
    PROVE  /\ cmds' \in Seq(ServerCommand)
           /\ call' \in [Calls -> {"unused", "waiting", "done", "dropped"}]
<1>1. cmds' \in Seq(ServerCommand)
  BY DEF CloseCommands
<1>2. QED
  BY <1>1 DEF CloseCommands, TypeOK

LEMMA BeginStopType ==
    ASSUME TypeOK, NEW g \in BOOLEAN, NEW c \in Nat, NEW s \in BOOLEAN, BeginStop(g, c, s)
    PROVE  /\ spc' \in {"join_workers", "join_accept"}
           /\ stopping' \in BOOLEAN /\ graceful' \in BOOLEAN /\ cur' \in Nat
           /\ sys' \in {"no", "due", "called"}
           /\ notified' \in BOOLEAN
           /\ nstop' \in Nat
           /\ stops' \in [Idx -> Seq(BOOLEAN)]
           /\ asked' \subseteq Idx
<1>1. SendStops(Idx, g)
  BY DEF BeginStop
<1>2. stops' \in [Idx -> Seq(BOOLEAN)]
  BY <1>1, SendStopsType
<1>3. QED
  BY <1>2 DEF BeginStop, TypeOK

(* What a worker does to its own messages. *)
LEMMA StopsType ==
    ASSUME TypeOK, NEW i \in Idx
    PROVE  /\ [stops EXCEPT ![i] = <<>>] \in [Idx -> Seq(BOOLEAN)]
           /\ stops[i] # <<>> =>
                 [stops EXCEPT ![i] = Tail(stops[i])] \in [Idx -> Seq(BOOLEAN)]
<1>1. stops \in [Idx -> Seq(BOOLEAN)] /\ <<>> \in Seq(BOOLEAN)
  BY DEF TypeOK
<1>2. stops[i] # <<>> => Tail(stops[i]) \in Seq(BOOLEAN)
  BY <1>1, TailFacts
<1>3. QED
  BY <1>1, <1>2

LEMMA ReportType ==
    ASSUME TypeOK, NEW i \in Idx, NEW b \in BOOLEAN
    PROVE  Append(reports, <<i, b>>) \in Seq(Idx \X BOOLEAN)
BY AppendFacts DEF TypeOK
LEMMA TypeStartup ==
    ASSUME TypeOK, Awaited,
           Start \/ StartupOk \/ StartupErr \/ StartupDisconnected \/ StartAccept \/ StartAcceptFails
    PROVE  TypeOK' /\ Awaited'
<1> USE ConstantsAssumption DEF Ended
<1>1. CASE Start
  BY <1>1 DEF Start, TypeOK, Awaited, threads
<1>2. CASE StartupOk
  <2>1. reports' \in Seq(Idx \X BOOLEAN)
    BY <1>2, TailFacts DEF StartupOk, TypeOK
  <2>2. awaiting' \in 0 .. NumWorkers /\ Awaited'
    BY <1>2 DEF StartupOk, TypeOK, Awaited
  <2>3. QED
    BY <1>2, <2>1, <2>2 DEF StartupOk, TypeOK, threads, workers
<1>3. CASE StartupErr
  <2>1. stops' \in [Idx -> Seq(BOOLEAN)]
    BY <1>3, SendStopsType DEF StartupErr
  <2>2. /\ cmds' \in Seq(ServerCommand)
        /\ call' \in [Calls -> {"unused", "waiting", "done", "dropped"}]
    BY <1>3, CloseCommandsType DEF StartupErr
  <2>3. reports' \in Seq(Idx \X BOOLEAN)
    BY <1>3 DEF StartupErr
  <2>4. QED
    BY <1>3, <2>1, <2>2, <2>3 DEF StartupErr, TypeOK, Awaited, threads
<1>4. CASE StartupDisconnected
  <2>1. stops' \in [Idx -> Seq(BOOLEAN)]
    BY <1>4, SendStopsType DEF StartupDisconnected
  <2>2. /\ cmds' \in Seq(ServerCommand)
        /\ call' \in [Calls -> {"unused", "waiting", "done", "dropped"}]
    BY <1>4, CloseCommandsType DEF StartupDisconnected
  <2>3. QED
    BY <1>4, <2>1, <2>2 DEF StartupDisconnected, TypeOK, Awaited, threads
<1>5. CASE StartAccept
  BY <1>5 DEF StartAccept, TypeOK, Awaited, workers
<1>6. CASE StartAcceptFails
  <2>1. /\ cmds' \in Seq(ServerCommand)
        /\ call' \in [Calls -> {"unused", "waiting", "done", "dropped"}]
    BY <1>6, CloseCommandsType DEF StartAcceptFails
  <2>2. QED
    BY <1>6, <2>1 DEF StartAcceptFails, TypeOK, Awaited, threads, workers
<1>7. QED
  BY <1>1, <1>2, <1>3, <1>4, <1>5, <1>6

LEMMA TypeLoop ==
    ASSUME TypeOK, Awaited, Reported,
           TakeSignal \/ TakePauseOrResume \/ TakeStop \/ TakeWorkerFaulted \/ RestartOk
              \/ RestartFails \/ JoinWorkers \/ JoinAccept
    PROVE  TypeOK' /\ Awaited'
<1> USE DEF Ended
<1>0. \A type : Taken(type) => /\ cmds' \in Seq(ServerCommand)
                              /\ Head(cmds) \in ServerCommand /\ Head(cmds).type = type
  BY TailFacts DEF Taken, TypeOK
<1>1. CASE TakeSignal
  <2> DEFINE cmd == map_signal(signal)
  <2>1. cmd.graceful \in BOOLEAN /\ cmd.call \in Nat /\ cmd.system \in BOOLEAN
    BY DEF map_signal, Stop, NoCall
  <2>2. BeginStop(cmd.graceful, cmd.call, cmd.system)
    BY <1>1 DEF TakeSignal
  <2> HIDE DEF cmd
  <2>3. /\ spc' \in {"join_workers", "join_accept"}
        /\ stopping' \in BOOLEAN /\ graceful' \in BOOLEAN /\ cur' \in Nat
        /\ sys' \in {"no", "due", "called"}
        /\ notified' \in BOOLEAN /\ nstop' \in Nat
        /\ stops' \in [Idx -> Seq(BOOLEAN)] /\ asked' \subseteq Idx
    BY <2>1, <2>2, BeginStopType
  <2>4. QED
    BY <1>1, <2>3 DEF TakeSignal, TypeOK, Awaited
<1>2. CASE TakePauseOrResume
  <2>1. cmds' \in Seq(ServerCommand)
    BY <1>0, <1>2 DEF TakePauseOrResume
  <2>2. call' \in [Calls -> {"unused", "waiting", "done", "dropped"}]
    BY <1>2 DEF TakePauseOrResume, TypeOK
  <2>3. QED
    BY <1>2, <2>1, <2>2 DEF TakePauseOrResume, TypeOK, Awaited, loop, threads, workers
<1>3. CASE TakeStop
  <2> DEFINE cmd == Head(cmds)
  <2>1. cmd \in ServerCommand /\ cmd.type = "Stop" /\ cmds' \in Seq(ServerCommand)
    BY <1>0, <1>3 DEF TakeStop
  <2>2. cmd.graceful \in BOOLEAN /\ cmd.call \in Nat
    BY <2>1, CommandFields DEF Calls
  <2>3. BeginStop(cmd.graceful, cmd.call, cmd.system)
    BY <1>3 DEF TakeStop
  <2>4. cmd.system \in BOOLEAN
    BY <2>1, CommandFields
  <2> HIDE DEF cmd
  <2>5. /\ spc' \in {"join_workers", "join_accept"}
        /\ stopping' \in BOOLEAN /\ graceful' \in BOOLEAN /\ cur' \in Nat
        /\ sys' \in {"no", "due", "called"}
        /\ notified' \in BOOLEAN /\ nstop' \in Nat
        /\ stops' \in [Idx -> Seq(BOOLEAN)] /\ asked' \subseteq Idx
    BY <2>2, <2>3, <2>4, BeginStopType
  <2>6. QED
    BY <1>3, <2>1, <2>5 DEF TakeStop, TypeOK, Awaited
<1>4. CASE TakeWorkerFaulted
  <2>1. Head(cmds).idx \in Idx /\ cmds' \in Seq(ServerCommand)
    BY <1>0, <1>4, CommandFields DEF TakeWorkerFaulted
  <2>2. stops' \in [Idx -> Seq(BOOLEAN)]
    BY <1>4, <2>1, StopsType DEF TakeWorkerFaulted
  <2>3. Head(cmds).idx \in Nat
    BY <2>1, ConstantsAssumption DEF Idx
  <2>4. QED
    BY <1>4, <2>1, <2>2, <2>3 DEF TakeWorkerFaulted, TypeOK, Awaited, threads
<1>5. CASE RestartOk
  <2>1. reports' \in Seq(Idx \X BOOLEAN)
    BY <1>5 DEF RestartOk
  <2>2. QED
    BY <1>5, <2>1 DEF RestartOk, TypeOK, Awaited, Reported, workers
<1>6. CASE RestartFails
  <2>1. reports' \in Seq(Idx \X BOOLEAN)
    BY <1>6 DEF RestartFails
  <2>2. QED
    BY <1>6, <2>1 DEF RestartFails, TypeOK, Awaited, threads, workers
<1>7. CASE JoinWorkers
  BY <1>7 DEF JoinWorkers, TypeOK, Awaited, threads, workers
<1>8. CASE JoinAccept
  BY <1>8 DEF JoinAccept, TypeOK, Awaited, threads, workers
<1>9. QED
  BY <1>1, <1>2, <1>3, <1>4, <1>5, <1>6, <1>7, <1>8
LEMMA TypeEnds ==
    ASSUME TypeOK, Awaited,
           JoinPanics \/ Return \/ DropRunning \/ DropJoined \/ DropQuiet
    PROVE  TypeOK' /\ Awaited'
<1> USE DEF Ended
<1>0. CloseCommands => /\ cmds' \in Seq(ServerCommand)
                       /\ call' \in [Calls -> {"unused", "waiting", "done", "dropped"}]
  BY CloseCommandsType
<1>1. CASE JoinPanics
  <2>1. CloseCommands
    BY <1>1 DEF JoinPanics
  <2>2. QED
    BY <1>0, <1>1, <2>1 DEF JoinPanics, TypeOK, Awaited, threads, workers
<1>2. CASE Return
  <2>1. CloseCommands
    BY <1>2 DEF Return
  <2>2. QED
    BY <1>0, <1>2, <2>1 DEF Return, TypeOK, Awaited, threads, workers
<1>3. CASE DropRunning
  <2>1. CloseCommands /\ SendStops(Idx, FALSE)
    BY <1>3 DEF DropRunning
  <2>2. stops' \in [Idx -> Seq(BOOLEAN)]
    BY <2>1, SendStopsType
  <2>3. nstop' \in Nat
    BY <1>3 DEF DropRunning, TypeOK
  <2>4. QED
    BY <1>0, <1>3, <2>1, <2>2, <2>3 DEF DropRunning, TypeOK, Awaited
<1>4. CASE DropJoined
  BY <1>4 DEF DropJoined, TypeOK, Awaited, threads, workers
<1>5. CASE DropQuiet
  <2>1. CloseCommands
    BY <1>5 DEF DropQuiet
  <2>2. QED
    BY <1>0, <1>5, <2>1 DEF DropQuiet, TypeOK, Awaited, threads, workers
<1>6. QED
  BY <1>1, <1>2, <1>3, <1>4, <1>5

LEMMA TypeWorkers ==
    ASSUME TypeOK, Awaited, NEW i \in Idx, WorkerCreates(i) \/ WorkerEnds(i) \/ WorkerDies(i)
    PROVE  TypeOK' /\ Awaited'
<1>0. [stops EXCEPT ![i] = <<>>] \in [Idx -> Seq(BOOLEAN)]
  BY StopsType
<1>1. CASE Created(i)
  <2>1. reports' \in Seq(Idx \X BOOLEAN)
    BY <1>1, ReportType DEF Created, TypeOK
  <2>2. stops' \in [Idx -> Seq(BOOLEAN)]
    BY <1>0, <1>1 DEF Created, TypeOK
  <2>3. worker' \in [Idx -> {"none", "creating", "serving", "draining", "gone"}]
    BY <1>1 DEF Created, TypeOK
  <2>4. QED
    BY <1>1, <2>1, <2>2, <2>3 DEF Created, Released, TypeOK, Awaited, loop, threads
<1>2. CASE CreateFails(i)
  <2>1. reports' \in Seq(Idx \X BOOLEAN)
    BY <1>2, ReportType DEF CreateFails, TypeOK
  <2>2. QED
    BY <1>0, <1>2, <2>1 DEF CreateFails, Released, TypeOK, Awaited, loop, threads
<1>3. CASE CreatePanics(i)
  BY <1>0, <1>3 DEF CreatePanics, TypeOK, Awaited, loop, threads
<1>4. CASE CreateStopped(i)
  BY <1>0, <1>4 DEF CreateStopped, TypeOK, Awaited, loop, threads
<1>5. CASE WorkerStops(i) \/ WorkerDrained(i)
  BY <1>0, <1>5 DEF WorkerStops, WorkerDrained, Gone, TypeOK, Awaited, loop, threads
<1>6. CASE WorkerDies(i)
  BY <1>0, <1>6, ConstantsAssumption DEF WorkerDies, Gone, TypeOK, Awaited, loop, threads
<1>7. CASE WorkerDrains(i)
  <2>1. stops' \in [Idx -> Seq(BOOLEAN)]
    BY <1>7, StopsType DEF WorkerDrains
  <2>2. worker' \in [Idx -> {"none", "creating", "serving", "draining", "gone"}]
    BY <1>7 DEF WorkerDrains, TypeOK
  <2>3. UNCHANGED <<loop, cmds, call, signal, notified, threads, reports, holds, asked, faults>>
    BY <1>7 DEF WorkerDrains
  <2>4. QED
    BY <2>1, <2>2, <2>3 DEF TypeOK, Awaited, loop, threads
<1>8. QED
  BY <1>1, <1>2, <1>3, <1>4, <1>5, <1>6, <1>7 DEF WorkerCreates, WorkerEnds

LEMMA TypeOutside ==
    ASSUME TypeOK, Awaited,
           \/ \E i \in Idx : AcceptFindsFault(i)
           \/ AcceptStops \/ AcceptPanics \/ AcceptCircles
           \/ \E c \in Calls : HandleCall(c)
           \/ Signal
    PROVE  TypeOK' /\ Awaited'
<1>1. ASSUME NEW i \in Idx, AcceptFindsFault(i) PROVE TypeOK' /\ Awaited'
  <2>1. WorkerFaulted(i) \in ServerCommand
    BY DEF ServerCommand, WorkerFaulted
  <2>2. cmds' \in Seq(ServerCommand)
    BY <1>1, <2>1, AppendFacts DEF AcceptFindsFault, TypeOK
  <2>3. QED
    BY <1>1, <2>2 DEF AcceptFindsFault, TypeOK, Awaited, loop, workers
<1>2. CASE AcceptStops \/ AcceptPanics \/ AcceptCircles
  BY <1>2 DEF AcceptStops, AcceptPanics, AcceptCircles, TypeOK, Awaited, loop, workers
<1>3. ASSUME NEW c \in Calls, HandleCall(c) PROVE TypeOK' /\ Awaited'
  <2>1. cmds' \in Seq(ServerCommand)
    <3>1. CASE cmds' = cmds
      BY <3>1 DEF TypeOK
    <3>2. ASSUME NEW cmd \in {Pause(c), Resume(c)} \cup {Stop(g, c, FALSE) : g \in BOOLEAN},
                 cmds' = Append(cmds, cmd)
          PROVE  cmds' \in Seq(ServerCommand)
      <4>1. 0 \in Idx
        BY ConstantsAssumption DEF Idx
      <4>2. cmd \in ServerCommand
        BY <4>1, CallCommands
      <4>3. QED
        BY <3>2, <4>2, AppendFacts DEF TypeOK
    <3>3. QED
      BY <1>3, <3>1, <3>2 DEF HandleCall
  <2>2. call' \in [Calls -> {"unused", "waiting", "done", "dropped"}]
    BY <1>3 DEF HandleCall, TypeOK
  <2>3. QED
    BY <1>3, <2>1, <2>2 DEF HandleCall, TypeOK, Awaited, loop, threads, workers
<1>4. CASE Signal
  BY <1>4 DEF Signal, TypeOK, Awaited, loop, threads, workers
<1>5. QED
  BY <1>1, <1>2, <1>3, <1>4

LEMMA TypeNext == TypeOK /\ Awaited /\ Reported /\ [Next]_vars => TypeOK' /\ Awaited'
<1> SUFFICES ASSUME TypeOK, Awaited, Reported, [Next]_vars PROVE TypeOK' /\ Awaited'
  OBVIOUS
<1>1. CASE UNCHANGED vars
  BY <1>1 DEF TypeOK, Awaited, vars, loop, threads, workers
<1>2. CASE Next
  BY <1>2, TypeStartup, TypeLoop, TypeEnds, TypeWorkers, TypeOutside DEF Next, ServerTask
<1>3. QED
  BY <1>1, <1>2
-----------------------------------------------------------------------------
(* Told and Listening.                                                      *)

(* A worker's steps leave the server's own state alone. *)
LEMMA WorkerSteps ==
    ASSUME NEW i \in Idx, WorkerCreates(i) \/ WorkerEnds(i) \/ WorkerDies(i)
    PROVE  UNCHANGED <<loop, threads>> /\ UNCHANGED <<cmds, call, notified>>
<1>1. CASE WorkerCreates(i)
  BY <1>1 DEF WorkerCreates, Created, CreateFails, CreatePanics, CreateStopped
<1>2. CASE WorkerEnds(i) \/ WorkerDies(i)
  BY <1>2 DEF WorkerEnds, WorkerStops, WorkerDrains, WorkerDrained, WorkerDies, Gone
<1>3. QED
  BY <1>1, <1>2

LEMMA ToldNext == TypeOK /\ Told /\ [Next]_vars => Told'
<1> SUFFICES ASSUME TypeOK, Told, [Next]_vars PROVE Told'
  OBVIOUS
<1> USE DEF Told, Ended
<1>1. CASE Start \/ StartupOk \/ StartAccept
  BY <1>1 DEF Start, StartupOk, StartAccept, threads
<1>2. CASE StartupErr \/ StartupDisconnected \/ StartAcceptFails
  <2>1. CASE StartupErr
    BY <2>1 DEF StartupErr, threads
  <2>2. CASE StartupDisconnected
    BY <2>2 DEF StartupDisconnected, threads
  <2>3. CASE StartAcceptFails
    BY <2>3 DEF StartAcceptFails, threads
  <2>4. QED
    BY <1>2, <2>1, <2>2, <2>3
<1>3. CASE TakeSignal
  BY <1>3 DEF TakeSignal, BeginStop
<1>4. CASE TakeStop
  BY <1>4 DEF TakeStop, Taken, BeginStop
<1>5. CASE TakePauseOrResume
  BY <1>5 DEF TakePauseOrResume, loop, threads
<1>6. CASE TakeWorkerFaulted \/ RestartOk \/ RestartFails
  BY <1>6 DEF TakeWorkerFaulted, Taken, RestartOk, RestartFails, threads
<1>7. CASE JoinWorkers \/ JoinAccept \/ JoinPanics \/ Return
  BY <1>7 DEF JoinWorkers, JoinAccept, JoinPanics, Return, threads
<1>8. CASE DropRunning
  BY <1>8 DEF DropRunning, DropStop
<1>9. CASE DropJoined \/ DropQuiet
  BY <1>9 DEF DropJoined, DropQuiet, threads
<1>10. ASSUME NEW i \in Idx, WorkerCreates(i) \/ WorkerEnds(i) \/ WorkerDies(i) PROVE Told'
  <2>1. UNCHANGED <<loop, threads>>
    BY <1>10, WorkerSteps
  <2>2. QED
    BY <2>1 DEF loop, threads
<1>11. ASSUME NEW i \in Idx, AcceptFindsFault(i) PROVE Told'
  BY <1>11 DEF AcceptFindsFault, loop
<1>12. CASE AcceptStops \/ AcceptPanics \/ AcceptCircles
  BY <1>12 DEF AcceptStops, AcceptPanics, AcceptCircles, loop
<1>13. ASSUME NEW c \in Calls, HandleCall(c) PROVE Told'
  BY <1>13 DEF HandleCall, loop, threads
<1>14. CASE Signal \/ UNCHANGED vars
  BY <1>14 DEF Signal, vars, loop, threads
<1>15. QED
  BY <1>1, <1>2, <1>3, <1>4, <1>5, <1>6, <1>7, <1>8, <1>9, <1>10, <1>11, <1>12, <1>13, <1>14
  DEF Next, ServerTask

LEMMA ListeningNext == TypeOK /\ Listening /\ [Next]_vars => Listening'
<1> SUFFICES ASSUME TypeOK, Listening, [Next]_vars PROVE Listening'
  OBVIOUS
<1> USE DEF Listening, Listens, Ended
<1>1. CASE Start \/ StartupOk \/ StartAccept
  BY <1>1 DEF Start, StartupOk, StartAccept, threads
<1>2. CASE StartupErr \/ StartupDisconnected \/ StartAcceptFails
  <2>1. CASE StartupErr
    BY <2>1 DEF StartupErr, threads
  <2>2. CASE StartupDisconnected
    BY <2>2 DEF StartupDisconnected, threads
  <2>3. CASE StartAcceptFails
    BY <2>3 DEF StartAcceptFails, threads
  <2>4. QED
    BY <1>2, <2>1, <2>2, <2>3
<1>3. CASE TakeSignal
  BY <1>3 DEF TakeSignal, BeginStop
<1>4. CASE TakeStop
  BY <1>4 DEF TakeStop, BeginStop
<1>5. CASE TakePauseOrResume
  BY <1>5 DEF TakePauseOrResume, loop, threads
<1>6. CASE TakeWorkerFaulted \/ RestartOk \/ RestartFails
  BY <1>6 DEF TakeWorkerFaulted, RestartOk, RestartFails, threads
<1>7. CASE JoinWorkers \/ JoinAccept \/ JoinPanics \/ Return
  BY <1>7 DEF JoinWorkers, JoinAccept, AcceptJoined, JoinPanics, Return, threads
<1>8. CASE DropRunning
  BY <1>8 DEF DropRunning
<1>9. CASE DropJoined \/ DropQuiet
  BY <1>9 DEF DropJoined, AcceptJoined, DropQuiet, threads
<1>10. ASSUME NEW i \in Idx, WorkerCreates(i) \/ WorkerEnds(i) \/ WorkerDies(i) PROVE Listening'
  <2>1. UNCHANGED <<loop, threads>>
    BY <1>10, WorkerSteps
  <2>2. QED
    BY <2>1 DEF loop, threads
<1>11. ASSUME NEW i \in Idx, AcceptFindsFault(i) PROVE Listening'
  BY <1>11 DEF AcceptFindsFault, loop
<1>12. CASE AcceptStops \/ AcceptPanics \/ AcceptCircles
  BY <1>12 DEF AcceptStops, AcceptPanics, AcceptCircles, loop
<1>13. ASSUME NEW c \in Calls, HandleCall(c) PROVE Listening'
  BY <1>13 DEF HandleCall, loop, threads
<1>14. CASE Signal \/ UNCHANGED vars
  BY <1>14 DEF Signal, vars, loop, threads
<1>15. QED
  BY <1>1, <1>2, <1>3, <1>4, <1>5, <1>6, <1>7, <1>8, <1>9, <1>10, <1>11, <1>12, <1>13, <1>14
  DEF Next, ServerTask

-----------------------------------------------------------------------------
(* Reported: what each step does to the reports in the channel.             *)

(* The channel keeps its commands, or is closed. *)
LEMMA ReportedSame ==
    ASSUME TypeOK, Reported,
           cmds' = cmds \/ cmds' = <<>>,
           known' = known,
           \A i \in Idx : worker[i] = "gone" => worker'[i] = "gone",
           accept' = "absent" => accept = "absent",
           spc' # "restart" \/ (spc = "restart" /\ cur' = cur)
    PROVE  Reported'
BY DEF Reported

(* Something else than a report was appended. *)
LEMMA ReportedCall ==
    ASSUME TypeOK, Reported, NEW c \in Calls,
           NEW cmd \in {Pause(c), Resume(c)} \cup {Stop(g, c, FALSE) : g \in BOOLEAN},
           cmds' = Append(cmds, cmd),
           UNCHANGED <<spc, cur, known, worker, accept>>
    PROVE  Reported'
<1>1. cmd \in ServerCommand /\ \A i \in Idx : cmd # WorkerFaulted(i)
  <2>1. 0 \in Idx
    BY ConstantsAssumption DEF Idx
  <2>2. QED
    BY <2>1, CallCommands
<1>2. /\ Len(cmds) \in Nat
      /\ DOMAIN cmds = 1 .. Len(cmds)
      /\ DOMAIN cmds' = 1 .. Len(cmds) + 1
      /\ \A k \in 1 .. Len(cmds) : cmds'[k] = cmds[k]
      /\ cmds'[Len(cmds) + 1] = cmd
  BY <1>1, AppendFacts DEF TypeOK
<1>3. \A k \in DOMAIN cmds', i \in Idx :
         cmds'[k] = WorkerFaulted(i) => k \in DOMAIN cmds /\ cmds[k] = WorkerFaulted(i)
  BY <1>1, <1>2
<1>4. QED
  BY <1>3 DEF Reported

(* The first command was taken. *)
LEMMA ReportedTail ==
    ASSUME TypeOK, Reported, cmds # <<>>, cmds' = Tail(cmds)
    PROVE  /\ \A k \in DOMAIN cmds' :
                 k \in Nat /\ k + 1 \in DOMAIN cmds /\ cmds'[k] = cmds[k + 1]
           /\ 1 \in DOMAIN cmds
           /\ cmds[1] = Head(cmds)
BY TailFacts DEF TypeOK

(* Taking a command that is no report. *)
LEMMA ReportedTaken ==
    ASSUME TypeOK, Reported, cmds # <<>>, cmds' = Tail(cmds), spc' # "restart",
           UNCHANGED <<known, worker, accept>>
    PROVE  Reported'
<1> USE DEF Reported
<1>1. \A k \in DOMAIN cmds' : k + 1 \in DOMAIN cmds /\ cmds'[k] = cmds[k + 1] /\ k \in Nat
  BY ReportedTail
<1>2. \A k \in DOMAIN cmds', i \in Idx :
         cmds'[k] = WorkerFaulted(i) => worker'[i] = "gone" /\ i \notin known'
  BY <1>1
<1>3. \A k, l \in DOMAIN cmds', i \in Idx :
         cmds'[k] = WorkerFaulted(i) /\ cmds'[l] = WorkerFaulted(i) => k = l
  <2> SUFFICES ASSUME NEW k \in DOMAIN cmds', NEW l \in DOMAIN cmds', NEW i \in Idx,
                      cmds'[k] = WorkerFaulted(i), cmds'[l] = WorkerFaulted(i)
               PROVE  k = l
    OBVIOUS
  <2>1. k + 1 = l + 1
    BY <1>1
  <2>2. QED
    BY <1>1, <2>1
<1>4. accept' = "absent" => \A k \in DOMAIN cmds', i \in Idx : cmds'[k] # WorkerFaulted(i)
  BY <1>1
<1>5. QED
  BY <1>2, <1>3, <1>4

(* Taking a report: the only one of that worker. *)
LEMMA ReportedFault ==
    ASSUME TypeOK, Reported, TakeWorkerFaulted
    PROVE  Reported' /\ cur' \in Idx /\ worker[cur'] = "gone"
<1> DEFINE j == Head(cmds).idx
<1>1. cmds # <<>> /\ cmds' = Tail(cmds) /\ Head(cmds).type = "WorkerFaulted"
  BY DEF TakeWorkerFaulted, Taken
<1>2. Head(cmds) \in ServerCommand
  BY <1>1, TailFacts DEF TypeOK
<1>3. j \in Idx /\ Head(cmds) = WorkerFaulted(j)
  BY <1>1, <1>2, CommandFields
<1>4. /\ \A k \in DOMAIN cmds' : k + 1 \in DOMAIN cmds /\ cmds'[k] = cmds[k + 1] /\ k \in Nat
      /\ 1 \in DOMAIN cmds /\ cmds[1] = WorkerFaulted(j)
      /\ \A k \in DOMAIN cmds' : k >= 1
  <2>1. \A k \in DOMAIN cmds' : k >= 1
    BY <1>1, TailFacts DEF TypeOK
  <2>2. QED
    BY <1>1, <1>3, <2>1, ReportedTail
<1>5. /\ cur' = j /\ spc' = "restart" /\ known' = known /\ accept' = accept
      /\ worker' = [worker EXCEPT ![j] = "creating"]
  BY DEF TakeWorkerFaulted, threads
<1> HIDE DEF j
<1>6. worker[j] = "gone" /\ j \notin known
  BY <1>3, <1>4 DEF Reported
<1>7. \A k \in DOMAIN cmds', i \in Idx : cmds'[k] = WorkerFaulted(i) => i # j
  <2> SUFFICES ASSUME NEW k \in DOMAIN cmds', cmds'[k] = WorkerFaulted(j) PROVE FALSE
    OBVIOUS
  <2>1. k + 1 \in DOMAIN cmds /\ cmds[k + 1] = WorkerFaulted(j)
    BY <1>4
  <2>2. k + 1 = 1
    BY <1>3, <1>4, <2>1 DEF Reported
  <2>3. QED
    BY <1>4, <2>2
<1>8. \A k \in DOMAIN cmds', i \in Idx :
         cmds'[k] = WorkerFaulted(i) => worker'[i] = "gone" /\ i \notin known'
  <2> SUFFICES ASSUME NEW k \in DOMAIN cmds', NEW i \in Idx, cmds'[k] = WorkerFaulted(i)
               PROVE  worker'[i] = "gone" /\ i \notin known'
    OBVIOUS
  <2>1. worker[i] = "gone" /\ i \notin known
    BY <1>4 DEF Reported
  <2>2. QED
    BY <1>5, <1>7, <2>1 DEF TypeOK
<1>9. \A k, l \in DOMAIN cmds', i \in Idx :
         cmds'[k] = WorkerFaulted(i) /\ cmds'[l] = WorkerFaulted(i) => k = l
  <2> SUFFICES ASSUME NEW k \in DOMAIN cmds', NEW l \in DOMAIN cmds', NEW i \in Idx,
                      cmds'[k] = WorkerFaulted(i), cmds'[l] = WorkerFaulted(i)
               PROVE  k = l
    OBVIOUS
  <2>1. k + 1 = l + 1
    BY <1>4 DEF Reported
  <2>2. QED
    BY <1>4, <2>1
<1>10. accept # "absent"
  BY <1>3, <1>4 DEF Reported
<1>11. cur' \in Idx \ known' /\ \A k \in DOMAIN cmds' : cmds'[k] # WorkerFaulted(cur')
  BY <1>3, <1>5, <1>6, <1>7
<1>12. Reported'
  BY <1>5, <1>8, <1>9, <1>10, <1>11 DEF Reported
<1>13. QED
  BY <1>3, <1>5, <1>6, <1>12

(* The accept thread reports a worker whose handle it has removed. *)
LEMMA ReportedFinds ==
    ASSUME TypeOK, Reported, NEW i \in Idx, AcceptFindsFault(i)
    PROVE  Reported'
<1>1. /\ accept = "running" /\ i \in known /\ worker[i] = "gone"
      /\ known' = known \ {i}
      /\ UNCHANGED <<spc, cur, accept, worker>>
      /\ cmds' = cmds \/ cmds' = Append(cmds, WorkerFaulted(i))
  BY DEF AcceptFindsFault, loop, workers
<1>2. CASE cmds' = cmds
  BY <1>1, <1>2 DEF Reported
<1>3. CASE cmds' = Append(cmds, WorkerFaulted(i))
  <2>1. WorkerFaulted(i) \in ServerCommand
    BY DEF ServerCommand, WorkerFaulted
  <2>2. /\ Len(cmds) \in Nat
        /\ DOMAIN cmds = 1 .. Len(cmds)
        /\ DOMAIN cmds' = 1 .. Len(cmds) + 1
        /\ \A k \in 1 .. Len(cmds) : cmds'[k] = cmds[k]
        /\ cmds'[Len(cmds) + 1] = WorkerFaulted(i)
    BY <1>3, <2>1, AppendFacts DEF TypeOK
  <2>3. \A k \in DOMAIN cmds : cmds[k] # WorkerFaulted(i)
    BY <1>1 DEF Reported
  <2>4. \A j \in Idx : WorkerFaulted(i) = WorkerFaulted(j) => i = j
    BY DEF WorkerFaulted
  <2>5. \A k \in DOMAIN cmds' :
           \/ k \in DOMAIN cmds /\ cmds'[k] = cmds[k]
           \/ k = Len(cmds) + 1 /\ cmds'[k] = WorkerFaulted(i)
    BY <2>2
  <2>6. \A k \in DOMAIN cmds', j \in Idx :
           cmds'[k] = WorkerFaulted(j) => worker'[j] = "gone" /\ j \notin known'
    BY <1>1, <2>4, <2>5 DEF Reported
  <2>7. \A k, l \in DOMAIN cmds', j \in Idx :
           cmds'[k] = WorkerFaulted(j) /\ cmds'[l] = WorkerFaulted(j) => k = l
    BY <2>3, <2>4, <2>5 DEF Reported
  <2>8. spc = "restart" => cur \in Idx /\ cur # i
    BY <1>1 DEF Reported
  <2>9. spc' = "restart" =>
           cur' \in Idx \ known' /\ \A k \in DOMAIN cmds' : cmds'[k] # WorkerFaulted(cur')
    BY <1>1, <2>4, <2>5, <2>8 DEF Reported
  <2>10. QED
    BY <1>1, <2>6, <2>7, <2>9 DEF Reported
<1>4. QED
  BY <1>1, <1>2, <1>3

(* A worker that has ended is started again only by the command loop. *)
LEMMA WorkerEnded ==
    ASSUME TypeOK, NEW i \in Idx, WorkerCreates(i) \/ WorkerEnds(i) \/ WorkerDies(i)
    PROVE  \A j \in Idx : worker[j] = "gone" => worker'[j] = "gone"
<1>1. CASE WorkerCreates(i)
  BY <1>1 DEF WorkerCreates, Created, CreateFails, CreatePanics, CreateStopped, TypeOK
<1>2. CASE WorkerEnds(i) \/ WorkerDies(i)
  BY <1>2 DEF WorkerEnds, WorkerStops, WorkerDrains, WorkerDrained, WorkerDies, Gone, TypeOK
<1>3. QED
  BY <1>1, <1>2

LEMMA ReportedNext == TypeOK /\ Listening /\ Reported /\ [Next]_vars => Reported'
<1> SUFFICES ASSUME TypeOK, Listening, Reported, [Next]_vars PROVE Reported'
  OBVIOUS
<1>1. CASE Start
  <2>1. accept = "absent" /\ UNCHANGED <<cmds, accept>> /\ spc' = "startup"
    BY <1>1 DEF Start, threads, Listening
  <2>2. QED
    BY <2>1 DEF Reported
<1>2. CASE StartAccept
  <2>1. accept = "absent" /\ UNCHANGED cmds /\ spc' = "idle" /\ accept' = "running"
    BY <1>2 DEF StartAccept, Listening
  <2>2. QED
    BY <2>1 DEF Reported
<1>3. CASE StartupOk \/ StartupErr \/ StartupDisconnected \/ StartAcceptFails
  <2>1. spc' # "restart" /\ UNCHANGED <<worker, known, accept>>
    BY <1>3 DEF StartupOk, StartupErr, StartupDisconnected, StartAcceptFails, threads, workers
  <2>2. cmds' = cmds \/ cmds' = <<>>
    BY <1>3 DEF StartupOk, StartupErr, StartupDisconnected, StartAcceptFails, CloseCommands
  <2>3. QED
    BY <2>1, <2>2, ReportedSame
<1>4. CASE TakeSignal
  <2>1. spc' # "restart" /\ UNCHANGED <<cmds, worker, known, accept>>
    BY <1>4 DEF TakeSignal, BeginStop
  <2>2. QED
    BY <2>1, ReportedSame
<1>5. CASE TakePauseOrResume \/ TakeStop
  <2>1. cmds # <<>> /\ cmds' = Tail(cmds) /\ UNCHANGED <<worker, known, accept>>
    BY <1>5 DEF TakePauseOrResume, TakeStop, Taken, threads, workers
  <2>2. spc' # "restart"
    BY <1>5 DEF TakePauseOrResume, TakeStop, Taken, BeginStop, loop
  <2>3. QED
    BY <2>1, <2>2, ReportedTaken
<1>6. CASE TakeWorkerFaulted
  BY <1>6, ReportedFault
<1>7. CASE RestartOk
  <2>1. /\ spc = "restart" /\ spc' = "idle" /\ UNCHANGED <<cmds, worker, accept>>
        /\ known' = known \cup {cur}
    BY <1>7 DEF RestartOk, workers
  <2>2. QED
    BY <2>1 DEF Reported
<1>8. CASE RestartFails \/ JoinWorkers \/ JoinAccept \/ JoinPanics \/ Return
  <2>1. spc' # "restart" /\ UNCHANGED <<worker, known, accept>>
    BY <1>8 DEF RestartFails, JoinWorkers, JoinAccept, JoinPanics, Return, threads, workers
  <2>2. cmds' = cmds \/ cmds' = <<>>
    BY <1>8 DEF RestartFails, JoinWorkers, JoinAccept, JoinPanics, Return, CloseCommands
  <2>3. QED
    BY <2>1, <2>2, ReportedSame
<1>9. CASE DropRunning \/ DropJoined \/ DropQuiet
  <2>1. spc' # "restart" /\ UNCHANGED <<worker, known, accept>>
    BY <1>9 DEF DropRunning, DropJoined, DropQuiet, threads, workers
  <2>2. cmds' = cmds \/ cmds' = <<>>
    BY <1>9 DEF DropRunning, DropJoined, DropQuiet, CloseCommands
  <2>3. QED
    BY <2>1, <2>2, ReportedSame
<1>10. ASSUME NEW i \in Idx, WorkerCreates(i) \/ WorkerEnds(i) \/ WorkerDies(i) PROVE Reported'
  <2>1. UNCHANGED <<loop, threads>> /\ UNCHANGED <<cmds, call>>
    BY <1>10, WorkerSteps
  <2>2. \A j \in Idx : worker[j] = "gone" => worker'[j] = "gone"
    BY <1>10, WorkerEnded
  <2>3. UNCHANGED <<spc, cur, known, accept>>
    BY <2>1 DEF loop, threads
  <2>4. QED
    BY <2>1, <2>2, <2>3, ReportedSame
<1>11. ASSUME NEW i \in Idx, AcceptFindsFault(i) PROVE Reported'
  BY <1>11, ReportedFinds
<1>12. CASE AcceptStops \/ AcceptPanics \/ AcceptCircles
  <2>1. UNCHANGED <<spc, cur, cmds, worker, known>> /\ accept = "running" /\ accept' # "absent"
    BY <1>12 DEF AcceptStops, AcceptPanics, AcceptCircles, loop, workers
  <2>2. QED
    BY <2>1, ReportedSame
<1>13. ASSUME NEW c \in Calls, HandleCall(c) PROVE Reported'
  <2>1. UNCHANGED <<spc, cur, known, worker, accept>>
    BY <1>13 DEF HandleCall, loop, threads, workers
  <2>2. CASE cmds' = cmds
    BY <2>1, <2>2, ReportedSame
  <2>3. ASSUME NEW cmd \in {Pause(c), Resume(c)} \cup {Stop(g, c, FALSE) : g \in BOOLEAN},
               cmds' = Append(cmds, cmd)
        PROVE  Reported'
    BY <2>1, <2>3, ReportedCall
  <2>4. QED
    BY <1>13, <2>2, <2>3 DEF HandleCall
<1>14. CASE Signal \/ UNCHANGED vars
  <2>1. UNCHANGED <<spc, cur, cmds, known, worker, accept>>
    BY <1>14 DEF Signal, vars, loop, threads, workers
  <2>2. QED
    BY <2>1, ReportedSame
<1>15. QED
  BY <1>1, <1>2, <1>3, <1>4, <1>5, <1>6, <1>7, <1>8, <1>9, <1>10, <1>11, <1>12, <1>13, <1>14
  DEF Next, ServerTask

-----------------------------------------------------------------------------
(* Waited.                                                                  *)

LEMMA WaitedStops ==
    ASSUME TypeOK, UNCHANGED worker, asked' = {i \in Idx : worker[i] # "gone"}
    PROVE  Waited'
BY DEF Waited, Live

LEMMA WaitedNext == TypeOK /\ Waited /\ [Next]_vars => Waited'
<1> SUFFICES ASSUME TypeOK, Waited, [Next]_vars PROVE Waited'
  OBVIOUS
<1>1. CASE Start \/ StartupOk \/ StartupErr \/ StartupDisconnected
             \/ StartAccept \/ StartAcceptFails
  <2>1. spc' # "join_workers"
    BY <1>1 DEF Start, StartupOk, StartupErr, StartupDisconnected, StartAccept, StartAcceptFails
  <2>2. QED
    BY <2>1 DEF Waited
<1>2. CASE TakeSignal \/ TakeStop
  <2>1. UNCHANGED worker /\ asked' = {i \in Idx : worker[i] # "gone"}
    BY <1>2 DEF TakeSignal, TakeStop, BeginStop
  <2>2. QED
    BY <2>1, WaitedStops
<1>3. CASE TakeWorkerFaulted \/ TakePauseOrResume \/ RestartOk \/ RestartFails \/ JoinWorkers
             \/ JoinAccept \/ JoinPanics \/ Return
  <2>1. spc' # "join_workers"
    BY <1>3 DEF TakeWorkerFaulted, TakePauseOrResume, Taken, RestartOk, RestartFails, JoinWorkers,
                JoinAccept, JoinPanics, Return, loop
  <2>2. QED
    BY <2>1 DEF Waited
<1>4. CASE DropRunning \/ DropJoined \/ DropQuiet
  <2>1. spc' # "join_workers"
    BY <1>4 DEF DropRunning, DropJoined, DropQuiet
  <2>2. QED
    BY <2>1 DEF Waited
<1>5. ASSUME NEW i \in Idx, WorkerCreates(i) \/ WorkerEnds(i) \/ WorkerDies(i) PROVE Waited'
  <2> SUFFICES ASSUME spc' = "join_workers", NEW j \in Idx, j \in Live'
               PROVE  j \in asked'
    BY DEF Waited
  <2>0. UNCHANGED <<loop, threads>>
    BY <1>5, WorkerSteps
  <2>1. spc = "join_workers" /\ ~Receiving
    BY <2>0 DEF loop, Receiving
  <2>2. CASE WorkerCreates(i)
    BY <2>1, <2>2 DEF WorkerCreates, Created, CreateFails, CreatePanics, CreateStopped, TypeOK,
                      Waited, Live
  <2>3. CASE WorkerDrains(i)
    BY <2>1, <2>3 DEF WorkerDrains, TypeOK, Waited, Live
  <2>4. CASE WorkerStops(i) \/ WorkerDrained(i) \/ WorkerDies(i)
    BY <2>1, <2>4 DEF WorkerStops, WorkerDrained, WorkerDies, Gone, TypeOK, Waited, Live
  <2>5. QED
    BY <1>5, <2>2, <2>3, <2>4 DEF WorkerEnds
<1>6. ASSUME NEW i \in Idx, AcceptFindsFault(i) PROVE Waited'
  BY <1>6 DEF AcceptFindsFault, loop, workers, Waited, Live
<1>7. CASE AcceptStops \/ AcceptPanics \/ AcceptCircles
  BY <1>7 DEF AcceptStops, AcceptPanics, AcceptCircles, loop, workers, Waited, Live
<1>8. ASSUME NEW c \in Calls, HandleCall(c) PROVE Waited'
  BY <1>8 DEF HandleCall, loop, workers, Waited, Live
<1>9. CASE Signal \/ UNCHANGED vars
  BY <1>9 DEF Signal, vars, loop, workers, Waited, Live
<1>10. QED
  BY <1>1, <1>2, <1>3, <1>4, <1>5, <1>6, <1>7, <1>8, <1>9 DEF Next, ServerTask

-----------------------------------------------------------------------------
LEMMA InvInit == Init => IInv
<1> SUFFICES ASSUME Init PROVE IInv
  OBVIOUS
<1>1. TypeOK
  BY TypeInit
<1>2. Awaited /\ Told /\ Listening /\ Waited
  BY ConstantsAssumption DEF Init, Awaited, Told, Listening, Waited, Ended
<1>3. cmds = <<>> /\ spc = "new"
  BY DEF Init
<1>4. Reported
  BY <1>3 DEF Reported
<1>5. QED
  BY <1>1, <1>2, <1>4 DEF IInv

LEMMA InvNext == IInv /\ [Next]_vars => IInv'
BY TypeNext, ToldNext, ListeningNext, ReportedNext, WaitedNext DEF IInv

THEOREM InvHolds == Spec => []IInv
<1>1. QED
  BY InvInit, InvNext, PTL DEF Spec

(* The state stays in its type: a command refers to a call or a worker that *)
(* exists, and the startup count stays between nothing and every worker.    *)
THEOREM TypeCorrect == Spec => []TypeOK
<1>1. IInv => TypeOK
  BY DEF IInv
<1>2. QED
  BY <1>1, InvHolds, PTL

-----------------------------------------------------------------------------
(* The server implements its contract.                                      *)

LEMMA StatusValues ==
    /\ StatusAt("new") = "new"
    /\ StatusAt("startup") = "starting" /\ StatusAt("register") = "starting"
    /\ StatusAt("idle") = "running" /\ StatusAt("restart") = "running"
    /\ StatusAt("join_workers") = "draining" /\ StatusAt("join_accept") = "stopping"
    /\ StatusAt("sleep") = "stopped" /\ StatusAt("return") = "stopped"
    /\ StatusAt("drop_join") = "dropping"
    /\ \A pc \in Ended : StatusAt(pc) = "ended"
BY DEF StatusAt, Ended

LEMMA Stutters ==
    ASSUME StatusAt(spc)' = StatusAt(spc), accept' = accept, nstop' = nstop, notified' = notified, Live' = Live
    PROVE  UNCHANGED Contract!vars
BY DEF Contract!vars, Listens

LEMMA ContractInit == Init => Contract!Init
<1> SUFFICES ASSUME Init PROVE Contract!Init
  OBVIOUS
<1>1. spc = "new" /\ accept = "absent" /\ nstop = 0 /\ Live = {} /\ ~notified
  BY DEF Init, Live
<1>2. QED
  BY <1>1, StatusValues DEF Contract!Init, Listens

LEMMA BeginsStop ==
    ASSUME TypeOK, Told, spc = "idle", UNCHANGED <<accept, worker>>,
           NEW g \in BOOLEAN, NEW c, NEW s, BeginStop(g, c, s)
    PROVE  Contract!Stop
<1>1. nstop = 0 /\ nstop' = 1 /\ Live' = Live
      /\ \/ spc' = "join_workers" /\ notified' = TRUE
         \/ spc' = "join_accept" /\ notified' = notified
  BY DEF BeginStop, Told, Live, Idx, TypeOK
<1>2. /\ StatusAt(spc) = "running"
      /\ spc' = "join_workers" => StatusAt(spc)' = "draining"
      /\ spc' = "join_accept" => StatusAt(spc)' = "stopping"
  BY StatusValues
<1>3. QED
  BY <1>1, <1>2 DEF Contract!Stop, Contract!Tell, Listens

LEMMA Ends ==
    ASSUME Listening, spc' \in Ended, UNCHANGED <<accept, nstop, notified, worker>>,
           spc \in {"new", "startup", "register", "sleep", "return"}
              \/ (spc \in {"join_accept", "drop_join"} /\ ~Listens)
    PROVE  Contract!End
<1>1. ~Listens /\ Live' = Live /\ Listens' = Listens
  BY DEF Listening, Listens, Live, Idx
<1>2. StatusAt(spc) # "running" /\ StatusAt(spc)' = "ended"
  BY StatusValues
<1>3. QED
  BY <1>1, <1>2 DEF Contract!End

LEMMA Leaves ==
    ASSUME TypeOK, NEW i \in Idx, i \in Live, worker' = [worker EXCEPT ![i] = "gone"],
           UNCHANGED <<spc, accept, nstop, notified>>
    PROVE  Contract!Leave(i)
<1>1. Live' = Live \ {i}
  BY DEF Live, TypeOK, Idx
<1>2. StatusAt(spc)' = StatusAt(spc)
  OBVIOUS
<1>3. QED
  BY <1>1, <1>2 DEF Contract!Leave, Listens

LEMMA ContractStart ==
    ASSUME IInv, Start \/ StartupOk \/ StartupErr \/ StartupDisconnected
                    \/ StartAccept \/ StartAcceptFails
    PROVE  [Contract!Next]_Contract!vars
<1> USE DEF IInv
<1>1. CASE Start
  <2>1. spc = "new" /\ spc' = "startup" /\ UNCHANGED <<accept, nstop, notified>> /\ Live' = Idx
    BY <1>1 DEF Start, threads, Live, Idx
  <2>2. StatusAt(spc) = "new" /\ StatusAt(spc)' = "starting"
    BY <2>1, StatusValues
  <2>3. Contract!Begin
    BY <2>1, <2>2 DEF Contract!Begin, Listens
  <2>4. QED
    BY <2>3 DEF Contract!Next
<1>2. CASE StartupOk
  <2>1. /\ spc = "startup" /\ spc' \in {"startup", "register"}
        /\ UNCHANGED <<accept, nstop, notified>> /\ Live' = Live
    BY <1>2 DEF StartupOk, threads, workers, Live, Idx
  <2>2. StatusAt(spc)' = StatusAt(spc)
    BY <2>1, StatusValues
  <2>3. QED
    BY <2>1, <2>2, Stutters
<1>3. CASE StartupErr \/ StartupDisconnected \/ StartAcceptFails
  <2>1. /\ spc \in {"startup", "register"} /\ spc' \in Ended
        /\ UNCHANGED <<accept, nstop, notified, worker>>
    <3>1. CASE StartupErr
      BY <3>1 DEF StartupErr, threads, Ended
    <3>2. CASE StartupDisconnected
      BY <3>2 DEF StartupDisconnected, threads, Ended
    <3>3. CASE StartAcceptFails
      BY <3>3 DEF StartAcceptFails, threads, workers, Ended
    <3>4. QED
      BY <1>3, <3>1, <3>2, <3>3
  <2>2. Contract!End
    BY <2>1, Ends
  <2>3. QED
    BY <2>2 DEF Contract!Next
<1>4. CASE StartAccept
  <2>1. /\ spc = "register" /\ spc' = "idle" /\ accept' = "running"
        /\ UNCHANGED <<nstop, notified>> /\ Live' = Live
    BY <1>4 DEF StartAccept, workers, Live, Idx
  <2>2. StatusAt(spc) = "starting" /\ StatusAt(spc)' = "running"
    BY <2>1, StatusValues
  <2>3. Contract!Open
    BY <2>1, <2>2 DEF Contract!Open, Listens
  <2>4. QED
    BY <2>3 DEF Contract!Next
<1>5. QED
  BY <1>1, <1>2, <1>3, <1>4

LEMMA ContractLoop ==
    ASSUME IInv, TakeSignal \/ TakePauseOrResume \/ TakeStop \/ TakeWorkerFaulted
                    \/ RestartOk \/ RestartFails
    PROVE  [Contract!Next]_Contract!vars
<1> USE DEF IInv
<1>1. CASE TakeSignal
  <2> DEFINE cmd == map_signal(signal)
  <2>1. spc = "idle" /\ UNCHANGED <<accept, worker>>
    BY <1>1 DEF TakeSignal
  <2>2. BeginStop(cmd.graceful, cmd.call, cmd.system)
    BY <1>1 DEF TakeSignal
  <2>3. cmd.graceful \in BOOLEAN
    BY DEF map_signal, Stop
  <2>4. Contract!Stop
    BY <2>1, <2>2, <2>3, BeginsStop
  <2>5. QED
    BY <2>4 DEF Contract!Next
<1>2. CASE TakeStop
  <2> DEFINE cmd == Head(cmds)
  <2>1. spc = "idle" /\ UNCHANGED <<accept, worker>>
    BY <1>2 DEF TakeStop, Taken
  <2>2. BeginStop(cmd.graceful, cmd.call, cmd.system)
    BY <1>2 DEF TakeStop
  <2>3. cmd.graceful \in BOOLEAN
    BY <1>2, CommandFields, TailFacts DEF TakeStop, Taken, TypeOK
  <2>4. Contract!Stop
    BY <2>1, <2>2, <2>3, BeginsStop
  <2>5. QED
    BY <2>4 DEF Contract!Next
<1>3. CASE TakePauseOrResume
  <2>1. UNCHANGED <<spc, accept, nstop, notified>> /\ Live' = Live
    BY <1>3 DEF TakePauseOrResume, loop, threads, workers, Live, Idx
  <2>2. QED
    BY <2>1, Stutters
<1>4. CASE TakeWorkerFaulted
  <2>1. cur' \in Idx /\ worker[cur'] = "gone"
    BY <1>4, ReportedFault
  <2>2. /\ spc = "idle" /\ spc' = "restart" /\ UNCHANGED <<accept, nstop, notified>>
        /\ worker' = [worker EXCEPT ![cur'] = "creating"]
    BY <1>4 DEF TakeWorkerFaulted, Taken, threads
  <2>3. cur' \notin Live /\ Live' = Live \cup {cur'}
    BY <2>1, <2>2 DEF Live, TypeOK, Idx
  <2>4. StatusAt(spc) = "running" /\ StatusAt(spc)' = StatusAt(spc)
    BY <2>2, StatusValues
  <2>5. Contract!Restart(cur')
    BY <2>1, <2>2, <2>3, <2>4 DEF Contract!Restart, Listens
  <2>6. QED
    BY <2>1, <2>5 DEF Contract!Next
<1>5. CASE RestartOk \/ RestartFails
  <2>1. /\ spc = "restart" /\ spc' = "idle"
        /\ UNCHANGED <<accept, nstop, notified>> /\ Live' = Live
    BY <1>5 DEF RestartOk, RestartFails, threads, workers, Live, Idx
  <2>2. StatusAt(spc)' = StatusAt(spc)
    BY <2>1, StatusValues
  <2>3. QED
    BY <2>1, <2>2, Stutters
<1>6. QED
  BY <1>1, <1>2, <1>3, <1>4, <1>5

LEMMA ContractEnd ==
    ASSUME IInv, JoinWorkers \/ JoinAccept \/ JoinPanics \/ Return
                    \/ DropRunning \/ DropJoined \/ DropQuiet
    PROVE  [Contract!Next]_Contract!vars
<1> USE DEF IInv
<1>1. CASE JoinWorkers
  <2>1. /\ spc = "join_workers" /\ spc' = "join_accept" /\ asked = {}
        /\ UNCHANGED <<accept, nstop, notified>> /\ Live' = Live
    BY <1>1 DEF JoinWorkers, WorkersJoined, threads, workers, Live, Idx
  <2>2. Live = {}
    BY <2>1 DEF Waited, Live
  <2>3. StatusAt(spc) = "draining" /\ StatusAt(spc)' = "stopping"
    BY <2>1, StatusValues
  <2>4. Contract!Drained
    BY <2>1, <2>2, <2>3 DEF Contract!Drained, Listens
  <2>5. QED
    BY <2>4 DEF Contract!Next
<1>2. CASE JoinAccept
  <2>1. /\ spc = "join_accept" /\ spc' \in {"sleep", "return"} /\ ~Listens
        /\ UNCHANGED <<accept, nstop, notified>> /\ Live' = Live
    BY <1>2 DEF JoinAccept, AcceptJoined, Listens, threads, workers, Live, Idx
  <2>2. StatusAt(spc) = "stopping" /\ StatusAt(spc)' = "stopped"
    BY <2>1, StatusValues
  <2>3. Contract!Stopped
    BY <2>1, <2>2 DEF Contract!Stopped, Listens
  <2>4. QED
    BY <2>3 DEF Contract!Next
<1>3. CASE JoinPanics \/ Return \/ DropJoined \/ DropQuiet
  <2>1. /\ spc' \in Ended /\ UNCHANGED <<accept, nstop, notified, worker>>
        /\ \/ spc \in {"new", "startup", "register", "sleep", "return"}
           \/ spc \in {"join_accept", "drop_join"} /\ ~Listens
    BY <1>3 DEF JoinPanics, Return, DropJoined, AcceptJoined, Listens, DropQuiet, threads, workers, Ended
  <2>2. Contract!End
    BY <2>1, Ends
  <2>3. QED
    BY <2>2 DEF Contract!Next
<1>4. CASE DropRunning
  <2>1. /\ spc \in {"idle", "join_workers"} /\ spc' = "drop_join"
        /\ UNCHANGED <<accept, notified>> /\ Live' = Live
        /\ nstop' = IF stopping THEN nstop ELSE nstop + 1
    BY <1>4 DEF DropRunning, DropStop, Live, Idx
  <2>2. (nstop = 0 /\ nstop' = 1) \/ (nstop = 1 /\ nstop' = nstop)
    BY <2>1 DEF Told, TypeOK
  <2>3. StatusAt(spc) \in {"running", "draining"} /\ StatusAt(spc)' = "dropping"
    BY <2>1, StatusValues
  <2>4. Contract!Drop
    BY <2>1, <2>2, <2>3 DEF Contract!Drop, Contract!Tell, Listens
  <2>5. QED
    BY <2>4 DEF Contract!Next
<1>5. QED
  BY <1>1, <1>2, <1>3, <1>4

LEMMA ContractWorkers ==
    ASSUME IInv, NEW i \in Idx, WorkerCreates(i) \/ WorkerEnds(i) \/ WorkerDies(i)
    PROVE  [Contract!Next]_Contract!vars
<1> USE DEF IInv
<1>1. UNCHANGED <<spc, accept, nstop, notified>>
  <2>1. UNCHANGED <<loop, threads>> /\ UNCHANGED notified
    BY WorkerSteps
  <2>2. QED
    BY <2>1 DEF loop, threads
<1>2. i \in Live /\ (worker' = [worker EXCEPT ![i] = "gone"] \/ Live' = Live)
  <2>1. CASE WorkerCreates(i)
    BY <2>1 DEF WorkerCreates, Created, CreateFails, CreatePanics, CreateStopped, Live, TypeOK, Idx
  <2>2. CASE WorkerDrains(i)
    BY <2>2 DEF WorkerDrains, Live, TypeOK, Idx
  <2>3. CASE WorkerStops(i) \/ WorkerDrained(i) \/ WorkerDies(i)
    BY <2>3 DEF WorkerStops, WorkerDrained, WorkerDies, Gone, Live
  <2>4. QED
    BY <2>1, <2>2, <2>3 DEF WorkerEnds
<1>3. CASE worker' = [worker EXCEPT ![i] = "gone"]
  <2>1. Contract!Leave(i)
    BY <1>1, <1>2, <1>3, Leaves
  <2>2. QED
    BY <2>1 DEF Contract!Next
<1>4. CASE Live' = Live
  BY <1>1, <1>4, Stutters
<1>5. QED
  BY <1>2, <1>3, <1>4

LEMMA ContractOutside ==
    ASSUME IInv,
           \/ \E i \in Idx : AcceptFindsFault(i)
           \/ AcceptStops \/ AcceptPanics \/ AcceptCircles
           \/ \E c \in Calls : HandleCall(c)
           \/ Signal \/ UNCHANGED vars
    PROVE  [Contract!Next]_Contract!vars
<1> USE DEF IInv
<1>1. CASE AcceptStops \/ AcceptPanics
  <2>1. /\ Listens /\ ~Listens'
        /\ UNCHANGED <<spc, nstop, notified>> /\ Live' = Live
        /\ nstop > 0 \/ AcceptPanics
    BY <1>1 DEF AcceptStops, AcceptPanics, Listens, loop, workers, Live, Idx
  <2>2. spc \in {"idle", "restart", "join_workers", "join_accept", "drop_join"}
    BY <2>1 DEF Listening, Listens, TypeOK
  <2>3. nstop = 1 \/ StatusAt(spc) = "running"
    <3>1. CASE spc \in {"idle", "restart"}
      BY <3>1, StatusValues
    <3>2. CASE spc \in {"join_workers", "join_accept", "drop_join"}
      BY <3>2 DEF Told
    <3>3. QED
      BY <1>1, <2>2, <3>1, <3>2
  <2>4. StatusAt(spc)' = StatusAt(spc)
    BY <2>1
  <2>5. Contract!Close
    BY <2>1, <2>3, <2>4 DEF Contract!Close
  <2>6. QED
    BY <2>5 DEF Contract!Next
<1>2. CASE \E i \in Idx : AcceptFindsFault(i)
  <2>1. UNCHANGED <<spc, accept, nstop, notified>> /\ Live' = Live
    BY <1>2 DEF AcceptFindsFault, loop, workers, Live, Idx
  <2>2. QED
    BY <2>1, Stutters
<1>3. CASE \E c \in Calls : HandleCall(c)
  <2>1. UNCHANGED <<spc, accept, nstop, notified>> /\ Live' = Live
    BY <1>3 DEF HandleCall, loop, threads, workers, Live, Idx
  <2>2. QED
    BY <2>1, Stutters
<1>4. CASE Signal \/ UNCHANGED vars
  <2>1. UNCHANGED <<spc, accept, nstop, notified>> /\ Live' = Live
    BY <1>4 DEF Signal, vars, loop, threads, workers, Live, Idx
  <2>2. QED
    BY <2>1, Stutters
<1>5. CASE AcceptCircles
  <2>1. /\ Listens' = Listens
        /\ UNCHANGED <<spc, nstop, notified>> /\ Live' = Live
    BY <1>5 DEF AcceptCircles, Listens, loop, workers, Live, Idx
  <2>2. QED
    BY <2>1 DEF Contract!vars
<1>6. QED
  BY <1>1, <1>2, <1>3, <1>4, <1>5

LEMMA ContractNext == IInv /\ [Next]_vars => [Contract!Next]_Contract!vars
BY ContractStart, ContractLoop, ContractEnd, ContractWorkers, ContractOutside DEF Next, ServerTask

(* Whatever is restarted, dropped or fails on the way, and for every number *)
(* of workers: the server ends only with its listeners closed, tells its    *)
(* accept thread to stop once, never starts a worker whose predecessor      *)
(* still runs, and does not go past a graceful stop while a worker is left. *)
THEOREM ContractKept == Spec => KeepsContract
<1>1. Spec => []IInv
  BY InvHolds
<1>2. QED
  BY <1>1, ContractInit, ContractNext, PTL DEF Spec, KeepsContract, Contract!Spec

(* A server that comes out of a builder, and whose workers create their     *)
(* services one after the other, is such a server.                          *)
LEMMA BuiltIsServer == BuiltSpec => Spec
<1>1. BuiltInit => Init
  BY DEF BuiltInit
<1>2. [BuiltNext]_allVars => [Next]_vars
  <2>1. CASE Building \/ (\E i \in Idx : create(i))
    BY <2>1 DEF Building, create
  <2>2. CASE Serving
    BY <2>2 DEF Serving
  <2>3. CASE UNCHANGED allVars
    BY <2>3 DEF allVars
  <2>4. QED
    BY <2>1, <2>2, <2>3 DEF BuiltNext
<1>3. QED
  BY <1>1, <1>2, PTL DEF BuiltSpec, Spec

(* The server that a user builds and runs keeps the contract too. *)
THEOREM BuiltContractKept == BuiltSpec => KeepsContract
BY BuiltIsServer, ContractKept

-----------------------------------------------------------------------------
(* From an address to its service.                                          *)

(* Listeners and factories stand at their tokens, and an address has the    *)
(* listener of the call that bound it.                                      *)
Tokens ==
    /\ builds \in Nat
    /\ sockets \in Seq([token : Nat, io : {"tcp", "uds"}, by : Nat, addr : Addrs \cup Paths])
    /\ factories \in Seq([token : Nat, io : {"tcp", "uds"}, by : Nat])
    /\ phase = "building" => token = Len(sockets)
    /\ Len(factories) = Len(sockets)
    /\ \A k \in 1 .. Len(sockets) :
          /\ sockets[k].token = k - 1
          /\ factories[k].token = k - 1
          /\ factories[k].io = sockets[k].io
          /\ factories[k].by = sockets[k].by
    /\ \A a \in DOMAIN at :
          \E k \in 1 .. Len(sockets) : sockets[k].addr = a /\ sockets[k].by = at[a]

(* What a worker has created are the services of the first factories; one   *)
(* that serves has them all.                                                *)
ServicesMade ==
    /\ \A i \in Idx :
          /\ services[i] \in Seq([token : Nat, io : {"tcp", "uds"}, by : Nat])
          /\ Len(services[i]) <= Len(factories)
          /\ \A k \in 1 .. Len(services[i]) : services[i][k] = factories[k]
          /\ worker[i] \in {"serving", "draining"} => Len(services[i]) = Len(factories)
          /\ phase # "built" => worker[i] = "none" /\ services[i] = <<>>
    /\ services \in [Idx -> Seq([token : Nat, io : {"tcp", "uds"}, by : Nat])]

LEMMA FunctionIsSeq ==
    ASSUME NEW S, NEW n \in Nat, NEW f \in [1 .. n -> S]
    PROVE  f \in Seq(S) /\ Len(f) = n /\ DOMAIN f = 1 .. n
OBVIOUS

LEMMA TokensPush ==
    ASSUME Tokens, phase = "building", builds' \in Nat, phase' = "building",
           NEW addrs \in Seq(Addrs \cup Paths), NEW io \in {"tcp", "uds"}, B!Push(addrs, io)
    PROVE  Tokens'
<1> DEFINE n == Len(sockets)
           m == Len(addrs)
           F == [token : Nat, io : {"tcp", "uds"}, by : Nat]
           S == [token : Nat, io : {"tcp", "uds"}, by : Nat, addr : Addrs \cup Paths]
           fs == [k \in DOMAIN addrs |-> [token |-> token + k - 1, io |-> io, by |-> builds']]
           ss == [k \in DOMAIN addrs |->
                    [token |-> token + k - 1, io |-> io, by |-> builds', addr |-> addrs[k]]]
<1>1. /\ m \in Nat /\ DOMAIN addrs = 1 .. m /\ \A k \in 1 .. m : addrs[k] \in Addrs \cup Paths
      /\ n \in Nat /\ token = n /\ Len(factories) = n
      /\ sockets \in Seq(S) /\ factories \in Seq(F)
  BY DEF Tokens
<1>2. fs \in [1 .. m -> F] /\ ss \in [1 .. m -> S]
  BY <1>1
<1>3. fs \in Seq(F) /\ Len(fs) = m /\ ss \in Seq(S) /\ Len(ss) = m
  BY <1>1, <1>2, FunctionIsSeq
<1>4. token' = n + m /\ factories' = factories \o fs /\ sockets' = sockets \o ss
  BY <1>1 DEF B!Push, B!next_token
<1>5. \A k \in 1 .. m :
         /\ fs[k] = [token |-> n + k - 1, io |-> io, by |-> builds']
         /\ ss[k] = [token |-> n + k - 1, io |-> io, by |-> builds', addr |-> addrs[k]]
  BY <1>1
<1>6. \A a \in DOMAIN at' :
         \/ at'[a] = builds' /\ \E k \in 1 .. m : a = addrs[k]
         \/ a \in DOMAIN at /\ at'[a] = at[a]
  <2>1. at' = [a \in DOMAIN at \cup B!ToSet(addrs) |->
                  IF a \in B!ToSet(addrs) THEN builds' ELSE at[a]]
    BY DEF B!Push
  <2>2. B!ToSet(addrs) = {addrs[k] : k \in 1 .. m}
    BY <1>1 DEF B!ToSet
  <2> HIDE DEF n, m, fs, ss, F, S
  <2>3. QED
    BY <2>1, <2>2
<1> HIDE DEF n, m, fs, ss, F, S
<1>7. /\ factories' \in Seq(F) /\ Len(factories') = n + m
      /\ \A k \in 1 .. n : factories'[k] = factories[k]
      /\ \A k \in 1 .. m : factories'[n + k] = fs[k]
  <2>0. factories \in Seq(F) /\ fs \in Seq(F)
    BY <1>1, <1>3
  <2>1. /\ factories \o fs \in Seq(F)
        /\ Len(factories \o fs) = Len(factories) + Len(fs)
        /\ \A k \in 1 .. Len(factories) : (factories \o fs)[k] = factories[k]
        /\ \A k \in 1 .. Len(fs) : (factories \o fs)[Len(factories) + k] = fs[k]
    BY <2>0
  <2>2. QED
    BY <1>1, <1>3, <1>4, <2>1
<1>8. /\ sockets' \in Seq(S) /\ Len(sockets') = n + m
      /\ \A k \in 1 .. n : sockets'[k] = sockets[k]
      /\ \A k \in 1 .. m : sockets'[n + k] = ss[k]
  <2>1. Len(sockets) = n
    BY DEF n
  <2>0. sockets \in Seq(S) /\ ss \in Seq(S)
    BY <1>1, <1>3
  <2>2. /\ sockets \o ss \in Seq(S)
        /\ Len(sockets \o ss) = Len(sockets) + Len(ss)
        /\ \A k \in 1 .. Len(sockets) : (sockets \o ss)[k] = sockets[k]
        /\ \A k \in 1 .. Len(ss) : (sockets \o ss)[Len(sockets) + k] = ss[k]
    BY <2>0
  <2>3. QED
    BY <1>3, <1>4, <2>1, <2>2
<1>9. \A k \in 1 .. n + m : k \in 1 .. n \/ \E j \in 1 .. m : k = n + j
  <2> SUFFICES ASSUME NEW k \in 1 .. n + m, k \notin 1 .. n PROVE k - n \in 1 .. m /\ k = n + (k - n)
    OBVIOUS
  <2>1. QED
    BY <1>1
<1>10. \A k \in 1 .. n + m :
          /\ sockets'[k].token = k - 1
          /\ factories'[k].token = k - 1
          /\ factories'[k].io = sockets'[k].io
          /\ factories'[k].by = sockets'[k].by
  <2> SUFFICES ASSUME NEW k \in 1 .. n + m
               PROVE  /\ sockets'[k].token = k - 1
                      /\ factories'[k].token = k - 1
                      /\ factories'[k].io = sockets'[k].io
                      /\ factories'[k].by = sockets'[k].by
    OBVIOUS
  <2>1. CASE k \in 1 .. n
    BY <1>7, <1>8, <2>1 DEF Tokens, n
  <2>2. ASSUME NEW j \in 1 .. m, k = n + j
        PROVE  /\ sockets'[k].token = k - 1
               /\ factories'[k].token = k - 1
               /\ factories'[k].io = sockets'[k].io
               /\ factories'[k].by = sockets'[k].by
    <3>1. factories'[k] = fs[j] /\ sockets'[k] = ss[j]
      BY <1>7, <1>8, <2>2
    <3>2. /\ fs[j] = [token |-> n + j - 1, io |-> io, by |-> builds']
          /\ ss[j] = [token |-> n + j - 1, io |-> io, by |-> builds', addr |-> addrs[j]]
      BY <1>5
    <3>3. QED
      BY <1>1, <2>2, <3>1, <3>2
  <2>3. QED
    BY <1>9, <2>1, <2>2
<1>11. \A a \in DOMAIN at' :
          \E k \in 1 .. n + m : sockets'[k].addr = a /\ sockets'[k].by = at'[a]
  <2> SUFFICES ASSUME NEW a \in DOMAIN at'
               PROVE  \E k \in 1 .. n + m : sockets'[k].addr = a /\ sockets'[k].by = at'[a]
    OBVIOUS
  <2>1. ASSUME at'[a] = builds', NEW j \in 1 .. m, a = addrs[j]
        PROVE  \E k \in 1 .. n + m : sockets'[k].addr = a /\ sockets'[k].by = at'[a]
    <3>1. n + j \in 1 .. n + m
      BY <1>1
    <3>2. sockets'[n + j].addr = a /\ sockets'[n + j].by = at'[a]
      <4>1. sockets'[n + j] = ss[j]
        BY <1>8
      <4>2. ss[j] = [token |-> n + j - 1, io |-> io, by |-> builds', addr |-> addrs[j]]
        BY <1>5
      <4>3. QED
        BY <2>1, <4>1, <4>2
    <3>3. QED
      BY <3>1, <3>2
  <2>2. CASE a \in DOMAIN at /\ at'[a] = at[a]
    <3>1. PICK k \in 1 .. n : sockets[k].addr = a /\ sockets[k].by = at[a]
      BY <2>2 DEF Tokens, n
    <3>2. k \in 1 .. n + m
      BY <1>1
    <3>3. QED
      BY <1>8, <2>2, <3>1, <3>2
  <2>3. QED
    BY <1>6, <2>1, <2>2
<1>12. QED
  BY <1>4, <1>7, <1>8, <1>10, <1>11 DEF Tokens, F, S

LEMMA TokensFails ==
    ASSUME builds' \in Nat, B!Fails
    PROVE  Tokens'
<1>1. phase' = "failed" /\ factories' = <<>> /\ sockets' = <<>> /\ DOMAIN at' = {}
  BY DEF B!Fails
<1>2. QED
  BY <1>1 DEF Tokens

LEMMA TokensNext == Tokens /\ [BuiltNext]_allVars => Tokens'
<1> SUFFICES ASSUME Tokens, [BuiltNext]_allVars PROVE Tokens'
  OBVIOUS
<1>0. B!Build => builds' \in Nat /\ phase = "building"
  BY DEF B!Build, Tokens
<1>1. ASSUME NEW addrs \in Seq(Addrs \cup Paths), NEW io \in {"tcp", "uds"},
             B!Build, B!Push(addrs, io)
      PROVE  Tokens'
  <2>1. phase' = "building"
    BY <1>0, <1>1 DEF B!Push
  <2>2. QED
    BY <1>0, <1>1, <2>1, TokensPush
<1>2. CASE B!bind
  <2>1. CASE B!Fails
    BY <1>0, <1>2, <2>1, TokensFails DEF B!bind
  <2>2. ASSUME NEW bound \in B!bind_addr, B!Push(bound, "tcp") PROVE Tokens'
    <3>1. PICK n \in 1 .. B!Cardinality(Addrs) : bound \in [1 .. n -> Addrs]
      <4>1. bound \in UNION {[1 .. n -> Addrs \ DOMAIN at] : n \in 1 .. B!Cardinality(Addrs)}
        BY DEF B!bind_addr, B!create_mio_tcp_listener
      <4>2. PICK n \in 1 .. B!Cardinality(Addrs) : bound \in [1 .. n -> Addrs \ DOMAIN at]
        BY <4>1
      <4>3. QED
        BY <4>2
    <3>2. bound \in Seq(Addrs \cup Paths)
      BY <3>1
    <3>3. B!Build
      BY <1>2 DEF B!bind
    <3>4. QED
      BY <1>1, <2>2, <3>2, <3>3
  <2>3. QED
    BY <1>2, <2>1, <2>2 DEF B!bind
<1>3. CASE B!listen \/ B!bind_uds \/ B!listen_uds
  <2>1. CASE B!Fails
    BY <1>0, <1>3, <2>1, TokensFails DEF B!listen, B!bind_uds, B!listen_uds
  <2>2. ASSUME NEW a \in Addrs \cup Paths, NEW io \in {"tcp", "uds"}, B!Push(<<a>>, io)
        PROVE  Tokens'
    <3>1. <<a>> \in Seq(Addrs \cup Paths)
      OBVIOUS
    <3>2. B!Build
      BY <1>3 DEF B!listen, B!bind_uds, B!listen_uds
    <3>3. QED
      BY <1>1, <2>2, <3>1, <3>2
  <2>3. QED
    BY <1>3, <2>1, <2>2 DEF B!listen, B!bind_uds, B!listen_uds
<1>4. CASE B!run
  BY <1>4 DEF B!run, Tokens
<1>5. CASE (\E i \in Idx : create(i)) \/ Serving \/ UNCHANGED allVars
  <2>1. UNCHANGED builder
    BY <1>5 DEF create, Serving, allVars
  <2>2. QED
    BY <2>1 DEF builder, Tokens
<1>6. QED
  BY <1>2, <1>3, <1>4, <1>5 DEF BuiltNext, Building, B!Next

(* A worker serves when its services have been created, not otherwise. *)
LEMMA Serves ==
    ASSUME TypeOK, Next, NEW i \in Idx, worker'[i] \in {"serving", "draining"}
    PROVE  \/ worker[i] \in {"serving", "draining"}
           \/ worker[i] = "creating" /\ worker'[i] = "serving"
<1>1. CASE UNCHANGED worker
  BY <1>1
<1>2. CASE Start \/ TakeWorkerFaulted
  <2>1. CASE Start
    BY <2>1 DEF Start
  <2>2. CASE TakeWorkerFaulted
    BY <2>2 DEF TakeWorkerFaulted, TypeOK
  <2>3. QED
    BY <1>2, <2>1, <2>2
<1>3. ASSUME NEW j \in Idx, WorkerCreates(j) \/ WorkerEnds(j) \/ WorkerDies(j)
      PROVE  \/ worker[i] \in {"serving", "draining"}
             \/ worker[i] = "creating" /\ worker'[i] = "serving"
  <2>1. CASE WorkerCreates(j)
    BY <2>1 DEF WorkerCreates, Created, CreateFails, CreatePanics, CreateStopped, TypeOK
  <2>2. CASE WorkerEnds(j) \/ WorkerDies(j)
    BY <2>2 DEF WorkerEnds, WorkerStops, WorkerDrains, WorkerDrained, WorkerDies, Gone, TypeOK
  <2>3. QED
    BY <1>3, <2>1, <2>2
<1>4. QED
  <2>1. CASE StartupOk \/ StartupErr \/ StartupDisconnected \/ StartAccept \/ StartAcceptFails
    BY <1>1, <2>1 DEF StartupOk, StartupErr, StartupDisconnected, StartAccept, StartAcceptFails, workers
  <2>2. CASE TakeSignal \/ TakePauseOrResume \/ TakeStop \/ RestartOk \/ RestartFails
    BY <1>1, <2>2 DEF TakeSignal, TakePauseOrResume, TakeStop, RestartOk, RestartFails, workers
  <2>3. CASE JoinWorkers \/ JoinAccept \/ JoinPanics \/ Return
    BY <1>1, <2>3 DEF JoinWorkers, JoinAccept, JoinPanics, Return, workers
  <2>4. CASE DropRunning \/ DropJoined \/ DropQuiet
    BY <1>1, <2>4 DEF DropRunning, DropJoined, DropQuiet, workers
  <2>5. CASE (\E j \in Idx : AcceptFindsFault(j)) \/ AcceptStops \/ AcceptPanics \/ AcceptCircles
                \/ (\E c \in Calls : HandleCall(c)) \/ Signal
    BY <1>1, <2>5 DEF AcceptFindsFault, AcceptStops, AcceptPanics, AcceptCircles, HandleCall, Signal, workers
  <2>6. QED
    BY <1>2, <1>3, <2>1, <2>2, <2>3, <2>4, <2>5 DEF Next, ServerTask

LEMMA ServicesNext ==
    TypeOK /\ Tokens /\ ServicesMade /\ [BuiltNext]_allVars => ServicesMade'
<1> SUFFICES ASSUME TypeOK, Tokens, ServicesMade, [BuiltNext]_allVars PROVE ServicesMade'
  OBVIOUS
<1> DEFINE F == [token : Nat, io : {"tcp", "uds"}, by : Nat]
<1>1. CASE Building
  <2>1. phase = "building" /\ UNCHANGED <<worker, services>>
    BY <1>1 DEF Building, B!Next, B!bind, B!listen, B!bind_uds, B!listen_uds, B!run, B!Build,
                vars, workers
  <2>2. \A i \in Idx : worker[i] = "none" /\ services[i] = <<>>
    BY <2>1 DEF ServicesMade
  <2>3. Len(factories)' \in Nat
    BY TokensNext DEF Tokens
  <2>4. QED
    BY <2>1, <2>2, <2>3 DEF ServicesMade
<1>2. ASSUME NEW i \in Idx, create(i) PROVE ServicesMade'
  <2> DEFINE n == Len(services[i])
  <2>1. /\ worker[i] = "creating" /\ n < Len(factories)
        /\ services' = [services EXCEPT ![i] = Append(services[i], factories[n + 1])]
        /\ UNCHANGED <<worker, phase, factories>>
    BY <1>2 DEF create, clone_factory, vars, workers, builder
  <2>2. services[i] \in Seq(F) /\ n \in Nat /\ factories \in Seq(F) /\ Len(factories) \in Nat
    BY DEF ServicesMade, Tokens
  <2>3. n + 1 \in 1 .. Len(factories) /\ factories[n + 1] \in F
    <3> HIDE DEF n, F
    <3>1. n + 1 \in 1 .. Len(factories)
      BY <2>1, <2>2
    <3>2. QED
      BY <2>2, <3>1
  <2>4. /\ services'[i] \in Seq(F) /\ Len(services'[i]) = n + 1
        /\ \A k \in 1 .. n : services'[i][k] = services[i][k]
        /\ services'[i][n + 1] = factories[n + 1]
    <3>1. services'[i] = Append(services[i], factories[n + 1])
      BY <2>1 DEF ServicesMade
    <3>2. QED
      BY <2>2, <2>3, <3>1, AppendFacts
  <2>5. services' \in [Idx -> Seq(F)] /\ \A j \in Idx \ {i} : services'[j] = services[j]
    BY <2>1, <2>2, <2>3 DEF ServicesMade
  <2>6. \A k \in 1 .. Len(services'[i]) : services'[i][k] = factories[k]
    <3>1. \A k \in 1 .. n : services[i][k] = factories[k]
      BY DEF ServicesMade
    <3> HIDE DEF n
    <3>2. \A k \in 1 .. n + 1 : k \in 1 .. n \/ k = n + 1
      BY <2>2
    <3>3. QED
      BY <2>4, <3>1, <3>2
  <2>7. phase = "built"
    BY <2>1 DEF ServicesMade
  <2>8. QED
    BY <2>1, <2>2, <2>4, <2>5, <2>6, <2>7 DEF ServicesMade
<1>3. CASE Serving
  <2>1. /\ phase = "built" /\ phase' = phase /\ factories' = factories
        /\ services' = [i \in Idx |-> IF Kept(i) THEN services[i] ELSE <<>>]
        /\ \A i \in Idx :
              worker[i] = "creating" /\ worker'[i] = "serving" =>
                  Len(services[i]) = Len(factories)
    BY <1>3 DEF Serving, builder, AllCreated
  <2>2. \A i \in Idx :
           worker'[i] \in {"serving", "draining"} =>
               Kept(i) /\ Len(services[i]) = Len(factories)
    BY <1>3, <2>1, Serves DEF Serving, Kept, ServicesMade
  <2>3. services' \in [Idx -> Seq(F)]
    BY <2>1 DEF ServicesMade
  <2>4. Len(factories) \in Nat
    BY DEF Tokens
  <2>5. \A i \in Idx : services'[i] = services[i] \/ (services'[i] = <<>> /\ ~Kept(i))
    BY <2>1
  <2>6. QED
    BY <2>1, <2>2, <2>3, <2>4, <2>5 DEF ServicesMade
<1>4. CASE UNCHANGED allVars
  BY <1>4 DEF allVars, vars, workers, builder, ServicesMade
<1>5. QED
  BY <1>1, <1>2, <1>3, <1>4 DEF BuiltNext

LEMMA ServedRight == TypeOK /\ Tokens /\ ServicesMade => RightService
<1> SUFFICES ASSUME TypeOK, Tokens, ServicesMade,
                    NEW i \in known, NEW a \in DOMAIN at, worker[i] \in {"serving", "draining"}
             PROVE  \E l \in ToSet(sockets) :
                       /\ l.addr = a /\ l.by = at[a]
                       /\ AcceptedAt(l) = l
                       /\ HandedTo(i, l).by = at[a]
                       /\ HandedTo(i, l).io = l.io
                       /\ HandedTo(i, l).token = l.token
  BY DEF RightService
<1>1. PICK k \in 1 .. Len(sockets) : sockets[k].addr = a /\ sockets[k].by = at[a]
  BY DEF Tokens
<1> DEFINE l == sockets[k]
<1>2. l \in ToSet(sockets)
  <2>1. k \in DOMAIN sockets
    BY DEF Tokens
  <2>2. QED
    BY <2>1, Zenon DEF ToSet
<1>3. k \in Nat /\ l.token = k - 1
  BY DEF Tokens
<1>4. AcceptedAt(l) = l
  <2>1. l.token + 1 = k
    BY <1>3
  <2>2. QED
    BY <2>1 DEF AcceptedAt
<1>5. HandedTo(i, l) = factories[k]
  <2>1. l.token + 1 = k
    BY <1>3
  <2>2. HandedTo(i, l) = services[i][k]
    BY <1>4, <2>1 DEF HandedTo
  <2>3. i \in Idx
    BY DEF TypeOK
  <2>4. k \in 1 .. Len(services[i])
    BY <2>3 DEF ServicesMade, Tokens
  <2>5. QED
    BY <2>2, <2>3, <2>4 DEF ServicesMade
<1>6. factories[k].by = at[a] /\ factories[k].io = l.io /\ factories[k].token = l.token
  BY <1>1 DEF Tokens
<1>7. QED
  BY <1>1, <1>2, <1>4, <1>5, <1>6

(* Through every bind, listen and restart: in every worker that the accept  *)
(* thread knows, a client meets the service that was bound to its address,  *)
(* with a stream of the kind that it takes.                                 *)
THEOREM ServiceIsRight == BuiltSpec => []RightService
<1>1. BuiltInit => Tokens /\ ServicesMade
  <2> SUFFICES ASSUME BuiltInit PROVE Tokens /\ ServicesMade
    OBVIOUS
  <2>1. /\ builds = 0 /\ sockets = <<>> /\ factories = <<>> /\ token = 0
        /\ at = [a \in {} |-> 0] /\ services = [i \in Idx |-> <<>>]
        /\ worker = [i \in Idx |-> "none"]
    BY DEF BuiltInit, B!Init, Init
  <2>2. Tokens
    BY <2>1 DEF Tokens
  <2>3. ServicesMade
    BY <2>1 DEF ServicesMade
  <2>4. QED
    BY <2>2, <2>3
<1>2. BuiltSpec => []TypeOK
  BY BuiltIsServer, TypeCorrect, PTL
<1>3. TypeOK /\ Tokens /\ ServicesMade /\ [BuiltNext]_allVars => (Tokens /\ ServicesMade)'
  BY TokensNext, ServicesNext
<1>4. BuiltSpec => [](Tokens /\ ServicesMade)
  BY <1>1, <1>2, <1>3, PTL DEF BuiltSpec
<1>5. QED
  BY <1>2, <1>4, ServedRight, PTL
=============================================================================
