------------------------ MODULE ArbiterSystemProofs ------------------------
(***************************************************************************)
(* Proofs about ArbiterSystem, for every number of arbiters and futures    *)
(* and every bound: one exit code for everyone, and a registry that        *)
(* follows the arbiters' threads.                                          *)
(***************************************************************************)
EXTENDS ArbiterSystem, TLAPS

-----------------------------------------------------------------------------
(* The controller's channel as a sequence.                                  *)

LEMMA AppendFacts ==
    ASSUME NEW S, NEW q \in Seq(S), NEW x \in S
    PROVE  /\ Append(q, x) \in Seq(S)
           /\ Len(Append(q, x)) = Len(q) + 1
           /\ \A k \in 1 .. Len(q) : Append(q, x)[k] = q[k]
           /\ Append(q, x)[Len(q) + 1] = x
OBVIOUS

LEMMA TailFacts ==
    ASSUME NEW S, NEW q \in Seq(S), q # <<>>
    PROVE  /\ Tail(q) \in Seq(S)
           /\ Head(q) = q[1] /\ Head(q) \in S
           /\ Len(q) \in Nat \ {0}
           /\ Len(Tail(q)) = Len(q) - 1
           /\ \A k \in 1 .. Len(q) - 1 : Tail(q)[k] = q[k + 1]
OBVIOUS

LEMMA CommandFields ==
    ASSUME NEW c \in SystemCommand
    PROVE  /\ c.type = "Exit" => c.code \in 1 .. MaxStops /\ c = Exit(c.code)
           /\ c.type = "RegisterArbiter" => c.id \in Ids /\ c = RegisterArbiter(c.id)
           /\ c.type = "DeregisterArbiter" => c.id \in Ids /\ c = DeregisterArbiter(c.id)
BY DEF SystemCommand, Exit, RegisterArbiter, DeregisterArbiter

-----------------------------------------------------------------------------
LEMMA TypeInit == Init => TypeOK
<1> SUFFICES ASSUME Init PROVE TypeOK
  OBVIOUS
<1>1. queue \in Seq(SystemCommand)
  BY DEF Init, SystemCommand, Ids
<1>2. QED
  BY <1>1, ConstantsAssumption DEF Init, TypeOK, Ids, Pending, Failed

LEMMA SendType ==
    ASSUME queue \in Seq(SystemCommand), NEW c \in SystemCommand, SendSystem(c)
    PROVE  queue' \in Seq(SystemCommand)
BY DEF SendSystem

LEMMA TypeNext == TypeOK /\ [Next]_vars => TypeOK'
<1> SUFFICES ASSUME TypeOK, [Next]_vars PROVE TypeOK'
  OBVIOUS
<1> USE ConstantsAssumption DEF TypeOK
<1>1. CASE CtrlExit
  <2>1. Head(queue).code \in 1 .. MaxStops
    BY <1>1, TailFacts, CommandFields DEF CtrlExit, Received
  <2>2. queue' \in Seq(SystemCommand)
    BY <1>1, TailFacts DEF CtrlExit, Received
  <2>3. chan' \in [Ids -> Seq({"Stop", "Execute"})]
    BY <1>1 DEF CtrlExit
  <2>4. code' \in 0 .. MaxStops /\ stop_tx' \in BOOLEAN
    <3>1. code' = Head(queue).code \/ code' = code
      BY <1>1 DEF CtrlExit, Publish
    <3>2. code' \in 0 .. MaxStops
      BY <2>1, <3>1
    <3>3. stop_tx' = FALSE
      BY <1>1 DEF CtrlExit, Publish
    <3>4. QED
      BY <3>2, <3>3
  <2>5. QED
    BY <1>1, <2>2, <2>3, <2>4 DEF CtrlExit
<1>2. CASE CtrlRegister
  <2>1. Head(queue).id \in Ids /\ queue' \in Seq(SystemCommand)
    BY <1>2, TailFacts, CommandFields DEF CtrlRegister, Received
  <2>2. QED
    BY <1>2, <2>1 DEF CtrlRegister
<1>3. CASE CtrlDeregister
  <2>1. queue' \in Seq(SystemCommand)
    BY <1>3, TailFacts DEF CtrlDeregister, Received
  <2>2. QED
    BY <1>3, <2>1 DEF CtrlDeregister, Remove
<1>4. CASE Run \/ BlockOn
  BY <1>4 DEF Run, BlockOn
<1>5. CASE RunReturns \/ DropRunner
  <2>1. SysArbiter \in Ids
    BY DEF Ids
  <2>2. DropRuntime /\ runner' \in {"returned", "dropped"}
    BY <1>5 DEF RunReturns, DropRunner
  <2>3. arb' \in [Ids -> {"unborn", "start", "registered", "run", "stopped", "done", "failed"}]
    BY <2>1, <2>2 DEF DropRuntime
  <2>4. queue' \in Seq(SystemCommand) /\ chan' \in [Ids -> Seq({"Stop", "Execute"})]
    BY <2>1, <2>2 DEF DropRuntime
  <2>5. UNCHANGED <<registry, stop_tx, code, waiter, created, nstops, before, ncmds>>
    BY <2>2 DEF DropRuntime
  <2>6. QED
    BY <2>2, <2>3, <2>4, <2>5
<1>6. ASSUME NEW w \in Waiters, WaiterPoll(w) PROVE TypeOK'
  <2>1. Failed \in Failed .. MaxStops /\ code \in Failed .. MaxStops
    BY DEF Failed
  <2>2. waiter' \in [Waiters -> Failed .. MaxStops]
    BY <1>6, <2>1 DEF WaiterPoll
  <2>3. UNCHANGED <<runner, queue, registry, stop_tx, code, arb, created, chan, nstops,
                    before, ncmds>>
    BY <1>6 DEF WaiterPoll
  <2>4. QED
    BY <2>2, <2>3
<1>7. ASSUME NEW a \in Arbiters, New(a) PROVE TypeOK'
  <2>1. a \in Ids
    BY DEF Ids
  <2>2. QED
    BY <1>7, <2>1 DEF New
<1>8. ASSUME NEW a \in Ids, Thread(a) PROVE TypeOK'
  <2>1. CASE FactoryFails(a)
    BY <2>1 DEF FactoryFails
  <2>2. CASE Register(a)
    <3>1. queue' \in Seq(SystemCommand)
      BY <2>2, SendType DEF Register, SendRegister, SystemCommand
    <3>2. QED
      BY <2>2, <3>1 DEF Register
  <2>3. CASE Ready(a)
    BY <2>3, <1>8 DEF Ready
  <2>4. CASE PollExecute(a) \/ PollStop(a)
    <3>1. chan[a] \in Seq({"Stop", "Execute"})
      BY <1>8
    <3>2. chan' \in [Ids -> Seq({"Stop", "Execute"})]
      <4>1. CASE PollExecute(a)
        <5>1. chan[a] # <<>> /\ chan' = [chan EXCEPT ![a] = Tail(chan[a])]
          BY <4>1 DEF PollExecute
        <5>2. Tail(chan[a]) \in Seq({"Stop", "Execute"})
          BY <3>1, <5>1
        <5>3. QED
          BY <5>1, <5>2
      <4>2. CASE PollStop(a)
        BY <4>2 DEF PollStop
      <4>3. QED
        BY <2>4, <4>1, <4>2
    <3>3. arb' \in [Ids -> {"unborn", "start", "registered", "run", "stopped", "done", "failed"}]
      BY <2>4 DEF PollExecute, PollStop
    <3>4. UNCHANGED <<runner, queue, registry, stop_tx, code, waiter, created, nstops,
                      before, ncmds>>
      BY <2>4 DEF PollExecute, PollStop
    <3>5. QED
      BY <3>2, <3>3, <3>4
  <2>5. CASE Deregister(a)
    <3>1. queue' \in Seq(SystemCommand)
      BY <2>5, SendType DEF Deregister, SystemCommand
    <3>2. QED
      BY <2>5, <3>1 DEF Deregister
  <2>6. QED
    BY <1>8, <2>1, <2>2, <2>3, <2>4, <2>5 DEF Thread
<1>9. ASSUME NEW a \in Ids, NEW cmd \in {"Stop", "Execute"}, Command(a, cmd) PROVE TypeOK'
  BY <1>9 DEF Command
<1>10. CASE StopWithCode
  <2>1. Exit(nstops + 1) \in SystemCommand
    <3>1. nstops + 1 \in 1 .. MaxStops
      BY <1>10 DEF StopWithCode
    <3>2. QED
      BY <3>1 DEF SystemCommand
  <2>2. queue' \in Seq(SystemCommand)
    BY <1>10, <2>1, SendType DEF StopWithCode
  <2>3. QED
    BY <1>10, <2>2 DEF StopWithCode
<1>11. CASE UNCHANGED vars
  BY <1>11 DEF vars
<1>12. QED
  BY <1>1, <1>2, <1>3, <1>4, <1>5, <1>6, <1>7, <1>8, <1>9, <1>10, <1>11 DEF Next, Controller

(* Every variable keeps its type.                                           *)
THEOREM TypeCorrect == Spec => []TypeOK
<1>1. QED
  BY TypeInit, TypeNext, PTL DEF Spec

-----------------------------------------------------------------------------
(* The exit code.                                                           *)

IsExit(k) == queue[k].type = "Exit"

(* While the code is not published, the command of the first call is in the *)
(* channel before that of any other.                                        *)
FirstExitLeads ==
    /\ nstops = 0 => \A k \in 1 .. Len(queue) : ~IsExit(k)
    /\ nstops > 0 /\ Alive => ~stop_tx \/ InQueue(Exit(1))
    /\ code = 0 => \A k \in 1 .. Len(queue) :
                     IsExit(k) => queue[k] = Exit(1) \/ \E j \in 1 .. k - 1 : queue[j] = Exit(1)

CodeOnce ==
    /\ code = 0 <=> stop_tx
    /\ \A w \in Waiters : waiter[w] = Failed => ~Alive

ExitInv == FirstStopWins /\ FirstExitLeads /\ CodeOnce

LEMMA ExitInit == Init => ExitInv
<1> SUFFICES ASSUME Init PROVE ExitInv
  OBVIOUS
<1>1. Len(queue) = 1 /\ queue[1] = RegisterArbiter(SysArbiter) /\ ~IsExit(1)
  BY DEF Init, IsExit, RegisterArbiter
<1>2. QED
  BY <1>1 DEF Init, ExitInv, FirstStopWins, FirstExitLeads, CodeOnce, IsExit, Pending, Failed

(* A command that is no Exit leaves the order of the Exits as it is.        *)
LEMMA SendOther ==
    ASSUME TypeOK, ExitInv, NEW c \in SystemCommand, c.type # "Exit", SendSystem(c),
           UNCHANGED <<runner, stop_tx, code, waiter, nstops>>
    PROVE  ExitInv'
<1>1. CASE ~Alive
  BY <1>1 DEF SendSystem, ExitInv, FirstStopWins, FirstExitLeads, CodeOnce, IsExit, InQueue, Alive
<1>2. CASE Alive
  <2>1. /\ Len(queue') = Len(queue) + 1
        /\ \A k \in 1 .. Len(queue) : queue'[k] = queue[k]
        /\ queue'[Len(queue) + 1] = c
    BY <1>2, AppendFacts DEF SendSystem, TypeOK
  <2>2. Len(queue) \in Nat
    BY DEF TypeOK
  <2>3. (\A k \in 1 .. Len(queue) : ~IsExit(k)) => \A k \in 1 .. Len(queue') : ~IsExit(k)'
    BY <2>1, <2>2 DEF IsExit
  <2>4. InQueue(Exit(1)) => InQueue(Exit(1))'
    BY <2>1, <2>2 DEF InQueue, Exit
  <2>5. FirstExitLeads'
    BY <2>1, <2>2, <2>3, <2>4 DEF ExitInv, FirstExitLeads, IsExit, Alive
  <2>6. QED
    BY <2>5 DEF ExitInv, FirstStopWins, CodeOnce, Alive
<1>3. QED
  BY <1>1, <1>2

(* So does taking one.                                                      *)
LEMMA TakeOther ==
    ASSUME TypeOK, ExitInv, queue # <<>>, queue' = Tail(queue), Head(queue).type # "Exit",
           UNCHANGED <<runner, stop_tx, code, waiter, nstops>>
    PROVE  ExitInv'
<1>1. /\ Len(queue) \in Nat \ {0} /\ Len(queue') = Len(queue) - 1
      /\ \A k \in 1 .. Len(queue) - 1 : queue'[k] = queue[k + 1]
      /\ ~IsExit(1)
  BY TailFacts DEF TypeOK, IsExit
<1>2. \A j \in 1 .. Len(queue) : queue[j] = Exit(1) => j # 1 /\ queue'[j - 1] = Exit(1)
  BY <1>1 DEF IsExit, Exit
<1>3. InQueue(Exit(1)) => InQueue(Exit(1))'
  <2>1. SUFFICES ASSUME NEW j \in 1 .. Len(queue), queue[j] = Exit(1)
                 PROVE  InQueue(Exit(1))'
    BY DEF InQueue
  <2>2. j - 1 \in 1 .. Len(queue') /\ queue'[j - 1] = Exit(1)
    BY <1>1, <1>2, <2>1
  <2>3. QED
    BY <2>2 DEF InQueue, Exit
<1>4. ASSUME code = 0, NEW k \in 1 .. Len(queue'), IsExit(k)'
      PROVE  queue'[k] = Exit(1) \/ \E j \in 1 .. k - 1 : queue'[j] = Exit(1)
  <2>1. k + 1 \in 1 .. Len(queue) /\ IsExit(k + 1) /\ queue'[k] = queue[k + 1]
    BY <1>1, <1>4 DEF IsExit
  <2>2. CASE queue[k + 1] = Exit(1)
    BY <2>1, <2>2
  <2>3. CASE \E j \in 1 .. k : queue[j] = Exit(1)
    <3>1. PICK j \in 1 .. k : queue[j] = Exit(1)
      BY <2>3
    <3>2. j - 1 \in 1 .. k - 1 /\ queue'[j - 1] = Exit(1)
      BY <1>1, <1>2, <2>1, <3>1
    <3>3. QED
      BY <3>2
  <2>4. QED
    BY <2>1, <2>2, <2>3, <1>4 DEF ExitInv, FirstExitLeads
<1>5. nstops = 0 => \A k \in 1 .. Len(queue') : ~IsExit(k)'
  BY <1>1 DEF ExitInv, FirstExitLeads, IsExit
<1>6. FirstExitLeads'
  BY <1>3, <1>4, <1>5 DEF ExitInv, FirstExitLeads, IsExit, Exit, Alive
<1>7. QED
  BY <1>6 DEF ExitInv, FirstStopWins, CodeOnce, Alive

LEMMA ExitNext == TypeOK /\ ExitInv /\ [Next]_vars => ExitInv'
<1> SUFFICES ASSUME TypeOK, ExitInv, [Next]_vars PROVE ExitInv'
  OBVIOUS
<1> USE ConstantsAssumption
<1>1. CASE CtrlExit
  <2>1. Polling /\ Alive /\ Alive'
    BY <1>1 DEF CtrlExit, Received, Polling, Alive
  <2>2. /\ queue # <<>> /\ queue' = Tail(queue) /\ IsExit(1)
        /\ Len(queue) \in Nat \ {0} /\ Head(queue) = queue[1]
        /\ Len(queue') = Len(queue) - 1
        /\ \A k \in 1 .. Len(queue) - 1 : queue'[k] = queue[k + 1]
    BY <1>1, TailFacts DEF CtrlExit, Received, TypeOK, IsExit
  <2>3. code = 0 => Head(queue).code = 1
    BY <2>2 DEF ExitInv, FirstExitLeads, Exit
  <2>4. code' = 1 /\ stop_tx' = FALSE /\ waiter' = waiter /\ nstops' = nstops
    BY <1>1, <2>3 DEF CtrlExit, Publish, ExitInv, CodeOnce, FirstStopWins
  <2>5. \A w \in Waiters : waiter[w] # Pending => waiter[w] = 1
    BY <2>1 DEF ExitInv, FirstStopWins, CodeOnce, TypeOK
  <2>6. nstops # 0
    BY <2>2 DEF ExitInv, FirstExitLeads
  <2>7. FirstExitLeads'
    BY <2>4, <2>6 DEF FirstExitLeads
  <2>8. FirstStopWins' /\ CodeOnce'
    BY <2>4, <2>5 DEF FirstStopWins, CodeOnce, Failed, Pending
  <2>9. QED
    BY <2>7, <2>8 DEF ExitInv
<1>2. CASE CtrlRegister \/ CtrlDeregister
  BY <1>2, TakeOther DEF CtrlRegister, CtrlDeregister, Received
<1>3. CASE Run \/ BlockOn
  BY <1>3 DEF Run, BlockOn, ExitInv, FirstStopWins, FirstExitLeads, CodeOnce, IsExit, InQueue, Alive
<1>4. CASE RunReturns \/ DropRunner
  <2>1. queue' = <<>> /\ UNCHANGED <<stop_tx, code, waiter, nstops>> /\ ~Alive'
    BY <1>4 DEF RunReturns, DropRunner, DropRuntime, Alive
  <2>2. QED
    BY <2>1 DEF ExitInv, FirstStopWins, FirstExitLeads, CodeOnce, IsExit
<1>5. ASSUME NEW w \in Waiters, WaiterPoll(w) PROVE ExitInv'
  <2>1. UNCHANGED <<runner, queue, stop_tx, code, nstops>>
    BY <1>5 DEF WaiterPoll
  <2>2. FirstExitLeads'
    BY <2>1 DEF ExitInv, FirstExitLeads, IsExit, InQueue, Alive
  <2>3. waiter \in [Waiters -> Failed .. MaxStops] /\ code \in {0, 1} /\ (code = 0 <=> stop_tx)
    BY DEF TypeOK, ExitInv, FirstStopWins, CodeOnce
  <2>4. \/ code = 1 /\ waiter' = [waiter EXCEPT ![w] = 1]
        \/ code = 0 /\ ~Alive /\ waiter' = [waiter EXCEPT ![w] = Failed]
    BY <1>5, <2>3 DEF WaiterPoll
  <2>5. FirstStopWins'
    BY <2>1, <2>3, <2>4 DEF ExitInv, FirstStopWins, Failed
  <2>6. \A v \in Waiters : waiter'[v] = Failed => waiter[v] = Failed \/ ~Alive
    BY <2>3, <2>4 DEF Failed
  <2>7. CodeOnce'
    BY <2>1, <2>3, <2>6 DEF ExitInv, CodeOnce, Alive
  <2>8. QED
    BY <2>2, <2>5, <2>7 DEF ExitInv
<1>6. ASSUME NEW a \in Ids, Register(a) \/ Deregister(a) PROVE ExitInv'
  <2>1. PICK c \in {RegisterArbiter(a), DeregisterArbiter(a)} : SendSystem(c)
    BY <1>6 DEF Register, SendRegister, Deregister
  <2>2. c \in SystemCommand /\ c.type # "Exit"
    BY <2>1 DEF SystemCommand, RegisterArbiter, DeregisterArbiter
  <2>3. UNCHANGED <<runner, stop_tx, code, waiter, nstops>>
    BY <1>6 DEF Register, Deregister
  <2>4. QED
    BY <2>1, <2>2, <2>3, SendOther
<1>7. CASE StopWithCode
  <2>1. UNCHANGED <<runner, stop_tx, code, waiter>> /\ nstops' = nstops + 1 /\ nstops \in Nat
    BY <1>7 DEF StopWithCode, TypeOK
  <2>2. CASE ~Alive
    BY <1>7, <2>1, <2>2 DEF StopWithCode, SendSystem, ExitInv, FirstStopWins, FirstExitLeads,
                            CodeOnce, IsExit, Alive
  <2>3. CASE Alive
    <3>1. Exit(nstops + 1) \in SystemCommand /\ Exit(nstops + 1).type = "Exit"
      BY <1>7, <2>1 DEF StopWithCode, SystemCommand, TypeOK, Exit
    <3>2. /\ Len(queue') = Len(queue) + 1 /\ Len(queue) \in Nat
          /\ \A k \in 1 .. Len(queue) : queue'[k] = queue[k]
          /\ queue'[Len(queue) + 1] = Exit(nstops + 1)
      BY <1>7, <2>3, <3>1, AppendFacts DEF StopWithCode, SendSystem, TypeOK
    <3>3. ~stop_tx \/ nstops = 0 \/ InQueue(Exit(1))
      BY <2>1, <2>3 DEF ExitInv, FirstExitLeads
    <3>4. ~stop_tx \/ InQueue(Exit(1))'
      BY <3>2, <3>3 DEF InQueue, Exit
    <3>5. code = 0 => \A k \in 1 .. Len(queue') :
            IsExit(k)' => queue'[k] = Exit(1) \/ \E j \in 1 .. k - 1 : queue'[j] = Exit(1)
      <4>1. SUFFICES ASSUME code = 0, NEW k \in 1 .. Len(queue'), IsExit(k)'
                     PROVE  queue'[k] = Exit(1) \/ \E j \in 1 .. k - 1 : queue'[j] = Exit(1)
        OBVIOUS
      <4>2. CASE k = Len(queue) + 1
        <5>1. stop_tx
          BY <4>1 DEF ExitInv, CodeOnce
        <5>2. CASE nstops = 0
          BY <3>2, <4>2, <5>2
        <5>3. CASE InQueue(Exit(1))
          BY <3>2, <4>2, <5>3 DEF InQueue
        <5>4. QED
          BY <3>3, <5>1, <5>2, <5>3
      <4>3. CASE k \in 1 .. Len(queue)
        BY <3>2, <4>1, <4>3 DEF IsExit, ExitInv, FirstExitLeads
      <4>4. QED
        BY <3>2, <4>2, <4>3
    <3>6. FirstExitLeads'
      BY <2>1, <3>4, <3>5 DEF FirstExitLeads, IsExit, Exit
    <3>7. FirstStopWins' /\ CodeOnce'
      BY <2>1 DEF ExitInv, FirstStopWins, CodeOnce, Alive
    <3>8. QED
      BY <3>6, <3>7 DEF ExitInv
  <2>4. QED
    BY <2>2, <2>3
<1>8. ASSUME UNCHANGED <<runner, queue, stop_tx, code, waiter, nstops>> PROVE ExitInv'
  BY <1>8 DEF ExitInv, FirstStopWins, FirstExitLeads, CodeOnce, IsExit, InQueue, Alive
<1>9. QED
  BY <1>1, <1>2, <1>3, <1>4, <1>5, <1>6, <1>7, <1>8
     DEF Next, Controller, Thread, New, FactoryFails, Ready, PollExecute, PollStop, Command, vars

(* One exit code: whatever number of stop_with_code calls race each other,  *)
(* the runner and every SystemStop see that of the first.                   *)
THEOREM OneExitCode == Spec => []FirstStopWins
<1>1. Init => TypeOK /\ ExitInv
  BY TypeInit, ExitInit
<1>2. (TypeOK /\ ExitInv) /\ [Next]_vars => (TypeOK /\ ExitInv)'
  BY TypeNext, ExitNext
<1>3. TypeOK /\ ExitInv => FirstStopWins
  BY DEF ExitInv
<1>4. QED
  BY <1>1, <1>2, <1>3, PTL DEF Spec

-----------------------------------------------------------------------------
(* The registry.                                                            *)

(* A registration in the channel of an arbiter that has ended is followed   *)
(* by its deregistration.                                                   *)
Ordered ==
    \A a \in Arbiters, k \in 1 .. Len(queue) :
        queue[k] = RegisterArbiter(a) /\ arb[a] = "done" =>
            \E j \in k + 1 .. Len(queue) : queue[j] = DeregisterArbiter(a)

RegInv == RegistryTracks /\ (Alive => Ordered)

LEMMA RegInit == Init => RegInv
<1> SUFFICES ASSUME Init PROVE RegInv
  OBVIOUS
<1>1. /\ Len(queue) = 1 /\ queue[1] = RegisterArbiter(SysArbiter) /\ registry = {}
      /\ \A a \in Arbiters : arb[a] = "unborn" /\ RegisterArbiter(a) # queue[1]
                           /\ DeregisterArbiter(a) # queue[1]
  BY ConstantsAssumption DEF Init, RegisterArbiter, DeregisterArbiter, Ids
<1>2. QED
  BY <1>1 DEF RegInv, RegistryTracks, Ordered, InQueue

(* What a command at the end of the channel changes.                        *)
LEMMA SendInQueue ==
    ASSUME TypeOK, Alive, NEW c \in SystemCommand, SendSystem(c)
    PROVE  /\ Len(queue) \in Nat /\ Len(queue') = Len(queue) + 1
           /\ \A k \in 1 .. Len(queue) : queue'[k] = queue[k]
           /\ queue'[Len(queue) + 1] = c
BY AppendFacts DEF SendSystem, TypeOK

LEMMA RegNext == TypeOK /\ RegInv /\ [Next]_vars => RegInv'
<1> SUFFICES ASSUME TypeOK, RegInv, [Next]_vars, Alive' PROVE RegistryTracks' /\ Ordered'
  BY DEF RegInv, RegistryTracks
<1> USE ConstantsAssumption
<1> DEFINE Same == UNCHANGED <<runner, queue, registry>>
<1>1. Alive /\ RegistryTracks /\ Ordered
  <2>1. runner' # runner => Run \/ BlockOn \/ RunReturns \/ DropRunner
    BY DEF Next, Controller, CtrlExit, CtrlRegister, CtrlDeregister, WaiterPoll, New, Thread,
           FactoryFails, Register, Ready, PollExecute, PollStop, Deregister, Command,
           StopWithCode, vars
  <2>2. Alive
    BY <2>1 DEF Run, BlockOn, RunReturns, DropRunner, Alive
  <2>3. QED
    BY <2>2 DEF RegInv
<1>2. \A a, b : RegisterArbiter(a) # DeregisterArbiter(b)
  BY DEF RegisterArbiter, DeregisterArbiter
<1>3. \A a, b : /\ (RegisterArbiter(a) = RegisterArbiter(b) => a = b)
                /\ (DeregisterArbiter(a) = DeregisterArbiter(b) => a = b)
  BY DEF RegisterArbiter, DeregisterArbiter
<1>4. ASSUME Same,
             \A a \in Arbiters : /\ arb'[a] = "done" <=> arb[a] = "done"
                                 /\ arb'[a] \in {"registered", "run"} =>
                                      arb[a] \in {"registered", "run"}
      PROVE  RegistryTracks' /\ Ordered'
  <2>1. queue' = queue /\ registry' = registry
    BY <1>4
  <2>2. Ordered'
    BY <1>1, <1>4, <2>1 DEF Ordered, RegisterArbiter, DeregisterArbiter
  <2>3. SUFFICES ASSUME NEW a \in Arbiters
                 PROVE  /\ arb'[a] \in {"registered", "run"} =>
                            a \in registry \/ InQueue(RegisterArbiter(a))
                        /\ a \in registry /\ arb'[a] = "done" => InQueue(DeregisterArbiter(a))
                        /\ InQueue(DeregisterArbiter(a)) => arb'[a] = "done"
    BY <2>1, <2>2 DEF RegistryTracks, InQueue, RegisterArbiter, DeregisterArbiter
  <2>4. /\ arb'[a] = "done" <=> arb[a] = "done"
        /\ arb'[a] \in {"registered", "run"} => arb[a] \in {"registered", "run"}
    BY <1>4
  <2>5. /\ arb[a] \in {"registered", "run"} => a \in registry \/ InQueue(RegisterArbiter(a))
        /\ a \in registry /\ arb[a] = "done" => InQueue(DeregisterArbiter(a))
        /\ InQueue(DeregisterArbiter(a)) => arb[a] = "done"
    BY <1>1 DEF RegistryTracks
  <2>6. QED
    BY <2>4, <2>5
<1>5. ASSUME queue # <<>>, queue' = Tail(queue), UNCHANGED arb,
             \A a \in Arbiters :
                /\ a \in registry' => a \in registry \/ Head(queue) = RegisterArbiter(a)
                /\ a \in registry /\ a \notin registry' => Head(queue) = DeregisterArbiter(a)
                /\ Head(queue) = RegisterArbiter(a) => a \in registry'
                /\ Head(queue) = DeregisterArbiter(a) => a \notin registry'
      PROVE  RegistryTracks' /\ Ordered'
  <2>1. /\ Len(queue) \in Nat \ {0} /\ Len(queue') = Len(queue) - 1
        /\ \A k \in 1 .. Len(queue) - 1 : queue'[k] = queue[k + 1]
        /\ Head(queue) = queue[1]
    BY <1>5, TailFacts DEF TypeOK
  <2>2. \A j \in 2 .. Len(queue) : j - 1 \in 1 .. Len(queue') /\ queue'[j - 1] = queue[j]
    BY <2>1
  <2>3. \A k \in 1 .. Len(queue') : k + 1 \in 2 .. Len(queue) /\ queue'[k] = queue[k + 1]
    BY <2>1
  <2>4. Ordered'
    <3>1. SUFFICES ASSUME NEW a \in Arbiters, NEW k \in 1 .. Len(queue'),
                          queue'[k] = RegisterArbiter(a), arb[a] = "done"
                   PROVE  \E j \in k + 1 .. Len(queue') : queue'[j] = DeregisterArbiter(a)
      BY <1>5 DEF Ordered, RegisterArbiter, DeregisterArbiter
    <3>2. PICK j \in k + 2 .. Len(queue) : queue[j] = DeregisterArbiter(a)
      BY <1>1, <2>1, <2>3, <3>1 DEF Ordered
    <3>3. j - 1 \in k + 1 .. Len(queue') /\ queue'[j - 1] = DeregisterArbiter(a)
      BY <2>1, <2>2, <3>2
    <3>4. QED
      BY <3>3
  <2>5. ASSUME NEW a \in Arbiters, arb[a] \in {"registered", "run"}
        PROVE  a \in registry' \/ \E j \in 1 .. Len(queue') : queue'[j] = RegisterArbiter(a)
    <3>1. CASE a \in registry
      <4>1. Head(queue) # DeregisterArbiter(a)
        BY <1>1, <2>1, <2>5 DEF RegistryTracks, InQueue
      <4>2. QED
        BY <1>5, <3>1, <4>1
    <3>2. CASE InQueue(RegisterArbiter(a))
      <4>1. PICK j \in 1 .. Len(queue) : queue[j] = RegisterArbiter(a)
        BY <3>2 DEF InQueue
      <4>2. CASE j = 1
        BY <1>5, <2>1, <4>1, <4>2
      <4>3. CASE j \in 2 .. Len(queue)
        BY <2>2, <4>1, <4>3
      <4>4. QED
        BY <2>1, <4>2, <4>3
    <3>3. QED
      BY <1>1, <2>5, <3>1, <3>2 DEF RegistryTracks
  <2>6. ASSUME NEW a \in Arbiters, a \in registry', arb[a] = "done"
        PROVE  \E j \in 1 .. Len(queue') : queue'[j] = DeregisterArbiter(a)
    <3>1. PICK j \in 1 .. Len(queue) : queue[j] = DeregisterArbiter(a)
      <4>1. CASE a \in registry
        BY <1>1, <2>6, <4>1 DEF RegistryTracks, InQueue
      <4>2. CASE Head(queue) = RegisterArbiter(a)
        BY <1>1, <2>1, <2>6, <4>2 DEF Ordered
      <4>3. QED
        BY <1>5, <2>6, <4>1, <4>2
    <3>2. j # 1
      BY <1>5, <2>1, <2>6, <3>1
    <3>3. QED
      BY <2>1, <2>2, <3>1, <3>2
  <2>7. ASSUME NEW a \in Arbiters, NEW k \in 1 .. Len(queue'), queue'[k] = DeregisterArbiter(a)
        PROVE  arb[a] = "done"
    BY <1>1, <2>1, <2>3, <2>7 DEF RegistryTracks, InQueue
  <2>8. RegistryTracks'
    BY <1>5, <2>5, <2>6, <2>7 DEF RegistryTracks, InQueue, RegisterArbiter, DeregisterArbiter
  <2>9. QED
    BY <2>4, <2>8
<1>6. CASE CtrlExit
  <2>1. queue # <<>> /\ queue' = Tail(queue) /\ UNCHANGED <<arb, registry>>
        /\ Head(queue).type = "Exit"
    BY <1>6 DEF CtrlExit, Received
  <2>2. \A a : Head(queue) # RegisterArbiter(a) /\ Head(queue) # DeregisterArbiter(a)
    BY <2>1 DEF RegisterArbiter, DeregisterArbiter
  <2>3. QED
    BY <1>5, <2>1, <2>2
<1>7. CASE CtrlRegister
  <2>1. queue # <<>> /\ queue' = Tail(queue) /\ UNCHANGED arb
        /\ Head(queue) = RegisterArbiter(Head(queue).id)
        /\ registry' = registry \cup {Head(queue).id}
    BY <1>7, TailFacts, CommandFields DEF CtrlRegister, Received, TypeOK
  <2>2. QED
    BY <1>2, <1>3, <1>5, <2>1
<1>8. CASE CtrlDeregister
  <2>1. queue # <<>> /\ queue' = Tail(queue) /\ UNCHANGED arb
        /\ Head(queue) = DeregisterArbiter(Head(queue).id)
        /\ registry' = registry \ {Head(queue).id}
    BY <1>8, TailFacts, CommandFields DEF CtrlDeregister, Remove, Received, TypeOK
  <2>2. QED
    BY <1>2, <1>3, <1>5, <2>1
<1>9. CASE Run \/ BlockOn
  BY <1>1, <1>9 DEF Run, BlockOn, RegistryTracks, Ordered, InQueue, RegisterArbiter,
                    DeregisterArbiter
<1>10. CASE RunReturns \/ DropRunner
  BY <1>10 DEF RunReturns, DropRunner, Alive
<1>11. ASSUME NEW a \in Ids, Register(a) PROVE RegistryTracks' /\ Ordered'
  <2>1. /\ RegisterArbiter(a) \in SystemCommand /\ SendSystem(RegisterArbiter(a))
        /\ UNCHANGED registry /\ arb[a] = "start" /\ arb' = [arb EXCEPT ![a] = "registered"]
    BY <1>11 DEF Register, SendRegister, SystemCommand
  <2>2. /\ Len(queue) \in Nat /\ Len(queue') = Len(queue) + 1
        /\ \A k \in 1 .. Len(queue) : queue'[k] = queue[k]
        /\ queue'[Len(queue) + 1] = RegisterArbiter(a)
    BY <1>1, <2>1, SendInQueue
  <2>3. \A b \in Ids : arb'[b] = IF b = a THEN "registered" ELSE arb[b]
    BY <2>1 DEF TypeOK
  <2>4. Arbiters \subseteq Ids
    BY DEF Ids
  <2>5. Ordered'
    BY <1>1, <1>3, <2>2, <2>3, <2>4 DEF Ordered, RegisterArbiter, DeregisterArbiter
  <2>6. \A b \in Arbiters : InQueue(DeregisterArbiter(b))' <=> InQueue(DeregisterArbiter(b))
    BY <1>2, <2>2 DEF InQueue, DeregisterArbiter
  <2>7. \A b \in Arbiters : InQueue(RegisterArbiter(b)) \/ b = a => InQueue(RegisterArbiter(b))'
    BY <2>2 DEF InQueue, RegisterArbiter
  <2>8. RegistryTracks'
    <3>1. SUFFICES ASSUME NEW b \in Arbiters
                   PROVE  /\ arb'[b] \in {"registered", "run"} =>
                              b \in registry \/ InQueue(RegisterArbiter(b)) \/ b = a
                          /\ b \in registry /\ arb'[b] = "done" =>
                              InQueue(DeregisterArbiter(b))
                          /\ InQueue(DeregisterArbiter(b)) => arb'[b] = "done"
      BY <2>1, <2>6, <2>7 DEF RegistryTracks, InQueue, RegisterArbiter, DeregisterArbiter
    <3>2. QED
      BY <1>1, <2>1, <2>3, <2>4 DEF RegistryTracks
  <2>9. QED
    BY <2>5, <2>8
<1>12. ASSUME NEW a \in Ids, Deregister(a) PROVE RegistryTracks' /\ Ordered'
  <2>1. /\ DeregisterArbiter(a) \in SystemCommand /\ SendSystem(DeregisterArbiter(a))
        /\ UNCHANGED registry /\ arb[a] = "stopped" /\ arb' = [arb EXCEPT ![a] = "done"]
    BY <1>12 DEF Deregister, SystemCommand
  <2>2. /\ Len(queue) \in Nat /\ Len(queue') = Len(queue) + 1
        /\ \A k \in 1 .. Len(queue) : queue'[k] = queue[k]
        /\ queue'[Len(queue) + 1] = DeregisterArbiter(a)
    BY <1>1, <2>1, SendInQueue
  <2>3. \A b \in Ids : arb'[b] = IF b = a THEN "done" ELSE arb[b]
    BY <2>1 DEF TypeOK
  <2>4. Arbiters \subseteq Ids
    BY DEF Ids
  <2>5. Ordered'
    <3>1. SUFFICES ASSUME NEW b \in Arbiters, NEW k \in 1 .. Len(queue'),
                          queue'[k] = RegisterArbiter(b), arb'[b] = "done"
                   PROVE  \E j \in k + 1 .. Len(queue') : queue'[j] = DeregisterArbiter(b)
      BY DEF Ordered, RegisterArbiter, DeregisterArbiter
    <3>2. k \in 1 .. Len(queue) /\ queue[k] = RegisterArbiter(b)
      BY <1>2, <2>2, <3>1
    <3>3. CASE b = a
      BY <2>2, <3>2, <3>3
    <3>4. CASE b # a
      <4>1. PICK j \in k + 1 .. Len(queue) : queue[j] = DeregisterArbiter(b)
        BY <1>1, <2>3, <2>4, <3>1, <3>2, <3>4 DEF Ordered
      <4>2. j \in k + 1 .. Len(queue') /\ queue'[j] = DeregisterArbiter(b)
        BY <2>2, <4>1
      <4>3. QED
        BY <4>2
    <3>5. QED
      BY <3>3, <3>4
  <2>6. \A b \in Arbiters : /\ InQueue(DeregisterArbiter(b)) \/ b = a =>
                                 InQueue(DeregisterArbiter(b))'
                            /\ InQueue(DeregisterArbiter(b))' =>
                                 InQueue(DeregisterArbiter(b)) \/ b = a
    <3>1. \A k \in 1 .. Len(queue') : k \in 1 .. Len(queue) \/ k = Len(queue) + 1
      BY <2>2
    <3>2. ASSUME NEW b \in Arbiters, InQueue(DeregisterArbiter(b))'
          PROVE  InQueue(DeregisterArbiter(b)) \/ b = a
      <4>1. PICK k \in 1 .. Len(queue') : queue'[k] = DeregisterArbiter(b)
        BY <3>2 DEF InQueue, DeregisterArbiter
      <4>2. QED
        BY <1>3, <2>2, <3>1, <4>1 DEF InQueue
    <3>3. ASSUME NEW b \in Arbiters, InQueue(DeregisterArbiter(b)) \/ b = a
          PROVE  InQueue(DeregisterArbiter(b))'
      BY <2>2, <3>3 DEF InQueue, DeregisterArbiter
    <3>4. QED
      BY <3>2, <3>3
  <2>7. \A b \in Arbiters : InQueue(RegisterArbiter(b)) => InQueue(RegisterArbiter(b))'
    BY <2>2 DEF InQueue, RegisterArbiter
  <2>8. RegistryTracks'
    <3>1. SUFFICES ASSUME NEW b \in Arbiters
                   PROVE  /\ arb'[b] \in {"registered", "run"} =>
                              b \in registry \/ InQueue(RegisterArbiter(b))
                          /\ b \in registry /\ arb'[b] = "done" =>
                              InQueue(DeregisterArbiter(b)) \/ b = a
                          /\ InQueue(DeregisterArbiter(b)) \/ b = a => arb'[b] = "done"
      BY <2>1, <2>6, <2>7 DEF RegistryTracks, InQueue, RegisterArbiter, DeregisterArbiter
    <3>2. QED
      BY <1>1, <2>1, <2>3, <2>4 DEF RegistryTracks
  <2>9. QED
    BY <2>5, <2>8
<1>13. CASE StopWithCode
  <2>1. /\ Exit(nstops + 1) \in SystemCommand /\ SendSystem(Exit(nstops + 1))
        /\ UNCHANGED <<registry, arb>>
    <3>1. nstops + 1 \in 1 .. MaxStops
      BY <1>13 DEF StopWithCode, TypeOK
    <3>2. QED
      BY <1>13, <3>1 DEF StopWithCode, SystemCommand
  <2>2. /\ Len(queue) \in Nat /\ Len(queue') = Len(queue) + 1
        /\ \A k \in 1 .. Len(queue) : queue'[k] = queue[k]
        /\ queue'[Len(queue) + 1] = Exit(nstops + 1)
    BY <1>1, <2>1, SendInQueue
  <2>3. \A a : Exit(nstops + 1) # RegisterArbiter(a) /\ Exit(nstops + 1) # DeregisterArbiter(a)
    BY DEF Exit, RegisterArbiter, DeregisterArbiter
  <2>4. Ordered'
    <3>1. SUFFICES ASSUME NEW b \in Arbiters, NEW k \in 1 .. Len(queue'),
                          queue'[k] = RegisterArbiter(b), arb[b] = "done"
                   PROVE  \E j \in k + 1 .. Len(queue') : queue'[j] = DeregisterArbiter(b)
      BY <2>1 DEF Ordered, RegisterArbiter, DeregisterArbiter
    <3>2. k \in 1 .. Len(queue) /\ queue[k] = RegisterArbiter(b)
      BY <2>2, <2>3, <3>1
    <3>3. PICK j \in k + 1 .. Len(queue) : queue[j] = DeregisterArbiter(b)
      BY <1>1, <3>1, <3>2 DEF Ordered
    <3>4. QED
      BY <2>2, <3>3
  <2>5. \A b \in Arbiters : /\ InQueue(DeregisterArbiter(b))' <=> InQueue(DeregisterArbiter(b))
                            /\ InQueue(RegisterArbiter(b))' <=> InQueue(RegisterArbiter(b))
    <3>1. ASSUME NEW c, c # Exit(nstops + 1)
          PROVE  (\E k \in 1 .. Len(queue') : queue'[k] = c) <=> InQueue(c)
      BY <2>2, <3>1 DEF InQueue
    <3>2. QED
      BY <2>3, <3>1 DEF InQueue, RegisterArbiter, DeregisterArbiter
  <2>6. RegistryTracks'
    <3>1. SUFFICES ASSUME NEW b \in Arbiters
                   PROVE  /\ arb[b] \in {"registered", "run"} =>
                              b \in registry \/ InQueue(RegisterArbiter(b))
                          /\ b \in registry /\ arb[b] = "done" => InQueue(DeregisterArbiter(b))
                          /\ InQueue(DeregisterArbiter(b)) => arb[b] = "done"
      BY <2>1, <2>5 DEF RegistryTracks, InQueue, RegisterArbiter, DeregisterArbiter
    <3>2. QED
      BY <1>1 DEF RegistryTracks
  <2>7. QED
    BY <2>4, <2>6
<1>14. ASSUME NEW a \in Ids, New(a) \/ FactoryFails(a) \/ Ready(a) \/ PollStop(a)
       PROVE  RegistryTracks' /\ Ordered'
  <2>1. Same /\ arb' = [arb EXCEPT ![a] = arb'[a]]
    BY <1>14 DEF New, FactoryFails, Ready, PollStop, TypeOK
  <2>2. \A b \in Ids : b # a => arb'[b] = arb[b]
    BY <2>1 DEF TypeOK
  <2>3. a \in Ids
    BY <1>14 DEF Ids
  <2>4. /\ arb[a] # "done" /\ arb'[a] # "done"
        /\ arb'[a] \in {"registered", "run"} => arb[a] = "registered"
    BY <1>14, <2>3 DEF New, FactoryFails, Ready, PollStop, Scheduled, TypeOK
  <2>5. \A b \in Arbiters : b \in Ids
    BY DEF Ids
  <2>6. QED
    BY <1>4, <2>1, <2>2, <2>4, <2>5
<1>15. ASSUME Same, UNCHANGED arb PROVE RegistryTracks' /\ Ordered'
  BY <1>4, <1>15
<1>16. QED
  BY <1>6, <1>7, <1>8, <1>9, <1>10, <1>11, <1>12, <1>13, <1>14, <1>15
     DEF Next, Controller, Thread, WaiterPoll, PollExecute, Command, vars, Ids

(* The controller's registry never loses an arbiter that runs and never     *)
(* keeps one that has ended, beyond the commands in its channel.            *)
THEOREM RegistryFollows == Spec => []RegistryTracks
<1>1. Init => TypeOK /\ RegInv
  BY TypeInit, RegInit
<1>2. (TypeOK /\ RegInv) /\ [Next]_vars => (TypeOK /\ RegInv)'
  BY TypeNext, RegNext
<1>3. TypeOK /\ RegInv => RegistryTracks
  BY DEF RegInv
<1>4. QED
  BY <1>1, <1>2, <1>3, PTL DEF Spec
=============================================================================
