---------------------------- MODULE ServiceTask ----------------------------
(***************************************************************************)
(* One task that makes a service out of a composed factory (actix-service, *)
(* actix-tracing), asks it for readiness and calls it, again and again.    *)
(*                                                                         *)
(* A poll is a walk over the tree: at node cur with ans = None the node is *)
(* polled, with another ans it has returned that.  The futures and the     *)
(* services of the user stand at the leaves, at a transform and at         *)
(* apply_cfg; they answer as they like and hold the waker when they answer *)
(* Pending.  A value is the sequence of the nodes it went through.         *)
(***************************************************************************)
EXTENDS ServiceTree

CONSTANTS
    Trees,       \* the composed factories that are tried
    MaxPending,  \* bound: answers Pending
    MaxRequests  \* bound: calls

ASSUME ConstantsAssumption ==
    /\ \A t \in Trees : Term(t)
    /\ MaxPending \in Nat /\ MaxRequests \in Nat

VARIABLES
    job,      \* "start", "create", "made", "ready", "callable", "call" or "end"
    mode,     \* the trait method the walk is in: "create", "ready" or "call"
    cur,      \* the node the walk is at; 0 between two polls
    ans,
    st,       \* the state A, B or C of a node's future
    have,     \* the factories of a pair that have given their service
    unready,  \* pairs whose first service was Pending in this walk
    fut,      \* a user's future: "none", "live" or "done"
    arg,      \* what it was given
    regs,     \* users' futures and services that hold the waker
    woken,
    asked,    \* services whose last word on readiness is Ready
    got,      \* what a user's future or service has ended with, in this job
    pends, requests

walk == <<mode, cur, ans>>
user == <<fut, arg, regs, asked, got, pends>>
vars == <<tree, job, walk, st, have, unready, user, woken, requests>>

Answer(tag, val) == [tag |-> tag, val |-> val]
None == Answer("none", <<>>)
Pending == Answer("pending", <<>>)
Ok(v) == Answer("ok", v)
Err(v) == Answer("err", v)
Req(v) == Answer("req", v)
Returned == {"pending", "ok", "err"}

TypeOK ==
    /\ tree \in Trees
    /\ job \in {"start", "create", "made", "ready", "callable", "call", "end"}
    /\ mode \in {"create", "ready", "call"}
    /\ cur \in Node \cup {0}
    /\ ans \in [tag : {"none", "req"} \cup Returned, val : Seq(Node)]
    /\ st \in [Node -> {"A", "B", "C"}]
    /\ have \subseteq Node /\ unready \subseteq Node
    /\ fut \in [Node -> {"none", "live", "done"}]
    /\ arg \in [Node -> Seq(Node)]
    /\ regs \subseteq Node /\ asked \subseteq Node
    /\ woken \in BOOLEAN
    /\ got \in [Node -> {"none", "ok", "err"}]
    /\ pends \in 0 .. MaxPending /\ requests \in 0 .. MaxRequests

Init ==
    /\ tree \in Trees
    /\ job = "start" /\ mode = "create"
    /\ cur = 0 /\ ans = None
    /\ st = [n \in Node |-> "A"]
    /\ have = {} /\ unready = {}
    /\ fut = [n \in Node |-> "none"]
    /\ arg = [n \in Node |-> <<>>]
    /\ regs = {} /\ asked = {}
    /\ woken = FALSE
    /\ got = [n \in Node |-> "none"]
    /\ pends = 0 /\ requests = 0

Poll(n) == cur' = n /\ ans' = None
Give(n, a) == cur' = n /\ ans' = a

-----------------------------------------------------------------------------
(* The task.                                                                *)

(* What reaches the factory at n of the root's configuration. *)
MapConfig(n, cfg) == IF Is(n, {"map_config"}) THEN Append(cfg, n) ELSE cfg
UnitConfig(n, cfg) == IF Is(n, {"unit_config", "apply_cfg"}) THEN <<>> ELSE cfg

Config[n \in Node] ==
    IF n = Root THEN <<>>
    ELSE UnitConfig(Parent(n), MapConfig(Parent(n), Config[Parent(n)]))

(* ServiceFactory::new_service of the root calls it down to every leaf. *)
NewService ==
    /\ job = "start"
    /\ job' = "create" /\ mode' = "create" /\ woken' = TRUE
    /\ fut' = [n \in Node |-> IF Is(n, Leaf) THEN "live" ELSE "none"]
    /\ arg' = Config
    /\ UNCHANGED <<tree, cur, ans, st, have, unready, regs, asked, got, pends, requests>>

(* Services can be combined as well, without factories. *)
Assemble ==
    /\ job = "start"
    /\ \A n \in Node : Is(n, Combined)
    /\ job' = "made"
    /\ UNCHANGED <<tree, walk, st, have, unready, user, woken, requests>>

StartReady ==
    /\ job = "made"
    /\ requests < MaxRequests
    /\ job' = "ready" /\ woken' = TRUE
    /\ got' = [n \in Node |-> "none"]
    /\ UNCHANGED <<tree, walk, st, have, unready, fut, arg, regs, asked, pends, requests>>

(* Service::call of the root. *)
StartCall ==
    /\ job = "callable"
    /\ job' = "call" /\ mode' = "call"
    /\ Give(Root, Req(<<>>))
    /\ st' = [n \in Node |-> "A"]
    /\ got' = [n \in Node |-> "none"]
    /\ requests' = requests + 1
    /\ UNCHANGED <<tree, have, unready, fut, arg, regs, asked, pends, woken>>

StartPoll ==
    /\ cur = 0
    /\ woken
    /\ woken' = FALSE
    /\ mode' = job
    /\ Poll(Root)
    /\ asked' = IF job = "ready" THEN {} ELSE asked
    /\ UNCHANGED <<tree, job, st, have, unready, fut, arg, regs, got, pends, requests>>

(* The root has returned.  Pending: the task sleeps.  Otherwise the future, *)
(* and with an error all it holds, is dropped.                              *)
Return ==
    /\ cur = Root
    /\ ans.tag \in Returned
    /\ Poll(0)
    /\ IF ans.tag = "pending" THEN UNCHANGED <<job, fut, regs, woken>>
       ELSE /\ job' = CASE job = "call" -> "made"
                        [] job # "call" /\ ans.tag = "err" -> "end"
                        [] job = "create" /\ ans.tag = "ok" -> "made"
                        [] job = "ready" /\ ans.tag = "ok" -> "callable"
            /\ fut' = [n \in Node |-> "none"]
            /\ regs' = {}
            /\ woken' = FALSE
    /\ UNCHANGED <<tree, mode, st, have, unready, arg, asked, got, pends, requests>>

(* What a user's future or service waited for has come. *)
Wake(n) ==
    /\ cur = 0
    /\ n \in regs
    /\ regs' = regs \ {n}
    /\ woken' = TRUE
    /\ UNCHANGED <<tree, job, walk, st, have, unready, fut, arg, asked, got, pends, requests>>

-----------------------------------------------------------------------------
(* Users' futures and services.                                             *)

Transforming(n) == mode = "create" /\ Is(n, Transforms) /\ st[n] = "B"
Configuring(n) == mode = "create" /\ Is(n, {"apply_cfg"}) /\ st[n] = "C"

(* A poll of n is one of a user's future or service, not of an operand. *)
OwnTurn(n) ==
    \/ Is(n, Leaf)
    \/ Transforming(n)
    \/ Configuring(n)
    \/ mode # "create" /\ IsService(n)

(* fn_service: a ready future from the factory, always_ready! from the     *)
(* service; a TracingTransform's future is ready too.                      *)
Immediate(n) ==
    \/ Is(n, {"fn_service"}) /\ mode # "call"
    \/ Is(n, {"tracing"})

(* TransformMapInitErr maps the error of the transform's own future. *)
OwnErr(n) == IF Transforming(n) /\ Is(n, {"transform_err"}) THEN <<n, n>> ELSE <<n>>

(* The response to a call carries what the service was called with. *)
Carried(n) == IF mode = "call" THEN arg[n] ELSE <<>>

UserPending(n) ==
    /\ cur = n /\ ans = None /\ OwnTurn(n)
    /\ ~Immediate(n)
    /\ pends < MaxPending
    /\ pends' = pends + 1
    /\ regs' = regs \cup {n}
    /\ asked' = IF mode = "ready" THEN asked \ {n} ELSE asked
    /\ Give(n, Pending)
    /\ UNCHANGED <<tree, job, mode, st, have, unready, fut, arg, got, woken, requests>>

UserEnds(n, tag) ==
    /\ cur = n /\ ans = None /\ OwnTurn(n)
    /\ Immediate(n) => tag = "ok"
    /\ got' = [got EXCEPT ![n] = tag]
    /\ regs' = regs \ {n}
    /\ fut' = IF mode = "ready" THEN fut ELSE [fut EXCEPT ![n] = "done"]
    /\ asked' = IF mode # "ready" THEN asked
                ELSE IF tag = "ok" THEN asked \cup {n} ELSE asked \ {n}
    /\ Give(n, Answer(tag, IF tag = "err" THEN Carried(n) \o OwnErr(n)
                           ELSE IF mode = "call" THEN Append(arg[n], n) ELSE <<>>))
    /\ UNCHANGED <<tree, job, mode, st, have, unready, arg, pends, woken, requests>>

-----------------------------------------------------------------------------
(* Downwards: which operand a poll goes to, and a call.                     *)

PollPairFactory_again(n) == First(n)

(* and_then's and then's futures poll the factories that owe a service. *)
PollPairFactory(n) == IF First(n) \in have THEN Second(n) ELSE First(n)

(* References, Box, Rc and RefCell go to what they hold, as wrappers do. *)
Inner(n) == n - 1

Operand(n) ==
    IF ~Is(n, Pair) THEN Inner(n)
    ELSE CASE mode = "create" -> PollPairFactory(n)
           [] mode = "ready" -> First(n)
           [] mode = "call" -> IF st[n] = "A" THEN First(n) ELSE Second(n)

Descend(n) ==
    /\ cur = n /\ ans = None /\ ~OwnTurn(n)
    /\ Poll(Operand(n))
    /\ mode' = IF Is(n, {"apply_cfg"}) /\ st[n] = "B" THEN "ready" ELSE mode
    /\ unready' = unready \ {n}
    /\ UNCHANGED <<tree, job, st, have, user, woken, requests>>

(* apply_fn calls the user's function, which changes the request and calls  *)
(* the service. *)
Apply(n, v) == IF Is(n, {"apply_fn"}) THEN Append(v, n) ELSE v

CallOperand(n) ==
    /\ cur = n /\ ans.tag = "req" /\ ~IsService(n)
    /\ Give(First(n), Req(Apply(n, ans.val)))
    /\ UNCHANGED <<tree, job, mode, st, have, unready, user, woken, requests>>

(* A user's service is called.  The second of a pair is so in the middle of *)
(* a poll, which goes on with the new future.                               *)
CallService(n) ==
    /\ cur = n /\ ans.tag = "req" /\ IsService(n)
    /\ fut' = [fut EXCEPT ![n] = "live"]
    /\ arg' = [arg EXCEPT ![n] = ans.val]
    /\ IF \E p \in Node : st[p] = "B" THEN Poll(n) /\ UNCHANGED woken
       ELSE Poll(0) /\ woken' = TRUE
    /\ UNCHANGED <<tree, job, mode, st, have, unready, regs, asked, got, pends, requests>>

-----------------------------------------------------------------------------
(* Upwards: what a combinator makes of its operand's answer.                *)

Loop_yields(p) == Give(p, Pending)

(* A future that went to its next state is polled in that at once. *)
Loop(p) == Poll(p)

Mapped(p) == Answer(ans.tag, Append(ans.val, p))

MapOk(p) == Is(p, {"map"}) /\ mode = "call" /\ ans.tag = "ok"
MapErr_calls_only(p) == Is(p, {"map_err"}) /\ ans.tag = "err" /\ mode = "call"
MapErr(p) == Is(p, {"map_err"}) /\ ans.tag = "err" /\ mode # "create"
MapInitErr(p) == Is(p, {"map_init_err"}) /\ ans.tag = "err" /\ mode = "create"

(* p has a returned operand. *)
Up(p) == cur \notin {0, Root} /\ ans.tag \in Returned /\ p = Parent(cur)

Forward(p) ==
    /\ Up(p)
    /\ Is(p, Wrapper)
    /\ Is(p, Transforms) => mode # "create"
    /\ ~Is(p, {"apply_cfg"})
    /\ Give(p, IF MapOk(p) \/ MapErr(p) \/ MapInitErr(p) THEN Mapped(p) ELSE ans)
    /\ UNCHANGED <<tree, job, mode, st, have, unready, user, woken, requests>>

(* ApplyTransformFuture, state A: the service goes into new_transform. *)
NewTransform(p) ==
    /\ Up(p) /\ mode = "create" /\ Is(p, Transforms)
    /\ IF ans.tag = "ok"
       THEN /\ st' = [st EXCEPT ![p] = "B"]
            /\ fut' = [fut EXCEPT ![p] = "live"]
            /\ Loop(p)
       ELSE Give(p, ans) /\ UNCHANGED <<st, fut>>
    /\ UNCHANGED <<tree, job, mode, have, unready, arg, regs, asked, got, pends, woken, requests>>

(* apply_cfg_factory, state A: the service is made; then it is waited for,  *)
ConfigFactory(p) ==
    /\ Up(p) /\ mode = "create" /\ Is(p, {"apply_cfg"})
    /\ IF ans.tag = "ok" THEN st' = [st EXCEPT ![p] = "B"] /\ Loop(p)
       ELSE Give(p, ans) /\ UNCHANGED st
    /\ UNCHANGED <<tree, job, mode, have, unready, user, woken, requests>>

(* state B, its error being converted; and then the user's function gets    *)
(* the configuration and the service.                                       *)
ConfigReady(p) ==
    /\ Up(p) /\ mode = "ready" /\ Is(p, {"apply_cfg"})
    /\ mode' = "create"
    /\ IF ans.tag = "ok"
       THEN /\ st' = [st EXCEPT ![p] = "C"]
            /\ fut' = [fut EXCEPT ![p] = "live"]
            /\ Loop(p)
       ELSE /\ Give(p, IF ans.tag = "err" THEN Mapped(p) ELSE ans)
            /\ UNCHANGED <<st, fut>>
    /\ UNCHANGED <<tree, job, have, unready, arg, regs, asked, got, pends, woken, requests>>

(* The join of a pair's factories. *)
PairCreate(p) ==
    /\ Up(p) /\ mode = "create"
    /\ LET made == IF ans.tag = "ok" THEN have \cup {cur} ELSE have IN
       /\ have' = made
       /\ CASE ans.tag = "err" -> Give(p, ans)
            [] ans.tag # "err" /\ cur = First(p) /\ Second(p) \notin have -> Poll(Second(p))
            [] OTHER -> Give(p, IF {First(p), Second(p)} \subseteq made THEN Ok(<<>>) ELSE Pending)
    /\ UNCHANGED <<tree, job, mode, st, unready, user, woken, requests>>

AskSecond_lazy(p) == ans.tag = "ok" /\ cur = First(p)

(* The second service is asked although the first is not ready. *)
AskSecond(p) == ans.tag # "err" /\ cur = First(p)

BothReady_last(p) == ans.tag = "ok"
BothReady(p) == ans.tag = "ok" /\ p \notin unready

PairReady(p) ==
    /\ Up(p) /\ mode = "ready"
    /\ unready' = IF cur = First(p) /\ ans.tag = "pending" THEN unready \cup {p} ELSE unready
    /\ IF AskSecond(p) THEN Poll(Second(p))
       ELSE Give(p, IF ans.tag = "ok" /\ ~BothReady(p) THEN Pending ELSE ans)
    /\ UNCHANGED <<tree, job, mode, st, have, user, woken, requests>>

(* The first future's result, if it goes to the second service, is what     *)
(* that is called with; the second's is the pair's.                         *)
PairCall(p, goes) ==
    /\ Up(p) /\ mode = "call"
    /\ IF cur = First(p) /\ ans.tag \in goes
       THEN st' = [st EXCEPT ![p] = "B"] /\ Give(Second(p), Req(ans.val))
       ELSE Give(p, ans) /\ UNCHANGED st
    /\ UNCHANGED <<tree, job, mode, have, unready, user, woken, requests>>

AndThenCall(p) == Is(p, {"and_then"}) /\ PairCall(p, {"ok"})
AndThenReady(p) == Is(p, {"and_then"}) /\ PairReady(p)
AndThenCreate(p) == Is(p, {"and_then"}) /\ PairCreate(p)

ThenCall(p) == Is(p, {"then"}) /\ PairCall(p, {"ok", "err"})
ThenReady(p) == Is(p, {"then"}) /\ PairReady(p)
ThenCreate(p) == Is(p, {"then"}) /\ PairCreate(p)

-----------------------------------------------------------------------------
Walk ==
    \/ StartPoll \/ Return
    \/ \E n \in Node :
          \/ Descend(n) \/ CallOperand(n) \/ CallService(n)
          \/ UserPending(n) \/ UserEnds(n, "ok") \/ UserEnds(n, "err")
          \/ Forward(n) \/ NewTransform(n) \/ ConfigFactory(n) \/ ConfigReady(n)
          \/ AndThenCall(n) \/ AndThenReady(n) \/ AndThenCreate(n)
          \/ ThenCall(n) \/ ThenReady(n) \/ ThenCreate(n)

Next ==
    \/ NewService \/ Assemble \/ StartReady \/ StartCall
    \/ Walk
    \/ \E n \in Node : Wake(n)

Spec == Init /\ [][Next]_vars

(* A woken task is polled and a poll ends; what a user's future or service  *)
(* waits for comes.                                                         *)
Fairness == WF_vars(Walk) /\ WF_vars(\E n \in Node : Wake(n))

FairSpec == Spec /\ Fairness

-----------------------------------------------------------------------------
(* What a composed service should do, from the users' answers alone.        *)

(* The values, by the nodes they went through: downwards, and an error of   *)
(* l's that the nodes of S have mapped on its way up.                       *)
Downwards(v, S) ==
    /\ Range(v) = S
    /\ \A i, j \in DOMAIN v : i < j => v[i] > v[j]

ErrorOf(l, v, S) ==
    /\ v # <<>> /\ v[1] = l
    /\ {v[i] : i \in 2 .. Len(v)} = S
    /\ \A i, j \in 2 .. Len(v) : i < j => v[i] < v[j]

(* What maps the configuration of a factory: the mappers above it up to the *)
(* first that drops it.                                                     *)
ConfigMappers(l) ==
    LET drops == {m \in Above(l) : Is(m, {"unit_config", "apply_cfg"})}
    IN  {m \in Above(l) : Is(m, {"map_config"}) /\ \A d \in drops : m < d}

(* What maps an error of l's when a service is created, ...                 *)
InitMappers(l) ==
    LET asking == {m \in Above(l) : Is(m, {"apply_cfg"}) /\ st[m] = "B"}
        inner == IF asking = {} THEN l ELSE Min(asking)
    IN  {m \in Above(inner) : Is(m, {"map_init_err"})} \cup
        IF asking = {} THEN {m \in {l} : Is(m, {"transform_err"})}
        ELSE {inner} \cup {m \in Above(l) : m < inner /\ Is(m, {"map_err"})}

(* ... and when it is asked for readiness.                                  *)
ReadyMappers(l) == {m \in Above(l) : Is(m, {"map_err"})}

(* What a call answers, and through which nodes the value has gone: in a    *)
(* combinator that answers e for what it holds, ...                         *)
Around(n, e) ==
    [ok |-> e.ok,
     val |-> IF Is(n, {"apply_fn"}) THEN <<n>> \o e.val
             ELSE IF Is(n, {IF e.ok THEN "map" ELSE "map_err"}) THEN Append(e.val, n)
             ELSE e.val]

(* ... and in a pair whose halves do a and, if they come to it, b.          *)
Goes(n, a) == a.ok \/ Is(n, {"then"})
InTurn(n, a, b) == IF Goes(n, a) THEN [ok |-> b.ok, val |-> a.val \o b.val] ELSE a

Effect[n \in Node] ==
    IF IsService(n) THEN [ok |-> got[n] = "ok", val |-> <<n>>]
    ELSE IF Is(n, Wrapper) THEN Around(n, Effect[Second(n)])
    ELSE InTurn(n, Effect[First(n)], Effect[Second(n)])

Failed == {n \in Node : got[n] = "err"}
Required == {n \in Node : Is(n, Leaf \cup Transforms \cup {"apply_cfg"})}

-----------------------------------------------------------------------------
(* Properties.                                                              *)

(* However a future was cut into polls, and whichever part was Pending in   *)
(* each, its answer is that of the composition: a service is made when all  *)
(* its parts are, each with the configuration its mappers give it; and_then *)
(* stops at the first error, then never does; values and errors go through  *)
(* the mappers above them, once, in order, and no others.                   *)
AnswersAsComposed ==
    cur = Root /\ ans.tag \in {"ok", "err"} =>
        CASE job = "create" ->
                /\ \A l \in Node : Is(l, Leaf) => Downwards(arg[l], ConfigMappers(l))
                /\ IF ans.tag = "ok" THEN \A n \in Required : got[n] = "ok"
                   ELSE \E l \in Failed : Failed = {l} /\ ErrorOf(l, ans.val, InitMappers(l))
          [] job = "ready" ->
                IF ans.tag = "ok" THEN Services(Root) \subseteq asked
                ELSE \E l \in Failed : Failed = {l} /\ ErrorOf(l, ans.val, ReadyMappers(l))
          [] job = "call" ->
                ans = Answer(IF Effect[Root].ok THEN "ok" ELSE "err", Effect[Root].val)

(* A user's future is not polled after it has ended, which for an async     *)
(* block is a panic: the half of a pair that is made first is left alone    *)
(* while the other is still awaited.                                        *)
NoPollAfterEnd ==
    \A n \in Node :
        cur = n /\ ans = None /\ OwnTurn(n) /\ mode # "ready" => fut[n] = "live"

(* "In cases of chained services, .poll_ready() is called for all services  *)
(* at once": a task that sleeps has left its waker with every user's future *)
(* it depends on and with every service that was not ready.  So whichever   *)
(* becomes ready wakes it.                                                  *)
SleepsWithWakers ==
    cur = 0 /\ ~woken =>
        CASE job = "ready" -> Services(Root) \subseteq asked \cup regs
          [] job \in {"create", "call"} ->
                /\ \A n \in Node : fut[n] = "live" => n \in regs
                /\ \A p \in Node :
                      job = "create" /\ Is(p, {"apply_cfg"}) /\ st[p] = "B" =>
                          Services(Second(p)) \subseteq asked \cup regs
          [] OTHER -> TRUE

(* No service is called, and none handed to apply_cfg_factory's function,   *)
(* that has not said it is ready in the readiness check before; and_then's  *)
(* second service, which is called later, included.                         *)
CalledWhenReady ==
    /\ \A n \in Node : ans.tag = "req" /\ cur = n /\ IsService(n) => n \in asked
    /\ \A p \in Node : job = "create" /\ Is(p, {"apply_cfg"}) /\ st[p] = "C" =>
          Services(Second(p)) \subseteq asked

(* Creation, readiness and call come to an end when what they wait for      *)
(* comes: no combinator answers Pending with nothing left to wake it.       *)
JobsEnd ==
    /\ job = "create" ~> job # "create"
    /\ job = "ready" ~> job # "ready"
    /\ job = "call" ~> job # "call"
=============================================================================
