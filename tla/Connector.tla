------------------------------ MODULE Connector ------------------------------
(***************************************************************************)
(* The client side of actix-tls: one request through the resolver, the TCP *)
(* connector with its fallback from address to address, and a TLS          *)
(* connector behind it.  The services keep no state, so that requests do   *)
(* not meet; what can go wrong is within one future, which is polled when  *)
(* it is woken and drives the futures of its stages one after the other.   *)
(***************************************************************************)
EXTENDS Naturals, Sequences

CONSTANTS
    V4, V6,    \* socket addresses of the two families
    NoAddr,
    MaxAddrs   \* bound: addresses of one request

ASSUME AddressesAssumption ==
    /\ V4 \cap V6 = {} /\ NoAddr \notin V4 \cup V6
    /\ MaxAddrs \in Nat

Addrs == V4 \cup V6
AddrLists == UNION {[1 .. n -> Addrs] : n \in 0 .. MaxAddrs}

VARIABLES
    client,      \* "connector", or "tcp": a TcpConnector without a resolver
    tls,         \* the TlsConnector that follows: "none", "rustls", or "other"
    host,        \* the request's: "ip", "name", or "bad": no valid server name
    resolver,    \* ResolverKind: "default" or "custom"
    local_addr,  \* family of the local address to bind: "v4", "v6" or "none"
    addr,        \* ConnectInfo::addr
    fut,         \* the future that is driven: "resolved", "lookup", "tcp", "tls" or "end"
    answer,      \* the lookup's: "pending", "err", "cancelled" or "ok"
    addrs,       \* addresses the TCP connector has left
    stream,      \* the address it is connecting to, or NoAddr
    io,          \* the attempt, or the handshake: "pending", "ok" or "err"
    result,      \* "none", "ok" or the error
    polling,     \* a poll is under way
    registered,  \* the future driven has been polled and has the waker
    runnable,    \* woken, to be polled
    \* what the request was for, and what has become of it
    candidates,  \* the addresses it came with or was resolved to
    tried        \* attempts that have ended, as [to |-> address, res |-> "ok" or "err"]

setup == <<client, tls, host, resolver, local_addr>>
request == <<setup, addr, fut, answer, addrs, stream, io, result, polling, registered, runnable,
          candidates, tried>>

Errors == {"Resolver", "NoRecords", "Unresolved", "Io", "InvalidServerName", "Handshake"}

(* ConnectAddrs, From<Option<SocketAddr>>, and ConnectInfo::set_addrs.      *)
None == [variant |-> "None", list |-> <<>>]
From(list) == IF list = <<>> THEN None ELSE [variant |-> "One", list |-> <<Head(list)>>]

set_addrs_short(list) ==
    IF Len(list) < 3 THEN From(list) ELSE [variant |-> "Multi", list |-> list]
set_addrs(list) ==
    IF Len(list) < 2 THEN From(list) ELSE [variant |-> "Multi", list |-> list]

is_unresolved(a) == a.variant = "None"

(* A request as its user makes it, with the addresses known to it, if any.  *)
Requests == {set_addrs(list) : list \in AddrLists}

(* ResolverService::call.                                                   *)
ResolverCall(a) ==
    IF ~is_unresolved(a) \/ host = "ip" THEN fut = "resolved" ELSE fut = "lookup"

NewRequest ==
    /\ client \in {"connector", "tcp"}
    /\ tls \in {"none", "rustls", "other"}
    /\ host \in {"ip", "name", "bad"}
    /\ resolver \in {"default", "custom"}
    /\ local_addr \in {"none", "v4", "v6"}
    /\ addr \in Requests
    /\ IF client = "connector" THEN ResolverCall(addr) ELSE fut = "resolved"
    /\ answer = "pending"
    /\ addrs = <<>> /\ stream = NoAddr /\ io = "pending"
    /\ result = "none"
    /\ polling = FALSE /\ registered = FALSE /\ runnable = TRUE
    /\ candidates = addr.list /\ tried = <<>>

-----------------------------------------------------------------------------
(* The environment: what the futures that are driven wait for.              *)

Wake == runnable' = (runnable \/ registered) /\ registered' = FALSE

(* The thread pool or the user's resolver; only the former can be cancelled *)
(* with its runtime.                                                        *)
LookupEnds ==
    /\ fut = "lookup" /\ answer = "pending"
    /\ answer' \in {"ok", "err"} \cup (IF resolver = "default" THEN {"cancelled"} ELSE {})
    /\ IF answer' = "ok" THEN candidates' \in AddrLists ELSE UNCHANGED candidates
    /\ Wake
    /\ UNCHANGED <<setup, addr, fut, addrs, stream, io, result, polling, tried>>

Family(a) == IF a \in V4 THEN "v4" ELSE "v6"

(* connect: a socket bound to the local address reaches its family only.    *)
Connectable(a) == local_addr \in {"none", Family(a)}

AttemptEnds ==
    /\ fut = "tcp" /\ stream # NoAddr /\ io = "pending"
    /\ io' \in {"err"} \cup (IF Connectable(stream) THEN {"ok"} ELSE {})
    /\ tried' = Append(tried, [to |-> stream, res |-> io'])
    /\ Wake
    /\ UNCHANGED <<setup, addr, fut, answer, addrs, stream, result, polling, candidates>>

HandshakeEnds ==
    /\ fut = "tls" /\ io = "pending"
    /\ io' \in {"ok", "err"}
    /\ Wake
    /\ UNCHANGED <<setup, addr, fut, answer, addrs, stream, result, polling, candidates, tried>>

-----------------------------------------------------------------------------
(* The request's future: ConnectServiceResponse::poll, a loop.              *)

PollRequest ==
    /\ fut # "end" /\ runnable /\ ~polling
    /\ polling' = TRUE /\ runnable' = FALSE
    /\ UNCHANGED <<setup, addr, fut, answer, addrs, stream, io, result, registered,
                   candidates, tried>>

Finish(res) ==
    /\ result' = res /\ fut' = "end" /\ polling' = FALSE
    /\ UNCHANGED <<addrs, stream, io>>

(* The future that is driven is Pending.                                    *)
Pending ==
    /\ polling
    /\ \/ fut = "lookup" /\ answer = "pending"
       \/ fut \in {"tcp", "tls"} /\ io = "pending"
    /\ polling' = FALSE /\ registered' = TRUE
    /\ UNCHANGED <<setup, addr, fut, answer, addrs, stream, io, result, runnable,
                   candidates, tried>>

(* TcpConnectorFut::new: an address is known, or was found; the first of    *)
(* several comes first.                                                     *)
TcpCall(a) ==
    IF is_unresolved(a)
    THEN Finish("Unresolved")
    ELSE /\ fut' = "tcp"
         /\ stream' = Head(a.list)
         /\ addrs' = IF a.variant = "Multi" THEN Tail(a.list) ELSE <<>>
         /\ io' = "pending"
         /\ UNCHANGED <<result, polling>>

(* A host that is an IP address is its own only address.                    *)
Resolved ==
    /\ polling /\ fut = "resolved"
    /\ IF client = "connector" /\ is_unresolved(addr)
       THEN \E a \in Addrs : addr' = From(<<a>>)
       ELSE UNCHANGED addr
    /\ candidates' = addr'.list
    /\ TcpCall(addr')
    /\ UNCHANGED <<setup, answer, registered, runnable, tried>>

LookUp ==
    /\ polling /\ fut = "lookup" /\ answer = "ok"
    /\ addr' = set_addrs(candidates)
    /\ IF is_unresolved(addr') THEN Finish("NoRecords") ELSE TcpCall(addr')
    /\ UNCHANGED <<setup, answer, registered, runnable, candidates, tried>>

LookUpFails ==
    /\ polling /\ fut = "lookup" /\ answer \in {"err", "cancelled"}
    /\ Finish(IF answer = "err" THEN "Resolver" ELSE "Io")
    /\ UNCHANGED <<setup, addr, answer, registered, runnable, candidates, tried>>

(* Connected; with a TlsConnector the handshake starts, for the first       *)
(* address that answered and no other; rustls refuses some host names      *)
(* before it begins.                                                        *)
Connected ==
    /\ polling /\ fut = "tcp" /\ io = "ok"
    /\ CASE tls = "none" -> Finish("ok")
         [] tls = "rustls" /\ host = "bad" -> Finish("InvalidServerName")
         [] OTHER -> /\ fut' = "tls" /\ io' = "pending"
                     /\ UNCHANGED <<addrs, stream, result, polling>>
    /\ UNCHANGED <<setup, addr, answer, registered, runnable, candidates, tried>>

ReconnectTurn_returned == polling' = FALSE
(* stream.set, and the loop: the new attempt is polled at once.             *)
ReconnectTurn == UNCHANGED polling

Reconnect ==
    /\ polling /\ fut = "tcp" /\ io = "err" /\ addrs # <<>>
    /\ stream' = Head(addrs) /\ addrs' = Tail(addrs)
    /\ io' = "pending"
    /\ ReconnectTurn
    /\ UNCHANGED <<setup, addr, fut, answer, result, registered, runnable, candidates, tried>>

Unreachable ==
    /\ polling /\ fut = "tcp" /\ io = "err" /\ addrs = <<>>
    /\ Finish("Io")
    /\ UNCHANGED <<setup, addr, answer, registered, runnable, candidates, tried>>

Handshaken ==
    /\ polling /\ fut = "tls" /\ io # "pending"
    /\ Finish(IF io = "ok" THEN "ok" ELSE "Handshake")
    /\ UNCHANGED <<setup, addr, answer, registered, runnable, candidates, tried>>

-----------------------------------------------------------------------------
Poll ==
    \/ Pending \/ Resolved \/ LookUp \/ LookUpFails
    \/ Connected \/ Reconnect \/ Unreachable \/ Handshaken

RequestStep == LookupEnds \/ AttemptEnds \/ HandshakeEnds \/ PollRequest \/ Poll

RequestSpec == NewRequest /\ [][RequestStep]_request

(* The runtime polls what is woken; lookups, attempts and handshakes end,   *)
(* as there is no timer here that ends them.                                *)
Fairness ==
    /\ WF_request(PollRequest) /\ WF_request(Poll)
    /\ WF_request(LookupEnds) /\ WF_request(AttemptEnds) /\ WF_request(HandshakeEnds)

FairRequestSpec == RequestSpec /\ Fairness

-----------------------------------------------------------------------------
(* Properties.                                                              *)

(* "they would be popped from front end of queue and returns with the first *)
(* successful TCP connection": the addresses are tried in their order, the  *)
(* next one only when the last one failed, and the request fails for want   *)
(* of a connection only when none is left.                                  *)
FirstReachableWins ==
    /\ Len(tried) <= Len(candidates)
    /\ \A k \in 1 .. Len(tried) : tried[k].to = candidates[k]
    /\ \A k \in 1 .. Len(tried) - 1 : tried[k].res = "err"
    /\ result \in {"ok", "InvalidServerName", "Handshake"} =>
         tried # <<>> /\ tried[Len(tried)].res = "ok"
    /\ result = "Io" /\ answer # "cancelled" =>
         /\ tried # <<>> /\ tried[Len(tried)].res = "err"
         /\ Len(tried) = Len(candidates)
    /\ result \in {"NoRecords", "Unresolved"} => candidates = <<>>

(* A request ends, however many addresses fail on the way.                  *)
RequestEnds == <>(result # "none")
=============================================================================
