--------------------------- MODULE ServerBuilder ---------------------------
(***************************************************************************)
(* ServerBuilder: which listeners a server is given, which factory each of *)
(* them belongs to, and by which token the two know each other.            *)
(*                                                                         *)
(* The settings (threads, limits, timeouts, signals, system_exit) are      *)
(* constants of the modules that use them.  Which protocol a TCP socket    *)
(* speaks, plain or multipath, is left out.                                *)
(***************************************************************************)
EXTENDS Naturals, Sequences, FiniteSets, SequencesExt

CONSTANTS
    Addrs,      \* TCP addresses a host name may resolve to
    Paths,      \* paths of Unix domain sockets
    MaxBuilds   \* bound: calls of bind, listen, bind_uds and listen_uds

VARIABLES
    phase,      \* "building", "built", "failed" or "panic"
    token,      \* the next token
    factories,  \* with their token, the kind of stream they take, and the call
    sockets,    \*   that brought them; and the listeners, with their address
    at,         \* the call whose listener a client of an address gets
    builds      \* calls so far

builder == <<phase, token, factories, sockets, at, builds>>

Init ==
    /\ phase = "building"
    /\ token = 0
    /\ factories = <<>>
    /\ sockets = <<>>
    /\ at = [a \in {} |-> 0]
    /\ builds = 0

-----------------------------------------------------------------------------
(* The operating system closes a listener that nobody holds: with an error  *)
(* the builder and all it has bound is dropped.                             *)
Fails ==
    /\ phase' = "failed"
    /\ factories' = <<>>
    /\ sockets' = <<>>
    /\ at' = [a \in {} |-> 0]
    /\ UNCHANGED token

(* An address that is taken cannot be bound; any other may be refused. *)
create_mio_tcp_listener == Addrs \ DOMAIN at

(* The listeners that bind_addr may return are of the addresses that could  *)
(* be bound, in the order a host name resolved to them; it fails if there   *)
(* is none.                                                                 *)
bind_addr ==
    {bound \in UNION {[1 .. n -> create_mio_tcp_listener] : n \in 1 .. Cardinality(Addrs)} :
        \A k, l \in DOMAIN bound : bound[k] = bound[l] => k = l}

next_token_late(k) == token
next_token(k) == token + k - 1

(* Each listener gets a token, a factory and a place among the sockets. *)
Push(addrs, io) ==
    LET Factory(k) == [token |-> next_token(k), io |-> io, by |-> builds']
        Socket(k) == [token |-> next_token(k), io |-> io, by |-> builds', addr |-> addrs[k]]
    IN
    /\ token' = token + Len(addrs)
    /\ factories' = factories \o [k \in DOMAIN addrs |-> Factory(k)]
    /\ sockets' = sockets \o [k \in DOMAIN addrs |-> Socket(k)]
    /\ at' = [a \in DOMAIN at \cup ToSet(addrs) |-> IF a \in ToSet(addrs) THEN builds' ELSE at[a]]
    /\ UNCHANGED phase

Build ==
    /\ phase = "building"
    /\ builds < MaxBuilds
    /\ builds' = builds + 1

(* Asking a new listener for its address may fail as well. *)
bind ==
    /\ Build
    /\ Fails \/ \E bound \in bind_addr : Push(bound, "tcp")

(* A listener that the user has bound is taken as it is, unless it cannot   *)
(* be made non-blocking.                                                    *)
listen ==
    /\ Build
    /\ Fails \/ \E a \in Addrs \ DOMAIN at : Push(<<a>>, "tcp")

(* The path is removed first, if there is something; then it is bound.  A   *)
(* listener that was bound to it is out of the clients' reach.              *)
bind_uds ==
    /\ Build
    /\ Fails \/ \E p \in Paths : Push(<<p>>, "uds")

listen_uds ==
    /\ Build
    /\ Fails \/ \E p \in Paths \ DOMAIN at : Push(<<p>>, "uds")

run ==
    /\ phase = "building"
    /\ phase' = IF sockets = <<>> THEN "panic" ELSE "built"
    /\ UNCHANGED <<token, factories, sockets, at, builds>>

Next == bind \/ listen \/ bind_uds \/ listen_uds \/ run
=============================================================================
