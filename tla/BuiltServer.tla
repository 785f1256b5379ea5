---------------------------- MODULE BuiltServer ----------------------------
(***************************************************************************)
(* A server from its builder to its end: ServerBuilder, then Server with   *)
(* the services its workers create, one factory after the other, at the    *)
(* start and at every restart.                                             *)
(***************************************************************************)
EXTENDS Server, SequencesExt

CONSTANTS Addrs, Paths, MaxBuilds

VARIABLES
    phase, token, factories, sockets, at, builds,
    services    \* those each worker has created, in that order

B == INSTANCE ServerBuilder

builder == <<phase, token, factories, sockets, at, builds>>
allVars == <<vars, builder, services>>

BuiltInit ==
    /\ Init
    /\ B!Init
    /\ services = [i \in Idx |-> <<>>]

-----------------------------------------------------------------------------
(* ServerBuilder::run gives the builder to a Server, which is then polled   *)
(* or dropped.                                                              *)
Building ==
    /\ B!Next
    /\ UNCHANGED <<vars, services>>

(* A worker has factories of its own, which know the same tokens. *)
clone_factory(f) == f

(* StreamNewService::create ends well: the worker goes on to the next. *)
create(i) ==
    /\ worker[i] = "creating"
    /\ Len(services[i]) < Len(factories)
    /\ services' = [services EXCEPT ![i] =
                       Append(@, clone_factory(factories[Len(@) + 1]))]
    /\ UNCHANGED <<vars, builder>>

AllCreated(i) == Len(services[i]) = Len(factories)

(* A worker that ends drops its services, and one that starts has none. *)
Kept(i) == worker'[i] = worker[i] \/ worker'[i] \in {"serving", "draining"}

Serving ==
    /\ phase = "built"
    /\ Next
    /\ \A i \in Idx :
          worker[i] = "creating" /\ worker'[i] = "serving" => AllCreated(i)
    /\ services' = [i \in Idx |-> IF Kept(i) THEN services[i] ELSE <<>>]
    /\ UNCHANGED builder

BuiltNext ==
    \/ Building
    \/ \E i \in Idx : create(i)
    \/ Serving

BuiltSpec == BuiltInit /\ [][BuiltNext]_allVars

-----------------------------------------------------------------------------
(* Properties.                                                              *)

(* The event of a listener brings its token, by which Accept::accept finds  *)
(* a listener again, and a Conn takes that one's token to the worker.       *)
AcceptedAt(l) == sockets[l.token + 1]
HandedTo(i, l) == services[i][AcceptedAt(l).token + 1]

(* A client that connects to an address is served by the factory that was   *)
(* given with that address, in every worker that the accept thread knows,   *)
(* a restarted one included; and the service gets a stream of its own kind  *)
(* ("Should not happen, bug in server impl") and stands at its token in the *)
(* worker's list ("Token value should match its index in the list").        *)
RightService ==
    accept = "running" =>
        \A i \in known, a \in DOMAIN at :
            worker[i] \in {"serving", "draining"} =>
                \E l \in ToSet(sockets) :
                    /\ l.addr = a /\ l.by = at[a]
                    /\ AcceptedAt(l) = l
                    /\ HandedTo(i, l).by = at[a]
                    /\ HandedTo(i, l).io = l.io
                    /\ HandedTo(i, l).token = l.token
=============================================================================
