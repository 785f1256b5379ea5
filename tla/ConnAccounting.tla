-------------------------- MODULE ConnAccounting --------------------------
(***************************************************************************)
(* What the accept thread and one worker of actix-server promise each      *)
(* other about connections: a connection is counted before it is sent, and *)
(* the count goes down exactly once, when the connection's guard is        *)
(* dropped or its send has failed.  The connections in the channel of a    *)
(* worker that is dropped are the exception: they stay counted.            *)
(*                                                                         *)
(* AcceptLoop implements this for each worker instance (there the worker   *)
(* is abstract), ServerWorker for its one worker (there the accept thread  *)
(* is abstract).                                                           *)
(***************************************************************************)
EXTENDS Integers

VARIABLES
    cnt,       \* raw value of the shared Counter, one more than the count
    chan,      \* connections in the worker's channel
    active,    \* connections whose task holds a guard
    inflight,  \* a connection is counted and not sent yet
    up         \* the receiving end of the channel exists

vars == <<cnt, chan, active, inflight, up>>

Init ==
    /\ cnt = 1
    /\ chan = 0
    /\ active = 0
    /\ inflight = FALSE
    /\ up = TRUE

(* WorkerHandleAccept::send: counted first, ... *)
Count ==
    /\ ~inflight
    /\ inflight' = TRUE
    /\ cnt' = cnt + 1
    /\ UNCHANGED <<chan, active, up>>

(* ... then visible to the worker, ... *)
Send ==
    /\ inflight
    /\ up
    /\ inflight' = FALSE
    /\ chan' = chan + 1
    /\ UNCHANGED <<cnt, active, up>>

(* ... or counted back. *)
SendFailed ==
    /\ inflight
    /\ ~up
    /\ inflight' = FALSE
    /\ cnt' = cnt - 1
    /\ UNCHANGED <<chan, active, up>>

(* The worker starts a task with a guard, ... *)
Recv ==
    /\ up
    /\ chan > 0
    /\ chan' = chan - 1
    /\ active' = active + 1
    /\ UNCHANGED <<cnt, inflight, up>>

(* ... or drops the connection with a guard. *)
Discard ==
    /\ up
    /\ chan > 0
    /\ chan' = chan - 1
    /\ cnt' = cnt - 1
    /\ UNCHANGED <<active, inflight, up>>

Finish ==
    /\ active > 0
    /\ active' = active - 1
    /\ cnt' = cnt - 1
    /\ UNCHANGED <<chan, inflight, up>>

(* The worker is dropped, and its channel with it. *)
Gone ==
    /\ up
    /\ up' = FALSE
    /\ chan' = 0
    /\ UNCHANGED <<cnt, active, inflight>>

Next == Count \/ Send \/ SendFailed \/ Recv \/ Discard \/ Finish \/ Gone

Spec == Init /\ [][Next]_vars
=============================================================================
