-------------------------- MODULE ServerContract --------------------------
(***************************************************************************)
(* What a server promises its user: it ends only when its listeners are    *)
(* closed, and a graceful stop, and only that, notifies the services and   *)
(* lets every worker end first.  The accept thread is told to stop once,   *)
(* and a worker is replaced only when it has ended.                        *)
(*                                                                         *)
(* Server implements this, whatever is restarted, dropped or fails on the  *)
(* way.                                                                    *)
(***************************************************************************)
EXTENDS Naturals

CONSTANT Workers

VARIABLES
    status,     \* "new", "starting", "running", "draining", "stopping",
                \* "stopped", "dropping", "ended"
    listening,  \* the accept thread runs: it owns the listeners
    told,       \* how often it has been told to stop: not more than once
    live,       \* workers whose thread runs
    notified    \* services have been told of a graceful stop

vars == <<status, listening, told, live, notified>>

Init ==
    /\ status = "new"
    /\ listening = FALSE
    /\ told = 0
    /\ live = {}
    /\ notified = FALSE

Begin ==
    /\ status = "new"
    /\ status' = "starting"
    /\ live' = Workers
    /\ UNCHANGED <<listening, told, notified>>

Open ==
    /\ status = "starting"
    /\ status' = "running"
    /\ listening' = TRUE
    /\ UNCHANGED <<told, live, notified>>

(* A worker ends: it was told to, or it dies. *)
Leave(i) ==
    /\ i \in live
    /\ live' = live \ {i}
    /\ UNCHANGED <<status, listening, told, notified>>

Restart(i) ==
    /\ status = "running"
    /\ i \in Workers \ live
    /\ live' = live \cup {i}
    /\ UNCHANGED <<status, listening, told, notified>>

Tell ==
    /\ told = 0
    /\ told' = 1

Stop ==
    /\ status = "running"
    /\ Tell
    /\ \/ status' = "draining" /\ notified' = TRUE
       \/ status' = "stopping" /\ UNCHANGED notified
    /\ UNCHANGED <<listening, live>>

(* A graceful stop is past its wait for the workers. *)
Drained ==
    /\ status = "draining"
    /\ live = {}
    /\ status' = "stopping"
    /\ UNCHANGED <<listening, told, live, notified>>

(* The accept thread ends, as it was told, or in a panic. *)
Close ==
    /\ told = 1 \/ status = "running"
    /\ listening
    /\ listening' = FALSE
    /\ UNCHANGED <<status, told, live, notified>>

(* Whoever asked for the stop is answered: nothing listens any more. *)
Stopped ==
    /\ status = "stopping"
    /\ ~listening
    /\ status' = "stopped"
    /\ UNCHANGED <<listening, told, live, notified>>

Drop ==
    /\ status \in {"running", "draining"}
    /\ status' = "dropping"
    /\ Tell \/ (told = 1 /\ UNCHANGED told)
    /\ UNCHANGED <<listening, live, notified>>

End ==
    /\ status # "running"
    /\ ~listening
    /\ status' = "ended"
    /\ UNCHANGED <<listening, told, live, notified>>

Next ==
    \/ Begin \/ Open \/ Stop \/ Drained \/ Close \/ Stopped \/ Drop \/ End
    \/ \E i \in Workers : Leave(i) \/ Restart(i)

Spec == Init /\ [][Next]_vars
=============================================================================
