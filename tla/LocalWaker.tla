----------------------------- MODULE LocalWaker -----------------------------
(***************************************************************************)
(* local-waker: the cell that holds the waker of at most one task.         *)
(***************************************************************************)
CONSTANTS
    Tasks,  \* the tasks whose wakers are registered
    NoTask  \* the empty cell

VARIABLES
    waker,  \* LocalWaker::waker
    woken   \* tasks woken and not polled since

Cells == Tasks \cup {NoTask}

(* LocalWaker::new. *)
new == waker = NoTask

(* LocalWaker::register: the last one stays, whoever was there before. *)
register(t) == waker' = t

(* LocalWaker::wake takes the waker out; without one it does nothing. *)
wake ==
    /\ woken' = woken \cup ({waker} \ {NoTask})
    /\ waker' = NoTask
=============================================================================
