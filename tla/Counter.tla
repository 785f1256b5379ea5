------------------------------ MODULE Counter ------------------------------
(***************************************************************************)
(* actix_utils::counter: a count of guards with a capacity.  It remembers  *)
(* one task, the last that found it full, and wakes it when a guard is     *)
(* dropped at the capacity.                                                *)
(***************************************************************************)
EXTENDS Naturals, LocalWaker

VARIABLES
    capacity, \* CounterInner::capacity
    count     \* CounterInner::count

(* Counter::new. *)
Create(limit) == capacity = limit /\ count = 0 /\ new

(* Counter::get: there is no check, a caller may go past the capacity. *)
get == count' = count + 1 /\ UNCHANGED <<capacity, waker>>

drop_late ==
    /\ count' = count - 1
    /\ IF count' = capacity THEN wake ELSE UNCHANGED <<waker, woken>>
    /\ UNCHANGED capacity

(* CounterGuard::drop: num is the count before. *)
drop ==
    /\ count' = count - 1
    /\ IF count = capacity THEN wake ELSE UNCHANGED <<waker, woken>>
    /\ UNCHANGED capacity

below == count < capacity

(* Counter::available, asked by task t: the answer is below. *)
available(t) == IF below THEN UNCHANGED waker ELSE register(t)
=============================================================================
