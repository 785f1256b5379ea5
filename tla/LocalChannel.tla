---------------------------- MODULE LocalChannel ----------------------------
(***************************************************************************)
(* local-channel::mpsc: a channel within one thread.  Its halves share one *)
(* RefCell behind an Rc, and the number of senders is the reference count  *)
(* of that Rc.  A message may own a Sender of the channel it travels       *)
(* through, so that counting and dropping re-enter the channel.            *)
(*                                                                         *)
(* Nothing is concurrent: every call is one step.  The tasks are executor  *)
(* tasks that poll the Receiver, which may move from one to another.       *)
(***************************************************************************)
EXTENDS Naturals, Sequences, FiniteSets

CONSTANTS
    Tasks,
    NoTask,
    MaxSenders, \* bound: senders at one time, those in messages included
    MaxSends    \* bound: messages accepted

ASSUME ConstantsAssumption ==
    /\ NoTask \notin Tasks
    /\ MaxSenders \in Nat \ {0} /\ MaxSends \in Nat

VARIABLES
    buffer,       \* Shared::buffer: the messages, numbered as they are accepted
    carrying,     \* the messages of the buffer that own a Sender
    blocked_recv, \* Shared::blocked_recv
    has_receiver, \* Shared::has_receiver
    receiver,     \* the Receiver: "alive" or "dropped"; "abort" ends the process
    senders,      \* the Senders outside the buffer
    accepted,     \* messages accepted so far
    received,     \* messages handed out, in order
    polled,       \* the task whose poll was the last and is Pending, or NoTask
    ended,        \* the last poll returned None
    woken         \* tasks woken and not polled since

vars == <<buffer, carrying, blocked_recv, has_receiver, receiver, senders, accepted, received,
          polled, ended, woken>>

Waker == INSTANCE LocalWaker WITH waker <- blocked_recv

TypeOK ==
    /\ buffer \in Seq(1 .. MaxSends)
    /\ carrying \subseteq 1 .. MaxSends
    /\ blocked_recv \in Waker!Cells
    /\ has_receiver \in BOOLEAN
    /\ receiver \in {"alive", "dropped", "abort"}
    /\ senders \in 0 .. MaxSenders
    /\ accepted \in 0 .. MaxSends
    /\ received \in Seq(1 .. MaxSends)
    /\ polled \in Waker!Cells
    /\ ended \in BOOLEAN
    /\ woken \subseteq Tasks

(* channel(). *)
Init ==
    /\ buffer = <<>>
    /\ carrying = {}
    /\ Waker!new
    /\ has_receiver = TRUE
    /\ receiver = "alive"
    /\ senders = 1
    /\ accepted = 0
    /\ received = <<>>
    /\ polled = NoTask
    /\ ended = FALSE
    /\ woken = {}

AllSenders == senders + Cardinality(carrying)

(* Rc::strong_count(&shared). *)
strong_count == AllSenders + (IF receiver = "alive" THEN 1 ELSE 0)

-----------------------------------------------------------------------------
(* Sender.                                                                  *)

(* send and Sink::start_send, by a caller that may move a clone of its      *)
(* Sender into the message.  Without a receiver the message is given back.  *)
Send(carry) ==
    /\ receiver # "abort" /\ senders > 0
    /\ accepted < MaxSends
    /\ IF has_receiver
       THEN /\ accepted' = accepted + 1
            /\ buffer' = Append(buffer, accepted')
            /\ \/ carry = "nothing" /\ UNCHANGED <<carrying, senders>>
               \/ carry = "clone" /\ AllSenders < MaxSenders
                    /\ carrying' = carrying \cup {accepted'} /\ UNCHANGED senders
            /\ Waker!wake
       ELSE UNCHANGED <<accepted, buffer, carrying, senders, blocked_recv, woken>>
    /\ UNCHANGED <<has_receiver, receiver, received, polled, ended>>

(* close and Sink::poll_close. *)
Close_quiet == has_receiver' = FALSE /\ UNCHANGED <<blocked_recv, woken>>
Close == has_receiver' = FALSE /\ Waker!wake

CloseSender ==
    /\ receiver # "abort" /\ senders > 0
    /\ Close
    /\ UNCHANGED <<buffer, carrying, receiver, senders, accepted, received, polled, ended>>

(* Clone, and Receiver::sender, which needs no other sender. *)
NewSender ==
    /\ receiver # "abort"
    /\ senders > 0 \/ receiver = "alive"
    /\ AllSenders < MaxSenders
    /\ senders' = senders + 1
    /\ UNCHANGED <<buffer, carrying, blocked_recv, has_receiver, receiver, accepted, received,
                   polled, ended, woken>>

LastSender_lone == has_receiver /\ strong_count = 1
(* The count is read while this sender is still in it. *)
LastSender == has_receiver /\ strong_count = 2

(* Drop.  When no handle is left the shared state goes, with its messages. *)
DropSender ==
    /\ receiver # "abort" /\ senders > 0
    /\ senders' = senders - 1
    /\ IF LastSender THEN Waker!wake ELSE UNCHANGED <<blocked_recv, woken>>
    /\ UNCHANGED <<buffer, carrying, has_receiver, receiver, accepted, received, polled, ended>>

-----------------------------------------------------------------------------
(* Receiver.                                                                *)

Closed == ~has_receiver \/ strong_count = 1

PollSome_unless_closed == buffer # <<>> /\ ~Closed
(* Buffered messages come before the end of the stream. *)
PollSome == buffer # <<>>

(* poll_next and recv.  A Sender in the message is now its new owner's.     *)
Poll(t) ==
    /\ receiver = "alive"
    /\ woken' = woken \ {t}
    /\ \/ /\ PollSome
          /\ buffer' = Tail(buffer)
          /\ received' = Append(received, Head(buffer))
          /\ carrying' = carrying \ {Head(buffer)}
          /\ senders' = IF Head(buffer) \in carrying THEN senders + 1 ELSE senders
          /\ polled' = NoTask /\ ended' = FALSE
          /\ UNCHANGED blocked_recv
       \/ /\ ~PollSome /\ Closed
          /\ polled' = NoTask /\ ended' = TRUE
          /\ UNCHANGED <<buffer, received, carrying, senders, blocked_recv>>
       \/ /\ ~PollSome /\ ~Closed
          /\ Waker!register(t)
          /\ polled' = t /\ ended' = FALSE
          /\ UNCHANGED <<buffer, received, carrying, senders>>
    /\ UNCHANGED <<has_receiver, receiver, accepted>>

(* Drop.  The buffer is cleared while the cell is borrowed: the drop of a   *)
(* Sender in it borrows it again and panics, before has_receiver is reset,  *)
(* and a second one panics during the unwinding and aborts the process.     *)
DropReceiver ==
    /\ receiver = "alive"
    /\ buffer' = <<>> /\ carrying' = {}
    /\ polled' = NoTask
    /\ CASE carrying = {} ->
              receiver' = "dropped" /\ has_receiver' = FALSE
         [] Cardinality(carrying) = 1 ->
              receiver' = "dropped" /\ UNCHANGED has_receiver
         [] OTHER ->
              receiver' = "abort" /\ UNCHANGED has_receiver
    /\ UNCHANGED <<blocked_recv, senders, accepted, received, ended, woken>>

-----------------------------------------------------------------------------
Next ==
    \/ \E carry \in {"nothing", "clone"} : Send(carry)
    \/ CloseSender \/ NewSender \/ DropSender
    \/ \E t \in Tasks : Poll(t)
    \/ DropReceiver

Spec == Init /\ [][Next]_vars

(* A task that holds the receiver polls it until it is Pending or ended,    *)
(* and once it is Pending again when it is woken.                           *)
Obliged == ~ended /\ (polled = NoTask \/ polled \in woken)

Fairness == WF_vars(Obliged /\ \E t \in Tasks : Poll(t))

FairSpec == Spec /\ Fairness

-----------------------------------------------------------------------------
(* Properties.                                                              *)

(* A receiver that is Pending and whose task nobody has woken waits for     *)
(* something that can still happen, and whoever makes it happen will find   *)
(* its waker: nothing is buffered, and a sender is left that can send,      *)
(* close, or be the last to be dropped.                                     *)
NoLostWake ==
    receiver = "alive" /\ polled # NoTask /\ polled \notin woken =>
        /\ blocked_recv = polled
        /\ buffer = <<>> /\ has_receiver /\ senders > 0

(* "Buffered values are returned before None", in the order in which they   *)
(* were accepted: a poll hands out the oldest, or there was none left.      *)
DrainsInOrder ==
    [][\A t \in Tasks : Poll(t) =>
         \/ received' = Append(received, Len(received) + 1)
         \/ Len(received) = accepted /\ UNCHANGED received]_vars

(* A receiver that keeps polling when woken gets everything accepted before *)
(* it is told the end, which it is when the channel is closed or its        *)
(* senders are gone.  (The end is not final: Receiver::sender makes a new   *)
(* sender, and what that sends is there for who polls again.)               *)
StreamServed ==
    /\ \A n \in 1 .. MaxSends :
         accepted >= n /\ ~ended ~> Len(received) >= n \/ receiver # "alive"
    /\ AllSenders = 0 \/ ~has_receiver ~>
         ended \/ receiver # "alive" \/ (AllSenders > 0 /\ has_receiver)
=============================================================================
