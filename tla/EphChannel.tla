----------------------------- MODULE EphChannel -----------------------------
(***************************************************************************)
(* What the EPH861x link promises the driver, stated without the driver:  *)
(* the controller puts numbered messages on the link, and they leave it    *)
(* one at a time, in the order sent, each handed to exactly one consumer  *)
(* (a command loop, eph_handle_report or a raw read).  Every message sent *)
(* is eventually taken.  EphComms implements this specification under    *)
(* the mapping it states as ChannelSpec.                                  *)
(***************************************************************************)
EXTENDS Naturals, Sequences

CONSTANT MaxMsgs    \* how many messages the controller sends in all

VARIABLES
    link,    \* ids sent and not yet taken, oldest first
    taken,   \* ids handed to a consumer
    sent     \* last id sent

chvars == <<link, taken, sent>>

Init ==
    /\ link = <<>>
    /\ taken = {}
    /\ sent = 0

(* The controller queues its next message. *)
Send ==
    /\ sent < MaxMsgs
    /\ link' = Append(link, sent + 1)
    /\ sent' = sent + 1
    /\ UNCHANGED taken

(* The oldest message leaves the link and reaches one consumer. *)
Take ==
    /\ link # <<>>
    /\ link' = Tail(link)
    /\ taken' = taken \cup {Head(link)}
    /\ UNCHANGED sent

Next == Send \/ Take

(* A message on the link is taken: nothing forces the controller to send. *)
Spec == Init /\ [][Next]_chvars /\ WF_chvars(Take)
====
