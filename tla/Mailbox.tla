------------------------------- MODULE Mailbox -------------------------------
(***************************************************************************)
(* What the put-or-purge loop promises the reader of a queue with one      *)
(* writer: writing is one atomic step after which the new message is the   *)
(* last one in the box, the backlog may be dropped but only by a newer     *)
(* message, and the reader takes the remaining messages oldest first.      *)
(***************************************************************************)
EXTENDS Naturals, Sequences

CONSTANTS Depth,      \* capacity of the box
          Message     \* the messages that can be written

VARIABLE box

Init == box = << >>

\* A write keeps the backlog when there is room, or replaces it.
Write(m) ==
  \/ box' = <<m>>
  \/ Len(box) < Depth /\ box' = Append(box, m)

Take == box # << >> /\ box' = Tail(box)

Next == Take \/ \E m \in Message : Write(m)

Spec == Init /\ [][Next]_box
=============================================================================
