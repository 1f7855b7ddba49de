----------------------------- MODULE MiposFifo -----------------------------
(***************************************************************************)
(* What a mipOS queue promises: a bounded FIFO.  An item is appended when  *)
(* there is room, the oldest one is delivered.                             *)
(***************************************************************************)
EXTENDS Sequences, Naturals

CONSTANTS Item, Limit, NoItem

VARIABLES
  items,  \* what was sent and not yet delivered, oldest first
  out     \* the item delivered last

Init == items = <<>> /\ out = NoItem

Put(x) ==
  /\ Len(items) < Limit
  /\ items' = Append(items, x)
  /\ UNCHANGED out

Get ==
  /\ items # <<>>
  /\ items' = Tail(items)
  /\ out' = Head(items)

Next == Get \/ \E x \in Item : Put(x)

Spec == Init /\ [][Next]_<<items, out>>
=============================================================================
