------------------------------ MODULE ListSpec ------------------------------
(***************************************************************************)
(* What linkedlist.c promises its callers: a sequence that grows at its    *)
(* end and from which any element can be taken.                            *)
(***************************************************************************)
EXTENDS Naturals, Sequences

CONSTANTS
  Data,
  MayForget  \* may an append fail?

VARIABLE items

Init == items = <<>>

Grow(d) == items' = Append(items, d)

Take(i) ==
  items' = [j \in 1 .. Len(items) - 1 |-> IF j < i THEN items[j] ELSE items[j + 1]]

\* A failed append returns NULL in place of the list.
Forget == MayForget /\ items' = <<>>

Next ==
  \/ \E d \in Data : Grow(d)
  \/ \E i \in 1 .. Len(items) : Take(i)
  \/ Forget

Spec == Init /\ [][Next]_items
=============================================================================
