---------------------------- MODULE MCClientFeed ----------------------------
(***************************************************************************)
(* Instance of ClientFeed for TLC: local clients l1 to l3, a remote one    *)
(* r1, two slots, an own message and one of another node.                  *)
(***************************************************************************)
EXTENDS ClientFeed, TLC

CONSTANTS l1, l2, l3, r1, f1, f2, f3, own, other

\* Local clients behave alike, and so do descriptors.
Alike == Permutations(Client \ {First, r1}) \cup Permutations(Fd)
=============================================================================
