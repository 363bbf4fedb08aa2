---------------------------- MODULE MCMulticast ----------------------------
(***************************************************************************)
(* Values of the constants of Multicast for TLC: two nodes in range of     *)
(* each other, or a line of three or four like the one of the field test.  *)
(***************************************************************************)
EXTENDS Multicast

CONSTANTS n1, n2, n3, n4, c1, c2

OriginOf == [m \in Chat |-> IF m = c1 THEN n1 ELSE n2]

Pair == [n \in Node |-> Node \ {n}]

Line ==
  [n \in Node |-> CASE n = n1 -> {n2}
                    [] n = n2 -> {n1, n3}
                    [] n = n3 -> Node \cap {n2, n4}
                    [] n = n4 -> {n3}]

\* Bound of the run with restarts: packets in flight at once.
Calm == Cardinality({p \in Packet : net[p] > 0}) <= 3
=============================================================================
