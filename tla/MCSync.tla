------------------------------- MODULE MCSync -------------------------------
(***************************************************************************)
(* Sync with three neighbours: the second may hold what its own            *)
(* synchronisation left there twice.                                       *)
(***************************************************************************)
EXTENDS Sync

CONSTANTS m1, m2, m3

DumpsOf ==
  [p \in Peer |-> CASE p = 1 -> {<<>>, <<m1>>}
                    [] p = 2 -> {<<m2, m3>>, <<m1, m2, m2>>}
                    [] OTHER -> {<<m3>>}]
=============================================================================
