---------------------------- MODULE MCLinkedList ----------------------------
(***************************************************************************)
(* Instance of LinkedList for TLC: four entries, two values, so that heads,*)
(* tails, middles, equal values and single entries all occur.              *)
(***************************************************************************)
EXTENDS LinkedList
CONSTANTS a1, a2, a3, a4, d1, d2
=============================================================================
