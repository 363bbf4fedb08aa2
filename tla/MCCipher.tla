------------------------------ MODULE MCCipher ------------------------------
(***************************************************************************)
(* Cbc for TLC: bytes of one bit, so that a block has 256 values, and the  *)
(* 16 rounds of the code.  That Blowfish undoes each of them is evaluated  *)
(* before the run starts.                                                  *)
(***************************************************************************)
EXTENDS Cbc, FiniteSets

\* Initial boxes without a pattern.
PBox == [n \in PIndex |-> (n * n * 7 + 3 * n + 5) % 16]
SBox == [t \in 0 .. 3 |-> [b \in Byte |-> (t * 6 + 11 * Cardinality(b) + 3) % 16]]

\* What malloc may return.
Memory == {[n \in PIndex |-> WordOf(0)], [n \in PIndex |-> WordOf(15)]}

\* Keys of no, one and three bytes.
Keys == {<<>>, <<{0}>>, <<{}, {0}, {0}>>}

\* Strings of two patterns; a chat message has nine blocks and seven bytes.
Pattern(x, i) == IF (i * i + x * i) % 5 < 2 THEN {0} ELSE {}
StringOf(x, n, t) ==
  [full |-> [b \in 1 .. n |-> [i \in 1 .. 8 |-> Pattern(x, 8 * b + i)]],
   tail |-> [i \in 1 .. t |-> Pattern(x, 8 * n + i)]]
Texts == {StringOf(x, n, t) : x \in {1, 3}, n \in {0, 1, 2, 3, 9}, t \in {0, 1, 7}}
Vectors == {[i \in 1 .. 8 |-> Pattern(x, i)] : x \in {2}}

ASSUME BlockCipher == Undone
=============================================================================
