------------------------------ MODULE Blowfish ------------------------------
(***************************************************************************)
(* The block cipher of libbfish as operators: the key schedule             *)
(* (bfish_keyinit), the encryption of a block of eight bytes               *)
(* (bfish_encrypt) and its decryption (bfish_decrypt), with bytes of       *)
(* ByteBits bits.                                                          *)
(*                                                                         *)
(* A byte is the set of its bits, so XOR is symmetric difference.  A word  *)
(* is its four bytes, the most significant first: the code loads a word    *)
(* from the string and converts it to big endian, that is in this order,   *)
(* and back after the last round.  u_long has 32 bits in the build for the *)
(* phones.                                                                 *)
(***************************************************************************)
EXTENDS Integers, Sequences, FiniteSetsExt

CONSTANTS
  ByteBits,  \* bits of a byte: 8 in the code
  Rounds,    \* 16 in the code
  InitialP,  \* pbox_arr and sbox_arr, the digits of pi, as numbers
  InitialS

Bit == 0 .. ByteBits - 1
Byte == SUBSET Bit
Word == [1 .. 4 -> Byte]
Block == [1 .. 8 -> Byte]
PIndex == 0 .. Rounds + 1

ASSUME BlowfishAssumption ==
  /\ ByteBits \in Nat \ {0}
  /\ Rounds \in Nat \ {0} /\ Rounds % 2 = 0
  /\ InitialP \in [PIndex -> Nat]
  /\ InitialS \in [0 .. 3 -> [Byte -> Nat]]

\* a ^ b of two words.
Xor(v, w) == <<SymDiff(v[1], w[1]), SymDiff(v[2], w[2]),
               SymDiff(v[3], w[3]), SymDiff(v[4], w[4])>>

\* The number that a word stands for, and the word of a number, cut to its size.
Size == 2 ^ ByteBits
ByteOf(n) == {b \in Bit : (n \div 2 ^ b) % 2 = 1}
Value == CHOOSE f \in [Byte -> 0 .. Size - 1] : \A n \in 0 .. Size - 1 : f[ByteOf(n)] = n
Num(w) == ((Value[w[1]] * Size + Value[w[2]]) * Size + Value[w[3]]) * Size + Value[w[4]]
WordOf(n) == <<ByteOf((n \div Size ^ 3) % Size), ByteOf((n \div Size ^ 2) % Size),
               ByteOf((n \div Size) % Size), ByteOf(n % Size)>>

Plus(v, w) == WordOf(Num(v) + Num(w))

\* The function F: ((s1[a] + s2[b]) ^ s3[c]) + s4[d].
F(s, w) == Plus(Xor(Plus(s[0][w[1]], s[1][w[2]]), s[2][w[3]]), s[3][w[4]])

\* One round with the entry p of the P box; the halves change places.
Round(s, p, x) ==
  LET left == Xor(x.l, p)
  IN  [l |-> Xor(x.r, F(s, left)), r |-> left]

\* After the last round the halves change back, then the last two entries.
Finish(x, p, q) == [l |-> Xor(x.r, p), r |-> Xor(x.l, q)]

\* The halves after each round, with entry q[i] of the P box in round i.
After(s, q, x) ==
  LET after[i \in 0 .. Rounds] ==
        IF i = 0 THEN x ELSE Round(s, q[i], after[i - 1])
  IN  after

\* bfish_encrypt_swap: entries 0, 1, ..., then 17 and 16.
Encrypt(bk, x) ==
  Finish(After(bk.s, [i \in 1 .. Rounds |-> bk.p[i - 1]], x)[Rounds],
         bk.p[Rounds + 1], bk.p[Rounds])

\* bfish_decrypt: entries 17, 16, ..., then 0 and 1.
Decrypt(bk, x) ==
  Finish(After(bk.s, [i \in 1 .. Rounds |-> bk.p[Rounds + 2 - i]], x)[Rounds],
         bk.p[0], bk.p[1])

\* The two words of a block of the string, and back.
Halves(b) == [l |-> SubSeq(b, 1, 4), r |-> SubSeq(b, 5, 8)]
Bytes(x) == x.l \o x.r

Enc(bk, b) == Bytes(Encrypt(bk, Halves(b)))
Dec(bk, b) == Bytes(Decrypt(bk, Halves(b)))
-----------------------------------------------------------------------------
(* bfish_keyinit, for a key of klen bytes, key[1] to key[klen].            *)

\* (e << 8) | k
ShiftIn(e, k) == Append(Tail(e), k)

\* Entry n of the P box before the initial value is added.  The memory comes
\* from malloc: what it held is shifted out by four bytes of key.  The key is
\* repeated; an empty one is read as the zero that ends the string.
Entry(junk, key, n) ==
  LET k(j) == IF key = <<>> THEN {} ELSE key[((4 * n + j) % Len(key)) + 1]
  IN  ShiftIn(ShiftIn(ShiftIn(ShiftIn(junk, k(0)), k(1)), k(2)), k(3))

\* The boxes before the algorithm runs on them, with zeros to start from.
Mixed(junk, key) ==
  [x |-> [l |-> WordOf(0), r |-> WordOf(0)],
   p |-> [n \in PIndex |-> Xor(Entry(junk[n], key, n), WordOf(InitialP[n]))],
   s |-> [t \in 0 .. 3 |-> [b \in Byte |-> WordOf(InitialS[t][b])]]]

\* The P box is replaced, two entries at a time, by the output of the cipher
\* whose boxes they are.
WithP(bk, i) ==
  LET y == Encrypt(bk, bk.x)
  IN  [bk EXCEPT !.x = y, !.p[2 * i - 2] = y.l, !.p[2 * i - 1] = y.r]

FilledP(boxes) ==
  LET step[i \in 0 .. (Rounds + 2) \div 2] ==
        IF i = 0 THEN boxes ELSE WithP(step[i - 1], i)
  IN  step[(Rounds + 2) \div 2]

\* Then the four S boxes, one after the other.
Half == Size \div 2
WithS(bk, i) ==
  LET y == Encrypt(bk, bk.x)
      t == (i - 1) \div Half
      n == 2 * ((i - 1) % Half)
  IN  [bk EXCEPT !.x = y, !.s[t][ByteOf(n)] = y.l, !.s[t][ByteOf(n + 1)] = y.r]

FilledS(boxes) ==
  LET step[i \in 0 .. 4 * Half] ==
        IF i = 0 THEN boxes ELSE WithS(step[i - 1], i)
  IN  step[4 * Half]

KeyInit(junk, key) ==
  LET boxes == FilledS(FilledP(Mixed(junk, key)))
  IN  [p |-> boxes.p, s |-> boxes.s]
=============================================================================
