----------------------------- MODULE CbcProofs -----------------------------
(***************************************************************************)
(* The cipher and the chaining of blocks, for bytes of any size and        *)
(* strings of every length: a process with the key of the sender reads     *)
(* what was sent.                                                          *)
(*                                                                         *)
(* First the cipher of one block.  The code runs the rounds backwards to   *)
(* decrypt, with the entries of the P box in the other order: after i      *)
(* rounds of it the halves are, exchanged and under the next two entries,  *)
(* what they were before the last i rounds of the encryption.  F need not  *)
(* have an inverse; it has to give words.  Then the chain.                 *)
(*                                                                         *)
(* The invariant says of each block what it is at that moment: block j of  *)
(* the ciphertext is the encryption of block j of the string, masked with  *)
(* block j - 1 of the ciphertext.  When there is a tail, the last full     *)
(* block is not in the ciphertext: its first bytes are, as the tail, and   *)
(* the others are under the padding of the block that took its place.      *)
(***************************************************************************)
EXTENDS Cbc, SequenceTheorems, FiniteSetTheorems, NaturalsInduction, WellFoundedInduction, TLAPS

LEMMA FunctionIsSeq ==
  ASSUME NEW S, NEW n \in Nat, NEW f \in [1 .. n -> S]
  PROVE  f \in Seq(S) /\ Len(f) = n
<1>1. f \in Seq(S)
  BY SeqDef
<1>2. f \in [1 .. Len(f) -> S] /\ Len(f) \in Nat
  BY <1>1, LenProperties
<1>3. 1 .. Len(f) = 1 .. n
  BY <1>2
<1>4. Len(f) = n
  BY <1>2, <1>3
<1> QED BY <1>1, <1>4

LEMMA HalvesOf ==
  ASSUME NEW b \in Block
  PROVE  /\ Halves(b).l \in Word /\ Halves(b).r \in Word
         /\ \A i \in 1 .. 4 : Halves(b).l[i] = b[i] /\ Halves(b).r[i] = b[i + 4]
<1>1. \A i \in 1 .. 8 : b[i] \in Byte
  BY DEF Block
<1> DEFINE l == SubSeq(b, 1, 4)
           r == SubSeq(b, 5, 8)
<1>2. l \in Seq(Byte) /\ Len(l) = 4 /\ \A i \in 1 .. 4 : l[i] = b[i]
  <2>1. \A i \in 1 .. 4 : b[i] \in Byte
    BY <1>1
  <2>2. /\ l \in Seq(Byte) /\ Len(l) = IF 1 <= 4 THEN 4 - 1 + 1 ELSE 0
        /\ \A i \in 1 .. 4 - 1 + 1 : l[i] = b[1 + i - 1]
    BY <2>1, SubSeqProperties
  <2> HIDE DEF l
  <2> QED BY <2>2
<1>3. r \in Seq(Byte) /\ Len(r) = 4 /\ \A i \in 1 .. 4 : r[i] = b[i + 4]
  <2>1. \A i \in 5 .. 8 : b[i] \in Byte
    BY <1>1
  <2>2. /\ r \in Seq(Byte) /\ Len(r) = IF 5 <= 8 THEN 8 - 5 + 1 ELSE 0
        /\ \A i \in 1 .. 8 - 5 + 1 : r[i] = b[5 + i - 1]
    BY <2>1, SubSeqProperties
  <2> HIDE DEF r
  <2>3. \A i \in 1 .. 4 : 5 + i - 1 = i + 4
    OBVIOUS
  <2> QED BY <2>2, <2>3
<1>4. Halves(b) = [l |-> l, r |-> r]
  BY DEF Halves
<1> HIDE DEF l, r
<1>5. l \in [1 .. 4 -> Byte] /\ r \in [1 .. 4 -> Byte]
  BY <1>2, <1>3, LenProperties
<1> QED BY <1>2, <1>3, <1>4, <1>5 DEF Word

LEMMA XorOf ==
  ASSUME NEW v \in Word, NEW w \in Word
  PROVE  /\ Xor(v, w) \in Word
         /\ \A i \in 1 .. 4 : Xor(v, w)[i] = (v[i] \ w[i]) \cup (w[i] \ v[i])
BY DEF Xor, Word, SymDiff, Byte

-----------------------------------------------------------------------------
(* The block cipher: what it decrypts is what it encrypted, and the boxes    *)
(* that a key makes are the same in every process.                           *)

Pair == [l : Word, r : Word]

LEMMA LeastNat ==
  ASSUME NEW S, S \subseteq Nat, S # {}
  PROVE  \E n \in S : \A m \in S : n <= m
<1>1. PICK n \in S : \A m \in S : ~ (<<m, n>> \in OpToRel(<, Nat))
  BY NatLessThanWellFounded, WFMin
<1>2. \A m \in S : ~ (m < n)
  BY <1>1 DEF OpToRel
<1> QED BY <1>2

\* A step repeated n times, from y, has its n results.
LEMMA Repeated ==
  ASSUME NEW Y, NEW y \in Y, NEW n \in Nat, NEW g \in [1 .. n -> [Y -> Y]]
  PROVE  \E f \in [0 .. n -> Y] : f[0] = y /\ \A i \in 1 .. n : f[i] = g[i][f[i - 1]]
<1> DEFINE Has(m) == \E f \in [0 .. m -> Y] :
                       f[0] = y /\ \A i \in 1 .. m : f[i] = g[i][f[i - 1]]
           Bad == {m \in 0 .. n : ~ Has(m)}
<1>1. Has(0)
  <2> DEFINE f == [i \in 0 .. 0 |-> y]
  <2>1. f \in [0 .. 0 -> Y] /\ f[0] = y
    OBVIOUS
  <2>2. 1 .. 0 = {}
    OBVIOUS
  <2> HIDE DEF f
  <2> QED BY <2>1, <2>2
<1>2. ASSUME NEW m \in 1 .. n, Has(m - 1) PROVE Has(m)
  <2>1. PICK f \in [0 .. m - 1 -> Y] :
          f[0] = y /\ \A i \in 1 .. m - 1 : f[i] = g[i][f[i - 1]]
    BY <1>2
  <2> DEFINE e == g[m][f[m - 1]]
             h == [i \in 0 .. m |-> IF i = m THEN e ELSE f[i]]
  <2>2. e \in Y
    <3>1. f[m - 1] \in Y
      OBVIOUS
    <3> QED BY <3>1
  <2> HIDE DEF e
  <2>3. h \in [0 .. m -> Y]
    BY <2>2
  <2>4. h[0] = y
    BY <2>1
  <2>5. ASSUME NEW i \in 1 .. m PROVE h[i] = g[i][h[i - 1]]
    <3>1. h[i - 1] = f[i - 1]
      OBVIOUS
    <3>2. CASE i = m
      <4>1. h[i] = e
        BY <3>2
      <4> HIDE DEF h
      <4> QED BY <3>1, <3>2, <4>1 DEF e
    <3>3. CASE i # m
      <4>1. i \in 1 .. m - 1 /\ h[i] = f[i]
        BY <3>3
      <4> HIDE DEF h
      <4> QED BY <2>1, <3>1, <4>1
    <3> QED BY <3>2, <3>3
  <2> HIDE DEF h
  <2> QED BY <2>3, <2>4, <2>5
<1> HIDE DEF Has
<1>3. Bad = {}
  <2> SUFFICES ASSUME Bad # {} PROVE FALSE
    OBVIOUS
  <2>0. Bad \subseteq Nat
    OBVIOUS
  <2>1. PICK m \in Bad : \A j \in Bad : m <= j
    <3> HIDE DEF Bad
    <3> QED BY <2>0, LeastNat
  <2>2. m \in 1 .. n
    BY <1>1
  <2>3. m - 1 \in 0 .. n /\ m - 1 \notin Bad
    BY <2>1, <2>2
  <2> QED BY <1>2, <2>1, <2>2, <2>3
<1>4. Has(n)
  BY <1>3
<1> QED BY <1>4 DEF Has

\* A result holds of each repetition when it holds at first and is passed on.
LEMMA AllInRange ==
  ASSUME NEW n \in Nat, NEW S, 0 \in S, \A i \in 1 .. n : i - 1 \in S => i \in S
  PROVE  \A i \in 0 .. n : i \in S
<1> DEFINE Bad == {i \in 0 .. n : i \notin S}
<1> SUFFICES ASSUME Bad # {} PROVE FALSE
  OBVIOUS
<1>0. Bad \subseteq Nat
  OBVIOUS
<1>1. PICK m \in Bad : \A j \in Bad : m <= j
  <2> HIDE DEF Bad
  <2> QED BY <1>0, LeastNat
<1>2. m \in 1 .. n
  OBVIOUS
<1>3. m - 1 \in 0 .. n /\ m - 1 \notin Bad
  BY <1>1, <1>2
<1> QED BY <1>2, <1>3

LEMMA RoundsAre == Rounds \in Nat /\ Rounds >= 1 /\ (Rounds + 2) \div 2 \in Nat
BY BlowfishAssumption

LEMMA SumIsWord ==
  ASSUME NEW v, NEW w
  PROVE  Plus(v, w) \in Word
<1>1. \A n : ByteOf(n) \in Byte
  BY DEF ByteOf, Byte
<1> QED BY <1>1 DEF Plus, WordOf, Word

LEMMA FIsWord ==
  ASSUME NEW s, NEW w
  PROVE  F(s, w) \in Word
BY SumIsWord DEF F

\* What is added twice is gone.
LEMMA XorTwice ==
  ASSUME NEW a \in Word, NEW b \in Word
  PROVE  Xor(Xor(a, b), b) = a
<1>1. Xor(a, b) \in Word /\ \A i \in 1 .. 4 : Xor(a, b)[i] = (a[i] \ b[i]) \cup (b[i] \ a[i])
  BY XorOf
<1>2. /\ Xor(Xor(a, b), b) \in Word
      /\ \A i \in 1 .. 4 :
           Xor(Xor(a, b), b)[i] = (Xor(a, b)[i] \ b[i]) \cup (b[i] \ Xor(a, b)[i])
  BY <1>1, XorOf
<1>3. \A i \in 1 .. 4 : Xor(Xor(a, b), b)[i] = a[i]
  BY <1>1, <1>2
<1> QED BY <1>2, <1>3 DEF Word

LEMMA XorThrough ==
  ASSUME NEW a \in Word, NEW b \in Word, NEW c \in Word
  PROVE  Xor(Xor(Xor(a, b), c), b) = Xor(a, c)
<1>1. Xor(a, b) \in Word /\ \A i \in 1 .. 4 : Xor(a, b)[i] = (a[i] \ b[i]) \cup (b[i] \ a[i])
  BY XorOf
<1> DEFINE v == Xor(a, b)
           w == Xor(v, c)
           x == Xor(w, b)
           y == Xor(a, c)
<1>2. w \in Word /\ \A i \in 1 .. 4 : w[i] = (v[i] \ c[i]) \cup (c[i] \ v[i])
  BY <1>1, XorOf
<1>3. y \in Word /\ \A i \in 1 .. 4 : y[i] = (a[i] \ c[i]) \cup (c[i] \ a[i])
  BY XorOf
<1> HIDE DEF v, w
<1>4. x \in Word /\ \A i \in 1 .. 4 : x[i] = (w[i] \ b[i]) \cup (b[i] \ w[i])
  BY <1>2, XorOf
<1>5. \A i \in 1 .. 4 : v[i] = (a[i] \ b[i]) \cup (b[i] \ a[i])
  BY <1>1 DEF v
<1> HIDE DEF x, y
<1>6. \A i \in 1 .. 4 : x[i] = y[i]
  <2> SUFFICES ASSUME NEW i \in 1 .. 4 PROVE x[i] = y[i]
    OBVIOUS
  <2>1. v[i] = (a[i] \ b[i]) \cup (b[i] \ a[i])
    BY <1>5
  <2>2. w[i] = (v[i] \ c[i]) \cup (c[i] \ v[i])
    BY <1>2
  <2>3. x[i] = (w[i] \ b[i]) \cup (b[i] \ w[i])
    BY <1>4
  <2>4. y[i] = (a[i] \ c[i]) \cup (c[i] \ a[i])
    BY <1>3
  <2> QED BY <2>1, <2>2, <2>3, <2>4
<1>7. x = y
  BY <1>3, <1>4, <1>6 DEF Word
<1> QED BY <1>7 DEF v, w, x, y

-----------------------------------------------------------------------------
LEMMA RoundIs ==
  ASSUME NEW s, NEW p \in Word, NEW x \in Pair
  PROVE  /\ Round(s, p, x) \in Pair
         /\ Round(s, p, x).r = Xor(x.l, p)
         /\ Round(s, p, x).l = Xor(x.r, F(s, Xor(x.l, p)))
<1>1. x.l \in Word /\ x.r \in Word
  BY DEF Pair
<1>2. Xor(x.l, p) \in Word /\ F(s, Xor(x.l, p)) \in Word
  BY <1>1, XorOf, FIsWord
<1>3. Xor(x.r, F(s, Xor(x.l, p))) \in Word
  BY <1>1, <1>2, XorOf
<1> QED BY <1>2, <1>3 DEF Round, Pair

LEMMA FinishIs ==
  ASSUME NEW x \in Pair, NEW p \in Word, NEW q \in Word
  PROVE  /\ Finish(x, p, q) \in Pair
         /\ Finish(x, p, q).l = Xor(x.r, p) /\ Finish(x, p, q).r = Xor(x.l, q)
<1>1. x.l \in Word /\ x.r \in Word
  BY DEF Pair
<1> QED BY <1>1, XorOf DEF Finish, Pair

\* The recursion of the rounds has its solution, and it is pairs of words.
LEMMA AfterIs ==
  ASSUME NEW s, NEW q \in [1 .. Rounds -> Word], NEW x \in Pair
  PROVE  /\ After(s, q, x)[0] = x
         /\ \A i \in 0 .. Rounds : After(s, q, x)[i] \in Pair
         /\ \A i \in 1 .. Rounds : After(s, q, x)[i] = Round(s, q[i], After(s, q, x)[i - 1])
<1> DEFINE turn == [i \in 1 .. Rounds |-> [y \in Pair |-> Round(s, q[i], y)]]
           Solves(f) == f = [i \in 0 .. Rounds |-> IF i = 0 THEN x ELSE Round(s, q[i], f[i - 1])]
           a == After(s, q, x)
<1>1. turn \in [1 .. Rounds -> [Pair -> Pair]]
  BY RoundIs
<1>2. \A i \in 1 .. Rounds, y \in Pair : turn[i][y] = Round(s, q[i], y)
  OBVIOUS
<1> HIDE DEF turn
<1>3. PICK f \in [0 .. Rounds -> Pair] :
        f[0] = x /\ \A i \in 1 .. Rounds : f[i] = turn[i][f[i - 1]]
  <2>1. Rounds \in Nat
    BY RoundsAre
  <2> QED BY <1>1, <2>1, Repeated
<1>4. Solves(f)
  <2>1. \A i \in 0 .. Rounds : i # 0 => f[i] = Round(s, q[i], f[i - 1])
    <3> SUFFICES ASSUME NEW i \in 0 .. Rounds, i # 0 PROVE f[i] = Round(s, q[i], f[i - 1])
      OBVIOUS
    <3>1. i \in 1 .. Rounds /\ i - 1 \in 0 .. Rounds
      BY RoundsAre
    <3> QED BY <1>2, <1>3, <3>1
  <2> QED BY <1>3, <2>1
<1>5. Solves(a)
  <2>1. a = CHOOSE h : Solves(h)
    BY DEF After
  <2> HIDE DEF a, Solves
  <2> QED BY <1>4, <2>1
<1> HIDE DEF a
<1>6. a[0] = x
  BY <1>5, RoundsAre
<1>7. \A i \in 1 .. Rounds : a[i] = Round(s, q[i], a[i - 1])
  BY <1>5, RoundsAre
<1>8. \A i \in 0 .. Rounds : a[i] \in Pair
  <2> DEFINE S == {i \in 0 .. Rounds : a[i] \in Pair}
  <2>1. 0 \in S
    BY <1>6, RoundsAre
  <2>2. ASSUME NEW i \in 1 .. Rounds, i - 1 \in S PROVE i \in S
    <3>1. q[i] \in Word /\ a[i - 1] \in Pair
      BY <2>2
    <3>2. a[i] \in Pair
      BY <1>7, <3>1, RoundIs
    <3> QED BY <3>2
  <2> HIDE DEF S
  <2>3. \A i \in 0 .. Rounds : i \in S
    BY <2>1, <2>2, RoundsAre, AllInRange
  <2> QED BY <2>3 DEF S
<1> QED BY <1>6, <1>7, <1>8 DEF a

LEMMA EntriesAre ==
  ASSUME NEW bk, bk.p \in [PIndex -> Word]
  PROVE  /\ [i \in 1 .. Rounds |-> bk.p[i - 1]] \in [1 .. Rounds -> Word]
         /\ [i \in 1 .. Rounds |-> bk.p[Rounds + 2 - i]] \in [1 .. Rounds -> Word]
         /\ \A i \in 0 .. Rounds + 1 : bk.p[i] \in Word
<1>1. \A i \in 1 .. Rounds : i - 1 \in PIndex /\ Rounds + 2 - i \in PIndex
  BY RoundsAre DEF PIndex
<1> QED BY <1>1 DEF PIndex

LEMMA EncryptIsPair ==
  ASSUME NEW bk, bk.p \in [PIndex -> Word], NEW x \in Pair
  PROVE  Encrypt(bk, x) \in Pair
<1>1. /\ bk.p[Rounds] \in Word /\ bk.p[Rounds + 1] \in Word
      /\ [i \in 1 .. Rounds |-> bk.p[i - 1]] \in [1 .. Rounds -> Word]
  BY EntriesAre, RoundsAre
<1> DEFINE q == [i \in 1 .. Rounds |-> bk.p[i - 1]]
<1>2. After(bk.s, q, x)[Rounds] \in Pair
  <2>1. Rounds \in 0 .. Rounds /\ q \in [1 .. Rounds -> Word]
    BY <1>1, RoundsAre
  <2> HIDE DEF q
  <2> QED BY <2>1, AfterIs
<1>3. Encrypt(bk, x) = Finish(After(bk.s, q, x)[Rounds], bk.p[Rounds + 1], bk.p[Rounds])
  BY DEF Encrypt
<1> HIDE DEF q
<1> QED BY <1>1, <1>2, <1>3, FinishIs

\* With the entries of the P box in the other order the rounds run backwards:
\* after i rounds of decryption the halves are those before round Rounds - i of
\* the encryption, in the other order, under the entries that come next.
LEMMA Backwards ==
  ASSUME NEW bk, bk.p \in [PIndex -> Word], NEW x \in Pair
  PROVE  Decrypt(bk, Encrypt(bk, x)) = x
<1> DEFINE pbox == bk.p
           sbox == bk.s
           qe == [i \in 1 .. Rounds |-> pbox[i - 1]]
           qd == [i \in 1 .. Rounds |-> pbox[Rounds + 2 - i]]
           e == After(sbox, qe, x)
           c == Encrypt(bk, x)
           d == After(sbox, qd, c)
<1>1. /\ qe \in [1 .. Rounds -> Word] /\ qd \in [1 .. Rounds -> Word]
      /\ \A i \in 0 .. Rounds + 1 : pbox[i] \in Word
      /\ \A i \in 1 .. Rounds : qe[i] = pbox[i - 1] /\ qd[i] = pbox[Rounds + 2 - i]
  BY EntriesAre
<1>2. c \in Pair /\ c = Finish(e[Rounds], pbox[Rounds + 1], pbox[Rounds])
  BY EncryptIsPair DEF Encrypt
<1>3. Decrypt(bk, c) = Finish(d[Rounds], pbox[0], pbox[1])
  BY DEF Decrypt
<1> HIDE DEF pbox, sbox, qe, qd, c
<1>4. /\ e[0] = x /\ \A i \in 0 .. Rounds : e[i] \in Pair
      /\ \A i \in 1 .. Rounds : e[i] = Round(sbox, pbox[i - 1], e[i - 1])
  <2>1. /\ e[0] = x /\ \A i \in 0 .. Rounds : e[i] \in Pair
        /\ \A i \in 1 .. Rounds : e[i] = Round(sbox, qe[i], e[i - 1])
    <3>1. qe \in [1 .. Rounds -> Word]
      BY <1>1
    <3> QED BY <3>1, AfterIs
  <2> HIDE DEF e
  <2> QED BY <1>1, <2>1
<1>5. /\ d[0] = c /\ \A i \in 0 .. Rounds : d[i] \in Pair
      /\ \A i \in 1 .. Rounds : d[i] = Round(sbox, pbox[Rounds + 2 - i], d[i - 1])
  <2>1. /\ d[0] = c /\ \A i \in 0 .. Rounds : d[i] \in Pair
        /\ \A i \in 1 .. Rounds : d[i] = Round(sbox, qd[i], d[i - 1])
    <3>1. qd \in [1 .. Rounds -> Word] /\ c \in Pair
      BY <1>1, <1>2
    <3> QED BY <3>1, AfterIs
  <2> HIDE DEF d
  <2> QED BY <1>1, <2>1
<1> HIDE DEF e, d
<1> DEFINE Mirror(i) == /\ d[i].l = Xor(e[Rounds - i].r, pbox[Rounds + 1 - i])
                        /\ d[i].r = Xor(e[Rounds - i].l, pbox[Rounds - i])
           S == {i \in 0 .. Rounds : Mirror(i)}
<1>6. Mirror(0)
  <2>1. e[Rounds] \in Pair /\ pbox[Rounds] \in Word /\ pbox[Rounds + 1] \in Word
    BY <1>1, <1>4, RoundsAre
  <2>2. c.l = Xor(e[Rounds].r, pbox[Rounds + 1]) /\ c.r = Xor(e[Rounds].l, pbox[Rounds])
    BY <1>2, <2>1, FinishIs
  <2>3. Rounds - 0 = Rounds /\ Rounds + 1 - 0 = Rounds + 1
    BY RoundsAre
  <2> QED BY <1>5, <2>2, <2>3
<1>7. ASSUME NEW i \in 1 .. Rounds, Mirror(i - 1) PROVE Mirror(i)
  <2> DEFINE j == Rounds + 1 - i
             a == e[j - 1]
             fxl == F(sbox, e[j].r)
  <2>1. /\ j \in 1 .. Rounds /\ j - 1 \in 0 .. Rounds /\ j \in 0 .. Rounds
        /\ j \in 0 .. Rounds + 1 /\ j - 1 \in 0 .. Rounds + 1 /\ j + 1 \in 0 .. Rounds + 1
        /\ Rounds - i = j - 1 /\ Rounds + 1 - i = j /\ Rounds + 2 - i = j + 1
        /\ Rounds - (i - 1) = j /\ Rounds + 1 - (i - 1) = j + 1 /\ i - 1 \in 0 .. Rounds
    BY RoundsAre
  <2> HIDE DEF j
  <2>2. /\ a \in Pair /\ a.l \in Word /\ a.r \in Word /\ e[j] \in Pair /\ d[i - 1] \in Pair
        /\ pbox[j - 1] \in Word /\ pbox[j] \in Word /\ pbox[j + 1] \in Word
        /\ e[j].l \in Word /\ e[j].r \in Word /\ fxl \in Word
    BY <1>1, <1>4, <1>5, <2>1, FIsWord DEF Pair
  <2>3. e[j] = Round(sbox, pbox[j - 1], a)
    BY <1>4, <2>1
  <2>4. d[i] = Round(sbox, pbox[j + 1], d[i - 1])
    BY <1>5, <2>1
  <2>5. d[i - 1].l = Xor(e[j].r, pbox[j + 1]) /\ d[i - 1].r = Xor(e[j].l, pbox[j])
    BY <1>7, <2>1
  <2> HIDE DEF Mirror, a
  <2>6. e[j].r = Xor(a.l, pbox[j - 1])
    BY <2>2, <2>3, RoundIs
  <2>7. e[j].l = Xor(a.r, fxl)
    BY <2>2, <2>3, <2>6, RoundIs
  <2>8. Xor(d[i - 1].l, pbox[j + 1]) = e[j].r
    BY <2>2, <2>5, XorTwice
  <2> HIDE DEF fxl
  <2>9. d[i].r = e[j].r
    BY <2>2, <2>4, <2>8, RoundIs
  <2>10. d[i].l = Xor(Xor(e[j].l, pbox[j]), fxl)
    BY <2>2, <2>4, <2>5, <2>8, RoundIs DEF fxl
  <2>11. d[i].l = Xor(a.r, pbox[j])
    BY <2>2, <2>7, <2>10, XorThrough
  <2>12. /\ d[i].l = Xor(e[j - 1].r, pbox[j]) /\ d[i].r = Xor(e[j - 1].l, pbox[j - 1])
    BY <2>6, <2>9, <2>11 DEF a
  <2> QED BY <2>1, <2>12 DEF Mirror
<1>8. Mirror(Rounds)
  <2> HIDE DEF Mirror
  <2>1. 0 \in S
    BY <1>6, RoundsAre
  <2>2. \A i \in 1 .. Rounds : i - 1 \in S => i \in S
    BY <1>7, RoundsAre
  <2>3. Rounds \in 0 .. Rounds
    BY RoundsAre
  <2> HIDE DEF S
  <2>4. Rounds \in S
    BY <2>1, <2>2, <2>3, RoundsAre, AllInRange
  <2> QED BY <2>4 DEF S
<1>9. d[Rounds].l = Xor(x.r, pbox[1]) /\ d[Rounds].r = Xor(x.l, pbox[0])
  <2>1. Rounds - Rounds = 0 /\ Rounds + 1 - Rounds = 1
    BY RoundsAre
  <2> QED BY <1>4, <1>8, <2>1
<1>10. /\ x.l \in Word /\ x.r \in Word /\ pbox[0] \in Word /\ pbox[1] \in Word
       /\ d[Rounds] \in Pair
  BY <1>1, <1>5, RoundsAre DEF Pair
<1>11. /\ Decrypt(bk, c) \in Pair
       /\ Decrypt(bk, c).l = x.l /\ Decrypt(bk, c).r = x.r
  <2>1. /\ Decrypt(bk, c) \in Pair
        /\ Decrypt(bk, c).l = Xor(d[Rounds].r, pbox[0])
        /\ Decrypt(bk, c).r = Xor(d[Rounds].l, pbox[1])
    <3> DEFINE y == d[Rounds]
               v == pbox[0]
               w == pbox[1]
    <3>1. y \in Pair /\ v \in Word /\ w \in Word /\ Decrypt(bk, c) = Finish(y, v, w)
      BY <1>3, <1>10
    <3> HIDE DEF y, v, w
    <3>2. /\ Finish(y, v, w) \in Pair
          /\ Finish(y, v, w).l = Xor(y.r, v) /\ Finish(y, v, w).r = Xor(y.l, w)
      BY <3>1, FinishIs
    <3> QED BY <3>1, <3>2 DEF y, v, w
  <2>2. Xor(Xor(x.l, pbox[0]), pbox[0]) = x.l /\ Xor(Xor(x.r, pbox[1]), pbox[1]) = x.r
    BY <1>10, XorTwice
  <2> QED BY <1>9, <2>1, <2>2
<1>12. Decrypt(bk, c) = x
  BY <1>11 DEF Pair
<1> QED BY <1>12 DEF c

-----------------------------------------------------------------------------
\* The boxes of a key while they are made.
Boxes == [x : Pair, p : [PIndex -> Word], s : [0 .. 3 -> [Byte -> Word]]]

LEMMA TailOf ==
  ASSUME NEW S, NEW t \in Seq(S), Len(t) = 4
  PROVE  /\ Tail(t) \in Seq(S) /\ Len(Tail(t)) = 3
         /\ Tail(t)[1] = t[2] /\ Tail(t)[2] = t[3] /\ Tail(t)[3] = t[4]
<1> DEFINE rest == Tail(t)
<1>1. t # <<>>
  BY EmptySeq
<1>2. rest \in Seq(S) /\ Len(rest) = Len(t) - 1
  BY <1>1, HeadTailProperties
<1>3. \A i \in 1 .. Len(rest) : rest[i] = t[i + 1]
  BY <1>1, HeadTailProperties
<1> HIDE DEF rest
<1>4. Len(rest) = 3
  BY <1>2
<1>5. \A i \in 1 .. 3 : rest[i] = t[i + 1]
  BY <1>3, <1>4
<1>6. rest[1] = t[1 + 1] /\ rest[2] = t[2 + 1] /\ rest[3] = t[3 + 1]
  BY <1>5
<1>7. rest[1] = t[2] /\ rest[2] = t[3] /\ rest[3] = t[4]
  BY <1>6
<1> QED BY <1>2, <1>4, <1>7 DEF rest

LEMMA AppendedAt ==
  ASSUME NEW S, NEW t \in Seq(S), NEW b \in S
  PROVE  \A i \in 1 .. Len(t) : Append(t, b)[i] = t[i]
BY AppendProperties

LEMMA AppendOf ==
  ASSUME NEW S, NEW t \in Seq(S), Len(t) = 3, NEW b \in S
  PROVE  /\ Append(t, b) \in Seq(S) /\ Len(Append(t, b)) = 4
         /\ Append(t, b)[1] = t[1] /\ Append(t, b)[2] = t[2]
         /\ Append(t, b)[3] = t[3] /\ Append(t, b)[4] = b
<1> DEFINE more == Append(t, b)
<1>1. more \in Seq(S) /\ Len(more) = Len(t) + 1
  BY AppendProperties
<1>2. \A i \in 1 .. Len(t) : more[i] = t[i]
  BY AppendedAt
<1>3. more[Len(t) + 1] = b
  BY AppendProperties
<1> HIDE DEF more
<1>4. Len(more) = 4 /\ more[4] = b
  BY <1>1, <1>3
<1>5. 1 \in 1 .. Len(t) /\ 2 \in 1 .. Len(t) /\ 3 \in 1 .. Len(t)
  OBVIOUS
<1>6. /\ more[1] = t[1] /\ more[2] = t[2] /\ more[3] = t[3]
  BY <1>2, <1>5
<1> QED BY <1>1, <1>4, <1>6 DEF more

LEMMA ShiftIs ==
  ASSUME NEW e \in Word, NEW b \in Byte
  PROVE  /\ ShiftIn(e, b) \in Word
         /\ ShiftIn(e, b)[1] = e[2] /\ ShiftIn(e, b)[2] = e[3]
         /\ ShiftIn(e, b)[3] = e[4] /\ ShiftIn(e, b)[4] = b
<1> DEFINE t == Tail(e)
           a == Append(t, b)
<1>1. e \in Seq(Byte) /\ Len(e) = 4
  BY FunctionIsSeq DEF Word
<1>2. t \in Seq(Byte) /\ Len(t) = 3 /\ t[1] = e[2] /\ t[2] = e[3] /\ t[3] = e[4]
  BY <1>1, TailOf
<1>3. ShiftIn(e, b) = a
  BY DEF ShiftIn
<1> HIDE DEF t
<1>4. /\ a \in Seq(Byte) /\ Len(a) = 4
      /\ a[1] = t[1] /\ a[2] = t[2] /\ a[3] = t[3] /\ a[4] = b
  BY <1>2, AppendOf
<1> HIDE DEF a
<1>5. a \in [1 .. 4 -> Byte]
  BY <1>4, LenProperties
<1> QED BY <1>2, <1>3, <1>4, <1>5 DEF Word

\* Four bytes of key and nothing of what the memory held.
LEMMA EntryIs ==
  ASSUME NEW e \in Word, NEW f \in Word, NEW key \in Seq(Byte), NEW n \in PIndex
  PROVE  Entry(e, key, n) \in Word /\ Entry(e, key, n) = Entry(f, key, n)
<1> DEFINE b(j) == IF key = <<>> THEN {} ELSE key[((4 * n + j) % Len(key)) + 1]
           Four(v) == ShiftIn(ShiftIn(ShiftIn(ShiftIn(v, b(0)), b(1)), b(2)), b(3))
<1>1. ASSUME NEW j \in 0 .. 3 PROVE b(j) \in Byte
  <2>1. CASE key = <<>>
    BY <2>1 DEF Byte
  <2>2. CASE key # <<>>
    <3>1. Len(key) \in Nat /\ Len(key) # 0 /\ \A i \in 1 .. Len(key) : key[i] \in Byte
      BY <2>2, EmptySeq, LenProperties, ElementOfSeq
    <3>2. 4 * n + j \in Nat
      BY RoundsAre DEF PIndex
    <3> DEFINE m == 4 * n + j
               l == Len(key)
    <3> HIDE DEF m, l
    <3>3. m % l \in 0 .. l - 1
      BY <3>1, <3>2 DEF m, l
    <3>4. (m % l) + 1 \in 1 .. l
      BY <3>1, <3>3 DEF l
    <3> QED BY <2>2, <3>1, <3>4 DEF m, l
  <2> QED BY <2>1, <2>2
<1>2. b(0) \in Byte /\ b(1) \in Byte /\ b(2) \in Byte /\ b(3) \in Byte
  BY <1>1
<1>3. \A v : Entry(v, key, n) = Four(v)
  BY DEF Entry
<1> HIDE DEF b
<1>4. ASSUME NEW v \in Word
      PROVE  /\ Four(v) \in Word /\ Four(v)[1] = b(0) /\ Four(v)[2] = b(1)
             /\ Four(v)[3] = b(2) /\ Four(v)[4] = b(3)
  <2> DEFINE v1 == ShiftIn(v, b(0))
             v2 == ShiftIn(v1, b(1))
             v3 == ShiftIn(v2, b(2))
             v4 == ShiftIn(v3, b(3))
  <2>1. v1 \in Word /\ v1[4] = b(0)
    BY <1>2, ShiftIs
  <2>2. Four(v) = v4
    OBVIOUS
  <2> HIDE DEF Four, v1
  <2>3. v2 \in Word /\ v2[4] = b(1) /\ v2[3] = v1[4]
    BY <1>2, <2>1, ShiftIs
  <2> HIDE DEF v2
  <2>4. v3 \in Word /\ v3[4] = b(2) /\ v3[3] = v2[4] /\ v3[2] = v2[3]
    BY <1>2, <2>3, ShiftIs
  <2> HIDE DEF v3
  <2>5. v4 \in Word /\ v4[4] = b(3) /\ v4[3] = v3[4] /\ v4[2] = v3[3] /\ v4[1] = v3[2]
    BY <1>2, <2>4, ShiftIs
  <2> HIDE DEF v4
  <2> QED BY <2>1, <2>2, <2>3, <2>4, <2>5
<1> HIDE DEF Four
<1>5. Four(e) = Four(f)
  <2>1. \A i \in 1 .. 4 : Four(e)[i] = Four(f)[i]
    BY <1>4
  <2>2. Four(e) \in Word /\ Four(f) \in Word
    BY <1>4
  <2> QED BY <2>1, <2>2 DEF Word
<1> QED BY <1>3, <1>4, <1>5

LEMMA WordOfIs == \A n : WordOf(n) \in Word
<1>1. \A n : ByteOf(n) \in Byte
  BY DEF ByteOf, Byte
<1> QED BY <1>1 DEF WordOf, Word

LEMMA MixedIs ==
  ASSUME NEW j1 \in [PIndex -> Word], NEW j2 \in [PIndex -> Word], NEW key \in Seq(Byte)
  PROVE  Mixed(j1, key) \in Boxes /\ Mixed(j1, key) = Mixed(j2, key)
<1>1. \A n \in PIndex : /\ Xor(Entry(j1[n], key, n), WordOf(InitialP[n])) \in Word
                        /\ Entry(j1[n], key, n) = Entry(j2[n], key, n)
  <2> SUFFICES ASSUME NEW n \in PIndex
               PROVE  /\ Xor(Entry(j1[n], key, n), WordOf(InitialP[n])) \in Word
                      /\ Entry(j1[n], key, n) = Entry(j2[n], key, n)
    OBVIOUS
  <2>1. j1[n] \in Word /\ j2[n] \in Word
    OBVIOUS
  <2>2. Entry(j1[n], key, n) \in Word /\ Entry(j1[n], key, n) = Entry(j2[n], key, n)
    BY <2>1, EntryIs
  <2> QED BY <2>2, WordOfIs, XorOf
<1> DEFINE x == [l |-> WordOf(0), r |-> WordOf(0)]
           s == [t \in 0 .. 3 |-> [b \in Byte |-> WordOf(InitialS[t][b])]]
           p1 == [n \in PIndex |-> Xor(Entry(j1[n], key, n), WordOf(InitialP[n]))]
           p2 == [n \in PIndex |-> Xor(Entry(j2[n], key, n), WordOf(InitialP[n]))]
<1>2. x \in Pair
  BY WordOfIs DEF Pair
<1>3. s \in [0 .. 3 -> [Byte -> Word]]
  BY WordOfIs
<1>4. p1 \in [PIndex -> Word] /\ p1 = p2
  BY <1>1
<1>5. /\ Mixed(j1, key) = [x |-> x, p |-> p1, s |-> s]
      /\ Mixed(j2, key) = [x |-> x, p |-> p2, s |-> s]
  BY DEF Mixed
<1> HIDE DEF x, s, p1, p2
<1> QED BY <1>2, <1>3, <1>4, <1>5 DEF Boxes

LEMMA WithPIs ==
  ASSUME NEW bk \in Boxes, NEW i
  PROVE  WithP(bk, i) \in Boxes
<1> DEFINE y == Encrypt(bk, bk.x)
<1>1. y \in Pair
  BY EncryptIsPair DEF Boxes
<1>2. WithP(bk, i) = [bk EXCEPT !.x = y, !.p[2 * i - 2] = y.l, !.p[2 * i - 1] = y.r]
  BY DEF WithP
<1> HIDE DEF y
<1>3. y.l \in Word /\ y.r \in Word
  BY <1>1 DEF Pair
<1> DEFINE p1 == [bk.p EXCEPT ![2 * i - 2] = y.l]
           p2 == [p1 EXCEPT ![2 * i - 1] = y.r]
<1>4. p1 \in [PIndex -> Word]
  BY <1>3 DEF Boxes
<1>5. p2 \in [PIndex -> Word]
  BY <1>3, <1>4
<1>6. WithP(bk, i) = [x |-> y, p |-> p2, s |-> bk.s]
  BY <1>2 DEF Boxes
<1> HIDE DEF p2
<1> QED BY <1>1, <1>5, <1>6 DEF Boxes

LEMMA WithSIs ==
  ASSUME NEW bk \in Boxes, NEW i
  PROVE  WithS(bk, i) \in Boxes
<1> DEFINE y == Encrypt(bk, bk.x)
           t == (i - 1) \div Half
           b1 == ByteOf(2 * ((i - 1) % Half))
           b2 == ByteOf(2 * ((i - 1) % Half) + 1)
<1>1. y \in Pair
  BY EncryptIsPair DEF Boxes
<1>2. WithS(bk, i) = [bk EXCEPT !.x = y, !.s[t][b1] = y.l, !.s[t][b2] = y.r]
  BY DEF WithS
<1> HIDE DEF y, t, b1, b2
<1>3. y.l \in Word /\ y.r \in Word
  BY <1>1 DEF Pair
<1> DEFINE s1 == [bk.s EXCEPT ![t][b1] = y.l]
           s2 == [s1 EXCEPT ![t][b2] = y.r]
<1>4. s1 \in [0 .. 3 -> [Byte -> Word]]
  BY <1>3 DEF Boxes
<1>5. WithS(bk, i) = [x |-> y, p |-> bk.p, s |-> s2]
  BY <1>2 DEF Boxes
<1> HIDE DEF s1
<1>6. s2 \in [0 .. 3 -> [Byte -> Word]]
  BY <1>3, <1>4
<1> HIDE DEF s2
<1> QED BY <1>1, <1>5, <1>6 DEF Boxes

-----------------------------------------------------------------------------
LEMMA FilledPIs ==
  ASSUME NEW bk \in Boxes
  PROVE  FilledP(bk) \in Boxes
<1> DEFINE n == (Rounds + 2) \div 2
           turn == [i \in 1 .. n |-> [y \in Boxes |-> WithP(y, i)]]
           Solves(f) == f = [i \in 0 .. n |-> IF i = 0 THEN bk ELSE WithP(f[i - 1], i)]
           a == CHOOSE f : Solves(f)
<1>1. n \in Nat
  BY RoundsAre
<1>2. FilledP(bk) = a[n]
  BY DEF FilledP
<1> HIDE DEF n
<1>3. turn \in [1 .. n -> [Boxes -> Boxes]]
  BY WithPIs
<1>4. \A i \in 1 .. n, y \in Boxes : turn[i][y] = WithP(y, i)
  OBVIOUS
<1> HIDE DEF turn
<1>5. PICK f \in [0 .. n -> Boxes] :
        f[0] = bk /\ \A i \in 1 .. n : f[i] = turn[i][f[i - 1]]
  BY <1>1, <1>3, Repeated
<1>6. Solves(f)
  <2>1. \A i \in 0 .. n : i # 0 => f[i] = WithP(f[i - 1], i)
    <3> SUFFICES ASSUME NEW i \in 0 .. n, i # 0 PROVE f[i] = WithP(f[i - 1], i)
      OBVIOUS
    <3>1. i \in 1 .. n /\ i - 1 \in 0 .. n
      BY <1>1
    <3> QED BY <1>4, <1>5, <3>1
  <2> QED BY <1>5, <2>1
<1>7. Solves(a)
  <2> HIDE DEF Solves
  <2> QED BY <1>6
<1> HIDE DEF a
<1>8. n \in {i \in 0 .. n : a[i] \in Boxes}
  <2> DEFINE S == {i \in 0 .. n : a[i] \in Boxes}
  <2>1. 0 \in S
    BY <1>1, <1>7
  <2>2. ASSUME NEW i \in 1 .. n, i - 1 \in S PROVE i \in S
    <3>1. a[i] = WithP(a[i - 1], i) /\ a[i - 1] \in Boxes
      BY <1>1, <1>7, <2>2
    <3> QED BY <1>1, <3>1, WithPIs
  <2>3. n \in 0 .. n
    BY <1>1
  <2> HIDE DEF S
  <2>4. n \in S
    BY <1>1, <2>1, <2>2, <2>3, AllInRange
  <2> QED BY <2>4 DEF S
<1> QED BY <1>2, <1>8

LEMMA HalfIs == 4 * Half \in Nat
<1>1. ByteBits \in Nat
  BY BlowfishAssumption
<1>2. Size \in Nat
  <2>1. IsFiniteSet(Bit) /\ Cardinality(Bit) = ByteBits
    <3>1. IsFiniteSet(0 .. ByteBits - 1)
          /\ Cardinality(0 .. ByteBits - 1) =
               IF 0 > ByteBits - 1 THEN 0 ELSE (ByteBits - 1) - 0 + 1
      BY <1>1, FS_Interval
    <3> QED BY <1>1, <3>1 DEF Bit
  <2>2. IsFiniteSet(SUBSET Bit) /\ Cardinality(SUBSET Bit) = 2 ^ ByteBits
    BY <2>1, FS_SUBSET
  <2> QED BY <2>2, FS_CardinalityType DEF Size
<1>3. Size \div 2 \in Nat
  BY <1>2
<1> QED BY <1>3 DEF Half

LEMMA FilledSIs ==
  ASSUME NEW bk \in Boxes
  PROVE  FilledS(bk) \in Boxes
<1> DEFINE n == 4 * Half
           turn == [i \in 1 .. n |-> [y \in Boxes |-> WithS(y, i)]]
           Solves(f) == f = [i \in 0 .. n |-> IF i = 0 THEN bk ELSE WithS(f[i - 1], i)]
           a == CHOOSE f : Solves(f)
<1>1. n \in Nat
  BY HalfIs
<1>2. FilledS(bk) = a[n]
  BY DEF FilledS
<1> HIDE DEF n
<1>3. turn \in [1 .. n -> [Boxes -> Boxes]]
  BY WithSIs
<1>4. \A i \in 1 .. n, y \in Boxes : turn[i][y] = WithS(y, i)
  OBVIOUS
<1> HIDE DEF turn
<1>5. PICK f \in [0 .. n -> Boxes] :
        f[0] = bk /\ \A i \in 1 .. n : f[i] = turn[i][f[i - 1]]
  BY <1>1, <1>3, Repeated
<1>6. Solves(f)
  <2>1. \A i \in 0 .. n : i # 0 => f[i] = WithS(f[i - 1], i)
    <3> SUFFICES ASSUME NEW i \in 0 .. n, i # 0 PROVE f[i] = WithS(f[i - 1], i)
      OBVIOUS
    <3>1. i \in 1 .. n /\ i - 1 \in 0 .. n
      BY <1>1
    <3> QED BY <1>4, <1>5, <3>1
  <2> QED BY <1>5, <2>1
<1>7. Solves(a)
  <2> HIDE DEF Solves
  <2> QED BY <1>6
<1> HIDE DEF a
<1>8. n \in {i \in 0 .. n : a[i] \in Boxes}
  <2> DEFINE S == {i \in 0 .. n : a[i] \in Boxes}
  <2>1. 0 \in S
    BY <1>1, <1>7
  <2>2. ASSUME NEW i \in 1 .. n, i - 1 \in S PROVE i \in S
    <3>1. a[i] = WithS(a[i - 1], i) /\ a[i - 1] \in Boxes
      BY <1>1, <1>7, <2>2
    <3> QED BY <1>1, <3>1, WithSIs
  <2>3. n \in 0 .. n
    BY <1>1
  <2> HIDE DEF S
  <2>4. n \in S
    BY <1>1, <2>1, <2>2, <2>3, AllInRange
  <2> QED BY <2>4 DEF S
<1> QED BY <1>2, <1>8

-----------------------------------------------------------------------------
\* The boxes of a key have words in them, and they are the same in every process.
LEMMA KeyIs ==
  ASSUME NEW j1 \in Junk, NEW j2 \in Junk, NEW key \in Key
  PROVE  KeyInit(j1, key).p \in [PIndex -> Word] /\ KeyInit(j1, key) = KeyInit(j2, key)
<1>1. j1 \in [PIndex -> Word] /\ j2 \in [PIndex -> Word] /\ key \in Seq(Byte)
  BY CbcAssumption
<1>2. Mixed(j1, key) \in Boxes /\ Mixed(j1, key) = Mixed(j2, key)
  BY <1>1, MixedIs
<1> DEFINE b(j) == FilledS(FilledP(Mixed(j, key)))
<1>3. b(j1) \in Boxes
  BY <1>2, FilledPIs, FilledSIs
<1>4. b(j1) = b(j2)
  BY <1>2
<1>5. \A j : KeyInit(j, key) = [p |-> b(j).p, s |-> b(j).s]
  BY DEF KeyInit
<1> HIDE DEF b
<1> QED BY <1>3, <1>4, <1>5 DEF Boxes

\* A block is its two words.
LEMMA BytesOf ==
  ASSUME NEW x \in Pair
  PROVE  Bytes(x) \in Block /\ Halves(Bytes(x)) = x
<1>1. x.l \in Word /\ x.r \in Word /\ x = [l |-> x.l, r |-> x.r]
  BY DEF Pair
<1> DEFINE l == x.l
           r == x.r
           b == Bytes(x)
<1>2. l \in Seq(Byte) /\ r \in Seq(Byte) /\ Len(l) = 4 /\ Len(r) = 4
  BY <1>1, FunctionIsSeq DEF Word
<1>3. b = l \o r
  BY DEF Bytes
<1> HIDE DEF l, r, b
<1>4. b \in Seq(Byte) /\ Len(b) = 8 /\ \A i \in 1 .. 8 : b[i] = IF i <= 4 THEN l[i] ELSE r[i - 4]
  <2>1. /\ l \o r \in Seq(Byte) /\ Len(l \o r) = Len(l) + Len(r)
        /\ \A i \in 1 .. Len(l) + Len(r) :
             (l \o r)[i] = IF i <= Len(l) THEN l[i] ELSE r[i - Len(l)]
    BY <1>2, ConcatProperties
  <2> QED BY <1>2, <1>3, <2>1
<1>5. b \in Block
  BY <1>4, LenProperties DEF Block
<1>6. Halves(b).l = l
  <2>1. /\ Halves(b).l \in Word /\ l \in Word
        /\ \A i \in 1 .. 4 : Halves(b).l[i] = b[i]
    BY <1>1, <1>5, HalvesOf DEF l
  <2>2. \A i \in 1 .. 4 : b[i] = l[i]
    BY <1>4
  <2> QED BY <2>1, <2>2 DEF Word
<1>7. Halves(b).r = r
  <2>1. /\ Halves(b).r \in Word /\ r \in Word
        /\ \A i \in 1 .. 4 : Halves(b).r[i] = b[i + 4]
    BY <1>1, <1>5, HalvesOf DEF r
  <2>2. \A i \in 1 .. 4 : b[i + 4] = r[i]
    <3> SUFFICES ASSUME NEW i \in 1 .. 4 PROVE b[i + 4] = r[i]
      OBVIOUS
    <3>1. i + 4 \in 1 .. 8 /\ ~ (i + 4 <= 4) /\ (i + 4) - 4 = i
      OBVIOUS
    <3> QED BY <1>4, <3>1
  <2> QED BY <2>1, <2>2 DEF Word
<1>8. Halves(b) = [l |-> Halves(b).l, r |-> Halves(b).r]
  BY DEF Halves
<1> QED BY <1>1, <1>5, <1>6, <1>7, <1>8 DEF b, l, r

LEMMA HalvesBack ==
  ASSUME NEW b \in Block
  PROVE  Halves(b) \in Pair /\ Bytes(Halves(b)) = b
<1> DEFINE h == Halves(b)
           c == Bytes(h)
<1>1. /\ h.l \in Word /\ h.r \in Word
      /\ \A i \in 1 .. 4 : h.l[i] = b[i] /\ h.r[i] = b[i + 4]
  BY HalvesOf
<1>2. h \in Pair
  BY <1>1 DEF Halves, Pair
<1> HIDE DEF h
<1>3. c \in Block /\ Halves(c) = h
  BY <1>2, BytesOf
<1> HIDE DEF c
<1>4. \A i \in 1 .. 4 : h.l[i] = c[i] /\ h.r[i] = c[i + 4]
  BY <1>3, HalvesOf
<1>5. \A i \in 1 .. 8 : c[i] = b[i]
  <2> SUFFICES ASSUME NEW i \in 1 .. 8 PROVE c[i] = b[i]
    OBVIOUS
  <2>1. CASE i \in 1 .. 4
    BY <1>1, <1>4, <2>1
  <2>2. CASE i \in 5 .. 8
    <3>1. i - 4 \in 1 .. 4 /\ (i - 4) + 4 = i
      BY <2>2
    <3> QED BY <1>1, <1>4, <3>1
  <2> QED BY <2>1, <2>2
<1>6. c = b
  BY <1>3, <1>5 DEF Block
<1> QED BY <1>2, <1>6 DEF h, c

\* Whatever the boxes that the code starts from, the number of rounds, the key,
\* and the memory that malloc returned in either process: a block that
\* bfish_encrypt encrypted is decrypted by bfish_decrypt with the same key.
THEOREM BlockIsUndone == Undone
<1> SUFFICES ASSUME NEW p \in Processes, NEW q \in Processes, p.key = q.key, p.key # NoKey,
                    NEW b \in Block
             PROVE  Enc(p.bk, b) \in Block /\ Dec(q.bk, Enc(p.bk, b)) = b
  BY DEF Undone
<1>1. PICK key \in Key \cup {NoKey}, j1 \in Junk : p = Process(key, j1)
  BY DEF Processes
<1>2. PICK key2 \in Key \cup {NoKey}, j2 \in Junk : q = Process(key2, j2)
  BY DEF Processes
<1>3. key2 = key /\ key \in Key
  BY <1>1, <1>2 DEF Process
<1>4. p.bk = KeyInit(j1, key) /\ q.bk = KeyInit(j2, key)
  BY <1>1, <1>2, <1>3, CbcAssumption DEF Process
<1>5. p.bk.p \in [PIndex -> Word] /\ q.bk = p.bk
  BY <1>3, <1>4, KeyIs
<1> DEFINE bk == p.bk
           x == Encrypt(bk, Halves(b))
<1>6. Halves(b) \in Pair /\ Bytes(Halves(b)) = b
  BY HalvesBack
<1>7. x \in Pair
  BY <1>5, <1>6, EncryptIsPair
<1>8. Decrypt(bk, x) = Halves(b)
  BY <1>5, <1>6, Backwards
<1>9. Enc(bk, b) = Bytes(x) /\ Dec(q.bk, Enc(p.bk, b)) = Bytes(Decrypt(bk, Halves(Bytes(x))))
  BY <1>5 DEF Enc, Dec
<1> HIDE DEF bk, x
<1>10. Bytes(x) \in Block /\ Halves(Bytes(x)) = x
  BY <1>7, BytesOf
<1>11. Enc(p.bk, b) = Bytes(x)
  BY <1>9 DEF bk
<1> QED BY <1>6, <1>8, <1>9, <1>10, <1>11

-----------------------------------------------------------------------------
\* A block is masked byte by byte.
LEMMA MaskOf ==
  ASSUME NEW a \in Block, NEW b \in Block
  PROVE  /\ Mask(a, b) \in Block
         /\ \A i \in Offset : Mask(a, b)[i] = (a[i] \ b[i]) \cup (b[i] \ a[i])
<1> DEFINE l == Xor(Halves(a).l, Halves(b).l)
           r == Xor(Halves(a).r, Halves(b).r)
<1>1. l \in Word /\ r \in Word
  BY HalvesOf, XorOf
<1>2. \A i \in 1 .. 4 : /\ l[i] = (a[i] \ b[i]) \cup (b[i] \ a[i])
                        /\ r[i] = (a[i + 4] \ b[i + 4]) \cup (b[i + 4] \ a[i + 4])
  BY HalvesOf, XorOf
<1>3. Mask(a, b) = l \o r
  BY DEF Mask, Bytes
<1> HIDE DEF l, r
<1>4. l \in Seq(Byte) /\ r \in Seq(Byte) /\ Len(l) = 4 /\ Len(r) = 4
  BY <1>1, FunctionIsSeq DEF Word
<1>5. /\ Mask(a, b) \in Seq(Byte) /\ Len(Mask(a, b)) = 8
      /\ \A i \in 1 .. 8 : Mask(a, b)[i] = IF i <= 4 THEN l[i] ELSE r[i - 4]
  <2>1. /\ l \o r \in Seq(Byte) /\ Len(l \o r) = Len(l) + Len(r)
        /\ \A i \in 1 .. Len(l) + Len(r) :
             (l \o r)[i] = IF i <= Len(l) THEN l[i] ELSE r[i - Len(l)]
    BY <1>4, ConcatProperties
  <2> QED BY <1>3, <1>4, <2>1
<1>6. ASSUME NEW i \in Offset PROVE Mask(a, b)[i] = (a[i] \ b[i]) \cup (b[i] \ a[i])
  <2>1. CASE i \in 1 .. 4
    BY <1>2, <1>5, <2>1
  <2>2. CASE i \in 5 .. 8
    <3>1. i - 4 \in 1 .. 4 /\ (i - 4) + 4 = i
      BY <2>2
    <3> QED BY <1>2, <1>5, <2>2, <3>1
  <2> QED BY <2>1, <2>2 DEF Offset
<1>7. Mask(a, b) \in Block
  BY <1>5, LenProperties DEF Block
<1> QED BY <1>6, <1>7

\* A mask is undone by the same mask.
LEMMA MaskTwice ==
  ASSUME NEW a \in Block, NEW b \in Block
  PROVE  Mask(Mask(a, b), b) = a
<1> DEFINE m == Mask(a, b)
           n == Mask(m, b)
<1>1. m \in Block /\ \A i \in Offset : m[i] = (a[i] \ b[i]) \cup (b[i] \ a[i])
  BY MaskOf
<1> HIDE DEF m
<1>2. n \in Block /\ \A i \in Offset : n[i] = (m[i] \ b[i]) \cup (b[i] \ m[i])
  BY <1>1, MaskOf
<1> HIDE DEF n
<1>3. \A i \in Offset : n[i] = a[i]
  BY <1>1, <1>2
<1>4. n = a
  BY <1>2, <1>3 DEF Block, Offset
<1> QED BY <1>4 DEF m, n

-----------------------------------------------------------------------------
\* A tail is filled up to a block.
LEMMA PaddedOf ==
  ASSUME NEW t \in Seq(Byte), Len(t) < 8
  PROVE  /\ Padded(t) \in Block
         /\ \A i \in Offset : Padded(t)[i] = IF i <= Len(t) THEN t[i] ELSE {}
<1>1. Len(t) \in Nat /\ \A i \in 1 .. Len(t) : t[i] \in Byte
  BY LenProperties
<1>2. {} \in Byte
  BY DEF Byte
<1> QED BY <1>1, <1>2 DEF Padded, Block, Offset

LEMMA FirstOf ==
  ASSUME NEW b \in Block, NEW n \in Nat, n < 8
  PROVE  /\ First(b, n) \in Seq(Byte) /\ Len(First(b, n)) = n
         /\ \A i \in 1 .. n : First(b, n)[i] = b[i]
<1>1. First(b, n) \in [1 .. n -> Byte] /\ \A i \in 1 .. n : First(b, n)[i] = b[i]
  BY DEF First, Block
<1> QED BY <1>1, FunctionIsSeq

\* What stealing is about: the block that masks the padded tail gives the tail
\* its first bytes and is all there again when the block is opened.
LEMMA Stolen ==
  ASSUME NEW t \in Seq(Byte), Len(t) < 8, NEW x \in Block,
         NEW opened, opened = Mask(Mask(Padded(t), x), Padded(First(x, Len(t))))
  PROVE  /\ First(opened, Len(t)) = t
         /\ [i \in Offset |-> IF i <= Len(t) THEN First(x, Len(t))[i] ELSE opened[i]] = x
<1> DEFINE n == Len(t)
           f == First(x, n)
           m == Mask(Padded(t), x)
<1>1. n \in Nat /\ n < 8 /\ t \in [1 .. n -> Byte]
  BY LenProperties
<1>2. f \in Seq(Byte) /\ Len(f) = n /\ \A i \in 1 .. n : f[i] = x[i]
  BY <1>1, FirstOf
<1>3. /\ Padded(t) \in Block
      /\ \A i \in Offset : Padded(t)[i] = IF i <= n THEN t[i] ELSE {}
  BY PaddedOf
<1>4. /\ Padded(f) \in Block
      /\ \A i \in Offset : Padded(f)[i] = IF i <= n THEN f[i] ELSE {}
  <2>1. /\ Padded(f) \in Block
        /\ \A i \in Offset : Padded(f)[i] = IF i <= Len(f) THEN f[i] ELSE {}
    BY <1>1, <1>2, PaddedOf
  <2> QED BY <1>2, <2>1
<1>5. /\ m \in Block
      /\ \A i \in Offset : m[i] = (Padded(t)[i] \ x[i]) \cup (x[i] \ Padded(t)[i])
  BY <1>3, MaskOf
<1>6. /\ opened \in Block
      /\ \A i \in Offset : opened[i] = (m[i] \ Padded(f)[i]) \cup (Padded(f)[i] \ m[i])
  BY <1>4, <1>5, MaskOf
<1> HIDE DEF n, f, m
<1>7. \A i \in Offset : opened[i] = IF i <= n THEN t[i] ELSE x[i]
  <2> SUFFICES ASSUME NEW i \in Offset PROVE opened[i] = IF i <= n THEN t[i] ELSE x[i]
    OBVIOUS
  <2>1. CASE i <= n
    <3>1. Padded(t)[i] = t[i] /\ Padded(f)[i] = x[i]
      BY <1>1, <1>2, <1>3, <1>4, <2>1 DEF Offset
    <3> QED BY <1>5, <1>6, <2>1, <3>1
  <2>2. CASE ~ i <= n
    <3>1. Padded(t)[i] = {} /\ Padded(f)[i] = {}
      BY <1>3, <1>4, <2>2
    <3> QED BY <1>5, <1>6, <2>2, <3>1
  <2> QED BY <2>1, <2>2
<1>8. First(opened, n) = t
  <2>1. \A i \in 1 .. n : opened[i] = t[i]
    BY <1>1, <1>7 DEF Offset
  <2> QED BY <1>1, <2>1 DEF First
<1>9. [i \in Offset |-> IF i <= n THEN f[i] ELSE opened[i]] = x
  <2>1. \A i \in Offset : (IF i <= n THEN f[i] ELSE opened[i]) = x[i]
    BY <1>1, <1>2, <1>7 DEF Offset
  <2> QED BY <2>1 DEF Block, Offset
<1> QED BY <1>8, <1>9 DEF n, f

-----------------------------------------------------------------------------
\* The block that masks block j of the string f.
Before(f, j) == IF j = 1 THEN iv ELSE f[j - 1]

\* Block j of the plain text, encrypted behind the ciphertext f.
Sealed(f, j) == Enc(from.bk, Mask(plain.full[j], Before(f, j)))

\* The string as it is sent: which blocks are sealed, and the last one.
Whole(j) == j < N \/ T = 0

OnWire ==
  /\ wire.full \in Seq(Block) /\ Len(wire.full) = N
  /\ wire.tail \in Seq(Byte) /\ Len(wire.tail) = T
  /\ N = 0 => wire = plain
  /\ \A j \in 1 .. N : Whole(j) => wire.full[j] = Sealed(wire.full, j)
  /\ N > 0 /\ T > 0 =>
       /\ wire.tail = First(Sealed(wire.full, N), T)
       /\ wire.full[N] = Enc(from.bk, Mask(Padded(plain.tail), Sealed(wire.full, N)))

\* The string between two steps of a sender and a receiver with the same key.
Enciphering ==
  /\ tail = plain.tail
  /\ \A j \in 1 .. N : full[j] = IF j <= k THEN Sealed(full, j) ELSE plain.full[j]

Deciphering ==
  /\ N > 0 /\ tail = wire.tail
  /\ \A j \in k + 1 .. N : full[j] = wire.full[j]
  /\ \A j \in 1 .. k : Whole(j) => full[j] = plain.full[j]
  /\ k > 0 => last = wire.full[k]
  /\ T > 0 => second = Before(wire.full, N)

Shape ==
  /\ full \in Seq(Block) /\ N = Len(plain.full)
  /\ tail \in Seq(Byte) /\ T = Len(plain.tail)
  /\ k \in 0 .. N

Progress ==
  /\ pc = "typed" => k = 0 /\ Enciphering /\ wire = plain /\ full = plain.full
  /\ pc = "enc" => N > 0 /\ Enciphering
  /\ pc = "air" => k = 0 /\ full = wire.full /\ tail = wire.tail /\ OnWire
  /\ pc = "dec" => OnWire /\ Deciphering
  /\ pc = "read" => full = plain.full /\ tail = plain.tail

CbcInv ==
  /\ from \in Processes /\ to \in Processes
  /\ plain \in String /\ iv \in Block
  /\ pc \in {"typed", "enc", "air", "dec", "read", "dropped"}
  /\ from.key = to.key =>
       IF from.key = NoKey THEN pc \in {"typed", "air", "dropped"}
                           ELSE Shape /\ Progress

\* What the steps change of it, for two processes with the same key.
Keyed == CbcInv /\ from.key = to.key /\ from.key # NoKey

-----------------------------------------------------------------------------
USE DEF N, T

\* The cipher of a block under the invariant.
LEMMA Cipher ==
  ASSUME Keyed
  PROVE  \A b \in Block : Enc(from.bk, b) \in Block /\ Dec(to.bk, Enc(from.bk, b)) = b
BY BlockIsUndone DEF Undone, Keyed, CbcInv

LEMMA PlainOf ==
  ASSUME Keyed
  PROVE  /\ plain.full \in Seq(Block) /\ Len(plain.full) = N /\ N \in Nat
         /\ \A j \in 1 .. N : plain.full[j] \in Block
         /\ plain.tail \in Seq(Byte) /\ Len(plain.tail) = T /\ T \in Nat /\ T < 8
         /\ full \in Seq(Block) /\ tail \in Seq(Byte) /\ k \in 0 .. N
<1>1. /\ plain.full \in Seq(Block) /\ plain.tail \in Seq(Byte) /\ Len(plain.tail) < 8
      /\ full \in Seq(Block) /\ tail \in Seq(Byte) /\ k \in 0 .. N
      /\ N = Len(plain.full) /\ T = Len(plain.tail)
  BY DEF Keyed, CbcInv, String, Shape
<1>2. Len(plain.full) \in Nat /\ Len(plain.tail) \in Nat
  BY <1>1, LenProperties
<1>3. \A j \in 1 .. Len(plain.full) : plain.full[j] \in Block
  BY <1>1, ElementOfSeq
<1> QED BY <1>1, <1>2, <1>3

LEMMA BeforeIsBlock ==
  ASSUME Keyed, NEW f \in Seq(Block), Len(f) = N, NEW j \in 1 .. N
  PROVE  Before(f, j) \in Block
<1>1. iv \in Block /\ N \in Nat
  BY PlainOf DEF Keyed, CbcInv
<1>2. j # 1 => j - 1 \in 1 .. Len(f)
  BY <1>1
<1>3. j # 1 => f[j - 1] \in Block
  BY <1>2, ElementOfSeq
<1> QED BY <1>1, <1>3 DEF Before

LEMMA SealedIsBlock ==
  ASSUME Keyed, NEW f \in Seq(Block), Len(f) = N, NEW j \in 1 .. N
  PROVE  Sealed(f, j) \in Block
BY BeforeIsBlock, PlainOf, MaskOf, Cipher DEF Sealed

\* Opening a sealed block.
LEMMA Opened ==
  ASSUME Keyed, NEW f \in Seq(Block), Len(f) = N, NEW j \in 1 .. N
  PROVE  Mask(Dec(to.bk, Sealed(f, j)), Before(f, j)) = plain.full[j]
<1>1. Before(f, j) \in Block /\ plain.full[j] \in Block
  BY BeforeIsBlock, PlainOf
<1>2. Dec(to.bk, Sealed(f, j)) = Mask(plain.full[j], Before(f, j))
  BY <1>1, MaskOf, Cipher DEF Sealed
<1> QED BY <1>1, <1>2, MaskTwice

-----------------------------------------------------------------------------
LEMMA EncBlockStep ==
  ASSUME Keyed, EncBlock
  PROVE  (Shape /\ Progress)'
<1>1. /\ pc = "enc" /\ k < N /\ pc' = "enc" /\ k' = k + 1
      /\ full' = [full EXCEPT ![k + 1] = Enc(from.bk, Mask(@, IF k = 0 THEN iv ELSE full[k]))]
      /\ UNCHANGED <<tail, iv, from, to, plain, wire>>
  BY DEF EncBlock, keyVars
<1>2. /\ Enciphering /\ N > 0 /\ N \in Nat /\ k \in 0 .. N /\ k + 1 \in 1 .. N
      /\ full \in Seq(Block)
  BY <1>1, PlainOf DEF Keyed, CbcInv, Progress
<1>3. full[k + 1] = plain.full[k + 1]
  BY <1>2 DEF Enciphering
<1>4. Before(full, k + 1) = IF k = 0 THEN iv ELSE full[k]
  BY <1>2 DEF Before
<1>5. full' = [full EXCEPT ![k + 1] = Sealed(full, k + 1)]
  BY <1>1, <1>2, <1>3, <1>4 DEF Sealed
<1>6. Sealed(full, k + 1) \in Block
  BY <1>2, SealedIsBlock
<1>7. /\ full' \in Seq(Block) /\ Len(full') = N
      /\ \A j \in 1 .. N : full'[j] = IF j = k + 1 THEN Sealed(full, k + 1) ELSE full[j]
  BY <1>2, <1>5, <1>6, ExceptSeq
<1>8. ASSUME NEW j \in 1 .. k + 1 PROVE Sealed(full, j)' = Sealed(full, j)
  <2>1. j # 1 => full'[j - 1] = full[j - 1]
    BY <1>2, <1>7
  <2>2. Before(full, j)' = Before(full, j)
    BY <1>1, <2>1 DEF Before
  <2> QED BY <1>1, <2>2 DEF Sealed
<1>9. Shape'
  BY <1>1, <1>2, <1>7, PlainOf DEF Shape, Keyed, CbcInv
<1>10. Enciphering'
  <2> SUFFICES ASSUME NEW j \in 1 .. N
               PROVE  full'[j] = IF j <= k + 1 THEN Sealed(full, j)' ELSE plain.full[j]
    BY <1>1, <1>2, <1>7 DEF Enciphering
  <2>1. CASE j <= k
    BY <1>2, <1>7, <1>8, <2>1 DEF Enciphering
  <2>2. CASE j = k + 1
    BY <1>2, <1>7, <1>8, <2>2
  <2>3. CASE j > k + 1
    BY <1>2, <1>7, <2>3 DEF Enciphering
  <2> QED BY <1>2, <2>1, <2>2, <2>3
<1> QED BY <1>1, <1>2, <1>7, <1>9, <1>10 DEF Progress

LEMMA EndEncStep ==
  ASSUME Keyed, EndEnc
  PROVE  (Shape /\ Progress)'
<1> DEFINE x == Sealed(full, N)
<1>1. /\ pc = "enc" /\ k = N /\ pc' = "air" /\ k' = 0
      /\ full' = IF T = 0 THEN full ELSE
                   [full EXCEPT ![N] = Enc(from.bk, Mask(Padded(tail), @))]
      /\ tail' = First(full[N], T)
      /\ wire' = [full |-> full', tail |-> tail']
      /\ UNCHANGED <<iv, from, to, plain>>
  BY DEF EndEnc, keyVars
<1>2. /\ Enciphering /\ N > 0 /\ N \in Nat /\ N \in 1 .. N /\ T \in Nat /\ T < 8
      /\ full \in Seq(Block) /\ tail \in Seq(Byte) /\ tail = plain.tail
  BY <1>1, PlainOf DEF Keyed, CbcInv, Progress, Enciphering
<1>3. \A j \in 1 .. N : full[j] = Sealed(full, j)
  BY <1>1, <1>2 DEF Enciphering
<1>4. x \in Block /\ full[N] = x
  BY <1>2, <1>3, SealedIsBlock
<1>5. Enc(from.bk, Mask(Padded(plain.tail), x)) \in Block
  <2>1. plain.tail \in Seq(Byte) /\ Len(plain.tail) < 8
    BY PlainOf
  <2>2. Padded(plain.tail) \in Block
    BY <2>1, PaddedOf
  <2>3. Mask(Padded(plain.tail), x) \in Block
    BY <1>4, <2>2, MaskOf
  <2> QED BY <2>3, Cipher
<1>6. /\ full' \in Seq(Block) /\ Len(full') = N
      /\ \A j \in 1 .. N : Whole(j) => full'[j] = full[j]
      /\ T > 0 => full'[N] = Enc(from.bk, Mask(Padded(plain.tail), x))
  <2>1. CASE T = 0
    BY <1>1, <1>2, <2>1
  <2>2. CASE T # 0
    <3>1. full' = [full EXCEPT ![N] = Enc(from.bk, Mask(Padded(plain.tail), x))]
      BY <1>1, <1>2, <1>4, <2>2
    <3>2. /\ full' \in Seq(Block) /\ Len(full') = N
          /\ \A j \in 1 .. N : full'[j] =
               IF j = N THEN Enc(from.bk, Mask(Padded(plain.tail), x)) ELSE full[j]
      BY <1>2, <1>5, <3>1, ExceptSeq
    <3> QED BY <1>2, <2>2, <3>2 DEF Whole
  <2> QED BY <2>1, <2>2
<1>7. tail' \in Seq(Byte) /\ Len(tail') = T /\ tail' = First(x, T)
  <2>1. T \in Nat /\ T < 8
    BY <1>2
  <2>2. First(x, T) \in Seq(Byte) /\ Len(First(x, T)) = T
    BY <1>4, <2>1, FirstOf
  <2> QED BY <1>1, <1>4, <2>2
<1>8. \A j \in 1 .. N : Sealed(full, j)' = Sealed(full, j)
  <2> SUFFICES ASSUME NEW j \in 1 .. N PROVE Sealed(full, j)' = Sealed(full, j)
    OBVIOUS
  <2>1. j # 1 => j - 1 \in 1 .. N /\ Whole(j - 1)
    BY <1>2 DEF Whole
  <2>2. Before(full, j)' = Before(full, j)
    BY <1>1, <1>6, <2>1 DEF Before
  <2> QED BY <1>1, <2>2 DEF Sealed
<1>9. N' = N /\ T' = T
  BY <1>6, <1>7
<1>10. wire'.full = full' /\ wire'.tail = tail'
  BY <1>1
<1>11. Shape'
  BY <1>1, <1>2, <1>6, <1>7, PlainOf DEF Shape
<1>12. OnWire'
  <2>1. \A j \in 1 .. N : Whole(j) => full'[j] = Sealed(full, j)'
    BY <1>3, <1>6, <1>8
  <2>2. T > 0 => /\ tail' = First(Sealed(full, N)', T)
                 /\ full'[N] = Enc(from.bk, Mask(Padded(plain.tail), Sealed(full, N)'))
    BY <1>2, <1>6, <1>7, <1>8
  <2>3. \A j : Sealed(wire.full, j)' = Sealed(full, j)'
    BY <1>10 DEF Sealed, Before
  <2>4. \A j : Whole(j)' <=> Whole(j)
    BY <1>9 DEF Whole
  <2>5. /\ wire.full' \in Seq(Block) /\ Len(wire.full') = N'
        /\ wire.tail' \in Seq(Byte) /\ Len(wire.tail') = T'
    BY <1>6, <1>7, <1>9, <1>10
  <2>6. \A j \in 1 .. N' : Whole(j)' => wire.full'[j] = Sealed(wire.full, j)'
    BY <1>9, <1>10, <2>1, <2>3, <2>4
  <2>7. T' > 0 => /\ wire.tail' = First(Sealed(wire.full, N)', T')
                  /\ wire.full'[N'] = Enc(from'.bk, Mask(Padded(plain'.tail), Sealed(wire.full, N)'))
    BY <1>1, <1>9, <1>10, <2>2, <2>3
  <2> QED BY <1>2, <1>9, <2>5, <2>6, <2>7 DEF OnWire
<1> QED BY <1>1, <1>10, <1>11, <1>12 DEF Progress

LEMMA StartEncStep ==
  ASSUME Keyed, StartEnc
  PROVE  (Shape /\ Progress)'
<1>1. /\ pc = "typed" /\ k = 0 /\ Enciphering /\ Shape /\ wire = plain /\ full = plain.full
      /\ pc' = IF N = 0 THEN "air" ELSE "enc"
      /\ UNCHANGED <<k, full, tail, iv, from, to, plain, wire>>
  BY DEF StartEnc, keyVars, Keyed, CbcInv, Progress
<1>2. Enciphering' /\ Shape'
  BY <1>1 DEF Enciphering, Shape, Sealed, Before
<1>3. CASE N # 0
  BY <1>1, <1>2, <1>3, PlainOf DEF Progress
<1>4. CASE N = 0
  <2>2. /\ full = wire.full /\ tail = wire.tail
        /\ wire.full \in Seq(Block) /\ wire.tail \in Seq(Byte) /\ Len(wire.tail) = T
    BY <1>1, PlainOf DEF Enciphering
  <2> QED BY <1>1, <1>2, <1>4, <2>2 DEF Progress, OnWire
<1> QED BY <1>3, <1>4

LEMMA StartDecStep ==
  ASSUME Keyed, StartDec
  PROVE  (Shape /\ Progress)'
<1>1. /\ pc = "air" /\ k = 0 /\ full = wire.full /\ tail = wire.tail /\ OnWire /\ Shape
      /\ pc' = IF N = 0 THEN "read" ELSE "dec"
      /\ second' = IF T = 0 \/ N = 0 THEN second ELSE IF N >= 2 THEN full[N - 1] ELSE iv
      /\ UNCHANGED <<k, full, tail, iv, from, to, plain, wire>>
  BY DEF StartDec, keyVars, Keyed, CbcInv, Progress
<1>2. OnWire' /\ Shape'
  BY <1>1 DEF OnWire, Shape, Whole, Sealed, Before
<1>3. CASE N = 0
  BY <1>1, <1>2, <1>3 DEF Progress, OnWire
<1>4. CASE N # 0
  <2>1. N \in Nat /\ N > 0 /\ T \in Nat
    BY <1>4, PlainOf
  <2>2. T > 0 => second' = Before(wire.full, N)
    <3>1. T > 0 => second' = IF N >= 2 THEN full[N - 1] ELSE iv
      BY <1>1, <1>4, <2>1
    <3>2. \A n \in Nat : n > 0 => (n >= 2 <=> n # 1)
      OBVIOUS
    <3>3. full = wire.full
      BY <1>1
    <3> QED BY <2>1, <3>1, <3>2, <3>3 DEF Before
  <2>3. Deciphering'
    BY <1>1, <2>1, <2>2 DEF Deciphering, Before
  <2> QED BY <1>1, <1>2, <1>4, <2>3 DEF Progress
<1> QED BY <1>3, <1>4

LEMMA DecBlockStep ==
  ASSUME Keyed, DecBlock
  PROVE  (Shape /\ Progress)'
<1> DEFINE d == Mask(Dec(to.bk, full[k + 1]), Before(wire.full, k + 1))
<1>1. /\ pc = "dec" /\ k < N /\ pc' = "dec" /\ k' = k + 1
      /\ last' = full[k + 1]
      /\ full' = [full EXCEPT ![k + 1] = Mask(Dec(to.bk, @), IF k = 0 THEN iv ELSE last)]
      /\ UNCHANGED <<tail, iv, from, to, second, plain, wire>>
  BY DEF DecBlock, keyVars
<1>2. /\ OnWire /\ Deciphering /\ N \in Nat /\ N > 0 /\ k \in 0 .. N /\ k + 1 \in 1 .. N
      /\ full \in Seq(Block) /\ T \in Nat /\ T < 8
      /\ wire.full \in Seq(Block) /\ Len(wire.full) = N
  BY <1>1, PlainOf DEF Keyed, CbcInv, Progress, OnWire
<1>3. full[k + 1] = wire.full[k + 1]
  BY <1>2 DEF Deciphering
<1>4. Before(wire.full, k + 1) = IF k = 0 THEN iv ELSE last
  BY <1>2 DEF Before, Deciphering
<1>5. full' = [full EXCEPT ![k + 1] = d]
  BY <1>1, <1>2, <1>4
<1>6. Whole(k + 1) => d = plain.full[k + 1]
  BY <1>2, <1>3, Opened DEF OnWire
<1>7. d \in Block
  <2>1. CASE Whole(k + 1)
    BY <1>2, <1>6, <2>1, PlainOf
  <2>2. CASE ~ Whole(k + 1)
    <3> DEFINE x == Sealed(wire.full, N)
    <3>1. k + 1 = N /\ T > 0 /\ N \in 1 .. N
      BY <1>2, <2>2 DEF Whole
    <3>2. x \in Block
      BY <1>2, <3>1, SealedIsBlock
    <3>3. Mask(Padded(plain.tail), x) \in Block
      BY <3>2, PlainOf, PaddedOf, MaskOf
    <3>4. wire.full[N] = Enc(from.bk, Mask(Padded(plain.tail), x))
      BY <1>2, <3>1 DEF OnWire
    <3>5. Dec(to.bk, full[k + 1]) \in Block
      BY <1>3, <3>1, <3>3, <3>4, Cipher
    <3>6. Before(wire.full, k + 1) \in Block
      BY <1>2, BeforeIsBlock
    <3> QED BY <3>5, <3>6, MaskOf
  <2> QED BY <2>1, <2>2
<1> HIDE DEF d
<1>8. /\ full' \in Seq(Block) /\ Len(full') = N
      /\ \A j \in 1 .. N : full'[j] = IF j = k + 1 THEN d ELSE full[j]
  BY <1>2, <1>5, <1>7, ExceptSeq
<1>9. Shape'
  BY <1>1, <1>2, <1>8, PlainOf DEF Shape, Keyed, CbcInv
<1>10. OnWire' /\ \A j : Whole(j)' <=> Whole(j)
  BY <1>1, <1>2, <1>8 DEF OnWire, Whole, Sealed, Before
<1>11. Deciphering'
  <2>1. tail' = wire'.tail /\ N' > 0 /\ N' = N /\ T' = T
    BY <1>1, <1>2, <1>8 DEF Deciphering
  <2>2. \A j \in k + 2 .. N : full'[j] = wire.full[j]
    BY <1>2, <1>8 DEF Deciphering
  <2>3. ASSUME NEW j \in 1 .. k + 1, Whole(j) PROVE full'[j] = plain.full[j]
    BY <1>2, <1>6, <1>8, <2>3 DEF Deciphering
  <2>4. last' = wire.full[k + 1]
    BY <1>1, <1>3
  <2>5. T > 0 => second' = Before(wire.full, N)
    BY <1>1, <1>2 DEF Deciphering
  <2>6. Before(wire.full, N)' = Before(wire.full, N)
    BY <1>1, <2>1 DEF Before
  <2>7. \A j \in 1 .. k + 1 : Whole(j)' => full'[j] = plain.full[j]
    BY <1>10, <2>3
  <2> QED BY <1>1, <1>2, <2>1, <2>2, <2>4, <2>5, <2>6, <2>7 DEF Deciphering
<1> QED BY <1>1, <1>9, <1>10, <1>11 DEF Progress

LEMMA EndDecStep ==
  ASSUME Keyed, EndDec
  PROVE  (Shape /\ Progress)'
<1> DEFINE opened == Mask(Dec(to.bk, last), Padded(tail))
           stolen == [i \in Offset |-> IF i <= T THEN tail[i] ELSE opened[i]]
           x == Sealed(wire.full, N)
<1>1. /\ pc = "dec" /\ k = N /\ pc' = "read"
      /\ full' = IF T = 0 THEN full ELSE
                   [full EXCEPT ![N] = Mask(Dec(to.bk, stolen), second)]
      /\ tail' = First(opened, T)
      /\ UNCHANGED <<k, from, to, plain>>
  BY DEF EndDec, keyVars
<1>2. /\ OnWire /\ Deciphering /\ N \in Nat /\ N > 0 /\ N \in 1 .. N
      /\ full \in Seq(Block) /\ tail = wire.tail /\ last = wire.full[N]
      /\ wire.full \in Seq(Block) /\ Len(wire.full) = N
      /\ plain.full \in Seq(Block) /\ Len(plain.full) = N
      /\ plain.tail \in Seq(Byte) /\ Len(plain.tail) = T /\ T \in Nat /\ T < 8
  BY <1>1, PlainOf DEF Keyed, CbcInv, Progress, OnWire, Deciphering
<1>3. CASE T = 0
  <2>1. full' = plain.full
    <3>1. \A j \in 1 .. N : full[j] = plain.full[j]
      BY <1>1, <1>2, <1>3 DEF Deciphering, Whole
    <3>2. full = plain.full
      BY <1>2, <3>1, SeqEqual
    <3> QED BY <1>1, <1>3, <3>2
  <2>2. tail' = plain.tail
    <3>1. plain.tail = <<>>
      BY <1>2, <1>3, EmptySeq
    <3>2. First(opened, 0) = <<>>
      BY DEF First
    <3> QED BY <1>1, <1>3, <3>1, <3>2
  <2> QED BY <1>1, <1>2, <1>3, <2>1, <2>2, PlainOf DEF Shape, Progress
<1>4. CASE T > 0
  <2>1. x \in Block /\ wire.tail = First(x, T)
    BY <1>2, <1>4, SealedIsBlock DEF OnWire
  <2>2. Dec(to.bk, last) = Mask(Padded(plain.tail), x)
    <3>1. Mask(Padded(plain.tail), x) \in Block
      BY <1>2, <2>1, PaddedOf, MaskOf
    <3>2. last = Enc(from.bk, Mask(Padded(plain.tail), x))
      BY <1>2, <1>4 DEF OnWire
    <3> QED BY <3>1, <3>2, Cipher
  <2>3. opened = Mask(Mask(Padded(plain.tail), x), Padded(First(x, Len(plain.tail))))
    BY <1>2, <2>1, <2>2
  <2>4. /\ First(opened, Len(plain.tail)) = plain.tail
        /\ [i \in Offset |-> IF i <= Len(plain.tail) THEN First(x, Len(plain.tail))[i]
                                                     ELSE opened[i]] = x
    <3> HIDE DEF opened, x
    <3> QED BY <1>2, <2>1, <2>3, Stolen
  <2>5. tail' = plain.tail /\ stolen = x
    <3>1. tail = First(x, Len(plain.tail)) /\ T = Len(plain.tail)
      BY <1>2, <2>1
    <3> HIDE DEF opened, x
    <3> QED BY <1>1, <2>4, <3>1
  <2>6. Mask(Dec(to.bk, stolen), second) = plain.full[N]
    <3>1. second = Before(wire.full, N)
      BY <1>2, <1>4 DEF Deciphering
    <3>2. Mask(Dec(to.bk, x), Before(wire.full, N)) = plain.full[N]
      BY <1>2, Opened
    <3> HIDE DEF stolen, x
    <3> QED BY <2>5, <3>1, <3>2
  <2>7. full' = plain.full
    <3>1. full' = [full EXCEPT ![N] = plain.full[N]]
      <4>1. T # 0 /\ full' = IF T = 0 THEN full ELSE
                             [full EXCEPT ![N] = Mask(Dec(to.bk, stolen), second)]
        BY <1>1, <1>4
      <4> HIDE DEF opened, stolen
      <4> QED BY <2>6, <4>1
    <3>2. plain.full[N] \in Block
      BY <1>2, PlainOf
    <3>3. /\ full' \in Seq(Block) /\ Len(full') = N
          /\ \A j \in 1 .. N : full'[j] = IF j = N THEN plain.full[N] ELSE full[j]
      BY <1>2, <3>1, <3>2, ExceptSeq
    <3>4. \A j \in 1 .. N : full'[j] = plain.full[j]
      BY <1>1, <1>2, <3>3 DEF Deciphering, Whole
    <3> QED BY <1>2, <3>3, <3>4, SeqEqual
  <2> QED BY <1>1, <1>2, <2>5, <2>7, PlainOf DEF Shape, Progress
<1> QED BY <1>2, <1>3, <1>4

-----------------------------------------------------------------------------
LEMMA InitCbc == Init => CbcInv
<1> SUFFICES ASSUME Init PROVE CbcInv
  OBVIOUS
<1>1. PICK x \in Text : full = x.full /\ tail = x.tail /\ plain = x
  BY DEF Init
<1>2. x \in String /\ iv \in Block /\ from \in Processes /\ to \in Processes
  BY <1>1, CbcAssumption DEF Init
<1>3. Shape
  <2>1. full \in Seq(Block) /\ tail \in Seq(Byte) /\ k = 0
    BY <1>1, <1>2 DEF Init, String
  <2>2. Len(full) \in Nat
    BY <2>1, LenProperties
  <2> QED BY <1>1, <2>1, <2>2 DEF Shape
<1>4. Progress
  BY <1>1 DEF Init, Progress, Enciphering
<1> QED BY <1>1, <1>2, <1>3, <1>4 DEF Init, CbcInv

LEMMA NextCbc ==
  ASSUME CbcInv, [Next]_vars
  PROVE  CbcInv'
<1>1. UNCHANGED <<iv, from, to, plain>>
  BY DEF Next, vars, StartEnc, EncBlock, EndEnc, StartDec, DecBlock, EndDec, keyVars
<1>2. pc' \in {"typed", "enc", "air", "dec", "read", "dropped"}
  BY DEF CbcInv, Next, vars, StartEnc, EncBlock, EndEnc, StartDec, DecBlock, EndDec
<1>3. ASSUME from.key = to.key, from.key = NoKey
      PROVE  pc' \in {"typed", "air", "dropped"}
  BY <1>3 DEF CbcInv, Next, vars, StartEnc, EncBlock, EndEnc, StartDec, DecBlock, EndDec
<1>4. ASSUME Keyed PROVE (Shape /\ Progress)'
  <2>1. CASE UNCHANGED vars
    <3>1. Shape /\ Progress
      BY <1>4 DEF Keyed, CbcInv
    <3> QED BY <2>1, <3>1 DEF vars, keyVars, Shape, Progress, Enciphering, Deciphering,
             OnWire, Whole, Sealed, Before
  <2> QED BY <1>4, <2>1, StartEncStep, EncBlockStep, EndEncStep, StartDecStep,
             DecBlockStep, EndDecStep DEF Next
<1> QED BY <1>1, <1>2, <1>3, <1>4 DEF CbcInv, Keyed

\* Whatever the length of a chat message, its initial vector, the boxes of the
\* cipher and the keys of the two processes: if they have the same key, what is
\* read after bfish_cbc_encrypt and bfish_cbc_decrypt is what was typed.
THEOREM CbcRoundTrip == Spec => []RoundTrip
<1>1. CbcInv /\ [Next]_vars => CbcInv'
  BY NextCbc
<1>2. CbcInv => RoundTrip
  BY DEF CbcInv, Progress, RoundTrip
<1> QED BY <1>1, <1>2, InitCbc, PTL DEF Spec
=============================================================================
