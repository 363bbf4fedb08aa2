-------------------------------- MODULE Cbc --------------------------------
(***************************************************************************)
(* A chat message under encryption, from chat_crypto_encrypt in one chat   *)
(* process to chat_crypto_decrypt in another: bfish_cbc_encrypt and        *)
(* bfish_cbc_decrypt, which chain the blocks and end with "ciphertext      *)
(* stealing" when the last one is short, as it always is in a chat message *)
(* (79 bytes).  A step is one turn of a loop of the two routines.          *)
(*                                                                         *)
(* The string is its full blocks and the tail that is left.                *)
(***************************************************************************)
EXTENDS Blowfish

CONSTANTS
  Text,   \* strings that are sent
  IV,     \* initial vectors that may be drawn
  Key,    \* keys that users type
  Junk,   \* what malloc may leave in the P box of a new key
  NoKey

Offset == 1 .. 8
String == [full : Seq(Block), tail : {t \in Seq(Byte) : Len(t) < 8}]

ASSUME CbcAssumption ==
  /\ Text \subseteq String
  /\ IV \subseteq Block
  /\ Key \subseteq Seq(Byte) /\ NoKey \notin Key
  /\ Junk \subseteq [PIndex -> Word]

VARIABLES
  pc,      \* where the message is
  k,       \* full blocks done
  full,    \* the string, which is overwritten block by block
  tail,
  iv,      \* the initial vector in its header
  from,    \* keys of the two processes and what bfish_keyinit made of them
  to,
  last,    \* fedbk[0] and [1]: the block before, as it was received
  second,  \* fedbk[4] and [5]: the block before the last full one
  plain,   \* history: the string before and after encryption
  wire

keyVars == <<from, to>>
vars == <<pc, k, full, tail, iv, keyVars, last, second, plain, wire>>

N == Len(full)
T == Len(tail)

\* a ^ b of two blocks.
Mask(a, b) ==
  Bytes([l |-> Xor(Halves(a).l, Halves(b).l), r |-> Xor(Halves(a).r, Halves(b).r)])

\* A short last block, filled up.
Padded(t) == [i \in Offset |-> IF i <= Len(t) THEN t[i] ELSE {}]
First(b, t) == [i \in 1 .. t |-> b[i]]
Zero == [i \in Offset |-> {}]

\* A chat process after chat_crypto_set_key, or without a key.
Process(key, junk) ==
  [key |-> key, bk |-> IF key = NoKey THEN NoKey ELSE KeyInit(junk, key)]
Processes == {Process(key, junk) : key \in Key \cup {NoKey}, junk \in Junk}

Init ==
  /\ \E x \in Text : full = x.full /\ tail = x.tail /\ plain = x
  /\ from \in Processes /\ to \in Processes
  /\ pc = "typed" /\ k = 0
  /\ iv \in IV
  /\ last = Zero /\ second = Zero /\ wire = plain
-----------------------------------------------------------------------------
(* chat_crypto_encrypt and bfish_cbc_encrypt.                              *)

\* Without a key, or with less than a block, the string is left as it is.
StartEnc ==
  /\ pc = "typed"
  /\ pc' = IF from.key = NoKey \/ N = 0 THEN "air" ELSE "enc"
  /\ UNCHANGED <<k, full, tail, iv, keyVars, last, second, plain, wire>>

EncBlock ==
  /\ pc = "enc" /\ k < N
  /\ full' = [full EXCEPT
                ![k + 1] = Enc(from.bk, Mask(@, IF k = 0 THEN iv ELSE full[k]))]
  /\ k' = k + 1
  /\ UNCHANGED <<pc, tail, iv, keyVars, last, second, plain, wire>>

\* Mutant: the tail takes the place of the last full block.
StealSwapped ==
  /\ pc = "enc" /\ k = N
  /\ full' = IF T = 0 THEN full ELSE
               [full EXCEPT ![N] = Enc(from.bk, Mask(Padded(tail), @))]
  /\ tail' = First(full'[N], T)
  /\ wire' = [full |-> full', tail |-> tail']
  /\ pc' = "air" /\ k' = 0
  /\ UNCHANGED <<iv, keyVars, last, second, plain>>

\* The tail is filled up with zeros and encrypted in the place of the last
\* full block, whose first bytes become the tail.
EndEnc ==
  /\ pc = "enc" /\ k = N
  /\ full' = IF T = 0 THEN full ELSE
               [full EXCEPT ![N] = Enc(from.bk, Mask(Padded(tail), @))]
  /\ tail' = First(full[N], T)
  /\ wire' = [full |-> full', tail |-> tail']
  /\ pc' = "air" /\ k' = 0
  /\ UNCHANGED <<iv, keyVars, last, second, plain>>
-----------------------------------------------------------------------------
(* chat_crypto_decrypt and bfish_cbc_decrypt.                              *)

\* A process without a key drops what it receives.  Otherwise the block that
\* the last full one was chained to is kept for the end.
StartDec ==
  /\ pc = "air"
  /\ pc' = IF to.key = NoKey THEN "dropped" ELSE IF N = 0 THEN "read" ELSE "dec"
  /\ second' = IF T = 0 \/ N = 0 THEN second ELSE IF N >= 2 THEN full[N - 1] ELSE iv
  /\ UNCHANGED <<k, full, tail, iv, keyVars, last, plain, wire>>

DecBlock ==
  /\ pc = "dec" /\ k < N
  /\ last' = full[k + 1]
  /\ full' = [full EXCEPT
                ![k + 1] = Mask(Dec(to.bk, @), IF k = 0 THEN iv ELSE last)]
  /\ k' = k + 1
  /\ UNCHANGED <<pc, tail, iv, keyVars, second, plain, wire>>

\* The last block, decrypted, has the tail under the stolen bytes and the rest
\* of the block they were stolen from.
EndDec ==
  LET opened == Mask(Dec(to.bk, last), Padded(tail))
      stolen == [i \in Offset |-> IF i <= T THEN tail[i] ELSE opened[i]]
  IN  /\ pc = "dec" /\ k = N
      /\ full' = IF T = 0 THEN full ELSE
                   [full EXCEPT ![N] = Mask(Dec(to.bk, stolen), second)]
      /\ tail' = First(opened, T)
      /\ pc' = "read"
      /\ UNCHANGED <<k, iv, keyVars, last, second, plain, wire>>

Next == StartEnc \/ EncBlock \/ EndEnc \/ StartDec \/ DecBlock \/ EndDec

Spec == Init /\ [][Next]_vars
-----------------------------------------------------------------------------
\* What Blowfish promises of a block: two processes with the same key have the
\* same cipher, whatever memory their boxes were made in, and the one decrypts
\* a block that the other encrypted.
Undone ==
  \A p, q \in Processes : p.key = q.key /\ p.key # NoKey =>
    \A b \in Block : LET c == Enc(p.bk, b) IN c \in Block /\ Dec(q.bk, c) = b

\* What a process reads is what was sent to it with its key, byte for byte,
\* for every length: chaining, padding and stealing are undone.
RoundTrip ==
  pc = "read" /\ from.key = to.key => full = plain.full /\ tail = plain.tail
=============================================================================
