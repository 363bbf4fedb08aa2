------------------------------- MODULE MsgBuf -------------------------------
(***************************************************************************)
(* The message buffer of msgbuf.c as a value: the sequence of the messages *)
(* a chat process remembers, oldest first, each with the number of times   *)
(* it has been seen.  The operators are the msgbuf_* routines as functions *)
(* from a buffer to a buffer or to the number they return; the modules     *)
(* that own a buffer call them.  A message is its identifier (struct       *)
(* msgid): msgcmp compares nothing else.                                   *)
(*                                                                         *)
(* The doubly linked list that stores the buffer is module LinkedList.     *)
(***************************************************************************)
EXTENDS Naturals, Sequences

CONSTANTS
  MAXMSGS,  \* capacity of the buffer (1000 in msgbuf.c)
  SeenCap   \* counts saturate here; the code compares them with 1 and 2 and
            \* with the forwarding thresholds only, all below the cap

ASSUME MsgBufAssumption ==
  /\ MAXMSGS \in Nat /\ MAXMSGS >= 1
  /\ SeenCap \in Nat /\ SeenCap >= 3

Entries(M) == [id : M, count : 1 .. SeenCap]

Holds(b, m) == \E i \in 1 .. Len(b) : b[i].id = m

\* linkedlist_exists returns the first entry that compares equal.
Where(b, m) ==
  CHOOSE i \in 1 .. Len(b) :
    /\ b[i].id = m
    /\ \A j \in 1 .. i - 1 : b[j].id # m

\* How often m was seen, 0 when it is not in the buffer.
Exist(b, m) == IF Holds(b, m) THEN b[Where(b, m)].count ELSE 0

\* mb->count + 1
Increment(c) == IF c < SeenCap THEN c + 1 ELSE c

Bumped(b, m) == [b EXCEPT ![Where(b, m)].count = Increment(@)]

\* Mutant: the limit is compared with >= MAXMSGS + 1 entries too late.
AppendedLate(b, m, c) ==
  LET a == Append(b, [id |-> m, count |-> c])
  IN  IF Len(a) > MAXMSGS + 1 THEN Tail(a) ELSE a

\* The oldest message makes room when the buffer is full.
Appended(b, m, c) ==
  LET a == Append(b, [id |-> m, count |-> c])
  IN  IF Len(a) > MAXMSGS THEN Tail(a) ELSE a

\* Mutant: the buffer is not searched, every copy is a new message.
AddedBlindly(b, m) == Appended(b, m, 1)

Added(b, m) == IF Holds(b, m) THEN Bumped(b, m) ELSE Appended(b, m, 1)

Cut(b, i) == [j \in 1 .. Len(b) - 1 |-> IF j < i THEN b[j] ELSE b[j + 1]]

Deleted(b, m) == IF Holds(b, m) THEN Cut(b, Where(b, m)) ELSE b

\* What adding m pushes out of the buffer: at most the oldest message.
Evicted(b, m) ==
  IF Holds(b, m) \/ Len(b) < MAXMSGS THEN {} ELSE {b[1].id}

\* No message is in the buffer twice.
Distinct(b) == \A i, j \in 1 .. Len(b) : b[i].id = b[j].id => i = j
=============================================================================
