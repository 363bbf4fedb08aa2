----------------------------- MODULE SyncProofs -----------------------------
(***************************************************************************)
(* The buffer and the list of neighbours during a synchronisation, for any *)
(* neighbours, messages and sizes.  Two threads search the buffer and      *)
(* append to it, each in two steps: the invariant counts what is in it     *)
(* together with what a thread has found missing and is about to append.   *)
(* Of the list, what counts is how many addresses are in front of one: it  *)
(* does not depend on where the array is being sorted, and only grows.     *)
(***************************************************************************)
EXTENDS Sync, MsgBufProofs, FiniteSetTheorems, NaturalsInduction

(* What an operation does to the copies of a message.                      *)

Once(b, m) ==
  \A j, k \in 1 .. Len(b) : b[j].id = m /\ b[k].id = m => j = k

Twice(b, m) ==
  \A j, k, l \in 1 .. Len(b) :
    b[j].id = m /\ b[k].id = m /\ b[l].id = m => j = k \/ j = l \/ k = l

\* An entry is added at the end, and the first one dropped or not.
LEMMA AppendedIs ==
  ASSUME NEW b \in Seq(Entries(Msg)), Len(b) <= MAXMSGS, NEW m \in Msg, NEW c \in 1 .. 2
  PROVE  \E s \in {0, 1} :
           LET a == Appended(b, m, c)
           IN  /\ a \in Seq(Entries(Msg)) /\ Len(a) = Len(b) + 1 - s
               /\ Len(a) >= 1 /\ Len(a) <= MAXMSGS /\ a[Len(a)].id = m
               /\ \A n \in 1 .. Len(a) - 1 : n + s \in 1 .. Len(b) /\ a[n] = b[n + s]
               /\ Evicted(b, Idle) = IF s = 1 THEN {b[1].id} ELSE {}
<1> DEFINE e == [id |-> m, count |-> c]
           a == Append(b, e)
           s == IF Len(b) < MAXMSGS THEN 0 ELSE 1
<1>1. Len(b) \in Nat /\ e \in Entries(Msg)
  BY LenProperties, MsgBufAssumption DEF Entries
<1>2. /\ a \in Seq(Entries(Msg)) /\ a # <<>> /\ Len(a) = Len(b) + 1
      /\ \A n \in 1 .. Len(b) : a[n] = b[n]
      /\ a[Len(b) + 1] = e
  BY <1>1, AppendProperties
<1>3. Appended(b, m, c) = IF Len(a) > MAXMSGS THEN Tail(a) ELSE a
  BY DEF Appended
<1>4. e.id = m
  OBVIOUS
<1> HIDE DEF a, e
<1>5. /\ Tail(a) \in Seq(Entries(Msg)) /\ Len(Tail(a)) = Len(b)
      /\ \A n \in 1 .. Len(b) : Tail(a)[n] = a[n + 1]
  BY <1>1, <1>2, HeadTailProperties
<1>6. ~ Holds(b, Idle)
  <2>1. \A n \in 1 .. Len(b) : b[n].id \in Msg
    <3>1. \A n \in 1 .. Len(b) : b[n] \in Entries(Msg)
      BY ElementOfSeq
    <3> QED BY <3>1 DEF Entries
  <2> QED BY <2>1, SyncAssumption DEF Holds
<1>7. Evicted(b, Idle) = IF s = 1 THEN {b[1].id} ELSE {}
  BY <1>6 DEF Evicted
<1>8. CASE Len(b) < MAXMSGS
  <2>1. Appended(b, m, c) = a /\ s = 0
    BY <1>1, <1>2, <1>3, <1>8, MsgBufAssumption
  <2>2. \A n \in 1 .. Len(a) - 1 : n + 0 \in 1 .. Len(b) /\ a[n] = b[n + 0]
    BY <1>1, <1>2
  <2> QED BY <1>1, <1>2, <1>4, <1>7, <1>8, <2>1, <2>2, MsgBufAssumption
<1>9. CASE Len(b) = MAXMSGS
  <2>1. Appended(b, m, c) = Tail(a) /\ s = 1
    BY <1>1, <1>2, <1>3, <1>9, MsgBufAssumption
  <2>2. Len(b) \in 1 .. Len(b)
    BY <1>1, <1>9, MsgBufAssumption
  <2>3. Tail(a)[Len(b)] = e
    BY <1>2, <1>5, <2>2
  <2>4. \A n \in 1 .. Len(Tail(a)) - 1 : n + 1 \in 1 .. Len(b) /\ Tail(a)[n] = b[n + 1]
    BY <1>1, <1>2, <1>5
  <2> QED BY <1>1, <1>4, <1>5, <1>7, <1>9, <2>1, <2>2, <2>3, <2>4, MsgBufAssumption
<1> QED BY <1>1, <1>8, <1>9, MsgBufAssumption

\* What this means for the copies of a message, from b to a.
After(b, m, a) ==
  /\ a \in Seq(Entries(Msg)) /\ Len(a) <= MAXMSGS
  /\ Holds(a, m)
  /\ \A k \in Msg : Holds(b, k) /\ k \notin Evicted(b, Idle) => Holds(a, k)
  /\ ~ Holds(b, m) => Once(a, m)
  /\ Once(b, m) => Twice(a, m)
  /\ \A k \in Msg \ {m} :
       /\ ~ Holds(b, k) => ~ Holds(a, k)
       /\ Once(b, k) => Once(a, k)
       /\ Twice(b, k) => Twice(a, k)

LEMMA AppendedCopies ==
  ASSUME NEW b \in Seq(Entries(Msg)), Len(b) <= MAXMSGS, NEW m \in Msg, NEW c \in 1 .. 2
  PROVE  After(b, m, Appended(b, m, c))
<1> DEFINE a == Appended(b, m, c)
<1>1. PICK s \in {0, 1} :
        /\ a \in Seq(Entries(Msg)) /\ Len(a) = Len(b) + 1 - s
        /\ Len(a) >= 1 /\ Len(a) <= MAXMSGS /\ a[Len(a)].id = m
        /\ \A n \in 1 .. Len(a) - 1 : n + s \in 1 .. Len(b) /\ a[n] = b[n + s]
        /\ Evicted(b, Idle) = IF s = 1 THEN {b[1].id} ELSE {}
  BY AppendedIs
<1> HIDE DEF a
<1>2. Len(a) \in Nat /\ Len(b) \in Nat /\ Len(a) \in 1 .. Len(a)
  BY <1>1, LenProperties
<1>3. \A n \in 1 .. Len(a) : n = Len(a) \/ n \in 1 .. Len(a) - 1
  BY <1>2
<1>4. Holds(a, m)
  BY <1>1, <1>2 DEF Holds
<1>5. ASSUME NEW k \in Msg, Holds(b, k), k \notin Evicted(b, Idle) PROVE Holds(a, k)
  <2>1. PICK n \in 1 .. Len(b) : b[n].id = k
    BY <1>5 DEF Holds
  <2>2. n - s \in 1 .. Len(a) - 1 /\ (n - s) + s = n
    <3>1. CASE s = 0
      BY <1>1, <1>2, <3>1
    <3>2. CASE s = 1
      <4>1. n # 1
        BY <1>1, <1>5, <2>1, <3>2
      <4> QED BY <1>1, <1>2, <3>2, <4>1
    <3> QED BY <3>1, <3>2
  <2>3. a[n - s].id = k /\ n - s \in 1 .. Len(a)
    BY <1>1, <1>2, <2>1, <2>2
  <2> QED BY <2>3 DEF Holds
<1>6. ASSUME ~ Holds(b, m) PROVE Once(a, m)
  <2>1. \A n \in 1 .. Len(a) - 1 : a[n].id # m
    BY <1>1, <1>6 DEF Holds
  <2> QED BY <1>3, <2>1 DEF Once
<1>7. ASSUME Once(b, m) PROVE Twice(a, m)
  <2>1. \A n, j \in 1 .. Len(a) - 1 : a[n].id = m /\ a[j].id = m => n = j
    <3>1. TAKE n, j \in 1 .. Len(a) - 1
    <3>2. n + s \in 1 .. Len(b) /\ j + s \in 1 .. Len(b) /\ a[n] = b[n + s] /\ a[j] = b[j + s]
      BY <1>1
    <3>3. a[n].id = m /\ a[j].id = m => n + s = j + s
      BY <1>7, <3>2 DEF Once
    <3> QED BY <1>2, <3>3
  <2> QED BY <1>3, <2>1 DEF Twice
<1>8. ASSUME NEW k \in Msg \ {m}
      PROVE  /\ ~ Holds(b, k) => ~ Holds(a, k)
             /\ Once(b, k) => Once(a, k)
             /\ Twice(b, k) => Twice(a, k)
  <2>1. \A n \in 1 .. Len(a) : a[n].id = k =>
          n \in Nat /\ n + s \in 1 .. Len(b) /\ b[n + s].id = k
    BY <1>1, <1>2, <1>3
  <2>2. ~ Holds(b, k) => ~ Holds(a, k)
    BY <2>1 DEF Holds
  <2>3. Once(b, k) => Once(a, k)
    <3> SUFFICES ASSUME Once(b, k), NEW n \in 1 .. Len(a), NEW j \in 1 .. Len(a),
                        a[n].id = k, a[j].id = k
                 PROVE  n = j
      BY DEF Once
    <3>1. n + s = j + s
      BY <2>1 DEF Once
    <3>2. n \in Nat /\ j \in Nat
      BY <2>1
    <3> QED BY <1>2, <3>1, <3>2
  <2>4. Twice(b, k) => Twice(a, k)
    <3> SUFFICES ASSUME Twice(b, k),
                        NEW n \in 1 .. Len(a), NEW j \in 1 .. Len(a), NEW l \in 1 .. Len(a),
                        a[n].id = k, a[j].id = k, a[l].id = k
                 PROVE  n = j \/ n = l \/ j = l
      BY DEF Twice
    <3>1. n \in Nat /\ j \in Nat /\ l \in Nat
      BY <2>1
    <3>2. CASE n + s = j + s
      BY <1>2, <3>1, <3>2
    <3>3. CASE n + s = l + s
      BY <1>2, <3>1, <3>3
    <3>4. CASE j + s = l + s
      BY <1>2, <3>1, <3>4
    <3> QED BY <2>1, <3>2, <3>3, <3>4 DEF Twice
  <2> QED BY <2>2, <2>3, <2>4
<1>9. After(b, m, a)
  BY <1>1, <1>4, <1>5, <1>6, <1>7, <1>8 DEF After
<1> QED BY <1>9 DEF a

\* Counting a copy moves nothing, whichever of two entries the search finds.
LEMMA BumpedCopies ==
  ASSUME NEW b \in Seq(Entries(Msg)), NEW m
  PROVE  /\ Bumped(b, m) \in Seq(Entries(Msg)) /\ Len(Bumped(b, m)) = Len(b)
         /\ \A n \in 1 .. Len(b) : Bumped(b, m)[n].id = b[n].id
<1> DEFINE w == Where(b, m)
           a == Bumped(b, m)
<1>1. b \in [1 .. Len(b) -> Entries(Msg)] /\ Len(b) \in Nat
  BY LenProperties
<1>2. a = [b EXCEPT ![w].count = Increment(@)]
  BY DEF Bumped
<1> HIDE DEF a, w
<1>3. CASE w \in 1 .. Len(b)
  <2>1. b[w] = [id |-> b[w].id, count |-> b[w].count] /\ b[w].id \in Msg
        /\ Increment(b[w].count) \in 1 .. SeenCap
    BY <1>1, <1>3, IncrementType DEF Entries
  <2>2. a \in [1 .. Len(b) -> Entries(Msg)]
    BY <1>1, <1>2, <1>3, <2>1 DEF Entries
  <2>3. \A n \in 1 .. Len(b) : a[n].id = b[n].id
    BY <1>1, <1>2, <1>3, <2>1
  <2>4. a \in Seq(Entries(Msg)) /\ Len(a) = Len(b)
    BY <1>1, <2>2
  <2> QED BY <2>3, <2>4 DEF a
<1>4. CASE w \notin 1 .. Len(b)
  <2>1. a = b
    BY <1>1, <1>2, <1>4
  <2> QED BY <2>1 DEF a
<1> QED BY <1>3, <1>4
-----------------------------------------------------------------------------
(* The invariant.                                                          *)

\* Found missing, and about to be appended.
ByReader(m) == rd = m
ByThread(m) == pc = "append" /\ msg = m

Types ==
  /\ buf \in Seq(Entries(Msg)) /\ Len(buf) <= MAXMSGS
  /\ rd \in Msg \cup {Idle} /\ (pc = "append" => msg \in Msg)
  /\ left \in Seq(Msg) /\ due \subseteq Msg

\* In the buffer and on the way there, no message is more than twice.
Copies ==
  \A m \in Msg :
    /\ ByReader(m) /\ ByThread(m) => ~ Holds(buf, m)
    /\ ByReader(m) \/ ByThread(m) => Once(buf, m)
    /\ Twice(buf, m)

\* What was written in full is in the buffer or on the way there.
Arrives == \A m \in due : Holds(buf, m) \/ ByThread(m)

SyncInv == Types /\ Copies /\ Arrives

LEMMA FewCopies ==
  ASSUME NEW b, NEW m
  PROVE  /\ ~ Holds(b, m) => Once(b, m)
         /\ Once(b, m) => Twice(b, m)
BY DEF Holds, Once, Twice

LEMMA InitSync == Init => SyncInv
<1> SUFFICES ASSUME Init PROVE SyncInv
  OBVIOUS
<1>1. Len(buf) <= 1 /\ buf \in Seq(Entries(Msg))
  <2>1. \A c \in 1 .. 2 : [id |-> Hello, count |-> c] \in Entries(Msg)
    BY SyncAssumption, MsgBufAssumption DEF Entries
  <2>2. \A e \in Entries(Msg) : <<e>> \in Seq(Entries(Msg)) /\ Len(<<e>>) = 1
    OBVIOUS
  <2>3. <<>> \in Seq(Entries(Msg)) /\ Len(<<>>) = 0
    OBVIOUS
  <2>4. buf = <<>> \/ \E c \in 1 .. 2 : buf = <<[id |-> Hello, count |-> c]>>
    BY DEF Init
  <2>5. CASE buf = <<>>
    BY <2>3, <2>5
  <2>6. ASSUME NEW c \in 1 .. 2, buf = <<[id |-> Hello, count |-> c]>>
        PROVE  Len(buf) <= 1 /\ buf \in Seq(Entries(Msg))
    <3>1. Len(buf) = 1 /\ buf \in Seq(Entries(Msg))
      BY <2>1, <2>2, <2>6
    <3> QED BY <3>1
  <2> QED BY <2>4, <2>5, <2>6
<1>2. Len(buf) \in Nat
  BY <1>1, LenProperties
<1>3. \A m : Once(buf, m)
  BY <1>1, <1>2 DEF Once
<1>4. \A m \in Msg : ~ ByReader(m) /\ ~ ByThread(m)
  BY SyncAssumption DEF Init, ByReader, ByThread
<1>5. Types
  BY <1>1, <1>2, MsgBufAssumption DEF Init, Types
<1> QED BY <1>3, <1>4, <1>5, FewCopies DEF Init, SyncInv, Copies, Arrives

\* Steps that leave the buffer and what is on the way alone.
LEMMA OthersKeep ==
  ASSUME SyncInv, UNCHANGED <<buf, rd>>, due' \subseteq due, left' \in Seq(Msg),
         \/ pc' # "append" /\ (pc = "append" => msg \notin due')
         \/ UNCHANGED <<pc, msg>>
  PROVE  SyncInv'
<1>1. \A m \in Msg : /\ Holds(buf', m) <=> Holds(buf, m)
                     /\ Once(buf', m) <=> Once(buf, m)
                     /\ Twice(buf', m) <=> Twice(buf, m)
                     /\ ByReader(m)' <=> ByReader(m)
                     /\ ByThread(m)' => ByThread(m)
                     /\ m \in due' /\ ByThread(m) => ByThread(m)'
  BY DEF ByReader, ByThread
<1>2. Types'
  BY DEF SyncInv, Types
<1>3. Copies'
  BY <1>1 DEF SyncInv, Copies
<1>4. Arrives'
  BY <1>1, <1>2 DEF SyncInv, Arrives, Types
<1> QED BY <1>2, <1>3, <1>4 DEF SyncInv

\* With the same identifiers in the same places nothing is more or less often.
LEMMA SameCopies ==
  ASSUME NEW a, NEW b, NEW k, Len(a) = Len(b), \A n \in 1 .. Len(b) : a[n].id = b[n].id
  PROVE  /\ Holds(a, k) <=> Holds(b, k)
         /\ Once(b, k) => Once(a, k)
         /\ Twice(b, k) => Twice(a, k)
<1> DEFINE N == 1 .. Len(b)
<1>1. Holds(a, k) <=> Holds(b, k)
  BY DEF Holds
<1>2. 1 .. Len(a) = N /\ \A n \in N : a[n].id = b[n].id
  OBVIOUS
<1>3. Once(b, k) => Once(a, k)
  <2>1. Once(b, k) => \A j, l \in N : b[j].id = k /\ b[l].id = k => j = l
    BY DEF Once
  <2> HIDE DEF N
  <2> QED BY <1>2, <2>1 DEF Once
<1>4. Twice(b, k) => Twice(a, k)
  <2> SUFFICES ASSUME Twice(b, k), NEW n \in N, NEW j \in N, NEW l \in N,
                      a[n].id = k, a[j].id = k, a[l].id = k
               PROVE  n = j \/ n = l \/ j = l
    BY <1>2 DEF Twice
  <2>1. b[n].id = k /\ b[j].id = k /\ b[l].id = k
    BY <1>2
  <2> QED BY <2>1 DEF Twice
<1> QED BY <1>1, <1>3, <1>4

LEMMA FindKeeps ==
  ASSUME SyncInv, NEW m \in Msg, Find(m)
  PROVE  SyncInv'
<1>1. CASE Holds(buf, m)
  <2>1. buf' = Bumped(buf, m) /\ UNCHANGED <<rd, pc, msg, left, due>>
    BY <1>1 DEF Find, connVars
  <2>2. /\ buf' \in Seq(Entries(Msg)) /\ Len(buf') = Len(buf)
        /\ \A n \in 1 .. Len(buf) : buf'[n].id = buf[n].id
    BY <2>1, BumpedCopies DEF SyncInv, Types
  <2>3. \A k : /\ Holds(buf', k) <=> Holds(buf, k)
               /\ Once(buf, k) => Once(buf', k)
               /\ Twice(buf, k) => Twice(buf', k)
    BY <2>2, SameCopies
  <2>4. Types'
    BY <2>1, <2>2 DEF SyncInv, Types
  <2>5. Copies'
    <3>1. Copies
      BY DEF SyncInv
    <3> QED BY <2>1, <2>3, <3>1 DEF Copies, ByReader, ByThread
  <2>6. Arrives'
    BY <2>1, <2>3 DEF SyncInv, Arrives, ByThread
  <2> QED BY <2>4, <2>5, <2>6 DEF SyncInv
<1>2. CASE ~ Holds(buf, m)
  <2>1. rd' = m /\ UNCHANGED <<buf, pc, msg, left, due>>
    BY <1>2 DEF Find, connVars
  <2>2. Types'
    BY <2>1 DEF SyncInv, Types
  <2>3. Copies'
    BY <1>2, <2>1, FewCopies DEF SyncInv, Copies, ByReader, ByThread
  <2> QED BY <2>1, <2>2, <2>3 DEF SyncInv, Arrives, ByThread
<1> QED BY <1>1, <1>2

LEMMA ReadKeeps ==
  ASSUME SyncInv, Read
  PROVE  SyncInv'
<1> DEFINE m == Head(left)
<1>1. m \in Msg /\ left' \in Seq(Msg)
  BY HeadTailProperties DEF Read, SyncInv, Types
<1>2. /\ pc = "read" /\ UNCHANGED <<buf, rd>> /\ due' = due \cup {m}
      /\ IF Holds(buf, m) THEN UNCHANGED <<pc, msg>> ELSE pc' = "append" /\ msg' = m
  BY DEF Read, bufVars
<1> HIDE DEF m
<1>3. Types'
  BY <1>1, <1>2 DEF SyncInv, Types
<1>4. Copies'
  BY <1>1, <1>2, FewCopies DEF SyncInv, Copies, ByReader, ByThread
<1>5. Arrives'
  BY <1>1, <1>2 DEF SyncInv, Arrives, ByThread
<1> QED BY <1>3, <1>4, <1>5 DEF SyncInv

LEMMA AppendLiveKeeps ==
  ASSUME SyncInv, AppendLive
  PROVE  SyncInv'
<1>1. /\ rd \in Msg /\ rd' = Idle /\ buf' = Appended(buf, rd, 1)
      /\ due' = due \ Evicted(buf, Idle) /\ UNCHANGED <<pc, msg, left>>
  BY DEF AppendLive, SyncInv, Types
<1>2. After(buf, rd, buf')
  <2>1. buf \in Seq(Entries(Msg)) /\ Len(buf) <= MAXMSGS /\ 1 \in 1 .. 2 /\ 2 \in 1 .. 2
    BY DEF SyncInv, Types
  <2> QED BY <1>1, <2>1, AppendedCopies
<1>3. Types'
  BY <1>1, <1>2 DEF SyncInv, Types, After
<1>4. Copies'
  BY <1>1, <1>2, SyncAssumption DEF SyncInv, Copies, After, ByReader, ByThread
<1>5. Arrives'
  BY <1>1, <1>2 DEF SyncInv, Types, Arrives, ByThread, After
<1> QED BY <1>3, <1>4, <1>5 DEF SyncInv

LEMMA AppendSyncedKeeps ==
  ASSUME SyncInv, AppendSynced
  PROVE  SyncInv'
<1>1. /\ pc = "append" /\ pc' = "read" /\ msg \in Msg /\ buf' = Appended(buf, msg, 2)
      /\ due' = due \ Evicted(buf, Idle) /\ UNCHANGED <<rd, left>>
  BY DEF AppendSynced, SyncInv, Types
<1>2. After(buf, msg, buf')
  <2>1. buf \in Seq(Entries(Msg)) /\ Len(buf) <= MAXMSGS /\ 1 \in 1 .. 2 /\ 2 \in 1 .. 2
    BY DEF SyncInv, Types
  <2> QED BY <1>1, <2>1, AppendedCopies
<1>3. Types'
  BY <1>1, <1>2 DEF SyncInv, Types, After
<1>4. Copies'
  BY <1>1, <1>2 DEF SyncInv, Copies, After, ByReader, ByThread
<1>5. Arrives'
  BY <1>1, <1>2 DEF SyncInv, Types, Arrives, ByThread, After
<1> QED BY <1>3, <1>4, <1>5 DEF SyncInv

LEMMA SyncStep == SyncInv /\ [Next]_vars => SyncInv'
<1> SUFFICES ASSUME SyncInv, [Next]_vars PROVE SyncInv'
  OBVIOUS
<1>1. left \in Seq(Msg) /\ <<>> \in Seq(Msg)
  BY DEF SyncInv, Types
<1>2. CASE Move \/ Sort \/ Count \/ Leave \/ \E p \in Peer : Hear(p)
  BY <1>1, <1>2, OthersKeep DEF Move, Sort, Count, Leave, Hear, bufVars, connVars
<1>3. CASE Begin \/ Look \/ Refused
  BY <1>1, <1>3, OthersKeep DEF Begin, Look, Refused, NextIp, bufVars, connVars
<1>4. CASE Connected
  <2>1. left' \in Seq(Msg)
    BY <1>4, SyncAssumption DEF Connected
  <2> QED BY <1>4, <2>1, OthersKeep DEF Connected, bufVars
<1>5. CASE NoMemory \/ Eof
  <2>1. /\ left' = <<>> /\ UNCHANGED <<buf, rd>> /\ due' \subseteq due
        /\ pc' \in {"done", "look"} /\ (pc = "append" => msg \notin due')
    BY <1>5 DEF NoMemory, Eof, Over, NextIp, bufVars
  <2> QED BY <1>1, <2>1, OthersKeep
<1>6. CASE UNCHANGED vars
  BY <1>1, <1>6, OthersKeep DEF vars, bufVars, connVars
<1> QED BY <1>2, <1>3, <1>4, <1>5, <1>6, FindKeeps, ReadKeeps, AppendLiveKeeps,
           AppendSyncedKeeps DEF Next, Thread, Reader

-----------------------------------------------------------------------------
(* The sorted list of neighbours.                                          *)

NoDup(s) == \A j, k \in 1 .. Len(s) : s[j] = s[k] => j = k
Ascending(s) == \A j, k \in 1 .. Len(s) : j < k => s[j] < s[k]

\* How many addresses of S are smaller than p.
Rank(S, p) == Cardinality({q \in S : q < p})

LEMMA LeastNat ==
  ASSUME NEW T, T \subseteq Nat, T # {}
  PROVE  \E n \in T : \A m \in T : n <= m
<1>1. PICK n \in T : \A m \in T : ~ (<<m, n>> \in OpToRel(<, Nat))
  BY NatLessThanWellFounded, WFMin
<1>2. \A m \in T : ~ (m < n)
  BY <1>1 DEF OpToRel
<1> QED BY <1>2

LEMMA ElementsOf ==
  ASSUME NEW S, NEW s \in Seq(S)
  PROVE  /\ Len(s) \in Nat /\ ToSet(s) = {s[k] : k \in 1 .. Len(s)}
         /\ \A k \in 1 .. Len(s) : s[k] \in S /\ s[k] \in ToSet(s)
         /\ ToSet(s) \subseteq S
<1>1. Len(s) \in Nat /\ DOMAIN s = 1 .. Len(s) /\ \A k \in 1 .. Len(s) : s[k] \in S
  BY LenProperties, ElementOfSeq
<1> QED BY <1>1 DEF ToSet

LEMMA PlacesAre ==
  ASSUME NEW n \in Nat
  PROVE  IsFiniteSet(1 .. n) /\ Cardinality(1 .. n) = n
<1>1. IsFiniteSet(1 .. n) /\ Cardinality(1 .. n) = IF 1 > n THEN 0 ELSE n - 1 + 1
  BY FS_Interval
<1> QED BY <1>1

\* A list without repetitions has as many elements as places.
LEMMA SizeIs ==
  ASSUME NEW s \in Seq(Nat), NoDup(s)
  PROVE  IsFiniteSet(ToSet(s)) /\ Cardinality(ToSet(s)) = Len(s)
<1>1. Len(s) \in Nat /\ s \in [1 .. Len(s) -> Nat] /\ ToSet(s) = {s[k] : k \in 1 .. Len(s)}
  BY ElementsOf, LenProperties
<1>2. s \in Bijection(1 .. Len(s), ToSet(s))
  BY <1>1 DEF NoDup, Bijection, Injection, Surjection, IsInjective
<1>3. IsFiniteSet(1 .. Len(s)) /\ Cardinality(1 .. Len(s)) = Len(s)
  BY <1>1, PlacesAre
<1> QED BY <1>2, <1>3, FS_Bijection DEF ExistsBijection

\* The place of an address in an ascending list is one more than its rank.
LEMMA RankIs ==
  ASSUME NEW s \in Seq(Nat), Ascending(s), NEW k \in 1 .. Len(s)
  PROVE  Rank(ToSet(s), s[k]) = k - 1
<1> DEFINE T == {q \in ToSet(s) : q < s[k]}
           f == [j \in 1 .. k - 1 |-> s[j]]
<1>1. /\ Len(s) \in Nat /\ ToSet(s) = {s[j] : j \in 1 .. Len(s)}
      /\ \A j \in 1 .. Len(s) : s[j] \in Nat
  BY ElementsOf
<1>2. \A j \in 1 .. k - 1 : j \in 1 .. Len(s) /\ j < k /\ s[j] < s[k] /\ s[j] \in T
  BY <1>1 DEF Ascending
<1>3. f \in [1 .. k - 1 -> T]
  BY <1>2
<1>4. \A a, b \in 1 .. k - 1 : f[a] = f[b] => a = b
  BY <1>1, <1>2 DEF Ascending
<1>5. \A t \in T : \E j \in 1 .. k - 1 : f[j] = t
  <2> SUFFICES ASSUME NEW j \in 1 .. Len(s), s[j] < s[k] PROVE j \in 1 .. k - 1
    BY <1>1
  <2> QED BY <1>1 DEF Ascending
<1>6. f \in Bijection(1 .. k - 1, T)
  BY <1>3, <1>4, <1>5 DEF Bijection, Injection, Surjection, IsInjective
<1>7. IsFiniteSet(1 .. k - 1) /\ Cardinality(1 .. k - 1) = k - 1
  BY FS_Interval
<1> HIDE DEF T, f
<1>8. Cardinality(T) = k - 1
  BY <1>6, <1>7, FS_Bijection DEF ExistsBijection
<1> QED BY <1>8 DEF T, Rank

LEMMA RankLess ==
  ASSUME NEW S, S \subseteq Nat, IsFiniteSet(S), NEW p \in S
  PROVE  /\ Rank(S, p) \in Nat /\ Rank(S, p) < Cardinality(S)
         /\ \A q \in S : q < p => Rank(S, q) < Rank(S, p)
<1> DEFINE T(x) == {y \in S : y < x}
<1>1. \A U \in SUBSET S : IsFiniteSet(U) /\ Cardinality(U) \in Nat
  BY FS_Subset, FS_CardinalityType
<1>2. ASSUME NEW U \in SUBSET S, NEW V \in SUBSET S, U \subseteq V, U # V
      PROVE  Cardinality(U) < Cardinality(V)
  <2>1. Cardinality(U) <= Cardinality(V) /\ (Cardinality(V) = Cardinality(U) => V = U)
    BY <1>1, <1>2, FS_Subset
  <2> QED BY <1>1, <1>2, <2>1
<1>3. T(p) \in SUBSET S /\ T(p) # S /\ S \in SUBSET S
  OBVIOUS
<1>4. ASSUME NEW q \in S, q < p PROVE Cardinality(T(q)) < Cardinality(T(p))
  <2>1. \A y \in S : y < q => y < p
    BY <1>4
  <2>2. ~ q < q /\ q \in S
    BY <1>4
  <2>3. T(q) \subseteq T(p) /\ q \in T(p) /\ q \notin T(q) /\ T(q) \in SUBSET S
    BY <1>4, <2>1, <2>2
  <2> QED BY <1>2, <1>3, <2>3
<1> QED BY <1>1, <1>2, <1>3, <1>4 DEF Rank

\* Some order of the places sorts a list without repetitions: the ranks of its
\* elements number the places.
LEMMA SortingExists ==
  ASSUME NEW s \in Seq(Nat), NoDup(s)
  PROVE  \E f \in Bijection(1 .. Len(s), 1 .. Len(s)) :
           \A j, k \in 1 .. Len(s) : j < k => s[f[j]] <= s[f[k]]
<1> DEFINE P == 1 .. Len(s)
           K == ToSet(s)
           sorts(f) == \A j, k \in P : j < k => s[f[j]] <= s[f[k]]
           r == [j \in P |-> Rank(K, s[j]) + 1]
           g == [k \in P |-> CHOOSE j \in P : r[j] = k]
<1>1. /\ Len(s) \in Nat /\ K \subseteq Nat /\ \A k \in P : s[k] \in Nat /\ s[k] \in K
  BY ElementsOf
<1>2. IsFiniteSet(K) /\ Cardinality(K) = Len(s)
  BY <1>1, SizeIs
<1>3. IsFiniteSet(P) /\ Cardinality(P) = Len(s)
  BY <1>1, PlacesAre
<1>r. /\ \A k \in P : Rank(K, s[k]) \in Nat /\ Rank(K, s[k]) < Len(s)
      /\ \A j, k \in P : s[j] < s[k] => Rank(K, s[j]) < Rank(K, s[k])
  <2> HIDE DEF P, K
  <2> QED BY <1>1, <1>2, RankLess
<1>5. /\ \A k \in P : r[k] \in P
      /\ \A j, k \in P : s[j] < s[k] => r[j] < r[k]
  BY <1>1, <1>r
<1>6. r \in [P -> P]
  BY <1>5
<1> HIDE DEF r
<1>7. \A j, k \in P : r[j] = r[k] => j = k
  <2> SUFFICES ASSUME NEW j \in P, NEW k \in P, r[j] = r[k] PROVE j = k
    OBVIOUS
  <2>1. r[j] \in Nat
    BY <1>1, <1>5
  <2>2. ~ s[j] < s[k] /\ ~ s[k] < s[j]
    BY <1>5, <2>1
  <2>3. s[j] = s[k]
    BY <1>1, <2>2
  <2> QED BY <2>3 DEF NoDup
<1> HIDE DEF P
<1>8. \A k \in P : \E j \in P : r[j] = k
  <2>1. r \in Injection(P, P)
    BY <1>6, <1>7 DEF Injection, IsInjective
  <2>2. r \in Surjection(P, P)
    BY <1>3, <2>1, FS_Injection
  <2> QED BY <2>2 DEF Surjection
<1>9. \A k \in P : g[k] \in P /\ r[g[k]] = k
  BY <1>8
<1>10. g \in [P -> P]
  BY <1>9
<1> HIDE DEF g
<1>11. \A k \in P : g[r[k]] = k
  <2> SUFFICES ASSUME NEW k \in P PROVE g[r[k]] = k
    OBVIOUS
  <2>1. r[k] \in P /\ g[r[k]] \in P /\ r[g[r[k]]] = r[k]
    BY <1>5, <1>9
  <2> QED BY <1>7, <2>1
<1>12. g \in Bijection(P, P)
  <2>1. \A j, k \in P : g[j] = g[k] => j = k
    BY <1>9
  <2> QED BY <1>5, <1>10, <1>11, <2>1 DEF Bijection, Injection, Surjection, IsInjective
<1>13. sorts(g)
  <2> SUFFICES ASSUME NEW j \in P, NEW k \in P, j < k PROVE s[g[j]] <= s[g[k]]
    OBVIOUS
  <2>1. g[j] \in P /\ g[k] \in P /\ r[g[j]] = j /\ r[g[k]] = k /\ j \in Nat /\ k \in Nat
    BY <1>1, <1>9 DEF P
  <2>2. ~ s[g[k]] < s[g[j]]
    <3>1. ~ r[g[k]] < r[g[j]]
      BY <2>1
    <3> QED BY <1>5, <2>1, <3>1
  <2>3. s[g[j]] \in Nat /\ s[g[k]] \in Nat
    BY <1>1, <2>1
  <2> QED BY <2>2, <2>3
<1> HIDE DEF sorts
<1> QED BY <1>12, <1>13 DEF sorts, P

\* So qsort() keeps the addresses and leaves them in ascending order.
LEMMA SortedIs ==
  ASSUME NEW S, S \subseteq Nat, NEW s \in Seq(S), NoDup(s)
  PROVE  /\ Sorted(s) \in Seq(S) /\ Len(Sorted(s)) = Len(s)
         /\ ToSet(Sorted(s)) = ToSet(s)
         /\ NoDup(Sorted(s)) /\ Ascending(Sorted(s))
<1> DEFINE P == 1 .. Len(s)
           sorts(h) == \A j, k \in P : j < k => s[h[j]] <= s[h[k]]
           f == CHOOSE h \in Bijection(P, P) : sorts(h)
           t == [k \in P |-> s[f[k]]]
<1>0. s \in Seq(Nat)
  <2>1. s \in [1 .. Len(s) -> S] /\ Len(s) \in Nat
    BY LenProperties
  <2>2. s \in [1 .. Len(s) -> Nat]
    BY <2>1
  <2> QED BY <2>1, <2>2
<1>1. /\ Len(s) \in Nat /\ ToSet(s) = {s[k] : k \in P}
      /\ \A k \in P : s[k] \in S /\ s[k] \in Nat
  BY ElementsOf
<1>2. f \in Bijection(P, P) /\ sorts(f)
  <2>1. \E h \in Bijection(P, P) : sorts(h)
    BY <1>0, SortingExists
  <2> HIDE DEF sorts
  <2> QED BY <2>1
<1>3. Sorted(s) = t
  BY DEF Sorted
<1> HIDE DEF f
<1>4. /\ \A k \in P : f[k] \in P
      /\ \A k \in P : \E j \in P : f[j] = k
      /\ \A j, k \in P : f[j] = f[k] => j = k
  BY <1>2 DEF Bijection, Injection, Surjection, IsInjective
<1>5. t \in [P -> S] /\ \A k \in P : t[k] = s[f[k]]
  BY <1>1, <1>4
<1> HIDE DEF t
<1>6. t \in Seq(S) /\ Len(t) = Len(s)
  BY <1>1, <1>5
<1>7. ToSet(t) = {t[k] : k \in P}
  BY <1>6, ElementsOf
<1>8. \A j, k \in P : s[j] = s[k] => j = k
  BY DEF NoDup
<1>9. sorts(f)
  BY <1>2
<1>10. \A j, k \in P : j < k => t[j] < t[k]
  <2> SUFFICES ASSUME NEW j \in P, NEW k \in P, j < k PROVE t[j] < t[k]
    OBVIOUS
  <2>1. j # k
    BY <1>1
  <2>2. s[f[j]] # s[f[k]]
    <3> HIDE DEF P
    <3>1. f[j] # f[k]
      BY <1>4, <2>1
    <3> QED BY <1>4, <1>8, <3>1
  <2>3. s[f[j]] <= s[f[k]] /\ s[f[j]] \in Nat /\ s[f[k]] \in Nat
    BY <1>1, <1>4, <1>9
  <2> QED BY <1>5, <2>2, <2>3
<1> HIDE DEF P
<1>11. ToSet(t) = ToSet(s)
  <2>1. \A k \in P : t[k] \in ToSet(s)
    BY <1>1, <1>4, <1>5
  <2>2. \A k \in P : s[k] \in ToSet(t)
    BY <1>4, <1>5, <1>7
  <2> QED BY <1>1, <1>7, <2>1, <2>2
<1>12. \A j, k \in P : t[j] = t[k] => j = k
  <2> SUFFICES ASSUME NEW j \in P, NEW k \in P, t[j] = t[k] PROVE j = k
    OBVIOUS
  <2>1. s[f[j]] = s[f[k]] /\ f[j] \in P /\ f[k] \in P
    BY <1>4, <1>5
  <2> QED BY <1>4, <1>8, <2>1
<1> QED BY <1>3, <1>6, <1>10, <1>11, <1>12 DEF NoDup, Ascending, P
-----------------------------------------------------------------------------
(* What the thread has gone past, when nothing was torn.                   *)

\* Not there in the beginning, and in front of an address that was tried.
Behind(p, F, T) == p \notin F /\ \E q \in T : p < q

\* Of the addresses K, those with less than n others in front of them are in T
\* or were inserted behind the thread.
Past(K, F, T, n) == \A p \in K \ T : Rank(K, p) >= n \/ Behind(p, F, T)

\* The next address of the array is tried.
LEMMA PastNext ==
  ASSUME NEW s \in Seq(Nat), Ascending(s), NEW F, NEW T, NEW n \in Nat, n < Len(s),
         Past(ToSet(s), F, T, n)
  PROVE  Past(ToSet(s), F, T \cup {s[n + 1]}, n + 1)
<1> SUFFICES ASSUME NEW p \in ToSet(s), p \notin T, p # s[n + 1]
             PROVE  Rank(ToSet(s), p) >= n + 1 \/ Behind(p, F, T \cup {s[n + 1]})
  BY DEF Past
<1>1. Len(s) \in Nat /\ \E k \in 1 .. Len(s) : p = s[k]
  BY ElementsOf
<1>2. PICK k \in 1 .. Len(s) : p = s[k]
  BY <1>1
<1>3. Rank(ToSet(s), p) = k - 1
  BY <1>2, RankIs
<1>4. k # n + 1 /\ k \in Nat
  BY <1>1, <1>2
<1>5. CASE Rank(ToSet(s), p) >= n
  BY <1>3, <1>4, <1>5
<1>6. CASE Behind(p, F, T)
  BY <1>6 DEF Behind
<1> QED BY <1>5, <1>6 DEF Past

\* After the last one.
LEMMA PastAll ==
  ASSUME NEW s \in Seq(Nat), NoDup(s), NEW F, NEW T, NEW n \in Nat, n >= Len(s),
         Past(ToSet(s), F, T, n)
  PROVE  \A p \in ToSet(s) \ T : Behind(p, F, T)
<1> SUFFICES ASSUME NEW p \in ToSet(s), p \notin T PROVE Behind(p, F, T)
  OBVIOUS
<1>1. /\ ToSet(s) \subseteq Nat /\ IsFiniteSet(ToSet(s)) /\ Len(s) \in Nat
      /\ Cardinality(ToSet(s)) = Len(s)
  BY ElementsOf, SizeIs
<1>2. Rank(ToSet(s), p) \in Nat /\ Rank(ToSet(s), p) < Len(s)
  BY <1>1, RankLess
<1> QED BY <1>1, <1>2 DEF Past

\* A new address comes among those not yet passed, or in front of one that was
\* tried.
LEMMA PastMore ==
  ASSUME NEW K, K \subseteq Nat, IsFiniteSet(K), NEW F, F \subseteq K,
         NEW T, T \subseteq Nat, NEW n \in Nat, n <= Cardinality(K),
         Past(K, F, T, n), NEW x \in Nat, x \notin K
  PROVE  Past(K \cup {x}, F, T, n)
<1> DEFINE L(p) == {q \in K : q < p}
           M(p) == {q \in K \cup {x} : q < p}
<1>1. /\ IsFiniteSet(K \cup {x})
      /\ \A p : IsFiniteSet(L(p)) /\ IsFiniteSet(M(p))
      /\ \A p : Cardinality(L(p)) \in Nat /\ Cardinality(M(p)) \in Nat
  <2>1. IsFiniteSet(K \cup {x})
    BY FS_AddElement
  <2>2. \A p : L(p) \in SUBSET K /\ M(p) \in SUBSET (K \cup {x})
    OBVIOUS
  <2> HIDE DEF L, M
  <2>3. \A p : IsFiniteSet(L(p)) /\ IsFiniteSet(M(p))
    BY <2>1, <2>2, FS_Subset
  <2> QED BY <2>1, <2>3, FS_CardinalityType
<1>2. \A p : Rank(K, p) = Cardinality(L(p)) /\ Rank(K \cup {x}, p) = Cardinality(M(p))
  BY DEF Rank
<1>3. ASSUME NEW p \in K, p \notin T
      PROVE  Rank(K \cup {x}, p) >= n \/ Behind(p, F, T)
  <2>1. L(p) \in SUBSET M(p)
    OBVIOUS
  <2> HIDE DEF L, M
  <2>2. Cardinality(L(p)) <= Cardinality(M(p))
    BY <1>1, <2>1, FS_Subset
  <2>3. Rank(K, p) >= n => Rank(K \cup {x}, p) >= n
    BY <1>1, <1>2, <2>2
  <2> QED BY <1>3, <2>3 DEF Past
<1>4. ASSUME x \notin T, ~ Rank(K \cup {x}, x) >= n
      PROVE  Behind(x, F, T)
  <2>1. M(x) = L(x)
    OBVIOUS
  <2>2. Cardinality(L(x)) < n
    BY <1>1, <1>2, <1>4, <2>1
  <2>3. \E y \in K : x < y
    <3>1. L(x) # K
      <4> HIDE DEF L
      <4>1. Cardinality(L(x)) # Cardinality(K)
        BY <1>1, <2>2, FS_CardinalityType
      <4> QED BY <4>1
    <3>2. PICK y \in K : ~ y < x
      BY <3>1
    <3>3. x # y /\ y \in Nat
      BY <3>2
    <3> QED BY <3>2, <3>3
  <2>4. PICK y \in K : x < y /\ \A z \in K : x < z => y <= z
    <3> DEFINE Y == {z \in K : x < z}
    <3>1. Y # {} /\ Y \subseteq Nat
      BY <2>3
    <3> HIDE DEF Y
    <3>2. PICK y \in Y : \A z \in Y : y <= z
      BY <3>1, LeastNat
    <3> QED BY <3>2 DEF Y
  <2>5. L(y) = L(x)
    <3>1. \A q \in K : q < y <=> q < x
      BY <2>4
    <3> QED BY <3>1
  <2>6. ~ Rank(K, y) >= n
    BY <1>1, <1>2, <2>2, <2>5
  <2>7. x \notin F
    OBVIOUS
  <2>8. \E q \in T : x < q
    <3>1. CASE y \in T
      BY <2>4, <3>1
    <3>2. CASE y \notin T
      <4>1. PICK q \in T : y < q
        BY <2>6, <3>2 DEF Past, Behind
      <4>2. x < q
        BY <2>4, <4>1
      <4> QED BY <4>1, <4>2
    <3> QED BY <3>1, <3>2
  <2> QED BY <2>7, <2>8 DEF Behind
<1> QED BY <1>3, <1>4 DEF Past
-----------------------------------------------------------------------------
(* The invariant of the thread's way through the list.                     *)

Tried == tried \cup (IF pc = "connect" THEN {ip} ELSE {})
Index == IF pc \in {"connect", "read", "append"} THEN i + 1 ELSE i

\* The array, whichever of its writers is where, and the index into it.
Array ==
  /\ iplist \in Seq(Peer) /\ NoDup(iplist)
  /\ add \in {"no", "moved", "sort", "count"}
  /\ add \in {"no", "count"} => Ascending(iplist)
  /\ add # "no" => iplist # <<>>
  /\ first \subseteq Known
  /\ i \in Nat /\ (pc = "wait" => i = 0) /\ (pc # "done" => Index <= NumIps)
  /\ ip \in Peer \cup {0, Stranger} /\ (pc = "connect" => ip # 0)
  /\ tried \subseteq Peer \cup {Stranger}

Way ==
  ~ torn =>
    /\ pc # "done" => Past(Known, first, Tried, Index)
    /\ pc = "done" /\ count = 0 => \A p \in Known \ tried : Behind(p, first, tried)

WayInv == Array /\ Way

LEMMA ArrayFacts ==
  ASSUME Array
  PROVE  /\ Len(iplist) \in Nat /\ iplist \in Seq(Nat) /\ Known \subseteq Peer
         /\ IsFiniteSet(Known) /\ Cardinality(Known) = Len(iplist)
         /\ NumIps \in Nat /\ (add = "no" => NumIps = Len(iplist))
         /\ NumIps <= Len(iplist)
         /\ \A k \in 1 .. Len(iplist) : iplist[k] \in Peer
         /\ Known \subseteq Nat /\ Tried \subseteq Nat
<1>1. /\ Len(iplist) \in Nat /\ Known \subseteq Peer
      /\ \A k \in 1 .. Len(iplist) : iplist[k] \in Peer
  BY ElementsOf DEF Array, Known
<1>2. iplist \in Seq(Nat)
  <2>1. iplist \in [1 .. Len(iplist) -> Peer]
    BY LenProperties DEF Array
  <2>2. iplist \in [1 .. Len(iplist) -> Nat]
    BY <2>1, SyncAssumption
  <2> QED BY <1>1, <2>2
<1>3. IsFiniteSet(Known) /\ Cardinality(Known) = Len(iplist)
  BY <1>2, SizeIs DEF Array, Known
<1>4. NumIps \in Nat /\ (add = "no" => NumIps = Len(iplist)) /\ NumIps <= Len(iplist)
  <2>1. CASE add = "no"
    BY <1>1, <2>1 DEF NumIps
  <2>2. CASE add # "no"
    <3>1. Len(iplist) # 0
      BY <2>2, EmptySeq DEF Array
    <3> QED BY <1>1, <2>2, <3>1 DEF NumIps
  <2> QED BY <2>1, <2>2
<1>5. Tried \subseteq Nat
  BY SyncAssumption DEF Tried, Array
<1> QED BY <1>1, <1>2, <1>3, <1>4, <1>5, SyncAssumption

LEMMA InitWay == Init => WayInv
<1> SUFFICES ASSUME Init PROVE WayInv
  OBVIOUS
<1>1. iplist \in Seq(Peer) /\ Len(iplist) = 0 /\ Known = {}
  <2>1. iplist = <<>> /\ DOMAIN iplist = {}
    BY DEF Init
  <2> QED BY <2>1 DEF Known, ToSet
<1>2. NoDup(iplist) /\ Ascending(iplist)
  BY <1>1 DEF NoDup, Ascending
<1>3. Array
  BY <1>1, <1>2 DEF Init, Array, Index, NumIps
<1>4. Way
  BY <1>1 DEF Init, Way, Past
<1> QED BY <1>3, <1>4 DEF WayInv

\* A new address changes neither the index nor what was tried.
LEMMA HearOnWay ==
  ASSUME WayInv, NEW p \in Peer, Hear(p)
  PROVE  WayInv'
<1>1. /\ add = "no" /\ p \notin Known /\ pc # "done"
      /\ iplist' = Append(iplist, p)
      /\ add' \in IF iplist = <<>> THEN {"count"} ELSE {"moved", "sort"}
      /\ UNCHANGED <<pc, i, ip, count, first, tried, torn>>
  BY DEF Hear, connVars, pastVars
<1>2. Array
  BY DEF WayInv
<1>3. /\ iplist' \in Seq(Peer) /\ Len(iplist') = Len(iplist) + 1 /\ iplist' # <<>>
      /\ \A k \in 1 .. Len(iplist) : iplist'[k] = iplist[k]
      /\ iplist'[Len(iplist) + 1] = p
  BY <1>1, <1>2, AppendProperties DEF Array
<1>4. /\ Len(iplist) \in Nat /\ Len(iplist') \in Nat
      /\ \A k \in 1 .. Len(iplist') : k \in 1 .. Len(iplist) \/ k = Len(iplist) + 1
  BY <1>2, <1>3, ArrayFacts
<1>5. \A k \in 1 .. Len(iplist) : iplist[k] \in Known
  BY <1>2, ElementsOf DEF Array, Known
<1>6. Known' = Known \cup {p}
  <2>1. Known' = {iplist'[k] : k \in 1 .. Len(iplist')}
    BY <1>3, ElementsOf DEF Known
  <2>2. Known = {iplist[k] : k \in 1 .. Len(iplist)}
    BY <1>2, ElementsOf DEF Array, Known
  <2>3. \A k \in 1 .. Len(iplist) : k \in 1 .. Len(iplist') /\ Len(iplist) + 1 \in 1 .. Len(iplist')
    BY <1>3, <1>4
  <2>4. Len(iplist) + 1 \in 1 .. Len(iplist')
    BY <1>3, <1>4
  <2>5. Known' \subseteq Known \cup {p}
    BY <1>3, <1>4, <2>1, <2>2
  <2>6. Known \subseteq Known' /\ p \in Known'
    BY <1>3, <2>1, <2>2, <2>3, <2>4
  <2> QED BY <2>5, <2>6
<1>7. NoDup(iplist')
  <2> SUFFICES ASSUME NEW j \in 1 .. Len(iplist'), NEW k \in 1 .. Len(iplist'),
                      iplist'[j] = iplist'[k]
               PROVE  j = k
    BY DEF NoDup
  <2>1. NoDup(iplist)
    BY <1>2 DEF Array
  <2> QED BY <1>1, <1>3, <1>4, <1>5, <2>1 DEF NoDup
<1>8. add' \in {"no", "count"} => Ascending(iplist')
  <2>1. ASSUME iplist = <<>> PROVE Ascending(iplist')
    <3>1. Len(iplist') = 1
      BY <1>3, <2>1
    <3> QED BY <3>1 DEF Ascending
  <2> QED BY <1>1, <2>1
<1>9. NumIps' = NumIps /\ Index' = Index /\ Tried' = Tried
  <2>1. NumIps' = NumIps
    BY <1>1, <1>3, <1>4 DEF NumIps
  <2> QED BY <1>1, <2>1 DEF Index, Tried
<1>10. Array'
  <2>1. add' \in {"no", "moved", "sort", "count"}
    BY <1>1
  <2>2. first' \subseteq Known'
    BY <1>1, <1>2, <1>6 DEF Array
  <2>3. /\ i' \in Nat /\ (pc' = "wait" => i' = 0) /\ (pc' # "done" => Index' <= NumIps')
        /\ ip' \in Peer \cup {0, Stranger} /\ (pc' = "connect" => ip' # 0)
        /\ tried' \subseteq Peer \cup {Stranger}
    BY <1>1, <1>2, <1>9 DEF Array
  <2> QED BY <1>3, <1>7, <1>8, <2>1, <2>2, <2>3 DEF Array
<1>11. ASSUME ~ torn' PROVE Past(Known', first', Tried', Index')
  <2>1. Past(Known, first, Tried, Index)
    BY <1>1, <1>11 DEF WayInv, Way
  <2>2. Index \in Nat /\ Index <= Cardinality(Known)
    BY <1>1, <1>2, ArrayFacts DEF Array, Index
  <2>3. Past(Known \cup {p}, first, Tried, Index)
    BY <1>1, <1>2, <2>1, <2>2, ArrayFacts, PastMore, SyncAssumption DEF Array
  <2> QED BY <1>1, <1>6, <1>9, <2>3
<1>12. Way'
  BY <1>1, <1>11 DEF Way
<1> QED BY <1>10, <1>12 DEF WayInv

\* The addresses stay, and so do the index and what was tried.
LEMMA StaysOnWay ==
  ASSUME WayInv, Array', Known' = Known, UNCHANGED <<first, torn>>,
         \/ /\ Tried' = Tried /\ Index' = Index
            /\ pc # "done" /\ pc' # "done"
         \/ UNCHANGED <<pc, i, ip, count, tried>>
         \/ pc' = "done" /\ count' # 0
  PROVE  WayInv'
<1>1. ASSUME UNCHANGED <<pc, i, ip, count, tried>> PROVE Way'
  <2>1. Tried' = Tried /\ Index' = Index
    BY <1>1 DEF Tried, Index
  <2> QED BY <1>1, <2>1 DEF WayInv, Way
<1>2. Way'
  BY <1>1 DEF WayInv, Way
<1> QED BY <1>2 DEF WayInv

LEMMA SortOnWay ==
  ASSUME WayInv, Sort
  PROVE  WayInv'
<1>1. /\ add = "sort" /\ add' = "count" /\ iplist' = Sorted(iplist)
      /\ UNCHANGED <<pc, i, ip, count, first, tried, torn>>
  BY DEF Sort, connVars, pastVars
<1>2. Array
  BY DEF WayInv
<1>3. /\ iplist' \in Seq(Peer) /\ Len(iplist') = Len(iplist) /\ Known' = Known
      /\ NoDup(iplist') /\ Ascending(iplist')
  <2>1. iplist \in Seq(Peer) /\ NoDup(iplist) /\ Peer \subseteq Nat
    BY <1>2, SyncAssumption DEF Array
  <2> QED BY <1>1, <2>1, SortedIs DEF Known
<1>4. iplist' # <<>>
  <2>1. Len(iplist) # 0
    BY <1>1, <1>2, EmptySeq DEF Array
  <2>2. Len(iplist') # 0
    BY <1>3, <2>1
  <2> QED BY <2>2
<1>5. NumIps' = NumIps /\ Index' = Index
  BY <1>1, <1>3 DEF NumIps, Index
<1>6. Array'
  BY <1>1, <1>2, <1>3, <1>4, <1>5 DEF Array
<1> QED BY <1>1, <1>3, <1>6, StaysOnWay

LEMMA MovesOnWay ==
  ASSUME WayInv, Move \/ Count
  PROVE  WayInv'
<1>1. /\ UNCHANGED <<iplist, pc, i, ip, count, first, tried, torn>>
      /\ \/ add = "moved" /\ add' = "sort"
         \/ add = "count" /\ add' = "no"
  BY DEF Move, Count, connVars, pastVars
<1>2. Known' = Known /\ Index' = Index /\ NumIps' >= NumIps
  <2>1. Len(iplist) \in Nat
    BY ArrayFacts DEF WayInv
  <2> QED BY <1>1, <2>1 DEF Known, NumIps, Index
<1>3. NumIps \in Nat /\ NumIps' \in Nat /\ Index \in Nat
  <2>1. Len(iplist) \in Nat /\ NumIps \in Nat
    BY ArrayFacts DEF WayInv
  <2> QED BY <1>1, <1>2, <2>1 DEF WayInv, Array, NumIps, Index
<1>4. Array'
  BY <1>1, <1>2, <1>3 DEF WayInv, Array
<1> QED BY <1>1, <1>2, <1>4, StaysOnWay

LEMMA BeginOnWay ==
  ASSUME WayInv, Begin
  PROVE  WayInv'
<1>1. /\ pc = "wait" /\ NumIps > 0 /\ pc' = "look" /\ first' = Known
      /\ UNCHANGED <<iplist, add, i, ip, count, tried, torn>>
  BY DEF Begin, listVars, connVars
<1>2. Array
  BY DEF WayInv
<1>3. i = 0 /\ Index' = 0 /\ NumIps' = NumIps /\ Known' = Known
  BY <1>1, <1>2 DEF Array, Index, NumIps, Known
<1>4. Array'
  BY <1>1, <1>2, <1>3, ArrayFacts DEF Array
<1>5. Past(Known', first', Tried', Index')
  <2>1. \A p \in Known : Rank(Known, p) \in Nat
    BY <1>2, ArrayFacts, RankLess
  <2> QED BY <1>3, <2>1 DEF Past
<1> QED BY <1>1, <1>4, <1>5 DEF WayInv, Way

LEMMA LookOnWay ==
  ASSUME WayInv, Look
  PROVE  WayInv'
<1>1. /\ pc = "look" /\ ip' \in (IF i < NumIps THEN Slot ELSE {0})
      /\ pc' = (IF ip' > 0 THEN "connect" ELSE "done")
      /\ torn' = (torn \/ add # "no")
      /\ UNCHANGED <<iplist, add, i, count, first, tried>>
  BY DEF Look, listVars
<1>2. Array
  BY DEF WayInv
<1>3. Known' = Known /\ NumIps' = NumIps /\ NumIps \in Nat /\ i \in Nat
  BY <1>1, <1>2, ArrayFacts DEF Known, NumIps, Array
<1>4. ip' \in Peer \cup {0, Stranger}
  <2>1. CASE i < NumIps
    <3>1. i + 1 \in 1 .. Len(iplist)
      BY <1>2, <1>3, <2>1, ArrayFacts
    <3>2. Known \subseteq Peer /\ iplist[i + 1] \in Peer
      BY <1>2, <3>1, ArrayFacts
    <3> QED BY <1>1, <2>1, <3>2 DEF Slot
  <2>2. CASE ~ i < NumIps
    BY <1>1, <2>2
  <2> QED BY <2>1, <2>2
<1>5. ip' \in Nat /\ (pc' = "connect" => ip' # 0 /\ i < NumIps)
  BY <1>1, <1>4, SyncAssumption
<1>6. Array'
  <2>1. pc' \in {"connect", "done"}
    BY <1>1
  <2>2. pc' = "connect" => Index' <= NumIps'
    BY <1>1, <1>3, <1>5 DEF Index
  <2> QED BY <1>1, <1>2, <1>3, <1>4, <1>5, <2>1, <2>2 DEF Array
<1>7. ASSUME ~ torn' PROVE Way'
  <2>1. ~ torn /\ add = "no" /\ Ascending(iplist) /\ NumIps = Len(iplist)
    BY <1>1, <1>2, <1>7, ArrayFacts DEF Array
  <2>2. Past(Known, first, tried, i)
    BY <1>1, <2>1 DEF WayInv, Way, Tried, Index
  <2>3. CASE i < NumIps
    <3>1. ip' = iplist[i + 1] /\ ip' \in Peer
      <4>1. i + 1 \in 1 .. Len(iplist)
        BY <1>3, <2>1, <2>3
      <4>2. iplist[i + 1] \in Peer
        BY <1>2, <4>1, ArrayFacts
      <4> QED BY <1>1, <2>1, <2>3, <4>2 DEF Slot
    <3>2. pc' = "connect"
      BY <1>1, <1>5, <3>1, SyncAssumption
    <3>3. Past(Known, first, tried \cup {ip'}, i + 1)
      BY <1>2, <1>3, <2>1, <2>2, <2>3, <3>1, ArrayFacts, PastNext DEF Known
    <3>4. Tried' = tried \cup {ip'} /\ Index' = i + 1
      BY <1>1, <3>2 DEF Tried, Index
    <3> QED BY <1>1, <1>3, <3>2, <3>3, <3>4 DEF Way
  <2>4. CASE ~ i < NumIps
    <3>1. pc' = "done"
      BY <1>1, <2>4
    <3>2. \A p \in Known \ tried : Behind(p, first, tried)
      <4>1. i >= Len(iplist)
        BY <1>3, <2>1, <2>4
      <4> QED BY <1>2, <1>3, <2>2, <4>1, ArrayFacts, PastAll DEF Known, Array
    <3> QED BY <1>1, <1>3, <3>1, <3>2 DEF Way
  <2> QED BY <2>3, <2>4
<1>8. Way'
  BY <1>7 DEF Way
<1> QED BY <1>6, <1>8 DEF WayInv

LEMMA ConnectOnWay ==
  ASSUME WayInv, Refused \/ Connected
  PROVE  WayInv'
<1>1. /\ pc = "connect" /\ tried' = tried \cup {ip}
      /\ \/ pc' = "look" /\ i' = i + 1
         \/ pc' = "read" /\ i' = i
      /\ UNCHANGED <<iplist, add, ip, first, torn>>
  BY DEF Refused, Connected, NextIp, listVars, connVars
<1>2. Array
  BY DEF WayInv
<1>3. Known' = Known /\ NumIps' = NumIps /\ Index' = Index /\ Tried' = Tried
  BY <1>1 DEF Known, NumIps, Index, Tried
<1>4. Array'
  <2>1. tried' \subseteq Peer \cup {Stranger} /\ i' \in Nat
    BY <1>1, <1>2 DEF Array
  <2> QED BY <1>1, <1>2, <1>3, <2>1 DEF Array
<1> QED BY <1>1, <1>3, <1>4, StaysOnWay

LEMMA OverOnWay ==
  ASSUME WayInv, pc \in {"read", "append"}, Over
  PROVE  WayInv'
<1>1. /\ IF count > 0 THEN pc' = "done" /\ i' = i ELSE pc' = "look" /\ i' = i + 1
      /\ UNCHANGED <<iplist, add, ip, count, first, tried, torn>>
  BY DEF Over, NextIp, listVars, pastVars
<1>2. Array
  BY DEF WayInv
<1>3. Known' = Known /\ NumIps' = NumIps
  BY <1>1 DEF Known, NumIps
<1>4. CASE count > 0
  <2>1. pc' = "done" /\ count' # 0
    BY <1>1, <1>4
  <2>2. Array'
    BY <1>1, <1>2, <1>3, <1>4 DEF Array
  <2> QED BY <1>1, <1>3, <2>1, <2>2, StaysOnWay
<1>5. CASE ~ count > 0
  <2>1. Index' = Index /\ Tried' = Tried /\ pc' = "look"
    BY <1>1, <1>5 DEF Index, Tried
  <2>2. Array'
    BY <1>1, <1>2, <1>3, <1>5, <2>1 DEF Array
  <2> QED BY <1>1, <1>3, <2>1, <2>2, StaysOnWay
<1> QED BY <1>4, <1>5

\* Nothing of the list is touched.
LEMMA RestOnWay ==
  ASSUME WayInv, UNCHANGED <<iplist, add, i, ip, first, tried, torn>>,
         \/ UNCHANGED <<pc, count>>
         \/ pc \in {"read", "append"} /\ pc' \in {"read", "append"}
  PROVE  WayInv'
<1>1. Known' = Known /\ NumIps' = NumIps /\ Index' = Index /\ Tried' = Tried
  BY DEF Known, NumIps, Index, Tried
<1>2. Array'
  BY <1>1 DEF WayInv, Array
<1> QED BY <1>1, <1>2, StaysOnWay

LEMMA WayStep == WayInv /\ [Next]_vars => WayInv'
<1> SUFFICES ASSUME WayInv, [Next]_vars PROVE WayInv'
  OBVIOUS
<1>1. CASE NoMemory \/ Eof
  BY <1>1, OverOnWay DEF NoMemory, Eof
<1>2. CASE Read \/ AppendSynced \/ AppendLive \/ \E m \in Msg : Find(m)
  BY <1>2, RestOnWay
     DEF Read, AppendSynced, AppendLive, Find, listVars, bufVars, connVars, pastVars
<1>3. CASE Leave \/ UNCHANGED vars
  BY <1>3, RestOnWay DEF Leave, vars, listVars, connVars, pastVars
<1> QED BY <1>1, <1>2, <1>3, HearOnWay, SortOnWay, MovesOnWay, BeginOnWay, LookOnWay,
           ConnectOnWay DEF Next, Thread, Reader


(* The other variables.                                                    *)

Rest ==
  /\ live \in 0 .. MaxLive
  /\ pc \in {"wait", "look", "connect", "read", "append", "done"}
  /\ msg \in Msg \cup {Idle} /\ count \in Nat
  /\ gone \in BOOLEAN /\ torn \in BOOLEAN

LEMMA InitRest == Init => Rest
<1> SUFFICES ASSUME Init PROVE Rest
  OBVIOUS
<1>1. live \in 0 .. MaxLive /\ count \in Nat
  BY SyncAssumption DEF Init
<1>2. gone \in BOOLEAN /\ torn \in BOOLEAN
  BY DEF Init
<1> QED BY <1>1, <1>2 DEF Init, Rest

LEMMA RestStep == Rest /\ Types /\ [Next]_vars => Rest'
<1> SUFFICES ASSUME Rest, Types, [Next]_vars PROVE Rest'
  OBVIOUS
<1>0. CASE Begin \/ Refused \/ Connected
  BY <1>0 DEF Rest, Begin, Refused, Connected, NextIp, bufVars, connVars
<1>1. CASE Look
  <2>1. torn' \in BOOLEAN
    BY <1>1 DEF Rest, Look
  <2>2. /\ pc' \in {"connect", "done"}
        /\ UNCHANGED <<live, msg, count, gone>>
    BY <1>1 DEF Look, bufVars
  <2> QED BY <2>1, <2>2 DEF Rest
<1>2. CASE Read
  <2>1. left # <<>> => Head(left) \in Msg
    BY HeadTailProperties DEF Types
  <2> QED BY <1>2, <2>1 DEF Rest, Read, bufVars, pastVars
<1>3. CASE AppendSynced \/ NoMemory \/ Eof
  BY <1>3 DEF Rest, AppendSynced, NoMemory, Eof, Over, NextIp, bufVars, pastVars
<1>4. CASE Leave \/ Move \/ Sort \/ Count \/ AppendLive \/ UNCHANGED vars
  BY <1>4 DEF Rest, Leave, Move, Sort, Count, AppendLive, bufVars, connVars, pastVars, vars
<1>5. ASSUME NEW p \in Peer, Hear(p) PROVE Rest'
  BY <1>5 DEF Rest, Hear, bufVars, connVars, pastVars
<1>6. ASSUME NEW m \in Msg, Find(m) PROVE Rest'
  BY <1>6, SyncAssumption DEF Rest, Find, connVars, pastVars
<1> QED BY <1>0, <1>1, <1>2, <1>3, <1>4, <1>5, <1>6 DEF Next, Thread, Reader
-----------------------------------------------------------------------------
\* Every variable is of its type: the array holds addresses of neighbours only,
\* also after sorting, and what was tried is one or what was read from memory
\* that was freed.
THEOREM SyncTypes == Spec => []TypeOK
<1>1. SyncInv /\ WayInv /\ Rest => TypeOK
  <2> SUFFICES ASSUME SyncInv, WayInv, Rest PROVE TypeOK
    OBVIOUS
  <2>1. first \subseteq Peer
    BY ArrayFacts DEF WayInv, Array
  <2>2. pc = "append" => msg # Idle
    BY SyncAssumption DEF SyncInv, Types
  <2> QED BY <2>1, <2>2 DEF TypeOK, SyncInv, Types, WayInv, Array, Rest
<1>2. SyncInv => Types
  BY DEF SyncInv
<1> QED BY <1>1, <1>2, InitSync, SyncStep, InitWay, WayStep, InitRest, RestStep, PTL
        DEF Spec

\* When the thread gives up without a new message, an address that it has not
\* tried was inserted behind it, however insertions and its steps interleave.
THEOREM NoneIsSkipped == Spec => []NoneSkipped
<1>1. WayInv => NoneSkipped
  BY DEF WayInv, Way, Behind, NoneSkipped
<1> QED BY <1>1, InitWay, WayStep, PTL DEF Spec

\* What a neighbour wrote in full is in the buffer when the thread goes on to
\* the next one or ends, unless it left as the oldest.
THEOREM SyncIsComplete == Spec => []Complete
<1>1. SyncInv => Complete
  BY DEF SyncInv, Arrives, ByThread, Complete
<1> QED BY <1>1, InitSync, SyncStep, PTL DEF Spec

\* Both threads may find a message missing and append it, but it never gets
\* into the buffer a third time, however many neighbours have it.
THEOREM TwiceAtMost == Spec => []AtMostTwice
<1>1. ASSUME SyncInv, NEW m \in Msg
      PROVE  Cardinality({n \in 1 .. Len(buf) : buf[n].id = m}) <= 2
  <2> DEFINE S == {n \in 1 .. Len(buf) : buf[n].id = m}
  <2>1. CASE S = {}
    BY <2>1, FS_EmptySet
  <2>2. CASE S # {}
    <3>1. PICK j \in S : TRUE
      BY <2>2
    <3>2. CASE S = {j}
      <4>1. Cardinality(S) = 1
        BY <3>2, FS_Singleton
      <4> QED BY <4>1
    <3>3. CASE S # {j}
      <4>1. PICK k \in S : k # j
        BY <3>1, <3>3
      <4>2. \A l \in S : l = j \/ l = k
        BY <3>1, <4>1, <1>1 DEF SyncInv, Copies, Twice
      <4>3. S = {j} \cup {k}
        BY <3>1, <4>1, <4>2
      <4>4. IsFiniteSet({j}) /\ Cardinality({j}) = 1
        BY FS_Singleton
      <4>5. Cardinality({j} \cup {k}) = IF k \in {j} THEN 1 ELSE 1 + 1
        BY <4>4, FS_AddElement
      <4>6. Cardinality(S) = 2
        <5>1. k \notin {j}
          BY <4>1
        <5> HIDE DEF S
        <5> QED BY <4>3, <4>5, <5>1
      <4> QED BY <4>6
    <3> QED BY <3>2, <3>3
  <2> QED BY <2>1, <2>2
<1>2. SyncInv => AtMostTwice
  BY <1>1 DEF AtMostTwice
<1> QED BY <1>2, InitSync, SyncStep, PTL DEF Spec
=============================================================================
