---------------------------- MODULE MsgBufProofs ----------------------------
(***************************************************************************)
(* What the operations on the message buffer do to a buffer that holds no  *)
(* message twice: they keep its type, its bound and that property, and     *)
(* they change the counts as msgbuf.c intends.                             *)
(***************************************************************************)
EXTENDS MsgBuf, SequenceTheorems, TLAPS

\* The search of linkedlist_exists: a message that is held is at one place.
LEMMA WhereIsPlace ==
  ASSUME NEW M, NEW b \in Seq(Entries(M)), NEW m, Distinct(b), Holds(b, m)
  PROVE  /\ Where(b, m) \in 1 .. Len(b)
         /\ b[Where(b, m)].id = m
<1>1. PICK i \in 1 .. Len(b) : b[i].id = m
  BY DEF Holds
<1>2. \A j \in 1 .. i - 1 : b[j].id # m
  <2>1. Len(b) \in Nat
    BY LenProperties
  <2> QED BY <1>1, <2>1 DEF Distinct
<1> QED BY <1>1, <1>2 DEF Where

\* msgbuf_exist returns the count of whichever entry has the identifier.
LEMMA ExistIsCount ==
  ASSUME NEW M, NEW b \in Seq(Entries(M)), Distinct(b),
         NEW i \in 1 .. Len(b)
  PROVE  Exist(b, b[i].id) = b[i].count
<1> DEFINE m == b[i].id
<1>1. Holds(b, m)
  BY DEF Holds
<1>2. /\ Where(b, m) \in 1 .. Len(b)
      /\ b[Where(b, m)].id = b[i].id
  BY <1>1, WhereIsPlace
<1>3. Where(b, m) = i
  BY <1>2 DEF Distinct
<1> QED BY <1>1, <1>3 DEF Exist

\* The count is positive exactly for what the buffer holds.
LEMMA ExistType ==
  ASSUME NEW M, NEW b \in Seq(Entries(M)), NEW m, Distinct(b)
  PROVE  /\ Exist(b, m) \in 0 .. SeenCap
         /\ Exist(b, m) > 0 <=> Holds(b, m)
<1>1. CASE Holds(b, m)
  <2>1. Where(b, m) \in 1 .. Len(b)
    BY <1>1, WhereIsPlace
  <2>2. b[Where(b, m)] \in Entries(M)
    BY <2>1, ElementOfSeq
  <2>3. b[Where(b, m)].count \in 1 .. SeenCap
    BY <2>2 DEF Entries
  <2> QED BY <1>1, <2>3, MsgBufAssumption DEF Exist
<1>2. CASE ~ Holds(b, m)
  BY <1>2, MsgBufAssumption DEF Exist
<1> QED BY <1>1, <1>2

LEMMA IncrementType ==
  ASSUME NEW c \in 1 .. SeenCap
  PROVE  /\ Increment(c) \in 1 .. SeenCap
         /\ Increment(c) >= c
         /\ Increment(c) > 1
         /\ Increment(c) = 2 <=> c = 1
BY MsgBufAssumption DEF Increment
-----------------------------------------------------------------------------
(* msgbuf_add of a message that is there.                                  *)

LEMMA BumpedKeeps ==
  ASSUME NEW M, NEW b \in Seq(Entries(M)), NEW m \in M,
         Distinct(b), Holds(b, m)
  PROVE  /\ Bumped(b, m) \in Seq(Entries(M))
         /\ Len(Bumped(b, m)) = Len(b)
         /\ Distinct(Bumped(b, m))
         /\ \A k : Exist(Bumped(b, m), k) =
                     IF k = m THEN Increment(Exist(b, m)) ELSE Exist(b, k)
<1> DEFINE w == Where(b, m)
           a == Bumped(b, m)
<1>1. w \in 1 .. Len(b) /\ b[w].id = m
  BY WhereIsPlace
<1>2. b[w] \in Entries(M)
  BY <1>1, ElementOfSeq
<1>3. b[w].count \in 1 .. SeenCap
  BY <1>2 DEF Entries
<1>4. [b[w] EXCEPT !.count = Increment(@)] = [id |-> m, count |-> Increment(b[w].count)]
  BY <1>1, <1>2 DEF Entries
<1>5. a = [b EXCEPT ![w] = [id |-> m, count |-> Increment(b[w].count)]]
  BY <1>4 DEF Bumped
<1>6. [id |-> m, count |-> Increment(b[w].count)] \in Entries(M)
  BY <1>3, IncrementType DEF Entries
<1>7. /\ a \in Seq(Entries(M))
      /\ Len(a) = Len(b)
      /\ \A i \in 1 .. Len(b) :
           a[i] = IF i = w THEN [id |-> m, count |-> Increment(b[w].count)] ELSE b[i]
  BY <1>1, <1>5, <1>6, ExceptSeq
<1>8. \A i \in 1 .. Len(b) : a[i].id = b[i].id
  BY <1>1, <1>7
<1>9. Distinct(a)
  BY <1>7, <1>8 DEF Distinct
<1>10. ASSUME NEW k
       PROVE  Exist(a, k) = IF k = m THEN Increment(Exist(b, m)) ELSE Exist(b, k)
  <2>1. CASE k = m
    <3>1. Exist(b, m) = b[w].count
      BY <1>1, ExistIsCount
    <3>2. Exist(a, m) = a[w].count
      BY <1>1, <1>7, <1>9, ExistIsCount, a[w].id = m
    <3> QED BY <2>1, <3>1, <3>2, <1>1, <1>7
  <2>2. CASE k # m /\ Holds(b, k)
    <3>1. PICK i \in 1 .. Len(b) : b[i].id = k
      BY <2>2 DEF Holds
    <3>2. a[i] = b[i]
      BY <1>1, <1>7, <2>2, <3>1
    <3>3. Exist(b, k) = b[i].count
      BY <3>1, ExistIsCount
    <3>4. Exist(a, k) = a[i].count
      BY <1>7, <1>9, <3>1, <3>2, ExistIsCount
    <3> QED BY <2>2, <3>2, <3>3, <3>4
  <2>3. CASE k # m /\ ~ Holds(b, k)
    <3>1. ~ Holds(a, k)
      BY <1>7, <1>8, <2>3 DEF Holds
    <3> QED BY <2>3, <3>1 DEF Exist
  <2> QED BY <2>1, <2>2, <2>3
<1> HIDE DEF a, w
<1> QED BY <1>7, <1>9, <1>10 DEF a
-----------------------------------------------------------------------------
(* msgbuf_add of a new message and msgbuf_delete move entries around.      *)

\* The new buffer ends in m; when it was full its oldest entry is gone.
LEMMA AppendedShape ==
  ASSUME NEW M, NEW b \in Seq(Entries(M)), NEW m \in M
  PROVE  /\ Appended(b, m, 1) \in Seq(Entries(M))
         /\ Len(b) < MAXMSGS =>
              /\ Len(Appended(b, m, 1)) = Len(b) + 1
              /\ Appended(b, m, 1)[Len(b) + 1] = [id |-> m, count |-> 1]
              /\ \A i \in 1 .. Len(b) : Appended(b, m, 1)[i] = b[i]
         /\ Len(b) = MAXMSGS =>
              /\ Len(Appended(b, m, 1)) = Len(b)
              /\ Appended(b, m, 1)[Len(b)] = [id |-> m, count |-> 1]
              /\ \A i \in 1 .. Len(b) - 1 : Appended(b, m, 1)[i] = b[i + 1]
<1> DEFINE e == [id |-> m, count |-> 1]
           a == Append(b, e)
<1>1. Len(b) \in Nat
  BY LenProperties
<1>2. e \in Entries(M)
  BY MsgBufAssumption DEF Entries
<1>3. /\ a \in Seq(Entries(M))
      /\ a # <<>>
      /\ Len(a) = Len(b) + 1
      /\ \A i \in 1 .. Len(b) : a[i] = b[i]
      /\ a[Len(b) + 1] = e
  BY <1>2, AppendProperties
<1>4. Appended(b, m, 1) = IF Len(a) > MAXMSGS THEN Tail(a) ELSE a
  BY DEF Appended
<1> HIDE DEF a, e
<1>5. /\ Tail(a) \in Seq(Entries(M))
      /\ Len(Tail(a)) = Len(b)
      /\ \A i \in 1 .. Len(b) : Tail(a)[i] = a[i + 1]
  BY <1>1, <1>3, HeadTailProperties
<1>6. CASE Len(b) < MAXMSGS
  <2>1. Appended(b, m, 1) = a
    BY <1>1, <1>3, <1>4, <1>6, MsgBufAssumption
  <2> QED BY <1>1, <1>3, <1>6, <2>1 DEF e
<1>7. CASE Len(b) = MAXMSGS
  <2>1. Appended(b, m, 1) = Tail(a)
    BY <1>1, <1>3, <1>4, <1>7, MsgBufAssumption
  <2>2. Len(b) \in 1 .. Len(b)
    BY <1>1, <1>7, MsgBufAssumption
  <2>3. Tail(a)[Len(b)] = e
    BY <1>3, <1>5, <2>2
  <2>4. \A i \in 1 .. Len(b) - 1 : Tail(a)[i] = b[i + 1]
    BY <1>1, <1>3, <1>5
  <2>5. ~ Len(b) < MAXMSGS
    BY <1>1, <1>7
  <2>6. Tail(a)[Len(b)] = [id |-> m, count |-> 1]
    BY <2>3 DEF e
  <2> QED BY <1>5, <2>1, <2>4, <2>5, <2>6
<1> QED BY <1>1, <1>3, <1>4, <1>5, <1>6, <1>7, MsgBufAssumption

\* The shape of a buffer without its entry i.
LEMMA CutShape ==
  ASSUME NEW M, NEW b \in Seq(Entries(M)), NEW i \in 1 .. Len(b)
  PROVE  /\ Cut(b, i) \in Seq(Entries(M))
         /\ Len(Cut(b, i)) = Len(b) - 1
         /\ \A j \in 1 .. Len(b) - 1 :
              Cut(b, i)[j] = IF j < i THEN b[j] ELSE b[j + 1]
<1>1. Len(b) \in Nat
  BY LenProperties
<1>2. Len(b) - 1 \in Nat
  BY <1>1
<1>3. \A j \in 1 .. Len(b) - 1 :
        (IF j < i THEN b[j] ELSE b[j + 1]) \in Entries(M)
  <2>1. TAKE j \in 1 .. Len(b) - 1
  <2>2. j \in 1 .. Len(b) /\ j + 1 \in 1 .. Len(b)
    BY <1>1
  <2> QED BY <2>2, ElementOfSeq
<1>4. Cut(b, i) \in [1 .. Len(b) - 1 -> Entries(M)]
  BY <1>3 DEF Cut
<1>5. Cut(b, i) \in Seq(Entries(M)) /\ Len(Cut(b, i)) = Len(b) - 1
  BY <1>2, <1>4
<1> QED BY <1>5 DEF Cut

LEMMA AppendedKeeps ==
  ASSUME NEW M, NEW b \in Seq(Entries(M)), NEW m \in M,
         Distinct(b), Len(b) <= MAXMSGS, ~ Holds(b, m)
  PROVE  /\ Appended(b, m, 1) \in Seq(Entries(M))
         /\ Len(Appended(b, m, 1)) <= MAXMSGS
         /\ Distinct(Appended(b, m, 1))
         /\ \A k : Exist(Appended(b, m, 1), k) =
                     IF k = m THEN 1
                     ELSE IF k \in Evicted(b, m) THEN 0 ELSE Exist(b, k)
<1> DEFINE a == Appended(b, m, 1)
           s == IF Len(b) < MAXMSGS THEN 0 ELSE 1
           n == Len(b) + 1 - s
<1>1. Len(b) \in Nat /\ s \in {0, 1} /\ n \in Nat \ {0}
  BY LenProperties, MsgBufAssumption
<1>2. /\ a \in Seq(Entries(M))
      /\ Len(a) = n
      /\ a[n] = [id |-> m, count |-> 1]
      /\ \A i \in 1 .. n - 1 : a[i] = b[i + s]
  <2>1. CASE Len(b) < MAXMSGS
    BY <1>1, <2>1, AppendedShape
  <2>2. CASE Len(b) = MAXMSGS
    <3>1. s = 1 /\ n = Len(b) /\ n - 1 = Len(b) - 1
      BY <1>1, <2>2
    <3>2. \A i \in 1 .. Len(b) - 1 : a[i] = b[i + 1]
      BY <2>2, AppendedShape
    <3> QED BY <2>2, <3>1, <3>2, AppendedShape
  <2> QED BY <1>1, <2>1, <2>2, MsgBufAssumption
<1>3. n <= MAXMSGS
  BY <1>1, MsgBufAssumption
<1>4. \A i \in 1 .. n - 1 : i + s \in 1 .. Len(b) /\ b[i + s].id # m
  BY <1>1 DEF Holds
<1>5. \A j \in 1 .. Len(b) : j > s => j - s \in 1 .. n - 1 /\ a[j - s] = b[j]
  BY <1>1, <1>2
<1>6. Evicted(b, m) = IF s = 1 THEN {b[1].id} ELSE {}
  BY <1>1 DEF Evicted
<1> HIDE DEF a, s, n
<1>7. Distinct(a)
  <2> SUFFICES ASSUME NEW i \in 1 .. n, NEW j \in 1 .. n, a[i].id = a[j].id
               PROVE  i = j
    BY <1>2 DEF Distinct
  <2>1. CASE i = n
    <3>1. ~ j \in 1 .. n - 1
      BY <1>2, <1>4, <2>1
    <3> QED BY <1>1, <2>1, <3>1
  <2>2. CASE j = n
    <3>1. ~ i \in 1 .. n - 1
      BY <1>2, <1>4, <2>2
    <3> QED BY <1>1, <2>2, <3>1
  <2>3. CASE i # n /\ j # n
    <3>1. i \in 1 .. n - 1 /\ j \in 1 .. n - 1
      BY <1>1, <2>3
    <3>2. b[i + s].id = b[j + s].id
      BY <1>2, <3>1
    <3>3. i + s = j + s
      BY <1>4, <3>1, <3>2 DEF Distinct
    <3> QED BY <1>1, <3>3
  <2> QED BY <2>1, <2>2, <2>3
<1>8. ASSUME NEW k
      PROVE  Exist(a, k) = IF k = m THEN 1
                           ELSE IF k \in Evicted(b, m) THEN 0 ELSE Exist(b, k)
  <2>1. CASE k = m
    <3>1. n \in 1 .. Len(a) /\ a[n].id = k /\ a[n].count = 1
      BY <1>1, <1>2, <2>1
    <3>2. Exist(a, k) = 1
      BY <1>2, <1>7, <3>1, ExistIsCount
    <3> QED BY <2>1, <3>2
  <2>2. CASE k # m /\ Holds(a, k)
    <3>1. PICK i \in 1 .. n : a[i].id = k
      BY <1>2, <2>2 DEF Holds
    <3>2. i \in 1 .. n - 1
      BY <1>1, <1>2, <2>2, <3>1
    <3>3. i + s \in 1 .. Len(b) /\ b[i + s] = a[i]
      BY <1>2, <1>4, <3>2
    <3>4. Exist(b, k) = b[i + s].count
      BY <3>1, <3>3, ExistIsCount
    <3>5. Exist(a, k) = a[i].count
      BY <1>2, <1>7, <3>1, ExistIsCount
    <3>6. k \notin Evicted(b, m)
      <4>1. SUFFICES ASSUME s = 1, b[1].id = k
                     PROVE  FALSE
        BY <1>6
      <4>2. 1 \in 1 .. Len(b) /\ b[i + s].id = b[1].id
        BY <1>1, <3>1, <3>3, <4>1
      <4>3. i + s = 1
        BY <3>3, <4>2 DEF Distinct
      <4> QED BY <1>1, <3>2, <4>1, <4>3
    <3> QED BY <2>2, <3>3, <3>4, <3>5, <3>6
  <2>3. CASE k # m /\ ~ Holds(a, k)
    <3>1. Exist(a, k) = 0
      BY <2>3 DEF Exist
    <3>2. ASSUME Holds(b, k)
          PROVE  k \in Evicted(b, m)
      <4>1. PICK j \in 1 .. Len(b) : b[j].id = k
        BY <3>2 DEF Holds
      <4>2. ~ j > s
        <5>1. SUFFICES ASSUME j > s PROVE FALSE
          OBVIOUS
        <5>2. j - s \in 1 .. n /\ a[j - s].id = k
          BY <1>1, <1>5, <4>1, <5>1
        <5> QED BY <1>2, <2>3, <5>2 DEF Holds
      <4>3. s = 1 /\ j = 1
        BY <1>1, <4>2
      <4> QED BY <1>6, <4>1, <4>3
    <3> QED BY <2>3, <3>1, <3>2 DEF Exist
  <2> QED BY <2>1, <2>2, <2>3
<1> QED BY <1>2, <1>3, <1>7, <1>8 DEF a

\* msgbuf_add: everything the other modules need to know about it.
LEMMA AddedKeeps ==
  ASSUME NEW M, NEW b \in Seq(Entries(M)), NEW m \in M,
         Distinct(b), Len(b) <= MAXMSGS
  PROVE  /\ Added(b, m) \in Seq(Entries(M))
         /\ Len(Added(b, m)) <= MAXMSGS
         /\ Distinct(Added(b, m))
         /\ Holds(b, m) => Exist(Added(b, m), m) = Increment(Exist(b, m))
         /\ ~ Holds(b, m) => Exist(Added(b, m), m) = 1
         /\ \A k : k # m => \/ Exist(Added(b, m), k) = Exist(b, k)
                            \/ Exist(Added(b, m), k) = 0 /\ k \in Evicted(b, m)
<1>1. CASE Holds(b, m)
  <2>1. Added(b, m) = Bumped(b, m)
    BY <1>1 DEF Added
  <2> QED BY <1>1, <2>1, BumpedKeeps
<1>2. CASE ~ Holds(b, m)
  <2>1. Added(b, m) = Appended(b, m, 1)
    BY <1>2 DEF Added
  <2>2. /\ Appended(b, m, 1) \in Seq(Entries(M))
        /\ Len(Appended(b, m, 1)) <= MAXMSGS
        /\ Distinct(Appended(b, m, 1))
        /\ \A k : Exist(Appended(b, m, 1), k) =
                    IF k = m THEN 1
                    ELSE IF k \in Evicted(b, m) THEN 0 ELSE Exist(b, k)
    BY <1>2, AppendedKeeps
  <2> QED BY <1>2, <2>1, <2>2
<1> QED BY <1>1, <1>2

\* What is pushed out was in the buffer and is not the new message.
LEMMA EvictedType ==
  ASSUME NEW M, NEW b \in Seq(Entries(M)), NEW m
  PROVE  Evicted(b, m) \subseteq M \ {m}
<1>1. CASE Holds(b, m) \/ Len(b) < MAXMSGS
  BY <1>1 DEF Evicted
<1>2. CASE ~ Holds(b, m) /\ ~ Len(b) < MAXMSGS
  <2>1. 1 \in 1 .. Len(b)
    BY <1>2, LenProperties, MsgBufAssumption
  <2>2. b[1] \in Entries(M)
    BY <2>1, ElementOfSeq
  <2>3. b[1].id \in M
    BY <2>2 DEF Entries
  <2>4. b[1].id # m
    BY <1>2, <2>1 DEF Holds
  <2> QED BY <1>2, <2>3, <2>4 DEF Evicted
<1> QED BY <1>1, <1>2

\* msgbuf_delete removes one message and leaves the counts of the others.
LEMMA DeletedKeeps ==
  ASSUME NEW M, NEW b \in Seq(Entries(M)), NEW m \in M,
         Distinct(b), Len(b) <= MAXMSGS
  PROVE  /\ Deleted(b, m) \in Seq(Entries(M))
         /\ Len(Deleted(b, m)) <= MAXMSGS
         /\ Distinct(Deleted(b, m))
         /\ \A k : Exist(Deleted(b, m), k) = IF k = m THEN 0 ELSE Exist(b, k)
<1>1. CASE ~ Holds(b, m)
  <2>1. Deleted(b, m) = b
    BY <1>1 DEF Deleted
  <2>2. Exist(b, m) = 0
    BY <1>1 DEF Exist
  <2> QED BY <2>1, <2>2
<1>2. CASE Holds(b, m)
  <2> DEFINE w == Where(b, m)
             a == Cut(b, w)
  <2>1. w \in 1 .. Len(b) /\ b[w].id = m
    BY <1>2, WhereIsPlace
  <2>2. Deleted(b, m) = a
    BY <1>2 DEF Deleted
  <2>3. Len(b) \in Nat
    BY LenProperties
  <2>4. /\ a \in Seq(Entries(M))
        /\ Len(a) = Len(b) - 1
        /\ \A j \in 1 .. Len(b) - 1 : a[j] = IF j < w THEN b[j] ELSE b[j + 1]
    BY <2>1, CutShape
  <2> HIDE DEF a, w
  <2> DEFINE from(j) == IF j < w THEN j ELSE j + 1
  <2>5. \A j \in 1 .. Len(a) :
          from(j) \in 1 .. Len(b) /\ from(j) # w /\ a[j] = b[from(j)]
    BY <2>1, <2>3, <2>4
  <2>6. \A i \in 1 .. Len(b) : i # w =>
          \E j \in 1 .. Len(a) : from(j) = i
    <3>1. SUFFICES ASSUME NEW i \in 1 .. Len(b), i # w
                   PROVE  \E j \in 1 .. Len(a) : from(j) = i
      OBVIOUS
    <3>2. CASE i < w
      BY <2>1, <2>3, <2>4, <3>2
    <3>3. CASE i > w
      <4>1. i - 1 \in 1 .. Len(a) /\ from(i - 1) = i
        BY <2>1, <2>3, <2>4, <3>3
      <4> QED BY <4>1
    <3> QED BY <2>1, <2>3, <3>1, <3>2, <3>3
  <2>7. \A i, j \in 1 .. Len(a) : from(i) = from(j) => i = j
    BY <2>1, <2>3, <2>4
  <2> HIDE DEF from
  <2>8. Distinct(a)
    <3>1. SUFFICES ASSUME NEW i \in 1 .. Len(a), NEW j \in 1 .. Len(a),
                          a[i].id = a[j].id
                   PROVE  i = j
      BY DEF Distinct
    <3>2. from(i) = from(j)
      BY <2>5, <3>1 DEF Distinct
    <3> QED BY <2>7, <3>2
  <2>9. ASSUME NEW k
        PROVE  Exist(a, k) = IF k = m THEN 0 ELSE Exist(b, k)
    <3>1. CASE k = m
      <4>1. ~ Holds(a, k)
        BY <2>1, <2>5, <3>1 DEF Holds, Distinct
      <4> QED BY <3>1, <4>1 DEF Exist
    <3>2. CASE k # m /\ Holds(b, k)
      <4>1. PICK i \in 1 .. Len(b) : b[i].id = k
        BY <3>2 DEF Holds
      <4>2. PICK j \in 1 .. Len(a) : from(j) = i
        BY <2>1, <2>6, <3>2, <4>1
      <4>3. a[j] = b[i]
        BY <2>5, <4>2
      <4>4. Exist(a, k) = a[j].count
        BY <2>4, <2>8, <4>1, <4>3, ExistIsCount
      <4>5. Exist(b, k) = b[i].count
        BY <4>1, ExistIsCount
      <4> QED BY <3>2, <4>3, <4>4, <4>5
    <3>3. CASE k # m /\ ~ Holds(b, k)
      <4>1. ~ Holds(a, k)
        BY <2>5, <3>3 DEF Holds
      <4> QED BY <3>3, <4>1 DEF Exist
    <3> QED BY <3>1, <3>2, <3>3
  <2> QED BY <2>2, <2>3, <2>4, <2>8, <2>9, MsgBufAssumption
<1> QED BY <1>1, <1>2
=============================================================================
