-------------------------- MODULE ClientFeedProofs --------------------------
(***************************************************************************)
(* The receiving service, for any number of clients, slots and messages.   *)
(*                                                                         *)
(* Three invariants, one on another.  Descriptors: which socket may be in  *)
(* the list, while the reader is closing one and accept() uses its number  *)
(* again.  Writes: what was written was to be shown, and in a pass over    *)
(* the slots nobody is met twice.  Gap: what was there when a client       *)
(* connected was dumped to it, and what came up since its registration was *)
(* fed to it, or will be in the present pass.                              *)
(***************************************************************************)
EXTENDS ClientFeed, MsgBufProofs, FiniteSetTheorems

USE DEF handlerVars

(* The buffer, from which nothing is removed.                              *)

GoodBuf(b) ==
  /\ b \in Seq(Entries(Msg)) /\ Len(b) >= 1 /\ Len(b) <= MAXMSGS
  /\ Distinct(b)

LEMMA Room ==
  ASSUME NEW b, GoodBuf(b), NEW m \in Msg, ~ Holds(b, m)
  PROVE  Len(b) < MAXMSGS
<1> DEFINE I == 1 .. Len(b)
           f == [i \in I |-> b[i].id]
<1>1. Len(b) \in Nat /\ \A i \in I : b[i].id \in Msg
  <2>1. b \in Seq(Entries(Msg))
    BY DEF GoodBuf
  <2>2. \A i \in I : b[i] \in Entries(Msg)
    BY <2>1, ElementOfSeq
  <2> QED BY <2>1, <2>2, LenProperties DEF Entries
<1>2. f \in [I -> Msg \ {m}] /\ \A i, j \in I : f[i] = f[j] => i = j
  BY <1>1 DEF GoodBuf, Distinct, Holds
<1>3. f \in Injection(I, Msg \ {m})
  BY <1>2 DEF Injection, IsInjective
<1>4. IsFiniteSet(Msg \ {m}) /\ Cardinality(Msg \ {m}) = Cardinality(Msg) - 1
  BY FS_RemoveElement, ClientFeedAssumption
<1>5. Cardinality(I) <= Cardinality(Msg \ {m})
  <2> HIDE DEF f, I
  <2> QED BY <1>3, <1>4, FS_Injection
<1>6. Cardinality(I) = Len(b)
  <2>1. Cardinality(I) = IF 1 > Len(b) THEN 0 ELSE Len(b) - 1 + 1
    BY <1>1, FS_Interval
  <2> QED BY <1>1, <2>1 DEF GoodBuf
<1>7. Cardinality(Msg) \in Nat
  BY FS_CardinalityType, ClientFeedAssumption
<1> QED BY <1>1, <1>4, <1>5, <1>6, <1>7, ClientFeedAssumption, MsgBufAssumption

\* An entry is withheld, or its message is to be shown.
LEMMA EntryShown ==
  ASSUME NEW b, GoodBuf(b), NEW i \in 1 .. Len(b)
  PROVE  /\ b[i].id \in Msg /\ b[i].count \in 1 .. SeenCap
         /\ b[i].id \in Shown(b) <=> ~ (b[i].id \in Mine /\ b[i].count <= 1)
<1>1. b[i] \in Entries(Msg)
  BY ElementOfSeq DEF GoodBuf
<1>2. Exist(b, b[i].id) = b[i].count
  BY ExistIsCount DEF GoodBuf
<1>3. Holds(b, b[i].id)
  BY DEF Holds
<1>4. b[i].id \in Msg /\ b[i].count \in 1 .. SeenCap
  BY <1>1 DEF Entries
<1>5. b[i].id \in Shown(b) <=> (b[i].id \in Mine => b[i].count > 1)
  BY <1>2, <1>3, <1>4 DEF Shown
<1> QED BY <1>4, <1>5

LEMMA ShownEntry ==
  ASSUME NEW b, GoodBuf(b), NEW m \in Shown(b)
  PROVE  \E i \in 1 .. Len(b) : b[i].id = m /\ ~ (m \in Mine /\ b[i].count <= 1)
<1>1. PICK i \in 1 .. Len(b) : b[i].id = m
  BY DEF Shown, Holds
<1> QED BY <1>1, EntryShown

\* From b to a, by one more copy of m.
Grown(b, a, m) ==
  /\ GoodBuf(a) /\ Len(b) <= Len(a)
  /\ \A i \in 1 .. Len(b) : a[i].id = b[i].id /\ a[i].count >= b[i].count
  /\ \A i \in 1 .. Len(a) : i > Len(b) => a[i].id = m
  /\ Shown(b) \subseteq Shown(a) /\ Shown(a) \subseteq Shown(b) \cup {m}

LEMMA AppendGrows ==
  ASSUME NEW b, GoodBuf(b), NEW m \in Msg, ~ Holds(b, m), NEW c \in 1 .. SeenCap
  PROVE  /\ Grown(b, Appended(b, m, c), m)
         /\ m \in Shown(Appended(b, m, c)) <=> m \notin Mine \/ c > 1
<1> DEFINE e == [id |-> m, count |-> c]
           a == Append(b, e)
<1>1. e \in Entries(Msg) /\ Len(b) \in Nat
  BY LenProperties DEF Entries, GoodBuf
<1>2. /\ a \in Seq(Entries(Msg)) /\ Len(a) = Len(b) + 1 /\ a[Len(b) + 1] = e
      /\ \A i \in 1 .. Len(b) : a[i] = b[i]
  <2> HIDE DEF e
  <2> QED BY <1>1, AppendProperties DEF GoodBuf
<1>3. Len(b) + 1 <= MAXMSGS
  BY <1>1, Room, MsgBufAssumption
<1>4. Appended(b, m, c) = a
  BY <1>1, <1>2, <1>3, MsgBufAssumption DEF Appended
<1> HIDE DEF a
<1>5. \A i \in 1 .. Len(a) : i \in 1 .. Len(b) \/ i = Len(b) + 1
  BY <1>1, <1>2
<1>6. \A i \in 1 .. Len(b) : b[i].id # m
  BY DEF Holds
<1>7. Distinct(a)
  BY <1>2, <1>5, <1>6 DEF Distinct, GoodBuf
<1>8. GoodBuf(a)
  BY <1>1, <1>2, <1>3, <1>7 DEF GoodBuf
<1>9. ASSUME NEW i \in 1 .. Len(b) PROVE a[i].count >= b[i].count
  BY <1>2, EntryShown
<1>10. Len(b) + 1 \in 1 .. Len(a)
  BY <1>1, <1>2
<1>11. m \in Shown(a) <=> m \notin Mine \/ c > 1
  BY <1>2, <1>8, <1>10, EntryShown
<1>12. \A i \in 1 .. Len(b) : i \in 1 .. Len(a)
  BY <1>1, <1>2
<1>13. ASSUME NEW n \in Shown(b) PROVE n \in Shown(a)
  <2>1. PICK i \in 1 .. Len(b) : b[i].id = n /\ ~ (n \in Mine /\ b[i].count <= 1)
    BY ShownEntry
  <2> QED BY <1>2, <1>8, <1>12, <2>1, EntryShown
<1>14. ASSUME NEW n \in Shown(a), n # m PROVE n \in Shown(b)
  <2>1. PICK i \in 1 .. Len(a) : a[i].id = n /\ ~ (n \in Mine /\ a[i].count <= 1)
    BY <1>8, ShownEntry
  <2>2. i \in 1 .. Len(b)
    BY <1>2, <1>5, <1>14, <2>1
  <2> QED BY <1>2, <2>1, <2>2, EntryShown
<1>15. Len(b) <= Len(a)
  BY <1>1, <1>2
<1>16. \A i \in 1 .. Len(a) : i > Len(b) => a[i].id = m
  BY <1>1, <1>2, <1>5
<1> QED BY <1>2, <1>4, <1>8, <1>9, <1>11, <1>13, <1>14, <1>15, <1>16 DEF Grown

LEMMA BumpGrows ==
  ASSUME NEW b, GoodBuf(b), NEW m \in Msg, Holds(b, m)
  PROVE  /\ Grown(b, Bumped(b, m), m)
         /\ m \in Mine => m \in Shown(Bumped(b, m))
<1> DEFINE a == Bumped(b, m)
           w == Where(b, m)
<1>1. w \in 1 .. Len(b) /\ b[w].id = m /\ Len(b) \in Nat
  BY WhereIsPlace, LenProperties DEF GoodBuf
<1>2. a \in Seq(Entries(Msg)) /\ Len(a) = Len(b) /\ Distinct(a)
  BY BumpedKeeps DEF GoodBuf
<1>3. GoodBuf(a)
  BY <1>2 DEF GoodBuf
<1>4. ASSUME NEW i \in 1 .. Len(b)
      PROVE  a[i].id = b[i].id /\ a[i].count = IF i = w THEN Increment(b[i].count) ELSE b[i].count
  <2>1. b \in [1 .. Len(b) -> Entries(Msg)]
    BY LenProperties DEF GoodBuf
  <2>2. a = [b EXCEPT ![w].count = Increment(@)]
    BY DEF Bumped
  <2>3. b[i] \in Entries(Msg) /\ b[i] = [id |-> b[i].id, count |-> b[i].count]
    BY <2>1 DEF Entries
  <2> QED BY <1>1, <2>1, <2>2, <2>3
<1> HIDE DEF a, w
<1>5. \A i \in 1 .. Len(b) : Increment(b[i].count) >= b[i].count /\ Increment(b[i].count) > 1
  BY EntryShown, IncrementType
<1>6. \A i \in 1 .. Len(b) : a[i].count >= b[i].count
  BY <1>4, <1>5, EntryShown
<1>7. \A i \in 1 .. Len(b) : b[i].id = m => i = w
  BY <1>1 DEF GoodBuf, Distinct
<1>8. ASSUME NEW n \in Shown(b) PROVE n \in Shown(a)
  <2>1. PICK i \in 1 .. Len(b) : b[i].id = n /\ ~ (n \in Mine /\ b[i].count <= 1)
    BY ShownEntry
  <2>2. b[i].count \in Nat /\ a[i].count \in Nat
    BY <1>2, <1>3, EntryShown
  <2> QED BY <1>2, <1>3, <1>4, <1>6, <2>1, <2>2, EntryShown
<1>9. ASSUME NEW n \in Shown(a), n # m PROVE n \in Shown(b)
  <2>1. PICK i \in 1 .. Len(a) : a[i].id = n /\ ~ (n \in Mine /\ a[i].count <= 1)
    BY <1>3, ShownEntry
  <2>2. i \in 1 .. Len(b) /\ i # w
    BY <1>1, <1>2, <1>4, <1>9, <2>1
  <2> QED BY <1>4, <2>1, <2>2, EntryShown
<1>10. m \in Shown(a)
  <2>1. w \in 1 .. Len(a) /\ a[w].id = m /\ a[w].count > 1
    BY <1>1, <1>2, <1>4, <1>5
  <2>2. a[w].count \in Nat
    BY <1>3, <2>1, EntryShown
  <2> QED BY <1>3, <2>1, <2>2, EntryShown
<1>11. Len(b) <= Len(a) /\ \A i \in 1 .. Len(a) : ~ i > Len(b)
  BY <1>1, <1>2
<1> QED BY <1>3, <1>4, <1>6, <1>8, <1>9, <1>10, <1>11 DEF Grown, a

\* A copy of m, as the guard of Copy admits it: m is written to the clients
\* exactly if it was not to be shown before and is now.
LEMMA CopyGrows ==
  ASSUME NEW b, GoodBuf(b), NEW m \in Msg, Holds(b, m) => m \in Mine
  PROVE  /\ Grown(b, Added(b, m), m)
         /\ Tells(b, m) <=> m \notin Shown(b) /\ m \in Shown(Added(b, m))
<1>1. CASE Holds(b, m)
  <2>1. Added(b, m) = Bumped(b, m) /\ m \in Mine
    BY <1>1 DEF Added
  <2>2. Exist(b, m) \in 0 .. SeenCap /\ Exist(b, m) > 0
    BY <1>1, ExistType DEF GoodBuf
  <2>3. m \in Shown(b) <=> Exist(b, m) > 1
    BY <1>1, <2>1 DEF Shown
  <2>4. Tells(b, m) <=> Exist(b, m) = 1
    BY <1>1, <2>1, <2>2 DEF Tells
  <2> QED BY <1>1, <2>1, <2>2, <2>3, <2>4, BumpGrows, MsgBufAssumption
<1>2. CASE ~ Holds(b, m)
  <2>1. Added(b, m) = Appended(b, m, 1) /\ m \notin Shown(b)
    BY <1>2 DEF Added, Shown
  <2>2. 1 \in 1 .. SeenCap
    BY MsgBufAssumption
  <2>3. Tells(b, m) <=> m \notin Mine
    BY <1>2 DEF Tells
  <2> QED BY <1>2, <2>1, <2>2, <2>3, AppendGrows
<1> QED BY <1>1, <1>2
-----------------------------------------------------------------------------
(* Descriptors.                                                            *)

\* The reader is about to clear the slot i, whose socket it has closed.
Closing(i) == wr # Idle /\ wr.at = "clear" /\ wr.slot = i

\* A thread has a descriptor that leads to its client, and begins its dump with
\* the first entry.
Owners ==
  \A c \in Client :
    /\ pc[c] \notin {"away", "done"} => fd[c] \in Fd /\ open[fd[c]] = c
    /\ pc[c] \in {"check", "seek", "take"} => c \notin Remote
    /\ pc[c] = "away" => at[c] = 1

\* No two descriptors lead to the same client.
OneEach ==
  \A f \in Fd : open[f] # Nobody =>
    /\ pc[open[f]] # "away"
    /\ \A g \in Fd : open[g] = open[f] => g = f

\* A socket in the list is that of a local client that was entered, unless its
\* slot is being cleared.
Listed ==
  /\ \A i \in Slot : slots[i] # Empty /\ ~ Closing(i) =>
       open[slots[i]] \in Client \ Remote /\ pc[open[slots[i]]] = "done"
  /\ wr # Idle /\ wr.at # "write" => slots[wr.slot] # Empty

\* A thread that looks for a slot has found that its socket is in none.
Seekers == \A c \in Client : pc[c] \in {"seek", "take"} => \A i \in Slot : slots[i] # fd[c]

DescInv ==
  TypeOK /\ GoodBuf(buf) /\ Owners /\ OneEach /\ Listed /\ Seekers /\ UniqueSlot

LEMMA WrType ==
  ASSUME TypeOK
  PROVE  wr # Idle => /\ wr \in [msg : Msg, slot : Slot, at : Places]
                      /\ wr.msg \in Msg /\ wr.slot \in Slot /\ wr.at \in Places
BY DEF TypeOK

\* What a write does that succeeds, and one that fails.
LEMMA WrittenDoes ==
  ASSUME TypeOK, NEW f \in Fd, NEW m \in Msg, NEW w \in Way, Written(f, m, w, TRUE)
  PROVE  /\ open[f] \in Client
         /\ got' \in [Client -> [Msg \X Way -> 0 .. 2]]
         /\ \A c \in Client, v \in Msg \X Way :
              \/ got'[c][v] = got[c][v]
              \/ c = open[f] /\ v = <<m, w>> /\ got'[c][v] = got[c][v] + 1
         /\ open[f] \notin gone => got'[open[f]][<<m, w>>] > 0
<1> DEFINE c == open[f]
           v == <<m, w>>
<1>1. /\ got \in [Client -> [Msg \X Way -> 0 .. 2]] /\ v \in Msg \X Way
      /\ c \in Client \cup {Nobody}
  BY DEF TypeOK
<1>2. c \in Client
  BY <1>1 DEF Written
<1>3. got[c][v] \in 0 .. 2
  BY <1>1, <1>2
<1>4. CASE c \notin gone /\ got[c][v] < 2
  <2>1. got' = [got EXCEPT ![c][v] = @ + 1]
    BY <1>4 DEF Written
  <2> HIDE DEF c, v
  <2>2. got[c][v] + 1 \in 0 .. 2
    BY <1>3, <1>4
  <2>3. \A d \in Client, u \in Msg \X Way :
          got'[d][u] = IF d = c /\ u = v THEN got[c][v] + 1 ELSE got[d][u]
    BY <1>1, <1>2, <2>1
  <2>4. got' \in [Client -> [Msg \X Way -> 0 .. 2]]
    BY <1>1, <1>2, <2>1, <2>2
  <2>5. got'[c][v] > 0
    BY <1>1, <1>2, <1>3, <2>3
  <2> QED BY <1>1, <1>2, <2>3, <2>4, <2>5 DEF c, v
<1>5. CASE ~ (c \notin gone /\ got[c][v] < 2)
  <2>1. got' = got
    BY <1>5 DEF Written
  <2>2. c \notin gone => got[c][v] > 0
    BY <1>3, <1>5
  <2> QED BY <1>1, <1>2, <2>1, <2>2
<1> QED BY <1>4, <1>5

LEMMA FailedDoes ==
  ASSUME NEW f, NEW m, NEW w, Written(f, m, w, FALSE)
  PROVE  got' = got /\ open[f] \in gone \cup {Nobody}
BY DEF Written

LEMMA CopyDesc ==
  ASSUME DescInv, NEW m \in Msg, Copy(m)
  PROVE  DescInv'
<1>0. Grown(buf, buf', m) /\ wr = Idle /\ wr' \in [msg : Msg, slot : Slot, at : {"write"}] \cup {Idle}
  <2>1. Holds(buf, m) => m \in Mine
    BY DEF Copy
  <2>2. 1 \in Slot
    BY ClientFeedAssumption DEF Slot
  <2> QED BY <2>1, <2>2, CopyGrows DEF Copy, DescInv
<1>1. TypeOK'
  <2>1. buf' \in Seq(Entries(Msg)) /\ Len(buf') <= MAXMSGS
    BY <1>0 DEF Grown, GoodBuf
  <2>2. \A c \in Client : pc[c] = "dump" => at[c] \in 1 .. Len(buf')
    <3>1. Len(buf) \in Nat /\ Len(buf') \in Nat /\ Len(buf) <= Len(buf')
      BY <1>0, <2>1, LenProperties DEF Grown, DescInv, GoodBuf
    <3> QED BY <3>1 DEF DescInv, TypeOK
  <2> QED BY <1>0, <2>1, <2>2 DEF DescInv, TypeOK, Copy, Places
<1>2. GoodBuf(buf')
  BY <1>0 DEF Grown
<1>3. Owners'
  BY <1>0, ClientFeedAssumption DEF DescInv, TypeOK, Owners, Copy
<1>4. OneEach'
  BY <1>0, ClientFeedAssumption DEF DescInv, TypeOK, Owners, OneEach, Copy
<1>5. Listed'
  BY <1>0, ClientFeedAssumption DEF DescInv, TypeOK, Owners, Listed, Closing, UniqueSlot,
                                    Copy
<1>6. Seekers'
  BY <1>0, ClientFeedAssumption DEF DescInv, TypeOK, Owners, Listed, Seekers, Closing, Copy
<1>7. UniqueSlot'
  BY <1>0, ClientFeedAssumption DEF DescInv, TypeOK, Seekers, UniqueSlot, Copy
<1> QED BY <1>1, <1>2, <1>3, <1>4, <1>5, <1>6, <1>7 DEF DescInv

LEMMA SyncDesc ==
  ASSUME DescInv, NEW m \in Msg, Sync(m)
  PROVE  DescInv'
<1>0. Grown(buf, buf', m)
  <2>1. 2 \in 1 .. SeenCap
    BY MsgBufAssumption
  <2> QED BY <2>1, AppendGrows DEF Sync, DescInv
<1>1. TypeOK'
  <2>1. buf' \in Seq(Entries(Msg)) /\ Len(buf') <= MAXMSGS
    BY <1>0 DEF Grown, GoodBuf
  <2>2. \A c \in Client : pc[c] = "dump" => at[c] \in 1 .. Len(buf')
    <3>1. Len(buf) \in Nat /\ Len(buf') \in Nat /\ Len(buf) <= Len(buf')
      BY <1>0, <2>1, LenProperties DEF Grown, DescInv, GoodBuf
    <3> QED BY <3>1 DEF DescInv, TypeOK
  <2> QED BY <1>0, <2>1, <2>2 DEF DescInv, TypeOK, Sync
<1>2. GoodBuf(buf')
  BY <1>0 DEF Grown
<1>3. Owners'
  BY <1>0, ClientFeedAssumption DEF DescInv, TypeOK, Owners, Sync
<1>4. OneEach'
  BY <1>0, ClientFeedAssumption DEF DescInv, TypeOK, Owners, OneEach, Sync
<1>5. Listed'
  BY <1>0, ClientFeedAssumption DEF DescInv, TypeOK, Owners, Listed, Closing, UniqueSlot,
                                    Sync
<1>6. Seekers'
  BY <1>0, ClientFeedAssumption DEF DescInv, TypeOK, Owners, Listed, Seekers, Closing, Sync
<1>7. UniqueSlot'
  BY <1>0, ClientFeedAssumption DEF DescInv, TypeOK, Seekers, UniqueSlot, Sync
<1> QED BY <1>1, <1>2, <1>3, <1>4, <1>5, <1>6, <1>7 DEF DescInv

LEMMA NextSlotIs ==
  ASSUME TypeOK, wr # Idle, NextSlot
  PROVE  /\ wr' \in [msg : Msg, slot : Slot, at : {"write"}] \cup {Idle}
         /\ wr' # Idle => wr'.msg = wr.msg /\ wr'.slot = wr.slot + 1 /\ wr.slot < MAXCLIENTS
         /\ wr' = Idle => wr.slot = MAXCLIENTS
<1>1. wr \in [msg : Msg, slot : Slot, at : Places] /\ wr.slot \in 1 .. MAXCLIENTS
  BY WrType DEF Slot
<1>2. CASE wr.slot < MAXCLIENTS
  <2>1. wr' = [msg |-> wr.msg, slot |-> wr.slot + 1, at |-> "write"]
    BY <1>1, <1>2 DEF NextSlot
  <2>2. wr.slot + 1 \in Slot
    BY <1>1, <1>2, ClientFeedAssumption DEF Slot
  <2>3. wr' # Idle
    BY <1>1, <2>1, <2>2, ClientFeedAssumption
  <2> QED BY <1>1, <1>2, <2>1, <2>2, <2>3
<1>3. CASE ~ wr.slot < MAXCLIENTS
  BY <1>1, <1>3, ClientFeedAssumption DEF NextSlot
<1> QED BY <1>2, <1>3

\* One slot of a pass: who is written to, and where the reader is then.
LEMMA WriteSlotDoes ==
  ASSUME DescInv, WriteSlot
  PROVE  /\ wr # Idle /\ wr.at = "write"
         /\ got' \in [Client -> [Msg \X Way -> 0 .. 2]]
         /\ \A c \in Client, v \in Msg \X Way :
              \/ got'[c][v] = got[c][v]
              \/ /\ slots[wr.slot] # Empty /\ c = open[slots[wr.slot]]
                 /\ v = <<wr.msg, "feed">> /\ got'[c][v] = got[c][v] + 1
                 /\ NextSlot
         /\ \/ NextSlot
            \/ /\ slots[wr.slot] # Empty /\ open[slots[wr.slot]] \in gone \cup {Nobody}
               /\ wr' = [wr EXCEPT !.at = "close"]
         /\ slots[wr.slot] # Empty /\ open[slots[wr.slot]] \in Client \ gone =>
              got'[open[slots[wr.slot]]][<<wr.msg, "feed">>] > 0
<1>1. wr # Idle /\ wr.at = "write" /\ wr.slot \in Slot /\ wr.msg \in Msg
  BY WrType DEF WriteSlot, DescInv
<1>2. /\ got \in [Client -> [Msg \X Way -> 0 .. 2]] /\ "feed" \in Way
      /\ slots[wr.slot] # Empty => slots[wr.slot] \in Fd
      /\ open[slots[wr.slot]] \in Client \ gone => open[slots[wr.slot]] # Nobody
  BY <1>1, ClientFeedAssumption DEF DescInv, TypeOK, Way
<1>3. CASE slots[wr.slot] = Empty /\ NextSlot /\ UNCHANGED got
  BY <1>1, <1>2, <1>3
<1>4. CASE slots[wr.slot] # Empty /\ Written(slots[wr.slot], wr.msg, "feed", TRUE) /\ NextSlot
  <2> DEFINE f == slots[wr.slot]
             m == wr.msg
             w == "feed"
  <2>1. TypeOK /\ f \in Fd /\ m \in Msg /\ w \in Way /\ Written(f, m, w, TRUE)
    BY <1>1, <1>2, <1>4 DEF DescInv
  <2> HIDE DEF f, m, w
  <2>2. /\ open[f] \in Client
        /\ got' \in [Client -> [Msg \X Way -> 0 .. 2]]
        /\ \A c \in Client, v \in Msg \X Way :
             \/ got'[c][v] = got[c][v]
             \/ c = open[f] /\ v = <<m, w>> /\ got'[c][v] = got[c][v] + 1
        /\ open[f] \notin gone => got'[open[f]][<<m, w>>] > 0
    BY <2>1, WrittenDoes
  <2> QED BY <1>1, <1>4, <2>2 DEF f, m, w
<1>5. CASE /\ slots[wr.slot] # Empty
           /\ Written(slots[wr.slot], wr.msg, "feed", FALSE)
           /\ wr' = [wr EXCEPT !.at = "close"]
  <2>1. got' = got /\ open[slots[wr.slot]] \in gone \cup {Nobody}
    BY <1>5, FailedDoes
  <2> QED BY <1>1, <1>2, <1>5, <2>1
<1> QED BY <1>3, <1>4, <1>5 DEF WriteSlot

LEMMA WriteSlotDesc ==
  ASSUME DescInv, WriteSlot
  PROVE  DescInv'
<1>0. /\ wr # Idle /\ wr.at = "write" /\ wr.slot \in Slot
      /\ wr' \in [msg : Msg, slot : Slot, at : Places] \cup {Idle}
      /\ wr' # Idle => wr'.at # "clear" /\ (wr'.at # "write" => slots[wr'.slot] # Empty)
      /\ got' \in [Client -> [Msg \X Way -> 0 .. 2]]
  BY WriteSlotDoes, WrType, NextSlotIs DEF DescInv, Places
<1>1. TypeOK'
  BY <1>0, ClientFeedAssumption DEF DescInv, TypeOK, Places, WriteSlot
<1>2. GoodBuf(buf')
  BY <1>0, ClientFeedAssumption DEF DescInv, WriteSlot
<1>3. Owners'
  BY <1>0, ClientFeedAssumption DEF DescInv, TypeOK, Owners, WriteSlot
<1>4. OneEach'
  BY <1>0, ClientFeedAssumption DEF DescInv, TypeOK, Owners, OneEach, WriteSlot
<1>5. Listed'
  BY <1>0, ClientFeedAssumption DEF DescInv, TypeOK, Owners, Listed, Closing, UniqueSlot,
                                    WriteSlot
<1>6. Seekers'
  BY <1>0, ClientFeedAssumption DEF DescInv, TypeOK, Owners, Listed, Seekers, Closing,
                                    WriteSlot
<1>7. UniqueSlot'
  BY <1>0, ClientFeedAssumption DEF DescInv, TypeOK, Seekers, UniqueSlot, WriteSlot
<1> QED BY <1>1, <1>2, <1>3, <1>4, <1>5, <1>6, <1>7 DEF DescInv

LEMMA CloseSlotDesc ==
  ASSUME DescInv, CloseSlot
  PROVE  DescInv'
<1>0. /\ wr # Idle /\ wr.at = "close" /\ wr.slot \in Slot /\ slots[wr.slot] \in Fd
      /\ wr' # Idle /\ wr'.at = "clear" /\ wr'.slot = wr.slot
      /\ wr' \in [msg : Msg, slot : Slot, at : Places]
      /\ open[slots[wr.slot]] \in Client \ Remote /\ pc[open[slots[wr.slot]]] = "done"
      /\ open' = [open EXCEPT ![slots[wr.slot]] = Nobody]
  BY WrType, ClientFeedAssumption DEF DescInv, CloseSlot, Listed, TypeOK, Closing, Places
<1>1. TypeOK'
  BY <1>0, ClientFeedAssumption DEF DescInv, TypeOK, Places, CloseSlot
<1>2. GoodBuf(buf')
  BY <1>0, ClientFeedAssumption DEF DescInv, CloseSlot
<1>3. Owners'
  BY <1>0, ClientFeedAssumption DEF DescInv, TypeOK, Owners, CloseSlot
<1>4. OneEach'
  BY <1>0, ClientFeedAssumption DEF DescInv, TypeOK, Owners, OneEach, CloseSlot
<1>5. Listed'
  BY <1>0, ClientFeedAssumption DEF DescInv, TypeOK, Owners, Listed, Closing, UniqueSlot,
                                    CloseSlot
<1>6. Seekers'
  BY <1>0, ClientFeedAssumption DEF DescInv, TypeOK, Owners, Listed, Seekers, Closing,
                                    CloseSlot
<1>7. UniqueSlot'
  BY <1>0, ClientFeedAssumption DEF DescInv, TypeOK, Seekers, UniqueSlot, CloseSlot
<1> QED BY <1>1, <1>2, <1>3, <1>4, <1>5, <1>6, <1>7 DEF DescInv

\* An action that fills no slot keeps Listed, if the reader closes nothing, no
\* listed thread restarts, and the reader is where it was or at a next slot.
LEMMA ListedKeeps ==
  ASSUME Listed,
         \A i \in Slot : slots'[i] = slots[i] \/ slots'[i] = Empty,
         \A i \in Slot : Closing(i) => slots'[i] = Empty \/ Closing(i)',
         \A i \in Slot : slots[i] # Empty => open'[slots[i]] = open[slots[i]],
         \A d \in Client : pc[d] = "done" => pc'[d] = "done",
         (wr' = wr /\ slots' = slots) \/ wr' = Idle \/ wr'.at = "write"
  PROVE  Listed'
<1>1. ASSUME NEW i \in Slot, slots'[i] # Empty, ~ Closing(i)'
      PROVE  open'[slots'[i]] \in Client \ Remote /\ pc'[open'[slots'[i]]] = "done"
  <2>1. slots'[i] = slots[i] /\ slots[i] # Empty /\ ~ Closing(i)
    BY <1>1
  <2>2. open[slots[i]] \in Client \ Remote /\ pc[open[slots[i]]] = "done"
    BY <2>1 DEF Listed
  <2> QED BY <2>1, <2>2
<1>2. wr' # Idle /\ wr'.at # "write" => slots'[wr'.slot] # Empty
  BY DEF Listed
<1> QED BY <1>1, <1>2 DEF Listed

\* Nobody begins to look for a slot, and none is filled.
LEMMA SeekersKeep ==
  ASSUME Seekers, Owners, Empty \notin Fd,
         \A i \in Slot : slots'[i] = slots[i] \/ slots'[i] = Empty,
         \A d \in Client : pc'[d] \in {"seek", "take"} =>
                            pc[d] \in {"seek", "take"} /\ fd'[d] = fd[d]
  PROVE  Seekers'
<1> SUFFICES ASSUME NEW d \in Client, pc'[d] \in {"seek", "take"}, NEW i \in Slot
             PROVE  slots'[i] # fd'[d]
  BY DEF Seekers
<1>1. pc[d] \in {"seek", "take"} /\ fd'[d] = fd[d] /\ fd[d] \in Fd
  BY DEF Owners
<1>2. slots[i] # fd[d]
  BY <1>1 DEF Seekers
<1> QED BY <1>1, <1>2

LEMMA ClearSlotDesc ==
  ASSUME DescInv, ClearSlot
  PROVE  DescInv'
<1>0. /\ wr # Idle /\ wr.at = "clear" /\ wr.slot \in Slot
      /\ wr' \in [msg : Msg, slot : Slot, at : {"write"}] \cup {Idle}
  BY WrType, NextSlotIs DEF DescInv, ClearSlot
<1>1. TypeOK'
  BY <1>0, ClientFeedAssumption DEF DescInv, TypeOK, Places, ClearSlot
<1>2. GoodBuf(buf')
  BY <1>0, ClientFeedAssumption DEF DescInv, ClearSlot
<1>3. Owners'
  BY <1>0, ClientFeedAssumption DEF DescInv, TypeOK, Owners, ClearSlot
<1>4. OneEach'
  BY <1>0, ClientFeedAssumption DEF DescInv, TypeOK, Owners, OneEach, ClearSlot
<1>5. Listed'
  <2>1. \A i \in Slot : slots'[i] = slots[i] \/ slots'[i] = Empty
    BY DEF ClearSlot, DescInv, TypeOK
  <2>2. \A i \in Slot : Closing(i) => slots'[i] = Empty
    BY DEF ClearSlot, DescInv, TypeOK, Closing
  <2>3. UNCHANGED <<open, pc>> /\ (wr' = Idle \/ wr'.at = "write")
    BY <1>0 DEF ClearSlot
  <2>4. Listed
    BY DEF DescInv
  <2> QED BY <2>1, <2>2, <2>3, <2>4, ListedKeeps
<1>6. Seekers'
  <2>1. \A i \in Slot : slots'[i] = slots[i] \/ slots'[i] = Empty
    BY DEF ClearSlot, DescInv, TypeOK
  <2>2. UNCHANGED <<pc, fd>>
    BY DEF ClearSlot, handlerVars
  <2>3. Seekers /\ Owners
    BY DEF DescInv
  <2> QED BY <2>1, <2>2, <2>3, SeekersKeep, ClientFeedAssumption
<1>7. UniqueSlot'
  BY <1>0, ClientFeedAssumption DEF DescInv, TypeOK, Seekers, UniqueSlot, ClearSlot
<1> QED BY <1>1, <1>2, <1>3, <1>4, <1>5, <1>6, <1>7 DEF DescInv

LEMMA AcceptDesc ==
  ASSUME DescInv, NEW c \in Client, NEW f \in Fd, Accept(c, f)
  PROVE  DescInv'
<1>0. 1 \in 1 .. Len(buf) /\ Shown(buf) \subseteq Msg
  BY LenProperties DEF DescInv, GoodBuf, Shown
<1>1. TypeOK'
  <2>1. \A d \in Client : at'[d] \in IF pc'[d] = "dump" THEN 1 .. Len(buf') ELSE Slot
    BY <1>0, ClientFeedAssumption DEF DescInv, GoodBuf, TypeOK, Owners, Accept, Go
  <2> QED BY <1>0, <2>1 DEF DescInv, TypeOK, Accept, Go
<1>2. GoodBuf(buf')
  BY <1>0, ClientFeedAssumption DEF DescInv, Accept, Go
<1>3. Owners'
  BY <1>0, ClientFeedAssumption DEF DescInv, TypeOK, Owners, Accept, Go
<1>4. OneEach'
  BY <1>0, ClientFeedAssumption DEF DescInv, TypeOK, Owners, OneEach, Accept, Go
<1>5. Listed'
  BY <1>0, ClientFeedAssumption DEF DescInv, TypeOK, Owners, Listed, Closing, UniqueSlot,
                                    Accept, Go
<1>6. Seekers'
  BY <1>0, ClientFeedAssumption DEF DescInv, TypeOK, Owners, Listed, Seekers, Closing,
                                    Accept, Go
<1>7. UniqueSlot'
  BY <1>0, ClientFeedAssumption DEF DescInv, TypeOK, Seekers, UniqueSlot, Accept, Go
<1> QED BY <1>1, <1>2, <1>3, <1>4, <1>5, <1>6, <1>7 DEF DescInv

LEMMA HangupDesc ==
  ASSUME DescInv, NEW c \in Client, Hangup(c)
  PROVE  DescInv'
<1>1. TypeOK'
  BY ClientFeedAssumption DEF DescInv, TypeOK, Places, Hangup
<1>2. GoodBuf(buf')
  BY ClientFeedAssumption DEF DescInv, Hangup
<1>3. Owners'
  BY ClientFeedAssumption DEF DescInv, TypeOK, Owners, Hangup
<1>4. OneEach'
  BY ClientFeedAssumption DEF DescInv, TypeOK, Owners, OneEach, Hangup
<1>5. Listed'
  BY ClientFeedAssumption DEF DescInv, TypeOK, Owners, Listed, Closing, UniqueSlot, Hangup
<1>6. Seekers'
  BY ClientFeedAssumption DEF DescInv, TypeOK, Owners, Listed, Seekers, Closing, Hangup
<1>7. UniqueSlot'
  BY ClientFeedAssumption DEF DescInv, TypeOK, Seekers, UniqueSlot, Hangup
<1> QED BY <1>1, <1>2, <1>3, <1>4, <1>5, <1>6, <1>7 DEF DescInv

\* Which way a dump goes.
DumpWay(c) == IF c \in Remote THEN "cipher" ELSE "clear"

\* One entry of a dump.
LEMMA DumpDoes ==
  ASSUME DescInv, NEW c \in Client, Dump(c)
  PROVE  /\ pc[c] = "dump" /\ at[c] \in 1 .. Len(buf) /\ buf[at[c]].id \in Msg
         /\ got' \in [Client -> [Msg \X Way -> 0 .. 2]]
         /\ \A d \in Client, v \in Msg \X Way :
              \/ got'[d][v] = got[d][v]
              \/ /\ d = c /\ got'[d][v] = got[d][v] + 1
                 /\ v = <<buf[at[c]].id, DumpWay(c)>>
                 /\ buf[at[c]].id \in Shown(buf) /\ NextEntry(c)
         /\ \/ NextEntry(c)
            \/ c \in gone /\ at' = [at EXCEPT ![c] = 1] /\ Go(c, "dump", Dumped(c))
         /\ c \notin gone /\ buf[at[c]].id \in Shown(buf) =>
              got'[c][<<buf[at[c]].id, DumpWay(c)>>] > 0
<1> DEFINE e == buf[at[c]]
           way == DumpWay(c)
<1>1. pc[c] = "dump" /\ at[c] \in 1 .. Len(buf)
  BY DEF Dump, DescInv, TypeOK
<1>2. e.id \in Msg /\ (e.id \in Shown(buf) <=> ~ Withheld(e))
  BY <1>1, EntryShown DEF DescInv, Withheld
<1>3. fd[c] \in Fd /\ open[fd[c]] = c /\ way \in Way /\ c # Nobody
      /\ got \in [Client -> [Msg \X Way -> 0 .. 2]]
  BY <1>1, ClientFeedAssumption DEF DescInv, Owners, Way, DumpWay, TypeOK
<1>4. \/ Withheld(e) /\ NextEntry(c) /\ UNCHANGED got
      \/ ~ Withheld(e) /\ Written(fd[c], e.id, way, TRUE) /\ NextEntry(c)
      \/ /\ ~ Withheld(e) /\ Written(fd[c], e.id, way, FALSE)
         /\ at' = [at EXCEPT ![c] = 1] /\ Go(c, "dump", Dumped(c))
  BY DEF Dump, DumpWay
<1> HIDE DEF e, way
<1>5. CASE Withheld(e) /\ NextEntry(c) /\ UNCHANGED got
  BY <1>1, <1>2, <1>3, <1>5 DEF e, way
<1>6. CASE ~ Withheld(e) /\ Written(fd[c], e.id, way, TRUE) /\ NextEntry(c)
  <2>1. TypeOK
    BY DEF DescInv
  <2> DEFINE f == fd[c]
             m == e.id
  <2>2. TypeOK /\ f \in Fd /\ m \in Msg /\ way \in Way /\ Written(f, m, way, TRUE)
    BY <1>2, <1>3, <1>6, <2>1
  <2> HIDE DEF f, m
  <2>3. /\ open[f] \in Client
        /\ got' \in [Client -> [Msg \X Way -> 0 .. 2]]
        /\ \A d \in Client, v \in Msg \X Way :
             \/ got'[d][v] = got[d][v]
             \/ d = open[f] /\ v = <<m, way>> /\ got'[d][v] = got[d][v] + 1
        /\ open[f] \notin gone => got'[open[f]][<<m, way>>] > 0
    BY <2>2, WrittenDoes
  <2>4. open[f] = c /\ m = e.id
    BY <1>3 DEF f, m
  <2> QED BY <1>1, <1>2, <1>6, <2>3, <2>4 DEF e, way
<1>7. CASE /\ ~ Withheld(e) /\ Written(fd[c], e.id, way, FALSE)
           /\ at' = [at EXCEPT ![c] = 1] /\ Go(c, "dump", Dumped(c))
  <2>2. /\ got' \in [Client -> [Msg \X Way -> 0 .. 2]] /\ c \in gone
        /\ \A d \in Client, v \in Msg \X Way : got'[d][v] = got[d][v]
    BY <1>3, <1>7, FailedDoes
  <2> QED BY <1>1, <1>2, <1>7, <2>2 DEF e, way
<1> QED BY <1>4, <1>5, <1>6, <1>7

LEMMA DumpDesc ==
  ASSUME DescInv, NEW c \in Client, Dump(c)
  PROVE  DescInv'
<1>0. /\ pc[c] = "dump" /\ got' \in [Client -> [Msg \X Way -> 0 .. 2]]
      /\ \E to \in {"dump", "check", "close"}, n \in Nat :
           /\ pc' = [pc EXCEPT ![c] = to] /\ at' = [at EXCEPT ![c] = n]
           /\ to = "check" => c \notin Remote
           /\ n \in IF to = "dump" THEN 1 .. Len(buf) ELSE Slot
  <2>1. /\ pc[c] = "dump" /\ at[c] \in 1 .. Len(buf) /\ got' \in [Client -> [Msg \X Way -> 0 .. 2]]
        /\ \/ NextEntry(c)
           \/ at' = [at EXCEPT ![c] = 1] /\ Go(c, "dump", Dumped(c))
    BY DumpDoes
  <2>2. 1 \in Slot /\ 1 \in Nat /\ Len(buf) \in Nat
    BY ClientFeedAssumption, LenProperties DEF Slot, DescInv, GoodBuf
  <2>3. CASE at[c] < Len(buf) /\ at' = [at EXCEPT ![c] = @ + 1] /\ UNCHANGED pc
    <3>1. at[c] + 1 \in 1 .. Len(buf) /\ at[c] + 1 \in Nat
      BY <2>1, <2>2, <2>3
    <3>2. pc' = [pc EXCEPT ![c] = "dump"]
      BY <2>1, <2>3 DEF DescInv, TypeOK
    <3> QED BY <2>1, <2>3, <3>1, <3>2
  <2>4. CASE at' = [at EXCEPT ![c] = 1] /\ Go(c, "dump", Dumped(c))
    <3>1. Dumped(c) \in {"check", "close"} /\ (Dumped(c) = "check" => c \notin Remote)
      BY DEF Dumped
    <3>2. pc' = [pc EXCEPT ![c] = Dumped(c)]
      BY <2>4 DEF Go
    <3> QED BY <2>1, <2>2, <2>4, <3>1, <3>2
  <2> QED BY <2>1, <2>3, <2>4 DEF NextEntry
<1>1. TypeOK'
  <2>1. PICK to \in {"dump", "check", "close"}, n \in Nat :
          /\ pc' = [pc EXCEPT ![c] = to] /\ at' = [at EXCEPT ![c] = n]
          /\ n \in IF to = "dump" THEN 1 .. Len(buf) ELSE Slot
    BY <1>0
  <2>2. \A d \in Client : at'[d] \in IF pc'[d] = "dump" THEN 1 .. Len(buf) ELSE Slot
    BY <2>1 DEF DescInv, TypeOK
  <2> QED BY <1>0, <2>1, <2>2 DEF DescInv, TypeOK, Dump
<1>2. GoodBuf(buf')
  BY <1>0, ClientFeedAssumption DEF DescInv, Dump
<1>3. Owners'
  BY <1>0, ClientFeedAssumption DEF DescInv, TypeOK, Owners, Dump
<1>4. OneEach'
  BY <1>0, ClientFeedAssumption DEF DescInv, TypeOK, Owners, OneEach, Dump
<1>5. Listed'
  BY <1>0, ClientFeedAssumption DEF DescInv, TypeOK, Owners, Listed, Closing, UniqueSlot,
                                    Dump
<1>6. Seekers'
  BY <1>0, ClientFeedAssumption DEF DescInv, TypeOK, Owners, Listed, Seekers, Closing, Dump
<1>7. UniqueSlot'
  BY <1>0, ClientFeedAssumption DEF DescInv, TypeOK, Seekers, UniqueSlot, Dump
<1> QED BY <1>1, <1>2, <1>3, <1>4, <1>5, <1>6, <1>7 DEF DescInv

LEMMA CloseDesc ==
  ASSUME DescInv, NEW c \in Client, Close(c)
  PROVE  DescInv'
<1>0. 1 \in Slot
  BY ClientFeedAssumption DEF Slot
<1>1. TypeOK'
  <2>1. \A d \in Client : at'[d] \in IF pc'[d] = "dump" THEN 1 .. Len(buf') ELSE Slot
    BY <1>0, ClientFeedAssumption DEF DescInv, GoodBuf, TypeOK, Owners, Close, End
  <2> QED BY <1>0, <2>1 DEF DescInv, TypeOK, Close, End
<1>2. GoodBuf(buf')
  BY <1>0, ClientFeedAssumption DEF DescInv, Close, End
<1>3. Owners'
  BY <1>0, ClientFeedAssumption DEF DescInv, TypeOK, Owners, Close, End
<1>4. OneEach'
  BY <1>0, ClientFeedAssumption DEF DescInv, TypeOK, Owners, OneEach, Close, End
<1>5. Listed'
  <2>1. open[fd[c]] = c /\ pc[c] = "close"
    BY DEF DescInv, Owners, Close
  <2>2. \A i \in Slot : slots[i] # Empty /\ ~ Closing(i) => slots[i] # fd[c] /\ open[slots[i]] # c
    BY <2>1 DEF DescInv, Listed
  <2> QED BY <2>1, <2>2 DEF DescInv, TypeOK, Listed, Closing, Close, End
<1>6. Seekers'
  BY <1>0, ClientFeedAssumption DEF DescInv, TypeOK, Owners, Listed, Seekers, Closing,
                                    Close, End
<1>7. UniqueSlot'
  BY <1>0, ClientFeedAssumption DEF DescInv, TypeOK, Seekers, UniqueSlot, Close, End
<1> QED BY <1>1, <1>2, <1>3, <1>4, <1>5, <1>6, <1>7 DEF DescInv

LEMMA CheckDesc ==
  ASSUME DescInv, NEW c \in Client, Check(c)
  PROVE  DescInv'
<1>0. 1 \in Slot
  BY ClientFeedAssumption DEF Slot
<1>1. TypeOK'
  <2>1. CASE (\E i \in Slot : slots[i] = fd[c]) /\ pc[c] = "check" /\ End(c)
    <3>1. \A d \in Client : at'[d] \in IF pc'[d] = "dump" THEN 1 .. Len(buf) ELSE Slot
      BY <1>0, <2>1 DEF DescInv, TypeOK, End
    <3> QED BY <1>0, <2>1, <3>1 DEF DescInv, TypeOK, Check, End
  <2>2. CASE Go(c, "check", "seek") /\ UNCHANGED <<at, fd>>
    BY <2>2 DEF DescInv, TypeOK, Check, Go
  <2> QED BY <2>1, <2>2 DEF Check
<1>2. GoodBuf(buf')
  BY <1>0, ClientFeedAssumption DEF DescInv, Check, Go, End
<1>3. Owners'
  <2>1. CASE (\E i \in Slot : slots[i] = fd[c]) /\ pc[c] = "check" /\ End(c)
    <3>1. \A d \in Client : at'[d] \in IF pc'[d] = "dump" THEN 1 .. Len(buf) ELSE Slot
      BY <1>0, <2>1 DEF DescInv, TypeOK, End
    <3> QED BY <1>0, <2>1, <3>1 DEF DescInv, TypeOK, Owners, Check, End
  <2>2. CASE Go(c, "check", "seek") /\ UNCHANGED <<at, fd>>
    BY <2>2 DEF DescInv, TypeOK, Owners, Check, Go
  <2> QED BY <2>1, <2>2 DEF Check
<1>4. OneEach'
  BY <1>0, ClientFeedAssumption DEF DescInv, TypeOK, Owners, OneEach, Check, Go, End
<1>5. Listed'
  BY <1>0, ClientFeedAssumption DEF DescInv, TypeOK, Owners, Listed, Closing, UniqueSlot,
                                    Check, Go, End
<1>6. Seekers'
  <2>1. CASE (\E i \in Slot : slots[i] = fd[c]) /\ End(c)
    BY <2>1 DEF DescInv, TypeOK, Seekers, Check, End
  <2>2. CASE (\A i \in Slot : slots[i] # fd[c]) /\ Go(c, "check", "seek") /\ UNCHANGED fd
    BY <2>2 DEF DescInv, TypeOK, Seekers, Check, Go
  <2> QED BY <2>1, <2>2 DEF Check
<1>7. UniqueSlot'
  BY <1>0, ClientFeedAssumption DEF DescInv, TypeOK, Seekers, UniqueSlot, Check, Go, End
<1> QED BY <1>1, <1>2, <1>3, <1>4, <1>5, <1>6, <1>7 DEF DescInv

LEMMA SeekDesc ==
  ASSUME DescInv, NEW c \in Client, Seek(c)
  PROVE  DescInv'
<1>0. pc[c] = "seek" /\ at[c] \in Slot /\ at[c] + 1 \in Nat
      /\ (at[c] < MAXCLIENTS => at[c] + 1 \in Slot)
  BY ClientFeedAssumption DEF Slot, DescInv, TypeOK, Seek, Go
<1>1. TypeOK'
  <2>1. CASE slots[at[c]] = Empty /\ Go(c, "seek", "take") /\ UNCHANGED at
    BY <1>0, <2>1 DEF DescInv, TypeOK, Seek, Go
  <2>2. CASE slots[at[c]] # Empty /\ at[c] < MAXCLIENTS /\ UNCHANGED pc /\ at' = [at EXCEPT ![c] = @ + 1]
    <3>1. \A d \in Client : at'[d] \in IF pc'[d] = "dump" THEN 1 .. Len(buf) ELSE Slot
      BY <1>0, <2>2 DEF DescInv, TypeOK
    <3> QED BY <1>0, <2>2, <3>1 DEF DescInv, TypeOK, Seek
  <2>3. CASE slots[at[c]] # Empty /\ at[c] = MAXCLIENTS /\ Go(c, "seek", "close") /\ UNCHANGED at
    BY <1>0, <2>3 DEF DescInv, TypeOK, Seek, Go
  <2> QED BY <2>1, <2>2, <2>3 DEF Seek
<1>2. GoodBuf(buf')
  BY <1>0, ClientFeedAssumption DEF DescInv, Seek, Go
<1>3. Owners'
  <2>1. CASE slots[at[c]] = Empty /\ Go(c, "seek", "take") /\ UNCHANGED at
    BY <1>0, <2>1 DEF DescInv, TypeOK, Owners, Seek, Go
  <2>2. CASE slots[at[c]] # Empty /\ at[c] < MAXCLIENTS /\ UNCHANGED pc /\ at' = [at EXCEPT ![c] = @ + 1]
    <3>1. \A d \in Client : at'[d] \in IF pc'[d] = "dump" THEN 1 .. Len(buf) ELSE Slot
      BY <1>0, <2>2 DEF DescInv, TypeOK
    <3> QED BY <1>0, <2>2, <3>1 DEF DescInv, TypeOK, Owners, Seek
  <2>3. CASE slots[at[c]] # Empty /\ at[c] = MAXCLIENTS /\ Go(c, "seek", "close") /\ UNCHANGED at
    BY <1>0, <2>3 DEF DescInv, TypeOK, Owners, Seek, Go
  <2> QED BY <2>1, <2>2, <2>3 DEF Seek
<1>4. OneEach'
  BY <1>0, ClientFeedAssumption DEF DescInv, TypeOK, Owners, OneEach, Seek, Go
<1>5. Listed'
  <2>1. \A d \in Client : pc[d] = "done" => pc'[d] = "done"
    BY <1>0 DEF Seek, Go, DescInv, TypeOK
  <2>2. UNCHANGED <<slots, open, wr>>
    BY DEF Seek
  <2>3. \A i \in Slot : Closing(i) => Closing(i)'
    BY <2>2 DEF Closing
  <2>4. Listed
    BY DEF DescInv
  <2> QED BY <2>1, <2>2, <2>3, <2>4, ListedKeeps
<1>6. Seekers'
  <2>1. \A d \in Client : pc'[d] \in {"seek", "take"} => pc[d] \in {"seek", "take"}
    BY <1>0 DEF Seek, Go, DescInv, TypeOK
  <2>2. UNCHANGED <<slots, fd>>
    BY DEF Seek
  <2>3. Seekers /\ Owners
    BY DEF DescInv
  <2> QED BY <2>1, <2>2, <2>3, SeekersKeep, ClientFeedAssumption
<1>7. UniqueSlot'
  BY <1>0, ClientFeedAssumption DEF DescInv, TypeOK, Seekers, UniqueSlot, Seek, Go
<1> QED BY <1>1, <1>2, <1>3, <1>4, <1>5, <1>6, <1>7 DEF DescInv

LEMMA TakeDesc ==
  ASSUME DescInv, NEW c \in Client, Take(c)
  PROVE  DescInv'
<1>0. 1 \in Slot /\ Shown(buf) \subseteq Msg
  BY ClientFeedAssumption DEF Slot, Shown
<1>1. TypeOK'
  <2>1. \A d \in Client : at'[d] \in IF pc'[d] = "dump" THEN 1 .. Len(buf') ELSE Slot
    BY <1>0, ClientFeedAssumption DEF DescInv, GoodBuf, TypeOK, Owners, Take, End
  <2> QED BY <1>0, <2>1 DEF DescInv, TypeOK, Take, End
<1>2. GoodBuf(buf')
  BY <1>0, ClientFeedAssumption DEF DescInv, Take, End
<1>3. Owners'
  BY <1>0, ClientFeedAssumption DEF DescInv, TypeOK, Owners, Take, End
<1>4. OneEach'
  BY <1>0, ClientFeedAssumption DEF DescInv, TypeOK, Owners, OneEach, Take, End
<1>5. Listed'
  <2>1. /\ UNCHANGED <<open, wr>> /\ pc'[c] = "done"
        /\ \A d \in Client : pc[d] = "done" => pc'[d] = "done"
        /\ \A i \in Slot : slots'[i] = slots[i] \/ slots'[i] = fd[c]
    BY DEF Take, End, DescInv, TypeOK
  <2>2. fd[c] \in Fd /\ open[fd[c]] = c /\ c \in Client \ Remote /\ fd[c] # Empty
    BY ClientFeedAssumption DEF Take, DescInv, Owners
  <2>3. ASSUME NEW i \in Slot, slots'[i] # Empty, ~ Closing(i)
        PROVE  open[slots'[i]] \in Client \ Remote /\ pc'[open[slots'[i]]] = "done"
    <3>1. CASE slots'[i] = fd[c]
      BY <2>1, <2>2, <3>1
    <3>2. CASE slots'[i] = slots[i]
      BY <2>1, <2>3, <3>2 DEF DescInv, Listed
    <3> QED BY <2>1, <3>1, <3>2
  <2>4. wr # Idle /\ wr.at # "write" => slots'[wr.slot] # Empty
    BY <2>1, <2>2, WrType DEF DescInv, Listed
  <2> QED BY <2>1, <2>3, <2>4 DEF Listed, Closing
<1>6. Seekers'
  <2>1. \A d \in Client : d # c /\ pc[d] \in {"seek", "take"} => fd[d] # fd[c]
    BY DEF DescInv, Owners, Take
  <2>2. \A i \in Slot : slots'[i] \in {slots[i], fd[c]}
    BY DEF DescInv, TypeOK, Take
  <2>3. \A d \in Client : pc'[d] \in {"seek", "take"} => d # c /\ pc[d] = pc'[d] /\ fd'[d] = fd[d]
    BY DEF DescInv, TypeOK, Take, End
  <2> QED BY <2>1, <2>2, <2>3 DEF DescInv, Seekers
<1>7. UniqueSlot'
  BY <1>0, ClientFeedAssumption DEF DescInv, TypeOK, Seekers, UniqueSlot, Take, End
<1> QED BY <1>1, <1>2, <1>3, <1>4, <1>5, <1>6, <1>7 DEF DescInv

LEMMA DescStep == DescInv /\ [Next]_vars => DescInv'
<1> SUFFICES ASSUME DescInv, [Next]_vars PROVE DescInv'
  OBVIOUS
<1>1. CASE Reader
  BY <1>1, CopyDesc, WriteSlotDesc, CloseSlotDesc, ClearSlotDesc DEF Reader
<1>2. ASSUME NEW m \in Msg, Sync(m) PROVE DescInv'
  BY <1>2, SyncDesc
<1>3. ASSUME NEW c \in Client, Handler(c) PROVE DescInv'
  BY <1>3, DumpDesc, CloseDesc, CheckDesc, SeekDesc, TakeDesc DEF Handler
<1>4. ASSUME NEW c \in Client, Hangup(c) \/ \E f \in Fd : Accept(c, f) PROVE DescInv'
  BY <1>4, HangupDesc, AcceptDesc
<1>5. CASE UNCHANGED vars
  BY <1>5 DEF DescInv, vars, TypeOK, Places, Owners, OneEach, Listed, Closing, Seekers,
              UniqueSlot
<1> QED BY <1>1, <1>2, <1>3, <1>4, <1>5 DEF Next

LEMMA InitDesc == Init => DescInv /\ Shown(buf) = {}
<1> SUFFICES ASSUME Init PROVE DescInv /\ Shown(buf) = {}
  OBVIOUS
<1>1. PICK m \in Mine : buf = <<[id |-> m, count |-> 1]>>
  BY DEF Init
<1> DEFINE e == [id |-> m, count |-> 1]
<1>2. e \in Entries(Msg) /\ m \in Msg
  BY <1>1, ClientFeedAssumption, MsgBufAssumption DEF Entries
<1>3. buf = <<e>> /\ e.id = m /\ e.count = 1
  BY <1>1
<1> HIDE DEF e
<1>4. buf \in Seq(Entries(Msg)) /\ Len(buf) = 1 /\ buf[1] = e
  BY <1>2, <1>3
<1>5. GoodBuf(buf)
  BY <1>4, MsgBufAssumption DEF GoodBuf, Distinct
<1>6. Shown(buf) = {}
  <2>1. ASSUME NEW n \in Shown(buf) PROVE FALSE
    <3>1. PICK i \in 1 .. Len(buf) : buf[i].id = n /\ ~ (n \in Mine /\ buf[i].count <= 1)
      BY <1>5, ShownEntry
    <3>2. i = 1
      BY <1>4
    <3> QED BY <1>1, <1>3, <1>4, <3>1, <3>2
  <2> QED BY <2>1
<1>7. PICK first \in Fd :
        /\ slots = [i \in Slot |-> IF i = 1 THEN first ELSE Empty]
        /\ open = [f \in Fd |-> IF f = first THEN First ELSE Nobody]
  BY DEF Init
<1>8. 1 \in Slot
  BY ClientFeedAssumption DEF Slot
<1>9. TypeOK
  BY <1>4, <1>5, <1>7, <1>8, ClientFeedAssumption DEF TypeOK, GoodBuf, Init
<1>10. Owners /\ OneEach /\ Listed /\ Seekers /\ UniqueSlot
  BY <1>7, <1>8, ClientFeedAssumption DEF Init, Owners, OneEach, Listed, Closing, Seekers,
                                          UniqueSlot
<1> QED BY <1>5, <1>6, <1>9, <1>10 DEF DescInv

\* The state stays well typed.
THEOREM FeedTypes == Spec => []TypeOK
<1>1. DescInv => TypeOK
  BY DEF DescInv
<1> QED BY <1>1, InitDesc, DescStep, PTL DEF Spec

\* msgbuf_addsock enters no socket twice, although its two loops and the
\* reader's close() interleave and descriptors are used again.
THEOREM SlotsAreUnique == Spec => []UniqueSlot
<1>1. DescInv => UniqueSlot
  BY DEF DescInv
<1> QED BY <1>1, InitDesc, DescStep, PTL DEF Spec
-----------------------------------------------------------------------------
(* Writes.                                                                 *)

\* A client that is being dumped to was written only what is before its place.
Dumping ==
  \A c \in Client, m \in Msg, w \in {"cipher", "clear"} :
    pc[c] \in {"away", "dump"} /\ got[c][<<m, w>>] > 0 =>
      \E i \in 1 .. Len(buf) : i < at[c] /\ buf[i].id = m

\* Who was fed a message was in the list, and is behind the reader in the pass.
Feeding ==
  \A c \in Client, m \in Msg : got[c][<<m, "feed">>] > 0 =>
    /\ pc[c] = "done"
    /\ wr # Idle /\ wr.msg = m =>
         \A j \in Slot : slots[j] # Empty /\ open[slots[j]] = c => j < wr.slot

WriteInv ==
  /\ DescInv
  /\ AckedFirst /\ (wr # Idle => wr.msg \in Shown(buf))
  /\ PlainStaysLocal /\ Dumping /\ Feeding /\ OncePerWay

\* A step that writes to nobody.
Quietly ==
  /\ got' = got
  /\ Shown(buf) \subseteq Shown(buf') /\ Len(buf) <= Len(buf')
  /\ \A i \in 1 .. Len(buf) : buf'[i].id = buf[i].id
  /\ \A c \in Client :
       /\ pc'[c] \in {"away", "dump"} => pc[c] \in {"away", "dump"} /\ at'[c] = at[c]
       /\ pc[c] = "done" => pc'[c] = "done"
       /\ \A j \in Slot : pc[c] = "done" /\ slots'[j] # Empty /\ open'[slots'[j]] = c =>
            slots[j] # Empty /\ open[slots[j]] = c
  /\ wr' # Idle =>
       /\ wr'.msg \in Shown(buf')
       /\ wr'.msg \in Shown(buf) =>
            wr # Idle /\ wr'.msg = wr.msg /\ wr'.slot \in Slot /\ wr'.slot >= wr.slot

LEMMA WritesNothing ==
  ASSUME WriteInv, DescInv', Quietly
  PROVE  WriteInv'
<1>1. Len(buf) \in Nat /\ Len(buf') \in Nat
  BY LenProperties DEF WriteInv, DescInv, GoodBuf
<1>2. AckedFirst' /\ (wr # Idle => wr.msg \in Shown(buf))'
  BY DEF WriteInv, AckedFirst, Quietly
<1>3. PlainStaysLocal' /\ OncePerWay'
  <2>1. PlainStaysLocal /\ OncePerWay /\ got' = got
    BY DEF WriteInv, Quietly
  <2> QED BY <2>1 DEF PlainStaysLocal, OncePerWay
<1>4. Dumping'
  <2> SUFFICES ASSUME NEW c \in Client, NEW m \in Msg, NEW w \in {"cipher", "clear"},
                      pc'[c] \in {"away", "dump"}, got[c][<<m, w>>] > 0
               PROVE  \E i \in 1 .. Len(buf') : i < at'[c] /\ buf'[i].id = m
    <3>1. got' = got
      BY DEF Quietly
    <3> QED BY <3>1 DEF Dumping
  <2>1. Dumping /\ pc[c] \in {"away", "dump"} /\ at'[c] = at[c]
    BY DEF WriteInv, Quietly
  <2>2. PICK i \in 1 .. Len(buf) : i < at[c] /\ buf[i].id = m
    BY <2>1 DEF Dumping
  <2>3. i \in 1 .. Len(buf') /\ i < at'[c] /\ buf'[i].id = m
    BY <1>1, <2>1, <2>2 DEF Quietly
  <2> QED BY <2>3
<1>5. Feeding'
  <2> SUFFICES ASSUME NEW c \in Client, NEW m \in Msg, got[c][<<m, "feed">>] > 0,
                      wr' # Idle, wr'.msg = m,
                      NEW j \in Slot, slots'[j] # Empty, open'[slots'[j]] = c
               PROVE  j < wr'.slot
    <3>1. got' = got /\ Feeding /\ \A c \in Client : pc[c] = "done" => pc'[c] = "done"
      BY DEF Quietly, WriteInv
    <3> QED BY <3>1 DEF Feeding
  <2>1. m \in Shown(buf)
    BY DEF WriteInv, AckedFirst, Way
  <2>2. wr # Idle /\ wr'.msg = wr.msg /\ wr'.slot \in Slot /\ wr'.slot >= wr.slot /\ wr.slot \in Slot
    BY <2>1, WrType DEF WriteInv, DescInv, Quietly
  <2>3. j < wr.slot
    <3>1. pc[c] = "done"
      BY DEF WriteInv, Feeding
    <3>2. slots[j] # Empty /\ open[slots[j]] = c
      BY <3>1 DEF Quietly
    <3> QED BY <2>2, <3>2 DEF WriteInv, Feeding
  <2> QED BY <2>2, <2>3, ClientFeedAssumption DEF Slot
<1> QED BY <1>2, <1>3, <1>4, <1>5 DEF WriteInv

LEMMA CopyWrites ==
  ASSUME WriteInv, NEW m \in Msg, Copy(m)
  PROVE  WriteInv'
<1>1. DescInv'
  BY CopyDesc DEF WriteInv
<1>2. /\ Grown(buf, buf', m) /\ wr = Idle
      /\ wr' # Idle => wr'.msg = m /\ m \notin Shown(buf) /\ m \in Shown(buf')
  BY CopyGrows DEF Copy, WriteInv, DescInv
<1> QED BY <1>1, <1>2, WritesNothing DEF Copy, Grown, Quietly

LEMMA SyncWrites ==
  ASSUME WriteInv, NEW m \in Msg, Sync(m)
  PROVE  WriteInv'
<1>1. DescInv'
  BY SyncDesc DEF WriteInv
<1>2. Grown(buf, buf', m)
  BY AppendGrows, MsgBufAssumption DEF Sync, WriteInv, DescInv
<1>3. wr # Idle => wr.slot \in Slot /\ wr.slot >= wr.slot /\ wr.msg \in Shown(buf)
  BY WrType, ClientFeedAssumption DEF WriteInv, DescInv, Slot
<1> QED BY <1>1, <1>2, <1>3, WritesNothing DEF Sync, Grown, Quietly

LEMMA CloseClearWrites ==
  ASSUME WriteInv, CloseSlot \/ ClearSlot
  PROVE  WriteInv'
<1>1. DescInv'
  BY CloseSlotDesc, ClearSlotDesc DEF WriteInv
<1>2. wr # Idle /\ wr.slot \in Slot /\ slots[wr.slot] \in Fd \cup {Empty} /\ wr.msg \in Shown(buf)
  BY WrType DEF WriteInv, DescInv, TypeOK, CloseSlot, ClearSlot
<1>3. wr' # Idle => wr'.msg = wr.msg /\ wr'.slot \in Slot /\ wr'.slot >= wr.slot
  <2>1. CASE CloseSlot
    BY <1>2, <2>1, WrType, ClientFeedAssumption DEF CloseSlot, WriteInv, DescInv, Slot
  <2>2. CASE ClearSlot
    BY <1>2, <2>2, NextSlotIs, ClientFeedAssumption DEF ClearSlot, WriteInv, DescInv, Slot
  <2> QED BY <2>1, <2>2
<1>4. /\ UNCHANGED <<buf, got, pc, at>>
      /\ \A j \in Slot : slots'[j] # Empty => slots'[j] = slots[j]
  BY <1>2 DEF CloseSlot, ClearSlot, WriteInv, DescInv, TypeOK
<1>5. \A c \in Client, f \in Fd : open'[f] = c => open[f] = c
  BY <1>2, ClientFeedAssumption DEF CloseSlot, ClearSlot, WriteInv, DescInv, TypeOK
<1>6. \A j \in Slot : slots[j] # Empty => slots[j] \in Fd
  BY DEF WriteInv, DescInv, TypeOK
<1>7. Len(buf) <= Len(buf)
  BY LenProperties DEF WriteInv, DescInv, GoodBuf
<1> QED BY <1>1, <1>2, <1>3, <1>4, <1>5, <1>6, <1>7, WritesNothing DEF Quietly

\* The steps of clients that write nothing: those that leave buf, wr and got.
LEMMA HandlerWrites ==
  ASSUME WriteInv, NEW c \in Client,
         \/ Close(c) \/ Check(c) \/ Seek(c) \/ Take(c) \/ Hangup(c)
         \/ \E f \in Fd : Accept(c, f)
  PROVE  WriteInv'
<1>1. DescInv'
  BY CloseDesc, CheckDesc, SeekDesc, TakeDesc, HangupDesc, AcceptDesc DEF WriteInv
<1>2. /\ UNCHANGED <<buf, wr, got>> /\ Len(buf) <= Len(buf)
  BY LenProperties DEF WriteInv, DescInv, GoodBuf, Close, Check, Seek, Take, Hangup, Accept
<1>3. wr # Idle => wr.slot \in Slot /\ wr.slot >= wr.slot /\ wr.msg \in Shown(buf)
  BY WrType, ClientFeedAssumption DEF WriteInv, DescInv, Slot
<1>4. ASSUME NEW d \in Client
      PROVE  /\ pc'[d] \in {"away", "dump"} => pc[d] \in {"away", "dump"} /\ at'[d] = at[d]
             /\ pc[d] = "done" => pc'[d] = "done"
  BY DEF WriteInv, DescInv, TypeOK, Close, Check, Seek, Take, Hangup, Accept, Go, End
<1>5. ASSUME NEW d \in Client, NEW j \in Slot, pc[d] = "done",
             slots'[j] # Empty, open'[slots'[j]] = d
      PROVE  slots[j] # Empty /\ open[slots[j]] = d
  <2>1. slots[j] \in Fd \cup {Empty} /\ d # Nobody
    BY ClientFeedAssumption DEF WriteInv, DescInv, TypeOK
  <2>2. CASE Close(c)
    BY <1>5, <2>1, <2>2 DEF Close, End, WriteInv, DescInv, TypeOK, Owners
  <2>3. CASE Check(c) \/ Seek(c) \/ Hangup(c)
    BY <1>5, <2>3 DEF Check, Seek, Hangup
  <2>4. CASE Take(c)
    BY <1>5, <2>1, <2>4 DEF Take, WriteInv, DescInv, TypeOK, Owners
  <2>5. ASSUME NEW f \in Fd, Accept(c, f) PROVE slots[j] # Empty /\ open[slots[j]] = d
    BY <1>5, <2>1, <2>5 DEF Accept, Go, WriteInv, DescInv, TypeOK
  <2> QED BY <2>2, <2>3, <2>4, <2>5
<1> QED BY <1>1, <1>2, <1>3, <1>4, <1>5, WritesNothing DEF Quietly

LEMMA WriteSlotWrites ==
  ASSUME WriteInv, WriteSlot
  PROVE  WriteInv'
<1>1. DescInv /\ DescInv'
  BY WriteSlotDesc DEF WriteInv
<1> DEFINE v == <<wr.msg, "feed">>
<1>2. /\ wr # Idle /\ wr.at = "write" /\ wr.slot \in Slot /\ wr.msg \in Msg
      /\ wr.msg \in Shown(buf) /\ UNCHANGED <<buf, slots, open, pc, at>>
  BY WriteSlotDoes, WrType DEF WriteInv, DescInv, WriteSlot
<1>3. wr' # Idle => wr'.msg = wr.msg /\ wr'.slot \in Slot /\ wr'.slot >= wr.slot
  <2>1. wr \in [msg : Msg, slot : Slot, at : Places] /\ wr.slot \in Nat
    BY <1>1, <1>2, WrType, ClientFeedAssumption DEF DescInv, Slot
  <2>2. CASE NextSlot
    BY <1>1, <1>2, <2>1, <2>2, NextSlotIs DEF DescInv
  <2>3. CASE wr' = [wr EXCEPT !.at = "close"]
    BY <1>2, <2>1, <2>3
  <2> QED BY <1>1, <2>2, <2>3, WriteSlotDoes
<1>4. ASSUME NEW c \in Client, NEW u \in Msg \X Way, got'[c][u] # got[c][u]
      PROVE  /\ u = v /\ got'[c][u] = got[c][u] + 1 /\ c \notin Remote /\ pc[c] = "done"
             /\ slots[wr.slot] # Empty /\ open[slots[wr.slot]] = c /\ NextSlot
             /\ got[c][u] = 0
  <2>1. /\ u = v /\ got'[c][u] = got[c][u] + 1
        /\ slots[wr.slot] # Empty /\ open[slots[wr.slot]] = c /\ NextSlot
    BY <1>1, <1>4, WriteSlotDoes
  <2>2. c \notin Remote /\ pc[c] = "done"
    BY <1>1, <1>2, <2>1 DEF DescInv, Listed, Closing
  <2>3. ~ got[c][v] > 0
    BY <1>2, <2>1, ClientFeedAssumption DEF WriteInv, Feeding, Slot
  <2>4. got[c][v] \in 0 .. 2
    BY <1>1, <2>1 DEF DescInv, TypeOK
  <2> QED BY <2>1, <2>2, <2>3, <2>4
<1>5. AckedFirst' /\ (wr # Idle => wr.msg \in Shown(buf))'
  BY <1>2, <1>3, <1>4 DEF WriteInv, AckedFirst
<1>6. PlainStaysLocal'
  <2>1. \A c \in Remote, u \in Msg \X Way : got'[c][u] = got[c][u]
    BY <1>4, ClientFeedAssumption
  <2> QED BY <2>1 DEF WriteInv, PlainStaysLocal, Way
<1>7. OncePerWay'
  BY <1>4 DEF WriteInv, OncePerWay
<1>8. Dumping'
  <2>1. \A c \in Client, m \in Msg, w \in {"cipher", "clear"} :
          got'[c][<<m, w>>] = got[c][<<m, w>>]
    BY <1>4 DEF Way
  <2>2. Dumping /\ UNCHANGED <<buf, pc, at>>
    BY <1>2 DEF WriteInv
  <2> QED BY <2>1, <2>2 DEF Dumping
<1>9. Feeding'
  <2> SUFFICES ASSUME NEW c \in Client, NEW m \in Msg, got'[c][<<m, "feed">>] > 0
               PROVE  /\ pc[c] = "done"
                      /\ wr' # Idle /\ wr'.msg = m =>
                           \A j \in Slot : slots[j] # Empty /\ open[slots[j]] = c => j < wr'.slot
    BY <1>2 DEF Feeding
  <2>1. CASE got'[c][<<m, "feed">>] = got[c][<<m, "feed">>]
    <3>1. wr' # Idle /\ wr'.msg = m =>
            \A j \in Slot : slots[j] # Empty /\ open[slots[j]] = c => j < wr.slot
      BY <1>2, <1>3, <2>1 DEF WriteInv, Feeding
    <3> QED BY <1>2, <1>3, <2>1, <3>1, ClientFeedAssumption DEF WriteInv, Feeding, Slot
  <2>2. CASE got'[c][<<m, "feed">>] # got[c][<<m, "feed">>]
    <3>1. pc[c] = "done" /\ slots[wr.slot] # Empty /\ open[slots[wr.slot]] = c /\ NextSlot
      BY <1>4, <2>2 DEF Way
    <3>2. slots[wr.slot] \in Fd /\ c # Nobody
      BY <1>1, <1>2, <3>1, ClientFeedAssumption DEF DescInv, TypeOK
    <3>3. ASSUME NEW j \in Slot, slots[j] # Empty, open[slots[j]] = c PROVE j = wr.slot
      <4>1. slots[j] = slots[wr.slot]
        BY <1>1, <3>1, <3>2, <3>3 DEF DescInv, OneEach, TypeOK
      <4> QED BY <1>1, <1>2, <3>3, <4>1 DEF DescInv, UniqueSlot
    <3>4. wr' # Idle => wr'.slot = wr.slot + 1
      BY <1>1, <1>2, <3>1, NextSlotIs DEF DescInv
    <3> QED BY <1>2, <3>1, <3>3, <3>4, ClientFeedAssumption DEF Slot
  <2> QED BY <2>1, <2>2
<1> QED BY <1>1, <1>5, <1>6, <1>7, <1>8, <1>9 DEF WriteInv

LEMMA DumpWrites ==
  ASSUME WriteInv, NEW c \in Client, Dump(c)
  PROVE  WriteInv'
<1> DEFINE n == at[c]
           way == DumpWay(c)
           v == <<buf[n].id, way>>
<1>1. DescInv /\ DescInv'
  BY DumpDesc DEF WriteInv
<1>2. /\ pc[c] = "dump" /\ n \in 1 .. Len(buf) /\ buf[n].id \in Msg /\ Len(buf) \in Nat
      /\ UNCHANGED <<buf, slots, open, wr>>
      /\ way \in {"cipher", "clear"} /\ "feed" \in Way
  BY <1>1, DumpDoes, LenProperties DEF Dump, DescInv, GoodBuf, Way, DumpWay
<1>10. /\ \A d \in Client : d # c => pc'[d] = pc[d] /\ at'[d] = at[d]
       /\ pc'[c] \in {"away", "dump"} => at'[c] = n + 1
  <2>1. at \in [Client -> Nat] /\ pc \in [Client -> {"away", "dump", "close", "check", "seek", "take", "done"}]
        /\ Dumped(c) \notin {"away", "dump"}
    BY <1>1 DEF DescInv, TypeOK, Dumped
  <2>2. CASE NextEntry(c)
    BY <2>1, <2>2 DEF NextEntry, Go
  <2>3. CASE at' = [at EXCEPT ![c] = 1] /\ Go(c, "dump", Dumped(c))
    BY <2>1, <2>3 DEF Go
  <2>4. NextEntry(c) \/ (at' = [at EXCEPT ![c] = 1] /\ Go(c, "dump", Dumped(c)))
    BY <1>1, DumpDoes
  <2> QED BY <2>2, <2>3, <2>4
<1>3. ASSUME NEW d \in Client, NEW u \in Msg \X Way, got'[d][u] # got[d][u]
      PROVE  /\ d = c /\ u = v /\ got'[d][u] = got[d][u] + 1 /\ NextEntry(c)
             /\ buf[n].id \in Shown(buf) /\ got[d][u] = 0
  <2>1. /\ d = c /\ u = v /\ got'[d][u] = got[d][u] + 1 /\ NextEntry(c)
        /\ buf[n].id \in Shown(buf)
    <3>1. \/ got'[d][u] = got[d][u]
          \/ /\ d = c /\ got'[d][u] = got[d][u] + 1
             /\ u = <<buf[at[c]].id, DumpWay(c)>>
             /\ buf[at[c]].id \in Shown(buf) /\ NextEntry(c)
      BY <1>1, DumpDoes
    <3> QED BY <1>3, <3>1
  <2>2. ~ got[c][v] > 0
    <3>1. \A i \in 1 .. Len(buf) : buf[i].id = buf[n].id => i = n
      BY <1>1, <1>2 DEF DescInv, GoodBuf, Distinct
    <3>2. got[c][v] > 0 => \E i \in 1 .. Len(buf) : i < n /\ buf[i].id = buf[n].id
      BY <1>2 DEF WriteInv, Dumping
    <3> QED BY <1>2, <3>1, <3>2
  <2>3. got[c][v] \in 0 .. 2
    BY <1>1, <2>1 DEF DescInv, TypeOK
  <2> QED BY <2>1, <2>2, <2>3
<1>4. AckedFirst' /\ (wr # Idle => wr.msg \in Shown(buf))'
  BY <1>2, <1>3 DEF WriteInv, AckedFirst
<1>5. PlainStaysLocal'
  <2>1. \A d \in Remote, m \in Msg :
          /\ got'[d][<<m, "clear">>] = got[d][<<m, "clear">>]
          /\ got'[d][<<m, "feed">>] = got[d][<<m, "feed">>]
    BY <1>3, ClientFeedAssumption DEF Way, DumpWay
  <2> QED BY <2>1 DEF WriteInv, PlainStaysLocal
<1>6. OncePerWay'
  BY <1>3 DEF WriteInv, OncePerWay
<1>7. Feeding'
  <2>1. \A d \in Client, m \in Msg : got'[d][<<m, "feed">>] = got[d][<<m, "feed">>]
    BY <1>2, <1>3
  <2>2. \A d \in Client : pc[d] = "done" => pc'[d] = "done"
    BY <1>2, <1>10
  <2> QED BY <1>2, <2>1, <2>2 DEF WriteInv, Feeding
<1>8. Dumping'
  <2> SUFFICES ASSUME NEW d \in Client, NEW m \in Msg, NEW w \in {"cipher", "clear"},
                      pc'[d] \in {"away", "dump"}, got'[d][<<m, w>>] > 0
               PROVE  \E i \in 1 .. Len(buf) : i < at'[d] /\ buf[i].id = m
    BY <1>2 DEF Dumping
  <2>1. CASE d # c
    <3>1. pc[d] = pc'[d] /\ at'[d] = at[d]
      BY <1>10, <2>1
    <3>2. got[d][<<m, w>>] > 0
      BY <1>3, <2>1 DEF Way
    <3> QED BY <3>1, <3>2 DEF WriteInv, Dumping
  <2>2. CASE d = c
    <3>1. at'[c] = n + 1
      BY <1>10, <2>2
    <3>2. CASE got'[d][<<m, w>>] = got[d][<<m, w>>]
      <4>1. PICK i \in 1 .. Len(buf) : i < n /\ buf[i].id = m
        BY <1>2, <2>2, <3>2 DEF WriteInv, Dumping
      <4> QED BY <1>2, <2>2, <3>1, <4>1
    <3>3. CASE got'[d][<<m, w>>] # got[d][<<m, w>>]
      <4>1. m = buf[n].id
        BY <1>3, <3>3 DEF Way
      <4> QED BY <1>2, <2>2, <3>1, <4>1
    <3> QED BY <3>2, <3>3
  <2> QED BY <2>1, <2>2
<1> QED BY <1>1, <1>4, <1>5, <1>6, <1>7, <1>8 DEF WriteInv

LEMMA WriteStep == WriteInv /\ [Next]_vars => WriteInv'
<1> SUFFICES ASSUME WriteInv, [Next]_vars PROVE WriteInv'
  OBVIOUS
<1>1. CASE Reader
  BY <1>1, CopyWrites, WriteSlotWrites, CloseClearWrites DEF Reader
<1>2. ASSUME NEW m \in Msg, Sync(m) PROVE WriteInv'
  BY <1>2, SyncWrites
<1>3. ASSUME NEW c \in Client, Handler(c) PROVE WriteInv'
  BY <1>3, DumpWrites, HandlerWrites DEF Handler
<1>4. ASSUME NEW c \in Client, Hangup(c) \/ \E f \in Fd : Accept(c, f) PROVE WriteInv'
  BY <1>4, HandlerWrites
<1>5. CASE UNCHANGED vars
  <2>1. DescInv'
    BY <1>5, DescStep DEF WriteInv
  <2> QED BY <1>5, <2>1 DEF WriteInv, vars, AckedFirst, PlainStaysLocal, Dumping, Feeding,
                            OncePerWay
<1> QED BY <1>1, <1>2, <1>3, <1>4, <1>5 DEF Next

LEMMA InitWrites == Init => WriteInv
<1> SUFFICES ASSUME Init PROVE WriteInv
  OBVIOUS
<1>1. DescInv
  BY InitDesc
<1>2. wr = Idle /\ \A c \in Client, v \in Msg \X Way : got[c][v] = 0
  BY DEF Init
<1>3. PlainStaysLocal
  BY <1>2, ClientFeedAssumption DEF PlainStaysLocal, Way
<1>4. AckedFirst /\ OncePerWay
  BY <1>2 DEF AckedFirst, OncePerWay
<1>5. Dumping /\ Feeding
  BY <1>2 DEF Dumping, Feeding, Way
<1> QED BY <1>1, <1>2, <1>3, <1>4, <1>5 DEF WriteInv

\* "Encrypt if this is not a local client" (msgbuf.c): what is written in clear,
\* by the dump or by the reader, leads to a client of this phone.
THEOREM PlainIsLocal == Spec => []PlainStaysLocal
<1>1. WriteInv => PlainStaysLocal
  BY DEF WriteInv
<1> QED BY <1>1, InitWrites, WriteStep, PTL DEF Spec

\* "Require local messages to be acknowledged": neither the dump nor the reader
\* writes an own message that was seen once only.
THEOREM OwnAreAcked == Spec => []AckedFirst
<1>1. WriteInv => AckedFirst
  BY DEF WriteInv
<1> QED BY <1>1, InitWrites, WriteStep, PTL DEF Spec

\* No client is dumped a message twice, or fed one twice, also when copies of
\* it and clients come in the middle of a pass over the slots.
THEOREM NothingTwice == Spec => []OncePerWay
<1>1. WriteInv => OncePerWay
  BY DEF WriteInv
<1> QED BY <1>1, InitWrites, WriteStep, PTL DEF Spec
-----------------------------------------------------------------------------
(* What a client misses.                                                   *)

Sent(c, m) == got[c][<<m, "cipher">>] + got[c][<<m, "clear">>] > 0

\* What was to be shown when c connected is shown still, and the dump gives it
\* entry by entry.
Caught(c) ==
  /\ pc[c] = "dump" =>
       /\ since[c] \subseteq Shown(buf)
       /\ \A i \in 1 .. Len(buf) : i < at[c] /\ buf[i].id \in since[c] => Sent(c, buf[i].id)
  /\ pc[c] \notin {"away", "dump"} => \A m \in since[c] : Sent(c, m)

\* The reader has yet to come to the slot i with the message m.
Ahead(i, m) == wr # Idle /\ wr.msg = m /\ (wr.slot < i \/ (wr.slot = i /\ wr.at = "write"))

InSlot(c, i) == slots[i] # Empty /\ ~ Closing(i) /\ open[slots[i]] = c

\* What came up since c was registered was fed to it, or will be.
Fed(c) ==
  \A i \in Slot, m \in Shown(buf) \ (synced \cup early[c]) :
    InSlot(c, i) => got[c][<<m, "feed">>] > 0 \/ Ahead(i, m)

GapInv == DescInv /\ \A c \in Client \ gone : Caught(c) /\ Fed(c)

LEMMA GotGrows ==
  ASSUME DescInv, Next
  PROVE  /\ DescInv' /\ gone \subseteq gone'
         /\ \A c \in Client, v \in Msg \X Way :
              /\ got[c][v] \in 0 .. 2 /\ got'[c][v] \in 0 .. 2 /\ got[c][v] <= got'[c][v]
         /\ \A c \in Client, m \in Msg :
              /\ Sent(c, m) => Sent(c, m)'
              /\ got[c][<<m, "feed">>] > 0 => got'[c][<<m, "feed">>] > 0
<1>1. DescInv'
  BY DescStep
<1>2. \A c \in Client, v \in Msg \X Way : got[c][v] \in 0 .. 2 /\ got'[c][v] \in 0 .. 2
  BY <1>1 DEF DescInv, TypeOK
<1>3. gone \subseteq gone'
  BY DEF Next, Reader, Handler, Copy, Sync, WriteSlot, CloseSlot, ClearSlot, Dump, Close,
         Check, Seek, Take, Hangup, Accept
<1>4. ASSUME NEW c \in Client, NEW v \in Msg \X Way PROVE got[c][v] <= got'[c][v]
  <2>1. CASE got' = got
    BY <1>2, <2>1
  <2>2. CASE WriteSlot
    <3>1. got'[c][v] = got[c][v] \/ got'[c][v] = got[c][v] + 1
      BY <2>2, WriteSlotDoes
    <3> QED BY <1>2, <3>1
  <2>3. ASSUME NEW d \in Client, Dump(d) PROVE got[c][v] <= got'[c][v]
    <3>1. got'[c][v] = got[c][v] \/ got'[c][v] = got[c][v] + 1
      BY <2>3, DumpDoes
    <3> QED BY <1>2, <3>1
  <2> QED BY <2>1, <2>2, <2>3 DEF Next, Reader, Handler, Copy, Sync, CloseSlot, ClearSlot,
                                  Close, Check, Seek, Take, Hangup, Accept
<1>5. ASSUME NEW c \in Client, NEW m \in Msg
      PROVE  /\ Sent(c, m) => Sent(c, m)'
             /\ got[c][<<m, "feed">>] > 0 => got'[c][<<m, "feed">>] > 0
  <2>1. /\ <<m, "cipher">> \in Msg \X Way /\ <<m, "clear">> \in Msg \X Way
        /\ <<m, "feed">> \in Msg \X Way
    BY DEF Way
  <2> QED BY <1>2, <1>4, <2>1 DEF Sent
<1> QED BY <1>1, <1>2, <1>3, <1>4, <1>5

\* The buffer in any step.
LEMMA BufGrows ==
  ASSUME DescInv, Next
  PROVE  /\ Len(buf) \in Nat /\ Len(buf') \in Nat /\ Len(buf) <= Len(buf')
         /\ \A i \in 1 .. Len(buf) : buf'[i].id = buf[i].id
         /\ Shown(buf) \subseteq Shown(buf') /\ Shown(buf) \subseteq Msg
<1>1. GoodBuf(buf) /\ GoodBuf(buf')
  BY DescStep DEF DescInv
<1>2. Len(buf) \in Nat /\ Len(buf') \in Nat
  BY <1>1, LenProperties DEF GoodBuf
<1>3. buf' = buf \/ \E m \in Msg : Grown(buf, buf', m)
  <2>1. ASSUME NEW m \in Msg, Copy(m) PROVE Grown(buf, buf', m)
    BY <1>1, <2>1, CopyGrows DEF Copy
  <2>2. ASSUME NEW m \in Msg, Sync(m) PROVE Grown(buf, buf', m)
    BY <1>1, <2>2, AppendGrows, MsgBufAssumption DEF Sync
  <2> QED BY <2>1, <2>2 DEF Next, Reader, Handler, WriteSlot, CloseSlot, ClearSlot, Dump,
                            Close, Check, Seek, Take, Hangup, Accept
<1>4. Shown(buf) \subseteq Msg
  BY DEF Shown
<1> QED BY <1>2, <1>3, <1>4 DEF Grown

\* A step that is not of the dump of c.
LEMMA CaughtKeeps ==
  ASSUME GapInv, Next, NEW c \in Client \ gone', since'[c] = since[c],
         pc'[c] = "dump" => pc[c] = "dump" /\ at'[c] = at[c],
         pc'[c] \notin {"away", "dump"} => pc[c] \notin {"away", "dump"}
  PROVE  Caught(c)'
<1>1. DescInv /\ Caught(c) /\ since[c] \subseteq Msg
  BY GotGrows DEF GapInv, DescInv, TypeOK
<1>2. \A m \in Msg : Sent(c, m) => Sent(c, m)'
  BY <1>1, GotGrows
<1>3. CASE pc'[c] = "dump"
  <2>1. ASSUME NEW m \in since[c], NEW i \in 1 .. Len(buf'), i < at'[c], buf'[i].id = m
        PROVE  Sent(c, m)'
    <3>1. at[c] \in 1 .. Len(buf) /\ at'[c] = at[c]
      BY <1>1, <1>3 DEF DescInv, TypeOK
    <3>2. i \in 1 .. Len(buf) /\ i < at[c] /\ buf'[i].id = buf[i].id
      BY <2>1, <3>1, BufGrows, <1>1
    <3>3. Sent(c, m)
      BY <1>1, <1>3, <2>1, <3>2 DEF Caught
    <3> QED BY <1>1, <1>2, <3>3
  <2>2. since[c] \subseteq Shown(buf')
    BY <1>1, <1>3, BufGrows DEF Caught
  <2> QED BY <1>3, <2>1, <2>2 DEF Caught
<1>4. CASE pc'[c] \notin {"away", "dump"}
  BY <1>1, <1>2, <1>4 DEF Caught
<1>5. CASE pc'[c] = "away"
  BY <1>5 DEF Caught
<1> QED BY <1>3, <1>4, <1>5

LEMMA DumpCaught ==
  ASSUME GapInv, NEW c \in Client \ gone, Dump(c), Next
  PROVE  Caught(c)'
<1> DEFINE n == at[c]
           v == <<buf[n].id, DumpWay(c)>>
<1>1. /\ DescInv /\ Caught(c) /\ since[c] \subseteq Msg /\ since'[c] = since[c] /\ buf' = buf
      /\ gone' = gone
  BY DEF GapInv, DescInv, TypeOK, Dump
<1>2. /\ pc[c] = "dump" /\ n \in 1 .. Len(buf) /\ buf[n].id \in Msg /\ NextEntry(c)
      /\ buf[n].id \in Shown(buf) => got'[c][v] > 0
  <2>1. /\ pc[c] = "dump" /\ at[c] \in 1 .. Len(buf) /\ buf[at[c]].id \in Msg
        /\ buf[at[c]].id \in Shown(buf) => got'[c][<<buf[at[c]].id, DumpWay(c)>>] > 0
    BY <1>1, DumpDoes
  <2>2. NextEntry(c)
    BY <1>1, DumpDoes
  <2> QED BY <2>1, <2>2
<1>3. \A m \in Msg : Sent(c, m) => Sent(c, m)'
  BY <1>1, GotGrows
<1>4. ASSUME NEW m \in since[c], buf[n].id = m PROVE Sent(c, m)'
  <2>1. m \in Shown(buf) /\ m \in Msg
    BY <1>1, <1>2, <1>4 DEF Caught
  <2>2. /\ got'[c][<<m, "cipher">>] \in 0 .. 2
        /\ got'[c][<<m, "clear">>] \in 0 .. 2
    BY <1>1, <2>1, GotGrows DEF Way
  <2>3. got'[c][<<m, "cipher">>] > 0 \/ got'[c][<<m, "clear">>] > 0
    BY <1>2, <1>4, <2>1 DEF DumpWay
  <2> QED BY <2>2, <2>3 DEF Sent
<1>5. ASSUME NEW m \in since[c], NEW i \in 1 .. Len(buf), i <= n, buf[i].id = m PROVE Sent(c, m)'
  <2>1. CASE i = n
    BY <1>4, <1>5, <2>1
  <2>2. CASE i # n
    <3>1. i < n
      BY <1>2, <1>5, <2>2
    <3>2. Sent(c, m)
      BY <1>1, <1>2, <1>5, <3>1 DEF Caught
    <3> QED BY <1>1, <1>3, <3>2
  <2> QED BY <2>1, <2>2
<1>6. at \in [Client -> Nat] /\ pc \in [Client -> {"away", "dump", "close", "check", "seek", "take", "done"}]
      /\ Dumped(c) \notin {"away", "dump"} /\ Len(buf) \in Nat
  BY <1>1, LenProperties DEF DescInv, TypeOK, Dumped, GoodBuf
<1>7. CASE n < Len(buf)
  <2>1. pc'[c] = "dump" /\ at'[c] = n + 1
    BY <1>2, <1>6, <1>7 DEF NextEntry
  <2>2. \A i \in 1 .. Len(buf) : i < n + 1 => i <= n
    BY <1>2
  <2> QED BY <1>1, <1>2, <1>5, <2>1, <2>2 DEF Caught
<1>8. CASE ~ n < Len(buf)
  <2>1. pc'[c] \notin {"away", "dump"}
    BY <1>2, <1>6, <1>8 DEF NextEntry, Go
  <2>2. ASSUME NEW m \in since[c] PROVE Sent(c, m)'
    <3>1. m \in Shown(buf)
      BY <1>1, <1>2 DEF Caught
    <3>2. PICK i \in 1 .. Len(buf) : buf[i].id = m
      BY <1>1, <3>1, ShownEntry DEF DescInv
    <3>3. i <= n
      BY <1>2, <1>6, <1>8
    <3> QED BY <1>5, <3>2, <3>3
  <2> QED BY <1>1, <2>1, <2>2 DEF Caught
<1> QED BY <1>7, <1>8

LEMMA CaughtStep ==
  ASSUME GapInv, Next, NEW c \in Client \ gone'
  PROVE  Caught(c)'
<1>1. DescInv /\ c \notin gone
  BY GotGrows DEF GapInv
<1>2. pc \in [Client -> {"away", "dump", "close", "check", "seek", "take", "done"}]
      /\ since \in [Client -> SUBSET Msg] /\ at \in [Client -> Nat]
  BY <1>1 DEF DescInv, TypeOK
<1>3. CASE Reader \/ (\E m \in Msg : Sync(m)) \/ (\E d \in Client : Hangup(d))
  BY <1>3, CaughtKeeps DEF Reader, Copy, WriteSlot, CloseSlot, ClearSlot, Sync, Hangup
<1>4. ASSUME NEW d \in Client, Dump(d) PROVE Caught(c)'
  <2>1. CASE d = c
    BY <1>1, <1>4, <2>1, DumpCaught
  <2>2. CASE d # c
    <3>1. since'[c] = since[c] /\ pc'[c] = pc[c] /\ at'[c] = at[c]
      <4>1. NextEntry(d) \/ (at' = [at EXCEPT ![d] = 1] /\ Go(d, "dump", Dumped(d)))
        BY <1>1, <1>4, DumpDoes
      <4>2. since' = since
        BY <1>4 DEF Dump
      <4> QED BY <1>2, <2>2, <4>1, <4>2 DEF NextEntry, Go
    <3> QED BY <3>1, CaughtKeeps
  <2> QED BY <2>1, <2>2
<1>5. ASSUME NEW d \in Client, Close(d) \/ Check(d) \/ Seek(d) \/ Take(d) PROVE Caught(c)'
  <2>1. /\ since'[c] = since[c]
        /\ pc'[c] \in {"away", "dump"} \/ pc[c] \in {"away", "dump"} => pc'[c] = pc[c] /\ at'[c] = at[c]
    BY <1>2, <1>5 DEF Close, Check, Seek, Take, Go, End
  <2> QED BY <1>2, <2>1, CaughtKeeps
<1>6. ASSUME NEW d \in Client, NEW f \in Fd, Accept(d, f) PROVE Caught(c)'
  <2>1. CASE d # c
    <3>1. since'[c] = since[c] /\ pc'[c] = pc[c] /\ at'[c] = at[c]
      BY <1>2, <1>6, <2>1 DEF Accept, Go
    <3> QED BY <3>1, CaughtKeeps
  <2>2. CASE d = c
    <3>1. pc'[c] = "dump" /\ since'[c] = Shown(buf) /\ buf' = buf /\ at' = at
      BY <1>2, <1>6, <2>2 DEF Accept, Go
    <3>2. at[c] = 1
      BY <1>1, <1>6, <2>2 DEF Accept, Go, DescInv, Owners
    <3> QED BY <3>1, <3>2 DEF Caught
  <2> QED BY <2>1, <2>2
<1> QED BY <1>3, <1>4, <1>5, <1>6 DEF Next, Handler

\* A step that neither moves the reader nor enters c in the list.
LEMMA FedKeeps ==
  ASSUME GapInv, Next, NEW c \in Client \ gone', wr' = wr, early'[c] = early[c],
         Shown(buf') \ synced' \subseteq Shown(buf) \ synced,
         \A i \in Slot : InSlot(c, i)' => InSlot(c, i)
  PROVE  Fed(c)'
<1>1. DescInv /\ Fed(c)
  BY GotGrows DEF GapInv
<1>2. \A m \in Msg : got[c][<<m, "feed">>] > 0 => got'[c][<<m, "feed">>] > 0
  BY <1>1, GotGrows
<1>3. \A m \in Shown(buf') : m \in Msg
  BY DEF Shown
<1> QED BY <1>1, <1>2, <1>3 DEF Fed, Ahead

LEMMA ReaderFed ==
  ASSUME GapInv, Next, NEW c \in Client \ gone', Reader
  PROVE  Fed(c)'
<1>1. DescInv /\ Fed(c) /\ c \notin gone /\ c # Nobody
  BY GotGrows, ClientFeedAssumption DEF GapInv
<1>2. \A m \in Msg : got[c][<<m, "feed">>] > 0 => got'[c][<<m, "feed">>] > 0
  BY <1>1, GotGrows
<1>3. UNCHANGED <<synced, early>> /\ \A m \in Shown(buf') : m \in Msg
  BY DEF Reader, Copy, WriteSlot, CloseSlot, ClearSlot, Shown
<1>4. ASSUME NEW m \in Msg, Copy(m) PROVE Fed(c)'
  <2>1. /\ wr = Idle /\ Grown(buf, buf', m) /\ UNCHANGED <<slots, open>>
        /\ Tells(buf, m) <=> m \notin Shown(buf) /\ m \in Shown(buf')
    BY <1>1, <1>4, CopyGrows DEF Copy, DescInv
  <2>2. \A i \in Slot : ~ Closing(i) /\ (InSlot(c, i)' => InSlot(c, i))
    BY <2>1 DEF Closing, InSlot
  <2>3. CASE Tells(buf, m)
    <3>1. wr' = [msg |-> m, slot |-> 1, at |-> "write"] /\ 1 \in Slot
      BY <1>4, <2>3, ClientFeedAssumption DEF Copy, Slot
    <3>2. wr' # Idle
      BY <3>1, ClientFeedAssumption
    <3>3. \A i \in Slot : Ahead(i, m)'
      BY <3>1, <3>2, ClientFeedAssumption DEF Ahead, Slot
    <3> QED BY <1>1, <1>2, <1>3, <2>1, <2>2, <3>3 DEF Fed, Grown, Ahead
  <2>4. CASE ~ Tells(buf, m)
    BY <1>1, <1>2, <1>3, <2>1, <2>2, <2>4 DEF Fed, Grown, Ahead
  <2> QED BY <2>3, <2>4
<1>5. CASE WriteSlot
  <2>1. /\ wr # Idle /\ wr.at = "write" /\ wr.slot \in Slot /\ wr.msg \in Msg
        /\ UNCHANGED <<buf, slots, open>>
    BY <1>1, <1>5, WriteSlotDoes, WrType DEF DescInv, WriteSlot
  <2>2. \A i \in Slot : ~ Closing(i)
    BY <2>1 DEF Closing
  <2>3. slots[wr.slot] # Empty /\ open[slots[wr.slot]] = c => got'[c][<<wr.msg, "feed">>] > 0
    BY <1>1, <1>5, WriteSlotDoes
  <2>4. CASE NextSlot
    <3>1. /\ wr' # Idle => wr'.msg = wr.msg /\ wr'.slot = wr.slot + 1
          /\ wr' # Idle => wr'.at = "write"
          /\ wr' = Idle => wr.slot = MAXCLIENTS
      BY <1>1, <2>1, <2>4, NextSlotIs DEF DescInv
    <3>2. ASSUME NEW i \in Slot, NEW m \in Msg, InSlot(c, i), Ahead(i, m)
          PROVE  got'[c][<<m, "feed">>] > 0 \/ Ahead(i, m)'
      <4>1. CASE i = wr.slot
        BY <2>3, <3>2, <4>1 DEF Ahead, InSlot
      <4>2. CASE i # wr.slot
        <5>1. wr.slot < i /\ wr.msg = m
          BY <3>2, <4>2 DEF Ahead
        <5> QED BY <2>1, <3>1, <5>1, ClientFeedAssumption DEF Ahead, Slot
      <4> QED BY <4>1, <4>2
    <3> QED BY <1>1, <1>2, <1>3, <2>1, <2>2, <3>2 DEF Fed, InSlot
  <2>5. CASE /\ slots[wr.slot] # Empty /\ open[slots[wr.slot]] \in gone \cup {Nobody}
             /\ wr' = [wr EXCEPT !.at = "close"]
    <3>1. /\ wr' # Idle /\ wr'.msg = wr.msg /\ wr'.slot = wr.slot
      BY <1>1, <2>1, <2>5, WrType, ClientFeedAssumption DEF DescInv, Places
    <3>2. ASSUME NEW i \in Slot, NEW m \in Msg, InSlot(c, i), Ahead(i, m) PROVE Ahead(i, m)'
      <4>1. i # wr.slot
        BY <1>1, <2>5, <3>2 DEF InSlot
      <4> QED BY <3>1, <3>2, <4>1 DEF Ahead
    <3> QED BY <1>1, <1>2, <1>3, <2>1, <2>2, <3>2 DEF Fed, InSlot
  <2> QED BY <1>1, <1>5, <2>4, <2>5, WriteSlotDoes
<1>6. CASE CloseSlot
  <2>1. /\ wr # Idle /\ wr.at = "close" /\ wr.slot \in Slot /\ slots[wr.slot] \in Fd
        /\ wr' # Idle /\ wr'.msg = wr.msg /\ wr'.slot = wr.slot /\ wr'.at = "clear"
        /\ UNCHANGED <<buf, slots>> /\ open' = [open EXCEPT ![slots[wr.slot]] = Nobody]
    BY <1>1, <1>6, WrType, ClientFeedAssumption DEF DescInv, CloseSlot, Listed, TypeOK,
                                                    Places
  <2>2. \A i \in Slot : InSlot(c, i)' => InSlot(c, i) /\ i # wr.slot
    BY <1>1, <2>1 DEF InSlot, Closing, DescInv, TypeOK
  <2> QED BY <1>1, <1>2, <1>3, <2>1, <2>2 DEF Fed, Ahead
<1>7. CASE ClearSlot
  <2>1. /\ wr # Idle /\ wr.at = "clear" /\ wr.slot \in Slot
        /\ wr' # Idle => wr'.msg = wr.msg /\ wr'.slot = wr.slot + 1
        /\ wr' # Idle => wr'.at = "write"
        /\ wr' = Idle => wr.slot = MAXCLIENTS
        /\ UNCHANGED <<buf, open>> /\ slots' = [slots EXCEPT ![wr.slot] = Empty]
    BY <1>1, <1>7, WrType, NextSlotIs DEF DescInv, ClearSlot
  <2>2. \A i \in Slot : InSlot(c, i)' => InSlot(c, i) /\ i # wr.slot
    BY <1>1, <2>1 DEF InSlot, Closing, DescInv, TypeOK
  <2>3. ASSUME NEW i \in Slot, NEW m \in Msg, i # wr.slot, Ahead(i, m) PROVE Ahead(i, m)'
    BY <2>1, <2>3, ClientFeedAssumption DEF Ahead, Slot
  <2> QED BY <1>1, <1>2, <1>3, <2>1, <2>2, <2>3 DEF Fed
<1> QED BY <1>4, <1>5, <1>6, <1>7 DEF Reader

LEMMA FedStep ==
  ASSUME GapInv, Next, NEW c \in Client \ gone'
  PROVE  Fed(c)'
<1>1. DescInv /\ c # Nobody
  BY ClientFeedAssumption DEF GapInv
<1>2. CASE Reader
  BY <1>2, ReaderFed
<1>3. ASSUME NEW m \in Msg, Sync(m) PROVE Fed(c)'
  <2>1. Grown(buf, buf', m)
    BY <1>1, <1>3, AppendGrows, MsgBufAssumption DEF Sync, DescInv
  <2> QED BY <1>3, <2>1, FedKeeps DEF Sync, Grown, InSlot, Closing
<1>4. ASSUME NEW d \in Client, Dump(d) \/ Check(d) \/ Seek(d) \/ Hangup(d) PROVE Fed(c)'
  BY <1>4, FedKeeps DEF Dump, Check, Seek, Hangup, InSlot, Closing
<1>5. ASSUME NEW d \in Client, Close(d) PROVE Fed(c)'
  <2>1. open' = [open EXCEPT ![fd[d]] = Nobody] /\ UNCHANGED <<buf, slots, wr, early, synced>>
    BY <1>5 DEF Close
  <2>2. \A i \in Slot : slots[i] # Empty => slots[i] \in Fd
    BY <1>1 DEF DescInv, TypeOK
  <2>3. \A i \in Slot : InSlot(c, i)' => InSlot(c, i)
    BY <1>1, <2>1, <2>2 DEF InSlot, Closing, DescInv, TypeOK
  <2> QED BY <2>1, <2>3, FedKeeps
<1>6. ASSUME NEW d \in Client, NEW f \in Fd, Accept(d, f) PROVE Fed(c)'
  <2>1. open' = [open EXCEPT ![f] = d] /\ open[f] = Nobody /\ UNCHANGED <<buf, slots, wr, early, synced>>
    BY <1>6 DEF Accept
  <2>2. \A i \in Slot : slots[i] # Empty /\ ~ Closing(i) => slots[i] # f
    BY <1>1, <2>1, ClientFeedAssumption DEF DescInv, Listed
  <2>3. \A i \in Slot : slots[i] # Empty => slots[i] \in Fd
    BY <1>1 DEF DescInv, TypeOK
  <2>4. \A i \in Slot : InSlot(c, i)' => InSlot(c, i)
    BY <1>1, <2>1, <2>2, <2>3 DEF InSlot, Closing, DescInv, TypeOK
  <2> QED BY <2>1, <2>4, FedKeeps
<1>7. ASSUME NEW d \in Client, Take(d) PROVE Fed(c)'
  <2>1. /\ UNCHANGED <<buf, open, wr, synced>> /\ slots' = [slots EXCEPT ![at[d]] = fd[d]]
        /\ early' = [early EXCEPT ![d] = Shown(buf)] /\ early \in [Client -> SUBSET Msg]
        /\ open[fd[d]] = d
    BY <1>1, <1>7 DEF Take, DescInv, TypeOK, Owners
  <2>2. CASE d = c
    BY <2>1, <2>2 DEF Fed
  <2>3. CASE d # c
    <3>1. \A i \in Slot : InSlot(c, i)' => InSlot(c, i)
      BY <1>1, <2>1, <2>3 DEF InSlot, Closing, DescInv, TypeOK
    <3> QED BY <2>1, <2>3, <3>1, FedKeeps
  <2> QED BY <2>2, <2>3
<1> QED BY <1>2, <1>3, <1>4, <1>5, <1>6, <1>7 DEF Next, Handler

LEMMA GapStep == GapInv /\ [Next]_vars => GapInv'
<1> SUFFICES ASSUME GapInv, [Next]_vars PROVE GapInv'
  OBVIOUS
<1>1. CASE Next
  <2>1. DescInv'
    BY <1>1, GotGrows DEF GapInv
  <2> QED BY <1>1, <2>1, CaughtStep, FedStep DEF GapInv
<1>2. CASE UNCHANGED vars
  <2>1. DescInv'
    BY <1>2, DescStep DEF GapInv
  <2> QED BY <1>2, <2>1 DEF GapInv, vars, Caught, Sent, Fed, InSlot, Closing, Ahead
<1> QED BY <1>1, <1>2

LEMMA InitGap == Init => GapInv
<1> SUFFICES ASSUME Init PROVE GapInv
  OBVIOUS
<1>1. DescInv /\ Shown(buf) = {}
  BY InitDesc
<1>2. \A c \in Client : since[c] = {} /\ pc[c] # "dump"
  BY DEF Init
<1> QED BY <1>1, <1>2 DEF GapInv, Caught, Fed

\* A client that stays connected was dumped all that was there to show when it
\* connected, and as long as it is in the list it was fed all that came up since
\* it was entered: it misses only what came between the two.
THEOREM OnlyTheGap == Spec => []OnlyGapMissed
<1>1. GapInv => OnlyGapMissed
  <2> SUFFICES ASSUME GapInv, NEW c \in Client \ gone
               PROVE  /\ pc[c] \notin {"away", "dump"} => \A m \in since[c] : Sent(c, m)
                      /\ Registered(c) /\ wr = Idle =>
                           \A m \in Shown(buf) \ (synced \cup early[c]) : got[c][<<m, "feed">>] > 0
    BY DEF OnlyGapMissed, Sent
  <2>1. wr = Idle => \A i \in Slot, m \in Msg : ~ Closing(i) /\ ~ Ahead(i, m)
    BY DEF Closing, Ahead
  <2>2. \A m \in Shown(buf) : m \in Msg
    BY DEF Shown
  <2> QED BY <2>1, <2>2 DEF GapInv, Caught, Fed, Registered, InSlot
<1> QED BY <1>1, InitGap, GapStep, PTL DEF Spec
=============================================================================
