-------------------------- MODULE LinkedListProofs --------------------------
(***************************************************************************)
(* The linked list for every number of addresses and every data: the       *)
(* pointers always form one chain of all that is allocated, and what the   *)
(* routines do to it is what ListSpec does to a sequence.                  *)
(***************************************************************************)
EXTENDS LinkedList, FunctionTheorems, FiniteSetTheorems, SequenceTheorems,
        NaturalsInduction, TLAPS

\* The entries s[1], s[2], ... are those of the list l on the heap h.
Chain(l, h, s) ==
  /\ s \in [1 .. l.count -> DOMAIN h]
  /\ l.head = s[1] /\ l.tail = s[l.count]
  /\ \A i \in 1 .. l.count :
       /\ h[s[i]].next = IF i = l.count THEN NULL ELSE s[i + 1]
       /\ h[s[i]].prev = IF i = 1 THEN NULL ELSE s[i - 1]
       /\ \A j \in 1 .. l.count : s[i] = s[j] => i = j

Handle == [head : Addr, tail : Addr, count : Nat \ {0}]
Typed(h) == DOMAIN h \subseteq Addr /\ \A a \in DOMAIN h : h[a] \in Entry

\* They are all that is allocated and not lost.
Holds(l, h, g, s) == Chain(l, h, s) /\ DOMAIN h \ g = {s[i] : i \in 1 .. l.count}

Sound(l, h, g) ==
  /\ Typed(h) /\ g \subseteq DOMAIN h
  /\ \/ l = NULL /\ g = DOMAIN h
     \/ l \in Handle /\ \E s \in [1 .. l.count -> DOMAIN h] : Holds(l, h, g, s)

ListInv == Sound(list, heap, lost)
-----------------------------------------------------------------------------
(* Walking the chain.                                                      *)

LEMMA LeastNat ==
  ASSUME NEW T, T \subseteq Nat, T # {}
  PROVE  \E n \in T : \A m \in T : n <= m
<1>1. PICK n \in T : \A m \in T : ~ (<<m, n>> \in OpToRel(<, Nat))
  BY NatLessThanWellFounded, WFMin
<1>2. \A m \in T : ~ (m < n)
  BY <1>1 DEF OpToRel
<1> QED BY <1>2

LEMMA HandleIs ==
  ASSUME NEW l \in Handle
  PROVE  /\ l # NULL /\ l.count \in Nat \ {0} /\ l.head \in Addr /\ l.tail \in Addr
         /\ 1 \in 1 .. l.count /\ l.count \in 1 .. l.count
BY LinkedListAssumption DEF Handle

\* The next pointers lead from the head through the chain.
LEMMA WalkIs ==
  ASSUME NEW h, NEW l \in Handle, NEW s, Chain(l, h, s)
  PROVE  Walk(l, h) = s
<1> DEFINE n == l.count
           walk(at) == [i \in 1 .. n |-> IF i = 1 THEN l.head ELSE h[at[i - 1]].next]
           at == CHOOSE at : at = walk(at)
<1>1. l # NULL /\ n \in Nat \ {0}
  BY HandleIs
<1>2. Walk(l, h) = at
  BY <1>1 DEF Walk
<1>3. s = walk(s)
  <2>1. ASSUME NEW i \in 1 .. n PROVE s[i] = walk(s)[i]
    <3>1. CASE i = 1
      BY <3>1 DEF Chain
    <3>2. CASE i # 1
      <4>1. i - 1 \in 1 .. n /\ i - 1 # n /\ (i - 1) + 1 = i
        BY <1>1, <3>2
      <4> QED BY <3>2, <4>1 DEF Chain
    <3> QED BY <3>1, <3>2
  <2> QED BY <2>1 DEF Chain
<1>4. at = walk(at)
  BY <1>3
<1> HIDE DEF at
<1>6. \A i \in 1 .. n : /\ s[i] = IF i = 1 THEN l.head ELSE h[s[i - 1]].next
                       /\ at[i] = IF i = 1 THEN l.head ELSE h[at[i - 1]].next
  BY <1>3, <1>4
<1>7. at = [i \in 1 .. n |-> at[i]] /\ s = [i \in 1 .. n |-> s[i]]
  BY <1>3, <1>4
<1> HIDE DEF walk
<1>5. ASSUME NEW i \in 1 .. n PROVE at[i] = s[i]
  <2> DEFINE T == {j \in 1 .. n : at[j] # s[j]}
  <2>1. CASE T = {}
    BY <2>1
  <2>2. CASE T # {}
    <3>0. T \subseteq Nat
      BY <1>1
    <3>1. PICK j \in T : \A k \in T : j <= k
      <4> HIDE DEF T
      <4> QED BY <2>2, <3>0, LeastNat
    <3>2. CASE j = 1
      BY <1>6, <3>1, <3>2
    <3>3. CASE j # 1
      <4>1. j - 1 \in 1 .. n /\ j - 1 \notin T
        BY <1>1, <3>1, <3>3
      <4>2. at[j - 1] = s[j - 1]
        BY <4>1
      <4>3. at[j] = s[j]
        BY <1>6, <3>1, <3>3, <4>2
      <4> QED BY <3>1, <4>3
    <3> QED BY <3>2, <3>3
  <2> QED BY <2>1, <2>2
<1>8. at = s
  BY <1>5, <1>7
<1> QED BY <1>2, <1>8

LEMMA WalkLength ==
  ASSUME NEW h, NEW l \in Handle, NEW s, Chain(l, h, s)
  PROVE  s \in Seq(DOMAIN h) /\ Len(s) = l.count
<1>1. s \in [1 .. l.count -> DOMAIN h] /\ l.count \in Nat
  BY HandleIs DEF Chain
<1>2. s \in Seq(DOMAIN h)
  BY <1>1, IsASeq
<1> QED BY <1>1, <1>2, LenProperties

LEMMA ItemsAre ==
  ASSUME NEW h, Typed(h), NEW l \in Handle, NEW s, Chain(l, h, s)
  PROVE  /\ Items(l, h) = [i \in 1 .. l.count |-> h[s[i]].data]
         /\ Items(l, h) \in Seq(Data) /\ Len(Items(l, h)) = l.count
<1>1. Items(l, h) = [i \in 1 .. l.count |-> h[s[i]].data]
  BY WalkIs, WalkLength DEF Items
<1>2. \A i \in 1 .. l.count : h[s[i]].data \in Data
  BY DEF Chain, Typed, Entry
<1>3. Items(l, h) \in [1 .. l.count -> Data] /\ l.count \in Nat
  BY <1>1, <1>2, HandleIs
<1>4. Items(l, h) \in Seq(Data)
  BY <1>3, IsASeq
<1> QED BY <1>1, <1>3, <1>4, LenProperties

LEMMA NoItems ==
  ASSUME NEW h
  PROVE  Items(NULL, h) = <<>>
<1>1. Walk(NULL, h) = <<>>
  BY DEF Walk
<1> QED BY <1>1 DEF Items
-----------------------------------------------------------------------------
(* Assignments to a field.                                                 *)

WithPrev(r, v) == [r EXCEPT !.prev = v]
WithNext(r, v) == [r EXCEPT !.next = v]

LEMMA WithField ==
  ASSUME NEW r \in Entry, NEW v \in Addr \cup {NULL}
  PROVE  /\ WithPrev(r, v) \in Entry /\ WithPrev(r, v).data = r.data
         /\ WithPrev(r, v).prev = v /\ WithPrev(r, v).next = r.next
         /\ WithNext(r, v) \in Entry /\ WithNext(r, v).data = r.data
         /\ WithNext(r, v).prev = r.prev /\ WithNext(r, v).next = v
BY DEF Entry, WithPrev, WithNext

-----------------------------------------------------------------------------
(* linkedlist_append.                                                      *)

\* The heap with a new entry behind the tail.
LEMMA LinkedFirst1 ==
  ASSUME NEW h, NEW a \in Addr, a \notin DOMAIN h, NEW d \in Data, Typed(h)
  PROVE  LET r == Linked(NULL, h, a, d)
         IN  /\ r.list = [head |-> a, tail |-> a, count |-> 1]
             /\ DOMAIN r.heap = DOMAIN h \cup {a} /\ Typed(r.heap)
             /\ r.heap[a] = [data |-> d, prev |-> NULL, next |-> NULL]
             /\ \A x \in DOMAIN h : r.heap[x] = h[x]
BY DEF Linked, Typed, Entry

Longer(l, h, a, d, r) ==
  /\ r.list \in Handle /\ r.list.head = l.head /\ r.list.tail = a
  /\ r.list.count = l.count + 1
  /\ DOMAIN r.heap = DOMAIN h \cup {a}
  /\ r.heap[a] = [data |-> d, prev |-> l.tail, next |-> NULL]
  /\ \A x \in DOMAIN h : r.heap[x] = IF x = l.tail THEN WithNext(h[x], a) ELSE h[x]

LEMMA LinkedNext ==
  ASSUME NEW h, NEW a \in Addr, a \notin DOMAIN h, NEW d \in Data, Typed(h),
         NEW l \in Handle, l.tail \in DOMAIN h
  PROVE  Longer(l, h, a, d, Linked(l, h, a, d))
<1> DEFINE r == Linked(l, h, a, d)
<1>1. l # NULL
  BY HandleIs
<1>2. r.list = [l EXCEPT !.tail = a, !.count = @ + 1]
  BY <1>1 DEF Linked
<1>3. /\ DOMAIN r.heap = DOMAIN h \cup {a}
      /\ r.heap[a] = [data |-> d, prev |-> l.tail, next |-> NULL]
      /\ \A x \in DOMAIN h : r.heap[x] = IF x = l.tail THEN WithNext(h[x], a) ELSE h[x]
  BY <1>1 DEF Linked, WithNext
<1> HIDE DEF r
<1>4. /\ r.list \in Handle /\ r.list.head = l.head /\ r.list.tail = a
      /\ r.list.count = l.count + 1
  <2>1. l.count + 1 \in Nat \ {0}
    BY HandleIs
  <2>2. l \in [head : Addr, tail : Addr, count : Nat \ {0}]
    BY DEF Handle
  <2> QED BY <1>2, <2>1, <2>2 DEF Handle
<1> QED BY <1>3, <1>4 DEF r, Longer

LEMMA AppendSound ==
  ASSUME NEW l, NEW h, NEW g, Sound(l, h, g), NEW a \in Addr \ DOMAIN h, NEW d \in Data
  PROVE  LET r == Linked(l, h, a, d)
         IN  /\ Sound(r.list, r.heap, g)
             /\ Items(r.list, r.heap) = Append(Items(l, h), d)
<1> DEFINE r == Linked(l, h, a, d)
<1>1. CASE l = NULL
  <2> DEFINE s == [i \in 1 .. 1 |-> a]
  <2>1. /\ r.list = [head |-> a, tail |-> a, count |-> 1]
        /\ DOMAIN r.heap = DOMAIN h \cup {a} /\ Typed(r.heap)
        /\ r.heap[a] = [data |-> d, prev |-> NULL, next |-> NULL]
    BY <1>1, LinkedFirst1 DEF Sound
  <2> HIDE DEF r
  <2>2. r.list \in Handle /\ r.list.count = 1
    BY <2>1 DEF Handle
  <2>3. Holds(r.list, r.heap, g, s)
    BY <1>1, <2>1, HandleIs DEF Sound, Holds, Chain
  <2>4. Sound(r.list, r.heap, g)
    BY <2>1, <2>2, <2>3 DEF Sound, Holds, Chain
  <2>5. Items(r.list, r.heap) = <<d>>
    BY <2>1, <2>2, <2>3, ItemsAre DEF Holds
  <2>6. Append(Items(l, h), d) = <<d>>
    <3>1. Items(l, h) = <<>>
      BY <1>1, NoItems
    <3> QED BY <3>1
  <2> QED BY <2>4, <2>5, <2>6 DEF r
<1>2. CASE l # NULL
  <2>1. PICK s \in [1 .. l.count -> DOMAIN h] : Holds(l, h, g, s)
    BY <1>2 DEF Sound
  <2> DEFINE n == l.count
             t == [i \in 1 .. n + 1 |-> IF i = n + 1 THEN a ELSE s[i]]
  <2>2. l \in Handle /\ Chain(l, h, s) /\ Typed(h) /\ n \in Nat \ {0} /\ n \in 1 .. n /\ 1 \in 1 .. n
    BY <1>2, <2>1, HandleIs DEF Sound, Holds
  <2>3. l.tail = s[n] /\ s[n] \in DOMAIN h
    BY <2>2 DEF Chain
  <2>4. Longer(l, h, a, d, r)
    BY <2>2, <2>3, LinkedNext
  <2> HIDE DEF r
  <2>5. /\ r.list \in Handle /\ r.list.count = n + 1 /\ r.list.head = l.head /\ r.list.tail = a
        /\ DOMAIN r.heap = DOMAIN h \cup {a}
    BY <2>4 DEF Longer
  <2>6. /\ r.heap[a] \in Entry /\ r.heap[a].data = d
        /\ r.heap[a].prev = s[n] /\ r.heap[a].next = NULL
    BY <2>2, <2>3, <2>4 DEF Entry, Typed, Longer
  <2>7. ASSUME NEW x \in DOMAIN h
        PROVE  /\ r.heap[x] \in Entry /\ r.heap[x].data = h[x].data /\ r.heap[x].prev = h[x].prev
               /\ r.heap[x].next = IF x = s[n] THEN a ELSE h[x].next
    <3>1. h[x] \in Entry /\ a \in Addr \cup {NULL}
      BY <2>2 DEF Typed
    <3>2. r.heap[x] = IF x = s[n] THEN WithNext(h[x], a) ELSE h[x]
      BY <2>3, <2>4 DEF Longer
    <3> QED BY <3>1, <3>2, WithField
  <2>8. Typed(r.heap)
    BY <2>2, <2>5, <2>6, <2>7 DEF Typed
  <2>9. /\ t[n + 1] = a /\ \A i \in 1 .. n : t[i] = s[i] /\ s[i] \in DOMAIN h
        /\ t \in [1 .. n + 1 -> DOMAIN r.heap] /\ a \notin DOMAIN h
        /\ \A i \in 1 .. n + 1 : i = n + 1 \/ i \in 1 .. n
    BY <2>2, <2>5
  <2> HIDE DEF t
  <2>10. Chain(r.list, r.heap, t)
    <3>1. ASSUME NEW i \in 1 .. n + 1
          PROVE  /\ r.heap[t[i]].next = IF i = n + 1 THEN NULL ELSE t[i + 1]
                 /\ r.heap[t[i]].prev = IF i = 1 THEN NULL ELSE t[i - 1]
                 /\ \A j \in 1 .. n + 1 : t[i] = t[j] => i = j
      <4>1. CASE i = n + 1
        <5>1. i # 1 /\ i - 1 = n
          BY <2>2, <4>1
        <5> QED BY <2>2, <2>6, <2>9, <4>1, <5>1
      <4>2. CASE i \in 1 .. n
        <5>1. /\ i # n + 1 /\ s[i] = s[n] => i = n
              /\ i # n => i + 1 \in 1 .. n /\ h[s[i]].next = s[i + 1]
              /\ IF i = 1 THEN h[s[i]].prev = NULL ELSE i - 1 \in 1 .. n /\ h[s[i]].prev = s[i - 1]
              /\ \A j \in 1 .. n : s[i] = s[j] => i = j
          BY <2>2, <4>2 DEF Chain
        <5>2. r.heap[t[i]].next = IF i = n + 1 THEN NULL ELSE t[i + 1]
          BY <2>7, <2>9, <4>2, <5>1
        <5>3. r.heap[t[i]].prev = IF i = 1 THEN NULL ELSE t[i - 1]
          BY <2>7, <2>9, <4>2, <5>1
        <5>4. \A j \in 1 .. n + 1 : t[i] = t[j] => i = j
          BY <2>9, <4>2, <5>1
        <5> QED BY <5>2, <5>3, <5>4
      <4> QED BY <2>9, <4>1, <4>2
    <3>2. r.list.head = t[1] /\ r.list.tail = t[n + 1]
      BY <2>2, <2>5, <2>9 DEF Chain
    <3> QED BY <2>5, <2>9, <3>1, <3>2 DEF Chain
  <2>11. DOMAIN r.heap \ g = {t[i] : i \in 1 .. n + 1}
    <3>1. DOMAIN h \ g = {s[i] : i \in 1 .. n} /\ a \notin g
      BY <2>1, <2>9 DEF Holds, Sound
    <3>2. 1 .. n + 1 = (1 .. n) \cup {n + 1}
      BY <2>2
    <3> QED BY <2>5, <2>9, <3>1, <3>2
  <2>12. Sound(r.list, r.heap, g)
    BY <2>5, <2>8, <2>9, <2>10, <2>11 DEF Sound, Holds
  <2>13. Items(r.list, r.heap) = Append(Items(l, h), d)
    <3> DEFINE v == Items(l, h)
               w == Items(r.list, r.heap)
    <3>0. v = [i \in 1 .. n |-> h[s[i]].data] /\ v \in Seq(Data) /\ Len(v) = n
      BY <2>2, ItemsAre
    <3>1. /\ w = [i \in 1 .. r.list.count |-> r.heap[t[i]].data]
          /\ w \in Seq(Data) /\ Len(w) = r.list.count
      BY <2>5, <2>8, <2>10, ItemsAre
    <3>2. \A i \in 1 .. n + 1 : w[i] = Append(v, d)[i]
      <4> HIDE DEF v, w
      <4> QED BY <2>2, <2>5, <2>6, <2>7, <2>9, <3>0, <3>1, AppendProperties
    <3> HIDE DEF v, w
    <3>3. Append(v, d) \in Seq(Data) /\ Len(Append(v, d)) = n + 1
      <4>1. v \in Seq(Data) /\ Len(v) = n
        BY <3>0
      <4> HIDE DEF n
      <4> QED BY <4>1, AppendProperties
    <3> QED BY <2>5, <3>1, <3>2, <3>3, SeqEqual DEF v, w
  <2> QED BY <2>12, <2>13 DEF r
<1> QED BY <1>1, <1>2
-----------------------------------------------------------------------------
(* linkedlist_unlink.                                                      *)

LEMMA SetPrev ==
  ASSUME NEW h, Typed(h), NEW a, NEW v
  PROVE  LET r == SetField(h, a, "prev", v)
         IN  /\ DOMAIN r = DOMAIN h
             /\ \A x \in DOMAIN h : r[x] = IF x = a THEN WithPrev(h[x], v) ELSE h[x]
BY LinkedListAssumption DEF SetField, Typed, WithPrev

LEMMA SetNext ==
  ASSUME NEW h, Typed(h), NEW a, NEW v
  PROVE  LET r == SetField(h, a, "next", v)
         IN  /\ DOMAIN r = DOMAIN h
             /\ \A x \in DOMAIN h : r[x] = IF x = a THEN WithNext(h[x], v) ELSE h[x]
BY LinkedListAssumption DEF SetField, Typed, WithNext

\* The neighbours of the entry e point to each other.
Bridged(h, e, r) ==
  /\ DOMAIN r = DOMAIN h
  /\ \A x \in DOMAIN h \ {e} :
       /\ r[x] \in Entry /\ r[x].data = h[x].data
       /\ r[x].next = IF x = h[e].prev THEN h[e].next ELSE h[x].next
       /\ r[x].prev = IF x = h[e].next THEN h[e].prev ELSE h[x].prev

\* And head and tail are moved off it; the tail not if it was the head as well.
Cut(l, h, e, c) ==
  /\ Bridged(h, e, c.heap)
  /\ c.list \in [head : Addr \cup {NULL}, tail : Addr \cup {NULL}, count : Nat \ {0}]
  /\ c.list.head = IF e = l.head THEN h[e].next ELSE l.head
  /\ c.list.tail = IF e # l.head /\ e = l.tail THEN h[e].prev ELSE l.tail
  /\ c.list.count = l.count

LEMMA CutOutCuts ==
  ASSUME NEW h, Typed(h), NEW l \in Handle, NEW s, Chain(l, h, s), NEW k \in 1 .. l.count
  PROVE  Cut(l, h, s[k], CutOut(l, h, s[k]))
<1> DEFINE e == s[k]
           c == CutOut(l, h, e)
           n == l.count
<1>0. /\ n \in Nat \ {0} /\ e \in DOMAIN h /\ h[e] \in Entry
      /\ 1 \in 1 .. n /\ n \in 1 .. n
      /\ \A x \in DOMAIN h : h[x] \in Entry
      /\ h[e].next \in Addr \cup {NULL} /\ h[e].prev \in Addr \cup {NULL}
  <2>1. n \in Nat \ {0} /\ e \in DOMAIN h /\ 1 \in 1 .. n /\ n \in 1 .. n
    BY HandleIs DEF Chain
  <2>2. \A x \in DOMAIN h : h[x] \in Entry
    BY DEF Typed
  <2> HIDE DEF e
  <2> QED BY <2>1, <2>2 DEF Entry
<1>1. /\ e = l.head <=> k = 1
      /\ e = l.tail <=> k = n
      /\ k = n => h[e].next = NULL
      /\ k = 1 => h[e].prev = NULL
  BY <1>0 DEF Chain
<1>2. NULL \notin DOMAIN h
  BY LinkedListAssumption DEF Typed
<1> HIDE DEF e
<1>3. CASE e = l.head
  <2>1. /\ c.list = [l EXCEPT !.head = h[e].next]
        /\ c.heap = SetField(h, h[e].next, "prev", NULL)
    BY <1>3 DEF CutOut
  <2> HIDE DEF c
  <2>2. Bridged(h, e, c.heap)
    BY <1>0, <1>1, <1>2, <1>3, <2>1, SetPrev, WithField DEF Bridged
  <2>3. l.head \in Addr /\ l \in Handle
    BY HandleIs
  <2> QED BY <1>0, <1>3, <2>1, <2>2 DEF e, c, Cut, Handle
<1>4. CASE e # l.head /\ e = l.tail
  <2>1. /\ c.list = [l EXCEPT !.tail = h[e].prev]
        /\ c.heap = SetField(h, h[e].prev, "next", NULL)
    BY <1>4 DEF CutOut
  <2> HIDE DEF c
  <2>2. Bridged(h, e, c.heap)
    BY <1>0, <1>1, <1>2, <1>4, <2>1, SetNext, WithField DEF Bridged
  <2> QED BY <1>0, <1>4, <2>1, <2>2 DEF e, c, Cut, Handle
<1>5. CASE e # l.head /\ e # l.tail
  <2> DEFINE g == SetField(h, h[e].prev, "next", h[e].next)
  <2>1. c.list = l /\ c.heap = SetField(g, h[e].next, "prev", h[e].prev)
    BY <1>5 DEF CutOut
  <2>2. /\ DOMAIN g = DOMAIN h
        /\ \A x \in DOMAIN h : g[x] = IF x = h[e].prev THEN WithNext(h[x], h[e].next) ELSE h[x]
    BY SetNext
  <2> HIDE DEF c, g
  <2>3. \A x \in DOMAIN h : /\ g[x] \in Entry /\ g[x].data = h[x].data /\ g[x].prev = h[x].prev
                            /\ g[x].next = IF x = h[e].prev THEN h[e].next ELSE h[x].next
    <3>1. ASSUME NEW x \in DOMAIN h
          PROVE  LET r == WithNext(h[x], h[e].next)
                 IN  /\ r \in Entry /\ r.data = h[x].data /\ r.prev = h[x].prev /\ r.next = h[e].next
      BY <1>0, WithField
    <3> QED BY <1>0, <2>2, <3>1
  <2>4. Typed(g)
    BY <2>2, <2>3 DEF Typed
  <2>5. /\ DOMAIN c.heap = DOMAIN h
        /\ \A x \in DOMAIN h : c.heap[x] = IF x = h[e].next THEN WithPrev(g[x], h[e].prev) ELSE g[x]
    BY <2>1, <2>2, <2>4, SetPrev
  <2>6. Bridged(h, e, c.heap)
    <3>1. ASSUME NEW x \in DOMAIN h
          PROVE  LET r == WithPrev(g[x], h[e].prev)
                 IN  /\ r \in Entry /\ r.data = g[x].data /\ r.next = g[x].next /\ r.prev = h[e].prev
      <4>1. g[x] \in Entry /\ h[e].prev \in Addr \cup {NULL}
        BY <1>0, <2>3
      <4> QED BY <4>1, WithField
    <3> QED BY <2>3, <2>5, <3>1 DEF Bridged
  <2> QED BY <1>0, <1>5, <2>1, <2>6 DEF e, c, Cut, Handle
<1> QED BY <1>3, <1>4, <1>5

\* What is left when the entry e is cut out and freed.
Shorter(l, h, e, r) ==
  /\ DOMAIN r.heap = DOMAIN h \ {e}
  /\ \A x \in DOMAIN h \ {e} :
       /\ r.heap[x] \in Entry /\ r.heap[x].data = h[x].data
       /\ r.heap[x].next = IF x = h[e].prev THEN h[e].next ELSE h[x].next
       /\ r.heap[x].prev = IF x = h[e].next THEN h[e].prev ELSE h[x].prev
  /\ IF l.count = 1
       THEN r.list = NULL
       ELSE /\ r.list \in Handle /\ r.list.count = l.count - 1
            /\ r.list.head = IF e = l.head THEN h[e].next ELSE l.head
            /\ r.list.tail = IF e = l.tail THEN h[e].prev ELSE l.tail

LEMMA UnlinkedIs ==
  ASSUME NEW h, Typed(h), NEW l \in Handle, NEW s, Chain(l, h, s), NEW k \in 1 .. l.count
  PROVE  Shorter(l, h, s[k], Unlinked(l, h, s[k]))
<1> DEFINE e == s[k]
           n == l.count
           c == CutOut(l, h, e)
           r == Unlinked(l, h, e)
<1>1. Cut(l, h, e, c)
  BY CutOutCuts
<1>2. /\ n \in Nat \ {0} /\ 1 \in 1 .. n /\ n \in 1 .. n /\ l.head \in Addr /\ l.tail \in Addr
      /\ k \in 1 .. n
  BY HandleIs
<1>3. /\ e = l.head <=> k = 1
      /\ e = l.tail <=> k = n
      /\ IF k = n THEN h[e].next = NULL ELSE h[e].next \in Addr
      /\ IF k = 1 THEN h[e].prev = NULL ELSE h[e].prev \in Addr
  <2>1. e \in DOMAIN h /\ l.head = s[1] /\ l.tail = s[n]
    BY <1>2 DEF Chain
  <2>2. (e = s[1] <=> k = 1) /\ (e = s[n] <=> k = n)
    BY <1>2 DEF Chain
  <2>3. IF k = n THEN h[e].next = NULL ELSE h[e].next = s[k + 1] /\ s[k + 1] \in DOMAIN h
    <3>1. k # n => k + 1 \in 1 .. n
      BY <1>2
    <3> QED BY <3>1 DEF Chain
  <2>4. IF k = 1 THEN h[e].prev = NULL ELSE h[e].prev = s[k - 1] /\ s[k - 1] \in DOMAIN h
    <3>1. k # 1 => k - 1 \in 1 .. n
      BY <1>2
    <3> QED BY <3>1 DEF Chain
  <2> HIDE DEF e
  <2> QED BY <2>1, <2>2, <2>3, <2>4 DEF Typed
<1>4. /\ r.list = IF (c.list.head = NULL) # (c.list.tail = NULL)
                    THEN NULL ELSE [c.list EXCEPT !.count = @ - 1]
      /\ r.heap = [a \in DOMAIN h \ {e} |-> c.heap[a]]
  BY DEF Unlinked
<1> HIDE DEF e, c, r
<1>5. NULL \notin Addr
  BY LinkedListAssumption
<1>6. CASE n = 1
  <2>1. k = 1
    BY <1>2, <1>6
  <2>2. c.list.head = NULL /\ c.list.tail = l.tail
    BY <1>1, <1>3, <1>6, <2>1 DEF Cut
  <2>3. r.list = NULL
    BY <1>2, <1>4, <1>5, <2>2
  <2> QED BY <1>1, <1>4, <1>6, <2>3 DEF e, r, Cut, Bridged, Shorter
<1>7. CASE n # 1
  <2>1. /\ c.list.head = IF e = l.head THEN h[e].next ELSE l.head
        /\ c.list.tail = IF e = l.tail THEN h[e].prev ELSE l.tail
        /\ c.list.head \in Addr /\ c.list.tail \in Addr /\ c.list.count = n
    BY <1>1, <1>2, <1>3, <1>7 DEF Cut
  <2>2. r.list = [c.list EXCEPT !.count = c.list.count - 1]
    BY <1>4, <1>5, <2>1
  <2>3. c.list \in [head : Addr \cup {NULL}, tail : Addr \cup {NULL}, count : Nat \ {0}]
    BY <1>1 DEF Cut
  <2>4. n - 1 \in Nat \ {0}
    BY <1>2, <1>7
  <2>5. /\ r.list \in Handle /\ r.list.count = n - 1
        /\ r.list.head = c.list.head /\ r.list.tail = c.list.tail
    BY <2>1, <2>2, <2>3, <2>4 DEF Handle
  <2>6. \A x \in DOMAIN h \ {e} : r.heap[x] = c.heap[x]
    BY <1>1, <1>4 DEF Cut, Bridged
  <2>7. DOMAIN r.heap = DOMAIN h \ {e}
    BY <1>4
  <2>8. Shorter(l, h, e, r)
    BY <1>1, <1>7, <2>1, <2>5, <2>6, <2>7 DEF Cut, Bridged, Shorter
  <2> QED BY <2>8 DEF e, r
<1> QED BY <1>6, <1>7

\* s without its place k.
Without(s, n, k) == [i \in 1 .. n - 1 |-> IF i < k THEN s[i] ELSE s[i + 1]]

LEMMA UnlinkSound ==
  ASSUME NEW h, NEW g, NEW l \in Handle, Sound(l, h, g), NEW s, Holds(l, h, g, s),
         NEW k \in 1 .. l.count
  PROVE  LET r == Unlinked(l, h, s[k])
         IN  /\ Sound(r.list, r.heap, g)
             /\ Items(r.list, r.heap) = Without(Items(l, h), l.count, k)
<1> DEFINE n == l.count
           e == s[k]
           r == Unlinked(l, h, e)
           t == Without(s, n, k)
<1>1. /\ Typed(h) /\ Chain(l, h, s) /\ DOMAIN h \ g = {s[i] : i \in 1 .. n} /\ g \subseteq DOMAIN h
      /\ n \in Nat \ {0} /\ k \in 1 .. n /\ 1 \in 1 .. n /\ n \in 1 .. n
  BY HandleIs DEF Sound, Holds
<1>2. Shorter(l, h, e, r)
  BY <1>1, UnlinkedIs
<1>3. /\ \A i \in 1 .. n : s[i] \in DOMAIN h /\ \A j \in 1 .. n : s[i] = s[j] => i = j
      /\ e = l.head <=> k = 1
      /\ e = l.tail <=> k = n
      /\ h[e].next = IF k = n THEN NULL ELSE s[k + 1]
      /\ h[e].prev = IF k = 1 THEN NULL ELSE s[k - 1]
  BY <1>1 DEF Chain
<1>4. DOMAIN r.heap = DOMAIN h \ {e} /\ Typed(r.heap) /\ g \subseteq DOMAIN r.heap /\ e \notin g
  BY <1>1, <1>2 DEF Shorter, Typed
<1>5. NULL \notin DOMAIN h
  BY <1>1, LinkedListAssumption DEF Typed
<1> HIDE DEF r
<1>6. CASE n = 1
  <2>1. r.list = NULL /\ k = 1
    BY <1>1, <1>2, <1>6 DEF Shorter
  <2>2. DOMAIN r.heap = g
    BY <1>1, <1>4, <1>6, <2>1
  <2>3. Items(r.list, r.heap) = <<>>
    BY <2>1, NoItems
  <2>4. Without(Items(l, h), n, k) = <<>>
    BY <1>6 DEF Without
  <2> QED BY <1>4, <2>1, <2>2, <2>3, <2>4 DEF r, Sound
<1>7. CASE n # 1
  <2>0. \A i \in 1 .. n - 1 :
          IF i < k THEN i \in 1 .. n /\ i # k /\ t[i] = s[i]
                   ELSE i + 1 \in 1 .. n /\ i + 1 # k /\ t[i] = s[i + 1]
    BY <1>1 DEF Without
  <2>1. \A i \in 1 .. n - 1 : t[i] \in DOMAIN h \ {e}
    BY <1>1, <1>3, <2>0
  <2>2. t \in [1 .. n - 1 -> DOMAIN r.heap]
    BY <1>4, <2>1 DEF Without
  <2> HIDE DEF t
  <2>3. /\ r.list \in Handle /\ r.list.count = n - 1
        /\ r.list.head = t[1] /\ r.list.tail = t[n - 1]
    <3>1. 1 \in 1 .. n - 1 /\ n - 1 \in 1 .. n - 1 /\ (n - 1) + 1 = n /\ 1 + 1 = 2
      BY <1>1, <1>7
    <3>2. t[1] = (IF k = 1 THEN s[2] ELSE s[1]) /\ t[n - 1] = (IF k = n THEN s[n - 1] ELSE s[n])
      BY <1>1, <2>0, <3>1
    <3>3. l.head = s[1] /\ l.tail = s[n]
      BY <1>1 DEF Chain
    <3> QED BY <1>1, <1>2, <1>3, <1>7, <3>2, <3>3 DEF Shorter
  <2>4. ASSUME NEW i \in 1 .. n - 1
        PROVE  /\ r.heap[t[i]].next = IF i = n - 1 THEN NULL ELSE t[i + 1]
               /\ r.heap[t[i]].prev = IF i = 1 THEN NULL ELSE t[i - 1]
               /\ \A j \in 1 .. n - 1 : t[i] = t[j] => i = j
    <3>1. /\ r.heap[t[i]].next = IF t[i] = h[e].prev THEN h[e].next ELSE h[t[i]].next
          /\ r.heap[t[i]].prev = IF t[i] = h[e].next THEN h[e].prev ELSE h[t[i]].prev
      BY <1>2, <2>1 DEF Shorter
    <3>2. \A j \in 1 .. n - 1 : t[i] = t[j] => i = j
      BY <1>1, <1>3, <2>0
    <3>3. CASE i < k
      <4>1. /\ i \in 1 .. n /\ i # n /\ i + 1 \in 1 .. n /\ t[i] = s[i] /\ k # 1 /\ k - 1 \in 1 .. n
            /\ i = 1 \/ (i - 1 \in 1 .. n /\ i - 1 \in 1 .. n - 1 /\ i - 1 < k)
        BY <1>1, <2>0, <3>3
      <4>2. h[t[i]].next = s[i + 1] /\ h[t[i]].prev = IF i = 1 THEN NULL ELSE s[i - 1]
        BY <1>1, <4>1 DEF Chain
      <4>3. t[i] = h[e].prev <=> i = k - 1
        BY <1>3, <4>1
      <4>4. t[i] # h[e].next
        <5>1. k # n => k + 1 \in 1 .. n /\ i # k + 1
          BY <1>1, <3>3
        <5> QED BY <1>3, <1>5, <4>1, <5>1
      <4>5. r.heap[t[i]].prev = IF i = 1 THEN NULL ELSE t[i - 1]
        BY <2>0, <3>1, <4>1, <4>2, <4>4
      <4>6. r.heap[t[i]].next = IF i = n - 1 THEN NULL ELSE t[i + 1]
        <5>1. CASE i = k - 1
          <6>1. k # n => k \in 1 .. n - 1 /\ t[k] = s[k + 1]
            BY <1>1, <2>0
          <6>2. (i = n - 1 <=> k = n) /\ i + 1 = k
            BY <1>1, <5>1
          <6> QED BY <1>3, <3>1, <4>3, <5>1, <6>1, <6>2
        <5>2. CASE i # k - 1
          <6>1. i + 1 \in 1 .. n - 1 /\ i + 1 < k /\ i # n - 1
            BY <1>1, <3>3, <5>2
          <6>2. t[i + 1] = s[i + 1]
            BY <2>0, <6>1
          <6> QED BY <3>1, <4>2, <4>3, <5>2, <6>1, <6>2
        <5> QED BY <5>1, <5>2
      <4> QED BY <3>2, <4>5, <4>6
    <3>4. CASE ~ (i < k)
      <4>1. /\ i \in 1 .. n /\ i + 1 \in 1 .. n /\ t[i] = s[i + 1] /\ i + 1 # 1 /\ (i + 1) - 1 = i
            /\ k # n /\ k + 1 \in 1 .. n /\ (i = n - 1 <=> i + 1 = n)
        BY <1>1, <2>0, <3>4
      <4>2. /\ h[t[i]].next = IF i = n - 1 THEN NULL ELSE s[(i + 1) + 1]
            /\ h[t[i]].prev = s[i]
        BY <1>1, <4>1 DEF Chain
      <4>3. t[i] # h[e].prev
        <5>1. k # 1 => k - 1 \in 1 .. n /\ i + 1 # k - 1
          BY <1>1, <3>4
        <5> QED BY <1>3, <1>5, <4>1, <5>1
      <4>4. t[i] = h[e].next <=> i = k
        <5>1. i + 1 = k + 1 <=> i = k
          BY <1>1
        <5> QED BY <1>3, <4>1, <5>1
      <4>5. r.heap[t[i]].next = IF i = n - 1 THEN NULL ELSE t[i + 1]
        <5>1. i # n - 1 => i + 1 \in 1 .. n - 1 /\ ~ (i + 1 < k)
          BY <1>1, <3>4
        <5> QED BY <2>0, <3>1, <4>2, <4>3, <5>1
      <4>6. r.heap[t[i]].prev = IF i = 1 THEN NULL ELSE t[i - 1]
        <5>1. CASE i = k
          <6>1. k # 1 => k - 1 \in 1 .. n - 1 /\ k - 1 < k
            BY <1>1
          <6>2. k # 1 => t[k - 1] = s[k - 1]
            BY <2>0, <6>1
          <6> QED BY <1>3, <3>1, <4>4, <5>1, <6>2
        <5>2. CASE i # k
          <6>1. i # 1 /\ i - 1 \in 1 .. n - 1 /\ ~ (i - 1 < k) /\ (i - 1) + 1 = i
            BY <1>1, <3>4, <5>2
          <6>2. t[i - 1] = s[i]
            BY <2>0, <6>1
          <6> QED BY <3>1, <4>2, <4>4, <5>2, <6>1, <6>2
        <5> QED BY <5>1, <5>2
      <4> QED BY <3>2, <4>5, <4>6
    <3> QED BY <3>3, <3>4
  <2>5. Chain(r.list, r.heap, t)
    BY <2>2, <2>3, <2>4 DEF Chain
  <2>6. DOMAIN r.heap \ g = {t[i] : i \in 1 .. n - 1}
    <3>1. ASSUME NEW j \in 1 .. n, j # k PROVE \E i \in 1 .. n - 1 : t[i] = s[j]
      <4>1. CASE j < k
        <5>1. j \in 1 .. n - 1
          BY <1>1, <4>1
        <5> QED BY <2>0, <4>1, <5>1
      <4>2. CASE ~ (j < k)
        <5>1. j - 1 \in 1 .. n - 1 /\ ~ (j - 1 < k) /\ (j - 1) + 1 = j
          BY <1>1, <3>1, <4>2
        <5> QED BY <2>0, <5>1
      <4> QED BY <4>1, <4>2
    <3>2. \A i \in 1 .. n - 1 : \E j \in 1 .. n : j # k /\ t[i] = s[j]
      BY <2>0
    <3>3. DOMAIN r.heap \ g = {s[j] : j \in 1 .. n} \ {e}
      BY <1>1, <1>4
    <3>4. \A j \in 1 .. n : s[j] = e <=> j = k
      BY <1>1, <1>3
    <3> HIDE DEF e
    <3> QED BY <3>1, <3>2, <3>3, <3>4
  <2>7. Sound(r.list, r.heap, g)
    BY <1>4, <2>2, <2>3, <2>5, <2>6 DEF Sound, Holds
  <2>8. Items(r.list, r.heap) = Without(Items(l, h), n, k)
    <3>1. Items(l, h) = [i \in 1 .. n |-> h[s[i]].data]
      BY <1>1, ItemsAre
    <3>2. Items(r.list, r.heap) = [i \in 1 .. r.list.count |-> r.heap[t[i]].data]
      BY <1>4, <2>3, <2>5, ItemsAre
    <3>3. \A i \in 1 .. n - 1 : r.heap[t[i]].data = h[t[i]].data
      BY <1>2, <2>1 DEF Shorter
    <3>4. \A i \in 1 .. n - 1 : r.heap[t[i]].data = IF i < k THEN Items(l, h)[i] ELSE Items(l, h)[i + 1]
      BY <2>0, <3>1, <3>3
    <3> QED BY <2>3, <3>2, <3>4 DEF Without
  <2> QED BY <2>7, <2>8 DEF r
<1> QED BY <1>6, <1>7
-----------------------------------------------------------------------------
(* The routines.                                                           *)

\* What a caller may unlink is on the list.
LEMMA UnlinkKeeps ==
  ASSUME ListInv, list # NULL, NEW e,
         \A s : Holds(list, heap, lost, s) => \E k \in 1 .. list.count : e = s[k],
         Becomes(Unlinked(list, heap, e))
  PROVE  ListInv' /\ Abstract!Next
<1> DEFINE r == Unlinked(list, heap, e)
           n == list.count
<1>1. PICK s : Holds(list, heap, lost, s)
  BY DEF ListInv, Sound
<1>2. PICK k \in 1 .. n : e = s[k]
  BY <1>1
<1>3. list \in Handle /\ Sound(list, heap, lost)
  BY DEF ListInv, Sound
<1>4. /\ Sound(r.list, r.heap, lost)
      /\ Items(r.list, r.heap) = Without(Items(list, heap), n, k)
  BY <1>1, <1>2, <1>3, UnlinkSound
<1>5. list' = r.list /\ heap' = r.heap /\ lost' = lost
  BY DEF Becomes
<1>6. Len(Items(list, heap)) = n
  BY <1>1, <1>3, ItemsAre DEF Holds, Sound
<1> HIDE DEF r
<1>7. ListInv'
  BY <1>4, <1>5 DEF ListInv
<1>8. Abstract!Take(k)
  BY <1>4, <1>5, <1>6 DEF Abstract!Take, Without
<1> QED BY <1>2, <1>6, <1>7, <1>8 DEF Abstract!Next

LEMMA FoundIsListed ==
  ASSUME ListInv, list # NULL, NEW d, Found(d) # NULL, NEW s, Holds(list, heap, lost, s)
  PROVE  \E k \in 1 .. list.count : Found(d) = s[k]
<1> DEFINE hits == {i \in 1 .. Len(Path) : heap[Path[i]].data = d}
<1>1. Path = s /\ Len(Path) = list.count /\ list.count \in Nat
  BY WalkIs, WalkLength, HandleIs DEF ListInv, Sound, Holds, Path
<1>2. hits # {}
  BY DEF Found
<1>3. hits \subseteq Nat /\ hits \subseteq 1 .. list.count
  BY <1>1
<1>4. Found(d) = Path[CHOOSE i \in hits : \A j \in hits : i <= j]
  BY <1>2 DEF Found
<1> HIDE DEF hits
<1>5. \E i \in hits : \A j \in hits : i <= j
  BY <1>2, <1>3, LeastNat
<1> QED BY <1>1, <1>3, <1>4, <1>5

LEMMA ListStep == ListInv /\ [Next]_vars => ListInv' /\ [Abstract!Next]_(Items(list, heap))
<1> SUFFICES ASSUME ListInv, [Next]_vars
             PROVE  ListInv' /\ [Abstract!Next]_(Items(list, heap))
  OBVIOUS
<1>1. ASSUME NEW d \in Data, AppendData(d) PROVE ListInv' /\ Abstract!Next
  <2>1. PICK a \in Free : Becomes(Linked(list, heap, a, d))
    BY <1>1 DEF AppendData
  <2> DEFINE r == Linked(list, heap, a, d)
  <2>2. /\ Sound(r.list, r.heap, lost)
        /\ Items(r.list, r.heap) = Append(Items(list, heap), d)
    BY AppendSound DEF ListInv, Free
  <2>3. list' = r.list /\ heap' = r.heap /\ lost' = lost
    BY <2>1 DEF Becomes
  <2> HIDE DEF r
  <2>4. ListInv'
    BY <2>2, <2>3 DEF ListInv
  <2>5. Abstract!Grow(d)
    BY <2>2, <2>3 DEF Abstract!Grow
  <2> QED BY <2>4, <2>5 DEF Abstract!Next
<1>2. CASE AppendFails
  <2>1. list' = NULL /\ heap' = heap /\ lost' = DOMAIN heap /\ AllocFails
    BY <1>2 DEF AppendFails
  <2>2. ListInv'
    BY <2>1 DEF ListInv, Sound
  <2>3. Items(list', heap') = <<>>
    BY <2>1, NoItems
  <2> QED BY <2>1, <2>2, <2>3 DEF Abstract!Next, Abstract!Forget
<1>3. CASE GetFirst
  <2>1. \A s : Holds(list, heap, lost, s) => \E k \in 1 .. list.count : list.head = s[k]
    BY <1>3, HandleIs DEF GetFirst, ListInv, Sound, Holds, Chain
  <2> QED BY <1>3, <2>1, UnlinkKeeps DEF GetFirst
<1>4. CASE GetLast
  <2>1. \A s : Holds(list, heap, lost, s) => \E k \in 1 .. list.count : list.tail = s[k]
    BY <1>4, HandleIs DEF GetLast, ListInv, Sound, Holds, Chain
  <2> QED BY <1>4, <2>1, UnlinkKeeps DEF GetLast
<1>5. ASSUME NEW d \in Data, Delete(d) PROVE ListInv' /\ Abstract!Next
  <2>1. list # NULL
    <3>1. CASE list = NULL
      <4>1. Path = <<>>
        BY <3>1 DEF Path, Walk
      <4>2. 1 .. Len(Path) = {}
        BY <4>1
      <4>3. Found(d) = NULL
        BY <4>2 DEF Found
      <4> QED BY <1>5, <4>3 DEF Delete
    <3> QED BY <3>1
  <2>2. Found(d) # NULL /\ Becomes(Unlinked(list, heap, Found(d)))
    BY <1>5 DEF Delete
  <2> QED BY <2>1, <2>2, FoundIsListed, UnlinkKeeps
<1>6. CASE UNCHANGED vars
  BY <1>6 DEF vars, ListInv
<1> QED BY <1>1, <1>2, <1>3, <1>4, <1>5, <1>6 DEF Next

LEMMA ListStart == Init => ListInv /\ Abstract!Init
<1> SUFFICES ASSUME Init PROVE ListInv /\ Abstract!Init
  OBVIOUS
<1>1. list = NULL /\ DOMAIN heap = {} /\ lost = {}
  BY DEF Init
<1>2. Items(list, heap) = <<>>
  BY <1>1, NoItems
<1> QED BY <1>1, <1>2 DEF ListInv, Sound, Typed, Abstract!Init

LEMMA ListInvHolds == Spec => []ListInv
BY ListStart, ListStep, PTL DEF Spec

LEMMA CountFits ==
  ASSUME ListInv, list # NULL
  PROVE  list.count \in 1 .. Cardinality(Addr)
<1>1. PICK s : Chain(list, heap, s)
  BY DEF ListInv, Sound, Holds
<1> DEFINE n == list.count
<1>2. list \in Handle /\ n \in Nat \ {0} /\ Typed(heap)
  BY HandleIs DEF ListInv, Sound
<1>3. s \in Injection(1 .. n, Addr)
  BY <1>1, <1>2 DEF Chain, Typed, Injection, IsInjective
<1>4. Cardinality(1 .. n) = n /\ Cardinality(Addr) \in Nat
  <2> HIDE DEF n
  <2>1. Cardinality(1 .. n) = IF 1 > n THEN 0 ELSE n - 1 + 1
    BY <1>2, FS_Interval
  <2>2. Cardinality(Addr) \in Nat
    BY FS_CardinalityType, LinkedListAssumption
  <2> QED BY <1>2, <2>1, <2>2
<1> HIDE DEF n
<1>5. n <= Cardinality(Addr)
  BY <1>3, <1>4, FS_Injection, LinkedListAssumption
<1> QED BY <1>2, <1>4, <1>5 DEF n

\* The pointers of a list that is not empty are one chain from its head to its
\* tail, of as many entries as it counts, and lead back the same way, after
\* every append, get and unlink.
THEOREM ListIsWellFormed == Spec => []WellFormed
<1>1. ListInv => WellFormed
  <2> SUFFICES ASSUME ListInv PROVE WellFormed
    OBVIOUS
  <2>1. TypeOK
    BY CountFits DEF ListInv, Sound, Handle, Typed, TypeOK
  <2>2. ASSUME list # NULL
        PROVE  LET n == list.count
               IN  /\ \A i \in 1 .. n : Path[i] \in DOMAIN heap
                   /\ Path[n] = list.tail /\ heap[list.tail].next = NULL
                   /\ heap[list.head].prev = NULL
                   /\ \A i \in 2 .. n : heap[Path[i]].prev = Path[i - 1]
    <3>1. PICK s : Chain(list, heap, s)
      BY <2>2 DEF ListInv, Sound, Holds
    <3>2. list \in Handle /\ list.count \in Nat
      BY <2>2, HandleIs DEF ListInv, Sound
    <3>3. Path = s
      BY <3>1, <3>2, WalkIs DEF Path
    <3>4. \A i \in 2 .. list.count : i \in 1 .. list.count /\ i # 1
      BY <3>2
    <3> QED BY <3>1, <3>2, <3>3, <3>4, HandleIs DEF Chain
  <2> QED BY <2>1, <2>2 DEF WellFormed
<1> QED BY <1>1, ListInvHolds, PTL

\* Nothing that is allocated is off the list, unless an append gave it up.
THEOREM NothingLeaks == Spec => []NoLeak
<1>1. ListInv => NoLeak
  <2> SUFFICES ASSUME ListInv PROVE NoLeak
    OBVIOUS
  <2>1. CASE list = NULL
    <3>1. Path = <<>>
      BY <2>1 DEF Path, Walk
    <3> QED BY <2>1, <3>1, LinkedListAssumption DEF ListInv, Sound, Handle, NoLeak
  <2>2. CASE list # NULL
    <3>1. PICK s : Holds(list, heap, lost, s)
      BY <2>2 DEF ListInv, Sound
    <3>2. list \in Handle /\ Chain(list, heap, s)
      BY <2>2, <3>1 DEF ListInv, Sound, Holds
    <3>3. Path = s /\ DOMAIN s = 1 .. list.count
      <4>1. Path = s
        BY <3>2, WalkIs DEF Path
      <4> QED BY <3>2, <4>1 DEF Chain
    <3> QED BY <3>1, <3>3 DEF Holds, NoLeak
  <2> QED BY <2>1, <2>2
<1> QED BY <1>1, ListInvHolds, PTL

\* The pointers implement the sequence: every routine changes one element, at
\* the place it names, and keeps the order of the others.
THEOREM ListRefines == Spec => IsSequence
BY ListStart, ListStep, PTL DEF Spec, IsSequence, Abstract!Spec
=============================================================================
