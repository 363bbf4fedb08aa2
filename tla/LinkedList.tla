----------------------------- MODULE LinkedList -----------------------------
(***************************************************************************)
(* The doubly linked list of linkedlist.c on a heap of entries: what its   *)
(* routines do to the pointers.  One caller at a time.                     *)
(***************************************************************************)
EXTENDS Naturals, Sequences, FiniteSets

CONSTANTS
  Addr,       \* addresses calloc can return: bounds the length of the list
  Data,       \* what callers store
  NULL,
  AllocFails  \* may calloc return NULL?

ASSUME LinkedListAssumption ==
  /\ NULL \notin Addr
  /\ NULL \notin [head : Addr, tail : Addr, count : Nat]
  /\ IsFiniteSet(Addr)
  /\ AllocFails \in BOOLEAN

VARIABLES
  list,  \* struct linkedlist of the caller, or NULL
  heap,  \* the struct listent that are allocated
  lost   \* history: entries of lists that a failing append gave up

vars == <<list, heap, lost>>

Entry == [data : Data, prev : Addr \cup {NULL}, next : Addr \cup {NULL}]
Free == Addr \ DOMAIN heap

Init == list = NULL /\ heap = [a \in {} |-> NULL] /\ lost = {}

\* Mutant: new entries go to the front.
LinkedFirst(l, h, a, d) ==
  LET new == [data |-> d, prev |-> NULL, next |-> IF l = NULL THEN NULL ELSE l.head]
      grown == [x \in DOMAIN h \cup {a} |-> IF x = a THEN new ELSE h[x]]
  IN  IF l = NULL
        THEN [list |-> [head |-> a, tail |-> a, count |-> 1], heap |-> grown]
        ELSE [list |-> [l EXCEPT !.head = a, !.count = @ + 1],
              heap |-> [grown EXCEPT ![l.head].prev = a]]

\* linkedlist_append with the entry calloc returned at a.
Linked(l, h, a, d) ==
  LET new == [data |-> d, prev |-> IF l = NULL THEN NULL ELSE l.tail, next |-> NULL]
      grown == [x \in DOMAIN h \cup {a} |-> IF x = a THEN new ELSE h[x]]
  IN  IF l = NULL
        THEN [list |-> [head |-> a, tail |-> a, count |-> 1], heap |-> grown]
        ELSE [list |-> [l EXCEPT !.tail = a, !.count = @ + 1],
              heap |-> [grown EXCEPT ![l.tail].next = a]]

\* An assignment through a pointer that may be NULL and is tested.
SetField(h, a, f, v) == IF a = NULL THEN h ELSE [h EXCEPT ![a][f] = v]

\* Mutant: the tail of a shortened list still points behind it.
CutWithoutNext(l, h, e) ==
  IF e = l.head
    THEN [list |-> [l EXCEPT !.head = h[e].next],
          heap |-> SetField(h, h[e].next, "prev", NULL)]
  ELSE IF e = l.tail
    THEN [list |-> [l EXCEPT !.tail = h[e].prev], heap |-> h]
  ELSE [list |-> l,
        heap |-> SetField(SetField(h, h[e].prev, "next", h[e].next),
                          h[e].next, "prev", h[e].prev)]

\* The three cases of linkedlist_unlink: head, tail, middle.
CutOut(l, h, e) ==
  IF e = l.head
    THEN [list |-> [l EXCEPT !.head = h[e].next],
          heap |-> SetField(h, h[e].next, "prev", NULL)]
  ELSE IF e = l.tail
    THEN [list |-> [l EXCEPT !.tail = h[e].prev],
          heap |-> SetField(h, h[e].prev, "next", NULL)]
  ELSE [list |-> l,
        heap |-> SetField(SetField(h, h[e].prev, "next", h[e].next),
                          h[e].next, "prev", h[e].prev)]

\* Mutant: free(ent) is missing.
UnlinkedUnfreed(l, h, e) ==
  LET c == CutOut(l, h, e)
  IN  [list |-> IF (c.list.head = NULL) # (c.list.tail = NULL)
                  THEN NULL ELSE [c.list EXCEPT !.count = @ - 1],
       heap |-> c.heap]

\* linkedlist_unlink: the list is freed with its last entry, whose tail
\* pointer the head case has left behind.
Unlinked(l, h, e) ==
  LET c == CutOut(l, h, e)
  IN  [list |-> IF (c.list.head = NULL) # (c.list.tail = NULL)
                  THEN NULL ELSE [c.list EXCEPT !.count = @ - 1],
       heap |-> [a \in DOMAIN h \ {e} |-> c.heap[a]]]

\* The entries in the order of the next pointers.
Walk(l, h) ==
  IF l = NULL THEN <<>>
  ELSE LET at[i \in 1 .. l.count] == IF i = 1 THEN l.head ELSE h[at[i - 1]].next
       IN  at

Path == Walk(list, heap)

\* linkedlist_exists: the first entry that compares equal.
Found(d) ==
  LET hits == {i \in 1 .. Len(Path) : heap[Path[i]].data = d}
  IN  IF hits = {} THEN NULL
      ELSE Path[CHOOSE i \in hits : \A j \in hits : i <= j]
-----------------------------------------------------------------------------
Becomes(r) == list' = r.list /\ heap' = r.heap /\ UNCHANGED lost

AppendData(d) == \E a \in Free : Becomes(Linked(list, heap, a, d))

\* The caller replaces its list by the result, NULL, and the entries are lost.
AppendFails ==
  /\ AllocFails
  /\ list' = NULL
  /\ lost' = DOMAIN heap
  /\ UNCHANGED heap

GetFirst == list # NULL /\ Becomes(Unlinked(list, heap, list.head))
GetLast == list # NULL /\ Becomes(Unlinked(list, heap, list.tail))

\* linkedlist_get and linkedlist_delete, or linkedlist_exists and then
\* linkedlist_unlink by the caller.
Delete(d) == Found(d) # NULL /\ Becomes(Unlinked(list, heap, Found(d)))

Next ==
  \/ \E d \in Data : AppendData(d) \/ Delete(d)
  \/ AppendFails \/ GetFirst \/ GetLast

Spec == Init /\ [][Next]_vars
-----------------------------------------------------------------------------
TypeOK ==
  /\ \/ list = NULL
     \/ list \in [head : Addr, tail : Addr, count : 1 .. Cardinality(Addr)]
  /\ DOMAIN heap \subseteq Addr
  /\ \A a \in DOMAIN heap : heap[a] \in Entry

\* The fields are of their types, walking the next pointers from head for
\* count steps ends at tail, the end of the chain, and the prev pointers lead
\* back the same way.
WellFormed ==
  /\ TypeOK
  /\ list # NULL =>
       LET n == list.count
       IN  /\ \A i \in 1 .. n : Path[i] \in DOMAIN heap
           /\ Path[n] = list.tail /\ heap[list.tail].next = NULL
           /\ heap[list.head].prev = NULL
           /\ \A i \in 2 .. n : heap[Path[i]].prev = Path[i - 1]

\* What is allocated is on the list, unless an append failed.
NoLeak == DOMAIN heap \ lost = {Path[i] : i \in DOMAIN Path}

Items(l, h) == [i \in 1 .. Len(Walk(l, h)) |-> h[Walk(l, h)[i]].data]
Abstract == INSTANCE ListSpec WITH items <- Items(list, heap), MayForget <- AllocFails

\* The pointers implement the sequence: every routine changes one element, at
\* the place it names, and keeps the order of the others.
IsSequence == Abstract!Spec
=============================================================================
