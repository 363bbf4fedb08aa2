-------------------------------- MODULE Sync --------------------------------
(***************************************************************************)
(* The synchronisation of a chat process that has just started: the thread *)
(* mcast_sync_thread goes through the list of neighbours by an index,      *)
(* connects to one after the other and copies the messages that it has     *)
(* buffered (msgbuf_sync), until one of them had a message that was new.   *)
(* Meanwhile the multicast reader inserts neighbours into the same sorted  *)
(* array (iplist_add) and adds messages to the same buffer (msgbuf_add).   *)
(*                                                                         *)
(* The locks lock nothing, so a step is one access to what is shared: the  *)
(* search of a message in the buffer and its insertion are two, and so are *)
(* the reallocation of the array, sorting it and counting the new address. *)
(***************************************************************************)
EXTENDS MsgBuf, FiniteSets, SequencesExt

CONSTANTS
  Peer,      \* addresses of neighbours; the array is sorted by them
  Stranger,  \* an address that nobody has, read from memory that was freed
  Msg,
  Hello,     \* the own discovery message
  Dumps,     \* what a neighbour may write to a client that connects
  Vanish,    \* may a neighbour disappear without closing the connection?
  MaxLive,   \* bound: messages heard by multicast
  Idle

ASSUME SyncAssumption ==
  /\ Peer \subseteq Nat \ {0} /\ Stranger \in Nat \ (Peer \cup {0})
  /\ IsFiniteSet(Peer) /\ Hello \in Msg /\ Idle \notin Msg
  /\ Dumps \in [Peer -> SUBSET Seq(Msg)]
  /\ Vanish \in BOOLEAN /\ MaxLive \in Nat

VARIABLES
  iplist,  \* r.iplist, with an address that is being added at its end
  add,     \* how far the reader is in adding it
  buf,     \* msgbuf
  rd,      \* a message that the reader did not find in the buffer
  live,    \* how many were heard
  pc, i,   \* the thread: place and index, which counts from 0
  ip,      \* the address it took
  msg,     \* the message it read and did not find
  count,   \* new messages of this neighbour
  left,    \* what the neighbour has still to write
  gone,    \* it disappeared
  first,   \* history: the neighbours when the thread began to go through them
  tried,   \* addresses it connected to
  torn,    \* it looked at the array while an address was added
  due      \* messages that it was written in full

listVars == <<iplist, add>>
bufVars == <<buf, rd, live>>
connVars == <<ip, msg, count, left, gone, due>>
pastVars == <<first, tried, torn>>
vars == <<listVars, bufVars, pc, i, connVars, pastVars>>

Init ==
  /\ iplist = <<>> /\ add = "no"
  /\ buf \in {<<>>} \cup {<<[id |-> Hello, count |-> c]>> : c \in 1 .. 2}
  /\ rd = Idle /\ live = 0
  /\ pc = "wait" /\ i = 0
  /\ ip = 0 /\ msg = Idle /\ count = 0 /\ left = <<>> /\ gone = FALSE
  /\ first = {} /\ tried = {} /\ torn = FALSE /\ due = {}
-----------------------------------------------------------------------------
(* The multicast reader: iplist_add, and msgbuf_add.                       *)

Known == ToSet(iplist)

\* r.num_ips, which the reader increments last.
NumIps == IF add = "no" THEN Len(iplist) ELSE Len(iplist) - 1

\* A packet of a neighbour that is not in the list.  The memory for one more
\* address is found in place, or the array moves.
Hear(p) ==
  /\ add = "no" /\ p \notin Known /\ pc # "done"
  /\ iplist' = Append(iplist, p)
  /\ add' \in IF iplist = <<>> THEN {"count"} ELSE {"moved", "sort"}
  /\ UNCHANGED <<bufVars, pc, i, connVars, pastVars>>

\* *lst = l
Move ==
  /\ add = "moved" /\ add' = "sort"
  /\ UNCHANGED <<iplist, bufVars, pc, i, connVars, pastVars>>

\* qsort() with ipcmp.
Sorted(s) ==
  LET places == 1 .. Len(s)
      f == CHOOSE f \in Bijection(places, places) :
             \A j, k \in places : j < k => s[f[j]] <= s[f[k]]
  IN  [k \in places |-> s[f[k]]]

Sort ==
  /\ add = "sort" /\ add' = "count"
  /\ iplist' = Sorted(iplist)
  /\ UNCHANGED <<bufVars, pc, i, connVars, pastVars>>

Count ==
  /\ add = "count" /\ add' = "no"
  /\ UNCHANGED <<iplist, bufVars, pc, i, connVars, pastVars>>

\* msgbuf_add finds the message, or does not.
Find(m) ==
  /\ rd = Idle /\ live < MaxLive
  /\ live' = live + 1
  /\ IF Holds(buf, m) THEN buf' = Bumped(buf, m) /\ UNCHANGED rd
                      ELSE rd' = m /\ UNCHANGED buf
  /\ UNCHANGED <<listVars, pc, i, connVars, pastVars>>

AppendLive ==
  /\ rd # Idle /\ rd' = Idle
  /\ buf' = Appended(buf, rd, 1)
  /\ due' = due \ Evicted(buf, Idle)
  /\ UNCHANGED <<listVars, live, pc, i, ip, msg, count, left, gone, pastVars>>
-----------------------------------------------------------------------------
(* mcast_sync_thread.                                                      *)

\* while (r.num_ips == 0)
Begin ==
  /\ pc = "wait" /\ NumIps > 0
  /\ pc' = "look" /\ first' = Known
  /\ UNCHANGED <<listVars, bufVars, i, connVars, tried, torn>>

\* r.iplist[i]: anything, once the memory is freed, and any of the addresses
\* while they are sorted.
Slot ==
  CASE add = "moved" -> Peer \cup {0, Stranger}
    [] add = "sort" -> Known
    [] OTHER -> {iplist[i + 1]}

\* Mutant: the test of the loop skips the last address.
LookShort ==
  /\ pc = "look"
  /\ ip' \in IF i + 1 < NumIps THEN Slot ELSE {0}
  /\ pc' = IF ip' > 0 THEN "connect" ELSE "done"
  /\ torn' = (torn \/ add # "no")
  /\ UNCHANGED <<listVars, bufVars, i, msg, count, left, gone, due, first, tried>>

\* The next address, or 0, which ends the thread.
Look ==
  /\ pc = "look"
  /\ ip' \in IF i < NumIps THEN Slot ELSE {0}
  /\ pc' = IF ip' > 0 THEN "connect" ELSE "done"
  /\ torn' = (torn \/ add # "no")
  /\ UNCHANGED <<listVars, bufVars, i, msg, count, left, gone, due, first, tried>>

\* Mutant: i++ is left out when the connection fails.
StayAt == pc' = "look" /\ UNCHANGED i

\* i++
NextIp == pc' = "look" /\ i' = i + 1

\* tcp_connect fails: out of range, no chat process there.
Refused ==
  /\ pc = "connect"
  /\ tried' = tried \cup {ip}
  /\ NextIp
  /\ UNCHANGED <<listVars, bufVars, connVars, first, torn>>

Connected ==
  /\ pc = "connect" /\ ip \in Peer
  /\ tried' = tried \cup {ip}
  /\ pc' = "read" /\ left' \in Dumps[ip] /\ count' = 0
  /\ UNCHANGED <<listVars, bufVars, i, ip, msg, gone, due, first, torn>>
-----------------------------------------------------------------------------
(* msgbuf_sync.                                                            *)

\* Mutant: the buffer is not searched.
ReadBlindly ==
  /\ pc = "read" /\ left # <<>> /\ ~ gone
  /\ left' = Tail(left)
  /\ msg' = Head(left) /\ pc' = "append"
  /\ due' = due \cup {Head(left)}
  /\ UNCHANGED <<listVars, bufVars, i, ip, count, gone, pastVars>>

\* readn() returns a message, which is in the buffer or is not.
Read ==
  /\ pc = "read" /\ left # <<>> /\ ~ gone
  /\ left' = Tail(left)
  /\ IF Holds(buf, Head(left)) THEN UNCHANGED <<pc, msg>>
                               ELSE pc' = "append" /\ msg' = Head(left)
  /\ due' = due \cup {Head(left)}
  /\ UNCHANGED <<listVars, bufVars, i, ip, count, gone, pastVars>>

\* Mutant: the list with the new entry is dropped.
AppendDropped ==
  /\ pc = "append" /\ pc' = "read"
  /\ count' = count + 1 /\ msg' = Idle
  /\ UNCHANGED <<listVars, bufVars, i, ip, left, gone, due, pastVars>>

\* The message counts as seen twice.
AppendSynced ==
  /\ pc = "append" /\ pc' = "read"
  /\ buf' = Appended(buf, msg, 2)
  /\ due' = due \ Evicted(buf, Idle)
  /\ count' = count + 1 /\ msg' = Idle
  /\ UNCHANGED <<listVars, rd, live, i, ip, left, gone, pastVars>>

\* The end of the routine: a neighbour with a new message was enough.
Over ==
  /\ left' = <<>> /\ msg' = Idle
  /\ IF count > 0 THEN pc' = "done" /\ UNCHANGED i ELSE NextIp
  /\ UNCHANGED <<listVars, bufVars, ip, count, gone, pastVars>>

\* calloc() fails; the socket is left open.
NoMemory ==
  /\ pc = "append"
  /\ due' = due \ {msg}
  /\ Over

\* The neighbour has written all, or its chat process is killed.
Eof ==
  /\ pc = "read" /\ ~ gone
  /\ UNCHANGED due
  /\ Over

\* The neighbour leaves and nothing tells the thread.
Leave ==
  /\ Vanish /\ pc = "read" /\ ~ gone
  /\ gone' = TRUE
  /\ UNCHANGED <<listVars, bufVars, pc, i, ip, msg, count, left, due, pastVars>>

Thread ==
  \/ Begin \/ Look \/ Refused \/ Connected
  \/ Read \/ AppendSynced \/ NoMemory \/ Eof

Reader ==
  \/ Move \/ Sort \/ Count \/ AppendLive
  \/ \E p \in Peer : Hear(p)
  \/ \E m \in Msg : Find(m)

Next == Thread \/ Reader \/ Leave

\* The thread runs, a connection fails or is made, and a neighbour that does
\* not disappear writes on or closes; the reader need not hear anything.
Spec == Init /\ [][Next]_vars /\ WF_vars(Thread)
-----------------------------------------------------------------------------
TypeOK ==
  /\ iplist \in Seq(Peer) /\ add \in {"no", "moved", "sort", "count"}
  /\ add # "no" => iplist # <<>>
  /\ buf \in Seq(Entries(Msg)) /\ Len(buf) <= MAXMSGS
  /\ rd \in Msg \cup {Idle} /\ live \in 0 .. MaxLive
  /\ pc \in {"wait", "look", "connect", "read", "append", "done"}
  /\ i \in Nat /\ ip \in Peer \cup {0, Stranger}
  /\ msg \in Msg \cup {Idle} /\ (pc = "append" => msg # Idle)
  /\ count \in Nat /\ left \in Seq(Msg)
  /\ gone \in BOOLEAN /\ torn \in BOOLEAN
  /\ first \subseteq Peer /\ tried \subseteq Peer \cup {Stranger}
  /\ due \subseteq Msg

\* "Could not find an IP with at least one message": when the thread gives up,
\* it has tried every neighbour, but those that were inserted in front of one
\* it had looked at already, or looked while an address was inserted.
NoneSkipped ==
  pc = "done" /\ count = 0 /\ ~ torn =>
    \A p \in Known \ tried : p \notin first /\ \E q \in tried : p < q

\* What a neighbour wrote is in the buffer, unless it left it as the oldest.
Complete == pc \in {"look", "done"} => \A m \in due : Holds(buf, m)

\* The same message may be found missing by both threads and appended by both,
\* but it is never in the buffer more often than that.
AtMostTwice ==
  \A m \in Msg : Cardinality({n \in 1 .. Len(buf) : buf[n].id = m}) <= 2

\* Once there is a neighbour the thread ends, unless one leaves without a word
\* in the middle of its dump: readn() has no timeout.
Ends == NumIps > 0 ~> pc = "done" \/ gone
=============================================================================
