----------------------------- MODULE ClientFeed -----------------------------
(***************************************************************************)
(* The receiving service of a chat process: the thread of every client     *)
(* that connects (handle_client_receive) first writes it what the buffer   *)
(* holds (msgbuf_dump) and then enters its socket in socklist              *)
(* (msgbuf_addsock), while the multicast reader adds messages and writes   *)
(* new ones to the sockets of the list (msgbuf_write_socklist).            *)
(*                                                                         *)
(* The locks around all of this lock nothing (thread.h passes them by      *)
(* value), so a step is one entry of the dump or one access to a slot.     *)
(* A file descriptor is a number that accept() uses again once it is       *)
(* closed.  Nothing leaves the buffer here, which holds the own discovery  *)
(* message from the start: deletion and eviction are in module Multicast.  *)
(***************************************************************************)
EXTENDS MsgBuf, FiniteSets

CONSTANTS
  Msg,
  Mine,        \* messages of this node, which need an acknowledgement
  Client,      \* connections to the receiving service
  Remote,      \* those from other nodes, that synchronise
  Fd,          \* descriptors that accept() may return
  First,       \* a local client that connected before anything else
  MAXCLIENTS,  \* slots of socklist, 20 in msgbuf.c
  MaxServed,   \* bound: clients served at once
  MaxHangups,  \* bound: clients that hang up
  Nobody, Empty, Idle

Slot == 1 .. MAXCLIENTS
Way == {"cipher", "clear", "feed"}

ASSUME ClientFeedAssumption ==
  /\ Mine \subseteq Msg /\ Remote \subseteq Client
  /\ First \in Client \ Remote /\ Nobody \notin Client /\ Empty \notin Fd
  /\ MAXCLIENTS \in Nat /\ MAXCLIENTS >= 1
  /\ MaxServed \in Nat /\ MaxHangups \in Nat
  /\ IsFiniteSet(Client) /\ IsFiniteSet(Msg) /\ Cardinality(Msg) <= MAXMSGS
  /\ Idle \notin [msg : Msg, slot : Slot, at : {"write", "close", "clear"}]

VARIABLES
  buf,     \* msgbuf
  slots,   \* socklist
  open,    \* the connection behind a descriptor
  wr,      \* where the reader is in msgbuf_write_socklist
  pc, at,  \* the thread of a client: place, and entry of the buffer or slot
  fd,      \* its descriptor
  gone,    \* clients that hung up
  got,     \* how often a client was written a message, and in what way
  synced,  \* history: messages that came from a neighbour's buffer
  since,   \* history: what there was to show when the client connected
  early    \* history: and when it was entered in the list

handlerVars == <<pc, at, fd, since, early>>
vars == <<buf, slots, open, wr, handlerVars, gone, got, synced>>

\* What a client may see: messages of others, and own ones that were seen twice.
Shown(b) == {m \in Msg : Holds(b, m) /\ (m \in Mine => Exist(b, m) > 1)}

\* The service starts when the own discovery message was sent; usually it has
\* come back, but is not acknowledged, and the first client is sent nothing.
Init ==
  /\ buf \in {<<[id |-> m, count |-> 1]>> : m \in Mine}
  /\ \E first \in Fd :
       /\ slots = [i \in Slot |-> IF i = 1 THEN first ELSE Empty]
       /\ open = [f \in Fd |-> IF f = first THEN First ELSE Nobody]
  /\ wr = Idle
  /\ pc = [c \in Client |-> IF c = First THEN "done" ELSE "away"]
  /\ at = [c \in Client |-> 1]
  /\ fd = [c \in Client |-> Empty]
  /\ gone = {} /\ synced = {}
  /\ got = [c \in Client |-> [w \in Msg \X Way |-> 0]]
  /\ since = [c \in Client |-> {}] /\ early = [c \in Client |-> {}]

\* write() to a descriptor: to whom it leads, and whether it succeeds.  A
\* write to a client that hung up may succeed or fail.
Written(f, m, w, ok) ==
  LET c == open[f]
  IN  /\ IF c = Nobody THEN ~ ok ELSE c \in gone \/ ok
      /\ got' = IF ok /\ c \notin gone /\ got[c][<<m, w>>] < 2
                  THEN [got EXCEPT ![c][<<m, w>>] = @ + 1] ELSE got
-----------------------------------------------------------------------------
(* The multicast reader: msgbuf_add and msgbuf_write_socklist.             *)

Places == {"write", "close", "clear"}

\* Mutant: the acknowledgement is every copy after the first.
TellsAgain(b, m) ==
  IF Holds(b, m) THEN m \in Mine /\ Exist(b, m) + 1 >= 2 ELSE m \notin Mine

\* Is a further copy of m written to the clients?
Tells(b, m) ==
  IF Holds(b, m) THEN m \in Mine /\ Exist(b, m) + 1 = 2 ELSE m \notin Mine

\* A copy of m arrives.  Further copies of a message of another node are left
\* out: they raise a count that nobody here looks at.
Copy(m) ==
  /\ wr = Idle
  /\ IF m \in Mine THEN Exist(buf, m) < SeenCap ELSE ~ Holds(buf, m)
  /\ buf' = Added(buf, m)
  /\ wr' = IF Tells(buf, m) THEN [msg |-> m, slot |-> 1, at |-> "write"] ELSE wr
  /\ UNCHANGED <<slots, open, handlerVars, gone, got, synced>>

\* i++ of the loop over the slots.
NextSlot ==
  wr' = IF wr.slot < MAXCLIENTS
          THEN [wr EXCEPT !.slot = @ + 1, !.at = "write"] ELSE Idle

\* One slot: empty, or written to.
WriteSlot ==
  /\ wr # Idle /\ wr.at = "write"
  /\ \/ slots[wr.slot] = Empty /\ NextSlot /\ UNCHANGED got
     \/ slots[wr.slot] # Empty /\ Written(slots[wr.slot], wr.msg, "feed", TRUE) /\ NextSlot
     \/ /\ slots[wr.slot] # Empty
        /\ Written(slots[wr.slot], wr.msg, "feed", FALSE)
        /\ wr' = [wr EXCEPT !.at = "close"]
  /\ UNCHANGED <<buf, slots, open, handlerVars, gone, synced>>

\* The write failed: close(socklist[i]), which reads the slot again.
CloseSlot ==
  /\ wr # Idle /\ wr.at = "close"
  /\ open' = [open EXCEPT ![slots[wr.slot]] = Nobody]
  /\ wr' = [wr EXCEPT !.at = "clear"]
  /\ UNCHANGED <<buf, slots, handlerVars, gone, got, synced>>

\* Mutant: socklist[i] is not reset.
ClearNothing ==
  /\ wr # Idle /\ wr.at = "clear"
  /\ NextSlot
  /\ UNCHANGED <<buf, slots, open, handlerVars, gone, got, synced>>

\* socklist[i] = -1
ClearSlot ==
  /\ wr # Idle /\ wr.at = "clear"
  /\ slots' = [slots EXCEPT ![wr.slot] = Empty]
  /\ NextSlot
  /\ UNCHANGED <<buf, open, handlerVars, gone, got, synced>>

\* The synchronisation thread appends a message of a neighbour as seen twice
\* and writes it to nobody.
Sync(m) ==
  /\ ~ Holds(buf, m)
  /\ buf' = Appended(buf, m, 2)
  /\ synced' = synced \cup {m}
  /\ UNCHANGED <<slots, open, wr, handlerVars, gone, got>>
-----------------------------------------------------------------------------
(* The thread of a client: handle_client_receive.                          *)

Go(c, a, b) == pc[c] = a /\ pc' = [pc EXCEPT ![c] = b]

\* The thread ends, and its variables with it.
End(c) ==
  /\ pc' = [pc EXCEPT ![c] = "done"]
  /\ at' = [at EXCEPT ![c] = 1]
  /\ fd' = [fd EXCEPT ![c] = Empty]

Served == {c \in Client : pc[c] \notin {"away", "done"}}

Accept(c, f) ==
  /\ Cardinality(Served) < MaxServed
  /\ open[f] = Nobody
  /\ Go(c, "away", "dump")
  /\ open' = [open EXCEPT ![f] = c]
  /\ fd' = [fd EXCEPT ![c] = f]
  /\ since' = [since EXCEPT ![c] = Shown(buf)]
  /\ UNCHANGED <<buf, slots, wr, at, early, gone, got, synced>>

Hangup(c) ==
  /\ Cardinality(gone) < MaxHangups
  /\ c \in {open[f] : f \in Fd} \ gone
  /\ gone' = gone \cup {c}
  /\ UNCHANGED <<buf, slots, open, wr, handlerVars, got, synced>>

\* After the dump a remote client is disconnected, a local one is registered.
Dumped(c) == IF c \in Remote THEN "close" ELSE "check"

\* ent = ent->next
NextEntry(c) ==
  IF at[c] < Len(buf)
    THEN at' = [at EXCEPT ![c] = @ + 1] /\ UNCHANGED pc
    ELSE at' = [at EXCEPT ![c] = 1] /\ Go(c, "dump", Dumped(c))

Withheld(e) == e.id \in Mine /\ e.count <= 1

\* Mutant: own messages that nobody acknowledged are dumped as well.
DumpAll(c) ==
  /\ pc[c] = "dump"
  /\ Written(fd[c], buf[at[c]].id, IF c \in Remote THEN "cipher" ELSE "clear", TRUE)
  /\ NextEntry(c)
  /\ UNCHANGED <<buf, slots, open, wr, fd, since, early, gone, synced>>

\* Mutant: the first message that is withheld ends the dump.
DumpUntil(c) ==
  /\ pc[c] = "dump"
  /\ LET e == buf[at[c]]
     IN  \/ /\ Withheld(e)
            /\ at' = [at EXCEPT ![c] = 1] /\ Go(c, "dump", Dumped(c))
            /\ UNCHANGED got
         \/ /\ ~ Withheld(e)
            /\ Written(fd[c], e.id, IF c \in Remote THEN "cipher" ELSE "clear", TRUE)
            /\ NextEntry(c)
  /\ UNCHANGED <<buf, slots, open, wr, fd, since, early, gone, synced>>

\* One entry of the buffer: withheld, written, or failed, which ends the dump.
Dump(c) ==
  /\ pc[c] = "dump"
  /\ LET e == buf[at[c]]
         way == IF c \in Remote THEN "cipher" ELSE "clear"
     IN  \/ Withheld(e) /\ NextEntry(c) /\ UNCHANGED got
         \/ ~ Withheld(e) /\ Written(fd[c], e.id, way, TRUE) /\ NextEntry(c)
         \/ /\ ~ Withheld(e) /\ Written(fd[c], e.id, way, FALSE)
            /\ at' = [at EXCEPT ![c] = 1] /\ Go(c, "dump", Dumped(c))
  /\ UNCHANGED <<buf, slots, open, wr, fd, since, early, gone, synced>>

\* close() of a remote client, or of one for which there is no slot.
Close(c) ==
  /\ pc[c] = "close" /\ End(c)
  /\ open' = [open EXCEPT ![fd[c]] = Nobody]
  /\ UNCHANGED <<buf, slots, wr, since, early, gone, got, synced>>

\* Mutant: the list is not searched for the socket.
CheckNothing(c) ==
  /\ Go(c, "check", "seek")
  /\ UNCHANGED <<buf, slots, open, wr, at, fd, since, early, gone, got, synced>>

\* The first loop of msgbuf_addsock: the socket may be in the list already.
Check(c) ==
  /\ IF \E i \in Slot : slots[i] = fd[c]
       THEN pc[c] = "check" /\ End(c)
       ELSE Go(c, "check", "seek") /\ UNCHANGED <<at, fd>>
  /\ UNCHANGED <<buf, slots, open, wr, since, early, gone, got, synced>>

\* Mutant: i <= MAXCLIENTS, one slot too many.
SeekTooFar(c) ==
  /\ \/ slots[at[c]] = Empty /\ Go(c, "seek", "take") /\ UNCHANGED at
     \/ /\ slots[at[c]] # Empty
        /\ pc[c] = "seek" /\ UNCHANGED pc
        /\ at' = [at EXCEPT ![c] = @ + 1]
  /\ UNCHANGED <<buf, slots, open, wr, fd, since, early, gone, got, synced>>

\* The second loop looks at one slot; without an empty one the client is lost.
Seek(c) ==
  /\ \/ slots[at[c]] = Empty /\ Go(c, "seek", "take") /\ UNCHANGED at
     \/ /\ slots[at[c]] # Empty /\ at[c] < MAXCLIENTS
        /\ pc[c] = "seek" /\ UNCHANGED pc
        /\ at' = [at EXCEPT ![c] = @ + 1]
     \/ slots[at[c]] # Empty /\ at[c] = MAXCLIENTS /\ Go(c, "seek", "close") /\ UNCHANGED at
  /\ UNCHANGED <<buf, slots, open, wr, fd, since, early, gone, got, synced>>

\* socklist[i] = sock
Take(c) ==
  /\ pc[c] = "take" /\ End(c)
  /\ slots' = [slots EXCEPT ![at[c]] = fd[c]]
  /\ early' = [early EXCEPT ![c] = Shown(buf)]
  /\ UNCHANGED <<buf, open, wr, since, gone, got, synced>>

Reader == WriteSlot \/ CloseSlot \/ ClearSlot \/ \E m \in Msg : Copy(m)
Handler(c) == Dump(c) \/ Close(c) \/ Check(c) \/ Seek(c) \/ Take(c)

Next ==
  \/ Reader
  \/ \E m \in Msg : Sync(m)
  \/ \E c \in Client : Handler(c) \/ Hangup(c) \/ \E f \in Fd : Accept(c, f)

Spec == Init /\ [][Next]_vars
-----------------------------------------------------------------------------
TypeOK ==
  /\ buf \in Seq(Entries(Msg)) /\ Len(buf) <= MAXMSGS
  /\ slots \in [Slot -> Fd \cup {Empty}]
  /\ open \in [Fd -> Client \cup {Nobody}]
  /\ wr \in [msg : Msg, slot : Slot, at : Places] \cup {Idle}
  /\ pc \in [Client -> {"away", "dump", "close", "check", "seek", "take", "done"}]
  /\ at \in [Client -> Nat]
  /\ \A c \in Client : at[c] \in IF pc[c] = "dump" THEN 1 .. Len(buf) ELSE Slot
  /\ fd \in [Client -> Fd \cup {Empty}]
  /\ gone \subseteq Client /\ synced \subseteq Msg
  /\ got \in [Client -> [Msg \X Way -> 0 .. 2]]
  /\ since \in [Client -> SUBSET Msg] /\ early \in [Client -> SUBSET Msg]

\* No socket is in the list twice, also when its number was used before.
UniqueSlot ==
  \A i, j \in Slot : slots[i] = slots[j] /\ slots[i] # Empty => i = j

\* "Encrypt if this is not a local client since it is transfered on the
\* network": a remote client is never written a message in clear, not even
\* when it gets the descriptor of a local client that was in the list.
PlainStaysLocal ==
  \A c \in Remote, m \in Msg : got[c][<<m, "clear">>] = 0 /\ got[c][<<m, "feed">>] = 0

\* "Require local messages to be acknowledged": no client, local or remote, is
\* written an own message that was not seen twice.
AckedFirst ==
  \A c \in Client, w \in Msg \X Way : got[c][w] > 0 => w[1] \in Shown(buf)

\* A message is dumped to a client at most once and fed to it at most once.
OncePerWay == \A c \in Client, w \in Msg \X Way : got[c][w] <= 1

Registered(c) == \E i \in Slot : slots[i] # Empty /\ open[slots[i]] = c

\* A client that stays misses only what comes up between its connection and
\* its entry in the list: the dump gives it all that was there before, and
\* while it is in the list it is fed all that comes after.
OnlyGapMissed ==
  \A c \in Client \ gone :
    /\ pc[c] \notin {"away", "dump"} =>
         \A m \in since[c] : got[c][<<m, "cipher">>] + got[c][<<m, "clear">>] > 0
    /\ Registered(c) /\ wr = Idle =>
         \A m \in Shown(buf) \ (synced \cup early[c]) : got[c][<<m, "feed">>] > 0
=============================================================================
