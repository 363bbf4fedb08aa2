----------------------------- MODULE Multicast -----------------------------
(***************************************************************************)
(* The chat processes of a set of nodes and the radio between them: the    *)
(* multicast reader thread (mcast_read), the sending threads (mcast_send   *)
(* called by handle_client_sending) and the start of the process           *)
(* (chat_mcast_reader_start), over a network that may lose, reorder and    *)
(* repeat packets, and nodes that may be killed and started again.         *)
(*                                                                         *)
(* One call of a msgbuf_* routine is one step: the reader may be between   *)
(* its msgbuf_exist and its msgbuf_add while a sending thread deletes the  *)
(* message.  All nodes use the same key.                                   *)
(***************************************************************************)
EXTENDS MsgBuf, Forwarding, FiniteSets

CONSTANTS
  Node,         \* the nodes, one chat process each
  Chat,         \* the chat messages that users may type
  Origin,       \* the node where each of them is typed
  Neighbours,   \* who is in radio range of a node
  WaitAck,      \* FALSE in a build with DONT_WAIT_FOR_ACK
  Lossy,        \* may a packet be lost?
  SendErrors,   \* may socket() and sendto() fail?
  MaxCopies,    \* bound: equal packets waiting at one receiver
  MaxVictims,   \* bound: how many chat processes are ever killed
  MaxRestarts,  \* bound: how often each of them
  Early,        \* nodes that were started before: they run, and none of
                \* their discovery messages could be sent or is still around
  Idle          \* the reader waits in recvfrom

\* The discovery message d of a chat process; a restarted process makes a new
\* one, with a later time in its identifier.
Hello == [from : Node, epoch : 0 .. MaxRestarts]
Msg == Chat \cup Hello
Sender(m) == IF m \in Chat THEN Origin[m] ELSE m.from

\* A datagram on its way: src is the node that transmitted this copy.
Packet == [msg : Msg, src : Node, dst : Node]

ASSUME MulticastAssumption ==
  /\ Origin \in [Chat -> Node]
  /\ Neighbours \in [Node -> SUBSET Node]
  /\ WaitAck \in BOOLEAN /\ Lossy \in BOOLEAN /\ SendErrors \in BOOLEAN
  /\ MaxCopies \in Nat /\ MaxCopies >= 1
  /\ MaxVictims \in Nat /\ MaxRestarts \in Nat
  /\ Early \subseteq Node
  /\ Chat \cap Hello = {}
  /\ Idle \notin Packet

VARIABLES
  net,      \* copies of every packet in the receive queues
  buf,      \* msgbuf of every node
  rd,       \* the packet its reader handles, past the test of msgbuf_exist
  main,     \* how far its main thread is in chat_mcast_reader_start
  epoch,    \* how often it was killed
  iplist,   \* r.iplist, the neighbours it knows
  told,     \* how often a message was written to its receiving clients
  removed,  \* messages that its buffer has dropped since it started
  heard,    \* history: messages that were ever in its buffer
  pc, tries, ret  \* sending thread of a chat message: place, retry, result

nodeVars == <<main, epoch>>
bufVars == <<buf, told, removed, heard>>
sendVars == <<pc, tries, ret>>
vars == <<net, rd, iplist, nodeVars, bufVars, sendVars>>

Running == {n \in Node : main[n] # "off"}
Own(n) == [from |-> n, epoch |-> epoch[n]]

Init ==
  /\ net = [p \in Packet |-> 0]
  /\ buf = [n \in Node |-> <<>>]
  /\ rd = [n \in Node |-> Idle]
  /\ main = [n \in Node |-> IF n \in Early THEN "run" ELSE "off"]
  /\ epoch = [n \in Node |-> 0]
  /\ iplist = [n \in Node |-> {}]
  /\ told = [n \in Node |-> [m \in Msg |-> 0]]
  /\ removed = [n \in Node |-> {}]
  /\ heard = [n \in Node |-> {}]
  /\ pc = [m \in Chat |-> "idle"]
  /\ tries = [m \in Chat |-> 1]
  /\ ret = [m \in Chat |-> "none"]
-----------------------------------------------------------------------------
(* The radio.  A multicast reaches the neighbours that listen, and the     *)
(* sender itself, whose socket is a member of the group.                   *)

Audience(n) == Running \cap (Neighbours[n] \cup {n})

Sent(q, n, m) ==
  [p \in Packet |->
     IF p.msg = m /\ p.src = n /\ p.dst \in Audience(n) /\ q[p] < MaxCopies
       THEN q[p] + 1 ELSE q[p]]

\* The radio or a full receive queue loses a copy.
Lose(p) ==
  /\ Lossy
  /\ net[p] > 0
  /\ net' = [net EXCEPT ![p] = @ - 1]
  /\ UNCHANGED <<rd, iplist, nodeVars, bufVars, sendVars>>
-----------------------------------------------------------------------------
(* The main thread: chat_mcast_reader_start.                               *)

\* The reader thread is there, d is still empty.
Boot(n) ==
  /\ main[n] = "off"
  /\ main' = [main EXCEPT ![n] = "boot"]
  /\ UNCHANGED <<net, rd, iplist, epoch, bufVars, sendVars>>

\* d gets its identifier and is sent; after a while it is sent again.
SayHello(n) ==
  /\ main[n] \in {"boot", "again"}
  /\ net' = Sent(net, n, Own(n))
  /\ main' = [main EXCEPT ![n] = IF @ = "boot" THEN "again" ELSE "run"]
  /\ UNCHANGED <<rd, iplist, epoch, bufVars, sendVars>>

\* msgbuf_delete of one message.
Delete(n, m) ==
  /\ buf' = [buf EXCEPT ![n] = Deleted(@, m)]
  /\ removed' = [removed EXCEPT ![n] = @ \cup {m}]
  /\ UNCHANGED <<told, heard>>

\* mcast_send deletes d and reports the error, chat_proc_run ignores it.
HelloFails(n) ==
  /\ SendErrors
  /\ main[n] \in {"boot", "again"}
  /\ main' = [main EXCEPT ![n] = "run"]
  /\ Delete(n, Own(n))
  /\ UNCHANGED <<net, rd, iplist, epoch, sendVars>>
-----------------------------------------------------------------------------
(* The reader thread: mcast_read.                                          *)

\* Mutant: no such test.
NoLoopback(p) == FALSE

\* A copy of an own message as this node transmitted it, which must not be
\* taken for an acknowledgement.
Loopback(p) == p.src = p.dst /\ Sender(p.msg) = p.dst

\* recvfrom and the test whether to drop the packet.
Recv(p) ==
  LET n == p.dst
  IN  /\ n \in Running
      /\ rd[n] = Idle
      /\ net[p] > 0
      /\ net' = [net EXCEPT ![p] = @ - 1]
      /\ rd' = IF Loopback(p) /\ Exist(buf[n], p.msg) > 0
                 THEN rd ELSE [rd EXCEPT ![n] = p]
      /\ UNCHANGED <<iplist, nodeVars, bufVars, sendVars>>

\* Mutant: own messages are shown like foreign ones.
ShowsAtOnce(n, m) == ~ Holds(buf[n], m)

\* Mutant: the test for the second copy is off by one.
ShowsLate(n, m) ==
  IF Holds(buf[n], m) THEN Sender(m) = n /\ Exist(buf[n], m) + 1 = 3
                      ELSE Sender(m) # n

\* Mutant: foreign messages are shown whenever they arrive.
ShowsAlways(n, m) ==
  IF Holds(buf[n], m) THEN Sender(m) = n => Exist(buf[n], m) + 1 = 2
                      ELSE Sender(m) # n

\* Does msgbuf_add write the message to the receiving clients?  A foreign one
\* when it is new, an own one when it is seen for the second time.
Shows(n, m) ==
  IF Holds(buf[n], m) THEN Sender(m) = n /\ Exist(buf[n], m) + 1 = 2
                      ELSE Sender(m) # n

Add(n, m) ==
  /\ buf' = [buf EXCEPT ![n] = Added(@, m)]
  /\ removed' = [removed EXCEPT ![n] = @ \cup Evicted(buf[n], m)]
  /\ heard' = [heard EXCEPT ![n] = @ \cup {m}]
  /\ told' = IF Shows(n, m) /\ told[n][m] < 2
               THEN [told EXCEPT ![n][m] = @ + 1] ELSE told

\* A new discovery message is answered with the own one, if that is made yet.
Answers(n, m, seen) == m \in Hello /\ seen = 1 /\ main[n] # "boot"

\* Mutant: the author of the message is taken for its transmitter.
ListsAuthor(n, p) ==
  IF p.src # n THEN [iplist EXCEPT ![n] = @ \cup {Sender(p.msg)}] ELSE iplist

\* Mutant: the test is inverted.
ListsItself(n, p) ==
  IF p.src = n THEN [iplist EXCEPT ![n] = @ \cup {p.src}] ELSE iplist

\* iplist_add, of whoever transmitted the copy.
Listed(n, p) ==
  IF p.src # n THEN [iplist EXCEPT ![n] = @ \cup {p.src}] ELSE iplist

\* The rest of the loop: msgbuf_add, forward, iplist_add, answer.
Handle(n) ==
  /\ rd[n] # Idle
  /\ LET p == rd[n]
         m == p.msg
         seen == Exist(Added(buf[n], m), m)
     IN  /\ Add(n, m)
         /\ \E fwd \in Decisions(seen, p.src = Sender(m)) :
              LET relayed == IF fwd /\ p.src # n THEN Sent(net, n, m) ELSE net
              IN  net' = IF Answers(n, m, seen)
                           THEN Sent(relayed, n, Own(n)) ELSE relayed
         /\ iplist' = Listed(n, p)
  /\ rd' = [rd EXCEPT ![n] = Idle]
  /\ UNCHANGED <<nodeVars, sendVars>>
-----------------------------------------------------------------------------
(* A sending thread: handle_client_sending and mcast_send.                 *)

\* A user sends m; the service for sending clients starts last.
Submit(m) ==
  /\ pc[m] = "idle"
  /\ main[Origin[m]] = "run"
  /\ pc' = [pc EXCEPT ![m] = "send"]
  /\ UNCHANGED <<net, rd, iplist, nodeVars, bufVars, tries, ret>>

Return(m, r) ==
  /\ pc' = [pc EXCEPT ![m] = "done"]
  /\ ret' = [ret EXCEPT ![m] = r]

Transmit(m) ==
  /\ pc[m] = "send"
  /\ net' = Sent(net, Origin[m], m)
  /\ IF WaitAck
       THEN pc' = [pc EXCEPT ![m] = "wait"] /\ UNCHANGED ret
       ELSE Return(m, "ok")
  /\ UNCHANGED <<rd, iplist, nodeVars, bufVars, tries>>

\* socket() fails: nothing is deleted.
NoSocket(m) ==
  /\ SendErrors
  /\ pc[m] = "send" /\ tries[m] = 1
  /\ Return(m, "fail")
  /\ UNCHANGED <<net, rd, iplist, nodeVars, bufVars, tries>>

\* sendto() fails: no further try.
TransmitFails(m) ==
  /\ SendErrors
  /\ pc[m] = "send"
  /\ pc' = [pc EXCEPT ![m] = "delete"]
  /\ UNCHANGED <<net, rd, iplist, nodeVars, bufVars, tries, ret>>

\* The sleep is over: more than one copy seen is the acknowledgement.
Acked(m) ==
  /\ pc[m] = "wait"
  /\ Exist(buf[Origin[m]], m) > 1
  /\ Return(m, "ok")
  /\ UNCHANGED <<net, rd, iplist, nodeVars, bufVars, tries>>

\* Mutant: retry++ is missing.
UnackedForever(m) ==
  /\ pc[m] = "wait"
  /\ ~ Exist(buf[Origin[m]], m) > 1
  /\ pc' = [pc EXCEPT ![m] = "send"]
  /\ UNCHANGED <<net, rd, iplist, nodeVars, bufVars, tries, ret>>

\* Not acknowledged: the next try, with a longer sleep, or the end.
Unacked(m) ==
  /\ pc[m] = "wait"
  /\ ~ Exist(buf[Origin[m]], m) > 1
  /\ tries' = [tries EXCEPT ![m] = @ + 1]
  /\ pc' = [pc EXCEPT ![m] =
              IF tries[m] + 1 < MSG_RESEND_TIMES + 1 THEN "send" ELSE "delete"]
  /\ UNCHANGED <<net, rd, iplist, nodeVars, bufVars, ret>>

GiveUp(m) ==
  /\ pc[m] = "delete"
  /\ Delete(Origin[m], m)
  /\ Return(m, "fail")
  /\ UNCHANGED <<net, rd, iplist, nodeVars, tries>>
-----------------------------------------------------------------------------
\* start_chat_process kills the chat process before it forks a new one.
Kill(n) ==
  /\ n \in Running
  /\ epoch[n] < MaxRestarts
  /\ Cardinality({n} \cup {k \in Node : epoch[k] > 0}) <= MaxVictims
  /\ main' = [main EXCEPT ![n] = "off"]
  /\ epoch' = [epoch EXCEPT ![n] = @ + 1]
  /\ net' = [p \in Packet |-> IF p.dst = n THEN 0 ELSE net[p]]
  /\ buf' = [buf EXCEPT ![n] = <<>>]
  /\ rd' = [rd EXCEPT ![n] = Idle]
  /\ iplist' = [iplist EXCEPT ![n] = {}]
  /\ told' = [told EXCEPT ![n] = [m \in Msg |-> 0]]
  /\ removed' = [removed EXCEPT ![n] = {}]
  /\ pc' = [m \in Chat |->
              IF Origin[m] = n /\ pc[m] \in {"send", "wait", "delete"}
                THEN "killed" ELSE pc[m]]
  /\ UNCHANGED <<heard, tries, ret>>

Main(n) == Boot(n) \/ SayHello(n) \/ HelloFails(n)
Reader(n) == Handle(n) \/ \E p \in Packet : p.dst = n /\ Recv(p)
Thread(m) ==
  \/ Transmit(m) \/ NoSocket(m) \/ TransmitFails(m)
  \/ Acked(m) \/ Unacked(m) \/ GiveUp(m)

Next ==
  \/ \E n \in Node : Main(n) \/ Reader(n) \/ Kill(n)
  \/ \E m \in Chat : Submit(m) \/ Thread(m)
  \/ \E p \in Packet : Lose(p)

Spec == Init /\ [][Next]_vars

\* The threads of a process are scheduled; users, loss, send errors and the
\* configuration service that kills the process are not obliged to act.
Fairness ==
  /\ \A n \in Node : WF_vars(Boot(n) \/ SayHello(n)) /\ WF_vars(Reader(n))
  /\ \A m \in Chat : WF_vars(Transmit(m) \/ Acked(m) \/ Unacked(m) \/ GiveUp(m))

FairSpec == Spec /\ Fairness
-----------------------------------------------------------------------------
TypeOK ==
  /\ net \in [Packet -> 0 .. MaxCopies]
  /\ buf \in [Node -> Seq(Entries(Msg))]
  /\ \A n \in Node : Len(buf[n]) <= MAXMSGS
  /\ rd \in [Node -> Packet \cup {Idle}]
  /\ \A n \in Node : rd[n] # Idle => rd[n].dst = n
  /\ main \in [Node -> {"off", "boot", "again", "run"}]
  /\ epoch \in [Node -> 0 .. MaxRestarts]
  /\ iplist \in [Node -> SUBSET Node]
  /\ told \in [Node -> [Msg -> 0 .. 2]]
  /\ removed \in [Node -> SUBSET Msg]
  /\ heard \in [Node -> SUBSET Msg]
  /\ pc \in [Chat -> {"idle", "send", "wait", "delete", "done", "killed"}]
  /\ tries \in [Chat -> 1 .. MSG_RESEND_TIMES + 1]
  /\ ret \in [Chat -> {"none", "ok", "fail"}]

HeardElsewhere(n, m) == \E k \in Node \ {n} : m \in heard[k]

\* When mcast_send, waiting for an acknowledgement, returns 0, some other node
\* has put the message in its buffer: the copies that a node sends to itself,
\* the retransmissions and the deletions in between never add up to an
\* acknowledgement.
AckSound ==
  WaitAck => \A m \in Chat : ret[m] = "ok" => HeardElsewhere(Origin[m], m)

\* "Require local messages to be acknowledged, as in seen at least twice":
\* a node shows its user an own message only if another node has it.
ShownIsAcked ==
  \A n \in Node, m \in Msg :
    told[n][m] > 0 /\ Sender(m) = n => HeardElsewhere(n, m)

\* A receiving client gets a message once, however often it arrives, unless the
\* buffer dropped the message in between.
ShownOnce ==
  \A n \in Node : \A m \in Msg \ removed[n] : told[n][m] <= 1

\* Nothing is withheld: what a node holds its clients were given, an own
\* message as soon as it is acknowledged.
HeldIsShown ==
  \A n \in Node, m \in Msg :
    /\ Holds(buf[n], m)
    /\ Sender(m) = n => Exist(buf[n], m) > 1
    => told[n][m] > 0

\* The lookup under the (supposed) lock keeps a message from being stored twice.
UniqueIds == \A n \in Node : Distinct(buf[n])

\* A user who sends gets an answer.
SendReturns == \A m \in Chat : pc[m] = "send" ~> pc[m] \in {"done", "killed"}

\* The flood that a message starts ends: the air is quiet in the end.
FloodDies == <>[](\A p \in Packet : net[p] = 0)

\* Without loss every node of a connected network gets what is sent, across
\* any number of hops.
EveryoneHears ==
  \A m \in Chat : pc[m] = "send" ~> \A n \in Node : m \in heard[n]

\* Without loss every node ends up with all its neighbours in its list,
\* whichever started first.
Discovery == <>[](\A n \in Node : Neighbours[n] \subseteq iplist[n])

\* Only stations that a node hears itself enter its neighbour list, although
\* the messages in it come from anywhere: the transmitter of a copy counts,
\* not the author of the message.
ListsNeighbours ==
  \A n \in Node : iplist[n] \subseteq {k \in Node \ {n} : n \in Neighbours[k]}

\* The number of times a message was seen only grows, whichever thread runs,
\* until the message leaves the buffer or the process is killed.
SeenGrows ==
  [][\A n \in Node, m \in Msg :
       \/ Exist(buf'[n], m) >= Exist(buf[n], m)
       \/ m \in removed'[n]
       \/ main'[n] = "off"]_vars

\* How a state of this module is a state of Delivery.
HoldersOf == [m \in Chat |-> {n \in Node : m \in heard[n]}]
StatusOf ==
  [m \in Chat |-> CASE pc[m] = "idle" -> "new"
                    [] pc[m] = "killed" -> "lost"
                    [] pc[m] = "done" -> ret[m]
                    [] OTHER -> "pending"]

Promise == INSTANCE Delivery WITH holders <- HoldersOf, status <- StatusOf

\* Whatever is lost, repeated, reordered or killed, the nodes together do no
\* more than Delivery allows: messages come from a sender, hop by hop, and a
\* success is never reported without a holder.
KeepsPromise == Promise!Spec
=============================================================================
