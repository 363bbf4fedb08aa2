-------------------------- MODULE MulticastProofs --------------------------
(***************************************************************************)
(* Theorems about Multicast for every set of nodes and messages, every     *)
(* topology and every value of the bounds.                                 *)
(***************************************************************************)
EXTENDS Multicast, Relay, MsgBufProofs

LEMMA SenderType ==
  ASSUME NEW m \in Msg
  PROVE  Sender(m) \in Node
BY MulticastAssumption DEF Msg, Hello, Sender

LEMMA OwnType ==
  ASSUME epoch \in [Node -> 0 .. MaxRestarts], NEW n \in Node
  PROVE  Own(n) \in Hello /\ Own(n) \in Msg /\ Own(n) \notin Chat /\ Sender(Own(n)) = n
<1>1. Own(n) \in Hello /\ Own(n).from = n
  BY DEF Own, Hello
<1>2. Own(n) \notin Chat
  BY <1>1, MulticastAssumption
<1> QED BY <1>1, <1>2 DEF Msg, Sender

LEMMA ChatType ==
  ASSUME NEW m \in Chat
  PROVE  m \in Msg /\ Origin[m] \in Node /\ Sender(m) = Origin[m]
BY MulticastAssumption DEF Msg, Sender

\* A multicast adds copies of one message from one node and nothing else.
LEMMA SentOnly ==
  ASSUME NEW q \in [Packet -> 0 .. MaxCopies], NEW n, NEW m
  PROVE  /\ Sent(q, n, m) \in [Packet -> 0 .. MaxCopies]
         /\ \A p \in Packet :
              Sent(q, n, m)[p] > 0 =>
                q[p] > 0 \/ (p.msg = m /\ p.src = n /\ p.dst \in Audience(n))
<1>1. MaxCopies \in Nat
  BY MulticastAssumption
<1>2. ASSUME NEW p \in Packet
      PROVE  /\ Sent(q, n, m)[p] \in 0 .. MaxCopies
             /\ Sent(q, n, m)[p] > 0 =>
                  q[p] > 0 \/ (p.msg = m /\ p.src = n /\ p.dst \in Audience(n))
  <2>1. q[p] \in 0 .. MaxCopies
    OBVIOUS
  <2>2. Sent(q, n, m)[p] =
          IF p.msg = m /\ p.src = n /\ p.dst \in Audience(n) /\ q[p] < MaxCopies
            THEN q[p] + 1 ELSE q[p]
    BY DEF Sent
  <2> QED BY <1>1, <2>1, <2>2
<1>3. Sent(q, n, m) = [p \in Packet |-> Sent(q, n, m)[p]]
  BY DEF Sent
<1> QED BY <1>2, <1>3

\* What a step of the reader of n does, as the proofs below need it.
LEMMA HandleFacts ==
  ASSUME TypeOK, UniqueIds, NEW n \in Node, Handle(n)
  PROVE  /\ rd[n] \in Packet /\ rd[n].dst = n
         /\ rd[n].msg \in Msg /\ rd[n].src \in Node
         /\ net' \in [Packet -> 0 .. MaxCopies]
         /\ \A q \in Packet :
              net'[q] > 0 =>
                \/ net[q] > 0
                \/ /\ q.src = n /\ q.dst \in Audience(n)
                   /\ q.msg \in {rd[n].msg, Own(n)}
<1> DEFINE p == rd[n]
           m == p.msg
           times == Exist(Added(buf[n], m), m)
<1>1. p \in Packet /\ p.dst = n /\ m \in Msg /\ p.src \in Node
  BY DEF TypeOK, Handle, Packet
<1>2. PICK fwd \in Decisions(times, p.src = Sender(m)) :
        net' = IF Answers(n, m, times)
                 THEN Sent(IF fwd /\ p.src # n THEN Sent(net, n, m) ELSE net, n, Own(n))
                 ELSE IF fwd /\ p.src # n THEN Sent(net, n, m) ELSE net
  BY DEF Handle
<1> DEFINE net1 == IF fwd /\ p.src # n THEN Sent(net, n, m) ELSE net
<1>3. /\ net1 \in [Packet -> 0 .. MaxCopies]
      /\ \A q \in Packet : net1[q] > 0 =>
           net[q] > 0 \/ (q.msg = m /\ q.src = n /\ q.dst \in Audience(n))
  BY SentOnly DEF TypeOK
<1>4. net' = IF Answers(n, m, times) THEN Sent(net1, n, Own(n)) ELSE net1
  BY <1>2
<1> HIDE DEF net1, times
<1>5. /\ Sent(net1, n, Own(n)) \in [Packet -> 0 .. MaxCopies]
      /\ \A q \in Packet : Sent(net1, n, Own(n))[q] > 0 =>
           net1[q] > 0 \/ (q.msg = Own(n) /\ q.src = n /\ q.dst \in Audience(n))
  BY <1>3, SentOnly
<1> QED BY <1>1, <1>3, <1>4, <1>5
-----------------------------------------------------------------------------
(* Type correctness and UniqueIds need each other: the operations on the   *)
(* buffer are understood only for buffers without duplicates.  That retry  *)
(* stays in its range needs to know where the thread is.                   *)

TriesLeft ==
  \A m \in Chat : pc[m] \in {"idle", "send", "wait"} => tries[m] <= MSG_RESEND_TIMES

TypeInv == TypeOK /\ UniqueIds /\ TriesLeft

\* The four variables of bufVars after an operation on the buffer of one node.
BufTypeOK ==
  /\ buf \in [Node -> Seq(Entries(Msg))]
  /\ \A n \in Node : Len(buf[n]) <= MAXMSGS
  /\ \A n \in Node : Distinct(buf[n])
  /\ told \in [Node -> [Msg -> 0 .. 2]]
  /\ removed \in [Node -> SUBSET Msg]
  /\ heard \in [Node -> SUBSET Msg]

LEMMA DeleteType ==
  ASSUME TypeInv, NEW n \in Node, NEW m \in Msg, Delete(n, m)
  PROVE  BufTypeOK'
<1>1. /\ Deleted(buf[n], m) \in Seq(Entries(Msg))
      /\ Len(Deleted(buf[n], m)) <= MAXMSGS
      /\ Distinct(Deleted(buf[n], m))
  BY DeletedKeeps DEF TypeInv, TypeOK, UniqueIds
<1>2. buf' = [buf EXCEPT ![n] = Deleted(buf[n], m)]
  BY DEF Delete
<1>3. /\ buf' \in [Node -> Seq(Entries(Msg))]
      /\ \A k \in Node : Len(buf'[k]) <= MAXMSGS /\ Distinct(buf'[k])
  BY <1>1, <1>2 DEF TypeInv, TypeOK, UniqueIds
<1>4. removed' \in [Node -> SUBSET Msg]
  BY DEF Delete, TypeInv, TypeOK
<1> QED BY <1>3, <1>4 DEF BufTypeOK, Delete, TypeInv, TypeOK

LEMMA AddType ==
  ASSUME TypeInv, NEW n \in Node, NEW m \in Msg, Add(n, m)
  PROVE  BufTypeOK'
<1>1. /\ Added(buf[n], m) \in Seq(Entries(Msg))
      /\ Len(Added(buf[n], m)) <= MAXMSGS
      /\ Distinct(Added(buf[n], m))
  BY AddedKeeps DEF TypeInv, TypeOK, UniqueIds
<1>2. buf' = [buf EXCEPT ![n] = Added(buf[n], m)]
  BY DEF Add
<1>3. /\ buf' \in [Node -> Seq(Entries(Msg))]
      /\ \A k \in Node : Len(buf'[k]) <= MAXMSGS /\ Distinct(buf'[k])
  BY <1>1, <1>2 DEF TypeInv, TypeOK, UniqueIds
<1>4. Evicted(buf[n], m) \subseteq Msg
  BY EvictedType DEF TypeInv, TypeOK
<1>5. removed' \in [Node -> SUBSET Msg] /\ heard' \in [Node -> SUBSET Msg]
  BY <1>4 DEF Add, TypeInv, TypeOK
<1>6. told' \in [Node -> [Msg -> 0 .. 2]]
  <2>1. CASE Shows(n, m) /\ told[n][m] < 2
    <3>1. told' = [told EXCEPT ![n] = [told[n] EXCEPT ![m] = told[n][m] + 1]]
      BY <2>1 DEF Add
    <3>2. told[n] \in [Msg -> 0 .. 2]
      BY DEF TypeInv, TypeOK
    <3>3. told[n][m] + 1 \in 0 .. 2
      <4>1. told[n][m] \in 0 .. 2
        BY <3>2
      <4> QED BY <2>1, <4>1
    <3>4. [told[n] EXCEPT ![m] = told[n][m] + 1] \in [Msg -> 0 .. 2]
      BY <3>2, <3>3
    <3> QED BY <3>1, <3>4 DEF TypeInv, TypeOK
  <2>2. CASE ~ (Shows(n, m) /\ told[n][m] < 2)
    BY <2>2 DEF Add, TypeInv, TypeOK
  <2> QED BY <2>1, <2>2
<1> QED BY <1>3, <1>5, <1>6 DEF BufTypeOK

\* The other variables.
RestTypeOK ==
  /\ net \in [Packet -> 0 .. MaxCopies]
  /\ rd \in [Node -> Packet \cup {Idle}]
  /\ \A n \in Node : rd[n] # Idle => rd[n].dst = n
  /\ main \in [Node -> {"off", "boot", "again", "run"}]
  /\ epoch \in [Node -> 0 .. MaxRestarts]
  /\ iplist \in [Node -> SUBSET Node]
  /\ pc \in [Chat -> {"idle", "send", "wait", "delete", "done", "killed"}]
  /\ tries \in [Chat -> 1 .. MSG_RESEND_TIMES + 1]
  /\ ret \in [Chat -> {"none", "ok", "fail"}]
  /\ TriesLeft

LEMMA TypeParts == TypeInv <=> BufTypeOK /\ RestTypeOK
BY DEF TypeInv, TypeOK, UniqueIds, TriesLeft, BufTypeOK, RestTypeOK

LEMMA InitType == Init => TypeInv
<1> SUFFICES ASSUME Init PROVE BufTypeOK /\ RestTypeOK
  BY TypeParts
<1>1. BufTypeOK
  BY MsgBufAssumption DEF Init, BufTypeOK, Distinct
<1>2. RestTypeOK
  BY MulticastAssumption, ForwardingAssumption DEF Init, RestTypeOK, TriesLeft
<1> QED BY <1>1, <1>2

LEMMA NextType == TypeInv /\ [Next]_vars => TypeInv'
<1> SUFFICES ASSUME TypeInv, [Next]_vars
             PROVE  BufTypeOK' /\ RestTypeOK'
  BY TypeParts DEF TypeInv, TypeOK, UniqueIds, TriesLeft, BufTypeOK, RestTypeOK
<1>0. BufTypeOK /\ RestTypeOK
  BY TypeParts
<1>a. UNCHANGED bufVars => BufTypeOK'
  BY <1>0 DEF BufTypeOK, bufVars
<1>1. ASSUME NEW n \in Node, Boot(n)
      PROVE  BufTypeOK' /\ RestTypeOK'
  <2>1. RestTypeOK'
    BY <1>0, <1>1 DEF RestTypeOK, TriesLeft, Boot, sendVars
  <2> QED BY <1>a, <1>1, <2>1 DEF Boot
<1>2. ASSUME NEW n \in Node, SayHello(n)
      PROVE  BufTypeOK' /\ RestTypeOK'
  <2>1. net' \in [Packet -> 0 .. MaxCopies]
    BY <1>0, <1>2, SentOnly DEF RestTypeOK, TriesLeft, SayHello
  <2>2. RestTypeOK'
    BY <1>0, <1>2, <2>1 DEF RestTypeOK, TriesLeft, SayHello, sendVars
  <2> QED BY <1>a, <1>2, <2>2 DEF SayHello
<1>3. ASSUME NEW n \in Node, HelloFails(n)
      PROVE  BufTypeOK' /\ RestTypeOK'
  <2>1. BufTypeOK'
    BY <1>0, <1>3, DeleteType, OwnType DEF HelloFails, RestTypeOK
  <2>2. RestTypeOK'
    BY <1>0, <1>3 DEF RestTypeOK, TriesLeft, HelloFails, sendVars
  <2> QED BY <2>1, <2>2
<1>4. ASSUME NEW n \in Node, Handle(n)
      PROVE  BufTypeOK' /\ RestTypeOK'
  <2>1. /\ rd[n] \in Packet /\ rd[n].msg \in Msg /\ rd[n].src \in Node
        /\ net' \in [Packet -> 0 .. MaxCopies]
    BY <1>4, HandleFacts DEF TypeInv
  <2>2. BufTypeOK'
    BY <1>4, <2>1, AddType DEF Handle
  <2>3. iplist' \in [Node -> SUBSET Node]
    BY <1>0, <1>4, <2>1 DEF Handle, Listed, RestTypeOK
  <2>4. RestTypeOK'
    BY <1>0, <1>4, <2>1, <2>3 DEF RestTypeOK, TriesLeft, Handle, nodeVars, sendVars
  <2> QED BY <2>2, <2>4
<1>5. ASSUME NEW p \in Packet, Recv(p)
      PROVE  BufTypeOK' /\ RestTypeOK'
  <2>1. p.dst \in Node /\ net[p] \in 0 .. MaxCopies /\ net[p] > 0
    BY <1>0, <1>5 DEF Packet, RestTypeOK, Recv
  <2>2. net' \in [Packet -> 0 .. MaxCopies]
    BY <1>0, <1>5, <2>1, MulticastAssumption DEF RestTypeOK, TriesLeft, Recv
  <2>3. RestTypeOK'
    BY <1>0, <1>5, <2>1, <2>2 DEF RestTypeOK, TriesLeft, Recv, nodeVars, sendVars
  <2> QED BY <1>a, <1>5, <2>3 DEF Recv
<1>6. ASSUME NEW n \in Node, Kill(n)
      PROVE  BufTypeOK' /\ RestTypeOK'
  <2>1. BufTypeOK'
    BY <1>0, <1>6, MsgBufAssumption DEF BufTypeOK, Kill, Distinct
  <2>2. net' \in [Packet -> 0 .. MaxCopies]
    BY <1>0, <1>6, MulticastAssumption DEF RestTypeOK, TriesLeft, Kill
  <2>3. epoch' \in [Node -> 0 .. MaxRestarts]
    BY <1>0, <1>6, MulticastAssumption DEF RestTypeOK, TriesLeft, Kill
  <2>4. RestTypeOK'
    BY <1>0, <1>6, <2>2, <2>3 DEF RestTypeOK, TriesLeft, Kill
  <2> QED BY <2>1, <2>4
<1>7. ASSUME NEW m \in Chat, Submit(m)
      PROVE  BufTypeOK' /\ RestTypeOK'
  <2>1. RestTypeOK'
    BY <1>0, <1>7 DEF RestTypeOK, TriesLeft, Submit, nodeVars
  <2> QED BY <1>a, <1>7, <2>1 DEF Submit
<1>8. ASSUME NEW m \in Chat, Transmit(m)
      PROVE  BufTypeOK' /\ RestTypeOK'
  <2>1. net' \in [Packet -> 0 .. MaxCopies]
    BY <1>0, <1>8, SentOnly DEF RestTypeOK, TriesLeft, Transmit
  <2>2. RestTypeOK'
    BY <1>0, <1>8, <2>1 DEF RestTypeOK, TriesLeft, Transmit, Return, nodeVars
  <2> QED BY <1>a, <1>8, <2>2 DEF Transmit
<1>9. ASSUME NEW m \in Chat, NoSocket(m) \/ TransmitFails(m) \/ Acked(m)
      PROVE  BufTypeOK' /\ RestTypeOK'
  <2>1. RestTypeOK'
    BY <1>0, <1>9 DEF RestTypeOK, TriesLeft, NoSocket, TransmitFails, Acked, Return, nodeVars
  <2> QED BY <1>a, <1>9, <2>1 DEF NoSocket, TransmitFails, Acked
<1>10. ASSUME NEW m \in Chat, Unacked(m)
       PROVE  BufTypeOK' /\ RestTypeOK'
  <2>1. tries' \in [Chat -> 1 .. MSG_RESEND_TIMES + 1]
    BY <1>0, <1>10, ForwardingAssumption DEF RestTypeOK, TriesLeft, Unacked
  <2>2. pc' \in [Chat -> {"idle", "send", "wait", "delete", "done", "killed"}]
    BY <1>0, <1>10 DEF RestTypeOK, Unacked
  <2>3. TriesLeft'
    <3>1. ASSUME NEW k \in Chat, pc'[k] \in {"idle", "send", "wait"}
          PROVE  tries'[k] <= MSG_RESEND_TIMES
      <4>1. CASE k = m
        <5>1. tries'[m] = tries[m] + 1 /\ tries[m] \in Nat
          BY <1>0, <1>10, ForwardingAssumption DEF RestTypeOK, Unacked
        <5>2. tries[m] + 1 < MSG_RESEND_TIMES + 1
          BY <1>0, <1>10, <3>1, <4>1 DEF RestTypeOK, Unacked
        <5> QED BY <4>1, <5>1, <5>2, ForwardingAssumption
      <4>2. CASE k # m
        BY <1>0, <1>10, <3>1, <4>2 DEF RestTypeOK, TriesLeft, Unacked
      <4> QED BY <4>1, <4>2
    <3> QED BY <3>1 DEF TriesLeft
  <2>4. RestTypeOK'
    BY <1>0, <1>10, <2>1, <2>2, <2>3 DEF RestTypeOK, Unacked, nodeVars
  <2> QED BY <1>a, <1>10, <2>4 DEF Unacked
<1>11. ASSUME NEW m \in Chat, GiveUp(m)
       PROVE  BufTypeOK' /\ RestTypeOK'
  <2>1. BufTypeOK'
    BY <1>11, DeleteType, ChatType DEF GiveUp
  <2>2. RestTypeOK'
    BY <1>0, <1>11 DEF RestTypeOK, TriesLeft, GiveUp, Return, nodeVars
  <2> QED BY <2>1, <2>2
<1>12. ASSUME NEW p \in Packet, Lose(p)
       PROVE  BufTypeOK' /\ RestTypeOK'
  <2>1. net' \in [Packet -> 0 .. MaxCopies]
    BY <1>0, <1>12, MulticastAssumption DEF RestTypeOK, TriesLeft, Lose
  <2>2. RestTypeOK'
    BY <1>0, <1>12, <2>1 DEF RestTypeOK, TriesLeft, Lose, nodeVars, sendVars
  <2> QED BY <1>a, <1>12, <2>2 DEF Lose
<1>13. CASE UNCHANGED vars
  BY <1>0, <1>13 DEF vars, BufTypeOK, RestTypeOK, TriesLeft, bufVars, nodeVars, sendVars
<1> QED BY <1>1, <1>2, <1>3, <1>4, <1>5, <1>6, <1>7, <1>8, <1>9, <1>10, <1>11,
           <1>12, <1>13 DEF Next, Main, Reader, Thread

LEMMA TypeInvHolds == Spec => []TypeInv
BY InitType, NextType, PTL DEF Spec

\* Every variable keeps its type and the buffer its bound, under any number of
\* nodes, losses, restarts and retries.
THEOREM TypeCorrect == Spec => []TypeOK
<1>1. TypeInv => TypeOK
  BY DEF TypeInv
<1> QED BY <1>1, TypeInvHolds, PTL

\* No node ever holds a message twice.
THEOREM NoDuplicates == Spec => []UniqueIds
<1>1. TypeInv => UniqueIds
  BY DEF TypeInv
<1> QED BY <1>1, TypeInvHolds, PTL
-----------------------------------------------------------------------------
(* Acknowledgements.  That a second copy of an own message proves that     *)
(* another node has it rests on where copies come from (Flying, Handled),  *)
(* and on the test for the own transmission: between that test and         *)
(* msgbuf_add a sending thread can delete the message, never add it.       *)

SourceOK(p) == Sender(p.msg) = p.src \/ p.msg \in heard[p.src]

Flying == \A p \in Packet : net[p] > 0 => SourceOK(p)

Handled ==
  \A n \in Node : rd[n] # Idle =>
    /\ SourceOK(rd[n])
    /\ Loopback(rd[n]) => Exist(buf[n], rd[n].msg) = 0

Counted ==
  \A n \in Node, m \in Msg :
    Sender(m) = n /\ Exist(buf[n], m) > 1 => HeardElsewhere(n, m)

AckInv == Flying /\ Handled /\ Counted /\ AckSound /\ ShownIsAcked

\* Steps that leave the buffers and the reader alone.
LEMMA QuietAck ==
  ASSUME TypeInv, AckInv, UNCHANGED <<rd, bufVars>>, AckSound',
         \A p \in Packet : net'[p] > 0 => net[p] > 0 \/ Sender(p.msg) = p.src
  PROVE  AckInv'
<1>1. Flying'
  BY DEF AckInv, Flying, SourceOK, bufVars
<1>2. Handled' /\ Counted' /\ ShownIsAcked'
  BY DEF AckInv, Handled, SourceOK, Counted, ShownIsAcked, HeardElsewhere, bufVars
<1> QED BY <1>1, <1>2 DEF AckInv

\* msgbuf_delete lowers counts.
LEMMA DeleteAck ==
  ASSUME TypeInv, AckInv, NEW n \in Node, NEW m \in Msg, Delete(n, m),
         UNCHANGED <<net, rd>>, AckSound'
  PROVE  AckInv'
<1>1. \A k \in Node : \A x : Exist(buf'[k], x) \in {Exist(buf[k], x), 0}
  <2>1. buf' = [buf EXCEPT ![n] = Deleted(buf[n], m)]
    BY DEF Delete
  <2>2. \A x : Exist(Deleted(buf[n], m), x) \in {Exist(buf[n], x), 0}
    BY DeletedKeeps DEF TypeInv, TypeOK, UniqueIds
  <2> QED BY <2>1, <2>2 DEF TypeInv, TypeOK
<1>2. Flying' /\ ShownIsAcked'
  BY DEF AckInv, Flying, SourceOK, ShownIsAcked, HeardElsewhere, Delete
<1>3. Handled'
  BY <1>1 DEF AckInv, Handled, SourceOK, Delete
<1>4. Counted'
  <2>1. ASSUME NEW k \in Node, NEW x \in Msg, Sender(x) = k, Exist(buf'[k], x) > 1
        PROVE  HeardElsewhere(k, x)
    <3>1. Exist(buf[k], x) > 1
      BY <1>1, <2>1
    <3> QED BY <2>1, <3>1 DEF AckInv, Counted
  <2> QED BY <2>1 DEF Counted, HeardElsewhere, Delete
<1> QED BY <1>2, <1>3, <1>4 DEF AckInv

\* Exist of a buffer after msgbuf_add, at any node and for any message.
LEMMA AddCounts ==
  ASSUME TypeInv, NEW n \in Node, NEW m \in Msg, Add(n, m)
  PROVE  /\ \A k \in Node : \A x :
              k # n \/ x # m => Exist(buf'[k], x) \in {Exist(buf[k], x), 0}
         /\ Exist(buf[n], m) = 0 => Exist(buf'[n], m) = 1
         /\ Exist(buf[n], m) = 0 <=> ~ Holds(buf[n], m)
         /\ Exist(buf[n], m) > 0 =>
              Exist(buf'[n], m) = Increment(Exist(buf[n], m))
<1>1. buf[n] \in Seq(Entries(Msg)) /\ Len(buf[n]) <= MAXMSGS /\ Distinct(buf[n])
  BY DEF TypeInv, TypeOK, UniqueIds
<1>2. buf' = [buf EXCEPT ![n] = Added(buf[n], m)] /\ buf \in [Node -> Seq(Entries(Msg))]
  BY DEF Add, TypeInv, TypeOK
<1>3. Exist(buf[n], m) \in 0 .. SeenCap /\ (Exist(buf[n], m) > 0 <=> Holds(buf[n], m))
  BY <1>1, ExistType
<1>4. /\ Holds(buf[n], m) => Exist(Added(buf[n], m), m) = Increment(Exist(buf[n], m))
      /\ ~ Holds(buf[n], m) => Exist(Added(buf[n], m), m) = 1
      /\ \A x : x # m => Exist(Added(buf[n], m), x) \in {Exist(buf[n], x), 0}
  BY <1>1, AddedKeeps
<1>5. buf'[n] = Added(buf[n], m) /\ \A k \in Node : k # n => buf'[k] = buf[k]
  BY <1>2
<1> QED BY <1>3, <1>4, <1>5, MsgBufAssumption

\* The copy that raises the count of an own message comes from another node.
LEMMA SecondCopy ==
  ASSUME TypeInv, AckInv, NEW n \in Node, Handle(n),
         Sender(rd[n].msg) = n, Exist(buf[n], rd[n].msg) > 0
  PROVE  HeardElsewhere(n, rd[n].msg)
<1>1. rd[n] \in Packet /\ rd[n] # Idle /\ rd[n].dst = n /\ rd[n].src \in Node
  BY HandleFacts DEF TypeInv, Handle
<1>2. ~ Loopback(rd[n])
  BY <1>1 DEF AckInv, Handled
<1>3. rd[n].src # n
  BY <1>1, <1>2 DEF Loopback
<1>4. rd[n].msg \in heard[rd[n].src]
  BY <1>1, <1>3 DEF AckInv, Handled, SourceOK
<1> QED BY <1>1, <1>3, <1>4 DEF HeardElsewhere

LEMMA HandleAck ==
  ASSUME TypeInv, AckInv, NEW n \in Node, Handle(n)
  PROVE  AckInv'
<1> DEFINE m == rd[n].msg
<1>1. /\ rd[n] \in Packet /\ rd[n].dst = n /\ m \in Msg /\ rd[n].src \in Node
      /\ \A q \in Packet : net'[q] > 0 =>
           \/ net[q] > 0
           \/ q.src = n /\ q.msg \in {m, Own(n)}
  BY HandleFacts DEF TypeInv
<1>2. Add(n, m) /\ rd' = [rd EXCEPT ![n] = Idle] /\ ret' = ret /\ epoch' = epoch
  BY DEF Handle, nodeVars, sendVars
<1>3. /\ heard' \in [Node -> SUBSET Msg] /\ m \in heard'[n]
      /\ \A k \in Node : heard[k] \subseteq heard'[k]
      /\ \A k \in Node : \A x : HeardElsewhere(k, x) => HeardElsewhere(k, x)'
  BY <1>1, <1>2 DEF Add, TypeInv, TypeOK, HeardElsewhere
<1>4. Sender(Own(n)) = n
  BY OwnType DEF TypeInv, TypeOK
<1>5. Flying'
  <2>1. ASSUME NEW q \in Packet, net'[q] > 0
        PROVE  SourceOK(q)'
    <3>1. CASE net[q] > 0
      BY <1>3, <3>1 DEF AckInv, Flying, SourceOK, Packet
    <3>2. CASE q.src = n /\ q.msg \in {m, Own(n)}
      BY <1>3, <1>4, <3>2 DEF SourceOK
    <3> QED BY <1>1, <2>1, <3>1, <3>2
  <2> QED BY <2>1 DEF Flying
<1>6. Handled'
  <2>1. ASSUME NEW k \in Node, rd'[k] # Idle
        PROVE  /\ Sender(rd'[k].msg) = rd'[k].src \/ rd'[k].msg \in heard'[rd'[k].src]
               /\ Loopback(rd'[k]) => Exist(buf'[k], rd'[k].msg) = 0
    <3>1. k # n /\ rd'[k] = rd[k] /\ rd[k] # Idle
      BY <1>2, <2>1 DEF TypeInv, TypeOK
    <3>2. buf'[k] = buf[k] /\ rd[k].src \in Node
      BY <1>2, <3>1 DEF Add, TypeInv, TypeOK, Packet
    <3> QED BY <1>3, <3>1, <3>2 DEF AckInv, Handled, SourceOK
  <2> QED BY <2>1 DEF Handled, SourceOK
<1>7. Counted'
  <2>1. ASSUME NEW k \in Node, NEW x \in Msg, Sender(x) = k, Exist(buf'[k], x) > 1
        PROVE  HeardElsewhere(k, x)
    <3>1. CASE k # n \/ x # m
      <4>1. Exist(buf[k], x) > 1
        BY <1>1, <1>2, <2>1, <3>1, AddCounts
      <4> QED BY <2>1, <4>1 DEF AckInv, Counted
    <3>2. CASE k = n /\ x = m
      <4>1. Exist(buf[n], m) > 0
        <5>1. Exist(buf[n], m) \in 0 .. SeenCap
          BY ExistType DEF TypeInv, TypeOK, UniqueIds
        <5>2. Exist(buf[n], m) = 0 => Exist(buf'[n], m) = 1
          BY <1>1, <1>2, AddCounts
        <5> QED BY <2>1, <3>2, <5>1, <5>2, MsgBufAssumption
      <4> QED BY <2>1, <3>2, <4>1, SecondCopy
    <3> QED BY <3>1, <3>2
  <2> QED BY <1>3, <2>1 DEF Counted
<1>8. AckSound'
  BY <1>2, <1>3, ChatType DEF AckInv, AckSound
<1>9. ShownIsAcked'
  <2>1. ASSUME NEW k \in Node, NEW x \in Msg, told'[k][x] > 0, Sender(x) = k
        PROVE  HeardElsewhere(k, x)
    <3>1. CASE told[k][x] > 0
      BY <2>1, <3>1 DEF AckInv, ShownIsAcked
    <3>2. CASE ~ told[k][x] > 0
      <4>1. k = n /\ x = m /\ Shows(n, m)
        BY <1>1, <1>2, <2>1, <3>2 DEF Add, TypeInv, TypeOK
      <4>2. Exist(buf[n], m) > 0
        <5>1. Holds(buf[n], m)
          BY <2>1, <4>1 DEF Shows
        <5> QED BY <5>1, ExistType DEF TypeInv, TypeOK, UniqueIds
      <4> QED BY <2>1, <4>1, <4>2, SecondCopy
    <3> QED BY <3>1, <3>2
  <2> QED BY <1>3, <2>1 DEF ShownIsAcked
<1> QED BY <1>5, <1>6, <1>7, <1>8, <1>9 DEF AckInv

\* The reader takes a copy: its own transmission only if the count is 0.
LEMMA RecvAck ==
  ASSUME TypeInv, AckInv, NEW p \in Packet, Recv(p)
  PROVE  AckInv'
<1>1. /\ p.dst \in Node /\ p.src \in Node /\ p.msg \in Msg
      /\ UNCHANGED <<bufVars, ret>>
      /\ \A q \in Packet : net'[q] > 0 => net[q] > 0
      /\ net[p] > 0
  BY MulticastAssumption DEF Recv, Packet, TypeInv, TypeOK, sendVars
<1>2. Flying' /\ Counted' /\ AckSound' /\ ShownIsAcked'
  BY <1>1 DEF AckInv, Flying, SourceOK, Counted, AckSound, ShownIsAcked,
              HeardElsewhere, bufVars
<1>3. Handled'
  <2>1. ASSUME NEW k \in Node, rd'[k] # Idle
        PROVE  /\ SourceOK(rd'[k])
               /\ Loopback(rd'[k]) => Exist(buf[k], rd'[k].msg) = 0
    <3>1. CASE rd'[k] = rd[k]
      BY <2>1, <3>1 DEF AckInv, Handled
    <3>2. CASE rd'[k] # rd[k]
      <4>1. k = p.dst /\ rd'[k] = p /\ ~ (Loopback(p) /\ Exist(buf[k], p.msg) > 0)
        BY <3>2 DEF Recv, TypeInv, TypeOK
      <4>2. Exist(buf[k], p.msg) \in 0 .. SeenCap
        BY ExistType DEF TypeInv, TypeOK, UniqueIds
      <4>3. SourceOK(p)
        BY <1>1 DEF AckInv, Flying
      <4> QED BY <4>1, <4>2, <4>3, MsgBufAssumption
    <3> QED BY <3>1, <3>2
  <2> QED BY <1>1, <2>1 DEF Handled, SourceOK, bufVars
<1> QED BY <1>2, <1>3 DEF AckInv

LEMMA KillAck ==
  ASSUME TypeInv, AckInv, NEW n \in Node, Kill(n)
  PROVE  AckInv'
<1>1. /\ heard' = heard /\ ret' = ret
      /\ \A q \in Packet : net'[q] > 0 => net[q] > 0
      /\ \A k \in Node : rd'[k] # Idle => rd'[k] = rd[k] /\ buf'[k] = buf[k]
      /\ \A k \in Node, x \in Msg : told'[k][x] > 0 => told'[k][x] = told[k][x]
  BY MulticastAssumption DEF Kill, TypeInv, TypeOK
<1>2. \A k \in Node, x \in Msg : Exist(buf'[k], x) > 1 => Exist(buf[k], x) > 1
  BY DEF Kill, TypeInv, TypeOK, Exist, Holds
<1> QED BY <1>1, <1>2 DEF AckInv, Flying, Handled, SourceOK, Counted, AckSound,
                         ShownIsAcked, HeardElsewhere

LEMMA InitAck == Init => AckInv
<1> SUFFICES ASSUME Init PROVE AckInv
  OBVIOUS
<1>1. Flying /\ AckSound
  BY DEF Init, Flying, AckSound
<1>2. Handled /\ ShownIsAcked
  BY DEF Init, Handled, ShownIsAcked
<1>3. Counted
  BY DEF Init, Counted, Exist, Holds
<1> QED BY <1>1, <1>2, <1>3 DEF AckInv

LEMMA NextAck == TypeInv /\ AckInv /\ [Next]_vars => AckInv'
<1> SUFFICES ASSUME TypeInv, AckInv, [Next]_vars
             PROVE  AckInv'
  OBVIOUS
<1>a. UNCHANGED <<ret, heard>> => AckSound'
  BY DEF AckInv, AckSound, HeardElsewhere
<1>1. ASSUME NEW n \in Node, Main(n)
      PROVE  AckInv'
  <2>1. CASE Boot(n)
    BY <1>a, <2>1, QuietAck DEF Boot, bufVars, sendVars
  <2>2. CASE SayHello(n)
    <3>1. Own(n) \in Msg /\ Sender(Own(n)) = n
      BY OwnType DEF TypeInv, TypeOK
    <3>2. \A p \in Packet : net'[p] > 0 => net[p] > 0 \/ Sender(p.msg) = p.src
      <4>1. net' = Sent(net, n, Own(n)) /\ net \in [Packet -> 0 .. MaxCopies]
        BY <2>2 DEF SayHello, TypeInv, TypeOK
      <4>2. \A p \in Packet : Sent(net, n, Own(n))[p] > 0 =>
              net[p] > 0 \/ (p.msg = Own(n) /\ p.src = n)
        BY <4>1, SentOnly
      <4> QED BY <3>1, <4>1, <4>2
    <3> QED BY <1>a, <2>2, <3>2, QuietAck DEF SayHello, bufVars, sendVars
  <2>3. CASE HelloFails(n)
    <3>1. Own(n) \in Msg
      BY OwnType DEF TypeInv, TypeOK
    <3> QED BY <1>a, <2>3, <3>1, DeleteAck DEF HelloFails, Delete, sendVars
  <2> QED BY <1>1, <2>1, <2>2, <2>3 DEF Main
<1>2. ASSUME NEW n \in Node, Reader(n)
      PROVE  AckInv'
  BY <1>2, HandleAck, RecvAck DEF Reader
<1>3. ASSUME NEW n \in Node, Kill(n)
      PROVE  AckInv'
  BY <1>3, KillAck
<1>4. ASSUME NEW m \in Chat, Submit(m)
      PROVE  AckInv'
  BY <1>a, <1>4, QuietAck DEF Submit, bufVars
<1>5. ASSUME NEW m \in Chat, Thread(m)
      PROVE  AckInv'
  <2>1. m \in Msg /\ Origin[m] \in Node /\ Sender(m) = Origin[m]
    BY ChatType
  <2>2. CASE Transmit(m)
    <3>1. \A p \in Packet : net'[p] > 0 => net[p] > 0 \/ Sender(p.msg) = p.src
      <4>1. net' = Sent(net, Origin[m], m) /\ net \in [Packet -> 0 .. MaxCopies]
        BY <2>2 DEF Transmit, TypeInv, TypeOK
      <4>2. \A p \in Packet : Sent(net, Origin[m], m)[p] > 0 =>
              net[p] > 0 \/ (p.msg = m /\ p.src = Origin[m])
        BY <4>1, SentOnly
      <4> QED BY <2>1, <4>1, <4>2
    <3>2. AckSound'
      BY <2>2 DEF AckInv, AckSound, HeardElsewhere, Transmit, Return, bufVars
    <3> QED BY <2>2, <3>1, <3>2, QuietAck DEF Transmit
  <2>3. CASE NoSocket(m)
    <3>1. AckSound'
      BY <2>3 DEF AckInv, AckSound, HeardElsewhere, NoSocket, Return, bufVars,
                  TypeInv, TypeOK
    <3> QED BY <2>3, <3>1, QuietAck DEF NoSocket
  <2>4. CASE TransmitFails(m) \/ Unacked(m)
    BY <1>a, <2>4, QuietAck DEF TransmitFails, Unacked, bufVars
  <2>5. CASE Acked(m)
    <3>1. HeardElsewhere(Origin[m], m)
      BY <2>1, <2>5 DEF AckInv, Counted, Acked
    <3>2. AckSound'
      BY <2>5, <3>1 DEF AckInv, AckSound, HeardElsewhere, Acked, Return, bufVars,
                        TypeInv, TypeOK
    <3> QED BY <2>5, <3>2, QuietAck DEF Acked
  <2>6. CASE GiveUp(m)
    <3>1. AckSound'
      BY <2>6 DEF AckInv, AckSound, HeardElsewhere, GiveUp, Return, Delete,
                  TypeInv, TypeOK
    <3> QED BY <2>1, <2>6, <3>1, DeleteAck DEF GiveUp
  <2> QED BY <1>5, <2>2, <2>3, <2>4, <2>5, <2>6 DEF Thread
<1>6. ASSUME NEW p \in Packet, Lose(p)
      PROVE  AckInv'
  <2>1. \A q \in Packet : net'[q] > 0 => net[q] > 0
    BY <1>6, MulticastAssumption DEF Lose, TypeInv, TypeOK
  <2> QED BY <1>a, <1>6, <2>1, QuietAck DEF Lose, bufVars, sendVars
<1>7. CASE UNCHANGED vars
  BY <1>a, <1>7, QuietAck DEF vars, bufVars, sendVars
<1> QED BY <1>1, <1>2, <1>3, <1>4, <1>5, <1>6, <1>7 DEF Next

LEMMA AckInvHolds == Spec => []AckInv
BY InitAck, NextAck, TypeInvHolds, PTL DEF Spec

\* A sender that waits for acknowledgements is told "sent" only if another node
\* has put the message in its buffer, whatever is lost, repeated, reordered or
\* restarted.
THEOREM AcksAreSound == Spec => []AckSound
<1>1. AckInv => AckSound
  BY DEF AckInv
<1> QED BY <1>1, AckInvHolds, PTL

\* No user sees an own message that no other node has.
THEOREM ShownAreAcked == Spec => []ShownIsAcked
<1>1. AckInv => ShownIsAcked
  BY DEF AckInv
<1> QED BY <1>1, AckInvHolds, PTL
-----------------------------------------------------------------------------
(* What the receiving clients get.  As long as the buffer has not dropped  *)
(* a message, its count and whose it is say how often it was shown.        *)

\* How many copies of m are not enough to show it.
Withheld(n, m) == IF Sender(m) = n THEN 1 ELSE 0

ShownByCount ==
  \A n \in Node : \A m \in Msg \ removed[n] :
    told[n][m] = IF Exist(buf[n], m) > Withheld(n, m) THEN 1 ELSE 0

HeldByCount ==
  \A n \in Node, m \in Msg :
    Exist(buf[n], m) > Withheld(n, m) => told[n][m] > 0

ShowInv == ShownByCount /\ HeldByCount

LEMMA ShowsByCount ==
  ASSUME TypeInv, ShowInv
  PROVE  ShownOnce /\ HeldIsShown
<1>1. ShownOnce
  BY DEF ShowInv, ShownByCount, ShownOnce
<1>2. ASSUME NEW n \in Node, NEW m \in Msg, Holds(buf[n], m),
             Sender(m) = n => Exist(buf[n], m) > 1
      PROVE  told[n][m] > 0
  <2>1. Exist(buf[n], m) > 0
    BY <1>2, ExistType DEF TypeInv, TypeOK, UniqueIds
  <2> QED BY <1>2, <2>1 DEF ShowInv, HeldByCount, Withheld
<1> QED BY <1>1, <1>2 DEF HeldIsShown

LEMMA DeleteShow ==
  ASSUME TypeInv, ShowInv, NEW n \in Node, NEW m \in Msg, Delete(n, m)
  PROVE  ShowInv'
<1>1. \A k \in Node, x \in Msg :
        /\ told'[k][x] = told[k][x]
        /\ x \notin removed'[k] => x \notin removed[k]
  BY DEF Delete, TypeInv, TypeOK
<1>2. \A k \in Node, x \in Msg :
        \/ Exist(buf'[k], x) = Exist(buf[k], x)
        \/ Exist(buf'[k], x) = 0 /\ x \in removed'[k]
  <2>1. /\ buf' = [buf EXCEPT ![n] = Deleted(buf[n], m)]
        /\ buf \in [Node -> Seq(Entries(Msg))]
        /\ m \in removed'[n]
    BY DEF Delete, TypeInv, TypeOK
  <2>2. \A x : Exist(Deleted(buf[n], m), x) = IF x = m THEN 0 ELSE Exist(buf[n], x)
    BY DeletedKeeps DEF TypeInv, TypeOK, UniqueIds
  <2> QED BY <2>1, <2>2
<1>3. ShownByCount'
  BY <1>1, <1>2 DEF ShowInv, ShownByCount, Withheld
<1>4. HeldByCount'
  BY <1>1, <1>2 DEF ShowInv, HeldByCount, Withheld
<1> QED BY <1>3, <1>4 DEF ShowInv

LEMMA AddShow ==
  ASSUME TypeInv, ShowInv, NEW n \in Node, NEW m \in Msg, Add(n, m)
  PROVE  ShowInv'
<1> DEFINE before == Exist(buf[n], m)
           after == Exist(buf'[n], m)
<1>1. /\ told \in [Node -> [Msg -> 0 .. 2]] /\ buf \in [Node -> Seq(Entries(Msg))]
      /\ removed' = [removed EXCEPT ![n] = @ \cup Evicted(buf[n], m)]
      /\ removed \in [Node -> SUBSET Msg]
  BY DEF Add, TypeInv, TypeOK
<1>2. before \in 0 .. SeenCap /\ (before > 0 <=> Holds(buf[n], m))
  BY ExistType DEF TypeInv, TypeOK, UniqueIds
<1>3. after = IF before = 0 THEN 1 ELSE Increment(before)
  BY <1>2, AddCounts, MsgBufAssumption
<1>4. Shows(n, m) <=> before = Withheld(n, m)
  BY <1>2, MsgBufAssumption DEF Shows, Withheld
<1>5. after > Withheld(n, m) <=> before >= Withheld(n, m)
  <2>1. CASE before = 0
    BY <1>3, <2>1 DEF Withheld
  <2>2. CASE before # 0
    BY <1>2, <1>3, <2>2, IncrementType, MsgBufAssumption DEF Withheld
  <2> QED BY <2>1, <2>2
<1>6. told'[n][m] = IF Shows(n, m) /\ told[n][m] < 2 THEN told[n][m] + 1 ELSE told[n][m]
  BY <1>1 DEF Add
<1>7. m \notin removed'[n] => m \notin removed[n]
  BY <1>1
<1>8. \A k \in Node, x \in Msg : k # n \/ x # m =>
        /\ told'[k][x] = told[k][x]
        /\ x \notin removed'[k] => x \notin removed[k]
        /\ \/ Exist(buf'[k], x) = Exist(buf[k], x)
           \/ Exist(buf'[k], x) = 0 /\ x \in removed'[k]
  <2>1. \A x : x # m =>
          \/ Exist(Added(buf[n], m), x) = Exist(buf[n], x)
          \/ Exist(Added(buf[n], m), x) = 0 /\ x \in Evicted(buf[n], m)
    <3>1. buf[n] \in Seq(Entries(Msg)) /\ Distinct(buf[n]) /\ Len(buf[n]) <= MAXMSGS
      BY DEF TypeInv, TypeOK, UniqueIds
    <3> QED BY <3>1, AddedKeeps, Zenon
  <2>2. buf'[n] = Added(buf[n], m) /\ \A k \in Node : k # n => buf'[k] = buf[k]
    BY <1>1 DEF Add
  <2>3. \A k \in Node, x \in Msg : k # n \/ x # m => told'[k][x] = told[k][x]
    BY <1>1 DEF Add
  <2> QED BY <1>1, <2>1, <2>2, <2>3
<1> HIDE DEF before, after
<1>9. told[n][m] \in 0 .. 2
  BY <1>1
<1>10. /\ m \notin removed[n] =>
            told[n][m] = IF before > Withheld(n, m) THEN 1 ELSE 0
       /\ before > Withheld(n, m) => told[n][m] > 0
  BY DEF ShowInv, ShownByCount, HeldByCount, before
<1>11. /\ m \notin removed'[n] =>
            told'[n][m] = IF after > Withheld(n, m) THEN 1 ELSE 0
       /\ after > Withheld(n, m) => told'[n][m] > 0
  <2>1. Withheld(n, m) \in {0, 1}
    BY DEF Withheld
  <2> QED BY <1>2, <1>4, <1>5, <1>6, <1>7, <1>9, <1>10, <2>1, MsgBufAssumption
<1>12. ShownByCount'
  BY <1>8, <1>11 DEF ShowInv, ShownByCount, Withheld, after
<1>13. HeldByCount'
  BY <1>8, <1>11 DEF ShowInv, HeldByCount, Withheld, after
<1> QED BY <1>12, <1>13 DEF ShowInv

LEMMA NextShow == TypeInv /\ ShowInv /\ [Next]_vars => ShowInv'
<1> SUFFICES ASSUME TypeInv, ShowInv, [Next]_vars
             PROVE  ShowInv'
  OBVIOUS
<1>a. UNCHANGED bufVars => ShowInv'
  BY DEF ShowInv, ShownByCount, HeldByCount, Withheld, bufVars
<1>1. ASSUME NEW n \in Node, HelloFails(n)
      PROVE  ShowInv'
  BY <1>1, DeleteShow, OwnType DEF HelloFails, TypeInv, TypeOK
<1>2. ASSUME NEW n \in Node, Handle(n)
      PROVE  ShowInv'
  BY <1>2, AddShow, HandleFacts DEF Handle, TypeInv
<1>3. ASSUME NEW n \in Node, Kill(n)
      PROVE  ShowInv'
  <2>1. \A x \in Msg : told'[n][x] = 0 /\ Exist(buf'[n], x) = 0
    BY <1>3 DEF Kill, TypeInv, TypeOK, Exist, Holds
  <2>2. \A k \in Node : k # n =>
          buf'[k] = buf[k] /\ told'[k] = told[k] /\ removed'[k] = removed[k]
    BY <1>3 DEF Kill, TypeInv, TypeOK
  <2>3. ShownByCount'
    BY <2>1, <2>2 DEF ShowInv, ShownByCount, Withheld
  <2>4. HeldByCount'
    BY <2>1, <2>2 DEF ShowInv, HeldByCount, Withheld
  <2> QED BY <2>3, <2>4 DEF ShowInv
<1>4. ASSUME NEW m \in Chat, GiveUp(m)
      PROVE  ShowInv'
  BY <1>4, DeleteShow, ChatType DEF GiveUp
<1>5. ASSUME NEW n \in Node, Boot(n) \/ SayHello(n)
      PROVE  ShowInv'
  BY <1>a, <1>5 DEF Boot, SayHello
<1>6. ASSUME NEW p \in Packet, Recv(p) \/ Lose(p)
      PROVE  ShowInv'
  BY <1>a, <1>6 DEF Recv, Lose
<1>7. ASSUME NEW m \in Chat,
             \/ Submit(m) \/ Transmit(m) \/ NoSocket(m) \/ TransmitFails(m)
             \/ Acked(m) \/ Unacked(m)
      PROVE  ShowInv'
  BY <1>a, <1>7 DEF Submit, Transmit, NoSocket, TransmitFails, Acked, Unacked
<1>8. CASE UNCHANGED vars
  BY <1>a, <1>8 DEF vars
<1> QED BY <1>1, <1>2, <1>3, <1>4, <1>5, <1>6, <1>7, <1>8 DEF Next, Main, Reader, Thread

LEMMA ShowInvHolds == Spec => []ShowInv
<1>1. Init => ShowInv
  BY DEF Init, ShowInv, ShownByCount, HeldByCount, Withheld, Exist, Holds
<1> QED BY <1>1, NextShow, TypeInvHolds, PTL DEF Spec

\* However often a message arrives, and whoever sends it again, the clients get
\* it once unless the buffer dropped it.
THEOREM ShownAtMostOnce == Spec => []ShownOnce
BY ShowInvHolds, TypeInvHolds, ShowsByCount, PTL

\* A message that a node holds, and an own one that is acknowledged, is shown.
THEOREM HeldAreShown == Spec => []HeldIsShown
BY ShowInvHolds, TypeInvHolds, ShowsByCount, PTL
-----------------------------------------------------------------------------
(* Where packets can be: they cross one hop, and a chat message is on its  *)
(* way only when its user has sent it.                                     *)

InAir(p) == net[p] > 0 \/ \E n \in Node : rd[n] = p

OneHop(p) == p.dst \in Neighbours[p.src] \cup {p.src}

TravelInv ==
  /\ \A p \in Packet :
       InAir(p) => OneHop(p) /\ (p.msg \in Chat => pc[p.msg] # "idle")
  /\ ListsNeighbours

\* New packets are those of a multicast by k of a message that is under way.
LEMMA TravelStep ==
  ASSUME TypeInv, TypeInv', TravelInv, NEW k, NEW M,
         \A p \in Packet : InAir(p)' =>
           InAir(p) \/ (p.src = k /\ p.dst \in Audience(k) /\ p.msg \in M),
         \A m \in M \cap Chat : pc'[m] # "idle",
         \A m \in Chat : pc'[m] = "idle" => pc[m] = "idle",
         \A n \in Node : \A x \in iplist'[n] :
           x \in iplist[n] \/ (x # n /\ n \in Neighbours[x])
  PROVE  TravelInv'
<1>1. \A p \in Packet :
        InAir(p)' => OneHop(p) /\ (p.msg \in Chat => pc'[p.msg] # "idle")
  BY DEF TravelInv, OneHop, Audience
<1>2. ListsNeighbours'
  BY DEF TravelInv, ListsNeighbours, TypeInv, TypeOK
<1> QED BY <1>1, <1>2 DEF TravelInv, OneHop

LEMMA QuietTravel ==
  ASSUME TypeInv, TypeInv', TravelInv,
         \A p \in Packet : InAir(p)' => InAir(p),
         \A m \in Chat : pc'[m] = "idle" => pc[m] = "idle",
         \A n \in Node : iplist'[n] \subseteq iplist[n]
  PROVE  TravelInv'
<1>1. ListsNeighbours'
  BY DEF TravelInv, ListsNeighbours
<1> QED BY <1>1 DEF TravelInv, OneHop

LEMMA HandleTravel ==
  ASSUME TypeInv, TypeInv', TravelInv, NEW n \in Node, Handle(n)
  PROVE  TravelInv'
<1> DEFINE p == rd[n]
           M == {p.msg, Own(n)}
<1>1. /\ p \in Packet /\ p.dst = n /\ InAir(p)
      /\ \A q \in Packet : net'[q] > 0 =>
           \/ net[q] > 0
           \/ q.src = n /\ q.dst \in Audience(n) /\ q.msg \in M
  BY HandleFacts DEF TypeInv, InAir
<1>2. \A q \in Packet : InAir(q)' =>
        InAir(q) \/ (q.src = n /\ q.dst \in Audience(n) /\ q.msg \in M)
  BY <1>1, MulticastAssumption DEF InAir, Handle, TypeInv, TypeOK
<1>3. \A m \in M \cap Chat : pc'[m] # "idle"
  BY <1>1, OwnType DEF TravelInv, Handle, sendVars, TypeInv, TypeOK
<1>4. n \in Neighbours[p.src] \cup {p.src}
  BY <1>1 DEF TravelInv, OneHop
<1>5. \A k \in Node : \A x \in iplist'[k] :
        x \in iplist[k] \/ (x # k /\ k \in Neighbours[x])
  BY <1>4 DEF Handle, Listed, TypeInv, TypeOK
<1>6. \A m \in Chat : pc'[m] = "idle" => pc[m] = "idle"
  BY DEF Handle, sendVars
<1> HIDE DEF p, M
<1> QED BY <1>2, <1>3, <1>5, <1>6, TravelStep

LEMMA NextTravel == TypeInv /\ TravelInv /\ [Next]_vars => TravelInv'
<1> SUFFICES ASSUME TypeInv, TravelInv, [Next]_vars
             PROVE  TravelInv'
  OBVIOUS
<1>0. TypeInv'
  BY NextType
<1>1. ASSUME NEW n \in Node, Boot(n) \/ HelloFails(n)
      PROVE  TravelInv'
  BY <1>0, <1>1, QuietTravel DEF Boot, HelloFails, InAir, sendVars
<1>2. ASSUME NEW n \in Node, SayHello(n)
      PROVE  TravelInv'
  <2>1. net' = Sent(net, n, Own(n)) /\ UNCHANGED <<rd, iplist, pc>>
    BY <1>2 DEF SayHello, sendVars
  <2>2. \A p \in Packet : Sent(net, n, Own(n))[p] > 0 =>
          net[p] > 0 \/ (p.msg = Own(n) /\ p.src = n /\ p.dst \in Audience(n))
    BY SentOnly DEF TypeInv, TypeOK
  <2> DEFINE M == {Own(n)}
  <2>3. \A p \in Packet : InAir(p)' =>
          InAir(p) \/ (p.src = n /\ p.dst \in Audience(n) /\ p.msg \in M)
    BY <2>1, <2>2 DEF InAir
  <2>4. \A m \in M \cap Chat : pc'[m] # "idle"
    BY OwnType DEF TypeInv, TypeOK
  <2>5. \A m \in Chat : pc'[m] = "idle" => pc[m] = "idle"
    BY <2>1
  <2>6. \A k \in Node : \A x \in iplist'[k] :
          x \in iplist[k] \/ (x # k /\ k \in Neighbours[x])
    BY <2>1
  <2> HIDE DEF M
  <2> QED BY <1>0, <2>3, <2>4, <2>5, <2>6, TravelStep
<1>3. ASSUME NEW n \in Node, Handle(n)
      PROVE  TravelInv'
  BY <1>0, <1>3, HandleTravel
<1>4. ASSUME NEW p \in Packet, Recv(p)
      PROVE  TravelInv'
  <2>1. \A q \in Packet : InAir(q)' => InAir(q)
    BY <1>4, MulticastAssumption DEF Recv, InAir, TypeInv, TypeOK
  <2> QED BY <1>0, <1>4, <2>1, QuietTravel DEF Recv, sendVars
<1>5. ASSUME NEW n \in Node, Kill(n)
      PROVE  TravelInv'
  <2>1. \A q \in Packet : InAir(q)' => InAir(q)
    BY <1>5, MulticastAssumption DEF Kill, InAir, TypeInv, TypeOK
  <2>2. \A m \in Chat : pc'[m] = "idle" => pc[m] = "idle"
    BY <1>5 DEF Kill, TypeInv, TypeOK
  <2>3. \A k \in Node : iplist'[k] \subseteq iplist[k]
    BY <1>5 DEF Kill, TypeInv, TypeOK
  <2> QED BY <1>0, <2>1, <2>2, <2>3, QuietTravel
<1>6. ASSUME NEW m \in Chat, Transmit(m)
      PROVE  TravelInv'
  <2>1. net' = Sent(net, Origin[m], m) /\ UNCHANGED <<rd, iplist>>
    BY <1>6 DEF Transmit
  <2>2. \A p \in Packet : Sent(net, Origin[m], m)[p] > 0 =>
          net[p] > 0 \/ (p.msg = m /\ p.src = Origin[m] /\ p.dst \in Audience(Origin[m]))
    BY SentOnly DEF TypeInv, TypeOK
  <2>3. \A p \in Packet : InAir(p)' =>
          InAir(p) \/ (p.src = Origin[m] /\ p.dst \in Audience(Origin[m]) /\ p.msg \in {m})
    BY <2>1, <2>2 DEF InAir
  <2>4. pc'[m] # "idle" /\ \A k \in Chat : pc'[k] = "idle" => pc[k] = "idle"
    BY <1>6 DEF Transmit, Return, TypeInv, TypeOK
  <2> QED BY <1>0, <2>1, <2>3, <2>4, TravelStep
<1>7. ASSUME NEW m \in Chat,
             \/ Submit(m) \/ NoSocket(m) \/ TransmitFails(m)
             \/ Acked(m) \/ Unacked(m) \/ GiveUp(m)
      PROVE  TravelInv'
  <2>1. UNCHANGED <<net, rd, iplist>>
    BY <1>7 DEF Submit, NoSocket, TransmitFails, Acked, Unacked, GiveUp
  <2>2. \A k \in Chat : pc'[k] = "idle" => pc[k] = "idle"
    BY <1>7 DEF Submit, NoSocket, TransmitFails, Acked, Unacked, GiveUp, Return,
                TypeInv, TypeOK
  <2> QED BY <1>0, <2>1, <2>2, QuietTravel DEF InAir
<1>8. ASSUME NEW p \in Packet, Lose(p)
      PROVE  TravelInv'
  <2>1. \A q \in Packet : InAir(q)' => InAir(q)
    BY <1>8, MulticastAssumption DEF Lose, InAir, TypeInv, TypeOK
  <2> QED BY <1>0, <1>8, <2>1, QuietTravel DEF Lose, sendVars
<1>9. CASE UNCHANGED vars
  BY <1>0, <1>9, QuietTravel DEF vars, InAir, sendVars
<1> QED BY <1>1, <1>2, <1>3, <1>4, <1>5, <1>6, <1>7, <1>8, <1>9
        DEF Next, Main, Reader, Thread

LEMMA TravelInvHolds == Spec => []TravelInv
<1>1. Init => TravelInv
  BY MulticastAssumption DEF Init, TravelInv, InAir, ListsNeighbours
<1> QED BY <1>1, NextTravel, TypeInvHolds, PTL DEF Spec

\* The neighbour list of a node never names a station that it cannot hear.
THEOREM ListsOnlyNeighbours == Spec => []ListsNeighbours
<1>1. TravelInv => ListsNeighbours
  BY DEF TravelInv
<1> QED BY <1>1, TravelInvHolds, PTL
-----------------------------------------------------------------------------
(* Counts: what one step does to the result of msgbuf_exist.               *)

GrownOrGone(n, m) ==
  \/ Exist(buf'[n], m) >= Exist(buf[n], m)
  \/ m \in removed'[n]
  \/ main'[n] = "off"

LEMMA NextGrows ==
  ASSUME TypeInv, [Next]_vars, NEW k \in Node, NEW x \in Msg
  PROVE  GrownOrGone(k, x)
<1>0. Exist(buf[k], x) \in 0 .. SeenCap
  BY ExistType DEF TypeInv, TypeOK, UniqueIds
<1>a. UNCHANGED bufVars => GrownOrGone(k, x)
  BY <1>0, MsgBufAssumption DEF bufVars, GrownOrGone
<1>b. ASSUME NEW n \in Node, NEW m \in Msg, Delete(n, m)
      PROVE  GrownOrGone(k, x)
  <2>1. m \in removed'[n] /\ buf' = [buf EXCEPT ![n] = Deleted(buf[n], m)]
    BY <1>b DEF Delete, TypeInv, TypeOK
  <2>2. x # m => Exist(Deleted(buf[n], m), x) = Exist(buf[n], x)
    BY DeletedKeeps DEF TypeInv, TypeOK, UniqueIds
  <2>3. k # n \/ x # m => Exist(buf'[k], x) = Exist(buf[k], x)
    BY <2>1, <2>2 DEF TypeInv, TypeOK
  <2> QED BY <1>0, <2>1, <2>3, MsgBufAssumption DEF GrownOrGone
<1>1. ASSUME NEW n \in Node, Handle(n)
      PROVE  GrownOrGone(k, x)
  <2> DEFINE m == rd[n].msg
  <2>1. m \in Msg /\ Add(n, m)
    BY <1>1, HandleFacts DEF Handle, TypeInv
  <2>2. CASE k = n /\ x = m
    <3>1. Exist(buf[k], x) = 0 \/ Exist(buf'[k], x) = Increment(Exist(buf[k], x))
      BY <1>0, <2>1, <2>2, AddCounts, MsgBufAssumption
    <3>2. Exist(buf[k], x) = 0 => Exist(buf'[k], x) = 1
      BY <2>1, <2>2, AddCounts
    <3> QED BY <1>0, <3>1, <3>2, IncrementType, MsgBufAssumption DEF GrownOrGone
  <2>3. CASE k = n /\ x # m
    <3>1. /\ buf[n] \in Seq(Entries(Msg)) /\ Distinct(buf[n])
          /\ Len(buf[n]) <= MAXMSGS
      BY DEF TypeInv, TypeOK, UniqueIds
    <3>2. \/ Exist(Added(buf[n], m), x) = Exist(buf[n], x)
          \/ x \in Evicted(buf[n], m)
      BY <2>1, <2>3, <3>1, AddedKeeps
    <3>3. buf'[n] = Added(buf[n], m) /\ Evicted(buf[n], m) \subseteq removed'[n]
      BY <2>1 DEF Add, TypeInv, TypeOK
    <3> QED BY <1>0, <2>3, <3>2, <3>3, MsgBufAssumption DEF GrownOrGone
  <2>4. CASE k # n
    <3>1. buf'[k] = buf[k]
      BY <2>1, <2>4 DEF Add, TypeInv, TypeOK
    <3> QED BY <1>0, <3>1, MsgBufAssumption DEF GrownOrGone
  <2> QED BY <2>2, <2>3, <2>4
<1>2. ASSUME NEW n \in Node, Kill(n)
      PROVE  GrownOrGone(k, x)
  <2>1. k # n => buf'[k] = buf[k]
    BY <1>2 DEF Kill, TypeInv, TypeOK
  <2>2. main'[n] = "off"
    BY <1>2 DEF Kill, TypeInv, TypeOK
  <2> QED BY <1>0, <2>1, <2>2, MsgBufAssumption DEF GrownOrGone
<1>3. ASSUME NEW n \in Node, HelloFails(n)
      PROVE  GrownOrGone(k, x)
  BY <1>b, <1>3, OwnType DEF HelloFails, TypeInv, TypeOK
<1>4. ASSUME NEW m \in Chat, GiveUp(m)
      PROVE  GrownOrGone(k, x)
  BY <1>b, <1>4, ChatType DEF GiveUp
<1>5. ASSUME NEW n \in Node, Boot(n) \/ SayHello(n)
      PROVE  GrownOrGone(k, x)
  BY <1>a, <1>5 DEF Boot, SayHello
<1>6. ASSUME NEW p \in Packet, Recv(p) \/ Lose(p)
      PROVE  GrownOrGone(k, x)
  BY <1>a, <1>6 DEF Recv, Lose
<1>7. ASSUME NEW m \in Chat,
             \/ Submit(m) \/ Transmit(m) \/ NoSocket(m) \/ TransmitFails(m)
             \/ Acked(m) \/ Unacked(m)
      PROVE  GrownOrGone(k, x)
  BY <1>a, <1>7 DEF Submit, Transmit, NoSocket, TransmitFails, Acked, Unacked
<1>8. CASE UNCHANGED vars
  BY <1>a, <1>8 DEF vars
<1> QED BY <1>1, <1>2, <1>3, <1>4, <1>5, <1>6, <1>7, <1>8
        DEF Next, Main, Reader, Thread

\* Nobody's step makes a message less times than it was, except by dropping it.
THEOREM CountsGrow == Spec => SeenGrows
<1>1. TypeInv /\ [Next]_vars =>
        [\A n \in Node, m \in Msg :
           \/ Exist(buf'[n], m) >= Exist(buf[n], m)
           \/ m \in removed'[n]
           \/ main'[n] = "off"]_vars
  BY NextGrows DEF GrownOrGone
<1> QED BY <1>1, TypeInvHolds, PTL DEF Spec, SeenGrows
-----------------------------------------------------------------------------
(* Multicast implements Delivery.                                          *)

LEMMA InitPromise == Init => Promise!Init
BY DEF Init, Promise!Init, HoldersOf, StatusOf

\* The reader of n puts a chat message in its buffer: it came one hop from its
\* sender or from a node that has it.
LEMMA HandleSpreads ==
  ASSUME TypeInv, AckInv, TravelInv, NEW n \in Node, Handle(n)
  PROVE  [Promise!Next]_<<HoldersOf, StatusOf>>
<1> DEFINE p == rd[n]
           m == p.msg
<1>1. /\ p \in Packet /\ p.dst = n /\ m \in Msg /\ p.src \in Node
      /\ InAir(p) /\ p # Idle
  BY HandleFacts DEF TypeInv, InAir, Handle
<1>2. StatusOf' = StatusOf
  BY DEF Handle, sendVars, StatusOf
<1>3. heard' = [heard EXCEPT ![n] = heard[n] \cup {m}] /\ heard \in [Node -> SUBSET Msg]
  BY DEF Handle, Add, TypeInv, TypeOK
<1>4. CASE m \in Chat
  <2>1. pc[m] # "idle"
    BY <1>1, <1>4 DEF TravelInv
  <2>2. StatusOf[m] # "new"
    <3>1. StatusOf[m] = CASE pc[m] = "idle" -> "new"
                          [] pc[m] = "killed" -> "lost"
                          [] pc[m] = "done" -> ret[m]
                          [] OTHER -> "pending"
      BY <1>4 DEF StatusOf
    <3>2. ret[m] \in {"none", "ok", "fail"}
      BY <1>4 DEF TypeInv, TypeOK
    <3> QED BY <2>1, <3>1, <3>2
  <2>3. \E k \in HoldersOf[m] \cup {Origin[m]} : n \in Neighbours[k] \cup {k}
    <3>1. p.src \in HoldersOf[m] \cup {Origin[m]}
      BY <1>1, <1>4, ChatType DEF AckInv, Handled, SourceOK, HoldersOf
    <3>2. n \in Neighbours[p.src] \cup {p.src}
      BY <1>1 DEF TravelInv, OneHop
    <3> QED BY <3>1, <3>2
  <2>4. HoldersOf' = [HoldersOf EXCEPT ![m] = HoldersOf[m] \cup {n}]
    BY <1>3, <1>4 DEF HoldersOf
  <2>5. Promise!Spread(m, n)
    BY <1>2, <2>2, <2>3, <2>4 DEF Promise!Spread
  <2> QED BY <1>4, <2>5 DEF Promise!Next
<1>5. CASE m \notin Chat
  <2>1. HoldersOf' = HoldersOf
    BY <1>3, <1>5 DEF HoldersOf
  <2> QED BY <1>2, <2>1
<1> QED BY <1>4, <1>5

\* The status of a message as a function of its thread alone.
StatusAt(place, result) ==
  CASE place = "idle" -> "new"
    [] place = "killed" -> "lost"
    [] place = "done" -> result
    [] OTHER -> "pending"

LEMMA StatusIs ==
  /\ StatusOf = [m \in Chat |-> StatusAt(pc[m], ret[m])]
  /\ StatusOf' = [m \in Chat |-> StatusAt(pc'[m], ret'[m])]
BY DEF StatusOf, StatusAt

\* A step of one sending thread.
LEMMA ThreadStatus ==
  ASSUME NEW m \in Chat,
         \A k \in Chat : k # m => pc'[k] = pc[k] /\ ret'[k] = ret[k]
  PROVE  /\ StatusOf[m] = StatusAt(pc[m], ret[m])
         /\ StatusOf' = [StatusOf EXCEPT ![m] = StatusAt(pc'[m], ret'[m])]
BY StatusIs

LEMMA ThreadKeepsPromise ==
  ASSUME TypeInv, AckInv, NEW m \in Chat, Submit(m) \/ Thread(m)
  PROVE  [Promise!Next]_<<HoldersOf, StatusOf>>
<1>1. HoldersOf' = HoldersOf
  BY DEF Submit, Thread, Transmit, NoSocket, TransmitFails, Acked, Unacked, GiveUp,
         Delete, bufVars, HoldersOf
<1>2. /\ m \in Msg /\ Origin[m] \in Node /\ Sender(m) = Origin[m]
      /\ pc \in [Chat -> {"idle", "send", "wait", "delete", "done", "killed"}]
      /\ ret \in [Chat -> {"none", "ok", "fail"}]
  BY ChatType DEF TypeInv, TypeOK
<1>0. \A k \in Chat : k # m => pc'[k] = pc[k] /\ ret'[k] = ret[k]
  BY <1>2 DEF Submit, Thread, Transmit, NoSocket, TransmitFails, Acked, Unacked,
              GiveUp, Return
<1>s. /\ StatusOf[m] = StatusAt(pc[m], ret[m])
      /\ StatusOf' = [StatusOf EXCEPT ![m] = StatusAt(pc'[m], ret'[m])]
  BY <1>0, ThreadStatus
<1>a. ASSUME pc[m] \in {"send", "wait", "delete"}, pc'[m] \in {"send", "wait", "delete"}
      PROVE  StatusOf' = StatusOf
  <2>1. StatusOf[m] = "pending" /\ StatusOf' = [StatusOf EXCEPT ![m] = "pending"]
    BY <1>s, <1>a DEF StatusAt
  <2> QED BY <2>1 DEF StatusOf
<1>b. ASSUME NEW r \in {"ok", "fail"}, pc[m] \in {"send", "wait", "delete"}, Return(m, r)
      PROVE  StatusOf[m] = "pending" /\ StatusOf' = [StatusOf EXCEPT ![m] = r]
  <2>1. pc'[m] = "done" /\ ret'[m] = r
    BY <1>2, <1>b DEF Return
  <2> QED BY <1>s, <1>b, <2>1 DEF StatusAt
<1>3. CASE Submit(m)
  <2>1. StatusOf[m] = "new" /\ StatusOf' = [StatusOf EXCEPT ![m] = "pending"]
    <3>1. pc[m] = "idle" /\ pc'[m] = "send"
      BY <1>2, <1>3 DEF Submit
    <3> QED BY <1>s, <3>1 DEF StatusAt
  <2>2. Promise!Send(m)
    BY <1>1, <2>1 DEF Promise!Send
  <2> QED BY <2>2 DEF Promise!Next
<1>4. CASE Transmit(m)
  <2>1. CASE WaitAck
    BY <1>1, <1>2, <1>4, <1>a, <2>1 DEF Transmit
  <2>2. CASE ~ WaitAck
    <3>1. Promise!Succeed(m)
      BY <1>1, <1>4, <1>b, <2>2 DEF Transmit, Promise!Succeed
    <3> QED BY <3>1 DEF Promise!Next
  <2> QED BY <2>1, <2>2
<1>5. CASE NoSocket(m) \/ GiveUp(m)
  <2>1. Promise!Fail(m)
    BY <1>1, <1>5, <1>b DEF NoSocket, GiveUp, Promise!Fail
  <2> QED BY <2>1 DEF Promise!Next
<1>6. CASE TransmitFails(m)
  BY <1>1, <1>2, <1>6, <1>a DEF TransmitFails
<1>7. CASE Unacked(m)
  <2> DEFINE b == IF tries[m] + 1 < MSG_RESEND_TIMES + 1 THEN "send" ELSE "delete"
  <2>1. b \in {"send", "delete"} /\ pc' = [pc EXCEPT ![m] = b]
    BY <1>7 DEF Unacked
  <2> HIDE DEF b
  <2> QED BY <1>1, <1>2, <1>7, <1>a, <2>1 DEF Unacked
<1>8. CASE Acked(m)
  <2>1. \E n \in HoldersOf[m] : n # Origin[m]
    BY <1>2, <1>8 DEF AckInv, Counted, Acked, HeardElsewhere, HoldersOf
  <2>2. Promise!Succeed(m)
    BY <1>1, <1>8, <1>b, <2>1 DEF Acked, Promise!Succeed
  <2> QED BY <2>2 DEF Promise!Next
<1> QED BY <1>3, <1>4, <1>5, <1>6, <1>7, <1>8 DEF Thread

LEMMA NextPromise ==
  TypeInv /\ AckInv /\ TravelInv /\ [Next]_vars => [Promise!Next]_<<HoldersOf, StatusOf>>
<1> SUFFICES ASSUME TypeInv, AckInv, TravelInv, [Next]_vars
             PROVE  [Promise!Next]_<<HoldersOf, StatusOf>>
  OBVIOUS
<1>a. UNCHANGED <<heard, pc, ret>> => UNCHANGED <<HoldersOf, StatusOf>>
  BY DEF HoldersOf, StatusOf
<1>1. ASSUME NEW n \in Node, Main(n)
      PROVE  UNCHANGED <<heard, pc, ret>>
  BY <1>1 DEF Main, Boot, SayHello, HelloFails, Delete, bufVars, sendVars
<1>2. ASSUME NEW n \in Node, Reader(n)
      PROVE  [Promise!Next]_<<HoldersOf, StatusOf>>
  BY <1>2, <1>a, HandleSpreads DEF Reader, Recv, bufVars, sendVars
<1>3. ASSUME NEW n \in Node, Kill(n)
      PROVE  [Promise!Next]_<<HoldersOf, StatusOf>>
  <2>1. HoldersOf' = HoldersOf
    BY <1>3 DEF Kill, HoldersOf
  <2>2. ASSUME NEW m \in Chat
        PROVE  StatusOf'[m] = IF Origin[m] = n /\ StatusOf[m] = "pending"
                                THEN "lost" ELSE StatusOf[m]
    <3>1. /\ pc'[m] = IF Origin[m] = n /\ pc[m] \in {"send", "wait", "delete"}
                        THEN "killed" ELSE pc[m]
          /\ ret'[m] = ret[m]
          /\ pc[m] \in {"idle", "send", "wait", "delete", "done", "killed"}
          /\ ret[m] \in {"none", "ok", "fail"}
      BY <1>3 DEF Kill, TypeInv, TypeOK
    <3>2. /\ StatusOf[m] = StatusAt(pc[m], ret[m])
          /\ StatusOf'[m] = StatusAt(pc'[m], ret'[m])
      BY StatusIs
    <3> QED BY <3>1, <3>2 DEF StatusAt
  <2>3. StatusOf' = [m \in Chat |-> StatusOf'[m]]
    BY DEF StatusOf
  <2>4. Promise!Crash(n)
    BY <2>1, <2>2, <2>3 DEF Promise!Crash
  <2> QED BY <2>4 DEF Promise!Next
<1>4. ASSUME NEW m \in Chat, Submit(m) \/ Thread(m)
      PROVE  [Promise!Next]_<<HoldersOf, StatusOf>>
  BY <1>4, ThreadKeepsPromise
<1>5. ASSUME NEW p \in Packet, Lose(p)
      PROVE  UNCHANGED <<heard, pc, ret>>
  BY <1>5 DEF Lose, bufVars, sendVars
<1>6. CASE UNCHANGED vars
  BY <1>6, <1>a DEF vars, bufVars, sendVars
<1> QED BY <1>a, <1>1, <1>2, <1>3, <1>4, <1>5, <1>6 DEF Next

\* The chat processes, the radio and the restarts together behave like the
\* abstract chat of Delivery.
THEOREM MulticastDelivers == Spec => KeepsPromise
BY InitPromise, NextPromise, TypeInvHolds, AckInvHolds, TravelInvHolds, PTL
   DEF Spec, KeepsPromise, Promise!Spec
-----------------------------------------------------------------------------
(* One message at one node, in module Relay, with the same thresholds.     *)

\* What the reader may decide about copy number s.
LEMMA DecisionsAre ==
  ASSUME NEW s \in Nat \ {0}, NEW origin \in BOOLEAN, NEW fwd \in Decisions(s, origin)
  PROVE  /\ fwd \in BOOLEAN
         /\ origin => fwd
         /\ s > MSG_RESEND_TIMES /\ fwd => origin
<1>1. PICK r \in Draws : fwd = Forwards(s, origin, r)
  BY DEF Decisions
<1>2. fwd \in BOOLEAN
  BY <1>1 DEF Forwards
<1>3. origin => fwd
  BY <1>1, ForwardingAssumption DEF Forwards
<1>4. ASSUME s > MSG_RESEND_TIMES, fwd
      PROVE  origin
  <2>1. Forwards(s, origin, r)
    BY <1>1, <1>4
  <2>2. ~ s <= ALWAYS_FORWARD /\ ~ s <= MSG_RESEND_TIMES
    BY <1>4, ForwardingAssumption
  <2> QED BY <2>1, <2>2 DEF Forwards
<1> QED BY <1>2, <1>3, <1>4

\* A copy that is not from the origin is paid for out of MSG_RESEND_TIMES.
RelayInv ==
  /\ RelayTypeOK
  /\ RelayBound
  /\ NeverEchoes

\* One copy, by its number and by what is decided about it.
LEMMA CopyFacts ==
  ASSUME RelayInv, NEW origin \in BOOLEAN, Copy(origin)
  PROVE  /\ seen' = seen + 1 /\ seen < MaxSeen /\ echoed' = echoed
         /\ asked' = IF origin THEN asked + 1 ELSE asked
         /\ relayed' \in {relayed, relayed + 1}
         /\ origin => relayed' = relayed + 1
         /\ seen >= MSG_RESEND_TIMES /\ relayed' = relayed + 1 => origin
<1>1. seen \in Nat /\ relayed \in Nat /\ seen + 1 \in Nat \ {0}
  BY DEF RelayInv, RelayTypeOK
<1>2. PICK fwd \in Decisions(seen + 1, origin) :
        relayed' = IF fwd THEN relayed + 1 ELSE relayed
  BY DEF Copy
<1>3. /\ fwd \in BOOLEAN
      /\ origin => fwd
      /\ seen + 1 > MSG_RESEND_TIMES /\ fwd => origin
  BY <1>1, DecisionsAre
<1> QED BY <1>1, <1>2, <1>3, ForwardingAssumption, RelayAssumption DEF Copy

LEMMA NextRelay == RelayInv /\ [RelayNext]_relayVars => RelayInv'
<1> SUFFICES ASSUME RelayInv, [RelayNext]_relayVars
             PROVE  RelayInv'
  OBVIOUS
<1>0. /\ seen \in 0 .. MaxSeen /\ relayed \in Nat /\ asked \in Nat /\ echoed \in Nat
      /\ MaxSeen \in Nat /\ MSG_RESEND_TIMES \in Nat
      /\ relayed <= MSG_RESEND_TIMES + asked
      /\ relayed + echoed <= seen
  BY ForwardingAssumption, RelayAssumption
     DEF RelayInv, RelayTypeOK, RelayBound, NeverEchoes
<1>1. ASSUME NEW origin \in BOOLEAN, Copy(origin)
      PROVE  RelayInv'
  <2>1. /\ seen' = seen + 1 /\ seen < MaxSeen /\ echoed' = echoed
        /\ asked' = IF origin THEN asked + 1 ELSE asked
        /\ relayed' \in {relayed, relayed + 1}
        /\ origin => relayed' = relayed + 1
        /\ seen >= MSG_RESEND_TIMES /\ relayed' = relayed + 1 => origin
    BY <1>1, CopyFacts
  <2>2. RelayTypeOK'
    BY <1>0, <2>1 DEF RelayTypeOK
  <2>3. RelayBound'
    BY <1>0, <2>1 DEF RelayBound
  <2>4. NeverEchoes'
    <3>1. (relayed' = relayed \/ relayed' = relayed + 1) /\ seen' = seen + 1 /\ echoed' = echoed
      BY <2>1
    <3>2. /\ seen \in Nat /\ relayed \in Nat /\ echoed \in Nat
          /\ relayed + echoed <= seen
      BY <1>0
    <3>3. relayed' + echoed' <= seen'
      BY <3>1, <3>2
    <3> QED BY <3>3 DEF NeverEchoes
  <2> QED BY <2>2, <2>3, <2>4 DEF RelayInv
<1>2. CASE Echo
  BY <1>0, <1>2 DEF Echo, RelayInv, RelayTypeOK, RelayBound, NeverEchoes
<1>3. CASE UNCHANGED relayVars
  BY <1>3 DEF relayVars, RelayInv, RelayTypeOK, RelayBound, NeverEchoes
<1> QED BY <1>1, <1>2, <1>3 DEF RelayNext

LEMMA RelayInvHolds == RelaySpec => []RelayInv
<1>1. RelayInit => RelayInv
  BY ForwardingAssumption, RelayAssumption
     DEF RelayInit, RelayInv, RelayTypeOK, RelayBound, NeverEchoes
<1> QED BY <1>1, NextRelay, PTL DEF RelaySpec

\* One message costs a node at most MSG_RESEND_TIMES transmissions and one for
\* every copy that its origin asked for.
THEOREM RelayIsBounded == RelaySpec => []RelayBound
<1>1. RelayInv => RelayBound
  BY DEF RelayInv
<1> QED BY <1>1, RelayInvHolds, PTL

\* The copies that a node hears of its own transmissions never feed more.
THEOREM EchoesAreFree == RelaySpec => []NeverEchoes
<1>1. RelayInv => NeverEchoes
  BY DEF RelayInv
<1> QED BY <1>1, RelayInvHolds, PTL

\* The origin always gets the transmission that acknowledges its copy.
THEOREM OriginIsAnswered == RelaySpec => OriginAnswered
<1>1. RelayInv /\ [RelayNext]_relayVars
        => [asked' # asked => relayed' = relayed + 1]_relayVars
  BY CopyFacts DEF RelayNext, Echo, relayVars
<1> QED BY <1>1, RelayInvHolds, PTL DEF RelaySpec, OriginAnswered

\* Nobody else gets one after MSG_RESEND_TIMES copies.
THEOREM RelayFallsSilent == RelaySpec => FallsSilent
<1>1. ASSUME RelayInv, [RelayNext]_relayVars
      PROVE  [seen >= MSG_RESEND_TIMES /\ relayed' # relayed => asked' # asked]_relayVars
  <2>1. ASSUME NEW origin \in BOOLEAN, Copy(origin),
               seen >= MSG_RESEND_TIMES, relayed' # relayed
        PROVE  asked' # asked
    <3>1. /\ relayed' \in {relayed, relayed + 1}
          /\ seen >= MSG_RESEND_TIMES /\ relayed' = relayed + 1 => origin
          /\ asked' = IF origin THEN asked + 1 ELSE asked
          /\ asked \in Nat
      BY <1>1, <2>1, CopyFacts DEF RelayInv, RelayTypeOK
    <3> QED BY <2>1, <3>1
  <2> QED BY <1>1, <2>1 DEF RelayNext, Echo, relayVars
<1> QED BY <1>1, RelayInvHolds, PTL DEF RelaySpec, FallsSilent
=============================================================================
