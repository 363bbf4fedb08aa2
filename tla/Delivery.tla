------------------------------ MODULE Delivery ------------------------------
(***************************************************************************)
(* What the multicast chat promises, without buffers, packets or threads:  *)
(* a message that somebody sent spreads from neighbour to neighbour, and a *)
(* sender who is told "sent" knows that another node has the message.      *)
(* It promises neither that a message arrives nor that a failed one does   *)
(* not.  Module Multicast implements this specification.                   *)
(***************************************************************************)
CONSTANTS Node, Chat, Origin, Neighbours, WaitAck

VARIABLES
  holders,  \* the nodes that a chat message has reached
  status    \* what became of the attempt to send it

Init ==
  /\ holders = [m \in Chat |-> {}]
  /\ status = [m \in Chat |-> "new"]

Send(m) ==
  /\ status[m] = "new"
  /\ status' = [status EXCEPT ![m] = "pending"]
  /\ UNCHANGED holders

\* One hop: from the sender or from a node the message has reached.
Spread(m, n) ==
  /\ status[m] # "new"
  /\ \E k \in holders[m] \cup {Origin[m]} : n \in Neighbours[k] \cup {k}
  /\ holders' = [holders EXCEPT ![m] = @ \cup {n}]
  /\ UNCHANGED status

Succeed(m) ==
  /\ status[m] = "pending"
  /\ WaitAck => \E n \in holders[m] : n # Origin[m]
  /\ status' = [status EXCEPT ![m] = "ok"]
  /\ UNCHANGED holders

Fail(m) ==
  /\ status[m] = "pending"
  /\ status' = [status EXCEPT ![m] = "fail"]
  /\ UNCHANGED holders

\* The process of n dies with the threads that were sending.
Crash(n) ==
  /\ status' = [m \in Chat |->
                  IF Origin[m] = n /\ status[m] = "pending"
                    THEN "lost" ELSE status[m]]
  /\ UNCHANGED holders

Next ==
  \/ \E m \in Chat : Send(m) \/ Succeed(m) \/ Fail(m)
  \/ \E m \in Chat, n \in Node : Spread(m, n)
  \/ \E n \in Node : Crash(n)

Spec == Init /\ [][Next]_<<holders, status>>
=============================================================================
