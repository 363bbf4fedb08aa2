----------------------------- MODULE Forwarding -----------------------------
(***************************************************************************)
(* The decision of the multicast reader (mcast_read in chat_mcast.c) to    *)
(* send a received copy of a message on, as a function of how many times   *)
(* the message has now been seen and of who transmitted the copy.          *)
(***************************************************************************)
EXTENDS Naturals

CONSTANTS
  ALWAYS_FORWARD,   \* the literal 5 of "seen <= 5"
  MSG_RESEND_TIMES, \* 10 in chat.h
  Draws             \* values of rand() % 100

ASSUME ForwardingAssumption ==
  /\ ALWAYS_FORWARD \in Nat /\ ALWAYS_FORWARD >= 1
  /\ MSG_RESEND_TIMES \in Nat /\ MSG_RESEND_TIMES >= 1
  /\ ALWAYS_FORWARD <= MSG_RESEND_TIMES
  /\ Draws \subseteq 0 .. 99 /\ Draws # {}

\* r <= p with p = seen * 10
Wins(seen, r) == r <= seen * 10

\* Mutant: the first copy is not forwarded.
SkipsFirst(seen, fromOrigin, r) ==
  \/ seen > 1 /\ seen <= ALWAYS_FORWARD
  \/ seen > 1 /\ fromOrigin
  \/ seen > 1 /\ seen <= MSG_RESEND_TIMES /\ Wins(seen, r)

\* Mutant: no upper limit on the draw.
DrawsForever(seen, fromOrigin, r) ==
  \/ seen >= 1 /\ seen <= ALWAYS_FORWARD
  \/ seen > 1 /\ fromOrigin
  \/ seen > 1 /\ Wins(seen, r)

\* The three tests of the reader, in order; a later one only matters when
\* the earlier ones left fwd at 0.
Forwards(seen, fromOrigin, r) ==
  \/ seen >= 1 /\ seen <= ALWAYS_FORWARD
  \/ seen > 1 /\ fromOrigin
  \/ seen > 1 /\ seen <= MSG_RESEND_TIMES /\ Wins(seen, r)

Decisions(seen, fromOrigin) == {Forwards(seen, fromOrigin, r) : r \in Draws}
=============================================================================
