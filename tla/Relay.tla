------------------------------- MODULE Relay -------------------------------
(***************************************************************************)
(* How often one node sends one message of another node on: the reader     *)
(* (mcast_read) counts every copy it receives, the copies it transmits     *)
(* itself included, and lets module Forwarding decide.  The thresholds are *)
(* those of the code.                                                      *)
(***************************************************************************)
EXTENDS Forwarding, FiniteSets

CONSTANT MaxSeen  \* bound: copies received

ASSUME RelayAssumption == MaxSeen \in Nat

VARIABLES
  seen,     \* copies received, the result of msgbuf_add
  relayed,  \* copies sent on
  asked,    \* copies that came from the origin itself
  echoed    \* copies that were this node's own transmissions

relayVars == <<seen, relayed, asked, echoed>>

RelayInit == seen = 0 /\ relayed = 0 /\ asked = 0 /\ echoed = 0

\* A copy from another station; the origin resends when it saw no answer.
Copy(fromOrigin) ==
  /\ seen < MaxSeen
  /\ seen' = seen + 1
  /\ \E fwd \in Decisions(seen + 1, fromOrigin) :
       relayed' = IF fwd THEN relayed + 1 ELSE relayed
  /\ asked' = IF fromOrigin THEN asked + 1 ELSE asked
  /\ UNCHANGED echoed

\* Mutant: the test for own transmissions is missing.
EchoSentOn ==
  /\ seen < MaxSeen
  /\ echoed < relayed
  /\ seen' = seen + 1
  /\ echoed' = echoed + 1
  /\ \E fwd \in Decisions(seen + 1, FALSE) :
       relayed' = IF fwd THEN relayed + 1 ELSE relayed
  /\ UNCHANGED asked

\* The loopback of a copy this node sent on: counted, never forwarded.
Echo ==
  /\ seen < MaxSeen
  /\ echoed < relayed
  /\ seen' = seen + 1
  /\ echoed' = echoed + 1
  /\ UNCHANGED <<relayed, asked>>

RelayNext == Echo \/ \E fromOrigin \in BOOLEAN : Copy(fromOrigin)

RelaySpec == RelayInit /\ [][RelayNext]_relayVars

RelayTypeOK ==
  /\ seen \in 0 .. MaxSeen
  /\ relayed \in Nat
  /\ asked \in Nat
  /\ echoed \in Nat

\* One message makes a node transmit a bounded number of times, however often
\* it arrives and however the draws fall; only the origin can get more.
RelayBound == relayed <= MSG_RESEND_TIMES + asked

\* Every copy that the origin transmits is answered by one transmission, the
\* acknowledgement the origin waits for, even when the message is old.
OriginAnswered == [][asked' # asked => relayed' = relayed + 1]_relayVars

\* A node that is not asked falls silent: after MSG_RESEND_TIMES copies it
\* sends the message on only for the origin.
FallsSilent ==
  [][seen >= MSG_RESEND_TIMES /\ relayed' # relayed => asked' # asked]_relayVars

\* Every transmission is paid for by a copy from another station: the copies
\* that loop back count as seen but never feed further transmissions.
NeverEchoes == relayed + echoed <= seen
=============================================================================
