-------------------------- MODULE ChatClientProofs --------------------------
(***************************************************************************)
(* Theorems about ChatClient for every set of programs and every bound.    *)
(*                                                                         *)
(* The invariant follows one line from the keyboard to the verdict: the    *)
(* connection of a program and its chat_send belong to the same line, and  *)
(* what either side knows of it is what became of it.                      *)
(***************************************************************************)
EXTENDS ChatClient, TLAPS

\* A program and its connection.
Connection(c) ==
  /\ call[c] # "idle" => prog[c] = "run" /\ line[c] > 0
  /\ prog[c] = "new" => line[c] = 0 /\ job[c] = "none"
  /\ prog[c] # "end" /\ call[c] \in {"idle", "connect"} => job[c] = "none"
  /\ call[c] = "write" => job[c] \in {"none", "backlog", "text"} /\ ~ text[c] /\ answer[c] = "none"
  /\ job[c] # "none" => line[c] > 0 /\ answer[c] = "none"

\* What was handed over: the current line is the last.
Lines(c) ==
  /\ \A i \in DOMAIN handed[c] : handed[c][i] <= line[c]
  /\ \A i, k \in DOMAIN handed[c] : i < k => handed[c][i] < handed[c][k]
  /\ call[c] \in {"connect", "write"} \/ job[c] \in {"backlog", "text"}
       => ~ Handed(c, line[c])
  /\ \A n \in acked[c] : Handed(c, n)

\* What is known of the current line on the way of its result.
Unacked(c) == Handed(c, line[c]) /\ line[c] \notin acked[c]

Result(c) ==
  /\ job[c] = "mcast" => Unacked(c)
  /\ job[c] = "reply" /\ result[c] = "noack" => Unacked(c)
  /\ job[c] = "reply" => result[c] # "none"
  /\ job[c] = "reply" /\ result[c] = "ok" => line[c] \in acked[c]
  /\ call[c] = "read" /\ answer[c] = "noack" => Unacked(c)
  /\ call[c] = "read" /\ answer[c] = "ok" => line[c] \in acked[c]

\* A line that has its verdict is over; none has it before its time.
Verdicts(c) ==
  \A n \in Line :
    /\ verdict[c][n] # "none" =>
         n <= line[c] /\ (n = line[c] => call[c] = "idle" /\ job[c] = "none")
    /\ verdict[c][n] = "quiet" => n \in acked[c]
    /\ verdict[c][n] = "noack" => Handed(c, n) /\ n \notin acked[c]
    /\ verdict[c][n] = "refused" => ~ Handed(c, n)

Good(c) == Connection(c) /\ Lines(c) /\ Result(c) /\ Verdicts(c)
ChatInv == TypeOK /\ \A c \in Client : Good(c)
-----------------------------------------------------------------------------
\* A step that leaves the line of c alone, but for a connection that is closed
\* or a program that ends.
LEMMA Untouched ==
  ASSUME NEW c \in Client, Good(c),
         handed'[c] = handed[c], acked'[c] = acked[c], verdict'[c] = verdict[c],
         line'[c] = line[c], answer'[c] = answer[c], text'[c] = text[c],
         result'[c] = result[c], job'[c] \in {job[c], "none"},
         \/ prog'[c] = prog[c] /\ call'[c] = call[c]
         \/ prog'[c] = "end" /\ call'[c] = "idle"
  PROVE  Good(c)'
<1>1. \A n : Handed(c, n)' <=> Handed(c, n)
  BY DEF Handed
<1>2. Connection(c)'
  BY DEF Good, Connection
<1>3. Lines(c)'
  BY <1>1 DEF Good, Lines
<1>4. Result(c)'
  BY <1>1 DEF Good, Result, Unacked
<1>5. Verdicts(c)'
  BY <1>1 DEF Good, Verdicts
<1> QED BY <1>2, <1>3, <1>4, <1>5 DEF Good


\* The same hypotheses as one formula, for the steps of others.
Keeps(c) ==
  /\ handed'[c] = handed[c] /\ acked'[c] = acked[c] /\ verdict'[c] = verdict[c]
  /\ line'[c] = line[c] /\ answer'[c] = answer[c] /\ text'[c] = text[c]
  /\ result'[c] = result[c] /\ job'[c] \in {job[c], "none"}
  /\ \/ prog'[c] = prog[c] /\ call'[c] = call[c]
     \/ prog'[c] = "end" /\ call'[c] = "idle"

LEMMA KeepsGood == ASSUME NEW c \in Client, Good(c), Keeps(c) PROVE Good(c)'
BY Untouched DEF Keeps

\* The steps that touch no line at all.
Around ==
  \/ Start \/ Kill
  \/ \E p \in Port : Listen(p) \/ Relisten(p)
  \/ \E d \in Client :
       \/ AcceptRecv(d) \/ OpenFails(d) \/ ReaderLost(d) \/ ReaderConnect(d)
       \/ ReaderEnds(d) \/ Quit(d) \/ Interrupt(d)
  \/ UNCHANGED vars

\* The steps of the line of d.
Mine(d) ==
  \/ AcceptSend(d) \/ ReadText(d) \/ McastSend(d) \/ Reply(d)
  \/ Open(d) \/ Type(d) \/ Connect(d) \/ Write(d) \/ Read(d)

LEMMA NextCases == [Next]_vars => Around \/ \E d \in Client : Mine(d)
BY DEF Next, Around, Mine, Job, Send

LEMMA AroundKeeps ==
  ASSUME TypeOK, Around, NEW c \in Client
  PROVE  Keeps(c)
<1>1. CASE Start \/ Kill \/ \E p \in Port : Listen(p) \/ Relisten(p)
  BY <1>1 DEF TypeOK, Start, Kill, Ends, Listen, Relisten, Keeps, progVars, jobVars, sendVars
<1>2. ASSUME NEW d \in Client,
             \/ AcceptRecv(d) \/ OpenFails(d) \/ ReaderLost(d) \/ ReaderConnect(d)
             \/ ReaderEnds(d) \/ Quit(d) \/ Interrupt(d)
      PROVE  Keeps(c)
  BY <1>2 DEF TypeOK, AcceptRecv, Ends, OpenFails, ReaderLost, ReaderConnect, ReaderEnds,
       Quit, Interrupt, Exit, Keeps, jobVars, sendVars, serviceVars
<1>3. CASE UNCHANGED vars
  BY <1>3 DEF vars, Keeps, progVars, jobVars, sendVars
<1> QED BY <1>1, <1>2, <1>3 DEF Around

LEMMA OthersKeep ==
  ASSUME TypeOK, NEW d \in Client, Mine(d), NEW c \in Client, c # d
  PROVE  Keeps(c)
<1>1. CASE AcceptSend(d) \/ ReadText(d) \/ McastSend(d) \/ Reply(d)
  BY <1>1 DEF TypeOK, AcceptSend, ReadText, McastSend, Reply, Keeps, progVars, sendVars
<1>2. CASE Open(d) \/ Type(d)
  BY <1>2 DEF TypeOK, Open, Type, Keeps, jobVars, sendVars
<1>3. CASE Connect(d) \/ Write(d) \/ Read(d)
  BY <1>3 DEF TypeOK, Connect, Write, Read, Says, Exit, Keeps, jobVars, sendVars
<1> QED BY <1>1, <1>2, <1>3 DEF Mine

-----------------------------------------------------------------------------
LEMMA AcceptSendGood ==
  ASSUME TypeOK, NEW c \in Client, Good(c), AcceptSend(c)
  PROVE  Good(c)'
BY DEF TypeOK, AcceptSend, Good, Connection, Lines, Result, Unacked, Verdicts, Handed, progVars, sendVars

\* A line that is appended to lines that are all smaller.
LEMMA AppendLine ==
  ASSUME NEW h \in Seq(Line), NEW n \in Line,
         \A i \in DOMAIN h : h[i] <= n /\ h[i] # n,
         \A i, k \in DOMAIN h : i < k => h[i] < h[k]
  PROVE  /\ Append(h, n) \in Seq(Line)
         /\ \A i \in DOMAIN Append(h, n) : Append(h, n)[i] <= n
         /\ \A i, k \in DOMAIN Append(h, n) : i < k => Append(h, n)[i] < Append(h, n)[k]
         /\ \A m : (\E i \in DOMAIN Append(h, n) : Append(h, n)[i] = m)
                     <=> m = n \/ \E i \in DOMAIN h : h[i] = m
<1> DEFINE g == Append(h, n)
<1>1. /\ g \in Seq(Line) /\ Len(g) = Len(h) + 1 /\ Len(h) \in Nat
      /\ DOMAIN h = 1 .. Len(h) /\ DOMAIN g = 1 .. Len(h) + 1
      /\ \A i \in 1 .. Len(h) : g[i] = h[i] /\ h[i] \in Line
      /\ g[Len(h) + 1] = n
  OBVIOUS
<1>2. n \in Nat /\ \A i \in DOMAIN h : h[i] \in Nat
  BY <1>1, ChatClientAssumption DEF Line
<1> HIDE DEF g
<1>3. \A i \in DOMAIN g : g[i] <= n
  BY <1>1, <1>2
<1>4. \A i, k \in DOMAIN g : i < k => g[i] < g[k]
  BY <1>1, <1>2
<1>5. \A m : (\E i \in DOMAIN g : g[i] = m) <=> m = n \/ \E i \in DOMAIN h : h[i] = m
  BY <1>1
<1> QED BY <1>1, <1>3, <1>4, <1>5 DEF g

LEMMA ReadTextGood ==
  ASSUME TypeOK, NEW c \in Client, Good(c), ReadText(c)
  PROVE  Good(c)' /\ handed'[c] \in Seq(Line)
<1>1. CASE text[c]
  <2>1. /\ job[c] = "text" /\ job'[c] = "mcast" /\ text'[c] = FALSE
        /\ handed'[c] = Append(handed[c], line[c])
        /\ UNCHANGED <<acked, verdict, line, call, answer, result, prog>>
    BY <1>1 DEF ReadText, TypeOK, serviceVars
  <2>2. /\ line[c] \in Line /\ handed[c] \in Seq(Line) /\ ~ Handed(c, line[c])
        /\ line[c] \notin acked[c] /\ acked[c] \subseteq Line
    BY <2>1, ChatClientAssumption DEF TypeOK, Good, Connection, Lines, Line
  <2>3. /\ handed'[c] \in Seq(Line)
        /\ \A i \in DOMAIN handed'[c] : handed'[c][i] <= line[c]
        /\ \A i, k \in DOMAIN handed'[c] : i < k => handed'[c][i] < handed'[c][k]
        /\ \A n : Handed(c, n)' <=> n = line[c] \/ Handed(c, n)
    <3>1. \A i \in DOMAIN handed[c] : handed[c][i] <= line[c] /\ handed[c][i] # line[c]
      BY <2>2 DEF Good, Lines, Handed
    <3>2. \A i, k \in DOMAIN handed[c] : i < k => handed[c][i] < handed[c][k]
      BY DEF Good, Lines
    <3> DEFINE h == handed[c]
               g == Append(h, line[c])
    <3>3. /\ g \in Seq(Line)
          /\ \A i \in DOMAIN g : g[i] <= line[c]
          /\ \A i, k \in DOMAIN g : i < k => g[i] < g[k]
          /\ \A m : (\E i \in DOMAIN g : g[i] = m) <=> m = line[c] \/ \E i \in DOMAIN h : h[i] = m
      BY <2>2, <3>1, <3>2, AppendLine
    <3>4. handed'[c] = g
      BY <2>1
    <3> HIDE DEF g
    <3> QED BY <3>3, <3>4 DEF Handed
  <2>. /\ call[c] # "write" /\ job[c] # "none"
       /\ prog[c] = "end" \/ call[c] \notin {"idle", "connect"}
    BY <1>1, <2>1 DEF Good, Connection
  <2>4. Connection(c)'
    BY <2>1 DEF Good, Connection
  <2>5. Lines(c)'
    BY <2>1, <2>3 DEF Good, Connection, Lines
  <2>6. Result(c)'
    BY <2>1, <2>2, <2>3 DEF Good, Connection, Result, Unacked
  <2>7. Verdicts(c)'
    BY <2>1, <2>2, <2>3 DEF Good, Verdicts
  <2> QED BY <2>3, <2>4, <2>5, <2>6, <2>7 DEF Good
<1>2. CASE ~ text[c]
  <2>1. Keeps(c)
    BY <1>2 DEF ReadText, TypeOK, Keeps
  <2>2. handed' = handed
    BY <1>2 DEF ReadText
  <2> QED BY <2>1, <2>2, KeepsGood DEF TypeOK
<1> QED BY <1>1, <1>2

LEMMA McastSendGood ==
  ASSUME TypeOK, NEW c \in Client, Good(c), McastSend(c)
  PROVE  Good(c)'
<1>1. /\ job[c] = "mcast" /\ job'[c] = "reply" /\ Unacked(c)
      /\ UNCHANGED <<handed, verdict, line, call, answer, text, prog>>
      /\ \A n : Handed(c, n)' <=> Handed(c, n)
  BY DEF McastSend, TypeOK, progVars, sendVars, Good, Result, Handed
<1>2. \/ result'[c] = "ok" /\ acked'[c] = acked[c] \cup {line[c]}
      \/ result'[c] = "noack" /\ acked'[c] = acked[c]
  BY DEF McastSend, TypeOK
<1>3. Connection(c)'
  BY <1>1 DEF Good, Connection
<1>4. Lines(c)'
  BY <1>1, <1>2 DEF Good, Connection, Lines, Unacked
<1>5. Result(c)'
  BY <1>1, <1>2 DEF Good, Connection, Result, Unacked
<1>6. Verdicts(c)'
  BY <1>1, <1>2 DEF Good, Verdicts
<1> QED BY <1>3, <1>4, <1>5, <1>6 DEF Good

LEMMA ReplyGood ==
  ASSUME TypeOK, NEW c \in Client, Good(c), Reply(c)
  PROVE  Good(c)'
<1>1. /\ job[c] = "reply" /\ job'[c] = "none" /\ answer'[c] = result[c]
      /\ UNCHANGED <<handed, acked, verdict, line, call, text, prog, result>>
      /\ \A n : Handed(c, n)' <=> Handed(c, n)
  BY DEF Reply, TypeOK, Handed
<1>2. Connection(c)'
  BY <1>1 DEF Good, Connection
<1>3. Lines(c)'
  BY <1>1 DEF Good, Connection, Lines
<1>4. Result(c)'
  BY <1>1 DEF Good, Connection, Result, Unacked
<1>5. Verdicts(c)'
  BY <1>1 DEF Good, Verdicts
<1> QED BY <1>2, <1>3, <1>4, <1>5 DEF Good

LEMMA OpenGood ==
  ASSUME TypeOK, NEW c \in Client, Good(c), Open(c)
  PROVE  Good(c)'
BY DEF TypeOK, Open, Good, Connection, Lines, Result, Unacked, Verdicts, Handed, jobVars, sendVars

\* A new line is greater than every one before it.
LEMMA TypeGood ==
  ASSUME TypeOK, NEW c \in Client, Good(c), Type(c)
  PROVE  Good(c)'
<1>1. /\ prog[c] = "run" /\ call[c] = "idle" /\ call'[c] = "connect"
      /\ line[c] \in Nat /\ line'[c] = line[c] + 1
      /\ UNCHANGED <<handed, acked, verdict, answer, text, prog, result, job>>
      /\ \A n : Handed(c, n)' <=> Handed(c, n)
  BY ChatClientAssumption DEF Type, TypeOK, jobVars, Handed
<1>2. /\ job[c] = "none" /\ \A i \in DOMAIN handed[c] : handed[c][i] \in Nat
      /\ Line \subseteq Nat
  BY <1>1, ChatClientAssumption DEF Good, Connection, TypeOK, Line
<1>3. Connection(c)'
  BY <1>1, <1>2 DEF Good, Connection
<1>4. Lines(c)'
  BY <1>1, <1>2 DEF Good, Lines, Handed
<1>5. Result(c)'
  BY <1>1, <1>2 DEF Result
<1>6. Verdicts(c)'
  BY <1>1, <1>2 DEF Good, Verdicts
<1> QED BY <1>3, <1>4, <1>5, <1>6 DEF Good

\* A verdict of the current line, after which its call is over.
LEMMA SaysGood ==
  ASSUME TypeOK, NEW c \in Client, Good(c), call[c] # "idle", job'[c] = "none",
         NEW what \in {"quiet", "noack", "refused", "broken"}, Says(c, what),
         what = "quiet" => line[c] \in acked[c],
         what = "noack" => Unacked(c),
         what = "refused" => ~ Handed(c, line[c]),
         UNCHANGED <<handed, acked, line, answer, result>>
  PROVE  Good(c)'
<1>1. /\ call'[c] = "idle" /\ prog'[c] \in {"run", "end"} /\ line[c] > 0
      /\ line[c] \in Line
      /\ verdict'[c] = [verdict[c] EXCEPT ![line[c]] = what]
      /\ \A n : Handed(c, n)' <=> Handed(c, n)
  BY ChatClientAssumption DEF Says, Exit, TypeOK, Handed, Good, Connection, Line
<1>2. Connection(c)'
  BY <1>1 DEF Connection
<1>3. Lines(c)'
  BY <1>1 DEF Good, Lines
<1>4. Result(c)'
  BY <1>1 DEF Result
<1>5. Verdicts(c)'
  <2> SUFFICES ASSUME NEW n \in Line
               PROVE  /\ verdict'[c][n] # "none" => n <= line[c]
                      /\ verdict'[c][n] = "quiet" => n \in acked[c]
                      /\ verdict'[c][n] = "noack" => Handed(c, n) /\ n \notin acked[c]
                      /\ verdict'[c][n] = "refused" => ~ Handed(c, n)
    BY <1>1 DEF Verdicts
  <2>1. verdict[c] \in [Line -> {"none", "quiet", "noack", "refused", "broken"}]
    BY DEF TypeOK
  <2>2. CASE n = line[c]
    <3>1. verdict'[c][n] = what /\ n <= line[c]
      BY <1>1, <2>1, <2>2, ChatClientAssumption DEF Line
    <3> QED BY <3>1, <2>2 DEF Unacked
  <2>3. CASE n # line[c]
    BY <1>1, <2>1, <2>3 DEF Good, Verdicts
  <2> QED BY <2>2, <2>3
<1> QED BY <1>2, <1>3, <1>4, <1>5 DEF Good

LEMMA ConnectGood ==
  ASSUME TypeOK, NEW c \in Client, Good(c), Connect(c)
  PROVE  Good(c)'
<1>1. /\ call[c] = "connect" /\ job[c] = "none" /\ ~ Handed(c, line[c])
      /\ UNCHANGED <<handed, acked, line, result>>
      /\ \A n : Handed(c, n)' <=> Handed(c, n)
  BY DEF Connect, Good, Connection, Lines, Handed
<1>2. CASE Says(c, "refused") /\ UNCHANGED <<job, text, answer>>
  BY <1>1, <1>2, SaysGood
<1>3. CASE ~ UNCHANGED job
  <2>1. /\ job'[c] = "backlog" /\ call'[c] = "write" /\ answer'[c] = "none"
        /\ text'[c] = FALSE /\ UNCHANGED <<prog, verdict>>
    BY <1>3 DEF Connect, TypeOK
  <2>2. Connection(c)'
    BY <1>1, <2>1 DEF Good, Connection
  <2>3. Lines(c)'
    BY <1>1, <2>1 DEF Good, Lines
  <2>4. Result(c)'
    BY <1>1, <2>1 DEF Result
  <2>5. Verdicts(c)'
    BY <1>1, <2>1 DEF Good, Verdicts
  <2> QED BY <2>2, <2>3, <2>4, <2>5 DEF Good
<1>4. job' = job => Says(c, "refused") /\ UNCHANGED <<job, text, answer>>
  BY <1>1 DEF Connect, TypeOK
<1> QED BY <1>2, <1>3, <1>4

LEMMA WriteGood ==
  ASSUME TypeOK, NEW c \in Client, Good(c), Write(c)
  PROVE  Good(c)'
<1>1. /\ call[c] = "write"
      /\ UNCHANGED <<handed, acked, line, result, job, answer>>
      /\ \A n : Handed(c, n)' <=> Handed(c, n)
  BY DEF Write, Handed, jobVars
<1>2. CASE job[c] = "none" /\ Says(c, "broken")
  BY <1>1, <1>2, SaysGood
<1>3. CASE call' = [call EXCEPT ![c] = "read"] /\ UNCHANGED <<prog, verdict>>
  <2>1. call'[c] = "read"
    BY <1>3 DEF TypeOK
  <2>2. Connection(c)'
    BY <1>1, <1>3, <2>1 DEF Good, Connection
  <2>3. Lines(c)'
    BY <1>1, <2>1 DEF Good, Lines
  <2>4. Result(c)'
    BY <1>1, <2>1 DEF Good, Connection, Result, Unacked
  <2>5. Verdicts(c)'
    BY <1>1, <1>3, <2>1 DEF Good, Verdicts
  <2> QED BY <2>2, <2>3, <2>4, <2>5 DEF Good
<1> QED BY <1>2, <1>3 DEF Write

LEMMA ReadGood ==
  ASSUME TypeOK, NEW c \in Client, Good(c), Read(c)
  PROVE  Good(c)'
<1>1. /\ call[c] = "read"
      /\ UNCHANGED <<handed, acked, line, result, job, answer>>
  BY DEF Read, jobVars
<1>2. CASE answer[c] # "none" /\ Says(c, IF answer[c] = "ok" THEN "quiet" ELSE "noack")
  <2>1. job[c] = "none" /\ answer[c] \in {"ok", "noack"}
    BY <1>2 DEF Good, Connection, TypeOK
  <2>2. /\ answer[c] = "ok" => Says(c, "quiet") /\ line[c] \in acked[c]
        /\ answer[c] = "noack" => Says(c, "noack") /\ Unacked(c)
    BY <1>1, <1>2 DEF Good, Result
  <2> QED BY <1>1, <2>1, <2>2, SaysGood
<1>3. CASE job[c] = "none" /\ Says(c, "broken")
  BY <1>1, <1>3, SaysGood
<1> QED BY <1>2, <1>3 DEF Read

LEMMA MineGood ==
  ASSUME TypeOK, NEW c \in Client, Good(c), Mine(c)
  PROVE  Good(c)'
BY AcceptSendGood, ReadTextGood, McastSendGood, ReplyGood, OpenGood, TypeGood,
   ConnectGood, WriteGood, ReadGood DEF Mine

-----------------------------------------------------------------------------
(* Types.                                                                  *)

LEMMA AroundType == ASSUME TypeOK, Around PROVE TypeOK'
<1>1. CASE Start \/ Kill \/ \E p \in Port : Listen(p) \/ Relisten(p)
  <2>1. CASE Start
    BY <2>1, ChatClientAssumption DEF TypeOK, Start, progVars, jobVars, sendVars
  <2>2. CASE Kill
    BY <2>2 DEF TypeOK, Kill, Ends, sendVars
  <2>3. ASSUME NEW p \in Port, Listen(p) PROVE TypeOK'
    BY <2>3 DEF TypeOK, Listen, progVars, jobVars, sendVars
  <2>4. ASSUME NEW p \in Port, Relisten(p) PROVE TypeOK'
    BY <2>4 DEF TypeOK, Relisten, sendVars
  <2> QED BY <1>1, <2>1, <2>2, <2>3, <2>4
<1>2. ASSUME NEW d \in Client, AcceptRecv(d) PROVE TypeOK'
  <2>1. CASE Ends
    BY <2>1 DEF TypeOK, Ends, sendVars
  <2>2. CASE ~ Ends
    <3>1. /\ reader' = [reader EXCEPT ![d] = "listen"]
          /\ UNCHANGED <<serviceVars, jobVars, prog, sendVars>>
      BY <1>2, <2>2 DEF AcceptRecv
    <3>2. reader' \in [Client -> {"none", "start", "backlog", "listen", "broken"}]
      BY <3>1 DEF TypeOK
    <3> QED BY <3>1, <3>2 DEF TypeOK, serviceVars, jobVars, sendVars
  <2> QED BY <2>1, <2>2
<1>3. ASSUME NEW d \in Client,
             \/ OpenFails(d) \/ ReaderLost(d) \/ ReaderConnect(d)
             \/ ReaderEnds(d) \/ Quit(d) \/ Interrupt(d)
      PROVE  TypeOK'
  <2>1. /\ UNCHANGED <<serviceVars, jobVars, line, text, answer, verdict>>
        /\ \/ Exit(d)
           \/ /\ reader' \in {[reader EXCEPT ![d] = "none"], [reader EXCEPT ![d] = "backlog"]}
              /\ UNCHANGED <<prog, call>>
    BY <1>3 DEF OpenFails, ReaderLost, ReaderConnect, ReaderEnds, Quit, Interrupt, sendVars
  <2>2. prog' \in [Client -> {"new", "run", "end"}]
    BY <2>1 DEF TypeOK, Exit
  <2>3. reader' \in [Client -> {"none", "start", "backlog", "listen", "broken"}]
    BY <2>1 DEF TypeOK, Exit
  <2>4. call' \in [Client -> {"idle", "connect", "write", "read"}]
    BY <2>1 DEF TypeOK, Exit
  <2> QED BY <2>1, <2>2, <2>3, <2>4 DEF TypeOK, jobVars, serviceVars
<1>4. CASE UNCHANGED vars
  BY <1>4 DEF vars, TypeOK, serviceVars, progVars, jobVars, sendVars
<1> QED BY <1>1, <1>2, <1>3, <1>4 DEF Around

LEMMA SaysType ==
  ASSUME TypeOK, NEW c \in Client, line[c] \in Line,
         NEW what \in {"quiet", "noack", "refused", "broken"}, Says(c, what)
  PROVE  /\ verdict' \in [Client -> [Line -> {"none", "quiet", "noack", "refused", "broken"}]]
         /\ prog' \in [Client -> {"new", "run", "end"}]
         /\ reader' \in [Client -> {"none", "start", "backlog", "listen", "broken"}]
         /\ call' \in [Client -> {"idle", "connect", "write", "read"}]
<1> DEFINE Verdict == {"none", "quiet", "noack", "refused", "broken"}
<1>1. verdict[c] \in [Line -> Verdict] /\ what \in Verdict
  BY DEF TypeOK
<1>2. [verdict[c] EXCEPT ![line[c]] = what] \in [Line -> Verdict]
  BY <1>1
<1>3. verdict' \in [Client -> [Line -> Verdict]]
  <2>1. verdict \in [Client -> [Line -> Verdict]]
    BY DEF TypeOK
  <2>2. verdict' = [verdict EXCEPT ![c] = [verdict[c] EXCEPT ![line[c]] = what]]
    BY DEF Says
  <2> HIDE DEF Verdict
  <2> QED BY <1>2, <2>1, <2>2
<1>4. prog' \in [Client -> {"new", "run", "end"}]
  BY DEF TypeOK, Says, Exit
<1>5. reader' \in [Client -> {"none", "start", "backlog", "listen", "broken"}]
  BY DEF TypeOK, Says, Exit
<1>6. call' \in [Client -> {"idle", "connect", "write", "read"}]
  BY DEF TypeOK, Says, Exit
<1> QED BY <1>3, <1>4, <1>5, <1>6

LEMMA MineType == ASSUME TypeOK, NEW d \in Client, Good(d), Mine(d) PROVE TypeOK'
<1>1. CASE AcceptSend(d)
  BY <1>1 DEF TypeOK, AcceptSend, serviceVars, progVars, sendVars
<1>2. CASE ReadText(d)
  <2>1. handed'[d] \in Seq(Line)
    BY <1>2, ReadTextGood
  <2>2. handed' \in [Client -> Seq(Line)]
    BY <1>2, <2>1 DEF TypeOK, ReadText
  <2> QED BY <1>2, <2>2 DEF TypeOK, ReadText, serviceVars
<1>3. CASE McastSend(d)
  <2>1. line[d] \in Line
    BY <1>3, ChatClientAssumption DEF TypeOK, McastSend, Good, Connection, Line
  <2>2. /\ result' \in [Client -> {"none", "ok", "noack"}]
        /\ acked' \in [Client -> SUBSET Line]
        /\ job' \in [Client -> {"none", "backlog", "text", "mcast", "reply"}]
    <3>1. job' = [job EXCEPT ![d] = "reply"]
      BY <1>3 DEF McastSend
    <3>2. CASE /\ result' = [result EXCEPT ![d] = "ok"]
               /\ acked' = [acked EXCEPT ![d] = @ \cup {line[d]}]
      BY <2>1, <3>1, <3>2 DEF TypeOK
    <3>3. CASE result' = [result EXCEPT ![d] = "noack"] /\ UNCHANGED acked
      BY <3>1, <3>3 DEF TypeOK
    <3> QED BY <1>3, <3>2, <3>3 DEF McastSend
  <2> QED BY <1>3, <2>2 DEF TypeOK, McastSend, serviceVars, progVars, sendVars
<1>4. CASE Reply(d)
  BY <1>4 DEF TypeOK, Reply, serviceVars
<1>5. CASE Open(d)
  BY <1>5 DEF TypeOK, Open, serviceVars, jobVars, sendVars
<1>6. CASE Type(d)
  BY <1>6, ChatClientAssumption DEF TypeOK, Type, serviceVars, jobVars
<1>7. CASE Connect(d)
  <2>1. line[d] \in Line
    BY <1>7, ChatClientAssumption DEF TypeOK, Connect, Good, Connection, Line
  <2>2. CASE Says(d, "refused") /\ UNCHANGED <<job, text, answer>>
    BY <1>7, <2>1, <2>2, SaysType DEF TypeOK, Connect, serviceVars
  <2>3. CASE ~ (Says(d, "refused") /\ UNCHANGED <<job, text, answer>>)
    <3>1. /\ job' = [job EXCEPT ![d] = "backlog"] /\ call' = [call EXCEPT ![d] = "write"]
          /\ answer' = [answer EXCEPT ![d] = "none"] /\ text' = [text EXCEPT ![d] = FALSE]
          /\ UNCHANGED <<prog, reader, verdict, serviceVars, result, handed, acked, line>>
      BY <1>7, <2>3 DEF Connect
    <3> QED BY <3>1 DEF TypeOK, serviceVars
  <2> QED BY <2>2, <2>3
<1>8. CASE Write(d)
  <2>1. line[d] \in Line
    BY <1>8, ChatClientAssumption DEF TypeOK, Write, Good, Connection, Line
  <2>2. CASE Says(d, "broken") /\ UNCHANGED text
    BY <1>8, <2>1, <2>2, SaysType DEF TypeOK, Write, serviceVars, jobVars
  <2>3. CASE ~ (Says(d, "broken") /\ UNCHANGED text)
    <3>1. text' \in [Client -> BOOLEAN]
      <4>1. text' = [text EXCEPT ![d] = job[d] # "none"]
        BY <1>8, <2>3 DEF Write
      <4>2. (job[d] # "none") \in BOOLEAN
        OBVIOUS
      <4> QED BY <4>1, <4>2 DEF TypeOK
    <3> QED BY <1>8, <2>3, <3>1 DEF TypeOK, Write, serviceVars, jobVars
  <2> QED BY <2>2, <2>3
<1>9. CASE Read(d)
  <2>1. line[d] \in Line
    BY <1>9, ChatClientAssumption DEF TypeOK, Read, Good, Connection, Line
  <2>2. PICK what \in {"quiet", "noack", "broken"} : Says(d, what)
    BY <1>9 DEF Read
  <2>3. UNCHANGED <<serviceVars, jobVars, line, text, answer>>
    BY <1>9 DEF Read
  <2> QED BY <2>1, <2>2, <2>3, SaysType DEF TypeOK, serviceVars, jobVars
<1> QED BY <1>1, <1>2, <1>3, <1>4, <1>5, <1>6, <1>7, <1>8, <1>9 DEF Mine

-----------------------------------------------------------------------------
LEMMA InitChat == Init => ChatInv
<1> SUFFICES ASSUME Init PROVE ChatInv
  OBVIOUS
<1>1. TypeOK
  <2>1. 0 \in 0 .. MaxStarts /\ 0 \in 0 .. MaxLines /\ <<>> \in Seq(Line)
    BY ChatClientAssumption
  <2> QED BY <2>1 DEF Init, TypeOK
<1>2. ASSUME NEW c \in Client PROVE Good(c)
  BY DEF Init, Good, Connection, Lines, Result, Unacked, Verdicts, Handed
<1> QED BY <1>1, <1>2 DEF ChatInv

LEMMA NextChat == ChatInv /\ [Next]_vars => ChatInv'
<1> SUFFICES ASSUME ChatInv, [Next]_vars PROVE ChatInv'
  OBVIOUS
<1>1. TypeOK /\ \A c \in Client : Good(c)
  BY DEF ChatInv
<1>2. CASE Around
  BY <1>1, <1>2, AroundType, AroundKeeps, KeepsGood DEF ChatInv
<1>3. ASSUME NEW d \in Client, Mine(d) PROVE ChatInv'
  <2>1. TypeOK'
    BY <1>1, <1>3, MineType
  <2>2. ASSUME NEW c \in Client PROVE Good(c)'
    <3>1. CASE c = d
      BY <1>1, <1>3, <3>1, MineGood
    <3>2. CASE c # d
      BY <1>1, <1>3, <3>2, OthersKeep, KeepsGood
    <3> QED BY <3>1, <3>2
  <2> QED BY <2>1, <2>2 DEF ChatInv
<1> QED BY <1>2, <1>3, NextCases

\* The invariant itself, for every number of programs, prompts and tests, and
\* of starts of the chat process.
THEOREM ChatIsGood == Spec => []ChatInv
BY InitChat, NextChat, PTL DEF Spec

\* The types of the variables of the chat process and its clients.
THEOREM ChatTypes == Spec => []TypeOK
<1>1. ChatInv => TypeOK
  BY DEF ChatInv
<1> QED BY <1>1, ChatIsGood, PTL

\* What chat_send tells the user of a line (nothing, "No ACK received", "Failed
\* to connect") is what became of the line, whenever the service is killed.
THEOREM ChatTrueAnswer == Spec => []TrueAnswer
<1>1. ChatInv => TrueAnswer
  BY DEF ChatInv, Good, Verdicts, TrueAnswer
<1> QED BY <1>1, ChatIsGood, PTL

\* The lines of one program reach mcast_send in the order in which they were
\* typed, each at most once, though every one has a thread of its own.
THEOREM ChatInOrder == Spec => []InOrder
<1>1. ChatInv => InOrder
  BY DEF ChatInv, Good, Lines, InOrder
<1> QED BY <1>1, ChatIsGood, PTL
=============================================================================
