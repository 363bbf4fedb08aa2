----------------------------- MODULE ChatClient -----------------------------
(***************************************************************************)
(* The programs that send messages and the chat process of the same phone. *)
(* A prompt (ibsschat --chat-prompt) has a thread that reads lines and     *)
(* hands each to the service (chat_send) and one that prints what the      *)
(* service writes (client_read_messages).  A test (--chat-send-rand) is a  *)
(* loop of chat_send, and --chat-send is one with a single line.           *)
(* The chat process has one thread per line (handle_client_sending).  The  *)
(* configuration service may kill it at any moment and start it again, and *)
(* the system then breaks its connections.                                 *)
(*                                                                         *)
(* mcast_send is what its callers see of it, one step with a result: what  *)
(* it does is module Multicast.  The messages a reader prints are those of *)
(* module ClientFeed.                                                      *)
(***************************************************************************)
EXTENDS Integers, Sequences

CONSTANTS
  Client,    \* programs
  Prompts,   \* those that are prompts; the others are tests
  MaxLines,  \* bound: lines that each one sends
  MaxStarts  \* bound: starts of the chat process

ASSUME ChatClientAssumption ==
  Prompts \subseteq Client /\ MaxLines \in Nat /\ MaxStarts \in Nat

Line == 1 .. MaxLines
Port == {"send", "recv"}

VARIABLES
  up,       \* does the chat process run?
  starts,   \* how often it was started
  ports,    \* the ports on which it listens
  job,      \* the connection of each chat_send, on the service's side
  result,   \* what mcast_send returned to it
  handed,   \* the lines that were passed to mcast_send, for each program
  acked,    \* and those that it returned 0 for
  prog,     \* the programs
  reader,   \* the reading thread of each prompt
  line,     \* the line that each program is at
  call,     \* how far its chat_send is
  text,     \* is the line in the socket, for the service to read?
  answer,   \* what the service has written back
  verdict   \* what the program said of each line

serviceVars == <<up, starts, ports>>
jobVars == <<job, result, handed, acked>>
sendVars == <<line, call, text, answer, verdict>>
progVars == <<prog, reader, sendVars>>
vars == <<serviceVars, jobVars, progVars>>

Init ==
  /\ up = FALSE /\ starts = 0 /\ ports = {}
  /\ job = [c \in Client |-> "none"] /\ result = [c \in Client |-> "none"]
  /\ handed = [c \in Client |-> <<>>] /\ acked = [c \in Client |-> {}]
  /\ prog = [c \in Client |-> "new"] /\ reader = [c \in Client |-> "none"]
  /\ line = [c \in Client |-> 0] /\ call = [c \in Client |-> "idle"]
  /\ text = [c \in Client |-> FALSE] /\ answer = [c \in Client |-> "none"]
  /\ verdict = [c \in Client |-> [n \in Line |-> "none"]]
-----------------------------------------------------------------------------
(* The chat process.                                                       *)

\* start_chat_process, until the accepting threads are there.
Start ==
  /\ ~ up /\ starts < MaxStarts
  /\ up' = TRUE /\ starts' = starts + 1
  /\ UNCHANGED <<ports, jobVars, progVars>>

\* tcp_listen, which is tried again until it succeeds.
Listen(p) ==
  /\ up /\ p \notin ports
  /\ ports' = ports \cup {p}
  /\ UNCHANGED <<up, starts, jobVars, progVars>>

\* accept() fails: the socket is closed, with the connections that wait in it,
\* and opened again.
Relisten(p) ==
  /\ p \in ports
  /\ ports' = ports \ {p}
  /\ IF p = "send"
       THEN /\ job' = [c \in Client |-> IF job[c] = "backlog" THEN "none" ELSE job[c]]
            /\ UNCHANGED reader
       ELSE /\ reader' = [c \in Client |->
                 IF reader[c] = "backlog" THEN "broken" ELSE reader[c]]
            /\ UNCHANGED job
  /\ UNCHANGED <<up, starts, result, handed, acked, prog, sendVars>>

\* Mutant: the sockets that listen are left to the process that forked.
EndsListening ==
  /\ up' = FALSE
  /\ job' = [c \in Client |-> "none"]
  /\ reader' = [c \in Client |->
       IF reader[c] \in {"backlog", "listen"} THEN "broken" ELSE reader[c]]
  /\ UNCHANGED <<starts, ports, result, handed, acked, prog, sendVars>>

\* The process ends, and with it its threads and its ends of the connections.
Ends ==
  /\ up' = FALSE /\ ports' = {}
  /\ job' = [c \in Client |-> "none"]
  /\ reader' = [c \in Client |->
       IF reader[c] \in {"backlog", "listen"} THEN "broken" ELSE reader[c]]
  /\ UNCHANGED <<starts, result, handed, acked, prog, sendVars>>

\* SIGKILL, or exit() where it finds no address.
Kill == up /\ Ends

AcceptSend(c) ==
  /\ "send" \in ports /\ job[c] = "backlog"
  /\ job' = [job EXCEPT ![c] = "text"]
  /\ UNCHANGED <<serviceVars, result, handed, acked, progVars>>

\* The line of c; or its program has ended and there is none.
ReadText(c) ==
  /\ job[c] = "text"
  /\ \/ /\ text[c]
        /\ job' = [job EXCEPT ![c] = "mcast"]
        /\ text' = [text EXCEPT ![c] = FALSE]
        /\ handed' = [handed EXCEPT ![c] = Append(@, line[c])]
     \/ /\ ~ text[c] /\ prog[c] = "end"
        /\ job' = [job EXCEPT ![c] = "none"]
        /\ UNCHANGED <<text, handed>>
  /\ UNCHANGED <<serviceVars, result, acked, prog, reader, line, call, answer, verdict>>

McastSend(c) ==
  /\ job[c] = "mcast"
  /\ job' = [job EXCEPT ![c] = "reply"]
  /\ \/ /\ result' = [result EXCEPT ![c] = "ok"]
        /\ acked' = [acked EXCEPT ![c] = @ \cup {line[c]}]
     \/ /\ result' = [result EXCEPT ![c] = "noack"]
        /\ UNCHANGED acked
  /\ UNCHANGED <<serviceVars, handed, progVars>>

\* Mutant: after a failure the thread waits with no answer given.
ReplyOnSuccess(c) ==
  /\ job[c] = "reply" /\ result[c] = "ok"
  /\ job' = [job EXCEPT ![c] = "none"]
  /\ answer' = [answer EXCEPT ![c] = result[c]]
  /\ UNCHANGED <<serviceVars, result, handed, acked, prog, reader, line, call, text, verdict>>

\* Mutant: ret is what it was initialised with.
ReplyZero(c) ==
  /\ job[c] = "reply"
  /\ job' = [job EXCEPT ![c] = "none"]
  /\ answer' = [answer EXCEPT ![c] = "ok"]
  /\ UNCHANGED <<serviceVars, result, handed, acked, prog, reader, line, call, text, verdict>>

\* The result is written and the connection closed.
Reply(c) ==
  /\ job[c] = "reply"
  /\ job' = [job EXCEPT ![c] = "none"]
  /\ answer' = [answer EXCEPT ![c] = result[c]]
  /\ UNCHANGED <<serviceVars, result, handed, acked, prog, reader, line, call, text, verdict>>

\* handle_client_receive; with an empty buffer msgbuf_dump ends the process.
AcceptRecv(c) ==
  /\ "recv" \in ports /\ reader[c] = "backlog"
  /\ \/ reader' = [reader EXCEPT ![c] = "listen"]
        /\ UNCHANGED <<serviceVars, jobVars, prog, sendVars>>
     \/ Ends
-----------------------------------------------------------------------------
(* The programs.  Every test of the interface may find it not configured.  *)

\* The program c ends, with both its threads and its ends of the connections.
Exit(c) ==
  /\ prog' = [prog EXCEPT ![c] = "end"]
  /\ reader' = [reader EXCEPT ![c] = "none"]
  /\ call' = [call EXCEPT ![c] = "idle"]

\* chat_prompt spawns the reader before it asks for the address; chat_send_rand
\* asks for nothing.
Open(c) ==
  /\ prog[c] = "new"
  /\ prog' = [prog EXCEPT ![c] = "run"]
  /\ reader' = [reader EXCEPT ![c] = IF c \in Prompts THEN "start" ELSE "none"]
  /\ UNCHANGED <<serviceVars, jobVars, sendVars>>

\* wiface_adhoc() does not return 1, and the prompt is not opened.
OpenFails(c) ==
  /\ prog[c] = "new" /\ c \in Prompts
  /\ Exit(c)
  /\ UNCHANGED <<serviceVars, jobVars, line, text, answer, verdict>>

\* ifconfig_get() fails: the reader ends and leaves the prompt without one.
ReaderLost(c) ==
  /\ reader[c] = "start"
  /\ reader' = [reader EXCEPT ![c] = "none"]
  /\ UNCHANGED <<serviceVars, jobVars, prog, sendVars>>

\* The reader connects; or it cannot and ends the program.
ReaderConnect(c) ==
  /\ reader[c] = "start"
  /\ \/ /\ "recv" \in ports
        /\ reader' = [reader EXCEPT ![c] = "backlog"]
        /\ UNCHANGED <<prog, call>>
     \/ Exit(c)
  /\ UNCHANGED <<serviceVars, jobVars, line, text, answer, verdict>>

\* readn() fails, and the reader ends the program, whatever its other thread
\* is at.
ReaderEnds(c) ==
  /\ reader[c] = "broken"
  /\ Exit(c)
  /\ UNCHANGED <<serviceVars, jobVars, line, text, answer, verdict>>

\* Whether chat_send says something of the line, and whether it goes on: a
\* prompt ends when chat_send returns -1, a test does not.
Says(c, what) ==
  /\ verdict' = [verdict EXCEPT ![c][line[c]] = what]
  /\ IF c \in Prompts /\ what \in {"refused", "broken"}
       THEN Exit(c)
       ELSE call' = [call EXCEPT ![c] = "idle"] /\ UNCHANGED <<prog, reader>>

\* The next line.
Type(c) ==
  /\ prog[c] = "run" /\ call[c] = "idle" /\ line[c] < MaxLines
  /\ line' = [line EXCEPT ![c] = @ + 1]
  /\ call' = [call EXCEPT ![c] = "connect"]
  /\ UNCHANGED <<serviceVars, jobVars, prog, reader, text, answer, verdict>>

\* .quit, or the end of the input, or of the loop.
Quit(c) ==
  /\ prog[c] = "run" /\ call[c] = "idle"
  /\ c \in Prompts \/ line[c] = MaxLines
  /\ Exit(c)
  /\ UNCHANGED <<serviceVars, jobVars, line, text, answer, verdict>>

\* The user interrupts the program.
Interrupt(c) ==
  /\ prog[c] = "run"
  /\ Exit(c)
  /\ UNCHANGED <<serviceVars, jobVars, line, text, answer, verdict>>

\* chat_send up to tcp_connect.
Connect(c) ==
  /\ call[c] = "connect"
  /\ \/ /\ "send" \in ports
        /\ job' = [job EXCEPT ![c] = "backlog"]
        /\ call' = [call EXCEPT ![c] = "write"]
        /\ answer' = [answer EXCEPT ![c] = "none"]
        /\ text' = [text EXCEPT ![c] = FALSE]
        /\ UNCHANGED <<prog, reader, verdict>>
     \/ Says(c, "refused") /\ UNCHANGED <<job, text, answer>>
  /\ UNCHANGED <<serviceVars, result, handed, acked, line>>

\* A write to a connection that broke may still succeed.
Write(c) ==
  /\ call[c] = "write"
  /\ \/ /\ call' = [call EXCEPT ![c] = "read"]
        /\ text' = [text EXCEPT ![c] = job[c] # "none"]
        /\ UNCHANGED <<prog, reader, verdict>>
     \/ job[c] = "none" /\ Says(c, "broken") /\ UNCHANGED text
  /\ UNCHANGED <<serviceVars, jobVars, line, answer>>

\* Mutant: a line without an answer is sent again.
ReadOrRetry(c) ==
  /\ call[c] = "read"
  /\ \/ /\ answer[c] # "none"
        /\ Says(c, IF answer[c] = "ok" THEN "quiet" ELSE "noack")
     \/ /\ answer[c] = "none" /\ job[c] = "none"
        /\ call' = [call EXCEPT ![c] = "connect"]
        /\ UNCHANGED <<prog, reader, verdict>>
  /\ UNCHANGED <<serviceVars, jobVars, line, text, answer>>

\* The result, or the end of the connection.
Read(c) ==
  /\ call[c] = "read"
  /\ \/ /\ answer[c] # "none"
        /\ Says(c, IF answer[c] = "ok" THEN "quiet" ELSE "noack")
     \/ /\ answer[c] = "none" /\ job[c] = "none"
        /\ Says(c, "broken")
  /\ UNCHANGED <<serviceVars, jobVars, line, text, answer>>
-----------------------------------------------------------------------------
Job(c) == ReadText(c) \/ McastSend(c) \/ Reply(c)
Send(c) == Connect(c) \/ Write(c) \/ Read(c)

Next ==
  \/ Start \/ Kill
  \/ \E p \in Port : Listen(p) \/ Relisten(p)
  \/ \E c \in Client :
       \/ AcceptSend(c) \/ AcceptRecv(c) \/ Job(c)
       \/ Open(c) \/ OpenFails(c) \/ ReaderLost(c) \/ ReaderConnect(c) \/ ReaderEnds(c)
       \/ Type(c) \/ Quit(c) \/ Interrupt(c) \/ Send(c)

\* Threads are scheduled; users type when they like and nobody need start or
\* kill anything.
Fairness ==
  \A c \in Client :
    WF_vars(AcceptSend(c)) /\ WF_vars(Job(c)) /\ WF_vars(Send(c)) /\ WF_vars(ReaderEnds(c))

Spec == Init /\ [][Next]_vars /\ Fairness
-----------------------------------------------------------------------------
TypeOK ==
  /\ up \in BOOLEAN /\ starts \in 0 .. MaxStarts
  /\ ports \subseteq Port /\ (ports # {} => up)
  /\ job \in [Client -> {"none", "backlog", "text", "mcast", "reply"}]
  /\ result \in [Client -> {"none", "ok", "noack"}]
  /\ handed \in [Client -> Seq(Line)]
  /\ acked \in [Client -> SUBSET Line]
  /\ prog \in [Client -> {"new", "run", "end"}]
  /\ reader \in [Client -> {"none", "start", "backlog", "listen", "broken"}]
  /\ line \in [Client -> 0 .. MaxLines]
  /\ call \in [Client -> {"idle", "connect", "write", "read"}]
  /\ text \in [Client -> BOOLEAN]
  /\ answer \in [Client -> {"none", "ok", "noack"}]
  /\ verdict \in [Client -> [Line -> {"none", "quiet", "noack", "refused", "broken"}]]

Handed(c, n) == \E i \in DOMAIN handed[c] : handed[c][i] = n

\* What a program says of a line is what became of it, also when the service
\* was killed and started again meanwhile: no word, and it was acknowledged;
\* "No ACK received", and it was not; "Failed to connect", and it was not sent.
TrueAnswer ==
  \A c \in Client, n \in Line :
    /\ verdict[c][n] = "quiet" => n \in acked[c]
    /\ verdict[c][n] = "noack" => Handed(c, n) /\ n \notin acked[c]
    /\ verdict[c][n] = "refused" => ~ Handed(c, n)

\* The lines of a program are multicast in the order in which they were typed,
\* each at most once, though each has a connection and a thread of its own.
InOrder ==
  \A c \in Client :
    \A i, k \in DOMAIN handed[c] : i < k => handed[c][i] < handed[c][k]

\* Every chat_send returns.
Answered == \A c \in Client : call[c] # "idle" ~> call[c] = "idle"
=============================================================================
