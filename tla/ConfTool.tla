------------------------------ MODULE ConfTool ------------------------------
(***************************************************************************)
(* The configuration clients (ibsschat --conf and --status, conf_client)   *)
(* together with the configuration service: what a user is told, and what  *)
(* is then true of the interface and of the chat process.                  *)
(*                                                                         *)
(* A tool connects, writes its request, reads one answer and exits.  The   *)
(* connection is held by the system: it may be made before the service     *)
(* accepts it, an answer can be read after the service has closed it, and  *)
(* it ends when one of the two processes does.                             *)
(***************************************************************************)
EXTENDS ConfDaemon

CONSTANT MaxInterrupts  \* bound: tools that the user interrupts

ASSUME ConfToolAssumption ==
  /\ \A c \in Client \ Status : {"channel", "bssid"} \subseteq Wants[c]
  /\ MaxInterrupts \in Nat

VARIABLES
  tool,  \* how far each tool is
  said   \* how it ended, or how it was ended

toolVars == <<tool, said>>
allVars == <<vars, toolVars>>

ToolInit ==
  /\ Init
  /\ tool = [c \in Client |-> "away"]
  /\ said = [c \in Client |-> "nothing"]

\* The tool c ends.
Exits(c, how) ==
  /\ tool' = [tool EXCEPT ![c] = "end"]
  /\ said' = [said EXCEPT ![c] = how]

\* How a tool ends that is not to end by itself: before its request was
\* written, or while it waits for the answer.
Broken(c) == IF tool[c] = "open" THEN "cut" ELSE "left"
-----------------------------------------------------------------------------
\* The sockets of the service are open: a chat process inherits them by fork()
\* and does not close them.
Held == daemon \/ alive # {}

\* conf_client: the arguments are refused, or tcp_connect finds no service, or
\* there is a connection.
Open(c) ==
  /\ tool[c] = "away"
  /\ \/ Exits(c, "fail")
     \/ Held /\ tool' = [tool EXCEPT ![c] = "open"] /\ UNCHANGED said
  /\ UNCHANGED vars

\* write_msg, the code and the structure.
Write(c) ==
  /\ tool[c] = "open"
  /\ IF Held THEN tool' = [tool EXCEPT ![c] = "wait"] /\ UNCHANGED said
             ELSE Exits(c, "fail")
  /\ UNCHANGED vars

\* The user interrupts the tool, which may have written half of its request.
Interrupt(c) ==
  /\ Cardinality({d \in Client : said[d] \in {"cut", "left"}}) < MaxInterrupts
  /\ tool[c] \in {"open", "wait"}
  /\ Exits(c, Broken(c))
  /\ UNCHANGED vars

\* What the service has written to c; a status is an answer of its own.
Answer(c) == IF pc[c] \in {"told", "done"} THEN result[c] ELSE "none"

\* Mutant: an error is taken for the absence of an answer.
TakeNoError(c) ==
  /\ tool[c] = "wait"
  /\ Answer(c) # "none"
  /\ Exits(c, "ok")
  /\ UNCHANGED vars

\* read_msg: the code, and then an error or a status to print.
Take(c) ==
  /\ tool[c] = "wait"
  /\ Answer(c) # "none"
  /\ Exits(c, Answer(c))
  /\ UNCHANGED vars

\* The service has ended without an answer: read() returns nothing, and code is
\* what the stack holds, MSG_CODE_OK perhaps.
Eof(c) ==
  /\ tool[c] = "wait"
  /\ ~ Held /\ Answer(c) = "none"
  /\ \E how \in {"ok", "err"} : Exits(c, how)
  /\ UNCHANGED vars
-----------------------------------------------------------------------------
(* The steps of the service.                                               *)

\* A connection that was made is accepted, also when its tool has ended.
Accepted(c) ==
  /\ tool[c] \in {"open", "wait"} \/ said[c] \in {"cut", "left"}
  /\ Connect(c)

\* A request is read when it is there; when the tool has ended before it wrote
\* it, there is an error; socket() may fail.
Receive(c) ==
  /\ Read(c)
  /\ pc'[c] # "done" => tool[c] = "wait" \/ said[c] = "left"
  /\ result'[c] = "err" => said[c] = "cut"

Handle(c) == Accepted(c) \/ Receive(c) \/ (pc[c] # "read" /\ Request(c))

\* What a step of the service does to the tools: nothing, unless it is the
\* kill(-1) that ends them all.
Meanwhile ==
  IF others = others' THEN UNCHANGED toolVars
  ELSE LET ended == {c \in Client : tool[c] \in {"open", "wait"}}
       IN  /\ tool' = [c \in Client |-> IF c \in ended THEN "end" ELSE tool[c]]
           /\ said' = [c \in Client |-> IF c \in ended THEN Broken(c) ELSE said[c]]

Works ==
  \/ \E c \in Client : Handle(c) /\ Meanwhile
  \/ \E t \in Thread : Restart(t) /\ Meanwhile
  \/ (Boot \/ Exit) /\ Meanwhile

ToolNext ==
  \/ Works
  \/ \E c \in Client : Open(c) \/ Write(c) \/ Interrupt(c) \/ Take(c) \/ Eof(c)
  \/ \E p \in Pid : ChatExits(p) /\ Meanwhile
  \/ (DieEarly \/ Sigterm) /\ Meanwhile

\* A service that can do something does something, and so do the tools that
\* run; nobody need start one, send a signal, or end.
ToolSpec ==
  /\ ToolInit /\ [][ToolNext]_allVars
  /\ WF_allVars(Works)
  /\ WF_allVars(\E c \in Client : Write(c) \/ Take(c) \/ Eof(c))
-----------------------------------------------------------------------------
ToolTypeOK ==
  /\ TypeOK
  /\ tool \in [Client -> {"away", "open", "wait", "end"}]
  /\ said \in [Client -> {"nothing", "ok", "err", "fail", "cut", "left"}]

\* A tool that asked for a configuration and exits without a word: unless the
\* service ended meanwhile, its request succeeded; and of the last request that
\* did, all the settings are those of the interface and the key is the one that
\* a chat process talks with.
SilenceIsOk ==
  /\ \A c \in Client \ Status : said[c] = "ok" /\ daemon => result[c] = "ok"
  /\ ConfiguredWhole /\ RunsNewKey

\* The key that a status tells is the one that the chat process talks with.
StatusTrue ==
  \A c \in Status : pc[c] = "told" => \A p \in alive : keyIn[p] = shown[c][6]

\* In the end no tool waits: each gets an answer or the end of the connection,
\* unless its thread had no socket, for such a thread closes nothing.
ToolsEnd ==
  <>[] \A c \in Client : tool[c] = "wait" => pc[c] = "done" /\ result[c] = "none"
=============================================================================
