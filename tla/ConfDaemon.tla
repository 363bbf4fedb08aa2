----------------------------- MODULE ConfDaemon -----------------------------
(***************************************************************************)
(* The configuration service: it starts the chat process, and for every    *)
(* client that connects a thread (handle_client), which tells the status   *)
(* of the interface (wiface_status), or configures it (wiface_conf), sets  *)
(* the key and restarts the chat process (start_chat_process).  SIGTERM    *)
(* stops the service and is to stop the chat process with it.              *)
(*                                                                         *)
(* A step is one system call or one access to a variable that the threads  *)
(* share: wlock and chatpid are static variables that nothing protects.    *)
(***************************************************************************)
EXTENDS Integers, FiniteSets, Sequences

CONSTANTS
  Client,     \* clients, one request each
  Status,     \* those that ask for the status; the others configure
  Key,        \* keys that the cipher accepts
  KeyOf,      \* the key of each request, in Key or not
  Wants,      \* the optional settings that each request has
  NoKey, Nobody,
  ForkFails,  \* may fork() fail?
  Overlap,    \* may requests and SIGTERM arrive while a request is handled
              \* or the service starts?
  MaxPid      \* bound: processes ever forked

Optional == {"channel", "essid", "bssid"}
Setting == {"addr", "mode"} \cup Optional
Pid == 1 .. MaxPid
Thread == Client \cup {"main"}

ASSUME ConfDaemonAssumption ==
  /\ Status \subseteq Client
  /\ "main" \notin Client /\ Nobody \notin Client /\ NoKey \notin Key
  /\ Wants \in [Client -> SUBSET Optional]
  /\ ForkFails \in BOOLEAN /\ Overlap \in BOOLEAN
  /\ MaxPid \in Nat

VARIABLES
  daemon,   \* is the service running?
  pc,       \* where the client threads and the main thread are
  result,   \* what a client is answered
  shown,    \* the answer to a request for the status, as far as it is made
  wlock,    \* the write lock of wiface_conf
  setting,  \* whose request each setting of the interface is from
  key,      \* the key of the service
  chatpid,  \* the chat process as the service knows it
  forked,   \* what fork() returned to each thread
  pids,     \* processes forked so far
  alive,    \* the chat processes that run
  zombie,   \* those that ended and were not waited for
  keyIn,    \* the key that each of them has
  stopped,  \* was SIGTERM sent?
  others    \* are the other processes of the system still there?

confVars == <<shown, wlock, setting, key>>
procVars == <<pids, alive, zombie, keyIn>>
chatVars == <<chatpid, forked, procVars>>
worldVars == <<daemon, stopped, others>>
vars == <<pc, result, confVars, chatVars, worldVars>>

Init ==
  /\ pc = [t \in Thread |-> IF t = "main" THEN "boot" ELSE "new"]
  /\ result = [c \in Client |-> "none"]
  /\ shown = [c \in Client |-> <<>>]
  /\ wlock = 0 /\ key = NoKey
  /\ setting = [s \in Setting |-> Nobody]
  /\ chatpid = 0 /\ forked = [t \in Thread |-> 0]
  /\ pids = 0 /\ alive = {} /\ zombie = {}
  /\ keyIn = [p \in Pid |-> NoKey]
  /\ daemon = TRUE /\ stopped = FALSE /\ others = TRUE

\* The thread t goes from place a to place b.
Step(t, a, b) ==
  /\ daemon
  /\ pc[t] = a
  /\ pc' = [pc EXCEPT ![t] = b]

Quiet == \A t \in Thread : pc[t] \in {"new", "accept", "done"}
-----------------------------------------------------------------------------
(* A request: handle_client and wiface_conf.                               *)

\* accept() and thread_spawn.
Connect(c) ==
  /\ pc["main"] = "accept"
  /\ Overlap \/ Quiet
  /\ Step(c, "new", "read")
  /\ UNCHANGED <<result, confVars, chatVars, worldVars>>

\* The request is read; or there is none and the client is told "err"; or
\* socket() fails and the client is told nothing.
Read(c) ==
  /\ \/ Step(c, "read", IF c \in Status THEN "fetch" ELSE "spin") /\ UNCHANGED result
     \/ Step(c, "read", "done") /\ UNCHANGED result
     \/ Step(c, "read", "done") /\ result' = [result EXCEPT ![c] = "err"]
  /\ UNCHANGED <<confVars, chatVars, worldVars>>

\* The settings in the order in which wiface_status asks for them.
Asked == <<"addr", "essid", "bssid", "channel", "mode">>

\* One of them; what ioctl_retry does not get is left empty.
Fetch(c) ==
  /\ Len(shown[c]) < Len(Asked)
  /\ Step(c, "fetch", "fetch")
  /\ \E value \in {setting[Asked[Len(shown[c]) + 1]], Nobody} :
       shown' = [shown EXCEPT ![c] = Append(@, value)]
  /\ UNCHANGED <<result, wlock, setting, key, chatVars, worldVars>>

\* Then chat_crypto_get_key, and the answer; the connection stays for a while.
Tell(c) ==
  /\ Len(shown[c]) = Len(Asked)
  /\ Step(c, "fetch", "told")
  /\ shown' = [shown EXCEPT ![c] = Append(@, key)]
  /\ result' = [result EXCEPT ![c] = "ok"]
  /\ UNCHANGED <<wlock, setting, key, chatVars, worldVars>>

Close(c) ==
  /\ Step(c, "told", "done")
  /\ shown' = [shown EXCEPT ![c] = <<>>]
  /\ UNCHANGED <<result, wlock, setting, key, chatVars, worldVars>>

\* while (wlock != 0)
Unlocked(c) ==
  /\ wlock = 0
  /\ Step(c, "spin", "lock")
  /\ UNCHANGED <<result, confVars, chatVars, worldVars>>

\* wlock++
Lock(c) ==
  /\ Step(c, "lock", "addr")
  /\ wlock' = wlock + 1
  /\ UNCHANGED <<shown, result, setting, key, chatVars, worldVars>>

\* ifconfig_down, twice, ifconfig_set and ifconfig_up; nobody looks at what
\* they return, and the address may stay what it was.
Readdress(c) ==
  /\ Step(c, "addr", "mode")
  /\ setting' \in {setting, [setting EXCEPT !["addr"] = c]}
  /\ UNCHANGED <<shown, result, wlock, key, chatVars, worldVars>>

\* The settings that are made by ioctl_retry, in their order.
After(s) ==
  [mode |-> "channel", channel |-> "essid", essid |-> "bssid", bssid |-> "key"][s]

\* One setting: made, not asked for, or failed after ten attempts, in which
\* case what was set before stays set.
Set(c, s) ==
  /\ \/ /\ s \in Wants[c] \cup {"mode"}
        /\ Step(c, s, After(s))
        /\ setting' = [setting EXCEPT ![s] = c]
        /\ UNCHANGED result
     \/ /\ s \notin Wants[c] \cup {"mode"}
        /\ Step(c, s, After(s))
        /\ UNCHANGED <<setting, result>>
     \/ /\ s \in Wants[c] \cup {"mode"}
        /\ Step(c, s, "unlock")
        /\ result' = [result EXCEPT ![c] = "err"]
        /\ UNCHANGED setting
  /\ UNCHANGED <<shown, wlock, key, chatVars, worldVars>>

\* chat_crypto_set_key; its result is not looked at.
SetKey(c) ==
  /\ Step(c, "key", "unlock")
  /\ key' = IF KeyOf[c] \in Key THEN KeyOf[c] ELSE key
  /\ UNCHANGED <<shown, result, wlock, setting, chatVars, worldVars>>

\* Mutant: an error returns with the lock held.
UnlockOnSuccess(c) ==
  /\ Step(c, "unlock", IF result[c] = "err" THEN "done" ELSE "test")
  /\ wlock' = IF result[c] = "err" THEN wlock ELSE 0
  /\ UNCHANGED <<shown, result, setting, key, chatVars, worldVars>>

\* Mutant: an error releases the lock where it is found and at the end again.
UnlockTwice(c) ==
  /\ Step(c, "unlock", IF result[c] = "err" THEN "done" ELSE "test")
  /\ wlock' = wlock - (IF result[c] = "err" THEN 2 ELSE 1)
  /\ UNCHANGED <<shown, result, setting, key, chatVars, worldVars>>

\* wlock = 0, and the end of a request that failed.
Unlock(c) ==
  /\ Step(c, "unlock", IF result[c] = "err" THEN "done" ELSE "test")
  /\ wlock' = 0
  /\ UNCHANGED <<shown, result, setting, key, chatVars, worldVars>>
-----------------------------------------------------------------------------
(* start_chat_process, called by the threads and by the main thread when   *)
(* it starts, and the same steps in sighandler, which runs in the main     *)
(* thread and ends the service in place of fork().                         *)

Onward(t) == IF t = "main" /\ stopped THEN "exit" ELSE "fork"

\* Mutant: a chat process that is there is left alone.
TestNothing(t) ==
  /\ Step(t, "test", Onward(t))
  /\ UNCHANGED <<result, confVars, chatVars, worldVars>>

\* if (chatpid != 0)
Test(t) ==
  /\ Step(t, "test", IF chatpid = 0 THEN Onward(t) ELSE "kill")
  /\ UNCHANGED <<result, confVars, chatVars, worldVars>>

\* kill(chatpid, SIGKILL), which reads chatpid again.  0 stands for the group
\* of the service, itself included, and -1 for every process but itself.
Kill(t) ==
  LET dead == IF chatpid > 0 THEN alive \cap {chatpid} ELSE alive
  IN  /\ Step(t, "kill", "wait")
      /\ alive' = alive \ dead
      /\ zombie' = zombie \cup dead
      /\ daemon' = (chatpid # 0)
      /\ others' = (others /\ chatpid # -1)
      /\ UNCHANGED <<result, confVars, chatpid, forked, pids, keyIn, stopped>>

\* waitpid(chatpid): until one of those meant has ended, or there is none.
Wait(t) ==
  LET meant == IF chatpid > 0 THEN {chatpid} ELSE Pid
  IN  /\ Step(t, "wait", "clear")
      /\ \/ \E p \in meant \cap zombie : zombie' = zombie \ {p}
         \/ meant \cap (zombie \cup alive) = {} /\ UNCHANGED zombie
      /\ UNCHANGED <<result, confVars, chatpid, forked, pids, alive, keyIn, worldVars>>

\* chatpid = 0
Clear(t) ==
  /\ Step(t, "clear", Onward(t))
  /\ chatpid' = 0
  /\ UNCHANGED <<result, confVars, forked, procVars, worldVars>>

\* fork(): the child has the key of this moment.
Fork(t) ==
  /\ Step(t, "fork", "store")
  /\ \/ /\ pids < MaxPid
        /\ pids' = pids + 1
        /\ alive' = alive \cup {pids + 1}
        /\ keyIn' = [keyIn EXCEPT ![pids + 1] = key]
        /\ forked' = [forked EXCEPT ![t] = pids + 1]
     \/ /\ ForkFails
        /\ forked' = [forked EXCEPT ![t] = -1]
        /\ UNCHANGED <<pids, alive, keyIn>>
  /\ UNCHANGED <<result, confVars, chatpid, zombie, worldVars>>

\* chatpid gets the result, and the client its answer, whatever fork() did.
Store(t) ==
  /\ Step(t, "store", IF t = "main" THEN "accept" ELSE "done")
  /\ chatpid' = forked[t]
  /\ result' = IF t = "main" THEN result ELSE [result EXCEPT ![t] = "ok"]
  /\ UNCHANGED <<confVars, forked, procVars, worldVars>>
-----------------------------------------------------------------------------
(* The main thread: conf_thread_run, and the signal.                       *)

\* wiface_running_adhoc tries to bring the interface up.  When it succeeds it
\* returns 0, which means down; only its -1 makes the chat process start.
Boot ==
  /\ Step("main", "boot", "accept") \/ Step("main", "boot", "test")
  /\ UNCHANGED <<result, confVars, chatVars, worldVars>>

\* SIGTERM before the handler is installed: nobody kills the chat process.
DieEarly ==
  /\ pc["main"] = "boot" \/ (Overlap /\ pc["main"] # "accept")
  /\ daemon /\ ~ stopped
  /\ stopped' = TRUE /\ daemon' = FALSE
  /\ UNCHANGED <<pc, result, confVars, chatVars, others>>

Sigterm ==
  /\ ~ stopped
  /\ Overlap \/ Quiet
  /\ Step("main", "accept", "test")
  /\ stopped' = TRUE
  /\ UNCHANGED <<result, confVars, chatVars, daemon, others>>

Exit ==
  /\ Step("main", "exit", "done")
  /\ daemon' = FALSE
  /\ UNCHANGED <<result, confVars, chatVars, stopped, others>>

\* A chat process ends by itself: no address, or its port is taken.
ChatExits(p) ==
  /\ p \in alive
  /\ alive' = alive \ {p}
  /\ zombie' = zombie \cup {p}
  /\ UNCHANGED <<pc, result, confVars, chatpid, forked, pids, keyIn, worldVars>>

Request(c) ==
  \/ Read(c) \/ Fetch(c) \/ Tell(c) \/ Close(c)
  \/ Unlocked(c) \/ Lock(c) \/ Readdress(c)
  \/ \E s \in {"mode"} \cup Optional : Set(c, s)
  \/ SetKey(c) \/ Unlock(c)

Restart(t) == Test(t) \/ Kill(t) \/ Wait(t) \/ Clear(t) \/ Fork(t) \/ Store(t)

Next ==
  \/ \E c \in Client : Connect(c) \/ Request(c)
  \/ \E t \in Thread : Restart(t)
  \/ \E p \in Pid : ChatExits(p)
  \/ Boot \/ DieEarly \/ Sigterm \/ Exit

Spec == Init /\ [][Next]_vars
-----------------------------------------------------------------------------
Places ==
  {"boot", "accept", "exit", "new", "read", "fetch", "told", "spin", "lock",
   "key", "unlock", "test", "kill", "wait", "clear", "fork", "store", "done"} \cup Setting

TypeOK ==
  /\ pc \in [Thread -> Places]
  /\ result \in [Client -> {"none", "ok", "err"}]
  /\ shown \in [Client -> Seq(Client \cup {Nobody, NoKey} \cup Key)]
  /\ wlock \in Nat
  /\ setting \in [Setting -> Client \cup {Nobody}]
  /\ key \in Key \cup {NoKey}
  /\ chatpid \in Pid \cup {-1, 0}
  /\ forked \in [Thread -> Pid \cup {-1, 0}]
  /\ pids \in 0 .. MaxPid
  /\ alive \subseteq 1 .. pids /\ zombie \subseteq 1 .. pids
  /\ keyIn \in [Pid -> Key \cup {NoKey}]
  /\ daemon \in BOOLEAN /\ stopped \in BOOLEAN /\ others \in BOOLEAN

\* Every chat process that runs is the one that the service knows and will
\* kill at the next restart: none is forgotten, and two never run at once.
Adopted ==
  (\A t \in Thread : pc[t] # "store") => alive \subseteq {chatpid}

\* c was the last to configure the interface, and was answered "ok".
LastDone(c) == result[c] = "ok" /\ setting["mode"] = c

\* After "ok" all the settings that a request asked for are those of the
\* interface, not a mixture with those of another request.
ConfiguredWhole ==
  \A c \in Client : LastDone(c) => \A s \in Wants[c] : setting[s] = c

\* After "ok" no chat process talks with another key than the one requested,
\* if that is a key.
RunsNewKey ==
  \A c \in Client : LastDone(c) /\ KeyOf[c] \in Key =>
    \A p \in alive : keyIn[p] = KeyOf[c]

\* "Killing chat process": only the signal ends the service, never its own
\* kill(), and it takes the chat process with it.
StopsChat == ~ daemon => stopped /\ alive = {}
=============================================================================
