--------------------------- MODULE ConfToolProofs ---------------------------
(***************************************************************************)
(* The configuration service, for every set of clients and of requests,    *)
(* when one request is handled at a time (~ Overlap): two requests that    *)
(* overlap leave a mixture of settings, as the run overlap shows.          *)
(*                                                                         *)
(* The invariant rests on one fact: only one thread is between two places  *)
(* where it waits.  So what this thread has seen is still so, and the      *)
(* other parts follow it through its request: the settings it has made,    *)
(* the key, and the chat processes.                                        *)
(***************************************************************************)
EXTENDS ConfTool, SequenceTheorems, TLAPS

USE DEF confVars, procVars, chatVars, worldVars, Step

Busy(t) == pc[t] \notin {"new", "accept", "done"}

Configuring == {"spin", "lock", "addr", "mode", "channel", "essid", "bssid", "key", "unlock"}
Restarting == {"test", "kill", "wait", "clear", "fork", "store"}

\* Who is where.
Threads ==
  /\ pc["main"] \in {"boot", "accept", "exit", "done"} \cup Restarting
  /\ \A c \in Client :
       pc[c] \in {"new", "read", "done"} \cup
                 IF c \in Status THEN {"fetch", "told"} ELSE Configuring \cup Restarting
  /\ \A t, u \in Thread : Busy(t) /\ Busy(u) => t = u

\* The main thread forks only before there are requests.
Main ==
  /\ pc["main"] # "accept" /\ ~ stopped => \A c \in Client : pc[c] = "new"
  /\ pc["main"] \in {"fork", "store"} => ~ stopped
  /\ pc["main"] \in {"exit", "done"} => stopped
  /\ pc["main"] = "done" => ~ daemon
  /\ pc["main"] \in {"boot", "exit", "done"} => alive = {}
  /\ ~ daemon => stopped /\ alive = {}

\* The chat process and what a thread in start_chat_process knows of it.
Chat ==
  /\ \A t \in Thread :
       /\ pc[t] = "kill" => chatpid # 0
       /\ pc[t] \in {"wait", "clear", "fork"} => alive = {}
       /\ pc[t] = "store" => alive \subseteq {forked[t]}
  /\ Adopted

Results ==
  \A c \in Client :
    /\ pc[c] \notin {"told", "done", "unlock"} => result[c] = "none"
    /\ pc[c] = "unlock" => result[c] # "ok"

\* wiface_conf went well.
Configured(c) ==
  pc[c] \in {"key"} \cup Restarting \/ (pc[c] = "unlock" /\ result[c] = "none")

\* The thread of c is past the setting s.
Past(c, s) ==
  \/ Configured(c)
  \/ s = "mode" /\ pc[c] \in {"channel", "essid", "bssid"}
  \/ s = "channel" /\ pc[c] \in {"essid", "bssid"}
  \/ s = "essid" /\ pc[c] = "bssid"

Settings ==
  /\ \A s \in Setting : setting[s] \notin Status
  /\ \A c \in Client : \A s \in Wants[c] \cup {"mode"} : Past(c, s) => setting[s] = c
  /\ ConfiguredWhole

\* The thread of c has set the key, and the chat process does not have it yet.
Rekeyed(c) ==
  pc[c] \in {"test", "kill"} \/ (pc[c] = "unlock" /\ result[c] = "none")

Keys ==
  /\ \A c \in Client :
       Configured(c) /\ pc[c] # "key" /\ KeyOf[c] \in Key => key = KeyOf[c]
  /\ (\A c \in Client : ~ Rekeyed(c)) => \A p \in alive : keyIn[p] = key
  /\ RunsNewKey
  /\ \A c \in Client : pc[c] = "told" => Len(shown[c]) = 6 /\ shown[c][6] = key

ConfInv == TypeOK /\ Threads /\ Main /\ Chat /\ Results /\ Settings /\ Keys

LEMMA Alone ==
  ASSUME ConfInv, NEW t \in Thread, Busy(t), NEW c \in Client, c # t
  PROVE  pc[c] \in {"new", "done"}
BY ConfDaemonAssumption DEF ConfInv, Threads, Busy, Thread, Configuring, Restarting

LEMMA ConnectKeeps ==
  ASSUME ConfInv, ~ Overlap, NEW c \in Client, Connect(c)
  PROVE  ConfInv'
<1>1. TypeOK'
  BY DEF ConfInv, TypeOK, Places, Connect
<1>2. Threads'
  BY DEF ConfInv, Threads, Busy, Quiet, Connect
<1>3. Main'
  BY DEF Main, Restarting, Optional, Quiet, Pid, Connect
<1>4. Chat'
  BY DEF ConfInv, Chat, Adopted, Restarting, Optional, Quiet, Pid, Connect
<1>5. Results'
  BY DEF ConfInv, Results, Quiet, Connect
<1>6. Settings'
  BY DEF ConfInv, Settings, Configured, Past, ConfiguredWhole, LastDone, Busy, Thread,
         Setting, Configuring, Restarting, Optional, Quiet, Connect
<1>7. Keys'
  BY DEF ConfInv, Keys, Rekeyed, Configured, RunsNewKey, LastDone, Past, Busy, Thread,
         Configuring, Restarting, Optional, Quiet, Pid, Connect
<1> QED BY <1>1, <1>2, <1>3, <1>4, <1>5, <1>6, <1>7 DEF ConfInv

LEMMA ReadKeeps ==
  ASSUME ConfInv, ~ Overlap, NEW c \in Client, Read(c)
  PROVE  ConfInv'
<1>0. PICK b \in {"fetch", "spin", "done"} :
         /\ Step(c, "read", b)
         /\ b = "fetch" => c \in Status
         /\ b = "spin" => c \notin Status
         /\ result' \in {result, [result EXCEPT ![c] = "err"]}
         /\ b = "done" \/ result' = result
         /\ UNCHANGED <<confVars, chatVars, worldVars>>
  BY DEF Read
<1>1. TypeOK'
  BY <1>0 DEF ConfInv, TypeOK, Places
<1>2. Threads'
  BY <1>0 DEF ConfInv, Threads, Busy, Configuring, Restarting, Optional, Quiet
<1>3. Main'
  BY <1>0 DEF ConfInv, Threads, Main, Configuring, Restarting, Optional, Quiet, Pid
<1>4. Chat'
  BY <1>0 DEF ConfInv, Chat, Adopted, Configuring, Restarting, Optional, Quiet, Pid
<1>5. Results'
  BY <1>0 DEF ConfInv, TypeOK, Results, Thread, Optional, Quiet
<1>6. Settings'
  BY <1>0 DEF ConfInv, TypeOK, Settings, Configured, Past, ConfiguredWhole, LastDone, Busy,
              Thread, Setting, Configuring, Restarting, Optional, Quiet
<1>7. Keys'
  BY <1>0 DEF ConfInv, TypeOK, Keys, Rekeyed, Configured, RunsNewKey, LastDone, Past, Busy,
              Thread, Configuring, Restarting, Optional, Quiet, Pid
<1> QED BY <1>1, <1>2, <1>3, <1>4, <1>5, <1>6, <1>7 DEF ConfInv

LEMMA FetchKeeps ==
  ASSUME ConfInv, ~ Overlap, NEW c \in Client, Fetch(c)
  PROVE  ConfInv'
<1>0. PICK value \in Client \cup {Nobody} : shown' = [shown EXCEPT ![c] = Append(@, value)]
  <2>1. Len(shown[c]) + 1 \in 1 .. 5
    BY DEF Fetch, ConfInv, TypeOK, Asked
  <2>2. Asked[Len(shown[c]) + 1] \in Setting
    BY <2>1 DEF Asked, Setting, Optional
  <2>3. setting[Asked[Len(shown[c]) + 1]] \in Client \cup {Nobody}
    BY <2>2 DEF ConfInv, TypeOK
  <2> QED BY <2>3 DEF Fetch
<1>9. shown' \in [Client -> Seq(Client \cup {Nobody, NoKey} \cup Key)]
  <2>1. Append(shown[c], value) \in Seq(Client \cup {Nobody, NoKey} \cup Key)
    BY DEF ConfInv, TypeOK
  <2> QED BY <1>0, <2>1 DEF ConfInv, TypeOK
<1>1. TypeOK'
  BY <1>9 DEF ConfInv, TypeOK, Fetch
<1>2. Threads'
  BY DEF ConfInv, Threads, Busy, Restarting, Optional, Quiet, Fetch
<1>3. Main'
  BY DEF ConfInv, Main, Thread, Configuring, Restarting, Optional, Quiet, Pid, Fetch
<1>4. Chat'
  BY DEF ConfInv, Chat, Adopted, Thread, Configuring, Restarting, Optional, Quiet, Pid,
         Fetch
<1>5. Results'
  BY DEF ConfInv, Results, Restarting, Optional, Quiet, Fetch
<1>6. Settings'
  BY DEF ConfInv, Settings, Configured, Past, ConfiguredWhole, LastDone, Busy, Thread,
         Setting, Configuring, Restarting, Optional, Quiet, Fetch
<1>7. Keys'
  BY DEF ConfInv, Keys, Rekeyed, Configured, RunsNewKey, LastDone, Past, Busy, Thread,
         Configuring, Restarting, Optional, Quiet, Pid, Fetch
<1> QED BY <1>1, <1>2, <1>3, <1>4, <1>5, <1>6, <1>7 DEF ConfInv

LEMMA TellKeeps ==
  ASSUME ConfInv, ~ Overlap, NEW c \in Client, Tell(c)
  PROVE  ConfInv'
<1>0. /\ shown'[c] = Append(shown[c], key) /\ Len(shown'[c]) = 6 /\ shown'[c][6] = key
      /\ shown' \in [Client -> Seq(Client \cup {Nobody, NoKey} \cup Key)]
      /\ \A d \in Client : d # c => shown'[d] = shown[d]
  <2>1. /\ shown \in [Client -> Seq(Client \cup {Nobody, NoKey} \cup Key)]
        /\ Len(shown[c]) = 5 /\ shown' = [shown EXCEPT ![c] = Append(@, key)]
        /\ key \in Client \cup {Nobody, NoKey} \cup Key
    BY DEF Tell, ConfInv, TypeOK, Asked
  <2>2. /\ Append(shown[c], key) \in Seq(Client \cup {Nobody, NoKey} \cup Key)
        /\ Len(Append(shown[c], key)) = 6 /\ Append(shown[c], key)[6] = key
    <3> DEFINE Values == Client \cup {Nobody, NoKey} \cup Key
    <3>1. shown[c] \in Seq(Values) /\ key \in Values
      BY <2>1
    <3> HIDE DEF Values
    <3>2. /\ Append(shown[c], key) \in Seq(Values)
          /\ Len(Append(shown[c], key)) = Len(shown[c]) + 1
          /\ Append(shown[c], key)[Len(shown[c]) + 1] = key
      BY <3>1, AppendProperties
    <3>3. Len(shown[c]) + 1 = 6
      BY <2>1
    <3> QED BY <3>2, <3>3 DEF Values
  <2> QED BY <2>1, <2>2
<1>9. c \in Status /\ \A s \in Setting : setting[s] # c
  BY DEF Tell, ConfInv, Threads, Settings, Configuring, Restarting
<1>1. TypeOK'
  BY DEF ConfInv, TypeOK, Places, Thread, Tell
<1>2. Threads'
  BY DEF ConfInv, Threads, Busy, Configuring, Restarting, Optional, Quiet, Tell
<1>3. Main'
  BY DEF ConfInv, Main, Thread, Configuring, Restarting, Optional, Quiet, Pid, Tell
<1>4. Chat'
  BY DEF ConfInv, Chat, Adopted, Thread, Configuring, Restarting, Optional, Quiet, Pid, Tell
<1>5. Results'
  BY DEF ConfInv, TypeOK, Results, Thread, Restarting, Optional, Quiet, Tell
<1>6. Settings'
  <2>1. \A x \in Setting : setting'[x] \notin Status
    BY DEF ConfInv, Settings, Tell
  <2>2. \A d \in Client : \A x \in Wants[d] \cup {"mode"} : Past(d, x)' => setting'[x] = d
    BY DEF ConfInv, Settings, Configured, Past, Busy, Thread, Setting, Configuring,
           Restarting, Optional, Quiet, Tell
  <2>3. ConfiguredWhole'
    BY <1>9 DEF ConfInv, Settings, ConfiguredWhole, LastDone, Busy, Thread, Setting,
                Configuring, Restarting, Optional, Quiet, Tell
  <2> QED BY <2>1, <2>2, <2>3 DEF Settings
<1>7. Keys'
  <2>1. \A d \in Client :
          Configured(d)' /\ pc'[d] # "key" /\ KeyOf[d] \in Key => key' = KeyOf[d]
    BY DEF ConfInv, Keys, Configured, Thread, Configuring, Restarting, Optional, Quiet, Tell
  <2>2. (\A d \in Client : ~ Rekeyed(d)') => \A p \in alive' : keyIn'[p] = key'
    BY DEF ConfInv, Keys, Rekeyed, Busy, Thread, Configuring, Restarting, Quiet, Pid, Tell
  <2>3. RunsNewKey'
    BY <1>9 DEF ConfInv, Keys, Rekeyed, Configured, RunsNewKey, LastDone, Past, Busy,
                Thread, Setting, Configuring, Restarting, Optional, Quiet, Pid, Tell
  <2>4. \A d \in Client : pc'[d] = "told" => Len(shown'[d]) = 6 /\ shown'[d][6] = key'
    BY <1>0 DEF ConfInv, Keys, Restarting, Quiet, Tell
  <2> QED BY <2>1, <2>2, <2>3, <2>4 DEF Keys
<1> QED BY <1>1, <1>2, <1>3, <1>4, <1>5, <1>6, <1>7 DEF ConfInv

LEMMA CloseKeeps ==
  ASSUME ConfInv, ~ Overlap, NEW c \in Client, Close(c)
  PROVE  ConfInv'
<1>1. TypeOK'
  BY DEF ConfInv, TypeOK, Places, Thread, Close
<1>2. Threads'
  BY DEF ConfInv, Threads, Busy, Quiet, Close
<1>3. Main'
  BY DEF ConfInv, Threads, Main, Restarting, Optional, Quiet, Pid, Close
<1>4. Chat'
  BY DEF ConfInv, Chat, Adopted, Restarting, Optional, Quiet, Pid, Close
<1>5. Results'
  BY DEF ConfInv, Results, Quiet, Close
<1>6. Settings'
  BY DEF ConfInv, Settings, Configured, Past, ConfiguredWhole, LastDone, Busy, Thread,
         Setting, Configuring, Restarting, Optional, Quiet, Close
<1>7. Keys'
  BY DEF ConfInv, TypeOK, Keys, Rekeyed, Configured, RunsNewKey, LastDone, Past, Busy,
         Thread, Configuring, Restarting, Optional, Quiet, Pid, Close
<1> QED BY <1>1, <1>2, <1>3, <1>4, <1>5, <1>6, <1>7 DEF ConfInv

LEMMA LockKeeps ==
  ASSUME ConfInv, ~ Overlap, NEW c \in Client, Unlocked(c) \/ Lock(c)
  PROVE  ConfInv'
<1>1. TypeOK'
  <2>1. CASE Unlocked(c)
    BY <2>1 DEF ConfInv, TypeOK, Places, Unlocked, Lock
  <2>2. CASE Lock(c)
    BY <2>2 DEF ConfInv, TypeOK, Places, Setting, Thread, Lock
  <2> QED BY <2>1, <2>2
<1>2. Threads'
  BY DEF ConfInv, TypeOK, Threads, Main, Busy, Thread, Configuring, Restarting, Quiet,
         Unlocked, Lock
<1>3. Main'
  BY DEF ConfInv, TypeOK, Main, Thread, Restarting, Optional, Quiet, Pid, Unlocked, Lock
<1>4. Chat'
  BY DEF ConfInv, TypeOK, Chat, Adopted, Restarting, Optional, Quiet, Pid, Unlocked, Lock
<1>5. Results'
  BY DEF ConfInv, TypeOK, Results, Thread, Quiet, Unlocked, Lock
<1>6. Settings'
  BY DEF ConfInv, TypeOK, Settings, Configured, Past, ConfiguredWhole, LastDone, Busy,
         Thread, Setting, Configuring, Restarting, Optional, Quiet, Unlocked, Lock
<1>7. Keys'
  <2>1. UNCHANGED <<result, setting, key, shown, alive, keyIn>>
    BY DEF Unlocked, Lock
  <2>2. /\ \A d \in Client : Configured(d)' <=> Configured(d)
        /\ \A d \in Client : pc'[d] = "key" <=> pc[d] = "key"
        /\ \A d \in Client : /\ Rekeyed(d)' <=> Rekeyed(d)
                             /\ pc'[d] = "told" => pc[d] = "told"
    BY DEF Unlocked, Lock, ConfInv, TypeOK, Thread, Configured, Rekeyed, Restarting
  <2> QED BY <2>1, <2>2 DEF ConfInv, Keys, RunsNewKey, LastDone
<1> QED BY <1>1, <1>2, <1>3, <1>4, <1>5, <1>6, <1>7 DEF ConfInv

LEMMA ReaddressKeeps ==
  ASSUME ConfInv, ~ Overlap, NEW c \in Client, Readdress(c)
  PROVE  ConfInv'
<1>0. /\ setting' \in [Setting -> Client \cup {Nobody}] /\ setting'["addr"] \notin Status
      /\ \A s \in Setting : s # "addr" => setting'[s] = setting[s]
  <2>1. c \notin Status
    BY DEF Readdress, ConfInv, Threads
  <2>2. "addr" \in Setting
    BY DEF Setting
  <2> QED BY <2>1, <2>2 DEF Readdress, ConfInv, TypeOK, Settings
<1>1. TypeOK'
  BY DEF ConfInv, TypeOK, Places, Setting, Thread, Optional, Readdress
<1>2. Threads'
  BY DEF ConfInv, Threads, Busy, Configuring, Restarting, Optional, Quiet, Readdress
<1>3. Main'
  BY DEF ConfInv, Main, Configuring, Restarting, Optional, Quiet, Pid, Readdress
<1>4. Chat'
  BY DEF ConfInv, Chat, Adopted, Configuring, Restarting, Optional, Quiet, Pid, Readdress
<1>5. Results'
  BY DEF ConfInv, Results, Optional, Quiet, Readdress
<1>6. Settings'
  <2>1. \A d \in Client : \A x \in Wants[d] \cup {"mode"} : x \in Setting /\ x # "addr"
    BY ConfDaemonAssumption DEF Setting, Optional
  <2>2. \A d \in Client : \A x \in Wants[d] \cup {"mode"} : Past(d, x)' => Past(d, x)
    BY DEF Readdress, Past, Configured, Restarting
  <2>3. result' = result /\ setting'["mode"] = setting["mode"]
    BY <1>0 DEF Readdress, Setting
  <2> QED BY <1>0, <2>1, <2>2, <2>3 DEF ConfInv, Settings, ConfiguredWhole, LastDone
<1>7. Keys'
  <2>1. \A d \in Client :
          Configured(d)' /\ pc'[d] # "key" /\ KeyOf[d] \in Key => key' = KeyOf[d]
    BY DEF ConfInv, Keys, Configured, Configuring, Restarting, Optional, Quiet, Readdress
  <2>2. (\A d \in Client : ~ Rekeyed(d)') => \A p \in alive' : keyIn'[p] = key'
    BY DEF ConfInv, Keys, Rekeyed, Thread, Configuring, Restarting, Quiet, Pid, Readdress
  <2>3. RunsNewKey'
    BY <1>0 DEF ConfInv, Keys, Rekeyed, Configured, RunsNewKey, LastDone, Past, Busy,
                Thread, Setting, Configuring, Restarting, Optional, Quiet, Pid, Readdress
  <2>4. \A d \in Client : pc'[d] = "told" => Len(shown'[d]) = 6 /\ shown'[d][6] = key'
    BY DEF ConfInv, Keys, Quiet, Readdress
  <2> QED BY <2>1, <2>2, <2>3, <2>4 DEF Keys
<1> QED BY <1>1, <1>2, <1>3, <1>4, <1>5, <1>6, <1>7 DEF ConfInv

LEMMA SetKeeps ==
  ASSUME ConfInv, ~ Overlap, NEW c \in Client, NEW s \in {"mode"} \cup Optional, Set(c, s)
  PROVE  ConfInv'
<1>0. PICK b \in {"channel", "essid", "bssid", "key", "unlock"} :
         /\ Step(c, s, b)
         /\ b # "unlock" =>
              /\ result' = result
              /\ \/ s \in Wants[c] \cup {"mode"} /\ setting' = [setting EXCEPT ![s] = c]
                 \/ s \notin Wants[c] \cup {"mode"} /\ setting' = setting
              /\ s = "mode" => b = "channel"
              /\ s = "channel" => b = "essid"
              /\ s = "essid" => b = "bssid"
              /\ s = "bssid" => b = "key"
         /\ b = "unlock" => result' = [result EXCEPT ![c] = "err"] /\ setting' = setting
         /\ UNCHANGED <<shown, wlock, key, chatVars, worldVars>>
  <2>1. /\ After("mode") = "channel" /\ After("channel") = "essid"
        /\ After("essid") = "bssid" /\ After("bssid") = "key"
    BY DEF After
  <2>2. s \in {"mode", "channel", "essid", "bssid"}
    BY DEF Optional
  <2>3. UNCHANGED <<shown, wlock, key, chatVars, worldVars>>
    BY DEF Set
  <2>4. \/ Step(c, s, "unlock") /\ result' = [result EXCEPT ![c] = "err"] /\ setting' = setting
        \/ /\ Step(c, s, After(s)) /\ result' = result
           /\ \/ s \in Wants[c] \cup {"mode"} /\ setting' = [setting EXCEPT ![s] = c]
              \/ s \notin Wants[c] \cup {"mode"} /\ setting' = setting
    BY DEF Set
  <2> QED BY <2>1, <2>2, <2>3, <2>4
<1>9. s \in {"mode", "channel", "essid", "bssid"} /\ c \notin Status
  BY <1>0 DEF Optional, ConfInv, Threads
<1>11. /\ \A d \in Client : d # c => pc[d] \in {"new", "done"}
      /\ pc[c] = s /\ result[c] = "none" /\ (s # "mode" => setting["mode"] = c)
  <2>1. pc[c] = s
    BY <1>0
  <2> QED BY <1>9, <2>1, Alone DEF ConfInv, Results, Settings, Past, Thread, Busy
\* Whoever was the last still is, and all the settings are as they were.
<1>8. \A d \in Client : LastDone(d)' => LastDone(d) /\ setting' = setting
  <2>1. "mode" \in Setting /\ s \in Setting
    BY DEF Setting
  <2> QED BY <1>0, <1>11, <1>9, <2>1 DEF LastDone, ConfInv, TypeOK
<1>1. TypeOK'
  BY <1>0, ConfDaemonAssumption DEF ConfInv, TypeOK, Places, Setting, Thread, Pid, Optional
<1>2. Threads'
  BY <1>0 DEF ConfInv, Threads, Busy, Configuring, Restarting, Optional, Quiet
<1>3. Main'
  BY <1>0 DEF ConfInv, Main, Thread, Configuring, Restarting, Optional, Quiet, Pid
<1>4. Chat'
  BY <1>0 DEF ConfInv, Chat, Adopted, Thread, Configuring, Restarting, Optional, Quiet, Pid
<1>5. Results'
  BY <1>0 DEF ConfInv, TypeOK, Results, Thread, Restarting, Optional, Quiet
<1>6. Settings'
  <2>1. \A x \in Setting : setting'[x] \notin Status
    BY <1>0, <1>9 DEF ConfInv, TypeOK, Settings
  <2>2. ASSUME NEW d \in Client, d # c, NEW x, Past(d, x)' PROVE FALSE
    BY <1>0, <1>11, <2>2 DEF Past, Configured, Restarting
  <2>3. ASSUME NEW x \in Wants[c] \cup {"mode"}, Past(c, x)' PROVE setting'[x] = c
    <3>1. x \in {"mode", "channel", "essid", "bssid"}
      BY ConfDaemonAssumption DEF Optional
    <3>2. b # "unlock"
      BY <1>0, <2>3 DEF ConfInv, TypeOK, Past, Configured, Restarting, Thread
    <3>3. x = s \/ Past(c, x)
      BY <1>0, <1>9, <2>3, <3>1 DEF ConfInv, TypeOK, Past, Configured, Restarting, Thread
    <3> QED BY <1>0, <1>9, <2>3, <3>1, <3>2, <3>3 DEF ConfInv, TypeOK, Settings, Setting,
                                                      Optional
  <2> QED BY <1>8, <2>1, <2>2, <2>3 DEF ConfInv, Settings, ConfiguredWhole
<1>7. Keys'
  <2>1. UNCHANGED <<key, shown, alive, keyIn>>
    BY <1>0
  <2>2. \A d \in Client : /\ Configured(d)' /\ pc'[d] # "key" => Configured(d) /\ d # c
                          /\ Rekeyed(d)' <=> Rekeyed(d)
                          /\ pc'[d] = "told" => pc[d] = "told"
    BY <1>0, <1>9 DEF ConfInv, TypeOK, Configured, Rekeyed, Restarting, Results
  <2>3. \A d \in Client : d # c => pc'[d] = pc[d]
    BY <1>0
  <2> QED BY <1>8, <2>1, <2>2, <2>3 DEF ConfInv, Keys, RunsNewKey
<1> QED BY <1>1, <1>2, <1>3, <1>4, <1>5, <1>6, <1>7 DEF ConfInv

LEMMA SetKeyKeeps ==
  ASSUME ConfInv, ~ Overlap, NEW c \in Client, SetKey(c)
  PROVE  ConfInv'
<1>1. TypeOK'
  BY DEF ConfInv, TypeOK, Places, SetKey
<1>2. Threads'
  BY DEF ConfInv, Threads, Busy, Configuring, Restarting, Quiet, SetKey
<1>3. Main'
  BY DEF ConfInv, Main, Restarting, Optional, Quiet, Pid, SetKey
<1>4. Chat'
  BY DEF ConfInv, Chat, Adopted, Restarting, Optional, Quiet, Pid, SetKey
<1>5. Results'
  BY DEF ConfInv, Results, Quiet, SetKey
<1>6. Settings'
  BY DEF ConfInv, Settings, Configured, Past, ConfiguredWhole, LastDone, Busy, Thread,
         Setting, Configuring, Restarting, Optional, Quiet, SetKey
<1>7. Keys'
  <2>1. /\ pc[c] = "key" /\ pc'[c] = "unlock" /\ result[c] = "none"
        /\ \A d \in Client : d # c => pc'[d] = pc[d]
        /\ UNCHANGED <<shown, result, setting, alive, keyIn>>
        /\ KeyOf[c] \in Key => key' = KeyOf[c]
    BY DEF ConfInv, TypeOK, Results, Thread, SetKey
  <2>2. \A d \in Client : d # c => pc[d] \in {"new", "done"}
    BY <2>1, ConfDaemonAssumption, Alone DEF Busy, Thread
  <2>3. \A d \in Client : Configured(d)' => d = c
    BY <2>1, <2>2 DEF Configured, Restarting
  <2>4. Rekeyed(c)' /\ \A d \in Client : pc'[d] # "told"
    BY <2>1, <2>2 DEF Rekeyed
  <2>5. RunsNewKey'
    BY <2>1 DEF ConfInv, Keys, RunsNewKey, LastDone
  <2> QED BY <2>1, <2>3, <2>4, <2>5 DEF Keys
<1> QED BY <1>1, <1>2, <1>3, <1>4, <1>5, <1>6, <1>7 DEF ConfInv

LEMMA UnlockKeeps ==
  ASSUME ConfInv, ~ Overlap, NEW c \in Client, Unlock(c)
  PROVE  ConfInv'
<1>1. TypeOK'
  BY DEF ConfInv, TypeOK, Places, Unlock
<1>2. Threads'
  BY DEF ConfInv, Threads, Busy, Restarting, Quiet, Unlock
<1>3. Main'
  BY DEF ConfInv, Threads, Main, Restarting, Optional, Quiet, Pid, Unlock
<1>4. Chat'
  BY DEF ConfInv, Chat, Adopted, Restarting, Optional, Quiet, Pid, Unlock
<1>5. Results'
  BY DEF ConfInv, TypeOK, Results, Quiet, Unlock
<1>6. Settings'
  BY DEF ConfInv, TypeOK, Results, Settings, Configured, Past, ConfiguredWhole, LastDone,
         Busy, Thread, Setting, Configuring, Restarting, Optional, Quiet, Unlock
<1>7. Keys'
  BY DEF ConfInv, TypeOK, Results, Keys, Rekeyed, Configured, RunsNewKey, LastDone, Past,
         Busy, Thread, Configuring, Restarting, Optional, Quiet, Pid, Unlock
<1> QED BY <1>1, <1>2, <1>3, <1>4, <1>5, <1>6, <1>7 DEF ConfInv

LEMMA TestKeeps ==
  ASSUME ConfInv, ~ Overlap, NEW t \in Thread, Test(t)
  PROVE  ConfInv'
<1>0. chatpid = 0 => alive = {}
  <2>1. \A u \in Thread : pc[u] # "store"
    BY DEF Test, ConfInv, Threads, Busy
  <2>2. alive \subseteq {chatpid} /\ alive \subseteq 1 .. pids
    BY <2>1 DEF ConfInv, Chat, Adopted, TypeOK
  <2> QED BY <2>2
<1>1. TypeOK'
  BY DEF ConfInv, TypeOK, Places, Test, Onward
<1>2. Threads'
  BY ConfDaemonAssumption DEF ConfInv, Threads, Busy, Restarting, Optional, Quiet, Test,
                              Onward
<1>3. Main'
  BY <1>0 DEF ConfInv, Main, Configuring, Restarting, Optional, Quiet, Pid, Test, Onward
<1>4. Chat'
  BY DEF ConfInv, TypeOK, Threads, Chat, Adopted, Busy, Configuring, Restarting, Optional,
         Quiet, Pid, Test, Onward
<1>5. Results'
  BY DEF ConfInv, Results, Optional, Quiet, Test, Onward
<1>6. Settings'
  BY DEF ConfInv, Settings, Configured, Past, ConfiguredWhole, LastDone, Busy, Thread,
         Setting, Configuring, Restarting, Optional, Quiet, Test, Onward
<1>7. Keys'
  <2>1. \A d \in Client :
          Configured(d)' /\ pc'[d] # "key" /\ KeyOf[d] \in Key => key' = KeyOf[d]
    BY DEF ConfInv, Keys, Configured, Configuring, Restarting, Optional, Quiet, Test, Onward
  <2>2. (\A d \in Client : ~ Rekeyed(d)') => \A p \in alive' : keyIn'[p] = key'
    BY <1>0 DEF ConfInv, Keys, Rekeyed, Thread, Configuring, Restarting, Quiet, Pid, Test,
                Onward
  <2>3. RunsNewKey'
    BY DEF ConfInv, Keys, Rekeyed, Configured, RunsNewKey, LastDone, Past, Busy, Thread,
           Setting, Configuring, Restarting, Optional, Quiet, Pid, Test, Onward
  <2>4. \A d \in Client : pc'[d] = "told" => Len(shown'[d]) = 6 /\ shown'[d][6] = key'
    BY DEF ConfInv, Keys, Quiet, Test, Onward
  <2> QED BY <2>1, <2>2, <2>3, <2>4 DEF Keys
<1> QED BY <1>1, <1>2, <1>3, <1>4, <1>5, <1>6, <1>7 DEF ConfInv

LEMMA KillKeeps ==
  ASSUME ConfInv, ~ Overlap, NEW t \in Thread, Kill(t)
  PROVE  ConfInv'
<1>0. alive' = {} /\ daemon' = TRUE
  <2>1. \A u \in Thread : pc[u] # "store"
    BY DEF Kill, ConfInv, Threads, Busy
  <2>2. alive \subseteq {chatpid} /\ chatpid # 0
    BY <2>1 DEF ConfInv, Chat, Adopted, Kill
  <2> QED BY <2>2 DEF Kill
<1>1. TypeOK'
  BY DEF ConfInv, TypeOK, Places, Kill
<1>2. Threads'
  BY DEF ConfInv, Threads, Busy, Restarting, Optional, Quiet, Kill
<1>3. Main'
  BY DEF ConfInv, TypeOK, Main, Chat, Thread, Configuring, Restarting, Optional, Quiet, Pid,
         Kill
<1>4. Chat'
  BY DEF ConfInv, Threads, Chat, Adopted, Busy, Configuring, Restarting, Optional, Quiet,
         Pid, Kill
<1>5. Results'
  BY DEF ConfInv, Results, Optional, Quiet, Kill
<1>6. Settings'
  BY DEF ConfInv, Settings, Configured, Past, ConfiguredWhole, LastDone, Busy, Thread,
         Setting, Configuring, Restarting, Optional, Quiet, Kill
<1>7. Keys'
  <2>1. \A d \in Client :
          Configured(d)' /\ pc'[d] # "key" /\ KeyOf[d] \in Key => key' = KeyOf[d]
    BY DEF ConfInv, Keys, Configured, Configuring, Restarting, Optional, Quiet, Kill
  <2>2. (\A d \in Client : ~ Rekeyed(d)') => \A p \in alive' : keyIn'[p] = key'
    BY <1>0 DEF Thread, Configuring, Restarting, Quiet, Pid, Kill
  <2>3. RunsNewKey'
    BY DEF ConfInv, Keys, Rekeyed, Configured, RunsNewKey, LastDone, Past, Busy, Thread,
           Setting, Configuring, Restarting, Optional, Quiet, Pid, Kill
  <2>4. \A d \in Client : pc'[d] = "told" => Len(shown'[d]) = 6 /\ shown'[d][6] = key'
    BY DEF ConfInv, Keys, Quiet, Kill
  <2> QED BY <2>1, <2>2, <2>3, <2>4 DEF Keys
<1> QED BY <1>1, <1>2, <1>3, <1>4, <1>5, <1>6, <1>7 DEF ConfInv

LEMMA WaitKeeps ==
  ASSUME ConfInv, ~ Overlap, NEW t \in Thread, Wait(t)
  PROVE  ConfInv'
<1>1. TypeOK'
  BY DEF ConfInv, TypeOK, Places, Wait
<1>2. Threads'
  BY DEF ConfInv, Threads, Busy, Restarting, Quiet, Wait
<1>3. Main'
  BY DEF ConfInv, Main, Restarting, Optional, Quiet, Pid, Wait
<1>4. Chat'
  BY DEF ConfInv, Chat, Adopted, Restarting, Optional, Quiet, Pid, Wait
<1>5. Results'
  BY DEF ConfInv, Results, Quiet, Wait
<1>6. Settings'
  BY DEF ConfInv, Settings, Configured, Past, ConfiguredWhole, LastDone, Busy, Thread,
         Setting, Configuring, Restarting, Optional, Quiet, Wait
<1>7. Keys'
  BY DEF ConfInv, Keys, Rekeyed, Configured, RunsNewKey, LastDone, Past, Busy, Thread,
         Configuring, Restarting, Optional, Quiet, Pid, Wait
<1> QED BY <1>1, <1>2, <1>3, <1>4, <1>5, <1>6, <1>7 DEF ConfInv

LEMMA ClearKeeps ==
  ASSUME ConfInv, ~ Overlap, NEW t \in Thread, Clear(t)
  PROVE  ConfInv'
<1>1. TypeOK'
  BY DEF ConfInv, TypeOK, Places, Clear, Onward
<1>2. Threads'
  BY ConfDaemonAssumption DEF ConfInv, Threads, Busy, Restarting, Quiet, Clear, Onward
<1>3. Main'
  BY DEF ConfInv, Main, Chat, Restarting, Optional, Quiet, Pid, Clear, Onward
<1>4. Chat'
  BY DEF ConfInv, Threads, Chat, Adopted, Busy, Restarting, Optional, Quiet, Pid, Clear,
         Onward
<1>5. Results'
  BY DEF ConfInv, Results, Quiet, Clear, Onward
<1>6. Settings'
  BY DEF ConfInv, Settings, Configured, Past, ConfiguredWhole, LastDone, Busy, Thread,
         Setting, Configuring, Restarting, Optional, Quiet, Clear, Onward
<1>7. Keys'
  BY DEF ConfInv, Keys, Rekeyed, Configured, RunsNewKey, LastDone, Past, Busy, Thread,
         Configuring, Restarting, Optional, Quiet, Pid, Clear, Onward
<1> QED BY <1>1, <1>2, <1>3, <1>4, <1>5, <1>6, <1>7 DEF ConfInv

LEMMA ForkKeeps ==
  ASSUME ConfInv, ~ Overlap, NEW t \in Thread, Fork(t)
  PROVE  ConfInv'
<1>0. /\ pc[t] = "fork" /\ pc' = [pc EXCEPT ![t] = "store"] /\ daemon
      /\ \/ /\ pids < MaxPid /\ pids' = pids + 1 /\ alive' = {pids + 1}
            /\ keyIn' = [keyIn EXCEPT ![pids + 1] = key]
            /\ forked' = [forked EXCEPT ![t] = pids + 1]
         \/ /\ forked' = [forked EXCEPT ![t] = -1] /\ alive' = {}
            /\ UNCHANGED <<pids, keyIn>>
      /\ UNCHANGED <<result, confVars, chatpid, zombie, worldVars>>
  BY DEF Fork, ConfInv, Chat
<1>1. TypeOK'
  <2>1. /\ pids' \in 0 .. MaxPid /\ alive' \subseteq 1 .. pids' /\ zombie' \subseteq 1 .. pids'
        /\ forked' \in [Thread -> Pid \cup {-1, 0}] /\ keyIn' \in [Pid -> Key \cup {NoKey}]
    <3>1. /\ pids \in 0 .. MaxPid /\ alive \subseteq 1 .. pids /\ zombie \subseteq 1 .. pids
          /\ forked \in [Thread -> Pid \cup {-1, 0}] /\ keyIn \in [Pid -> Key \cup {NoKey}]
          /\ key \in Key \cup {NoKey}
      BY DEF ConfInv, TypeOK
    <3>2. pids' \in 0 .. MaxPid /\ alive' \subseteq 1 .. pids' /\ zombie' \subseteq 1 .. pids'
      BY <1>0, <3>1, ConfDaemonAssumption
    <3>3. forked' \in [Thread -> Pid \cup {-1, 0}]
      BY <1>0, <3>1, ConfDaemonAssumption DEF Pid
    <3>4. keyIn' \in [Pid -> Key \cup {NoKey}]
      BY <1>0, <3>1
    <3> QED BY <3>2, <3>3, <3>4
  <2>2. pc' \in [Thread -> Places]
    BY <1>0 DEF ConfInv, TypeOK, Places
  <2> QED BY <1>0, <2>1, <2>2 DEF ConfInv, TypeOK
<1>2. Threads'
  BY <1>0 DEF ConfInv, Threads, Busy, Restarting, Optional, Quiet
<1>3. Main'
  BY <1>0 DEF ConfInv, Threads, Main, Busy, Thread, Configuring, Restarting, Optional,
              Quiet, Pid
<1>4. Chat'
  BY <1>0 DEF ConfInv, TypeOK, Threads, Chat, Adopted, Busy, Configuring, Restarting,
              Optional, Quiet, Pid
<1>5. Results'
  BY <1>0 DEF ConfInv, Results, Optional, Quiet
<1>6. Settings'
  BY <1>0 DEF ConfInv, Settings, Configured, Past, ConfiguredWhole, LastDone, Busy, Thread,
              Setting, Configuring, Restarting, Optional, Quiet
<1>7. Keys'
  <2>1. \A d \in Client :
          Configured(d)' /\ pc'[d] # "key" /\ KeyOf[d] \in Key => key' = KeyOf[d]
    BY <1>0 DEF ConfInv, Keys, Configured, Configuring, Restarting, Optional, Quiet
  <2>2. (\A d \in Client : ~ Rekeyed(d)') => \A p \in alive' : keyIn'[p] = key'
    BY <1>0, ConfDaemonAssumption DEF ConfInv, TypeOK, Thread, Configuring, Restarting,
                                      Quiet, Pid
  <2>3. RunsNewKey'
    BY <1>0 DEF ConfInv, Main, Results, Settings, Rekeyed, Configured, RunsNewKey, LastDone,
                Past, Busy, Thread, Setting, Configuring, Restarting, Optional, Quiet, Pid
  <2>4. \A d \in Client : pc'[d] = "told" => Len(shown'[d]) = 6 /\ shown'[d][6] = key'
    BY <1>0 DEF ConfInv, Keys, Quiet
  <2> QED BY <2>1, <2>2, <2>3, <2>4 DEF Keys
<1> QED BY <1>1, <1>2, <1>3, <1>4, <1>5, <1>6, <1>7 DEF ConfInv

LEMMA StoreKeeps ==
  ASSUME ConfInv, ~ Overlap, NEW t \in Thread, Store(t)
  PROVE  ConfInv'
<1>1. TypeOK'
  BY DEF ConfInv, TypeOK, Places, Store
<1>2. Threads'
  BY DEF ConfInv, Threads, Main, Busy, Quiet, Store
<1>3. Main'
  BY DEF ConfInv, Main, Restarting, Optional, Quiet, Pid, Store
<1>4. Chat'
  BY DEF ConfInv, Threads, Chat, Adopted, Busy, Restarting, Optional, Quiet, Pid, Store
<1>5. Results'
  BY DEF ConfInv, TypeOK, Results, Quiet, Store
<1>6. Settings'
  BY DEF ConfInv, Settings, Configured, Past, ConfiguredWhole, LastDone, Busy, Thread,
         Setting, Configuring, Restarting, Optional, Quiet, Store
<1>7. Keys'
  BY DEF ConfInv, Settings, Keys, Rekeyed, Configured, RunsNewKey, LastDone, Past, Busy,
         Thread, Configuring, Restarting, Optional, Quiet, Pid, Store
<1> QED BY <1>1, <1>2, <1>3, <1>4, <1>5, <1>6, <1>7 DEF ConfInv

LEMMA ChatExitsKeeps ==
  ASSUME ConfInv, ~ Overlap, NEW p \in Pid, ChatExits(p)
  PROVE  ConfInv'
<1>1. TypeOK'
  BY DEF ConfInv, TypeOK, ChatExits
<1>2. Threads'
  BY DEF ConfInv, Threads, Busy, Quiet, ChatExits
<1>3. Main'
  BY DEF ConfInv, Main, Restarting, Optional, Quiet, Pid, ChatExits
<1>4. Chat'
  BY DEF ConfInv, Chat, Adopted, Restarting, Optional, Quiet, Pid, ChatExits
<1>5. Results'
  BY DEF ConfInv, Results, Quiet, ChatExits
<1>6. Settings'
  BY DEF ConfInv, Settings, Configured, Past, ConfiguredWhole, LastDone, Busy, Thread,
         Setting, Configuring, Restarting, Optional, Quiet, ChatExits
<1>7. Keys'
  BY DEF ConfInv, Keys, Rekeyed, Configured, RunsNewKey, LastDone, Past, Busy, Thread,
         Configuring, Restarting, Optional, Quiet, Pid, ChatExits
<1> QED BY <1>1, <1>2, <1>3, <1>4, <1>5, <1>6, <1>7 DEF ConfInv

LEMMA BootKeeps ==
  ASSUME ConfInv, ~ Overlap, Boot
  PROVE  ConfInv'
<1>1. TypeOK'
  BY DEF ConfInv, TypeOK, Places, Boot
<1>2. Threads'
  BY DEF ConfInv, TypeOK, Threads, Busy, Thread, Configuring, Restarting, Quiet, Boot
<1>3. Main'
  BY DEF ConfInv, TypeOK, Main, Thread, Restarting, Optional, Quiet, Pid, Boot
<1>4. Chat'
  BY DEF ConfInv, TypeOK, Chat, Adopted, Restarting, Optional, Quiet, Pid, Boot
<1>5. Results'
  BY DEF ConfInv, TypeOK, Results, Thread, Quiet, Boot
<1>6. Settings'
  BY DEF ConfInv, TypeOK, Threads, Results, Settings, Configured, Past, ConfiguredWhole,
         LastDone, Busy, Thread, Setting, Configuring, Restarting, Optional, Quiet, Boot
<1>7. Keys'
  <2>1. UNCHANGED <<result, setting, key, shown, alive, keyIn>>
    BY DEF Boot
  <2>2. /\ \A d \in Client : Configured(d)' <=> Configured(d)
        /\ \A d \in Client : pc'[d] = "key" <=> pc[d] = "key"
        /\ \A d \in Client : /\ Rekeyed(d)' <=> Rekeyed(d)
                             /\ pc'[d] = "told" => pc[d] = "told"
    BY ConfDaemonAssumption DEF Boot, ConfInv, TypeOK, Thread, Configured, Rekeyed
  <2> QED BY <2>1, <2>2 DEF ConfInv, Keys, RunsNewKey, LastDone
<1> QED BY <1>1, <1>2, <1>3, <1>4, <1>5, <1>6, <1>7 DEF ConfInv

LEMMA SignalsKeeps ==
  ASSUME ConfInv, ~ Overlap, DieEarly \/ Sigterm \/ Exit
  PROVE  ConfInv'
<1>1. TypeOK'
  BY DEF ConfInv, TypeOK, Places, DieEarly, Sigterm, Exit, Quiet
<1>2. Threads'
  BY DEF ConfInv, TypeOK, Threads, Busy, Thread, Configuring, Restarting, Quiet, DieEarly,
         Sigterm, Exit, Quiet
<1>3. Main'
  BY DEF ConfInv, TypeOK, Main, Restarting, Optional, Quiet, Pid, DieEarly, Sigterm, Exit,
         Quiet
<1>4. Chat'
  <2>1. CASE DieEarly
    BY <2>1 DEF ConfInv, Chat, Adopted, Configuring, Restarting, Optional, Quiet, Pid,
                DieEarly, Sigterm, Exit, Quiet
  <2>2. CASE Sigterm
    BY <2>2 DEF ConfInv, Chat, Adopted, Configuring, Restarting, Optional, Quiet, Pid,
                DieEarly, Sigterm, Exit, Quiet
  <2>3. CASE Exit
    BY <2>3 DEF ConfInv, Chat, Adopted, Configuring, Restarting, Optional, Quiet, Pid,
                DieEarly, Sigterm, Exit, Quiet
  <2> QED BY <2>1, <2>2, <2>3
<1>5. Results'
  BY DEF ConfInv, TypeOK, Results, Thread, Quiet, DieEarly, Sigterm, Exit, Quiet
<1>6. Settings'
  BY ConfDaemonAssumption DEF ConfInv, TypeOK, Settings, Configured, Past, ConfiguredWhole,
                              LastDone, Busy, Thread, Setting, Configuring, Restarting,
                              Optional, Quiet, DieEarly, Sigterm, Exit, Quiet
<1>7. Keys'
  <2>1. UNCHANGED <<result, setting, key, shown, alive, keyIn>>
    BY DEF DieEarly, Sigterm, Exit, Quiet
  <2>2. /\ \A d \in Client : Configured(d)' <=> Configured(d)
        /\ \A d \in Client : pc'[d] = "key" <=> pc[d] = "key"
        /\ \A d \in Client : /\ Rekeyed(d)' <=> Rekeyed(d)
                             /\ pc'[d] = "told" => pc[d] = "told"
    BY ConfDaemonAssumption DEF DieEarly, Sigterm, Exit, ConfInv, TypeOK, Thread,
                                Configured, Rekeyed, Restarting
  <2> QED BY <2>1, <2>2 DEF ConfInv, Keys, RunsNewKey, LastDone
<1> QED BY <1>1, <1>2, <1>3, <1>4, <1>5, <1>6, <1>7 DEF ConfInv

-----------------------------------------------------------------------------
LEMMA InitConf == Init => ConfInv
<1> SUFFICES ASSUME Init PROVE ConfInv
  OBVIOUS
<1>1. TypeOK
  <2>1. 0 \in 0 .. MaxPid /\ <<>> \in Seq(Client \cup {Nobody, NoKey} \cup Key)
    BY ConfDaemonAssumption
  <2>2. pc \in [Thread -> Places]
    BY DEF Init, Places
  <2> QED BY <2>1, <2>2 DEF Init, TypeOK
<1>2. /\ \A c \in Client : pc[c] = "new" /\ result[c] = "none"
      /\ pc["main"] = "boot"
  BY ConfDaemonAssumption DEF Init, Thread
<1>3. Threads /\ Main /\ Results
  BY <1>2, ConfDaemonAssumption DEF Init, Threads, Main, Results, Busy, Thread
<1>4. Chat
  BY DEF Init, Chat, Adopted, Thread
<1>5. Settings
  BY <1>2, ConfDaemonAssumption DEF Init, Settings, ConfiguredWhole, LastDone, Past,
                                    Configured, Restarting
<1>6. Keys
  BY <1>2 DEF Init, Keys, RunsNewKey, LastDone, Rekeyed, Configured, Restarting
<1> QED BY <1>1, <1>3, <1>4, <1>5, <1>6 DEF ConfInv

LEMMA NextConf ==
  ASSUME ConfInv, ~ Overlap, [Next]_vars
  PROVE  ConfInv'
<1>1. CASE UNCHANGED vars
  BY <1>1 DEF vars, ConfInv, TypeOK, Threads, Main, Chat, Results, Settings, Keys, Busy,
              Adopted, Configured, Past, ConfiguredWhole, LastDone, Rekeyed, RunsNewKey
<1>2. ASSUME NEW c \in Client, Connect(c) \/ Request(c) PROVE ConfInv'
  BY <1>2, ConnectKeeps, ReadKeeps, FetchKeeps, TellKeeps, CloseKeeps, LockKeeps,
     ReaddressKeeps, SetKeeps, SetKeyKeeps, UnlockKeeps DEF Request
<1>3. ASSUME NEW t \in Thread, Restart(t) PROVE ConfInv'
  BY <1>3, TestKeeps, KillKeeps, WaitKeeps, ClearKeeps, ForkKeeps, StoreKeeps DEF Restart
<1>4. ASSUME NEW p \in Pid, ChatExits(p) PROVE ConfInv'
  BY <1>4, ChatExitsKeeps
<1>5. CASE Boot \/ DieEarly \/ Sigterm \/ Exit
  BY <1>5, BootKeeps, SignalsKeeps
<1> QED BY <1>1, <1>2, <1>3, <1>4, <1>5 DEF Next

-----------------------------------------------------------------------------
(* The tools.                                                              *)

\* The service does with its tools nothing that it would not do without them.
LEMMA ToolNextIsNext == [ToolNext]_allVars => [Next]_vars
BY DEF ToolNext, Works, Handle, Accepted, Receive, Open, Write, Interrupt, Take, Eof, Next,
       Request, allVars

\* What a tool says and what came of its request.
ToolInv ==
  /\ tool \in [Client -> {"away", "open", "wait", "end"}]
  /\ said \in [Client -> {"nothing", "ok", "err", "fail", "cut", "left"}]
  /\ \A c \in Client : said[c] = "ok" /\ daemon => result[c] = "ok"

\* A result that was given stays, and a service that has ended does.
LEMMA ResultStays ==
  ASSUME ConfInv, [Next]_vars, NEW c \in Client
  PROVE  /\ result[c] = "ok" => result'[c] = "ok"
         /\ daemon' => daemon
<1>1. CASE UNCHANGED vars
  BY <1>1 DEF vars
<1>2. ASSUME NEW d \in Client, Connect(d) \/ Request(d)
      PROVE  (result[c] = "ok" => result'[c] = "ok") /\ (daemon' => daemon)
  BY <1>2 DEF ConfInv, TypeOK, Results, Request, Connect, Read, Fetch, Tell, Close,
              Unlocked, Lock, Readdress, Set, SetKey, Unlock, Optional
<1>3. ASSUME NEW t \in Thread, Restart(t)
      PROVE  (result[c] = "ok" => result'[c] = "ok") /\ (daemon' => daemon)
  BY <1>3 DEF ConfInv, TypeOK, Restart, Test, Kill, Wait, Clear, Fork, Store
<1>4. ASSUME NEW p \in Pid, ChatExits(p)
      PROVE  (result[c] = "ok" => result'[c] = "ok") /\ (daemon' => daemon)
  BY <1>4 DEF ChatExits
<1>5. CASE Boot \/ DieEarly \/ Sigterm \/ Exit
  BY <1>5 DEF Boot, DieEarly, Sigterm, Exit
<1> QED BY <1>1, <1>2, <1>3, <1>4, <1>5 DEF Next

LEMMA ToolStep ==
  ASSUME ConfInv, ToolInv, [ToolNext]_allVars
  PROVE  ToolInv'
<1>1. [Next]_vars
  BY ToolNextIsNext
<1>2. \A c \in Client : (result[c] = "ok" => result'[c] = "ok") /\ (daemon' => daemon)
  BY <1>1, ResultStays
<1>3. CASE UNCHANGED toolVars
  BY <1>2, <1>3 DEF ToolInv, toolVars
<1>4. ASSUME NEW c \in Client, Open(c) \/ Write(c) \/ Interrupt(c) \/ Take(c) \/ Eof(c)
      PROVE  ToolInv'
  <2>1. UNCHANGED <<daemon, result>>
    BY <1>4 DEF Open, Write, Interrupt, Take, Eof, vars
  <2>2. CASE /\ UNCHANGED said
             /\ \E where \in {"open", "wait"} : tool' = [tool EXCEPT ![c] = where]
    BY <2>1, <2>2 DEF ToolInv
  <2>3. ASSUME NEW how \in {"ok", "err", "fail", "cut", "left"}, Exits(c, how),
               how = "ok" /\ daemon => result[c] = "ok"
        PROVE  ToolInv'
    BY <2>1, <2>3 DEF Exits, ToolInv
  <2>4. CASE Take(c)
    <3>1. Answer(c) \in {"ok", "err"} /\ Answer(c) = result[c]
      BY <2>4 DEF Take, Answer, ConfInv, TypeOK
    <3> QED BY <2>3, <2>4, <3>1 DEF Take
  <2>5. CASE Eof(c)
    BY <2>3, <2>5 DEF Eof, Held
  <2>6. CASE Interrupt(c)
    BY <2>3, <2>6 DEF Interrupt, Broken
  <2>7. CASE Open(c) \/ Write(c)
    BY <2>2, <2>3, <2>7 DEF Open, Write
  <2> QED BY <1>4, <2>4, <2>5, <2>6, <2>7
<1>5. CASE Meanwhile /\ others # others'
  BY <1>2, <1>5 DEF Meanwhile, ToolInv, Broken
<1> QED BY <1>3, <1>4, <1>5 DEF ToolNext, Works, Meanwhile, allVars, toolVars

LEMMA ToolStart == ToolInit => ConfInv /\ ToolInv
<1> SUFFICES ASSUME ToolInit PROVE ConfInv /\ ToolInv
  OBVIOUS
<1>1. ConfInv
  BY InitConf DEF ToolInit
<1> QED BY <1>1 DEF ToolInit, ToolInv

\* The service with its clients is the service: what holds of ConfDaemon for
\* any client holds for these.
THEOREM ToolRefinesDaemon == ToolSpec => Spec
BY ToolNextIsNext, PTL DEF ToolSpec, Spec, ToolInit

\* The invariant, for any number of clients, requests and forks.
THEOREM ConfIsSound ==
  ASSUME ~ Overlap
  PROVE  ToolSpec => [](ConfInv /\ ToolInv)
<1>1. ConfInv /\ ToolInv /\ [ToolNext]_allVars => (ConfInv /\ ToolInv)'
  BY NextConf, ToolStep, ToolNextIsNext
<1> QED BY <1>1, ToolStart, PTL DEF ToolSpec

\* The types of the variables of the service and its clients.
THEOREM ToolTypes ==
  ASSUME ~ Overlap
  PROVE  ToolSpec => []ToolTypeOK
<1>1. ConfInv /\ ToolInv => ToolTypeOK
  BY DEF ConfInv, ToolInv, ToolTypeOK
<1> QED BY <1>1, ConfIsSound, PTL

\* chatpid: the service never loses sight of a chat process that runs, so that
\* two never run at once, whatever fork() returns and whenever one ends.
THEOREM ChatIsAdopted ==
  ASSUME ~ Overlap
  PROVE  ToolSpec => []Adopted
<1>1. ConfInv => Adopted
  BY DEF ConfInv, Chat
<1> QED BY <1>1, ConfIsSound, PTL

\* The service ends by a signal only, and then no chat process is left.
THEOREM SignalStopsChat ==
  ASSUME ~ Overlap
  PROVE  ToolSpec => []StopsChat
<1>1. ConfInv => StopsChat
  BY DEF ConfInv, Main, StopsChat
<1> QED BY <1>1, ConfIsSound, PTL

\* ibsschat --conf that exits without a word: the request succeeded, and the
\* settings and the key of the last one that did are those in use.
THEOREM SilenceMeansOk ==
  ASSUME ~ Overlap
  PROVE  ToolSpec => []SilenceIsOk
<1>1. ConfInv /\ ToolInv => SilenceIsOk
  BY DEF ConfInv, Settings, Keys, ToolInv, SilenceIsOk
<1> QED BY <1>1, ConfIsSound, PTL

\* ibsschat --status tells the key that the chat process talks with.
THEOREM StatusIsTrue ==
  ASSUME ~ Overlap
  PROVE  ToolSpec => []StatusTrue
<1>1. ConfInv => StatusTrue
  <2> SUFFICES ASSUME ConfInv, NEW c \in Status, pc[c] = "told", NEW p \in alive
               PROVE  keyIn[p] = shown[c][6]
    BY DEF StatusTrue
  <2>1. c \in Client /\ c \in Thread /\ Busy(c)
    BY ConfDaemonAssumption DEF Busy, Thread
  <2>2. \A d \in Client : ~ Rekeyed(d)
    BY <2>1, Alone DEF Rekeyed
  <2> QED BY <2>1, <2>2 DEF ConfInv, Keys
<1> QED BY <1>1, ConfIsSound, PTL
=============================================================================
