# ibsschat: formal models

ibsschat is a chat for Wi-Fi ad-hoc (IBSS) networks: every node floods its
messages over UDP multicast to whoever is in radio range, takes any further
copy of its own message as the acknowledgement, and keeps the last messages in
a buffer for its local clients and for neighbours that join later. The program
is small, but it consists of unsynchronised threads in two processes per node
and of short-lived client programs, over a network that loses, repeats and
reorders packets. The models are about that, and about the encryption every
message goes through; they are not about terminal output.

All paths below are relative to the root of the repository; `src/src/x.c` is
written as `x.c`.

## Inventory

| Component (source) | State | Operations | Hard behaviour | What makes it correct |
|---|---|---|---|---|
| Message buffer (`msgbuf.c`) | `msgbuf`, a list of messages, each with a count of copies seen; `socklist` | add, exist, get, delete, append with eviction; addsock, write_socklist, dump; sync | called by several threads; full buffer; clients that come and go | one entry per message, as long as one thread adds; counts only grow; a message is shown once, an own one only when acknowledged |
| Multicast reader and flooding (`chat_mcast.c: mcast_read`) | `r.iplist`, the packet at hand | receive, drop own loopback, add, forward, learn a neighbour, answer a discovery | interleaves with senders; loopback and echoes count as copies | floods end; the origin hears an answer; only stations in range are neighbours |
| Sending (`mcast_send`, `chat_proc.c: handle_client_sending`) | retry counter of the thread | send, sleep, look for the acknowledgement, delete | the answer may come at any time, also after the failure was reported | success is reported only when another node has the message; every call returns |
| Start (`chat_mcast_reader_start`) | discovery message `d` | start the reader, send `d` twice, start sync | the reader runs before `d` has an identifier | neighbours find each other whoever starts first |
| Receiving service (`chat_proc.c: handle_client_receive`) | `socklist`, descriptors | dump the buffer, register the socket; disconnect remote clients | no lock is in effect; descriptors are used again; slots run out | nothing in clear to another node; nothing twice; a client misses only what comes between its connection and its registration |
| Synchronisation (`mcast_sync_thread`, `msgbuf_sync`) | index into the neighbour list | connect to one neighbour after the other, append its messages | the array is moved, sorted and counted under the index; the reader adds the same message | all neighbours are asked until one had something new; nothing it wrote is lost; the thread ends |
| Linked list (`linkedlist.c`) | heap of entries | append, unlink, getfirst, getlast, get, delete | pointers at both ends, allocation failure | behaves as a sequence, loses no memory |
| Neighbour list (`iplist.c`) | sorted array | add | reallocated under a reader | a set |
| Threads and locks (`thread.c`, `thread.h`) | - | spawn, lock, unlock | `lock_t` is passed by value: locking changes a copy, and `thread_memlock_lock` calls `pthread_mutex_destroy` | none of the locks excludes anybody |
| Configuration service (`conf_thread.c`, `wifconf.c`, `ifconfig.c`) | `chatpid`, `wlock`, key, interface | configure, tell the status, set the key, kill and fork the chat process, stop on a signal | a thread per request shares `chatpid` and `wlock`; ioctls and `fork()` fail | "ok" means configured as asked; one chat process at a time, which has the new key and ends with the service |
| Configuration client (`conf_client.c`) | its connection | connect, write the request, read the answer | the service may end, be killed or have no socket for it; the chat process keeps the service's sockets open | silence means success; a status is true; the program ends |
| Chat client (`chat_client.c`) | a prompt's two threads, the line at hand | connect, write a line, read the result; read messages | the chat process is killed and started between any two steps; one thread ends the other | what the program says of a line is what became of it; lines keep their order |
| Encryption (`chat_crypto.c`, `libbfish/cbc_*.c`) | the key, the chaining blocks | set key, encrypt, decrypt | the last block is short and changes places; fork copies the key | who has the key reads what was sent; a chat process runs with the key that was set last |
| Blowfish (`libbfish/`) | P and S boxes | key schedule, encrypt, decrypt a block | boxes in memory that nobody cleared, keys of any length | decryption undoes encryption; equal keys give equal boxes |
| Interface ioctls, socket helpers, firmware paths, test scripts | none of their own | | each call may fail | modelled by their outcomes, or not at all |

Interaction: the configuration tool writes a request to the configuration
service, which sets the interface, forks the chat process and kills it with
SIGKILL whenever it is reconfigured. Within a chat process the main thread
starts the reader thread and the two client services, each of which has a
thread per client; all of them share the message buffer through the `msgbuf_*`
routines. The prompt hands each line to the sending service over a connection
of its own and prints what the receiving service writes. Chat processes of
different nodes meet in two ways only: multicast packets and, for
synchronisation, the TCP connection that dumps the buffer.

`PROJECT.json` lists the places where this can go wrong under `hazards`, each
with the line and the properties that cover it.

## Modules

| Module | Models | State and actions |
|---|---|---|
| `MsgBuf` | the buffer as a value | operators `Added`, `Deleted`, `Exist`, `Appended`, `Evicted` for the routines of the same names. A message is its identifier, since `msgcmp` compares nothing else. |
| `Forwarding` | the decision of `mcast_read` to send a copy on | `Forwards(seen, fromOrigin, r)` with the draw `r` as a parameter |
| `Relay` | one node and one message: how often it is sent on | actions `Copy`, `Echo`; with the thresholds of the code |
| `Multicast` | all chat processes and the radio | see below |
| `Delivery` | abstract: messages spread hop by hop, a reported success means a holder | implemented by `Multicast` (`KeepsPromise`) |
| `ClientFeed` | receiving clients of one chat process | one entry of the dump, one access to a slot, one `close` or `accept` per step |
| `Sync` | the synchronising thread against the reader | one access to the array of neighbours or to the buffer per step |
| `LinkedList` | the pointers of `linkedlist.c` | one action per routine; a heap of entries, allocation that may fail |
| `ListSpec` | abstract: a sequence | implemented by `LinkedList` (`IsSequence`) |
| `ConfDaemon` | the configuration service | one system call or one access to a shared variable per step |
| `ConfTool` | the configuration client, composed with `ConfDaemon` | one system call of the tool per step, and every step of the service |
| `ChatClient` | prompts and tests with the services of the chat process | one system call per step; `mcast_send` is one step with a result |
| `Blowfish` | the block cipher and its key schedule | operators `Encrypt`, `Decrypt`, `KeyInit` |
| `Cbc` | a message from one process through the cipher to another | one turn of a loop of `bfish_cbc_encrypt` or `bfish_cbc_decrypt` per step |
| `...Proofs` | theorems | |
| `MC...` | values for TLC | |

`Multicast` extends `MsgBuf` and `Forwarding`. A step is one call of a
`msgbuf_*` routine or one transmission, so that the reader can be between
`msgbuf_exist` (`Recv`) and `msgbuf_add` (`Handle`) while a sending thread
deletes the message (`GiveUp`). `Submit`, `Transmit`, `Acked`, `Unacked` and
`GiveUp` are the places of `mcast_send`, with `NoSocket` and `TransmitFails`
for its error paths; `Boot`, `SayHello` and `HelloFails` are the start;
`Lose` is the network; `Kill` is `start_chat_process` of the configuration
service, which takes buffer, neighbours, waiting senders and the receive queue
of the node. `net` counts equal packets, which gives loss, duplication and
reordering. `told` counts what was written to the clients; how it reaches each
of them is `ClientFeed`. `heard` and `removed` are history.

`ClientFeed` keeps `socklist`, the connection behind every descriptor, the
place of the reader in the loop over the slots and of every client thread in
dump and registration. `since` and `early` record what there was to show when a
client connected and when it was registered.

`Sync` extends `MsgBuf` too, but splits `msgbuf_add` and `msgbuf_sync` into the
search and the append, because two threads do both. The array is a sequence,
in which `iplist_add` is seen at its four places: the array has moved and the
list still points to what was freed (`moved`), the address is at the end and is
not sorted in (`sort`), it is not counted (`count`). `Slot` is what the thread
may read at each of them. `first`, `tried`, `torn` and `due` are history.

`ConfDaemon` has one thread per client and the main thread, whose program
counters walk through `handle_client`, `wiface_conf` or `wiface_status`, and
`start_chat_process`; `chatpid`, `wlock` and the key are shared. `kill(0)` and
`kill(-1)` do what the system call does with these numbers. `setting` records
whose request each setting of the interface is from; `shown` is a status as far
as it has been read.

`ConfTool` extends `ConfDaemon` with the programs that make the requests. The
steps of the service are those of `ConfDaemon`, restricted by what the tools
have written (`Receive`); a `kill(-1)` of the service ends the tools
(`Meanwhile`). A chat process inherits the sockets of the service by `fork()`
and closes none, so a connection to a service that has ended stays open as long
as a chat process lives (`Held`). What holds of this composition holds of the
service, since `ToolSpec` implies the specification of `ConfDaemon`; this is
the theorem `ToolRefinesDaemon`.

`ChatClient` has the threads of the prompt, the sending loop of
`--chat-send-rand`, and the accepting and serving threads of the chat process,
which `Kill` and `Start` take away and bring back. The verdict on a line is
what the program prints about it.

`Cbc` follows one message from `chat_crypto_encrypt` in the process that sends
it (`from`) to `chat_crypto_decrypt` in one that receives it (`to`), each with
a key, the boxes made of it, or no key. A string is its full blocks and its
tail. `Blowfish` has bytes as sets of bits, so that XOR is the symmetric
difference, and all arithmetic cut to the size of a word.

## Runs

| Run | Module | Shows |
|---|---|---|
| `pair` | `MCMulticast` | Two nodes, one message, loss and send errors: `AckSound` (an acknowledgement is another node's), `HeldIsShown` (nothing is withheld), `SendReturns` (every call of `mcast_send` ends) and `FloodDies` (the air is quiet in the end) |
| `kill` | `MCMulticast` | One of two processes is killed and restarted at any step, and the buffer holds one message only: `TypeOK`, `ShownIsAcked`, `ShownOnce`, and `KeepsPromise`, the refinement of `Delivery` |
| `start` | `MCMulticast` | A node starts beside a running one: `UniqueIds` and `Discovery` |
| `hops` | `MCMulticast` | Four nodes in a line, no loss, the build without acknowledgements (`DONT_WAIT_FOR_ACK`): `ListsNeighbours`, `EveryoneHears` |
| `relay` | `MCRelay` | Thresholds 5 and 10 and all hundred draws: `NeverEchoes`, `OriginAnswered`, `FallsSilent` |
| `list` | `MCLinkedList` | All sequences of list operations on up to four entries: `WellFormed`, `NoLeak`, `IsSequence` |
| `feed` | `MCClientFeed` | Three local clients and a remote one at two slots: `UniqueSlot`, `PlainStaysLocal`, `AckedFirst`, `OncePerWay`, `OnlyGapMissed` |
| `sync` | `MCSync` | Three neighbours, three messages, a neighbour that may vanish, two messages heard meanwhile: `NoneSkipped`, `Complete`, `AtMostTwice`, `Ends` |
| `phone` | `MCConfTool` | Two configurations and a status in every order, with failing ioctls and forks, refused keys, interrupted tools and a signal: `Adopted`, `StopsChat`, `SilenceIsOk`, `StatusTrue`, `ToolsEnd` |
| `chat` | `MCChatClient` | A prompt and a test with two lines each, two lives of the chat process: `TrueAnswer`, `InOrder`, `Answered` |
| `cipher` | `MCCipher` | Strings of every shape, three keys and none, two contents of memory: `RoundTrip`; before it starts, that the cipher undoes itself on every one of the 256 blocks (`Undone`) |
| `overlap` | `MCConfDaemon` | violation: `ConfiguredWhole` with two requests at once |

### What the violation shows

The write lock of `wiface_conf` ("Wait for write lock", `wifconf.c:302`) is
tested and taken in two accesses, so two requests can configure the interface
at once and the one answered "ok" does not get all the settings it asked for.

Four more disagreements were met on the way. They are consequences of single
lines, or nothing in the repository promises otherwise, and no run is spent on
them:

- the comment at `chat_mcast.c:339` promises a decreasing probability; `p = seen * 10`
  makes it grow with the number of copies;
- `mcast_send` looks for the acknowledgement and deletes the message in two
  calls. An acknowledgement in between, or echoes that put the deleted message
  back, leave a node that shows the message to its clients although its user was
  told "No ACK received! Failed to send message" (`chat_client.c:313`);
- `wiface_running_adhoc` treats the success of `ifconfig_up`, 0, as "down", so
  that at the start of the service only its failure starts the chat process,
  contrary to the comment at `conf_thread.c:303`;
- `recvfrom` that fails ends the reader for ever, despite the comment at
  `chat_mcast.c:168`.

### Bounds

- `MaxCopies` (1 or 2): equal packets waiting at one receiver. A count of two
  is what duplicates need; different messages, sources and destinations are
  different packets and reorder freely anyway.
- `MaxVictims`, `MaxRestarts` (1): one process dies once. `Calm` bounds the
  packets in flight of run `kill` to three.
- `MAXMSGS` (1 to 3 instead of 1000): one, where eviction is to happen with every
  new message (`kill`, `hops`); otherwise room for all messages of the run. In
  `sync` it is three with three messages that may be there twice, so that the
  oldest is driven out.
- `SeenCap`: counts saturate above every threshold they are compared with.
- `ALWAYS_FORWARD`, `MSG_RESEND_TIMES`: 1 to 3 in `Multicast`, where the state
  explodes with the number of copies; every outcome of `Forwards` (always,
  by draw, origin only, never) still occurs. `Relay` has the values of the code,
  5 and 10, with all draws and up to 16 copies. `Draws = {0, 99}` are the two
  ends of `rand() % 100`: one that always wins and one that loses.
- `MaxServed` (2) and `MaxHangups` (1) in `feed`: two clients in the middle of
  dump and registration at once, which is what a race for a slot needs, and one
  that hangs up. Copies of a foreign message after the first are left out, since
  they only raise a count that nobody looks at there. The first client is
  registered from the start, so that three local clients meet at two slots: the
  full table, the race for one slot and the second use of a descriptor all
  occur. Local clients are interchangeable, and so are descriptors (`Alike`).
- `Addr` (four entries): head, tail, middle and only entry all occur.
- `Peer` (three addresses), `MaxLive` (2) in `sync`: an address can be inserted
  before, between and after two others, and the reader can add one message in
  the middle of the append of another and drive a third one out.
- `MaxPid` (3), `MaxInterrupts` (1) in `phone`: the chat process at the start
  and one for each configuration; one tool is interrupted before or after it
  has written its request.
- `MaxLines`, `MaxStarts` (2) in `chat`: a line, and one after it that may meet
  the same or the next life of the chat process.
- `ByteBits` (1) in `cipher`: words of four bits and 256 blocks with the sixteen
  rounds of the code. The texts have none, one, two, three and nine full blocks
  and tails of none, one and seven bytes: every branch of the two routines, and
  the 79 bytes of a chat message.

Three assumptions shape what the runs say. `FloodDies` is checked with room for
every message: a buffer that drops messages forgets their counts, and copies
that come later are forwarded as new. `phone` has `Overlap = FALSE`: requests
and signals arrive when no request is handled. With overlapping requests the
unprotected `chatpid` also breaks `Adopted` and `StopsChat`; only the lock,
about which the source makes a promise, is reported as a finding. And
`MCCipher` has initial boxes of its own instead of the digits of pi; nothing
that is checked depends on them, which the theorems about the cipher show.

### Fairness

Threads of a running process are scheduled by the operating system, so the main
thread, the reader and every sending thread that can take a step take one in
the end (weak fairness of `Boot` and `SayHello`, `Reader`, and the steps of
`mcast_send`). Nothing obliges users to send, the network to lose packets,
system calls to fail or the configuration service to kill. Runs with liveness
about delivery (`hops`, `start`) have a lossless network, because no retry can
make up for a network that loses everything; `SendReturns` and `FloodDies` hold
with loss.

In `Sync` the synchronising thread is scheduled (`Thread`), which includes that
a connection attempt ends and that a neighbour writes on or closes; one that
vanished does neither, and `Ends` excepts it. In `ConfTool` the service as a
whole goes on as long as it can, and so do the tools that have connected; users,
signals and chat processes are free. Requests do not overlap, so the lock that
is waited for by polling is always free in the end and weak fairness is enough.
In `ChatClient` the threads of the service and of the programs are scheduled;
typing, killing, starting, listening and failing are free. Without liveness
properties (`kill`, `list`, `feed`, `cipher`, `overlap`) the runs use a
specification without fairness.

`CHECK_DEADLOCK FALSE` is set where the system may stop: all messages sent and
delivered, all clients served, the service stopped, or the bound of `Relay`
reached. `list` has no such state and is checked for deadlock.

## Theorems

The theorems hold for every value of the constants that satisfies the
assumptions named in the modules: any set of nodes and messages, any
`Neighbours`, any buffer size from one on, any thresholds, draws, bounds on
copies and restarts, with and without loss, errors and acknowledgements.
The bounds that shape the model (`MaxCopies`, `MaxRestarts`, ...) stay
parameters, so they may be arbitrarily large.

`MsgBufProofs` has the lemmas about the buffer: adding, bumping, appending and
deleting keep its type, its limit and its being free of duplicates, and what
they do to the count of each message.

`MulticastProofs` builds four inductive invariants, one on another:

1. `TypeInv`: `TypeOK` and `UniqueIds`. The counts of the buffer can only be
   reasoned about when each message is in it once, so the two are proved
   together. Gives `TypeCorrect` and `NoDuplicates`; `CountsGrow` (`SeenGrows`)
   follows for every step from it.
2. `AckInv`: why an acknowledgement can be believed. `ShownIsAcked` and
   `AckSound` are not inductive: that a count above one means another holder
   needs that every further copy came from elsewhere, which needs that a copy
   transmitted by another node was preceded by that node's holding the message
   (`Flying` for packets in the air, `Handled` for the packet at hand) and that
   own loopback copies only ever make the first count (`Counted`). Gives
   `AcksAreSound` and `ShownAreAcked`.
3. `ShowInv`: what was shown is decided by the count (`ShownByCount`,
   `HeldByCount`). Gives `ShownAtMostOnce` and `HeldAreShown`.
4. `TravelInv`: packets go one hop and chat messages exist only after somebody
   sent them. Gives `ListsOnlyNeighbours`.

With these, `MulticastDelivers` proves that `Multicast` implements `Delivery`:
initial states map to initial states and every step maps to a send, a hop, an
answer, a crash or a stutter. The mapping takes a message's holders from `heard`
and the status of an attempt from `pc` and `ret`.

The module ends with `Relay`: `RelayIsBounded`, `EchoesAreFree`,
`OriginIsAnswered` and `RelayFallsSilent` for all thresholds from one invariant,
`RelayInv`, which relates transmissions, copies and loopback.

`LinkedListProofs` proves `ListIsWellFormed`, `NothingLeaks` and `ListRefines`,
the refinement of `ListSpec`, for any number of addresses, any data and any
allocation that fails. `WellFormed` is about a walk along the pointers, from
which it is hard to tell what a routine does to the rest of the list. The
invariant, `ListInv`, says it of all entries at once: there is a sequence of
distinct addresses, which are all that is allocated and not lost (`Holds`), whose
neighbours each entry points to and whose ends are the head and the tail
(`Chain`). The walk passes through this sequence, which is shown from a least
place where it would not. Each routine is then a sequence with an address
appended, taken away or all of them gone, and what it does to the data is what
`ListSpec` does.

`ChatClientProofs` proves `ChatTypes`, `ChatTrueAnswer` and `ChatInOrder`, for any
number of programs, lines and restarts, from one invariant, `ChatInv`. What a
program says is decided several steps after it became true, and the process
that made it true may have been killed and started again in between; the
invariant says what the connection of the line that a program is at, the answer
in its socket and the list of what was handed on have to do with each other at
every place of the two threads, and that lines to come were not handed on.

`ConfToolProofs` first proves `ToolRefinesDaemon`: every step of the composition
is a step of `ConfDaemon` or leaves its variables alone. Then, for requests that
do not overlap (`~ Overlap`, which is an assumption of each of the theorems),
`ToolTypes`, `ChatIsAdopted`, `SignalStopsChat`, `SilenceMeansOk` and
`StatusIsTrue`. Their invariant, `ConfInv`, rests on one fact: only one thread is
between two places where it waits (`Threads`). So what this thread has seen is
still so. The other parts follow it: where the main thread can be (`Main`), that
`chatpid` is the one chat process that lives whenever no thread is between the
kill and the assignment of the new one (`Chat`), that a thread on its way through
`wiface_conf` has made the settings it has passed (`Settings`), that the key is
that of the request that succeeded last, and the chat process has it unless a
thread is about to replace the process (`Keys`). `ToolInv` adds that a tool that
fell silent had its request done.

`CbcProofs` proves two theorems, for bytes of any size, any boxes to start from
and any even number of rounds:

1. `BlockIsUndone`: a block that `bfish_encrypt` encrypted is decrypted by
   `bfish_decrypt`, in any process with the same key (`Undone`). After i rounds of
   the decryption the halves are those that went into the last i rounds of the
   encryption, exchanged and under the next two entries of the P box
   (`Backwards`); nothing has to be known of the function F but that it gives
   words. The boxes of two processes are the same because four bytes of key
   shift out what `malloc` left in an entry (`EntryIs`). That the recursive
   definitions of the rounds and of the key schedule have a solution is derived
   once, from a least place where there is none (`Repeated`).
2. `CbcRoundTrip`: for strings of every length, every initial vector and every
   key, what is read is what was sent. The invariant says of each block what it
   is at that moment: on the way out, that a block done is the encryption of the
   block of the original masked with its predecessor (`Enciphering`); in between,
   what a string with and without a tail looks like on the wire (`OnWire`); on
   the way back, that the blocks done are those of the original (`Deciphering`).

`ClientFeedProofs` proves all safety properties of `ClientFeed` for any number of
clients, descriptors, slots and messages, from three invariants, one on another:

1. `DescInv`: which descriptors may be in the list. A socket in a slot is that of
   a local client that was entered, unless the reader has closed it and is about
   to clear the slot: then accept() may have given its number away already. A
   thread that looks for a slot has found its socket in none. Gives `FeedTypes`
   and `SlotsAreUnique`.
2. `WriteInv`: what was written was to be shown, and in one pass over the slots
   the clients ahead were not fed yet, although slots change under the pass.
   Gives `PlainIsLocal`, `OwnAreAcked` and `NothingTwice`.
3. `GapInv`: what was there when a client connected is dumped entry by entry
   (`Caught`), and what came up since it was entered was fed to it or is ahead in
   the present pass (`Fed`). Gives `OnlyTheGap`.

`SyncProofs` proves all safety properties of `Sync`, for any neighbours, messages
and sizes:

1. `SyncIsComplete` and `TwiceAtMost`. That a message is in the buffer at most
   twice is not inductive: `SyncInv` counts what is in the buffer together with
   what either thread has found missing and is about to append.
2. `SyncTypes` and `NoneIsSkipped`, from `WayInv`. The thread goes through the
   neighbours by their place in an array that the reader sorts and moves
   meanwhile. What can be said of it at all times is how many addresses are
   smaller than one (`Rank`): this does not depend on where the array is being
   sorted, is the place of the address when it is sorted (`SortedIs`), and only
   grows. So a neighbour that was not tried yet has at least as many smaller
   ones as the place that is next, or came in behind a larger one that was
   tried (`Past`).

Every safety property that a passing run checks is thereby also a theorem, the
two refinements included. Only model-checked is all liveness (`SendReturns`,
`FloodDies`, `Discovery`, `EveryoneHears`, `Ends`, `ToolsEnd`, `Answered`), which
is beyond the prover, and `ConfiguredWhole` with overlapping requests, which
fails. The settings of an interface and the other parts of `ConfInv` are proved
for requests that do not overlap, the only ones for which they hold.

## Not modelled

- Identifiers (`msgbuf_setid`, `utils.c: chksum`). They are distinct in the
  models. In the code one is an address, the second, the low 16 bits of the
  microsecond and a checksum over the first half of the message, and two equal
  ones would be taken for one message. How likely that is is not a question for
  a model checker.
- Two appends at once to the linked list under the buffer. `Sync` and
  `Multicast` interleave the calls, and the append of an entry is one step; with
  no lock in effect, two calls of `linkedlist_append` that meet may lose an
  entry or loop. What pointers another thread sees then depends on the compiler
  and the machine; `LinkedList` is about one caller at a time.
- Messages that leave the buffer during a dump, and a write to a client that
  blocks. An empty buffer at a dump is a null pointer (`msgbuf.c:553`) and ends
  the process, which is an outcome of `ChatClient`'s `AcceptRecv`.
- The cipher modes `cfb.c` and `ofb.c`, `fork_twice`, UNIX sockets, `iplist_reset`,
  `msgbuf_delsock`, `ifconfig_is_up`, `data_to_read`: nothing in the program
  calls them.
- The paths of the firmware of one phone (`fwpaths.c`), logging, the statistics of
  the command `.stat`, the format of what is printed, the making of a BSSID from
  a network name, and the shell scripts of the field tests.

## Plan

Done: `Multicast` and what it is built from, `Relay`, `LinkedList`, `ClientFeed`,
`Sync`, `ConfDaemon`, `ConfTool`, `ChatClient`, `Blowfish` and `Cbc`, with
theorems about all of them. What is left, in this order:

1. What follows from several components together, such as a line that `chat`
   reports as sent and the status that `mcast_send` had; so far `ChatClient` has
   `mcast_send` as one step with a result.
2. Properties of steps, besides `SeenGrows`: what no step may do to a key, a
   connection or the list of neighbours.
