# pobicos2Android in TLA+

This directory specifies pobicos2Android, a port of the POBICOS middleware to Android phones, together
with the server ("directory") through which phones find and reach each other. The modules are checked
with TLC on small instances; the theorems in `DirectoryProofs`, `ConnectionProofs`, `TimersProofs`,
`AppPillProofs`, `TransportProofs`, `LinkProofs` and `MigrationProofs` are proved with TLAPS
for every value of the constants.

A phone runs the POBICOS middleware (nesC, compiled into `jni/middleware.c`) behind a Java service. The
Java side gives the middleware what a sensor node's hardware would: timers, a network, a UART for
uploading application pills, dialogs. The phone keeps one TCP connection to the directory, registers on
it with its location, and sends every POBICOS message through it; the directory forwards the message to
the phone, or the phones, it is for.

## 1. Inventory

Paths are relative to the repository; `poclient/` is `PoClient/src/org/lekkas/poclient/`,
`directory/` is `directory/src/org/lekkas/PoDirectory/`, `platform/` is `middleware/androidPlatform/`.

| Component | State it keeps | Operations | Interacts with |
|---|---|---|---|
| Directory reactor, `directory/Reactor, Accept_Handler, RequestHandler` | one `RequestHandler` per channel: state READING/PROCESSING/WRITING, input and output buffers; one selector, one thread | accept, read a packet, `process()` a REGISTRY_REQ, forward or broadcast a POBICOS message, reply | TCP with phones; the registry |
| Directory registry, `directory/Registry, NodeInfo` | list of `NodeInfo` (address, seed, channel, location, time last seen), address counter | three look-ups, add, (remove), `getAddr` | called by the handlers |
| Address encoding, `Serialization` (both sides) | none | int/char/float to bytes and back | everything that reads a packet |
| Connection manager, `poclient/PoConnectionManager, PoConnMgrReadTask, PoCommMgrWriteTask` | channel, two selectors, reader, writer, registry-update thread, `OutMsgQ`, flags | connect, disconnect, start/kill the update thread, read, handle, write | main thread, sockets, the middleware's event queue |
| Middleware service and broadcasts, `poclient/PoMiddlewareService, PoConnStatusBR` | started flag, pending alarms, notifications | start, connect, retry, failover, no connectivity, registry event, destroy | connection manager, event thread |
| Registry service, `poclient/PoRegistryService` | the phone's address, seed, state and location | register, record the answer | connection manager |
| Event thread and JNI glue, `poclient/PoAPI/EventHandlerThread, PoAPI, MiddlewareManager, Po*` events | event queue | dispatch an event into the middleware, then run its tasks | every source of events |
| Agent timers, `platform/PoRuntimeSWTimersM.nc, PoSWTimerM.nc`, `poclient/PoAPI/TimerService` | table of timers; the one hardware timer; scheduled Java task | create, destroy, start, fire, re-arm | event thread, Java executor, clock |
| Network service and communication HAL, `poclient/PoAPI/NetworkService`, `platform/zigbee/PoHWCommM.nc` | joined flag, address, packet under way | join, send, receive | connection manager, event thread |
| Virtual address filter, `platform/zigbee/PoCommVirtualFilterM.nc` | none | rewrite addresses | between HAL and middleware |
| App pill loader and UART, `poclient/AppLoader/*`, `poclient/PoAPI/UARTService`, `PoHWUARTM.nc` | upload offset, state, root agent's id; two static queues; a listener thread per load or kill | load, kill, answer the node's requests for chunks | node side of the same protocol in `middleware.c` |
| RAM and persistent memory HAL, `platform/PoRAMMemM.nc, PoHWMemM.nc` | arrays, a file | allocate, read, write | generated middleware |
| Reliable transport, `PoCommM` in `middleware.c` (message timers and member table: `PoNetworkMngrM`) | per peer: four sequence numbers, send buffer, receive and fragment buffers, message timers, reset flag | send, data arrives, ack arrives, timer fires, peer removed | network HAL; every service of the middleware |
| Agent migration, `PoUAMngrM` in `middleware.c` | at the source a task with its state, acks awaited, timer; at the target a slot; at parent and child what they know of the agent | `handleMig`, its timer, ten kinds of message, failures reported by the transport | transport, runtime, code distribution; four hosts |
| Non-generic resources and dialogs, `poclient/PoAPI/NGResources, DialogActivity`, `PoHWResourcesM.nc` | one dialog slot, its timeout | open, answer, time out, abort | middleware, user |
| Activities and notifications, `poclient/PoMainA, NotificationMessageActivity` | user interface | buttons | service, loader |
| Directory start-up, demo agents, generated `middleware.c`, platform stubs | | | |

### What is hard, and what makes each component correct

* **Directory.** One thread serves everybody and *spins* in two places: for the rest of a packet, and
  until a reply is written. Writes are non-blocking and may be short. Phones lose connections and come
  back, so an entry, its channel and its address may belong to different lives. Bytes are signed.
  *Correct when* a channel is held by one entry; addresses in use are distinct and none is 0 (which means
  "give me one") or 0xffff (broadcast); what a phone is welcomed with is what the registry will recognise;
  a message reaches the phone it names, where its location specification admits it, and nobody else; a
  dead registration stays dead; and no phone that is still there, or has closed, keeps the reactor.
* **Connection manager.** The main thread, the reader, the writer and an update thread share flags
  without locks, cancel each other by interrupts, and the main thread joins two of them. *Correct when*
  no thread outlives its connection, `disconnect()` returns, a flag that says a thread runs is true, and a
  connection leads to a registration.
* **Agent timers.** Many timers on one; events already queued when their task is cancelled; a 32-bit
  clock that wraps and a Java clock that does not; signed and unsigned differences. *Correct when* no
  timer fires early, each running timer has something on its way that will fire it, and it then fires.
* **App pill loader.** Two state machines over one UART, and a new listener thread per operation on the
  same static queue. *Correct when* chunks arrive in order in each upload and the loader's idea of
  "running" agrees with the node's in the end.
* **Reliable transport.** Sequence numbers are bytes and wrap; two sliding buffers in each direction, one for
  what is ahead and one for fragments; a node that runs out of memory, or of patience, resets its counters and
  announces it on its next packet, which may be lost. *Correct when* the window, the buffer and the timers
  tell the same story; every message that was accepted is reported once; what is handed over is in order and
  nothing twice until a reset or the second use of a number; and a message reported as sent has been handed over.
* **Agent migration.** Four hosts, each on its own thread, with messages that are refused, lost or late, two
  time-outs that race with answers, and a second attempt that may meet what the first left behind. *Correct
  when* the agent is never lost, never runs twice, stands still while its state is on the way, and in the end
  runs, with parent and child knowing where.
* **Service life cycle, dialogs, memory, filter**: see the plan.

The hazards are listed one by one, with the line where each bites and the properties that bear on it, in
`PROJECT.json`.

## 2. Modules

| Module | Models | Extends / instances |
|---|---|---|
| `AddressCodec` | the conversion of an address to and from two signed bytes | |
| `Directory` | reactor, handlers, registry and the network as the server sees it | `AddressCodec` |
| `AddressBook` | abstract: an address book in which a channel carries one entry, entries may be removed, and an address is assigned once | |
| `DirectoryProps` | properties and fairness of `Directory`; the refinement to `AddressBook` | `Directory`, `INSTANCE AddressBook` |
| `DirectoryProofs` | theorems about `Directory` | `DirectoryProps`, `RecursionProofs`, `FiniteSetTheorems`, `TLAPS` |
| `MCDirectory` | instances of it | `DirectoryProps` |
| `ConnectionManager` | one phone's connection: main thread, reader, writer, update threads | |
| `ConnectionProps` | its properties and fairness | `ConnectionManager` |
| `MCConnection` | instances of it | `ConnectionProps` |
| `RuntimeTimers` | agent timers down to the scheduled Java task | |
| `ConnectionProofs` | theorems about `ConnectionManager` | `ConnectionProps`, `TLAPS` |
| `TimersProofs` | theorems about `RuntimeTimers` | `RuntimeTimers`, `RecursionProofs`, `TLAPS` |
| `RecursionProofs` | lemmas on least elements and on functions defined by recursion, which the other proofs cite | `WellFoundedInduction`, `TLAPS` |
| `ReliableTransport` | the sliding-window transport between two nodes, down to buffers, fragments and message timers | |
| `ReliableLink` | abstract: what the transport promises its user | |
| `TransportProps` | properties of `ReliableTransport`; the refinement to `ReliableLink` | `ReliableTransport`, `INSTANCE ReliableLink` |
| `MCTransport` | instances of it | `TransportProps` |
| `TransportProofs` | its inductive invariant: windows, timers, results, types; the order of packets and acks until a number is used again | `TransportProps`, `RecursionProofs`, `FiniteSetTheorems`, `FunctionTheorems`, `SequenceTheorems`, `TLAPS` |
| `LinkProofs` | the refinement of `ReliableLink` | `TransportProofs` |
| `AgentMigration` | one agent's migration at source, target, parent and child | |
| `MigrationProps` | its properties | `AgentMigration` |
| `MigrationProofs` | theorems about `AgentMigration` | `MigrationProps`, `FiniteSetTheorems`, `TLAPS` |
| `AppPill` | loader, its listener threads and the node's `PoAppPillM` over the UART | |
| `AppPillProofs` | theorems about `AppPill` | `AppPill`, `SequenceTheorems`, `TLAPS` |

`PROJECT.json` maps each definition to the lines it stands for.

### Directory

`reg` is `Registry.reg` in order, as a sequence of records; `addr` the counter (not reduced: the code's
`getAndIncrement` is an int, its use as a `char` is `% AddrMod`); `status` what TCP makes of each channel;
`reactor` whether the one thread is in `select`, spinning in `read()` or spinning in `write()`; `backlog`
what each channel's send buffer holds; `sent` the output of the last step.

A run of a handler is one step, as only one thread exists, except at the two loops in which the code waits
for the network. There the reactor is in a state of its own and serves no other channel. The three look-ups return the first match, as the loops do. `NewConnection` has
the three outcomes of `process()` on a channel that no entry holds. For an expired entry the code calls `reg.remove` and logs
"Node successfully unregisted."; but it asks a list of `NodeInfo` to remove a `SocketChannel`, which removes nothing, and
`RejectExpired` removes nothing. `AddressBook` lets an entry be removed, so `ImplementsAddressBook` is silent about this
disagreement; the violation run `unregistered_is_gone` is about it. `Forward` writes to
the entry of the destination and then, for a broadcast address, to everybody whom the location
specification admits, from one buffer whose position is never reset (`Position`). A packet is
`Parts` pieces so that a write can be short. `Throws` is the broken pipe, for which the direct write leaves
`write()` and the broadcast loop goes on.

A location is a member of `Loc` and a location specification a subset of it: the geometry
decides nothing here. "No specification" is all of `Loc`. A byte has `ByteMod` values, the upper half of
them negative, and an address two bytes.

### ConnectionManager

Threads are records: a program counter, the flag `Running`, the interrupt flag, what is in hand. A thread
that leaves its loop by `isInterrupted()` skips its `cleanup()` and leaves `Running` TRUE; by an
exception, it does not. `disconnect()` is six steps (close; interrupt the writer; interrupt the reader;
kill the update thread; clear `update_thread_running`; join both), in the order of the code, with everything else between them. `connect()` is one step: `NoSurvivors`,
which is checked, says that no thread is alive when it opens a channel, so nobody can tell. `killUpdateThread()` reads a
`Running` that is not volatile and so may see the constructor's FALSE (`Killings`). Its two statements are two steps
(`KillUpdateThread`, `ClearUpdating`), here and when `startUpdateThread()` calls it: in between, the reader finds the flag
set and the thread interrupted, and `FlagMeansUpdating` says so (`Clearing`). Of the flags only `Running` is
read stale: `update_thread_running`, which is not volatile either, is taken to be seen as soon as it is written. `select()` on a selector
that `disconnect()` has closed throws an exception nobody catches, of which the process dies
(`ProcessEnds`); an alarm, the user or a broadcast starts it anew.

Not kept: the retry alarm and the `stop` request, as states. What they lead to (connect once more,
`onDestroy`) may happen in the model whenever the main thread is idle, which allows all that the code
does and more. The server is reduced to what a phone sees of it: it welcomes, answers PONG or FAIL, sends
a message, closes. That it answers a request with credentials by either PONG or FAIL covers every state of
the registry.

### RuntimeTimers

`timers` is the table of `PoRuntimeSWTimersM`, `hw` the scheduled task of `TimerService`, `events` the
`PoTimerFired` in the queue of the event thread, `posted` the nesC task. `deadline` is a history variable: what
the client asked for in unwrapped time; the code is free of it, and the properties are about it.
Arithmetic keeps its width: elapsed time is modulo `Word`, what remains is a signed word, the sum t0 + dt
handed to Java is not reduced and is compared with an unreduced clock.
`updateFromTimer` is one step, with the clock read once at its beginning. `getTimeLeft`, and the fields of `TimerService` that nothing reads, are
left out.

### AppPill

`loader` holds the fields of `PoAppPillLoader` (with `PoAPI.hostsRootAgent` and the button's `app_status`), `listener` the
`PoUART` threads, `TxQ` and `RxQ` the packets under way, `node` what `PoAppPillM` knows, `agents` the root agents that
live on the node. `mishaps` is a history variable: whether a button was pressed before the last operation had
ended ("press"), an agent ended on its own ("release"), or the node refused something ("failure"). Neither code has
error recovery, so what it promises, it promises while these do not happen; the model goes on after them.

`killRunningApp()` is two steps, because the listener it starts may handle the answer before the loader's state is set. A listener
takes a packet whole. Two listeners may take the bytes of one packet between them (`Tear`); both have then lost
the boundaries, and are taken to make no sense of what follows. A packet is sent in one step, though the code
offers it byte by byte: only a press during `packetReceived()` could mix two. The offset is read and written in one step for the same reason.
The event thread hands the node a packet and completes its tasks (`NodeReceives`). What the parser makes of chunks out of order is any
of its three outcomes. `createRootAgent()` returns SUCCESS, which is 0, and its caller tests for 1: the loader gets "started" and
then "starting error", which it only logs, and after a failure it gets nothing. Not kept: packets on the inspection channel,
which the loader ignores, and a start with an imposed root, which it never sends.

### ReliableTransport

`node[n]` is what node n keeps of its one peer: the four counters of `addrInfo_t`, the send buffer with the resends
left of each packet, the sequence numbers whose message timer runs, the receive buffer and the fragment buffer
(slots, as the code searches them from the first on), and `resetFlag`, the reset still to be announced.
`net[n]` is what is on its way to n, in order, as one TCP connection through the directory keeps it; anything may be lost.
`outcome` and `delivered` are what the user of the transport sees, `broken` whether anybody has reset yet.

Each handler of `PoCommM` runs on the one event thread of its node and is one action: `SendMsg`, `MsgTimerFired`
(resend, or remove the node after `Resends` tries), `KeepAliveExpired`, `DataArrived`, `AckArrived`. A packet that
has to be kept needs a free slot and memory from a pool which all peers share; other peers are not modelled, so the pool may be
empty at any time, and the node then resets. `processFragments` takes the slot of the fragment in hand from
`fragmBufIndices[0]`, which nobody has written when the packet came out of the receive buffer: the value is arbitrary
(`garbage`). When packets become in sequence, `Drain` takes them one slot a round. A message completed by a packet
that is *ahead* of the sequence is put together and its fragments freed, but it is not counted, and so never handed up; the
violation run `transport_send_result` is about this. The HAL's `sendMsg` is taken to succeed (it fails only when the Java side cannot
allocate an array). Datagrams and inspection messages are left out, as are the persistent-memory addresses of buffers.

`addToRecvMsgBuf` does not look whether it has the packet already. A packet that is ahead of sequence and arrives a second
time, being resent before its ack could be, is kept in two slots. One of them is taken when the packet's turn comes; the other
stays, until the node resets, and is taken for the packet that has the same number when the
256 numbers have gone round: a message of long ago is handed over again and the new one is dropped as received. The same goes for
fragments. With this the transport keeps its promise of order for one round of the numbers only, and `Orderly` in `TransportProps`
says so: nobody has reset, and nobody has submitted as many fragments as there are numbers (`Unwrapped`). This is a limit of the
code. With the condition left out TLC finds, with single packets in a window of 2 of 5 numbers and one resend,
the messages 1, 2, ..., 6 handed over as 1, ..., 6, 2. That the numbers pass from their last to 0 does no harm
in itself, and the run starts where they do.

`ReliableLink` is the promise: as long as the transport is orderly, messages are handed over once and in order and results are
reported at most once and truthfully, with the exception that a fragmented message may be dropped although it was reported. Afterwards
only "nothing is invented and nothing reported twice" is left, not even that two messages' fragments are kept apart.

### AgentMigration

`src` is the source's migration task (`mig_state` and what goes with it), `here` the agent there, `tgt` the target's slot
(`mig_data`), its request for code (`hostMig...`) and the agent there, `parent` and `child` the entries in which these know
the agent. `handleMig` is a switch on the state; each of its branches is an operator that gives the set of
its outcomes (new state, new agent, messages), and `Handled` is the call. The callers are actions: the timer, each answer, the end of
the agent's events, the last marked message, a failure reported by the transport. The branch for every other state is, in the code, a test of a
constant (`if (MIG_DOIT_SUCCESS)`), so it removes the agent in FLUSH as well; the model does so too.

`tgt.agents` counts the target's descriptors of the agent and `tgt.runtime` is what its runtime holds: `rmvMigAgent` removes one
descriptor, if there is one, and leaves the runtime alone (it is called with `rmvRuntimeFlag` 0), and an agent is loaded only if the runtime has none.

The branches that fail half way are outcomes of their branch. `Notify`: the first or the second notification is refused, and the task
is gone with the state still NOTIFY. `Suspend`: the agent's timers could not be read, when its suspend state has already been set; the migration ends and nothing
resumes the agent. `HandOver`: the runtime's state could not be saved, and the agent is sent all the same after the migration has ended; or the
request is refused, or the request is out and the state is refused, and the agent stays suspended. `RequestCode`: the request is refused and the task waits for nothing.
`Refused` names those that may happen, and the run has all of them.

The transport below is as `ReliableLink` promises, between each pair of hosts: `SendFails` is the sender's being told that the target is given up,
`LoseAnswer` the target's giving up the source, of which the source learns when it sends next (`link`), `ChildUnreachable` the
child's being given up. A ping is sent for its failure only and is not put on its way.

Nothing is assumed about time: any timer may fire at any time it runs, whatever is on its way. The code's own times give no order. `MigAlgTimer` tries every
10 s (`middleware.c` 32518) and leaves an agent out for one period after a failure (32406-32421), while the slot at the target lives for 30 s (27392, 27717), so a second attempt
meets the slot of the first as a rule; the source gives a hand-over up after 35 s and two pings (39791, 39798), and the transport may take 35 s to
give a message up. So there are races, and in some of them the code does lose or double the agent. They are recorded, as they happen, in the history variable `mishaps`, which
no action reads; a property names those it excepts. Each exception of the three invariants is necessary: with any of them left out, TLC finds the invariant violated.

| Mishap | What happens | Excepted by |
|---|---|---|
| `lateReply` | a positive MigReply is believed (27439 tests no state) when no hand-over waits for it | `AgentSurvives` |
| `dropped` | the target's 30 s end while its report or the parent's answer is on its way | `AgentSurvives` |
| `latePing` | the source's last ping, or its giving up, comes while messages or answers of the hand-over are on their way | `OneRuns` |
| `lateLoad` | the target loads the state of a hand-over that was refused or given up, in the slot of another | `OneRuns` |
| `oldReport` | the parent is notified while the report of an earlier migration is on its way, and takes that for the answer | both |
| `lateStop` | a suspension that failed ends during a later migration, which hands the agent over without having asked | both |
| `childUntold` | the child's notification could not be prepared after the parent's was sent | `RelativesAgree`, which also excepts the six above |
| `leftStopped` | a suspension or a hand-over failed, and the agent is not resumed | `RunsAgain`, which also excepts what `AgentSurvives` does |
| `unasked` | the code request was refused and the task stays | `MigrationEnds` |

The loss of the agent's parent, which ends the agent, and a second agent that migrates at the same time are left out.

## 3. Runs

| Run | Shows | Bounds |
|---|---|---|
| `directory` | with phones that connect, register, re-register, expire, vanish and send in any order: types, `OneEntryPerChannel`, `AddressesDistinct`, `WelcomeBacked`, `AddressedOnly`, `DeadStaysDead`; `ReactorFreed`: the reactor leaves its two loops; and `ImplementsAddressBook`: the registry refines the abstract book | 2 channels, 2 registrations, 2 positions, 3 destinations, time 0..2 with threshold 1, 2 pieces, buffers of 2 |
| `connection` | types, `NoSurvivors`, `FlagMeansUpdating`, `DisconnectReturns`, `FirstConnectionRegisters`, across one reconnection with everything in any order | 2 channels, 2 update threads, 1 set of credentials, queue of 2 |
| `runtime_timers` | `LookedAfter`, `NeverEarly`, `EventuallyFires`, across a wrap of the clock | 2 timers, 8-value words, clock to 11, 4 calls, at most 2 ticks late |
| `app_pill` | types, `UploadsInOrder`, `LoaderAgrees`, `OperationsEnd`, over load, kill and load again | 2 chunks, 2 agent ids, 3 listeners, 1 kind of mishap brought about |
| `broadcast_reaches_all` | violated: only the first hearer of a broadcast gets it | 3 registrations |
| `ponged_is_reachable` | violated: a phone that comes back is told PONG, its entry keeps the dead channel | 3 channels |
| `unregistered_is_gone` | violated: a phone whose registration has expired is refused, logged as unregistered, and stays registered | 3 channels |
| `disconnect_kills` | violated: after `disconnect()` a thread still says it runs, and the next `connect()` starts none | as `connection`, 2 credentials |
| `transport` | types, `WindowConsistent`, `PendingInFlight`, `AcksBehindReceipt`, `ImplementsLink`, `Resolved`, over a network that loses anything | 2 messages one way, one of them in 2 fragments, window 3 of 7 numbers, 1 resend, 3 packets on their way, 1 expiry |
| `transport_send_result` | violated: a fragmented message is reported as sent and handed to nobody | as `transport`, no expiry |
| `migration` | types, `AgentSurvives`, `OneRuns`, `StillWhileMoved`, `RelativesAgree`, `MigrationEnds`, `RunsAgain` | 2 attempts, 1 loss, 2 pings, anything may be refused |
| `migration_state_expected` | violated: a refused target is sent the agent's state all the same, and asserts that it cannot be | 1 attempt, no losses |

The six violated properties each state what a comment, a name or an assertion of the
repository says; `findings` in `PROJECT.json` quotes it. Their counterexamples are short and none needs a
bound to be hit.

**Why the bounds are enough.** Two registrations and two channels are what it takes for a phone to meet an entry that is another's, or its
own of an earlier connection, expired or not; the six safety properties and the refinement that this run checks are proved for any number of channels (§4), and
`ReactorFreed` is about one phone at a time. With a threshold of 1 and time to
2 an entry can be fresh, at the threshold and expired. `ByteMod = 4` gives 16 addresses with all four
combinations of signs. The run sends to three of them: 1, which decodes to itself; 2, whose low byte is negative so that it decodes to
another; and 0xffff. `AddressedOnly` is about those that decode to themselves; which these are is proved of every address (`DecodableIsDecoded`).
Two pieces are enough for a short write, a full
one and none. In `connection`, two channels are one reconnection: reader and writer of the old connection meet those of the new;
two update threads are one replaced by another; a queue of two holds a leftover and a new request. One set
of credentials leaves the second process life of the phone with no welcome, which is why `FirstConnectionRegisters` is about
the first channel; `disconnect_kills` has two. In `app_pill` three listeners are a load, a kill and a second load, which
is what it takes to meet what an operation leaves behind; two chunks can be out of order, repeated or past the end. `MaxMishaps`
bounds how many kinds of mishap the user and the agents bring about; failures of the node are not bounded, and none but `TypeOK` speaks of a behaviour with two kinds. In `runtime_timers` a word of 8 is as small as leaves a signed
half that can hold two periods and the lag; the clock passes 8 and has time left for a timer that was started before the wrap
and one that was started after.
In `transport`, three fragments of seven numbers never use a number again, so `Orderly` ends by a reset only. Seven numbers are the fewest beyond twice a window of 3, and starting at 0 and at 5 puts the wrap behind and into the
messages; a window of 3 is filled by the two messages and can be received in every order of losses, which with
one resend per packet brings all of resend, repeated ack, packets ahead, completion out of order and giving up. One node's
messages are enough, as nothing that is kept for one direction is used for the other but the reset flag, which acks carry back. Larger instances (two messages
each way) exceed what a run may take. In `migration`, two attempts let the second meet what the first left behind, one
loss lets either host lose contact with the other, at any time, and `Pings` has the code's value.

CHECK_DEADLOCK is off where the clock, the channels or the calls run out, which ends the behaviour of a
bounded instance without being a deadlock of the code. That somebody waits for ever is excluded by liveness
properties instead.

**Fairness.** `Directory`: a reactor spinning in `write()` makes progress once there is room (`WriteReply`);
a phone that is up reads (`PhoneReads`; its reader thread does nothing else); the rest of a packet whose
first part has arrived arrives or the connection ends, since phones write packets in a loop. Nothing of the kind is assumed of a phone that vanished
without closing: for it the loops do not end, and `ReactorFreed` says so. `ConnectionManager`: started threads run, and the main thread
does not pause inside `disconnect()`; the server may close at any time but answers what it reads.
`RuntimeTimers`: the event thread, the executor and the clock go on, and `MaxLag` bounds how late the first two may be, as
being 2^31 ms late would be indistinguishable from being early. `AppPill`: listeners, the event thread and the main thread go on, and an
agent that has been told to finish does; nobody need press a button, and the node need not be ready. `ReliableTransport`: the one-second timer
goes on counting a node's message timers down, and that is all: nothing is assumed of the network, so `Resolved` holds even if
everything is lost. `AgentMigration`: timers fire, the agent's events end, queued messages
get out, and messages to and from the parent arrive; nothing is assumed of the messages between source, target and child, nor that code is looked for, attempts are made or anything is lost.

Each property of a passing run comes with a mutant: a definition, kept next to the one it would replace
(its comment says "Mutant of"), that changes it as a plausible slip would. TLC finds the
property violated with it.

## 4. Proofs

`DirectoryProofs` proves, for all sets of channels, seeds, positions and specifications, all sizes of
byte, packet and buffer and every time-out:

* `StateTypeCorrect`: the types of the registry, the counter, the clock, the channels and the reactor;
* `OneEntryPerChannelHolds`, `AddressesDistinctHolds`: the two uniqueness properties;
* `WelcomeBackedHolds`, `AddressedOnlyHolds`: what is written, and to whom;
* `DeadStaysDeadHolds`: an action property;
* `RegistryImplementsAddressBook`: the refinement, under the assumption that fewer registrations are made than
  there are addresses (`MaxReg < Broadcast`), without which the counter wraps and the book is not
  implemented. `assigned`, the addresses the book has given, maps to those below the counter. AddressesDistinct needs no such assumption, as it speaks of the time before the wrap.

The inductive invariant is `BookInv`: the types, `OneEntryPerChannel` and `OrdinalAddresses`. `AddressesDistinct`
is not inductive as it stands, since it says nothing of an address that is still to be handed out; `OrdinalAddresses` says that
entry i was given the counter's value i cast to a char and that the counter is one ahead of the list, from which distinctness
before the wrap follows by arithmetic (`CastAddr`). A registration is added only for a channel that no entry holds, but the
look-up is a CHOOSE over indices, so `FirstProperty` (from `LeastOf` of `RecursionProofs`) and `Lookups` first
state what the three look-ups return. `StepEffect` then says once what any step does to the registry: it keeps every
registration, or adds one for a fresh channel; types, uniqueness and refinement all rest on it. `WelcomeBacked` speaks of
a reply when it is written, steps after the registration, so it needs `WelcomePending`: a welcome that waits is already
backed. `AddressedOnly` rests on `DecodableIsDecoded`: an address whose low byte is positive, or whose high byte is 0xff,
survives the decoder that forgets to mask. `DeadStaysDead` rests on two guards: a closed channel is never served, and a
reconnection refreshes an entry only if it has not expired.

`TypeCorrect` needs more than `StateTypeCorrect`: it bounds what one read makes the reactor write. The pieces of a broadcast
are placed by a recursive function over the registry, whose values `PositionIs` bounds with `Iterates`; each lands in the set
the type names (`LandedFits`), and none is written twice because no two entries hold one channel (`OneEntryPerChannel`).

`ConnectionProofs` proves for any number of connections, update threads, credentials and queued messages
`ConnectionTypeCorrect`, `NoSurvivorsHolds` and `FlagMeansUpdatingHolds`, for every interleaving of the threads, the one between the two statements of `killUpdateThread()` included. The inductive
invariant is `IInv`. `NoSurvivors` alone is not inductive: it allows two readers, of which only one would be cancelled; so `ThreadInv` says
that whoever is alive is the thread the manager's field names, and that the channel in use is not closed on this
side (the reason why only `disconnect()` can make `chan` change under a thread). `HandleInv` keeps the bound on broadcasts out of the way of
the reader. `UpdaterInv` adds to `FlagMeansUpdating` that threads yet to be made are as the constructor leaves them.

`TimersProofs` proves, for any number of timers and any word size, `TimersTypeCorrect`, `NeverEarlyHolds` and `LookedAfterHolds`. `DueInv`
relates the code's clock words to real time: a running timer's t0 is the time it was started modulo the
word, and that time lies between 0 and now. Then what the code computes as elapsed is at most what has really elapsed (`ElapsedSinceStart`, and the lemmas on
remainders, which are proved from division since the provers know little of `%`), so a timer found expired is due however often the clock
has wrapped. `LookedAfter` needs `ShortTimeouts`, that nobody asks for MAXINT: such a timer runs, `updateFromTimer` starts its search for the
minimum at MAXINT and never finds it, and the timer is not armed. With it, `SoonInv` says that what remains of a running timer is a signed word equal to
deadline - now, and `Cared` carries `LookedAfter` through the moments in which the event thread is at work.

`AppPillProofs` proves, for a bundle of any size and any number of operations, `AppPillTypeCorrect` and, from one invariant, `UploadsInOrderHolds` and
`LoaderAgreesHolds`. `ProtocolInv` says that, as long as nobody presses too early and no agent ends on its own, there is one listener and the system is in one of
six phases (loading, starting, running, killing, empty, stuck after a refusal), each with the one packet that makes things go on. `Inbox` joins the
packet in hand and the queue, so that a listener's taking a packet changes no phase. That the announcement of an
agent is followed by an error the next operation's listener finds (`Late`) is part of the phases: the theorem shows it harmless.

`TransportProofs` and `LinkProofs` are about `ReliableTransport`, for messages of any number and size both ways, any window, any
range of numbers more than twice as large, any number of resends and resets, and channels of any size.

* `TransportInvariant`, and from it `TransportTypes`, `WindowIsBuffer` and `PendingIsInFlight`. `TransportInv` has a part per
  owner: `SenderOk` for what a node keeps and what its user was told, `NetInv` for the channels, `UsersInv` for what was handed over.
  `WindowInv` says that the packets waiting and their numbers correspond one to one to the distances from the last number acknowledged.
  `PendingInFlight` needs more than its own statement: when an ack takes a message's last fragment out, its earlier ones
  must be out or go with it, or one of them would later be resent, or fail, for a message that was already reported. So `ChainInv` says that every
  packet waiting has the last fragment of its message waiting with it, no nearer to the window's start. All of this holds through every reset and round of the numbers.
* `AcksAreBehindReceipt`. Until a reset or the second use of a number, the distance of a number from the one both nodes
  started with is the place of its packet among all the packets of its sender. `OrderInv` says of every
  packet that waits, travels or is kept that it is the one its number names (`NamedOf`); that acks travel in the order of their
  numbers and none exceeds what their sender has taken in sequence; and that a packet under way lags less than a window behind what
  its receiver has (`Recent`) and behind any sent before it. The last is what distinguishes a late packet from one ahead
  with only the distance to go by, and it is where 2 * Window < SeqMod is used.
* `TransportImplementsLink`. `HandedInv` relates what was handed to a user to what was taken in sequence: in ascending
  order, no message beyond what was taken, and none missing but those in fragments. A message is put together when its last
  missing fragment comes, so no message in the fragment buffer is ever complete. `KnownInv` is what remains after a reset: packets are of submitted
  messages only. One lemma for each action then gives the step of `Link!Next`, or the stutter, it maps to: `SendMsg` to `Submit`, perhaps the one
  that ends the promise, `DataArrived` to `Deliver`, `Break` or `DeliverBroken`, `AckArrived` to `Succeed`, and so on.

The arithmetic is in a few lemmas: `DistIs` and `PlusIs` replace the remainder by cases, `DistDist` is the distance of two numbers from
a third, `AckWindow` how an ack moves the window. `Drain` and `LastNumber` are recursive functions over intervals; what they preserve is proved once,
in `Iterates`: a property that holds at 0 and is kept by each round holds after any number of rounds (by the least counterexample,
`LeastOf`, since induction over a property is out of reach); both are in `RecursionProofs`. The garbage in `processFragments` may be any slot, so that only what
holds whatever slot is freed could be used, and it is enough.

The condition `Orderly` was found by the attempt to prove these theorems without it: `OrderInv` was not inductive at the step in which a number is
given a second time, for a copy in the receive buffer may still have it, and TLC then produced the behaviour described above.

`MigrationProofs` proves, for any number of attempts, losses and pings, whatever is refused, lost or late:

* `StillWhileMovedHolds`. `StillInv` drops the condition that there is a task, since an answer may find the state of a migration
  that has ended, and includes the state in which the agent has just been reported to stand still.
* `MigrationTypeCorrect`. `TypeOK` is not inductive: `TypeInv` adds that the numbers in messages and slots have been given (`NetOk`,
  `TargetOk`), that each attempt gives at most one, so that they stay in bounds (`SourceOk`), and that a source that has notified awaits an answer.

`HandleMigIs` lists what `handleMig` may return, each outcome with its state and its messages, and both proofs go through it.
**Only model-checked.** Liveness (`ReactorFreed`, `DisconnectReturns`, `FirstConnectionRegisters`, `EventuallyFires`, `OperationsEnd`,
`Resolved`, `MigrationEnds`, `RunsAgain`), since it needs ENABLED; and `AgentSurvives`, `OneRuns` and `RelativesAgree`. Every other
invariant and every other action property or refinement that a passing run checks is also a theorem, under the conditions named above.

## 5. Plan

Done: the directory, the connection manager, the agent timers, the app pill, the reliable transport and the migration of agents, and the
proofs above. What is left, most important first:

1. `ServiceLifecycle`: the middleware service with its alarms and the event thread. A first connect that
   fails returns before the event thread is started, and the retry only connects.
2. `System`: phones composed with the directory through byte streams, to see the effects of
   short writes on the receiver's framing, of the restart of the server, and of joining the network before the welcome.
3. The dialog slot; the virtual address filter; the memory HAL.

**Not modelled, and why.** Activities and notifications are user interface. The generated `middleware.c` is a
compiler's output for the whole POBICOS middleware, whose sources are elsewhere; three of its components are modelled from it, those
whose behaviour the phones depend on and that are concurrent in themselves: `PoAppPillM`, `PoCommM` and the migration in `PoUAMngrM`. The
rest of it (agent creation and release, code distribution, resource discovery, the runtime's interpreter, the persistent tables) and `jni/working/middleware.c`, another copy of the same output, are not. The
memory HAL of the port is bounds-checked reads and writes of an array and a file, about which nothing deeper is to be said; the address filter rewrites two addresses.
Dialogs: there is one slot, in one field, and the time-out event that could race with the user's answer is created nowhere in the repository. Directory start-up parses a command line. The demo agents are applications. The
platform stubs return constants. Of the modelled parts: logging, the formatting of packets, the
location updates of the phone (which change only what a REGISTRY_REQ carries, and a REGISTRY_REQ carries any location in `Directory`).
