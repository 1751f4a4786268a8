-------------------------- MODULE ConnectionManager --------------------------
(***************************************************************************)
(* The connection of one phone to the directory: PoConnectionManager with  *)
(* its reader, writer and registry-update threads, and the handlers of the *)
(* main (UI) thread that connect, disconnect and register (PoConnStatusBR, *)
(* PoMiddlewareService, PoRegistryService).                                *)
(*                                                                         *)
(* The k-th socket channel the phone opens is channel k.  connect() starts *)
(* at most one reader and one writer for it, which are reader k and writer *)
(* k; the n-th update thread is updater n.  A step of a thread is the code *)
(* between two points at which another thread can tell the difference.     *)
(* connect() is one step: no reader or writer is alive when it opens a     *)
(* channel.  disconnect() is one step per thread it touches.               *)
(*                                                                         *)
(* Credentials (address and seed) are a number, 0 for "none"; the server   *)
(* hands out the next one with each welcome.  A request that is written is *)
(* answered by the server when the reader reads the answer.                *)
(***************************************************************************)
EXTENDS Naturals, Sequences

CONSTANTS
  MaxConn,     \* bound: channels opened
  MaxUpd,      \* bound: update threads started
  MaxCred,     \* bound: credentials the server hands out
  MaxQueue,    \* bound: messages in OutMsgQ (unbounded in the code)
  MaxWire,     \* bound: requests under way on a channel
  MaxIntents   \* bound: registry_event broadcasts under way

ASSUME ConnectionAssumption ==
  {MaxConn, MaxUpd, MaxCred, MaxQueue, MaxWire, MaxIntents} \subseteq Nat

VARIABLES
  main,      \* what the main thread is doing, and what it does next
  conn,      \* the fields of PoConnectionManager
  opened,    \* number of channels opened
  net,       \* each channel, as the phone and the network see it
  reader, writer, updater,   \* the threads
  queue,     \* OutMsgQ: the credentials of the registration requests in it
  wire,      \* requests written to each channel and not answered
  held,      \* channels the server's registry holds
  issued,    \* credentials handed out
  me,        \* PoRegistryService: the phone's credentials and state
  intents    \* registry_event broadcasts not yet handled

threads == <<reader, writer, updater>>
server == <<wire, held, issued>>
vars == <<main, conn, opened, net, threads, queue, server, me, intents>>

-----------------------------------------------------------------------------
\* Data.

Channel == 1 .. MaxConn
Updater == 1 .. MaxUpd
Cred == 0 .. MaxCred

\* "eof": closed by the server; "closed": by the phone.
Net == {"none", "open", "eof", "closed"}

Answer == [type : {"WELCOME"}, cr : Cred] \cup [type : {"PONG", "FAIL", "POBICOS"}]
NoAnswer == [type |-> "none"]

\* A thread: where it is, its Running flag, its interrupt flag and what it holds.
\* run() sets Running itself.
UnbornReader == [pc |-> "none", running |-> FALSE, intr |-> FALSE, msg |-> NoAnswer]
UnbornWriter == [pc |-> "none", running |-> FALSE, intr |-> FALSE, msg |-> 0]
UnbornUpdater == [pc |-> "none", running |-> FALSE, intr |-> FALSE, cr |-> 0]

Alive(t) == t.pc \notin {"none", "dead"}

\* isRunning(); the placeholders that the constructor makes are never started.
IsRunning(ts, k) == k # 0 /\ ts[k].running

\* interrupt() does nothing to a thread that is not alive.
Interrupted(ts, k) ==
  IF k # 0 /\ Alive(ts[k]) THEN [ts EXCEPT ![k].intr = TRUE] ELSE ts

\* run() returns: with its cleanup(), or by the loop's condition and without it.
Cleanup(t) == [t EXCEPT !.pc = "dead", !.running = FALSE, !.intr = FALSE]
Leave(t) == [t EXCEPT !.pc = "dead", !.intr = FALSE]

\* SocketChannel.isConnected(): it does not tell that the server closed.
IsConnected(k) == k # 0 /\ net[k] \in {"open", "eof"}

NoConn == [chan |-> 0, connected |-> FALSE, updating |-> FALSE, rd |-> 0, wr |-> 0, upd |-> 0]
Stranger == [cr |-> 0, state |-> "UNREGISTERED"]

\* next: what follows disconnect().
Exited == [pc |-> "exited", next |-> "idle"]
Idle == main.pc = "idle"

-----------------------------------------------------------------------------
\* The process.

\* All of its memory is gone and its channels are closed.
ProcessEnds ==
  /\ main' = Exited
  /\ conn' = NoConn
  /\ net' = [k \in Channel |-> IF net[k] \in {"open", "eof"} THEN "closed" ELSE net[k]]
  /\ reader' = [k \in Channel |-> UnbornReader]
  /\ writer' = [k \in Channel |-> UnbornWriter]
  /\ updater' = [n \in Updater |-> UnbornUpdater]
  /\ queue' = <<>>
  /\ me' = Stranger
  /\ intents' = 0
  /\ wire' = [k \in Channel |-> <<>>]
  /\ UNCHANGED <<opened, held, issued>>

\* An alarm, the user or a connectivity broadcast starts the service.
ServiceStarts ==
  /\ main.pc = "exited"
  /\ main' = [main EXCEPT !.pc = "idle"]
  /\ UNCHANGED <<conn, opened, net, threads, queue, server, me, intents>>

-----------------------------------------------------------------------------
\* PoMiddlewareService.connect(): PoConnectionManager.connect(), then register().

Enqueue(cr) ==
  /\ Len(queue) < MaxQueue
  /\ queue' = Append(queue, cr)

\* The channel is there and says it is connected: nothing is started.
StayConnected ==
  /\ IsConnected(conn.chan)
  /\ conn' = [conn EXCEPT !.connected = TRUE]
  /\ Enqueue(me.cr)
  /\ UNCHANGED <<opened, net, reader, writer>>

\* Mutant of OpenChannel: the caller does not register.
OpenSilently(k) ==
  /\ ~IsConnected(conn.chan)
  /\ net' = [net EXCEPT ![k] = "open"]
  /\ conn' = [conn EXCEPT !.chan = k, !.connected = TRUE, !.wr = k, !.rd = k]
  /\ writer' = [writer EXCEPT ![k].pc = "new"]
  /\ reader' = [reader EXCEPT ![k].pc = "new"]
  /\ UNCHANGED queue

\* A new channel; a thread is started unless the last one says it is running.
OpenChannel(k) ==
  /\ ~IsConnected(conn.chan)
  /\ net' = [net EXCEPT ![k] = "open"]
  /\ LET w == ~IsRunning(writer, conn.wr)
         r == ~IsRunning(reader, conn.rd)
     IN  /\ conn' = [conn EXCEPT !.chan = k, !.connected = TRUE,
                                 !.wr = IF w THEN k ELSE @, !.rd = IF r THEN k ELSE @]
         /\ writer' = IF w THEN [writer EXCEPT ![k].pc = "new"] ELSE writer
         /\ reader' = IF r THEN [reader EXCEPT ![k].pc = "new"] ELSE reader
  /\ Enqueue(me.cr)

\* connect() throws: the channel it leaves behind is as good as none.
FailToConnect ==
  /\ ~IsConnected(conn.chan)
  /\ conn' = [conn EXCEPT !.chan = 0, !.connected = FALSE]
  /\ UNCHANGED <<opened, net, reader, writer, queue>>

Connect ==
  \/ StayConnected
  \/ FailToConnect
  \/ \E k \in Channel : k = opened + 1 /\ opened' = k /\ OpenChannel(k)

-----------------------------------------------------------------------------
\* disconnect(): close the channel and its selector, interrupt the threads, join.

\* Up to the first interrupt().  disconnect_req_flag is set but never read.
Disconnect(next) ==
  \/ /\ conn.chan = 0 \/ ~conn.connected
     /\ main' = [main EXCEPT !.pc = next]
     /\ UNCHANGED <<conn, net, wire>>
  \/ /\ conn.chan # 0 /\ conn.connected
     /\ main' = [main EXCEPT !.pc = "cancelWriter", !.next = next]
     /\ net' = [net EXCEPT ![conn.chan] = "closed"]
     /\ wire' = [wire EXCEPT ![conn.chan] = <<>>]
     /\ conn' = [conn EXCEPT !.chan = 0]

\* Mutant of CancelWriter: closing the channel is taken to be enough.
SpareWriter ==
  /\ main.pc = "cancelWriter"
  /\ main' = [main EXCEPT !.pc = "cancelReader"]
  /\ UNCHANGED <<conn, opened, net, threads, queue, server, me, intents>>

CancelWriter ==
  /\ main.pc = "cancelWriter"
  /\ main' = [main EXCEPT !.pc = "cancelReader"]
  /\ writer' = Interrupted(writer, conn.wr)
  /\ UNCHANGED <<conn, opened, net, reader, updater, queue, server, me, intents>>

CancelReader ==
  /\ main.pc = "cancelReader"
  /\ main' = [main EXCEPT !.pc = "killUpdate"]
  /\ reader' = Interrupted(reader, conn.rd)
  /\ UNCHANGED <<conn, opened, net, writer, updater, queue, server, me, intents>>

\* killUpdateThread() interrupts the update thread only if that says it is running.
\* Running is neither volatile nor read under a lock: the main thread may still
\* see the constructor's FALSE.
Killings ==
  {updater} \cup (IF IsRunning(updater, conn.upd) THEN {Interrupted(updater, conn.upd)} ELSE {})

KillUpdateThread ==
  /\ main.pc = "killUpdate"
  /\ main' = [main EXCEPT !.pc = "clearUpdate"]
  /\ updater' \in Killings
  /\ UNCHANGED <<conn, opened, net, reader, writer, queue, server, me, intents>>

\* The main thread is between the two statements of killUpdateThread(), before
\* join() or before a new update thread is made.
Clearing == main.pc \in {"clearUpdate", "clearForStart"}
AfterClearing == IF main.pc = "clearUpdate" THEN "join" ELSE "startUpdate"

\* Mutant of ClearUpdating: the flag is left.
LeaveUpdating ==
  /\ Clearing
  /\ main' = [main EXCEPT !.pc = AfterClearing]
  /\ UNCHANGED <<conn, opened, net, threads, queue, server, me, intents>>

\* The second statement: from the first to this one the reader may find the flag
\* set and the update thread interrupted.
ClearUpdating ==
  /\ Clearing
  /\ main' = [main EXCEPT !.pc = AfterClearing]
  /\ conn' = [conn EXCEPT !.updating = FALSE]
  /\ UNCHANGED <<opened, net, threads, queue, server, me, intents>>

\* Mutant of Join: only the writer is waited for.
JoinWriter ==
  /\ main.pc = "join"
  /\ \A k \in Channel : k = conn.wr => ~Alive(writer[k])
  /\ main' = [main EXCEPT !.pc = main.next, !.next = "idle"]
  /\ conn' = [conn EXCEPT !.connected = FALSE]
  /\ UNCHANGED <<opened, net, threads, queue, server, me, intents>>

Join ==
  /\ main.pc = "join"
  /\ \A k \in Channel : /\ k = conn.rd => ~Alive(reader[k])
                        /\ k = conn.wr => ~Alive(writer[k])
  /\ main' = [main EXCEPT !.pc = main.next, !.next = "idle"]
  /\ conn' = [conn EXCEPT !.connected = FALSE]
  /\ UNCHANGED <<opened, net, threads, queue, server, me, intents>>

-----------------------------------------------------------------------------
\* What the main thread handles: broadcasts, alarms and the user.

\* The service has started, the network is back, or the connection_retry alarm
\* that a failed connect() set goes off.
OnConnected ==
  /\ Idle
  /\ Connect
  /\ UNCHANGED <<main, updater, server, me, intents>>

OnNoConnectivity ==
  /\ Idle
  /\ Disconnect("idle")
  /\ UNCHANGED <<opened, threads, queue, held, issued, me, intents>>

OnFailover ==
  \/ /\ Idle
     /\ Disconnect("connect")
     /\ UNCHANGED <<opened, threads, queue, held, issued, me, intents>>
  \/ /\ main.pc = "connect"
     /\ main' = [main EXCEPT !.pc = "idle"]
     /\ Connect
     /\ UNCHANGED <<updater, server, me, intents>>

\* A rejected phone stops its service, which leaves the rest to OnDestroy; a
\* registered one starts an update thread in place of the last.
OnRegistryEvent ==
  /\ Idle
  /\ intents > 0
  /\ intents' = intents - 1
  /\ \/ me.state = "REJECTED" /\ UNCHANGED <<main, conn, updater>>
     \/ /\ me.state = "REGISTERED" /\ conn.upd < MaxUpd
        /\ main' = [main EXCEPT !.pc = "clearForStart"]
        /\ updater' \in Killings
        /\ UNCHANGED conn
  /\ UNCHANGED <<opened, net, reader, writer, queue, server, me>>

StartUpdateThread ==
  /\ main.pc = "startUpdate"
  /\ main' = [main EXCEPT !.pc = "idle"]
  /\ \E n \in Updater :
       /\ n = conn.upd + 1
       /\ updater' = [updater EXCEPT ![n].pc = "new", ![n].cr = me.cr]
       /\ conn' = [conn EXCEPT !.upd = n, !.updating = TRUE]
  /\ UNCHANGED <<opened, net, reader, writer, queue, server, me, intents>>

\* onDestroy(), after stopService() by the user or a rejection, or when Android
\* decides: disconnect, then System.exit.
OnDestroy ==
  \/ /\ Idle
     /\ Disconnect("exit")
     /\ UNCHANGED <<opened, threads, queue, held, issued, me, intents>>
  \/ main.pc = "exit" /\ ProcessEnds

Disconnecting == CancelWriter \/ CancelReader \/ KillUpdateThread \/ ClearUpdating \/ Join

Main == ServiceStarts \/ OnConnected \/ OnNoConnectivity \/ OnFailover
        \/ OnRegistryEvent \/ StartUpdateThread \/ OnDestroy \/ Disconnecting

-----------------------------------------------------------------------------
\* The reader of channel k.

ReaderRuns(k) ==
  /\ reader[k].pc = "new"
  /\ reader' = [reader EXCEPT ![k].pc = "test", ![k].running = TRUE]
  /\ UNCHANGED <<main, conn, opened, net, writer, updater, queue, server, me, intents>>

\* The loop's condition.  An interrupt ends the loop without a cleanup().
ReaderTests(k) ==
  /\ reader[k].pc = "test"
  /\ reader' = [reader EXCEPT ![k] = IF @.intr THEN Leave(@) ELSE [@ EXCEPT !.pc = "select"]]
  /\ UNCHANGED <<main, conn, opened, net, writer, updater, queue, server, me, intents>>

\* select() on a closed selector throws an exception that nobody catches, and the
\* process dies of it.
ReaderSelects(k) ==
  /\ reader[k].pc = "select"
  /\ \/ net[k] = "closed" /\ ProcessEnds
     \/ /\ net[k] # "closed"
        /\ reader' = [reader EXCEPT ![k].pc = "read"]
        /\ UNCHANGED <<main, conn, opened, net, writer, updater, queue, server, me, intents>>

\* What the server answers to a request with credentials cr on channel k.
Answers(k, cr) ==
  IF held[k] THEN {[type |-> "PONG"]}
  ELSE IF cr # 0 THEN {[type |-> "PONG"], [type |-> "FAIL"]}
  ELSE IF issued < MaxCred THEN {[type |-> "WELCOME", cr |-> issued + 1]}
  ELSE {}

\* A packet is read: an answer, or a message for a phone the registry holds.
ReaderReads(k) ==
  /\ reader[k].pc = "read"
  /\ net[k] \in {"open", "eof"}
  /\ intents < MaxIntents
  /\ \/ /\ wire[k] # <<>>
        /\ \E a \in Answers(k, Head(wire[k])) :
             /\ reader' = [reader EXCEPT ![k].pc = "handle", ![k].msg = a]
             /\ issued' = IF a.type = "WELCOME" THEN a.cr ELSE issued
             /\ held' = [held EXCEPT ![k] = @ \/ a.type = "WELCOME"]
        /\ wire' = [wire EXCEPT ![k] = Tail(@)]
     \/ /\ held[k]
        /\ reader' = [reader EXCEPT ![k].pc = "handle", ![k].msg = [type |-> "POBICOS"]]
        /\ UNCHANGED server
  /\ UNCHANGED <<main, conn, opened, net, writer, updater, queue, me, intents>>

\* The channel was closed, here or by the server.
ReaderThrows(k) ==
  /\ reader[k].pc = "read"
  /\ net[k] \in {"eof", "closed"}
  /\ reader' = [reader EXCEPT ![k] = Cleanup(@)]
  /\ UNCHANGED <<main, conn, opened, net, writer, updater, queue, server, me, intents>>

\* Mutant of ReaderHandles: the state is what the server said.
ReaderRecords(k) ==
  /\ reader[k].pc = "handle"
  /\ me' = [me EXCEPT !.state = reader[k].msg.type]
  /\ reader' = [reader EXCEPT ![k].pc = "test", ![k].msg = NoAnswer]
  /\ UNCHANGED <<main, conn, opened, net, writer, updater, queue, server, intents>>

\* What a packet does.  A POBICOS message goes to the middleware's event queue.
ReaderHandles(k) ==
  LET m == reader[k].msg
      announce == m.type \in {"WELCOME", "FAIL"} \/ (m.type = "PONG" /\ ~conn.updating)
  IN  /\ reader[k].pc = "handle"
      /\ me' = CASE m.type = "WELCOME" -> [cr |-> m.cr, state |-> "REGISTERED"]
                 [] m.type = "PONG"    -> [me EXCEPT !.state = "REGISTERED"]
                 [] m.type = "FAIL"    -> [me EXCEPT !.state = "REJECTED"]
                 [] OTHER              -> me
      /\ intents' = IF announce THEN intents + 1 ELSE intents
      /\ reader' = [reader EXCEPT ![k].pc = "test", ![k].msg = NoAnswer,
                                  ![k].intr = @ \/ m.type = "FAIL"]
      /\ UNCHANGED <<main, conn, opened, net, writer, updater, queue, server>>

Reader(k) == ReaderRuns(k) \/ ReaderTests(k) \/ ReaderSelects(k) \/ ReaderReads(k)
             \/ ReaderThrows(k) \/ ReaderHandles(k)

-----------------------------------------------------------------------------
\* The writer of channel k.

WriterRuns(k) ==
  /\ writer[k].pc = "new"
  /\ writer' = [writer EXCEPT ![k].pc = "test", ![k].running = TRUE]
  /\ UNCHANGED <<main, conn, opened, net, reader, updater, queue, server, me, intents>>

WriterTests(k) ==
  /\ writer[k].pc = "test"
  /\ writer' = [writer EXCEPT ![k] = IF @.intr THEN Leave(@) ELSE [@ EXCEPT !.pc = "take"]]
  /\ UNCHANGED <<main, conn, opened, net, reader, updater, queue, server, me, intents>>

\* take() looks for an interrupt before it looks for a message.
WriterTakes(k) ==
  /\ writer[k].pc = "take"
  /\ \/ /\ writer[k].intr
        /\ writer' = [writer EXCEPT ![k] = Cleanup(@)]
        /\ UNCHANGED queue
     \/ /\ ~writer[k].intr
        /\ queue # <<>>
        /\ writer' = [writer EXCEPT ![k].pc = "write", ![k].msg = Head(queue)]
        /\ queue' = Tail(queue)
  /\ UNCHANGED <<main, conn, opened, net, reader, updater, server, me, intents>>

\* The message is out, or lost with the thread when the channel was closed.
WriterWrites(k) ==
  /\ writer[k].pc = "write"
  /\ \/ /\ net[k] \in {"eof", "closed"}
        /\ writer' = [writer EXCEPT ![k] = [Cleanup(@) EXCEPT !.msg = 0]]
        /\ UNCHANGED wire
     \/ /\ net[k] \in {"open", "eof"}
        /\ Len(wire[k]) < MaxWire
        /\ writer' = [writer EXCEPT ![k].pc = "test", ![k].msg = 0]
        /\ wire' = IF net[k] = "open" THEN [wire EXCEPT ![k] = Append(@, writer[k].msg)] ELSE wire
  /\ UNCHANGED <<main, conn, opened, net, reader, updater, queue, held, issued, me, intents>>

Writer(k) == WriterRuns(k) \/ WriterTests(k) \/ WriterTakes(k) \/ WriterWrites(k)

-----------------------------------------------------------------------------
\* Update thread n.

UpdaterRuns(n) ==
  /\ updater[n].pc = "new"
  /\ updater' = [updater EXCEPT ![n].pc = "sleep", ![n].running = TRUE]
  /\ UNCHANGED <<main, conn, opened, net, reader, writer, queue, server, me, intents>>

\* Every DELAY milliseconds it asks the registry to refresh the credentials it was
\* created with.
UpdaterUpdates(n) ==
  /\ updater[n].pc = "sleep"
  /\ ~updater[n].intr
  /\ Enqueue(updater[n].cr)
  /\ UNCHANGED <<main, conn, opened, net, threads, server, me, intents>>

\* Interrupted asleep it clears Running, interrupted at work it does not; all that
\* Running decides is whether to interrupt it, and now nothing comes of that.
UpdaterStops(n) ==
  /\ updater[n].pc = "sleep"
  /\ updater[n].intr
  /\ updater' = [updater EXCEPT ![n] = [Cleanup(@) EXCEPT !.cr = 0]]
  /\ UNCHANGED <<main, conn, opened, net, reader, writer, queue, server, me, intents>>

UpdaterThread(n) == UpdaterRuns(n) \/ UpdaterUpdates(n) \/ UpdaterStops(n)

-----------------------------------------------------------------------------
\* The server closes channel k, or is gone.
ServerCloses(k) ==
  /\ net[k] = "open"
  /\ net' = [net EXCEPT ![k] = "eof"]
  /\ UNCHANGED <<main, conn, opened, threads, queue, server, me, intents>>

Init ==
  /\ main = Exited
  /\ conn = NoConn
  /\ opened = 0
  /\ net = [k \in Channel |-> "none"]
  /\ reader = [k \in Channel |-> UnbornReader]
  /\ writer = [k \in Channel |-> UnbornWriter]
  /\ updater = [n \in Updater |-> UnbornUpdater]
  /\ queue = <<>>
  /\ wire = [k \in Channel |-> <<>>]
  /\ held = [k \in Channel |-> FALSE]
  /\ issued = 0
  /\ me = Stranger
  /\ intents = 0

Next ==
  \/ Main
  \/ \E k \in Channel : Reader(k) \/ Writer(k) \/ ServerCloses(k)
  \/ \E n \in Updater : UpdaterThread(n)

Spec == Init /\ [][Next]_vars
=============================================================================
