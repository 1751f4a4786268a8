--------------------------- MODULE ConnectionProps ---------------------------
(***************************************************************************)
(* What a phone's connection owes the rest of the phone: properties of     *)
(* ConnectionManager.                                                      *)
(***************************************************************************)
EXTENDS ConnectionManager

ThreadPc == {"none", "new", "test", "select", "read", "handle", "take", "write", "sleep", "dead"}

\* Where the main thread is inside disconnect().
Leaving == {"cancelWriter", "cancelReader", "killUpdate", "clearUpdate", "join"}

\* What a thread keeps.
ReaderType == [pc : ThreadPc, running : BOOLEAN, intr : BOOLEAN, msg : Answer \cup {NoAnswer}]
WriterType == [pc : ThreadPc, running : BOOLEAN, intr : BOOLEAN, msg : Cred]
UpdaterType == [pc : ThreadPc, running : BOOLEAN, intr : BOOLEAN, cr : Cred]

\* Every variable has its type, and the thread a field of PoConnectionManager
\* names has been started.
TypeOK ==
  /\ main \in [pc : {"exited", "idle", "clearForStart", "startUpdate", "connect", "exit"} \cup Leaving,
               next : {"idle", "connect", "exit"}]
  /\ conn \in [chan : 0 .. opened, connected : BOOLEAN, updating : BOOLEAN,
               rd : 0 .. opened, wr : 0 .. opened, upd : 0 .. MaxUpd]
  /\ opened \in 0 .. MaxConn
  /\ net \in [Channel -> Net]
  /\ reader \in [Channel -> ReaderType]
  /\ writer \in [Channel -> WriterType]
  /\ updater \in [Updater -> UpdaterType]
  /\ queue \in Seq(Cred) /\ Len(queue) <= MaxQueue
  /\ wire \in [Channel -> Seq(Cred)]
  /\ held \in [Channel -> BOOLEAN]
  /\ issued \in 0 .. MaxCred
  /\ me \in [cr : Cred, state : {"UNREGISTERED", "REGISTERED", "REJECTED"}]
  /\ intents \in 0 .. MaxIntents

\* No reader or writer outlives its connection: when the main thread is not inside
\* disconnect(), one that is alive works on the current channel.  Two readers
\* would share a packet's bytes between them.
NoSurvivors ==
  main.pc \notin Leaving =>
    \A k \in Channel : Alive(reader[k]) \/ Alive(writer[k]) => k = conn.chan

\* update_thread_running is never left TRUE when no update thread runs: a PONG
\* would then not restart it, and the registration would expire unnoticed.  Inside
\* killUpdateThread() it is, until the main thread clears it.
FlagMeansUpdating ==
  conn.updating /\ ~Clearing => conn.upd # 0 /\ Alive(updater[conn.upd]) /\ ~updater[conn.upd].intr

\* disconnect() returns, or the process ends: join() never waits for ever.
DisconnectReturns ==
  main.pc \in Leaving ~> main.pc \notin Leaving

\* The first connection of a process registers the phone, unless it ends first.
FirstConnectionRegisters ==
  (opened = 1 /\ net[1] = "open")
    ~> (me.state = "REGISTERED" \/ net[1] # "open")

-----------------------------------------------------------------------------
\* What comments say, and the code does not do.

\* "Kills reader/writer threads": when disconnect() has returned, neither thread
\* says it is running, so that the next connect() starts them.
DisconnectKills ==
  (main.pc = "idle" /\ opened > 0 /\ ~conn.connected /\ conn.chan = 0) =>
     ~IsRunning(reader, conn.rd) /\ ~IsRunning(writer, conn.wr)

-----------------------------------------------------------------------------
\* Threads get the processor, and the main thread does not stop inside
\* disconnect().  Nothing is assumed of the server but that it answers.
Fairness ==
  /\ WF_vars(Disconnecting)
  /\ \A k \in Channel : WF_vars(Reader(k)) /\ WF_vars(Writer(k))

FairSpec == Spec /\ Fairness
=============================================================================
