--------------------------- MODULE ConnectionProofs ---------------------------
(***************************************************************************)
(* Proofs about ConnectionManager, for any number of channels, update      *)
(* threads, credentials and messages.                                      *)
(***************************************************************************)
EXTENDS ConnectionProps, TLAPS

-----------------------------------------------------------------------------
\* The inductive invariant.

\* A thread that is alive is the one its field names, and works on the channel
\* there is, which is open as far as this phone is concerned.
ThreadInv ==
  /\ \A k \in Channel : Alive(reader[k]) => k = conn.rd
  /\ \A k \in Channel : Alive(writer[k]) => k = conn.wr
  /\ NoSurvivors
  /\ conn.chan # 0 => net[conn.chan] \in {"open", "eof"}

\* There is room for the broadcast a packet in hand may lead to.
HandleInv == \A k \in Channel : reader[k].pc = "handle" => intents < MaxIntents

\* The update threads to come are as the constructor makes them.
UpdaterInv ==
  /\ FlagMeansUpdating
  /\ \A n \in Updater : n > conn.upd => updater[n] = UnbornUpdater

IInv == TypeOK /\ ThreadInv /\ HandleInv /\ UpdaterInv

\* The bounds are natural numbers.
LEMMA BoundsNat ==
  /\ MaxConn \in Nat /\ MaxUpd \in Nat /\ MaxCred \in Nat
  /\ MaxQueue \in Nat /\ MaxWire \in Nat /\ MaxIntents \in Nat
  BY ConnectionAssumption

\* A phone that has not been started satisfies the invariant.
LEMMA InitInv == Init => IInv
<1> USE BoundsNat
<1> SUFFICES ASSUME Init PROVE IInv  OBVIOUS
<1>1. TypeOK
  BY DEF Init, TypeOK, Exited, NoConn, UnbornReader, UnbornWriter, UnbornUpdater, Stranger, Leaving, ThreadPc,
     Net, Answer, NoAnswer, Cred, Channel, Updater, ReaderType, WriterType, UpdaterType
<1>2. ThreadInv /\ HandleInv /\ UpdaterInv
  BY DEF Init, ThreadInv, HandleInv, UpdaterInv, NoSurvivors, FlagMeansUpdating, Clearing, Alive, NoConn, UnbornReader,
     UnbornWriter, UnbornUpdater
<1> QED  BY <1>1, <1>2 DEF IInv

-----------------------------------------------------------------------------
\* The threads.

\* What is left of the invariant to show when the main thread, the channels and
\* the fields stay as they are and no reader or writer comes to life.
LEMMA ThreadsKeep ==
  ASSUME IInv, UNCHANGED <<main, conn, net>>,
         \A j \in Channel : Alive(reader'[j]) => Alive(reader[j]),
         \A j \in Channel : Alive(writer'[j]) => Alive(writer[j])
  PROVE  ThreadInv'
  BY DEF IInv, ThreadInv, NoSurvivors, Alive

\* The server's answers are answers.
LEMMA AnswersType ==
  ASSUME IInv, NEW k, NEW cr
  PROVE  Answers(k, cr) \subseteq Answer
<1>1. issued \in 0 .. MaxCred  BY DEF IInv, TypeOK
<1>2. issued < MaxCred => issued + 1 \in Cred  BY <1>1, BoundsNat DEF Cred
<1>3. issued < MaxCred => [type |-> "WELCOME", cr |-> issued + 1] \in Answer  BY <1>2 DEF Answer
<1>4. [type |-> "PONG"] \in Answer /\ [type |-> "FAIL"] \in Answer  BY DEF Answer
<1> QED  BY <1>3, <1>4 DEF Answers

\* A step of reader k, except for the end of the process.
LEMMA ReaderStep ==
  ASSUME IInv, NEW k \in Channel,
         ReaderRuns(k) \/ ReaderTests(k) \/ (ReaderSelects(k) /\ ~ProcessEnds) \/ ReaderReads(k)
           \/ ReaderThrows(k) \/ ReaderHandles(k)
  PROVE  IInv'
<1> USE BoundsNat
<1>1. reader \in [Channel -> ReaderType]  BY DEF IInv, TypeOK
<1>2. /\ reader' \in [Channel -> ReaderType]
      /\ \A j \in Channel \ {k} : reader'[j] = reader[j]
      /\ Alive(reader'[k]) => Alive(reader[k])
  <2>1. CASE ReaderRuns(k)
    BY <1>1, <2>1, ZenonT(40) DEF ReaderRuns, ReaderType, ThreadPc, Alive
  <2>2. CASE ReaderTests(k)
    BY <1>1, <2>2, ZenonT(40) DEF ReaderTests, Leave, ReaderType, ThreadPc, Alive
  <2>3. CASE ReaderSelects(k) /\ ~ProcessEnds
    BY <1>1, <2>3 DEF ReaderSelects, ReaderType, ThreadPc, Alive
  <2>4. CASE ReaderReads(k)
    <3>1. \A cr : Answers(k, cr) \subseteq Answer
      BY AnswersType
    <3>2. [type |-> "POBICOS"] \in Answer  BY DEF Answer
    <3>3. PICK a \in Answer : reader' = [reader EXCEPT ![k].pc = "handle", ![k].msg = a]
      <4> HIDE DEF Answer
      <4> QED  BY <2>4, <3>1, <3>2 DEF ReaderReads
    <3>4. /\ reader' \in [Channel -> ReaderType]
          /\ \A j \in Channel \ {k} : reader'[j] = reader[j]
      BY <1>1, <3>3, ZenonT(40) DEF ReaderType, ThreadPc
    <3>5. Alive(reader[k])  BY <2>4 DEF ReaderReads, Alive
    <3> QED  BY <3>4, <3>5
  <2>5. CASE ReaderThrows(k)
    BY <1>1, <2>5 DEF ReaderThrows, Cleanup, ReaderType, ThreadPc, Alive
  <2>6. CASE ReaderHandles(k)
    <3> DEFINE t == [reader[k] EXCEPT !.pc = "test", !.msg = NoAnswer,
                                      !.intr = @ \/ reader[k].msg.type = "FAIL"]
    <3>1. t \in ReaderType
      <4>1. reader[k] \in ReaderType  BY <1>1
      <4> QED  BY <4>1 DEF ReaderType, ThreadPc
    <3>2. reader' = [reader EXCEPT ![k] = t]
      BY <1>1, <2>6 DEF ReaderHandles
    <3>3. Alive(reader[k])  BY <2>6 DEF ReaderHandles, Alive
    <3> HIDE DEF t
    <3> QED  BY <1>1, <3>1, <3>2, <3>3
  <2> QED  BY <2>1, <2>2, <2>3, <2>4, <2>5, <2>6
<1>3. UNCHANGED <<main, conn, opened, net, writer, updater, queue>>
  BY DEF ReaderRuns, ReaderTests, ReaderSelects, ReaderReads, ReaderThrows, ReaderHandles
<1>4. UpdaterInv'
  BY <1>3 DEF IInv, UpdaterInv, FlagMeansUpdating, Clearing, Alive
<1>5. ThreadInv'
  BY <1>2, <1>3, ThreadsKeep
<1>6. CASE ReaderRuns(k) \/ ReaderTests(k) \/ (ReaderSelects(k) /\ ~ProcessEnds) \/ ReaderThrows(k)
  <2>1. UNCHANGED <<server, me, intents>>
    BY <1>6 DEF ReaderRuns, ReaderTests, ReaderSelects, ReaderThrows
  <2>2. TypeOK'
    BY <1>2, <1>3, <2>1 DEF IInv, TypeOK, server
  <2>3. reader'[k].pc # "handle"
    BY <1>1, <1>6 DEF ReaderRuns, ReaderTests, ReaderSelects, ReaderThrows, Leave, Cleanup, ReaderType
  <2>4. HandleInv'
    BY <1>2, <2>1, <2>3 DEF IInv, HandleInv, server
  <2> QED  BY <1>4, <1>5, <2>2, <2>4 DEF IInv
<1>7. CASE ReaderReads(k)
  <2>1. UNCHANGED <<me, intents>> /\ intents < MaxIntents
    BY <1>7 DEF ReaderReads
  <2>2. issued' \in 0 .. MaxCred /\ held' \in [Channel -> BOOLEAN] /\ wire' \in [Channel -> Seq(Cred)]
    <3>1. /\ issued \in 0 .. MaxCred /\ held \in [Channel -> BOOLEAN] /\ wire \in [Channel -> Seq(Cred)]
      BY DEF IInv, TypeOK
    <3>2. CASE UNCHANGED server
      BY <3>1, <3>2 DEF server
    <3>3. CASE ~UNCHANGED server
      <4>1. PICK a \in Answers(k, Head(wire[k])) :
              /\ wire[k] # <<>>
              /\ wire' = [wire EXCEPT ![k] = Tail(@)]
              /\ issued' = IF a.type = "WELCOME" THEN a.cr ELSE issued
              /\ held' = [held EXCEPT ![k] = @ \/ a.type = "WELCOME"]
        BY <1>7, <3>3 DEF ReaderReads
      <4>2. a.type = "WELCOME" => a.cr \in 0 .. MaxCred
        BY AnswersType DEF Answer, Cred
      <4>3. wire' \in [Channel -> Seq(Cred)]  BY <3>1, <4>1
      <4> QED  BY <3>1, <4>1, <4>2, <4>3
    <3> QED  BY <3>2, <3>3
  <2>3. TypeOK'
    BY <1>2, <1>3, <2>1, <2>2 DEF IInv, TypeOK
  <2>4. HandleInv'
    BY <2>1 DEF HandleInv
  <2> QED  BY <1>4, <1>5, <2>3, <2>4 DEF IInv
<1>8. CASE ReaderHandles(k)
  <2>1. reader[k].pc = "handle" /\ UNCHANGED server
    BY <1>8 DEF ReaderHandles
  <2>2. intents' \in 0 .. MaxIntents
    BY <1>8, SMTT(20) DEF ReaderHandles, IInv, TypeOK, HandleInv
  <2>3. me' \in [cr : Cred, state : {"UNREGISTERED", "REGISTERED", "REJECTED"}]
    <3>1. me \in [cr : Cred, state : {"UNREGISTERED", "REGISTERED", "REJECTED"}]
      BY DEF IInv, TypeOK
    <3>2. reader[k].msg.type = "WELCOME" => reader[k].msg.cr \in Cred
      <4>1. reader[k].msg \in Answer \cup {NoAnswer}  BY <1>1 DEF ReaderType
      <4> QED  BY <4>1 DEF Answer, NoAnswer
    <3> QED  BY <1>8, <3>1, <3>2 DEF ReaderHandles
  <2>4. TypeOK'
    BY <1>2, <1>3, <2>1, <2>2, <2>3 DEF IInv, TypeOK, server
  <2>5. \A j \in Channel : reader'[j].pc # "handle"
    <3>1. reader'[k].pc = "test"  BY <1>1, <1>8 DEF ReaderHandles, ReaderType
    <3>2. \A j \in Channel \ {k} : reader[j].pc # "handle"
      BY <2>1 DEF IInv, ThreadInv, Alive
    <3> QED  BY <1>2, <3>1, <3>2
  <2> QED  BY <1>4, <1>5, <2>4, <2>5 DEF IInv, HandleInv
<1> QED  BY <1>6, <1>7, <1>8

\* A step of writer k.
LEMMA WriterStep ==
  ASSUME IInv, NEW k \in Channel, Writer(k)
  PROVE  IInv'
<1> USE BoundsNat
<1>1. /\ writer \in [Channel -> WriterType] /\ queue \in Seq(Cred) /\ wire \in [Channel -> Seq(Cred)]
  BY DEF IInv, TypeOK
<1>2. /\ writer' \in [Channel -> WriterType]
      /\ \A j \in Channel \ {k} : writer'[j] = writer[j]
      /\ Alive(writer'[k]) => Alive(writer[k])
  <2>1. CASE WriterRuns(k)
    BY <1>1, <2>1, ZenonT(40) DEF WriterRuns, WriterType, ThreadPc, Alive
  <2>2. CASE WriterTests(k)
    BY <1>1, <2>2, ZenonT(40) DEF WriterTests, Leave, WriterType, ThreadPc, Alive
  <2>3. CASE WriterTakes(k)
    <3>1. queue # <<>> => Head(queue) \in Cred  BY <1>1
    <3>2. Alive(writer[k])  BY <2>3 DEF WriterTakes, Alive
    <3>3. writer[k] \in WriterType  BY <1>1
    <3>4. Cleanup(writer[k]) \in WriterType  BY <3>3 DEF Cleanup, WriterType, ThreadPc
    <3> DEFINE t == [writer[k] EXCEPT !.pc = "write", !.msg = Head(queue)]
    <3>5. queue # <<>> => t \in WriterType  BY <3>1, <3>3 DEF WriterType, ThreadPc
    <3>6. \/ writer' = [writer EXCEPT ![k] = Cleanup(writer[k])]
          \/ writer' = [writer EXCEPT ![k] = t] /\ queue # <<>>
      BY <1>1, <2>3 DEF WriterTakes
    <3> HIDE DEF t
    <3> QED  BY <1>1, <3>2, <3>4, <3>5, <3>6
  <2>4. CASE WriterWrites(k)
    <3>1. 0 \in Cred  BY DEF Cred
    <3>2. Alive(writer[k])  BY <2>4 DEF WriterWrites, Alive
    <3>3. writer[k] \in WriterType  BY <1>1
    <3> DEFINE t == [Cleanup(writer[k]) EXCEPT !.msg = 0]
               u == [writer[k] EXCEPT !.pc = "test", !.msg = 0]
    <3>4. t \in WriterType /\ u \in WriterType
      BY <3>1, <3>3 DEF Cleanup, WriterType, ThreadPc
    <3>5. writer' = [writer EXCEPT ![k] = t] \/ writer' = [writer EXCEPT ![k] = u]
      BY <1>1, <2>4 DEF WriterWrites
    <3> HIDE DEF t, u
    <3> QED  BY <1>1, <3>2, <3>4, <3>5
  <2> QED  BY <2>1, <2>2, <2>3, <2>4 DEF Writer
<1>3. UNCHANGED <<main, conn, opened, net, reader, updater, held, issued, me, intents>>
  BY DEF Writer, WriterRuns, WriterTests, WriterTakes, WriterWrites, server
<1>4. queue' \in Seq(Cred) /\ Len(queue') <= MaxQueue
  <2>1. queue' = queue \/ (queue # <<>> /\ queue' = Tail(queue))
    BY DEF Writer, WriterRuns, WriterTests, WriterTakes, WriterWrites
  <2>2. Len(queue) <= MaxQueue  BY DEF IInv, TypeOK
  <2>3. queue # <<>> => Tail(queue) \in Seq(Cred) /\ Len(Tail(queue)) = Len(queue) - 1  BY <1>1
  <2>4. Len(queue) \in Nat  BY <1>1
  <2>5. queue # <<>> => Len(Tail(queue)) <= MaxQueue  BY <2>2, <2>3, <2>4
  <2>6. CASE queue' = queue  BY <1>1, <2>2, <2>6
  <2>7. CASE queue # <<>> /\ queue' = Tail(queue)  BY <2>3, <2>5, <2>7, Zenon
  <2> QED  BY <2>1, <2>6, <2>7
<1>5. wire' \in [Channel -> Seq(Cred)]
  <2>1. writer[k].msg \in Cred  BY <1>1 DEF WriterType
  <2>2. wire' = wire \/ wire' = [wire EXCEPT ![k] = Append(@, writer[k].msg)]
    BY DEF Writer, WriterRuns, WriterTests, WriterTakes, WriterWrites, server
  <2>3. Append(wire[k], writer[k].msg) \in Seq(Cred)  BY <1>1, <2>1
  <2> QED  BY <1>1, <2>2, <2>3
<1>6. TypeOK'
  BY <1>2, <1>3, <1>4, <1>5 DEF IInv, TypeOK
<1>7. ThreadInv'
  BY <1>2, <1>3, ThreadsKeep
<1>8. HandleInv' /\ UpdaterInv'
  BY <1>3 DEF IInv, HandleInv, UpdaterInv, FlagMeansUpdating, Clearing, Alive
<1> QED  BY <1>6, <1>7, <1>8 DEF IInv

\* A step of update thread n.
LEMMA UpdaterStep ==
  ASSUME IInv, NEW n \in Updater, UpdaterThread(n)
  PROVE  IInv'
<1> USE BoundsNat
<1>1. /\ updater \in [Updater -> UpdaterType] /\ queue \in Seq(Cred)
  BY DEF IInv, TypeOK
<1>2. /\ updater' \in [Updater -> UpdaterType]
      /\ \A m \in Updater \ {n} : updater'[m] = updater[m]
  <2>1. 0 \in Cred  BY DEF Cred
  <2>2. CASE UpdaterRuns(n)
    BY <1>1, <2>2, ZenonT(40) DEF UpdaterRuns, UpdaterType, ThreadPc
  <2>3. CASE UpdaterUpdates(n)
    BY <1>1, <2>3 DEF UpdaterUpdates, threads
  <2>4. CASE UpdaterStops(n)
    BY <1>1, <2>1, <2>4 DEF UpdaterStops, Cleanup, UpdaterType, ThreadPc
  <2> QED  BY <2>2, <2>3, <2>4 DEF UpdaterThread
<1>3. UNCHANGED <<main, conn, opened, net, reader, writer, server, me, intents>>
  BY DEF UpdaterThread, UpdaterRuns, UpdaterUpdates, UpdaterStops, threads
<1>4. queue' \in Seq(Cred) /\ Len(queue') <= MaxQueue
  <2>1. updater[n].cr \in Cred  BY <1>1 DEF UpdaterType
  <2>2. queue' = queue \/ (Len(queue) < MaxQueue /\ queue' = Append(queue, updater[n].cr))
    BY DEF UpdaterThread, UpdaterRuns, UpdaterUpdates, UpdaterStops, Enqueue
  <2>3. Len(queue) <= MaxQueue  BY DEF IInv, TypeOK
  <2> QED  BY <1>1, <2>1, <2>2, <2>3
<1>5. TypeOK'
  BY <1>2, <1>3, <1>4 DEF IInv, TypeOK, server
<1>6. ThreadInv' /\ HandleInv'
  BY <1>3, ThreadsKeep DEF IInv, HandleInv
<1>7. UpdaterInv'
  <2>1. Alive(updater[n])
    BY DEF UpdaterThread, UpdaterRuns, UpdaterUpdates, UpdaterStops, Alive
  <2>2. ~(n > conn.upd)
    BY <2>1 DEF IInv, UpdaterInv, UnbornUpdater, Alive
  <2>3. conn.updating /\ ~Clearing /\ n = conn.upd => Alive(updater'[n]) /\ ~updater'[n].intr
    BY <1>1, SMTT(20) DEF UpdaterThread, UpdaterRuns, UpdaterUpdates, UpdaterStops, threads, UpdaterType, Alive,
       IInv, UpdaterInv, FlagMeansUpdating, Clearing
  <2>4. conn.updating /\ ~Clearing => conn.upd \in Updater
    BY DEF IInv, UpdaterInv, FlagMeansUpdating, TypeOK, Updater
  <2> QED  BY <1>2, <1>3, <2>2, <2>3, <2>4 DEF IInv, UpdaterInv, FlagMeansUpdating, Clearing, Alive
<1> QED  BY <1>5, <1>6, <1>7 DEF IInv

-----------------------------------------------------------------------------
\* The main thread, the process and the server.

\* The server closes a channel, which leaves it open as far as the phone is concerned.
LEMMA ServerStep ==
  ASSUME IInv, NEW k \in Channel, ServerCloses(k)
  PROVE  IInv'
<1>1. net \in [Channel -> Net]  BY DEF IInv, TypeOK
<1>2. /\ net' = [net EXCEPT ![k] = "eof"]
      /\ UNCHANGED <<main, conn, opened, reader, writer, updater, queue, wire, held, issued, me, intents>>
  BY DEF ServerCloses, threads, server
<1>3. net' \in [Channel -> Net]  BY <1>1, <1>2 DEF Net
<1>4. TypeOK'  BY <1>2, <1>3 DEF IInv, TypeOK
<1>5. \A j \in Channel : net[j] \in {"open", "eof"} => net'[j] \in {"open", "eof"}
  BY <1>1, <1>2
<1>6. conn.chan # 0 => conn.chan \in Channel
  BY BoundsNat, SMTT(20) DEF IInv, TypeOK, Channel
<1>7. ThreadInv'
  BY <1>2, <1>5, <1>6 DEF IInv, ThreadInv, NoSurvivors, Alive
<1>8. HandleInv' /\ UpdaterInv'
  BY <1>2 DEF IInv, HandleInv, UpdaterInv, FlagMeansUpdating, Clearing, Alive
<1> QED  BY <1>4, <1>7, <1>8 DEF IInv

\* The end of the process leaves nothing alive.
LEMMA ProcessStep ==
  ASSUME IInv, ProcessEnds
  PROVE  IInv'
<1> USE BoundsNat
<1>1. UnbornReader \in ReaderType /\ UnbornWriter \in WriterType /\ UnbornUpdater \in UpdaterType
  BY DEF UnbornReader, UnbornWriter, UnbornUpdater, ReaderType, WriterType, UpdaterType, ThreadPc, Cred
<1>2. net' \in [Channel -> Net]  BY DEF ProcessEnds, IInv, TypeOK, Net
<1>3. wire' \in [Channel -> Seq(Cred)] /\ queue' \in Seq(Cred) /\ Len(queue') <= MaxQueue  BY DEF ProcessEnds
<1>4. TypeOK'
  BY <1>1, <1>2, <1>3 DEF ProcessEnds, IInv, TypeOK, Exited, NoConn, Stranger, Cred, Leaving
<1>5. ThreadInv' /\ HandleInv' /\ UpdaterInv'
  BY DEF ProcessEnds, ThreadInv, HandleInv, UpdaterInv, NoSurvivors, FlagMeansUpdating, Clearing, Alive, NoConn, UnbornReader,
     UnbornWriter
<1> QED  BY <1>4, <1>5 DEF IInv

\* A request is put in the queue.
LEMMA EnqueueType ==
  ASSUME IInv, NEW cr \in Cred, Enqueue(cr)
  PROVE  queue' \in Seq(Cred) /\ Len(queue') <= MaxQueue
<1>1. queue \in Seq(Cred)  BY DEF IInv, TypeOK
<1>2. Len(queue) \in Nat /\ Len(queue') = Len(queue) + 1 /\ queue' \in Seq(Cred)
  BY <1>1 DEF Enqueue
<1> QED  BY <1>2, BoundsNat DEF Enqueue

\* connect() in the main thread, when it is not inside disconnect().
LEMMA ConnectStep ==
  ASSUME IInv, main.pc \notin Leaving, ~Clearing, Connect,
         main' \in {main, [main EXCEPT !.pc = "idle"]},
         UNCHANGED <<updater, wire, held, issued, me, intents>>
  PROVE  IInv'
<1> USE BoundsNat
<1>1. /\ conn \in [chan : 0 .. opened, connected : BOOLEAN, updating : BOOLEAN,
                   rd : 0 .. opened, wr : 0 .. opened, upd : 0 .. MaxUpd]
      /\ opened \in 0 .. MaxConn
      /\ net \in [Channel -> Net] /\ me.cr \in Cred
      /\ reader \in [Channel -> ReaderType] /\ writer \in [Channel -> WriterType]
      /\ queue \in Seq(Cred) /\ Len(queue) <= MaxQueue
  BY DEF IInv, TypeOK
<1>2. main' \in [pc : {"exited", "idle", "clearForStart", "startUpdate", "connect", "exit"} \cup Leaving,
                 next : {"idle", "connect", "exit"}]
  BY DEF IInv, TypeOK
<1>3. UpdaterInv'
  BY <1>1 DEF Connect, StayConnected, FailToConnect, OpenChannel, IInv, UpdaterInv, FlagMeansUpdating, Clearing, Alive
<1>4. CASE StayConnected
  <2>1. conn' = [conn EXCEPT !.connected = TRUE] /\ UNCHANGED <<opened, net, reader, writer>>
    BY <1>4 DEF StayConnected
  <2>2. queue' \in Seq(Cred) /\ Len(queue') <= MaxQueue
    BY <1>1, <1>4, EnqueueType DEF StayConnected
  <2>3. TypeOK'
    BY <1>1, <1>2, <2>1, <2>2 DEF IInv, TypeOK
  <2>4. ThreadInv' /\ HandleInv'
    BY <1>1, <2>1 DEF IInv, ThreadInv, HandleInv, NoSurvivors, Alive
  <2> QED  BY <1>3, <2>3, <2>4 DEF IInv
<1>5. ~IsConnected(conn.chan) => conn.chan = 0 /\ \A j \in Channel : ~Alive(reader[j]) /\ ~Alive(writer[j])
  <2>1. ~IsConnected(conn.chan) => conn.chan = 0
    BY DEF IsConnected, IInv, ThreadInv
  <2> QED  BY <2>1 DEF IInv, ThreadInv, NoSurvivors, Channel
<1>6. CASE FailToConnect
  <2>1. /\ conn' = [conn EXCEPT !.chan = 0, !.connected = FALSE]
        /\ UNCHANGED <<opened, net, reader, writer, queue>>
    BY <1>6 DEF FailToConnect
  <2>2. conn' \in [chan : 0 .. opened, connected : BOOLEAN, updating : BOOLEAN,
                   rd : 0 .. opened, wr : 0 .. opened, upd : 0 .. MaxUpd]
    <3>1. 0 \in 0 .. opened  BY <1>1
    <3> QED  BY <1>1, <2>1, <3>1
  <2>4. TypeOK'
    BY <1>1, <1>2, <2>1, <2>2 DEF IInv, TypeOK
  <2>3. ThreadInv' /\ HandleInv'
    BY <1>1, <1>5, <1>6, <2>1 DEF FailToConnect, IInv, ThreadInv, HandleInv, NoSurvivors, Alive
  <2> QED  BY <1>3, <2>3, <2>4 DEF IInv
<1>7. ASSUME NEW k \in Channel, k = opened + 1, opened' = k, OpenChannel(k) PROVE IInv'
  <2> DEFINE w == ~IsRunning(writer, conn.wr)
             r == ~IsRunning(reader, conn.rd)
  <2>1. /\ net' = [net EXCEPT ![k] = "open"]
        /\ conn' = [conn EXCEPT !.chan = k, !.connected = TRUE, !.wr = IF w THEN k ELSE @, !.rd = IF r THEN k ELSE @]
        /\ writer' = IF w THEN [writer EXCEPT ![k].pc = "new"] ELSE writer
        /\ reader' = IF r THEN [reader EXCEPT ![k].pc = "new"] ELSE reader
        /\ ~IsConnected(conn.chan)
    BY <1>7 DEF OpenChannel
  <2> HIDE DEF w, r
  <2>2. queue' \in Seq(Cred) /\ Len(queue') <= MaxQueue
    BY <1>1, <1>7, EnqueueType DEF OpenChannel
  <2>3. net' \in [Channel -> Net] /\ net'[k] = "open"
    BY <1>1, <2>1 DEF Net
  <2>4. /\ reader' \in [Channel -> ReaderType]
        /\ \A j \in Channel : Alive(reader'[j]) => j = k /\ r
        /\ \A j \in Channel : reader'[j].pc = "handle" => reader[j].pc = "handle"
    <3>1. reader' \in [Channel -> ReaderType] /\ \A j \in Channel \ {k} : reader'[j] = reader[j]
      BY <1>1, <2>1, ZenonT(40) DEF ReaderType, ThreadPc
    <3>2. (r => reader'[k].pc = "new") /\ (~r => reader'[k] = reader[k])
      BY <1>1, <2>1 DEF ReaderType
    <3> QED  BY <1>5, <2>1, <3>1, <3>2 DEF Alive
  <2>5. /\ writer' \in [Channel -> WriterType]
        /\ \A j \in Channel : Alive(writer'[j]) => j = k /\ w
    <3>1. writer' \in [Channel -> WriterType] /\ \A j \in Channel \ {k} : writer'[j] = writer[j]
      BY <1>1, <2>1, SMTT(20) DEF WriterType, ThreadPc
    <3>2. (w => writer'[k].pc = "new") /\ (~w => writer'[k] = writer[k])
      BY <1>1, <2>1 DEF WriterType
    <3> QED  BY <1>5, <2>1, <3>1, <3>2 DEF Alive
  <2>6. /\ conn' \in [chan : 0 .. opened', connected : BOOLEAN, updating : BOOLEAN,
                      rd : 0 .. opened', wr : 0 .. opened', upd : 0 .. MaxUpd]
        /\ opened' \in 0 .. MaxConn
    <3>1. /\ opened' \in 0 .. MaxConn /\ k \in 0 .. opened'
          /\ \A x \in 0 .. opened : x \in 0 .. opened'
      BY <1>1, <1>7 DEF Channel
    <3>2. /\ (IF w THEN k ELSE conn.wr) \in 0 .. opened' /\ (IF r THEN k ELSE conn.rd) \in 0 .. opened'
          /\ conn.updating \in BOOLEAN /\ conn.upd \in 0 .. MaxUpd
      BY <1>1, <3>1
    <3> QED  BY <1>1, <2>1, <3>1, <3>2
  <2>7. TypeOK'
    BY <1>2, <2>2, <2>3, <2>4, <2>5, <2>6 DEF IInv, TypeOK
  <2>8. conn'.chan = k /\ (r => conn'.rd = k) /\ (w => conn'.wr = k)
    BY <1>1, <2>1
  <2>9. ThreadInv'
    BY <2>3, <2>4, <2>5, <2>8 DEF ThreadInv, NoSurvivors
  <2>10. HandleInv'
    BY <2>4 DEF IInv, HandleInv
  <2> QED  BY <1>3, <2>7, <2>9, <2>10 DEF IInv
<1> QED  BY <1>4, <1>6, <1>7 DEF Connect

\* The first part of disconnect().
LEMMA DisconnectStep ==
  ASSUME IInv, main.pc = "idle", NEW next \in {"idle", "connect", "exit"}, Disconnect(next),
         UNCHANGED <<opened, reader, writer, updater, queue, held, issued, me, intents>>
  PROVE  IInv'
<1> USE BoundsNat
<1>1. /\ conn \in [chan : 0 .. opened, connected : BOOLEAN, updating : BOOLEAN,
                   rd : 0 .. opened, wr : 0 .. opened, upd : 0 .. MaxUpd]
      /\ opened \in 0 .. MaxConn
      /\ net \in [Channel -> Net] /\ wire \in [Channel -> Seq(Cred)]
      /\ main \in [pc : {"exited", "idle", "clearForStart", "startUpdate", "connect", "exit"} \cup Leaving,
                   next : {"idle", "connect", "exit"}]
  BY DEF IInv, TypeOK
<1>2. CASE conn.chan = 0 \/ ~conn.connected
  <2>1. main' = [main EXCEPT !.pc = next] /\ UNCHANGED <<conn, net, wire>>
    BY <1>2 DEF Disconnect
  <2>2. TypeOK'
    BY <1>1, <2>1 DEF IInv, TypeOK
  <2>3. ThreadInv' /\ HandleInv' /\ UpdaterInv'
    BY <2>1 DEF IInv, ThreadInv, HandleInv, UpdaterInv, NoSurvivors, FlagMeansUpdating, Clearing, Alive, Leaving
  <2> QED  BY <2>2, <2>3 DEF IInv
<1>3. CASE conn.chan # 0 /\ conn.connected
  <2>1. /\ main' = [main EXCEPT !.pc = "cancelWriter", !.next = next]
        /\ net' = [net EXCEPT ![conn.chan] = "closed"]
        /\ wire' = [wire EXCEPT ![conn.chan] = <<>>]
        /\ conn' = [conn EXCEPT !.chan = 0]
    BY <1>3 DEF Disconnect
  <2>2. net' \in [Channel -> Net]  BY <1>1, <2>1 DEF Net
  <2>3. wire' \in [Channel -> Seq(Cred)]
    <3>1. <<>> \in Seq(Cred)  OBVIOUS
    <3> QED  BY <1>1, <2>1, <3>1
  <2>4. main'.pc = "cancelWriter"
        /\ main' \in [pc : {"exited", "idle", "clearForStart", "startUpdate", "connect", "exit"} \cup Leaving,
                      next : {"idle", "connect", "exit"}]
    BY <1>1, <2>1 DEF Leaving
  <2>5. TypeOK'
    <3>1. conn' \in [chan : 0 .. opened, connected : BOOLEAN, updating : BOOLEAN,
                     rd : 0 .. opened, wr : 0 .. opened, upd : 0 .. MaxUpd]
      <4>1. 0 \in 0 .. opened  BY <1>1
      <4> QED  BY <1>1, <2>1, <4>1
    <3> QED  BY <2>2, <2>3, <2>4, <3>1 DEF IInv, TypeOK
  <2>6. ThreadInv' /\ HandleInv' /\ UpdaterInv'
    BY <1>1, <2>1, <2>4
    DEF IInv, ThreadInv, HandleInv, UpdaterInv, NoSurvivors, FlagMeansUpdating, Clearing, Alive, Leaving
  <2> QED  BY <2>5, <2>6 DEF IInv
<1> QED  BY <1>2, <1>3 DEF Disconnect

\* The steps that follow the first part of disconnect(), and startUpdateThread().
LEMMA InterruptedType ==
  /\ \A ts \in [Channel -> ReaderType] : \A k : Interrupted(ts, k) \in [Channel -> ReaderType]
  /\ \A ts \in [Channel -> WriterType] : \A k : Interrupted(ts, k) \in [Channel -> WriterType]
  /\ \A ts \in [Updater -> UpdaterType] : \A k : Interrupted(ts, k) \in [Updater -> UpdaterType]
<1> SUFFICES ASSUME NEW S, NEW T, NEW ts \in [S -> T], NEW k, \A t \in T : [t EXCEPT !.intr = TRUE] \in T
             PROVE  Interrupted(ts, k) \in [S -> T]
  <2>1. \A t \in ReaderType : [t EXCEPT !.intr = TRUE] \in ReaderType  BY DEF ReaderType
  <2>2. \A t \in WriterType : [t EXCEPT !.intr = TRUE] \in WriterType  BY DEF WriterType
  <2>3. \A t \in UpdaterType : [t EXCEPT !.intr = TRUE] \in UpdaterType  BY DEF UpdaterType
  <2> QED  BY <2>1, <2>2, <2>3
<1>1. CASE k \in S
  BY <1>1 DEF Interrupted
<1>2. CASE k \notin S
  BY <1>2 DEF Interrupted
<1> QED  BY <1>1, <1>2

MainType == [pc : {"exited", "idle", "clearForStart", "startUpdate", "connect", "exit"} \cup Leaving,
             next : {"idle", "connect", "exit"}]

\* An interrupt brings nobody to life.
LEMMA InterruptedAlive ==
  ASSUME NEW S, NEW ts, DOMAIN ts = S, NEW i, NEW j \in S,
         \A k \in S : {"pc", "intr"} \subseteq DOMAIN ts[k]
  PROVE  Interrupted(ts, i)[j].pc = ts[j].pc
  BY DEF Interrupted

\* interrupt() of the writer, then of the reader.
LEMMA CancelStep ==
  ASSUME IInv, CancelWriter \/ CancelReader
  PROVE  IInv'
<1>1. /\ reader \in [Channel -> ReaderType] /\ writer \in [Channel -> WriterType]
      /\ main \in MainType /\ main.pc \in Leaving /\ ~Clearing
  BY DEF IInv, TypeOK, MainType, CancelWriter, CancelReader, Leaving, Clearing
<1>2. /\ UNCHANGED <<conn, opened, net, updater, queue, wire, held, issued, me, intents>>
      /\ main' \in MainType /\ main'.pc \in Leaving
  BY <1>1 DEF CancelWriter, CancelReader, server, MainType, Leaving
<1>3. /\ reader' \in {reader, Interrupted(reader, conn.rd)}
      /\ writer' \in {writer, Interrupted(writer, conn.wr)}
  BY DEF CancelWriter, CancelReader
<1>4. reader' \in [Channel -> ReaderType] /\ writer' \in [Channel -> WriterType]
  BY <1>1, <1>3, InterruptedType
<1>5. \A j \in Channel : reader'[j].pc = reader[j].pc /\ writer'[j].pc = writer[j].pc
  BY <1>1, <1>3, InterruptedAlive DEF ReaderType, WriterType
<1>6. TypeOK'
  BY <1>2, <1>4 DEF IInv, TypeOK, MainType
<1>7. ThreadInv' /\ HandleInv' /\ UpdaterInv'
  BY <1>1, <1>2, <1>5 DEF IInv, ThreadInv, HandleInv, UpdaterInv, NoSurvivors, FlagMeansUpdating, Clearing, Alive
<1> QED  BY <1>6, <1>7 DEF IInv

\* killUpdateThread(), with whatever the main thread sees of Running.
LEMMA KillingsProperty ==
  ASSUME IInv, NEW us \in Killings
  PROVE  /\ us \in [Updater -> UpdaterType]
         /\ \A n \in Updater : n > conn.upd => us[n] = updater[n]
<1>1. updater \in [Updater -> UpdaterType] /\ conn.upd \in 0 .. MaxUpd  BY DEF IInv, TypeOK
<1>2. us \in {updater, Interrupted(updater, conn.upd)}  BY DEF Killings
<1>3. us \in [Updater -> UpdaterType]  BY <1>1, <1>2, InterruptedType
<1>4. \A n \in Updater : n # conn.upd => us[n] = updater[n]
  BY <1>1, <1>2 DEF Interrupted
<1> QED  BY <1>1, <1>3, <1>4, BoundsNat DEF Updater

\* The interrupt of killUpdateThread() before a new update thread is made, and inside
\* disconnect().
LEMMA KillStep ==
  ASSUME IInv, KillUpdateThread \/ (OnRegistryEvent /\ me.state = "REGISTERED")
  PROVE  IInv'
<1> USE BoundsNat
<1>1. /\ conn \in [chan : 0 .. opened, connected : BOOLEAN, updating : BOOLEAN,
                   rd : 0 .. opened, wr : 0 .. opened, upd : 0 .. MaxUpd]
      /\ main \in MainType /\ intents \in 0 .. MaxIntents
  BY DEF IInv, TypeOK, MainType
<1>2. /\ updater' \in Killings
      /\ UNCHANGED <<conn, opened, net, reader, writer, queue, wire, held, issued, me>>
      /\ intents' = intents \/ (intents > 0 /\ intents' = intents - 1)
      /\ \/ main.pc = "killUpdate" /\ main' = [main EXCEPT !.pc = "clearUpdate"]
         \/ main.pc = "idle" /\ main' = [main EXCEPT !.pc = "clearForStart"]
  BY DEF KillUpdateThread, OnRegistryEvent, server, Idle
<1>3. main' \in MainType /\ (main.pc \in Leaving <=> main'.pc \in Leaving) /\ Clearing'
  BY <1>1, <1>2 DEF MainType, Leaving, Clearing
<1>4. /\ updater' \in [Updater -> UpdaterType]
      /\ \A n \in Updater : n > conn.upd => updater'[n] = updater[n]
  BY <1>2, KillingsProperty
<1>5. intents' \in 0 .. MaxIntents /\ intents' <= intents
  BY <1>1, <1>2
<1>6. TypeOK'
  BY <1>2, <1>3, <1>4, <1>5 DEF IInv, TypeOK, MainType
<1>7. ThreadInv'
  BY <1>2, <1>3 DEF IInv, ThreadInv, NoSurvivors, Alive
<1>8. HandleInv'
  BY <1>1, <1>2, <1>5 DEF IInv, HandleInv
<1>9. UpdaterInv'
  BY <1>2, <1>3, <1>4 DEF IInv, UpdaterInv, FlagMeansUpdating
<1> QED  BY <1>6, <1>7, <1>8, <1>9 DEF IInv

\* The flag is cleared: whatever the update thread does, nothing is claimed of it.
LEMMA ClearStep ==
  ASSUME IInv, ClearUpdating
  PROVE  IInv'
<1> USE BoundsNat
<1>1. /\ conn \in [chan : 0 .. opened, connected : BOOLEAN, updating : BOOLEAN,
                   rd : 0 .. opened, wr : 0 .. opened, upd : 0 .. MaxUpd]
      /\ main \in MainType
  BY DEF IInv, TypeOK, MainType
<1>2. /\ conn' = [conn EXCEPT !.updating = FALSE]
      /\ UNCHANGED <<opened, net, reader, writer, updater, queue, wire, held, issued, me, intents>>
      /\ \/ main.pc = "clearUpdate" /\ main' = [main EXCEPT !.pc = "join"]
         \/ main.pc = "clearForStart" /\ main' = [main EXCEPT !.pc = "startUpdate"]
  BY DEF ClearUpdating, Clearing, AfterClearing, threads, server
<1>3. main' \in MainType /\ (main.pc \in Leaving <=> main'.pc \in Leaving)
  BY <1>1, <1>2 DEF MainType, Leaving
<1>4. /\ conn' \in [chan : 0 .. opened, connected : BOOLEAN, updating : BOOLEAN,
                    rd : 0 .. opened, wr : 0 .. opened, upd : 0 .. MaxUpd]
      /\ conn'.chan = conn.chan /\ conn'.rd = conn.rd /\ conn'.wr = conn.wr /\ conn'.upd = conn.upd
      /\ ~conn'.updating
  BY <1>1, <1>2
<1>5. TypeOK'
  BY <1>2, <1>3, <1>4 DEF IInv, TypeOK, MainType
<1>6. ThreadInv' /\ HandleInv'
  BY <1>2, <1>3, <1>4 DEF IInv, ThreadInv, HandleInv, NoSurvivors, Alive
<1>7. UpdaterInv'
  BY <1>2, <1>4 DEF IInv, UpdaterInv, FlagMeansUpdating
<1> QED  BY <1>5, <1>6, <1>7 DEF IInv

\* Both threads are dead when join() returns, so nobody survives.
LEMMA JoinStep ==
  ASSUME IInv, Join
  PROVE  IInv'
<1>1. /\ conn \in [chan : 0 .. opened, connected : BOOLEAN, updating : BOOLEAN,
                   rd : 0 .. opened, wr : 0 .. opened, upd : 0 .. MaxUpd]
      /\ main \in MainType
  BY DEF IInv, TypeOK, MainType
<1>2. /\ conn' = [conn EXCEPT !.connected = FALSE]
      /\ main' = [main EXCEPT !.pc = main.next, !.next = "idle"]
      /\ UNCHANGED <<opened, net, reader, writer, updater, queue, wire, held, issued, me, intents>>
  BY DEF Join, threads, server
<1>3. main' \in MainType  BY <1>1, <1>2 DEF MainType
<1>4. conn' \in [chan : 0 .. opened, connected : BOOLEAN, updating : BOOLEAN,
                 rd : 0 .. opened, wr : 0 .. opened, upd : 0 .. MaxUpd]
  BY <1>1, <1>2
<1>5. TypeOK'
  BY <1>2, <1>3, <1>4 DEF IInv, TypeOK, MainType
<1>6. \A k \in Channel : ~Alive(reader[k]) /\ ~Alive(writer[k])
  BY DEF Join, IInv, ThreadInv
<1>7. ThreadInv'
  BY <1>1, <1>2, <1>6 DEF IInv, ThreadInv, NoSurvivors, Alive
<1>8. HandleInv' /\ UpdaterInv'
  <2>1. ~Clearing  BY DEF Join, Clearing
  <2> QED  BY <1>1, <1>2, <2>1 DEF IInv, HandleInv, UpdaterInv, FlagMeansUpdating, Alive
<1> QED  BY <1>5, <1>7, <1>8 DEF IInv

\* The next update thread has never run, so that nobody has interrupted it.
LEMMA StartUpdateStep ==
  ASSUME IInv, StartUpdateThread
  PROVE  IInv'
<1> USE BoundsNat
<1>1. /\ conn \in [chan : 0 .. opened, connected : BOOLEAN, updating : BOOLEAN,
                   rd : 0 .. opened, wr : 0 .. opened, upd : 0 .. MaxUpd]
      /\ main \in MainType /\ updater \in [Updater -> UpdaterType] /\ me.cr \in Cred
  BY DEF IInv, TypeOK, MainType
<1>2. PICK n \in Updater :
        /\ n = conn.upd + 1
        /\ updater' = [updater EXCEPT ![n].pc = "new", ![n].cr = me.cr]
        /\ conn' = [conn EXCEPT !.upd = n, !.updating = TRUE]
  BY DEF StartUpdateThread
<1>3. /\ main.pc = "startUpdate" /\ main' = [main EXCEPT !.pc = "idle"]
      /\ UNCHANGED <<opened, net, reader, writer, queue, wire, held, issued, me, intents>>
  BY DEF StartUpdateThread, server
<1>4. main' \in MainType /\ main'.pc = "idle"  BY <1>1, <1>3 DEF MainType
<1>5. /\ updater' \in [Updater -> UpdaterType]
      /\ \A m \in Updater \ {n} : updater'[m] = updater[m]
      /\ updater'[n].pc = "new" /\ updater'[n].intr = updater[n].intr
  BY <1>1, <1>2 DEF UpdaterType, ThreadPc
<1>6. /\ conn' \in [chan : 0 .. opened, connected : BOOLEAN, updating : BOOLEAN,
                    rd : 0 .. opened, wr : 0 .. opened, upd : 0 .. MaxUpd]
      /\ conn'.chan = conn.chan /\ conn'.rd = conn.rd /\ conn'.wr = conn.wr /\ conn'.upd = n
  <2>1. n \in 0 .. MaxUpd  BY <1>2 DEF Updater
  <2> QED  BY <1>1, <1>2, <2>1
<1>7. TypeOK'
  BY <1>3, <1>4, <1>5, <1>6 DEF IInv, TypeOK, MainType
<1>8. ThreadInv' /\ HandleInv'
  BY <1>3, <1>4, <1>6 DEF IInv, ThreadInv, HandleInv, NoSurvivors, Alive, Leaving
<1>9. updater[n] = UnbornUpdater
  BY <1>1, <1>2 DEF IInv, UpdaterInv, Updater
<1>10. UpdaterInv'
  <2>1. FlagMeansUpdating'
    <3>1. n # 0 /\ ~updater'[n].intr  BY <1>2, <1>5, <1>9 DEF Updater, UnbornUpdater
    <3> QED  BY <1>5, <1>6, <3>1 DEF FlagMeansUpdating, Clearing, Alive
  <2>2. ASSUME NEW m \in Updater, m > conn'.upd PROVE updater'[m] = UnbornUpdater
    <3>1. m > conn.upd /\ m # n  BY <1>1, <1>2, <1>6, <2>2, SMTT(20) DEF Updater
    <3> QED  BY <1>5, <3>1 DEF IInv, UpdaterInv
  <2> QED  BY <2>1, <2>2 DEF UpdaterInv, Updater
<1> QED  BY <1>7, <1>8, <1>10 DEF IInv

\* Steps that leave everything but the main thread and the count of broadcasts.
LEMMA IdleStep ==
  ASSUME IInv, ServiceStarts \/ (OnRegistryEvent /\ me.state # "REGISTERED")
  PROVE  IInv'
<1> USE BoundsNat
<1>1. main \in MainType /\ intents \in 0 .. MaxIntents  BY DEF IInv, TypeOK, MainType
<1>2. /\ UNCHANGED <<conn, opened, net, reader, writer, updater, queue, wire, held, issued, me>>
      /\ intents' = intents \/ (intents > 0 /\ intents' = intents - 1)
      /\ main' = main \/ (main.pc = "exited" /\ main' = [main EXCEPT !.pc = "idle"])
  BY DEF ServiceStarts, OnRegistryEvent, threads, server
<1>3. main' \in MainType /\ (main.pc \in Leaving <=> main'.pc \in Leaving)
  BY <1>1, <1>2 DEF MainType, Leaving
<1>4. intents' \in 0 .. MaxIntents /\ intents' <= intents  BY <1>1, <1>2
<1>5. TypeOK'
  BY <1>2, <1>3, <1>4 DEF IInv, TypeOK, MainType
<1>6. ThreadInv' /\ UpdaterInv'
  BY <1>2, <1>3 DEF IInv, ThreadInv, UpdaterInv, NoSurvivors, FlagMeansUpdating, Clearing, Alive
<1>7. HandleInv'
  BY <1>1, <1>2, <1>4 DEF IInv, HandleInv
<1> QED  BY <1>5, <1>6, <1>7 DEF IInv

-----------------------------------------------------------------------------
\* The theorems.

\* Every step keeps the invariant.
LEMMA NextInv == IInv /\ [Next]_vars => IInv'
<1> SUFFICES ASSUME IInv, [Next]_vars PROVE IInv'
  OBVIOUS
<1>1. CASE Main
  <2>1. CASE ServiceStarts  BY <2>1, IdleStep
  <2>2. CASE OnConnected
    BY <2>2, ConnectStep DEF OnConnected, Idle, Leaving, Clearing, server
  <2>3. CASE OnNoConnectivity
    BY <2>3, DisconnectStep DEF OnNoConnectivity, Idle, threads
  <2>4. CASE OnFailover
    <3>1. CASE Idle /\ Disconnect("connect") /\ UNCHANGED <<opened, threads, queue, held, issued, me, intents>>
      BY <3>1, DisconnectStep DEF Idle, threads
    <3>2. CASE main.pc = "connect" /\ main' = [main EXCEPT !.pc = "idle"] /\ Connect
               /\ UNCHANGED <<updater, server, me, intents>>
      BY <3>2, ConnectStep DEF Leaving, Clearing, server
    <3> QED  BY <2>4, <3>1, <3>2 DEF OnFailover
  <2>5. CASE OnRegistryEvent  BY <2>5, KillStep, IdleStep
  <2>6. CASE StartUpdateThread  BY <2>6, StartUpdateStep
  <2>7. CASE OnDestroy
    BY <2>7, DisconnectStep, ProcessStep DEF OnDestroy, Idle, threads
  <2>8. CASE Disconnecting
    BY <2>8, CancelStep, KillStep, ClearStep, JoinStep DEF Disconnecting
  <2> QED  BY <1>1, <2>1, <2>2, <2>3, <2>4, <2>5, <2>6, <2>7, <2>8 DEF Main
<1>2. ASSUME NEW k \in Channel, Reader(k) PROVE IInv'
  BY <1>2, ReaderStep, ProcessStep DEF Reader
<1>3. ASSUME NEW k \in Channel, Writer(k) PROVE IInv'
  BY <1>3, WriterStep
<1>4. ASSUME NEW k \in Channel, ServerCloses(k) PROVE IInv'
  BY <1>4, ServerStep
<1>5. ASSUME NEW n \in Updater, UpdaterThread(n) PROVE IInv'
  BY <1>5, UpdaterStep
<1>6. CASE UNCHANGED vars
  BY <1>6 DEF vars, threads, server, IInv, TypeOK, ThreadInv, HandleInv, UpdaterInv, NoSurvivors, FlagMeansUpdating, Clearing, Alive
<1> QED  BY <1>1, <1>2, <1>3, <1>4, <1>5, <1>6 DEF Next

\* The invariant holds in every state.
LEMMA IInvHolds == Spec => []IInv
  BY InitInv, NextInv, PTL DEF Spec

\* TypeOK: every variable of the phone's connection keeps its type; the fields of
\* PoConnectionManager name threads that were started, and no bound on broadcasts
\* is passed.
THEOREM ConnectionTypeCorrect == Spec => []TypeOK
<1>1. IInv => TypeOK  BY DEF IInv
<1> QED  BY <1>1, IInvHolds, PTL

\* NoSurvivors: when the main thread is not inside disconnect(), a reader or writer
\* that is alive works on the current channel.
THEOREM NoSurvivorsHolds == Spec => []NoSurvivors
<1>1. IInv => NoSurvivors  BY DEF IInv, ThreadInv
<1> QED  BY <1>1, IInvHolds, PTL

\* FlagMeansUpdating: update_thread_running is TRUE only while an update thread
\* that nobody has interrupted runs, or killUpdateThread() is about to clear it.
THEOREM FlagMeansUpdatingHolds == Spec => []FlagMeansUpdating
<1>1. IInv => FlagMeansUpdating  BY DEF IInv, UpdaterInv
<1> QED  BY <1>1, IInvHolds, PTL
=============================================================================
