------------------------------- MODULE AppPill -------------------------------
(***************************************************************************)
(* Uploading, starting and killing an application pill: PoAppPillLoader on *)
(* the phone's side of the emulated UART and PoAppPillM (in middleware.c)  *)
(* on the node's side.                                                     *)
(*                                                                         *)
(* Each load and each kill makes a PoUART, a thread that takes packets off *)
(* the one static queue.  Nothing but a packet from the node ends it, and  *)
(* then it is the last PoUART made that is interrupted, so that several    *)
(* may listen at once.  The event thread gives a packet to the node and    *)
(* completes the tasks that follow in one step.                            *)
(*                                                                         *)
(* Packets are taken whole, except that two listeners may tear one apart;  *)
(* a listener that has lost the boundaries of packets is taken to make no  *)
(* sense of any.  A chunk of the bundle is its number, and the node's      *)
(* parser what it makes of chunks in order and out of order.               *)
(***************************************************************************)
EXTENDS Naturals, Sequences, FiniteSets

CONSTANTS
  Chunks,        \* number of chunks of the bundle
  AgentIds,      \* ids the node may give to root agents
  MaxListeners,  \* bound: PoUARTs made
  MaxMishaps     \* bound: kinds of mishap after which no other kind is brought about

ASSUME AppPillAssumption ==
  /\ Chunks \in Nat \ {0}
  /\ AgentIds \subseteq Nat \ {0}
  /\ MaxListeners \in Nat
  /\ MaxMishaps \in Nat

VARIABLES
  main,       \* whether the main thread is inside killRunningApp()
  loader,     \* the fields of PoAppPillLoader, PoAPI and PoMainA
  listener,   \* the PoUART threads
  TxQ, RxQ,   \* packets on their way to the node, and back
  node,       \* PoAppPillM
  agents,     \* the root agents the node hosts
  mishaps     \* history: what went otherwise than the protocol expects

vars == <<main, loader, listener, TxQ, RxQ, node, agents, mishaps>>

-----------------------------------------------------------------------------
\* A packet: its code and what comes with it, a chunk or the id of an agent.
Packet(code, x) == [code |-> code, arg |-> x]
Control(code) == Packet(code, 0)

Upward == {"START_UPLOAD", "DATA", "START", "KILL"}
Downward == {"READY", "FINISHED", "UPLOAD_ERROR", "STARTED", "START_ERROR", "DEAD", "KILL_ERROR"}

Padding == 0               \* the zeros sent beyond the bundle's end
Garbage == Chunks + 1      \* the node's parser has lost its place

Listener == 1 .. MaxListeners
Unborn == [pc |-> "none", pkt |-> Control("NONE"), intr |-> FALSE, torn |-> FALSE]
Dead == [Unborn EXCEPT !.pc = "dead"]

Alive(l) == listener[l].pc \notin {"none", "dead"}
Quiet == \A l \in Listener : ~Alive(l)

\* new PoUART(this): its constructor starts the thread.
NewPoUART(l) ==
  /\ listener[l].pc = "none"
  /\ \A k \in 1 .. l - 1 : listener[k].pc # "none"
  /\ listener' = [listener EXCEPT ![l].pc = "take"]

-----------------------------------------------------------------------------
\* The buttons of PoMainA.  To press one before the last operation has ended is a
\* mishap.

BroughtAbout(kind) ==
  /\ kind \in mishaps \/ Cardinality(mishaps) < MaxMishaps
  /\ mishaps' = mishaps \cup {kind}

Pressed == IF Quiet THEN UNCHANGED mishaps ELSE BroughtAbout("press")

\* loadAndStartApp()
PressStart ==
  /\ main = "free"
  /\ ~loader.app_status
  /\ \/ /\ loader.state = "RUNNING"
        /\ loader' = [loader EXCEPT !.app_status = TRUE]
        /\ UNCHANGED <<listener, TxQ>>
     \/ /\ loader.state = "IDLE"
        /\ \E l \in Listener : NewPoUART(l) /\ loader' = [loader EXCEPT !.app_status = TRUE, !.con = l]
        /\ TxQ' = Append(TxQ, Control("START_UPLOAD"))
  /\ Pressed
  /\ UNCHANGED <<main, RxQ, node, agents>>

\* killRunningApp(), until the packet is sent: the id is the last one the node has
\* announced, if any.
PressKill ==
  /\ main = "free"
  /\ loader.app_status
  /\ \/ /\ loader.state = "IDLE"
        /\ loader' = [loader EXCEPT !.app_status = FALSE]
        /\ UNCHANGED <<main, listener, TxQ>>
     \/ /\ loader.state = "RUNNING"
        /\ \E l \in Listener :
             NewPoUART(l) /\ loader' = [loader EXCEPT !.app_status = FALSE, !.con = l, !.hosts = FALSE]
        /\ TxQ' = Append(TxQ, Packet("KILL", loader.rootAgentID))
        /\ main' = "killing"
  /\ Pressed
  /\ UNCHANGED <<RxQ, node, agents>>

\* Mutant of KillReturns: the loader goes on counting the application as running.
KillForgetsState ==
  /\ main = "killing"
  /\ main' = "free"
  /\ UNCHANGED <<loader, listener, TxQ, RxQ, node, agents, mishaps>>

\* The state is set once the packet is sent.
KillReturns ==
  /\ main = "killing"
  /\ main' = "free"
  /\ loader' = [loader EXCEPT !.state = "IDLE"]
  /\ UNCHANGED <<listener, TxQ, RxQ, node, agents, mishaps>>

-----------------------------------------------------------------------------
\* PoUART.run() of listener l.

\* An interrupt is noticed when the next byte is taken.
Stops(l) ==
  /\ listener[l].pc = "take"
  /\ listener[l].intr
  /\ listener' = [listener EXCEPT ![l] = Dead]
  /\ UNCHANGED <<main, loader, TxQ, RxQ, node, agents, mishaps>>

Takes(l) ==
  /\ listener[l].pc = "take"
  /\ ~listener[l].intr
  /\ RxQ # <<>>
  /\ RxQ' = Tail(RxQ)
  /\ listener' = IF listener[l].torn THEN listener
                 ELSE [listener EXCEPT ![l].pc = "handle", ![l].pkt = Head(RxQ)]
  /\ UNCHANGED <<main, loader, TxQ, node, agents, mishaps>>

\* Both l and k take bytes of one packet.
Tear(l, k) ==
  /\ l # k
  /\ listener[l].pc = "take" /\ ~listener[l].intr
  /\ listener[k].pc = "take" /\ ~listener[k].intr
  /\ RxQ # <<>>
  /\ RxQ' = Tail(RxQ)
  /\ listener' = [listener EXCEPT ![l].torn = TRUE, ![k].torn = TRUE]
  /\ UNCHANGED <<main, loader, TxQ, node, agents, mishaps>>

\* Mutant of NextChunk: the end of the bundle is not looked for.
NextChunkPastEnd == loader.offset + 1

\* The next chunk; beyond the bundle zeros are sent, and the offset stays.
NextChunk == IF loader.offset < Chunks THEN loader.offset + 1 ELSE Padding

\* Mutant of Uploaded: the next upload begins where this one ended.
UploadKeepsOffset == [loader EXCEPT !.state = "RUNNING"]

\* startApp(), once the bundle is uploaded.
Uploaded == [loader EXCEPT !.offset = 0, !.state = "RUNNING"]

\* Listener l goes back to its loop.
Done(l) == [listener EXCEPT ![l].pc = "take", ![l].pkt = Unborn.pkt]

\* Mutant of Cancelled: the thread is left to its loop.
NotCancelled(ls) == ls

\* con.cancel() interrupts the last PoUART, whoever handles the packet.
Cancelled(ls) == [ls EXCEPT ![loader.con].intr = ls[loader.con].pc # "dead"]

\* packetReceived(): what a packet from the node makes of the loader, and what is
\* sent to the node.
PacketReceived(l) ==
  LET p == listener[l].pkt
  IN  /\ listener[l].pc = "handle"
      /\ \/ /\ p.code = "READY"
            /\ loader' = IF NextChunk = Padding THEN loader ELSE [loader EXCEPT !.offset = NextChunk]
            /\ TxQ' = Append(TxQ, Packet("DATA", NextChunk))
            /\ listener' = Done(l)
         \/ /\ p.code = "FINISHED"
            /\ loader' = Uploaded
            /\ TxQ' = Append(TxQ, Control("START"))
            /\ listener' = Done(l)
         \/ /\ p.code = "STARTED"
            /\ loader' = [loader EXCEPT !.hosts = TRUE, !.rootAgentID = p.arg]
            /\ listener' = Cancelled(Done(l))
            /\ UNCHANGED TxQ
         \/ /\ p.code = "DEAD"
            /\ loader' = [loader EXCEPT !.hosts = FALSE]
            /\ listener' = Cancelled(Done(l))
            /\ UNCHANGED TxQ
         \/ /\ p.code \in {"UPLOAD_ERROR", "START_ERROR", "KILL_ERROR"}     \* logged
            /\ listener' = Done(l)
            /\ UNCHANGED <<loader, TxQ>>
      /\ UNCHANGED <<main, RxQ, node, agents, mishaps>>

PoUART(l) == Stops(l) \/ Takes(l) \/ PacketReceived(l)

-----------------------------------------------------------------------------
\* PoAppPillM: what a packet does to the node, and what it answers.

Answers(packets) == RxQ' = RxQ \o packets
Fails == mishaps' = mishaps \cup {"failure"}

StartUploadReceived ==
  /\ node' = [node EXCEPT !.next = 0, !.upload = "parsing"]
  /\ Answers(<<Control("READY")>>)
  /\ UNCHANGED <<agents, mishaps>>

\* parseChunk(): the bundle may be too large for the node, and out of order it may
\* be taken for anything.
Parsed(chunk) ==
  IF node.upload # "parsing" THEN {node}
  ELSE IF chunk = node.next + 1
  THEN {[node EXCEPT !.next = chunk, !.upload = IF chunk = Chunks THEN "finished" ELSE "parsing"],
        [node EXCEPT !.next = chunk, !.upload = "error"]}
  ELSE {[node EXCEPT !.next = Garbage, !.upload = u] : u \in {"parsing", "finished", "error"}}

ChunkReceived(chunk) ==
  /\ node' \in Parsed(chunk)
  /\ \/ node'.upload = "parsing" /\ Answers(<<Control("READY")>>) /\ UNCHANGED mishaps
     \/ node'.upload = "finished" /\ Answers(<<Control("FINISHED")>>) /\ UNCHANGED mishaps
     \/ node'.upload = "error" /\ Answers(<<Control("UPLOAD_ERROR")>>) /\ Fails
  /\ UNCHANGED agents

WithAgent(id) == [a \in DOMAIN agents \cup {id} |-> IF a = id THEN "running" ELSE agents[a]]

\* createRootAgent() announces the agent it has created and returns SUCCESS, which
\* is 0; its caller tests for 1, that is for FAIL, and reports an error otherwise.
\* A failure is not reported, and may leave an agent behind.
RootAgentCreated ==
  \E id \in AgentIds \ DOMAIN agents :
    /\ agents' = WithAgent(id)
    /\ Answers(<<Packet("STARTED", id), Control("START_ERROR")>>)
    /\ UNCHANGED mishaps

RootAgentFails ==
  /\ \/ UNCHANGED agents
     \/ \E id \in AgentIds \ DOMAIN agents : agents' = WithAgent(id)
  /\ Fails
  /\ UNCHANGED RxQ

StartReceived ==
  /\ \/ node.ready /\ node.upload = "finished" /\ (RootAgentCreated \/ RootAgentFails)
     \/ /\ ~(node.ready /\ node.upload = "finished")
        /\ Answers(<<Control("START_ERROR")>>)
        /\ Fails
        /\ UNCHANGED agents
  /\ UNCHANGED node

\* removeRootAgent() tells the agent to finish; one that is finishing already may
\* have lost its virtual parent, and then is not found.
KillReceived(victim) ==
  /\ \/ /\ victim \in DOMAIN agents
        /\ agents' = [agents EXCEPT ![victim] = "ending"]
        /\ UNCHANGED RxQ
     \/ /\ victim \in DOMAIN agents => agents[victim] = "ending"
        /\ Answers(<<Control("KILL_ERROR")>>)
        /\ UNCHANGED agents
  /\ UNCHANGED <<node, mishaps>>

\* The event thread dispatches a packet's bytes and completes the tasks.
NodeReceives ==
  /\ TxQ # <<>>
  /\ TxQ' = Tail(TxQ)
  /\ LET p == Head(TxQ)
     IN  \/ p.code = "START_UPLOAD" /\ StartUploadReceived
         \/ p.code = "DATA" /\ ChunkReceived(p.arg)
         \/ p.code = "START" /\ StartReceived
         \/ p.code = "KILL" /\ KillReceived(p.arg)
  /\ UNCHANGED <<main, loader, listener>>

\* The node has joined the network: readyForApplication.
NodeIsReady ==
  /\ ~node.ready
  /\ node' = [node EXCEPT !.ready = TRUE]
  /\ UNCHANGED <<main, loader, listener, TxQ, RxQ, agents, mishaps>>

\* An agent releases itself, or its parent is lost.
AgentReleases(id) ==
  /\ agents[id] = "running"
  /\ agents' = [agents EXCEPT ![id] = "ending"]
  /\ BroughtAbout("release")
  /\ UNCHANGED <<main, loader, listener, TxQ, RxQ, node>>

\* rootAgentRemoved() tells the loader; after a release it may do so once more for
\* the agent's virtual parent.
AgentEnds(id) ==
  /\ agents[id] = "ending"
  /\ agents' = [a \in DOMAIN agents \ {id} |-> agents[a]]
  /\ \/ Answers(<<Packet("DEAD", id)>>)
     \/ "release" \in mishaps /\ Answers(<<Packet("DEAD", id), Packet("DEAD", id)>>)
  /\ UNCHANGED <<main, loader, listener, TxQ, node, mishaps>>

-----------------------------------------------------------------------------
Init ==
  /\ main = "free"
  /\ loader = [state |-> "IDLE", app_status |-> FALSE, hosts |-> FALSE, offset |-> 0,
               rootAgentID |-> 0, con |-> 0]
  /\ listener = [l \in Listener |-> Unborn]
  /\ TxQ = <<>>
  /\ RxQ = <<>>
  /\ node = [ready |-> FALSE, upload |-> "parsing", next |-> 0]
  /\ agents = [a \in {} |-> "running"]
  /\ mishaps = {}

Next ==
  \/ PressStart \/ PressKill \/ KillReturns
  \/ \E l \in Listener : PoUART(l) \/ \E k \in Listener : Tear(l, k)
  \/ NodeReceives \/ NodeIsReady
  \/ \E id \in DOMAIN agents : AgentReleases(id) \/ AgentEnds(id)

Spec == Init /\ [][Next]_vars

-----------------------------------------------------------------------------
\* Every variable has its type; the offset stays within the bundle.
TypeOK ==
  /\ main \in {"free", "killing"}
  /\ loader \in [state : {"IDLE", "RUNNING"}, app_status : BOOLEAN, hosts : BOOLEAN,
                 offset : 0 .. Chunks, rootAgentID : AgentIds \cup {0}, con : 0 .. MaxListeners]
  /\ \A l \in Listener :
       /\ listener[l].pc \in {"none", "take", "handle", "dead"}
       /\ listener[l].pc = "handle" <=> listener[l].pkt.code \in Downward
  /\ \A i \in DOMAIN TxQ : TxQ[i].code \in Upward
  /\ \A i \in DOMAIN RxQ : RxQ[i].code \in Downward
  /\ node \in [ready : BOOLEAN, upload : {"parsing", "finished", "error"}, next : 0 .. Garbage]
  /\ DOMAIN agents \subseteq AgentIds
  /\ \A id \in DOMAIN agents : agents[id] \in {"running", "ending"}
  /\ mishaps \subseteq {"press", "release", "failure"}

\* When the user waits for the loader and no agent ends on its own, every upload,
\* the second as the first, reaches the node's parser in order.
UploadsInOrder == mishaps \subseteq {"failure"} => node.next # Garbage

\* When nothing goes amiss, loader and node agree once the loader rests: it counts
\* the application as running, and tells the connection's writer so, exactly when
\* the node runs one agent, the one whose id the loader knows.
Rests == Quiet /\ main = "free"

LoaderAgrees ==
  mishaps = {} /\ Rests =>
    /\ loader.hosts <=> loader.state = "RUNNING"
    /\ agents = IF loader.hosts THEN [id \in {loader.rootAgentID} |-> "running"] ELSE [a \in {} |-> "running"]

\* A load, or a kill, comes to its end and leaves no thread behind, unless
\* something goes amiss.
OperationsEnd == ~Rests ~> (Rests \/ mishaps # {})

Fairness ==
  /\ WF_vars(KillReturns) /\ WF_vars(NodeReceives)
  /\ \A l \in Listener : WF_vars(PoUART(l))
  /\ \A id \in AgentIds : WF_vars(id \in DOMAIN agents /\ AgentEnds(id))

FairSpec == Spec /\ Fairness
=============================================================================
