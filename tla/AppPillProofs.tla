---------------------------- MODULE AppPillProofs ----------------------------
(***************************************************************************)
(* Proofs about AppPill, for any bundle, any agents and any number of      *)
(* operations.                                                             *)
(***************************************************************************)
EXTENDS AppPill, SequenceTheorems, TLAPS

-----------------------------------------------------------------------------
\* Types, the packets' contents included.

UpPacket == [code : Upward, arg : Nat]
DownPacket == [code : Downward, arg : Nat]
NoPacket == Unborn.pkt

Thread == [pc : {"none", "take", "handle", "dead"}, pkt : DownPacket \cup {NoPacket},
           intr : BOOLEAN, torn : BOOLEAN]

\* A chunk in the queue is one of the bundle's or padding, and an agent that is
\* announced is one the node may have.
Chunk(p) == p.code = "DATA" => p.arg \in 0 .. Chunks
Announced(p) == p.code = "STARTED" => p.arg \in AgentIds

Loader == [state : {"IDLE", "RUNNING"}, app_status : BOOLEAN, hosts : BOOLEAN,
           offset : 0 .. Chunks, rootAgentID : AgentIds \cup {0}, con : 0 .. MaxListeners]

PoAppPillM == [ready : BOOLEAN, upload : {"parsing", "finished", "error"}, next : 0 .. Garbage]

TypeInv ==
  /\ main \in {"free", "killing"}
  /\ loader \in Loader
  /\ listener \in [Listener -> Thread]
  /\ TxQ \in Seq({p \in UpPacket : Chunk(p)})
  /\ RxQ \in Seq({p \in DownPacket : Announced(p)})
  /\ node \in PoAppPillM
  /\ agents \in [DOMAIN agents -> {"running", "ending"}]
  /\ DOMAIN agents \subseteq AgentIds
  /\ mishaps \subseteq {"press", "release", "failure"}

\* A thread that handles a packet has one, and the others have none; one that has
\* not been made is as new; con is one that has been made.
ThreadInv ==
  \A l \in Listener :
    /\ listener[l].pc = "handle" => listener[l].pkt \in DownPacket /\ Announced(listener[l].pkt)
    /\ listener[l].pc # "handle" => listener[l].pkt = NoPacket
    /\ listener[l].pc = "none" => listener[l] = Unborn /\ loader.con # l

-----------------------------------------------------------------------------
\* The protocol, as long as nobody presses a button too early and no agent ends on
\* its own: at any time one packet, or none, makes things go on.

\* The packets on their way to the phone: the one in hand, and the queue.
In(t, q, s) == \/ t.pc = "take" /\ q = s
               \/ t.pc = "handle" /\ s # << >> /\ t.pkt = Head(s) /\ q = Tail(s)
Inbox(s) == In(listener[loader.con], RxQ, s)

Late == Control("START_ERROR")     \* what follows the announcement of an agent
Only(id, st) == [a \in {id} |-> st]
NoAgent == [a \in {} |-> "running"]

\* The one listener is the last one made.
Alone ==
  /\ \A k \in Listener \ {loader.con} : ~Alive(k)
  /\ \A k \in Listener : ~listener[k].torn

\* The one listener listens, and will go on.
Listens == loader.con \in Listener /\ Alive(loader.con) /\ ~listener[loader.con].intr

\* The one listener is gone, or about to go.
Ending ==
  loader.con \in Listener =>
    \/ listener[loader.con].pc = "dead"
    \/ listener[loader.con].pc = "take" /\ listener[loader.con].intr

Loading ==
  /\ Listens
  /\ main = "free" /\ agents = NoAgent /\ ~loader.hosts
  /\ \/ /\ loader.state = "IDLE" /\ loader.offset = 0
        /\ TxQ = <<Control("START_UPLOAD")>> /\ Inbox(<<>>)
     \/ /\ loader.state = "IDLE" /\ loader.offset = node.next
        /\ node.upload = "parsing" /\ node.next < Chunks
        /\ TxQ = <<>> /\ Inbox(<<Control("READY")>>)
     \/ /\ loader.state = "IDLE" /\ loader.offset = node.next + 1
        /\ node.upload = "parsing" /\ node.next < Chunks
        /\ TxQ = <<Packet("DATA", loader.offset)>> /\ Inbox(<<>>)
     \/ /\ loader.state = "IDLE"
        /\ TxQ = <<>> /\ Inbox(<<Control("FINISHED")>>)
     \/ /\ loader.state = "RUNNING" /\ loader.offset = 0
        /\ TxQ = <<Control("START")>> /\ Inbox(<<>>)

Starting ==
  /\ Listens
  /\ main = "free" /\ ~loader.hosts /\ loader.state = "RUNNING" /\ loader.offset = 0
  /\ TxQ = <<>>
  /\ \E id \in AgentIds : agents = Only(id, "running") /\ Inbox(<<Packet("STARTED", id), Late>>)

Running ==
  /\ Ending
  /\ main = "free" /\ loader.hosts /\ loader.state = "RUNNING" /\ loader.offset = 0
  /\ TxQ = <<>> /\ RxQ = <<Late>>
  /\ agents = Only(loader.rootAgentID, "running")

\* While killRunningApp() has not returned the state is still that of before.
Left == ~loader.hosts /\ loader.offset = 0 /\ (main = "free" => loader.state = "IDLE")

Killing ==
  /\ Listens /\ Left
  /\ \/ /\ TxQ = <<Packet("KILL", loader.rootAgentID)>>
        /\ agents = Only(loader.rootAgentID, "running")
        /\ Inbox(<<>>) \/ Inbox(<<Late>>)
     \/ /\ TxQ = <<>>
        /\ agents = Only(loader.rootAgentID, "ending")
        /\ Inbox(<<>>) \/ Inbox(<<Late>>)
     \/ /\ TxQ = <<>>
        /\ agents = NoAgent
        /\ \E id \in AgentIds : Inbox(<<Packet("DEAD", id)>>) \/ Inbox(<<Late, Packet("DEAD", id)>>)

Empty == Ending /\ Left /\ TxQ = <<>> /\ RxQ = <<>> /\ agents = NoAgent

\* The node has refused something, and the listener waits for ever.
Stuck ==
  /\ Listens
  /\ main = "free"
  /\ "failure" \in mishaps
  /\ \A id \in DOMAIN agents : agents[id] = "running"
  /\ TxQ = <<>>
  /\ Inbox(<<>>) \/ Inbox(<<Control("UPLOAD_ERROR")>>) \/ Inbox(<<Late>>)

Phase == Loading \/ Starting \/ Running \/ Killing \/ Empty \/ Stuck

Expected == mishaps \subseteq {"failure"}
ProtocolInv == Expected => Alone /\ node.next # Garbage /\ Phase

IInv == TypeInv /\ ThreadInv /\ ProtocolInv

-----------------------------------------------------------------------------
\* Packets, queues and agents.

UpMsg == {p \in UpPacket : Chunk(p)}
DownMsg == {p \in DownPacket : Announced(p)}

\* What a packet is made of.
LEMMA PacketFields ==
  /\ \A c, x : Packet(c, x).code = c /\ Packet(c, x).arg = x
  /\ \A c : Control(c).code = c /\ Control(c).arg = 0
  BY DEF Packet, Control

\* The packets the loader sends are well formed.
LEMMA UpTypes ==
  /\ \A c \in Upward : Control(c) \in UpMsg
  /\ \A x \in 0 .. Chunks : Packet("DATA", x) \in UpMsg
  /\ \A x \in AgentIds \cup {0} : Packet("KILL", x) \in UpMsg
  BY AppPillAssumption DEF Packet, Control, UpMsg, UpPacket, Upward, Chunk

\* So are those the node sends.
LEMMA DownTypes ==
  /\ \A c \in Downward \ {"STARTED"} : Control(c) \in DownMsg
  /\ \A id \in AgentIds : Packet("STARTED", id) \in DownMsg /\ Packet("DEAD", id) \in DownMsg
  BY AppPillAssumption DEF Packet, Control, DownMsg, DownPacket, Downward, Announced

\* Answers made of such packets keep the queue's type.
LEMMA AnswersType ==
  ASSUME RxQ \in Seq(DownMsg), NEW ps \in Seq(DownMsg), Answers(ps)
  PROVE  RxQ' \in Seq(DownMsg)
  BY DEF Answers

\* Queues of one and two packets.
LEMMA Short ==
  ASSUME NEW x, NEW y
  PROVE  /\ Head(<<x>>) = x /\ Tail(<<x>>) = << >> /\ <<x>> # << >>
         /\ Head(<<x, y>>) = x /\ Tail(<<x, y>>) = <<y>> /\ <<x, y>> # << >>
         /\ << >> \o <<x>> = <<x>> /\ << >> \o <<x, y>> = <<x, y>>
         /\ <<x>> \o <<y>> = <<x, y>>
         /\ Append(<< >>, x) = <<x>>
<1>1. Head(<<x>>) = x /\ <<x>> # << >> /\ Head(<<x, y>>) = x /\ <<x, y>> # << >>  OBVIOUS
<1>2. Tail(<<x>>) = << >>  OBVIOUS
<1>3. Tail(<<x, y>>) = <<y>>  OBVIOUS
<1>4. << >> \o <<x>> = <<x>>  OBVIOUS
<1>5. << >> \o <<x, y>> = <<x, y>>  OBVIOUS
<1>6. <<x>> \o <<y>> = <<x, y>>
  <2>1. <<x>> \in Seq({x, y}) /\ <<y>> \in Seq({x, y}) /\ <<x, y>> \in Seq({x, y})  OBVIOUS
  <2>2. /\ <<x>> \o <<y>> \in Seq({x, y}) /\ Len(<<x>> \o <<y>>) = 2
        /\ \A i \in 1 .. 2 : (<<x>> \o <<y>>)[i] = IF i <= 1 THEN <<x>>[i] ELSE <<y>>[i - 1]
    BY <2>1, ConcatProperties, Z3
  <2>3. \A i \in 1 .. Len(<<x>> \o <<y>>) : (<<x>> \o <<y>>)[i] = <<x, y>>[i]
    <3>1. (<<x>> \o <<y>>)[1] = x /\ (<<x>> \o <<y>>)[2] = y  BY <2>2
    <3> QED  BY <2>2, <3>1
  <2> DEFINE c == <<x>> \o <<y>>
             d == <<x, y>>
  <2>4. c \in Seq({x, y}) /\ d \in Seq({x, y}) /\ Len(c) = Len(d) /\ \A i \in 1 .. Len(c) : c[i] = d[i]
    BY <2>1, <2>2, <2>3
  <2> HIDE DEF c, d
  <2>5. c = d  BY <2>4, SeqEqual
  <2> QED  BY <2>5 DEF c, d
<1>7. Append(<< >>, x) = <<x>>  OBVIOUS
<1> QED  BY <1>1, <1>2, <1>3, <1>4, <1>5, <1>6, <1>7

\* A thread stays one when it is started, stopped, torn or given a packet.
LEMMA ThreadChanges ==
  ASSUME NEW t \in Thread
  PROVE  /\ [t EXCEPT !.pc = "take"] \in Thread
         /\ [t EXCEPT !.torn = TRUE] \in Thread
         /\ \A p \in DownPacket : [t EXCEPT !.pc = "handle", !.pkt = p] \in Thread
         /\ Dead \in Thread
  BY DEF Thread, Dead, Unborn, NoPacket

\* What the loader's fields are, and what may be written to them.
LEMMA LoaderChanges ==
  ASSUME NEW t \in Loader
  PROVE  /\ t.offset \in 0 .. Chunks /\ t.rootAgentID \in AgentIds \cup {0} /\ t.con \in 0 .. MaxListeners
         /\ \A b \in BOOLEAN : [t EXCEPT !.app_status = b] \in Loader
         /\ \A l \in Listener : [t EXCEPT !.app_status = TRUE, !.con = l] \in Loader
         /\ \A l \in Listener : [t EXCEPT !.app_status = FALSE, !.con = l, !.hosts = FALSE] \in Loader
         /\ [t EXCEPT !.state = "IDLE"] \in Loader
         /\ \A k \in 0 .. Chunks : [t EXCEPT !.offset = k] \in Loader
         /\ [t EXCEPT !.offset = 0, !.state = "RUNNING"] \in Loader
         /\ \A id \in AgentIds : [t EXCEPT !.hosts = TRUE, !.rootAgentID = id] \in Loader
         /\ [t EXCEPT !.hosts = FALSE] \in Loader
<1>1. \A l \in Listener : l \in 0 .. MaxListeners  BY DEF Listener
<1>2. 0 \in 0 .. Chunks  BY AppPillAssumption
<1> QED  BY <1>1, <1>2 DEF Loader

\* So is what may be written to the node's.
LEMMA NodeChanges ==
  ASSUME NEW n \in PoAppPillM, NEW k \in 0 .. Garbage, NEW u \in {"parsing", "finished", "error"}
  PROVE  [n EXCEPT !.next = k, !.upload = u] \in PoAppPillM
  BY DEF PoAppPillM

\* con.cancel() changes the interrupt flag of one thread.
LEMMA CancelledType ==
  ASSUME NEW ls \in [Listener -> Thread], loader.con \in 0 .. MaxListeners
  PROVE  /\ Cancelled(ls) \in [Listener -> Thread]
         /\ \A k \in Listener : /\ Cancelled(ls)[k].pc = ls[k].pc
                                /\ Cancelled(ls)[k].pkt = ls[k].pkt
                                /\ Cancelled(ls)[k].torn = ls[k].torn
                                /\ k # loader.con => Cancelled(ls)[k] = ls[k]
                                /\ k = loader.con => Cancelled(ls)[k].intr = (ls[k].pc # "dead")
<1> DEFINE c == loader.con
           b == ls[c].pc # "dead"
<1>1. CASE c \in Listener
  <2>1. Cancelled(ls) = [ls EXCEPT ![c] = [ls[c] EXCEPT !.intr = b]]  BY DEF Cancelled
  <2>2. ls[c] \in Thread /\ b \in BOOLEAN  BY <1>1
  <2> HIDE DEF b, c
  <2>3. [ls[c] EXCEPT !.intr = b] \in Thread  BY <2>2 DEF Thread
  <2>4. Cancelled(ls) \in [Listener -> Thread]  BY <2>1, <2>3
  <2>5. \A k \in Listener : Cancelled(ls)[k] = IF k = c THEN [ls[c] EXCEPT !.intr = b] ELSE ls[k]
    BY <1>1, <2>1
  <2>6. /\ [ls[c] EXCEPT !.intr = b].pc = ls[c].pc
        /\ [ls[c] EXCEPT !.intr = b].pkt = ls[c].pkt
        /\ [ls[c] EXCEPT !.intr = b].torn = ls[c].torn
        /\ [ls[c] EXCEPT !.intr = b].intr = b
    BY <2>2 DEF Thread
  <2> QED  BY <2>4, <2>5, <2>6 DEF b, c
<1>2. CASE c \notin Listener
  <2>1. Cancelled(ls) = ls  BY <1>2 DEF Cancelled
  <2> QED  BY <1>2, <2>1
<1> QED  BY <1>1, <1>2

\* A thread that has handled its packet goes back to its loop.
LEMMA DoneType ==
  ASSUME NEW l \in Listener, listener \in [Listener -> Thread]
  PROVE  /\ Done(l) \in [Listener -> Thread]
         /\ Done(l)[l].pc = "take" /\ Done(l)[l].pkt = NoPacket
         /\ Done(l)[l].intr = listener[l].intr /\ Done(l)[l].torn = listener[l].torn
         /\ \A k \in Listener \ {l} : Done(l)[k] = listener[k]
  BY DEF Done, Thread, NoPacket

-----------------------------------------------------------------------------
\* The types, and the threads' own invariant.

\* They hold of a phone on which nothing has been loaded.
LEMMA InitTypes == Init => TypeInv /\ ThreadInv
  BY AppPillAssumption
  DEF Init, TypeInv, ThreadInv, Thread, Loader, PoAppPillM, Unborn, NoPacket, Listener, Garbage,
      Control, Packet, DownPacket, UpPacket

\* Pressing a button.
LEMMA PressTypes ==
  ASSUME TypeInv, ThreadInv, PressStart \/ PressKill
  PROVE  TypeInv' /\ ThreadInv'
<1>1. mishaps' \subseteq {"press", "release", "failure"}
  BY DEF TypeInv, PressStart, PressKill, Pressed, BroughtAbout
<1>2. TxQ' \in Seq(UpMsg)
  <2>1. TxQ \in Seq(UpMsg)  BY DEF TypeInv, UpMsg
  <2>2. Control("START_UPLOAD") \in UpMsg /\ Packet("KILL", loader.rootAgentID) \in UpMsg
    BY UpTypes, LoaderChanges DEF TypeInv, Upward
  <2>3. TxQ' = TxQ \/ TxQ' = Append(TxQ, Control("START_UPLOAD"))
          \/ TxQ' = Append(TxQ, Packet("KILL", loader.rootAgentID))
    BY DEF PressStart, PressKill
  <2> QED  BY <2>1, <2>2, <2>3
<1>3. /\ main' \in {"free", "killing"}
      /\ loader' \in Loader
      /\ UNCHANGED <<RxQ, node, agents>>
  <2>1. loader \in Loader  BY DEF TypeInv
  <2>2. CASE PressStart
    <3>1. loader' = [loader EXCEPT !.app_status = TRUE]
            \/ \E l \in Listener : loader' = [loader EXCEPT !.app_status = TRUE, !.con = l]
      BY <2>2 DEF PressStart
    <3>2. loader' \in Loader  BY <2>1, <3>1, LoaderChanges
    <3> QED  BY <2>2, <3>2 DEF PressStart, TypeInv
  <2>3. CASE PressKill
    <3>1. loader' = [loader EXCEPT !.app_status = FALSE]
            \/ \E l \in Listener : loader' = [loader EXCEPT !.app_status = FALSE, !.con = l, !.hosts = FALSE]
      BY <2>3 DEF PressKill
    <3>2. loader' \in Loader  BY <2>1, <3>1, LoaderChanges
    <3> QED  BY <2>3, <3>2 DEF PressKill, TypeInv
  <2> QED  BY <2>2, <2>3
<1>4. CASE UNCHANGED listener /\ loader'.con = loader.con
  BY <1>1, <1>2, <1>3, <1>4 DEF TypeInv, ThreadInv, UpMsg
<1>5. CASE \E l \in Listener : NewPoUART(l) /\ loader'.con = l
  <2>1. PICK l \in Listener : NewPoUART(l) /\ loader'.con = l  BY <1>5
  <2>2. listener' = [listener EXCEPT ![l].pc = "take"] /\ listener[l] = Unborn
    BY <2>1 DEF NewPoUART, ThreadInv
  <2>3. listener' \in [Listener -> Thread]
    <3>1. listener' = [listener EXCEPT ![l] = [listener[l] EXCEPT !.pc = "take"]]
      BY <2>2
    <3>2. listener \in [Listener -> Thread]  BY DEF TypeInv
    <3> QED  BY <3>1, <3>2, ThreadChanges
  <2>4. /\ listener'[l].pc = "take" /\ listener'[l].pkt = NoPacket
        /\ \A k \in Listener \ {l} : listener'[k] = listener[k]
    BY <2>2 DEF TypeInv, Thread, NoPacket, Unborn
  <2>5. ThreadInv'
    BY <2>1, <2>4 DEF ThreadInv
  <2> QED  BY <1>1, <1>2, <1>3, <2>3, <2>5 DEF TypeInv, UpMsg
<1>6. (UNCHANGED listener /\ loader'.con = loader.con) \/ \E l \in Listener : NewPoUART(l) /\ loader'.con = l
  <2>1. loader \in Loader  BY DEF TypeInv
  <2>2. CASE PressStart  BY <2>1, <2>2 DEF PressStart, Loader
  <2>3. CASE PressKill  BY <2>1, <2>3 DEF PressKill, Loader
  <2> QED  BY <2>2, <2>3
<1> QED  BY <1>4, <1>5, <1>6

\* A listener takes a packet, alone or with another one, or stops.
LEMMA TakeTypes ==
  ASSUME TypeInv, ThreadInv, NEW l \in Listener,
         Stops(l) \/ Takes(l) \/ \E k \in Listener : Tear(l, k)
  PROVE  TypeInv' /\ ThreadInv'
<1> USE DEF TypeInv, Thread, NoPacket
<1>1. CASE Stops(l)
  <2>1. listener' \in [Listener -> Thread]  BY <1>1 DEF Stops, Dead, Unborn
  <2>2. ThreadInv'  BY <1>1 DEF Stops, Dead, Unborn, ThreadInv
  <2> QED  BY <1>1, <2>1, <2>2 DEF Stops
<1>2. CASE RxQ # << >> /\ RxQ' = Tail(RxQ)
  <2>1. Head(RxQ) \in DownPacket /\ Announced(Head(RxQ))  BY <1>2
  <2>2. RxQ' \in Seq(DownMsg)  BY <1>2 DEF DownMsg
  <2>3. CASE Takes(l)
    <3>1. listener' \in [Listener -> Thread]
      <4>1. \/ listener' = listener
            \/ listener' = [listener EXCEPT ![l] = [listener[l] EXCEPT !.pc = "handle", !.pkt = Head(RxQ)]]
        BY <2>3 DEF Takes
      <4>2. listener \in [Listener -> Thread]  OBVIOUS
      <4> HIDE DEF Thread, TypeInv
      <4>3. [listener[l] EXCEPT !.pc = "handle", !.pkt = Head(RxQ)] \in Thread
        BY <2>1, <4>2, ThreadChanges
      <4> QED  BY <4>1, <4>2, <4>3
    <3>2. ThreadInv'  BY <2>3, <2>1 DEF Takes, ThreadInv
    <3> QED  BY <2>2, <2>3, <3>1, <3>2 DEF Takes, DownMsg
  <2>4. CASE \E k \in Listener : Tear(l, k)
    <3>1. PICK k \in Listener : Tear(l, k)  BY <2>4
    <3>2. listener' \in [Listener -> Thread]
      <4>1. listener' = [[listener EXCEPT ![l] = [listener[l] EXCEPT !.torn = TRUE]]
                           EXCEPT ![k] = [listener[k] EXCEPT !.torn = TRUE]]
        BY <3>1 DEF Tear
      <4>2. listener \in [Listener -> Thread]  OBVIOUS
      <4> HIDE DEF Thread, TypeInv
      <4> QED  BY <3>1, <4>1, <4>2, ThreadChanges
    <3>3. ThreadInv'
      <4>1. \A j \in Listener : /\ listener'[j].pc = listener[j].pc
                                /\ listener'[j].pkt = listener[j].pkt
                                /\ listener[j].pc # "take" => listener'[j] = listener[j]
        BY <3>1 DEF Tear
      <4>2. loader' = loader  BY <3>1 DEF Tear
      <4> HIDE DEF TypeInv, Thread, NoPacket
      <4> QED  BY <4>1, <4>2 DEF ThreadInv
    <3> QED  BY <2>2, <3>1, <3>2, <3>3 DEF Tear, DownMsg
  <2>5. CASE Stops(l)  BY <1>1, <2>5
  <2> QED  BY <2>3, <2>4, <2>5
<1> QED  BY <1>1, <1>2 DEF Takes, Tear

\* A listener handles a packet.
LEMMA PacketReceivedTypes ==
  ASSUME TypeInv, ThreadInv, NEW l \in Listener, PacketReceived(l)
  PROVE  TypeInv' /\ ThreadInv'
<1> DEFINE p == listener[l].pkt
<1>1. p \in DownPacket /\ Announced(p) /\ listener \in [Listener -> Thread] /\ loader.con \in 0 .. MaxListeners
  BY LoaderChanges DEF PacketReceived, ThreadInv, TypeInv
<1>2. listener' = Done(l) \/ listener' = Cancelled(Done(l))
  BY DEF PacketReceived
<1>3. listener' \in [Listener -> Thread]
  BY <1>1, <1>2, DoneType, CancelledType
<1>4. /\ listener'[l].pc = "take" /\ listener'[l].pkt = NoPacket
      /\ \A k \in Listener \ {l} : /\ listener'[k].pc = listener[k].pc
                                   /\ listener'[k].pkt = listener[k].pkt
                                   /\ k # loader.con => listener'[k] = listener[k]
  BY <1>1, <1>2, DoneType, CancelledType
<1>5. NextChunk \in 0 .. Chunks
  <2>1. loader.offset \in 0 .. Chunks  BY LoaderChanges DEF TypeInv
  <2> QED  BY <2>1, AppPillAssumption DEF NextChunk, Padding
<1>6. /\ loader' \in Loader
      /\ loader'.con = loader.con
  <2>1. loader \in Loader  BY DEF TypeInv
  <2>2. \/ loader' = loader
        \/ \E k \in 0 .. Chunks : loader' = [loader EXCEPT !.offset = k]
        \/ loader' = [loader EXCEPT !.offset = 0, !.state = "RUNNING"]
        \/ \E id \in AgentIds : loader' = [loader EXCEPT !.hosts = TRUE, !.rootAgentID = id]
        \/ loader' = [loader EXCEPT !.hosts = FALSE]
    BY <1>1, <1>5 DEF PacketReceived, Uploaded, Announced
  <2>3. loader' \in Loader  BY <2>1, <2>2, LoaderChanges
  <2> QED  BY <2>1, <2>2, <2>3 DEF Loader
<1>7. TxQ' \in Seq(UpMsg)
  <2>1. TxQ \in Seq(UpMsg)  BY DEF TypeInv, UpMsg
  <2>2. Packet("DATA", NextChunk) \in UpMsg /\ Control("START") \in UpMsg
    BY <1>5, UpTypes DEF Upward
  <2>3. TxQ' = TxQ \/ TxQ' = Append(TxQ, Packet("DATA", NextChunk)) \/ TxQ' = Append(TxQ, Control("START"))
    BY DEF PacketReceived
  <2> QED  BY <2>1, <2>2, <2>3
<1>8. UNCHANGED <<main, RxQ, node, agents, mishaps>>  BY DEF PacketReceived
<1>9. ThreadInv'
  <2> SUFFICES ASSUME NEW k \in Listener
               PROVE  /\ listener'[k].pc = "handle" => listener'[k].pkt \in DownPacket /\ Announced(listener'[k].pkt)
                      /\ listener'[k].pc # "handle" => listener'[k].pkt = NoPacket
                      /\ listener'[k].pc = "none" => listener'[k] = Unborn /\ loader'.con # k
    BY DEF ThreadInv
  <2>1. CASE k = l  BY <2>1, <1>4
  <2>2. CASE k # l  BY <2>2, <1>4, <1>6 DEF ThreadInv
  <2> QED  BY <2>1, <2>2
<1> QED  BY <1>3, <1>6, <1>7, <1>8, <1>9 DEF TypeInv, UpMsg

\* The node handles a packet.
LEMMA NodeTypes ==
  ASSUME TypeInv, ThreadInv, NodeReceives
  PROVE  TypeInv' /\ ThreadInv'
<1> DEFINE p == Head(TxQ)
<1>1. /\ p \in UpMsg /\ TxQ' \in Seq(UpMsg) /\ RxQ \in Seq(DownMsg)
      /\ UNCHANGED <<main, loader, listener>>
  BY DEF NodeReceives, TypeInv, UpMsg, DownMsg
<1>2. \A c \in Downward \ {"STARTED"} : <<Control(c)>> \in Seq(DownMsg)
  BY DownTypes
<1>3. ThreadInv'
  BY <1>1 DEF ThreadInv
<1>4. SUFFICES /\ RxQ' \in Seq(DownMsg)
               /\ node' \in PoAppPillM
               /\ agents' \in [DOMAIN agents' -> {"running", "ending"}]
               /\ DOMAIN agents' \subseteq AgentIds
               /\ mishaps' \subseteq {"press", "release", "failure"}
  BY <1>1, <1>3 DEF TypeInv, UpMsg, DownMsg
<1>5. CASE StartUploadReceived
  <2>1. RxQ' \in Seq(DownMsg)
    BY <1>1, <1>2, <1>5, AnswersType DEF StartUploadReceived, Downward
  <2>2. node' \in PoAppPillM
    <3>1. 0 \in 0 .. Garbage  BY AppPillAssumption DEF Garbage
    <3>2. node \in PoAppPillM /\ node' = [node EXCEPT !.next = 0, !.upload = "parsing"]
      BY <1>5 DEF StartUploadReceived, TypeInv
    <3> QED  BY <3>1, <3>2, NodeChanges
  <2> QED  BY <1>5, <2>1, <2>2 DEF StartUploadReceived, TypeInv
<1>6. CASE p.code = "DATA" /\ ChunkReceived(p.arg)
  <2>1. RxQ' \in Seq(DownMsg)
    BY <1>1, <1>2, <1>6, AnswersType DEF ChunkReceived, Downward
  <2>2. p.arg \in 0 .. Chunks  BY <1>1, <1>6 DEF UpMsg, Chunk
  <2>3. node' \in PoAppPillM
    <3>1. node \in PoAppPillM /\ node' \in Parsed(p.arg)  BY <1>6 DEF TypeInv, ChunkReceived
    <3>2. \/ node' = node
          \/ \E u \in {"parsing", "finished", "error"}, k \in 0 .. Garbage :
               node' = [node EXCEPT !.next = k, !.upload = u]
      <4>1. p.arg \in 0 .. Garbage /\ Garbage \in 0 .. Garbage  BY <2>2, AppPillAssumption DEF Garbage
      <4>2. \/ node' = node
            \/ node' = [node EXCEPT !.next = p.arg, !.upload = IF p.arg = Chunks THEN "finished" ELSE "parsing"]
            \/ node' = [node EXCEPT !.next = p.arg, !.upload = "error"]
            \/ \E u \in {"parsing", "finished", "error"} : node' = [node EXCEPT !.next = Garbage, !.upload = u]
        BY <3>1 DEF Parsed
      <4> QED  BY <4>1, <4>2
    <3>3. CASE node' = node  BY <3>1, <3>3
    <3>4. ASSUME NEW u \in {"parsing", "finished", "error"}, NEW k \in 0 .. Garbage,
                 node' = [node EXCEPT !.next = k, !.upload = u]
          PROVE  node' \in PoAppPillM
      BY <3>1, <3>4, NodeChanges
    <3> QED  BY <3>2, <3>3, <3>4
  <2> QED  BY <1>6, <2>1, <2>3 DEF ChunkReceived, Fails, TypeInv
<1>7. CASE StartReceived
  <2>1. \A id \in AgentIds : /\ WithAgent(id) \in [DOMAIN WithAgent(id) -> {"running", "ending"}]
                             /\ DOMAIN WithAgent(id) \subseteq AgentIds
    BY DEF WithAgent, TypeInv
  <2>2. \A id \in AgentIds : <<Packet("STARTED", id), Control("START_ERROR")>> \in Seq(DownMsg)
    BY DownTypes DEF Downward
  <2>3. RxQ' \in Seq(DownMsg)
    BY <1>1, <1>2, <1>7, <2>2, AnswersType DEF StartReceived, RootAgentCreated, RootAgentFails, Downward
  <2>4. agents' = agents \/ \E id \in AgentIds : agents' = WithAgent(id)
    BY <1>7 DEF StartReceived, RootAgentCreated, RootAgentFails
  <2>5. agents' \in [DOMAIN agents' -> {"running", "ending"}] /\ DOMAIN agents' \subseteq AgentIds
    BY <2>1, <2>4 DEF TypeInv
  <2>6. node' = node /\ mishaps' \subseteq {"press", "release", "failure"}
    BY <1>7 DEF StartReceived, RootAgentCreated, RootAgentFails, Fails, TypeInv
  <2> QED  BY <2>3, <2>5, <2>6 DEF TypeInv
<1>8. CASE KillReceived(p.arg)
  <2>1. RxQ' \in Seq(DownMsg)
    BY <1>1, <1>2, <1>8, AnswersType DEF KillReceived, Downward
  <2>2. agents' \in [DOMAIN agents' -> {"running", "ending"}] /\ DOMAIN agents' \subseteq AgentIds
    BY <1>8 DEF KillReceived, TypeInv
  <2> QED  BY <1>8, <2>1, <2>2 DEF KillReceived, TypeInv
<1> QED  BY <1>5, <1>6, <1>7, <1>8 DEF NodeReceives

\* An agent ends on its own, or is gone.
LEMMA AgentTypes ==
  ASSUME TypeInv, ThreadInv, NEW id \in DOMAIN agents, AgentReleases(id) \/ AgentEnds(id)
  PROVE  TypeInv' /\ ThreadInv'
<1>1. CASE AgentReleases(id)
  BY <1>1 DEF AgentReleases, BroughtAbout, TypeInv, ThreadInv
<1>2. CASE AgentEnds(id)
  <2>1. id \in AgentIds /\ RxQ \in Seq(DownMsg)  BY DEF TypeInv, DownMsg
  <2>2. <<Packet("DEAD", id)>> \in Seq(DownMsg) /\ <<Packet("DEAD", id), Packet("DEAD", id)>> \in Seq(DownMsg)
    BY <2>1, DownTypes
  <2>3. RxQ' \in Seq(DownMsg)
    BY <1>2, <2>1, <2>2, AnswersType DEF AgentEnds
  <2> QED  BY <1>2, <2>3 DEF AgentEnds, TypeInv, ThreadInv, DownMsg
<1> QED  BY <1>1, <1>2

\* Every step keeps the types.
LEMMA NextTypes == TypeInv /\ ThreadInv /\ [Next]_vars => TypeInv' /\ ThreadInv'
<1> SUFFICES ASSUME TypeInv, ThreadInv, [Next]_vars PROVE TypeInv' /\ ThreadInv'  OBVIOUS
<1>1. CASE PressStart \/ PressKill  BY <1>1, PressTypes
<1>2. CASE KillReturns  
  <2>1. loader \in Loader /\ loader' \in Loader /\ loader'.con = loader.con
    BY <1>2, LoaderChanges DEF KillReturns, TypeInv, Loader
  <2> QED  BY <1>2, <2>1 DEF KillReturns, TypeInv, ThreadInv
<1>3. ASSUME NEW l \in Listener, PoUART(l) \/ \E k \in Listener : Tear(l, k)  PROVE TypeInv' /\ ThreadInv'
  BY <1>3, TakeTypes, PacketReceivedTypes DEF PoUART
<1>4. CASE NodeReceives  BY <1>4, NodeTypes
<1>5. CASE NodeIsReady  BY <1>5 DEF NodeIsReady, TypeInv, PoAppPillM, ThreadInv
<1>6. ASSUME NEW id \in DOMAIN agents, AgentReleases(id) \/ AgentEnds(id)  PROVE TypeInv' /\ ThreadInv'
  BY <1>6, AgentTypes
<1>7. CASE UNCHANGED vars  BY <1>7 DEF vars, TypeInv, ThreadInv
<1> QED  BY <1>1, <1>2, <1>3, <1>4, <1>5, <1>6, <1>7 DEF Next

-----------------------------------------------------------------------------
\* The protocol.

\* How the packet in hand and the queue make up the inbox.
LEMMA InFacts ==
  ASSUME NEW t, NEW q, NEW s
  PROVE  /\ In(t, q, << >>) <=> t.pc = "take" /\ q = << >>
         /\ In(t, q, s) /\ t.pc = "handle" => s # << >> /\ t.pkt = Head(s) /\ q = Tail(s)
         /\ In(t, q, s) => t.pc = "take" \/ t.pc = "handle"
         /\ In(t, q, s) /\ t.pc = "take" => q = s
         /\ t.pc = "take" => In(t, q, q)
         /\ t.pc = "handle" /\ s # << >> /\ t.pkt = Head(s) /\ q = Tail(s) => In(t, q, s)
  BY DEF In

\* What the protocol says, without the condition.
Orderly == Alone /\ node.next # Garbage /\ Phase

\* The thread that is alive is the last one made.
LEMMA OneListener ==
  ASSUME Alone, NEW l \in Listener, Alive(l)
  PROVE  l = loader.con /\ loader.con \in Listener
  BY DEF Alone

\* A button that is pressed before the last operation has ended is a mishap.
LEMMA PressedQuietly ==
  ASSUME Pressed, Expected'
  PROVE  Quiet /\ UNCHANGED mishaps
  BY DEF Pressed, Expected, BroughtAbout

\* Nothing that the protocol is about has changed.
LEMMA Unchanged ==
  ASSUME Orderly, UNCHANGED <<main, listener, TxQ, RxQ, agents, mishaps>>,
         loader' = loader \/ \E b \in BOOLEAN : loader' = [loader EXCEPT !.app_status = b],
         loader \in Loader,
         node'.next = node.next, node'.upload = node.upload
  PROVE  Orderly'
<1>1. /\ loader'.state = loader.state /\ loader'.hosts = loader.hosts /\ loader'.offset = loader.offset
      /\ loader'.rootAgentID = loader.rootAgentID /\ loader'.con = loader.con
  BY DEF Loader
<1>2. Alone' /\ node'.next # Garbage
  BY <1>1 DEF Orderly, Alone, Alive
<1>3. /\ Listens' <=> Listens
      /\ Ending' <=> Ending
      /\ Left' <=> Left
  BY <1>1 DEF Listens, Ending, Left, Alive
<1>4. \A s : In(listener'[loader'.con], RxQ', s) <=> In(listener[loader.con], RxQ, s)
  BY <1>1
<1>5. Loading => Loading'  BY <1>1, <1>3, <1>4 DEF Loading, Inbox
<1>6. Starting => Starting'  BY <1>1, <1>3, <1>4 DEF Starting, Inbox
<1>7. Running => Running'  BY <1>1, <1>3 DEF Running
<1>8. Killing => Killing'  BY <1>1, <1>3, <1>4 DEF Killing, Inbox
<1>9. Empty => Empty'  BY <1>1, <1>3 DEF Empty
<1>10. Stuck => Stuck'  BY <1>1, <1>3, <1>4 DEF Stuck, Inbox
<1> QED  BY <1>2, <1>5, <1>6, <1>7, <1>8, <1>9, <1>10 DEF Orderly, Phase

\* Pressing a button when the loader rests.
LEMMA PressOrderly ==
  ASSUME TypeInv, ThreadInv, Orderly, PressStart \/ PressKill, Expected'
  PROVE  Orderly'
<1>1. Quiet /\ UNCHANGED <<mishaps, RxQ, node, agents>> /\ main = "free" /\ loader \in Loader
  BY PressedQuietly DEF PressStart, PressKill, TypeInv
<1>2. Running \/ Empty
  BY <1>1 DEF Orderly, Phase, Loading, Starting, Killing, Stuck, Listens, Quiet
<1>3. CASE UNCHANGED <<main, listener, TxQ>> /\ \E b \in BOOLEAN : loader' = [loader EXCEPT !.app_status = b]
  BY <1>1, <1>3, Unchanged
<1>4. ASSUME NEW l \in Listener, NewPoUART(l), loader'.con = l
      PROVE  /\ Listens' /\ Alone'
             /\ listener'[loader'.con].pc = "take"
             /\ \A s : In(listener'[loader'.con], s, s)
  <2>1. listener' = [listener EXCEPT ![l].pc = "take"] /\ listener[l] = Unborn
    BY <1>4 DEF NewPoUART, ThreadInv
  <2>2. /\ listener'[l].pc = "take" /\ ~listener'[l].intr /\ ~listener'[l].torn
        /\ \A k \in Listener \ {l} : listener'[k] = listener[k]
    BY <2>1 DEF TypeInv, Thread, Unborn
  <2>3. \A k \in Listener \ {l} : listener'[k].pc \in {"none", "dead"} /\ ~listener'[k].torn
    BY <1>1, <2>2 DEF Quiet, Alive, Orderly, Alone
  <2> QED  BY <1>4, <2>2, <2>3, InFacts DEF Listens, Alone, Alive
<1>5. CASE PressStart /\ Empty
  <2>1. loader.state = "IDLE"  BY <1>1, <1>5 DEF Empty, Left
  <2>2. PICK l \in Listener : NewPoUART(l) /\ loader' = [loader EXCEPT !.app_status = TRUE, !.con = l]
    BY <1>5, <2>1 DEF PressStart
  <2>3. /\ loader'.con = l /\ loader'.state = "IDLE" /\ loader'.offset = 0 /\ ~loader'.hosts
    BY <1>1, <1>5, <2>1, <2>2 DEF Loader, Empty, Left
  <2>4. TxQ' = <<Control("START_UPLOAD")>> /\ RxQ' = << >> /\ agents' = NoAgent /\ main' = "free"
    BY <1>1, <1>5, <2>1, Short DEF PressStart, Empty
  <2>5. Loading'
    BY <1>4, <2>2, <2>3, <2>4 DEF Loading, Inbox
  <2> QED  BY <1>1, <1>4, <2>2, <2>3, <2>5 DEF Orderly, Phase
<1>6. CASE PressKill /\ Running
  <2>1. loader.state = "RUNNING"  BY <1>6 DEF Running
  <2>2. PICK l \in Listener :
          NewPoUART(l) /\ loader' = [loader EXCEPT !.app_status = FALSE, !.con = l, !.hosts = FALSE]
    BY <1>6, <2>1 DEF PressKill
  <2>3. /\ loader'.con = l /\ ~loader'.hosts /\ loader'.offset = 0
        /\ loader'.rootAgentID = loader.rootAgentID
    BY <1>1, <1>6, <2>2 DEF Loader, Running
  <2>4. /\ TxQ' = <<Packet("KILL", loader.rootAgentID)>> /\ RxQ' = <<Late>> /\ main' = "killing"
        /\ agents' = Only(loader.rootAgentID, "running")
    BY <1>1, <1>6, <2>1, Short DEF PressKill, Running
  <2>5. In(listener'[loader'.con], RxQ', <<Late>>)
    BY <1>4, <2>2, <2>3, <2>4
  <2>6. Killing'
    BY <1>4, <2>2, <2>3, <2>4, <2>5 DEF Killing, Left, Inbox
  <2> QED  BY <1>1, <1>4, <2>2, <2>3, <2>6 DEF Orderly, Phase
<1>7. CASE PressStart /\ Running
  BY <1>1, <1>3, <1>7 DEF PressStart, Running
<1>8. CASE PressKill /\ Empty
  BY <1>1, <1>3, <1>8 DEF PressKill, Empty, Left
<1> QED  BY <1>2, <1>5, <1>6, <1>7, <1>8

\* killRunningApp() returns.
LEMMA KillReturnsOrderly ==
  ASSUME TypeInv, Orderly, KillReturns
  PROVE  Orderly'
<1>1. /\ main = "killing" /\ main' = "free" /\ loader' = [loader EXCEPT !.state = "IDLE"]
      /\ UNCHANGED <<listener, TxQ, RxQ, node, agents, mishaps>>
  BY DEF KillReturns
<1>2. /\ loader'.state = "IDLE" /\ loader'.hosts = loader.hosts /\ loader'.offset = loader.offset
      /\ loader'.rootAgentID = loader.rootAgentID /\ loader'.con = loader.con
  BY <1>1 DEF TypeInv, Loader
<1>3. Killing \/ Empty
  BY <1>1 DEF Orderly, Phase, Loading, Starting, Running, Stuck
<1>4. Alone' /\ node'.next # Garbage
  BY <1>1, <1>2 DEF Orderly, Alone, Alive
<1>5. Left => Left'
  BY <1>1, <1>2 DEF Left
<1>6. \A s : In(listener'[loader'.con], RxQ', s) <=> In(listener[loader.con], RxQ, s)
  BY <1>1, <1>2
<1>7. Killing => Killing'
  BY <1>1, <1>2, <1>5, <1>6 DEF Killing, Listens, Alive, Inbox
<1>8. Empty => Empty'
  BY <1>1, <1>2, <1>5 DEF Empty, Ending
<1> QED  BY <1>3, <1>4, <1>7, <1>8 DEF Orderly, Phase

\* The interrupted thread stops.
LEMMA StopsOrderly ==
  ASSUME TypeInv, Orderly, NEW l \in Listener, Stops(l)
  PROVE  Orderly'
<1>1. /\ listener[l].pc = "take" /\ listener[l].intr
      /\ listener' = [listener EXCEPT ![l] = Dead]
      /\ UNCHANGED <<main, loader, TxQ, RxQ, node, agents, mishaps>>
  BY DEF Stops
<1>2. l = loader.con /\ loader.con \in Listener
  BY <1>1, OneListener DEF Orderly, Alive
<1>3. /\ listener'[l].pc = "dead" /\ ~listener'[l].torn
      /\ \A k \in Listener \ {l} : listener'[k] = listener[k]
  BY <1>1 DEF TypeInv, Dead, Unborn
<1>4. Running \/ Empty
  BY <1>1, <1>2 DEF Orderly, Phase, Loading, Starting, Killing, Stuck, Listens
<1>5. Alone' /\ Ending' /\ node'.next # Garbage
  BY <1>1, <1>2, <1>3 DEF Orderly, Alone, Alive, Ending
<1>6. Running => Running'  BY <1>1, <1>5 DEF Running
<1>7. Empty => Empty'  BY <1>1, <1>5 DEF Empty, Left
<1> QED  BY <1>4, <1>5, <1>6, <1>7 DEF Orderly, Phase

\* The listener takes a packet off the queue.
LEMMA TakesOrderly ==
  ASSUME TypeInv, Orderly, NEW l \in Listener, Takes(l)
  PROVE  Orderly'
<1>1. l = loader.con /\ loader.con \in Listener /\ ~listener[l].torn
  BY OneListener DEF Orderly, Takes, Alive, Alone
<1>2. /\ listener[l].pc = "take" /\ ~listener[l].intr /\ RxQ # << >> /\ RxQ' = Tail(RxQ)
      /\ listener' = [listener EXCEPT ![l].pc = "handle", ![l].pkt = Head(RxQ)]
      /\ UNCHANGED <<main, loader, TxQ, node, agents, mishaps>>
  BY <1>1 DEF Takes
<1>3. /\ listener'[l].pc = "handle" /\ listener'[l].pkt = Head(RxQ)
      /\ ~listener'[l].intr /\ ~listener'[l].torn
      /\ \A k \in Listener \ {l} : listener'[k] = listener[k]
  BY <1>1, <1>2 DEF TypeInv, Thread
<1>4. \A s : In(listener[loader.con], RxQ, s) => In(listener'[loader'.con], RxQ', s)
  BY <1>1, <1>2, <1>3 DEF In
<1>5. ~Ending
  BY <1>1, <1>2 DEF Ending
<1>6. Alone' /\ Listens' /\ node'.next # Garbage /\ (Left => Left')
  BY <1>1, <1>2, <1>3 DEF Orderly, Alone, Alive, Listens, Left
<1>7. Loading => Loading'  BY <1>2, <1>4, <1>6 DEF Loading, Inbox
<1>8. Starting => Starting'  BY <1>2, <1>4, <1>6 DEF Starting, Inbox
<1>9. Killing => Killing'  BY <1>2, <1>4, <1>6 DEF Killing, Inbox
<1>10. Stuck => Stuck'  BY <1>2, <1>4, <1>6 DEF Stuck, Inbox
<1> QED  BY <1>5, <1>6, <1>7, <1>8, <1>9, <1>10 DEF Orderly, Phase, Running, Empty

\* The listener handles the packet in hand: each phase has at most one that makes
\* a difference.
LEMMA PacketReceivedOrderly ==
  ASSUME TypeInv, Orderly, NEW l \in Listener, PacketReceived(l)
  PROVE  Orderly'
<1> DEFINE p == listener[l].pkt
<1>1. /\ l = loader.con /\ loader.con \in Listener /\ ~listener[l].torn
      /\ listener[l].pc = "handle" /\ loader \in Loader /\ listener \in [Listener -> Thread]
      /\ UNCHANGED <<main, RxQ, node, agents, mishaps>>
  BY OneListener DEF Orderly, PacketReceived, Alive, Alone, TypeInv
<1>2. \A s : Inbox(s) => s # << >> /\ p = Head(s) /\ RxQ' = Tail(s)
  BY <1>1, InFacts DEF Inbox
<1>3. ~Inbox(<< >>)
  BY <1>2
<1>4. ~Ending
  BY <1>1 DEF Ending
<1>5. /\ Done(l)[l].pc = "take" /\ Done(l)[l].intr = listener[l].intr /\ ~Done(l)[l].torn
      /\ Done(l) \in [Listener -> Thread]
      /\ \A k \in Listener \ {l} : Done(l)[k] = listener[k]
  BY <1>1, DoneType
<1>6. ASSUME listener' = Done(l), loader'.con = loader.con, Listens
      PROVE  Alone' /\ Listens' /\ In(listener'[loader'.con], RxQ', RxQ')
  <2>1. Alone'  BY <1>1, <1>5, <1>6 DEF Orderly, Alone, Alive
  <2>2. Listens'  BY <1>1, <1>5, <1>6 DEF Listens, Alive
  <2>3. In(listener'[loader'.con], RxQ', RxQ')  BY <1>1, <1>5, <1>6 DEF In
  <2> QED  BY <2>1, <2>2, <2>3
<1>7. ASSUME listener' = Cancelled(Done(l)), loader'.con = loader.con
      PROVE  Alone' /\ Ending'
  <2>1. loader.con \in 0 .. MaxListeners  BY <1>1, LoaderChanges
  <2>2. \A k \in Listener : /\ listener'[k].pc = Done(l)[k].pc /\ listener'[k].torn = Done(l)[k].torn
                            /\ k = loader.con => listener'[k].intr = (Done(l)[k].pc # "dead")
    BY <1>5, <1>7, <2>1, CancelledType
  <2>3. Alone'  BY <1>1, <1>5, <1>7, <2>2 DEF Orderly, Alone, Alive
  <2>4. listener'[loader.con].pc = "take" /\ listener'[loader.con].intr  BY <1>1, <1>5, <2>2
  <2>5. Ending'  BY <1>7, <2>4 DEF Ending
  <2> QED  BY <2>3, <2>5
<1>8. node'.next # Garbage
  BY <1>1 DEF Orderly
<1>9. CASE Loading /\ loader.state = "IDLE" /\ TxQ = << >> /\ Inbox(<<Control("READY")>>)
           /\ loader.offset = node.next /\ node.upload = "parsing" /\ node.next < Chunks
  <2>1. p = Control("READY") /\ RxQ' = << >>  BY <1>2, <1>9, Short
  <2>2. p.code = "READY"  BY <2>1, PacketFields
  <2>3. node.next \in Nat  BY AppPillAssumption DEF TypeInv, PoAppPillM, Garbage
  <2>4. NextChunk = node.next + 1 /\ NextChunk # Padding
    BY <1>9, <2>3 DEF NextChunk, Padding
  <2>5. /\ loader' = [loader EXCEPT !.offset = node.next + 1]
        /\ TxQ' = <<Packet("DATA", node.next + 1)>>
        /\ listener' = Done(l)
    BY <1>9, <2>2, <2>4, Short DEF PacketReceived
  <2>6. /\ loader'.offset = node.next + 1 /\ loader'.con = loader.con
        /\ loader'.state = "IDLE" /\ loader'.hosts = loader.hosts
    BY <1>1, <1>9, <2>5 DEF Loader
  <2>7. Loading'
    BY <1>1, <1>6, <1>9, <2>1, <2>5, <2>6 DEF Loading, Inbox
  <2> QED  BY <1>6, <1>8, <1>9, <2>5, <2>6, <2>7 DEF Orderly, Phase, Loading
<1>10. CASE Loading /\ loader.state = "IDLE" /\ TxQ = << >> /\ Inbox(<<Control("FINISHED")>>)
  <2>1. p = Control("FINISHED") /\ RxQ' = << >>  BY <1>2, <1>10, Short
  <2>2. p.code = "FINISHED"  BY <2>1, PacketFields
  <2>3. loader' = Uploaded /\ TxQ' = <<Control("START")>> /\ listener' = Done(l)
    BY <1>10, <2>2, Short DEF PacketReceived
  <2>4. /\ loader'.offset = 0 /\ loader'.con = loader.con
        /\ loader'.state = "RUNNING" /\ loader'.hosts = loader.hosts
    BY <1>1, <2>3 DEF Loader, Uploaded
  <2>5. Loading'
    BY <1>1, <1>6, <1>10, <2>1, <2>3, <2>4 DEF Loading, Inbox
  <2> QED  BY <1>6, <1>8, <1>10, <2>3, <2>4, <2>5 DEF Orderly, Phase, Loading
<1>11. CASE Starting
  <2>1. PICK id \in AgentIds : agents = Only(id, "running") /\ Inbox(<<Packet("STARTED", id), Late>>)
    BY <1>11 DEF Starting
  <2>2. p = Packet("STARTED", id) /\ RxQ' = <<Late>>
    <3> DEFINE x == Packet("STARTED", id)
    <3>1. Head(<<x, Late>>) = x /\ Tail(<<x, Late>>) = <<Late>>  BY Short
    <3> HIDE DEF x
    <3>2. p = Head(<<x, Late>>) /\ RxQ' = Tail(<<x, Late>>)  BY <1>2, <2>1 DEF x
    <3> QED  BY <3>1, <3>2 DEF x
  <2>3. p.code = "STARTED" /\ p.arg = id  BY <2>2, PacketFields
  <2>4. loader' = [loader EXCEPT !.hosts = TRUE, !.rootAgentID = id] /\ listener' = Cancelled(Done(l)) /\ TxQ' = TxQ
    BY <2>3 DEF PacketReceived
  <2>5. /\ loader'.hosts /\ loader'.rootAgentID = id /\ loader'.con = loader.con
        /\ loader'.state = loader.state /\ loader'.offset = loader.offset
    BY <1>1, <2>4 DEF Loader
  <2>6. Running'
    BY <1>1, <1>7, <1>11, <2>1, <2>2, <2>4, <2>5 DEF Starting, Running
  <2> QED  BY <1>7, <1>8, <2>4, <2>5, <2>6 DEF Orderly, Phase
<1>12. CASE Killing /\ Inbox(<<Late>>)
             /\ \/ TxQ = <<Packet("KILL", loader.rootAgentID)>> /\ agents = Only(loader.rootAgentID, "running")
                \/ TxQ = << >> /\ agents = Only(loader.rootAgentID, "ending")
  <2>1. p = Late /\ RxQ' = << >>  BY <1>2, <1>12, Short
  <2>2. p.code = "START_ERROR"  BY <2>1, PacketFields DEF Late
  <2>3. listener' = Done(l) /\ UNCHANGED <<loader, TxQ>>  BY <2>2 DEF PacketReceived
  <2>4. Killing'
    BY <1>1, <1>6, <1>12, <2>1, <2>3 DEF Killing, Left, Inbox
  <2> QED  BY <1>6, <1>8, <1>12, <2>3, <2>4 DEF Orderly, Phase, Killing
<1>13. ASSUME NEW id \in AgentIds, Killing, TxQ = << >>, agents = NoAgent, Inbox(<<Late, Packet("DEAD", id)>>)
       PROVE  Orderly'
  <2>1. p = Late /\ RxQ' = <<Packet("DEAD", id)>>
    <3> DEFINE x == Packet("DEAD", id)
    <3>1. Head(<<Late, x>>) = Late /\ Tail(<<Late, x>>) = <<x>>  BY Short
    <3> HIDE DEF x
    <3>2. p = Head(<<Late, x>>) /\ RxQ' = Tail(<<Late, x>>)  BY <1>2, <1>13 DEF x
    <3> QED  BY <3>1, <3>2 DEF x
  <2>2. p.code = "START_ERROR"  BY <2>1, PacketFields DEF Late
  <2>3. listener' = Done(l) /\ UNCHANGED <<loader, TxQ>>  BY <2>2 DEF PacketReceived
  <2>4. Killing'
    BY <1>1, <1>6, <1>13, <2>1, <2>3 DEF Killing, Left, Inbox
  <2> QED  BY <1>6, <1>8, <1>13, <2>3, <2>4 DEF Orderly, Phase, Killing
<1>14. ASSUME NEW id \in AgentIds, Killing, TxQ = << >>, agents = NoAgent, Inbox(<<Packet("DEAD", id)>>)
       PROVE  Orderly'
  <2>1. p = Packet("DEAD", id) /\ RxQ' = << >>  BY <1>2, <1>14, Short
  <2>2. p.code = "DEAD"  BY <2>1, PacketFields
  <2>3. loader' = [loader EXCEPT !.hosts = FALSE] /\ listener' = Cancelled(Done(l)) /\ TxQ' = TxQ
    BY <2>2 DEF PacketReceived
  <2>4. /\ ~loader'.hosts /\ loader'.con = loader.con
        /\ loader'.state = loader.state /\ loader'.offset = loader.offset
    BY <1>1, <2>3 DEF Loader
  <2>5. Empty'
    BY <1>1, <1>7, <1>14, <2>1, <2>3, <2>4 DEF Killing, Empty, Left
  <2> QED  BY <1>7, <1>8, <2>3, <2>4, <2>5 DEF Orderly, Phase
<1>15. CASE Stuck
  <2>1. PICK c \in {"UPLOAD_ERROR", "START_ERROR"} : Inbox(<<Control(c)>>)
    BY <1>3, <1>15 DEF Stuck, Late
  <2>2. p = Control(c) /\ RxQ' = << >>  BY <1>2, <2>1, Short
  <2>3. p.code \in {"UPLOAD_ERROR", "START_ERROR"}  BY <2>2, PacketFields
  <2>4. listener' = Done(l) /\ UNCHANGED <<loader, TxQ>>  BY <2>3 DEF PacketReceived
  <2>5. Stuck'
    BY <1>1, <1>6, <1>15, <2>2, <2>4 DEF Stuck, Inbox
  <2> QED  BY <1>6, <1>8, <1>15, <2>4, <2>5 DEF Orderly, Phase, Stuck
<1>16. CASE Loading
  BY <1>3, <1>9, <1>10, <1>16 DEF Loading
<1>17. CASE Killing
  BY <1>3, <1>12, <1>13, <1>14, <1>17 DEF Killing
<1> QED  BY <1>4, <1>11, <1>15, <1>16, <1>17 DEF Orderly, Phase, Running, Empty

\* The node answers.  What it takes for its own failure leaves the listener waiting.
LEMMA NodeReceivesOrderly ==
  ASSUME TypeInv, Orderly, NodeReceives, Expected
  PROVE  Orderly'
<1> DEFINE p == Head(TxQ)
           t == listener[loader.con]
<1>1. TxQ # << >> /\ TxQ' = Tail(TxQ) /\ UNCHANGED <<main, loader, listener>>
  BY DEF NodeReceives
<1>2. ASSUME NEW x, TxQ = <<x>>
      PROVE  p = x /\ TxQ' = << >>
  BY <1>1, <1>2, Short
<1>3. Inbox(<< >>) => t.pc = "take" /\ RxQ = << >>
  BY InFacts DEF Inbox
<1>4. /\ Alone' /\ (Listens => Listens') /\ (Left => Left')
  BY <1>1 DEF Orderly, Alone, Listens, Left, Alive
<1>5. ASSUME Listens, main = "free", TxQ' = << >>, Inbox(<< >>), node'.next # Garbage,
             "failure" \in mishaps', \A id \in DOMAIN agents' : agents'[id] = "running",
             RxQ' = << >> \/ RxQ' = <<Control("UPLOAD_ERROR")>> \/ RxQ' = <<Late>>
      PROVE  Orderly'
  <2>1. In(listener'[loader'.con], RxQ', RxQ')  BY <1>1, <1>3, <1>5 DEF In
  <2>2. Stuck'  BY <1>1, <1>4, <1>5, <2>1 DEF Stuck, Inbox
  <2> QED  BY <1>4, <1>5, <2>2 DEF Orderly, Phase
<1>6. CASE Loading /\ loader.state = "IDLE" /\ loader.offset = 0
           /\ TxQ = <<Control("START_UPLOAD")>> /\ Inbox(<< >>)
  <2>1. p.code = "START_UPLOAD" /\ TxQ' = << >>  BY <1>2, <1>6, PacketFields
  <2>2. StartUploadReceived  BY <2>1 DEF NodeReceives
  <2>3. RxQ' = <<Control("READY")>>
    BY <1>3, <1>6, <2>2, Short DEF StartUploadReceived, Answers
  <2>4. node'.next = 0 /\ node'.upload = "parsing" /\ agents' = agents
    BY <2>2 DEF StartUploadReceived, TypeInv, PoAppPillM
  <2>5. In(listener'[loader'.con], RxQ', <<Control("READY")>>)
    BY <1>1, <1>3, <1>6, <2>3 DEF In
  <2>6. 0 < Chunks /\ 0 # Garbage  BY AppPillAssumption DEF Garbage
  <2>7. Loading'
    BY <1>1, <1>4, <1>6, <2>1, <2>4, <2>5, <2>6 DEF Loading, Inbox
  <2> QED  BY <1>4, <2>4, <2>6, <2>7 DEF Orderly, Phase
<1>7. CASE Loading /\ loader.state = "IDLE" /\ loader.offset = node.next + 1
           /\ node.upload = "parsing" /\ node.next < Chunks
           /\ TxQ = <<Packet("DATA", loader.offset)>> /\ Inbox(<< >>)
  <2>1. p.code = "DATA" /\ p.arg = node.next + 1 /\ TxQ' = << >>  BY <1>2, <1>7, PacketFields
  <2>2. ChunkReceived(node.next + 1)  BY <2>1 DEF NodeReceives
  <2>3. node.next \in Nat /\ node.next + 1 # Garbage
    BY <1>7, AppPillAssumption DEF TypeInv, PoAppPillM, Garbage
  <2>4. \/ node' = [node EXCEPT !.next = node.next + 1,
                               !.upload = IF node.next + 1 = Chunks THEN "finished" ELSE "parsing"]
        \/ node' = [node EXCEPT !.next = node.next + 1, !.upload = "error"]
    BY <1>7, <2>2 DEF ChunkReceived, Parsed
  <2>5. /\ node'.next = node.next + 1
        /\ node'.upload = "parsing" => node'.next < Chunks
    <3>1. node \in PoAppPillM  BY DEF TypeInv
    <3>2. CASE node.next + 1 = Chunks
      BY <2>4, <3>1, <3>2 DEF PoAppPillM
    <3>3. CASE node.next + 1 # Chunks
      <4>1. node.next + 1 < Chunks  BY <1>7, <2>3, <3>3, AppPillAssumption
      <4> QED  BY <2>4, <3>1, <3>3, <4>1 DEF PoAppPillM
    <3> QED  BY <3>2, <3>3
  <2>6. agents' = NoAgent /\ main = "free" /\ Listens  BY <1>7, <2>2 DEF ChunkReceived, Loading
  <2>7. \A c : Answers(<<Control(c)>>) =>
          RxQ' = <<Control(c)>> /\ In(listener'[loader'.con], RxQ', <<Control(c)>>)
    BY <1>1, <1>3, <1>7, Short DEF Answers, In
  <2>8. CASE node'.upload = "parsing" /\ Answers(<<Control("READY")>>)
    <3>1. Loading'
      BY <1>1, <1>4, <1>7, <2>1, <2>5, <2>6, <2>7, <2>8 DEF Loading, Inbox
    <3> QED  BY <1>4, <2>3, <2>5, <3>1 DEF Orderly, Phase
  <2>9. CASE Answers(<<Control("FINISHED")>>)
    <3>1. Loading'
      BY <1>1, <1>4, <1>7, <2>1, <2>6, <2>7, <2>9 DEF Loading, Inbox
    <3> QED  BY <1>4, <2>3, <2>5, <3>1 DEF Orderly, Phase
  <2>10. CASE Answers(<<Control("UPLOAD_ERROR")>>) /\ Fails
    <3>1. "failure" \in mishaps'  BY <2>10 DEF Fails
    <3>2. \A id \in DOMAIN agents' : agents'[id] = "running"  BY <2>6 DEF NoAgent
    <3> QED  BY <1>5, <1>7, <2>1, <2>3, <2>5, <2>6, <2>7, <2>10, <3>1, <3>2
  <2> QED  BY <2>2, <2>8, <2>9, <2>10 DEF ChunkReceived
<1>8. CASE Loading /\ loader.state = "RUNNING" /\ loader.offset = 0
           /\ TxQ = <<Control("START")>> /\ Inbox(<< >>)
  <2>1. p.code = "START" /\ TxQ' = << >>  BY <1>2, <1>8, PacketFields
  <2>2. StartReceived  BY <2>1 DEF NodeReceives
  <2>3. /\ node' = node /\ node'.next # Garbage /\ agents = NoAgent /\ main = "free" /\ Listens /\ ~loader.hosts
    BY <1>8, <2>2 DEF StartReceived, Orderly, Loading
  <2>4. \A id \in DOMAIN agents : agents[id] = "running"  BY <2>3 DEF NoAgent
  <2>5. ASSUME NEW id \in AgentIds, agents' = WithAgent(id)
        PROVE  agents' = Only(id, "running") /\ \A a \in DOMAIN agents' : agents'[a] = "running"
    BY <2>3, <2>5 DEF WithAgent, NoAgent, Only
  <2>6. CASE RootAgentCreated
    <3>1. PICK id \in AgentIds : agents' = WithAgent(id) /\ Answers(<<Packet("STARTED", id), Late>>)
      BY <2>6 DEF RootAgentCreated, Late
    <3>2. RxQ' = <<Packet("STARTED", id), Late>>
      BY <1>3, <1>8, <3>1, Short DEF Answers
    <3>3. In(listener'[loader'.con], RxQ', <<Packet("STARTED", id), Late>>)
      BY <1>1, <1>3, <1>8, <3>2 DEF In
    <3>4. Starting'
      BY <1>1, <1>4, <1>8, <2>1, <2>3, <2>5, <3>1, <3>3 DEF Starting, Inbox
    <3> QED  BY <1>4, <2>3, <3>4 DEF Orderly, Phase
  <2>7. CASE RootAgentFails
    <3>1. agents' = agents \/ \E id \in AgentIds : agents' = WithAgent(id)  BY <2>7 DEF RootAgentFails
    <3>2. \A id \in DOMAIN agents' : agents'[id] = "running"  BY <2>4, <2>5, <3>1
    <3>3. RxQ' = << >> /\ "failure" \in mishaps'  BY <1>3, <1>8, <2>7 DEF RootAgentFails, Fails
    <3> QED  BY <1>5, <1>8, <2>1, <2>3, <3>2, <3>3
  <2>8. CASE Answers(<<Control("START_ERROR")>>) /\ Fails /\ UNCHANGED agents
    <3>1. RxQ' = <<Late>>  BY <1>3, <1>8, <2>8, Short DEF Answers, Late
    <3>2. "failure" \in mishaps'  BY <2>8 DEF Fails
    <3> QED  BY <1>5, <1>8, <2>1, <2>3, <2>4, <2>8, <3>1, <3>2
  <2> QED  BY <2>2, <2>6, <2>7, <2>8 DEF StartReceived
<1>9. CASE Killing /\ TxQ = <<Packet("KILL", loader.rootAgentID)>> /\ agents = Only(loader.rootAgentID, "running")
           /\ (Inbox(<< >>) \/ Inbox(<<Late>>))
  <2>1. p.code = "KILL" /\ p.arg = loader.rootAgentID /\ TxQ' = << >>  BY <1>2, <1>9, PacketFields
  <2>2. KillReceived(loader.rootAgentID)  BY <2>1 DEF NodeReceives
  <2>3. loader.rootAgentID \in DOMAIN agents /\ agents[loader.rootAgentID] = "running"
    BY <1>9 DEF Only
  <2>4. UNCHANGED <<node, RxQ>> /\ agents' = [agents EXCEPT ![loader.rootAgentID] = "ending"]
    BY <2>2, <2>3 DEF KillReceived
  <2>5. agents' = Only(loader'.rootAgentID, "ending")  BY <1>1, <1>9, <2>4 DEF Only
  <2>6. Killing'
    BY <1>1, <1>4, <1>9, <2>1, <2>4, <2>5 DEF Killing, Inbox
  <2> QED  BY <1>4, <2>4, <2>6 DEF Orderly, Phase
<1> QED
  BY <1>1, <1>6, <1>7, <1>8, <1>9 DEF Orderly, Phase, Loading, Starting, Running, Killing, Empty, Stuck

\* The agent that was told to finish is gone, and the loader will hear of it.
LEMMA AgentEndsOrderly ==
  ASSUME TypeInv, Orderly, Expected, NEW id \in DOMAIN agents, AgentEnds(id)
  PROVE  Orderly'
<1>1. /\ agents[id] = "ending" /\ agents' = [a \in DOMAIN agents \ {id} |-> agents[a]]
      /\ Answers(<<Packet("DEAD", id)>>)
      /\ UNCHANGED <<main, loader, listener, TxQ, node, mishaps>>
  BY DEF AgentEnds, Expected
<1>2. Killing /\ TxQ = << >> /\ agents = Only(loader.rootAgentID, "ending") /\ (Inbox(<< >>) \/ Inbox(<<Late>>))
  BY <1>1 DEF Orderly, Phase, Loading, Starting, Running, Killing, Empty, Stuck, Only, NoAgent
<1>3. id = loader.rootAgentID /\ id \in AgentIds /\ agents' = NoAgent
  BY <1>1, <1>2 DEF TypeInv, Only, NoAgent
<1>4. \/ In(listener'[loader'.con], RxQ', <<Packet("DEAD", id)>>)
      \/ In(listener'[loader'.con], RxQ', <<Late, Packet("DEAD", id)>>)
  <2> DEFINE x == Packet("DEAD", id)
             t == listener[loader.con]
  <2>1. t' = t /\ RxQ' = RxQ \o <<x>>  BY <1>1 DEF Answers
  <2>2. << >> \o <<x>> = <<x>> /\ <<Late>> \o <<x>> = <<Late, x>> /\ <<Late, x>> # << >>
        /\ Head(<<Late, x>>) = Late /\ Tail(<<Late, x>>) = <<x>>
    BY Short
  <2>3. Head(<<Late>>) = Late /\ Tail(<<Late>>) = << >>  BY Short
  <2>4. In(t, RxQ, << >>) \/ In(t, RxQ, <<Late>>)  BY <1>2 DEF Inbox
  <2>5. In(t', RxQ', <<x>>) \/ In(t', RxQ', <<Late, x>>)
    <3> HIDE DEF x
    <3>1. CASE In(t, RxQ, << >>)  BY <2>1, <2>2, <3>1 DEF In
    <3>2. CASE In(t, RxQ, <<Late>>)  BY <2>1, <2>2, <2>3, <3>2 DEF In
    <3> QED  BY <2>4, <3>1, <3>2
  <2> QED  BY <2>5
<1>5. Killing'
  BY <1>1, <1>2, <1>3, <1>4 DEF Killing, Listens, Alive, Left, Inbox
<1> QED  BY <1>1, <1>5 DEF Orderly, Phase, Alone, Alive

\* Every step of an orderly system keeps it orderly, or is a mishap.
LEMMA NextOrderly ==
  ASSUME TypeInv, ThreadInv, Orderly, Expected, Expected', [Next]_vars
  PROVE  Orderly'
<1>1. CASE PressStart \/ PressKill  BY <1>1, PressOrderly
<1>2. CASE KillReturns  BY <1>2, KillReturnsOrderly
<1>3. ASSUME NEW l \in Listener, PoUART(l)  PROVE Orderly'
  BY <1>3, StopsOrderly, TakesOrderly, PacketReceivedOrderly DEF PoUART
<1>4. ASSUME NEW l \in Listener, NEW k \in Listener, Tear(l, k)  PROVE Orderly'
  BY <1>4, OneListener DEF Tear, Orderly, Alive
<1>5. CASE NodeReceives  BY <1>5, NodeReceivesOrderly
<1>6. CASE NodeIsReady
  <2>1. node'.next = node.next /\ node'.upload = node.upload
    BY <1>6 DEF NodeIsReady, TypeInv, PoAppPillM
  <2> QED  BY <1>6, <2>1, Unchanged DEF NodeIsReady, TypeInv
<1>7. ASSUME NEW id \in DOMAIN agents, AgentReleases(id)  PROVE Orderly'
  BY <1>7 DEF AgentReleases, BroughtAbout, Expected
<1>8. ASSUME NEW id \in DOMAIN agents, AgentEnds(id)  PROVE Orderly'
  BY <1>8, AgentEndsOrderly
<1>9. CASE UNCHANGED vars
  BY <1>9, Unchanged DEF vars, TypeInv
<1> QED  BY <1>1, <1>2, <1>3, <1>4, <1>5, <1>6, <1>7, <1>8, <1>9 DEF Next

\* A system in which nothing has happened is orderly.
LEMMA InitOrderly == Init => Orderly
<1> SUFFICES ASSUME Init PROVE Orderly  OBVIOUS
<1>1. Alone  BY DEF Init, Alone, Alive, Unborn
<1>2. node.next # Garbage  BY AppPillAssumption DEF Init, Garbage
<1>3. Empty  BY DEF Init, Empty, Ending, Left, Listener, NoAgent
<1> QED  BY <1>1, <1>2, <1>3 DEF Orderly, Phase

\* Mishaps are not forgotten.
LEMMA MishapsStay == TypeInv /\ [Next]_vars => mishaps \subseteq mishaps'
<1> SUFFICES ASSUME TypeInv, [Next]_vars PROVE mishaps \subseteq mishaps'  OBVIOUS
<1>1. CASE PressStart \/ PressKill  BY <1>1 DEF PressStart, PressKill, Pressed, BroughtAbout
<1>2. CASE KillReturns \/ NodeIsReady  BY <1>2 DEF KillReturns, NodeIsReady
<1>3. ASSUME NEW l \in Listener, PoUART(l) \/ \E k \in Listener : Tear(l, k)  PROVE mishaps' = mishaps
  BY <1>3 DEF PoUART, Stops, Takes, PacketReceived, Tear
<1>4. CASE NodeReceives
  BY <1>4 DEF NodeReceives, StartUploadReceived, ChunkReceived, StartReceived, RootAgentCreated, RootAgentFails,
              KillReceived, Fails
<1>5. ASSUME NEW id \in DOMAIN agents, AgentReleases(id) \/ AgentEnds(id)  PROVE mishaps \subseteq mishaps'
  BY <1>5 DEF AgentReleases, AgentEnds, BroughtAbout
<1>6. CASE UNCHANGED vars  BY <1>6 DEF vars
<1> QED  BY <1>1, <1>2, <1>3, <1>4, <1>5, <1>6 DEF Next

\* The invariant holds of every behaviour.
THEOREM IInvHolds == Spec => []IInv
<1>1. Init => IInv
  BY InitTypes, InitOrderly DEF IInv, ProtocolInv, Orderly
<1>2. IInv /\ [Next]_vars => IInv'
  <2> SUFFICES ASSUME IInv, [Next]_vars PROVE IInv'  OBVIOUS
  <2>1. TypeInv' /\ ThreadInv'  BY NextTypes DEF IInv
  <2>2. ASSUME Expected' PROVE Orderly'
    <3>1. Expected  BY <2>2, MishapsStay DEF IInv, Expected
    <3> QED  BY <2>2, <3>1, NextOrderly DEF IInv, ProtocolInv, Orderly
  <2> QED  BY <2>1, <2>2 DEF IInv, ProtocolInv, Orderly
<1> QED  BY <1>1, <1>2, PTL DEF Spec

-----------------------------------------------------------------------------
\* The properties.

\* TypeOK, whatever happens and for any size of the bundle.
THEOREM AppPillTypeCorrect == Spec => []TypeOK
<1>1. IInv => TypeOK
  <2> SUFFICES ASSUME IInv PROVE TypeOK  OBVIOUS
  <2>1. \A l \in Listener :
          /\ listener[l].pc \in {"none", "take", "handle", "dead"}
          /\ listener[l].pc = "handle" <=> listener[l].pkt.code \in Downward
    BY DEF IInv, TypeInv, ThreadInv, Thread, NoPacket, Unborn, Control, Packet, DownPacket, Downward
  <2>2. \A i \in DOMAIN TxQ : TxQ[i].code \in Upward  BY DEF IInv, TypeInv, UpPacket
  <2>3. \A i \in DOMAIN RxQ : RxQ[i].code \in Downward  BY DEF IInv, TypeInv, DownPacket
  <2> QED  BY <2>1, <2>2, <2>3 DEF IInv, TypeInv, TypeOK, Loader, PoAppPillM
<1> QED  BY <1>1, IInvHolds, PTL

\* UploadsInOrder: as long as the user waits and no agent ends on its own, the
\* node's parser meets the chunks of every upload in order.
THEOREM UploadsInOrderHolds == Spec => []UploadsInOrder
<1>1. IInv => UploadsInOrder
  BY DEF IInv, ProtocolInv, Expected, UploadsInOrder
<1> QED  BY <1>1, IInvHolds, PTL

\* LoaderAgrees: when nothing goes amiss and the loader rests, it believes that an
\* application runs exactly when one does, and knows its id.
THEOREM LoaderAgreesHolds == Spec => []LoaderAgrees
<1>1. IInv => LoaderAgrees
  <2> SUFFICES ASSUME IInv, mishaps = {}, Rests
               PROVE  /\ loader.hosts <=> loader.state = "RUNNING"
                      /\ agents = IF loader.hosts THEN [id \in {loader.rootAgentID} |-> "running"]
                                                  ELSE [a \in {} |-> "running"]
    BY DEF LoaderAgrees
  <2>1. Phase  BY DEF IInv, ProtocolInv, Expected
  <2>2. Running \/ Empty
    BY <2>1 DEF Phase, Loading, Starting, Killing, Stuck, Listens, Rests, Quiet
  <2>3. CASE Running  BY <2>3 DEF Running, Only
  <2>4. CASE Empty  BY <2>4 DEF Empty, Left, Rests, NoAgent
  <2> QED  BY <2>2, <2>3, <2>4
<1> QED  BY <1>1, IInvHolds, PTL
=============================================================================
