------------------------- MODULE ReliableTransport -------------------------
(***************************************************************************)
(* The sliding-window transport of the middleware (PoCommM) between two    *)
(* nodes, with the message timers and the removal of a silent neighbour    *)
(* that PoNetworkMngrM contributes.  Every handler runs on the one event   *)
(* thread of its node, so a handler is one action.  The network delivers   *)
(* in order and may lose anything.                                         *)
(***************************************************************************)
EXTENDS Integers, Sequences

CONSTANTS
  Nodes,          \* the two nodes
  Fragments,      \* Fragments[n][m]: the fragments the m-th message of n takes; bounds the messages
  Window,         \* PO_COMM_WINDOW_SIZE (20)
  SeqMod,         \* sequence numbers are bytes (256)
  Resends,        \* MIN_RETRIES (3): resends of a message before giving up
  StartSeqs,      \* sequence numbers the two nodes may have reached so far
  ChannelBound,   \* bound: packets on their way; more are lost
  MaxExpiries     \* bound: times a neighbour is given up for its silence

ASSUME NodesAssumption == \E x, y \in Nodes : x # y /\ Nodes = {x, y}
ASSUME WindowAssumption == Window \in Nat \ {0} /\ SeqMod \in Nat /\ 2 * Window < SeqMod
ASSUME BoundsAssumption == /\ Resends \in Nat /\ MaxExpiries \in Nat
                           /\ ChannelBound \in Nat \ {0}
ASSUME MessagesAssumption == Fragments \in [Nodes -> Seq(1..Window)]
ASSUME StartAssumption == StartSeqs \subseteq 0..SeqMod-1

Msgs(n) == DOMAIN Fragments[n]
AllMsgs == UNION {Msgs(n) : n \in Nodes}
Seqs == 0..SeqMod-1
Slots == 1..Window
Free == [kind |-> "free"]       \* 0xffff in a buffer

VARIABLES
  node,       \* node[n]: what n keeps about its peer (addrInfo_t, the member table)
  net,        \* net[n]: the packets on their way to n
  outcome,    \* outcome[n][m]: what n's user was told of its m-th message
  delivered,  \* delivered[n]: the messages handed to n's user, in order
  broken,     \* TRUE once a node has reset its counters
  expiries    \* neighbours given up so far

vars == <<node, net, outcome, delivered, broken, expiries>>

Peer(n) == CHOOSE p \in Nodes : p # n
Plus(q, k) == (q + k) % SeqMod
Dist(q, r) == (r - q) % SeqMod     \* (uint8_t)(r - q)
Multi(n, m) == Fragments[n][m] > 1     \* PO_COMM_FLAGS_FRAGM_EN
IsLast(n, m, f) == f = Fragments[n][m] - 1     \* PO_COMM_FLAGS_MORE_FRAGM clear

Data(q, m, f, r) == [kind |-> "data", seq |-> q, msg |-> m, frag |-> f, reset |-> r]
Ack(q, r) == [kind |-> "ack", seq |-> q, reset |-> r]
DataPackets == [kind : {"data"}, seq : Seqs, msg : AllMsgs, frag : 0..Window-1, reset : BOOLEAN]
AckPackets == [kind : {"ack"}, seq : Seqs, reset : BOOLEAN]
Unacked == [packet : DataPackets, resends : 0..Resends]

Fresh(q) == [lastAckReceived |-> q, lastMsgSent |-> q, lastMsgReceived |-> q, lastAckSent |-> q,
             resetFlag |-> FALSE, sentMsgBuf |-> {}, timers |-> {},
             recvMsgBuf |-> [i \in Slots |-> Free], fragmMsgBuf |-> [i \in Slots |-> Free]]

Init == /\ \E q \in StartSeqs : node = [n \in Nodes |-> Fresh(q)]
        /\ net = [n \in Nodes |-> <<>>]
        /\ outcome = [n \in Nodes |-> [m \in Msgs(n) |-> "unsent"]]
        /\ delivered = [n \in Nodes |-> <<>>]
        /\ broken = FALSE
        /\ expiries = 0

-----------------------------------------------------------------------------
(* The network. *)

Fit(q) == SubSeq(q, 1, IF Len(q) < ChannelBound THEN Len(q) ELSE ChannelBound)
Send(n, ps) == net' = [net EXCEPT ![Peer(n)] = Fit(@ \o ps)]
Receive(n, kind) == net[n] # <<>> /\ Head(net[n]).kind = kind
Answer(n, ps) == net' = [net EXCEPT ![n] = Tail(@), ![Peer(n)] = Fit(@ \o ps)]

(* A packet is lost: a connection is down, or the directory could not write it. *)
Lose(n) == /\ net[n] # <<>>
           /\ net' = [net EXCEPT ![n] = Tail(@)]
           /\ UNCHANGED <<node, outcome, delivered, broken, expiries>>

-----------------------------------------------------------------------------
(* Resetting the state kept about the peer. *)

ResetState(flag) == [Fresh(0) EXCEPT !.resetFlag = flag]
InFlight(s) == {e.packet.msg : e \in s.sentMsgBuf}

(* resetNode tells the user that every message still in the buffer has failed. *)
Failed(n) == [outcome EXCEPT ![n] =
                [m \in Msgs(n) |-> IF m \in InFlight(node[n]) THEN "fail" ELSE @[m]]]

ResetNode(n, flag) == /\ node' = [node EXCEPT ![n] = ResetState(flag)]
                      /\ outcome' = Failed(n)
                      /\ broken' = TRUE
                      /\ UNCHANGED delivered

-----------------------------------------------------------------------------
(* Sending. *)

(* The fragments of m, numbered from q on; the first announces a reset if one is due. *)
Packets(n, m, q, flag) ==
  [k \in 1..Fragments[n][m] |-> Data(Plus(q, k), m, k - 1, flag /\ k = 1)]

(* sendMsg; a message the window has no room for is refused and changes nothing. *)
SendMsg(n, m) ==
  LET s == node[n]
      ps == Packets(n, m, s.lastMsgSent, s.resetFlag)
  IN  /\ outcome[n][m] = "unsent"
      /\ m > 1 => outcome[n][m - 1] # "unsent"
      /\ Dist(s.lastAckReceived, s.lastMsgSent) + Len(ps) <= Window
      /\ node' = [node EXCEPT ![n] =
           [s EXCEPT !.lastMsgSent = Plus(@, Len(ps)),
                     !.resetFlag = FALSE,
                     !.sentMsgBuf = @ \cup {[packet |-> ps[k], resends |-> Resends] : k \in DOMAIN ps},
                     !.timers = @ \cup {ps[k].seq : k \in DOMAIN ps}]]
      /\ Send(n, ps)
      /\ outcome' = [outcome EXCEPT ![n][m] = "pending"]
      /\ UNCHANGED <<delivered, broken, expiries>>

(* Mutant of CanResend: the count of resends is not looked at. *)
CanResendForever(e) == TRUE
CanResend(e) == e.resends > 0

(* Mutant of Rearmed: a timer that fired is not started again. *)
RearmedNever(timers, q) == timers \ {q}
Rearmed(timers, q) == timers \cup {q}

(* msgTimerFired: resend, or give the neighbour up (removeNode, removeAddr, nodeRemoved). *)
MsgTimerFired(n, q) ==
  LET s == node[n] IN
  /\ q \in s.timers
  /\ UNCHANGED expiries
  /\ LET due == {e \in s.sentMsgBuf : e.packet.seq = q} IN
     IF due = {}
     THEN /\ node' = [node EXCEPT ![n].timers = @ \ {q}]
          /\ UNCHANGED <<net, outcome, delivered, broken>>
     ELSE \E e \in due :
            \/ /\ CanResend(e)
               /\ node' = [node EXCEPT ![n] =
                    [s EXCEPT !.timers = Rearmed(@, q),
                              !.sentMsgBuf = (@ \ {e}) \cup {[e EXCEPT !.resends = @ - 1]}]]
               /\ Send(n, <<e.packet>>)
               /\ UNCHANGED <<outcome, delivered, broken>>
            \/ /\ ~CanResend(e)
               /\ ResetNode(n, TRUE)
               /\ UNCHANGED net

(* The keep-alive countdown of the peer runs out, whatever waits for its acks. *)
KeepAliveExpired(n) == /\ expiries < MaxExpiries
                       /\ expiries' = expiries + 1
                       /\ ResetNode(n, TRUE)
                       /\ UNCHANGED net

-----------------------------------------------------------------------------
(* Receiving data.  The handler works on a copy d of what it keeps: the two buffers, the *)
(* messages to hand up and the last number in sequence.                                  *)

(* The first of some slots, 0 if there are none. *)
FirstSlot(S) == IF S = {} THEN 0 ELSE CHOOSE i \in S : \A j \in S : i <= j
FreeSlot(buf) == FirstSlot({i \in Slots : buf[i] = Free})
Put(buf, p) == [buf EXCEPT ![FreeSlot(buf)] = p]
FragmentSlot(buf, q, f) == FirstSlot({i \in Slots : buf[i] # Free /\ buf[i].seq = q /\ buf[i].frag = f})

(* processFragments looks for a run of buffered fragments, the first at number q, that ends in a *)
(* last one, and takes the first slot that fits each: run is the sequence of those slots after   *)
(* the first fragment, <<>> if it is incomplete.                                                 *)
Run(n, buf, q) ==
  LET SlotOf(f) == FragmentSlot(buf, Plus(q, f), f)
      Ends(f) == SlotOf(f) # 0 /\ IsLast(Peer(n), buf[SlotOf(f)].msg, f)
      Complete(k) == /\ Ends(k)
                     /\ \A f \in 1..k-1 : SlotOf(f) # 0 /\ ~Ends(f)
  IN  IF \E k \in 1..Window-1 : Complete(k)
      THEN [f \in 1..(CHOOSE k \in 1..Window-1 : Complete(k)) |-> SlotOf(f)]
      ELSE <<>>

(* The slot and the packet of the first fragment of p's message.  For p itself the code takes the *)
(* slot from fragmBufIndices[0], which addToFragmMsgBuf wrote if p is new and which otherwise is  *)
(* whatever the stack holds: own is that value.                                                   *)
FirstFragment(buf, p, own) ==
  LET i == FragmentSlot(buf, Plus(p.seq, -p.frag), 0)
  IN  IF p.frag = 0 THEN {[slot |-> own, packet |-> p]}
      ELSE IF i = 0 THEN {} ELSE {[slot |-> i, packet |-> buf[i]]}

Mixed == 0      \* a message put together from fragments of two

(* What taking packet p of the peer does to d. *)
Take(n, d, p, new, garbage) ==
  IF ~Multi(Peer(n), p.msg) THEN [d EXCEPT !.up = Append(@, p.msg)]
  ELSE LET buf == IF new THEN Put(d.fragmMsgBuf, p) ELSE d.fragmMsgBuf
           firsts == FirstFragment(buf, p, IF new THEN FreeSlot(d.fragmMsgBuf) ELSE garbage)
           run == Run(n, buf, Plus(p.seq, -p.frag))
       IN  IF firsts = {} \/ run = <<>> THEN [d EXCEPT !.fragmMsgBuf = buf]
           ELSE LET x == CHOOSE y \in firsts : TRUE
                    used == {x.slot} \cup {run[f] : f \in DOMAIN run}
                    parts == {x.packet.msg} \cup {buf[run[f]].msg : f \in DOMAIN run}
                IN  [d EXCEPT !.fragmMsgBuf = [i \in Slots |-> IF i \in used THEN Free ELSE buf[i]],
                              !.up = Append(@, IF parts = {p.msg} THEN p.msg ELSE Mixed)]

(* A round of the loop that takes the buffered packets that now are in sequence, one slot at a time. *)
DrainRound(n, d, garbage) ==
  LET i == FirstSlot({j \in Slots : d.recvMsgBuf[j] # Free /\ d.recvMsgBuf[j].seq = Plus(d.last, 1)})
      p == d.recvMsgBuf[i]
  IN  IF i = 0 THEN d
      ELSE [Take(n, d, p, FALSE, garbage) EXCEPT !.recvMsgBuf[i] = Free, !.last = p.seq]

Drain(n, start, garbage) ==
  LET round[k \in 0..Window] == IF k = 0 THEN start ELSE DrainRound(n, round[k - 1], garbage)
  IN  round[Window]

IsFull(buf) == FreeSlot(buf) = 0

(* The three places a packet can fall: next in sequence, ahead within the window, or neither. *)
(* Mutant of InSequence: any packet ahead is taken as the next one. *)
InSequenceGaps(s, p) == Dist(s.lastAckSent, p.seq) \in 1..Window
InSequence(s, p) == p.seq = Plus(s.lastAckSent, 1)
Ahead(s, p) == ~InSequence(s, p) /\ Dist(s.lastAckSent, p.seq) \in 1..Window

(* p has to be kept, in a buffer of s and a node of the pool all neighbours share. *)
Kept(n, s, p) == Ahead(s, p) \/ (InSequence(s, p) /\ Multi(Peer(n), p.msg))
HasRoom(n, s, p) == /\ Ahead(s, p) => ~IsFull(s.recvMsgBuf)
                    /\ Kept(n, s, p) /\ Multi(Peer(n), p.msg) => ~IsFull(s.fragmMsgBuf)

(* What accepting p makes of s; "last" is the number the ack will carry. *)
Accept(n, s, p, garbage) ==
  LET d == [recvMsgBuf |-> s.recvMsgBuf, fragmMsgBuf |-> s.fragmMsgBuf, up |-> <<>>, last |-> s.lastAckSent]
      taken == [Take(n, d, p, TRUE, garbage) EXCEPT !.last = p.seq]
  IN  CASE InSequence(s, p) /\ s.lastAckSent = s.lastMsgReceived ->
             [d |-> taken, received |-> p.seq]
        [] InSequence(s, p) /\ s.lastAckSent # s.lastMsgReceived ->
             [d |-> Drain(n, taken, garbage), received |-> s.lastMsgReceived]
        [] Ahead(s, p) ->     \* a message completed here is not handed up: it is not counted
             [d |-> [d EXCEPT !.recvMsgBuf = Put(@, p),
                              !.fragmMsgBuf = Take(n, d, p, TRUE, garbage).fragmMsgBuf],
              received |-> p.seq]
        [] OTHER -> [d |-> d, received |-> s.lastMsgReceived]

(* Mutant of AckNumber: the number expected next is acknowledged. *)
AckNumberNext(a) == Plus(a.d.last, 1)
AckNumber(a) == a.d.last

(* msgArrived for PO_COMM_HDR_RELIABLE.  A packet that has to be kept and cannot be, because its *)
(* buffer is full or the neighbours have emptied the pool, resets the node.                       *)
DataArrived(n) ==
  /\ Receive(n, "data")
  /\ UNCHANGED expiries
  /\ LET p == Head(net[n])
         s == IF p.reset THEN ResetState(FALSE) ELSE node[n]
     IN  \/ /\ Kept(n, s, p)
            /\ ResetNode(n, TRUE)
            /\ net' = [net EXCEPT ![n] = Tail(@)]
         \/ /\ HasRoom(n, s, p)
            /\ \E a \in {Accept(n, s, p, garbage) : garbage \in Slots \cup {0}} :
                 /\ node' = [node EXCEPT ![n] =
                      [s EXCEPT !.recvMsgBuf = a.d.recvMsgBuf, !.fragmMsgBuf = a.d.fragmMsgBuf,
                                !.lastMsgReceived = a.received, !.lastAckSent = AckNumber(a),
                                !.resetFlag = FALSE]]
                 /\ delivered' = [delivered EXCEPT ![n] = @ \o a.d.up]
                 /\ Answer(n, <<Ack(AckNumber(a), s.resetFlag)>>)
            /\ outcome' = IF p.reset THEN Failed(n) ELSE outcome
            /\ broken' = (broken \/ p.reset)

-----------------------------------------------------------------------------
(* Receiving an ack. *)

(* An ack for something between the last ack and the last message sent. *)
Acceptable(s, q) == /\ q # s.lastAckReceived
                    /\ Dist(s.lastAckReceived, q) <= Dist(s.lastAckReceived, s.lastMsgSent)
Acked(s, q) == {e \in s.sentMsgBuf : Dist(e.packet.seq, q) < Window}
(* Mutant of Completed: the ack of any fragment reports the message. *)
CompletedByAny(n, E) == {e.packet.msg : e \in E}
Completed(n, E) == {e.packet.msg : e \in {x \in E : IsLast(n, x.packet.msg, x.packet.frag)}}

(* Mutant of Stopped: only the timer of the number in the ack is stopped. *)
StoppedOne(s, q) == {q}
Stopped(s, q) == {e.packet.seq : e \in Acked(s, q)}

(* A repeated ack asks for the next message again, unless its timer is running. *)
Repeats(s, q) == /\ q = s.lastAckReceived
                 /\ Plus(q, 1) \notin s.timers
Requested(s, q) == {e \in s.sentMsgBuf : e.packet.seq = Plus(q, 1)}

(* msgArrived for PO_COMM_HDR_ACK *)
AckArrived(n) ==
  LET p == Head(net[n])
      s == node[n]
  IN  /\ Receive(n, "ack")
      /\ UNCHANGED expiries
      /\ \/ /\ p.reset
            /\ ResetNode(n, FALSE)
            /\ Answer(n, <<>>)
         \/ /\ ~p.reset /\ Acceptable(s, p.seq)
            /\ node' = [node EXCEPT ![n] =
                 [s EXCEPT !.lastAckReceived = p.seq,
                           !.sentMsgBuf = @ \ Acked(s, p.seq),
                           !.timers = @ \ Stopped(s, p.seq)]]
            /\ outcome' = [outcome EXCEPT ![n] =
                 [m \in Msgs(n) |-> IF m \in Completed(n, Acked(s, p.seq)) THEN "ok" ELSE @[m]]]
            /\ Answer(n, <<>>)
            /\ UNCHANGED <<delivered, broken>>
         \/ /\ ~p.reset /\ ~Acceptable(s, p.seq)
            /\ UNCHANGED <<outcome, delivered, broken>>
            /\ IF Repeats(s, p.seq) /\ Requested(s, p.seq) # {}
               THEN \E e \in Requested(s, p.seq) :
                      /\ node' = [node EXCEPT ![n] =
                           [s EXCEPT !.timers = @ \cup {e.packet.seq},
                                     !.sentMsgBuf = (@ \ {e}) \cup {[e EXCEPT !.resends = @ - 1]}]]
                      /\ Answer(n, <<e.packet>>)
               ELSE UNCHANGED node /\ Answer(n, <<>>)

-----------------------------------------------------------------------------
Next == \E n \in Nodes :
          \/ \E m \in Msgs(n) : SendMsg(n, m)
          \/ \E q \in Seqs : MsgTimerFired(n, q)
          \/ KeepAliveExpired(n)
          \/ DataArrived(n)
          \/ AckArrived(n)
          \/ Lose(n)

(* The one-second timer of a node keeps counting its message timers down. *)
Fairness == \A n \in Nodes : WF_vars(\E q \in node[n].timers : MsgTimerFired(n, q))

Spec == Init /\ [][Next]_vars /\ Fairness
=============================================================================
