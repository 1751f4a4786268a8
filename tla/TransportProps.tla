--------------------------- MODULE TransportProps ---------------------------
(* Correctness of the reliable transport (ReliableTransport). *)
EXTENDS ReliableTransport, FiniteSets

Buffer == [Slots -> DataPackets \cup {Free}]
PeerState == [lastAckReceived : Seqs, lastMsgSent : Seqs, lastMsgReceived : Seqs, lastAckSent : Seqs,
              resetFlag : BOOLEAN, sentMsgBuf : SUBSET Unacked, timers : SUBSET Seqs,
              recvMsgBuf : Buffer, fragmMsgBuf : Buffer]

(* The values the variables may take; the buffers of a node have no more than Window slots. *)
TypeOK == /\ DOMAIN node = Nodes
          /\ \A n \in Nodes :
               /\ DOMAIN node[n] = DOMAIN Fresh(0)
               /\ {node[n].lastAckReceived, node[n].lastMsgSent,
                   node[n].lastMsgReceived, node[n].lastAckSent} \subseteq Seqs
               /\ node[n].resetFlag \in BOOLEAN
               /\ node[n].sentMsgBuf \subseteq Unacked
               /\ node[n].timers \subseteq Seqs
               /\ \A i \in Slots : {node[n].recvMsgBuf[i], node[n].fragmMsgBuf[i]} \subseteq DataPackets \cup {Free}
               /\ Len(net[n]) <= ChannelBound
               /\ \A i \in DOMAIN net[n] : net[n][i] \in DataPackets \cup AckPackets
               /\ \A i \in DOMAIN delivered[n] : delivered[n][i] \in Msgs(Peer(n)) \cup {Mixed}
          /\ \A n \in Nodes : outcome[n] \in [Msgs(n) -> {"unsent", "pending", "ok", "fail"}]
          /\ broken \in BOOLEAN
          /\ expiries \in 0..MaxExpiries

(* The window arithmetic of sendMsg agrees with its buffer: the packets that wait for an ack are   *)
(* numbered lastAckReceived+1 to lastMsgSent, one each, so a message the window check lets through *)
(* finds a free slot (the assertion "send window full check failed"), and each has its timer, so   *)
(* msgTimerFired never meets a timer without a message and no packet waits without a timer.        *)
WindowConsistent ==
  \A n \in Nodes :
     LET s == node[n]
         numbers == {e.packet.seq : e \in s.sentMsgBuf}
     IN  /\ numbers = {Plus(s.lastAckReceived, k) : k \in 1..Dist(s.lastAckReceived, s.lastMsgSent)}
         /\ Cardinality(s.sentMsgBuf) = Dist(s.lastAckReceived, s.lastMsgSent)
         /\ Cardinality(s.sentMsgBuf) <= Window
         /\ s.timers = numbers

(* A message is pending exactly while its last fragment waits for an ack: whatever resets happen, *)
(* resetNode and the ack handler lose no message and report none twice.                           *)
PendingInFlight ==
  \A n \in Nodes : \A m \in Msgs(n) :
     outcome[n][m] = "pending" <=>
       \E e \in node[n].sentMsgBuf : e.packet.msg = m /\ IsLast(n, m, e.packet.frag)

(* The number of the last fragment of n's m-th message, counted from the first message on. *)
LastNumber(n) ==
  LET upto[m \in 0..Len(Fragments[n])] == IF m = 0 THEN 0 ELSE upto[m - 1] + Fragments[n][m]
  IN  upto

(* No node has reset its counters, and none has come to use a sequence number again.  The transport *)
(* promises nothing beyond: a packet that arrives twice ahead of the sequence is kept twice, and    *)
(* the copy left over is taken for the one that has its number SeqMod packets later.                *)
Unwrapped == \A n \in Nodes : \A m \in Msgs(n) : outcome[n][m] # "unsent" => LastNumber(n)[m] < SeqMod
Orderly == ~broken /\ Unwrapped

(* Until then, what a node has acknowledged and its peer has been acknowledged move together: *)
(* the sender never believes more than the receiver has taken in sequence, and the receiver is *)
(* never beyond what was sent.                                                                 *)
AcksBehindReceipt ==
  Orderly => \A n \in Nodes :
    LET s == node[n]
        r == node[Peer(n)]
    IN  Dist(s.lastAckReceived, r.lastAckSent) <= Dist(s.lastAckReceived, s.lastMsgSent)

(* The transport implements the abstract link, on which only fragmented messages may be dropped. *)
Link == INSTANCE ReliableLink WITH Messages <- [n \in Nodes |-> Msgs(n)],
                                   Droppable <- [n \in Nodes |-> {m \in Msgs(n) : Multi(n, m)}],
                                   broken <- ~Orderly
ImplementsLink == Link!Spec

(* Every message sendMsg accepts is reported in the end, whatever the network loses. *)
Resolved == \A n \in Nodes : \A m \in Msgs(n) : outcome[n][m] = "pending" ~> outcome[n][m] \in {"ok", "fail"}

(* middleware.h calls result 0 PO_COMM_SENDRESULT_OK: a message reported with it has reached its *)
(* user at the other node, as long as no reset came between.                                     *)
SendResultOk ==
  ~broken => \A n \in Nodes : \A m \in Msgs(n) :
    outcome[n][m] = "ok" => \E i \in DOMAIN delivered[Peer(n)] : delivered[Peer(n)][i] = m
=============================================================================
