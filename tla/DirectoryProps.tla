--------------------------- MODULE DirectoryProps ---------------------------
(***************************************************************************)
(* What the registry & forwarder owes the phones: properties of Directory. *)
(***************************************************************************)
EXTENDS Directory

\* Every variable has its type; no send buffer holds more than it can.
StateTypeOK ==
  /\ reg \in Seq(NodeInfo)
  /\ addr \in Nat
  /\ now \in Nat
  /\ status \in [Conn -> Status]
  /\ reactor \in Reactor

OutputTypeOK ==
  /\ backlog \in [Conn -> 0 .. OutCap]
  /\ sent \in SUBSET [to : Conn, msg : Reply \cup PobicosMsg, parts : SUBSET AllParts]

TypeOK == StateTypeOK /\ OutputTypeOK

\* A channel is held by at most one registration, so that the first match of
\* Registry.isRegisted(SocketChannel) is the only one and a message the channel
\* carries refreshes the phone that sent it.
OneEntryPerChannel ==
  \A i, j \in DOMAIN reg : reg[i].sock = reg[j].sock => i = j

\* Until the 16-bit counter of Registry.getAddr has wrapped, no two registrations
\* share an address, none has the broadcast address or 0 (which asks for a new one).
AddressesDistinct ==
  addr <= Broadcast =>
    /\ \A i, j \in DOMAIN reg : reg[i].addr = reg[j].addr => i = j
    /\ \A i \in DOMAIN reg : reg[i].addr \notin {0, Broadcast}

\* The address and seed a phone is welcomed with are those of the registration
\* that holds its channel: what it will present after a reconnection is known.
Backed(c, m) ==
  \E i \in DOMAIN reg : reg[i].sock = c /\ reg[i].addr = m.addr /\ reg[i].seed = m.seed

WelcomeBacked == \A w \in sent : w.msg.type = "WELCOME" => Backed(w.to, w.msg)

\* A message for a decodable address is written only to the channel of
\* a phone that has it and is where the message's location specification admits.
DeliveredToAddressee(w) ==
  \E i \in DOMAIN reg : /\ reg[i].sock = w.to
                        /\ reg[i].addr = w.msg.dst
                        /\ reg[i].loc \in w.msg.spec

AddressedOnly ==
  \A w \in sent :
    w.msg.type = "POBICOS" /\ Decodable(w.msg.dst) /\ w.msg.dst # Broadcast
      => DeliveredToAddressee(w)

\* A registration that has expired and whose channel the server has closed is
\* never refreshed: its phone has to register anew.
DeadStaysDead ==
  [][\A i \in DOMAIN reg :
       Expired(i) /\ status[reg[i].sock] = "closed" => reg'[i].seen = reg[i].seen]_vars

\* The registry implements AddressBook: each registration is made with an address
\* that no other ever had and with a channel that no other has.
Registration(e) == [addr |-> e.addr, seed |-> e.seed, sock |-> e.sock]

Book == INSTANCE AddressBook
        WITH book <- {Registration(reg[i]) : i \in DOMAIN reg}, assigned <- 1 .. addr - 1,
             Address <- 1 .. Broadcast - 1, Seeds <- Seed, Channel <- Conn

ImplementsAddressBook == Book!BookSpec

\* The reactor does not spin for ever on one phone while the others wait, unless
\* that phone vanished without closing its connection.
ReactorFreed ==
  \A c \in Conn : (reactor # Idle /\ reactor.conn = c) ~> (reactor = Idle \/ status[c] = "lost")

-----------------------------------------------------------------------------
\* What comments and log messages say, and the code does not do.

\* "Broadcast": when every other registered phone that the location specification
\* admits is connected and has room for the message, all of them receive all of it.
BroadcastReachesAll ==
  \A w \in sent :
    w.msg.type = "POBICOS" /\ w.msg.dst = Broadcast =>
      LET hearers == {reg[i].sock : i \in {j \in DOMAIN reg : Hears(j, w.msg.from, w.msg)}}
          got(d) == UNION {v.parts : v \in {x \in sent : x.to = d}}
      IN  (\A d \in hearers : status[d] = "up" /\ backlog[d] - Cardinality(got(d)) + Parts <= OutCap)
            => \A d \in hearers : got(d) = AllParts

\* "node already registered": a phone that is told so can be reached, on this
\* connection or on the one it registered with.
PongedIsReachable ==
  reactor.at = "reply" =>
    (reactor.msg.type = "PONG" =>
       \/ IsRegistedSock(reactor.conn) # 0
       \/ \E i \in DOMAIN reg : /\ reg[i].addr = reactor.cr.addr
                                /\ reg[i].seed = reactor.cr.seed
                                /\ status[reg[i].sock] = "up")

\* "Node successfully unregisted.": a phone that is refused because its registration
\* has expired is not in the registry any more.
UnregisteredIsGone ==
  reactor.at = "reply" => (reactor.msg.type = "FAIL" => IsRegistered(reactor.cr) = 0)

-----------------------------------------------------------------------------
\* A phone writes a packet in a loop until all of it is out or the connection
\* fails, and its reader thread takes what arrives; the reactor runs on.
Fairness ==
  \A c \in Conn :
    /\ WF_vars(WriteReply(c))
    /\ WF_vars(PhoneReads(c))
    /\ WF_vars(reactor = Reading(c) /\ (HandlePobicos(c) \/ ReadEof(c)))

FairSpec == Spec /\ Fairness
=============================================================================
