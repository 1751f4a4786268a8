----------------------------- MODULE Directory -----------------------------
(***************************************************************************)
(* The POBICOS registry & forwarder (directory/): one reactor thread that  *)
(* accepts phones, answers registration requests and forwards POBICOS      *)
(* messages between registered phones.                                     *)
(*                                                                         *)
(* A handler run (read, process, write) is one step, except where the code *)
(* itself waits: the read loops spin until the rest of a packet arrives    *)
(* and the write loop of a registration reply spins until the reply is     *)
(* taken by the socket.  While it spins the reactor serves nobody else.    *)
(* A node's position is the member of Loc it is in, and the location       *)
(* specification of a message (radius and centre) is the set of positions  *)
(* it admits; "no specification" admits all of Loc.  The app_* fields of   *)
(* RequestHandler are left out: a message that carries a specification has *)
(* just overwritten them with it.                                          *)
(***************************************************************************)
EXTENDS AddressCodec, Sequences, FiniteSets

CONSTANTS
  Conn,          \* socket channels the server accepts (each is accepted once)
  Seed,          \* the values a node's random seed takes
  Loc,           \* positions a node may report
  LocSpec,      \* location specifications of messages, subsets of Loc
  Dst,           \* destination addresses phones put in messages
  Parts,         \* pieces a POBICOS packet may be split into by a short write
  OutCap,        \* pieces a socket's send buffer holds
  TIME_THRESHOLD,\* registrations not refreshed for longer are expired
  MaxTime,       \* bound: the clock stops here
  MaxReg         \* bound: number of registrations

ASSUME DirectoryAssumption ==
  /\ Seed \subseteq Int
  /\ Loc \in LocSpec
  /\ LocSpec \subseteq SUBSET Loc
  /\ Dst \subseteq Addr
  /\ Parts \in Nat \ {0}
  /\ OutCap \in Nat
  /\ TIME_THRESHOLD \in Nat
  /\ MaxTime \in Nat
  /\ MaxReg \in Nat

VARIABLES
  reg,       \* Registry.reg: the list of NodeInfo
  addr,      \* Registry.addr: the AtomicInteger addresses are taken from
  now,       \* System.currentTimeMillis()
  status,    \* each channel, as the server and the network see it
  reactor,   \* what the reactor thread is doing
  backlog,   \* pieces in each channel's send buffer
  sent       \* what the last step wrote: the handler's output

vars == <<reg, addr, now, status, reactor, backlog, sent>>

-----------------------------------------------------------------------------
\* Data.

Creds == [addr : Addr, seed : Seed \cup {0}]

NodeInfo == [addr : Addr, seed : Seed, sock : Conn, loc : Loc, seen : Nat]

\* "new" is not connected yet; "fin" was closed by the phone and the server has
\* not noticed; "lost" belongs to a phone that vanished without a FIN.
Status == {"new", "up", "fin", "lost", "closed"}

Reply == [type : {"WELCOME"}, addr : Addr, seed : Seed] \cup [type : {"PONG", "FAIL"}]

PobicosMsg == [type : {"POBICOS"}, from : Conn, dst : Addr, spec : SUBSET Loc]

\* The reactor waits in select(), spins in read() for the rest of a packet of c,
\* or spins in write() until c takes the answer r to the credentials cr.
Idle == [at |-> "select"]
Reading(c) == [at |-> "read", conn |-> c]
Replying(c, cr, r) == [at |-> "reply", conn |-> c, cr |-> cr, msg |-> r]

Reactor == {Idle} \cup [at : {"read"}, conn : Conn]
           \cup [at : {"reply"}, conn : Conn, cr : Creds, msg : Reply]

AllParts == 1 .. Parts

Write(c, m, parts) == [to |-> c, msg |-> m, parts |-> parts]

-----------------------------------------------------------------------------
\* The registry's look-ups: the first entry that matches, 0 for Java's null.

First(S) == IF S = {} THEN 0 ELSE CHOOSE i \in S : \A j \in S : i <= j

IsRegistedSock(s) == First({i \in DOMAIN reg : reg[i].sock = s})
IsRegistedAddr(a) == First({i \in DOMAIN reg : reg[i].addr = a})
IsRegistered(c) == First({i \in DOMAIN reg : reg[i].addr = c.addr /\ reg[i].seed = c.seed})

FirstTime == [addr |-> 0, seed |-> 0]

Expired(i) == now - reg[i].seen > TIME_THRESHOLD

-----------------------------------------------------------------------------
\* The reactor picks channel c's handler, or finishes reading its packet.
Serves(c) ==
  /\ reactor \in {Idle, Reading(c)}
  /\ status[c] \in {"up", "fin"}

\* Mutants of Register: the counter is not advanced, or read twice, or the seed of
\* the request (none) is sent back.
Registering(c, cr, sd, loc, next, a, seed) ==
  /\ Len(reg) < MaxReg
  /\ addr' = next
  /\ reg' = Append(reg, [addr |-> addr % AddrMod, seed |-> sd, sock |-> c, loc |-> loc, seen |-> now])
  /\ reactor' = Replying(c, cr, [type |-> "WELCOME", addr |-> a % AddrMod, seed |-> seed])

RegisterSame(c, cr, sd, loc) == Registering(c, cr, sd, loc, addr, addr, sd)
RegisterTwice(c, cr, sd, loc) == Registering(c, cr, sd, loc, addr + 2, addr + 1, sd)
RegisterEcho(c, cr, sd, loc) == Registering(c, cr, sd, loc, addr + 1, addr, cr.seed)

\* process(): the answer to a registration request and what it does to the
\* registry.  c is the channel, cr and loc the request's content.
Register(c, cr, sd, loc) ==
  /\ Len(reg) < MaxReg
  /\ LET a == addr % AddrMod
     IN  /\ addr' = addr + 1
         /\ reg' = Append(reg, [addr |-> a, seed |-> sd, sock |-> c, loc |-> loc, seen |-> now])
         /\ reactor' = Replying(c, cr, [type |-> "WELCOME", addr |-> a, seed |-> sd])

Reject(c, cr) ==
  /\ reactor' = Replying(c, cr, [type |-> "FAIL"])
  /\ UNCHANGED <<reg, addr>>

\* reg.remove(node.getSocketChannel()) asks the list of NodeInfo to remove an
\* object that is not one of its elements: the list stays as it is.
RejectExpired(c, cr, i) ==
  /\ reactor' = Replying(c, cr, [type |-> "FAIL"])
  /\ UNCHANGED <<reg, addr>>

Refresh(c, cr, i, loc) ==
  /\ reg' = [reg EXCEPT ![i].loc = loc, ![i].seen = now]
  /\ reactor' = Replying(c, cr, [type |-> "PONG"])
  /\ UNCHANGED addr

\* Mutant of NewConnection: a registration never expires.
Reconnection(c, cr, sd, loc) ==
  LET i == IsRegistered(cr)
  IN  \/ cr = FirstTime /\ Register(c, cr, sd, loc)
      \/ cr # FirstTime /\ i = 0 /\ Reject(c, cr)
      \/ cr # FirstTime /\ i # 0 /\ Refresh(c, cr, i, loc)

\* A REGISTRY_REQ on a channel no entry holds: a new phone, or one that lost its
\* connection and presents the address and seed it was given.
NewConnection(c, cr, sd, loc) ==
  LET i == IsRegistered(cr)
  IN  \/ cr = FirstTime /\ Register(c, cr, sd, loc)
      \/ cr # FirstTime /\ i = 0 /\ Reject(c, cr)
      \/ cr # FirstTime /\ i # 0 /\ Expired(i) /\ RejectExpired(c, cr, i)
      \/ cr # FirstTime /\ i # 0 /\ ~Expired(i) /\ Refresh(c, cr, i, loc)

\* Mutant of RegistryReq: the channel is not looked up.
RegistryReqUnseen(c, cr, sd, loc) ==
  /\ Serves(c)
  /\ NewConnection(c, cr, sd, loc)
  /\ sent' = {}
  /\ UNCHANGED <<now, status, backlog>>

RegistryReq(c, cr, sd, loc) ==
  /\ Serves(c)
  /\ LET n == IsRegistedSock(c)
     IN  IF n = 0 THEN NewConnection(c, cr, sd, loc) ELSE Refresh(c, cr, n, loc)
  /\ sent' = {}
  /\ UNCHANGED <<now, status, backlog>>

\* Mutant of WriteReply: it insists, whether the channel is there or not.
WriteReplyForever(c) ==
  /\ reactor.at = "reply" /\ reactor.conn = c
  /\ status[c] # "fin" /\ backlog[c] < OutCap
  /\ reactor' = Idle
  /\ backlog' = [backlog EXCEPT ![c] = @ + 1]
  /\ sent' = {Write(c, reactor.msg, {1})}
  /\ UNCHANGED <<reg, addr, now, status>>

\* write() of a registration reply: it loops until the socket took the reply.
WriteReply(c) ==
  /\ reactor.at = "reply" /\ reactor.conn = c
  /\ reactor' = Idle
  /\ \/ /\ status[c] # "fin"
        /\ backlog[c] < OutCap
        /\ backlog' = [backlog EXCEPT ![c] = @ + 1]
        /\ sent' = {Write(c, reactor.msg, {1})}
     \/ /\ status[c] = "fin"          \* into the void, or an IOException
        /\ sent' = {}
        /\ UNCHANGED backlog
  /\ UNCHANGED <<reg, addr, now, status>>

-----------------------------------------------------------------------------
\* write() of a POBICOS message.

Smaller(x, y) == IF x <= y THEN x ELSE y

\* A write throws on a channel the server closed, and on one the phone reset.
Throws(c, R) == status[c] = "closed" \/ c \in R

\* How many of the rem remaining pieces one non-blocking write to c takes, when
\* its send buffer holds held pieces.
Taken(c, R, rem, held) ==
  IF Throws(c, R) THEN 0
  ELSE IF status[c] = "fin" THEN rem ELSE Smaller(rem, OutCap - held)

\* Entry i is given the message by the broadcast loop.
Hears(i, c, m) == reg[i].sock # c /\ reg[i].loc \in m.spec

\* Mutant of Unicast: the location specification is not looked at.
UnicastAnywhere(m, R) ==
  LET i == IsRegistedAddr(DecodedAddr(m.dst))
  IN  IF i = 0 THEN [to |-> {}, taken |-> 0, throws |-> FALSE]
      ELSE [to |-> {reg[i].sock}, taken |-> Taken(reg[i].sock, R, Parts, backlog[reg[i].sock]),
            throws |-> Throws(reg[i].sock, R)]

\* What the look-up of the destination writes, and whether it throws out of write().
Unicast(m, R) ==
  LET i == IsRegistedAddr(DecodedAddr(m.dst))
  IN  IF i = 0 \/ reg[i].loc \notin m.spec THEN [to |-> {}, taken |-> 0, throws |-> FALSE]
      ELSE [to |-> {reg[i].sock}, taken |-> Taken(reg[i].sock, R, Parts, backlog[reg[i].sock]),
            throws |-> Throws(reg[i].sock, R)]

\* The position of out_msg after the broadcast loop has passed the first i
\* entries, u having been written before it; the loop never rewinds it.
Position(c, m, R, u) ==
  LET Held(d) == backlog[d] + (IF d \in u.to THEN u.taken ELSE 0)
      pos[i \in 0 .. Len(reg)] ==
        IF i = 0 THEN u.taken
        ELSE IF ~Hears(i, c, m) THEN pos[i - 1]
        ELSE pos[i - 1] + Taken(reg[i].sock, R, Parts - pos[i - 1], Held(reg[i].sock))
  IN  pos

\* The writes of one run of write(): the destination's first, then the broadcast's.
Writes(c, m, R) ==
  LET u == Unicast(m, R)
      pos == Position(c, m, R, u)
      direct == {Write(d, m, 1 .. u.taken) : d \in u.to}
      copies == {Write(reg[i].sock, m, pos[i - 1] + 1 .. pos[i]) : i \in DOMAIN reg}
  IN  {w \in direct \cup (IF DecodedAddr(m.dst) = Broadcast /\ ~u.throws THEN copies ELSE {}) :
         w.parts # {}}

\* Pieces that landed in the send buffer of channel d.
Landed(d, W) == IF status[d] = "fin" THEN 0 ELSE Cardinality(UNION {w.parts : w \in {v \in W : v.to = d}})

Forward(c, m, R) ==
  /\ Serves(c)
  /\ LET n == IsRegistedSock(c)
     IN  reg' = IF n = 0 THEN reg ELSE [reg EXCEPT ![n].seen = now]
  /\ sent' = Writes(c, m, R)
  /\ backlog' = [d \in Conn |-> backlog[d] + Landed(d, sent')]
  /\ reactor' = Idle
  /\ UNCHANGED <<addr, now, status>>

-----------------------------------------------------------------------------
\* Connections.

Accept(c) ==
  /\ reactor = Idle
  /\ status[c] = "new"
  /\ status' = [status EXCEPT ![c] = "up"]
  /\ sent' = {}
  /\ UNCHANGED <<reg, addr, now, reactor, backlog>>

\* Less than a packet has arrived: read() spins for the rest.
ReadPartial(c) ==
  /\ reactor = Idle
  /\ status[c] \in {"up", "fin"}
  /\ reactor' = Reading(c)
  /\ sent' = {}
  /\ UNCHANGED <<reg, addr, now, status, backlog>>

\* The stream ended: between packets the channel is closed, inside one the
\* handler gives up and the next select finds the end of the stream again.
ReadEof(c) ==
  /\ status[c] = "fin"
  /\ \/ /\ reactor = Idle
        /\ status' = [status EXCEPT ![c] = "closed"]
        /\ UNCHANGED reactor
     \/ /\ reactor = Reading(c)
        /\ reactor' = Idle
        /\ UNCHANGED status
  /\ sent' = {}
  /\ UNCHANGED <<reg, addr, now, backlog>>

-----------------------------------------------------------------------------
\* The environment: phones, network and clock.

PhoneCloses(c) ==
  /\ status[c] = "up"
  /\ status' = [status EXCEPT ![c] = "fin"]
  /\ backlog' = [backlog EXCEPT ![c] = 0]
  /\ sent' = {}
  /\ UNCHANGED <<reg, addr, now, reactor>>

PhoneVanishes(c) ==
  /\ status[c] = "up"
  /\ status' = [status EXCEPT ![c] = "lost"]
  /\ sent' = {}
  /\ UNCHANGED <<reg, addr, now, reactor, backlog>>

PhoneReads(c) ==
  /\ status[c] = "up"
  /\ backlog[c] > 0
  /\ backlog' = [backlog EXCEPT ![c] = @ - 1]
  /\ sent' = {}
  /\ UNCHANGED <<reg, addr, now, status, reactor>>

Tick ==
  /\ now < MaxTime
  /\ now' = now + 1
  /\ sent' = {}
  /\ UNCHANGED <<reg, addr, status, reactor, backlog>>

-----------------------------------------------------------------------------
Init ==
  /\ reg = <<>>
  /\ addr = 1
  /\ now = 0
  /\ status = [c \in Conn |-> "new"]
  /\ reactor = Idle
  /\ backlog = [c \in Conn |-> 0]
  /\ sent = {}

\* The credentials phones present: none, those of this life of the server, and
\* those an earlier life of it handed out.
Presented == {FirstTime} \cup [addr : {n % AddrMod : n \in 1 .. MaxReg}, seed : Seed]

HandleRegistry(c) == \E cr \in Presented, sd \in Seed, loc \in Loc : RegistryReq(c, cr, sd, loc)

HandlePobicos(c) ==
  \E d \in Dst, s \in LocSpec, R \in SUBSET {x \in Conn : status[x] = "fin"} :
    Forward(c, [type |-> "POBICOS", from |-> c, dst |-> d, spec |-> s], R)

Handler(c) == HandleRegistry(c) \/ HandlePobicos(c) \/ WriteReply(c) \/ Accept(c)
              \/ ReadPartial(c) \/ ReadEof(c)

Environment(c) == PhoneCloses(c) \/ PhoneVanishes(c) \/ PhoneReads(c)

Next == Tick \/ \E c \in Conn : Handler(c) \/ Environment(c)

Spec == Init /\ [][Next]_vars
=============================================================================
