--------------------------- MODULE DirectoryProofs ---------------------------
(***************************************************************************)
(* Proofs about Directory, for every set of channels, every width of a     *)
(* byte and every bound.                                                   *)
(***************************************************************************)
EXTENDS DirectoryProps, RecursionProofs, FiniteSetTheorems

-----------------------------------------------------------------------------
\* Arithmetic of addresses.

\* There are at least four addresses.
LEMMA AddrModType == AddrMod \in Nat /\ AddrMod >= 4 /\ Broadcast \in Addr
<1>1. ByteMod \in Nat /\ ByteMod >= 2  BY ByteModAssumption
<1>2. ByteMod * ByteMod >= 2 * 2  BY <1>1, SMT
<1> QED  BY <1>1, <1>2, SMT DEF AddrMod, Broadcast, Addr

\* Casting the address counter to a char gives an address, and the counter itself
\* as long as it has not wrapped.
LEMMA CastAddr ==
  ASSUME NEW n \in Nat
  PROVE  n % AddrMod \in Addr /\ (n < AddrMod => n % AddrMod = n)
<1> DEFINE m == AddrMod
<1>1. m \in Nat /\ m >= 4  BY AddrModType
<1>2. n % m \in 0 .. m - 1 /\ (n < m => n % m = n)
  <2> HIDE DEF m
  <2> QED  BY <1>1, SMT
<1> QED  BY <1>2 DEF Addr

\* A decodable address survives the unmasked decoder.
LEMMA DecodableIsDecoded ==
  ASSUME NEW a \in Addr, Decodable(a)
  PROVE  DecodedAddr(a) = a
<1> DEFINE h == a \div ByteMod
           l == a % ByteMod
<1>1. ByteMod \in Nat /\ ByteMod >= 2  BY ByteModAssumption
<1>2. a \in Nat  BY AddrModType DEF Addr
<1>3. h \in Int /\ l \in 0 .. ByteMod - 1 /\ a = ByteMod * h + l  BY <1>1, <1>2, SMT
<1>4. CASE 2 * l < ByteMod
  <2>1. DecodedAddr(a) = h * ByteMod + l
    BY <1>1, <1>3, <1>4, SMT
    DEF DecodedAddr, ByteArrayToCharAt, SignedByte, HighByte, LowByte
  <2> QED  BY <2>1, <1>1, <1>3, SMT
<1>5. CASE ~(2 * l < ByteMod)
  <2>1. h = ByteMod - 1  BY <1>5 DEF Decodable, HighByte, LowByte
  <2>2. DecodedAddr(a) = AddrMod + (l - ByteMod)
    BY <1>1, <1>3, <1>5, SMT
    DEF DecodedAddr, ByteArrayToCharAt, SignedByte, HighByte, LowByte
  <2> QED  BY <2>1, <2>2, <1>1, <1>3, SMT DEF AddrMod
<1> QED  BY <1>4, <1>5

-----------------------------------------------------------------------------
\* The look-ups of the registry.

\* First finds a least element of a set of positive numbers, or tells it is empty.
LEMMA FirstProperty ==
  ASSUME NEW S \in SUBSET (Nat \ {0})
  PROVE  /\ S = {} => First(S) = 0
         /\ S # {} => First(S) \in S
<1>1. CASE S = {}  BY <1>1 DEF First
<1>2. CASE S # {}
  <2>1. \E x \in S : \A y \in S : x <= y  BY <1>2, LeastOf
  <2> QED  BY <1>2, <2>1 DEF First
<1> QED  BY <1>1, <1>2

\* What the three look-ups return.
LEMMA Lookups ==
  ASSUME reg \in Seq(NodeInfo), NEW s, NEW a, NEW cr
  PROVE  /\ IsRegistedSock(s) = 0 => \A i \in DOMAIN reg : reg[i].sock # s
         /\ IsRegistedSock(s) # 0 => /\ IsRegistedSock(s) \in DOMAIN reg
                                     /\ reg[IsRegistedSock(s)].sock = s
         /\ IsRegistedAddr(a) # 0 => /\ IsRegistedAddr(a) \in DOMAIN reg
                                     /\ reg[IsRegistedAddr(a)].addr = a
         /\ IsRegistered(cr) # 0 => IsRegistered(cr) \in DOMAIN reg
<1> DEFINE A == {i \in DOMAIN reg : reg[i].sock = s}
           B == {i \in DOMAIN reg : reg[i].addr = a}
           C == {i \in DOMAIN reg : reg[i].addr = cr.addr /\ reg[i].seed = cr.seed}
<1>1. A \in SUBSET (Nat \ {0}) /\ B \in SUBSET (Nat \ {0}) /\ C \in SUBSET (Nat \ {0})
  <2>1. DOMAIN reg \subseteq Nat \ {0}  BY SMT
  <2> QED  BY <2>1
<1>2. /\ IsRegistedSock(s) = First(A)
      /\ IsRegistedAddr(a) = First(B)
      /\ IsRegistered(cr) = First(C)
  BY DEF IsRegistedSock, IsRegistedAddr, IsRegistered
<1>3. /\ First(A) = 0 => A = {}
      /\ First(A) # 0 => First(A) \in A
      /\ First(B) # 0 => First(B) \in B
      /\ First(C) # 0 => First(C) \in C
  <2> HIDE DEF A, B, C
  <2> QED  BY <1>1, FirstProperty, SMT
<1> QED  BY <1>2, <1>3

-----------------------------------------------------------------------------
\* What a step does to the registry.

\* The registrations stay, refreshed at most.
SameBook ==
  /\ addr' = addr
  /\ reg' \in Seq(NodeInfo)
  /\ Len(reg') = Len(reg)
  /\ \A i \in DOMAIN reg : Registration(reg'[i]) = Registration(reg[i])

\* One is added, for a channel that has none.
NewEntry(e) ==
  /\ e \in NodeInfo
  /\ Len(reg) < MaxReg
  /\ e.addr = addr % AddrMod
  /\ \A i \in DOMAIN reg : reg[i].sock # e.sock
  /\ addr' = addr + 1
  /\ reg' = Append(reg, e)

\* Refreshing a registration leaves the abstract book as it is.
LEMMA TouchIsSameBook ==
  ASSUME StateTypeOK, NEW i \in DOMAIN reg, NEW loc \in Loc, addr' = addr,
         \/ reg' = [reg EXCEPT ![i].loc = loc, ![i].seen = now]
         \/ reg' = [reg EXCEPT ![i].seen = now]
  PROVE  SameBook
<1>1. reg \in Seq(NodeInfo) /\ now \in Nat  BY DEF StateTypeOK
<1>2. reg[i] \in NodeInfo  BY <1>1
<1>3. [reg[i] EXCEPT !.loc = loc, !.seen = now] \in NodeInfo  BY <1>1, <1>2 DEF NodeInfo
<1>4. [reg[i] EXCEPT !.seen = now] \in NodeInfo  BY <1>1, <1>2 DEF NodeInfo
<1>5. PICK e \in NodeInfo : /\ reg' = [reg EXCEPT ![i] = e]
                            /\ Registration(e) = Registration(reg[i])
  BY <1>1, <1>2, <1>3, <1>4 DEF Registration, NodeInfo
<1> QED  BY <1>1, <1>5, SMT DEF SameBook, Registration

\* A registration request adds an entry or leaves the book as it is.
LEMMA RegistryReqEffect ==
  ASSUME StateTypeOK, NEW c \in Conn, NEW cr \in Presented, NEW sd \in Seed, NEW loc \in Loc,
         RegistryReq(c, cr, sd, loc)
  PROVE  SameBook \/ \E e \in NodeInfo : NewEntry(e)
<1>1. reg \in Seq(NodeInfo) /\ addr \in Nat /\ now \in Nat  BY DEF StateTypeOK
<1>2. ASSUME NEW i \in DOMAIN reg, Refresh(c, cr, i, loc)
      PROVE  SameBook
  BY <1>2, TouchIsSameBook DEF Refresh
<1>3. CASE IsRegistedSock(c) # 0
  BY <1>1, <1>2, <1>3, Lookups DEF RegistryReq
<1>4. CASE IsRegistedSock(c) = 0
  <2>1. NewConnection(c, cr, sd, loc)  BY <1>4 DEF RegistryReq
  <2>2. CASE Register(c, cr, sd, loc)
    <3> DEFINE e == [addr |-> addr % AddrMod, seed |-> sd, sock |-> c, loc |-> loc, seen |-> now]
    <3>1. e \in NodeInfo  BY <1>1, CastAddr DEF NodeInfo
    <3>2. reg' = Append(reg, e) /\ addr' = addr + 1 /\ Len(reg) < MaxReg
      BY <2>2 DEF Register
    <3>3. \A i \in DOMAIN reg : reg[i].sock # e.sock  BY <1>1, <1>4, Lookups
    <3> QED  BY <3>1, <3>2, <3>3 DEF NewEntry
  <2>3. CASE Reject(c, cr) \/ \E i \in Int : RejectExpired(c, cr, i)
    BY <1>1, <2>3 DEF Reject, RejectExpired, SameBook
  <2>4. CASE IsRegistered(cr) # 0 /\ Refresh(c, cr, IsRegistered(cr), loc)
    BY <1>1, <1>2, <2>4, Lookups
  <2>5. CASE IsRegistered(cr) # 0 /\ RejectExpired(c, cr, IsRegistered(cr))
    BY <1>1, <2>5 DEF RejectExpired, SameBook
  <2> QED  BY <2>1, <2>2, <2>3, <2>4, <2>5 DEF NewConnection
<1> QED  BY <1>3, <1>4

\* So does every other step, which never adds one.
LEMMA StepEffect ==
  ASSUME StateTypeOK, [Next]_vars
  PROVE  SameBook \/ \E e \in NodeInfo : NewEntry(e)
<1>1. reg \in Seq(NodeInfo) /\ addr \in Nat /\ now \in Nat  BY DEF StateTypeOK
<1>2. ASSUME UNCHANGED <<reg, addr>>  PROVE SameBook  BY <1>1, <1>2 DEF SameBook
<1>3. ASSUME NEW c \in Conn, HandleRegistry(c)
      PROVE  SameBook \/ \E e \in NodeInfo : NewEntry(e)
  BY <1>3, RegistryReqEffect DEF HandleRegistry
<1>4. ASSUME NEW c \in Conn, HandlePobicos(c)
      PROVE  SameBook
  <2>1. PICK m, R : Forward(c, m, R)  BY <1>4 DEF HandlePobicos
  <2>2. CASE IsRegistedSock(c) = 0
    BY <1>2, <2>1, <2>2 DEF Forward
  <2>3. CASE IsRegistedSock(c) # 0
    <3>1. PICK loc \in Loc : TRUE  BY <1>1, <2>3, Lookups DEF NodeInfo
    <3>2. reg' = [reg EXCEPT ![IsRegistedSock(c)].seen = now] /\ addr' = addr
      BY <2>1, <2>3 DEF Forward
    <3> QED  BY <1>1, <2>3, <3>1, <3>2, Lookups, TouchIsSameBook
  <2> QED  BY <2>2, <2>3
<1>5. ASSUME NEW c \in Conn,
             WriteReply(c) \/ Accept(c) \/ ReadPartial(c) \/ ReadEof(c) \/ Environment(c)
      PROVE  SameBook
  BY <1>2, <1>5 DEF WriteReply, Accept, ReadPartial, ReadEof, Environment,
                    PhoneCloses, PhoneVanishes, PhoneReads
<1>6. CASE Tick \/ UNCHANGED vars  BY <1>2, <1>6 DEF Tick, vars
<1> QED  BY <1>3, <1>4, <1>5, <1>6 DEF Next, Handler

-----------------------------------------------------------------------------
\* Types.

\* The registry, the address counter, the clock, the channels and the reactor
\* keep their types.
THEOREM StateTypeCorrect == Spec => []StateTypeOK
<1>1. Init => StateTypeOK
  BY DEF Init, StateTypeOK, Status, Reactor
<1>2. StateTypeOK /\ [Next]_vars => StateTypeOK'
  <2> SUFFICES ASSUME StateTypeOK, [Next]_vars  PROVE StateTypeOK'
    OBVIOUS
  <2>1. reg' \in Seq(NodeInfo) /\ addr' \in Nat
    <3>1. CASE SameBook  BY <3>1 DEF SameBook, StateTypeOK
    <3>2. ASSUME NEW e \in NodeInfo, NewEntry(e)  PROVE reg' \in Seq(NodeInfo) /\ addr' \in Nat
      BY <3>2 DEF NewEntry, StateTypeOK
    <3> QED  BY <3>1, <3>2, StepEffect
  <2>2. now' \in Nat /\ status' \in [Conn -> Status] /\ reactor' \in Reactor
    <3>1. now \in Nat /\ status \in [Conn -> Status] /\ reactor \in Reactor  BY DEF StateTypeOK
    <3>2. ASSUME NEW c \in Conn, HandleRegistry(c)
          PROVE  now' = now /\ status' = status /\ reactor' \in Reactor
      <4>1. PICK cr \in Presented, sd \in Seed, loc \in Loc : RegistryReq(c, cr, sd, loc)
        BY <3>2 DEF HandleRegistry
      <4>2. cr \in Creds
        <5>1. ASSUME NEW n \in 1 .. MaxReg  PROVE n % AddrMod \in Addr
          BY CastAddr, DirectoryAssumption, SMT
        <5>2. 0 \in Addr  BY AddrModType DEF Addr
        <5> QED  BY <5>1, <5>2 DEF Presented, FirstTime, Creds
      <4>3. ASSUME NEW r \in Reply  PROVE Replying(c, cr, r) \in Reactor
        BY <4>2 DEF Replying, Reactor
      <4>4. [type |-> "FAIL"] \in Reply /\ [type |-> "PONG"] \in Reply
            /\ [type |-> "WELCOME", addr |-> addr % AddrMod, seed |-> sd] \in Reply
        BY CastAddr DEF Reply, StateTypeOK
      <4> QED  BY <4>1, <4>3, <4>4 DEF RegistryReq, NewConnection, Register, Reject,
                                       RejectExpired, Refresh
    <3>3. ASSUME NEW c \in Conn, HandlePobicos(c)
          PROVE  now' = now /\ status' = status /\ reactor' \in Reactor
      BY <3>3 DEF HandlePobicos, Forward, Reactor
    <3>4. ASSUME NEW c \in Conn, WriteReply(c) \/ Accept(c) \/ ReadPartial(c) \/ ReadEof(c)
          PROVE  now' = now /\ status' \in [Conn -> Status] /\ reactor' \in Reactor
      BY <3>1, <3>4 DEF WriteReply, Accept, ReadPartial, ReadEof, Reactor, Status, Reading
    <3>5. ASSUME NEW c \in Conn, Environment(c)
          PROVE  now' = now /\ status' \in [Conn -> Status] /\ reactor' = reactor
      BY <3>1, <3>5 DEF Environment, PhoneCloses, PhoneVanishes, PhoneReads, Status
    <3>6. CASE Tick \/ UNCHANGED vars  BY <3>1, <3>6, SMT DEF Tick, vars
    <3> QED  BY <3>1, <3>2, <3>3, <3>4, <3>5, <3>6 DEF Next, Handler
  <2> QED  BY <2>1, <2>2 DEF StateTypeOK
<1> QED  BY <1>1, <1>2, PTL DEF Spec

-----------------------------------------------------------------------------
\* The invariant of the registry.

\* Addresses are handed out in order: entry i was given the counter's value i,
\* cast to a char.  This is why addresses do not meet before the counter wraps.
OrdinalAddresses ==
  /\ addr = Len(reg) + 1
  /\ \A i \in DOMAIN reg : reg[i].addr = i % AddrMod

\* A welcome that waits to be written is already backed by its registration.
WelcomePending ==
  reactor.at = "reply" => (reactor.msg.type = "WELCOME" => Backed(reactor.conn, reactor.msg))

BookInv == StateTypeOK /\ OneEntryPerChannel /\ OrdinalAddresses

\* The book's part of the invariant is inductive.
LEMMA BookInvStep ==
  ASSUME BookInv, [Next]_vars, StateTypeOK'
  PROVE  OneEntryPerChannel' /\ OrdinalAddresses'
<1>1. reg \in Seq(NodeInfo) /\ addr \in Nat  BY DEF BookInv, StateTypeOK
<1>2. CASE SameBook
  <2>1. \A i \in DOMAIN reg : reg'[i].sock = reg[i].sock /\ reg'[i].addr = reg[i].addr
    BY <1>2 DEF SameBook, Registration
  <2>2. DOMAIN reg' = DOMAIN reg /\ Len(reg') = Len(reg) /\ addr' = addr
    BY <1>1, <1>2 DEF SameBook
  <2> QED  BY <2>1, <2>2 DEF BookInv, OneEntryPerChannel, OrdinalAddresses
<1>3. ASSUME NEW e \in NodeInfo, NewEntry(e)
      PROVE  OneEntryPerChannel' /\ OrdinalAddresses'
  <2>1. reg' = Append(reg, e) /\ addr' = addr + 1 /\ e.addr = addr % AddrMod
        /\ \A i \in DOMAIN reg : reg[i].sock # e.sock
    BY <1>3 DEF NewEntry
  <2>2. /\ Len(reg') = Len(reg) + 1
        /\ reg'[Len(reg) + 1] = e
        /\ \A i \in DOMAIN reg : reg'[i] = reg[i]
        /\ DOMAIN reg' = DOMAIN reg \cup {Len(reg) + 1}
    BY <1>1, <2>1
  <2>3. OneEntryPerChannel'
    BY <1>1, <2>1, <2>2 DEF BookInv, OneEntryPerChannel
  <2>4. OrdinalAddresses'
    BY <1>1, <2>1, <2>2 DEF BookInv, OrdinalAddresses
  <2> QED  BY <2>3, <2>4
<1> QED  BY <1>2, <1>3, StepEffect DEF BookInv

\* The inductive invariant holds of every behaviour.
LEMMA BookInvariant == Spec => []BookInv
<1>1. Init => OneEntryPerChannel /\ OrdinalAddresses
  BY DEF Init, OneEntryPerChannel, OrdinalAddresses
<1>2. OneEntryPerChannel /\ OrdinalAddresses /\ StateTypeOK /\ StateTypeOK' /\ [Next]_vars
      => OneEntryPerChannel' /\ OrdinalAddresses'
  BY BookInvStep DEF BookInv
<1>3. (OneEntryPerChannel /\ OrdinalAddresses /\ StateTypeOK) <=> BookInv  BY DEF BookInv
<1> QED  BY <1>1, <1>2, <1>3, StateTypeCorrect, PTL DEF Spec

\* No channel ever carries two registrations.
THEOREM OneEntryPerChannelHolds == Spec => []OneEntryPerChannel
<1>1. BookInv => OneEntryPerChannel  BY DEF BookInv
<1> QED  BY <1>1, BookInvariant, PTL

\* Addresses are distinct, and none is 0 or the broadcast address, for as long as
\* the counter has not wrapped.
THEOREM AddressesDistinctHolds == Spec => []AddressesDistinct
<1>1. BookInv => AddressesDistinct
  <2> SUFFICES ASSUME BookInv, addr <= Broadcast
               PROVE  /\ \A i, j \in DOMAIN reg : reg[i].addr = reg[j].addr => i = j
                      /\ \A i \in DOMAIN reg : reg[i].addr \notin {0, Broadcast}
    BY DEF AddressesDistinct
  <2>1. reg \in Seq(NodeInfo) /\ addr = Len(reg) + 1
        /\ \A i \in DOMAIN reg : reg[i].addr = i % AddrMod
    BY DEF BookInv, StateTypeOK, OrdinalAddresses
  <2>2. AddrMod \in Nat /\ Broadcast = AddrMod - 1  BY AddrModType DEF Broadcast
  <2>3. \A i \in DOMAIN reg : i \in Nat /\ i > 0 /\ i < Broadcast /\ i < AddrMod
    <3> HIDE DEF AddrMod
    <3> QED  BY <2>1, <2>2, SMT
  <2>4. \A i \in DOMAIN reg : reg[i].addr = i  BY <2>1, <2>3, CastAddr
  <2> QED  BY <2>3, <2>4, SMT
<1> QED  BY <1>1, BookInvariant, PTL

\* The registry implements AddressBook when the counter cannot wrap.
THEOREM RegistryImplementsAddressBook ==
  ASSUME MaxReg < Broadcast
  PROVE  Spec => ImplementsAddressBook
<1>1. Init => Book!BookInit
  <2> SUFFICES ASSUME Init  PROVE Book!BookInit  OBVIOUS
  <2>1. reg = <<>> /\ addr = 1  BY DEF Init
  <2>2. {Registration(reg[i]) : i \in DOMAIN reg} = {}  BY <2>1
  <2>3. 1 .. addr - 1 = {}  BY <2>1, SMT
  <2> QED  BY <2>2, <2>3 DEF Book!BookInit
<1>2. BookInv /\ [Next]_vars
      => [Book!BookNext]_<<{Registration(reg[i]) : i \in DOMAIN reg}, 1 .. addr - 1>>
  <2> SUFFICES ASSUME BookInv, [Next]_vars
               PROVE  [Book!BookNext]_<<{Registration(reg[i]) : i \in DOMAIN reg}, 1 .. addr - 1>>
    OBVIOUS
  <2> DEFINE book == {Registration(reg[i]) : i \in DOMAIN reg}
  <2>1. reg \in Seq(NodeInfo) /\ addr = Len(reg) + 1 /\ StateTypeOK
        /\ \A i \in DOMAIN reg : reg[i].addr = i % AddrMod
    BY DEF BookInv, StateTypeOK, OrdinalAddresses
  <2>2. CASE SameBook
    <3>1. /\ addr' = addr
          /\ DOMAIN reg' = DOMAIN reg
          /\ \A i \in DOMAIN reg : Registration(reg'[i]) = Registration(reg[i])
      BY <2>1, <2>2 DEF SameBook
    <3>2. book' = book  BY <3>1
    <3>3. 1 .. addr' - 1 = 1 .. addr - 1  BY <3>1
    <3> QED  BY <3>2, <3>3
  <2>3. ASSUME NEW e \in NodeInfo, NewEntry(e)
        PROVE  Book!BookNext
    <3> DEFINE r == Registration(e)
    <3>1. /\ reg' = Append(reg, e) /\ Len(reg) < MaxReg /\ addr' = addr + 1
          /\ e.addr = (Len(reg) + 1) % AddrMod
          /\ \A i \in DOMAIN reg : reg[i].sock # e.sock
      BY <2>1, <2>3 DEF NewEntry
    <3>2. /\ reg'[Len(reg) + 1] = e
          /\ \A i \in DOMAIN reg : reg'[i] = reg[i]
          /\ DOMAIN reg' = DOMAIN reg \cup {Len(reg) + 1}
      BY <2>1, <3>1
    <3>3. book' = book \cup {r}  BY <3>2
    <3>4. Broadcast \in Nat /\ Broadcast < AddrMod  BY AddrModType, SMT DEF Broadcast
    <3>5. \A i \in DOMAIN reg \cup {Len(reg) + 1} :
             i \in Nat /\ i > 0 /\ i < Broadcast /\ i < AddrMod
      <4>1. MaxReg \in Nat  BY DirectoryAssumption
      <4>2. Len(reg) \in Nat /\ DOMAIN reg = 1 .. Len(reg) /\ Len(reg) < MaxReg
        BY <2>1, <3>1
      <4>3. AddrMod \in Nat  BY AddrModType
      <4> QED  BY <3>4, <4>1, <4>2, <4>3, SMT
    <3>6. e.addr = Len(reg) + 1 /\ \A i \in DOMAIN reg : reg[i].addr = i
      BY <2>1, <3>1, <3>5, CastAddr
    <3>7. /\ r.addr \notin 1 .. addr - 1
          /\ 1 .. addr' - 1 = (1 .. addr - 1) \cup {r.addr}
      <4>1. Len(reg) \in Nat /\ r.addr = Len(reg) + 1  BY <2>1, <3>6 DEF Registration
      <4> QED  BY <2>1, <3>1, <4>1, SMT
    <3>8. r \in Book!Entry
      <4>1. e.addr \in 1 .. Broadcast - 1  BY <3>4, <3>5, <3>6, SMT
      <4> QED  BY <4>1 DEF Registration, Book!Entry, NodeInfo
    <3>9. \A f \in book : f.sock # r.sock
      BY <3>1 DEF Registration
    <3>10. Book!Assign(r)  BY <3>3, <3>7, <3>9 DEF Book!Assign
    <3> QED  BY <3>3, <3>8, <3>10 DEF Book!BookNext
  <2> QED  BY <2>1, <2>2, <2>3, StepEffect
<1> QED  BY <1>1, <1>2, BookInvariant, PTL DEF Spec, ImplementsAddressBook, Book!BookSpec

-----------------------------------------------------------------------------
\* What is written.

\* A forwarded message is written unchanged.
LEMMA WritesOfMessage ==
  ASSUME NEW c, NEW m, NEW R, NEW w \in Writes(c, m, R)
  PROVE  w.msg = m
BY DEF Writes, Write

\* A registration stays backed.
LEMMA BackedStays ==
  ASSUME StateTypeOK, [Next]_vars, NEW c, NEW m, Backed(c, m)
  PROVE  Backed(c, m)'
<1>1. PICK i \in DOMAIN reg : reg[i].sock = c /\ reg[i].addr = m.addr /\ reg[i].seed = m.seed
  BY DEF Backed
<1>2. i \in DOMAIN reg' /\ Registration(reg'[i]) = Registration(reg[i])
  BY StepEffect DEF StateTypeOK, SameBook, NewEntry
<1> QED  BY <1>1, <1>2 DEF Backed, Registration

\* A phone is welcomed with the address and seed of the entry that holds its channel.
THEOREM WelcomeBackedHolds == Spec => []WelcomeBacked
<1> DEFINE I == WelcomePending /\ WelcomeBacked
<1>1. Init => I
  BY DEF Init, WelcomePending, WelcomeBacked, Idle
<1>2. StateTypeOK /\ I /\ [Next]_vars => I'
  <2> SUFFICES ASSUME StateTypeOK, I, [Next]_vars  PROVE I'
    OBVIOUS
  <2>1. WelcomePending'
    <3>1. ASSUME reactor' = reactor  PROVE WelcomePending'
      BY <3>1, BackedStays DEF WelcomePending
    <3>2. ASSUME reactor'.at # "reply"  PROVE WelcomePending'
      BY <3>2 DEF WelcomePending
    <3>3. ASSUME NEW c \in Conn, NEW cr \in Presented, NEW sd \in Seed, NEW loc \in Loc,
                 RegistryReq(c, cr, sd, loc)
          PROVE  WelcomePending'
      <4>1. CASE Register(c, cr, sd, loc)
        <5> DEFINE e == [addr |-> addr % AddrMod, seed |-> sd, sock |-> c, loc |-> loc, seen |-> now]
                   m == [type |-> "WELCOME", addr |-> addr % AddrMod, seed |-> sd]
        <5>1. reg' = Append(reg, e) /\ reactor' = Replying(c, cr, m)  BY <4>1 DEF Register
        <5>2. Len(reg) + 1 \in DOMAIN reg' /\ reg'[Len(reg) + 1] = e
          <6> HIDE DEF e
          <6> QED  BY <5>1 DEF StateTypeOK
        <5>3. reactor'.conn = c /\ reactor'.msg = m  BY <5>1 DEF Replying
        <5>4. /\ reg'[Len(reg) + 1].sock = reactor'.conn
              /\ reg'[Len(reg) + 1].addr = reactor'.msg.addr
              /\ reg'[Len(reg) + 1].seed = reactor'.msg.seed
          BY <5>2, <5>3
        <5> QED  BY <5>2, <5>4 DEF WelcomePending, Backed
      <4>2. CASE reactor' \in {Replying(c, cr, [type |-> "FAIL"]), Replying(c, cr, [type |-> "PONG"])}
        BY <4>2 DEF WelcomePending, Replying
      <4> QED  BY <3>3, <4>1, <4>2 DEF RegistryReq, NewConnection, Reject, RejectExpired, Refresh
    <3>4. CASE reactor' = Idle \/ \E c \in Conn : reactor' = Reading(c)
      BY <3>2, <3>4 DEF Idle, Reading
    <3>5. (\E c \in Conn : HandleRegistry(c)) \/ reactor' = reactor \/ reactor' = Idle
          \/ \E c \in Conn : reactor' = Reading(c)
      BY DEF Next, Handler, HandlePobicos, Forward, WriteReply, Accept, ReadPartial, ReadEof,
             Environment, PhoneCloses, PhoneVanishes, PhoneReads, Tick, vars
    <3> QED  BY <3>1, <3>3, <3>4, <3>5 DEF HandleRegistry
  <2>2. WelcomeBacked'
    <3>1. CASE sent' = {}  BY <3>1 DEF WelcomeBacked
    <3>2. ASSUME NEW c \in Conn, HandlePobicos(c)  PROVE WelcomeBacked'
      <4>1. \A w \in sent' : w.msg.type = "POBICOS"
        BY <3>2, WritesOfMessage DEF HandlePobicos, Forward
      <4> QED  BY <4>1 DEF WelcomeBacked
    <3>3. ASSUME NEW c \in Conn, WriteReply(c)  PROVE WelcomeBacked'
      <4>1. /\ reactor.at = "reply" /\ reactor.conn = c /\ reg' = reg
            /\ \A w \in sent' : w.to = c /\ w.msg = reactor.msg
        BY <3>3 DEF WriteReply, Write
      <4>2. ASSUME NEW w \in sent', w.msg.type = "WELCOME"  PROVE Backed(w.to, w.msg)'
        <5>1. Backed(w.to, w.msg)  BY <4>1, <4>2 DEF WelcomePending
        <5> QED  BY <4>1, <5>1 DEF Backed
      <4> QED  BY <4>2 DEF WelcomeBacked
    <3>4. CASE UNCHANGED vars  BY <3>4, BackedStays DEF vars, WelcomeBacked
    <3>5. (\E c \in Conn : HandlePobicos(c) \/ WriteReply(c)) \/ sent' = {} \/ UNCHANGED vars
      BY DEF Next, Handler, HandleRegistry, RegistryReq, Accept, ReadPartial, ReadEof,
             Environment, PhoneCloses, PhoneVanishes, PhoneReads, Tick
    <3> QED  BY <3>1, <3>2, <3>3, <3>4, <3>5
  <2> QED  BY <2>1, <2>2
<1>3. I => WelcomeBacked  OBVIOUS
<1> QED  BY <1>1, <1>2, <1>3, StateTypeCorrect, PTL DEF Spec

\* A message for one decodable address is written only to a phone that has that
\* address and a position the message admits.
THEOREM AddressedOnlyHolds == Spec => []AddressedOnly
<1>1. Init => AddressedOnly  BY DEF Init, AddressedOnly
<1>2. StateTypeOK /\ AddressedOnly /\ [Next]_vars => AddressedOnly'
  <2> SUFFICES ASSUME StateTypeOK, AddressedOnly, [Next]_vars  PROVE AddressedOnly'
    OBVIOUS
  <2>1. CASE sent' = {}  BY <2>1 DEF AddressedOnly
  <2>2. CASE UNCHANGED vars  BY <2>2 DEF vars, AddressedOnly, DeliveredToAddressee
  <2>3. ASSUME NEW c \in Conn, WriteReply(c)  PROVE AddressedOnly'
    <3>1. \A w \in sent' : w.msg.type # "POBICOS"
      BY <2>3 DEF WriteReply, Write, StateTypeOK, Reactor, Idle, Reply
    <3> QED  BY <3>1 DEF AddressedOnly
  <2>4. ASSUME NEW c \in Conn, HandlePobicos(c)  PROVE AddressedOnly'
    <3>1. PICK m, R : Forward(c, m, R) /\ m.dst \in Addr
      BY <2>4, DirectoryAssumption DEF HandlePobicos
    <3>2. /\ DOMAIN reg' = DOMAIN reg
          /\ \A i \in DOMAIN reg : /\ reg'[i].sock = reg[i].sock
                                   /\ reg'[i].addr = reg[i].addr
                                   /\ reg'[i].loc = reg[i].loc
      <4>1. reg \in Seq(NodeInfo)  BY DEF StateTypeOK
      <4>2. CASE IsRegistedSock(c) = 0  BY <3>1, <4>2 DEF Forward
      <4>3. CASE IsRegistedSock(c) # 0
        <5>1. reg' = [reg EXCEPT ![IsRegistedSock(c)].seen = now]  BY <3>1, <4>3 DEF Forward
        <5> QED  BY <4>1, <5>1 DEF NodeInfo
      <4> QED  BY <4>2, <4>3
    <3>3. ASSUME NEW w \in sent', Decodable(w.msg.dst), w.msg.dst # Broadcast
          PROVE  DeliveredToAddressee(w)'
      <4>1. w \in Writes(c, m, R) /\ w.msg = m  BY <3>1, WritesOfMessage DEF Forward
      <4>2. DecodedAddr(m.dst) = m.dst  BY <3>1, <3>3, <4>1, DecodableIsDecoded
      <4>3. w.to \in Unicast(m, R).to  BY <3>3, <4>1, <4>2 DEF Writes, Write
      <4>4. /\ IsRegistedAddr(m.dst) # 0
            /\ w.to = reg[IsRegistedAddr(m.dst)].sock
            /\ reg[IsRegistedAddr(m.dst)].loc \in m.spec
        BY <4>2, <4>3 DEF Unicast
      <4>5. IsRegistedAddr(m.dst) \in DOMAIN reg /\ reg[IsRegistedAddr(m.dst)].addr = m.dst
        BY <4>4, Lookups DEF StateTypeOK
      <4> QED  BY <3>2, <4>1, <4>4, <4>5 DEF DeliveredToAddressee
    <3> QED  BY <3>3 DEF AddressedOnly
  <2>5. (\E c \in Conn : HandlePobicos(c) \/ WriteReply(c)) \/ sent' = {} \/ UNCHANGED vars
    BY DEF Next, Handler, HandleRegistry, RegistryReq, Accept, ReadPartial, ReadEof,
           Environment, PhoneCloses, PhoneVanishes, PhoneReads, Tick
  <2> QED  BY <2>1, <2>2, <2>3, <2>4, <2>5
<1> QED  BY <1>1, <1>2, StateTypeCorrect, PTL DEF Spec

\* A registration that expired with its channel closed is never refreshed.
THEOREM DeadStaysDeadHolds == Spec => DeadStaysDead
<1> DEFINE Dead(i) == Expired(i) /\ status[reg[i].sock] = "closed"
<1>1. StateTypeOK /\ [Next]_vars
      => [\A i \in DOMAIN reg : Dead(i) => reg'[i].seen = reg[i].seen]_vars
  <2> SUFFICES ASSUME StateTypeOK, Next, NEW i \in DOMAIN reg, Dead(i)
               PROVE  reg'[i].seen = reg[i].seen
    OBVIOUS
  <2>1. reg \in Seq(NodeInfo)  BY DEF StateTypeOK
  <2>2. ASSUME NEW c \in Conn, Serves(c)  PROVE IsRegistedSock(c) # i
    BY <2>1, <2>2, Lookups DEF Serves
  <2>3. ASSUME NEW c \in Conn, NEW cr, NEW n \in DOMAIN reg \ {i}, NEW loc, Refresh(c, cr, n, loc)
        PROVE  reg'[i].seen = reg[i].seen
    BY <2>3, <2>1 DEF Refresh
  <2>4. ASSUME NEW c \in Conn, HandleRegistry(c)  PROVE reg'[i].seen = reg[i].seen
    <3>1. PICK cr \in Presented, sd \in Seed, loc \in Loc : RegistryReq(c, cr, sd, loc)
      BY <2>4 DEF HandleRegistry
    <3>2. CASE IsRegistedSock(c) # 0
      BY <2>1, <2>2, <2>3, <3>1, <3>2, Lookups DEF RegistryReq
    <3>3. CASE IsRegistedSock(c) = 0
      <4>1. NewConnection(c, cr, sd, loc)  BY <3>1, <3>3 DEF RegistryReq
      <4>2. CASE Register(c, cr, sd, loc)
        <5>1. PICK e : reg' = Append(reg, e)  BY <4>2 DEF Register
        <5>2. reg'[i] = reg[i]  BY <2>1, <5>1
        <5> QED  BY <5>2
      <4>3. CASE reg' = reg  BY <4>3
      <4>4. CASE /\ IsRegistered(cr) # 0 /\ ~Expired(IsRegistered(cr))
                 /\ Refresh(c, cr, IsRegistered(cr), loc)
        BY <2>1, <2>3, <4>4, Lookups
      <4> QED  BY <4>1, <4>2, <4>3, <4>4 DEF NewConnection, Reject, RejectExpired
    <3> QED  BY <3>2, <3>3
  <2>5. ASSUME NEW c \in Conn, HandlePobicos(c)  PROVE reg'[i].seen = reg[i].seen
    <3>1. /\ Serves(c)
          /\ LET n == IsRegistedSock(c)
             IN  reg' = IF n = 0 THEN reg ELSE [reg EXCEPT ![n].seen = now]
      BY <2>5 DEF HandlePobicos, Forward
    <3>2. IsRegistedSock(c) # i  BY <2>2, <3>1
    <3> QED  BY <2>1, <3>1, <3>2, Lookups
  <2>6. CASE reg' = reg  BY <2>6
  <2>7. (\E c \in Conn : HandlePobicos(c) \/ HandleRegistry(c)) \/ reg' = reg
    BY DEF Next, Handler, WriteReply, Accept, ReadPartial, ReadEof,
           Environment, PhoneCloses, PhoneVanishes, PhoneReads, Tick
  <2> QED  BY <2>4, <2>5, <2>6, <2>7
<1> QED  BY <1>1, StateTypeCorrect, PTL DEF Spec, DeadStaysDead

-----------------------------------------------------------------------------
\* How much is written.

\* What one non-blocking write to d takes: no more than there is, and no more than
\* there is room for where somebody may still read it.
LEMMA TakenIs ==
  ASSUME NEW d, NEW R, NEW rem \in Nat, NEW held \in Int, status[d] # "fin" => held <= OutCap
  PROVE  /\ Taken(d, R, rem, held) \in 0 .. rem
         /\ status[d] # "fin" => Taken(d, R, rem, held) <= OutCap - held
<1>1. OutCap \in Nat  BY DirectoryAssumption
<1>2. CASE Throws(d, R)  BY <1>1, <1>2 DEF Taken
<1>3. CASE ~Throws(d, R) /\ status[d] = "fin"  BY <1>3 DEF Taken
<1>4. CASE ~Throws(d, R) /\ status[d] # "fin"
  <2>1. Taken(d, R, rem, held) = Smaller(rem, OutCap - held)  BY <1>4 DEF Taken
  <2>2. held <= OutCap  BY <1>4
  <2> QED  BY <1>1, <2>1, <2>2 DEF Smaller
<1> QED  BY <1>2, <1>3, <1>4

\* The entries of the registry.
LEMMA EntryIs ==
  ASSUME StateTypeOK, NEW i \in DOMAIN reg
  PROVE  reg[i].sock \in Conn
<1>1. reg \in Seq(NodeInfo)  BY DEF StateTypeOK
<1>2. reg[i] \in NodeInfo  BY <1>1
<1> QED  BY <1>2 DEF NodeInfo

\* The first write goes to one phone, whose buffer has room for it.
UnicastOk(u) == /\ u.to \subseteq Conn /\ u.taken \in 0 .. Parts
                /\ \A d \in u.to : status[d] # "fin" => u.taken <= OutCap - backlog[d]

LEMMA UnicastIs ==
  ASSUME StateTypeOK, OutputTypeOK, NEW m, NEW R
  PROVE  UnicastOk(Unicast(m, R))
<1> DEFINE i == IsRegistedAddr(DecodedAddr(m.dst))
           s == reg[i].sock
           taken == Taken(s, R, Parts, backlog[s])
<1>1. OutCap \in Nat /\ Parts \in Nat  BY DirectoryAssumption
<1>2. CASE i = 0 \/ reg[i].loc \notin m.spec
  <2>1. Unicast(m, R) = [to |-> {}, taken |-> 0, throws |-> FALSE]  BY <1>2 DEF Unicast
  <2> QED  BY <1>1, <2>1 DEF UnicastOk
<1>3. CASE ~(i = 0 \/ reg[i].loc \notin m.spec)
  <2>1. Unicast(m, R) = [to |-> {s}, taken |-> taken, throws |-> Throws(s, R)]  BY <1>3 DEF Unicast
  <2>2. i \in DOMAIN reg  BY <1>3, Lookups DEF StateTypeOK
  <2>3. s \in Conn  BY <2>2, EntryIs
  <2>4. backlog[s] \in 0 .. OutCap  BY <2>3 DEF OutputTypeOK
  <2>5. taken \in 0 .. Parts /\ (status[s] # "fin" => taken <= OutCap - backlog[s])
    <3> HIDE DEF s
    <3> QED  BY <1>1, <2>4, TakenIs
  <2> HIDE DEF s, taken
  <2> QED  BY <2>1, <2>3, <2>5 DEF UnicastOk
<1> QED  BY <1>2, <1>3

\* The pieces the send buffer of d holds after the first write.
HeldAfter(d, u) == backlog[d] + (IF d \in u.to THEN u.taken ELSE 0)

\* The pieces entry i is given when the position is x.
Step(i, c, m, R, u, x) ==
  IF ~Hears(i, c, m) THEN 0 ELSE Taken(reg[i].sock, R, Parts - x, HeldAfter(reg[i].sock, u))

LEMMA StepIs ==
  ASSUME StateTypeOK, OutputTypeOK, NEW c, NEW m, NEW R, NEW u, UnicastOk(u),
         NEW i \in DOMAIN reg, NEW x \in 0 .. Parts
  PROVE  LET d == reg[i].sock
             k == Step(i, c, m, R, u, x)
         IN  /\ x + k \in 0 .. Parts /\ k \in Nat
             /\ status[d] # "fin" => k <= OutCap - HeldAfter(d, u)
<1> DEFINE d == reg[i].sock
           h == HeldAfter(d, u)
           k == Step(i, c, m, R, u, x)
<1>1. OutCap \in Nat /\ Parts \in Nat  BY DirectoryAssumption
<1>2. d \in Conn  BY EntryIs
<1>3. backlog[d] \in 0 .. OutCap /\ u.taken \in 0 .. Parts  BY <1>2 DEF OutputTypeOK, UnicastOk
<1>4. h \in Int /\ (status[d] # "fin" => h <= OutCap)
  <2>1. CASE d \in u.to
    <3>1. status[d] # "fin" => u.taken <= OutCap - backlog[d]  BY <2>1 DEF UnicastOk
    <3>2. h = backlog[d] + u.taken  BY <2>1 DEF HeldAfter
    <3> QED  BY <1>1, <1>3, <3>1, <3>2
  <2>2. CASE d \notin u.to
    <3>1. h = backlog[d] + 0  BY <2>2 DEF HeldAfter
    <3> QED  BY <1>1, <1>3, <3>1
  <2> QED  BY <2>1, <2>2
<1>5. k = IF ~Hears(i, c, m) THEN 0 ELSE Taken(d, R, Parts - x, h)  BY DEF Step
<1> HIDE DEF d, h, k
<1>6. k \in 0 .. Parts - x /\ (status[d] # "fin" => k <= OutCap - h)
  <2>1. CASE ~Hears(i, c, m)  BY <1>1, <1>4, <1>5, <2>1
  <2>2. CASE Hears(i, c, m)
    <3>1. Parts - x \in Nat  BY <1>1
    <3> QED  BY <1>4, <1>5, <2>2, <3>1, TakenIs
  <2> QED  BY <2>1, <2>2
<1>7. x + k \in 0 .. Parts /\ k \in Nat  BY <1>1, <1>6
<1> QED  BY <1>6, <1>7 DEF d, h, k

\* The position moves on with the entries, and stays inside the message.
LEMMA PositionIs ==
  ASSUME StateTypeOK, OutputTypeOK, NEW c, NEW m, NEW R, NEW u, UnicastOk(u), NEW pos, pos = Position(c, m, R, u)
  PROVE  \A i \in DOMAIN reg : /\ i - 1 \in 0 .. Len(reg) /\ pos[i - 1] \in 0 .. Parts /\ pos[i] \in 0 .. Parts
                               /\ pos[i] = pos[i - 1] + Step(i, c, m, R, u, pos[i - 1])
<1> DEFINE N == Len(reg)
           D == 0 .. Parts
           G == [i \in 1 .. N |-> [x \in D |-> x + Step(i, c, m, R, u, x)]]
           g == Iteration(D, u.taken, N, G)
           Held(d) == backlog[d] + (IF d \in u.to THEN u.taken ELSE 0)
           p == CHOOSE f : f = [i \in 0 .. Len(reg) |->
                  IF i = 0 THEN u.taken
                  ELSE IF ~Hears(i, c, m) THEN f[i - 1]
                  ELSE f[i - 1] + Taken(reg[i].sock, R, Parts - f[i - 1], Held(reg[i].sock))]
<1>1. N \in Nat /\ DOMAIN reg = 1 .. N /\ u.taken \in D  BY DEF StateTypeOK, UnicastOk
<1>2. pos = p  BY DEF Position
<1>3. \A i \in 1 .. N : i - 1 \in 0 .. N /\ i \in 0 .. N /\ i # 0  BY <1>1
<1>4. \A i \in 1 .. N : \A x \in D : x + Step(i, c, m, R, u, x) \in D  BY <1>1, StepIs
<1>5. G \in [1 .. N -> [D -> D]]  BY <1>4
<1>6. g \in [0 .. N -> D] /\ g[0] = u.taken /\ \A i \in 1 .. N : g[i] = G[i][g[i - 1]]
  <2> HIDE DEF G, D, N
  <2>1. IsIteration(g, D, u.taken, N, G)  BY <1>1, <1>5, Iterates
  <2> QED  BY <2>1 DEF IsIteration
<1> HIDE DEF g
<1>7. \A i \in 1 .. N : g[i] = g[i - 1] + Step(i, c, m, R, u, g[i - 1])
  <2> SUFFICES ASSUME NEW i \in 1 .. N PROVE g[i] = g[i - 1] + Step(i, c, m, R, u, g[i - 1])
    OBVIOUS
  <2>1. g[i - 1] \in D  BY <1>3, <1>6
  <2>2. g[i] = G[i][g[i - 1]]  BY <1>6
  <2> HIDE DEF D
  <2> QED  BY <2>1, <2>2
<1>8. \A i \in 1 .. N : \A x \in D :
        x + Step(i, c, m, R, u, x) = IF ~Hears(i, c, m) THEN x ELSE x + Taken(reg[i].sock, R, Parts - x, Held(reg[i].sock))
  BY DEF Step, HeldAfter
<1>9. g = [i \in 0 .. N |-> IF i = 0 THEN u.taken
                            ELSE IF ~Hears(i, c, m) THEN g[i - 1]
                            ELSE g[i - 1] + Taken(reg[i].sock, R, Parts - g[i - 1], Held(reg[i].sock))]
  <2> HIDE DEF D, Held
  <2>1. \A i \in 1 .. N : g[i - 1] \in D  BY <1>3, <1>6
  <2>2. \A i \in 1 .. N : g[i] = IF ~Hears(i, c, m) THEN g[i - 1]
                                 ELSE g[i - 1] + Taken(reg[i].sock, R, Parts - g[i - 1], Held(reg[i].sock))
    BY <1>7, <1>8, <2>1
  <2> HIDE DEF N
  <2>3. \A i \in 0 .. N : i = 0 \/ i \in 1 .. N  BY <1>1
  <2> QED  BY <1>6, <2>2, <2>3
<1>10. p = [i \in 0 .. N |-> IF i = 0 THEN u.taken
                            ELSE IF ~Hears(i, c, m) THEN p[i - 1]
                            ELSE p[i - 1] + Taken(reg[i].sock, R, Parts - p[i - 1], Held(reg[i].sock))]
  BY <1>9
<1> HIDE DEF p, N, G
<1>11. p[0] = u.taken  BY <1>1, <1>10
<1>12. \A i \in 1 .. N : p[i - 1] \in D => p[i] = p[i - 1] + Step(i, c, m, R, u, p[i - 1])
  <2> HIDE DEF D, Held
  <2> QED  BY <1>3, <1>8, <1>10
<1>13. \A i \in 1 .. N : p[i - 1] \in D => p[i] \in D
  <2> HIDE DEF D
  <2> QED  BY <1>4, <1>12
<1>14. \A i \in 0 .. N : p[i] \in D
  <2> HIDE DEF D
  <2> QED  BY <1>1, <1>11, <1>13, Stays
<1> HIDE DEF D
<1>15. \A i \in 1 .. N : /\ i - 1 \in 0 .. N /\ p[i - 1] \in D /\ p[i] \in D
                         /\ p[i] = p[i - 1] + Step(i, c, m, R, u, p[i - 1])
  BY <1>3, <1>12, <1>14
<1> QED  BY <1>1, <1>2, <1>15 DEF D, N

\* The writes of a message are of pieces it has.
LEMMA WritesAre ==
  ASSUME StateTypeOK, OutputTypeOK, NEW c \in Conn, NEW m \in PobicosMsg, NEW R
  PROVE  Writes(c, m, R) \subseteq [to : Conn, msg : Reply \cup PobicosMsg, parts : SUBSET AllParts]
<1> DEFINE u == Unicast(m, R)
           pos == Position(c, m, R, u)
<1>1. Parts \in Nat  BY DirectoryAssumption
<1>2. UnicastOk(u)  BY UnicastIs
<1>3. ASSUME NEW d \in u.to  PROVE d \in Conn /\ 1 .. u.taken \subseteq AllParts
  BY <1>1, <1>2, <1>3 DEF UnicastOk, AllParts
<1>4. ASSUME NEW i \in DOMAIN reg  PROVE reg[i].sock \in Conn /\ pos[i - 1] + 1 .. pos[i] \subseteq AllParts
  <2>1. pos[i - 1] \in 0 .. Parts /\ pos[i] \in 0 .. Parts
    <3> HIDE DEF u
    <3> QED  BY <1>2, PositionIs
  <2> HIDE DEF pos
  <2>2. pos[i - 1] + 1 .. pos[i] \subseteq AllParts  BY <1>1, <2>1 DEF AllParts
  <2> QED  BY <2>2, EntryIs
<1>5. Writes(c, m, R) \subseteq {Write(d, m, 1 .. u.taken) : d \in u.to}
                                \cup {Write(reg[i].sock, m, pos[i - 1] + 1 .. pos[i]) : i \in DOMAIN reg}
  BY DEF Writes
<1> HIDE DEF u, pos
<1>6. ASSUME NEW w \in Writes(c, m, R)
      PROVE  \E d \in Conn, S \in SUBSET AllParts : w = Write(d, m, S)
  <2>1. CASE w \in {Write(d, m, 1 .. u.taken) : d \in u.to}  BY <1>3, <2>1
  <2>2. CASE w \in {Write(reg[i].sock, m, pos[i - 1] + 1 .. pos[i]) : i \in DOMAIN reg}  BY <1>4, <2>2
  <2> QED  BY <1>5, <2>1, <2>2
<1> QED  BY <1>6 DEF Write

\* What a channel whose phone may still read is given by the writes of a message fits into its
\* send buffer: it is written to once as the destination and, since no channel has two entries,
\* once by the broadcast.
LEMMA LandedFits ==
  ASSUME StateTypeOK, OutputTypeOK, OneEntryPerChannel, NEW c \in Conn, NEW m \in PobicosMsg, NEW R, NEW d \in Conn
  PROVE  backlog[d] + Landed(d, Writes(c, m, R)) \in 0 .. OutCap
<1> DEFINE W == Writes(c, m, R)
           u == Unicast(m, R)
           pos == Position(c, m, R, u)
           given == UNION {w.parts : w \in {v \in W : v.to = d}}
<1>1. OutCap \in Nat /\ Parts \in Nat /\ backlog[d] \in 0 .. OutCap  BY DirectoryAssumption DEF OutputTypeOK
<1>2. CASE status[d] = "fin"  BY <1>1, <1>2 DEF Landed
<1>3. CASE status[d] # "fin"
  <2> DEFINE a == IF d \in u.to THEN u.taken ELSE 0
  <2>1. UnicastOk(u)  BY UnicastIs
  <2>2. a \in Nat /\ a <= OutCap - backlog[d] /\ HeldAfter(d, u) = backlog[d] + a
    <3>1. u.taken \in Nat /\ (d \in u.to => u.taken <= OutCap - backlog[d])
      BY <1>1, <1>3, <2>1 DEF UnicastOk
    <3> HIDE DEF u
    <3> QED  BY <1>1, <3>1 DEF HeldAfter
  <2>3. \A w \in W : \/ w.to \in u.to /\ w.parts = 1 .. u.taken
                     \/ \E i \in DOMAIN reg : w.to = reg[i].sock /\ w.parts = pos[i - 1] + 1 .. pos[i]
    <3> HIDE DEF u, pos
    <3> QED  BY DEF W, u, pos, Writes, Write
  <2>4. PICK x \in Nat, y \in Nat : /\ x <= y /\ y - x <= OutCap - (backlog[d] + a)
                                   /\ \A i \in DOMAIN reg : reg[i].sock = d => pos[i - 1] = x /\ pos[i] = y
    <3>1. CASE \A i \in DOMAIN reg : reg[i].sock # d
      <4>1. 0 \in Nat /\ 0 <= 0 /\ 0 - 0 <= OutCap - (backlog[d] + a)
        <5> HIDE DEF a
        <5> QED  BY <1>1, <2>2
      <4> HIDE DEF a, pos
      <4> QED  BY <3>1, <4>1
    <3>2. ASSUME NEW i \in DOMAIN reg, reg[i].sock = d
          PROVE  \E x \in Nat, y \in Nat : /\ x <= y /\ y - x <= OutCap - (backlog[d] + a)
                                   /\ \A j \in DOMAIN reg : reg[j].sock = d => pos[j - 1] = x /\ pos[j] = y
      <4> DEFINE k == Step(i, c, m, R, u, pos[i - 1])
      <4> HIDE DEF u
      <4>1. pos[i - 1] \in 0 .. Parts /\ pos[i] \in 0 .. Parts /\ pos[i] = pos[i - 1] + k
        BY <2>1, PositionIs
      <4> HIDE DEF pos
      <4>2. k \in Nat /\ k <= OutCap - HeldAfter(d, u)  BY <1>3, <2>1, <3>2, <4>1, StepIs
      <4> HIDE DEF k, a
      <4>3. /\ pos[i - 1] \in Nat /\ pos[i] \in Nat /\ pos[i - 1] <= pos[i]
            /\ pos[i] - pos[i - 1] <= OutCap - (backlog[d] + a)
        BY <1>1, <2>2, <4>1, <4>2
      <4>4. \A j \in DOMAIN reg : reg[j].sock = d => j = i  BY <3>2 DEF OneEntryPerChannel
      <4> QED  BY <4>3, <4>4
    <3> HIDE DEF a, pos, u
    <3> QED  BY <3>1, <3>2
  <2>5. given \subseteq (1 .. a) \cup (x + 1 .. y)
    <3> SUFFICES ASSUME NEW w \in W, w.to = d  PROVE w.parts \subseteq (1 .. a) \cup (x + 1 .. y)
      OBVIOUS
    <3> HIDE DEF W, pos, u
    <3> QED  BY <2>3, <2>4
  <2> HIDE DEF a, given
  <2>6. /\ IsFiniteSet(1 .. a) /\ Cardinality(1 .. a) = a
        /\ IsFiniteSet(x + 1 .. y) /\ Cardinality(x + 1 .. y) = y - x
    <3>1. 1 \in Int /\ a \in Int /\ x + 1 \in Int /\ y \in Int  BY <2>2, <2>4
    <3>2. /\ IsFiniteSet(1 .. a) /\ Cardinality(1 .. a) = IF 1 > a THEN 0 ELSE a - 1 + 1
          /\ IsFiniteSet(x + 1 .. y) /\ Cardinality(x + 1 .. y) = IF x + 1 > y THEN 0 ELSE y - (x + 1) + 1
      BY <3>1, FS_Interval
    <3> QED  BY <2>2, <2>4, <3>2
  <2> DEFINE A == 1 .. a
             B == x + 1 .. y
  <2> HIDE DEF A, B
  <2>7. /\ IsFiniteSet(A \cup B) /\ Cardinality(A \cup B) = Cardinality(A) + Cardinality(B) - Cardinality(A \cap B)
        /\ IsFiniteSet(A \cap B)
    <3>1. IsFiniteSet(A) /\ IsFiniteSet(B) /\ A \cap B \in SUBSET A  BY <2>6 DEF A, B
    <3> QED  BY <3>1, FS_Union, FS_Subset
  <2>8. IsFiniteSet(given) /\ Cardinality(given) <= Cardinality(A \cup B)
    BY <2>5, <2>7, FS_Subset DEF A, B
  <2>9. Cardinality(given) \in Nat /\ Cardinality(A \cap B) \in Nat /\ Cardinality(A \cup B) \in Nat
    BY <2>7, <2>8, FS_CardinalityType
  <2>10. Cardinality(given) <= a + (y - x)
    <3>1. Cardinality(A) = a /\ Cardinality(B) = y - x  BY <2>6 DEF A, B
    <3> QED  BY <2>2, <2>4, <2>7, <2>8, <2>9, <3>1
  <2>11. Landed(d, W) = Cardinality(given)  BY <1>3 DEF Landed, given
  <2> QED  BY <1>1, <2>2, <2>4, <2>9, <2>10, <2>11
<1> QED  BY <1>2, <1>3

\* All variables keep their types: no send buffer is ever given more than it can
\* hold, and no write has pieces the message does not have.
THEOREM TypeCorrect == Spec => []TypeOK
<1>1. Init => OutputTypeOK  BY DirectoryAssumption DEF Init, OutputTypeOK
<1>2. StateTypeOK /\ OneEntryPerChannel /\ OutputTypeOK /\ [Next]_vars => OutputTypeOK'
  <2> SUFFICES ASSUME StateTypeOK, OneEntryPerChannel, OutputTypeOK, [Next]_vars  PROVE OutputTypeOK'
    OBVIOUS
  <2> DEFINE S == [to : Conn, msg : Reply \cup PobicosMsg, parts : SUBSET AllParts]
  <2>1. backlog \in [Conn -> 0 .. OutCap] /\ sent \subseteq S /\ OutCap \in Nat  BY DirectoryAssumption DEF OutputTypeOK
  <2>2. CASE sent' = {} /\ backlog' = backlog  BY <2>1, <2>2 DEF OutputTypeOK
  <2>3. ASSUME NEW c \in Conn, HandlePobicos(c)  PROVE OutputTypeOK'
    <3>1. PICK e \in Dst, s \in LocSpec, R \in SUBSET {x \in Conn : status[x] = "fin"} :
            Forward(c, [type |-> "POBICOS", from |-> c, dst |-> e, spec |-> s], R)
      BY <2>3 DEF HandlePobicos
    <3> DEFINE m == [type |-> "POBICOS", from |-> c, dst |-> e, spec |-> s]
    <3>2. m \in PobicosMsg  BY DirectoryAssumption DEF PobicosMsg
    <3>3. sent' = Writes(c, m, R) /\ backlog' = [d \in Conn |-> backlog[d] + Landed(d, sent')]
      BY <3>1 DEF Forward
    <3> HIDE DEF m
    <3>4. sent' \subseteq S  BY <3>2, <3>3, WritesAre
    <3>5. \A d \in Conn : backlog[d] + Landed(d, sent') \in 0 .. OutCap  BY <3>2, <3>3, LandedFits
    <3>6. backlog' \in [Conn -> 0 .. OutCap]  BY <3>3, <3>5
    <3> QED  BY <3>4, <3>6 DEF OutputTypeOK
  <2>4. ASSUME NEW c \in Conn, WriteReply(c)  PROVE OutputTypeOK'
    <3>1. CASE sent' = {} /\ backlog' = backlog  BY <2>2, <3>1
    <3>2. CASE /\ backlog[c] < OutCap /\ backlog' = [backlog EXCEPT ![c] = @ + 1]
               /\ sent' = {Write(c, reactor.msg, {1})}
      <4>1. backlog[c] + 1 \in 0 .. OutCap  BY <2>1, <3>2
      <4>2. backlog' \in [Conn -> 0 .. OutCap]  BY <2>1, <3>2, <4>1
      <4>3. reactor.msg \in Reply  BY <2>4 DEF WriteReply, StateTypeOK, Reactor, Idle
      <4>4. {1} \in SUBSET AllParts  BY DirectoryAssumption DEF AllParts
      <4>5. sent' \subseteq S  BY <3>2, <4>3, <4>4 DEF Write
      <4> QED  BY <4>2, <4>5 DEF OutputTypeOK
    <3> QED  BY <2>4, <3>1, <3>2 DEF WriteReply
  <2>5. ASSUME NEW c \in Conn, Environment(c)  PROVE OutputTypeOK'
    <3>1. CASE PhoneCloses(c)
      <4>1. backlog' = [backlog EXCEPT ![c] = 0] /\ sent' = {}  BY <3>1 DEF PhoneCloses
      <4> QED  BY <2>1, <4>1 DEF OutputTypeOK
    <3>2. CASE PhoneReads(c)
      <4>1. backlog[c] > 0 /\ backlog' = [backlog EXCEPT ![c] = @ - 1] /\ sent' = {}  BY <3>2 DEF PhoneReads
      <4>2. backlog[c] - 1 \in 0 .. OutCap  BY <2>1, <4>1
      <4> QED  BY <2>1, <4>1, <4>2 DEF OutputTypeOK
    <3>3. CASE PhoneVanishes(c)  BY <2>2, <3>3 DEF PhoneVanishes
    <3> QED  BY <2>5, <3>1, <3>2, <3>3 DEF Environment
  <2>6. CASE UNCHANGED vars  BY <2>1, <2>6 DEF vars, OutputTypeOK
  <2>7. \/ \E c \in Conn : HandlePobicos(c) \/ WriteReply(c) \/ Environment(c)
        \/ sent' = {} /\ backlog' = backlog
        \/ UNCHANGED vars
    BY DEF Next, Handler, HandleRegistry, RegistryReq, Accept, ReadPartial, ReadEof, Tick
  <2> QED  BY <2>2, <2>3, <2>4, <2>5, <2>6, <2>7
<1>3. TypeOK <=> StateTypeOK /\ OutputTypeOK  BY DEF TypeOK
<1> QED  BY <1>1, <1>2, <1>3, StateTypeCorrect, OneEntryPerChannelHolds, PTL DEF Spec
=============================================================================
