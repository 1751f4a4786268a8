------------------------------ MODULE LinkProofs ------------------------------
(***************************************************************************)
(* The reliable transport implements the abstract link: as long as no node *)
(* has reset its counters or used up its sequence numbers, messages are    *)
(* handed over once and in their order, and a message in one packet that   *)
(* is reported as sent has been handed over.                               *)
(***************************************************************************)
EXTENDS TransportProofs

-----------------------------------------------------------------------------
(* The fragments in a buffer. *)

(* The buffer holds fragment f of message e. *)
Held(buf, e, f) == \E i \in Slots : buf[i] # Free /\ buf[i].msg = e /\ buf[i].frag = f

(* Every packet in the buffer has the number of its place. *)
AllNamed(q, p, o, buf) == \A i \in Slots : buf[i] # Free => buf[i] \in NamedOf(q, p, o)

(* Some fragment of every message is missing. *)
Incomplete(p, buf) == \A e \in Msgs(p) : \E f \in 0..Fragments[p][e]-1 : ~Held(buf, e, f)

(* A number further on, or, past the last number, from the first. *)
LEMMA DistAhead ==
  ASSUME NEW q \in Seqs, NEW r \in Seqs, NEW k \in Nat, k < SeqMod
  PROVE  /\ Plus(r, k) \in Seqs
         /\ Dist(q, Plus(r, k)) = IF Dist(q, r) + k < SeqMod THEN Dist(q, r) + k ELSE Dist(q, r) + k - SeqMod
<1> DEFINE a == Dist(q, r)
           t == Plus(r, k)
           c == Dist(q, t)
<1>1. a \in Seqs /\ a = IF q <= r THEN r - q ELSE r - q + SeqMod  BY DistIs
<1>2. k \in Int /\ -SeqMod <= k /\ k <= SeqMod  BY Constants DEF Seqs
<1>3. t \in Seqs /\ t = IF r + k < 0 THEN r + k + SeqMod ELSE IF r + k < SeqMod THEN r + k ELSE r + k - SeqMod
  BY <1>2, PlusIs
<1> HIDE DEF a, t
<1>4. c = IF q <= t THEN t - q ELSE t - q + SeqMod  BY <1>3, DistIs
<1> HIDE DEF c
<1>5. c = IF a + k < SeqMod THEN a + k ELSE a + k - SeqMod  BY <1>1, <1>2, <1>3, <1>4, Constants DEF Seqs
<1> QED  BY <1>3, <1>5 DEF a, t, c

LEMMA DistBack ==
  ASSUME NEW q \in Seqs, NEW r \in Seqs, NEW k \in Nat, k <= Dist(q, r)
  PROVE  Plus(r, -k) \in Seqs /\ Dist(q, Plus(r, -k)) = Dist(q, r) - k
<1> DEFINE a == Dist(q, r)
           t == Plus(r, -k)
           c == Dist(q, t)
<1>1. a \in Seqs /\ a = IF q <= r THEN r - q ELSE r - q + SeqMod  BY DistIs
<1>2. k <= a  OBVIOUS
<1> HIDE DEF a
<1>3. -k \in Int /\ -SeqMod <= -k /\ -k <= SeqMod  BY <1>1, <1>2, Constants DEF Seqs
<1>4. t \in Seqs /\ t = IF r + (-k) < 0 THEN r + (-k) + SeqMod ELSE IF r + (-k) < SeqMod THEN r + (-k) ELSE r + (-k) - SeqMod
  BY <1>3, PlusIs
<1> HIDE DEF t
<1>5. c = IF q <= t THEN t - q ELSE t - q + SeqMod  BY <1>4, DistIs
<1> HIDE DEF c
<1>6. c = a - k  BY <1>1, <1>2, <1>3, <1>4, <1>5, Constants DEF Seqs
<1> QED  BY <1>4, <1>6 DEF a, t, c

(* Two numbers equally far from a third are the same. *)
LEMMA DistSame ==
  ASSUME NEW q \in Seqs, NEW r \in Seqs, NEW s \in Seqs, Dist(q, r) = Dist(q, s)
  PROVE  r = s
<1>1. Plus(q, Dist(q, r)) = r /\ Plus(q, Dist(q, s)) = s
  <2>1. 0 \in 0..SeqMod-1  BY Constants
  <2> QED  BY <2>1, PlusDist
<1> QED  BY <1>1

(* The number of the first fragment of x's message. *)
LEMMA FirstNumber ==
  ASSUME NEW p \in Nodes, NEW q \in Seqs, NEW o, NEW x \in NamedOf(q, p, o), NEW first, first = Plus(x.seq, -x.frag)
  PROVE  /\ x.msg \in Msgs(p) /\ x.frag \in Nat /\ x.frag < Fragments[p][x.msg] /\ x.seq \in Seqs
         /\ first \in Seqs /\ LastNumber(p)[x.msg - 1] \in Nat
         /\ Dist(q, x.seq) = LastNumber(p)[x.msg - 1] + x.frag + 1
         /\ Dist(q, first) = LastNumber(p)[x.msg - 1] + 1
         /\ Plus(first, 0) = first
<1> DEFINE l == LastNumber(p)[x.msg - 1]
<1>1. /\ x.msg \in Msgs(p) /\ x.frag \in Nat /\ x.frag < Fragments[p][x.msg] /\ x.seq \in Seqs
      /\ Dist(q, x.seq) = l + x.frag + 1
  BY Constants DEF NamedOf, PacketsOf, DataPackets
<1>2. l \in Nat  BY <1>1, LastNumberIs
<1> HIDE DEF l
<1>3. x.frag <= Dist(q, x.seq)  BY <1>1, <1>2
<1>4. first \in Seqs /\ Dist(q, first) = Dist(q, x.seq) - x.frag  BY <1>1, <1>3, DistBack
<1>5. Dist(q, first) = l + 1  BY <1>1, <1>2, <1>4
<1>6. Plus(first, 0) = first
  <2>1. 0 \in Int /\ -SeqMod <= 0 /\ 0 <= SeqMod  BY Constants
  <2>2. Plus(first, 0) = IF first + 0 < 0 THEN first + 0 + SeqMod
                         ELSE IF first + 0 < SeqMod THEN first + 0 ELSE first + 0 - SeqMod
    BY <2>1, <1>4, PlusIs
  <2> QED  BY <2>2, <1>4, Constants DEF Seqs
<1> QED  BY <1>1, <1>2, <1>4, <1>5, <1>6 DEF l

(* processFragments finds exactly the fragments of x's message, by their numbers. *)
LEMMA SlotIs ==
  ASSUME NEW p \in Nodes, NEW q \in Seqs, NEW o, NEW buf, AllNamed(q, p, o, buf),
         NEW x \in NamedOf(q, p, o), NEW first, first = Plus(x.seq, -x.frag),
         NEW f \in 0..Window-1, NEW i, i = FragmentSlot(buf, Plus(first, f), f)
  PROVE  /\ i # 0 <=> Held(buf, x.msg, f)
         /\ i # 0 => i \in Slots /\ buf[i] # Free /\ buf[i].msg = x.msg /\ buf[i].frag = f
<1> DEFINE l == LastNumber(p)[x.msg - 1]
           S == {j \in Slots : buf[j] # Free /\ buf[j].seq = Plus(first, f) /\ buf[j].frag = f}
<1>1. /\ x.msg \in Msgs(p) /\ first \in Seqs /\ l \in Nat /\ Dist(q, first) = l + 1
  BY FirstNumber
<1>2. f \in Nat /\ f < SeqMod /\ f < Window  BY Constants
<1>3. Plus(first, f) \in Seqs
      /\ Dist(q, Plus(first, f)) = IF l + 1 + f < SeqMod THEN l + 1 + f ELSE l + 1 + f - SeqMod
  BY <1>1, <1>2, DistAhead
<1>4. l + 1 < SeqMod  BY <1>1, NumberOk
<1>5. S \in SUBSET Slots /\ i = FirstSlot(S) /\ 0 \notin S  BY Constants DEF FragmentSlot, Slots
<1> HIDE DEF l
<1>6. ASSUME i # 0
      PROVE  i \in Slots /\ buf[i] # Free /\ buf[i].msg = x.msg /\ buf[i].frag = f
  <2> DEFINE y == buf[i]
  <2>1. i \in Slots /\ y # Free /\ y.seq = Plus(first, f) /\ y.frag = f  BY <1>6, FragmentSlotIs
  <2>2. y \in NamedOf(q, p, o)  BY <2>1 DEF AllNamed
  <2> DEFINE k == LastNumber(p)[y.msg - 1]
  <2>3. y.msg \in Msgs(p) /\ f < Fragments[p][y.msg] /\ k \in Nat /\ Dist(q, y.seq) = k + f + 1
    <3>1. Plus(y.seq, -y.frag) = Plus(y.seq, -y.frag)  OBVIOUS
    <3> HIDE DEF y
    <3> QED  BY <2>1, <2>2, <3>1, FirstNumber
  <2>4. k + f + 1 = IF l + 1 + f < SeqMod THEN l + 1 + f ELSE l + 1 + f - SeqMod  BY <2>1, <2>3, <1>3
  <2>5. k = l
    <3> HIDE DEF k, y
    <3> QED  BY <2>3, <2>4, <1>1, <1>2, <1>4, Constants
  <2> HIDE DEF y
  <2>6. y.msg = x.msg
    <3>1. x.msg - 1 \in 0..Len(Fragments[p]) /\ y.msg - 1 \in 0..Len(Fragments[p])
      BY <1>1, <2>3, LastNumberIs
    <3>2. 0 \in Nat /\ 0 < Fragments[p][x.msg] /\ 0 < Fragments[p][y.msg]
      BY <1>1, <2>3, MessagesOf
    <3>3. LastNumber(p)[x.msg - 1] + 0 + 1 = LastNumber(p)[y.msg - 1] + 0 + 1  BY <2>5 DEF l, k
    <3> QED  BY <1>1, <2>3, <3>2, <3>3, NumberIsOf
  <2> QED  BY <2>1, <2>6 DEF y
<1>7. ASSUME Held(buf, x.msg, f) PROVE i # 0
  <2>1. PICK j \in Slots : buf[j] # Free /\ buf[j].msg = x.msg /\ buf[j].frag = f  BY <1>7 DEF Held
  <2> DEFINE y == buf[j]
  <2>2. y \in NamedOf(q, p, o)  BY <2>1 DEF AllNamed
  <2> HIDE DEF y
  <2>3. y.seq \in Seqs /\ Dist(q, y.seq) = l + f + 1
    <3>1. y.msg = x.msg /\ y.frag = f  BY <2>1 DEF y
    <3> QED  BY <2>2, <3>1, FirstNumber DEF l
  <2>4. l + f + 1 < SeqMod  BY <2>3, NumberOk
  <2>5. Dist(q, Plus(first, f)) = Dist(q, y.seq)  BY <1>1, <1>2, <1>3, <2>3, <2>4
  <2>6. y.seq = Plus(first, f)  BY <1>3, <2>3, <2>5, DistSame
  <2>7. j \in S  BY <2>1, <2>6 DEF y
  <2>8. FirstSlot(S) \in S  BY <2>7, <1>5, FirstSlotIs
  <2> QED  BY <2>8, <1>5
<1>8. i # 0 => Held(buf, x.msg, f)  BY <1>6 DEF Held
<1> QED  BY <1>6, <1>7, <1>8

(* The run is complete when all fragments of the message after the first are there, and only then. *)
LEMMA RunIs ==
  ASSUME NEW n \in Nodes, NEW p, p = Peer(n), NEW q \in Seqs, NEW o, NEW buf, AllNamed(q, p, o, buf),
         NEW x \in NamedOf(q, p, o), NEW first, first = Plus(x.seq, -x.frag),
         NEW e, e = x.msg, NEW N, N = Fragments[p][e] - 1, N >= 1,
         NEW run, run = Run(n, buf, first)
  PROVE  /\ run # <<>> => /\ DOMAIN run = 1..N
                          /\ \A f \in 1..N : /\ run[f] \in Slots /\ buf[run[f]] # Free
                                             /\ buf[run[f]].msg = e /\ buf[run[f]].frag = f
         /\ run = <<>> => \E f \in 1..N : ~Held(buf, e, f)
<1> DEFINE SlotOf(f) == FragmentSlot(buf, Plus(first, f), f)
           Ends(f) == SlotOf(f) # 0 /\ IsLast(Peer(n), buf[SlotOf(f)].msg, f)
           Complete(k) == /\ Ends(k)
                          /\ \A f \in 1..k-1 : SlotOf(f) # 0 /\ ~Ends(f)
           K == CHOOSE k \in 1..Window-1 : Complete(k)
<1>1. run = IF \E k \in 1..Window-1 : Complete(k) THEN [f \in 1..K |-> SlotOf(f)] ELSE <<>>
  BY DEF Run
<1>2. p \in Nodes /\ e \in Msgs(p)  BY Peers, FirstNumber
<1>3. N \in Nat /\ N \in 1..Window-1 /\ \A f \in 1..Window-1 : f \in 0..Window-1
  <2>1. Fragments[p][e] \in 1..Window  BY <1>2, MessagesOf
  <2> QED  BY <2>1, Constants
<1>4. \A f \in 1..Window-1 : /\ SlotOf(f) # 0 <=> Held(buf, e, f)
                             /\ SlotOf(f) # 0 => /\ SlotOf(f) \in Slots /\ buf[SlotOf(f)] # Free
                                                 /\ buf[SlotOf(f)].msg = e /\ buf[SlotOf(f)].frag = f
  <2> TAKE f \in 1..Window-1
  <2> DEFINE i == SlotOf(f)
  <2>1. i = FragmentSlot(buf, Plus(first, f), f)  OBVIOUS
  <2> HIDE DEF i
  <2>2. /\ i # 0 <=> Held(buf, e, f)
        /\ i # 0 => i \in Slots /\ buf[i] # Free /\ buf[i].msg = e /\ buf[i].frag = f
    BY <2>1, <1>2, <1>3, SlotIs
  <2> QED  BY <2>2 DEF i
<1>5. \A f \in 1..Window-1 : Ends(f) <=> Held(buf, e, f) /\ f = N
  <2> TAKE f \in 1..Window-1
  <2>1. ASSUME SlotOf(f) # 0 PROVE IsLast(Peer(n), buf[SlotOf(f)].msg, f) <=> f = N
    <3>1. buf[SlotOf(f)].msg = e  BY <2>1, <1>4
    <3> HIDE DEF SlotOf
    <3> QED  BY <3>1, <1>3 DEF IsLast
  <2> HIDE DEF SlotOf
  <2> QED  BY <2>1, <1>4
<1> HIDE DEF SlotOf, Ends
<1>6. \A k \in 1..Window-1 : Complete(k) <=> k = N /\ \A f \in 1..N : Held(buf, e, f)
  <2> TAKE k \in 1..Window-1
  <2>1. ASSUME Complete(k) PROVE k = N /\ \A f \in 1..N : Held(buf, e, f)
    <3>1. k = N  BY <2>1, <1>5
    <3>2. \A f \in 1..N : f = N \/ f \in 1..k-1  BY <3>1, <1>3
    <3>3. \A f \in 1..k-1 : f \in 1..Window-1 /\ SlotOf(f) # 0  BY <2>1, Constants
    <3>4. \A f \in 1..k-1 : Held(buf, e, f)  BY <3>3, <1>4
    <3>5. Held(buf, e, N)  BY <2>1, <3>1, <1>3, <1>5
    <3> QED  BY <3>1, <3>2, <3>4, <3>5
  <2>2. ASSUME k = N, \A f \in 1..N : Held(buf, e, f) PROVE Complete(k)
    <3>1. N \in 1..N  BY <1>3
    <3>2. Ends(k)  BY <2>2, <3>1, <1>3, <1>5
    <3>3. \A f \in 1..k-1 : f \in 1..N /\ f # N /\ f \in 1..Window-1  BY <2>2, <1>3, Constants
    <3>4. \A f \in 1..k-1 : SlotOf(f) # 0 /\ ~Ends(f)  BY <3>3, <2>2, <1>4, <1>5
    <3> QED  BY <3>2, <3>4
  <2> HIDE DEF Complete
  <2> QED  BY <2>1, <2>2
<1> HIDE DEF Complete
<1>7. CASE \A f \in 1..N : Held(buf, e, f)
  <2>1. (\E k \in 1..Window-1 : Complete(k)) /\ K = N
    <3>1. Complete(N)  BY <1>3, <1>6, <1>7
    <3>2. \E k \in 1..Window-1 : Complete(k)  BY <3>1, <1>3
    <3>3. K \in 1..Window-1 /\ Complete(K)  BY <3>2
    <3> HIDE DEF K
    <3> QED  BY <3>2, <3>3, <1>6
  <2> HIDE DEF K
  <2>2. DOMAIN run = 1..N /\ \A f \in 1..N : run[f] = SlotOf(f)
    <3>1. run = [f \in 1..K |-> SlotOf(f)]  BY <1>1, <2>1
    <3>2. DOMAIN run = 1..K /\ \A f \in 1..K : run[f] = SlotOf(f)  BY <3>1
    <3> QED  BY <3>2, <2>1
  <2>3. \A f \in 1..N : f \in 1..Window-1  BY <1>3, Constants
  <2>4. \A f \in 1..N : run[f] = SlotOf(f) /\ SlotOf(f) # 0  BY <2>2, <2>3, <1>4, <1>7
  <2>5. run # <<>>
    <3>1. DOMAIN run = 1..N /\ 1 \in 1..N  BY <2>2, <1>3
    <3>2. DOMAIN <<>> = {}  OBVIOUS
    <3> QED  BY <3>1, <3>2
  <2>6. DOMAIN run = 1..N  BY <2>2
  <2>7. \A f \in 1..N : /\ run[f] \in Slots /\ buf[run[f]] # Free
                        /\ buf[run[f]].msg = e /\ buf[run[f]].frag = f
    <3> TAKE f \in 1..N
    <3> QED  BY <2>3, <2>4, <1>4
  <2> QED  BY <2>5, <2>6, <2>7
<1>8. CASE ~\A f \in 1..N : Held(buf, e, f)
  <2>1. run = <<>>  BY <1>1, <1>6, <1>8
  <2> QED  BY <2>1, <1>8
<1> QED  BY <1>7, <1>8

(* What is in a buffer a packet is put into. *)
LEMMA PutHeld ==
  ASSUME NEW n \in Nodes, NEW a \in BufferOf(n), NEW x, NEW buf, buf = a \/ buf = Put(a, x)
  PROVE  /\ \A i \in Slots : buf[i] = a[i] \/ (buf = Put(a, x) /\ i = FreeSlot(a) /\ buf[i] = x)
         /\ \A e, f : Held(buf, e, f) => Held(a, e, f) \/ (buf = Put(a, x) /\ e = x.msg /\ f = x.frag)
<1>1. \A i \in Slots : buf[i] = a[i] \/ (buf = Put(a, x) /\ i = FreeSlot(a) /\ buf[i] = x)
  <2> TAKE i \in Slots
  <2>1. CASE buf = a  BY <2>1
  <2>2. CASE buf = Put(a, x)
    <3>1. Put(a, x)[i] = IF i = FreeSlot(a) THEN x ELSE a[i]  BY PutIs
    <3> QED  BY <2>2, <3>1
  <2> QED  BY <2>1, <2>2
<1> QED  BY <1>1 DEF Held

(* Taking packet x of the peer, in the parts the order of the messages is about: its message goes up *)
(* once its other fragments are all there, whole, and its fragments are then in the buffer no more.   *)
TakeEffect(p, d, x, t) ==
  /\ Incomplete(p, t.fragmMsgBuf)
  /\ \A e, f : Held(t.fragmMsgBuf, e, f) => Held(d.fragmMsgBuf, e, f) \/ (e = x.msg /\ f = x.frag)
  /\ \/ t.up = d.up /\ Fragments[p][x.msg] # 1
     \/ /\ t.up = Append(d.up, x.msg)
        /\ ~Held(t.fragmMsgBuf, x.msg, x.frag)
        /\ \A f \in 0..Fragments[p][x.msg]-1 : f # x.frag => Held(d.fragmMsgBuf, x.msg, f)

LEMMA TakeDoes ==
  ASSUME NEW n \in Nodes, NEW p, p = Peer(n), NEW q \in Seqs, NEW u, NEW d \in WorkOf(n),
         AllNamed(q, p, u, d.fragmMsgBuf), Incomplete(p, d.fragmMsgBuf),
         NEW x \in NamedOf(q, p, u), NEW new \in BOOLEAN, NEW garbage, NEW t, t = Take(n, d, x, new, garbage)
  PROVE  TakeEffect(p, d, x, t)
<1> DEFINE e == x.msg
           F == Fragments[p][e]
           a == d.fragmMsgBuf
           buf == IF new THEN Put(a, x) ELSE a
           own == IF new THEN FreeSlot(a) ELSE garbage
           first == Plus(x.seq, -x.frag)
           firsts == FirstFragment(buf, x, own)
           run == Run(n, buf, first)
           y == CHOOSE z \in firsts : TRUE
           used == {y.slot} \cup {run[f] : f \in DOMAIN run}
           parts == {y.packet.msg} \cup {buf[run[f]].msg : f \in DOMAIN run}
           whole == IF parts = {e} THEN e ELSE Mixed
           kept == [i \in Slots |-> IF i \in used THEN Free ELSE buf[i]]
           i0 == FragmentSlot(buf, first, 0)
           N == F - 1
<1>1. first = Plus(x.seq, -x.frag)  OBVIOUS
<1>2. /\ p \in Nodes /\ e \in Msgs(p) /\ x.frag \in Nat /\ x.frag < F /\ Plus(first, 0) = first
      /\ F \in Nat /\ F >= 1 /\ F \in 1..Window
  <2> HIDE DEF first
  <2>1. p \in Nodes  BY Peers
  <2>2. e \in Msgs(p) /\ x.frag \in Nat /\ x.frag < F /\ Plus(first, 0) = first  BY <1>1, <2>1, FirstNumber
  <2>3. F \in Nat /\ F >= 1 /\ F \in 1..Window  BY <2>1, <2>2, MessagesOf
  <2> QED  BY <2>1, <2>2, <2>3
<1>3. /\ F = 1 => t = [d EXCEPT !.up = Append(d.up, e)]
      /\ F # 1 /\ (firsts = {} \/ run = <<>>) => t = [d EXCEPT !.fragmMsgBuf = buf]
      /\ F # 1 /\ ~(firsts = {} \/ run = <<>>) => t = [d EXCEPT !.fragmMsgBuf = kept, !.up = Append(d.up, whole)]
  <2>1. Multi(Peer(n), x.msg) <=> F # 1
    <3> HIDE DEF F
    <3> QED  BY <1>2 DEF Multi, F
  <2> QED  BY <2>1 DEF Take
<1>4. a \in BufferOf(n)  BY DEF WorkOf
<1>5. buf = a \/ buf = Put(a, x)  OBVIOUS
<1>6. firsts = IF x.frag = 0 THEN {[slot |-> own, packet |-> x]}
               ELSE IF i0 = 0 THEN {} ELSE {[slot |-> i0, packet |-> buf[i0]]}
  BY DEF FirstFragment
<1>7. \A i \in Slots : a[i] # Free => a[i] \in NamedOf(q, p, u)  BY DEF AllNamed
<1>8. \A i \in Slots : buf[i] = a[i] \/ (new /\ i = FreeSlot(a) /\ buf[i] = x)
  <2> TAKE i \in Slots
  <2>1. Put(a, x)[i] = IF i = FreeSlot(a) THEN x ELSE a[i]  BY <1>4, PutIs
  <2> HIDE DEF a
  <2> QED  BY <2>1
<1>9. new => own = FreeSlot(a)  OBVIOUS
<1>10. run = Run(n, buf, first) /\ i0 = FragmentSlot(buf, Plus(first, 0), 0)  BY <1>2
<1>11. (y.slot = own /\ y.packet = x /\ x.frag = 0) \/ (x.frag # 0 /\ i0 # 0 /\ y.packet = buf[i0]) \/ firsts = {}
  <2> HIDE DEF own, i0, buf
  <2>1. CASE x.frag = 0  BY <2>1, <1>6
  <2>2. CASE x.frag # 0 /\ i0 = 0  BY <2>2, <1>6
  <2>3. CASE x.frag # 0 /\ i0 # 0  BY <2>3, <1>6
  <2> QED  BY <2>1, <2>2, <2>3
<1>12. firsts = {} => x.frag # 0 /\ i0 = 0
  <2> HIDE DEF own, i0, buf
  <2> QED  BY <1>6
<1>13. DOMAIN d = {"recvMsgBuf", "fragmMsgBuf", "up", "last"}  BY DEF WorkOf
<1>14. /\ F = 1 => t.up = Append(d.up, e) /\ t.fragmMsgBuf = a
       /\ F # 1 /\ (firsts = {} \/ run = <<>>) => t.up = d.up /\ t.fragmMsgBuf = buf
       /\ F # 1 /\ ~(firsts = {} \/ run = <<>>) => t.up = Append(d.up, whole) /\ t.fragmMsgBuf = kept
  <2> HIDE DEF F, firsts, run, buf, kept, whole
  <2> QED  BY <1>3, <1>13 DEF WorkOf
<1>15. \A i \in Slots : kept[i] = IF i \in used THEN Free ELSE buf[i]
  <2> HIDE DEF used, buf
  <2> QED  OBVIOUS
<1>16. Incomplete(p, a)  OBVIOUS
<1> HIDE DEF buf, own, first, firsts, run, y, whole, kept, i0, a
<1>17. AllNamed(q, p, u, buf)
  <2>1. \A i \in Slots : buf[i] # Free => buf[i] \in NamedOf(q, p, u)  BY <1>7, <1>8
  <2> QED  BY <2>1 DEF AllNamed
<1>18. \A g, f : Held(buf, g, f) => Held(a, g, f) \/ (g = e /\ f = x.frag)
  BY <1>8 DEF Held
<1>19. /\ i0 # 0 <=> Held(buf, e, 0)
       /\ i0 # 0 => i0 \in Slots /\ buf[i0].msg = e
  <2>1. 0 \in 0..Window-1  BY Constants
  <2> QED  BY <2>1, <1>1, <1>2, <1>10, <1>17, SlotIs
<1>20. F # 1 => /\ run # <<>> => /\ DOMAIN run = 1..N
                                 /\ \A f \in 1..N : /\ run[f] \in Slots /\ buf[run[f]] # Free
                                                    /\ buf[run[f]].msg = e /\ buf[run[f]].frag = f
                /\ run = <<>> => \E f \in 1..N : ~Held(buf, e, f)
  <2> SUFFICES ASSUME F # 1
               PROVE  /\ run # <<>> => /\ DOMAIN run = 1..N
                                       /\ \A f \in 1..N : /\ run[f] \in Slots /\ buf[run[f]] # Free
                                                          /\ buf[run[f]].msg = e /\ buf[run[f]].frag = f
                      /\ run = <<>> => \E f \in 1..N : ~Held(buf, e, f)
    OBVIOUS
  <2>1. N = Fragments[p][e] - 1 /\ N >= 1 /\ e = x.msg
    <3>1. F - 1 >= 1  BY <1>2
    <3> QED  BY <3>1
  <2> HIDE DEF N, e
  <2> QED  BY <2>1, <1>1, <1>10, <1>17, RunIs
<1>21. CASE F = 1
  <2>1. x.frag = 0 /\ \A f \in 0..F-1 : f = x.frag  BY <1>2, <1>21
  <2>2. \E f \in 0..F-1 : ~Held(a, e, f)  BY <1>2, <1>16 DEF Incomplete
  <2>3. ~Held(a, e, x.frag)  BY <2>1, <2>2
  <2> QED  BY <1>14, <1>16, <1>21, <2>1, <2>3 DEF TakeEffect, a
<1>22. CASE F # 1 /\ (firsts = {} \/ run = <<>>)
  <2>1. t.up = d.up /\ t.fragmMsgBuf = buf  BY <1>14, <1>22
  <2>2. \E f \in 0..F-1 : ~Held(buf, e, f)
    <3>1. CASE firsts = {}
      <4>1. 0 \in 0..F-1 /\ ~Held(buf, e, 0)  BY <3>1, <1>2, <1>12, <1>19
      <4> QED  BY <4>1
    <3>2. CASE run = <<>>
      <4>1. PICK f \in 1..N : ~Held(buf, e, f)  BY <3>2, <1>20, <1>22
      <4>2. f \in 0..F-1  BY <1>2
      <4> QED  BY <4>1, <4>2
    <3> QED  BY <3>1, <3>2, <1>22
  <2>3. Incomplete(p, buf)
    <3> SUFFICES ASSUME NEW g \in Msgs(p) PROVE \E f \in 0..Fragments[p][g]-1 : ~Held(buf, g, f)
      BY DEF Incomplete
    <3>1. CASE g = e  BY <3>1, <2>2
    <3>2. CASE g # e
      <4>1. PICK f \in 0..Fragments[p][g]-1 : ~Held(a, g, f)  BY <1>16 DEF Incomplete
      <4>2. ~Held(buf, g, f)  BY <4>1, <3>2, <1>18
      <4> QED  BY <4>2
    <3> QED  BY <3>1, <3>2
  <2> QED  BY <2>1, <2>3, <1>18, <1>22 DEF TakeEffect, a
<1>23. CASE F # 1 /\ ~(firsts = {} \/ run = <<>>)
  <2>1. t.up = Append(d.up, whole) /\ t.fragmMsgBuf = kept  BY <1>14, <1>23
  <2>2. /\ DOMAIN run = 1..N
        /\ \A f \in 1..N : /\ run[f] \in Slots /\ buf[run[f]] # Free
                           /\ buf[run[f]].msg = e /\ buf[run[f]].frag = f
    BY <1>20, <1>23
  <2>3. \A f \in 1..N : Held(buf, e, f)
    <3> TAKE f \in 1..N
    <3>1. run[f] \in Slots /\ buf[run[f]] # Free /\ buf[run[f]].msg = e /\ buf[run[f]].frag = f  BY <2>2
    <3> QED  BY <3>1 DEF Held
  <2>4. \A f \in 0..F-1 : f # x.frag => Held(buf, e, f)
    <3> TAKE f \in 0..F-1
    <3>1. CASE f = 0  BY <3>1, <1>11, <1>19, <1>23
    <3>2. CASE f # 0
      <4>1. f \in 1..N  BY <3>2, <1>2
      <4> QED  BY <4>1, <2>3
    <3> QED  BY <3>1, <3>2
  <2>5. \A f \in 0..F-1 : f # x.frag => Held(a, e, f)  BY <2>4, <1>18
  <2>6. ~Held(a, e, x.frag)
    <3>1. PICK f \in 0..F-1 : ~Held(a, e, f)  BY <1>2, <1>16 DEF Incomplete
    <3> QED  BY <3>1, <2>5
  <2>7. whole = e
    <3>1. y.packet.msg = e  BY <1>11, <1>19, <1>23
    <3>2. {buf[run[f]].msg : f \in DOMAIN run} \subseteq {e}  BY <2>2
    <3>3. parts = {e}  BY <3>1, <3>2
    <3> HIDE DEF parts
    <3> QED  BY <3>3 DEF whole
  <2>8. \A g, f : Held(kept, g, f) => Held(buf, g, f)  BY <1>15 DEF Held
  <2>9. ~Held(kept, e, x.frag)
    <3> SUFFICES ASSUME NEW j \in Slots, kept[j] # Free, kept[j].msg = e, kept[j].frag = x.frag
                 PROVE  FALSE
      BY DEF Held
    <3>1. j \notin used /\ buf[j] # Free /\ buf[j].msg = e /\ buf[j].frag = x.frag  BY <1>15
    <3> HIDE DEF used
    <3>2. \A i \in Slots : a[i] # Free /\ a[i].msg = e => a[i].frag # x.frag  BY <2>6 DEF Held
    <3>3. new /\ j = FreeSlot(a)  BY <3>1, <3>2, <1>8
    <3>4. CASE x.frag = 0
      <4>1. y.slot = j  BY <3>3, <3>4, <1>9, <1>11, <1>23
      <4> QED  BY <4>1, <3>1 DEF used
    <3>5. CASE x.frag # 0
      <4> DEFINE i == run[x.frag]
      <4>1. x.frag \in 1..N  BY <3>5, <1>2
      <4>2. i \in Slots /\ buf[i] # Free /\ buf[i].msg = e /\ buf[i].frag = x.frag  BY <4>1, <2>2
      <4>3. i \in used  BY <4>1, <2>2 DEF used
      <4> HIDE DEF i
      <4>4. i = FreeSlot(a)  BY <4>2, <3>2, <1>8
      <4> QED  BY <4>3, <4>4, <3>3, <3>1
    <3> QED  BY <3>4, <3>5
  <2>10. \A g, f : Held(kept, g, f) => Held(a, g, f)  BY <2>8, <2>9, <1>18
  <2>11. Incomplete(p, kept)  BY <2>10, <1>16 DEF Incomplete
  <2> QED  BY <2>1, <2>5, <2>7, <2>9, <2>10, <2>11 DEF TakeEffect, a
<1> QED  BY <1>21, <1>22, <1>23

-----------------------------------------------------------------------------
(* What has been handed to the user. *)

(* The messages ds of p have been handed over, what was taken in sequence goes up to place r, and *)
(* buf holds fragments: a message that was handed over was whole at r and is not so in buf, all    *)
(* messages of one packet up to r were handed over, and none out of order.                         *)
Handed(p, r, buf, ds) ==
  /\ ds \in Seq(Msgs(p))
  /\ Incomplete(p, buf)
  /\ \A i \in 1..Len(ds) : \E f \in 0..Fragments[p][ds[i]]-1 :
       LastNumber(p)[ds[i] - 1] + f + 1 <= r /\ ~Held(buf, ds[i], f)
  /\ \A e \in Msgs(p) : Fragments[p][e] = 1 /\ LastNumber(p)[e] <= r => \E i \in 1..Len(ds) : ds[i] = e
  /\ \A i, j \in 1..Len(ds) : i < j => ds[i] < ds[j]

(* A packet beyond r is put into the buffer. *)
LEMMA HandedAhead ==
  ASSUME NEW p \in Nodes, NEW q \in Seqs, NEW u, NEW x \in NamedOf(q, p, u), NEW r \in Nat, r < Dist(q, x.seq),
         NEW a, NEW b, NEW ds, Handed(p, r, a, ds), Incomplete(p, b),
         \A e, f : Held(b, e, f) => Held(a, e, f) \/ (e = x.msg /\ f = x.frag)
  PROVE  Handed(p, r, b, ds)
<1>1. ASSUME NEW i \in 1..Len(ds)
      PROVE  \E f \in 0..Fragments[p][ds[i]]-1 : LastNumber(p)[ds[i] - 1] + f + 1 <= r /\ ~Held(b, ds[i], f)
  <2> DEFINE e == ds[i]
             l == LastNumber(p)[e - 1]
  <2>1. PICK f \in 0..Fragments[p][e]-1 : l + f + 1 <= r /\ ~Held(a, e, f)  BY DEF Handed
  <2>2. Dist(q, x.seq) = LastNumber(p)[x.msg - 1] + x.frag + 1  BY DEF NamedOf
  <2>3. ~(e = x.msg /\ f = x.frag)
    <3>1. ASSUME e = x.msg, f = x.frag PROVE FALSE
      <4> DEFINE y == Dist(q, x.seq)
      <4>1. y = l + f + 1  BY <3>1, <2>2
      <4>2. y <= r  BY <4>1, <2>1
      <4>3. y \in Nat /\ r < y
        <5>1. x.seq \in Seqs  BY DEF NamedOf, PacketsOf, DataPackets
        <5> QED  BY <5>1, NumberOk
      <4> HIDE DEF y
      <4> QED  BY <4>2, <4>3
    <3> QED  BY <3>1
  <2>4. ~Held(b, e, f)  BY <2>1, <2>3
  <2> QED  BY <2>1, <2>4
<1> QED  BY <1>1 DEF Handed

(* One message more. *)
LEMMA AppendIs ==
  ASSUME NEW M, NEW ds \in Seq(M), NEW e \in M, NEW es, es = Append(ds, e), NEW k, k = Len(ds)
  PROVE  /\ es \in Seq(M) /\ k \in Nat /\ Len(es) = k + 1 /\ es[k + 1] = e
         /\ \A i \in 1..k : es[i] = ds[i]
         /\ \A i \in 1..k + 1 : i \in 1..k \/ i = k + 1
         /\ k + 1 \in 1..k + 1 /\ \A i \in 1..k : i \in 1..k + 1
<1>1. es \in Seq(M) /\ Len(es) = Len(ds) + 1 /\ es[Len(ds) + 1] = e /\ \A i \in 1..Len(ds) : es[i] = ds[i]
  BY AppendProperties
<1>2. k \in Nat  OBVIOUS
<1> QED  BY <1>1, <1>2

(* The packet next in sequence is taken, and its message is not complete. *)
LEMMA HandedNext ==
  ASSUME NEW p \in Nodes, NEW q \in Seqs, NEW u, NEW x \in NamedOf(q, p, u), NEW r \in Nat, Dist(q, x.seq) = r + 1,
         NEW d, NEW t, NEW ds, Handed(p, r, d.fragmMsgBuf, ds), TakeEffect(p, d, x, t),
         NEW es, \/ es = ds /\ Fragments[p][x.msg] # 1
                 \/ /\ es = Append(ds, x.msg)
                    /\ ~Held(t.fragmMsgBuf, x.msg, x.frag)
                    /\ \A f \in 0..Fragments[p][x.msg]-1 : f # x.frag => Held(d.fragmMsgBuf, x.msg, f)
  PROVE  Handed(p, r + 1, t.fragmMsgBuf, es)
<1> DEFINE a == d.fragmMsgBuf
           b == t.fragmMsgBuf
           L == LastNumber(p)
           e == x.msg
           F == Fragments[p][e]
           K == Len(Fragments[p])
<1>1. /\ Incomplete(p, b)
      /\ \A g, f : Held(b, g, f) => Held(a, g, f) \/ (g = e /\ f = x.frag)
  BY DEF TakeEffect
<1>2. /\ e \in Msgs(p) /\ x.frag \in Nat /\ x.frag < F /\ F \in Nat /\ L[e - 1] \in Nat
      /\ r + 1 = L[e - 1] + x.frag + 1
  <2>1. e \in Msgs(p) /\ x.frag \in Nat /\ x.frag < F /\ L[e - 1] \in Nat
        /\ Dist(q, x.seq) = L[e - 1] + x.frag + 1
    <3> DEFINE first == Plus(x.seq, -x.frag)
    <3>1. first = Plus(x.seq, -x.frag)  OBVIOUS
    <3> HIDE DEF first
    <3> QED  BY <3>1, FirstNumber
  <2>2. F \in Nat  BY <2>1, MessagesOf
  <2> QED  BY <2>1, <2>2
<1>3. r < Dist(q, x.seq)  OBVIOUS
<1> HIDE DEF a, b
<1>4. Handed(p, r, b, ds)  BY <1>1, <1>3, HandedAhead DEF a
<1>5. /\ ds \in Seq(Msgs(p))
      /\ \A i \in 1..Len(ds) : \E f \in 0..Fragments[p][ds[i]]-1 : L[ds[i] - 1] + f + 1 <= r /\ ~Held(b, ds[i], f)
      /\ \A g \in Msgs(p) : Fragments[p][g] = 1 /\ L[g] <= r => \E i \in 1..Len(ds) : ds[i] = g
      /\ \A i, j \in 1..Len(ds) : i < j => ds[i] < ds[j]
  BY <1>4 DEF Handed
<1>6. /\ K \in Nat /\ Msgs(p) = 1..K
      /\ \A g \in Msgs(p) : g - 1 \in 0..K /\ g \in 0..K /\ g \in Nat /\ L[g] = L[g - 1] + Fragments[p][g]
                            /\ L[g] \in Nat /\ L[g - 1] \in Nat
  <2>1. K \in Nat /\ Msgs(p) = 1..K /\ \A m \in 0..K : L[m] \in Nat  BY LastNumberIs
  <2>2. \A g \in Msgs(p) : g - 1 \in 0..K /\ g \in 0..K /\ L[g] = L[g - 1] + Fragments[p][g]  BY LastNumberIs
  <2> HIDE DEF K, L
  <2> QED  BY <2>1, <2>2
<1>7. \A g, k \in Msgs(p) : L[g - 1] < L[k] => g <= k
  <2> SUFFICES ASSUME NEW g \in Msgs(p), NEW k \in Msgs(p), k < g PROVE L[k] <= L[g - 1]
    <3>1. \A g, k \in Msgs(p) : g \in Nat /\ k \in Nat /\ L[g - 1] \in Nat /\ L[k] \in Nat  BY <1>6
    <3> HIDE DEF L
    <3> QED  BY <3>1
  <2>1. k <= g - 1 /\ k \in 0..K /\ g - 1 \in 0..K  BY <1>6
  <2> QED  BY <2>1, LastNumberGrows
<1>8. r < L[e] /\ r + 1 <= L[e]
  <2>1. L[e] = L[e - 1] + F  BY <1>2, <1>6
  <2> HIDE DEF L, F
  <2> QED  BY <2>1, <1>2
<1> HIDE DEF L, F, e, K
<1>9. \A i \in 1..Len(ds) : ds[i] <= e /\ ds[i] \in Msgs(p)
  <2> TAKE i \in 1..Len(ds)
  <2>1. ds[i] \in Msgs(p)  BY <1>5, ElementOfSeq
  <2> DEFINE g == ds[i]
  <2>2. PICK f \in 0..Fragments[p][g]-1 : L[g - 1] + f + 1 <= r  BY <1>5
  <2>3. L[g - 1] \in Nat /\ f \in Nat  BY <2>1, <1>6
  <2> HIDE DEF g
  <2>4. L[g - 1] < L[e]
    <3>1. L[e] \in Nat  BY <1>2, <1>6
    <3> QED  BY <2>2, <2>3, <3>1, <1>8
  <2>5. g <= e  BY <2>1, <2>4, <1>2, <1>7 DEF g
  <2> QED  BY <2>1, <2>5 DEF g
<1>10. \A i \in 1..Len(ds) : \E f \in 0..Fragments[p][ds[i]]-1 : L[ds[i] - 1] + f + 1 <= r + 1 /\ ~Held(b, ds[i], f)
  <2> TAKE i \in 1..Len(ds)
  <2> DEFINE g == ds[i]
  <2>1. PICK f \in 0..Fragments[p][g]-1 : L[g - 1] + f + 1 <= r /\ ~Held(b, g, f)  BY <1>5
  <2>2. L[g - 1] \in Nat /\ f \in Nat
    <3>1. g \in Msgs(p)  BY <1>9
    <3> HIDE DEF g
    <3> QED  BY <3>1, <1>6
  <2> HIDE DEF g
  <2>3. L[g - 1] + f + 1 <= r + 1  BY <2>1, <2>2
  <2> QED  BY <2>1, <2>3 DEF g
(* A message in one packet whose number is the one reached is the one taken. *)
<1>11. \A g \in Msgs(p) : L[g] = r + 1 => g = e
  <2> SUFFICES ASSUME NEW g \in Msgs(p), L[g] = r + 1 PROVE g = e
    OBVIOUS
  <2>1. L[e - 1] < L[g]  BY <1>2
  <2>2. e <= g  BY <2>1, <1>2, <1>7
  <2>3. L[g - 1] < L[e]
    <3>1. L[g] = L[g - 1] + Fragments[p][g] /\ L[g - 1] \in Nat /\ L[e] \in Nat  BY <1>2, <1>6
    <3>2. Fragments[p][g] \in Nat /\ Fragments[p][g] >= 1  BY MessagesOf
    <3> DEFINE z == Fragments[p][g]
    <3> HIDE DEF z
    <3>3. L[g] = L[g - 1] + z /\ z \in Nat /\ z >= 1  BY <3>1, <3>2 DEF z
    <3> QED  BY <3>1, <3>3, <1>8
  <2>4. g <= e  BY <2>3, <1>2, <1>7
  <2>5. g \in Nat /\ e \in Nat  BY <1>2, <1>6
  <2> QED  BY <2>2, <2>4, <2>5
<1>12. CASE es = ds /\ F # 1
  <2>1. \A g \in Msgs(p) : Fragments[p][g] = 1 /\ L[g] <= r + 1 => \E i \in 1..Len(ds) : ds[i] = g
    <3> SUFFICES ASSUME NEW g \in Msgs(p), Fragments[p][g] = 1, L[g] <= r + 1
                 PROVE  \E i \in 1..Len(ds) : ds[i] = g
      OBVIOUS
    <3>1. g # e  BY <1>12 DEF F
    <3>2. L[g] # r + 1  BY <3>1, <1>11
    <3>3. L[g] \in Nat  BY <1>6
    <3>4. L[g] <= r  BY <3>2, <3>3
    <3> QED  BY <3>4, <1>5
  <2> QED  BY <2>1, <1>1, <1>5, <1>10, <1>12 DEF Handed, L, b
<1>13. CASE /\ es = Append(ds, e) /\ ~Held(b, e, x.frag)
            /\ \A f \in 0..F-1 : f # x.frag => Held(a, e, f)
  <2> DEFINE k == Len(ds)
  <2>1. /\ es \in Seq(Msgs(p)) /\ k \in Nat /\ Len(es) = k + 1 /\ es[k + 1] = e
        /\ \A i \in 1..k : es[i] = ds[i]
        /\ \A i \in 1..k + 1 : i \in 1..k \/ i = k + 1
        /\ k + 1 \in 1..k + 1 /\ \A i \in 1..k : i \in 1..k + 1
    BY <1>2, <1>5, <1>13, AppendIs
  <2>2. \A i \in 1..k : ds[i] # e
    <3> SUFFICES ASSUME NEW i \in 1..k, ds[i] = e PROVE FALSE
      OBVIOUS
    <3>1. PICK f \in 0..F-1 : L[e - 1] + f + 1 <= r /\ ~Held(a, e, f)
      <4>1. \E f \in 0..Fragments[p][ds[i]]-1 : LastNumber(p)[ds[i] - 1] + f + 1 <= r /\ ~Held(a, ds[i], f)
        BY DEF Handed, a
      <4> QED  BY <4>1 DEF F, L
    <3>2. f = x.frag  BY <3>1, <1>13
    <3>3. r + 1 <= r
      <4> DEFINE l == L[e - 1]
      <4> HIDE DEF l
      <4>1. l + x.frag + 1 <= r /\ r + 1 = l + x.frag + 1  BY <3>1, <3>2, <1>2 DEF l
      <4> QED  BY <4>1
    <3> QED  BY <3>3
  <2>3. \A i \in 1..Len(es) : \E f \in 0..Fragments[p][es[i]]-1 : L[es[i] - 1] + f + 1 <= r + 1 /\ ~Held(b, es[i], f)
    <3> SUFFICES ASSUME NEW i \in 1..k + 1
                 PROVE  \E f \in 0..Fragments[p][es[i]]-1 : L[es[i] - 1] + f + 1 <= r + 1 /\ ~Held(b, es[i], f)
      BY <2>1
    <3>1. CASE i \in 1..k  BY <3>1, <2>1, <1>10
    <3>2. CASE i = k + 1
      <4>1. es[i] = e /\ x.frag \in 0..F-1  BY <3>2, <2>1, <1>2
      <4>2. L[e - 1] + x.frag + 1 <= r + 1  BY <1>2
      <4> QED  BY <4>1, <4>2, <1>13 DEF F
    <3> HIDE DEF k
    <3> QED  BY <3>1, <3>2, <2>1
  <2>4. \A g \in Msgs(p) : Fragments[p][g] = 1 /\ L[g] <= r + 1 => \E i \in 1..Len(es) : es[i] = g
    <3> SUFFICES ASSUME NEW g \in Msgs(p), Fragments[p][g] = 1, L[g] <= r + 1
                 PROVE  \E i \in 1..k + 1 : es[i] = g
      BY <2>1
    <3>1. L[g] \in Nat  BY <1>6
    <3>2. CASE L[g] <= r
      <4>1. PICK i \in 1..k : ds[i] = g  BY <3>2, <1>5
      <4> QED  BY <4>1, <2>1
    <3>3. CASE ~(L[g] <= r)
      <4>1. g = e  BY <3>1, <3>3, <1>11
      <4> QED  BY <4>1, <2>1
    <3> QED  BY <3>2, <3>3
  <2>5. \A i, j \in 1..Len(es) : i < j => es[i] < es[j]
    <3> SUFFICES ASSUME NEW i \in 1..k + 1, NEW j \in 1..k + 1, i < j PROVE es[i] < es[j]
      BY <2>1
    <3>1. i \in 1..k  BY <2>1
    <3>2. CASE j \in 1..k  BY <3>1, <3>2, <2>1, <1>5
    <3>3. CASE j = k + 1
      <4>1. es[j] = e /\ es[i] = ds[i] /\ ds[i] <= e /\ ds[i] # e /\ ds[i] \in Msgs(p)
        BY <3>1, <3>3, <2>1, <2>2, <1>9
      <4>2. ds[i] \in Nat /\ e \in Nat  BY <4>1, <1>2, <1>6
      <4> QED  BY <4>1, <4>2
    <3> HIDE DEF k
    <3> QED  BY <3>2, <3>3, <2>1
  <2> QED  BY <2>1, <2>3, <2>4, <2>5, <1>1 DEF Handed, L, b
<1> QED  BY <1>12, <1>13 DEF e, F, a, b

-----------------------------------------------------------------------------
(* A data packet arrives while the numbers are still in force. *)

(* The messages that go up follow those in base. *)
LEMMA UpFollows ==
  ASSUME NEW M, NEW base \in Seq(M), NEW up \in Seq(M), NEW m \in M
  PROVE  base \o Append(up, m) = Append(base \o up, m) /\ base \o up \in Seq(M)
<1>1. <<m>> \in Seq(M) /\ Append(up, m) = up \o <<m>>  BY AppendIsConcat
<1>2. base \o up \in Seq(M)  BY ConcatProperties
<1>3. Append(base \o up, m) = (base \o up) \o <<m>>  BY <1>2, AppendIsConcat
<1>4. (base \o up) \o <<m>> = base \o (up \o <<m>>)  BY <1>1, ConcatAssociative
<1> QED  BY <1>1, <1>2, <1>3, <1>4

LEMMA TakeHanded ==
  ASSUME NEW n \in Nodes, NEW p, p = Peer(n), NEW q \in Seqs, NEW u, NEW d \in WorkOf(n),
         AllNamed(q, p, u, d.fragmMsgBuf), NEW x \in NamedOf(q, p, u), NEW r \in Nat, Dist(q, x.seq) = r + 1,
         NEW base \in Seq(Msgs(p) \cup {Mixed}), Handed(p, r, d.fragmMsgBuf, base \o d.up),
         NEW new \in BOOLEAN, NEW garbage, NEW t, t = Take(n, d, x, new, garbage)
  PROVE  Handed(p, r + 1, t.fragmMsgBuf, base \o t.up)
<1> DEFINE ds == base \o d.up
           es == base \o t.up
<1>1. p \in Nodes  BY Peers
<1>2. Incomplete(p, d.fragmMsgBuf)  BY DEF Handed
<1>3. TakeEffect(p, d, x, t)  BY <1>2, TakeDoes
<1>4. d.up \in Seq(Msgs(p) \cup {Mixed}) /\ x.msg \in Msgs(p) \cup {Mixed}
  <2>1. d.up \in Seq(Msgs(p) \cup {Mixed})  BY DEF WorkOf
  <2>2. x.msg \in Msgs(p)  BY DEF NamedOf, PacketsOf
  <2> QED  BY <2>1, <2>2
<1>5. base \o Append(d.up, x.msg) = Append(ds, x.msg)  BY <1>4, UpFollows
<1>6. \/ es = ds /\ Fragments[p][x.msg] # 1
      \/ /\ es = Append(ds, x.msg)
         /\ ~Held(t.fragmMsgBuf, x.msg, x.frag)
         /\ \A f \in 0..Fragments[p][x.msg]-1 : f # x.frag => Held(d.fragmMsgBuf, x.msg, f)
  <2>1. CASE t.up = d.up /\ Fragments[p][x.msg] # 1  BY <2>1
  <2>2. CASE /\ t.up = Append(d.up, x.msg)
             /\ ~Held(t.fragmMsgBuf, x.msg, x.frag)
             /\ \A f \in 0..Fragments[p][x.msg]-1 : f # x.frag => Held(d.fragmMsgBuf, x.msg, f)
    <3>1. es = Append(ds, x.msg)  BY <2>2, <1>5
    <3> HIDE DEF es, ds
    <3> QED  BY <3>1, <2>2
  <2> QED  BY <2>1, <2>2, <1>3 DEF TakeEffect
<1>7. Handed(p, r, d.fragmMsgBuf, ds)  OBVIOUS
<1> HIDE DEF es, ds
<1>8. Handed(p, r + 1, t.fragmMsgBuf, es)  BY <1>1, <1>3, <1>6, <1>7, HandedNext
<1> QED  BY <1>8 DEF es

(* What a receiver works on, where base is what was handed over before. *)
WorkHanded(q, n, u, lo, hi, c, base) ==
  {d \in WorkGood(q, n, u, lo, hi, c) : Handed(Peer(n), Dist(q, d.last), d.fragmMsgBuf, base \o d.up)}

LEMMA RoundHanded ==
  ASSUME NEW n \in Nodes, NEW q \in Seqs, NEW r, NEW u, Counted(q, Peer(n), r, u),
         NEW lo \in Nat, NEW hi, hi = Dist(q, r.lastMsgSent), r.lastMsgSent \in Seqs, NEW c, NEW garbage,
         NEW base \in Seq(Msgs(Peer(n)) \cup {Mixed}), NEW d \in WorkHanded(q, n, u, lo, hi, c, base)
  PROVE  DrainRound(n, d, garbage) \in WorkHanded(q, n, u, lo, hi, c, base)
<1> DEFINE z == DrainRound(n, d, garbage)
           p == Peer(n)
           R == Dist(q, d.last)
<1>1. d \in WorkGood(q, n, u, lo, hi, c) /\ Handed(p, R, d.fragmMsgBuf, base \o d.up)  BY DEF WorkHanded
<1>2. z \in WorkGood(q, n, u, lo, hi, c)  BY <1>1, RoundGood
<1>3. CASE z = d  BY <1>3
<1>4. CASE z # d
  <2>1. d \in WorkOf(n) /\ AllNamed(q, p, u, d.fragmMsgBuf)
        /\ \A i \in Slots : d.recvMsgBuf[i] # Free => d.recvMsgBuf[i] \in NamedOf(q, p, u)
    BY <1>1 DEF WorkGood, AllNamed
  <2>2. PICK i \in Slots, x \in PacketsOf(Peer(n)) :
           /\ x = d.recvMsgBuf[i] /\ x # Free /\ x.seq = Plus(d.last, 1)
           /\ z.last = x.seq /\ z.recvMsgBuf = [d.recvMsgBuf EXCEPT ![i] = Free]
           /\ z.fragmMsgBuf = TakeOld(n, d, x, garbage).fragmMsgBuf
           /\ z.up = TakeOld(n, d, x, garbage).up
    <3>1. z = DrainRound(n, d, garbage)  OBVIOUS
    <3> HIDE DEF z
    <3> QED  BY <3>1, <2>1, <1>4, RoundCases
  <2>3. x \in NamedOf(q, p, u) /\ p \in Nodes  BY <2>1, <2>2, Peers
  <2>4. Dist(q, x.seq) \in Nat /\ Dist(q, x.seq) >= 1  BY <2>3, NamedBounds
  <2>5. d.last \in Seqs  BY <2>1 DEF WorkOf
  <2>6. Dist(q, x.seq) = R + 1 /\ R \in Nat  BY <2>2, <2>4, <2>5, NextNumber
  <2> DEFINE t == TakeOld(n, d, x, garbage)
             new == FALSE
  <2>7. new \in BOOLEAN /\ t = Take(n, d, x, new, garbage)  BY DEF TakeOld
  <2>8. p = Peer(n)  OBVIOUS
  <2> HIDE DEF new, t, R, p, z
  <2>9. Handed(p, R + 1, t.fragmMsgBuf, base \o t.up)
    <3>1. base \in Seq(Msgs(p) \cup {Mixed})  BY DEF p
    <3> QED  BY <3>1, <1>1, <2>1, <2>3, <2>6, <2>7, <2>8, TakeHanded
  <2>10. z.fragmMsgBuf = t.fragmMsgBuf /\ z.up = t.up /\ Dist(q, z.last) = R + 1  BY <2>2, <2>6 DEF t
  <2>11. Handed(p, Dist(q, z.last), z.fragmMsgBuf, base \o z.up)  BY <2>9, <2>10
  <2>12. z \in WorkHanded(q, n, u, lo, hi, c, base)  BY <1>2, <2>11 DEF WorkHanded, p
  <2> QED  BY <2>12 DEF z
<1> QED  BY <1>3, <1>4

(* A packet ahead of the sequence has a number beyond all that was taken. *)
LEMMA AheadIsBeyond ==
  ASSUME NEW q \in Seqs, NEW s, s.lastAckSent \in Seqs, NEW x, x.seq \in Seqs, Ahead(s, x), Recent(q, s, x.seq)
  PROVE  Dist(q, s.lastAckSent) < Dist(q, x.seq)
<1> DEFINE a == s.lastAckSent
           b == x.seq
           A == Dist(q, a)
           B == Dist(q, b)
<1>1. Dist(a, b) = IF A <= B THEN B - A ELSE B - A + SeqMod
  <2>1. a \in Seqs /\ b \in Seqs  OBVIOUS
  <2> HIDE DEF a, b
  <2> QED  BY <2>1, DistDist
<1>2. A \in Nat /\ B \in Nat  BY NumberOk
<1>3. Dist(a, b) >= 1 /\ Dist(a, b) <= Window  BY Constants DEF Ahead
<1>4. A < B + Window  BY DEF Recent
<1> HIDE DEF A, B
<1>5. A < B  BY <1>1, <1>2, <1>3, <1>4, Constants
<1> QED  BY <1>5 DEF A, B

LEMMA AcceptHanded ==
  ASSUME NEW n \in Nodes, NEW q \in Seqs, NEW s, NEW r, NEW c, NEW o, NEW u, NEW x, NEW garbage, NEW d, NEW y, NEW z,
         Receiving(q, n, s, r, c, o, u, x, garbage, d, y, z),
         NEW p, p = Peer(n), NEW base \in Seq(Msgs(p) \cup {Mixed}),
         Handed(p, Dist(q, s.lastAckSent), s.fragmMsgBuf, base)
  PROVE  Handed(p, Dist(q, d.last), d.fragmMsgBuf, base \o d.up)
<1> DEFINE R == Dist(q, s.lastAckSent)
           e == WorkStart(s)
           t == TakeNew(n, s, x, garbage)
           w == TakenNext(x, t)
           k == KeptAhead(s, x, t)
           new == TRUE
<1>1. s \in StateOf(n) /\ r \in StateOf(p) /\ x \in PacketsOf(Peer(n)) /\ Counted(q, p, r, u)
      /\ BufferSide(q, n, s, u) /\ d = Accept(n, s, x, garbage).d
  BY DEF Receiving, Side
<1>2. x \in NamedOf(q, p, u) /\ Recent(q, s, x.seq)  BY ReceivedSide
<1>3. \/ InSequence(s, x) /\ d = w
      \/ InSequence(s, x) /\ d = Drain(n, w, garbage)
      \/ Ahead(s, x) /\ d = k
      \/ d = e
  <2>1. t = TakeNew(n, s, x, garbage)  OBVIOUS
  <2> HIDE DEF t
  <2> QED  BY <1>1, <2>1, AcceptCases
<1>4. /\ w \in WorkOf(n)
      /\ w.recvMsgBuf = s.recvMsgBuf /\ w.fragmMsgBuf = t.fragmMsgBuf /\ w.up = t.up /\ w.last = x.seq
      /\ k.fragmMsgBuf = t.fragmMsgBuf /\ k.up = <<>> /\ k.last = s.lastAckSent
  <2>1. t = TakeNew(n, s, x, garbage)  OBVIOUS
  <2> HIDE DEF t
  <2> QED  BY <1>1, <2>1, TakenIs
<1>5. /\ e \in WorkOf(n)
      /\ \A i \in Slots : t.fragmMsgBuf[i] = Free \/ t.fragmMsgBuf[i] = s.fragmMsgBuf[i] \/ t.fragmMsgBuf[i] = x
  <2>1. t = TakeNew(n, s, x, garbage)  OBVIOUS
  <2> HIDE DEF t
  <2> QED  BY <1>1, <2>1, TakeNewIs
<1>6. e.recvMsgBuf = s.recvMsgBuf /\ e.fragmMsgBuf = s.fragmMsgBuf /\ e.up = <<>> /\ e.last = s.lastAckSent
  BY DEF WorkStart
<1>7. base \o <<>> = base  BY ConcatEmptySeq
<1>8. s.lastAckSent \in Seqs /\ r.lastMsgSent \in Seqs /\ p \in Nodes  BY <1>1, Peers DEF StateOf
<1>9. x.seq \in Seqs /\ Dist(q, x.seq) \in Nat /\ Dist(q, x.seq) >= 1 /\ Dist(q, x.seq) <= Dist(q, r.lastMsgSent)
  BY <1>1, <1>2, <1>8, NamedBounds
<1>10. new \in BOOLEAN /\ t = Take(n, e, x, new, garbage)  BY DEF TakeNew
<1>11. /\ \A i \in Slots : s.recvMsgBuf[i] # Free => s.recvMsgBuf[i] \in NamedOf(q, p, u)
       /\ \A i \in Slots : s.fragmMsgBuf[i] # Free => s.fragmMsgBuf[i] \in NamedOf(q, p, u)
  BY <1>1 DEF BufferSide
<1>12. Handed(p, R, e.fragmMsgBuf, base \o e.up)  BY <1>6, <1>7
<1> HIDE DEF e, t, w, k, new, R
<1>13. AllNamed(q, p, u, e.fragmMsgBuf)  BY <1>6, <1>11 DEF AllNamed
<1>14. TakeEffect(p, e, x, t)
  <2>1. Incomplete(p, e.fragmMsgBuf)  BY <1>12 DEF Handed
  <2> QED  BY <2>1, <1>2, <1>5, <1>10, <1>13, TakeDoes
<1>15. R \in Nat  BY <1>8, NumberOk DEF R
<1>16. ASSUME InSequence(s, x)
       PROVE  /\ Handed(p, Dist(q, w.last), w.fragmMsgBuf, base \o w.up)
              /\ Dist(q, x.seq) = R + 1
  <2>1. x.seq = Plus(s.lastAckSent, 1)  BY <1>16 DEF InSequence
  <2>2. Dist(q, x.seq) = R + 1  BY <2>1, <1>8, <1>9, NextNumber DEF R
  <2>3. Handed(p, R + 1, t.fragmMsgBuf, base \o t.up)
    BY <2>2, <1>2, <1>5, <1>10, <1>12, <1>13, <1>15, TakeHanded
  <2> QED  BY <2>2, <2>3, <1>4
<1>17. CASE d = e
  <2> QED  BY <1>17, <1>12, <1>6 DEF R
<1>18. CASE Ahead(s, x) /\ d = k
  <2>1. R < Dist(q, x.seq)  BY <1>2, <1>8, <1>9, <1>18, AheadIsBeyond DEF R
  <2>2. Handed(p, R, s.fragmMsgBuf, base)  BY DEF R
  <2> DEFINE a == s.fragmMsgBuf
             b == t.fragmMsgBuf
  <2>3. Incomplete(p, b) /\ \A g, f : Held(b, g, f) => Held(a, g, f) \/ (g = x.msg /\ f = x.frag)
    BY <1>6, <1>14 DEF TakeEffect
  <2> HIDE DEF a, b
  <2>4. Handed(p, R, b, base)  BY <2>1, <2>2, <2>3, <1>2, <1>8, <1>15, HandedAhead DEF a
  <2>5. d.fragmMsgBuf = b /\ d.up = <<>> /\ Dist(q, d.last) = R  BY <1>4, <1>18 DEF b, R
  <2> QED  BY <2>4, <2>5, <1>7
<1>19. CASE InSequence(s, x) /\ d = w  BY <1>16, <1>19
<1>20. CASE InSequence(s, x) /\ d = Drain(n, w, garbage)
  <2> DEFINE lo == 0
             hi == Dist(q, r.lastMsgSent)
             D == WorkHanded(q, n, u, lo, hi, <<>>, base)
  <2>1. \A v : Before(q, <<>>, v)  BY DEF Before
  <2>2. \A i \in Slots : t.fragmMsgBuf[i] # Free => t.fragmMsgBuf[i] \in NamedOf(q, p, u)
    BY <1>2, <1>5, <1>11
  <2>3. w \in WorkGood(q, n, u, lo, hi, <<>>)
    <3>1. lo <= Dist(q, w.last) /\ Dist(q, w.last) <= hi  BY <1>4, <1>9
    <3>2. \A i \in Slots : /\ w.recvMsgBuf[i] # Free => w.recvMsgBuf[i] \in NamedOf(q, Peer(n), u)
                           /\ w.fragmMsgBuf[i] # Free => w.fragmMsgBuf[i] \in NamedOf(q, Peer(n), u)
      BY <1>4, <1>11, <2>2
    <3> HIDE DEF lo, hi
    <3> QED  BY <2>1, <3>1, <3>2, <1>4 DEF WorkGood
  <2>4. w \in D  BY <2>3, <1>16, <1>20 DEF WorkHanded
  <2>5. lo \in Nat /\ hi = Dist(q, r.lastMsgSent)  OBVIOUS
  <2> HIDE DEF lo, hi
  <2>6. \A v \in WorkOf(n) : v \in D => DrainRound(n, v, garbage) \in D
    BY <2>5, <1>1, <1>8, RoundHanded
  <2> HIDE DEF D
  <2>7. d \in D  BY <2>4, <2>6, <1>4, <1>20, DrainKeeps
  <2> QED  BY <2>7 DEF D, WorkHanded
<1> QED  BY <1>3, <1>17, <1>18, <1>19, <1>20

-----------------------------------------------------------------------------
(* The invariant of the messages that were handed over. *)
HandedInv(q) ==
  \A n \in Nodes : Handed(Peer(n), Dist(q, node[n].lastAckSent), node[n].fragmMsgBuf, delivered[n])

(* A step of n that takes nothing in sequence. *)
LEMMA HandedStay ==
  ASSUME TransportInv, NEW q, HandedInv(q), NEW n \in Nodes, NEW t, node' = [node EXCEPT ![n] = t],
         t.lastAckSent = node[n].lastAckSent, t.fragmMsgBuf = node[n].fragmMsgBuf, UNCHANGED delivered
  PROVE  HandedInv(q)'
<1>1. DOMAIN node = Nodes  BY DEF TransportInv, SendersInv
<1>2. \A m \in Nodes : /\ node'[m].lastAckSent = node[m].lastAckSent
                       /\ node'[m].fragmMsgBuf = node[m].fragmMsgBuf
  BY <1>1
<1>3. ASSUME NEW m \in Nodes
      PROVE  Handed(Peer(m), Dist(q, node'[m].lastAckSent), node'[m].fragmMsgBuf, delivered'[m])
  BY <1>2 DEF HandedInv
<1> QED  BY <1>3 DEF HandedInv

LEMMA DataHanded ==
  ASSUME TransportInv, NEW q \in Seqs, OrderInv(q), HandedInv(q), NEW n \in Nodes, DataArrived(n), ~broken'
  PROVE  /\ HandedInv(q)' /\ UNCHANGED <<outcome, broken>>
         /\ \E up \in Seq(Msgs(Peer(n)) \cup {Mixed}) : delivered' = [delivered EXCEPT ![n] = @ \o up]
<1> DEFINE p == Peer(n)
           s == node[n]
           r == node[p]
           o == outcome[n]
           u == outcome[p]
           c == net[n]
           h == Head(c)
           base == delivered[n]
<1>1. /\ p \in Nodes /\ p # n /\ s \in StateOf(n) /\ r \in StateOf(p)
      /\ Side(q, n, s, r, c, o, u) /\ Side(q, p, r, s, net[p], u, o)
      /\ DOMAIN node = Nodes
  BY OrderParts
<1>2. ~s.resetFlag  BY <1>1 DEF Side, SendSide
<1>3. /\ \E a \in {Accept(n, s, h, garbage) : garbage \in Slots \cup {0}} :
           /\ node' = [node EXCEPT ![n] = Received(s, a.received, a.d.last, a.d.recvMsgBuf, a.d.fragmMsgBuf)]
           /\ delivered' = [delivered EXCEPT ![n] = @ \o a.d.up]
      /\ UNCHANGED <<outcome, broken>> /\ c # <<>> /\ h \in PacketsOf(p)
  BY <1>2, OrderlyData
<1>4. PICK a \in {Accept(n, s, h, garbage) : garbage \in Slots \cup {0}} :
           /\ node' = [node EXCEPT ![n] = Received(s, a.received, a.d.last, a.d.recvMsgBuf, a.d.fragmMsgBuf)]
           /\ delivered' = [delivered EXCEPT ![n] = @ \o a.d.up]
  BY <1>3
<1>5. PICK garbage \in Slots \cup {0} : a = Accept(n, s, h, garbage)  BY <1>4
<1> DEFINE d == a.d
           x == a.received
           t == Received(s, x, d.last, d.recvMsgBuf, d.fragmMsgBuf)
<1>6. node' = [node EXCEPT ![n] = t]  BY <1>4
<1>7. d = Accept(n, s, h, garbage).d /\ h = Head(c) /\ p = Peer(n)
      /\ t = Received(s, x, d.last, d.recvMsgBuf, d.fragmMsgBuf)
  BY <1>5
<1>8. DOMAIN delivered = Nodes /\ base \in Seq(Msgs(p) \cup {Mixed})  BY DEF TransportInv, UsersInv
<1>9. Handed(p, Dist(q, s.lastAckSent), s.fragmMsgBuf, base)  BY DEF HandedInv
<1>10. delivered'[n] = base \o d.up /\ \A m \in Nodes : m # n => delivered'[m] = delivered[m]
  <2> HIDE DEF d
  <2> QED  BY <1>4, <1>8 DEF d
<1> HIDE DEF s, r, o, u, c, h, d, x, t, p, base
<1>11. Counted(q, p, r, u) /\ Dist(q, s.lastAckSent) <= Dist(q, r.lastMsgSent)  BY <1>1 DEF Side, SendSide
<1>12. Receiving(q, n, s, r, c, o, u, h, garbage, d, x, t)
  <2> USE <1>7
  <2> QED  BY <1>1, <1>3, <1>11 DEF Receiving
<1>13. Handed(p, Dist(q, d.last), d.fragmMsgBuf, base \o d.up)  BY <1>7, <1>8, <1>9, <1>12, AcceptHanded
<1>14. t.lastAckSent = d.last /\ t.fragmMsgBuf = d.fragmMsgBuf /\ d.up \in Seq(Msgs(p) \cup {Mixed})
  <2>1. d \in WorkOf(n)  BY <1>12, ReceivedSide
  <2>2. t.lastAckSent = d.last /\ t.fragmMsgBuf = d.fragmMsgBuf  BY <1>1, <1>7 DEF Received, StateOf
  <2> QED  BY <2>1, <2>2 DEF WorkOf, p
<1>15. ASSUME NEW m \in Nodes
       PROVE  Handed(Peer(m), Dist(q, node'[m].lastAckSent), node'[m].fragmMsgBuf, delivered'[m])
  <2>1. CASE m = n
    <3>1. node'[m] = t /\ delivered'[m] = base \o d.up /\ Peer(m) = p  BY <2>1, <1>1, <1>6, <1>10 DEF p
    <3> QED  BY <3>1, <1>13, <1>14
  <2>2. CASE m # n
    <3>1. node'[m] = node[m] /\ delivered'[m] = delivered[m]  BY <2>2, <1>1, <1>6, <1>10
    <3> QED  BY <3>1 DEF HandedInv
  <2> QED  BY <2>1, <2>2
<1>16. HandedInv(q)'  BY <1>15 DEF HandedInv
<1>17. \E up \in Seq(Msgs(p) \cup {Mixed}) : delivered' = [delivered EXCEPT ![n] = @ \o up]
  BY <1>4, <1>14 DEF d
<1> QED  BY <1>3, <1>16, <1>17 DEF p

LEMMA HandedStep ==
  ASSUME TransportInv, NEW q \in Seqs, OrderInv(q), HandedInv(q), [Next]_vars, ~broken'
  PROVE  HandedInv(q)'
<1>1. ASSUME NEW n, NEW flag, ResetNode(n, flag) PROVE FALSE  BY <1>1 DEF ResetNode
<1>2. ASSUME UNCHANGED <<node, delivered>> PROVE HandedInv(q)'  BY <1>2 DEF HandedInv
<1>3. \A n \in Nodes : node[n] \in StateOf(n)  BY DEF TransportInv, SendersInv, SenderOk
<1>4. CASE UNCHANGED vars  BY <1>2, <1>4 DEF vars
<1>5. ASSUME NEW n \in Nodes, NEW m \in Msgs(n), SendMsg(n, m) PROVE HandedInv(q)'
  <2> DEFINE s == node[n]
             ps == Packets(n, m, s.lastMsgSent, s.resetFlag)
             t == Sent(s, ps)
             N == Fragments[n][m]
  <2>1. node' = [node EXCEPT ![n] = t] /\ UNCHANGED delivered  BY <1>5, Zenon DEF SendMsg, Sent
  <2>2. DOMAIN ps = 1..N /\ Len(ps) = N  BY PacketsAre
  <2>3. N \in Nat  BY MessagesOf
  <2>4. t = Sent(s, ps) /\ s \in StateOf(n)  BY <1>3
  <2> HIDE DEF N, ps, t
  <2>5. t.lastAckSent = s.lastAckSent /\ t.fragmMsgBuf = s.fragmMsgBuf  BY <2>2, <2>3, <2>4, SentIs
  <2> QED  BY <2>1, <2>5, HandedStay
<1>6. ASSUME NEW n \in Nodes, NEW x \in Seqs, MsgTimerFired(n, x) PROVE HandedInv(q)'
  <2> DEFINE s == node[n]
  <2>1. PICK e \in s.sentMsgBuf : /\ node' = [node EXCEPT ![n] = Resent(s, e, s.timers \cup {e.packet.seq})]
                                  /\ UNCHANGED <<outcome, delivered, broken>>
    BY <1>1, <1>6, TimerCases
  <2> DEFINE T == s.timers \cup {e.packet.seq}
             t == Resent(s, e, T)
  <2>2. node' = [node EXCEPT ![n] = t] /\ t = Resent(s, e, T) /\ s \in StateOf(n)  BY <2>1, <1>3
  <2> HIDE DEF t, T
  <2>3. t.lastAckSent = s.lastAckSent /\ t.fragmMsgBuf = s.fragmMsgBuf  BY <2>2, ResentIs
  <2> QED  BY <2>1, <2>2, <2>3, HandedStay
<1>7. ASSUME NEW n \in Nodes, KeepAliveExpired(n) PROVE FALSE  BY <1>1, <1>7 DEF KeepAliveExpired
<1>8. ASSUME NEW n \in Nodes, AckArrived(n) PROVE HandedInv(q)'
  <2> DEFINE s == node[n]
             a == Head(net[n]).seq
             t == AckedState(s, a)
  <2>1. AcceptsAck(n, s, a) \/ UNCHANGED <<node, outcome, delivered, broken>>  BY <1>1, <1>8, AckCases
  <2>2. CASE AcceptsAck(n, s, a)
    <3>1. node' = [node EXCEPT ![n] = t] /\ UNCHANGED delivered /\ t = AckedState(s, a) /\ s \in StateOf(n)
      BY <2>2, <1>3 DEF AcceptsAck
    <3> HIDE DEF t, a
    <3>2. t.lastAckSent = s.lastAckSent /\ t.fragmMsgBuf = s.fragmMsgBuf  BY <3>1, AckedIs
    <3> QED  BY <3>1, <3>2, HandedStay
  <2> QED  BY <2>1, <2>2, <1>2
<1>9. ASSUME NEW n \in Nodes, Lose(n) PROVE HandedInv(q)'  BY <1>2, <1>9 DEF Lose
<1>10. CASE Next
  BY <1>10, <1>5, <1>6, <1>7, <1>8, <1>9, DataHanded DEF Next
<1> QED  BY <1>4, <1>10

LEMMA HandedFirst ==
  ASSUME Init, NEW q \in Seqs, node = [n \in Nodes |-> Fresh(q)]
  PROVE  HandedInv(q)
<1>1. Dist(q, q) = 0
  <2>1. Dist(q, q) = IF q <= q THEN q - q ELSE q - q + SeqMod  BY DistIs
  <2> QED  BY <2>1 DEF Seqs
<1>2. ASSUME NEW n \in Nodes
      PROVE  Handed(Peer(n), Dist(q, node[n].lastAckSent), node[n].fragmMsgBuf, delivered[n])
  <2> DEFINE p == Peer(n)
             b == node[n].fragmMsgBuf
             ds == delivered[n]
             L == LastNumber(p)
  <2>1. Dist(q, node[n].lastAckSent) = 0 /\ \A i \in Slots : b[i] = Free  BY <1>1 DEF Fresh
  <2>2. ds = <<>> /\ ds \in Seq(Msgs(p)) /\ Len(ds) = 0  BY DEF Init
  <2>3. p \in Nodes  BY Peers
  <2> HIDE DEF p, b, ds
  <2>4. \A e \in Msgs(p) : Fragments[p][e] \in Nat /\ Fragments[p][e] >= 1  BY <2>3, MessagesOf
  <2>5. Incomplete(p, b)
    <3> SUFFICES ASSUME NEW e \in Msgs(p) PROVE \E f \in 0..Fragments[p][e]-1 : ~Held(b, e, f)
      BY DEF Incomplete
    <3>1. 0 \in 0..Fragments[p][e]-1  BY <2>4
    <3>2. ~Held(b, e, 0)  BY <2>1 DEF Held
    <3> QED  BY <3>1, <3>2
  <2>6. \A e \in Msgs(p) : ~(L[e] <= 0)
    <3> TAKE e \in Msgs(p)
    <3>1. L[e] = L[e - 1] + Fragments[p][e] /\ L[e - 1] \in Nat  BY <2>3, LastNumberIs
    <3> HIDE DEF L
    <3> QED  BY <3>1, <2>4
  <2>7. Handed(p, 0, b, ds)  BY <2>2, <2>5, <2>6 DEF Handed
  <2> QED  BY <2>1, <2>7 DEF p, b, ds
<1> QED  BY <1>2 DEF HandedInv

-----------------------------------------------------------------------------
(* Nothing is invented: every data packet on its way or kept is one of a message that was submitted. *)

SubmittedOf(p, o) == {m \in Msgs(p) : o[m] # "unsent"}
KnownOf(p, o) == {x \in PacketsOf(p) : x.msg \in SubmittedOf(p, o)}

(* The messages of n are submitted in their order. *)
Successive(n, o) == \A m, k \in Msgs(n) : o[m] # "unsent" /\ k < m => o[k] # "unsent"

AllKnown(p, o, buf) == \A i \in Slots : buf[i] # Free => buf[i] \in KnownOf(p, o)

(* The packets on their way to n, and those its buffer b keeps, are its peer's. *)
KnownSide(n, b, c, u) == AllKnown(Peer(n), u, b) /\ c \in Seq(KnownOf(Peer(n), u) \cup AckPackets)

KnownInv ==
  \A n \in Nodes : Successive(n, outcome[n]) /\ KnownSide(n, node[n].recvMsgBuf, net[n], outcome[Peer(n)])

LEMMA KnownStay ==
  ASSUME NEW n, NEW b, NEW c, NEW u, KnownSide(n, b, c, u),
         NEW w, \A m \in Msgs(Peer(n)) : u[m] # "unsent" => w[m] # "unsent"
  PROVE  KnownSide(n, b, c, w)
<1>1. KnownOf(Peer(n), u) \subseteq KnownOf(Peer(n), w)  BY DEF KnownOf, SubmittedOf
<1>2. AllKnown(Peer(n), w, b)  BY <1>1 DEF KnownSide, AllKnown
<1> DEFINE X == KnownOf(Peer(n), u) \cup AckPackets
           Y == KnownOf(Peer(n), w) \cup AckPackets
<1>3. X \subseteq Y /\ c \in Seq(X)  BY <1>1 DEF KnownSide
<1> HIDE DEF X, Y
<1>4. c \in Seq(Y)
  <2>1. \A i \in 1..Len(c) : c[i] \in Y  BY <1>3, ElementOfSeq
  <2> QED  BY <2>1, <1>3, ElementsIn
<1> QED  BY <1>2, <1>4 DEF KnownSide, Y

(* A step of n, after which it keeps what is in b and its peer's packets are those in d. *)
LEMMA KnownStep ==
  ASSUME TransportInv, KnownInv, NEW n \in Nodes, NEW p, p = Peer(n), NEW w, NEW c, NEW d,
         node'[p] = node[p], outcome'[n] = w, outcome'[p] = outcome[p], net'[n] = c, net'[p] = d,
         Successive(n, w), \A m \in Msgs(n) : outcome[n][m] # "unsent" => w[m] # "unsent",
         KnownSide(n, node'[n].recvMsgBuf, c, outcome[p]), KnownSide(p, node[p].recvMsgBuf, d, w)
  PROVE  KnownInv'
<1>1. p \in Nodes /\ Peer(p) = n /\ \A m \in Nodes : m = n \/ m = p  BY Peers
<1>2. Successive(p, outcome[p])  BY <1>1 DEF KnownInv
<1>3. ASSUME NEW m \in Nodes
      PROVE  Successive(m, outcome'[m]) /\ KnownSide(m, node'[m].recvMsgBuf, net'[m], outcome'[Peer(m)])
  <2>1. CASE m = n  BY <2>1
  <2>2. CASE m = p  BY <2>2, <1>1, <1>2
  <2> QED  BY <2>1, <2>2, <1>1
<1> QED  BY <1>3 DEF KnownInv

(* Taking x hands its message up, one put together from two, or none. *)
LEMMA TakeUp ==
  ASSUME NEW n \in Nodes, NEW d \in WorkOf(n), NEW x \in PacketsOf(Peer(n)), NEW new \in BOOLEAN, NEW garbage,
         NEW t, t = Take(n, d, x, new, garbage), NEW S, x.msg \in S, Mixed \in S, d.up \in Seq(S)
  PROVE  t.up \in Seq(S)
<1> DEFINE buf == IF new THEN Put(d.fragmMsgBuf, x) ELSE d.fragmMsgBuf
           own == IF new THEN FreeSlot(d.fragmMsgBuf) ELSE garbage
           firsts == FirstFragment(buf, x, own)
           run == Run(n, buf, Plus(x.seq, -x.frag))
           y == CHOOSE z \in firsts : TRUE
           used == {y.slot} \cup {run[f] : f \in DOMAIN run}
           parts == {y.packet.msg} \cup {buf[run[f]].msg : f \in DOMAIN run}
           whole == IF parts = {x.msg} THEN x.msg ELSE Mixed
           kept == [i \in Slots |-> IF i \in used THEN Free ELSE buf[i]]
<1>1. \/ t = [d EXCEPT !.up = Append(d.up, x.msg)]
      \/ t = [d EXCEPT !.fragmMsgBuf = buf]
      \/ t = [d EXCEPT !.fragmMsgBuf = kept, !.up = Append(d.up, whole)]
  BY DEF Take
<1>2. whole \in S
  <2> HIDE DEF parts
  <2> QED  OBVIOUS
<1>3. DOMAIN d = {"recvMsgBuf", "fragmMsgBuf", "up", "last"}  BY DEF WorkOf
<1> HIDE DEF buf, kept, whole
<1>4. t.up = Append(d.up, x.msg) \/ t.up = d.up \/ t.up = Append(d.up, whole)  BY <1>1, <1>3
<1>5. Append(d.up, x.msg) \in Seq(S) /\ Append(d.up, whole) \in Seq(S)  BY <1>2, AppendProperties
<1> QED  BY <1>4, <1>5

(* What a receiver works on when it knows the messages in S only. *)
WorkKnown(n, u, S) == {d \in WorkOf(n) : AllKnown(Peer(n), u, d.recvMsgBuf) /\ d.up \in Seq(S)}

LEMMA RoundKnown ==
  ASSUME NEW n \in Nodes, NEW u, NEW S, S = SubmittedOf(Peer(n), u) \cup {Mixed},
         NEW d \in WorkKnown(n, u, S), NEW garbage
  PROVE  DrainRound(n, d, garbage) \in WorkKnown(n, u, S)
<1> DEFINE z == DrainRound(n, d, garbage)
<1>1. d \in WorkOf(n) /\ AllKnown(Peer(n), u, d.recvMsgBuf) /\ d.up \in Seq(S)  BY DEF WorkKnown
<1>2. z \in WorkOf(n)  BY <1>1, DrainRoundOk
<1>3. CASE z = d  BY <1>3
<1>4. CASE z # d
  <2>1. PICK i \in Slots, x \in PacketsOf(Peer(n)) :
           /\ x = d.recvMsgBuf[i] /\ x # Free /\ x.seq = Plus(d.last, 1)
           /\ z.last = x.seq /\ z.recvMsgBuf = [d.recvMsgBuf EXCEPT ![i] = Free]
           /\ z.fragmMsgBuf = TakeOld(n, d, x, garbage).fragmMsgBuf
           /\ z.up = TakeOld(n, d, x, garbage).up
    <3>1. z = DrainRound(n, d, garbage)  OBVIOUS
    <3> HIDE DEF z
    <3> QED  BY <3>1, <1>1, <1>4, RoundCases
  <2>2. x \in KnownOf(Peer(n), u)  BY <1>1, <2>1 DEF AllKnown
  <2>3. x.msg \in S /\ Mixed \in S  BY <2>2 DEF KnownOf
  <2> DEFINE t == TakeOld(n, d, x, garbage)
             new == FALSE
  <2>4. new \in BOOLEAN /\ t = Take(n, d, x, new, garbage)  BY DEF TakeOld
  <2> HIDE DEF new, t, z
  <2>5. t.up \in Seq(S)  BY <1>1, <2>1, <2>3, <2>4, TakeUp
  <2>6. AllKnown(Peer(n), u, z.recvMsgBuf)
    <3>1. d.recvMsgBuf \in [Slots -> PacketsOf(Peer(n)) \cup {Free}]  BY <1>1 DEF WorkOf, BufferOf
    <3>2. \A j \in Slots : z.recvMsgBuf[j] = IF j = i THEN Free ELSE d.recvMsgBuf[j]  BY <2>1, <3>1
    <3> QED  BY <3>2, <1>1 DEF AllKnown
  <2> QED  BY <1>2, <2>1, <2>5, <2>6 DEF WorkKnown, z, t
<1> QED  BY <1>3, <1>4

LEMMA AcceptKnown ==
  ASSUME NEW n \in Nodes, NEW u, NEW S, S = SubmittedOf(Peer(n), u) \cup {Mixed},
         NEW s \in StateOf(n), AllKnown(Peer(n), u, s.recvMsgBuf), NEW x \in KnownOf(Peer(n), u), NEW garbage,
         NEW d, d = Accept(n, s, x, garbage).d
  PROVE  d \in WorkKnown(n, u, S)
<1> DEFINE e == WorkStart(s)
           t == TakeNew(n, s, x, garbage)
           w == TakenNext(x, t)
           k == KeptAhead(s, x, t)
           new == TRUE
<1>1. x \in PacketsOf(Peer(n)) /\ x.msg \in S /\ Mixed \in S /\ x # Free  BY DEF KnownOf, PacketsOf, DataPackets, Free
<1>2. \/ InSequence(s, x) /\ d = w
      \/ InSequence(s, x) /\ d = Drain(n, w, garbage)
      \/ Ahead(s, x) /\ d = k
      \/ d = e
  <2>1. t = TakeNew(n, s, x, garbage)  OBVIOUS
  <2> HIDE DEF t
  <2> QED  BY <1>1, <2>1, AcceptCases
<1>3. /\ w \in WorkOf(n) /\ w.recvMsgBuf = s.recvMsgBuf /\ w.up = t.up
      /\ k.recvMsgBuf = Put(s.recvMsgBuf, x) /\ k.up = <<>>
  <2>1. t = TakeNew(n, s, x, garbage)  OBVIOUS
  <2> HIDE DEF t
  <2> QED  BY <1>1, <2>1, TakenIs
<1>4. e \in WorkOf(n)
  <2>1. t = TakeNew(n, s, x, garbage)  OBVIOUS
  <2> HIDE DEF t
  <2> QED  BY <1>1, <2>1, TakeNewIs
<1>5. e.recvMsgBuf = s.recvMsgBuf /\ e.up = <<>> /\ <<>> \in Seq(S)  BY DEF WorkStart
<1>6. new \in BOOLEAN /\ t = Take(n, e, x, new, garbage)  BY DEF TakeNew
<1>7. d \in WorkOf(n)
  <2> DEFINE a == Accept(n, s, x, garbage)
  <2>1. a = Accept(n, s, x, garbage) /\ d = a.d  OBVIOUS
  <2> HIDE DEF a
  <2> QED  BY <2>1, <1>1, AcceptOk
<1> HIDE DEF e, t, w, k, new
<1>8. t.up \in Seq(S)
  <2>1. e.up \in Seq(S)  BY <1>5
  <2>2. x \in PacketsOf(Peer(n)) /\ x.msg \in S /\ Mixed \in S  BY <1>1
  <2> QED  BY <2>1, <2>2, <1>4, <1>6, TakeUp
<1>9. w \in WorkKnown(n, u, S)  BY <1>3, <1>8 DEF WorkKnown
<1>10. CASE d = w  BY <1>9, <1>10
<1>11. CASE d = Drain(n, w, garbage)
  <2> DEFINE D == WorkKnown(n, u, S)
  <2>1. \A v \in WorkOf(n) : v \in D => DrainRound(n, v, garbage) \in D  BY RoundKnown
  <2> HIDE DEF D
  <2>2. w \in D  BY <1>9 DEF D
  <2>3. d \in D  BY <2>1, <2>2, <1>3, <1>11, DrainKeeps
  <2> QED  BY <2>3 DEF D
<1>12. CASE d = k
  <2>1. s.recvMsgBuf \in BufferOf(n)  BY DEF StateOf
  <2>2. AllKnown(Peer(n), u, k.recvMsgBuf)
    <3>1. \A i \in Slots : k.recvMsgBuf[i] = s.recvMsgBuf[i] \/ k.recvMsgBuf[i] = x  BY <1>3, <2>1, PutIs
    <3> QED  BY <3>1 DEF AllKnown
  <2> QED  BY <2>2, <1>3, <1>5, <1>7, <1>12 DEF WorkKnown
<1>13. CASE d = e  BY <1>4, <1>5, <1>13 DEF WorkKnown
<1> QED  BY <1>2, <1>10, <1>11, <1>12, <1>13

LEMMA KnownTail ==
  ASSUME NEW n, NEW b, NEW c, NEW u, KnownSide(n, b, c, u), c # <<>>
  PROVE  KnownSide(n, b, Tail(c), u) /\ Head(c) \in KnownOf(Peer(n), u) \cup AckPackets
<1> DEFINE X == KnownOf(Peer(n), u) \cup AckPackets
<1>1. AllKnown(Peer(n), u, b) /\ c \in Seq(X)  BY DEF KnownSide
<1> HIDE DEF X
<1>2. Tail(c) \in Seq(X) /\ Head(c) \in X  BY <1>1, TailIs
<1> QED  BY <1>1, <1>2 DEF KnownSide, X

LEMMA KnownAdd ==
  ASSUME NEW n, NEW b, NEW c, NEW u, KnownSide(n, b, c, u), NEW ps \in Seq(KnownOf(Peer(n), u) \cup AckPackets)
  PROVE  KnownSide(n, b, Fit(c \o ps), u)
<1> DEFINE X == KnownOf(Peer(n), u) \cup AckPackets
<1>1. AllKnown(Peer(n), u, b) /\ c \in Seq(X) /\ ps \in Seq(X)  BY DEF KnownSide
<1> HIDE DEF X
<1>2. Fit(c \o ps) \in Seq(X)  BY <1>1, AddIs
<1> QED  BY <1>1, <1>2 DEF KnownSide, X

(* The parts of the two invariants a step of n needs. *)
LEMMA KnownParts ==
  ASSUME TransportInv, KnownInv, NEW n \in Nodes, NEW p, p = Peer(n)
  PROVE  /\ p \in Nodes /\ p # n /\ Peer(p) = n
         /\ SenderOk(n, node[n], outcome[n]) /\ node[n] \in StateOf(n)
         /\ Successive(n, outcome[n])
         /\ KnownSide(n, node[n].recvMsgBuf, net[n], outcome[p])
         /\ KnownSide(p, node[p].recvMsgBuf, net[p], outcome[n])
         /\ DOMAIN node = Nodes /\ DOMAIN outcome = Nodes /\ DOMAIN net = Nodes /\ DOMAIN delivered = Nodes
<1>1. p \in Nodes /\ p # n /\ Peer(p) = n  BY Peers
<1> QED  BY <1>1 DEF TransportInv, SendersInv, SenderOk, NetInv, UsersInv, KnownInv

LEMMA InFlightIs ==
  ASSUME NEW n \in Nodes, NEW s, NEW o, SenderOk(n, s, o)
  PROVE  \A m \in Msgs(n) : m \in InFlight(s) <=> o[m] = "pending"
<1> DEFINE flag == FALSE
<1>1. flag \in BOOLEAN  OBVIOUS
<1> HIDE DEF flag
<1>2. InFlight(s) = {m \in Msgs(n) : o[m] = "pending"}  BY <1>1, ResetOk
<1> QED  BY <1>2

(* The messages of n and their results, when n is reset. *)
LEMMA FailedIs ==
  ASSUME TransportInv, NEW n \in Nodes, NEW p, p = Peer(n), outcome' = Failed(n)
  PROVE  /\ outcome'[p] = outcome[p]
         /\ \A m \in Msgs(n) : outcome'[n][m] = IF m \in InFlight(node[n]) THEN "fail" ELSE outcome[n][m]
         /\ outcome'[n] = [m \in Msgs(n) |-> IF outcome[n][m] = "pending" THEN "fail" ELSE outcome[n][m]]
<1>1. p \in Nodes /\ p # n  BY Peers
<1>2. DOMAIN outcome = Nodes /\ SenderOk(n, node[n], outcome[n])  BY DEF TransportInv, SendersInv
<1> DEFINE w == [m \in Msgs(n) |-> IF m \in InFlight(node[n]) THEN "fail" ELSE outcome[n][m]]
<1>3. outcome' = [outcome EXCEPT ![n] = w]  BY DEF Failed
<1>4. \A m \in Msgs(n) : m \in InFlight(node[n]) <=> outcome[n][m] = "pending"  BY <1>2, InFlightIs
<1>5. w = [m \in Msgs(n) |-> IF outcome[n][m] = "pending" THEN "fail" ELSE outcome[n][m]]  BY <1>4
<1>6. outcome'[n] = w /\ outcome'[p] = outcome[p]
  <2> HIDE DEF w
  <2> QED  BY <1>1, <1>2, <1>3
<1> QED  BY <1>5, <1>6

LEMMA SuccessiveStay ==
  ASSUME NEW n, NEW o, Successive(n, o), NEW w, \A m \in Msgs(n) : o[m] # "unsent" <=> w[m] # "unsent"
  PROVE  Successive(n, w)
BY DEF Successive

LEMMA ResetKnown ==
  ASSUME TransportInv, KnownInv, NEW n \in Nodes, NEW flag, ResetNode(n, flag),
         net' = net \/ (net[n] # <<>> /\ net' = [net EXCEPT ![n] = Tail(@)])
  PROVE  KnownInv'
<1> DEFINE p == Peer(n)
           w == outcome'[n]
           c == net'[n]
<1>1. /\ p \in Nodes /\ p # n /\ Peer(p) = n
      /\ Successive(n, outcome[n])
      /\ KnownSide(n, node[n].recvMsgBuf, net[n], outcome[p])
      /\ KnownSide(p, node[p].recvMsgBuf, net[p], outcome[n])
      /\ DOMAIN node = Nodes /\ DOMAIN outcome = Nodes /\ DOMAIN net = Nodes
  BY KnownParts
<1>2. node' = [node EXCEPT ![n] = ResetState(flag)] /\ outcome' = Failed(n)  BY DEF ResetNode
<1>3. outcome'[p] = outcome[p] /\ \A m \in Msgs(n) : w[m] = IF m \in InFlight(node[n]) THEN "fail" ELSE outcome[n][m]
  BY <1>2, FailedIs
<1>4. \A m \in Msgs(n) : outcome[n][m] # "unsent" <=> w[m] # "unsent"
  <2>1. \A m \in Msgs(n) : m \in InFlight(node[n]) => outcome[n][m] = "pending"
    <3>1. SenderOk(n, node[n], outcome[n])  BY KnownParts
    <3> QED  BY <3>1, InFlightIs
  <2> HIDE DEF w
  <2> QED  BY <1>3, <2>1
<1>5. node'[p] = node[p] /\ AllKnown(p, outcome[p], node'[n].recvMsgBuf)
  <2>1. node'[n] = ResetState(flag) /\ node'[p] = node[p]  BY <1>1, <1>2
  <2>2. \A i \in Slots : node'[n].recvMsgBuf[i] = Free  BY <2>1 DEF ResetState, Fresh
  <2> QED  BY <2>1, <2>2 DEF AllKnown
<1>6. net'[p] = net[p] /\ (c = net[n] \/ (net[n] # <<>> /\ c = Tail(net[n])))  BY <1>1
<1> HIDE DEF p, w, c
<1>7. KnownSide(n, node'[n].recvMsgBuf, c, outcome[p])
  <2> DEFINE b == node[n].recvMsgBuf
             u == outcome[p]
  <2>1. KnownSide(n, b, c, u)
    <3>1. KnownSide(n, b, net[n], u)  BY <1>1
    <3> HIDE DEF b, u
    <3>2. net[n] # <<>> => KnownSide(n, b, Tail(net[n]), u)  BY <3>1, KnownTail
    <3> QED  BY <3>1, <3>2, <1>6
  <2> QED  BY <2>1, <1>5 DEF KnownSide, p
<1>8. KnownSide(p, node[p].recvMsgBuf, net[p], w)
  <2>1. \A m \in Msgs(Peer(p)) : outcome[n][m] # "unsent" => w[m] # "unsent"  BY <1>1, <1>4
  <2> QED  BY <2>1, <1>1, KnownStay
<1>9. Successive(n, w)  BY <1>1, <1>4, SuccessiveStay
<1>10. p = Peer(n) /\ outcome'[n] = w /\ net'[n] = c  BY DEF p, w, c
<1> QED  BY <1>3, <1>4, <1>5, <1>6, <1>7, <1>8, <1>9, <1>10, KnownStep

(* What a packet that is accepted hands over was submitted. *)
LEMMA DataKnown ==
  ASSUME TransportInv, KnownInv, NEW n \in Nodes, net[n] # <<>>, NEW h, h = Head(net[n]),
         h \in PacketsOf(Peer(n)), h.reset \in BOOLEAN, Accepts(n, StateFor(n, h), h),
         NEW p, p = Peer(n), NEW S, S = SubmittedOf(p, outcome[p]) \cup {Mixed}
  PROVE  /\ \E up \in Seq(S) : delivered' = [delivered EXCEPT ![n] = @ \o up]
         /\ node'[p] = node[p] /\ AllKnown(p, outcome[p], node'[n].recvMsgBuf)
         /\ \E k \in AckPackets : Answer(n, <<k>>)
<1> DEFINE s == StateFor(n, h)
           u == outcome[p]
<1>1. /\ p \in Nodes /\ p # n /\ node[n] \in StateOf(n)
      /\ KnownSide(n, node[n].recvMsgBuf, net[n], u)
      /\ DOMAIN node = Nodes
  BY KnownParts
<1>2. PICK a \in {Accept(n, s, h, garbage) : garbage \in Slots \cup {0}} :
        /\ node' = [node EXCEPT ![n] = Received(s, a.received, AckNumber(a), a.d.recvMsgBuf, a.d.fragmMsgBuf)]
        /\ delivered' = [delivered EXCEPT ![n] = @ \o a.d.up]
        /\ Answer(n, <<Ack(AckNumber(a), s.resetFlag)>>)
  BY DEF Accepts
<1>3. PICK garbage \in Slots \cup {0} : a = Accept(n, s, h, garbage)  BY <1>2
<1>4. s \in StateOf(n) /\ AllKnown(p, u, s.recvMsgBuf)
  <2>1. CASE ~h.reset
    <3>1. s = node[n]  BY <2>1 DEF StateFor
    <3> QED  BY <3>1, <1>1 DEF KnownSide
  <2>2. CASE h.reset
    <3>1. s = ResetState(FALSE)  BY <2>2 DEF StateFor
    <3>2. \A i \in Slots : s.recvMsgBuf[i] = Free  BY <3>1 DEF ResetState, Fresh
    <3>3. SenderOk(n, node[n], outcome[n])  BY KnownParts
    <3>4. FALSE \in BOOLEAN  OBVIOUS
    <3>5. s \in StateOf(n)  BY <3>1, <3>3, <3>4, ResetOk DEF SenderOk
    <3> QED  BY <3>2, <3>5 DEF AllKnown
  <2> QED  BY <2>1, <2>2
<1>5. h \in KnownOf(p, u)
  <2>1. h \in KnownOf(p, u) \cup AckPackets  BY <1>1, KnownTail
  <2>2. h.kind = "data"  BY DEF PacketsOf, DataPackets
  <2> QED  BY <2>1, <2>2 DEF AckPackets
<1> DEFINE d == a.d
           k == Ack(AckNumber(a), s.resetFlag)
           t == Received(s, a.received, AckNumber(a), d.recvMsgBuf, d.fragmMsgBuf)
<1>6. d = Accept(n, s, h, garbage).d  BY <1>3
<1>7. k \in AckPackets
  <2>1. AckNumber(a) \in Seqs
    <3> HIDE DEF s
    <3> QED  BY <1>3, <1>4, AcceptOk
  <2>2. s.resetFlag \in BOOLEAN  BY <1>4 DEF StateOf
  <2> HIDE DEF s
  <2> QED  BY <2>1, <2>2 DEF Ack, AckPackets
<1>8. Answer(n, <<k>>) /\ node' = [node EXCEPT ![n] = t] /\ delivered' = [delivered EXCEPT ![n] = @ \o d.up]
  BY <1>2
<1>9. t.recvMsgBuf = d.recvMsgBuf  BY <1>4 DEF Received, StateOf
<1> HIDE DEF s, u, d, k, t
<1>10. d \in WorkKnown(n, u, S)
  <2>1. S = SubmittedOf(Peer(n), u) \cup {Mixed}  BY DEF u
  <2> QED  BY <2>1, <1>4, <1>5, <1>6, AcceptKnown
<1>11. d.up \in Seq(S) /\ AllKnown(p, u, d.recvMsgBuf)  BY <1>10 DEF WorkKnown
<1>12. node'[n] = t /\ node'[p] = node[p]  BY <1>1, <1>8
<1> QED  BY <1>7, <1>8, <1>9, <1>11, <1>12 DEF u

LEMMA SendKnown ==
  ASSUME TransportInv, KnownInv, NEW n \in Nodes, NEW m \in Msgs(n), SendMsg(n, m)
  PROVE  KnownInv' /\ outcome' = [outcome EXCEPT ![n][m] = "pending"]
         /\ \A k \in Msgs(n) : k < m => outcome[n][k] # "unsent"
<1> DEFINE p == Peer(n)
           s == node[n]
           o == outcome[n]
           u == outcome[p]
           ps == Packets(n, m, s.lastMsgSent, s.resetFlag)
           t == Sent(s, ps)
           w == [o EXCEPT ![m] = "pending"]
           N == Fragments[n][m]
<1>1. /\ p \in Nodes /\ p # n /\ Peer(p) = n /\ SenderOk(n, s, o) /\ s \in StateOf(n)
      /\ Successive(n, o)
      /\ KnownSide(n, s.recvMsgBuf, net[n], u)
      /\ KnownSide(p, node[p].recvMsgBuf, net[p], o)
      /\ DOMAIN node = Nodes /\ DOMAIN outcome = Nodes /\ DOMAIN net = Nodes
  BY KnownParts
<1>2. /\ node' = [node EXCEPT ![n] = t] /\ Send(n, ps) /\ o[m] = "unsent" /\ (m > 1 => o[m - 1] # "unsent")
      /\ Dist(s.lastAckReceived, s.lastMsgSent) + Len(ps) <= Window
      /\ outcome' = [outcome EXCEPT ![n][m] = "pending"]
  <2>1. node' = [node EXCEPT ![n] = t]  BY Zenon DEF SendMsg, Sent
  <2>2. Send(n, ps) /\ o[m] = "unsent" /\ (m > 1 => o[m - 1] # "unsent")  BY DEF SendMsg
  <2>3. Dist(s.lastAckReceived, s.lastMsgSent) + Len(ps) <= Window  BY DEF SendMsg
  <2>4. outcome' = [outcome EXCEPT ![n][m] = "pending"]  BY DEF SendMsg
  <2> QED  BY <2>1, <2>2, <2>3, <2>4
<1>3. outcome' = [outcome EXCEPT ![n] = w]  BY <1>2
<1>4. net' = [net EXCEPT ![p] = Fit(net[p] \o ps)]  BY <1>2 DEF Send
<1>5. N \in Nat /\ Msgs(n) = 1..Len(Fragments[n]) /\ Len(Fragments[n]) \in Nat  BY MessagesOf
<1>6. DOMAIN ps = 1..N /\ Len(ps) = N /\ ps \in [1..N -> {ps[k] : k \in 1..N}]
      /\ \A k \in 1..N : ps[k].msg = m
  <2>1. ps \in [1..N -> {ps[k] : k \in 1..N}]  BY PacketsAre
  <2>2. DOMAIN ps = 1..N /\ Len(ps) = N
        /\ \A k \in 1..N : ps[k] = [kind |-> "data", seq |-> Plus(s.lastMsgSent, k), msg |-> m, frag |-> k - 1,
                                    reset |-> (s.resetFlag /\ k = 1)]
    BY PacketsAre
  <2> HIDE DEF ps, N
  <2> QED  BY <2>1, <2>2
<1>7. t = Sent(s, ps) /\ ps = Packets(n, m, s.lastMsgSent, s.resetFlag)  OBVIOUS
<1>8. DOMAIN o = Msgs(n)  BY <1>1 DEF SenderOk
<1>9. w[m] # "unsent" /\ \A k \in Msgs(n) : k # m => w[k] = o[k]  BY <1>8
<1> HIDE DEF p, s, o, u, ps, t, w, N
<1>10. t.recvMsgBuf = s.recvMsgBuf  BY <1>1, <1>5, <1>6, <1>7, SentIs
<1>11. \A k \in 1..N : ps[k] \in PacketsOf(n)  BY <1>1, <1>2, <1>6, <1>7, SendOk
<1> DEFINE X == KnownOf(n, w) \cup AckPackets
<1>12. ps \in Seq(X)
  <2>1. \A k \in 1..N : ps[k] \in X  BY <1>6, <1>9, <1>11 DEF KnownOf, SubmittedOf
  <2> HIDE DEF X
  <2>2. ps \in [1..N -> X]  BY <1>6, <2>1
  <2> QED  BY <2>2, <1>5
<1> HIDE DEF X
<1>13. \A k \in Msgs(n) : o[k] # "unsent" => w[k] # "unsent"  BY <1>9
<1>14. KnownSide(p, node[p].recvMsgBuf, Fit(net[p] \o ps), w)
  <2>1. \A k \in Msgs(Peer(p)) : o[k] # "unsent" => w[k] # "unsent"  BY <1>1, <1>13
  <2>2. KnownSide(p, node[p].recvMsgBuf, net[p], w)  BY <2>1, <1>1, KnownStay
  <2>3. ps \in Seq(KnownOf(Peer(p), w) \cup AckPackets)  BY <1>1, <1>12 DEF X
  <2> QED  BY <2>2, <2>3, KnownAdd
<1>15. \A k \in Msgs(n) : k < m => o[k] # "unsent"
  <2> SUFFICES ASSUME NEW k \in Msgs(n), k < m PROVE o[k] # "unsent"
    OBVIOUS
  <2>1. m > 1 /\ m - 1 \in Msgs(n) /\ (k = m - 1 \/ k < m - 1)  BY <1>5
  <2> QED  BY <2>1, <1>1, <1>2 DEF Successive
<1>16. Successive(n, w)
  <2> SUFFICES ASSUME NEW j \in Msgs(n), NEW k \in Msgs(n), w[j] # "unsent", k < j PROVE w[k] # "unsent"
    BY DEF Successive
  <2>1. o[k] # "unsent"
    <3>1. CASE j = m  BY <3>1, <1>15
    <3>2. CASE j # m  BY <3>2, <1>1, <1>9 DEF Successive
    <3> QED  BY <3>1, <3>2
  <2> QED  BY <2>1, <1>13
<1>17. node'[n] = t /\ node'[p] = node[p] /\ outcome'[n] = w /\ outcome'[p] = outcome[p]
  BY <1>1, <1>2, <1>3, OneChanges
<1>18. net'[n] = net[n] /\ net'[p] = Fit(net[p] \o ps)  BY <1>1, <1>4
<1>19. p = Peer(n)  BY DEF p
<1>20. KnownSide(n, node'[n].recvMsgBuf, net[n], outcome[p])  BY <1>1, <1>10, <1>17 DEF u
<1>21. \A k \in Msgs(n) : outcome[n][k] # "unsent" => w[k] # "unsent"  BY <1>13 DEF o
<1>22. KnownInv'  BY <1>14, <1>16, <1>17, <1>18, <1>19, <1>20, <1>21, KnownStep
<1> QED  BY <1>2, <1>15, <1>22 DEF o

LEMMA ResendKnown ==
  ASSUME TransportInv, KnownInv, NEW n \in Nodes, NEW e \in node[n].sentMsgBuf, NEW T,
         node' = [node EXCEPT ![n] = Resent(node[n], e, T)], Send(n, <<e.packet>>), UNCHANGED outcome
  PROVE  KnownInv'
<1> DEFINE p == Peer(n)
           s == node[n]
           o == outcome[n]
           u == outcome[p]
           t == Resent(s, e, T)
           k == e.packet
<1>1. /\ p \in Nodes /\ p # n /\ Peer(p) = n /\ SenderOk(n, s, o) /\ s \in StateOf(n)
      /\ Successive(n, o)
      /\ KnownSide(n, s.recvMsgBuf, net[n], u)
      /\ KnownSide(p, node[p].recvMsgBuf, net[p], o)
      /\ DOMAIN node = Nodes /\ DOMAIN outcome = Nodes /\ DOMAIN net = Nodes
  BY KnownParts
<1>2. node' = [node EXCEPT ![n] = t] /\ Send(n, <<k>>) /\ t = Resent(s, e, T)  OBVIOUS
<1>3. net' = [net EXCEPT ![p] = Fit(net[p] \o <<k>>)]  BY <1>2 DEF Send
<1>4. k \in Waiting(s) /\ k \in PacketsOf(n)  BY <1>1 DEF Waiting, StateOf
<1> HIDE DEF p, s, o, u, t, k
<1>5. t.recvMsgBuf = s.recvMsgBuf  BY <1>1, <1>2, ResentIs
<1>6. k \in KnownOf(n, o)
  <2>1. k.msg \in Msgs(n) /\ o[k.msg] = "pending"  BY <1>1, <1>4, PendingIs DEF SenderOk
  <2> QED  BY <2>1, <1>4 DEF KnownOf, SubmittedOf
<1>7. KnownSide(p, node[p].recvMsgBuf, Fit(net[p] \o <<k>>), o)
  <2> DEFINE ps == <<k>>
             X == KnownOf(Peer(p), o) \cup AckPackets
  <2>1. k \in X  BY <1>1, <1>6
  <2> HIDE DEF X
  <2>2. ps \in Seq(X)  BY <2>1
  <2> HIDE DEF ps
  <2>3. KnownSide(p, node[p].recvMsgBuf, Fit(net[p] \o ps), o)  BY <1>1, <2>2, KnownAdd DEF X
  <2> QED  BY <2>3 DEF ps
<1>8. node'[n] = t /\ node'[p] = node[p] /\ outcome'[n] = o /\ outcome'[p] = outcome[p]
  <2>1. node'[n] = t /\ node'[p] = node[p]  BY <1>1, <1>2, OneChanges
  <2> QED  BY <2>1 DEF o
<1>9. net'[n] = net[n] /\ net'[p] = Fit(net[p] \o <<k>>)  BY <1>1, <1>3
<1>10. KnownSide(n, node'[n].recvMsgBuf, net[n], outcome[p])  BY <1>1, <1>5, <1>8 DEF u
<1>11. p = Peer(n) /\ \A m \in Msgs(n) : outcome[n][m] # "unsent" => o[m] # "unsent"  BY DEF p, o
<1> DEFINE c == Fit(net[p] \o <<k>>)
<1>12. net'[p] = c /\ KnownSide(p, node[p].recvMsgBuf, c, o)  BY <1>7, <1>9
<1> HIDE DEF c
<1> QED  BY <1>1, <1>8, <1>9, <1>10, <1>11, <1>12, KnownStep

(* What Answer leaves of the packets, when those of its peer's that are added are acks. *)
LEMMA AnswerKnown ==
  ASSUME TransportInv, KnownInv, NEW n \in Nodes, net[n] # <<>>, NEW ps \in Seq(AckPackets), Answer(n, ps),
         NEW p, p = Peer(n), NEW w, Successive(n, w), \A m \in Msgs(n) : outcome[n][m] # "unsent" => w[m] # "unsent",
         outcome'[n] = w, outcome'[p] = outcome[p], node'[p] = node[p],
         AllKnown(p, outcome[p], node'[n].recvMsgBuf)
  PROVE  KnownInv'
<1> DEFINE u == outcome[p]
           c == Tail(net[n])
           d == Fit(net[p] \o ps)
<1>1. /\ p \in Nodes /\ p # n /\ Peer(p) = n
      /\ KnownSide(n, node[n].recvMsgBuf, net[n], u)
      /\ KnownSide(p, node[p].recvMsgBuf, net[p], outcome[n])
      /\ DOMAIN net = Nodes
  BY KnownParts
<1>2. net'[n] = c /\ net'[p] = d  BY <1>1 DEF Answer
<1>3. KnownSide(n, node'[n].recvMsgBuf, c, u)
  <2>1. KnownSide(n, node[n].recvMsgBuf, c, u)  BY <1>1, KnownTail
  <2> QED  BY <2>1 DEF KnownSide
<1>4. KnownSide(p, node[p].recvMsgBuf, d, w)
  <2>1. \A k \in Msgs(Peer(p)) : outcome[n][k] # "unsent" => w[k] # "unsent"  BY <1>1
  <2>2. KnownSide(p, node[p].recvMsgBuf, net[p], w)  BY <2>1, <1>1, KnownStay
  <2>3. ps \in Seq(KnownOf(Peer(p), w) \cup AckPackets)
    <3> DEFINE X == AckPackets
               Y == KnownOf(Peer(p), w) \cup AckPackets
    <3>1. X \subseteq Y /\ ps \in Seq(X)  OBVIOUS
    <3> HIDE DEF X, Y
    <3>2. \A i \in 1..Len(ps) : ps[i] \in Y  BY <3>1, ElementOfSeq
    <3> QED  BY <3>1, <3>2, ElementsIn DEF Y
  <2> QED  BY <2>2, <2>3, KnownAdd
<1>5. KnownSide(n, node'[n].recvMsgBuf, c, outcome[p])  BY <1>3
<1> HIDE DEF u, c, d
<1> QED  BY <1>2, <1>4, <1>5, KnownStep

LEMMA DataKnownStep ==
  ASSUME TransportInv, KnownInv, NEW n \in Nodes, DataArrived(n)
  PROVE  KnownInv'
<1> DEFINE p == Peer(n)
           h == Head(net[n])
           S == SubmittedOf(p, outcome[p]) \cup {Mixed}
           w == outcome'[n]
<1>1. /\ net[n] # <<>> /\ h \in PacketsOf(Peer(n)) /\ h.reset \in BOOLEAN
      /\ \/ ResetNode(n, TRUE) /\ net' = [net EXCEPT ![n] = Tail(@)]
         \/ Accepts(n, StateFor(n, h), h)
  BY DataCases
<1>2. CASE ResetNode(n, TRUE) /\ net' = [net EXCEPT ![n] = Tail(@)]  BY <1>1, <1>2, ResetKnown
<1>3. CASE Accepts(n, StateFor(n, h), h)
  <2>1. h = Head(net[n]) /\ p = Peer(n) /\ S = SubmittedOf(p, outcome[p]) \cup {Mixed}  OBVIOUS
  <2> HIDE DEF h, p, S
  <2>2. node'[p] = node[p] /\ AllKnown(p, outcome[p], node'[n].recvMsgBuf)
        /\ \E k \in AckPackets : Answer(n, <<k>>)
    BY <2>1, <1>1, <1>3, DataKnown
  <2>3. PICK k \in AckPackets : Answer(n, <<k>>)  BY <2>2
  <2>4. outcome' = Failed(n) \/ outcome' = outcome  BY <1>3 DEF Accepts
  <2>5. outcome'[p] = outcome[p] /\ \A m \in Msgs(n) : outcome[n][m] # "unsent" <=> w[m] # "unsent"
    <3>1. CASE outcome' = outcome  BY <3>1
    <3>2. CASE outcome' = Failed(n)
      <4>1. /\ outcome'[p] = outcome[p]
            /\ outcome'[n] = [m \in Msgs(n) |-> IF outcome[n][m] = "pending" THEN "fail" ELSE outcome[n][m]]
        BY <3>2, <2>1, FailedIs
      <4> QED  BY <4>1
    <3> QED  BY <2>4, <3>1, <3>2
  <2>6. Successive(n, outcome[n])  BY KnownParts
  <2> DEFINE ps == <<k>>
  <2>7. ps \in Seq(AckPackets) /\ Answer(n, ps) /\ outcome'[n] = w  BY <2>3
  <2> HIDE DEF w, ps
  <2>8. Successive(n, w)  BY <2>5, <2>6, SuccessiveStay
  <2> QED  BY <2>1, <2>2, <2>5, <2>7, <2>8, <1>1, AnswerKnown
<1> QED  BY <1>1, <1>2, <1>3

(* An ack that is accepted: the messages that are reported were pending. *)
LEMMA ReportedIs ==
  ASSUME TransportInv, NEW n \in Nodes, NEW a \in Seqs, AcceptsAck(n, node[n], a), NEW p, p = Peer(n),
         NEW C, C = Completed(n, Acked(node[n], a))
  PROVE  /\ \A m \in C : m \in Msgs(n) /\ outcome[n][m] = "pending"
         /\ outcome'[p] = outcome[p] /\ DOMAIN outcome'[n] = Msgs(n)
         /\ \A m \in Msgs(n) : outcome'[n][m] = IF m \in C THEN "ok" ELSE outcome[n][m]
         /\ outcome' = [outcome EXCEPT ![n] = [m \in Msgs(n) |-> IF m \in C THEN "ok" ELSE outcome[n][m]]]
<1>1. SenderOk(n, node[n], outcome[n]) /\ DOMAIN outcome = Nodes /\ p \in Nodes /\ p # n
  BY Peers DEF TransportInv, SendersInv
<1>2. Acceptable(node[n], a) /\ outcome' = [outcome EXCEPT ![n] = Reported(n, node[n], a)]  BY DEF AcceptsAck
<1> DEFINE w == [m \in Msgs(n) |-> IF m \in Completed(n, Acked(node[n], a)) THEN "ok" ELSE outcome[n][m]]
<1>3. w = [m \in Msgs(n) |-> IF m \in Completed(n, Acked(node[n], a)) THEN "ok" ELSE outcome[n][m]]
      /\ w = Reported(n, node[n], a)
  BY DEF Reported
<1>4. \A m \in Msgs(n) : w[m] = IF m \in C THEN "ok" ELSE outcome[n][m]  OBVIOUS
<1>5. DOMAIN w = Msgs(n) /\ w = [m \in Msgs(n) |-> IF m \in C THEN "ok" ELSE outcome[n][m]]  OBVIOUS
<1> HIDE DEF w
<1>6. \A m \in C : m \in Msgs(n) /\ outcome[n][m] = "pending"  BY <1>1, <1>2, <1>3, AckedOk
<1>7. outcome'[n] = w /\ outcome'[p] = outcome[p]  BY <1>1, <1>2, <1>3
<1> QED  BY <1>2, <1>3, <1>4, <1>5, <1>6, <1>7

LEMMA AckKnownStep ==
  ASSUME TransportInv, KnownInv, NEW n \in Nodes, AckArrived(n)
  PROVE  KnownInv'
<1> DEFINE p == Peer(n)
           s == node[n]
           h == Head(net[n])
           a == h.seq
           ps == <<>>
           w == outcome'[n]
           C == Completed(n, Acked(node[n], a))
<1>1. /\ net[n] # <<>> /\ h \in AckPackets /\ Answer(n, ps)
      /\ ResetNode(n, FALSE) \/ AcceptsAck(n, s, a) \/ UNCHANGED <<node, outcome, delivered, broken>>
  BY AckCases
<1>2. /\ p \in Nodes /\ p # n /\ Peer(p) = n /\ s \in StateOf(n) /\ Successive(n, outcome[n])
      /\ AllKnown(p, outcome[p], s.recvMsgBuf)
      /\ DOMAIN node = Nodes /\ DOMAIN outcome = Nodes
  BY KnownParts DEF KnownSide
<1>3. a \in Seqs  BY <1>1 DEF AckPackets
<1>4. ps \in Seq(AckPackets)  OBVIOUS
<1>5. p = Peer(n) /\ outcome'[n] = w /\ C = Completed(n, Acked(node[n], a))  OBVIOUS
<1> HIDE DEF p, h, a, ps, w, C
<1>6. /\ node'[p] = node[p] /\ AllKnown(p, outcome[p], node'[n].recvMsgBuf)
      /\ outcome'[p] = outcome[p] /\ \A m \in Msgs(n) : outcome[n][m] # "unsent" <=> w[m] # "unsent"
  <2>1. CASE ResetNode(n, FALSE)
    <3>1. node' = [node EXCEPT ![n] = ResetState(FALSE)] /\ outcome' = Failed(n)  BY <2>1 DEF ResetNode
    <3>2. node'[p] = node[p] /\ \A i \in Slots : node'[n].recvMsgBuf[i] = Free
      BY <3>1, <1>2 DEF ResetState, Fresh
    <3>3. /\ outcome'[p] = outcome[p]
          /\ outcome'[n] = [m \in Msgs(n) |-> IF outcome[n][m] = "pending" THEN "fail" ELSE outcome[n][m]]
      BY <3>1, <1>5, FailedIs
    <3>4. \A m \in Msgs(n) : outcome[n][m] # "unsent" <=> w[m] # "unsent"  BY <3>3, <1>5
    <3> QED  BY <3>2, <3>3, <3>4 DEF AllKnown
  <2>2. CASE AcceptsAck(n, s, a)
    <3> DEFINE t == AckedState(s, a)
    <3>1. node' = [node EXCEPT ![n] = t] /\ t = AckedState(s, a)  BY <2>2 DEF AcceptsAck
    <3> HIDE DEF t
    <3>2. t.recvMsgBuf = s.recvMsgBuf  BY <3>1, <1>2, AckedIs
    <3>3. node'[n] = t /\ node'[p] = node[p]  BY <3>1, <1>2, OneChanges
    <3>4. /\ \A m \in C : m \in Msgs(n) /\ outcome[n][m] = "pending"
          /\ outcome'[p] = outcome[p]
          /\ \A m \in Msgs(n) : w[m] = IF m \in C THEN "ok" ELSE outcome[n][m]
      BY <2>2, <1>3, <1>5, ReportedIs
    <3>5. \A m \in Msgs(n) : outcome[n][m] # "unsent" <=> w[m] # "unsent"  BY <3>4
    <3> QED  BY <3>2, <3>3, <3>4, <3>5, <1>2
  <2>3. CASE UNCHANGED <<node, outcome, delivered, broken>>  BY <2>3, <1>2, <1>5
  <2> QED  BY <1>1, <2>1, <2>2, <2>3
<1>7. Successive(n, w)  BY <1>2, <1>6, SuccessiveStay
<1> QED  BY <1>1, <1>4, <1>5, <1>6, <1>7, AnswerKnown

LEMMA KnownNext ==
  ASSUME TransportInv, KnownInv, [Next]_vars
  PROVE  KnownInv'
<1>1. CASE UNCHANGED vars  BY <1>1 DEF vars, KnownInv
<1>2. ASSUME NEW n \in Nodes, NEW x \in Seqs, MsgTimerFired(n, x) PROVE KnownInv'
  <2>1. CASE ResetNode(n, TRUE) /\ UNCHANGED net  BY <2>1, ResetKnown
  <2>2. CASE \E e \in node[n].sentMsgBuf :
               /\ node' = [node EXCEPT ![n] = Resent(node[n], e, node[n].timers \cup {e.packet.seq})]
               /\ Send(n, <<e.packet>>) /\ UNCHANGED outcome
    BY <2>2, ResendKnown
  <2> QED  BY <1>2, <2>1, <2>2, TimerCases
<1>3. ASSUME NEW n \in Nodes, KeepAliveExpired(n) PROVE KnownInv'
  <2>1. ResetNode(n, TRUE) /\ net' = net  BY <1>3 DEF KeepAliveExpired
  <2> QED  BY <2>1, ResetKnown
<1>4. ASSUME NEW n \in Nodes, Lose(n) PROVE KnownInv'
  <2>1. net[n] # <<>> /\ net' = [net EXCEPT ![n] = Tail(@)] /\ node' = node /\ outcome' = outcome
    BY <1>4 DEF Lose
  <2>2. ASSUME NEW m \in Nodes
        PROVE  Successive(m, outcome'[m]) /\ KnownSide(m, node'[m].recvMsgBuf, net'[m], outcome'[Peer(m)])
    <3> DEFINE b == node[m].recvMsgBuf
               c == net[m]
               u == outcome[Peer(m)]
    <3>1. DOMAIN net = Nodes  BY DEF TransportInv, NetInv
    <3>2. net'[m] = c \/ (c # <<>> /\ net'[m] = Tail(c))  BY <2>1, <3>1
    <3>3. Successive(m, outcome[m]) /\ KnownSide(m, b, c, u)  BY DEF KnownInv
    <3> HIDE DEF b, c, u
    <3>4. KnownSide(m, b, net'[m], u)  BY <3>2, <3>3, KnownTail
    <3> QED  BY <2>1, <3>3, <3>4 DEF b, u
  <2> QED  BY <2>2 DEF KnownInv
<1>5. CASE Next
  BY <1>2, <1>3, <1>4, <1>5, SendKnown, DataKnownStep, AckKnownStep DEF Next
<1> QED  BY <1>1, <1>5

LEMMA KnownInit == Init => KnownInv
<1> SUFFICES ASSUME Init, NEW n \in Nodes
             PROVE  Successive(n, outcome[n]) /\ KnownSide(n, node[n].recvMsgBuf, net[n], outcome[Peer(n)])
  BY DEF KnownInv
<1>1. Successive(n, outcome[n])  BY DEF Init, Successive
<1>2. \A i \in Slots : node[n].recvMsgBuf[i] = Free  BY DEF Init, Fresh
<1>3. net[n] = <<>> /\ <<>> \in Seq(KnownOf(Peer(n), outcome[Peer(n)]) \cup AckPackets)  BY DEF Init
<1> QED  BY <1>1, <1>2, <1>3 DEF KnownSide, AllKnown

-----------------------------------------------------------------------------
(* The steps of the link. *)

(* The two parts of a sequence. *)
LEMMA PartsAre ==
  ASSUME NEW M, NEW z \in Seq(M), NEW k \in Nat, NEW l \in Nat, Len(z) = k + l
  PROVE  /\ SubSeq(z, 1, k) \in Seq(M) /\ Len(SubSeq(z, 1, k)) = k
         /\ \A i \in 1..k : SubSeq(z, 1, k)[i] = z[i]
         /\ SubSeq(z, k + 1, k + l) \in Seq(M) /\ Len(SubSeq(z, k + 1, k + l)) = l
         /\ \A i \in 1..l : SubSeq(z, k + 1, k + l)[i] = z[k + i]
<1>1. \A i \in 1..k+l : z[i] \in M  OBVIOUS
<1>2. \A i \in 1..k : z[i] \in M  BY <1>1
<1>3. SubSeq(z, 1, k) \in Seq(M) /\ Len(SubSeq(z, 1, k)) = (IF 1 <= k THEN k - 1 + 1 ELSE 0)
      /\ \A i \in 1..k - 1 + 1 : SubSeq(z, 1, k)[i] = z[1 + i - 1]
  BY <1>2, SubSeqProperties
<1>4. Len(SubSeq(z, 1, k)) = k /\ \A i \in 1..k : SubSeq(z, 1, k)[i] = z[i]
  <2>1. (IF 1 <= k THEN k - 1 + 1 ELSE 0) = k /\ k - 1 + 1 = k  OBVIOUS
  <2>2. \A i \in 1..k : i \in 1..k - 1 + 1 /\ 1 + i - 1 = i  OBVIOUS
  <2> QED  BY <1>3, <2>1, <2>2
<1> DEFINE a == k + 1
           b == k + l
<1>5. a \in Int /\ b \in Int /\ \A i \in a..b : z[i] \in M
  <2>1. \A i \in a..b : i \in 1..k+l  OBVIOUS
  <2> QED  BY <1>1, <2>1
<1>6. a = k + 1 /\ b = k + l  OBVIOUS
<1> HIDE DEF a, b
<1>7. SubSeq(z, a, b) \in Seq(M) /\ Len(SubSeq(z, a, b)) = (IF a <= b THEN b - a + 1 ELSE 0)
      /\ \A i \in 1..b - a + 1 : SubSeq(z, a, b)[i] = z[a + i - 1]
  BY <1>5, SubSeqProperties
<1>8. Len(SubSeq(z, a, b)) = l /\ \A i \in 1..l : SubSeq(z, a, b)[i] = z[k + i]
  <2>1. (IF a <= b THEN b - a + 1 ELSE 0) = l  BY <1>6
  <2>2. \A i \in 1..l : i \in 1..b - a + 1 /\ a + i - 1 = k + i  BY <1>6
  <2> QED  BY <1>7, <2>1, <2>2
<1> QED  BY <1>3, <1>4, <1>6, <1>7, <1>8

(* What is handed over in a step is what is new. *)
LEMMA NewPart ==
  ASSUME NEW M, NEW ds \in Seq(M), NEW up \in Seq(M), NEW all, all = ds \o up
  PROVE  /\ all \in Seq(M) /\ Len(all) = Len(ds) + Len(up) /\ Len(ds) \in Nat /\ Len(up) \in Nat
         /\ SubSeq(all, 1, Len(ds)) = ds
         /\ SubSeq(all, Len(ds) + 1, Len(all)) = up
<1> DEFINE k == Len(ds)
           l == Len(up)
           a == SubSeq(all, 1, k)
           b == SubSeq(all, k + 1, k + l)
<1>1. all \in Seq(M) /\ Len(all) = k + l /\ \A i \in 1..k+l : all[i] = IF i <= k THEN ds[i] ELSE up[i - k]
  BY ConcatProperties
<1>2. k \in Nat /\ l \in Nat /\ Len(ds) = k /\ Len(up) = l  OBVIOUS
<1> HIDE DEF k, l
<1>3. /\ a \in Seq(M) /\ Len(a) = k /\ \A i \in 1..k : a[i] = all[i]
      /\ b \in Seq(M) /\ Len(b) = l /\ \A i \in 1..l : b[i] = all[k + i]
  BY <1>1, <1>2, PartsAre
<1> HIDE DEF a, b
<1>4. \A i \in 1..k : a[i] = ds[i]
  <2>1. \A i \in 1..k : i \in 1..k+l /\ i <= k  BY <1>2
  <2>2. \A i \in 1..k : all[i] = ds[i]  BY <1>1, <2>1
  <2> QED  BY <1>3, <2>2
<1>5. \A i \in 1..l : b[i] = up[i]
  <2>1. \A i \in 1..l : k + i \in 1..k+l /\ ~(k + i <= k) /\ k + i - k = i  BY <1>2
  <2>2. ASSUME NEW i \in 1..l PROVE all[k + i] = up[i]
    <3> DEFINE j == k + i
    <3>1. j \in 1..k+l /\ ~(j <= k) /\ j - k = i  BY <1>2
    <3> HIDE DEF j
    <3>2. all[j] = up[j - k]  BY <1>1, <3>1
    <3> QED  BY <3>1, <3>2 DEF j
  <2> QED  BY <1>3, <2>2
<1>6. a = ds  BY <1>2, <1>3, <1>4, SeqEqual
<1>7. b = up  BY <1>2, <1>3, <1>5, SeqEqual
<1> QED  BY <1>1, <1>2, <1>6, <1>7 DEF a, b

(* How the steps of the transport are steps of the link. *)
LEMMA LinkStutter ==
  ASSUME UNCHANGED <<outcome, delivered>>, Orderly' <=> Orderly
  PROVE  UNCHANGED Link!vars
<1>1. (~Orderly') = (~Orderly)  OBVIOUS
<1> QED  BY <1>1 DEF Link!vars

LEMMA LinkSubmit ==
  ASSUME NEW n \in Nodes, NEW m \in Msgs(n), outcome[n][m] = "unsent",
         \A k \in Msgs(n) : k < m => outcome[n][k] # "unsent",
         outcome' = [outcome EXCEPT ![n][m] = "pending"], UNCHANGED delivered, Orderly' => Orderly
  PROVE  Link!Next
<1>1. \A k \in 1..m-1 : k \in Msgs(n) /\ k < m  BY MessagesOf
<1>2. \A k \in 1..m-1 : outcome[n][k] # "unsent"  BY <1>1
<1>3. m \in [x \in Nodes |-> Msgs(x)][n]  OBVIOUS
<1>4. Link!Submit(n, m)  BY <1>2 DEF Link!Submit
<1> QED  BY <1>3, <1>4 DEF Link!Next

(* ms are messages of n's peer p, submitted or, after a reset, put together from two. *)
LEMMA LinkExtends ==
  ASSUME NEW n \in Nodes, NEW p, p = Peer(n), NEW S, NEW T, delivered[n] \in Seq(T), S \subseteq T,
         DOMAIN delivered = Nodes,
         NEW up \in Seq(S), delivered' = [delivered EXCEPT ![n] = @ \o up]
  PROVE  /\ Link!Extends(n) /\ Link!HandedOver(n) = up /\ delivered'[n] = delivered[n] \o up
         /\ \A i \in DOMAIN Link!HandedOver(n) : Link!HandedOver(n)[i] \in S
<1> DEFINE ds == delivered[n]
           all == delivered'[n]
<1>1. all = ds \o up /\ \A m \in Nodes : m # n => delivered'[m] = delivered[m]  OBVIOUS
<1>2. up \in Seq(T) /\ DOMAIN up = 1..Len(up) /\ \A i \in 1..Len(up) : up[i] \in S
  <2>1. \A i \in 1..Len(up) : up[i] \in S  BY ElementOfSeq
  <2>2. \A i \in 1..Len(up) : up[i] \in T  BY <2>1
  <2> QED  BY <2>1, <2>2, ElementsIn
<1>3. /\ Len(all) = Len(ds) + Len(up) /\ Len(ds) \in Nat /\ Len(up) \in Nat
      /\ SubSeq(all, 1, Len(ds)) = ds /\ SubSeq(all, Len(ds) + 1, Len(all)) = up
  <2>1. ds \in Seq(T) /\ up \in Seq(T) /\ all = ds \o up  BY <1>1, <1>2
  <2> HIDE DEF ds, all
  <2> QED  BY <2>1, NewPart
<1>4. Len(all) >= Len(ds)
  <2> HIDE DEF ds, all
  <2> QED  BY <1>3
<1>5. Link!Extends(n)  BY <1>1, <1>3, <1>4 DEF Link!Extends
<1>6. Link!HandedOver(n) = up  BY <1>3 DEF Link!HandedOver
<1> QED  BY <1>1, <1>2, <1>5, <1>6

LEMMA LinkDeliver ==
  ASSUME NEW n \in Nodes, NEW p, p = Peer(n), UNCHANGED outcome, Orderly, Orderly',
         Link!Extends(n), NEW up, Link!HandedOver(n) = up,
         \A i \in DOMAIN up : up[i] \in SubmittedOf(p, outcome[p]),
         Link!Continues(p, delivered[n], up)
  PROVE  Link!Next
<1>1. p \in Nodes /\ Link!Sender(n) = p  BY Peers DEF Link!Sender, Peer
<1>2. Link!Submitted(p) = SubmittedOf(p, outcome[p])  BY <1>1 DEF Link!Submitted, SubmittedOf
<1>3. UNCHANGED <<outcome, ~Orderly>>
  <2>1. (~Orderly') = (~Orderly)  OBVIOUS
  <2> QED  BY <2>1
<1>4. Link!Deliver(n)  BY <1>1, <1>2, <1>3 DEF Link!Deliver
<1> QED  BY <1>4 DEF Link!Next

LEMMA LinkReport ==
  ASSUME NEW n \in Nodes, NEW M, NEW r, NEW C, \A m \in Msgs(n) : m \in M <=> m \in C,
         outcome' = [outcome EXCEPT ![n] = [m \in Msgs(n) |-> IF m \in C THEN r ELSE outcome[n][m]]]
  PROVE  Link!Report(n, M, r)
<1>1. [m \in Msgs(n) |-> IF m \in C THEN r ELSE outcome[n][m]]
        = [m \in [x \in Nodes |-> Msgs(x)][n] |-> IF m \in M THEN r ELSE outcome[n][m]]
  OBVIOUS
<1> QED  BY <1>1 DEF Link!Report

LEMMA LinkSucceed ==
  ASSUME NEW n \in Nodes, NEW p, p = Peer(n), NEW C, UNCHANGED delivered, Orderly' <=> Orderly,
         \A m \in C : m \in Msgs(n) /\ outcome[n][m] = "pending",
         \A m \in Msgs(n) : outcome'[n][m] = IF m \in C THEN "ok" ELSE outcome[n][m],
         outcome' = [outcome EXCEPT ![n] = [m \in Msgs(n) |-> IF m \in C THEN "ok" ELSE outcome[n][m]]],
         Orderly => \A m \in C : Multi(n, m) \/ \E i \in DOMAIN delivered[p] : delivered[p][i] = m
  PROVE  Link!Next
<1> DEFINE M == {m \in Link!Pending(n) : outcome'[n][m] # "pending"}
<1>1. Link!Sender(n) = p  BY DEF Link!Sender, Peer
<1>2. M \subseteq Msgs(n) /\ \A m \in Msgs(n) : m \in M <=> m \in C  BY DEF Link!Pending
<1>3. UNCHANGED <<delivered, ~Orderly>>
  <2>1. (~Orderly') = (~Orderly)  OBVIOUS
  <2> QED  BY <2>1
<1>4. Link!Report(n, M, "ok")  BY <1>2, LinkReport
<1>5. ASSUME Orderly, NEW m \in M, ~Multi(n, m)
      PROVE  \E i \in DOMAIN delivered[p] : delivered[p][i] = m
  BY <1>2, <1>5
<1>6. Link!Succeed(n)
  <2>1. ~(~Orderly) => \A m \in M \ {k \in Msgs(n) : Multi(n, k)} :
                         \E i \in DOMAIN delivered[p] : delivered[p][i] = m
    <3> HIDE DEF M
    <3> QED  BY <1>2, <1>5
  <2> QED  BY <1>1, <1>3, <1>4, <2>1 DEF Link!Succeed
<1> QED  BY <1>6 DEF Link!Next

(* A reset: every pending message has failed. *)
LEMMA LinkFailed ==
  ASSUME TransportInv, NEW n \in Nodes, outcome' = Failed(n)
  PROVE  Link!Report(n, Link!Pending(n), "fail")
<1> DEFINE C == InFlight(node[n])
<1>1. \A m \in Msgs(n) : m \in C <=> outcome[n][m] = "pending"  BY InFlightIs DEF TransportInv, SendersInv
<1>2. \A m \in Msgs(n) : m \in Link!Pending(n) <=> m \in C  BY <1>1 DEF Link!Pending
<1>3. outcome' = [outcome EXCEPT ![n] = [m \in Msgs(n) |-> IF m \in C THEN "fail" ELSE outcome[n][m]]]
  BY DEF Failed
<1> HIDE DEF C
<1> QED  BY <1>2, <1>3, LinkReport

LEMMA LinkBreak ==
  ASSUME TransportInv, NEW n \in Nodes, NEW flag, ResetNode(n, flag)
  PROVE  Link!Next
<1>1. Link!Report(n, Link!Pending(n), "fail") /\ UNCHANGED delivered  BY LinkFailed DEF ResetNode
<1>2. (~Orderly') = TRUE  BY DEF ResetNode, Orderly
<1>3. Link!Break(n)  BY <1>1, <1>2 DEF Link!Break
<1> QED  BY <1>3 DEF Link!Next

LEMMA LinkDeliverBroken ==
  ASSUME NEW n \in Nodes, NEW p, p = Peer(n), ~Orderly, ~Orderly', Link!Extends(n),
         \A i \in DOMAIN Link!HandedOver(n) : Link!HandedOver(n)[i] \in SubmittedOf(p, outcome[p]) \cup {Mixed},
         UNCHANGED outcome \/ Link!Report(n, Link!Pending(n), "fail")
  PROVE  Link!Next
<1>1. p \in Nodes /\ Link!Sender(n) = p  BY Peers DEF Link!Sender, Peer
<1>2. Link!Submitted(p) \cup {0} = SubmittedOf(p, outcome[p]) \cup {Mixed}
  BY <1>1 DEF Link!Submitted, SubmittedOf, Mixed
<1>3. Link!DeliverBroken(n)  BY <1>1, <1>2 DEF Link!DeliverBroken
<1> QED  BY <1>3 DEF Link!Next

-----------------------------------------------------------------------------
(* What is handed over goes on where the messages handed over so far stop. *)
LEMMA HandedFollows ==
  ASSUME NEW p \in Nodes, NEW r \in Nat, NEW buf, NEW ds, Handed(p, r, buf, ds), NEW i \in 1..Len(ds),
         NEW before, before = IF i = 1 THEN 0 ELSE ds[i - 1]
  PROVE  before < ds[i] /\ \A k \in before+1..ds[i]-1 : k \in Msgs(p) /\ Multi(p, k)
<1> DEFINE L == LastNumber(p)
           K == Len(Fragments[p])
           F == Fragments[p]
           e == ds[i]
<1>1. /\ ds \in Seq(Msgs(p)) /\ Len(ds) \in Nat
      /\ \A j, k \in 1..Len(ds) : j < k => ds[j] < ds[k]
      /\ \A m \in Msgs(p) : F[m] = 1 /\ L[m] <= r => \E j \in 1..Len(ds) : ds[j] = m
  BY DEF Handed
<1>2. PICK f \in 0..F[e]-1 : L[e - 1] + f + 1 <= r  BY DEF Handed
<1>3. K \in Nat /\ Msgs(p) = 1..K /\ (\A m \in 0..K : L[m] \in Nat)
  BY LastNumberIs
<1>4. \A m \in Msgs(p) : F[m] \in Nat /\ F[m] >= 1  BY MessagesOf
<1>5. e \in Msgs(p) /\ \A j \in 1..Len(ds) : ds[j] \in Msgs(p)  BY <1>1, ElementOfSeq
<1>6. \A k \in 0..K : k <= e - 1 => L[k] <= L[e - 1]
  <2>1. e - 1 \in 0..K  BY <1>3, <1>5
  <2> QED  BY <2>1, LastNumberGrows
<1> HIDE DEF L, K, F
<1>7. before \in Nat /\ before < e
  <2>1. CASE i = 1  BY <2>1, <1>3, <1>5 DEF e
  <2>2. CASE i # 1
    <3>1. i - 1 \in 1..Len(ds) /\ i - 1 < i  BY <2>2, <1>1
    <3>2. ds[i - 1] < ds[i] /\ ds[i - 1] \in Msgs(p)  BY <3>1, <1>1, <1>5
    <3> QED  BY <3>2, <2>2, <1>3
  <2> QED  BY <2>1, <2>2
<1>8. ASSUME NEW k \in before+1..e-1 PROVE k \in Msgs(p) /\ Multi(p, k)
  <2>1. k \in 1..K /\ k <= e - 1 /\ before < k /\ k < e  BY <1>3, <1>5, <1>7, <1>8
  <2>2. ASSUME F[k] = 1 PROVE FALSE
    <3>1. L[k] <= r
      <4>1. L[k] <= L[e - 1] /\ L[k] \in Nat /\ L[e - 1] \in Nat
        <5>1. k \in 0..K /\ e - 1 \in 0..K  BY <2>1, <1>3, <1>5
        <5> QED  BY <5>1, <2>1, <1>3, <1>6
      <4>2. f \in Nat
        <5>1. F[e] \in Nat  BY <1>4, <1>5
        <5> QED  BY <5>1, <1>2
      <4> HIDE DEF e
      <4> QED  BY <4>1, <4>2, <1>2
    <3>2. PICK j \in 1..Len(ds) : ds[j] = k  BY <2>1, <2>2, <3>1, <1>1, <1>3
    <3>3. ~(i < j) /\ j # i
      <4>1. i < j => ds[i] < ds[j]  BY <1>1
      <4> QED  BY <4>1, <3>2, <2>1, <1>3, <1>5
    <3>4. i # 1 /\ i - 1 \in 1..Len(ds) /\ (j = i - 1 \/ j < i - 1)  BY <3>3, <1>1
    <3>5. j < i - 1 => ds[j] < ds[i - 1]  BY <3>4, <1>1
    <3>6. before = ds[i - 1]  BY <3>4
    <3>7. ds[j] < k \/ ds[j] = before
      <4>1. ds[i - 1] = before /\ ds[j] \in Int  BY <3>2, <3>6, <2>1
      <4>2. j < i - 1 => ds[j] < before  BY <3>5, <4>1
      <4> QED  BY <4>1, <4>2, <3>4, <2>1, <1>7
    <3> QED  BY <3>2, <3>7, <2>1, <1>7
  <2>3. F[k] # 1 /\ F[k] \in Nat /\ F[k] >= 1  BY <2>1, <2>2, <1>3, <1>4
  <2> QED  BY <2>1, <2>3, <1>3 DEF Multi, F
<1> QED  BY <1>7, <1>8 DEF e

LEMMA LinkContinues ==
  ASSUME NEW p \in Nodes, NEW r \in Nat, NEW buf, NEW ds, NEW up, NEW all, all = ds \o up, Handed(p, r, buf, all),
         Len(ds) \in Nat
  PROVE  Link!Continues(p, ds, up)
<1> DEFINE before(i) == IF i = 1 THEN 0 ELSE all[i - 1]
<1>1. ASSUME NEW i \in Len(ds)+1..Len(all)
      PROVE  before(i) < all[i] /\ \A k \in before(i)+1..all[i]-1 : k \in Msgs(p) /\ Multi(p, k)
  <2>1. Len(all) \in Nat  BY DEF Handed
  <2>2. i \in 1..Len(all)  BY <2>1
  <2> QED  BY <2>2, HandedFollows
<1>2. \A i \in Len(ds)+1..Len(ds \o up) :
        LET b == IF i = 1 THEN 0 ELSE (ds \o up)[i - 1]
        IN  b < (ds \o up)[i] /\ b+1..(ds \o up)[i]-1 \subseteq [n \in Nodes |-> {m \in Msgs(n) : Multi(n, m)}][p]
  BY <1>1
<1> QED  BY <1>2 DEF Link!Continues

-----------------------------------------------------------------------------
(* The invariant: what is kept of the packets, and, as long as the link keeps its promise, the order *)
(* and the messages handed over, counted from the number q the nodes started from.                   *)
LinkInv == TransportInv /\ KnownInv /\ (Orderly => \E q \in StartSeqs : OrderInv(q) /\ HandedInv(q))

LEMMA LinkInit == Init => LinkInv
<1> SUFFICES ASSUME Init PROVE \E q \in StartSeqs : OrderInv(q) /\ HandedInv(q)
  BY InitInv, KnownInit DEF LinkInv
<1>1. PICK q \in StartSeqs : node = [n \in Nodes |-> Fresh(q)]  BY DEF Init
<1>2. q \in Seqs  BY StartAssumption DEF Seqs
<1> QED  BY <1>1, <1>2, OrderFirst, HandedFirst

LEMMA LinkNext ==
  ASSUME LinkInv, [Next]_vars
  PROVE  LinkInv'
<1>1. TransportInv /\ KnownInv  BY DEF LinkInv
<1>2. TransportInv' /\ KnownInv'  BY <1>1, StepInv, KnownNext
<1>3. ASSUME Orderly' PROVE \E q \in StartSeqs : OrderInv(q)' /\ HandedInv(q)'
  <2>1. Orderly  BY <1>1, <1>3, StillOrderly
  <2>2. PICK q \in StartSeqs : OrderInv(q) /\ HandedInv(q)  BY <2>1 DEF LinkInv
  <2>3. q \in Seqs  BY StartAssumption DEF Seqs
  <2>4. ~broken'  BY <1>3 DEF Orderly
  <2>5. OrderInv(q)'  BY <1>1, <1>3, <2>2, <2>3, OrderStays
  <2>6. HandedInv(q)'  BY <1>1, <2>2, <2>3, <2>4, HandedStep
  <2> QED  BY <2>5, <2>6
<1> QED  BY <1>2, <1>3 DEF LinkInv

(* The promise stays in force while no node resets and no message is submitted. *)
LEMMA OrderlyStay ==
  ASSUME UNCHANGED broken, \A n \in Nodes : \A m \in Msgs(n) : outcome[n][m] # "unsent" <=> outcome'[n][m] # "unsent"
  PROVE  Orderly' <=> Orderly
<1>1. \A n \in Nodes : \A m \in Msgs(n) :
        (outcome'[n][m] # "unsent" => LastNumber(n)[m] < SeqMod) <=> (outcome[n][m] # "unsent" => LastNumber(n)[m] < SeqMod)
  OBVIOUS
<1>2. Unwrapped' <=> \A n \in Nodes : \A m \in Msgs(n) : outcome'[n][m] # "unsent" => LastNumber(n)[m] < SeqMod
  BY DEF Unwrapped, LastNumber
<1>3. Unwrapped <=> \A n \in Nodes : \A m \in Msgs(n) : outcome[n][m] # "unsent" => LastNumber(n)[m] < SeqMod
  BY DEF Unwrapped
<1>4. Unwrapped' <=> Unwrapped  BY <1>1, <1>2, <1>3
<1> QED  BY <1>4 DEF Orderly

(* Data arrives. *)
LEMMA LinkData ==
  ASSUME LinkInv, [Next]_vars, NEW n \in Nodes, DataArrived(n)
  PROVE  Link!Next
<1> DEFINE p == Peer(n)
           h == Head(net[n])
           S == SubmittedOf(p, outcome[p]) \cup {Mixed}
           T == Msgs(p) \cup {Mixed}
<1>1. TransportInv /\ KnownInv  BY DEF LinkInv
<1>2. /\ net[n] # <<>> /\ h \in PacketsOf(Peer(n)) /\ h.reset \in BOOLEAN
      /\ ResetNode(n, TRUE) \/ Accepts(n, StateFor(n, h), h)
  BY <1>1, DataCases
<1>3. CASE ResetNode(n, TRUE)  BY <1>1, <1>3, LinkBreak
<1>4. CASE Accepts(n, StateFor(n, h), h)
  <2>1. h = Head(net[n]) /\ p = Peer(n) /\ S = SubmittedOf(p, outcome[p]) \cup {Mixed} /\ S \subseteq T
    BY DEF SubmittedOf
  <2>2. delivered[n] \in Seq(T) /\ DOMAIN delivered = Nodes  BY <1>1 DEF TransportInv, UsersInv
  <2>3. /\ broken' = (broken \/ h.reset)
        /\ outcome' = IF h.reset THEN Failed(n) ELSE outcome
    BY <1>4 DEF Accepts
  <2>4. p \in Nodes  BY Peers
  <2> HIDE DEF h, p, S, T
  <2>5. PICK up \in Seq(S) : delivered' = [delivered EXCEPT ![n] = @ \o up]
    <3>1. h \in PacketsOf(Peer(n)) /\ h.reset \in BOOLEAN /\ net[n] # <<>>  BY <1>2
    <3> QED  BY <1>1, <1>4, <2>1, <3>1, DataKnown
  <2>6. /\ Link!Extends(n) /\ Link!HandedOver(n) = up /\ delivered'[n] = delivered[n] \o up
        /\ \A i \in DOMAIN Link!HandedOver(n) : Link!HandedOver(n)[i] \in S
    BY <2>1, <2>2, <2>5, LinkExtends
  <2>7. CASE Orderly'
    <3>1. Orderly  BY <1>1, <2>7, StillOrderly
    <3>2. PICK q \in StartSeqs : OrderInv(q) /\ HandedInv(q)  BY <3>1 DEF LinkInv
    <3>3. q \in Seqs /\ ~broken'  BY <2>7, StartAssumption DEF Seqs, Orderly
    <3>4. HandedInv(q)' /\ UNCHANGED outcome  BY <1>1, <3>2, <3>3, DataHanded
    <3> DEFINE r == Dist(q, node'[n].lastAckSent)
               buf == node'[n].fragmMsgBuf
               all == delivered'[n]
    <3>5. Handed(p, r, buf, all)  BY <3>4, <2>1 DEF HandedInv
    <3>6. r \in Nat
      <4>1. TransportInv'  BY <1>1, StepInv
      <4>2. node'[n].lastAckSent \in Seqs  BY <4>1 DEF TransportInv, SendersInv, SenderOk, StateOf
      <4> QED  BY <4>2, <3>3, NumberOk
    <3>7. all = delivered[n] \o up /\ Len(delivered[n]) \in Nat  BY <2>2, <2>6
    <3> HIDE DEF r, buf, all
    <3>8. Link!Continues(p, delivered[n], up)  BY <2>4, <3>5, <3>6, <3>7, LinkContinues
    <3>9. \A i \in DOMAIN up : up[i] \in SubmittedOf(p, outcome[p])
      <4> SUFFICES ASSUME NEW i \in DOMAIN up PROVE up[i] # Mixed
        BY <2>1, <2>6
      <4>1. all \in Seq(Msgs(p))  BY <3>5 DEF Handed
      <4>2. i \in 1..Len(up) /\ Len(up) \in Nat  OBVIOUS
      <4> DEFINE j == Len(delivered[n]) + i
      <4>3. j \in 1..Len(all) /\ all[j] = up[i]
        <5>1. Len(all) = Len(delivered[n]) + Len(up)
              /\ \A k \in 1..Len(delivered[n]) + Len(up) :
                   all[k] = IF k <= Len(delivered[n]) THEN delivered[n][k] ELSE up[k - Len(delivered[n])]
          <6>1. delivered[n] \in Seq(T) /\ up \in Seq(S)  BY <2>2
          <6> QED  BY <6>1, <3>7, ConcatProperties
        <5> QED  BY <5>1, <4>2, <3>7
      <4>4. up[i] \in Msgs(p)  BY <4>1, <4>3, ElementOfSeq
      <4> QED  BY <4>4, <2>4, MessagesOf DEF Mixed
    <3> QED  BY <2>1, <2>6, <2>7, <3>1, <3>4, <3>8, <3>9, LinkDeliver
  <2>8. CASE ~Orderly' /\ ~Orderly
    <3>1. UNCHANGED outcome \/ Link!Report(n, Link!Pending(n), "fail")  BY <1>1, <2>3, LinkFailed
    <3> QED  BY <2>1, <2>6, <2>8, <3>1, LinkDeliverBroken
  <2>9. CASE ~Orderly' /\ Orderly
    <3>1. PICK q \in StartSeqs : OrderInv(q) /\ HandedInv(q)  BY <2>9 DEF LinkInv
    <3>2. q \in Seqs  BY StartAssumption DEF Seqs
    <3>3. ~h.reset
      <4>1. Side(q, n, node[n], node[p], net[n], outcome[n], outcome[p])  BY <3>1, <2>1 DEF OrderInv
      <4>2. h \in DataTo(q, n, node[n], outcome[p]) \cup AcksTo(q, node[n], node[p])  BY <4>1, <1>2, <2>1, TailSide
      <4> QED  BY <4>2 DEF DataTo, NamedOf, AcksTo
    <3>4. broken' = broken /\ outcome' = outcome
      <4>1. broken \in BOOLEAN  BY <1>1 DEF TransportInv
      <4>2. broken' = broken  BY <2>3, <3>3, <4>1, <1>2
      <4> QED  BY <2>3, <3>3, <4>2
    <3> QED  BY <2>9, <3>4, OrderlyStay
  <2> QED  BY <2>7, <2>8, <2>9
<1> QED  BY <1>2, <1>3, <1>4

(* An ack a takes the packets up to it from the window. *)
LEMMA AckedFirst ==
  ASSUME NEW la \in Seqs, NEW lm \in Seqs, NEW P, NEW T, WindowInv(la, lm, P, T),
         NEW a \in Seqs, a # la, Dist(la, a) <= Dist(la, lm)
  PROVE  \A x \in P : Dist(x.seq, a) < Window => Dist(la, x.seq) <= Dist(la, a)
<1> SUFFICES ASSUME NEW x \in P, Dist(x.seq, a) < Window  PROVE Dist(la, x.seq) <= Dist(la, a)
  OBVIOUS
<1> DEFINE D == Dist(la, lm)
           b == Dist(la, a)
           off == Dist(la, x.seq)
           back == Dist(x.seq, a)
<1>1. D \in Nat /\ D <= Window /\ b \in Nat /\ b <= D  BY DistIs DEF Seqs, WindowInv
<1>2. x.seq \in Seqs /\ off \in 1..D  BY DEF WindowInv
<1>3. back = IF off <= b THEN b - off ELSE b - off + SeqMod  BY <1>2, DistDist
<1>4. back < Window  OBVIOUS
<1> HIDE DEF D, b, off, back
<1>5. off <= b  BY <1>1, <1>2, <1>3, <1>4, Constants
<1> QED  BY <1>5 DEF off, b

(* An acceptable ack a for n, in state s: the packets it takes from the window are those up to it. *)
LEMMA AckedUpTo ==
  ASSUME NEW n \in Nodes, NEW q \in Seqs, NEW s, NEW o, NEW r, SenderOk(n, s, o), SendSide(q, n, s, r, o),
         NEW a \in Seqs, Acceptable(s, a), Dist(q, s.lastAckReceived) <= Dist(q, a), r.lastAckSent \in Seqs,
         NEW x \in Waiting(s), Dist(x.seq, a) < Window
  PROVE  Dist(q, x.seq) <= Dist(q, a) /\ x \in NamedOf(q, n, o)
<1> DEFINE la == s.lastAckReceived
           lm == s.lastMsgSent
           P == Waiting(s)
           T == s.timers
<1>1. la \in Seqs /\ lm \in Seqs /\ WindowInv(la, lm, P, T)  BY DEF SenderOk, StateOf
<1>2. a # la /\ Dist(la, a) <= Dist(la, lm)  BY DEF Acceptable
<1>3. x \in P  OBVIOUS
<1> HIDE DEF la, lm, P, T
<1>4. Dist(la, x.seq) <= Dist(la, a)  BY <1>1, <1>2, <1>3, AckedFirst
<1>5. /\ Counted(q, n, s, o) /\ Waiting(s) \subseteq NamedOf(q, n, o)
      /\ Dist(q, s.lastAckReceived) <= Dist(q, s.lastMsgSent)
  <2>1. Dist(q, s.lastAckReceived) <= Dist(q, r.lastAckSent) /\ Dist(q, r.lastAckSent) <= Dist(q, s.lastMsgSent)
    BY DEF SendSide
  <2>2. Dist(q, s.lastAckReceived) \in Int /\ Dist(q, r.lastAckSent) \in Int /\ Dist(q, s.lastMsgSent) \in Int
    BY <1>1, NumberOk DEF la, lm
  <2>3. Dist(q, s.lastAckReceived) <= Dist(q, s.lastMsgSent)  BY <2>1, <2>2
  <2> QED  BY <2>3 DEF SendSide
<1>6. Dist(la, x.seq) = Dist(q, x.seq) - Dist(q, la)  BY <1>5, WindowNumbers DEF la
<1>7. Dist(la, a) = Dist(q, a) - Dist(q, la)
  <2>1. Dist(q, la) <= Dist(q, a)  BY DEF la
  <2> QED  BY <2>1, <1>1, DistDist
<1>8. x \in NamedOf(q, n, o) /\ x.seq \in Seqs
  <2>1. x \in NamedOf(q, n, o)  BY <1>5
  <2> QED  BY <2>1 DEF NamedOf, PacketsOf, DataPackets
<1>9. Dist(q, x.seq) \in Int /\ Dist(q, a) \in Int /\ Dist(q, la) \in Int  BY <1>1, <1>8, NumberOk
<1>10. Dist(q, x.seq) <= Dist(q, a)
  <2> DEFINE X == Dist(q, x.seq)
             A == Dist(q, a)
             Y == Dist(q, la)
  <2>1. X \in Int /\ A \in Int /\ Y \in Int /\ X - Y <= A - Y  BY <1>4, <1>6, <1>7, <1>9
  <2> HIDE DEF X, A, Y
  <2>2. X <= A  BY <2>1
  <2> QED  BY <2>2 DEF X, A
<1> QED  BY <1>8, <1>10

(* A message in one packet that n's user is told was sent has been handed over. *)
LEMMA AckedHanded ==
  ASSUME TransportInv, NEW q \in Seqs, OrderInv(q), HandedInv(q), NEW n \in Nodes, NEW p, p = Peer(n),
         net[n] # <<>>, Head(net[n]) \in AckPackets, NEW a, a = Head(net[n]).seq, Acceptable(node[n], a),
         NEW m \in Completed(n, Acked(node[n], a)), ~Multi(n, m), m \in Msgs(n)
  PROVE  \E i \in DOMAIN delivered[p] : delivered[p][i] = m
<1> DEFINE s == node[n]
           r == node[p]
           o == outcome[n]
           u == outcome[p]
           c == net[n]
           h == Head(c)
<1>1. /\ p \in Nodes /\ Peer(p) = n /\ SenderOk(n, s, o) /\ r \in StateOf(p) /\ s \in StateOf(n)
      /\ Side(q, n, s, r, c, o, u)
  BY OrderParts
<1>2. h = Head(c) /\ h \in AckPackets /\ c # <<>> /\ a = h.seq /\ Acceptable(s, a)
      /\ \E e \in s.sentMsgBuf : Dist(e.packet.seq, a) < Window /\ e.packet.msg = m /\ IsLast(n, m, e.packet.frag)
  <2>1. PICK e \in Acked(s, a) : IsLast(n, e.packet.msg, e.packet.frag) /\ e.packet.msg = m  BY DEF Completed
  <2>2. e \in s.sentMsgBuf /\ Dist(e.packet.seq, a) < Window  BY DEF Acked
  <2>3. IsLast(n, m, e.packet.frag)  BY <2>1
  <2> QED  BY <2>1, <2>2, <2>3
<1>3. Handed(n, Dist(q, r.lastAckSent), r.fragmMsgBuf, delivered[p])  BY <1>1 DEF HandedInv
<1> HIDE DEF s, r, o, u, c, h
<1>4. PICK x \in Waiting(s) : Dist(x.seq, a) < Window /\ x.msg = m /\ IsLast(n, m, x.frag)
  BY <1>2 DEF Waiting
<1>5. h \in AcksTo(q, s, r)
  <2>1. h \in DataTo(q, n, s, u) \cup AcksTo(q, s, r)  BY <1>1, <1>2, TailSide
  <2>2. h.kind = "ack"  BY <1>2 DEF AckPackets
  <2>3. h \notin DataTo(q, n, s, u)  BY <2>2 DEF DataTo, NamedOf, PacketsOf, DataPackets
  <2> QED  BY <2>1, <2>3
<1>6. Dist(q, s.lastAckReceived) <= Dist(q, a) /\ Dist(q, a) <= Dist(q, r.lastAckSent)
  BY <1>2, <1>5 DEF AcksTo
<1>7. a \in Seqs /\ r.lastAckSent \in Seqs  BY <1>1, <1>2 DEF AckPackets, StateOf
<1>8. Dist(q, x.seq) <= Dist(q, a) /\ x \in NamedOf(q, n, o)
  <2>1. SendSide(q, n, s, r, o)  BY <1>1 DEF Side
  <2> QED  BY <2>1, <1>1, <1>2, <1>4, <1>6, <1>7, AckedUpTo
<1>9. Fragments[n][m] = 1
  <2>1. Fragments[n][m] \in Nat /\ Fragments[n][m] >= 1  BY MessagesOf
  <2>2. ~(Fragments[n][m] > 1)  BY DEF Multi
  <2> QED  BY <2>1, <2>2
<1>10. Dist(q, x.seq) = LastNumber(n)[m]
  <2>1. Dist(q, x.seq) = LastNumber(n)[m - 1] + x.frag + 1 /\ x.frag = Fragments[n][m] - 1
    BY <1>4, <1>8 DEF NamedOf, IsLast
  <2>2. LastNumber(n)[m] = LastNumber(n)[m - 1] + Fragments[n][m] /\ LastNumber(n)[m - 1] \in Nat
    BY LastNumberIs
  <2> QED  BY <2>1, <2>2, <1>9
<1>11. LastNumber(n)[m] <= Dist(q, r.lastAckSent)
  <2>1. x.seq \in Seqs  BY <1>8 DEF NamedOf, PacketsOf, DataPackets
  <2>2. Dist(q, x.seq) \in Int /\ Dist(q, a) \in Int /\ Dist(q, r.lastAckSent) \in Int  BY <2>1, <1>7, NumberOk
  <2>3. Dist(q, x.seq) <= Dist(q, r.lastAckSent)  BY <2>2, <1>6, <1>8
  <2> QED  BY <2>3, <1>10
<1>12. PICK i \in 1..Len(delivered[p]) : delivered[p][i] = m  BY <1>3, <1>9, <1>11 DEF Handed
<1>13. delivered[p] \in Seq(Msgs(n))  BY <1>3 DEF Handed
<1> QED  BY <1>12, <1>13

LEMMA LinkAck ==
  ASSUME LinkInv, NEW n \in Nodes, AckArrived(n)
  PROVE  Link!Next \/ UNCHANGED Link!vars
<1> DEFINE p == Peer(n)
           s == node[n]
           a == Head(net[n]).seq
           C == Completed(n, Acked(node[n], a))
<1>1. TransportInv  BY DEF LinkInv
<1>2. /\ net[n] # <<>> /\ Head(net[n]) \in AckPackets
      /\ ResetNode(n, FALSE) \/ AcceptsAck(n, s, a) \/ UNCHANGED <<node, outcome, delivered, broken>>
  BY <1>1, AckCases
<1>3. CASE ResetNode(n, FALSE)  BY <1>1, <1>3, LinkBreak
<1>4. CASE AcceptsAck(n, s, a)
  <2>1. a \in Seqs /\ a = Head(net[n]).seq /\ p = Peer(n) /\ C = Completed(n, Acked(node[n], a))  BY <1>2 DEF AckPackets
  <2>2. AcceptsAck(n, node[n], a) /\ Acceptable(node[n], a) /\ UNCHANGED <<delivered, broken>>
    BY <1>4 DEF AcceptsAck
  <2> HIDE DEF p, a, C
  <2>3. /\ \A m \in C : m \in Msgs(n) /\ outcome[n][m] = "pending"
        /\ outcome'[p] = outcome[p]
        /\ \A m \in Msgs(n) : outcome'[n][m] = IF m \in C THEN "ok" ELSE outcome[n][m]
        /\ outcome' = [outcome EXCEPT ![n] = [m \in Msgs(n) |-> IF m \in C THEN "ok" ELSE outcome[n][m]]]
    BY <1>1, <2>1, <2>2, ReportedIs
  <2>4. Orderly' <=> Orderly
    <3>1. \A k \in Nodes : k = n \/ k = p  BY <2>1, Peers
    <3>2. \A m \in Msgs(n) : outcome[n][m] # "unsent" <=> outcome'[n][m] # "unsent"  BY <2>3
    <3>3. \A k \in Nodes : \A m \in Msgs(k) : outcome[k][m] # "unsent" <=> outcome'[k][m] # "unsent"
      BY <3>1, <3>2, <2>3
    <3> QED  BY <3>3, <2>2, OrderlyStay
  <2>5. ASSUME Orderly, NEW m \in C, ~Multi(n, m)
        PROVE  \E i \in DOMAIN delivered[p] : delivered[p][i] = m
    <3>1. PICK q \in StartSeqs : OrderInv(q) /\ HandedInv(q)  BY <2>5 DEF LinkInv
    <3>2. q \in Seqs  BY StartAssumption DEF Seqs
    <3>3. m \in Completed(n, Acked(node[n], a)) /\ m \in Msgs(n)  BY <2>1, <2>3
    <3> QED  BY <3>1, <3>2, <3>3, <1>1, <1>2, <2>1, <2>2, <2>5, AckedHanded
  <2> QED  BY <2>1, <2>2, <2>3, <2>4, <2>5, LinkSucceed
<1>5. CASE UNCHANGED <<node, outcome, delivered, broken>>
  BY <1>5, OrderlyStay, LinkStutter
<1> QED  BY <1>2, <1>3, <1>4, <1>5

(* Every step of the transport is a step of the link. *)
LEMMA LinkSteps ==
  ASSUME LinkInv, [Next]_vars
  PROVE  Link!Next \/ UNCHANGED Link!vars
<1>1. TransportInv /\ KnownInv  BY DEF LinkInv
<1>2. ASSUME UNCHANGED <<outcome, delivered, broken>> PROVE UNCHANGED Link!vars
  BY <1>2, OrderlyStay, LinkStutter
<1>3. CASE UNCHANGED vars  BY <1>2, <1>3 DEF vars
<1>4. ASSUME NEW n \in Nodes, NEW m \in Msgs(n), SendMsg(n, m) PROVE Link!Next
  <2>1. outcome[n][m] = "unsent" /\ UNCHANGED delivered  BY <1>4 DEF SendMsg
  <2>2. Orderly' => Orderly  BY <1>1, StillOrderly
  <2>3. outcome' = [outcome EXCEPT ![n][m] = "pending"] /\ \A k \in Msgs(n) : k < m => outcome[n][k] # "unsent"
    BY <1>1, <1>4, SendKnown
  <2> QED  BY <2>1, <2>2, <2>3, LinkSubmit
<1>5. ASSUME NEW n \in Nodes, NEW x \in Seqs, MsgTimerFired(n, x) PROVE Link!Next \/ UNCHANGED Link!vars
  BY <1>1, <1>2, <1>5, TimerCases, LinkBreak
<1>6. ASSUME NEW n \in Nodes, KeepAliveExpired(n) PROVE Link!Next  BY <1>1, <1>6, LinkBreak DEF KeepAliveExpired
<1>7. ASSUME NEW n \in Nodes, Lose(n) PROVE UNCHANGED Link!vars  BY <1>2, <1>7 DEF Lose
<1>8. CASE Next
  BY <1>4, <1>5, <1>6, <1>7, <1>8, LinkData, LinkAck DEF Next
<1> QED  BY <1>3, <1>8

LEMMA LinkStart == Init => Link!Init
<1> SUFFICES ASSUME Init PROVE Link!Init
  OBVIOUS
<1>1. outcome = [n \in Nodes |-> [m \in [x \in Nodes |-> Msgs(x)][n] |-> "unsent"]]  BY DEF Init
<1>2. \A n \in Nodes : \A m \in Msgs(n) : outcome[n][m] = "unsent"  BY DEF Init
<1>3. Unwrapped  BY <1>2 DEF Unwrapped
<1>4. (~Orderly) = FALSE  BY <1>3 DEF Init, Orderly
<1> QED  BY <1>1, <1>4 DEF Init, Link!Init

(* Until a node resets its counters or uses up its numbers, the transport hands messages over once, *)
(* in order and without skipping one that fits a packet, and tells a user of such a message that it *)
(* was sent only when it was handed over; afterwards it invents none and tells no result twice: for  *)
(* any messages, window and numbers, whatever is lost and however often a packet is resent.          *)
THEOREM TransportImplementsLink == Spec => ImplementsLink
<1>1. Init => LinkInv  BY LinkInit
<1>2. LinkInv /\ [Next]_vars => LinkInv'  BY LinkNext
<1>3. Init => Link!Init  BY LinkStart
<1>4. LinkInv /\ [Next]_vars => [Link!Next]_Link!vars  BY LinkSteps
<1> QED  BY <1>1, <1>2, <1>3, <1>4, PTL DEF Spec, ImplementsLink, Link!Spec
=============================================================================
