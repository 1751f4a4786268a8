--------------------------- MODULE TransportProofs ---------------------------
(***************************************************************************)
(* Theorems about the reliable transport, for any messages, any window and *)
(* any width of sequence numbers it fits in twice.                         *)
(***************************************************************************)
EXTENDS TransportProps, RecursionProofs, FiniteSetTheorems, FunctionTheorems, SequenceTheorems

-----------------------------------------------------------------------------
(* Sequence numbers. *)

(* The remainder of a number that is less than one round away from the range. *)
LEMMA Remainder ==
  ASSUME NEW N \in Nat \ {0}, NEW x \in Int, -N <= x, x < 2 * N
  PROVE  x % N = IF x < 0 THEN x + N ELSE IF x < N THEN x ELSE x - N
<1> DEFINE q == x \div N
           r == x % N
<1>1. q \in Int /\ r \in 0..N-1 /\ x = N * q + r  BY Z3
<1> HIDE DEF q, r
<1>2. CASE q <= -2
  <2>1. N * q <= N * (-2)  BY <1>1, <1>2, Z3
  <2> QED  BY <1>1, <2>1, Z3
<1>3. CASE q >= 2
  <2>1. N * q >= N * 2  BY <1>1, <1>3, Z3
  <2> QED  BY <1>1, <2>1, Z3
<1>4. CASE q \in {-1, 0, 1}
  <2>1. N * (-1) = -N /\ N * 0 = 0 /\ N * 1 = N  BY Z3
  <2>2. x = -N + r \/ x = r \/ x = N + r  BY <1>1, <1>4, <2>1, Z3
  <2>3. r = IF x < 0 THEN x + N ELSE IF x < N THEN x ELSE x - N  BY <1>1, <2>2, Z3
  <2> QED  BY <2>3 DEF r
<1> QED  BY <1>1, <1>2, <1>3, <1>4, Z3

(* The constants. *)
LEMMA Constants == Window \in Nat \ {0} /\ SeqMod \in Nat \ {0} /\ 2 * Window < SeqMod
                   /\ Resends \in Nat /\ ChannelBound \in Nat \ {0} /\ MaxExpiries \in Nat
  BY WindowAssumption, BoundsAssumption

(* The distance from one number to another. *)
LEMMA DistIs ==
  ASSUME NEW q \in Seqs, NEW r \in Seqs
  PROVE  Dist(q, r) \in Seqs /\ Dist(q, r) = IF q <= r THEN r - q ELSE r - q + SeqMod
<1> DEFINE x == r - q
<1>1. q \in Int /\ r \in Int /\ x \in Int /\ -SeqMod <= x /\ x < SeqMod /\ x < 2 * SeqMod
  BY Constants DEF Seqs
<1>2. x % SeqMod = IF x < 0 THEN x + SeqMod ELSE IF x < SeqMod THEN x ELSE x - SeqMod
  <2> HIDE DEF x
  <2> QED  BY <1>1, Constants, Remainder
<1> QED  BY <1>1, <1>2, Constants DEF Dist, Seqs

(* The number some steps, less than a round, after another, or before it. *)
LEMMA PlusIs ==
  ASSUME NEW q \in Seqs, NEW k \in Int, -SeqMod <= k, k <= SeqMod
  PROVE  /\ Plus(q, k) \in Seqs
         /\ Plus(q, k) = IF q + k < 0 THEN q + k + SeqMod ELSE IF q + k < SeqMod THEN q + k ELSE q + k - SeqMod
<1> DEFINE x == q + k
<1>1. q \in Int /\ x \in Int /\ -SeqMod <= x /\ x < 2 * SeqMod
  BY Constants DEF Seqs
<1>2. x % SeqMod = IF x < 0 THEN x + SeqMod ELSE IF x < SeqMod THEN x ELSE x - SeqMod
  <2> HIDE DEF x
  <2> QED  BY <1>1, Constants, Remainder
<1> QED  BY <1>1, <1>2, Constants DEF Plus, Seqs

(* Going k steps on and measuring the distance are inverse to one another. *)
LEMMA PlusDist ==
  ASSUME NEW q \in Seqs, NEW r \in Seqs, NEW k \in 0..SeqMod-1
  PROVE  /\ Dist(q, Plus(q, k)) = k
         /\ Plus(q, Dist(q, r)) = r
         /\ Dist(q, r) = k <=> r = Plus(q, k)
<1>1. Plus(q, k) \in Seqs /\ Plus(q, k) = IF q + k < SeqMod THEN q + k ELSE q + k - SeqMod
  BY PlusIs, Constants DEF Seqs
<1>2. Dist(q, Plus(q, k)) = k
  <2> DEFINE t == Plus(q, k)
  <2> HIDE DEF t
  <2>1. t \in Seqs /\ t = IF q + k < SeqMod THEN q + k ELSE q + k - SeqMod  BY <1>1 DEF t
  <2>2. Dist(q, t) = IF q <= t THEN t - q ELSE t - q + SeqMod  BY <2>1, DistIs
  <2> QED  BY <2>1, <2>2, Constants DEF Seqs, t
<1>3. Dist(q, r) \in Seqs /\ Dist(q, r) = IF q <= r THEN r - q ELSE r - q + SeqMod  BY DistIs
<1>4. Plus(q, Dist(q, r)) = r
  <2> DEFINE t == Dist(q, r)
  <2> HIDE DEF t
  <2>1. t \in Seqs /\ t = IF q <= r THEN r - q ELSE r - q + SeqMod  BY <1>3 DEF t
  <2>2. t \in Int /\ -SeqMod <= t /\ t <= SeqMod  BY <2>1, Constants DEF Seqs
  <2>3. Plus(q, t) = IF q + t < 0 THEN q + t + SeqMod ELSE IF q + t < SeqMod THEN q + t ELSE q + t - SeqMod
    BY <2>2, PlusIs
  <2>4. Plus(q, t) = r  BY <2>1, <2>3, Constants DEF Seqs
  <2> QED  BY <2>4 DEF t
<1> QED  BY <1>2, <1>4

(* The two nodes. *)
LEMMA Peers ==
  ASSUME NEW n \in Nodes
  PROVE  Peer(n) \in Nodes /\ Peer(n) # n /\ Peer(Peer(n)) = n /\ \A m \in Nodes : m = n \/ m = Peer(n)
  BY NodesAssumption DEF Peer

(* Distances measured from a third number. *)
LEMMA DistDist ==
  ASSUME NEW q \in Seqs, NEW r \in Seqs, NEW s \in Seqs
  PROVE  Dist(r, s) = IF Dist(q, r) <= Dist(q, s) THEN Dist(q, s) - Dist(q, r)
                                                  ELSE Dist(q, s) - Dist(q, r) + SeqMod
<1> DEFINE a == Dist(q, r)
           b == Dist(q, s)
           c == Dist(r, s)
<1>1. a = IF q <= r THEN r - q ELSE r - q + SeqMod  BY DistIs
<1>2. b = IF q <= s THEN s - q ELSE s - q + SeqMod  BY DistIs
<1>3. c = IF r <= s THEN s - r ELSE s - r + SeqMod  BY DistIs
<1> HIDE DEF a, b, c
<1>4. c = IF a <= b THEN b - a ELSE b - a + SeqMod  BY <1>1, <1>2, <1>3, Constants DEF Seqs
<1> QED  BY <1>4 DEF a, b, c

(* Distances add up as long as they make less than a round. *)
LEMMA DistPlus ==
  ASSUME NEW q \in Seqs, NEW r \in Seqs, NEW k \in Nat, Dist(q, r) + k < SeqMod
  PROVE  Dist(q, Plus(r, k)) = Dist(q, r) + k
<1> DEFINE a == Dist(q, r)
           t == Plus(r, k)
           c == Dist(q, t)
<1>1. a \in Seqs /\ a = IF q <= r THEN r - q ELSE r - q + SeqMod  BY DistIs
<1>2. k \in Int /\ -SeqMod <= k /\ k <= SeqMod
  BY <1>1, Constants DEF Seqs
<1>3. t \in Seqs /\ t = IF r + k < 0 THEN r + k + SeqMod ELSE IF r + k < SeqMod THEN r + k ELSE r + k - SeqMod
  BY <1>2, PlusIs
<1>4. a + k < SeqMod  OBVIOUS
<1> HIDE DEF a, t
<1>5. c = IF q <= t THEN t - q ELSE t - q + SeqMod  BY <1>3, DistIs
<1> HIDE DEF c
<1>6. c = a + k  BY <1>1, <1>2, <1>3, <1>4, <1>5, Constants DEF Seqs
<1> QED  BY <1>6 DEF a, t, c

-----------------------------------------------------------------------------
(* The window of a sender: the last number acknowledged la, the last number given lm, the packets P *)
(* that wait for an ack and the timers T that run.                                                  *)
WindowInv(la, lm, P, T) ==
  /\ Dist(la, lm) <= Window
  /\ \A p \in P : p.seq \in Seqs /\ Dist(la, p.seq) \in 1..Dist(la, lm)
  /\ \A p, r \in P : p.seq = r.seq => p = r
  /\ \A k \in 1..Dist(la, lm) : \E p \in P : Dist(la, p.seq) = k
  /\ T = {p.seq : p \in P}

(* Numbering F more packets keeps the window. *)
LEMMA SendWindow ==
  ASSUME NEW la \in Seqs, NEW lm \in Seqs, NEW P, NEW T, WindowInv(la, lm, P, T),
         NEW F \in Nat, Dist(la, lm) + F <= Window,
         NEW ps, \A k \in 1..F : ps[k].seq = Plus(lm, k)
  PROVE  WindowInv(la, Plus(lm, F), P \cup {ps[k] : k \in 1..F}, T \cup {ps[k].seq : k \in 1..F})
<1> DEFINE D == Dist(la, lm)
           Q == {ps[k] : k \in 1..F}
<1>1. D \in Nat /\ D <= Window  BY DistIs DEF Seqs, WindowInv
<1>2. \A k \in 0..F : k \in Nat /\ k \in Int /\ -SeqMod <= k /\ k <= SeqMod /\ D + k < SeqMod
  BY <1>1, Constants
<1>3. \A k \in 0..F : Plus(lm, k) \in Seqs /\ Dist(la, Plus(lm, k)) = D + k
  BY <1>2, PlusIs, DistPlus
<1>4. \A k \in 1..F : ps[k].seq \in Seqs /\ Dist(la, ps[k].seq) = D + k
  BY <1>3
<1>5. Dist(la, Plus(lm, F)) = D + F  BY <1>3
<1> DEFINE off(p) == Dist(la, p.seq)
<1>6. \A p \in P : p.seq \in Seqs /\ off(p) \in 1..D  BY DEF WindowInv
<1>7. \A p \in Q : p.seq \in Seqs /\ off(p) \in D+1..D+F  BY <1>1, <1>4
<1>8. \A p, r \in P \cup Q : p.seq = r.seq => p = r
  <2> SUFFICES ASSUME NEW p \in P \cup Q, NEW r \in P \cup Q, p.seq = r.seq PROVE p = r
    OBVIOUS
  <2>1. off(p) = off(r)  OBVIOUS
  <2> HIDE DEF off, D
  <2>2. (p \in P /\ r \in P) \/ (p \in Q /\ r \in Q)  BY <2>1, <1>1, <1>6, <1>7
  <2>3. CASE p \in Q /\ r \in Q
    <3>1. PICK i \in 1..F, j \in 1..F : p = ps[i] /\ r = ps[j]  BY <2>3
    <3>2. D + i = D + j  BY <3>1, <2>1, <1>4 DEF off
    <3> QED  BY <3>1, <3>2, <1>1
  <2> QED  BY <2>2, <2>3 DEF WindowInv
<1>9. \A k \in 1..D+F : \E p \in P \cup Q : off(p) = k
  <2> TAKE k \in 1..D+F
  <2>1. CASE k \in 1..D  BY <2>1 DEF WindowInv
  <2>2. CASE k \notin 1..D
    <3>1. k - D \in 1..F /\ D + (k - D) = k  BY <2>2, <1>1
    <3>2. ps[k - D] \in Q /\ off(ps[k - D]) = k  BY <3>1, <1>4
    <3> QED  BY <3>2
  <2> QED  BY <2>1, <2>2
<1>10. T \cup {ps[k].seq : k \in 1..F} = {p.seq : p \in P \cup Q}  BY DEF WindowInv
<1>11. \A p \in P \cup Q : p.seq \in Seqs /\ off(p) \in 1..D+F  BY <1>1, <1>6, <1>7
<1> QED  BY <1>1, <1>5, <1>8, <1>9, <1>10, <1>11 DEF WindowInv

(* An acceptable ack q takes the packets up to q out of the window. *)
LEMMA AckWindow ==
  ASSUME NEW la \in Seqs, NEW lm \in Seqs, NEW P, NEW T, WindowInv(la, lm, P, T),
         NEW q \in Seqs, q # la, Dist(la, q) <= Dist(la, lm),
         NEW R \in SUBSET P, \A p \in P : p \in R <=> Dist(p.seq, q) < Window,
         NEW U, U = {p.seq : p \in R}
  PROVE  /\ \A p \in P : p \in R <=> Dist(la, p.seq) <= Dist(la, q)
         /\ \A p \in P \ R : Dist(q, p.seq) = Dist(la, p.seq) - Dist(la, q)
         /\ WindowInv(q, lm, P \ R, T \ U)
<1> DEFINE D == Dist(la, lm)
           b == Dist(la, q)
           off(p) == Dist(la, p.seq)
           E == Dist(q, lm)
           new(p) == Dist(q, p.seq)
           back(p) == Dist(p.seq, q)
<1>1. D \in Nat /\ D <= Window /\ b \in Nat /\ b <= D  BY DistIs DEF Seqs, WindowInv
<1>2. b # 0
  <2>1. b = IF la <= q THEN q - la ELSE q - la + SeqMod  BY DistIs
  <2> HIDE DEF b
  <2> QED  BY <2>1, Constants DEF Seqs
<1>3. E = D - b  BY <1>1, DistDist, Constants
<1>4. \A p \in P : p.seq \in Seqs /\ off(p) \in 1..D  BY DEF WindowInv
<1>5. \A p \in P : /\ back(p) = IF off(p) <= b THEN b - off(p) ELSE b - off(p) + SeqMod
                   /\ new(p) = IF b <= off(p) THEN off(p) - b ELSE off(p) - b + SeqMod
  BY <1>4, DistDist
<1> HIDE DEF D, b, off, E, new, back
<1>6. \A p \in P : p \in R <=> off(p) <= b
  <2> TAKE p \in P
  <2>1. p \in R <=> back(p) < Window  BY DEF back
  <2> QED  BY <2>1, <1>1, <1>4, <1>5, Constants
<1>7. \A p \in P \ R : new(p) = off(p) - b /\ new(p) \in 1..E  BY <1>1, <1>3, <1>4, <1>5, <1>6
<1>8. \A k \in 1..E : \E p \in P \ R : new(p) = k
  <2> TAKE k \in 1..E
  <2>1. k + b \in 1..D  BY <1>1, <1>3
  <2>2. PICK p \in P : off(p) = k + b  BY <2>1 DEF WindowInv, off, D
  <2>3. p \notin R  BY <2>2, <1>6, <1>1
  <2>4. new(p) = k  BY <2>2, <2>3, <1>7, <1>1
  <2> QED  BY <2>3, <2>4
<1>9. T \ U = {p.seq : p \in P \ R}
  <2>1. T = {p.seq : p \in P} /\ \A p, r \in P : p.seq = r.seq => p = r  BY DEF WindowInv
  <2> QED  BY <2>1
<1>10. WindowInv(q, lm, P \ R, T \ U)
  <2>1. E <= Window  BY <1>1, <1>3, Constants
  <2>2. \A p, r \in P \ R : p.seq = r.seq => p = r  BY DEF WindowInv
  <2>3. \A p \in P \ R : p.seq \in Seqs /\ new(p) \in 1..E  BY <1>4, <1>7
  <2> QED  BY <2>1, <2>2, <2>3, <1>8, <1>9 DEF WindowInv, E, new
<1> QED  BY <1>6, <1>7, <1>10 DEF b, off, new
-----------------------------------------------------------------------------
(* The packets P of n that wait for an ack, and what n's user was told, o: fragments leave the window *)
(* in their order, so a message is in it as long as its last fragment is.                             *)
ChainInv(n, la, P, o) ==
  /\ \A p \in P : p.msg \in Msgs(n) /\ o[p.msg] # "unsent"
  /\ \A p \in P : \E l \in P : /\ l.msg = p.msg /\ IsLast(n, l.msg, l.frag)
                             /\ Dist(la, p.seq) <= Dist(la, l.seq)
  /\ \A p, r \in P : p.msg = r.msg /\ p.frag = r.frag => p = r
  /\ \A m \in Msgs(n) : o[m] = "pending" <=> \E p \in P : p.msg = m /\ IsLast(n, m, p.frag)

Results == {"unsent", "pending", "ok", "fail"}

(* What the messages are. *)
LEMMA MessagesOf ==
  ASSUME NEW n \in Nodes
  PROVE  /\ Msgs(n) = 1..Len(Fragments[n]) /\ Len(Fragments[n]) \in Nat
         /\ \A m \in Msgs(n) : /\ Fragments[n][m] \in 1..Window
                              /\ Fragments[n][m] \in Nat /\ Fragments[n][m] >= 1
<1>1. Fragments[n] \in Seq(1..Window)  BY MessagesAssumption
<1>2. \A m \in Msgs(n) : Fragments[n][m] \in 1..Window  BY <1>1, Constants DEF Msgs
<1>3. \A F \in 1..Window : F \in Nat /\ F >= 1  BY Constants
<1> QED  BY <1>1, <1>2, <1>3 DEF Msgs

(* The packets of a message sendMsg has accepted. *)
LEMMA PacketsAre ==
  ASSUME NEW n \in Nodes, NEW m \in Msgs(n), NEW q, NEW flag
  PROVE  /\ Packets(n, m, q, flag) \in [1..Fragments[n][m] -> {Packets(n, m, q, flag)[k] : k \in 1..Fragments[n][m]}]
         /\ Len(Packets(n, m, q, flag)) = Fragments[n][m]
         /\ DOMAIN Packets(n, m, q, flag) = 1..Fragments[n][m]
         /\ \A k \in 1..Fragments[n][m] :
              Packets(n, m, q, flag)[k] = [kind |-> "data", seq |-> Plus(q, k), msg |-> m, frag |-> k - 1,
                                           reset |-> (flag /\ k = 1)]
<1> DEFINE ps == Packets(n, m, q, flag)
           F == Fragments[n][m]
<1>1. F \in Nat  BY MessagesOf
<1>2. ps = [k \in 1..F |-> [kind |-> "data", seq |-> Plus(q, k), msg |-> m, frag |-> k - 1,
                           reset |-> (flag /\ k = 1)]]
  BY DEF Packets, Data
<1>3. DOMAIN ps = 1..F /\ ps \in [1..F -> {ps[k] : k \in 1..F}]
  <2> HIDE DEF F
  <2> QED  BY <1>2
<1>4. Len(ps) = F
  <2> HIDE DEF F
  <2>1. ps \in Seq({ps[k] : k \in 1..F})  BY <1>1, <1>3
  <2> QED  BY <1>1, <1>3, <2>1
<1> QED  BY <1>2, <1>3, <1>4

(* Sending the packets Q of a message m keeps the chain. *)
LEMMA SendChain ==
  ASSUME NEW n \in Nodes, NEW la, NEW P, NEW o \in [Msgs(n) -> Results], ChainInv(n, la, P, o),
         NEW m \in Msgs(n), o[m] = "unsent",
         NEW Q, \A p \in Q : p.msg = m,
         \A p, r \in Q : p.frag = r.frag => p = r,
         \E l \in Q : IsLast(n, m, l.frag) /\ \A p \in Q : Dist(la, p.seq) <= Dist(la, l.seq),
         NEW w, w = [o EXCEPT ![m] = "pending"]
  PROVE  ChainInv(n, la, P \cup Q, w)
<1>1. \A p \in P : p.msg # m  BY DEF ChainInv
<1>2. PICK l \in Q : IsLast(n, m, l.frag) /\ \A p \in Q : Dist(la, p.seq) <= Dist(la, l.seq)  OBVIOUS
<1>3. \A k \in Msgs(n) : w[k] = IF k = m THEN "pending" ELSE o[k]  OBVIOUS
<1>4. \A p \in P \cup Q : p.msg \in Msgs(n) /\ w[p.msg] # "unsent"  BY <1>3 DEF ChainInv
<1>5. \A p \in P \cup Q : \E x \in P \cup Q : /\ x.msg = p.msg /\ IsLast(n, x.msg, x.frag)
                                            /\ Dist(la, p.seq) <= Dist(la, x.seq)
  <2> TAKE p \in P \cup Q
  <2>1. CASE p \in P  BY <2>1 DEF ChainInv
  <2>2. CASE p \in Q  BY <2>2, <1>2
  <2> QED  BY <2>1, <2>2
<1>6. \A p, r \in P \cup Q : p.msg = r.msg /\ p.frag = r.frag => p = r  BY <1>1 DEF ChainInv
<1>7. \A k \in Msgs(n) : w[k] = "pending" <=> \E p \in P \cup Q : p.msg = k /\ IsLast(n, k, p.frag)
  <2> TAKE k \in Msgs(n)
  <2>1. CASE k = m  BY <2>1, <1>2, <1>3
  <2>2. CASE k # m  BY <2>2, <1>3 DEF ChainInv
  <2> QED  BY <2>1, <2>2
<1> QED  BY <1>4, <1>5, <1>6, <1>7 DEF ChainInv

(* An ack that takes the packets R out of the window keeps the chain. *)
LEMMA AckChain ==
  ASSUME NEW n \in Nodes, NEW la, NEW q, NEW P, NEW o \in [Msgs(n) -> Results], ChainInv(n, la, P, o),
         NEW R \in SUBSET P,
         \A p \in P \ R, l \in P : Dist(la, p.seq) <= Dist(la, l.seq) =>
           l \notin R /\ Dist(q, p.seq) <= Dist(q, l.seq),
         NEW w, \A m \in Msgs(n) : w[m] = IF \E p \in R : p.msg = m /\ IsLast(n, m, p.frag) THEN "ok" ELSE o[m]
  PROVE  ChainInv(n, q, P \ R, w)
<1>1. \A p \in P \ R : p.msg \in Msgs(n) /\ w[p.msg] # "unsent"  BY DEF ChainInv
<1>2. \A p \in P \ R : \E l \in P \ R : /\ l.msg = p.msg /\ IsLast(n, l.msg, l.frag)
                                      /\ Dist(q, p.seq) <= Dist(q, l.seq)
  <2> TAKE p \in P \ R
  <2>1. PICK l \in P : l.msg = p.msg /\ IsLast(n, l.msg, l.frag) /\ Dist(la, p.seq) <= Dist(la, l.seq)
    BY DEF ChainInv
  <2> QED  BY <2>1
<1>3. \A p, r \in P \ R : p.msg = r.msg /\ p.frag = r.frag => p = r  BY DEF ChainInv
<1>4. \A p, r \in P : p.msg = r.msg /\ IsLast(n, p.msg, p.frag) /\ IsLast(n, r.msg, r.frag) => p = r
  BY DEF ChainInv, IsLast
<1>5. \A m \in Msgs(n) : w[m] = "pending" <=> \E p \in P \ R : p.msg = m /\ IsLast(n, m, p.frag)
  <2> TAKE m \in Msgs(n)
  <2>1. w[m] = "pending" <=> /\ ~\E p \in R : p.msg = m /\ IsLast(n, m, p.frag)
                             /\ \E p \in P : p.msg = m /\ IsLast(n, m, p.frag)
    BY DEF ChainInv
  <2> QED  BY <2>1, <1>4
<1> QED  BY <1>1, <1>2, <1>3, <1>5 DEF ChainInv

(* The messages with a packet in the window are exactly the pending ones. *)
LEMMA PendingIs ==
  ASSUME NEW n \in Nodes, NEW la, NEW P, NEW o, ChainInv(n, la, P, o)
  PROVE  /\ \A p \in P : p.msg \in Msgs(n) /\ o[p.msg] = "pending"
         /\ \A m \in Msgs(n) : o[m] = "pending" => \E p \in P : p.msg = m
  BY DEF ChainInv
-----------------------------------------------------------------------------
(* What a node keeps. *)
PacketsOf(n) == {p \in DataPackets : p.msg \in Msgs(n) /\ p.frag < Fragments[n][p.msg]}
BufferOf(n) == [Slots -> PacketsOf(Peer(n)) \cup {Free}]
StateOf(n) == [lastAckReceived : Seqs, lastMsgSent : Seqs, lastMsgReceived : Seqs, lastAckSent : Seqs,
               resetFlag : BOOLEAN, sentMsgBuf : SUBSET [packet : PacketsOf(n), resends : 0..Resends],
               timers : SUBSET Seqs, recvMsgBuf : BufferOf(n), fragmMsgBuf : BufferOf(n)]

Waiting(s) == {e.packet : e \in s.sentMsgBuf}

(* The sending half of n, in state s, agrees with what n's user was told, o. *)
SenderOk(n, s, o) ==
  /\ s \in StateOf(n)
  /\ o \in [Msgs(n) -> Results]
  /\ \A e, f \in s.sentMsgBuf : e.packet = f.packet => e = f
  /\ WindowInv(s.lastAckReceived, s.lastMsgSent, Waiting(s), s.timers)
  /\ ChainInv(n, s.lastAckReceived, Waiting(s), o)

(* A state that waits for nothing fits any outcomes without a pending message. *)
LEMMA IdleOk ==
  ASSUME NEW n \in Nodes, NEW s \in StateOf(n), s.lastMsgSent = s.lastAckReceived, s.sentMsgBuf = {}, s.timers = {},
         NEW o \in [Msgs(n) -> Results], \A m \in Msgs(n) : o[m] # "pending"
  PROVE  SenderOk(n, s, o)
<1> DEFINE q == s.lastAckReceived
<1>1. Waiting(s) = {}  BY DEF Waiting
<1>2. q \in Seqs  BY DEF StateOf
<1> HIDE DEF q
<1>3. Dist(q, q) = 0  BY <1>2, DistIs DEF Seqs
<1>4. WindowInv(q, q, {}, {})  BY <1>3, Constants DEF WindowInv
<1>5. ChainInv(n, q, {}, o)  BY DEF ChainInv
<1> QED  BY <1>1, <1>4, <1>5 DEF SenderOk, q

LEMMA FreshOk ==
  ASSUME NEW n \in Nodes, NEW q \in Seqs, NEW flag \in BOOLEAN, NEW o \in [Msgs(n) -> Results],
         \A m \in Msgs(n) : o[m] # "pending"
  PROVE  SenderOk(n, Fresh(q), o) /\ SenderOk(n, [Fresh(q) EXCEPT !.resetFlag = flag], o)
<1>1. ASSUME NEW f \in BOOLEAN, NEW s,
             s = [lastAckReceived |-> q, lastMsgSent |-> q, lastMsgReceived |-> q, lastAckSent |-> q,
                  resetFlag |-> f, sentMsgBuf |-> {}, timers |-> {},
                  recvMsgBuf |-> [i \in Slots |-> Free], fragmMsgBuf |-> [i \in Slots |-> Free]]
      PROVE  SenderOk(n, s, o)
  <2>1. s \in StateOf(n)  BY <1>1 DEF StateOf, BufferOf
  <2>2. s.lastMsgSent = s.lastAckReceived /\ s.sentMsgBuf = {} /\ s.timers = {}  BY <1>1
  <2> QED  BY <2>1, <2>2, IdleOk
<1>2. SenderOk(n, Fresh(q), o)  BY <1>1 DEF Fresh
<1>3. SenderOk(n, [Fresh(q) EXCEPT !.resetFlag = flag], o)
  <2> DEFINE s == [Fresh(q) EXCEPT !.resetFlag = flag]
  <2>1. s = [lastAckReceived |-> q, lastMsgSent |-> q, lastMsgReceived |-> q, lastAckSent |-> q,
             resetFlag |-> flag, sentMsgBuf |-> {}, timers |-> {},
             recvMsgBuf |-> [i \in Slots |-> Free], fragmMsgBuf |-> [i \in Slots |-> Free]]
    BY DEF Fresh
  <2> HIDE DEF s
  <2>2. SenderOk(n, s, o)  BY <2>1, <1>1
  <2> QED  BY <2>2 DEF s
<1> QED  BY <1>2, <1>3

(* resetNode. *)
LEMMA ResetOk ==
  ASSUME NEW n \in Nodes, NEW s, NEW o, SenderOk(n, s, o), NEW flag \in BOOLEAN
  PROVE  /\ SenderOk(n, ResetState(flag), [m \in Msgs(n) |-> IF m \in InFlight(s) THEN "fail" ELSE o[m]])
         /\ InFlight(s) = {m \in Msgs(n) : o[m] = "pending"}
<1> DEFINE w == [m \in Msgs(n) |-> IF m \in InFlight(s) THEN "fail" ELSE o[m]]
<1>1. InFlight(s) = {p.msg : p \in Waiting(s)}  BY DEF InFlight, Waiting
<1>2. o \in [Msgs(n) -> Results] /\ ChainInv(n, s.lastAckReceived, Waiting(s), o)  BY DEF SenderOk
<1>3. InFlight(s) = {m \in Msgs(n) : o[m] = "pending"}
  <2> DEFINE P == Waiting(s)
  <2> HIDE DEF P
  <2>1. /\ \A p \in P : p.msg \in Msgs(n) /\ o[p.msg] = "pending"
        /\ \A m \in Msgs(n) : o[m] = "pending" => \E p \in P : p.msg = m
    BY <1>2, PendingIs DEF P
  <2> QED  BY <2>1, <1>1 DEF P
<1>4. w \in [Msgs(n) -> Results] /\ \A m \in Msgs(n) : w[m] # "pending"  BY <1>2, <1>3 DEF Results
<1>5. 0 \in Seqs  BY Constants DEF Seqs
<1> HIDE DEF w
<1>6. SenderOk(n, ResetState(flag), w)  BY <1>4, <1>5, FreshOk DEF ResetState
<1> QED  BY <1>3, <1>6 DEF w

(* What sendMsg makes of the state of its node. *)
Sent(s, ps) == [s EXCEPT !.lastMsgSent = Plus(@, Len(ps)),
                         !.resetFlag = FALSE,
                         !.sentMsgBuf = @ \cup {[packet |-> ps[k], resends |-> Resends] : k \in DOMAIN ps},
                         !.timers = @ \cup {ps[k].seq : k \in DOMAIN ps}]

(* sendMsg. *)
LEMMA SendOk ==
  ASSUME NEW n \in Nodes, NEW s, NEW o, SenderOk(n, s, o), NEW m \in Msgs(n), o[m] = "unsent",
         NEW ps, ps = Packets(n, m, s.lastMsgSent, s.resetFlag),
         Dist(s.lastAckReceived, s.lastMsgSent) + Len(ps) <= Window,
         NEW t, t = Sent(s, ps)
  PROVE  /\ SenderOk(n, t, [o EXCEPT ![m] = "pending"])
         /\ \A k \in DOMAIN ps : ps[k] \in PacketsOf(n)
<1> DEFINE la == s.lastAckReceived
           lm == s.lastMsgSent
           F == Fragments[n][m]
           P == Waiting(s)
           D == Dist(la, lm)
           Q == {ps[k] : k \in 1..F}
           w == [o EXCEPT ![m] = "pending"]
<1>1. la \in Seqs /\ lm \in Seqs /\ s \in StateOf(n) /\ s.resetFlag \in BOOLEAN /\ s.timers \subseteq Seqs
      /\ s.sentMsgBuf \subseteq [packet : PacketsOf(n), resends : 0..Resends]
  BY DEF SenderOk, StateOf
<1>2. F \in 1..Window /\ F \in Nat  BY MessagesOf
<1>3. Len(ps) = F /\ DOMAIN ps = 1..F
      /\ \A k \in 1..F : ps[k] = [kind |-> "data", seq |-> Plus(lm, k), msg |-> m, frag |-> k - 1,
                                  reset |-> (s.resetFlag /\ k = 1)]
  BY PacketsAre
<1> HIDE DEF la, lm, F
<1>4. \A k \in 1..F : ps[k].seq = Plus(lm, k) /\ ps[k].msg = m /\ ps[k].frag = k - 1
  <2> SUFFICES ASSUME NEW k \in 1..F PROVE ps[k].seq = Plus(lm, k) /\ ps[k].msg = m /\ ps[k].frag = k - 1
    OBVIOUS
  <2> DEFINE r == s.resetFlag /\ k = 1
  <2>1. r \in BOOLEAN  OBVIOUS
  <2>2. ps[k] = [kind |-> "data", seq |-> Plus(lm, k), msg |-> m, frag |-> k - 1, reset |-> r]  BY <1>3 DEF lm, F
  <2> HIDE DEF r
  <2> QED  BY <2>2
<1>5. \A k \in 0..F : k \in Nat /\ -SeqMod <= k /\ k <= SeqMod /\ k \in Int  BY <1>2, Constants
<1>6. \A k \in 0..F : Plus(lm, k) \in Seqs  BY <1>1, <1>5, PlusIs
<1>7. D \in Nat /\ D + F <= Window
  <2>1. D + F <= Window  BY <1>3 DEF la, lm
  <2>2. D \in Seqs  BY <1>1, DistIs
  <2> QED  BY <2>1, <2>2 DEF Seqs
<1>8. \A k \in 0..F : Dist(la, Plus(lm, k)) = D + k
  <2> TAKE k \in 0..F
  <2>1. D + k < SeqMod  BY <1>2, <1>7, Constants
  <2> QED  BY <2>1, <1>1, <1>5, DistPlus
<1>9. \A k \in 1..F : ps[k] \in PacketsOf(n)
  <2> TAKE k \in 1..F
  <2> DEFINE r == s.resetFlag /\ k = 1
             q == Plus(lm, k)
             f == k - 1
  <2>1. f \in 0..Window-1 /\ f < F /\ k \in 0..F  BY <1>2, Constants
  <2>2. q \in Seqs  BY <2>1, <1>6
  <2>3. m \in AllMsgs  BY DEF AllMsgs
  <2>4. r \in BOOLEAN  OBVIOUS
  <2>5. ps[k] = [kind |-> "data", seq |-> q, msg |-> m, frag |-> f, reset |-> r]  BY <1>3 DEF lm, F
  <2> HIDE DEF r, q, f
  <2>6. ps[k] \in DataPackets  BY <2>1, <2>2, <2>3, <2>4, <2>5 DEF DataPackets
  <2>7. ps[k].msg = m /\ ps[k].frag = f  BY <2>5
  <2> QED  BY <2>1, <2>6, <2>7 DEF PacketsOf, F
<1>10. WindowInv(la, Plus(lm, F), P \cup Q, s.timers \cup {ps[k].seq : k \in 1..F})
  <2> DEFINE T == s.timers
  <2>1. WindowInv(la, lm, P, T)  BY DEF SenderOk, la, lm
  <2>2. Dist(la, lm) + F <= Window /\ \A k \in 1..F : ps[k].seq = Plus(lm, k)  BY <1>7, <1>4
  <2> HIDE DEF P, T, D
  <2>3. WindowInv(la, Plus(lm, F), P \cup {ps[k] : k \in 1..F}, T \cup {ps[k].seq : k \in 1..F})
    BY <2>1, <2>2, <1>1, <1>2, SendWindow
  <2> QED  BY <2>3 DEF T
<1>11. ChainInv(n, la, P \cup Q, w) /\ w \in [Msgs(n) -> Results]
  <2>1. ChainInv(n, la, P, o) /\ o \in [Msgs(n) -> Results]  BY DEF SenderOk, la
  <2>2. \A k \in 1..F : Dist(la, ps[k].seq) = D + k /\ ps[k].msg = m /\ ps[k].frag = k - 1
    <3> SUFFICES ASSUME NEW k \in 1..F
                 PROVE  Dist(la, ps[k].seq) = D + k /\ ps[k].msg = m /\ ps[k].frag = k - 1
      OBVIOUS
    <3>1. k \in 0..F  BY <1>2
    <3> QED  BY <3>1, <1>4, <1>8
  <2>3. w \in [Msgs(n) -> Results]  BY <2>1 DEF Results
  <2>4. /\ \A p \in Q : p.msg = m
        /\ \A p, r \in Q : p.frag = r.frag => p = r
        /\ \E l \in Q : IsLast(n, m, l.frag) /\ \A p \in Q : Dist(la, p.seq) <= Dist(la, l.seq)
    <3>1. \A p, r \in Q : p.frag = r.frag => p = r
      <4> SUFFICES ASSUME NEW p \in Q, NEW r \in Q, p.frag = r.frag PROVE p = r
        OBVIOUS
      <4>1. PICK i \in 1..F, j \in 1..F : p = ps[i] /\ r = ps[j]  OBVIOUS
      <4>2. i - 1 = j - 1  BY <4>1, <2>2
      <4> QED  BY <4>1, <4>2, <1>2
    <3>2. F \in 1..F  BY <1>2
    <3>3. IsLast(n, m, ps[F].frag)  BY <2>2, <3>2 DEF IsLast, F
    <3>4. \A k \in 1..F : D + k <= D + F  BY <1>2, <1>7
    <3> QED  BY <3>1, <3>2, <3>3, <3>4, <2>2
  <2>5. o[m] = "unsent" /\ w = [o EXCEPT ![m] = "pending"]  OBVIOUS
  <2> HIDE DEF P, D, Q, w
  <2>6. ChainInv(n, la, P \cup Q, w)  BY <2>1, <2>4, <2>5, SendChain
  <2> QED  BY <2>3, <2>6
<1>12. /\ t.lastAckReceived = la /\ t.lastMsgSent = Plus(lm, F)
       /\ t.timers = s.timers \cup {ps[k].seq : k \in 1..F}
       /\ t.sentMsgBuf = s.sentMsgBuf \cup {[packet |-> ps[k], resends |-> Resends] : k \in 1..F}
  BY <1>1, <1>3 DEF StateOf, Sent, la, lm
<1>13. Waiting(t) = P \cup Q
  <2> DEFINE B == s.sentMsgBuf
  <2>1. t.sentMsgBuf = B \cup {[packet |-> ps[k], resends |-> Resends] : k \in 1..F}  BY <1>12
  <2> HIDE DEF B
  <2>2. ASSUME NEW e \in t.sentMsgBuf PROVE e.packet \in {x.packet : x \in B} \cup Q  BY <2>1
  <2>3. ASSUME NEW e \in B PROVE e.packet \in Waiting(t)  BY <2>1 DEF Waiting
  <2>4. ASSUME NEW k \in 1..F PROVE ps[k] \in Waiting(t)
    <3>1. [packet |-> ps[k], resends |-> Resends] \in t.sentMsgBuf  BY <2>1
    <3>2. [packet |-> ps[k], resends |-> Resends].packet = ps[k]  OBVIOUS
    <3> QED  BY <3>1, <3>2 DEF Waiting
  <2> QED  BY <2>2, <2>3, <2>4 DEF Waiting, B
<1>14. t \in StateOf(n)
  <2>1. Plus(lm, F) \in Seqs /\ {ps[k].seq : k \in 1..F} \subseteq Seqs
    <3>1. \A k \in 1..F : k \in 0..F /\ F \in 0..F  BY <1>2
    <3> QED  BY <3>1, <1>2, <1>4, <1>6
  <2>2. {[packet |-> ps[k], resends |-> Resends] : k \in 1..F} \subseteq [packet : PacketsOf(n), resends : 0..Resends]
    BY <1>9, Constants
  <2>3. t = [s EXCEPT !.lastMsgSent = Plus(lm, F), !.resetFlag = FALSE, !.sentMsgBuf = t.sentMsgBuf, !.timers = t.timers]
    BY <1>1, <1>3, <1>12 DEF StateOf, Sent, lm
  <2>4. t.sentMsgBuf \subseteq [packet : PacketsOf(n), resends : 0..Resends] /\ t.timers \subseteq Seqs
    BY <1>1, <1>12, <2>1, <2>2
  <2> QED  BY <1>1, <2>1, <2>3, <2>4 DEF StateOf
<1>15. \A e, f \in t.sentMsgBuf : e.packet = f.packet => e = f
  <2> SUFFICES ASSUME NEW e \in t.sentMsgBuf, NEW f \in t.sentMsgBuf, e.packet = f.packet PROVE e = f
    OBVIOUS
  <2>1. \A x \in s.sentMsgBuf : x.packet.msg # m  BY DEF SenderOk, ChainInv, Waiting
  <2>2. \A x \in t.sentMsgBuf : x \in s.sentMsgBuf \/ (x.packet.msg = m /\ x = [packet |-> x.packet, resends |-> Resends])
    <3> TAKE x \in t.sentMsgBuf
    <3>1. CASE x \in s.sentMsgBuf  BY <3>1
    <3>2. CASE x \notin s.sentMsgBuf
      <4>1. PICK k \in 1..F : x = [packet |-> ps[k], resends |-> Resends]  BY <3>2, <1>12
      <4>2. x.packet = ps[k] /\ ps[k].msg = m  BY <4>1, <1>4
      <4> QED  BY <4>1, <4>2
    <3> QED  BY <3>1, <3>2
  <2> QED  BY <2>1, <2>2 DEF SenderOk
<1> QED  BY <1>3, <1>9, <1>10, <1>11, <1>12, <1>13, <1>14, <1>15 DEF SenderOk

(* What a resend makes of the state: T are the timers then. *)
Resent(s, e, T) == [s EXCEPT !.timers = T,
                             !.sentMsgBuf = (@ \ {e}) \cup {[e EXCEPT !.resends = @ - 1]}]

(* The numbers of the packets that wait for an ack are those with a timer. *)
LEMMA TimersAre ==
  ASSUME NEW n, NEW s, NEW o, SenderOk(n, s, o)
  PROVE  s.timers = {e.packet.seq : e \in s.sentMsgBuf}
<1> DEFINE P == Waiting(s)
<1>1. s.timers = {p.seq : p \in P}  BY DEF SenderOk, WindowInv
<1>2. \A p : p \in P <=> \E e \in s.sentMsgBuf : p = e.packet  BY DEF Waiting
<1> HIDE DEF P
<1>3. \A q : q \in s.timers <=> \E p \in P : q = p.seq  BY <1>1
<1>4. \A q : q \in s.timers <=> \E e \in s.sentMsgBuf : q = e.packet.seq  BY <1>2, <1>3
<1> QED  BY <1>4

(* Resending a packet that waits for an ack. *)
LEMMA ResentOk ==
  ASSUME NEW n \in Nodes, NEW s, NEW o, SenderOk(n, s, o), NEW e \in s.sentMsgBuf, e.resends > 0,
         NEW T, T = s.timers \cup {e.packet.seq}
  PROVE  SenderOk(n, Resent(s, e, T), o) /\ e.packet \in PacketsOf(n) /\ Waiting(Resent(s, e, T)) = Waiting(s)
<1> DEFINE t == Resent(s, e, T)
           f == [e EXCEPT !.resends = @ - 1]
           B == s.sentMsgBuf
<1>1. s \in StateOf(n) /\ B \subseteq [packet : PacketsOf(n), resends : 0..Resends]
  BY DEF SenderOk, StateOf
<1>2. /\ e \in [packet : PacketsOf(n), resends : 0..Resends]
      /\ e = [packet |-> e.packet, resends |-> e.resends]
  BY <1>1
<1>3. f.packet = e.packet /\ f \in [packet : PacketsOf(n), resends : 0..Resends]
  <2>1. e.resends \in 0..Resends /\ e.resends - 1 \in 0..Resends  BY <1>2, Constants
  <2>2. f = [packet |-> e.packet, resends |-> e.resends - 1]  BY <1>2
  <2> HIDE DEF f
  <2> QED  BY <2>1, <2>2, <1>2
<1>4. e.packet.seq \in s.timers  BY TimersAre
<1>5. T = s.timers  BY <1>4
<1> HIDE DEF f
<1>6. t = [s EXCEPT !.timers = s.timers, !.sentMsgBuf = (B \ {e}) \cup {f}]  BY <1>5 DEF Resent, f
<1>7. /\ t.lastAckReceived = s.lastAckReceived /\ t.lastMsgSent = s.lastMsgSent /\ t.timers = s.timers
      /\ t.sentMsgBuf = (B \ {e}) \cup {f} /\ t \in StateOf(n)
  <2> DEFINE C == (B \ {e}) \cup {f}
  <2>1. C \in SUBSET [packet : PacketsOf(n), resends : 0..Resends]  BY <1>1, <1>3
  <2>2. t = [s EXCEPT !.timers = s.timers, !.sentMsgBuf = C]  BY <1>6
  <2> HIDE DEF C, t, B
  <2>3. /\ t.lastAckReceived = s.lastAckReceived /\ t.lastMsgSent = s.lastMsgSent /\ t.timers = s.timers
        /\ t.sentMsgBuf = C /\ t \in StateOf(n)
    BY <2>1, <2>2, <1>1 DEF StateOf
  <2> QED  BY <2>3 DEF C
<1> HIDE DEF t
<1>8. Waiting(t) = Waiting(s)
  <2>1. \A x \in t.sentMsgBuf : \E y \in B : y.packet = x.packet  BY <1>3, <1>7
  <2>2. \A x \in B : \E y \in t.sentMsgBuf : y.packet = x.packet
    <3> TAKE x \in B
    <3>1. CASE x = e  BY <3>1, <1>3, <1>7
    <3>2. CASE x # e  BY <3>2, <1>7
    <3> QED  BY <3>1, <3>2
  <2> HIDE DEF B
  <2>3. Waiting(t) \subseteq {x.packet : x \in B}  BY <2>1 DEF Waiting
  <2>4. {x.packet : x \in B} \subseteq Waiting(t)  BY <2>2 DEF Waiting
  <2> QED  BY <2>3, <2>4 DEF Waiting, B
<1>9. \A x, y \in t.sentMsgBuf : x.packet = y.packet => x = y
  <2>1. \A x, y \in B : x.packet = y.packet => x = y  BY DEF SenderOk
  <2> QED  BY <2>1, <1>3, <1>7
<1> QED  BY <1>2, <1>7, <1>8, <1>9 DEF SenderOk, t

(* What an acceptable ack q makes of the state. *)
AckedState(s, q) == [s EXCEPT !.lastAckReceived = q,
                              !.sentMsgBuf = @ \ Acked(s, q),
                              !.timers = @ \ Stopped(s, q)]

(* An ack the node accepts. *)
LEMMA AckedOk ==
  ASSUME NEW n \in Nodes, NEW s, NEW o, SenderOk(n, s, o), NEW q \in Seqs, Acceptable(s, q),
         NEW w, w = [m \in Msgs(n) |-> IF m \in Completed(n, Acked(s, q)) THEN "ok" ELSE o[m]]
  PROVE  /\ SenderOk(n, AckedState(s, q), w)
         /\ \A m \in Completed(n, Acked(s, q)) : m \in Msgs(n) /\ o[m] = "pending"
<1> DEFINE la == s.lastAckReceived
           lm == s.lastMsgSent
           P == Waiting(s)
           T == s.timers
           A == Acked(s, q)
           R == {e.packet : e \in A}
           C == Completed(n, A)
           t == AckedState(s, q)
           b == Dist(la, q)
<1>1. s \in StateOf(n) /\ la \in Seqs /\ lm \in Seqs /\ T \subseteq Seqs
      /\ s.sentMsgBuf \in SUBSET [packet : PacketsOf(n), resends : 0..Resends]
  BY DEF SenderOk, StateOf
<1>2. q # la /\ Dist(la, q) <= Dist(la, lm)  BY DEF Acceptable
<1>3. A \subseteq s.sentMsgBuf /\ \A e \in s.sentMsgBuf : e \in A <=> Dist(e.packet.seq, q) < Window  BY DEF Acked
<1>4. WindowInv(la, lm, P, T) /\ ChainInv(n, la, P, o) /\ o \in [Msgs(n) -> Results]
      /\ \A e, f \in s.sentMsgBuf : e.packet = f.packet => e = f
  BY DEF SenderOk
<1>5. t.lastAckReceived = q /\ t.lastMsgSent = lm /\ t.timers = T \ Stopped(s, q)
      /\ t.sentMsgBuf = s.sentMsgBuf \ A /\ t \in StateOf(n)
  BY <1>1 DEF AckedState, StateOf
<1>6. \A p : p \in P <=> \E e \in s.sentMsgBuf : p = e.packet  BY DEF Waiting
<1>7. \A p : p \in R <=> \E e \in A : p = e.packet  OBVIOUS
<1>8. Waiting(t) = P \ R
  <2>1. \A p : p \in Waiting(t) <=> \E e \in s.sentMsgBuf \ A : p = e.packet  BY <1>5 DEF Waiting
  <2> HIDE DEF P, R, A, t
  <2>2. \A p : p \in Waiting(t) <=> p \in P \ R  BY <2>1, <1>3, <1>4, <1>6, <1>7
  <2> QED  BY <2>2
<1>9. R \in SUBSET P /\ \A p \in P : p \in R <=> Dist(p.seq, q) < Window
  <2> HIDE DEF P, R, A
  <2> QED  BY <1>3, <1>6, <1>7
<1>10. Stopped(s, q) = {p.seq : p \in R}
  <2>1. Stopped(s, q) = {e.packet.seq : e \in A}  BY DEF Stopped
  <2> HIDE DEF A, R
  <2>2. \A x : x \in Stopped(s, q) <=> \E p \in R : x = p.seq  BY <2>1, <1>7
  <2> QED  BY <2>2
<1>11. \A m : m \in C <=> \E p \in R : m = p.msg /\ IsLast(n, p.msg, p.frag)
  <2>1. C = {e.packet.msg : e \in {x \in A : IsLast(n, x.packet.msg, x.packet.frag)}}  BY DEF Completed
  <2> HIDE DEF A, R, C
  <2> QED  BY <2>1, <1>7
<1> HIDE DEF P, R, T, A, C, t, la, lm
<1>12. /\ \A p \in P : p \in R <=> Dist(la, p.seq) <= Dist(la, q)
       /\ \A p \in P \ R : Dist(q, p.seq) = Dist(la, p.seq) - Dist(la, q)
       /\ WindowInv(q, lm, P \ R, T \ Stopped(s, q))
  BY <1>1, <1>2, <1>4, <1>9, <1>10, AckWindow
<1>13. b \in Int /\ \A p \in P : Dist(la, p.seq) \in Int
  BY <1>1, <1>4, DistIs DEF WindowInv, Seqs
<1>14. ChainInv(n, q, P \ R, w)
  <2>1. R \in SUBSET P  BY <1>9
  <2>3. ASSUME NEW p \in P \ R, NEW l \in P, Dist(la, p.seq) <= Dist(la, l.seq)
        PROVE  l \notin R /\ Dist(q, p.seq) <= Dist(q, l.seq)
    <3>1. /\ b \in Int /\ Dist(la, p.seq) \in Int /\ Dist(la, l.seq) \in Int
          /\ ~(Dist(la, p.seq) <= b) /\ Dist(q, p.seq) = Dist(la, p.seq) - b
      BY <1>12, <1>13
    <3> HIDE DEF b
    <3>2. ~(Dist(la, l.seq) <= b)  BY <2>3, <3>1
    <3>3. l \notin R /\ Dist(q, l.seq) = Dist(la, l.seq) - b  BY <3>2, <1>12 DEF b
    <3> QED  BY <2>3, <3>1, <3>3
  <2>4. \A m \in Msgs(n) : w[m] = IF \E p \in R : p.msg = m /\ IsLast(n, m, p.frag) THEN "ok" ELSE o[m]
    <3> SUFFICES ASSUME NEW m \in Msgs(n)
                 PROVE  w[m] = IF \E p \in R : p.msg = m /\ IsLast(n, m, p.frag) THEN "ok" ELSE o[m]
      OBVIOUS
    <3>1. w[m] = IF m \in C THEN "ok" ELSE o[m]  BY DEF C, A
    <3>2. m \in C <=> \E p \in R : p.msg = m /\ IsLast(n, m, p.frag)  BY <1>11
    <3> QED  BY <3>1, <3>2
  <2>5. \A p \in P \ R, l \in P : Dist(la, p.seq) <= Dist(la, l.seq) =>
          l \notin R /\ Dist(q, p.seq) <= Dist(q, l.seq)
    BY <2>3
  <2>6. o \in [Msgs(n) -> Results] /\ ChainInv(n, la, P, o)  BY <1>4
  <2> QED  BY <2>1, <2>4, <2>5, <2>6, AckChain
<1>15. w \in [Msgs(n) -> Results]  BY <1>4 DEF Results
<1>16. \A m \in C : m \in Msgs(n) /\ o[m] = "pending"
  <2>1. \A p \in P : p.msg \in Msgs(n) /\ o[p.msg] = "pending"  BY <1>4, PendingIs
  <2> QED  BY <2>1, <1>9, <1>11
<1>17. \A e, f \in t.sentMsgBuf : e.packet = f.packet => e = f  BY <1>4, <1>5
<1>18. SenderOk(n, t, w)  BY <1>5, <1>8, <1>10, <1>12, <1>14, <1>15, <1>17 DEF SenderOk
<1> QED  BY <1>16, <1>18 DEF t, C, A

(* What receiving a packet makes of the state. *)
Received(s, r, a, b, f) == [s EXCEPT !.recvMsgBuf = b, !.fragmMsgBuf = f,
                                     !.lastMsgReceived = r, !.lastAckSent = a,
                                     !.resetFlag = FALSE]

(* Receiving does not touch the sending half. *)
LEMMA ReceivedOk ==
  ASSUME NEW n \in Nodes, NEW s, NEW o, SenderOk(n, s, o),
         NEW r \in Seqs, NEW a \in Seqs, NEW b \in BufferOf(n), NEW f \in BufferOf(n)
  PROVE  SenderOk(n, Received(s, r, a, b, f), o)
<1> DEFINE t == Received(s, r, a, b, f)
<1>1. s \in StateOf(n)  BY DEF SenderOk
<1>2. t \in StateOf(n) /\ t.lastAckReceived = s.lastAckReceived /\ t.lastMsgSent = s.lastMsgSent
      /\ t.timers = s.timers /\ t.sentMsgBuf = s.sentMsgBuf
  BY <1>1 DEF StateOf, Received
<1> HIDE DEF t
<1>3. Waiting(t) = Waiting(s)  BY <1>2 DEF Waiting
<1>4. SenderOk(n, t, o)  BY <1>2, <1>3 DEF SenderOk
<1> QED  BY <1>4 DEF t

-----------------------------------------------------------------------------
(* The slots of a buffer. *)

(* The first of some slots. *)
LEMMA FirstSlotIs ==
  ASSUME NEW S \in SUBSET Slots
  PROVE  /\ S = {} => FirstSlot(S) = 0
         /\ S # {} => FirstSlot(S) \in S
         /\ FirstSlot(S) \in Slots \cup {0}
<1>1. S # {} => \E i \in S : \A j \in S : i <= j
  <2>1. S \in SUBSET Nat  BY Constants DEF Slots
  <2> QED  BY <2>1, LeastOf
<1> QED  BY <1>1 DEF FirstSlot

-----------------------------------------------------------------------------
(* What a receiver works on. *)
WorkOf(n) == [recvMsgBuf : BufferOf(n), fragmMsgBuf : BufferOf(n),
              up : Seq(Msgs(Peer(n)) \cup {Mixed}), last : Seqs]

(* A slot a look-up finds holds a packet. *)
LEMMA FreeSlotIs ==
  ASSUME NEW buf
  PROVE  FreeSlot(buf) \in Slots \cup {0} /\ (FreeSlot(buf) # 0 => buf[FreeSlot(buf)] = Free)
<1> DEFINE S == {i \in Slots : buf[i] = Free}
<1>1. S \in SUBSET Slots /\ FreeSlot(buf) = FirstSlot(S)  BY DEF FreeSlot
<1> QED  BY <1>1, FirstSlotIs

LEMMA FragmentSlotIs ==
  ASSUME NEW buf, NEW q, NEW f
  PROVE  /\ FragmentSlot(buf, q, f) \in Slots \cup {0}
         /\ LET i == FragmentSlot(buf, q, f)
            IN  i # 0 => i \in Slots /\ buf[i] # Free /\ buf[i].seq = q /\ buf[i].frag = f
<1> DEFINE S == {i \in Slots : buf[i] # Free /\ buf[i].seq = q /\ buf[i].frag = f}
<1>1. S \in SUBSET Slots /\ FragmentSlot(buf, q, f) = FirstSlot(S)  BY DEF FragmentSlot
<1>2. 0 \notin S  BY Constants DEF Slots
<1> QED  BY <1>1, <1>2, FirstSlotIs

LEMMA PutOk ==
  ASSUME NEW n, NEW buf \in BufferOf(n), NEW p \in PacketsOf(Peer(n))
  PROVE  Put(buf, p) \in BufferOf(n)
<1> DEFINE i == FreeSlot(buf)
<1>1. Put(buf, p) = [buf EXCEPT ![i] = p]  BY DEF Put
<1> HIDE DEF i
<1> QED  BY <1>1 DEF BufferOf

(* Taking a packet keeps the buffers buffers. *)
LEMMA TakeOk ==
  ASSUME NEW n \in Nodes, NEW d \in WorkOf(n), NEW p \in PacketsOf(Peer(n)), NEW new \in BOOLEAN, NEW garbage
  PROVE  Take(n, d, p, new, garbage) \in WorkOf(n)
<1> DEFINE buf == IF new THEN Put(d.fragmMsgBuf, p) ELSE d.fragmMsgBuf
           firsts == FirstFragment(buf, p, IF new THEN FreeSlot(d.fragmMsgBuf) ELSE garbage)
           run == Run(n, buf, Plus(p.seq, -p.frag))
           x == CHOOSE y \in firsts : TRUE
           used == {x.slot} \cup {run[f] : f \in DOMAIN run}
           parts == {x.packet.msg} \cup {buf[run[f]].msg : f \in DOMAIN run}
           whole == IF parts = {p.msg} THEN p.msg ELSE Mixed
           kept == [i \in Slots |-> IF i \in used THEN Free ELSE buf[i]]
<1>1. p.msg \in Msgs(Peer(n))  BY DEF PacketsOf
<1>2. d.fragmMsgBuf \in BufferOf(n) /\ d.recvMsgBuf \in BufferOf(n) /\ d.last \in Seqs
      /\ d.up \in Seq(Msgs(Peer(n)) \cup {Mixed})
  BY DEF WorkOf
<1>3. buf \in BufferOf(n)  BY <1>2, PutOk
<1>4. whole \in Msgs(Peer(n)) \cup {Mixed}  BY <1>1
<1>5. kept \in BufferOf(n)
  <2> HIDE DEF used, buf
  <2> QED  BY <1>3 DEF BufferOf
<1>6. Append(d.up, p.msg) \in Seq(Msgs(Peer(n)) \cup {Mixed}) /\ Append(d.up, whole) \in Seq(Msgs(Peer(n)) \cup {Mixed})
  <2> HIDE DEF whole
  <2> QED  BY <1>1, <1>2, <1>4, AppendProperties
<1>7. Take(n, d, p, new, garbage) \in {[d EXCEPT !.up = Append(d.up, p.msg)],
                                       [d EXCEPT !.fragmMsgBuf = buf],
                                       [d EXCEPT !.fragmMsgBuf = kept, !.up = Append(d.up, whole)]}
  BY DEF Take
<1> HIDE DEF buf, kept, whole
<1> QED  BY <1>2, <1>3, <1>5, <1>6, <1>7 DEF WorkOf

LEMMA DrainRoundOk ==
  ASSUME NEW n \in Nodes, NEW d \in WorkOf(n), NEW garbage
  PROVE  DrainRound(n, d, garbage) \in WorkOf(n)
<1> DEFINE S == {j \in Slots : d.recvMsgBuf[j] # Free /\ d.recvMsgBuf[j].seq = Plus(d.last, 1)}
           i == FirstSlot(S)
           p == d.recvMsgBuf[i]
           t == Take(n, d, p, FALSE, garbage)
<1>1. CASE i = 0  BY <1>1 DEF DrainRound
<1>2. CASE i # 0
  <2>1. S # {} /\ i \in S  BY <1>2, FirstSlotIs
  <2>2. i \in Slots /\ p # Free  BY <2>1
  <2>3. p \in PacketsOf(Peer(n))  BY <2>2 DEF WorkOf, BufferOf
  <2>4. p.seq \in Seqs  BY <2>3 DEF PacketsOf, DataPackets
  <2>5. t \in WorkOf(n)  BY <2>3, TakeOk
  <2>6. DrainRound(n, d, garbage) = [t EXCEPT !.recvMsgBuf[i] = Free, !.last = p.seq]
    BY <1>2 DEF DrainRound
  <2> HIDE DEF t, i, p
  <2>7. [t.recvMsgBuf EXCEPT ![i] = Free] \in BufferOf(n)  BY <2>5, <2>2 DEF WorkOf, BufferOf
  <2>8. DrainRound(n, d, garbage) = [t EXCEPT !.recvMsgBuf = [t.recvMsgBuf EXCEPT ![i] = Free], !.last = p.seq]
    BY <2>5, <2>6 DEF WorkOf
  <2> QED  BY <2>4, <2>5, <2>7, <2>8 DEF WorkOf
<1> QED  BY <1>1, <1>2

(* The rounds of the loop exist, and what a round keeps the loop keeps. *)
LEMMA DrainKeeps ==
  ASSUME NEW n \in Nodes, NEW start \in WorkOf(n), NEW garbage, NEW D, start \in D,
         \A d \in WorkOf(n) : d \in D => DrainRound(n, d, garbage) \in D
  PROVE  Drain(n, start, garbage) \in WorkOf(n) /\ Drain(n, start, garbage) \in D
<1> DEFINE W == WorkOf(n)
           G == [k \in 1..Window |-> [d \in W |-> DrainRound(n, d, garbage)]]
           round == CHOOSE r : r = [k \in 0..Window |-> IF k = 0 THEN start ELSE DrainRound(n, r[k - 1], garbage)]
<1>1. Window \in Nat /\ \A k \in 1..Window : k - 1 \in 0..Window /\ k # 0  BY Constants
<1>2. G \in [1..Window -> [W -> W]]  BY DrainRoundOk
<1> DEFINE g == Iteration(W, start, Window, G)
<1>3. g \in [0..Window -> W] /\ g[0] = start /\ \A k \in 1..Window : g[k] = G[k][g[k-1]]
  <2> HIDE DEF G, W, round
  <2>1. start \in W /\ Window \in Nat /\ G \in [1..Window -> [W -> W]]  BY <1>1, <1>2 DEF W
  <2>2. IsIteration(g, W, start, Window, G)  BY <2>1, Iterates
  <2> QED  BY <2>2 DEF IsIteration
<1> HIDE DEF g
<1>4. \A k \in 1..Window : g[k] = DrainRound(n, g[k-1], garbage)
  <2> SUFFICES ASSUME NEW k \in 1..Window PROVE g[k] = DrainRound(n, g[k-1], garbage)
    OBVIOUS
  <2>1. g[k-1] \in W  BY <1>1, <1>3
  <2>2. g[k] = G[k][g[k-1]]  BY <1>3
  <2> QED  BY <2>1, <2>2
<1>5. g = [k \in 0..Window |-> IF k = 0 THEN start ELSE DrainRound(n, g[k - 1], garbage)]
  BY <1>1, <1>3, <1>4
<1>6. round = [k \in 0..Window |-> IF k = 0 THEN start ELSE DrainRound(n, round[k - 1], garbage)]
  BY <1>5
<1>7. Drain(n, start, garbage) = round[Window]  BY DEF Drain
<1> HIDE DEF round
<1>8. round[0] = start /\ \A k \in 1..Window : round[k] = DrainRound(n, round[k - 1], garbage)
  BY <1>1, <1>6
<1>9. \A k \in 0..Window : round[k] \in W \cap D
  <2>1. round[0] \in W \cap D  BY <1>8
  <2>2. \A k \in 1..Window : round[k-1] \in W \cap D => round[k] \in W \cap D  BY <1>8, DrainRoundOk
  <2> HIDE DEF W
  <2> QED  BY <2>1, <2>2, <1>1, Stays
<1> QED  BY <1>1, <1>7, <1>9

LEMMA DrainOk ==
  ASSUME NEW n \in Nodes, NEW start \in WorkOf(n), NEW garbage
  PROVE  Drain(n, start, garbage) \in WorkOf(n)
<1> DEFINE D == WorkOf(n)
<1>1. start \in D /\ \A d \in WorkOf(n) : d \in D => DrainRound(n, d, garbage) \in D  BY DrainRoundOk
<1> HIDE DEF D
<1> QED  BY <1>1, DrainKeeps

(* What accepting a packet gives. *)
LEMMA AcceptOk ==
  ASSUME NEW n \in Nodes, NEW s \in StateOf(n), NEW p \in PacketsOf(Peer(n)), NEW garbage,
         NEW a, a = Accept(n, s, p, garbage)
  PROVE  a.d \in WorkOf(n) /\ a.received \in Seqs /\ AckNumber(a) \in Seqs
<1> DEFINE d == [recvMsgBuf |-> s.recvMsgBuf, fragmMsgBuf |-> s.fragmMsgBuf, up |-> <<>>, last |-> s.lastAckSent]
           took == Take(n, d, p, TRUE, garbage)
           taken == [took EXCEPT !.last = p.seq]
           drained == Drain(n, taken, garbage)
           ahead == [d EXCEPT !.recvMsgBuf = Put(s.recvMsgBuf, p), !.fragmMsgBuf = took.fragmMsgBuf]
<1>1. s.recvMsgBuf \in BufferOf(n) /\ s.fragmMsgBuf \in BufferOf(n) /\ s.lastAckSent \in Seqs
      /\ s.lastMsgReceived \in Seqs /\ p.seq \in Seqs
  BY DEF StateOf, PacketsOf, DataPackets
<1>2. d \in WorkOf(n)
  <2>1. <<>> \in Seq(Msgs(Peer(n)) \cup {Mixed})  OBVIOUS
  <2> QED  BY <1>1, <2>1 DEF WorkOf
<1>3. took \in WorkOf(n)
  <2> HIDE DEF d
  <2> QED  BY <1>2, TakeOk
<1>4. taken \in WorkOf(n)
  <2> HIDE DEF took
  <2> QED  BY <1>1, <1>3 DEF WorkOf
<1>5. drained \in WorkOf(n)
  <2> HIDE DEF taken
  <2> QED  BY <1>4, DrainOk
<1>6. ahead \in WorkOf(n)
  <2>1. Put(s.recvMsgBuf, p) \in BufferOf(n)  BY <1>1, PutOk
  <2>2. took.fragmMsgBuf \in BufferOf(n)  BY <1>3 DEF WorkOf
  <2> HIDE DEF took, d
  <2> QED  BY <1>2, <2>1, <2>2 DEF WorkOf
<1>7. \/ InSequence(s, p) /\ a = [d |-> taken, received |-> p.seq]
      \/ InSequence(s, p) /\ a = [d |-> drained, received |-> s.lastMsgReceived]
      \/ Ahead(s, p) /\ a = [d |-> ahead, received |-> p.seq]
      \/ ~InSequence(s, p) /\ ~Ahead(s, p) /\ a = [d |-> d, received |-> s.lastMsgReceived]
  BY DEF Accept, Ahead
<1> HIDE DEF d, taken, drained, ahead
<1>8. a.d \in WorkOf(n) /\ a.received \in Seqs  BY <1>1, <1>2, <1>4, <1>5, <1>6, <1>7
<1> QED  BY <1>8 DEF AckNumber, WorkOf

-----------------------------------------------------------------------------
(* The network. *)
OnTheWay(n) == PacketsOf(Peer(n)) \cup AckPackets
ChannelOk(n, q) == q \in Seq(OnTheWay(n)) /\ Len(q) <= ChannelBound

LEMMA FitOk ==
  ASSUME NEW n, NEW q \in Seq(OnTheWay(n))
  PROVE  ChannelOk(n, Fit(q))
<1> DEFINE k == IF Len(q) < ChannelBound THEN Len(q) ELSE ChannelBound
           S == OnTheWay(n)
<1>1. Len(q) \in Nat /\ k \in Nat /\ k <= Len(q) /\ k <= ChannelBound /\ k \in Int /\ 1 \in Int  BY Constants
<1> HIDE DEF k, S
<1>2. \A i \in 1..k : q[i] \in S
  <2>1. q \in Seq(S)  BY DEF S
  <2> QED  BY <1>1, <2>1
<1>3. SubSeq(q, 1, k) \in Seq(S) /\ Len(SubSeq(q, 1, k)) = IF 1 <= k THEN k - 1 + 1 ELSE 0
  BY <1>1, <1>2, SubSeqProperties
<1>4. Fit(q) = SubSeq(q, 1, k)  BY DEF Fit, k
<1>5. Len(Fit(q)) <= ChannelBound  BY <1>1, <1>3, <1>4, Constants
<1> QED  BY <1>3, <1>4, <1>5 DEF ChannelOk, S

LEMMA TailOk ==
  ASSUME NEW n, NEW q, ChannelOk(n, q), q # <<>>
  PROVE  ChannelOk(n, Tail(q)) /\ Head(q) \in OnTheWay(n)
<1>1. q \in Seq(OnTheWay(n)) /\ Len(q) <= ChannelBound  BY DEF ChannelOk
<1>2. Tail(q) \in Seq(OnTheWay(n)) /\ Len(Tail(q)) = Len(q) - 1 /\ Head(q) \in OnTheWay(n)
  BY <1>1, HeadTailProperties
<1>3. Len(Tail(q)) <= ChannelBound  BY <1>1, <1>2, Constants
<1> QED  BY <1>2, <1>3 DEF ChannelOk

LEMMA AddOk ==
  ASSUME NEW n, NEW q, ChannelOk(n, q), NEW ps \in Seq(OnTheWay(n))
  PROVE  ChannelOk(n, Fit(q \o ps))
<1>1. q \in Seq(OnTheWay(n))  BY DEF ChannelOk
<1>2. q \o ps \in Seq(OnTheWay(n))  BY <1>1, ConcatProperties
<1> QED  BY <1>2, FitOk

NetInv == DOMAIN net = Nodes /\ \A n \in Nodes : ChannelOk(n, net[n])

(* Packets of n are on their way to its peer. *)
LEMMA SendNet ==
  ASSUME NetInv, NEW n \in Nodes, NEW ps \in Seq(OnTheWay(Peer(n))), Send(n, ps)
  PROVE  NetInv'
<1>1. Peer(n) \in Nodes  BY Peers
<1>2. net' = [net EXCEPT ![Peer(n)] = Fit(net[Peer(n)] \o ps)]  BY DEF Send
<1>3. ChannelOk(Peer(n), net[Peer(n)])  BY <1>1 DEF NetInv
<1>4. ChannelOk(Peer(n), Fit(net[Peer(n)] \o ps))  BY <1>3, AddOk
<1>5. DOMAIN net' = Nodes /\ \A m \in Nodes : ChannelOk(m, net'[m])  BY <1>1, <1>2, <1>4 DEF NetInv
<1> QED  BY <1>5 DEF NetInv

(* A packet has been taken off, and an answer is on its way. *)
LEMMA AnswerNet ==
  ASSUME NetInv, NEW n \in Nodes, net[n] # <<>>, NEW ps \in Seq(OnTheWay(Peer(n))), Answer(n, ps)
  PROVE  NetInv'
<1>1. Peer(n) \in Nodes /\ Peer(n) # n  BY Peers
<1>2. net' = [net EXCEPT ![n] = Tail(net[n]), ![Peer(n)] = Fit(net[Peer(n)] \o ps)]  BY <1>1 DEF Answer, NetInv
<1>3. ChannelOk(Peer(n), net[Peer(n)]) /\ ChannelOk(n, net[n])  BY <1>1 DEF NetInv
<1>4. ChannelOk(Peer(n), Fit(net[Peer(n)] \o ps))  BY <1>3, AddOk
<1>5. ChannelOk(n, Tail(net[n]))  BY <1>3, TailOk
<1>6. DOMAIN net' = Nodes /\ \A m \in Nodes : ChannelOk(m, net'[m])  BY <1>1, <1>2, <1>4, <1>5 DEF NetInv
<1> QED  BY <1>6 DEF NetInv

LEMMA TailNet ==
  ASSUME NetInv, NEW n \in Nodes, net[n] # <<>>, net' = [net EXCEPT ![n] = Tail(@)]
  PROVE  NetInv'
<1>1. ChannelOk(n, Tail(net[n]))  BY TailOk DEF NetInv
<1>2. DOMAIN net' = Nodes /\ \A m \in Nodes : ChannelOk(m, net'[m])  BY <1>1 DEF NetInv
<1> QED  BY <1>2 DEF NetInv

-----------------------------------------------------------------------------
(* The inductive invariant. *)
SendersInv == /\ DOMAIN node = Nodes /\ DOMAIN outcome = Nodes
              /\ \A n \in Nodes : SenderOk(n, node[n], outcome[n])
UsersInv == /\ DOMAIN delivered = Nodes
            /\ \A n \in Nodes : delivered[n] \in Seq(Msgs(Peer(n)) \cup {Mixed})
TransportInv == SendersInv /\ NetInv /\ UsersInv /\ broken \in BOOLEAN /\ expiries \in 0..MaxExpiries

(* A step of n leaves the other node alone. *)
LEMMA NodeStep ==
  ASSUME SendersInv, NEW n \in Nodes, NEW t, NEW w, SenderOk(n, t, w),
         node' = [node EXCEPT ![n] = t], outcome' = [outcome EXCEPT ![n] = w]
  PROVE  SendersInv'
<1>1. DOMAIN node' = Nodes /\ DOMAIN outcome' = Nodes  BY DEF SendersInv
<1>2. \A m \in Nodes : SenderOk(m, node'[m], outcome'[m])  BY DEF SendersInv
<1> QED  BY <1>1, <1>2 DEF SendersInv

(* A step of n that tells its user nothing. *)
LEMMA QuietStep ==
  ASSUME SendersInv, NEW n \in Nodes, NEW t, SenderOk(n, t, outcome[n]),
         node' = [node EXCEPT ![n] = t], UNCHANGED outcome
  PROVE  SendersInv'
<1>1. DOMAIN node' = Nodes /\ DOMAIN outcome' = Nodes  BY DEF SendersInv
<1>2. \A m \in Nodes : SenderOk(m, node'[m], outcome'[m])  BY DEF SendersInv
<1> QED  BY <1>1, <1>2 DEF SendersInv

LEMMA ResetStep ==
  ASSUME SendersInv, NEW n \in Nodes, NEW flag \in BOOLEAN, ResetNode(n, flag)
  PROVE  SendersInv' /\ broken' = TRUE /\ UNCHANGED delivered
<1> DEFINE w == [m \in Msgs(n) |-> IF m \in InFlight(node[n]) THEN "fail" ELSE outcome[n][m]]
<1>1. node' = [node EXCEPT ![n] = ResetState(flag)] /\ outcome' = [outcome EXCEPT ![n] = w]
  BY DEF ResetNode, Failed
<1>2. SenderOk(n, ResetState(flag), w)  BY ResetOk DEF SendersInv
<1> HIDE DEF w
<1>3. SendersInv'  BY <1>1, <1>2, NodeStep
<1> QED  BY <1>3 DEF ResetNode

LEMMA StepSendMsg ==
  ASSUME TransportInv, NEW n \in Nodes, NEW m \in Msgs(n), SendMsg(n, m)
  PROVE  TransportInv'
<1> DEFINE s == node[n]
           ps == Packets(n, m, s.lastMsgSent, s.resetFlag)
           w == [outcome[n] EXCEPT ![m] = "pending"]
           t == Sent(s, ps)
<1>1. outcome[n][m] = "unsent" /\ Dist(s.lastAckReceived, s.lastMsgSent) + Len(ps) <= Window
      /\ Send(n, ps) /\ UNCHANGED <<delivered, broken, expiries>>
  BY DEF SendMsg
<1>2. node' = [node EXCEPT ![n] = t]  BY Zenon DEF SendMsg, Sent
<1>3. outcome' = [outcome EXCEPT ![n] = w]  BY DEF SendMsg
<1>4. SenderOk(n, s, outcome[n]) /\ SendersInv /\ NetInv  BY DEF TransportInv, SendersInv
<1>5. DOMAIN ps = 1..Len(ps) /\ Len(ps) \in Nat  BY PacketsAre, MessagesOf
<1> HIDE DEF s, ps, w, t
<1>6. SenderOk(n, t, w) /\ \A k \in DOMAIN ps : ps[k] \in PacketsOf(n)
  BY <1>1, <1>4, SendOk DEF ps, t, w
<1>7. SendersInv'  BY <1>2, <1>3, <1>4, <1>6, NodeStep
<1>8. ps \in Seq(OnTheWay(Peer(n)))
  <2>1. Peer(Peer(n)) = n  BY Peers
  <2>2. \A k \in 1..Len(ps) : ps[k] \in OnTheWay(Peer(n))  BY <1>5, <1>6, <2>1 DEF OnTheWay
  <2>3. ps = [k \in 1..Len(ps) |-> ps[k]]  BY PacketsAre, <1>5 DEF ps
  <2> QED  BY <1>5, <2>2, <2>3
<1>9. NetInv'  BY <1>1, <1>4, <1>8, SendNet
<1> QED  BY <1>1, <1>7, <1>9 DEF TransportInv, UsersInv

(* A message timer that fires finds its packet: it is sent again, or n gives its peer up. *)
LEMMA TimerCases ==
  ASSUME TransportInv, NEW n \in Nodes, NEW q \in Seqs, MsgTimerFired(n, q)
  PROVE  /\ UNCHANGED expiries
         /\ \/ ResetNode(n, TRUE) /\ UNCHANGED net
            \/ \E e \in node[n].sentMsgBuf :
                 /\ e.resends > 0
                 /\ node' = [node EXCEPT ![n] = Resent(node[n], e, node[n].timers \cup {e.packet.seq})]
                 /\ Send(n, <<e.packet>>)
                 /\ UNCHANGED <<outcome, delivered, broken>>
<1> DEFINE s == node[n]
           due == {e \in s.sentMsgBuf : e.packet.seq = q}
<1>1. SenderOk(n, s, outcome[n])  BY DEF TransportInv, SendersInv
<1>2. q \in s.timers /\ UNCHANGED expiries  BY DEF MsgTimerFired
<1>3. due # {}  BY <1>1, <1>2, TimersAre
<1>4. \E e \in due :
        \/ /\ CanResend(e)
           /\ node' = [node EXCEPT ![n] = Resent(s, e, Rearmed(s.timers, q))]
           /\ Send(n, <<e.packet>>)
           /\ UNCHANGED <<outcome, delivered, broken>>
        \/ ResetNode(n, TRUE) /\ UNCHANGED net
  BY <1>3, Zenon DEF MsgTimerFired, Resent
<1>5. PICK e \in s.sentMsgBuf :
        /\ e.packet.seq = q
        /\ \/ /\ CanResend(e)
              /\ node' = [node EXCEPT ![n] = Resent(s, e, Rearmed(s.timers, q))]
              /\ Send(n, <<e.packet>>)
              /\ UNCHANGED <<outcome, delivered, broken>>
           \/ ResetNode(n, TRUE) /\ UNCHANGED net
  BY <1>4
<1>6. Rearmed(s.timers, q) = s.timers \cup {e.packet.seq}  BY <1>5 DEF Rearmed
<1> HIDE DEF s
<1>7. CanResend(e) => e.resends > 0  BY DEF CanResend
<1> QED  BY <1>2, <1>5, <1>6, <1>7 DEF s

LEMMA StepMsgTimerFired ==
  ASSUME TransportInv, NEW n \in Nodes, NEW q \in Seqs, MsgTimerFired(n, q)
  PROVE  TransportInv'
<1> DEFINE s == node[n]
<1>1. SenderOk(n, s, outcome[n]) /\ SendersInv /\ NetInv  BY DEF TransportInv, SendersInv
<1>2. UNCHANGED expiries  BY TimerCases
<1>3. CASE ResetNode(n, TRUE) /\ UNCHANGED net
  <2>1. SendersInv' /\ broken' = TRUE /\ UNCHANGED delivered  BY <1>1, <1>3, ResetStep
  <2> QED  BY <2>1, <1>2, <1>3 DEF TransportInv, UsersInv, NetInv
<1>4. CASE ~(ResetNode(n, TRUE) /\ UNCHANGED net)
  <2>1. PICK e \in s.sentMsgBuf : /\ e.resends > 0
                                  /\ node' = [node EXCEPT ![n] = Resent(s, e, s.timers \cup {e.packet.seq})]
                                  /\ Send(n, <<e.packet>>)
                                  /\ UNCHANGED <<outcome, delivered, broken>>
    BY <1>4, TimerCases
  <2> DEFINE T == s.timers \cup {e.packet.seq}
  <2>2. node' = [node EXCEPT ![n] = Resent(s, e, T)]  BY <2>1
  <2>3. T = s.timers \cup {e.packet.seq}  OBVIOUS
  <2> HIDE DEF T, s
  <2>4. SenderOk(n, Resent(s, e, T), outcome[n]) /\ e.packet \in PacketsOf(n)  BY <1>1, <2>1, <2>3, ResentOk
  <2>5. SendersInv'  BY <1>1, <2>1, <2>2, <2>4, QuietStep
  <2>6. <<e.packet>> \in Seq(OnTheWay(Peer(n)))
    <3>1. Peer(Peer(n)) = n  BY Peers
    <3>2. e.packet \in OnTheWay(Peer(n))  BY <2>4, <3>1 DEF OnTheWay
    <3> QED  BY <3>2
  <2>7. NetInv'  BY <1>1, <2>1, <2>6, SendNet
  <2> QED  BY <1>2, <2>1, <2>5, <2>7 DEF TransportInv, UsersInv
<1> QED  BY <1>3, <1>4

LEMMA StepKeepAliveExpired ==
  ASSUME TransportInv, NEW n \in Nodes, KeepAliveExpired(n)
  PROVE  TransportInv'
<1>1. SendersInv' /\ broken' = TRUE /\ UNCHANGED delivered  BY ResetStep DEF TransportInv, KeepAliveExpired
<1>2. expiries' \in 0..MaxExpiries  BY Constants DEF TransportInv, KeepAliveExpired
<1> QED  BY <1>1, <1>2 DEF TransportInv, UsersInv, NetInv, KeepAliveExpired

LEMMA StepLose ==
  ASSUME TransportInv, NEW n \in Nodes, Lose(n)
  PROVE  TransportInv'
<1>1. NetInv'  BY TailNet DEF TransportInv, Lose
<1> QED  BY <1>1 DEF TransportInv, UsersInv, SendersInv, Lose

(* Data p that arrives is accepted, or a buffer has no room for it and n resets; s is the state of n *)
(* once a reset the packet announces has been done.                                                  *)
StateFor(n, p) == IF p.reset THEN ResetState(FALSE) ELSE node[n]
Accepts(n, s, p) ==
  /\ \E a \in {Accept(n, s, p, garbage) : garbage \in Slots \cup {0}} :
       /\ node' = [node EXCEPT ![n] = Received(s, a.received, AckNumber(a), a.d.recvMsgBuf, a.d.fragmMsgBuf)]
       /\ delivered' = [delivered EXCEPT ![n] = @ \o a.d.up]
       /\ Answer(n, <<Ack(AckNumber(a), s.resetFlag)>>)
  /\ outcome' = IF p.reset THEN Failed(n) ELSE outcome
  /\ broken' = (broken \/ p.reset)

LEMMA DataCases ==
  ASSUME TransportInv, NEW n \in Nodes, DataArrived(n)
  PROVE  /\ net[n] # <<>> /\ Head(net[n]) \in PacketsOf(Peer(n)) /\ Head(net[n]).reset \in BOOLEAN
         /\ UNCHANGED expiries
         /\ \/ ResetNode(n, TRUE) /\ net' = [net EXCEPT ![n] = Tail(@)]
            \/ Accepts(n, StateFor(n, Head(net[n])), Head(net[n]))
<1> DEFINE p == Head(net[n])
           s == StateFor(n, p)
<1>1. net[n] # <<>> /\ p.kind = "data" /\ UNCHANGED expiries  BY DEF DataArrived, Receive
<1>2. p \in PacketsOf(Peer(n))
  <2>1. p \in OnTheWay(n)  BY <1>1, TailOk DEF TransportInv, NetInv
  <2>2. p \notin AckPackets  BY <1>1 DEF AckPackets
  <2> QED  BY <2>1, <2>2 DEF OnTheWay
<1>3. p.reset \in BOOLEAN  BY <1>2 DEF PacketsOf, DataPackets
<1>4. (ResetNode(n, TRUE) /\ net' = [net EXCEPT ![n] = Tail(@)]) \/ Accepts(n, s, p)
  BY Zenon DEF DataArrived, Received, StateFor, Accepts
<1> QED  BY <1>1, <1>2, <1>3, <1>4

LEMMA StepDataArrived ==
  ASSUME TransportInv, NEW n \in Nodes, DataArrived(n)
  PROVE  TransportInv'
<1> DEFINE p == Head(net[n])
           s == StateFor(n, p)
           w == IF p.reset THEN [m \in Msgs(n) |-> IF m \in InFlight(node[n]) THEN "fail" ELSE outcome[n][m]]
                ELSE outcome[n]
           taken(a) == Received(s, a.received, AckNumber(a), a.d.recvMsgBuf, a.d.fragmMsgBuf)
<1>1. SenderOk(n, node[n], outcome[n]) /\ SendersInv /\ NetInv /\ UsersInv  BY DEF TransportInv, SendersInv
<1>2. /\ net[n] # <<>> /\ p \in PacketsOf(Peer(n)) /\ p.reset \in BOOLEAN /\ UNCHANGED expiries
      /\ (ResetNode(n, TRUE) /\ net' = [net EXCEPT ![n] = Tail(@)]) \/ Accepts(n, s, p)
  BY DataCases
<1>5. SenderOk(n, s, w)
  <2>1. CASE p.reset  BY <2>1, <1>1, ResetOk DEF StateFor
  <2>2. CASE ~p.reset  BY <2>2, <1>1 DEF StateFor
  <2> QED  BY <2>1, <2>2
<1>7. CASE ResetNode(n, TRUE) /\ net' = [net EXCEPT ![n] = Tail(@)]
  <2>1. SendersInv' /\ broken' = TRUE /\ UNCHANGED delivered  BY <1>1, <1>7, ResetStep
  <2>2. NetInv'  BY <1>1, <1>2, <1>7, TailNet
  <2> QED  BY <2>1, <2>2, <1>2 DEF TransportInv, UsersInv
<1>8. CASE Accepts(n, s, p)
  <2>1. PICK a \in {Accept(n, s, p, garbage) : garbage \in Slots \cup {0}} :
              /\ node' = [node EXCEPT ![n] = taken(a)]
              /\ delivered' = [delivered EXCEPT ![n] = @ \o a.d.up]
              /\ Answer(n, <<Ack(AckNumber(a), s.resetFlag)>>)
    BY <1>8 DEF Accepts
  <2>2. PICK garbage \in Slots \cup {0} : a = Accept(n, s, p, garbage)  OBVIOUS
  <2>3. outcome' = (IF p.reset THEN Failed(n) ELSE outcome) /\ broken' = (broken \/ p.reset)  BY <1>8 DEF Accepts
  <2>4. \/ outcome' = [outcome EXCEPT ![n] = w]
        \/ UNCHANGED outcome /\ w = outcome[n]
    BY <2>3 DEF Failed
  <2> HIDE DEF s, w, p
  <2>5. s \in StateOf(n) /\ s.resetFlag \in BOOLEAN  BY <1>5 DEF SenderOk, StateOf
  <2>6. a.d \in WorkOf(n) /\ a.received \in Seqs /\ AckNumber(a) \in Seqs  BY <2>2, <2>5, <1>2, AcceptOk
  <2>7. a.d.recvMsgBuf \in BufferOf(n) /\ a.d.fragmMsgBuf \in BufferOf(n)
        /\ a.d.up \in Seq(Msgs(Peer(n)) \cup {Mixed})
    BY <2>6 DEF WorkOf
  <2>8. SenderOk(n, taken(a), w)  BY <1>5, <2>6, <2>7, ReceivedOk
  <2>9. SendersInv'
    <3> HIDE DEF taken
    <3>1. node' = [node EXCEPT ![n] = taken(a)]  BY <2>1
    <3>2. CASE outcome' = [outcome EXCEPT ![n] = w]  BY <3>1, <3>2, <1>1, <2>8, NodeStep
    <3>3. CASE UNCHANGED outcome /\ w = outcome[n]  BY <3>1, <3>3, <1>1, <2>8, QuietStep
    <3> QED  BY <2>4, <3>2, <3>3
  <2>10. <<Ack(AckNumber(a), s.resetFlag)>> \in Seq(OnTheWay(Peer(n)))
    <3>1. Ack(AckNumber(a), s.resetFlag) \in AckPackets  BY <2>5, <2>6 DEF Ack, AckPackets
    <3> QED  BY <3>1 DEF OnTheWay
  <2>11. NetInv'
    <3> DEFINE ps == <<Ack(AckNumber(a), s.resetFlag)>>
    <3>1. ps \in Seq(OnTheWay(Peer(n))) /\ Answer(n, ps)  BY <2>1, <2>10
    <3> HIDE DEF ps
    <3> QED  BY <3>1, <1>1, <1>2, AnswerNet
  <2>12. UsersInv'
    <3>1. delivered[n] \o a.d.up \in Seq(Msgs(Peer(n)) \cup {Mixed})  BY <1>1, <2>7, ConcatProperties DEF UsersInv
    <3>2. DOMAIN delivered' = Nodes /\ \A m \in Nodes : delivered'[m] \in Seq(Msgs(Peer(m)) \cup {Mixed})
      BY <1>1, <2>1, <3>1 DEF UsersInv
    <3> QED  BY <3>2 DEF UsersInv
  <2>13. broken' \in BOOLEAN  BY <2>3, <1>2 DEF TransportInv
  <2>14. expiries' \in 0..MaxExpiries  BY <1>2 DEF TransportInv
  <2> QED  BY <2>9, <2>11, <2>12, <2>13, <2>14 DEF TransportInv
<1> QED  BY <1>2, <1>7, <1>8

(* An ack resets n, or takes packets out of its window, or changes nothing: a packet a repeated ack *)
(* asks for has its timer running.                                                                  *)
Reported(n, s, q) == [m \in Msgs(n) |-> IF m \in Completed(n, Acked(s, q)) THEN "ok" ELSE outcome[n][m]]
AcceptsAck(n, s, q) == /\ Acceptable(s, q)
                       /\ node' = [node EXCEPT ![n] = AckedState(s, q)]
                       /\ outcome' = [outcome EXCEPT ![n] = Reported(n, s, q)]
                       /\ UNCHANGED <<delivered, broken>>

LEMMA AckCases ==
  ASSUME TransportInv, NEW n \in Nodes, AckArrived(n)
  PROVE  /\ net[n] # <<>> /\ Head(net[n]) \in AckPackets /\ UNCHANGED expiries /\ Answer(n, <<>>)
         /\ \/ Head(net[n]).reset /\ ResetNode(n, FALSE)
            \/ ~Head(net[n]).reset /\ AcceptsAck(n, node[n], Head(net[n]).seq)
            \/ ~Head(net[n]).reset /\ UNCHANGED <<node, outcome, delivered, broken>>
<1> DEFINE p == Head(net[n])
           s == node[n]
           q == p.seq
<1>1. SenderOk(n, s, outcome[n]) /\ NetInv  BY DEF TransportInv, SendersInv
<1>2. net[n] # <<>> /\ p.kind = "ack" /\ UNCHANGED expiries  BY DEF AckArrived, Receive
<1>3. p \in AckPackets
  <2>1. p \in OnTheWay(n)  BY <1>1, <1>2, TailOk DEF NetInv
  <2>2. p \notin PacketsOf(Peer(n))  BY <1>2 DEF PacketsOf, DataPackets
  <2> QED  BY <2>1, <2>2 DEF OnTheWay
<1>4. ASSUME Repeats(s, q) PROVE Requested(s, q) = {}
  <2>1. \A e \in Requested(s, q) : e.packet.seq \in s.timers  BY <1>1, TimersAre DEF Requested
  <2>2. \A e \in Requested(s, q) : e.packet.seq = Plus(q, 1)  BY DEF Requested
  <2>3. Plus(q, 1) \notin s.timers  BY <1>4 DEF Repeats
  <2> QED  BY <2>1, <2>2, <2>3
<1>5. /\ Answer(n, <<>>)
      /\ \/ p.reset /\ ResetNode(n, FALSE)
         \/ ~p.reset /\ AcceptsAck(n, s, q)
         \/ ~p.reset /\ UNCHANGED <<node, outcome, delivered, broken>>
  BY <1>4, Zenon DEF AckArrived, AckedState, AcceptsAck, Reported
<1> QED  BY <1>2, <1>3, <1>5

LEMMA StepAckArrived ==
  ASSUME TransportInv, NEW n \in Nodes, AckArrived(n)
  PROVE  TransportInv'
<1> DEFINE p == Head(net[n])
           s == node[n]
           q == p.seq
           w == Reported(n, s, q)
<1>1. SenderOk(n, s, outcome[n]) /\ SendersInv /\ NetInv /\ UsersInv
      /\ broken \in BOOLEAN /\ expiries \in 0..MaxExpiries
  BY DEF TransportInv, SendersInv
<1>2. net[n] # <<>> /\ p \in AckPackets /\ UNCHANGED expiries /\ Answer(n, <<>>)  BY AckCases
<1>3. q \in Seqs  BY <1>2 DEF AckPackets
<1>4. ASSUME Answer(n, <<>>) PROVE NetInv'
  <2> DEFINE ps == <<>>
  <2>1. ps \in Seq(OnTheWay(Peer(n))) /\ Answer(n, ps)  BY <1>4
  <2> HIDE DEF ps
  <2> QED  BY <2>1, <1>1, <1>2, AnswerNet
<1>5. NetInv'  BY <1>2, <1>4
<1>6. CASE ResetNode(n, FALSE)
  <2>1. SendersInv' /\ broken' = TRUE /\ UNCHANGED delivered  BY <1>1, <1>6, ResetStep
  <2> QED  BY <2>1, <1>1, <1>2, <1>5 DEF TransportInv, UsersInv
<1>7. CASE AcceptsAck(n, s, q)
  <2>1. SenderOk(n, AckedState(s, q), w)
    <3>1. Acceptable(s, q)  BY <1>7 DEF AcceptsAck
    <3>2. w = [m \in Msgs(n) |-> IF m \in Completed(n, Acked(s, q)) THEN "ok" ELSE outcome[n][m]]  BY DEF Reported
    <3> HIDE DEF q, s, w
    <3> QED  BY <1>1, <1>3, <3>1, <3>2, AckedOk
  <2>3. node' = [node EXCEPT ![n] = AckedState(s, q)] /\ outcome' = [outcome EXCEPT ![n] = w]
        /\ UNCHANGED <<delivered, broken>>
    BY <1>7 DEF AcceptsAck
  <2>2. SendersInv'
    <3> HIDE DEF w, s, q
    <3> QED  BY <1>1, <2>1, <2>3, NodeStep
  <2> QED  BY <2>2, <2>3, <1>1, <1>2, <1>5 DEF TransportInv, UsersInv
<1>9. CASE UNCHANGED <<node, outcome, delivered, broken>>
  BY <1>1, <1>2, <1>5, <1>9 DEF TransportInv, UsersInv, SendersInv
<1> QED  BY <1>6, <1>7, <1>9, AckCases

LEMMA InitInv == Init => TransportInv
<1> SUFFICES ASSUME Init PROVE TransportInv
  OBVIOUS
<1>1. PICK q \in StartSeqs : node = [n \in Nodes |-> Fresh(q)]  BY DEF Init
<1>2. q \in Seqs  BY StartAssumption DEF Seqs
<1>3. ASSUME NEW n \in Nodes PROVE SenderOk(n, node[n], outcome[n])
  <2>1. outcome[n] = [m \in Msgs(n) |-> "unsent"]  BY DEF Init
  <2>2. outcome[n] \in [Msgs(n) -> Results] /\ \A m \in Msgs(n) : outcome[n][m] # "pending"  BY <2>1 DEF Results
  <2>3. SenderOk(n, Fresh(q), outcome[n])  BY <1>2, <2>2, FreshOk
  <2> QED  BY <1>1, <2>3
<1>4. SendersInv  BY <1>1, <1>3 DEF Init, SendersInv
<1>5. NetInv
  <2>1. \A n \in Nodes : ChannelOk(n, <<>>)  BY Constants DEF ChannelOk
  <2> QED  BY <2>1 DEF Init, NetInv
<1>6. UsersInv  BY DEF Init, UsersInv
<1>7. broken \in BOOLEAN /\ expiries \in 0..MaxExpiries
  <2>1. broken = FALSE /\ expiries = 0  BY DEF Init
  <2>2. MaxExpiries \in Nat  BY Constants
  <2>3. expiries \in 0..MaxExpiries  BY <2>1, <2>2
  <2> QED  BY <2>1, <2>3
<1> QED  BY <1>4, <1>5, <1>6, <1>7 DEF TransportInv

LEMMA StepInv == TransportInv /\ [Next]_vars => TransportInv'
<1> SUFFICES ASSUME TransportInv, [Next]_vars PROVE TransportInv'
  OBVIOUS
<1>1. CASE UNCHANGED vars  BY <1>1 DEF vars, TransportInv, SendersInv, NetInv, UsersInv
<1>2. CASE Next
  BY <1>2, StepSendMsg, StepMsgTimerFired, StepKeepAliveExpired, StepDataArrived, StepAckArrived, StepLose
  DEF Next
<1> QED  BY <1>1, <1>2

(* The invariant holds in every state of every run: on it the theorems below rest. *)
THEOREM TransportInvariant == Spec => []TransportInv
BY InitInv, StepInv, PTL DEF Spec

-----------------------------------------------------------------------------
(* The variables of the transport keep their types: packets, numbers and results are what they can *)
(* be, whatever arrives and in whatever order, and the channels stay within their bound.            *)
THEOREM TransportTypes == Spec => []TypeOK
<1>1. TransportInv => TypeOK
  <2> SUFFICES ASSUME TransportInv PROVE TypeOK
    OBVIOUS
  <2>1. ASSUME NEW n \in Nodes
        PROVE  /\ DOMAIN node[n] = DOMAIN Fresh(0)
               /\ {node[n].lastAckReceived, node[n].lastMsgSent,
                   node[n].lastMsgReceived, node[n].lastAckSent} \subseteq Seqs
               /\ node[n].resetFlag \in BOOLEAN
               /\ node[n].sentMsgBuf \subseteq Unacked
               /\ node[n].timers \subseteq Seqs
               /\ \A i \in Slots : {node[n].recvMsgBuf[i], node[n].fragmMsgBuf[i]} \subseteq DataPackets \cup {Free}
    <3>1. node[n] \in StateOf(n)  BY DEF TransportInv, SendersInv, SenderOk
    <3>2. \A m : PacketsOf(m) \subseteq DataPackets  BY DEF PacketsOf
    <3>3. node[n].sentMsgBuf \subseteq Unacked
      <4>1. node[n].sentMsgBuf \subseteq [packet : PacketsOf(n), resends : 0..Resends]  BY <3>1 DEF StateOf
      <4> QED  BY <4>1, <3>2 DEF Unacked
    <3>4. DOMAIN node[n] = DOMAIN Fresh(0)  BY <3>1 DEF StateOf, Fresh
    <3>5. \A i \in Slots : {node[n].recvMsgBuf[i], node[n].fragmMsgBuf[i]} \subseteq DataPackets \cup {Free}
      BY <3>1, <3>2 DEF StateOf, BufferOf
    <3> QED  BY <3>1, <3>3, <3>4, <3>5 DEF StateOf
  <2>2. ASSUME NEW n \in Nodes
        PROVE  /\ Len(net[n]) <= ChannelBound
               /\ \A i \in DOMAIN net[n] : net[n][i] \in DataPackets \cup AckPackets
               /\ \A i \in DOMAIN delivered[n] : delivered[n][i] \in Msgs(Peer(n)) \cup {Mixed}
               /\ outcome[n] \in [Msgs(n) -> {"unsent", "pending", "ok", "fail"}]
    <3>1. net[n] \in Seq(OnTheWay(n)) /\ Len(net[n]) <= ChannelBound  BY DEF TransportInv, NetInv, ChannelOk
    <3>2. OnTheWay(n) \subseteq DataPackets \cup AckPackets  BY DEF OnTheWay, PacketsOf
    <3>3. \A i \in DOMAIN net[n] : net[n][i] \in OnTheWay(n)  BY <3>1
    <3>4. delivered[n] \in Seq(Msgs(Peer(n)) \cup {Mixed})  BY DEF TransportInv, UsersInv
    <3>5. \A i \in DOMAIN delivered[n] : delivered[n][i] \in Msgs(Peer(n)) \cup {Mixed}  BY <3>4
    <3>6. outcome[n] \in [Msgs(n) -> Results]  BY DEF TransportInv, SendersInv, SenderOk
    <3> QED  BY <3>1, <3>2, <3>3, <3>5, <3>6 DEF Results
  <2>3. DOMAIN node = Nodes /\ broken \in BOOLEAN /\ expiries \in 0..MaxExpiries  BY DEF TransportInv, SendersInv
  <2> QED  BY <2>1, <2>2, <2>3 DEF TypeOK
<1> QED  BY <1>1, TransportInvariant, PTL

(* The send window and its buffer agree: one packet waits for each number from lastAckReceived+1 to *)
(* lastMsgSent, and its timer runs.  So sendMsg's check of the window is a check for a free slot.    *)
THEOREM WindowIsBuffer == Spec => []WindowConsistent
<1>1. TransportInv => WindowConsistent
  <2> SUFFICES ASSUME TransportInv, NEW n \in Nodes,
                      NEW s, s = node[n],
                      NEW numbers, numbers = {e.packet.seq : e \in s.sentMsgBuf}
               PROVE  /\ numbers = {Plus(s.lastAckReceived, k) : k \in 1..Dist(s.lastAckReceived, s.lastMsgSent)}
                      /\ Cardinality(s.sentMsgBuf) = Dist(s.lastAckReceived, s.lastMsgSent)
                      /\ Cardinality(s.sentMsgBuf) <= Window
                      /\ s.timers = numbers
    BY DEF WindowConsistent
  <2> DEFINE la == s.lastAckReceived
             D == Dist(la, s.lastMsgSent)
             B == s.sentMsgBuf
             f == [e \in B |-> Dist(la, e.packet.seq)]
  <2>1. SenderOk(n, s, outcome[n])  BY DEF TransportInv, SendersInv
  <2>2. s.timers = numbers  BY <2>1, TimersAre
  <2>3. la \in Seqs /\ s.lastMsgSent \in Seqs  BY <2>1 DEF SenderOk, StateOf
  <2>4. D \in Nat /\ D <= Window  BY <2>1, <2>3, DistIs DEF SenderOk, WindowInv, Seqs
  <2>5. /\ \A e \in B : e.packet.seq \in Seqs /\ Dist(la, e.packet.seq) \in 1..D
        /\ \A e, g \in B : e.packet.seq = g.packet.seq => e = g
        /\ \A k \in 1..D : \E e \in B : Dist(la, e.packet.seq) = k
    <3>1. \A p : p \in Waiting(s) <=> \E e \in B : p = e.packet  BY DEF Waiting
    <3>2. /\ \A p \in Waiting(s) : p.seq \in Seqs /\ Dist(la, p.seq) \in 1..D
          /\ \A p, r \in Waiting(s) : p.seq = r.seq => p = r
          /\ \A k \in 1..D : \E p \in Waiting(s) : Dist(la, p.seq) = k
          /\ \A e, g \in B : e.packet = g.packet => e = g
      BY <2>1 DEF SenderOk, WindowInv
    <3> HIDE DEF la, D, B
    <3> QED  BY <3>1, <3>2
  <2> HIDE DEF la, D, B
  <2>6. \A k \in 1..D : k \in 0..SeqMod-1  BY <2>4, Constants
  <2>7. \A e \in B : e.packet.seq = Plus(la, f[e])  BY <2>3, <2>5, <2>6, PlusDist
  <2>8. numbers = {Plus(la, k) : k \in 1..D}
    <3>1. \A x \in numbers : \E k \in 1..D : x = Plus(la, k)
      <4> TAKE x \in numbers
      <4>1. PICK e \in B : x = e.packet.seq  BY DEF B
      <4> QED  BY <4>1, <2>5, <2>7
    <3>2. \A k \in 1..D : Plus(la, k) \in numbers
      <4> TAKE k \in 1..D
      <4>1. PICK e \in B : Dist(la, e.packet.seq) = k  BY <2>5
      <4>2. e.packet.seq = Plus(la, k)  BY <4>1, <2>7
      <4> QED  BY <4>2 DEF B
    <3> QED  BY <3>1, <3>2
  <2>9. f \in Bijection(B, 1..D)
    <3>1. f \in [B -> 1..D]  BY <2>5
    <3>2. \A e, g \in B : f[e] = f[g] => e = g  BY <2>5, <2>7
    <3>3. \A k \in 1..D : \E e \in B : f[e] = k  BY <2>5
    <3> HIDE DEF f
    <3> QED  BY <3>1, <3>2, <3>3, Fun_IsBij
  <2>10. ExistsBijection(1..D, B)
    <3>1. ExistsBijection(B, 1..D)  BY <2>9 DEF ExistsBijection
    <3> QED  BY <3>1, Fun_ExistsBijSymmetric
  <2>11. Cardinality(B) = D
    <3>1. IsFiniteSet(1..D) /\ Cardinality(1..D) = D  BY <2>4, FS_Interval
    <3> QED  BY <3>1, <2>10, FS_Bijection
  <2> QED  BY <2>2, <2>4, <2>8, <2>11 DEF la, D, B
<1> QED  BY <1>1, TransportInvariant, PTL

(* A message is pending exactly while its last fragment waits for an ack, so each of sendMsg's *)
(* messages has one outcome at any time, whatever resets its counters.                         *)
THEOREM PendingIsInFlight == Spec => []PendingInFlight
<1>1. TransportInv => PendingInFlight
  <2> SUFFICES ASSUME TransportInv, NEW n \in Nodes, NEW m \in Msgs(n)
               PROVE  outcome[n][m] = "pending" <=>
                        \E e \in node[n].sentMsgBuf : e.packet.msg = m /\ IsLast(n, m, e.packet.frag)
    BY DEF PendingInFlight
  <2>1. ChainInv(n, node[n].lastAckReceived, Waiting(node[n]), outcome[n])  BY DEF TransportInv, SendersInv, SenderOk
  <2>2. outcome[n][m] = "pending" <=> \E p \in Waiting(node[n]) : p.msg = m /\ IsLast(n, m, p.frag)
    BY <2>1 DEF ChainInv
  <2>3. \A p : p \in Waiting(node[n]) <=> \E e \in node[n].sentMsgBuf : p = e.packet  BY DEF Waiting
  <2> QED  BY <2>2, <2>3
<1> QED  BY <1>1, TransportInvariant, PTL

-----------------------------------------------------------------------------
(* The order of packets and acks.  As long as no node has reset its counters or used up its *)
(* sequence numbers, the distance of a number from the one the nodes started with is the    *)
(* place of its packet among all the packets of its sender.                                 *)

(* Sequences of packets. *)

(* Every pair of elements of c, in their order, is one of Q. *)
Paired(c, Q) == \A i, j \in 1..Len(c) : i < j => <<c[i], c[j]>> \in Q

(* What is left of a channel when its head is taken, and when packets that fit are added. *)
LEMMA TailIs ==
  ASSUME NEW X, NEW c \in Seq(X), c # <<>>
  PROVE  /\ Tail(c) \in Seq(X) /\ Head(c) \in X /\ Head(c) = c[1] /\ Len(c) \in Nat /\ Len(c) >= 1
         /\ Len(Tail(c)) = Len(c) - 1
         /\ \A i \in 1..Len(Tail(c)) : Tail(c)[i] = c[i + 1]
<1>1. Head(c) = c[1] /\ Len(c) \in Nat /\ Len(c) >= 1  OBVIOUS
<1> QED  BY <1>1, HeadTailProperties

LEMMA TailPaired ==
  ASSUME NEW X, NEW c \in Seq(X), c # <<>>, NEW Q, Paired(c, Q)
  PROVE  Paired(Tail(c), Q) /\ \A i \in 1..Len(Tail(c)) : <<Head(c), Tail(c)[i]>> \in Q
<1> DEFINE t == Tail(c)
           N == Len(c)
<1>1. Head(c) = c[1] /\ N \in Nat /\ N >= 1 /\ Len(t) = N - 1 /\ \A i \in 1..Len(t) : t[i] = c[i + 1]
  BY TailIs
<1> HIDE DEF t, N
<1>2. ASSUME NEW i \in 1..Len(t), NEW j \in 1..Len(t), i < j PROVE <<t[i], t[j]>> \in Q
  <2>1. i + 1 \in 1..N /\ j + 1 \in 1..N /\ i + 1 < j + 1  BY <1>1, <1>2
  <2>2. <<c[i + 1], c[j + 1]>> \in Q  BY <2>1 DEF Paired, N
  <2> QED  BY <2>2, <1>1
<1>3. ASSUME NEW i \in 1..Len(t) PROVE <<c[1], t[i]>> \in Q
  <2>1. 1 \in 1..N /\ i + 1 \in 1..N /\ 1 < i + 1  BY <1>1
  <2>2. <<c[1], c[i + 1]>> \in Q  BY <2>1 DEF Paired, N
  <2> QED  BY <2>2, <1>1
<1> QED  BY <1>1, <1>2, <1>3 DEF Paired, t

LEMMA AddIs ==
  ASSUME NEW X, NEW c \in Seq(X), NEW ps \in Seq(X)
  PROVE  /\ Fit(c \o ps) \in Seq(X) /\ Len(c) \in Nat /\ Len(ps) \in Nat
         /\ Len(Fit(c \o ps)) \in Nat /\ Len(Fit(c \o ps)) <= Len(c) + Len(ps)
         /\ \A i \in 1..Len(Fit(c \o ps)) : Fit(c \o ps)[i] = IF i <= Len(c) THEN c[i] ELSE ps[i - Len(c)]
<1> DEFINE z == c \o ps
           k == IF Len(z) < ChannelBound THEN Len(z) ELSE ChannelBound
<1>1. z \in Seq(X) /\ Len(z) = Len(c) + Len(ps)
      /\ \A i \in 1..Len(c) + Len(ps) : z[i] = IF i <= Len(c) THEN c[i] ELSE ps[i - Len(c)]
  BY ConcatProperties
<1>2. Len(c) \in Nat /\ Len(ps) \in Nat  OBVIOUS
<1> HIDE DEF z
<1>3. k \in Nat /\ k <= Len(z) /\ Len(z) \in Nat  BY <1>1, <1>2, Constants
<1>4. Fit(z) = SubSeq(z, 1, k)  BY DEF Fit
<1> HIDE DEF k
<1>5. \A i \in 1..k : z[i] \in X  BY <1>1, <1>3
<1>6. SubSeq(z, 1, k) \in Seq(X) /\ Len(SubSeq(z, 1, k)) = (IF 1 <= k THEN k - 1 + 1 ELSE 0)
      /\ \A i \in 1..k - 1 + 1 : SubSeq(z, 1, k)[i] = z[1 + i - 1]
  BY <1>3, <1>5, SubSeqProperties
<1>7. Len(Fit(z)) = k /\ \A i \in 1..k : Fit(z)[i] = z[i]
  <2>1. (IF 1 <= k THEN k - 1 + 1 ELSE 0) = k /\ k - 1 + 1 = k  BY <1>3
  <2>2. \A i \in 1..k : i \in 1..k - 1 + 1 /\ 1 + i - 1 = i  BY <1>3
  <2>3. Len(Fit(z)) = k  BY <1>4, <1>6, <2>1
  <2>4. \A i \in 1..k : Fit(z)[i] = z[1 + i - 1]  BY <1>4, <1>6, <2>2
  <2> QED  BY <2>2, <2>3, <2>4
<1>8. \A i \in 1..k : i \in 1..Len(c) + Len(ps)  BY <1>1, <1>3
<1> QED  BY <1>1, <1>2, <1>3, <1>4, <1>6, <1>7, <1>8 DEF z

LEMMA AddPaired ==
  ASSUME NEW X, NEW c \in Seq(X), NEW ps \in Seq(X), NEW Q, Paired(c, Q), Paired(ps, Q),
         \A i \in 1..Len(c), j \in 1..Len(ps) : <<c[i], ps[j]>> \in Q
  PROVE  Paired(Fit(c \o ps), Q)
<1> DEFINE z == Fit(c \o ps)
           N == Len(c)
           M == Len(ps)
           K == Len(z)
<1>1. N \in Nat /\ M \in Nat /\ K \in Nat /\ K <= N + M
      /\ \A i \in 1..K : z[i] = IF i <= N THEN c[i] ELSE ps[i - N]
  BY AddIs
<1>2. /\ \A i, j \in 1..N : i < j => <<c[i], c[j]>> \in Q
      /\ \A i, j \in 1..M : i < j => <<ps[i], ps[j]>> \in Q
      /\ \A i \in 1..N, j \in 1..M : <<c[i], ps[j]>> \in Q
  BY DEF Paired
<1> SUFFICES ASSUME NEW i \in 1..K, NEW j \in 1..K, i < j PROVE <<z[i], z[j]>> \in Q
  BY DEF Paired
<1> HIDE DEF z, N, M, K
<1>3. CASE j <= N
  <2>1. i \in 1..N /\ j \in 1..N /\ z[i] = c[i] /\ z[j] = c[j]  BY <1>1, <1>3
  <2> QED  BY <2>1, <1>2
<1>4. CASE i <= N /\ ~(j <= N)
  <2>1. i \in 1..N /\ j - N \in 1..M /\ z[i] = c[i] /\ z[j] = ps[j - N]  BY <1>1, <1>4
  <2> QED  BY <2>1, <1>2
<1>5. CASE ~(i <= N)
  <2>1. i - N \in 1..M /\ j - N \in 1..M /\ i - N < j - N /\ z[i] = ps[i - N] /\ z[j] = ps[j - N]  BY <1>1, <1>5
  <2> QED  BY <2>1, <1>2
<1> QED  BY <1>1, <1>3, <1>4, <1>5
-----------------------------------------------------------------------------
(* The numbers of n's packets. *)

(* LastNumber counts the fragments. *)
LEMMA LastNumberIs ==
  ASSUME NEW n \in Nodes, NEW L, L = LastNumber(n), NEW K, K = Len(Fragments[n])
  PROVE  /\ K \in Nat /\ Msgs(n) = 1..K
         /\ \A m \in 0..K : L[m] \in Nat
         /\ L[0] = 0
         /\ \A m \in Msgs(n) : m - 1 \in 0..K /\ m \in 0..K /\ L[m] = L[m - 1] + Fragments[n][m]
<1> DEFINE F == Fragments[n]
           upto == CHOOSE u : u = [m \in 0..Len(F) |-> IF m = 0 THEN 0 ELSE u[m - 1] + F[m]]
           G == [m \in 1..K |-> [x \in Nat |-> x + F[m]]]
           g == Iteration(Nat, 0, K, G)
<1>1. Msgs(n) = 1..K /\ K \in Nat /\ \A m \in Msgs(n) : F[m] \in Nat  BY MessagesOf
<1>2. L = upto  BY DEF LastNumber
<1>3. \A m \in 1..K : m - 1 \in 0..K /\ m \in 0..K /\ m # 0  BY <1>1
<1> HIDE DEF F
<1>4. G \in [1..K -> [Nat -> Nat]]  BY <1>1
<1>5. g \in [0..K -> Nat] /\ g[0] = 0 /\ \A m \in 1..K : g[m] = G[m][g[m - 1]]
  <2> HIDE DEF G
  <2>1. IsIteration(g, Nat, 0, K, G)  BY <1>1, <1>4, Iterates
  <2> QED  BY <2>1 DEF IsIteration
<1> HIDE DEF g
<1>6. \A m \in 1..K : g[m] = g[m - 1] + F[m]  BY <1>3, <1>5
<1>7. g = [m \in 0..K |-> IF m = 0 THEN 0 ELSE g[m - 1] + F[m]]  BY <1>3, <1>5, <1>6
<1>8. Len(F) = K  BY DEF F
<1>9. upto = [m \in 0..K |-> IF m = 0 THEN 0 ELSE upto[m - 1] + F[m]]  BY <1>7, <1>8
<1> HIDE DEF upto
<1>10. L = [m \in 0..K |-> IF m = 0 THEN 0 ELSE L[m - 1] + F[m]]  BY <1>2, <1>9
<1>11. L[0] = 0 /\ \A m \in 1..K : L[m] = L[m - 1] + F[m]
  <2>1. 0 \in 0..K  BY <1>1
  <2>2. L[0] = 0  BY <1>10, <2>1
  <2>3. \A m \in 1..K : L[m] = L[m - 1] + F[m]  BY <1>3, <1>10
  <2> QED  BY <2>2, <2>3
<1>12. \A m \in 0..K : L[m] \in Nat
  <2>1. \A m \in 1..K : L[m - 1] \in Nat => L[m] \in Nat  BY <1>1, <1>11
  <2>2. L[0] \in Nat  BY <1>11
  <2> QED  BY <2>1, <2>2, <1>1, Stays
<1> QED  BY <1>1, <1>3, <1>11, <1>12 DEF F

(* What comes later has greater numbers. *)
LEMMA LastNumberGrows ==
  ASSUME NEW n \in Nodes, NEW L, L = LastNumber(n), NEW K, K = Len(Fragments[n]),
         NEW m \in 0..K, NEW k \in 0..K, m <= k
  PROVE  L[m] <= L[k] /\ L[m] \in Nat /\ L[k] \in Nat /\ (m < k => L[m] < L[k] /\ L[m] <= L[k - 1])
<1>1. K \in Nat /\ Msgs(n) = 1..K /\ \A i \in 0..K : L[i] \in Nat  BY LastNumberIs
<1>2. \A i \in 1..K : L[i] > L[i - 1]
  <2> TAKE i \in 1..K
  <2>1. i \in Msgs(n) /\ Fragments[n][i] >= 1 /\ Fragments[n][i] \in Nat  BY <1>1, MessagesOf
  <2>2. L[i] = L[i - 1] + Fragments[n][i] /\ i - 1 \in 0..K  BY <2>1, LastNumberIs
  <2> QED  BY <1>1, <2>1, <2>2
<1> DEFINE g == [i \in 0..k - m |-> L[m + i]]
           D == {x \in Nat : L[m] <= x}
<1>3. \A i \in 0..k - m : m + i \in 0..K /\ (i # 0 => m + i \in 1..K /\ i - 1 \in 0..k - m /\ m + i - 1 = m + (i - 1))
  BY <1>1
<1>4. \A i \in 0..k - m : g[i] \in D
  <2>1. g[0] \in D  BY <1>1
  <2>2. \A i \in 1..k - m : g[i - 1] \in D => g[i] \in D
    <3> SUFFICES ASSUME NEW i \in 1..k - m, g[i - 1] \in D PROVE g[i] \in D
      OBVIOUS
    <3>1. i \in 0..k - m /\ i # 0  OBVIOUS
    <3>2. g[i] = L[m + i] /\ g[i - 1] = L[m + i - 1] /\ L[m + i] > L[m + i - 1] /\ m + i \in 0..K /\ m + i - 1 \in 0..K
      BY <1>1, <1>2, <1>3, <3>1
    <3> HIDE DEF g
    <3> QED  BY <1>1, <3>2
  <2>3. k - m \in Nat  BY <1>1
  <2> HIDE DEF g, D
  <2> QED  BY <2>1, <2>2, <2>3, Stays
<1>5. \A i \in 0..k - m : L[m] <= L[m + i]  BY <1>4
<1>6. L[m] <= L[k]
  <2>1. k - m \in 0..k - m /\ m + (k - m) = k  BY <1>1
  <2> QED  BY <2>1, <1>5
<1>7. ASSUME m < k PROVE L[m] <= L[k - 1] /\ L[k - 1] < L[k] /\ L[k - 1] \in Nat
  <2>1. k - m - 1 \in 0..k - m /\ m + (k - m - 1) = k - 1 /\ k - 1 \in 0..K /\ k \in 1..K  BY <1>1, <1>7
  <2> QED  BY <2>1, <1>1, <1>2, <1>5
<1> QED  BY <1>1, <1>6, <1>7

(* A number belongs to one fragment of one message. *)
LEMMA NumberIsOf ==
  ASSUME NEW n \in Nodes, NEW L, L = LastNumber(n),
         NEW m \in Msgs(n), NEW f \in Nat, f < Fragments[n][m],
         NEW k \in Msgs(n), NEW g \in Nat, g < Fragments[n][k],
         L[m - 1] + f + 1 = L[k - 1] + g + 1
  PROVE  m = k /\ f = g
<1> DEFINE K == Len(Fragments[n])
<1>1. /\ K \in Nat /\ Msgs(n) = 1..K /\ \A i \in 0..K : L[i] \in Nat
      /\ \A i \in Msgs(n) : i - 1 \in 0..K /\ i \in 0..K /\ L[i] = L[i - 1] + Fragments[n][i] /\ Fragments[n][i] \in Nat
  BY LastNumberIs, MessagesOf
<1> HIDE DEF K
<1> DEFINE F == Fragments[n][m]
           G == Fragments[n][k]
<1>5. /\ L[m] = L[m - 1] + F /\ L[k] = L[k - 1] + G /\ F \in Nat /\ G \in Nat /\ f < F /\ g < G
      /\ L[m - 1] \in Nat /\ L[k - 1] \in Nat /\ m \in Nat /\ k \in Nat
  <2>1. \A i \in Msgs(n) : i \in Nat /\ L[i] = L[i - 1] + Fragments[n][i] /\ Fragments[n][i] \in Nat /\ L[i - 1] \in Nat
    <3> TAKE i \in Msgs(n)
    <3>1. i \in 1..K /\ i - 1 \in 0..K /\ L[i] = L[i - 1] + Fragments[n][i] /\ Fragments[n][i] \in Nat  BY <1>1
    <3> QED  BY <3>1, <1>1
  <2>2. L[m] = L[m - 1] + F /\ F \in Nat /\ L[m - 1] \in Nat /\ m \in Nat /\ f < F  BY <2>1
  <2>3. L[k] = L[k - 1] + G /\ G \in Nat /\ L[k - 1] \in Nat /\ k \in Nat /\ g < G  BY <2>1
  <2> QED  BY <2>2, <2>3
<1> HIDE DEF F, G
<1>2. CASE m < k
  <2>1. L[m] <= L[k - 1]
    <3>1. m <= k - 1 /\ m \in 0..K /\ k - 1 \in 0..K  BY <1>1, <1>2
    <3> QED  BY <3>1, LastNumberGrows DEF K
  <2> QED  BY <2>1, <1>5
<1>3. CASE k < m
  <2>1. L[k] <= L[m - 1]
    <3>1. k <= m - 1 /\ k \in 0..K /\ m - 1 \in 0..K  BY <1>1, <1>3
    <3> QED  BY <3>1, LastNumberGrows DEF K
  <2> QED  BY <2>1, <1>5
<1>4. CASE m = k  BY <1>4, <1>5
<1> QED  BY <1>2, <1>3, <1>4, <1>5
-----------------------------------------------------------------------------
(* The invariant of an orderly run that started from number q. *)

(* The distance from the first number is a number. *)
LEMMA NumberOk ==
  ASSUME NEW q \in Seqs, NEW r \in Seqs
  PROVE  Dist(q, r) \in Nat /\ Dist(q, r) \in Int /\ Dist(q, r) < SeqMod
<1>1. Dist(q, r) \in 0..SeqMod-1  BY DistIs DEF Seqs
<1> QED  BY <1>1, Constants

(* The packets of n whose numbers are the places of their fragments; o is what n's user was told. *)
NamedOf(q, n, o) ==
  {x \in PacketsOf(n) : /\ ~x.reset /\ o[x.msg] # "unsent"
                        /\ Dist(q, x.seq) = LastNumber(n)[x.msg - 1] + x.frag + 1}

(* In state s, n has numbered the fragments of the messages submitted, the first k. *)
Counted(q, n, s, o) ==
  \E k \in 0..Len(Fragments[n]) : /\ \A m \in Msgs(n) : o[m] # "unsent" <=> m <= k
                                  /\ Dist(q, s.lastMsgSent) = LastNumber(n)[k]

(* n in state s sends to a node in state r. *)
SendSide(q, n, s, r, o) ==
  /\ Counted(q, n, s, o)
  /\ ~s.resetFlag
  /\ Waiting(s) \subseteq NamedOf(q, n, o)
  /\ Dist(q, s.lastAckReceived) <= Dist(q, r.lastAckSent)
  /\ Dist(q, r.lastAckSent) <= Dist(q, s.lastMsgSent)

(* The buffers of n in state s; u is what the user of its peer was told. *)
BufferSide(q, n, s, u) ==
  \A i \in Slots : /\ s.recvMsgBuf[i] # Free => s.recvMsgBuf[i] \in NamedOf(q, Peer(n), u)
                   /\ s.fragmMsgBuf[i] # Free => s.fragmMsgBuf[i] \in NamedOf(q, Peer(n), u)

(* A number that lags less than a window behind what n in state s has received. *)
Recent(q, s, a) == /\ Dist(q, s.lastAckSent) < Dist(q, a) + Window
                   /\ \A i \in Slots : s.recvMsgBuf[i] # Free => Dist(q, s.recvMsgBuf[i].seq) < Dist(q, a) + Window

(* The packets that may be on their way to n in state s from a node in state r, and their order. *)
DataTo(q, n, s, u) == {x \in NamedOf(q, Peer(n), u) : Recent(q, s, x.seq)}
AcksTo(q, s, r) == {x \in AckPackets : /\ ~x.reset /\ Dist(q, s.lastAckReceived) <= Dist(q, x.seq)
                                       /\ Dist(q, x.seq) <= Dist(q, r.lastAckSent)}
InOrder(q, n) ==
  {z \in OnTheWay(n) \X OnTheWay(n) :
     /\ z[1].kind = "data" /\ z[2].kind = "data" => Dist(q, z[1].seq) < Dist(q, z[2].seq) + Window
     /\ z[1].kind = "ack" /\ z[2].kind = "ack" => Dist(q, z[1].seq) <= Dist(q, z[2].seq)}
ChannelSide(q, n, s, r, c, u) == c \in Seq(DataTo(q, n, s, u) \cup AcksTo(q, s, r)) /\ Paired(c, InOrder(q, n))

Side(q, n, s, r, c, o, u) == SendSide(q, n, s, r, o) /\ BufferSide(q, n, s, u) /\ ChannelSide(q, n, s, r, c, u)
OrderInv(q) == \A n \in Nodes : Side(q, n, node[n], node[Peer(n)], net[n], outcome[n], outcome[Peer(n)])

(* A step of n that makes t of its state, w of what its user was told, and c and d of the channels. *)
LEMMA OrderStep ==
  ASSUME NEW q, NEW n \in Nodes, NEW p, p = Peer(n), NEW t, NEW w, NEW c, NEW d,
         node'[n] = t, node'[p] = node[p], outcome'[n] = w, outcome'[p] = outcome[p], net'[n] = c, net'[p] = d,
         Side(q, n, t, node[p], c, w, outcome[p]), Side(q, p, node[p], t, d, outcome[p], w)
  PROVE  OrderInv(q)'
<1>1. Peer(p) = n /\ \A m \in Nodes : m = n \/ m = p  BY Peers
<1>2. Side(q, n, node'[n], node'[Peer(n)], net'[n], outcome'[n], outcome'[Peer(n)])  OBVIOUS
<1>3. Side(q, p, node'[p], node'[Peer(p)], net'[p], outcome'[p], outcome'[Peer(p)])  BY <1>1
<1>4. ASSUME NEW m \in Nodes
      PROVE  Side(q, m, node'[m], node'[Peer(m)], net'[m], outcome'[m], outcome'[Peer(m)])
  <2>1. CASE m = n  BY <2>1, <1>2
  <2>2. CASE m = p  BY <2>2, <1>3
  <2> QED  BY <2>1, <2>2, <1>1
<1> QED  BY <1>4 DEF OrderInv

(* The number of a packet is one its sender has used. *)
LEMMA NamedBounds ==
  ASSUME NEW n \in Nodes, NEW q \in Seqs, NEW s, NEW o, Counted(q, n, s, o), NEW x \in NamedOf(q, n, o)
  PROVE  /\ Dist(q, x.seq) \in Nat /\ Dist(q, x.seq) >= 1 /\ Dist(q, x.seq) <= Dist(q, s.lastMsgSent)
         /\ x \in PacketsOf(n) /\ x.seq \in Seqs /\ x.kind = "data" /\ ~x.reset /\ x.msg \in Msgs(n)
         /\ LastNumber(n)[x.msg] <= Dist(q, s.lastMsgSent)
<1> DEFINE L == LastNumber(n)
           F == Fragments[n][x.msg]
           K == Len(Fragments[n])
<1>1. x \in PacketsOf(n) /\ ~x.reset /\ o[x.msg] # "unsent" /\ Dist(q, x.seq) = L[x.msg - 1] + x.frag + 1
  BY DEF NamedOf
<1>2. x.seq \in Seqs /\ x.kind = "data" /\ x.msg \in Msgs(n) /\ x.frag \in Nat /\ x.frag < F
  BY <1>1, Constants DEF PacketsOf, DataPackets
<1>3. PICK k \in 0..K : (\A m \in Msgs(n) : o[m] # "unsent" <=> m <= k) /\ Dist(q, s.lastMsgSent) = L[k]
  BY DEF Counted
<1> HIDE DEF L, K
<1>4. /\ K \in Nat /\ Msgs(n) = 1..K /\ x.msg - 1 \in 0..K /\ x.msg \in 0..K
      /\ L[x.msg] = L[x.msg - 1] + F /\ L[x.msg - 1] \in Nat /\ L[x.msg] \in Nat
  BY <1>2, LastNumberIs DEF L, K
<1>5. L[x.msg] <= L[k] /\ L[k] \in Nat
  <2>1. x.msg <= k  BY <1>1, <1>2, <1>3
  <2> QED  BY <2>1, <1>4, LastNumberGrows DEF L, K
<1>6. F \in Nat  BY <1>2, MessagesOf
<1> HIDE DEF F
<1> QED  BY <1>1, <1>2, <1>3, <1>4, <1>5, <1>6 DEF L

(* Packets keep their names when more messages are submitted. *)
LEMMA NamedStay ==
  ASSUME NEW q, NEW n, NEW o, NEW w, \A m \in Msgs(n) : o[m] # "unsent" => w[m] # "unsent"
  PROVE  NamedOf(q, n, o) \subseteq NamedOf(q, n, w)
<1> SUFFICES ASSUME NEW x \in NamedOf(q, n, o) PROVE x \in NamedOf(q, n, w)
  OBVIOUS
<1>1. x.msg \in Msgs(n)  BY DEF NamedOf, PacketsOf
<1> QED  BY <1>1 DEF NamedOf

(* What the window bounds: the packets that wait lie beyond the last ack, the last number a window from it. *)
LEMMA WindowNumbers ==
  ASSUME NEW n \in Nodes, NEW q \in Seqs, NEW s, NEW o, SenderOk(n, s, o), Counted(q, n, s, o),
         Waiting(s) \subseteq NamedOf(q, n, o),
         Dist(q, s.lastAckReceived) <= Dist(q, s.lastMsgSent)
  PROVE  /\ Dist(q, s.lastAckReceived) \in Nat /\ Dist(q, s.lastMsgSent) \in Nat
         /\ Dist(q, s.lastMsgSent) < SeqMod
         /\ Dist(q, s.lastMsgSent) = Dist(q, s.lastAckReceived) + Dist(s.lastAckReceived, s.lastMsgSent)
         /\ Dist(q, s.lastMsgSent) <= Dist(q, s.lastAckReceived) + Window
         /\ \A x \in Waiting(s) : /\ Dist(q, s.lastAckReceived) < Dist(q, x.seq)
                                  /\ Dist(s.lastAckReceived, x.seq) = Dist(q, x.seq) - Dist(q, s.lastAckReceived)
<1> DEFINE A == Dist(q, s.lastAckReceived)
           S == Dist(q, s.lastMsgSent)
           D == Dist(s.lastAckReceived, s.lastMsgSent)
<1>1. s.lastAckReceived \in Seqs /\ s.lastMsgSent \in Seqs  BY DEF SenderOk, StateOf
<1>2. A \in Seqs /\ S \in Seqs /\ D \in Seqs /\ D = S - A
  <2>1. A \in Seqs /\ S \in Seqs /\ D \in Seqs  BY <1>1, DistIs
  <2>2. D = IF A <= S THEN S - A ELSE S - A + SeqMod  BY <1>1, DistDist
  <2> QED  BY <2>1, <2>2
<1>3. D <= Window  BY DEF SenderOk, WindowInv
<1>4. A \in Nat /\ S \in Nat /\ A < SeqMod /\ S < SeqMod  BY <1>2, Constants DEF Seqs
<1>5. ASSUME NEW x \in Waiting(s)
      PROVE  A < Dist(q, x.seq) /\ Dist(s.lastAckReceived, x.seq) = Dist(q, x.seq) - A
  <2> DEFINE X == Dist(q, x.seq)
             E == Dist(s.lastAckReceived, x.seq)
  <2>1. X \in Nat /\ X <= S /\ x.seq \in Seqs
    <3>1. x \in NamedOf(q, n, o)  OBVIOUS
    <3> QED  BY <3>1, NamedBounds
  <2>2. E \in 1..D  BY DEF SenderOk, WindowInv
  <2>3. E = IF A <= X THEN X - A ELSE X - A + SeqMod  BY <1>1, <2>1, DistDist
  <2> HIDE DEF X, E, A, S, D
  <2>4. A < X /\ E = X - A  BY <2>1, <2>2, <2>3, <1>2, <1>4, Constants
  <2> QED  BY <2>4 DEF X, E
<1> HIDE DEF A, S, D
<1>6. S = A + D /\ S <= A + Window  BY <1>2, <1>3, <1>4, Constants
<1> QED  BY <1>4, <1>5, <1>6 DEF A, S, D
-----------------------------------------------------------------------------
(* The channels. *)

(* The peer of n, now in state t, has put packets on the way to n, after those that were there. *)
LEMMA AddSide ==
  ASSUME NEW n \in Nodes, NEW q \in Seqs, NEW s, NEW r, NEW t, NEW c, NEW o, NEW u, NEW w, NEW ps,
         Side(q, n, s, r, c, o, u),
         \A m \in Msgs(Peer(n)) : u[m] # "unsent" => w[m] # "unsent",
         s.lastAckReceived \in Seqs, s.lastMsgSent \in Seqs, r.lastAckSent \in Seqs, t.lastAckSent \in Seqs,
         Dist(q, r.lastAckSent) <= Dist(q, t.lastAckSent), Dist(q, t.lastAckSent) <= Dist(q, s.lastMsgSent),
         ps \in Seq(DataTo(q, n, s, w) \cup AcksTo(q, s, t)), Paired(ps, InOrder(q, n)),
         \A x \in DataTo(q, n, s, u) \cup AcksTo(q, s, r), j \in 1..Len(ps) : <<x, ps[j]>> \in InOrder(q, n)
  PROVE  Side(q, n, s, t, Fit(c \o ps), o, w)
<1> DEFINE X == DataTo(q, n, s, u) \cup AcksTo(q, s, r)
           Y == DataTo(q, n, s, w) \cup AcksTo(q, s, t)
<1>1. NamedOf(q, Peer(n), u) \subseteq NamedOf(q, Peer(n), w)  BY NamedStay
<1>2. DataTo(q, n, s, u) \subseteq DataTo(q, n, s, w)  BY <1>1 DEF DataTo
<1>3. /\ Dist(q, s.lastAckReceived) \in Int /\ Dist(q, s.lastMsgSent) \in Int
      /\ Dist(q, r.lastAckSent) \in Int /\ Dist(q, t.lastAckSent) \in Int
  BY NumberOk
<1>4. AcksTo(q, s, r) \subseteq AcksTo(q, s, t)
  <2> SUFFICES ASSUME NEW x \in AcksTo(q, s, r) PROVE x \in AcksTo(q, s, t)
    OBVIOUS
  <2>1. x \in AckPackets /\ ~x.reset /\ Dist(q, s.lastAckReceived) <= Dist(q, x.seq) /\ Dist(q, x.seq) <= Dist(q, r.lastAckSent)
    BY DEF AcksTo
  <2>2. Dist(q, x.seq) \in Int  BY <2>1, NumberOk DEF AckPackets
  <2>3. Dist(q, x.seq) <= Dist(q, t.lastAckSent)  BY <2>1, <2>2, <1>3
  <2> QED  BY <2>1, <2>3 DEF AcksTo
<1>5. X \subseteq Y  BY <1>2, <1>4
<1>6. c \in Seq(X) /\ Paired(c, InOrder(q, n)) /\ SendSide(q, n, s, r, o) /\ BufferSide(q, n, s, u)
  BY DEF Side, ChannelSide
<1>7. ps \in Seq(Y)  OBVIOUS
<1>8. \A i \in 1..Len(c), j \in 1..Len(ps) : <<c[i], ps[j]>> \in InOrder(q, n)
  <2> HIDE DEF X
  <2>1. \A i \in 1..Len(c) : c[i] \in X  BY <1>6, ElementOfSeq
  <2> QED  BY <2>1 DEF X
<1> HIDE DEF X, Y
<1>9. c \in Seq(Y)  BY <1>5, <1>6, SeqMonotonic
<1>10. Fit(c \o ps) \in Seq(Y)  BY <1>7, <1>9, AddIs
<1>11. Paired(Fit(c \o ps), InOrder(q, n))  BY <1>6, <1>7, <1>8, <1>9, AddPaired
<1>12. ChannelSide(q, n, s, t, Fit(c \o ps), w)  BY <1>10, <1>11 DEF ChannelSide, Y
<1>13. SendSide(q, n, s, t, o)  BY <1>3, <1>6 DEF SendSide
<1>14. BufferSide(q, n, s, w)  BY <1>1, <1>6 DEF BufferSide
<1> QED  BY <1>12, <1>13, <1>14 DEF Side

(* Nothing has been put on the way. *)
LEMMA AddNothing ==
  ASSUME NEW n \in Nodes, NEW q \in Seqs, NEW s, NEW r, NEW t, NEW c, NEW o, NEW u, NEW w, NEW ps, ps = <<>>,
         Side(q, n, s, r, c, o, u),
         \A m \in Msgs(Peer(n)) : u[m] # "unsent" => w[m] # "unsent",
         s.lastAckReceived \in Seqs, s.lastMsgSent \in Seqs, r.lastAckSent \in Seqs, t.lastAckSent = r.lastAckSent
  PROVE  Side(q, n, s, t, Fit(c \o ps), o, w)
<1>1. ps \in Seq(DataTo(q, n, s, w) \cup AcksTo(q, s, t)) /\ Len(ps) = 0  BY EmptySeq
<1>2. Paired(ps, InOrder(q, n))  BY <1>1 DEF Paired
<1>3. Dist(q, r.lastAckSent) <= Dist(q, t.lastAckSent) /\ Dist(q, t.lastAckSent) <= Dist(q, s.lastMsgSent)
  <2>1. Dist(q, r.lastAckSent) \in Int  BY NumberOk
  <2> QED  BY <2>1 DEF Side, SendSide
<1>4. \A x \in DataTo(q, n, s, u) \cup AcksTo(q, s, r), j \in 1..Len(ps) : <<x, ps[j]>> \in InOrder(q, n)  BY <1>1
<1> QED  BY <1>1, <1>2, <1>3, <1>4, AddSide

LEMMA OneIs ==
  ASSUME NEW X, NEW k \in X
  PROVE  <<k>> \in Seq(X) /\ \A j \in 1..Len(<<k>>) : j = 1 /\ <<k>>[j] = k
<1>1. <<k>> \in Seq(X) /\ Len(<<k>>) = 1 /\ <<k>>[1] = k  OBVIOUS
<1> QED  BY <1>1

(* The ack of everything the peer has received. *)
LEMMA AddAckSide ==
  ASSUME NEW n \in Nodes, NEW q \in Seqs, NEW s, NEW r, NEW t, NEW c, NEW o, NEW u, NEW k,
         Side(q, n, s, r, c, o, u),
         s.lastAckReceived \in Seqs, s.lastMsgSent \in Seqs, r.lastAckSent \in Seqs, t.lastAckSent \in Seqs,
         Dist(q, r.lastAckSent) <= Dist(q, t.lastAckSent), Dist(q, t.lastAckSent) <= Dist(q, s.lastMsgSent),
         k \in AckPackets, k.seq = t.lastAckSent, ~k.reset
  PROVE  Side(q, n, s, t, Fit(c \o <<k>>), o, u)
<1>1. k \in AckPackets /\ k.kind = "ack" /\ k.seq = t.lastAckSent /\ ~k.reset  BY DEF AckPackets
<1>2. /\ Dist(q, s.lastAckReceived) \in Int /\ Dist(q, r.lastAckSent) \in Int /\ Dist(q, t.lastAckSent) \in Int
  BY NumberOk
<1>3. Dist(q, s.lastAckReceived) <= Dist(q, r.lastAckSent)  BY DEF Side, SendSide
<1>4. k \in AcksTo(q, s, t)  BY <1>1, <1>2, <1>3 DEF AcksTo
<1> DEFINE ps == <<k>>
<1>5. ps \in Seq(DataTo(q, n, s, u) \cup AcksTo(q, s, t)) /\ \A j \in 1..Len(ps) : j = 1 /\ ps[j] = k
  <2> DEFINE Y == DataTo(q, n, s, u) \cup AcksTo(q, s, t)
  <2>1. k \in Y  BY <1>4
  <2> HIDE DEF Y
  <2>2. ps \in Seq(Y) /\ \A j \in 1..Len(ps) : j = 1 /\ ps[j] = k  BY <2>1, OneIs
  <2> QED  BY <2>2 DEF Y
<1> HIDE DEF ps
<1>6. Paired(ps, InOrder(q, n))  BY <1>5 DEF Paired
<1> DEFINE X == DataTo(q, n, s, u) \cup AcksTo(q, s, r)
<1>7. \A x \in X : <<x, k>> \in InOrder(q, n)
  <2> SUFFICES ASSUME NEW x \in X PROVE <<x, k>> \in InOrder(q, n)
    OBVIOUS
  <2>1. k \in OnTheWay(n)  BY <1>1 DEF OnTheWay
  <2>2. CASE x \in DataTo(q, n, s, u)
    <3>1. x \in PacketsOf(Peer(n)) /\ x.kind = "data"  BY <2>2 DEF DataTo, NamedOf, PacketsOf, DataPackets
    <3> QED  BY <3>1, <2>1, <1>1 DEF InOrder, OnTheWay
  <2>3. CASE x \in AcksTo(q, s, r)
    <3>1. x \in AckPackets /\ x.kind = "ack" /\ x.seq \in Seqs /\ Dist(q, x.seq) <= Dist(q, r.lastAckSent)
      BY <2>3 DEF AcksTo, AckPackets
    <3>2. Dist(q, x.seq) \in Int  BY <3>1, NumberOk
    <3>3. Dist(q, x.seq) <= Dist(q, k.seq)  BY <3>1, <3>2, <1>1, <1>2
    <3> QED  BY <3>1, <3>3, <2>1, <1>1 DEF InOrder, OnTheWay
  <2> QED  BY <2>2, <2>3
<1>8. \A x \in X, j \in 1..Len(ps) : <<x, ps[j]>> \in InOrder(q, n)
  <2> HIDE DEF X
  <2> QED  BY <1>5, <1>7
<1>9. Side(q, n, s, t, Fit(c \o ps), o, u)  BY <1>5, <1>6, <1>8, AddSide
<1> QED  BY <1>9 DEF ps

(* Data the peer has sent, for the first time or again: its numbers lie beyond the last ack it has seen. *)
LEMMA AddDataSide ==
  ASSUME NEW n \in Nodes, NEW q \in Seqs, NEW s, NEW r, NEW t, NEW c, NEW o, NEW u, NEW w, NEW ps,
         Side(q, n, s, r, c, o, u),
         \A m \in Msgs(Peer(n)) : u[m] # "unsent" => w[m] # "unsent",
         s.lastAckReceived \in Seqs, s.lastMsgSent \in Seqs, s.lastAckSent \in Seqs,
         r.lastAckSent \in Seqs, t.lastAckSent = r.lastAckSent,
         t.lastAckReceived \in Seqs, t.lastMsgSent \in Seqs,
         Counted(q, Peer(n), t, w), Dist(q, s.lastAckSent) <= Dist(q, t.lastMsgSent),
         Dist(q, t.lastMsgSent) <= Dist(q, t.lastAckReceived) + Window,
         NEW N, ps \in [1..N -> NamedOf(q, Peer(n), w)], N \in Nat,
         \A j \in 1..N : Dist(q, t.lastAckReceived) < Dist(q, ps[j].seq)
  PROVE  Side(q, n, s, t, Fit(c \o ps), o, w)
<1> DEFINE p == Peer(n)
           A == Dist(q, t.lastAckReceived)
           S == Dist(q, t.lastMsgSent)
<1>1. p \in Nodes  BY Peers
<1>2. A \in Int /\ S \in Int /\ S <= A + Window /\ Dist(q, s.lastAckSent) \in Int /\ Dist(q, s.lastAckSent) <= S
      /\ Dist(q, r.lastAckSent) \in Int
  BY NumberOk
<1>3. \A x \in NamedOf(q, p, w) : Dist(q, x.seq) \in Int /\ Dist(q, x.seq) <= S /\ x.kind = "data" /\ x \in PacketsOf(p)
  BY <1>1, NamedBounds
<1>4. NamedOf(q, p, u) \subseteq NamedOf(q, p, w)  BY NamedStay
<1>5. BufferSide(q, n, s, u)  BY DEF Side
<1>6. \A i \in Slots : s.recvMsgBuf[i] # Free => s.recvMsgBuf[i] \in NamedOf(q, p, w)
  BY <1>4, <1>5 DEF BufferSide
<1> HIDE DEF A, S, p
<1>7. \A x \in NamedOf(q, p, w) : A < Dist(q, x.seq) => Recent(q, s, x.seq)
  <2> SUFFICES ASSUME NEW x \in NamedOf(q, p, w), A < Dist(q, x.seq) PROVE Recent(q, s, x.seq)
    OBVIOUS
  <2>1. Dist(q, s.lastAckSent) < Dist(q, x.seq) + Window  BY <1>2, <1>3, Constants
  <2>2. \A i \in Slots : s.recvMsgBuf[i] # Free => Dist(q, s.recvMsgBuf[i].seq) < Dist(q, x.seq) + Window
    BY <1>2, <1>3, <1>6, Constants
  <2> QED  BY <2>1, <2>2 DEF Recent
<1>8. \A j \in 1..N : ps[j] \in DataTo(q, n, s, w) /\ ps[j] \in NamedOf(q, p, w) /\ A < Dist(q, ps[j].seq)
  BY <1>7 DEF DataTo, A, p
<1>9. Len(ps) = N /\ ps \in Seq(DataTo(q, n, s, w) \cup AcksTo(q, s, t))
  <2>1. ps \in [1..N -> DataTo(q, n, s, w)]  BY <1>8
  <2> QED  BY <2>1
<1>10. \A x, y \in NamedOf(q, p, w) : A < Dist(q, y.seq) => <<x, y>> \in InOrder(q, n)
  <2> SUFFICES ASSUME NEW x \in NamedOf(q, p, w), NEW y \in NamedOf(q, p, w), A < Dist(q, y.seq)
               PROVE  <<x, y>> \in InOrder(q, n)
    OBVIOUS
  <2>1. Dist(q, x.seq) < Dist(q, y.seq) + Window  BY <1>2, <1>3, Constants
  <2>2. x \in OnTheWay(n) /\ y \in OnTheWay(n) /\ x.kind = "data" /\ y.kind = "data"  BY <1>3 DEF OnTheWay, p
  <2> QED  BY <2>1, <2>2 DEF InOrder
<1>11. Paired(ps, InOrder(q, n))  BY <1>8, <1>9, <1>10 DEF Paired
<1>12. \A x \in DataTo(q, n, s, u) \cup AcksTo(q, s, r), j \in 1..Len(ps) : <<x, ps[j]>> \in InOrder(q, n)
  <2> SUFFICES ASSUME NEW x \in DataTo(q, n, s, u) \cup AcksTo(q, s, r), NEW j \in 1..Len(ps)
               PROVE  <<x, ps[j]>> \in InOrder(q, n)
    OBVIOUS
  <2>1. CASE x \in DataTo(q, n, s, u)
    <3>1. x \in NamedOf(q, p, w)  BY <2>1, <1>4 DEF DataTo, p
    <3> QED  BY <3>1, <1>8, <1>9, <1>10
  <2>2. CASE x \in AcksTo(q, s, r)
    <3>1. x \in AckPackets /\ x.kind = "ack"  BY <2>2 DEF AcksTo, AckPackets
    <3>2. ps[j].kind = "data" /\ ps[j] \in PacketsOf(p)  BY <1>3, <1>8, <1>9
    <3> QED  BY <3>1, <3>2 DEF InOrder, OnTheWay, p
  <2> QED  BY <2>1, <2>2
<1>13. Dist(q, r.lastAckSent) <= Dist(q, t.lastAckSent) /\ Dist(q, t.lastAckSent) <= Dist(q, s.lastMsgSent)
  BY <1>2 DEF Side, SendSide
<1> QED  BY <1>9, <1>11, <1>12, <1>13, AddSide

(* The head of the channel is taken. *)
LEMMA TailSide ==
  ASSUME NEW n, NEW q, NEW s, NEW r, NEW c, NEW o, NEW u, Side(q, n, s, r, c, o, u), c # <<>>
  PROVE  /\ Side(q, n, s, r, Tail(c), o, u)
         /\ Head(c) \in DataTo(q, n, s, u) \cup AcksTo(q, s, r)
         /\ Tail(c) \in Seq(DataTo(q, n, s, u) \cup AcksTo(q, s, r))
         /\ \A i \in 1..Len(Tail(c)) : <<Head(c), Tail(c)[i]>> \in InOrder(q, n)
<1> DEFINE X == DataTo(q, n, s, u) \cup AcksTo(q, s, r)
<1>1. c \in Seq(X) /\ Paired(c, InOrder(q, n)) /\ SendSide(q, n, s, r, o) /\ BufferSide(q, n, s, u)
  BY DEF Side, ChannelSide
<1> HIDE DEF X
<1>2. Tail(c) \in Seq(X) /\ Head(c) \in X  BY <1>1, TailIs
<1>3. Paired(Tail(c), InOrder(q, n)) /\ \A i \in 1..Len(Tail(c)) : <<Head(c), Tail(c)[i]>> \in InOrder(q, n)
  BY <1>1, TailPaired
<1> QED  BY <1>1, <1>2, <1>3 DEF Side, ChannelSide, X
(* n transmits packets that wait for an ack in its new state t. *)
LEMMA AddWaiting ==
  ASSUME NEW n \in Nodes, NEW q \in Seqs, NEW p, p = Peer(n),
         NEW s \in StateOf(p), NEW r, NEW t, NEW c, NEW o, NEW u, NEW w,
         Side(q, p, s, r, c, o, u), \A m \in Msgs(n) : u[m] # "unsent" => w[m] # "unsent",
         r.lastAckSent \in Seqs, t.lastAckSent = r.lastAckSent,
         SenderOk(n, t, w), SendSide(q, n, t, s, w),
         NEW N \in Nat, NEW ps \in [1..N -> Waiting(t)]
  PROVE  Side(q, p, s, t, Fit(c \o ps), o, w)
<1>1. p \in Nodes /\ Peer(p) = n  BY Peers
<1>2. /\ s.lastAckReceived \in Seqs /\ s.lastMsgSent \in Seqs /\ s.lastAckSent \in Seqs
      /\ t.lastAckReceived \in Seqs /\ t.lastMsgSent \in Seqs
  BY DEF StateOf, SenderOk
<1>3. /\ Counted(q, n, t, w) /\ Waiting(t) \subseteq NamedOf(q, n, w)
      /\ Dist(q, t.lastAckReceived) <= Dist(q, s.lastAckSent) /\ Dist(q, s.lastAckSent) <= Dist(q, t.lastMsgSent)
  BY DEF SendSide
<1>4. Dist(q, t.lastAckReceived) <= Dist(q, t.lastMsgSent)
  <2>1. Dist(q, t.lastAckReceived) \in Int /\ Dist(q, s.lastAckSent) \in Int /\ Dist(q, t.lastMsgSent) \in Int
    BY <1>2, NumberOk
  <2> QED  BY <2>1, <1>3
<1>5. /\ Dist(q, t.lastMsgSent) <= Dist(q, t.lastAckReceived) + Window
      /\ \A x \in Waiting(t) : Dist(q, t.lastAckReceived) < Dist(q, x.seq)
  BY <1>3, <1>4, WindowNumbers
<1>6. ps \in [1..N -> NamedOf(q, n, w)] /\ \A j \in 1..N : Dist(q, t.lastAckReceived) < Dist(q, ps[j].seq)
  BY <1>3, <1>5
<1> QED  BY <1>1, <1>2, <1>3, <1>5, <1>6, AddDataSide

(* Only what the sending half keeps of n has changed. *)
LEMMA SideSame ==
  ASSUME NEW n, NEW q, NEW s, NEW r, NEW c, NEW o, NEW u, Side(q, n, s, r, c, o, u),
         NEW t, t.lastAckReceived = s.lastAckReceived, t.lastAckSent = s.lastAckSent,
         t.recvMsgBuf = s.recvMsgBuf, t.fragmMsgBuf = s.fragmMsgBuf,
         NEW w, SendSide(q, n, t, r, w)
  PROVE  Side(q, n, t, r, c, w, u)
<1>1. BufferSide(q, n, t, u)  BY DEF Side, BufferSide
<1>2. DataTo(q, n, t, u) = DataTo(q, n, s, u) /\ AcksTo(q, t, r) = AcksTo(q, s, r)
  BY DEF DataTo, AcksTo, Recent
<1>3. ChannelSide(q, n, t, r, c, u)  BY <1>2 DEF Side, ChannelSide
<1> QED  BY <1>1, <1>3 DEF Side

-----------------------------------------------------------------------------
(* The steps of a node, one by one. *)

(* The order invariant, in the parts a step of n touches. *)
LEMMA OrderParts ==
  ASSUME TransportInv, NEW q \in Seqs, OrderInv(q), NEW n \in Nodes, NEW p, p = Peer(n)
  PROVE  /\ p \in Nodes /\ p # n /\ Peer(p) = n
         /\ SenderOk(n, node[n], outcome[n]) /\ SenderOk(p, node[p], outcome[p])
         /\ node[n] \in StateOf(n) /\ node[p] \in StateOf(p)
         /\ Side(q, n, node[n], node[p], net[n], outcome[n], outcome[p])
         /\ Side(q, p, node[p], node[n], net[p], outcome[p], outcome[n])
         /\ DOMAIN node = Nodes /\ DOMAIN outcome = Nodes /\ DOMAIN net = Nodes
<1>1. p \in Nodes /\ p # n /\ Peer(p) = n  BY Peers
<1>2. SenderOk(n, node[n], outcome[n]) /\ SenderOk(p, node[p], outcome[p])
  BY <1>1 DEF TransportInv, SendersInv
<1>3. node[n] \in StateOf(n) /\ node[p] \in StateOf(p)  BY <1>2 DEF SenderOk
<1>4. Side(q, n, node[n], node[p], net[n], outcome[n], outcome[p])
      /\ Side(q, p, node[p], node[n], net[p], outcome[p], outcome[n])
  BY <1>1 DEF OrderInv
<1> QED  BY <1>1, <1>2, <1>3, <1>4 DEF TransportInv, SendersInv, NetInv

(* What sendMsg makes of the state and of the packets that wait. *)
LEMMA SentIs ==
  ASSUME NEW n \in Nodes, NEW s \in StateOf(n), NEW N \in Nat, NEW ps, DOMAIN ps = 1..N, Len(ps) = N,
         NEW t, t = Sent(s, ps)
  PROVE  /\ t.lastAckReceived = s.lastAckReceived /\ t.lastMsgSent = Plus(s.lastMsgSent, N)
         /\ t.lastAckSent = s.lastAckSent /\ ~t.resetFlag
         /\ t.recvMsgBuf = s.recvMsgBuf /\ t.fragmMsgBuf = s.fragmMsgBuf
         /\ \A x : x \in Waiting(t) <=> x \in Waiting(s) \/ \E j \in 1..N : x = ps[j]
<1>1. /\ t.lastAckReceived = s.lastAckReceived /\ t.lastMsgSent = Plus(s.lastMsgSent, N)
      /\ t.lastAckSent = s.lastAckSent /\ ~t.resetFlag
      /\ t.recvMsgBuf = s.recvMsgBuf /\ t.fragmMsgBuf = s.fragmMsgBuf
      /\ t.sentMsgBuf = s.sentMsgBuf \cup {[packet |-> ps[j], resends |-> Resends] : j \in 1..N}
  BY DEF StateOf, Sent
<1> DEFINE B == s.sentMsgBuf
           C == t.sentMsgBuf
<1>2. \A x : x \in Waiting(s) <=> \E e \in B : x = e.packet  BY DEF Waiting
<1>3. \A x : x \in Waiting(t) <=> \E e \in C : x = e.packet  BY DEF Waiting
<1>4. \A e : e \in C <=> e \in B \/ \E j \in 1..N : e = [packet |-> ps[j], resends |-> Resends]  BY <1>1
<1>5. \A j \in 1..N : [packet |-> ps[j], resends |-> Resends].packet = ps[j]  OBVIOUS
<1> HIDE DEF B, C
<1>6. \A x : x \in Waiting(t) <=> x \in Waiting(s) \/ \E j \in 1..N : x = ps[j]
  <2> TAKE x
  <2>1. ASSUME x \in Waiting(t) PROVE x \in Waiting(s) \/ \E j \in 1..N : x = ps[j]
    BY <2>1, <1>2, <1>3, <1>4, <1>5
  <2>2. ASSUME x \in Waiting(s) PROVE x \in Waiting(t)  BY <2>2, <1>2, <1>3, <1>4
  <2>3. ASSUME NEW j \in 1..N, x = ps[j] PROVE x \in Waiting(t)
    <3>1. [packet |-> ps[j], resends |-> Resends] \in C  BY <1>4
    <3> QED  BY <3>1, <2>3, <1>3, <1>5
  <2> QED  BY <2>1, <2>2, <2>3
<1> QED  BY <1>1, <1>6

(* The packets of the message submitted next carry the numbers that come next. *)
LEMMA SentSide ==
  ASSUME NEW n \in Nodes, NEW q \in Seqs, NEW s, NEW o, NEW r, SenderOk(n, s, o), SendSide(q, n, s, r, o),
         r.lastAckSent \in Seqs,
         NEW m \in Msgs(n), o[m] = "unsent", m > 1 => o[m - 1] # "unsent", LastNumber(n)[m] < SeqMod,
         NEW N, N = Fragments[n][m],
         NEW ps, ps = Packets(n, m, s.lastMsgSent, s.resetFlag),
         Dist(s.lastAckReceived, s.lastMsgSent) + N <= Window,
         NEW t, t = Sent(s, ps),
         NEW w, w = [o EXCEPT ![m] = "pending"]
  PROVE  /\ SendSide(q, n, t, r, w)
         /\ N \in Nat /\ ps \in [1..N -> Waiting(t)]
         /\ \A k \in Msgs(n) : o[k] # "unsent" => w[k] # "unsent"
<1> DEFINE L == LastNumber(n)
           K == Len(Fragments[n])
           S == Dist(q, s.lastMsgSent)
<1>1. /\ s \in StateOf(n) /\ o \in [Msgs(n) -> Results] /\ s.lastMsgSent \in Seqs /\ s.lastAckReceived \in Seqs
      /\ Dist(q, s.lastAckReceived) <= Dist(q, r.lastAckSent) /\ Dist(q, r.lastAckSent) <= S
      /\ Waiting(s) \subseteq NamedOf(q, n, o) /\ ~s.resetFlag
  BY DEF SenderOk, StateOf, SendSide
<1>2. N \in 1..Window /\ N \in Nat  BY MessagesOf
<1>3. DOMAIN ps = 1..N /\ Len(ps) = N
      /\ \A j \in 1..N : ps[j] = [kind |-> "data", seq |-> Plus(s.lastMsgSent, j), msg |-> m, frag |-> j - 1,
                                  reset |-> (s.resetFlag /\ j = 1)]
  BY PacketsAre
<1>4. \A k \in Msgs(n) : w[k] = IF k = m THEN "pending" ELSE o[k]  BY <1>1
<1>5. \A k \in Msgs(n) : o[k] # "unsent" => w[k] # "unsent"  BY <1>4
<1>6. /\ t.lastAckReceived = s.lastAckReceived /\ t.lastMsgSent = Plus(s.lastMsgSent, N) /\ ~t.resetFlag
      /\ \A x : x \in Waiting(t) <=> x \in Waiting(s) \/ \E j \in 1..N : x = ps[j]
  BY <1>1, <1>2, <1>3, SentIs
<1>7. PICK k \in 0..K : (\A i \in Msgs(n) : o[i] # "unsent" <=> i <= k) /\ S = L[k]
  BY DEF SendSide, Counted
<1>8. K \in Nat /\ Msgs(n) = 1..K /\ m - 1 \in 0..K /\ m \in 0..K /\ L[m] = L[m - 1] + N /\ L[m - 1] \in Nat
  BY LastNumberIs
<1>9. k = m - 1
  <2>1. ~(m <= k)  BY <1>7
  <2>2. m > 1 => m - 1 \in Msgs(n)  BY <1>8
  <2>3. m > 1 => m - 1 <= k  BY <2>2, <1>7
  <2> HIDE DEF K
  <2> QED  BY <2>1, <2>3, <1>8
<1>10. S = L[m - 1] /\ L[m] = S + N /\ L[m] < SeqMod /\ S \in Nat  BY <1>7, <1>8, <1>9
<1>11. \A j \in 0..N : Dist(q, Plus(s.lastMsgSent, j)) = S + j /\ Plus(s.lastMsgSent, j) \in Seqs
  <2> TAKE j \in 0..N
  <2> HIDE DEF S
  <2>3. j \in Nat /\ N \in Nat /\ j <= N /\ N <= Window  BY <1>2
  <2>4. S + N < SeqMod /\ S \in Nat  BY <1>10
  <2>5. S + j < SeqMod  BY <2>3, <2>4, Constants
  <2>6. -SeqMod <= j /\ j <= SeqMod  BY <2>3, Constants
  <2>1. j \in Nat /\ Dist(q, s.lastMsgSent) + j < SeqMod /\ -SeqMod <= j /\ j <= SeqMod  BY <2>3, <2>5, <2>6 DEF S
  <2>2. Dist(q, Plus(s.lastMsgSent, j)) = Dist(q, s.lastMsgSent) + j  BY <2>1, <1>1, DistPlus
  <2> QED  BY <2>1, <2>2, <1>1, PlusIs DEF S
<1>12. Counted(q, n, t, w)
  <2>1. N \in 0..N  BY <1>2
  <2>2. Dist(q, t.lastMsgSent) = L[m]  BY <2>1, <1>6, <1>10, <1>11
  <2>3. \A i \in Msgs(n) : w[i] # "unsent" <=> i <= m
    <3> TAKE i \in Msgs(n)
    <3>1. o[i] # "unsent" <=> i <= m - 1  BY <1>7, <1>9
    <3>2. i \in Nat /\ m \in Nat  BY <1>8
    <3> QED  BY <3>1, <3>2, <1>4
  <2> QED  BY <2>2, <2>3, <1>8 DEF Counted
<1>13. \A j \in 1..N : ps[j] \in NamedOf(q, n, w)
  <2> SUFFICES ASSUME NEW j \in 1..N PROVE ps[j] \in NamedOf(q, n, w)
    OBVIOUS
  <2> DEFINE x == ps[j]
  <2>1. x \in PacketsOf(n)
    <3>1. Dist(s.lastAckReceived, s.lastMsgSent) + Len(ps) <= Window  BY <1>3
    <3> QED  BY <3>1, <1>3, SendOk
  <2>2. x.seq = Plus(s.lastMsgSent, j) /\ x.msg = m /\ x.frag = j - 1 /\ ~x.reset
    <3> DEFINE f == s.resetFlag /\ j = 1
    <3>1. x = [kind |-> "data", seq |-> Plus(s.lastMsgSent, j), msg |-> m, frag |-> j - 1, reset |-> f]  BY <1>3
    <3>2. ~f  BY <1>1
    <3> HIDE DEF f, x
    <3> QED  BY <3>1, <3>2
  <2> HIDE DEF x
  <2>3. j \in 0..N /\ S + j = S + (j - 1) + 1  BY <1>2, <1>10
  <2>4. Dist(q, x.seq) = L[x.msg - 1] + x.frag + 1  BY <2>2, <2>3, <1>10, <1>11
  <2>5. w[x.msg] # "unsent"  BY <2>2, <1>4
  <2> QED  BY <2>1, <2>2, <2>4, <2>5 DEF NamedOf, x
<1>14. Waiting(t) \subseteq NamedOf(q, n, w)
  <2>1. NamedOf(q, n, o) \subseteq NamedOf(q, n, w)  BY <1>5, NamedStay
  <2> SUFFICES ASSUME NEW x \in Waiting(t) PROVE x \in NamedOf(q, n, w)
    OBVIOUS
  <2>2. CASE x \in Waiting(s)  BY <2>1, <2>2, <1>1
  <2>3. CASE x \notin Waiting(s)
    <3>1. PICK j \in 1..N : x = ps[j]  BY <2>3, <1>6
    <3> QED  BY <3>1, <1>13
  <2> QED  BY <2>2, <2>3
<1>15. ps \in [1..N -> Waiting(t)]
  <2>1. ps \in [1..N -> {ps[j] : j \in 1..N}]  BY PacketsAre
  <2> QED  BY <2>1, <1>6
<1>16. Dist(q, r.lastAckSent) <= Dist(q, t.lastMsgSent)
  <2>1. N \in 0..N  BY <1>2
  <2>2. Dist(q, t.lastMsgSent) = S + N  BY <2>1, <1>6, <1>11
  <2>3. Dist(q, r.lastAckSent) \in Int  BY NumberOk
  <2> QED  BY <2>2, <2>3, <1>1, <1>2, <1>10
<1> QED  BY <1>1, <1>2, <1>5, <1>6, <1>12, <1>14, <1>15, <1>16 DEF SendSide

LEMMA OneChanges ==
  ASSUME NEW n \in Nodes, NEW p \in Nodes, p # n, NEW f, DOMAIN f = Nodes, NEW t, NEW g, g = [f EXCEPT ![n] = t]
  PROVE  g[n] = t /\ g[p] = f[p]
OBVIOUS

LEMMA OrderSendMsg ==
  ASSUME TransportInv, NEW q \in Seqs, OrderInv(q), NEW n \in Nodes, NEW m \in Msgs(n), SendMsg(n, m),
         LastNumber(n)[m] < SeqMod
  PROVE  OrderInv(q)'
<1> DEFINE p == Peer(n)
           s == node[n]
           r == node[p]
           o == outcome[n]
           u == outcome[p]
           ps == Packets(n, m, s.lastMsgSent, s.resetFlag)
           w == [o EXCEPT ![m] = "pending"]
           t == Sent(s, ps)
           N == Fragments[n][m]
<1>1. /\ p \in Nodes /\ p # n /\ Peer(p) = n /\ SenderOk(n, s, o) /\ SenderOk(p, r, u)
      /\ s \in StateOf(n) /\ r \in StateOf(p)
      /\ Side(q, n, s, r, net[n], o, u) /\ Side(q, p, r, s, net[p], u, o)
      /\ DOMAIN node = Nodes /\ DOMAIN outcome = Nodes /\ DOMAIN net = Nodes
  BY OrderParts
<1>2. o[m] = "unsent" /\ (m > 1 => o[m - 1] # "unsent") /\ Dist(s.lastAckReceived, s.lastMsgSent) + Len(ps) <= Window
      /\ Send(n, ps)
  BY DEF SendMsg
<1>3. node' = [node EXCEPT ![n] = t]  BY Zenon DEF SendMsg, Sent
<1>4. outcome' = [outcome EXCEPT ![n] = w]  BY DEF SendMsg
<1>5. net' = [net EXCEPT ![p] = Fit(net[p] \o ps)]  BY <1>2 DEF Send
<1>6. Len(ps) = N /\ DOMAIN ps = 1..N /\ N \in Nat  BY PacketsAre, MessagesOf
<1>7. s.lastAckSent \in Seqs /\ r.lastAckSent \in Seqs  BY <1>1 DEF StateOf
<1>8. SendSide(q, n, s, r, o)  BY <1>1 DEF Side
<1> HIDE DEF p, s, r, o, u
<1>9. SendSide(q, n, t, r, w) /\ ps \in [1..N -> Waiting(t)] /\ \A k \in Msgs(n) : o[k] # "unsent" => w[k] # "unsent"
  BY <1>1, <1>2, <1>6, <1>7, <1>8, SentSide
<1>10. SenderOk(n, t, w)  BY <1>1, <1>2, SendOk
<1>11. /\ t.lastAckReceived = s.lastAckReceived /\ t.lastAckSent = s.lastAckSent
       /\ t.recvMsgBuf = s.recvMsgBuf /\ t.fragmMsgBuf = s.fragmMsgBuf
  BY <1>1, <1>6, SentIs
<1>12. node'[n] = t /\ node'[p] = r /\ outcome'[n] = w /\ outcome'[p] = u
       /\ net'[n] = net[n] /\ net'[p] = Fit(net[p] \o ps)
  <2> HIDE DEF t, w, ps
  <2>1. node'[n] = t /\ node'[p] = node[p]  BY <1>1, <1>3, OneChanges
  <2>2. outcome'[n] = w /\ outcome'[p] = outcome[p]  BY <1>1, <1>4, OneChanges
  <2>3. net'[p] = Fit(net[p] \o ps) /\ net'[n] = net[n]  BY <1>1, <1>5
  <2> QED  BY <2>1, <2>2, <2>3 DEF r, u
<1> HIDE DEF t, w, ps, N
<1>13. Side(q, n, t, r, net[n], w, u)  BY <1>1, <1>9, <1>11, SideSame
<1>14. Side(q, p, r, t, Fit(net[p] \o ps), u, w)
  BY <1>1, <1>6, <1>7, <1>9, <1>10, <1>11, AddWaiting DEF p
<1> QED  BY <1>12, <1>13, <1>14, OrderStep DEF p, r, u

(* What a resend makes of the state. *)
LEMMA ResentIs ==
  ASSUME NEW n, NEW s \in StateOf(n), NEW e, NEW T, NEW t, t = Resent(s, e, T)
  PROVE  /\ t.lastAckReceived = s.lastAckReceived /\ t.lastMsgSent = s.lastMsgSent
         /\ t.lastAckSent = s.lastAckSent /\ t.resetFlag = s.resetFlag
         /\ t.recvMsgBuf = s.recvMsgBuf /\ t.fragmMsgBuf = s.fragmMsgBuf
BY DEF StateOf, Resent

LEMMA OrderTimer ==
  ASSUME TransportInv, NEW q \in Seqs, OrderInv(q), NEW n \in Nodes, NEW x \in Seqs, MsgTimerFired(n, x), ~broken'
  PROVE  OrderInv(q)'
<1> DEFINE p == Peer(n)
           s == node[n]
           r == node[p]
           o == outcome[n]
           u == outcome[p]
<1>1. /\ p \in Nodes /\ p # n /\ Peer(p) = n /\ SenderOk(n, s, o) /\ SenderOk(p, r, u)
      /\ s \in StateOf(n) /\ r \in StateOf(p)
      /\ Side(q, n, s, r, net[n], o, u) /\ Side(q, p, r, s, net[p], u, o)
      /\ DOMAIN node = Nodes /\ DOMAIN outcome = Nodes /\ DOMAIN net = Nodes
  BY OrderParts
<1>2. ~ResetNode(n, TRUE)  BY DEF ResetNode
<1>3. PICK e \in s.sentMsgBuf : /\ e.resends > 0
                                /\ node' = [node EXCEPT ![n] = Resent(s, e, s.timers \cup {e.packet.seq})]
                                /\ Send(n, <<e.packet>>)
                                /\ UNCHANGED <<outcome, delivered, broken>>
  BY <1>2, TimerCases
<1> DEFINE T == s.timers \cup {e.packet.seq}
           t == Resent(s, e, T)
           ps == <<e.packet>>
<1>4. node' = [node EXCEPT ![n] = t] /\ Send(n, ps) /\ outcome' = outcome  BY <1>3
<1>5. net' = [net EXCEPT ![p] = Fit(net[p] \o ps)]  BY <1>4 DEF Send
<1>6. e.packet \in Waiting(s)  BY DEF Waiting
<1>7. s.lastAckSent \in Seqs /\ r.lastAckSent \in Seqs  BY <1>1 DEF StateOf
<1>8. SendSide(q, n, s, r, o)  BY <1>1 DEF Side
<1> HIDE DEF p, s, r, o, u, T
<1>9. SenderOk(n, t, o) /\ Waiting(t) = Waiting(s)  BY <1>1, <1>3, ResentOk DEF T
<1>10. /\ t.lastAckReceived = s.lastAckReceived /\ t.lastMsgSent = s.lastMsgSent
       /\ t.lastAckSent = s.lastAckSent /\ t.resetFlag = s.resetFlag
       /\ t.recvMsgBuf = s.recvMsgBuf /\ t.fragmMsgBuf = s.fragmMsgBuf
  BY <1>1, ResentIs
<1>11. node'[n] = t /\ node'[p] = r /\ outcome'[n] = o /\ outcome'[p] = u
       /\ net'[n] = net[n] /\ net'[p] = Fit(net[p] \o ps)
  <2> HIDE DEF t, ps
  <2>1. node'[n] = t /\ node'[p] = node[p]  BY <1>1, <1>4, OneChanges
  <2>2. outcome'[n] = o /\ outcome'[p] = u  BY <1>4 DEF o, u
  <2>3. net'[p] = Fit(net[p] \o ps) /\ net'[n] = net[n]  BY <1>1, <1>5
  <2> QED  BY <2>1, <2>2, <2>3 DEF r
<1>12. ps \in [1..1 -> Waiting(t)]  BY <1>6, <1>9
<1> HIDE DEF t, ps
<1>13. SendSide(q, n, t, r, o)  BY <1>8, <1>9, <1>10 DEF SendSide, Counted
<1>14. Side(q, n, t, r, net[n], o, u)  BY <1>1, <1>10, <1>13, SideSame
<1>15. 1 \in Nat  OBVIOUS
<1>16. Side(q, p, r, t, Fit(net[p] \o ps), u, o)
  BY <1>1, <1>7, <1>9, <1>10, <1>12, <1>13, <1>15, AddWaiting DEF p
<1> QED  BY <1>11, <1>14, <1>16, OrderStep DEF p, r, o, u

LEMMA OrderLose ==
  ASSUME TransportInv, NEW q \in Seqs, OrderInv(q), NEW n \in Nodes, Lose(n)
  PROVE  OrderInv(q)'
<1> DEFINE p == Peer(n)
<1>1. /\ p \in Nodes /\ p # n /\ DOMAIN net = Nodes
      /\ Side(q, n, node[n], node[p], net[n], outcome[n], outcome[p])
      /\ Side(q, p, node[p], node[n], net[p], outcome[p], outcome[n])
  BY OrderParts
<1>2. net[n] # <<>> /\ net' = [net EXCEPT ![n] = Tail(net[n])] /\ node' = node /\ outcome' = outcome  BY DEF Lose
<1>3. net'[n] = Tail(net[n]) /\ net'[p] = net[p]  BY <1>1, <1>2
<1>4. Side(q, n, node[n], node[p], Tail(net[n]), outcome[n], outcome[p])  BY <1>1, <1>2, TailSide
<1> QED  BY <1>1, <1>2, <1>3, <1>4, OrderStep

(* A sequence all of whose elements are in Y. *)
LEMMA ElementsIn ==
  ASSUME NEW X, NEW c \in Seq(X), NEW Y, \A i \in 1..Len(c) : c[i] \in Y
  PROVE  c \in Seq(Y)
<1>1. c = [i \in 1..Len(c) |-> c[i]] /\ Len(c) \in Nat  OBVIOUS
<1> QED  BY <1>1

(* What an acceptable ack makes of the state. *)
LEMMA AckedIs ==
  ASSUME NEW n, NEW s \in StateOf(n), NEW a, NEW t, t = AckedState(s, a)
  PROVE  /\ t.lastAckReceived = a /\ t.lastMsgSent = s.lastMsgSent
         /\ t.lastAckSent = s.lastAckSent /\ t.resetFlag = s.resetFlag
         /\ t.recvMsgBuf = s.recvMsgBuf /\ t.fragmMsgBuf = s.fragmMsgBuf
         /\ Waiting(t) \subseteq Waiting(s)
<1>1. /\ t.lastAckReceived = a /\ t.lastMsgSent = s.lastMsgSent
      /\ t.lastAckSent = s.lastAckSent /\ t.resetFlag = s.resetFlag
      /\ t.recvMsgBuf = s.recvMsgBuf /\ t.fragmMsgBuf = s.fragmMsgBuf
      /\ t.sentMsgBuf = s.sentMsgBuf \ Acked(s, a)
  BY DEF StateOf, AckedState
<1> QED  BY <1>1 DEF Waiting

(* The head of the channel is an ack that n accepts. *)
LEMMA AckedSide ==
  ASSUME NEW n \in Nodes, NEW q \in Seqs, NEW s \in StateOf(n), NEW r, NEW c, NEW o, NEW u, NEW w,
         Side(q, n, s, r, c, o, u), c # <<>>, Head(c) \in AckPackets,
         NEW a, a = Head(c).seq, NEW t, t = AckedState(s, a),
         \A m \in Msgs(n) : o[m] # "unsent" <=> w[m] # "unsent"
  PROVE  Side(q, n, t, r, Tail(c), w, u)
<1> DEFINE X == DataTo(q, n, s, u) \cup AcksTo(q, s, r)
           d == Tail(c)
<1>1. /\ Side(q, n, s, r, d, o, u) /\ Head(c) \in X /\ d \in Seq(X)
      /\ \A i \in 1..Len(d) : <<Head(c), d[i]>> \in InOrder(q, n)
  BY TailSide
<1>2. Head(c) \in AcksTo(q, s, r)
  <2>1. Head(c).kind = "ack"  BY DEF AckPackets
  <2>2. Head(c) \notin DataTo(q, n, s, u)  BY <2>1 DEF DataTo, NamedOf, PacketsOf, DataPackets
  <2> QED  BY <1>1, <2>2
<1>3. Dist(q, a) <= Dist(q, r.lastAckSent)  BY <1>2 DEF AcksTo
<1>4. /\ t.lastAckReceived = a /\ t.lastMsgSent = s.lastMsgSent
      /\ t.lastAckSent = s.lastAckSent /\ t.resetFlag = s.resetFlag
      /\ t.recvMsgBuf = s.recvMsgBuf /\ t.fragmMsgBuf = s.fragmMsgBuf
      /\ Waiting(t) \subseteq Waiting(s)
  BY AckedIs
<1>5. NamedOf(q, n, o) \subseteq NamedOf(q, n, w)  BY NamedStay
<1> HIDE DEF X, d
<1>6. SendSide(q, n, s, r, o) /\ BufferSide(q, n, s, u) /\ Paired(d, InOrder(q, n))
  BY <1>1 DEF Side, ChannelSide
<1>7. Counted(q, n, t, w)  BY <1>4, <1>6 DEF SendSide, Counted
<1>8. SendSide(q, n, t, r, w)  BY <1>3, <1>4, <1>5, <1>6, <1>7 DEF SendSide
<1>9. BufferSide(q, n, t, u)  BY <1>4, <1>6 DEF BufferSide
<1>10. DataTo(q, n, t, u) = DataTo(q, n, s, u)  BY <1>4 DEF DataTo, Recent
<1>11. \A i \in 1..Len(d) : d[i] \in DataTo(q, n, t, u) \cup AcksTo(q, t, r)
  <2> SUFFICES ASSUME NEW i \in 1..Len(d) PROVE d[i] \in DataTo(q, n, t, u) \cup AcksTo(q, t, r)
    OBVIOUS
  <2>1. d[i] \in X  BY <1>1, ElementOfSeq
  <2>2. CASE d[i] \in DataTo(q, n, s, u)  BY <2>2, <1>10
  <2>3. CASE d[i] \in AcksTo(q, s, r)
    <3>1. Head(c).kind = "ack" /\ d[i].kind = "ack"  BY <2>3, <1>2 DEF AcksTo, AckPackets
    <3>2. Dist(q, a) <= Dist(q, d[i].seq)  BY <3>1, <1>1 DEF InOrder
    <3> QED  BY <2>3, <3>2, <1>4 DEF AcksTo
  <2> QED  BY <2>1, <2>2, <2>3 DEF X
<1>12. d \in Seq(DataTo(q, n, t, u) \cup AcksTo(q, t, r))  BY <1>1, <1>11, ElementsIn
<1> QED  BY <1>6, <1>8, <1>9, <1>12 DEF Side, ChannelSide, d

LEMMA OrderAck ==
  ASSUME TransportInv, NEW q \in Seqs, OrderInv(q), NEW n \in Nodes, AckArrived(n), ~broken'
  PROVE  OrderInv(q)'
<1> DEFINE p == Peer(n)
           s == node[n]
           r == node[p]
           o == outcome[n]
           u == outcome[p]
           a == Head(net[n]).seq
           w == Reported(n, s, a)
           t == AckedState(s, a)
           ps == <<>>
<1>1. /\ p \in Nodes /\ p # n /\ Peer(p) = n /\ SenderOk(n, s, o) /\ SenderOk(p, r, u)
      /\ s \in StateOf(n) /\ r \in StateOf(p)
      /\ Side(q, n, s, r, net[n], o, u) /\ Side(q, p, r, s, net[p], u, o)
      /\ DOMAIN node = Nodes /\ DOMAIN outcome = Nodes /\ DOMAIN net = Nodes
  BY OrderParts
<1>2. /\ net[n] # <<>> /\ Head(net[n]) \in AckPackets /\ Answer(n, ps)
      /\ ResetNode(n, FALSE) \/ AcceptsAck(n, s, a) \/ UNCHANGED <<node, outcome, delivered, broken>>
  BY AckCases
<1>3. ~ResetNode(n, FALSE)  BY DEF ResetNode
<1>4. net'[n] = Tail(net[n]) /\ net'[p] = Fit(net[p] \o ps)  BY <1>1, <1>2 DEF Answer
<1>5. /\ s.lastAckReceived \in Seqs /\ s.lastMsgSent \in Seqs /\ s.lastAckSent \in Seqs
      /\ r.lastAckReceived \in Seqs /\ r.lastMsgSent \in Seqs /\ r.lastAckSent \in Seqs
  BY <1>1 DEF StateOf
<1>6. ps = <<>>  OBVIOUS
<1> HIDE DEF s, r, o, u, ps
<1>7. CASE AcceptsAck(n, s, a)
  <2>1. Acceptable(s, a) /\ node' = [node EXCEPT ![n] = t] /\ outcome' = [outcome EXCEPT ![n] = w]
    BY <1>7 DEF AcceptsAck
  <2>2. a \in Seqs  BY <1>2 DEF AckPackets
  <2>3. \A m \in Completed(n, Acked(s, a)) : m \in Msgs(n) /\ o[m] = "pending"
    <3> DEFINE v == [m \in Msgs(n) |-> IF m \in Completed(n, Acked(s, a)) THEN "ok" ELSE o[m]]
    <3>1. v = [m \in Msgs(n) |-> IF m \in Completed(n, Acked(s, a)) THEN "ok" ELSE o[m]]  OBVIOUS
    <3> HIDE DEF v, a
    <3> QED  BY <3>1, <2>1, <2>2, <1>1, AckedOk
  <2>4. \A m \in Msgs(n) : w[m] = IF m \in Completed(n, Acked(s, a)) THEN "ok" ELSE o[m]  BY DEF Reported, o
  <2> HIDE DEF w, t, a, p
  <2>5. \A m \in Msgs(n) : o[m] # "unsent" <=> w[m] # "unsent"  BY <2>3, <2>4
  <2>6. Side(q, n, t, r, Tail(net[n]), w, u)  BY <2>5, <1>1, <1>2, AckedSide DEF t, a
  <2>7. t.lastAckSent = s.lastAckSent  BY <1>1, AckedIs DEF t
  <2>8. Side(q, p, r, t, Fit(net[p] \o ps), u, w)
    <3>1. \A m \in Msgs(Peer(p)) : o[m] # "unsent" => w[m] # "unsent"  BY <1>1, <2>5
    <3> QED  BY <3>1, <1>1, <1>5, <1>6, <2>7, AddNothing
  <2>9. node'[n] = t /\ node'[p] = node[p] /\ outcome'[n] = w /\ outcome'[p] = outcome[p]
    BY <2>1, <1>1, OneChanges
  <2> QED  BY <2>6, <2>8, <2>9, <1>1, <1>4, OrderStep DEF p, r, u
<1>8. CASE UNCHANGED <<node, outcome, delivered, broken>>
  <2>1. Side(q, n, s, r, Tail(net[n]), o, u)  BY <1>1, <1>2, TailSide
  <2>2. Side(q, p, r, s, Fit(net[p] \o ps), u, o)  BY <1>1, <1>5, <1>6, AddNothing
  <2>3. node'[n] = s /\ node'[p] = node[p] /\ outcome'[n] = o /\ outcome'[p] = outcome[p]
    BY <1>8 DEF s, o
  <2> HIDE DEF p
  <2> QED  BY <2>1, <2>2, <2>3, <1>1, <1>4, OrderStep DEF p, r, u
<1> QED  BY <1>2, <1>3, <1>7, <1>8

-----------------------------------------------------------------------------
(* Receiving, in the parts the invariants are about. *)

LEMMA PutIs ==
  ASSUME NEW n, NEW buf \in BufferOf(n), NEW p, NEW i \in Slots
  PROVE  /\ Put(buf, p)[i] = IF i = FreeSlot(buf) THEN p ELSE buf[i]
         /\ i = FreeSlot(buf) => buf[i] = Free
<1> DEFINE k == FreeSlot(buf)
<1>1. Put(buf, p) = [buf EXCEPT ![k] = p] /\ DOMAIN buf = Slots  BY DEF Put, BufferOf
<1>2. k # 0 => buf[k] = Free  BY FreeSlotIs
<1>3. i # 0  BY Constants DEF Slots
<1> HIDE DEF k
<1> QED  BY <1>1, <1>2, <1>3 DEF k

(* Taking a packet frees slots, and keeps the packet if it is new. *)
LEMMA TakeIs ==
  ASSUME NEW n \in Nodes, NEW d \in WorkOf(n), NEW p \in PacketsOf(Peer(n)), NEW new \in BOOLEAN, NEW garbage,
         NEW t, t = Take(n, d, p, new, garbage)
  PROVE  /\ t \in WorkOf(n) /\ t.recvMsgBuf = d.recvMsgBuf /\ t.last = d.last
         /\ \A i \in Slots : \/ t.fragmMsgBuf[i] = Free
                             \/ t.fragmMsgBuf[i] = d.fragmMsgBuf[i]
                             \/ new /\ t.fragmMsgBuf[i] = p
<1> DEFINE buf == IF new THEN Put(d.fragmMsgBuf, p) ELSE d.fragmMsgBuf
           firsts == FirstFragment(buf, p, IF new THEN FreeSlot(d.fragmMsgBuf) ELSE garbage)
           run == Run(n, buf, Plus(p.seq, -p.frag))
           x == CHOOSE y \in firsts : TRUE
           used == {x.slot} \cup {run[f] : f \in DOMAIN run}
           parts == {x.packet.msg} \cup {buf[run[f]].msg : f \in DOMAIN run}
           whole == IF parts = {p.msg} THEN p.msg ELSE Mixed
           kept == [i \in Slots |-> IF i \in used THEN Free ELSE buf[i]]
<1>1. t \in {[d EXCEPT !.up = Append(d.up, p.msg)],
             [d EXCEPT !.fragmMsgBuf = buf],
             [d EXCEPT !.fragmMsgBuf = kept, !.up = Append(d.up, whole)]}
  BY DEF Take
<1>2. d.fragmMsgBuf \in BufferOf(n)  BY DEF WorkOf
<1>3. \A i \in Slots : buf[i] = d.fragmMsgBuf[i] \/ (new /\ buf[i] = p)  BY <1>2, PutIs
<1> HIDE DEF buf, used, whole
<1>4. \A i \in Slots : kept[i] = Free \/ kept[i] = buf[i]  OBVIOUS
<1> HIDE DEF kept
<1>5. /\ t.recvMsgBuf = d.recvMsgBuf /\ t.last = d.last
      /\ t.fragmMsgBuf \in {d.fragmMsgBuf, buf, kept}
  BY <1>1 DEF WorkOf
<1>6. t \in WorkOf(n)  BY TakeOk
<1> QED  BY <1>3, <1>4, <1>5, <1>6

(* Taking a packet that has just arrived, and one that waited in recvMsgBuf. *)
WorkStart(s) == [recvMsgBuf |-> s.recvMsgBuf, fragmMsgBuf |-> s.fragmMsgBuf, up |-> <<>>, last |-> s.lastAckSent]
TakeNew(n, s, p, garbage) == Take(n, WorkStart(s), p, TRUE, garbage)
TakeOld(n, d, p, garbage) == Take(n, d, p, FALSE, garbage)

LEMMA TakeNewIs ==
  ASSUME NEW n \in Nodes, NEW s \in StateOf(n), NEW p \in PacketsOf(Peer(n)), NEW garbage,
         NEW t, t = TakeNew(n, s, p, garbage)
  PROVE  /\ WorkStart(s) \in WorkOf(n)
         /\ t \in WorkOf(n) /\ t.recvMsgBuf = s.recvMsgBuf
         /\ \A i \in Slots : t.fragmMsgBuf[i] = Free \/ t.fragmMsgBuf[i] = s.fragmMsgBuf[i] \/ t.fragmMsgBuf[i] = p
<1> DEFINE d == WorkStart(s)
           new == TRUE
<1>1. d \in WorkOf(n)
  <2>1. s.recvMsgBuf \in BufferOf(n) /\ s.fragmMsgBuf \in BufferOf(n) /\ s.lastAckSent \in Seqs  BY DEF StateOf
  <2>2. <<>> \in Seq(Msgs(Peer(n)) \cup {Mixed})  OBVIOUS
  <2> QED  BY <2>1, <2>2 DEF WorkOf, WorkStart
<1>2. new \in BOOLEAN /\ t = Take(n, d, p, new, garbage)  BY DEF TakeNew
<1>3. d.recvMsgBuf = s.recvMsgBuf /\ d.fragmMsgBuf = s.fragmMsgBuf  BY DEF WorkStart
<1> HIDE DEF d, new
<1>4. /\ t \in WorkOf(n) /\ t.recvMsgBuf = d.recvMsgBuf
      /\ \A i \in Slots : \/ t.fragmMsgBuf[i] = Free
                          \/ t.fragmMsgBuf[i] = d.fragmMsgBuf[i]
                          \/ new /\ t.fragmMsgBuf[i] = p
  BY <1>1, <1>2, TakeIs
<1> QED  BY <1>1, <1>3, <1>4 DEF d

LEMMA TakeOldIs ==
  ASSUME NEW n \in Nodes, NEW d \in WorkOf(n), NEW p \in PacketsOf(Peer(n)), NEW garbage,
         NEW t, t = TakeOld(n, d, p, garbage)
  PROVE  /\ t \in WorkOf(n) /\ t.recvMsgBuf = d.recvMsgBuf
         /\ \A i \in Slots : t.fragmMsgBuf[i] = Free \/ t.fragmMsgBuf[i] = d.fragmMsgBuf[i]
<1> DEFINE new == FALSE
<1>1. new \in BOOLEAN /\ t = Take(n, d, p, new, garbage)  BY DEF TakeOld
<1>2. ~new  OBVIOUS
<1> HIDE DEF new
<1>3. /\ t \in WorkOf(n) /\ t.recvMsgBuf = d.recvMsgBuf
      /\ \A i \in Slots : \/ t.fragmMsgBuf[i] = Free
                          \/ t.fragmMsgBuf[i] = d.fragmMsgBuf[i]
                          \/ new /\ t.fragmMsgBuf[i] = p
  BY <1>1, TakeIs
<1> QED  BY <1>2, <1>3

(* A round of the loop takes a buffered packet that is next in sequence, or finds none. *)
LEMMA RoundCases ==
  ASSUME NEW n \in Nodes, NEW d \in WorkOf(n), NEW garbage, NEW z, z = DrainRound(n, d, garbage), z # d
  PROVE  \E i \in Slots, p \in PacketsOf(Peer(n)) :
           /\ p = d.recvMsgBuf[i] /\ p # Free /\ p.seq = Plus(d.last, 1)
           /\ z.last = p.seq /\ z.recvMsgBuf = [d.recvMsgBuf EXCEPT ![i] = Free]
           /\ z.fragmMsgBuf = TakeOld(n, d, p, garbage).fragmMsgBuf
           /\ z.up = TakeOld(n, d, p, garbage).up
<1> DEFINE S == {j \in Slots : d.recvMsgBuf[j] # Free /\ d.recvMsgBuf[j].seq = Plus(d.last, 1)}
           i == FirstSlot(S)
           p == d.recvMsgBuf[i]
           t == TakeOld(n, d, p, garbage)
<1>1. i # 0  BY DEF DrainRound
<1>2. i \in S /\ i \in Slots  BY <1>1, FirstSlotIs
<1>3. p # Free /\ p.seq = Plus(d.last, 1) /\ p \in PacketsOf(Peer(n))  BY <1>2 DEF WorkOf, BufferOf
<1>4. z = [t EXCEPT !.recvMsgBuf[i] = Free, !.last = p.seq]  BY <1>1, Zenon DEF DrainRound, TakeOld
<1>5. t \in WorkOf(n) /\ t.recvMsgBuf = d.recvMsgBuf
  <2> HIDE DEF p
  <2> QED  BY <1>3, TakeOldIs
<1> HIDE DEF t, i, p
<1>6. z.last = p.seq /\ z.recvMsgBuf = [d.recvMsgBuf EXCEPT ![i] = Free]
      /\ z.fragmMsgBuf = t.fragmMsgBuf /\ z.up = t.up
  BY <1>4, <1>5 DEF WorkOf
<1> QED  BY <1>2, <1>3, <1>6 DEF t, p

(* What a receiver has once p is taken in sequence, and once it is kept; taking p made t. *)
TakenNext(p, t) == [t EXCEPT !.last = p.seq]
KeptAhead(s, p, t) == [WorkStart(s) EXCEPT !.recvMsgBuf = Put(s.recvMsgBuf, p), !.fragmMsgBuf = t.fragmMsgBuf]

LEMMA AcceptCases ==
  ASSUME NEW n \in Nodes, NEW s \in StateOf(n), NEW p \in PacketsOf(Peer(n)), NEW garbage,
         NEW d, d = Accept(n, s, p, garbage).d, NEW t, t = TakeNew(n, s, p, garbage)
  PROVE  \/ InSequence(s, p) /\ d = TakenNext(p, t)
         \/ InSequence(s, p) /\ d = Drain(n, TakenNext(p, t), garbage)
         \/ Ahead(s, p) /\ d = KeptAhead(s, p, t)
         \/ d = WorkStart(s)
<1> DEFINE e == [recvMsgBuf |-> s.recvMsgBuf, fragmMsgBuf |-> s.fragmMsgBuf, up |-> <<>>, last |-> s.lastAckSent]
           took == Take(n, e, p, TRUE, garbage)
           taken == [took EXCEPT !.last = p.seq]
           drained == Drain(n, taken, garbage)
           ahead == [e EXCEPT !.recvMsgBuf = Put(s.recvMsgBuf, p), !.fragmMsgBuf = took.fragmMsgBuf]
           a == Accept(n, s, p, garbage)
<1>1. \/ InSequence(s, p) /\ a = [d |-> taken, received |-> p.seq]
      \/ InSequence(s, p) /\ a = [d |-> drained, received |-> s.lastMsgReceived]
      \/ Ahead(s, p) /\ a = [d |-> ahead, received |-> p.seq]
      \/ ~InSequence(s, p) /\ ~Ahead(s, p) /\ a = [d |-> e, received |-> s.lastMsgReceived]
  BY DEF Accept, Ahead
<1>2. e = WorkStart(s)  BY DEF WorkStart
<1> HIDE DEF e
<1>3. took = t  BY <1>2, Zenon DEF TakeNew
<1> HIDE DEF took
<1>4. taken = TakenNext(p, t) /\ ahead = KeptAhead(s, p, t)  BY <1>2, <1>3, Zenon DEF TakenNext, KeptAhead
<1>5. drained = Drain(n, TakenNext(p, t), garbage)  BY <1>4, Zenon
<1> HIDE DEF taken, drained, ahead
<1>6. \/ InSequence(s, p) /\ a.d = taken
      \/ InSequence(s, p) /\ a.d = drained
      \/ Ahead(s, p) /\ a.d = ahead
      \/ a.d = e
  BY <1>1
<1>7. d = a.d  OBVIOUS
<1> HIDE DEF a
<1> QED  BY <1>2, <1>4, <1>5, <1>6, <1>7

(* What taking in sequence and keeping make of the parts. *)
LEMMA TakenIs ==
  ASSUME NEW n \in Nodes, NEW s \in StateOf(n), NEW p \in PacketsOf(Peer(n)), NEW garbage,
         NEW t, t = TakeNew(n, s, p, garbage)
  PROVE  LET x == TakenNext(p, t)
             y == KeptAhead(s, p, t)
         IN  /\ x \in WorkOf(n)
             /\ x.recvMsgBuf = s.recvMsgBuf /\ x.fragmMsgBuf = t.fragmMsgBuf /\ x.up = t.up /\ x.last = p.seq
             /\ y.recvMsgBuf = Put(s.recvMsgBuf, p) /\ y.fragmMsgBuf = t.fragmMsgBuf
             /\ y.up = <<>> /\ y.last = s.lastAckSent
<1>1. t \in WorkOf(n) /\ t.recvMsgBuf = s.recvMsgBuf /\ p.seq \in Seqs
  BY TakeNewIs DEF PacketsOf, DataPackets
<1> QED  BY <1>1 DEF WorkOf, TakenNext, KeptAhead, WorkStart

-----------------------------------------------------------------------------
(* What receiving does to the order. *)

(* The number after one in use, unless it is the one the nodes started with. *)
LEMMA NextNumber ==
  ASSUME NEW q \in Seqs, NEW r \in Seqs, NEW x, x = Plus(r, 1), Dist(q, x) >= 1
  PROVE  x \in Seqs /\ Dist(q, x) = Dist(q, r) + 1 /\ Dist(q, r) \in Nat
<1>1. 1 \in 0..SeqMod-1 /\ 1 \in Int /\ -SeqMod <= 1 /\ 1 <= SeqMod  BY Constants
<1>2. x \in Seqs  BY <1>1, PlusIs
<1>3. Dist(r, x) = 1  BY <1>1, PlusDist
<1>4. Dist(r, x) = IF Dist(q, r) <= Dist(q, x) THEN Dist(q, x) - Dist(q, r)
                                                ELSE Dist(q, x) - Dist(q, r) + SeqMod
  BY <1>2, DistDist
<1>5. /\ Dist(q, r) \in Nat /\ Dist(q, r) < SeqMod /\ Dist(q, x) \in Nat
  BY <1>2, NumberOk
<1> DEFINE a == Dist(q, r)
           b == Dist(q, x)
<1>6. a \in Nat /\ a < SeqMod /\ b \in Nat /\ b >= 1 /\ 1 = IF a <= b THEN b - a ELSE b - a + SeqMod
  BY <1>3, <1>4, <1>5
<1> HIDE DEF a, b
<1>7. b = a + 1  BY <1>6, Constants
<1> QED  BY <1>2, <1>5, <1>7 DEF a, b

(* Less than a window beyond every packet in c. *)
Before(q, c, y) == \A i \in 1..Len(c) : c[i].kind = "data" => Dist(q, y) < Dist(q, c[i].seq) + Window

(* What n may work on while the packets c are on their way to it: the last number in sequence lies *)
(* between lo and hi.                                                                               *)
WorkGood(q, n, u, lo, hi, c) ==
  {d \in WorkOf(n) :
     /\ \A i \in Slots : /\ d.recvMsgBuf[i] # Free => /\ d.recvMsgBuf[i] \in NamedOf(q, Peer(n), u)
                                                      /\ Before(q, c, d.recvMsgBuf[i].seq)
                         /\ d.fragmMsgBuf[i] # Free => d.fragmMsgBuf[i] \in NamedOf(q, Peer(n), u)
     /\ lo <= Dist(q, d.last) /\ Dist(q, d.last) <= hi /\ Before(q, c, d.last)}

LEMMA RoundGood ==
  ASSUME NEW n \in Nodes, NEW q \in Seqs, NEW r, NEW u, Counted(q, Peer(n), r, u),
         NEW lo \in Nat, NEW hi, hi = Dist(q, r.lastMsgSent), r.lastMsgSent \in Seqs, NEW c, NEW garbage,
         NEW d \in WorkGood(q, n, u, lo, hi, c)
  PROVE  DrainRound(n, d, garbage) \in WorkGood(q, n, u, lo, hi, c)
<1> DEFINE z == DrainRound(n, d, garbage)
           P == NamedOf(q, Peer(n), u)
<1>1. d \in WorkOf(n) /\ lo <= Dist(q, d.last)
      /\ \A i \in Slots : /\ d.recvMsgBuf[i] # Free => d.recvMsgBuf[i] \in P /\ Before(q, c, d.recvMsgBuf[i].seq)
                          /\ d.fragmMsgBuf[i] # Free => d.fragmMsgBuf[i] \in P
  BY DEF WorkGood
<1>2. z \in WorkOf(n)  BY <1>1, DrainRoundOk
<1>3. CASE z = d  BY <1>3
<1>4. CASE z # d
  <2>1. PICK i \in Slots, p \in PacketsOf(Peer(n)) :
           /\ p = d.recvMsgBuf[i] /\ p # Free /\ p.seq = Plus(d.last, 1)
           /\ z.last = p.seq /\ z.recvMsgBuf = [d.recvMsgBuf EXCEPT ![i] = Free]
           /\ z.fragmMsgBuf = TakeOld(n, d, p, garbage).fragmMsgBuf
    <3>1. z = DrainRound(n, d, garbage)  OBVIOUS
    <3> HIDE DEF z
    <3> QED  BY <3>1, <1>1, <1>4, RoundCases
  <2>2. p \in P /\ Before(q, c, p.seq)  BY <1>1, <2>1
  <2>3. Peer(n) \in Nodes  BY Peers
  <2>4. Dist(q, p.seq) \in Nat /\ Dist(q, p.seq) >= 1 /\ Dist(q, p.seq) <= hi
    BY <2>2, <2>3, NamedBounds
  <2>5. d.last \in Seqs  BY <1>1 DEF WorkOf
  <2>6. Dist(q, p.seq) = Dist(q, d.last) + 1 /\ Dist(q, d.last) \in Nat  BY <2>1, <2>4, <2>5, NextNumber
  <2>7. lo <= Dist(q, z.last) /\ Dist(q, z.last) <= hi /\ Before(q, c, z.last)
    <3>1. lo <= Dist(q, p.seq)  BY <2>4, <2>6, <1>1
    <3> QED  BY <3>1, <2>1, <2>2, <2>4
  <2>8. \A j \in Slots : z.fragmMsgBuf[j] # Free => z.fragmMsgBuf[j] \in P
    <3> TAKE j \in Slots
    <3>1. z.fragmMsgBuf[j] = Free \/ z.fragmMsgBuf[j] = d.fragmMsgBuf[j]  BY <2>1, <1>1, TakeOldIs
    <3> HIDE DEF z, P
    <3> QED  BY <3>1, <1>1
  <2>9. \A j \in Slots : z.recvMsgBuf[j] # Free => z.recvMsgBuf[j] \in P /\ Before(q, c, z.recvMsgBuf[j].seq)
    <3>1. d.recvMsgBuf \in [Slots -> PacketsOf(Peer(n)) \cup {Free}]  BY <1>1 DEF WorkOf, BufferOf
    <3>2. \A j \in Slots : z.recvMsgBuf[j] = IF j = i THEN Free ELSE d.recvMsgBuf[j]  BY <2>1, <3>1
    <3> HIDE DEF z, P
    <3> QED  BY <3>2, <1>1
  <2> HIDE DEF z, P
  <2>10. \A j \in Slots : /\ z.recvMsgBuf[j] # Free => z.recvMsgBuf[j] \in P /\ Before(q, c, z.recvMsgBuf[j].seq)
                          /\ z.fragmMsgBuf[j] # Free => z.fragmMsgBuf[j] \in P
    BY <2>8, <2>9
  <2>11. z \in WorkGood(q, n, u, lo, hi, c)  BY <1>2, <2>7, <2>10 DEF WorkGood, P
  <2> QED  BY <2>11 DEF z
<1> QED  BY <1>3, <1>4

LEMMA AcceptGood ==
  ASSUME NEW n \in Nodes, NEW q \in Seqs, NEW r, NEW u, Counted(q, Peer(n), r, u),
         NEW s \in StateOf(n), BufferSide(q, n, s, u), Dist(q, s.lastAckSent) <= Dist(q, r.lastMsgSent),
         NEW lo, lo = Dist(q, s.lastAckSent), NEW hi, hi = Dist(q, r.lastMsgSent), r.lastMsgSent \in Seqs,
         NEW p \in NamedOf(q, Peer(n), u),
         NEW c, \A i \in 1..Len(c) : c[i].kind = "data" => /\ Recent(q, s, c[i].seq)
                                                           /\ Dist(q, p.seq) < Dist(q, c[i].seq) + Window,
         NEW garbage, NEW d, d = Accept(n, s, p, garbage).d
  PROVE  d \in WorkGood(q, n, u, lo, hi, c)
<1> DEFINE P == NamedOf(q, Peer(n), u)
           W == WorkGood(q, n, u, lo, hi, c)
           e == WorkStart(s)
           t == TakeNew(n, s, p, garbage)
           x == TakenNext(p, t)
           y == KeptAhead(s, p, t)
<1>1. p \in PacketsOf(Peer(n)) /\ Peer(n) \in Nodes  BY Peers DEF NamedOf
<1>2. \/ InSequence(s, p) /\ d = x
      \/ InSequence(s, p) /\ d = Drain(n, x, garbage)
      \/ Ahead(s, p) /\ d = y
      \/ d = e
  <2>1. t = TakeNew(n, s, p, garbage)  OBVIOUS
  <2> HIDE DEF t
  <2> QED  BY <1>1, <2>1, AcceptCases
<1>3. d \in WorkOf(n)
  <2> DEFINE a == Accept(n, s, p, garbage)
  <2>1. a = Accept(n, s, p, garbage) /\ d = a.d  OBVIOUS
  <2> HIDE DEF a
  <2> QED  BY <2>1, <1>1, AcceptOk
<1>4. /\ x \in WorkOf(n)
      /\ x.recvMsgBuf = s.recvMsgBuf /\ x.fragmMsgBuf = t.fragmMsgBuf /\ x.last = p.seq
      /\ y.recvMsgBuf = Put(s.recvMsgBuf, p) /\ y.fragmMsgBuf = t.fragmMsgBuf /\ y.last = s.lastAckSent
  <2>1. t = TakeNew(n, s, p, garbage)  OBVIOUS
  <2> HIDE DEF t
  <2> QED  BY <1>1, <2>1, TakenIs
<1>5. e.recvMsgBuf = s.recvMsgBuf /\ e.fragmMsgBuf = s.fragmMsgBuf /\ e.last = s.lastAckSent  BY DEF WorkStart
<1>6. s.lastAckSent \in Seqs /\ s.recvMsgBuf \in BufferOf(n)  BY DEF StateOf
<1>7. lo \in Nat /\ hi \in Nat  BY <1>6, NumberOk
<1>8. \A i \in Slots : /\ s.recvMsgBuf[i] # Free => s.recvMsgBuf[i] \in P /\ Before(q, c, s.recvMsgBuf[i].seq)
                       /\ s.fragmMsgBuf[i] # Free => s.fragmMsgBuf[i] \in P
  <2> TAKE i \in Slots
  <2>1. /\ s.recvMsgBuf[i] # Free => s.recvMsgBuf[i] \in P
        /\ s.fragmMsgBuf[i] # Free => s.fragmMsgBuf[i] \in P
    BY DEF BufferSide
  <2>2. ASSUME s.recvMsgBuf[i] # Free PROVE Before(q, c, s.recvMsgBuf[i].seq)
    BY <2>2 DEF Before, Recent
  <2> HIDE DEF P
  <2> QED  BY <2>1, <2>2
<1>9. Before(q, c, p.seq) /\ Before(q, c, s.lastAckSent)  BY DEF Before, Recent
<1>11. \A i \in Slots : t.fragmMsgBuf[i] # Free => t.fragmMsgBuf[i] \in P
  <2> TAKE i \in Slots
  <2>1. t.fragmMsgBuf[i] = Free \/ t.fragmMsgBuf[i] = s.fragmMsgBuf[i] \/ t.fragmMsgBuf[i] = p
    <3>1. t = TakeNew(n, s, p, garbage)  OBVIOUS
    <3> HIDE DEF t
    <3> QED  BY <1>1, <3>1, TakeNewIs
  <2>2. p \in P  OBVIOUS
  <2> HIDE DEF t, P
  <2> QED  BY <2>1, <2>2, <1>8
<1> HIDE DEF e, x, y, t
<1>12. Dist(q, p.seq) \in Nat /\ Dist(q, p.seq) >= 1 /\ Dist(q, p.seq) <= hi  BY <1>1, NamedBounds
<1>13. ASSUME d = e PROVE d \in W
  <2> HIDE DEF P
  <2>1. lo <= Dist(q, d.last) /\ Dist(q, d.last) <= hi /\ Before(q, c, d.last)  BY <1>13, <1>5, <1>7, <1>9
  <2>2. \A i \in Slots : /\ d.recvMsgBuf[i] # Free => d.recvMsgBuf[i] \in P /\ Before(q, c, d.recvMsgBuf[i].seq)
                         /\ d.fragmMsgBuf[i] # Free => d.fragmMsgBuf[i] \in P
    BY <1>13, <1>5, <1>8
  <2> QED  BY <2>1, <2>2, <1>3 DEF WorkGood, P
<1>14. ASSUME Ahead(s, p), d = y PROVE d \in W
  <2> HIDE DEF P
  <2>1. lo <= Dist(q, d.last) /\ Dist(q, d.last) <= hi /\ Before(q, c, d.last)  BY <1>14, <1>4, <1>7, <1>9
  <2>2. \A i \in Slots : d.fragmMsgBuf[i] # Free => d.fragmMsgBuf[i] \in P  BY <1>14, <1>4, <1>11
  <2>3. \A i \in Slots : d.recvMsgBuf[i] # Free => d.recvMsgBuf[i] \in P /\ Before(q, c, d.recvMsgBuf[i].seq)
    <3> TAKE i \in Slots
    <3>1. d.recvMsgBuf[i] = s.recvMsgBuf[i] \/ d.recvMsgBuf[i] = p  BY <1>14, <1>4, <1>6, PutIs
    <3>2. p \in P  BY DEF P
    <3> QED  BY <3>1, <3>2, <1>8, <1>9
  <2> QED  BY <2>1, <2>2, <2>3, <1>3 DEF WorkGood, P
<1>15. ASSUME InSequence(s, p) PROVE x \in W
  <2> HIDE DEF P
  <2>1. Dist(q, p.seq) = Dist(q, s.lastAckSent) + 1
    <3>1. p.seq = Plus(s.lastAckSent, 1)  BY <1>15 DEF InSequence
    <3> QED  BY <3>1, <1>6, <1>12, NextNumber
  <2>2. lo <= Dist(q, x.last) /\ Dist(q, x.last) <= hi /\ Before(q, c, x.last)  BY <2>1, <1>4, <1>7, <1>9, <1>12
  <2>3. \A i \in Slots : /\ x.recvMsgBuf[i] # Free => x.recvMsgBuf[i] \in P /\ Before(q, c, x.recvMsgBuf[i].seq)
                         /\ x.fragmMsgBuf[i] # Free => x.fragmMsgBuf[i] \in P
    BY <1>4, <1>8, <1>11
  <2> QED  BY <2>2, <2>3, <1>4 DEF WorkGood, P
<1>16. ASSUME InSequence(s, p) PROVE Drain(n, x, garbage) \in W
  <2> HIDE DEF W
  <2>1. \A z \in WorkOf(n) : z \in W => DrainRound(n, z, garbage) \in W  BY <1>7, RoundGood DEF W
  <2>2. x \in W  BY <1>15, <1>16
  <2> QED  BY <2>1, <2>2, <1>4, DrainKeeps
<1> QED  BY <1>2, <1>13, <1>14, <1>15, <1>16

(* The head of the channel is data that n accepts. *)
Receiving(q, n, s, r, c, o, u, p, garbage, d, x, t) ==
  /\ s \in StateOf(n) /\ r \in StateOf(Peer(n))
  /\ Side(q, n, s, r, c, o, u) /\ Counted(q, Peer(n), r, u)
  /\ c # <<>> /\ p = Head(c) /\ p \in PacketsOf(Peer(n))
  /\ Dist(q, s.lastAckSent) <= Dist(q, r.lastMsgSent)
  /\ d = Accept(n, s, p, garbage).d
  /\ t = Received(s, x, d.last, d.recvMsgBuf, d.fragmMsgBuf)

LEMMA ReceivedSide ==
  ASSUME NEW n \in Nodes, NEW q \in Seqs, NEW s, NEW r, NEW c, NEW o, NEW u, NEW p, NEW garbage, NEW d, NEW x, NEW t,
         Receiving(q, n, s, r, c, o, u, p, garbage, d, x, t)
  PROVE  /\ Side(q, n, t, r, Tail(c), o, u)
         /\ t.lastAckSent = d.last /\ d \in WorkOf(n) /\ p \in NamedOf(q, Peer(n), u) /\ Recent(q, s, p.seq)
         /\ Dist(q, s.lastAckSent) <= Dist(q, d.last) /\ Dist(q, d.last) <= Dist(q, r.lastMsgSent)
         /\ d \in WorkGood(q, n, u, Dist(q, s.lastAckSent), Dist(q, r.lastMsgSent), Tail(c))
<1> USE DEF Receiving
<1> DEFINE X == DataTo(q, n, s, u) \cup AcksTo(q, s, r)
           z == Tail(c)
           lo == Dist(q, s.lastAckSent)
           hi == Dist(q, r.lastMsgSent)
<1>1. /\ Side(q, n, s, r, z, o, u) /\ p \in X /\ z \in Seq(X)
      /\ \A i \in 1..Len(z) : <<p, z[i]>> \in InOrder(q, n)
  BY TailSide
<1>2. p.kind = "data" /\ p \in NamedOf(q, Peer(n), u) /\ Recent(q, s, p.seq)
  <2>1. p.kind = "data"  BY DEF PacketsOf, DataPackets
  <2>2. p \notin AcksTo(q, s, r)  BY <2>1 DEF AcksTo, AckPackets
  <2>3. p \in DataTo(q, n, s, u)  BY <1>1, <2>2
  <2> QED  BY <2>1, <2>3 DEF DataTo
<1> HIDE DEF X, z
<1>3. \A i \in 1..Len(z) : z[i] \in X /\ (z[i].kind = "data" => z[i] \in DataTo(q, n, s, u))
  <2> TAKE i \in 1..Len(z)
  <2>1. z[i] \in X  BY <1>1, ElementOfSeq
  <2>2. z[i] \in AcksTo(q, s, r) => z[i].kind = "ack"  BY DEF AcksTo, AckPackets
  <2> QED  BY <2>1, <2>2 DEF X
<1>4. \A i \in 1..Len(z) : z[i].kind = "data" => /\ Recent(q, s, z[i].seq)
                                                 /\ Dist(q, p.seq) < Dist(q, z[i].seq) + Window
  <2> SUFFICES ASSUME NEW i \in 1..Len(z), z[i].kind = "data"
               PROVE  Recent(q, s, z[i].seq) /\ Dist(q, p.seq) < Dist(q, z[i].seq) + Window
    OBVIOUS
  <2>1. z[i] \in DataTo(q, n, s, u)  BY <1>3
  <2>2. <<p, z[i]>> \in InOrder(q, n)  BY <1>1
  <2>3. Dist(q, p.seq) < Dist(q, z[i].seq) + Window  BY <2>2, <1>2 DEF InOrder
  <2> QED  BY <2>1, <2>3 DEF DataTo
<1>5. SendSide(q, n, s, r, o) /\ BufferSide(q, n, s, u) /\ Paired(z, InOrder(q, n))  BY <1>1 DEF Side, ChannelSide
<1>6. r.lastMsgSent \in Seqs /\ s.lastAckSent \in Seqs  BY DEF StateOf
<1>7. d \in WorkGood(q, n, u, lo, hi, z)
  <2>1. lo = Dist(q, s.lastAckSent) /\ hi = Dist(q, r.lastMsgSent)  OBVIOUS
  <2> HIDE DEF lo, hi
  <2> QED  BY <2>1, <1>2, <1>4, <1>5, <1>6, AcceptGood
<1>8. /\ d \in WorkOf(n) /\ lo <= Dist(q, d.last) /\ Dist(q, d.last) <= hi /\ Before(q, z, d.last)
      /\ \A i \in Slots : /\ d.recvMsgBuf[i] # Free => /\ d.recvMsgBuf[i] \in NamedOf(q, Peer(n), u)
                                                       /\ Before(q, z, d.recvMsgBuf[i].seq)
                          /\ d.fragmMsgBuf[i] # Free => d.fragmMsgBuf[i] \in NamedOf(q, Peer(n), u)
  BY <1>7 DEF WorkGood
<1>9. /\ t.lastAckReceived = s.lastAckReceived /\ t.lastMsgSent = s.lastMsgSent /\ t.sentMsgBuf = s.sentMsgBuf
      /\ ~t.resetFlag /\ t.lastAckSent = d.last /\ t.recvMsgBuf = d.recvMsgBuf /\ t.fragmMsgBuf = d.fragmMsgBuf
  BY DEF Received, StateOf
<1>10. SendSide(q, n, t, r, o)
  <2>1. Waiting(t) = Waiting(s)  BY <1>9 DEF Waiting
  <2> QED  BY <2>1, <1>5, <1>9 DEF SendSide, Counted
<1>11. BufferSide(q, n, t, u)  BY <1>8, <1>9 DEF BufferSide
<1>12. AcksTo(q, t, r) = AcksTo(q, s, r)  BY <1>9 DEF AcksTo
<1>13. \A i \in 1..Len(z) : z[i] \in DataTo(q, n, t, u) \cup AcksTo(q, t, r)
  <2> SUFFICES ASSUME NEW i \in 1..Len(z) PROVE z[i] \in DataTo(q, n, t, u) \cup AcksTo(q, t, r)
    OBVIOUS
  <2>1. CASE z[i].kind = "data"
    <3>1. z[i] \in NamedOf(q, Peer(n), u)  BY <2>1, <1>3 DEF DataTo
    <3>2. Recent(q, t, z[i].seq)  BY <2>1, <1>8, <1>9 DEF Before, Recent
    <3> QED  BY <3>1, <3>2 DEF DataTo
  <2>2. CASE z[i].kind # "data"
    <3>1. z[i] \notin DataTo(q, n, s, u)  BY <2>2 DEF DataTo, NamedOf, PacketsOf, DataPackets
    <3> QED  BY <3>1, <1>3, <1>12 DEF X
  <2> QED  BY <2>1, <2>2
<1>14. z \in Seq(DataTo(q, n, t, u) \cup AcksTo(q, t, r))  BY <1>1, <1>13, ElementsIn
<1>15. Side(q, n, t, r, z, o, u)  BY <1>5, <1>10, <1>11, <1>14 DEF Side, ChannelSide
<1> QED  BY <1>2, <1>7, <1>8, <1>9, <1>15 DEF z

(* Data arrives and no node resets: n accepts it, answers and keeps the order. *)
LEMMA OrderlyData ==
  ASSUME TransportInv, NEW n \in Nodes, DataArrived(n), ~broken', ~node[n].resetFlag
  PROVE  /\ \E a \in {Accept(n, node[n], Head(net[n]), garbage) : garbage \in Slots \cup {0}}, k \in AckPackets :
              /\ node' = [node EXCEPT ![n] = Received(node[n], a.received, a.d.last, a.d.recvMsgBuf, a.d.fragmMsgBuf)]
              /\ delivered' = [delivered EXCEPT ![n] = @ \o a.d.up]
              /\ k.seq = a.d.last /\ ~k.reset /\ Answer(n, <<k>>)
         /\ UNCHANGED <<outcome, broken>> /\ net[n] # <<>> /\ Head(net[n]) \in PacketsOf(Peer(n))
<1> DEFINE p == Head(net[n])
           s == StateFor(n, p)
<1>1. /\ p.reset \in BOOLEAN /\ p \in PacketsOf(Peer(n)) /\ net[n] # <<>>
      /\ ResetNode(n, TRUE) \/ Accepts(n, s, p)
  BY DataCases
<1>2. Accepts(n, s, p)  BY <1>1 DEF ResetNode
<1>3. ~p.reset /\ ~broken /\ outcome' = outcome
  <2>1. broken' = (broken \/ p.reset) /\ outcome' = (IF p.reset THEN Failed(n) ELSE outcome)  BY <1>2 DEF Accepts
  <2>2. broken \in BOOLEAN  BY DEF TransportInv
  <2>3. ~p.reset /\ ~broken  BY <1>1, <2>1, <2>2
  <2> QED  BY <2>1, <2>3
<1>4. s = node[n]  BY <1>3 DEF StateFor
<1>5. PICK a \in {Accept(n, s, p, garbage) : garbage \in Slots \cup {0}} :
        /\ node' = [node EXCEPT ![n] = Received(s, a.received, AckNumber(a), a.d.recvMsgBuf, a.d.fragmMsgBuf)]
        /\ delivered' = [delivered EXCEPT ![n] = @ \o a.d.up]
        /\ Answer(n, <<Ack(AckNumber(a), s.resetFlag)>>)
  BY <1>2 DEF Accepts
<1> DEFINE k == Ack(AckNumber(a), s.resetFlag)
<1>6. s \in StateOf(n)  BY <1>4 DEF TransportInv, SendersInv, SenderOk
<1>7. s.resetFlag \in BOOLEAN  BY <1>6 DEF StateOf
<1>8. AckNumber(a) \in Seqs
  <2>1. PICK garbage \in Slots \cup {0} : a = Accept(n, s, p, garbage)  OBVIOUS
  <2>2. p \in PacketsOf(Peer(n))  BY <1>1
  <2> HIDE DEF s, p
  <2> QED  BY <2>1, <2>2, <1>6, AcceptOk
<1>9. k \in AckPackets /\ k.seq = AckNumber(a) /\ ~k.reset
  <2> DEFINE f == s.resetFlag
  <2>1. f \in BOOLEAN /\ ~f  BY <1>4, <1>7
  <2>2. k = [kind |-> "ack", seq |-> AckNumber(a), reset |-> f]  BY DEF Ack
  <2> HIDE DEF f, k
  <2> QED  BY <2>1, <2>2, <1>8 DEF AckPackets
<1>10. AckNumber(a) = a.d.last  BY DEF AckNumber
<1>11. Answer(n, <<k>>)  BY <1>5
<1>12. UNCHANGED <<outcome, broken>>
  <2>1. broken' = (broken \/ p.reset)  BY <1>2 DEF Accepts
  <2>2. broken \in BOOLEAN /\ broken' = FALSE  BY <2>1, <1>3 DEF TransportInv
  <2> QED  BY <2>2, <1>3
<1> HIDE DEF k, s
<1>13. a \in {Accept(n, node[n], p, garbage) : garbage \in Slots \cup {0}}  BY <1>4
<1>14. /\ node' = [node EXCEPT ![n] = Received(node[n], a.received, a.d.last, a.d.recvMsgBuf, a.d.fragmMsgBuf)]
       /\ delivered' = [delivered EXCEPT ![n] = @ \o a.d.up]
  BY <1>4, <1>5, <1>10, Zenon
<1>15. k \in AckPackets /\ k.seq = a.d.last /\ ~k.reset  BY <1>9, <1>10
<1>16. \E b \in {Accept(n, node[n], p, garbage) : garbage \in Slots \cup {0}}, j \in AckPackets :
         /\ node' = [node EXCEPT ![n] = Received(node[n], b.received, b.d.last, b.d.recvMsgBuf, b.d.fragmMsgBuf)]
         /\ delivered' = [delivered EXCEPT ![n] = @ \o b.d.up]
         /\ j.seq = b.d.last /\ ~j.reset /\ Answer(n, <<j>>)
  <2> HIDE DEF p
  <2> QED  BY <1>11, <1>13, <1>14, <1>15, Zenon
<1> QED  BY <1>1, <1>12, <1>16

LEMMA OrderData ==
  ASSUME TransportInv, NEW q \in Seqs, OrderInv(q), NEW n \in Nodes, DataArrived(n), ~broken'
  PROVE  OrderInv(q)'
<1> DEFINE p == Peer(n)
           s == node[n]
           r == node[p]
           o == outcome[n]
           u == outcome[p]
           h == Head(net[n])
<1>1. /\ p \in Nodes /\ p # n /\ Peer(p) = n /\ s \in StateOf(n) /\ r \in StateOf(p)
      /\ Side(q, n, s, r, net[n], o, u) /\ Side(q, p, r, s, net[p], u, o)
      /\ DOMAIN node = Nodes /\ DOMAIN outcome = Nodes /\ DOMAIN net = Nodes
  BY OrderParts
<1>2. ~s.resetFlag  BY <1>1 DEF Side, SendSide
<1>3. /\ \E a \in {Accept(n, s, h, garbage) : garbage \in Slots \cup {0}}, k \in AckPackets :
           /\ node' = [node EXCEPT ![n] = Received(s, a.received, a.d.last, a.d.recvMsgBuf, a.d.fragmMsgBuf)]
           /\ k.seq = a.d.last /\ ~k.reset /\ Answer(n, <<k>>)
      /\ outcome' = outcome /\ net[n] # <<>> /\ h \in PacketsOf(p)
  BY <1>2, OrderlyData
<1>4. PICK a \in {Accept(n, s, h, garbage) : garbage \in Slots \cup {0}}, k \in AckPackets :
           /\ node' = [node EXCEPT ![n] = Received(s, a.received, a.d.last, a.d.recvMsgBuf, a.d.fragmMsgBuf)]
           /\ k.seq = a.d.last /\ ~k.reset /\ Answer(n, <<k>>)
  BY <1>3
<1>5. PICK garbage \in Slots \cup {0} : a = Accept(n, s, h, garbage)  BY <1>4
<1> DEFINE d == a.d
           t == Received(s, a.received, d.last, d.recvMsgBuf, d.fragmMsgBuf)
           ps == <<k>>
<1>6. node' = [node EXCEPT ![n] = t]  BY <1>4
<1>7. net'[n] = Tail(net[n]) /\ net'[p] = Fit(net[p] \o ps)  BY <1>1, <1>4 DEF Answer
<1>8. /\ s.lastAckSent \in Seqs /\ r.lastAckReceived \in Seqs /\ r.lastMsgSent \in Seqs
  BY <1>1 DEF StateOf
<1>9. Counted(q, p, r, u) /\ Dist(q, s.lastAckSent) <= Dist(q, r.lastMsgSent)  BY <1>1 DEF Side, SendSide
<1>10. d = Accept(n, s, h, garbage).d /\ h = Head(net[n]) /\ p = Peer(n)  BY <1>5
<1> HIDE DEF s, r, o, u, h, ps, d
<1>11. t = Received(s, a.received, d.last, d.recvMsgBuf, d.fragmMsgBuf)  OBVIOUS
<1> HIDE DEF t
<1>12. /\ Side(q, n, t, r, Tail(net[n]), o, u) /\ t.lastAckSent = d.last /\ d \in WorkOf(n)
       /\ Dist(q, s.lastAckSent) <= Dist(q, d.last) /\ Dist(q, d.last) <= Dist(q, r.lastMsgSent)
  <2> DEFINE x == a.received
             c == net[n]
  <2>1. /\ s \in StateOf(n) /\ r \in StateOf(Peer(n)) /\ Side(q, n, s, r, c, o, u) /\ Counted(q, Peer(n), r, u)
        /\ c # <<>> /\ h = Head(c) /\ h \in PacketsOf(Peer(n)) /\ Dist(q, s.lastAckSent) <= Dist(q, r.lastMsgSent)
        /\ d = Accept(n, s, h, garbage).d /\ t = Received(s, x, d.last, d.recvMsgBuf, d.fragmMsgBuf)
    BY <1>1, <1>3, <1>9, <1>10, <1>11
  <2> HIDE DEF p, x, c
  <2>3. Receiving(q, n, s, r, c, o, u, h, garbage, d, x, t)  BY <2>1 DEF Receiving
  <2>2. /\ Side(q, n, t, r, Tail(c), o, u) /\ t.lastAckSent = d.last /\ d \in WorkOf(n)
        /\ Dist(q, s.lastAckSent) <= Dist(q, d.last) /\ Dist(q, d.last) <= Dist(q, r.lastMsgSent)
    BY <2>3, ReceivedSide
  <2> QED  BY <2>2 DEF c
<1>13. t.lastAckSent \in Seqs /\ k.seq = t.lastAckSent /\ k \in AckPackets /\ ~k.reset
  BY <1>4, <1>12 DEF WorkOf, d
<1>14. Side(q, p, r, t, Fit(net[p] \o ps), u, o)
  <2> HIDE DEF p
  <2> QED  BY <1>1, <1>8, <1>12, <1>13, AddAckSide DEF ps
<1>15. node'[n] = t /\ node'[p] = node[p]
  <2> HIDE DEF p
  <2> QED  BY <1>1, <1>6, OneChanges
<1>16. outcome'[n] = o /\ outcome'[p] = u  BY <1>3 DEF o, u
<1> HIDE DEF p
<1> QED  BY <1>1, <1>7, <1>10, <1>12, <1>14, <1>15, <1>16, OrderStep DEF r, o, u

-----------------------------------------------------------------------------
(* The invariant of the order. *)

(* What was submitted stays submitted. *)
SubmittedStay == \A n \in Nodes : \A m \in Msgs(n) : outcome[n][m] # "unsent" => outcome'[n][m] # "unsent"

(* A step that leaves the counters in force finds them in force. *)
LEMMA StillInForce ==
  ASSUME TransportInv, [Next]_vars, ~broken'
  PROVE  ~broken /\ SubmittedStay
<1>1. DOMAIN outcome = Nodes /\ \A n \in Nodes : DOMAIN outcome[n] = Msgs(n)
  BY DEF TransportInv, SendersInv, SenderOk
<1>2. ASSUME UNCHANGED <<outcome, broken>> PROVE ~broken /\ SubmittedStay  BY <1>2 DEF SubmittedStay
<1>3. ASSUME NEW n, NEW flag, ResetNode(n, flag) PROVE FALSE  BY <1>3 DEF ResetNode
<1>4. CASE UNCHANGED vars  BY <1>2, <1>4 DEF vars
<1>5. ASSUME NEW n \in Nodes, NEW m \in Msgs(n), SendMsg(n, m) PROVE ~broken /\ SubmittedStay
  <2>1. outcome' = [outcome EXCEPT ![n][m] = "pending"] /\ broken' = broken  BY <1>5 DEF SendMsg
  <2> QED  BY <2>1, <1>1 DEF SubmittedStay
<1>6. ASSUME NEW n \in Nodes, NEW q \in Seqs, MsgTimerFired(n, q) PROVE ~broken /\ SubmittedStay
  <2>1. UNCHANGED <<outcome, broken>>  BY <1>3, <1>6, TimerCases
  <2> QED  BY <2>1, <1>2
<1>7. ASSUME NEW n \in Nodes, KeepAliveExpired(n) PROVE ~broken /\ SubmittedStay  BY <1>3, <1>7 DEF KeepAliveExpired
<1>8. ASSUME NEW n \in Nodes, DataArrived(n) PROVE ~broken /\ SubmittedStay
  <2> DEFINE p == Head(net[n])
  <2>1. p.reset \in BOOLEAN /\ Accepts(n, StateFor(n, p), p)  BY <1>3, <1>8, DataCases
  <2>2. broken' = (broken \/ p.reset) /\ outcome' = (IF p.reset THEN Failed(n) ELSE outcome)  BY <2>1 DEF Accepts
  <2>3. broken \in BOOLEAN  BY DEF TransportInv
  <2>4. ~broken /\ ~p.reset  BY <2>1, <2>2, <2>3
  <2>5. outcome' = outcome /\ ~broken  BY <2>2, <2>4
  <2> QED  BY <2>5 DEF SubmittedStay
<1>9. ASSUME NEW n \in Nodes, AckArrived(n) PROVE ~broken /\ SubmittedStay
  <2> DEFINE a == Head(net[n]).seq
             w == Reported(n, node[n], a)
  <2>1. \/ outcome' = [outcome EXCEPT ![n] = w] /\ UNCHANGED broken
        \/ UNCHANGED <<outcome, broken>>
    BY <1>3, <1>9, AckCases DEF AcceptsAck
  <2>2. ASSUME outcome' = [outcome EXCEPT ![n] = w], UNCHANGED broken PROVE ~broken /\ SubmittedStay
    <3>1. \A m \in Msgs(n) : w[m] = "ok" \/ w[m] = outcome[n][m]  BY DEF Reported
    <3> HIDE DEF w
    <3>2. outcome'[n] = w /\ \A k \in Nodes : k # n => outcome'[k] = outcome[k]  BY <2>2, <1>1
    <3>3. SubmittedStay  BY <3>1, <3>2 DEF SubmittedStay
    <3> QED  BY <2>2, <3>3
  <2> QED  BY <2>1, <2>2, <1>2
<1>10. ASSUME NEW n \in Nodes, Lose(n) PROVE ~broken /\ SubmittedStay  BY <1>2, <1>10 DEF Lose
<1>11. CASE Next
  BY <1>11, <1>5, <1>6, <1>7, <1>8, <1>9, <1>10 DEF Next
<1> QED  BY <1>4, <1>11

LEMMA StillOrderly ==
  ASSUME TransportInv, [Next]_vars, Orderly'
  PROVE  Orderly
<1>1. ~broken /\ SubmittedStay  BY StillInForce DEF Orderly
<1>2. \A n \in Nodes : \A m \in Msgs(n) : outcome'[n][m] # "unsent" => LastNumber(n)[m] < SeqMod
  BY DEF Orderly, Unwrapped, LastNumber
<1>3. Unwrapped  BY <1>1, <1>2 DEF SubmittedStay, Unwrapped
<1> QED  BY <1>1, <1>3 DEF Orderly

Ordered == Orderly => \E q \in StartSeqs : OrderInv(q)

LEMMA OrderFirst ==
  ASSUME Init, NEW q \in Seqs, node = [n \in Nodes |-> Fresh(q)]
  PROVE  OrderInv(q)
<1>1. Dist(q, q) = 0
  <2>1. Dist(q, q) = IF q <= q THEN q - q ELSE q - q + SeqMod  BY DistIs
  <2> QED  BY <2>1 DEF Seqs
<1> DEFINE s == Fresh(q)
<1>2. /\ s.lastAckReceived = q /\ s.lastMsgSent = q /\ s.lastAckSent = q /\ ~s.resetFlag /\ s.sentMsgBuf = {}
      /\ \A i \in Slots : s.recvMsgBuf[i] = Free /\ s.fragmMsgBuf[i] = Free
  BY DEF Fresh
<1> HIDE DEF s
<1>3. ASSUME NEW n \in Nodes
      PROVE  Side(q, n, node[n], node[Peer(n)], net[n], outcome[n], outcome[Peer(n)])
  <2> DEFINE o == outcome[n]
             u == outcome[Peer(n)]
  <2>1. node[n] = s /\ node[Peer(n)] = s  BY Peers DEF s
  <2>2. net[n] = <<>> /\ \A m \in Msgs(n) : o[m] = "unsent"  BY DEF Init
  <2> HIDE DEF o, u
  <2>3. Counted(q, n, s, o)
    <3> DEFINE K == Len(Fragments[n])
    <3>1. K \in Nat /\ Msgs(n) = 1..K /\ LastNumber(n)[0] = 0  BY LastNumberIs
    <3>2. 0 \in 0..K /\ \A m \in Msgs(n) : ~(m <= 0)
      <4> HIDE DEF K
      <4> QED  BY <3>1
    <3>3. Dist(q, s.lastMsgSent) = LastNumber(n)[0]  BY <1>1, <1>2, <3>1
    <3> QED  BY <2>2, <3>2, <3>3 DEF Counted
  <2>4. Waiting(s) = {}  BY <1>2 DEF Waiting
  <2>5. SendSide(q, n, s, s, o)  BY <2>3, <2>4, <1>1, <1>2 DEF SendSide
  <2>6. BufferSide(q, n, s, u)  BY <1>2 DEF BufferSide
  <2>7. net[n] \in Seq(DataTo(q, n, s, u) \cup AcksTo(q, s, s)) /\ Len(net[n]) = 0  BY <2>2, EmptySeq
  <2>8. ChannelSide(q, n, s, s, net[n], u)  BY <2>7 DEF ChannelSide, Paired
  <2> QED  BY <2>1, <2>5, <2>6, <2>8 DEF Side, o, u
<1> QED  BY <1>3 DEF OrderInv

LEMMA OrderInit == Init => Ordered
<1> SUFFICES ASSUME Init PROVE \E q \in StartSeqs : OrderInv(q)
  BY DEF Ordered
<1>1. PICK q \in StartSeqs : node = [n \in Nodes |-> Fresh(q)]  BY DEF Init
<1>2. q \in Seqs  BY StartAssumption DEF Seqs
<1> QED  BY <1>1, <1>2, OrderFirst

(* The number the counting started from stays the same. *)
LEMMA OrderStays ==
  ASSUME TransportInv, NEW q \in Seqs, OrderInv(q), [Next]_vars, Orderly'
  PROVE  OrderInv(q)'
<1>1. ~broken' /\ \A n \in Nodes : \A m \in Msgs(n) : outcome'[n][m] # "unsent" => LastNumber(n)[m] < SeqMod
  BY DEF Orderly, Unwrapped, LastNumber
<1>2. CASE UNCHANGED vars  BY <1>2 DEF vars, OrderInv
<1>3. ASSUME NEW n \in Nodes, NEW m \in Msgs(n), SendMsg(n, m) PROVE OrderInv(q)'
  <2>1. outcome' = [outcome EXCEPT ![n][m] = "pending"]  BY <1>3 DEF SendMsg
  <2>2. outcome'[n][m] = "pending"  BY <2>1 DEF TransportInv, SendersInv, SenderOk
  <2>3. LastNumber(n)[m] < SeqMod  BY <1>1, <2>2
  <2> QED  BY <1>3, <2>3, OrderSendMsg
<1>4. ASSUME NEW n \in Nodes, KeepAliveExpired(n) PROVE FALSE  BY <1>1, <1>4 DEF KeepAliveExpired, ResetNode
<1>5. CASE Next
  BY <1>1, <1>3, <1>4, <1>5, OrderTimer, OrderData, OrderAck, OrderLose DEF Next
<1> QED  BY <1>2, <1>5

LEMMA OrderNext ==
  ASSUME TransportInv, Ordered, [Next]_vars
  PROVE  Ordered'
<1> SUFFICES ASSUME Orderly' PROVE \E q \in StartSeqs : OrderInv(q)'
  BY DEF Ordered
<1>1. PICK q \in StartSeqs : OrderInv(q)  BY StillOrderly DEF Ordered
<1>2. q \in Seqs  BY StartAssumption DEF Seqs
<1> QED  BY <1>1, <1>2, OrderStays

(* As long as no node has reset its counters or used up its numbers, the acks a sender has processed *)
(* are those of what its peer has taken in sequence, and nothing beyond what was sent was taken: of   *)
(* any number of messages, whatever the channels lose and however often a packet is resent.           *)
THEOREM AcksAreBehindReceipt == Spec => []AcksBehindReceipt
<1>1. TransportInv /\ Ordered => AcksBehindReceipt
  <2> SUFFICES ASSUME TransportInv, Ordered, Orderly, NEW n \in Nodes,
                      NEW s, s = node[n], NEW r, r = node[Peer(n)]
               PROVE  Dist(s.lastAckReceived, r.lastAckSent) <= Dist(s.lastAckReceived, s.lastMsgSent)
    BY DEF AcksBehindReceipt
  <2>1. PICK q \in StartSeqs : OrderInv(q)  BY DEF Ordered
  <2>2. q \in Seqs  BY StartAssumption DEF Seqs
  <2>3. s.lastAckReceived \in Seqs /\ s.lastMsgSent \in Seqs /\ r.lastAckSent \in Seqs
    BY <2>1, <2>2, OrderParts DEF StateOf
  <2>4. /\ Dist(q, s.lastAckReceived) <= Dist(q, r.lastAckSent)
        /\ Dist(q, r.lastAckSent) <= Dist(q, s.lastMsgSent)
    BY <2>1 DEF OrderInv, Side, SendSide
  <2> DEFINE a == Dist(q, s.lastAckReceived)
             b == Dist(q, r.lastAckSent)
             c == Dist(q, s.lastMsgSent)
  <2>5. a \in Int /\ b \in Int /\ c \in Int  BY <2>2, <2>3, NumberOk
  <2>6. /\ Dist(s.lastAckReceived, r.lastAckSent) = (IF a <= b THEN b - a ELSE b - a + SeqMod)
        /\ Dist(s.lastAckReceived, s.lastMsgSent) = (IF a <= c THEN c - a ELSE c - a + SeqMod)
    BY <2>2, <2>3, DistDist
  <2>7. a <= b /\ b <= c  BY <2>4
  <2> HIDE DEF a, b, c
  <2> QED  BY <2>5, <2>6, <2>7
<1>2. Init => TransportInv /\ Ordered  BY InitInv, OrderInit
<1>3. TransportInv /\ Ordered /\ [Next]_vars => (TransportInv /\ Ordered)'  BY StepInv, OrderNext
<1> QED  BY <1>1, <1>2, <1>3, PTL DEF Spec
=============================================================================
