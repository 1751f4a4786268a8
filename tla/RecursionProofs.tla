--------------------------- MODULE RecursionProofs ---------------------------
(***************************************************************************)
(* Facts about functions that are defined recursively on an interval: they *)
(* exist, and what holds at 0 and is kept by each step holds throughout.   *)
(***************************************************************************)
EXTENDS Integers, WellFoundedInduction, TLAPS

(* A set of naturals that is not empty has a least element. *)
LEMMA LeastOf ==
  ASSUME NEW S \in SUBSET Nat, S # {}
  PROVE  \E x \in S : \A y \in S : x <= y
<1>1. PICK x \in S : \A y \in S : <<y, x>> \notin OpToRel(<, Nat)
  BY NatLessThanWellFounded, WFMin
<1>2. OpToRel(<, Nat) = {p \in Nat \X Nat : p[1] < p[2]}  BY DEF OpToRel
<1>3. \A y \in S : ~(y < x)  BY <1>1, <1>2
<1>4. \A y \in S : x <= y  BY <1>3
<1> QED  BY <1>4

(* The values that start at x, where the k-th step G[k] makes each of the one before, exist. *)
IsIteration(g, D, x, N, G) == g \in [0..N -> D] /\ g[0] = x /\ \A k \in 1..N : g[k] = G[k][g[k-1]]
Iteration(D, x, N, G) == CHOOSE g : IsIteration(g, D, x, N, G)

LEMMA Iterates ==
  ASSUME NEW D, NEW x \in D, NEW N \in Nat, NEW G \in [1..N -> [D -> D]]
  PROVE  IsIteration(Iteration(D, x, N, G), D, x, N, G)
<1> DEFINE Good(i) == \E g \in [0..i -> D] : g[0] = x /\ \A k \in 1..i : g[k] = G[k][g[k-1]]
           S == {i \in Nat : i <= N /\ ~Good(i)}
<1>1. SUFFICES ASSUME S # {} PROVE FALSE
  <2>1. N \notin S => Good(N)  OBVIOUS
  <2>2. Good(N) => \E g : IsIteration(g, D, x, N, G)  BY DEF IsIteration
  <2> QED  BY <2>1, <2>2 DEF Iteration
<1>2. PICK i \in S : \A j \in S : i <= j  BY <1>1, LeastOf
<1>3. i # 0
  <2> DEFINE g == [k \in 0..0 |-> x]
  <2>1. g \in [0..0 -> D] /\ g[0] = x /\ \A k \in 1..0 : g[k] = G[k][g[k-1]]  OBVIOUS
  <2>2. Good(0)  BY <2>1
  <2> QED  BY <2>2
<1>4. i - 1 \in Nat /\ i - 1 <= N /\ i - 1 \notin S
  <2> HIDE DEF Good
  <2> QED  BY <1>2, <1>3
<1>5. PICK g \in [0..i-1 -> D] : g[0] = x /\ \A k \in 1..i-1 : g[k] = G[k][g[k-1]]
  BY <1>4
<1> DEFINE h == [k \in 0..i |-> IF k = i THEN G[i][g[i-1]] ELSE g[k]]
<1>6. i - 1 \in 0..i-1 /\ i \in 1..N  BY <1>2, <1>3
<1>7. g[i-1] \in D /\ G[i][g[i-1]] \in D
  <2>1. g[i-1] \in D  BY <1>5, <1>6
  <2>2. G[i] \in [D -> D]  BY <1>6
  <2> QED  BY <2>1, <2>2
<1>8. \A k \in 0..i : k # i => k \in 0..i-1  BY <1>2
<1>9. h \in [0..i -> D]  BY <1>5, <1>7, <1>8
<1>10. h[0] = x  BY <1>2, <1>3, <1>5
<1>11. ASSUME NEW k \in 1..i PROVE h[k] = G[k][h[k-1]]
  <2>1. k - 1 \in 0..i /\ k \in 0..i /\ k - 1 # i /\ k - 1 \in 0..i-1  BY <1>2
  <2>2. h[k-1] = g[k-1]  BY <2>1
  <2>3. CASE k = i  BY <2>1, <2>2, <2>3
  <2>4. CASE k # i
    <3>1. k \in 1..i-1  BY <2>4, <1>2
    <3> QED  BY <3>1, <2>1, <2>2, <2>4, <1>5
  <2> QED  BY <2>3, <2>4
<1>12. Good(i)  BY <1>9, <1>10, <1>11
<1> QED  BY <1>2, <1>12

(* What holds of the first value and is kept by every step holds of them all. *)
LEMMA Stays ==
  ASSUME NEW N \in Nat, NEW g, NEW D, g[0] \in D, \A k \in 1..N : g[k-1] \in D => g[k] \in D
  PROVE  \A k \in 0..N : g[k] \in D
<1> DEFINE S == {i \in Nat : i <= N /\ g[i] \notin D}
<1>1. SUFFICES ASSUME S # {} PROVE FALSE  OBVIOUS
<1>2. PICK i \in S : \A j \in S : i <= j  BY <1>1, LeastOf
<1>3. i # 0  BY <1>2
<1>4. i \in 1..N /\ i - 1 \in Nat /\ i - 1 <= N /\ i - 1 \notin S  BY <1>2, <1>3
<1> QED  BY <1>2, <1>4

=============================================================================
