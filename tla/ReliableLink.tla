---------------------------- MODULE ReliableLink ----------------------------
(***************************************************************************)
(* What the transport promises its user: until some node has reset its     *)
(* counters or has used up its sequence numbers, messages are handed over  *)
(* once and in the order they were submitted, a message reported as sent   *)
(* has been handed over, and each message is reported at most once.  Two   *)
(* things it does not promise: a message that travels in fragments may be  *)
(* reported as sent and dropped, and afterwards all that is left is that   *)
(* nothing is invented and nothing is reported twice.                      *)
(***************************************************************************)
EXTENDS Integers, Sequences

CONSTANTS Nodes,
          Messages,        \* Messages[n] = 1..k: the messages n may submit, in this order
          Droppable        \* Droppable[n]: the messages of n that may be lost unnoticed

VARIABLES outcome, delivered, broken

vars == <<outcome, delivered, broken>>

Sender(n) == CHOOSE p \in Nodes : p # n
Submitted(n) == {m \in Messages[n] : outcome[n][m] # "unsent"}
Pending(n) == {m \in Messages[n] : outcome[n][m] = "pending"}

Init == /\ outcome = [n \in Nodes |-> [m \in Messages[n] |-> "unsent"]]
        /\ delivered = [n \in Nodes |-> <<>>]
        /\ broken = FALSE

(* n submits its next message, perhaps the one that takes the last number. *)
Submit(n, m) == /\ outcome[n][m] = "unsent"
                /\ \A k \in 1..m-1 : outcome[n][k] # "unsent"
                /\ outcome' = [outcome EXCEPT ![n][m] = "pending"]
                /\ broken => broken'
                /\ UNCHANGED delivered

(* ms goes on where the sequence ds of messages of p stops, skipping droppable ones only. *)
Continues(p, ds, ms) ==
  LET all == ds \o ms IN
  \A i \in Len(ds)+1..Len(all) :
     LET before == IF i = 1 THEN 0 ELSE all[i - 1] IN
     /\ before < all[i]
     /\ before+1..all[i]-1 \subseteq Droppable[p]

(* The messages handed to n in this step. *)
HandedOver(n) == SubSeq(delivered'[n], Len(delivered[n]) + 1, Len(delivered'[n]))
Extends(n) == /\ Len(delivered'[n]) >= Len(delivered[n])
              /\ SubSeq(delivered'[n], 1, Len(delivered[n])) = delivered[n]
              /\ \A m \in Nodes : m # n => delivered'[m] = delivered[m]

(* Messages are handed to the user of n. *)
Deliver(n) == /\ UNCHANGED <<outcome, broken>>
              /\ Extends(n)
              /\ \A i \in DOMAIN HandedOver(n) : HandedOver(n)[i] \in Submitted(Sender(n))
              /\ Continues(Sender(n), delivered[n], HandedOver(n))
              /\ ~broken

(* The user of n is told the result of the messages M. *)
Report(n, M, result) == outcome' = [outcome EXCEPT ![n] = [m \in Messages[n] |-> IF m \in M THEN result ELSE @[m]]]

(* Some pending messages of n are reported as sent. *)
Succeed(n) == LET M == {m \in Pending(n) : outcome'[n][m] # "pending"} IN
              /\ UNCHANGED <<delivered, broken>>
              /\ Report(n, M, "ok")
              /\ ~broken => \A m \in M \ Droppable[n] :
                   \E i \in DOMAIN delivered[Sender(n)] : delivered[Sender(n)][i] = m

(* n resets: everything it had pending has failed. *)
Break(n) == /\ UNCHANGED delivered
            /\ Report(n, Pending(n), "fail")
            /\ broken' = TRUE

(* Once broken, messages of the peer are handed over in any order, the ones put together from *)
(* parts of two included, perhaps in the step in which n resets.                              *)
DeliverBroken(n) == /\ broken /\ broken'
                    /\ Extends(n)
                    /\ \A i \in DOMAIN HandedOver(n) : HandedOver(n)[i] \in Submitted(Sender(n)) \cup {0}
                    /\ UNCHANGED outcome \/ Report(n, Pending(n), "fail")

Next == \E n \in Nodes :
          \/ \E m \in Messages[n] : Submit(n, m)
          \/ Deliver(n)
          \/ Succeed(n)
          \/ Break(n)
          \/ DeliverBroken(n)

Spec == Init /\ [][Next]_vars
=============================================================================
