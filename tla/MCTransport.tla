----------------------------- MODULE MCTransport -----------------------------
(* Instances of the reliable transport for TLC. *)
EXTENDS TransportProps

CONSTANTS a, b,
          CountA, CountB,     \* messages of a and of b
          Large               \* the messages of a that take two fragments

MCNodes == {a, b}
MCFragments == [n \in MCNodes |-> [m \in 1..(IF n = a THEN CountA ELSE CountB) |->
                                    IF n = a /\ m \in Large THEN 2 ELSE 1]]
=============================================================================
