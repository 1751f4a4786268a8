---------------------------- MODULE MCDirectory ----------------------------
(***************************************************************************)
(* Small instances of Directory for TLC.                                   *)
(***************************************************************************)
EXTENDS DirectoryProps, TLC

CONSTANTS c1, c2, c3

MCLoc == {"near", "far"}
MCLocSpec == {{"near"}, {"near", "far"}}

\* The first phone, the second, whose address does not survive the decoding when
\* ByteMod = 4 (its low byte is negative), and all phones.
MCDst == {1, 2, Broadcast}

Symmetry == Permutations(Conn)
=============================================================================
