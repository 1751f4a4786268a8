---------------------------- MODULE AddressCodec ----------------------------
(***************************************************************************)
(* How the directory server and the phones put a node address (a Java char)*)
(* into two bytes of a packet and take it out again.  A byte is read back  *)
(* as a SIGNED Java byte; ByteMod is 2^8 in the code and any even number   *)
(* here, so that small instances meet the boundary.                        *)
(***************************************************************************)
EXTENDS Integers

CONSTANT ByteMod    \* number of values of a byte

ASSUME ByteModAssumption ==
  /\ ByteMod \in Nat
  /\ ByteMod >= 2
  /\ ByteMod % 2 = 0

AddrMod == ByteMod * ByteMod
Addr == 0 .. AddrMod - 1
Broadcast == AddrMod - 1           \* (char) 0xffff

HighByte(a) == a \div ByteMod
LowByte(a) == a % ByteMod

\* The Java byte whose bits are those of b: two's complement.
SignedByte(b) == IF 2 * b < ByteMod THEN b ELSE b - ByteMod

\* byteArrayToChar(byte[]): both bytes masked with 0xFF.
ByteArrayToChar(hi, lo) == hi * ByteMod + lo

\* byteArrayToChar(byte[], int): neither byte is masked.  OR-ing a negative low
\* byte sets every bit above it, so the high byte is lost in the cast to char.
ByteArrayToCharAt(hi, lo) ==
  IF SignedByte(lo) < 0 THEN AddrMod + SignedByte(lo) ELSE hi * ByteMod + lo

\* What the receiver of a POBICOS packet takes the address a in it for.
DecodedAddr(a) == ByteArrayToCharAt(HighByte(a), LowByte(a))

\* The addresses the unmasked decoder returns unchanged.
Decodable(a) == 2 * LowByte(a) < ByteMod \/ HighByte(a) = ByteMod - 1

=============================================================================
