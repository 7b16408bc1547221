----------------------------- MODULE ByteMemory -----------------------------
(***************************************************************************)
(* The abstract memory of the architecture: an array of bytes.  A store of *)
(* a given size writes the low bytes of a register, the least significant  *)
(* at the address; a load puts the bytes back together and extends them.   *)
(* Modelled from what RV32I promises a program, not from the core.         *)
(***************************************************************************)
EXTENDS Integers

CONSTANTS
  Base,               \* values of a byte: 0..(Base - 1)
  Accesses,           \* the <<size, address>> pairs in use
  Data                \* the register values stored

VARIABLES
  bytes,              \* one word of memory, byte by byte
  access,             \* the last access: <<kind, size, address, operand>>
  result              \* what it wrote back, 0 for a store

Init ==
  /\ bytes = [n \in 0..3 |-> 0]
  /\ access = <<>>
  /\ result = 0

Length(size) == CASE size = "BYTE" -> 1
                  [] size = "HALF" -> 2
                  [] OTHER         -> 4

Store(n, at, v) ==
  /\ bytes' = [b \in 0..3 |-> IF b \in at..(at + n - 1)
                              THEN (v \div Base ^ (b - at)) % Base
                              ELSE bytes[b]]
  /\ result' = 0

\* The value of the bytes, as an unsigned or a two's complement number.
Load(n, at, unsigned) ==
  LET byte(k) == IF k < n THEN bytes[at + k] * Base ^ k ELSE 0
      u == byte(0) + byte(1) + byte(2) + byte(3)
      s == IF ~unsigned /\ 2 * u >= Base ^ n THEN u - Base ^ n ELSE u
  IN  /\ result' = s % Base ^ 4
      /\ bytes' = bytes

Next == \E a \in Accesses :
          \/ \E v \in Data : /\ access' = <<"store", a[1], a[2], v>>
                             /\ Store(Length(a[1]), a[2], v)
          \/ \E unsigned \in BOOLEAN : /\ access' = <<"load", a[1], a[2], unsigned>>
                                       /\ Load(Length(a[1]), a[2], unsigned)

Spec == Init /\ [][Next]_<<bytes, access, result>>
=============================================================================
