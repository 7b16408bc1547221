------------------------------ MODULE Datapath ------------------------------
(***************************************************************************)
(* The combinational datapath of the core on words of four bytes of        *)
(* ByteBits bits each: the ALU (core/src/EXU.v), the lanes of LSU and L1   *)
(* cache, and the masked write of pmem_write.  The source has ByteBits = 8;*)
(* the width is a parameter so that small instances can be enumerated.     *)
(***************************************************************************)
EXTENDS Integers, FiniteSetsExt

CONSTANT ByteBits     \* bits of a byte, a power of two

ASSUME ByteBitsAssumption == ByteBits \in {1, 2, 4, 8}

Width   == 4 * ByteBits
Modulus == 2 ^ Width
Words   == 0..(Modulus - 1)

Bit(a, n) == (a \div 2 ^ n) % 2
Bitwise2(Op(_, _), a, b) ==
  MapThenSumSet(LAMBDA n : Op(Bit(a, n), Bit(b, n)) * 2 ^ n, 0..(Width - 1))

Signed(a) == IF Bit(a, Width - 1) = 1 THEN a - Modulus ELSE a
Flag(p)   == IF p THEN 1 ELSE 0

DPlus4(a)    == (a + 4) % Modulus
DLessS(a, b) == Signed(a) < Signed(b)
DLessU(a, b) == a < b

\* op2[4:0]: as many low bits as a shift of Width needs
Shamt(b) == b % Width

DAlu(ctrl, a, b) ==
  CASE ctrl = "ALU_ADD"           -> (a + b) % Modulus
    [] ctrl = "ALU_SUB"           -> (a - b) % Modulus
    [] ctrl = "ALU_OP2"           -> b
    [] ctrl = "ALU_LESS_U"        -> Flag(DLessU(a, b))
    [] ctrl = "ALU_LESS"          -> Flag(DLessS(a, b))
    [] ctrl = "ALU_SHIFT_LEFT"    -> (a * 2 ^ Shamt(b)) % Modulus
    [] ctrl = "ALU_SHIFT_RIGHT_U" -> a \div 2 ^ Shamt(b)
    [] ctrl = "ALU_SHIFT_RIGHT"   -> (Signed(a) \div 2 ^ Shamt(b)) % Modulus
    [] ctrl = "ALU_AND"           -> Bitwise2(LAMBDA x, y : x * y, a, b)
    [] ctrl = "ALU_XOR"           -> Bitwise2(LAMBDA x, y : (x + y) % 2, a, b)
    [] ctrl = "ALU_OR"            -> Bitwise2(LAMBDA x, y : Flag(x + y > 0), a, b)
    [] OTHER                      -> 0

----------------------------------------------------------------------------
(* Byte lanes *)

Offset(addr)    == addr % 4                       \* addr[1:0]
DWordAddr(addr) == addr - Offset(addr)            \* addr & ~3

\* L1_cache: a half-word is shifted by addr[1] only
DReadLanes(size, addr, word) ==
  CASE size = "BYTE" -> word \div 2 ^ (ByteBits * Offset(addr))
    [] size = "HALF" -> word \div 2 ^ (2 * ByteBits * (Offset(addr) \div 2))
    [] OTHER         -> word

SignExtend(data, bits) ==
  IF Bit(data, bits - 1) = 1 THEN (data % 2 ^ bits) + Modulus - 2 ^ bits
                             ELSE data % 2 ^ bits

SizeBits(size) == CASE size = "BYTE" -> ByteBits
                    [] size = "HALF" -> 2 * ByteBits
                    [] OTHER         -> Width

DExtend(size, uload, data) ==
  IF uload THEN data % 2 ^ SizeBits(size) ELSE SignExtend(data, SizeBits(size))

\* 4'b0001 << addr[1:0], 4'b0011 << addr[1:0] cut to four bits, 4'b1111
DStoreMask(size, addr) ==
  CASE size = "BYTE" -> {Offset(addr)}
    [] size = "HALF" -> {Offset(addr), Offset(addr) + 1} \cap (0..3)
    [] OTHER         -> 0..3

\* Mutation of DStoreData: a half-word is not moved to its lanes.
DStoreData_unshifted(size, addr, data) ==
  IF size = "BYTE" THEN (data * 2 ^ (ByteBits * Offset(addr))) % Modulus
                   ELSE data

DStoreData(size, addr, data) ==
  IF size = "WORD" THEN data
  ELSE (data * 2 ^ (ByteBits * Offset(addr))) % Modulus

Lane(word, n) == (word \div 2 ^ (ByteBits * n)) % 2 ^ ByteBits

DMergeBytes(old, wdata, wmask) ==
  LET byte(n) == Lane(IF n \in wmask THEN wdata ELSE old, n) * 2 ^ (ByteBits * n)
  IN  byte(0) + byte(1) + byte(2) + byte(3)
=============================================================================
