-------------------------------- MODULE Lfsr --------------------------------
(***************************************************************************)
(* The hit generator of the data cache (core/src/L1_cache.v): a 32-bit     *)
(* shift register that advances in every cycle.  Its halves are kept apart *)
(* so that every value stays below 2^31.                                   *)
(***************************************************************************)
EXTENDS Naturals

VARIABLE lfsr         \* [hi, lo]: bits 31..16 and 15..0

LfsrInit == lfsr = [hi |-> 0, lo |-> 44257]                   \* 32'hACE1

HiBit(n) == (lfsr.hi \div 2 ^ (n - 16)) % 2

lfsr_out == (HiBit(31) + HiBit(30) + HiBit(28) + HiBit(26)) % 2

LFSR_HIT_THRESHOLD == 20

\* lfsr[31:26] < LFSR_HIT_THRESHOLD
cache_hit == lfsr.hi \div 2 ^ 10 < LFSR_HIT_THRESHOLD

\* {lfsr[30:0], lfsr_out}
LfsrTick ==
  lfsr' = [hi |-> (lfsr.hi * 2 + lfsr.lo \div 2 ^ 15) % 2 ^ 16,
           lo |-> (lfsr.lo * 2 + lfsr_out) % 2 ^ 16]
=============================================================================
