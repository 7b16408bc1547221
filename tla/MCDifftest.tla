----------------------------- MODULE MCDifftest -----------------------------
(***************************************************************************)
(* Difftest for TLC: every program of N instructions, run as a loop, over  *)
(* an instruction that changes its own source, one that does not, a jump   *)
(* and an access to a device.                                              *)
(***************************************************************************)
EXTENDS Difftest

CONSTANTS N, M        \* instructions in the program; register contents

MCPc    == 0..N       \* N is the handler the reference faults to
MCGpr   == 0..(M - 1)
MCProgs == [0..(N - 1) -> {"addi", "li", "jump", "device"}]

Skip(pc, n) == (pc + n) % N

MCExec(p, s) ==
  CASE s.pc = N            -> s
    [] s.pc # N /\ p[s.pc] = "addi" -> [pc |-> Skip(s.pc, 1), gpr |-> (s.gpr + 1) % M]
    [] s.pc # N /\ p[s.pc] = "li"   -> [pc |-> Skip(s.pc, 1), gpr |-> 1]
    [] s.pc # N /\ p[s.pc] = "jump" -> [pc |-> Skip(s.pc, 2), gpr |-> s.gpr]
    [] OTHER               -> [pc |-> Skip(s.pc, 1), gpr |-> s.gpr]

MCIsDevice(p, pc) == pc # N /\ p[pc] = "device"
=============================================================================
