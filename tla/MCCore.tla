------------------------------- MODULE MCCore -------------------------------
(***************************************************************************)
(* Instances of Core for TLC: 4-bit words (bytes of one bit), so that an   *)
(* address space of four words holds both a program and its data, and      *)
(* three registers.  pc wraps around, every program runs for ever.         *)
(***************************************************************************)
EXTENDS Core, Datapath

MCReg   == 0..2
MCAddrs == {a \in Words : a % 4 = 0}

Mk(op, f3, f7, rd, r1, r2, imm, c) ==
  [op |-> op, f3 |-> f3, f7 |-> f7, rd |-> rd, rs1 |-> r1, rs2 |-> r2,
   imm |-> imm, csr |-> c]

RR(f3, f7, rd, r1, r2) == Mk("R", f3, f7, rd, r1, r2, 0, 0)
RI(f3, rd, r1, imm)    == Mk("I", f3, "A", rd, r1, 0, imm, 0)
LD(f3, rd, r1, imm)    == Mk("IL", f3, "A", rd, r1, 0, imm, 0)
ST(f3, r2, r1, imm)    == Mk("S", f3, "A", 0, r1, r2, imm, 0)
BR(f3, r1, r2, imm)    == Mk("B", f3, "A", 0, r1, r2, imm, 0)
JAL(rd, imm)           == Mk("JAL", 0, "A", rd, 0, 0, imm, 0)
JALR(rd, r1, imm)      == Mk("JALR", 0, "A", rd, r1, 0, imm, 0)
LUI(rd, imm)           == Mk("LUI", 0, "A", rd, 0, 0, imm, 0)
AUIPC(rd, imm)         == Mk("AUIPC", 0, "A", rd, 0, 0, imm, 0)
CSRRW(rd, c, r1)       == Mk("SYSTEM", 1, "A", rd, r1, 0, 0, c)
CSRR(rd, c)            == Mk("SYSTEM", 2, "A", rd, 0, 0, 0, c)
ECALL                  == Mk("SYSTEM", 0, "A", 0, 0, 0, 0, 0)
EBREAK                 == Mk("SYSTEM", 0, "A", 0, 0, 0, 1, 1)
MRET                   == Mk("SYSTEM", 0, "A", 0, 0, 0, 2, 770)

\* Data words that differ from each other and from their addresses.
MCImages == {[a \in MCAddrs |-> (a + 4) % 16]}

Prog(i0, i4, i8, i12) ==
  [a \in MCAddrs |-> CASE a = 0 -> i0 [] a = 4 -> i4 [] a = 8 -> i8
                       [] OTHER -> i12]

----------------------------------------------------------------------------
(* Hazards: every program of four instructions over back-to-back           *)
(* producers and consumers, loads and stores, branches and jumps.          *)
HazardInstrs ==
  { RI(0, 1, 2, 4),  RR(0, "A", 2, 1, 2),
    LD(2, 1, 2, 0),  LD(2, 2, 1, 4),  ST(2, 1, 2, 4),
    BR(0, 1, 2, 8),  JALR(2, 1, 4),   JAL(1, 8) }
HazardPrograms == [MCAddrs -> HazardInstrs]

----------------------------------------------------------------------------
(* Decode: every RV32I encoding the core has, on operands of either sign,  *)
(* with the result used by the next instruction.                           *)
AluEncodings ==
  {RR(f3, "A", 1, 1, 2) : f3 \in 0..7} \cup {RR(f3, "B", 1, 1, 2) : f3 \in {0, 5}}
    \cup {RI(f3, 1, 1, imm) : f3 \in 0..7, imm \in {1, 15}}
    \cup {[RI(5, 1, 1, imm) EXCEPT !.f7 = "B"] : imm \in {1, 3}}
    \cup {LUI(1, 12), AUIPC(1, 12)}
FlowEncodings ==
  {BR(f3, 1, 2, 8) : f3 \in {0, 1, 4, 5, 6, 7}}
    \cup {JAL(r, 12) : r \in {0, 1}} \cup {JALR(r, 0, 12) : r \in {0, 1}}
MemEncodings ==
  {LD(f3, 1, 1, imm) : f3 \in {0, 1, 2, 4, 5}, imm \in {0, 1, 2, 3}}
    \cup {ST(f3, 2, 1, imm) : f3 \in {0, 1, 2}, imm \in {0, 1, 2, 3}}
DecodePrograms ==
  {Prog(RI(0, 1, 0, v), LD(2, 2, 0, a), i, RR(0, "A", 2, 1, 2)) :
     v \in {3, 8, 13}, a \in MCAddrs,
     i \in AluEncodings \cup FlowEncodings \cup MemEncodings}

----------------------------------------------------------------------------
(* Traps: CSR accesses, ecall, mret, ebreak and the CSR writes that stop   *)
(* the simulator, among ALU instructions and loads, without those in which *)
(* a CSR write is directly followed by a read of that CSR.                 *)
TrapInstrs ==
  { RI(0, 1, 1, 4),  LD(2, 1, 0, 4),
    CSRRW(0, MTVEC, 1),  CSRRW(2, MEPC, 1), CSRRW(0, MSTATUS, 1),
    CSRR(1, MEPC),  CSRR(2, MCAUSE),
    ECALL,  MRET,  EBREAK,  CSRRW(0, 5, 1) }

TrapPrograms == {p \in [MCAddrs -> TrapInstrs] : CsrSpaced(p)}

----------------------------------------------------------------------------
(* Progress: the hazards again, with a program end, for liveness.          *)
ProgressInstrs ==
  { RR(0, "A", 2, 1, 2), LD(2, 1, 2, 0), ST(2, 1, 2, 4), BR(0, 1, 2, 8),
    JALR(2, 1, 4), EBREAK }
ProgressPrograms == [MCAddrs -> ProgressInstrs]

AllPrograms == HazardPrograms \cup DecodePrograms \cup TrapPrograms \cup ProgressPrograms

\* What the refinement theorem assumes of the programs.
ASSUME SupportedAssumption ==
  \A p \in AllPrograms : CsrSpaced(p) /\ \A a \in MCAddrs : Supported(p[a])

----------------------------------------------------------------------------
(* The handler epilogue of the riscv-tests: csrw mepc, then mret.          *)
MretPrograms ==
  {Prog(RI(0, 1, 0, 8), CSRRW(0, MEPC, 1), MRET, JAL(0, 0))}
=============================================================================
