-------------------------------- MODULE ISA --------------------------------
(***************************************************************************)
(* The abstract specification of the core: an RV32I machine that executes  *)
(* one whole instruction per step.  It is the reference the repository     *)
(* uses itself: difftest (core/csrc/cpu/difftest/dut.c) single-steps a     *)
(* Spike library, outside the repository's source, and compares registers. *)
(*                                                                         *)
(* It is the architecture as this core supports it: JALR does not clear    *)
(* bit 0 of the target (a no-op for even targets), an access that is not   *)
(* naturally aligned selects lanes as LSU does (aligned ones are checked   *)
(* against a byte memory in Lanes), csrrs appears only as csrr (rs1 = x0), *)
(* mstatus is a plain register, a CSR that is not there reads as zero, and *)
(* ebreak reports to the simulator and otherwise does nothing.             *)
(***************************************************************************)
EXTENDS Macro

CONSTANT Programs     \* the programs a run may start with

VARIABLES
  imem,               \* the program text
  pc,                 \* pc of the next instruction
  regs, csr, mem,     \* architectural state
  retired,            \* pc of the last executed instruction
  halt                \* what the first ebreak reported, NoHalt before

archVars == <<imem, pc, regs, csr, mem, retired, halt>>

NoHalt == <<>>

Init ==
  /\ imem \in Programs
  /\ pc = ResetPc
  /\ regs = [r \in Reg |-> Zero]
  /\ csr = [c \in Csr |-> IF c = MSTATUS THEN MachineMode ELSE Zero]
  /\ mem \in [MemAddr -> Word]
  /\ retired = Zero
  /\ halt = NoHalt

----------------------------------------------------------------------------
i == imem[WordAddr(pc)]

X(r) == IF r = X0 THEN Zero ELSE regs[r]

Add(a, b) == Alu("ALU_ADD", a, b)

\* Write rd, if any, and go to npc.
WriteRd(v) == regs' = IF i.rd = X0 THEN regs ELSE [regs EXCEPT ![i.rd] = v]
Goto(npc)  == pc' = npc /\ retired' = pc /\ imem' = imem

\* The RV32I operation of a register-register or register-immediate opcode.
Operation ==
  CASE i.f3 = 0 -> IF i.op = "R" /\ i.f7 = "B" THEN "ALU_SUB" ELSE "ALU_ADD"
    [] i.f3 = 1 -> "ALU_SHIFT_LEFT"
    [] i.f3 = 2 -> "ALU_LESS"
    [] i.f3 = 3 -> "ALU_LESS_U"
    [] i.f3 = 4 -> "ALU_XOR"
    [] i.f3 = 5 -> IF i.f7 = "B" THEN "ALU_SHIFT_RIGHT" ELSE "ALU_SHIFT_RIGHT_U"
    [] i.f3 = 6 -> "ALU_OR"
    [] i.f3 = 7 -> "ALU_AND"

Arith ==
  /\ i.op \in {"R", "I", "LUI", "AUIPC"}
  /\ WriteRd(CASE i.op = "R"   -> Alu(Operation, X(i.rs1), X(i.rs2))
               [] i.op = "I"   -> Alu(Operation, X(i.rs1), i.imm)
               [] i.op = "LUI" -> i.imm
               [] OTHER        -> Add(pc, i.imm))
  /\ Goto(Plus4(pc))
  /\ UNCHANGED <<csr, mem, halt>>

Jump ==
  /\ i.op \in {"JAL", "JALR"}
  /\ WriteRd(Plus4(pc))
  /\ Goto(Add(IF i.op = "JAL" THEN pc ELSE X(i.rs1), i.imm))
  /\ UNCHANGED <<csr, mem, halt>>

Taken(a, b) ==
  CASE i.f3 = 0 -> a = b
    [] i.f3 = 1 -> a # b
    [] i.f3 = 4 -> LessS(a, b)
    [] i.f3 = 5 -> ~LessS(a, b)
    [] i.f3 = 6 -> LessU(a, b)
    [] OTHER    -> ~LessU(a, b)

Branch ==
  /\ i.op = "B"
  /\ Goto(IF Taken(X(i.rs1), X(i.rs2)) THEN Add(pc, i.imm) ELSE Plus4(pc))
  /\ UNCHANGED <<regs, csr, mem, halt>>

AccessSize == CASE i.f3 \in {0, 4} -> "BYTE"
                [] i.f3 \in {1, 5} -> "HALF"
                [] OTHER -> "WORD"

Load ==
  LET a == Add(X(i.rs1), i.imm) IN
  /\ i.op = "IL"
  /\ WriteRd(Extend(AccessSize, i.f3 \in {4, 5},
                    ReadLanes(AccessSize, a, mem[WordAddr(a)])))
  /\ Goto(Plus4(pc))
  /\ UNCHANGED <<csr, mem, halt>>

Store ==
  LET a == Add(X(i.rs1), i.imm) IN
  /\ i.op = "S"
  /\ mem' = [mem EXCEPT ![WordAddr(a)] =
                  MergeBytes(@, StoreData(AccessSize, a, X(i.rs2)),
                                StoreMask(AccessSize, a))]
  /\ Goto(Plus4(pc))
  /\ UNCHANGED <<regs, csr, halt>>

CsrAccess ==                                   \* csrrw and csrr
  /\ i.op = "SYSTEM" /\ i.f3 \in {1, 2}
  /\ WriteRd(IF i.csr \in Csr THEN csr[i.csr] ELSE Zero)
  /\ csr' = IF i.f3 = 1 /\ i.csr \in Csr THEN [csr EXCEPT ![i.csr] = X(i.rs1)]
                                         ELSE csr
  /\ Goto(Plus4(pc))
  /\ UNCHANGED <<mem, halt>>

Ecall ==
  /\ i.op = "SYSTEM" /\ i.f3 = 0 /\ i.csr = 0
  /\ csr' = [csr EXCEPT ![MEPC] = pc,
                        ![MCAUSE] = IF csr[MSTATUS] = MachineMode
                                    THEN EcallCause ELSE @]
  /\ Goto(csr[MTVEC])
  /\ UNCHANGED <<regs, mem, halt>>

Mret ==
  /\ i.op = "SYSTEM" /\ i.f3 = 0 /\ i.csr = 770
  /\ Goto(csr[MEPC])
  /\ UNCHANGED <<regs, csr, mem, halt>>

Ebreak ==
  /\ i.op = "SYSTEM" /\ i.f3 = 0 /\ i.csr = 1
  /\ halt' = IF halt = NoHalt THEN <<pc, X(A0)>> ELSE halt
  /\ Goto(Plus4(pc))
  /\ UNCHANGED <<regs, csr, mem>>

Next == \/ Arith \/ Jump \/ Branch \/ Load \/ Store
        \/ CsrAccess \/ Ecall \/ Mret \/ Ebreak

Spec == Init /\ [][Next]_archVars
=============================================================================
