------------------------------- MODULE Macro -------------------------------
(***************************************************************************)
(* The vocabulary shared by the pipeline stages: the control encodings of  *)
(* core/src/macro.v, the fields of an instruction word, and the datapath   *)
(* (words, ALU, byte lanes) as parameters.  The control of the core is     *)
(* specified and proved for every datapath that satisfies the assumptions; *)
(* module Datapath gives the concrete one the model checker uses.          *)
(***************************************************************************)
EXTENDS Naturals

CONSTANTS
  Word,                  \* the values of an XLEN-bit register or address
  Zero,                  \* the word 0
  Reg,                   \* register numbers
  X0,                    \* the register that always reads as zero
  A0,                    \* x10, read by npctrap as the exit code
  ResetPc,               \* pc after reset (0x80000000)
  MachineMode,           \* mstatus after reset (0x1800)
  EcallCause,            \* mcause of an ecall from machine mode (0xb)
  MemAddr,               \* the aligned words of pmem
  Plus4(_),              \* pc + 4
  Alu(_, _, _),          \* alu_out for a control, op1 and op2
  LessS(_, _),           \* $signed(a) < $signed(b)
  LessU(_, _),           \* a < b
  WordAddr(_),           \* the pmem word an address falls in (addr & ~3)
  ReadLanes(_, _, _),    \* L1 read shift: size, address, pmem word
  Extend(_, _, _),       \* LSU sign / zero extension: size, unsigned?, data
  StoreMask(_, _),       \* LSU wmask: size, address
  StoreData(_, _, _),    \* LSU wdata: size, address, register value
  MergeBytes(_, _, _)    \* pmem_write: old word, wdata, wmask

Opcode == {"R", "I", "IL", "S", "B", "JAL", "JALR", "LUI", "AUIPC",
           "SYSTEM", "OTHER"}
Funct7 == {"A", "B", "X"}          \* F7_INST_A, F7_INST_B, anything else

AluCtrl == {"ALU_IDLE", "ALU_ADD", "ALU_OP2", "ALU_SUB", "ALU_LESS_U",
            "ALU_LESS", "ALU_SHIFT_LEFT", "ALU_AND", "ALU_OR", "ALU_XOR",
            "ALU_SHIFT_RIGHT_U", "ALU_SHIFT_RIGHT"}
OpSel   == {"OP_RS1_RS2", "OP_RS1_IMM", "OP_PC_IMM", "OP_RS1_CSR"}
WbCtrl  == {"WB_IDLE", "WB_ALU", "WB_PC", "WB_IMM", "WB_MEM"}
JCond   == {"J_UNCOND", "J_BEQ", "J_BNE", "J_BGE", "J_BGE_U", "J_BLT_U",
            "J_BLT"}
LsuCtrl == {"NONE", "READ", "WRITE"}      \* ex_lsu_ctrl 00, 01, 10
Size    == {"BYTE", "HALF", "WORD"}       \* ex_lsu_size 00, 01, 10
Lanes   == SUBSET (0..3)                  \* a 4-bit write mask

MSTATUS == 768                            \* 12'h300
MTVEC   == 773                            \* 12'h305
MEPC    == 833                            \* 12'h341
MCAUSE  == 834                            \* 12'h342
Csr     == {MSTATUS, MTVEC, MEPC, MCAUSE}

(***************************************************************************)
(* An instruction word, as the fields IDU extracts from it.  imm is the    *)
(* immediate of the format of op, csr is instr[31:20].                     *)
(***************************************************************************)
Instr == [op : Opcode, f3 : 0..7, f7 : Funct7, rd : Reg, rs1 : Reg,
          rs2 : Reg, imm : Word, csr : 0..4095]

ASSUME RegAssumption == /\ X0 \in Reg
                        /\ A0 \in Reg
                        /\ X0 # A0

ASSUME WordAssumption == {Zero, ResetPc, MachineMode, EcallCause} \subseteq Word

ASSUME DatapathAssumption ==
  /\ \A a \in Word : Plus4(a) \in Word /\ WordAddr(a) \in MemAddr
  /\ \A c \in AluCtrl, a \in Word, b \in Word : Alu(c, a, b) \in Word
  /\ \A a \in Word, b \in Word : LessS(a, b) \in BOOLEAN /\ LessU(a, b) \in BOOLEAN

ASSUME LaneAssumption ==
  /\ \A s \in Size, a \in Word, w \in Word : ReadLanes(s, a, w) \in Word
  /\ \A s \in Size, u \in BOOLEAN, w \in Word : Extend(s, u, w) \in Word
  /\ \A s \in Size, a \in Word : StoreMask(s, a) \in Lanes
  /\ \A s \in Size, a \in Word, w \in Word : StoreData(s, a, w) \in Word
  /\ \A o \in Word, w \in Word, m \in Lanes : MergeBytes(o, w, m) \in Word

\* What the ALU must do for csrr (OR with x0) and for the moves to pc (OP2).
ASSUME AluMoveAssumption ==
  \A a \in Word, b \in Word : /\ Alu("ALU_OP2", a, b) = b
                              /\ Alu("ALU_OR", Zero, b) = b
=============================================================================
