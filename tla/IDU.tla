-------------------------------- MODULE IDU --------------------------------
(***************************************************************************)
(* Instruction decode, load-use stall and the ID/EX register               *)
(* (core/src/IDU.v).                                                       *)
(***************************************************************************)
EXTENDS Macro

VARIABLE id_ex        \* the ID/EX register

IdExType ==
  [valid : BOOLEAN, pc : Word, imm : Word, rs1 : Reg, rs2 : Reg, rd : Reg,
   alu : AluCtrl, opsel : OpSel, wb : WbCtrl, rf_we : BOOLEAN,
   uload : BOOLEAN, lsu_en : BOOLEAN, lsu_we : BOOLEAN, lsu_ctrl : 0..7,
   ebreak : BOOLEAN, j_en : BOOLEAN, j_cond : JCond, csr_wen : BOOLEAN,
   csr_event : BOOLEAN, csr_addr : 0..4095]

IDUTypeOK == id_ex \in IdExType

\* What ID/EX holds when no instruction is in the stage; id_ex_pc is kept.
Bubble(keep_pc) ==
  [valid |-> FALSE, pc |-> keep_pc, imm |-> Zero, rs1 |-> X0, rs2 |-> X0,
   rd |-> X0, alu |-> "ALU_IDLE", opsel |-> "OP_RS1_RS2", wb |-> "WB_IDLE",
   rf_we |-> FALSE, uload |-> FALSE, lsu_en |-> FALSE, lsu_we |-> FALSE,
   lsu_ctrl |-> 0, ebreak |-> FALSE, j_en |-> FALSE, j_cond |-> "J_UNCOND",
   csr_wen |-> FALSE, csr_event |-> FALSE, csr_addr |-> 0]

IDUInit == id_ex = Bubble(Zero)

----------------------------------------------------------------------------
(* Combinational decode, one operator per control signal.  An encoding     *)
(* that none of the cases names keeps the defaults (unknown_inst only      *)
(* reports it).                                                            *)

IsJalr(i)   == i.op = "JALR" /\ i.f3 = 0
IsLoad(i)   == i.op = "IL" /\ i.f3 \in {0, 1, 2, 4, 5}
IsStore(i)  == i.op = "S" /\ i.f3 \in {0, 1, 2}

\* SYSTEM, in the order of the else-if chain
IsPriv(i, funct12) ==
  i.op = "SYSTEM" /\ i.csr = funct12 /\ i.rs1 = X0 /\ i.f3 = 0 /\ i.rd = X0
IsEbreak(i) == IsPriv(i, 1)
IsEcall(i)  == IsPriv(i, 0)
IsMret(i)   == IsPriv(i, 770)                                 \* 12'h302
IsCsrrw(i)  == i.op = "SYSTEM" /\ i.f3 = 1
IsCsrrs(i)  == i.op = "SYSTEM" /\ i.f3 = 2

\* Adders of an address: their ALU operation is an addition with imm.
PcPlusImm(i)  == i.op \in {"AUIPC", "JAL", "B"}
Rs1PlusImm(i) == IsJalr(i) \/ IsLoad(i) \/ IsStore(i)

\* Mutation of AluCtrlI: srai is decoded without its funct7.
AluCtrlI_no_srai(i) ==
  CASE i.f3 = 0 -> "ALU_ADD"
    [] i.f3 = 1 -> "ALU_SHIFT_LEFT"
    [] i.f3 = 2 -> "ALU_LESS"
    [] i.f3 = 3 -> "ALU_LESS_U"
    [] i.f3 = 4 -> "ALU_XOR"
    [] i.f3 = 5 -> "ALU_SHIFT_RIGHT_U"
    [] i.f3 = 6 -> "ALU_OR"
    [] i.f3 = 7 -> "ALU_AND"

AluCtrlI(i) ==
  CASE i.f3 = 0 -> "ALU_ADD"
    [] i.f3 = 3 -> "ALU_LESS_U"
    [] i.f3 = 4 -> "ALU_XOR"
    [] i.f3 = 6 -> "ALU_OR"
    [] i.f3 = 7 -> "ALU_AND"
    [] i.f3 = 2 -> "ALU_LESS"
    [] i.f3 = 5 /\ i.f7 = "A" -> "ALU_SHIFT_RIGHT_U"
    [] i.f3 = 5 /\ i.f7 = "B" -> "ALU_SHIFT_RIGHT"
    [] i.f3 = 1 /\ i.f7 = "A" -> "ALU_SHIFT_LEFT"
    [] OTHER -> "ALU_IDLE"

AluCtrlR(i) ==
  CASE i.f3 = 0 /\ i.f7 = "A" -> "ALU_ADD"
    [] i.f3 = 0 /\ i.f7 = "B" -> "ALU_SUB"
    [] i.f3 = 4 /\ i.f7 = "A" -> "ALU_XOR"
    [] i.f3 = 6 /\ i.f7 = "A" -> "ALU_OR"
    [] i.f3 = 7 /\ i.f7 = "A" -> "ALU_AND"
    [] i.f3 = 5 /\ i.f7 = "A" -> "ALU_SHIFT_RIGHT_U"
    [] i.f3 = 5 /\ i.f7 = "B" -> "ALU_SHIFT_RIGHT"
    [] i.f3 = 2 /\ i.f7 = "A" -> "ALU_LESS"
    [] i.f3 = 3 /\ i.f7 = "A" -> "ALU_LESS_U"
    [] i.f3 = 1 /\ i.f7 = "A" -> "ALU_SHIFT_LEFT"
    [] OTHER -> "ALU_IDLE"

id_ex_alu_ctrl_nxt(i) ==
  CASE i.op = "I" -> AluCtrlI(i)
    [] i.op = "R" -> AluCtrlR(i)
    [] PcPlusImm(i) \/ Rs1PlusImm(i) -> "ALU_ADD"
    [] IsEcall(i) \/ IsMret(i) \/ IsCsrrw(i) -> "ALU_OP2"
    [] IsCsrrs(i) -> "ALU_OR"
    [] OTHER -> "ALU_IDLE"

alu_op_ctrl_nxt(i) ==
  CASE PcPlusImm(i) -> "OP_PC_IMM"
    [] i.op = "I" \/ Rs1PlusImm(i) -> "OP_RS1_IMM"
    [] IsEcall(i) \/ IsMret(i) \/ IsCsrrw(i) \/ IsCsrrs(i) -> "OP_RS1_CSR"
    [] OTHER -> "OP_RS1_RS2"

id_ex_imm_nxt(i) ==
  IF i.op \in {"LUI", "I"} \/ PcPlusImm(i) \/ Rs1PlusImm(i) THEN i.imm ELSE Zero

wb_ctrl_nxt(i) ==
  CASE i.op \in {"AUIPC", "I", "R"} \/ IsCsrrw(i) \/ IsCsrrs(i) -> "WB_ALU"
    [] i.op = "LUI" -> "WB_IMM"
    [] i.op = "JAL" \/ IsJalr(i) -> "WB_PC"
    [] IsLoad(i) -> "WB_MEM"
    [] OTHER -> "WB_IDLE"

id_ex_rf_we_nxt(i) ==
  \/ i.op \in {"AUIPC", "LUI", "I", "R", "JAL"}
  \/ IsJalr(i) \/ IsLoad(i) \/ IsCsrrw(i) \/ IsCsrrs(i)

j_en_nxt(i) == i.op \in {"JAL", "B"} \/ IsJalr(i) \/ IsEcall(i) \/ IsMret(i)

\* A branch with an unknown funct3 keeps the default J_UNCOND.
id_ex_J_cond_nxt(i) ==
  CASE i.op = "B" /\ i.f3 = 0 -> "J_BEQ"
    [] i.op = "B" /\ i.f3 = 1 -> "J_BNE"
    [] i.op = "B" /\ i.f3 = 7 -> "J_BGE_U"
    [] i.op = "B" /\ i.f3 = 5 -> "J_BGE"
    [] i.op = "B" /\ i.f3 = 6 -> "J_BLT_U"
    [] i.op = "B" /\ i.f3 = 4 -> "J_BLT"
    [] OTHER -> "J_UNCOND"

csr_addr_nxt(i) ==
  CASE IsEcall(i) -> MTVEC
    [] IsMret(i)  -> MEPC
    [] OTHER      -> i.csr

Decode(i, at) ==
  [valid |-> TRUE, pc |-> at, imm |-> id_ex_imm_nxt(i), rs1 |-> i.rs1,
   rs2 |-> i.rs2, rd |-> i.rd, alu |-> id_ex_alu_ctrl_nxt(i),
   opsel |-> alu_op_ctrl_nxt(i), wb |-> wb_ctrl_nxt(i),
   rf_we |-> id_ex_rf_we_nxt(i), uload |-> IsLoad(i) /\ i.f3 \in {4, 5},
   lsu_en |-> IsLoad(i) \/ IsStore(i), lsu_we |-> IsStore(i),
   lsu_ctrl |-> i.f3, ebreak |-> IsEbreak(i), j_en |-> j_en_nxt(i),
   j_cond |-> id_ex_J_cond_nxt(i), csr_wen |-> IsCsrrw(i),
   csr_event |-> IsEcall(i), csr_addr |-> csr_addr_nxt(i)]

----------------------------------------------------------------------------
(* Hazard detection and handshake *)

uses_rs1(i) == i.op \in {"R", "I", "IL", "JALR", "S", "B", "SYSTEM"}
uses_rs2(i) == i.op \in {"R", "S", "B"}

id_ex_is_load == id_ex.valid /\ id_ex.lsu_en /\ ~id_ex.lsu_we /\ id_ex.rf_we

\* Mutation of load_use_hazard: only rs1 is compared.
load_use_hazard_rs1(if_id) ==
  /\ if_id.valid
  /\ id_ex_is_load
  /\ id_ex.rd # X0
  /\ uses_rs1(if_id.instr) /\ id_ex.rd = if_id.instr.rs1

load_use_hazard(if_id) ==
  /\ if_id.valid
  /\ id_ex_is_load
  /\ id_ex.rd # X0
  /\ \/ uses_rs1(if_id.instr) /\ id_ex.rd = if_id.instr.rs1
     \/ uses_rs2(if_id.instr) /\ id_ex.rd = if_id.instr.rs2

id_glb_stall(if_id, ex_id_ready) == load_use_hazard(if_id) /\ ex_id_ready

uncond_jump_in_id(if_id) ==
  /\ if_id.valid
  /\ j_en_nxt(if_id.instr)
  /\ id_ex_J_cond_nxt(if_id.instr) = "J_UNCOND"

\* Mutation of inst_ready_inter: a jump in ID also blocks itself.
inst_ready_inter_blocked(if_id, ex_id_ready) ==
  /\ ~id_glb_stall(if_id, ex_id_ready)
  /\ ex_id_ready
  /\ ~uncond_jump_in_id(if_id)

inst_ready_inter(if_id, ex_id_ready) ==
  ~id_glb_stall(if_id, ex_id_ready) /\ ex_id_ready

id_if_instr_ready(if_id, ex_id_ready) ==
  inst_ready_inter(if_id, ex_id_ready) /\ ~uncond_jump_in_id(if_id)

next_id_ex(if_id, ex_id_ready, ex_glb_flush) ==
  IF ex_glb_flush \/ id_glb_stall(if_id, ex_id_ready) THEN Bubble(id_ex.pc)
  ELSE IF if_id.valid /\ inst_ready_inter(if_id, ex_id_ready)
  THEN Decode(if_id.instr, if_id.pc)
  ELSE IF inst_ready_inter(if_id, ex_id_ready) /\ id_ex.valid
  THEN Bubble(id_ex.pc)
  ELSE id_ex

IDUTick(if_id, ex_id_ready, ex_glb_flush) ==
  id_ex' = next_id_ex(if_id, ex_id_ready, ex_glb_flush)
=============================================================================
