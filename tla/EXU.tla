-------------------------------- MODULE EXU --------------------------------
(***************************************************************************)
(* Execute stage (core/src/EXU.v): operand forwarding, operand select,     *)
(* branch decision, redirect, and the EX/LSU and EX/CSR registers.         *)
(* id_ex is the ID/EX register, wb the write-back port of WBU.             *)
(***************************************************************************)
EXTENDS Macro

VARIABLES
  ex_lsu,             \* the EX/LSU register
  ex_csr              \* the write port of the CSR file, registered

EXUVars == <<ex_lsu, ex_csr>>

EXUTypeOK ==
  /\ ex_lsu \in [valid : BOOLEAN, addr : Word, data : Word, ctrl : LsuCtrl,
                 size : Size, uload : BOOLEAN, wb_data : Word, wb_rd : Reg,
                 wb_wen : BOOLEAN, pc : Word, ebreak : BOOLEAN]
  /\ ex_csr \in [wen : BOOLEAN, pc : Word, event : BOOLEAN, waddr : 0..4095,
                 wdata : Word]

\* EX/LSU without an instruction; reset writes size 10, a bubble size 00.
NoExLsu(size, keep_pc) ==
  [valid |-> FALSE, addr |-> Zero, data |-> Zero, ctrl |-> "NONE",
   size |-> size, uload |-> FALSE, wb_data |-> Zero, wb_rd |-> X0,
   wb_wen |-> FALSE, pc |-> keep_pc, ebreak |-> FALSE]

NoExCsr == [wen |-> FALSE, pc |-> Zero, event |-> FALSE, waddr |-> 0,
            wdata |-> Zero]

EXUInit ==
  /\ ex_lsu = NoExLsu("WORD", Zero)
  /\ ex_csr = NoExCsr

----------------------------------------------------------------------------
\* EX/LSU has priority over write-back; a load has no data to forward yet.
ForwardsExLsu(rs) ==
  /\ ex_lsu.valid
  /\ ex_lsu.wb_wen
  /\ ex_lsu.wb_rd # X0
  /\ ex_lsu.wb_rd = rs
  /\ ex_lsu.ctrl # "READ"

\* Mutation of fwd_data: the older result in write-back wins over EX/LSU.
fwd_data_wb_first(rs, wb, rf_data) ==
  IF wb.wen /\ wb.rd # X0 /\ wb.rd = rs THEN wb.data
  ELSE IF ForwardsExLsu(rs) THEN ex_lsu.wb_data
  ELSE rf_data

fwd_data(rs, wb, rf_data) ==
  IF ForwardsExLsu(rs) THEN ex_lsu.wb_data
  ELSE IF wb.wen /\ wb.rd # X0 /\ wb.rd = rs THEN wb.data
  ELSE rf_data

op1(id_ex, fwd_rs1) == IF id_ex.opsel = "OP_PC_IMM" THEN id_ex.pc ELSE fwd_rs1

op2(id_ex, fwd_rs2, csr_rdata) ==
  CASE id_ex.opsel \in {"OP_PC_IMM", "OP_RS1_IMM"} -> id_ex.imm
    [] id_ex.opsel = "OP_RS1_CSR" -> csr_rdata
    [] OTHER -> fwd_rs2

alu_out(id_ex, fwd_rs1, fwd_rs2, csr_rdata) ==
  Alu(id_ex.alu, op1(id_ex, fwd_rs1), op2(id_ex, fwd_rs2, csr_rdata))

j_taken(id_ex, fwd_rs1, fwd_rs2) ==
  /\ id_ex.j_en
  /\ CASE id_ex.j_cond = "J_UNCOND" -> TRUE
       [] id_ex.j_cond = "J_BEQ"    -> fwd_rs1 = fwd_rs2
       [] id_ex.j_cond = "J_BNE"    -> fwd_rs1 # fwd_rs2
       [] id_ex.j_cond = "J_BGE"    -> ~LessS(fwd_rs1, fwd_rs2)
       [] id_ex.j_cond = "J_BGE_U"  -> ~LessU(fwd_rs1, fwd_rs2)
       [] id_ex.j_cond = "J_BLT_U"  -> LessU(fwd_rs1, fwd_rs2)
       [] OTHER                     -> LessS(fwd_rs1, fwd_rs2)

\* ex_if_pc_valid = ex_glb_flush
redirect(id_ex, ex_id_ready, fwd_rs1, fwd_rs2) ==
  id_ex.valid /\ ex_id_ready /\ j_taken(id_ex, fwd_rs1, fwd_rs2)

----------------------------------------------------------------------------
ex_lsu_ctrl_nxt(id_ex) ==
  IF ~id_ex.lsu_en THEN "NONE" ELSE IF id_ex.lsu_we THEN "WRITE" ELSE "READ"

\* Mutation of size_of: the word case is missing, the default is size 11.
size_of_no_word(f3) ==
  CASE f3 \in {0, 4} -> "BYTE"
    [] f3 \in {1, 5} -> "HALF"
    [] OTHER -> "RESERVED"

\* funct3 LB/LBU (= SB), LH/LHU (= SH), everything else a word
size_of(f3) ==
  CASE f3 \in {0, 4} -> "BYTE"
    [] f3 \in {1, 5} -> "HALF"
    [] OTHER -> "WORD"

ex_lsu_wb_data_nxt(id_ex, alu) ==
  CASE id_ex.wb = "WB_PC"  -> Plus4(id_ex.pc)
    [] id_ex.wb = "WB_IMM" -> id_ex.imm
    [] OTHER -> alu

\* EX/LSU as an instruction that enters it writes it.
enter_lsu(id_ex, fwd_rs2, alu) ==
  [valid |-> TRUE, addr |-> alu, data |-> fwd_rs2,
   ctrl |-> ex_lsu_ctrl_nxt(id_ex), size |-> size_of(id_ex.lsu_ctrl),
   uload |-> id_ex.uload, wb_data |-> ex_lsu_wb_data_nxt(id_ex, alu),
   wb_rd |-> id_ex.rd, wb_wen |-> id_ex.rf_we, pc |-> id_ex.pc,
   ebreak |-> id_ex.ebreak]

\* Mutation of next_ex_lsu: ID/EX advances without waiting for LSU.
next_ex_lsu_no_wait(id_ex, ex_id_ready, fwd_rs2, alu) ==
  IF id_ex.valid THEN enter_lsu(id_ex, fwd_rs2, alu)
                 ELSE NoExLsu("BYTE", ex_lsu.pc)

\* Mutation of next_ex_lsu: ebreak_exu_lsu is assigned outside the guard.
next_ex_lsu_early_trap(id_ex, ex_id_ready, fwd_rs2, alu) ==
  IF ex_id_ready /\ id_ex.valid THEN enter_lsu(id_ex, fwd_rs2, alu)
  ELSE IF ~id_ex.valid THEN NoExLsu("BYTE", ex_lsu.pc)
  ELSE [ex_lsu EXCEPT !.ebreak = id_ex.ebreak]

\* The second case does not look at ex_id_ready: a bubble in ID/EX clears
\* EX/LSU even while LSU is waiting for the cache.
next_ex_lsu(id_ex, ex_id_ready, fwd_rs2, alu) ==
  IF ex_id_ready /\ id_ex.valid THEN enter_lsu(id_ex, fwd_rs2, alu)
  ELSE IF ~id_ex.valid THEN NoExLsu("BYTE", ex_lsu.pc)
  ELSE ex_lsu

\* EX/CSR as an instruction that leaves EX writes it.
enter_csr(id_ex, fwd_rs1) ==
  [wen |-> id_ex.csr_wen, pc |-> id_ex.pc, event |-> id_ex.csr_event,
   waddr |-> id_ex.csr_addr, wdata |-> fwd_rs1]

\* Mutation of next_ex_csr: the port is not cleared by a bubble.
next_ex_csr_sticky(id_ex, ex_id_ready, fwd_rs1) ==
  IF ex_id_ready /\ id_ex.valid THEN enter_csr(id_ex, fwd_rs1) ELSE ex_csr

next_ex_csr(id_ex, ex_id_ready, fwd_rs1) ==
  IF ex_id_ready /\ id_ex.valid THEN enter_csr(id_ex, fwd_rs1) ELSE NoExCsr

EXUTick(id_ex, ex_id_ready, fwd_rs1, fwd_rs2, alu) ==
  /\ ex_lsu' = next_ex_lsu(id_ex, ex_id_ready, fwd_rs2, alu)
  /\ ex_csr' = next_ex_csr(id_ex, ex_id_ready, fwd_rs1)
=============================================================================
