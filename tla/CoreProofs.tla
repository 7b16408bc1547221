----------------------------- MODULE CoreProofs -----------------------------
(***************************************************************************)
(* Theorems about Core, for every word size, register file, datapath and   *)
(* program that satisfy the assumptions of Macro and Core.                 *)
(***************************************************************************)
EXTENDS Core, TLAPS

----------------------------------------------------------------------------
(* Typing of the combinational logic *)

(* A bubble is a value of the ID/EX register. *)
LEMMA BubbleType ==
  ASSUME NEW at \in Word
  PROVE  Bubble(at) \in IdExType
BY WordAssumption, RegAssumption
   DEF Bubble, IdExType, AluCtrl, OpSel, WbCtrl, JCond

(* IDU.v drives every field of ID/EX with a value of its width, whatever   *)
(* the instruction word, unknown encodings included.                       *)
LEMMA DecodeType ==
  ASSUME NEW i \in Instr, NEW at \in Word
  PROVE  Decode(i, at) \in IdExType
<1>1. /\ i.rs1 \in Reg /\ i.rs2 \in Reg /\ i.rd \in Reg
      /\ i.f3 \in 0..7 /\ csr_addr_nxt(i) \in 0..4095
      /\ id_ex_imm_nxt(i) \in Word
  BY WordAssumption DEF Instr, csr_addr_nxt, id_ex_imm_nxt, MTVEC, MEPC
<1>2. id_ex_alu_ctrl_nxt(i) \in AluCtrl
  <2>1. AluCtrlI(i) \in AluCtrl /\ AluCtrlR(i) \in AluCtrl
    BY DEF AluCtrlI, AluCtrlR, AluCtrl
  <2> QED
    BY <2>1 DEF id_ex_alu_ctrl_nxt, AluCtrl
<1>3. /\ alu_op_ctrl_nxt(i) \in OpSel
      /\ wb_ctrl_nxt(i) \in WbCtrl
      /\ id_ex_J_cond_nxt(i) \in JCond
  BY DEF alu_op_ctrl_nxt, wb_ctrl_nxt, id_ex_J_cond_nxt, OpSel, WbCtrl, JCond
<1>4. /\ IsLoad(i) \in BOOLEAN /\ IsStore(i) \in BOOLEAN
      /\ IsEbreak(i) \in BOOLEAN /\ IsEcall(i) \in BOOLEAN
      /\ IsCsrrw(i) \in BOOLEAN /\ j_en_nxt(i) \in BOOLEAN
      /\ id_ex_rf_we_nxt(i) \in BOOLEAN
  BY DEF IsLoad, IsStore, IsEbreak, IsEcall, IsPriv, IsCsrrw, j_en_nxt,
         id_ex_rf_we_nxt
<1> QED
  BY <1>1, <1>2, <1>3, <1>4 DEF Decode, IdExType

(* The wires of top.v carry values of their width: the forwarded operands, *)
(* the ALU result and the handshakes of EXU.v, LSU.v and WBU.v.            *)
LEMMA WireType ==
  ASSUME TypeOK, NEW h \in BOOLEAN
  PROVE  /\ wb.wen \in BOOLEAN /\ wb.rd \in Reg /\ wb.data \in Word
         /\ rs1 \in Word /\ rs2 \in Word /\ alu \in Word
         /\ hit(h) \in BOOLEAN /\ ready(h) \in BOOLEAN /\ flush(h) \in BOOLEAN
<1>1. wb.wen \in BOOLEAN /\ wb.rd \in Reg /\ wb.data \in Word
  BY DEF TypeOK, LSUTypeOK, wb, wb_port
<1>2. ASSUME NEW r \in Reg
      PROVE  fwd_data(r, wb, rf_read(r, wb)) \in Word
  <2>1. rf_read(r, wb) \in Word
    BY <1>1, WordAssumption DEF rf_read, TypeOK, RegCsrTypeOK
  <2> QED
    BY <1>1, <2>1 DEF fwd_data, TypeOK, EXUTypeOK
<1>3. /\ id_ex.rs1 \in Reg /\ id_ex.rs2 \in Reg /\ id_ex.pc \in Word
      /\ id_ex.imm \in Word /\ id_ex.alu \in AluCtrl
  BY DEF TypeOK, IDUTypeOK, IdExType
<1>4. rs1 \in Word /\ rs2 \in Word
  BY <1>2, <1>3 DEF rs1, rs2
<1>5. csr_rdata(id_ex.csr_addr) \in Word
  BY WordAssumption DEF csr_rdata, TypeOK, RegCsrTypeOK
<1>6. alu \in Word
  <2>1. op1(id_ex, rs1) \in Word
    BY <1>3, <1>4 DEF op1
  <2>2. op2(id_ex, rs2, csr_rdata(id_ex.csr_addr)) \in Word
    BY <1>3, <1>4, <1>5 DEF op2
  <2> QED
    BY <1>3, <2>1, <2>2, DatapathAssumption DEF alu, alu_out
<1>7. hit(h) \in BOOLEAN /\ ready(h) \in BOOLEAN /\ flush(h) \in BOOLEAN
  BY DEF hit, ready, flush, cache_lsu_hit, lsu_cache_valid, lsu_ex_ready,
         redirect, j_taken
<1> QED
  BY <1>1, <1>4, <1>6, <1>7

----------------------------------------------------------------------------
(* Reset leaves every register with a value of its width.                  *)
LEMMA InitType ==
  ASSUME Init
  PROVE  TypeOK
<1> USE WordAssumption, RegAssumption
<1>1. IFUTypeOK
  <2>1. NoInstr \in Instr
    BY DEF NoInstr, Instr, Opcode, Funct7
  <2> QED
    BY <2>1, ProgramAssumption DEF Init, IFUInit, IFUTypeOK
<1>2. IDUTypeOK
  BY BubbleType DEF Init, IDUInit, IDUTypeOK
<1>3. EXUTypeOK
  BY DEF Init, EXUInit, EXUTypeOK, NoExLsu, NoExCsr, LsuCtrl, Size
<1>4. LSUTypeOK
  BY ProgramAssumption
     DEF Init, LSUInit, LSUTypeOK, NoPending, NoLsuWbu, Size, Lanes
<1>5. RegCsrTypeOK
  BY DEF Init, RegCsrInit, RegCsrTypeOK
<1>6. WBUTypeOK
  BY DEF Init, WBUInit, WBUTypeOK, NpcState
<1> QED
  BY <1>1, <1>2, <1>3, <1>4, <1>5, <1>6 DEF TypeOK

(* Each stage's clocked block is type correct, given the wires it reads.   *)
LEMMA StepType ==
  ASSUME TypeOK, [Next]_vars
  PROVE  TypeOK'
<1>1. ASSUME NEW h \in BOOLEAN, Cycle(h) PROVE TypeOK'
  <2>1. /\ wb.wen \in BOOLEAN /\ wb.rd \in Reg /\ wb.data \in Word
        /\ rs1 \in Word /\ rs2 \in Word /\ alu \in Word
        /\ hit(h) \in BOOLEAN /\ ready(h) \in BOOLEAN /\ flush(h) \in BOOLEAN
    BY WireType
  <2>2. IFUTypeOK'
    <3>1. IFUTick(flush(h), alu, id_if_instr_ready(if_id, ready(h)), flush(h))
      BY <1>1 DEF Cycle
    <3>2. imem[WordAddr(pc)] \in Instr /\ Plus4(pc) \in Word
      BY DatapathAssumption DEF TypeOK, IFUTypeOK
    <3> QED
      BY <2>1, <3>1, <3>2
         DEF IFUTick, TypeOK, IFUTypeOK, next_pc, next_if_id, imem_if_rdata
  <2>3. IDUTypeOK'
    <3>1. /\ Decode(if_id.instr, if_id.pc) \in IdExType
          /\ Bubble(id_ex.pc) \in IdExType
      <4>1. if_id.instr \in Instr /\ if_id.pc \in Word
        BY DEF TypeOK, IFUTypeOK
      <4>2. id_ex.pc \in Word
        BY DEF TypeOK, IDUTypeOK, IdExType
      <4> QED
        BY <4>1, <4>2, DecodeType, BubbleType
    <3> QED
      BY <1>1, <3>1 DEF Cycle, IDUTick, next_id_ex, TypeOK, IDUTypeOK
  <2>4. EXUTypeOK'
    <3>1. EXUTick(id_ex, ready(h), rs1, rs2, alu)
      BY <1>1 DEF Cycle
    <3>2. /\ id_ex.pc \in Word /\ id_ex.imm \in Word /\ id_ex.rd \in Reg
          /\ id_ex.rf_we \in BOOLEAN /\ id_ex.uload \in BOOLEAN
          /\ id_ex.ebreak \in BOOLEAN /\ id_ex.csr_wen \in BOOLEAN
          /\ id_ex.csr_event \in BOOLEAN /\ id_ex.csr_addr \in 0..4095
      BY DEF TypeOK, IDUTypeOK, IdExType
    <3>3. /\ ex_lsu_ctrl_nxt(id_ex) \in LsuCtrl
          /\ size_of(id_ex.lsu_ctrl) \in Size
          /\ ex_lsu_wb_data_nxt(id_ex, alu) \in Word
      BY <2>1, <3>2, DatapathAssumption
         DEF ex_lsu_ctrl_nxt, size_of, ex_lsu_wb_data_nxt, LsuCtrl, Size
    <3>4. NoExLsu("BYTE", ex_lsu.pc) \in
            [valid : BOOLEAN, addr : Word, data : Word, ctrl : LsuCtrl,
             size : Size, uload : BOOLEAN, wb_data : Word, wb_rd : Reg,
             wb_wen : BOOLEAN, pc : Word, ebreak : BOOLEAN]
      BY WordAssumption, RegAssumption
         DEF NoExLsu, TypeOK, EXUTypeOK, LsuCtrl, Size
    <3> QED
      BY <2>1, <3>1, <3>2, <3>3, <3>4, WordAssumption
         DEF EXUTick, next_ex_lsu, next_ex_csr, enter_lsu, enter_csr, NoExCsr,
             TypeOK, EXUTypeOK
  <2>5. LSUTypeOK'
    <3>1. LSUTick(ex_lsu, hit(h))
      BY <1>1 DEF Cycle
    <3> DEFINE Pending == [wen : BOOLEAN, addr : Word, wdata : Word,
                           wmask : Lanes, size : Size, rd : Reg,
                           uload : BOOLEAN]
    <3>2. request(ex_lsu) \in Pending
      BY LaneAssumption DEF request, TypeOK, EXUTypeOK, Lanes
    <3>3. NoPending \in Pending
      BY WordAssumption, RegAssumption DEF NoPending, Lanes, Size
    <3>4. cache_request(ex_lsu) \in Pending
      BY <3>2 DEF cache_request, TypeOK, LSUTypeOK
    <3>5. wb_data(ex_lsu, hit(h)) \in Word
      BY <3>4, LaneAssumption, DatapathAssumption
         DEF wb_data, cache_lsu_rdata, TypeOK, LSUTypeOK, EXUTypeOK
    <3>6. lsu_state' \in {"IDLE", "WAITING"}
      BY <3>1 DEF LSUTick, next_lsu_state, TypeOK, LSUTypeOK
    <3>7. pending' \in Pending
      BY <3>1, <3>2, <3>3 DEF LSUTick, next_pending, TypeOK, LSUTypeOK
    <3>8. lsu_wbu' \in [valid : BOOLEAN, data : Word, rd : Reg,
                        wen : BOOLEAN, pc : Word, ebreak : BOOLEAN]
      <4>1. /\ ex_lsu.wb_rd \in Reg /\ ex_lsu.wb_wen \in BOOLEAN
            /\ ex_lsu.pc \in Word /\ ex_lsu.ebreak \in BOOLEAN
            /\ pending.rd \in Reg /\ pending.wen \in BOOLEAN
            /\ lsu_wbu.pc \in Word
        BY DEF TypeOK, EXUTypeOK, LSUTypeOK
      <4>2. lsu_wbu' = next_lsu_wbu(ex_lsu, hit(h))
        BY <3>1 DEF LSUTick
      <4>3. CASE Answer(ex_lsu, hit(h))
        BY <3>5, <4>1, <4>2, <4>3 DEF next_lsu_wbu
      <4>4. CASE ~Answer(ex_lsu, hit(h))
        BY <4>1, <4>2, <4>4, WordAssumption, RegAssumption
           DEF next_lsu_wbu, NoLsuWbu
      <4> QED
        BY <4>3, <4>4
    <3>9. pmem' \in [MemAddr -> Word]
      BY <3>1, <3>4, LaneAssumption, DatapathAssumption
         DEF LSUTick, next_pmem, TypeOK, LSUTypeOK
    <3> QED
      BY <3>6, <3>7, <3>8, <3>9 DEF LSUTypeOK
  <2>6. RegCsrTypeOK'
    <3>1. RegCsrTick(wb, ex_csr)
      BY <1>1 DEF Cycle
    <3>2. regs' \in [Reg -> Word]
      BY <2>1, <3>1 DEF RegCsrTick, next_regs, TypeOK, RegCsrTypeOK
    <3>3. csr' \in [Csr -> Word]
      <4>1. csr' = next_csr(ex_csr)
        BY <3>1 DEF RegCsrTick
      <4>2. ex_csr.pc \in Word /\ ex_csr.wdata \in Word
        BY DEF TypeOK, EXUTypeOK
      <4> QED
        BY <4>1, <4>2, WordAssumption
           DEF next_csr, TypeOK, RegCsrTypeOK
    <3> QED
      BY <3>2, <3>3 DEF RegCsrTypeOK
  <2>7. WBUTypeOK'
    BY <1>1, RegAssumption
       DEF Cycle, WBUTick, npctrap, TypeOK, WBUTypeOK, LSUTypeOK,
           RegCsrTypeOK, NpcState
  <2> QED
    BY <2>2, <2>3, <2>4, <2>5, <2>6, <2>7 DEF TypeOK
<1>2. ASSUME Panic PROVE TypeOK'
  BY <1>2 DEF Panic, TypeOK, IFUTypeOK, IDUTypeOK, EXUTypeOK, LSUTypeOK,
              RegCsrTypeOK, WBUTypeOK, NpcState
<1>3. ASSUME UNCHANGED vars PROVE TypeOK'
  BY <1>3 DEF vars, TypeOK, IFUTypeOK, IDUTypeOK, EXUTypeOK, LSUTypeOK,
              RegCsrTypeOK, WBUTypeOK
<1> QED
  BY <1>1, <1>2, <1>3 DEF Next

(* Every register of the core keeps a value of its width.                  *)
THEOREM TypeCorrect == Spec => []TypeOK
<1>1. Init => TypeOK
  BY InitType
<1>2. TypeOK /\ [Next]_vars => TypeOK'
  BY StepType
<1> QED
  BY <1>1, <1>2, PTL DEF Spec

----------------------------------------------------------------------------
(* Control of the pipeline *)

ControlInv == /\ TypeOK
              /\ ProgramOrder
              /\ MissHeld
              /\ LoadUseSafe
              /\ CsrInStep
              /\ TrapCommits

(* While LSU is not ready, fetch and decode hold what they have, and       *)
(* nothing enters the CSR port (IFU.v, IDU.v and EXU.v agree on            *)
(* lsu_ex_ready).                                                          *)
LEMMA StalledHolds ==
  ASSUME NEW h \in BOOLEAN, Cycle(h), ~ready(h)
  PROVE  /\ ~flush(h)
         /\ pc' = pc /\ if_id' = if_id /\ id_ex' = id_ex /\ imem' = imem
         /\ ex_csr' = NoExCsr
         /\ id_ex.valid => ex_lsu' = ex_lsu
         /\ ~id_ex.valid => ex_lsu' = NoExLsu("BYTE", ex_lsu.pc)
<1>1. ~flush(h)
  BY DEF flush, redirect
<1>2. ~id_if_instr_ready(if_id, ready(h)) /\ ~id_glb_stall(if_id, ready(h))
  BY DEF id_if_instr_ready, inst_ready_inter, id_glb_stall
<1>3. pc' = pc /\ if_id' = if_id /\ imem' = imem
  BY <1>1, <1>2 DEF Cycle, IFUTick, next_pc, next_if_id
<1>4. id_ex' = id_ex
  BY <1>1, <1>2 DEF Cycle, IDUTick, next_id_ex, inst_ready_inter
<1>5. /\ ex_csr' = NoExCsr
      /\ id_ex.valid => ex_lsu' = ex_lsu
      /\ ~id_ex.valid => ex_lsu' = NoExLsu("BYTE", ex_lsu.pc)
  BY DEF Cycle, EXUTick, next_ex_csr, next_ex_lsu
<1> QED
  BY <1>1, <1>3, <1>4, <1>5

(* A cycle in which LSU is ready ends with its state machine idle.         *)
LEMMA ReadyIdle ==
  ASSUME TypeOK, NEW h \in BOOLEAN, Cycle(h), ready(h)
  PROVE  lsu_state' = "IDLE"
<1>1. lsu_state' = next_lsu_state(ex_lsu, hit(h))
  BY DEF Cycle, LSUTick
<1>2. lsu_state \in {"IDLE", "WAITING"}
  BY DEF TypeOK, LSUTypeOK
<1> QED
  BY <1>1, <1>2 DEF next_lsu_state, Miss, Answer, ready, lsu_ex_ready

(* What a memory access, a CSR instruction or an ebreak decodes to.        *)
LEMMA DecodeShape ==
  ASSUME NEW i, NEW at
  PROVE  LET d == Decode(i, at) IN
         /\ d.valid /\ d.pc = at
         /\ d.csr_wen \/ d.csr_event \/ d.ebreak => ~d.lsu_en
         /\ d.ebreak = IsEbreak(i)
         /\ d.lsu_en /\ ~d.lsu_we => d.rf_we
BY DEF Decode, IsCsrrw, IsEcall, IsEbreak, IsPriv, IsLoad, IsStore,
       id_ex_rf_we_nxt

(* Each clock edge preserves the invariant.                                *)
LEMMA CyclePreserves ==
  ASSUME ControlInv, NEW h \in BOOLEAN, Cycle(h)
  PROVE  /\ ProgramOrder' /\ MissHeld' /\ LoadUseSafe'
         /\ CsrInStep' /\ TrapCommits'
<1> USE DEF ControlInv
<1>1. /\ imem' = imem
      /\ pc' = next_pc(flush(h), alu, id_if_instr_ready(if_id, ready(h)))
      /\ if_id' = next_if_id(id_if_instr_ready(if_id, ready(h)), flush(h))
      /\ id_ex' = next_id_ex(if_id, ready(h), flush(h))
      /\ ex_lsu' = next_ex_lsu(id_ex, ready(h), rs2, alu)
      /\ ex_csr' = next_ex_csr(id_ex, ready(h), rs1)
  BY DEF Cycle, IFUTick, IDUTick, EXUTick
<1>2. /\ lsu_state' = next_lsu_state(ex_lsu, hit(h))
      /\ pending' = next_pending(ex_lsu, hit(h))
      /\ lsu_wbu' = next_lsu_wbu(ex_lsu, hit(h))
  BY DEF Cycle, LSUTick
<1>3. lsu_state \in {"IDLE", "WAITING"}
  BY DEF TypeOK, LSUTypeOK
<1>4. flush(h) => ~if_id'.valid /\ ~id_ex'.valid
  BY <1>1 DEF next_if_id, next_id_ex, Bubble, TypeOK, IFUTypeOK
<1>5. id_ex.valid => id_ex = Decode(fetch(id_ex.pc), id_ex.pc)
  BY DEF ProgramOrder
<1>6. ProgramOrder'
  <2>1. CASE flush(h)
    BY <1>4, <2>1 DEF ProgramOrder
  <2>2. CASE ~ready(h)
    BY <2>2, StalledHolds DEF ProgramOrder, fetch
  <2>3. CASE ~flush(h) /\ ready(h) /\ id_glb_stall(if_id, ready(h))
    <3>1. pc' = pc /\ if_id' = if_id
      BY <1>1, <2>3 DEF next_pc, next_if_id, id_if_instr_ready, inst_ready_inter
    <3>2. ~id_ex'.valid
      BY <1>1, <2>3 DEF next_id_ex, Bubble
    <3> QED
      BY <1>1, <3>1, <3>2 DEF ProgramOrder, fetch
  <2>4. CASE ~flush(h) /\ ready(h) /\ ~id_glb_stall(if_id, ready(h))
    <3>1. inst_ready_inter(if_id, ready(h))
      BY <2>4 DEF inst_ready_inter
    <3>2. CASE uncond_jump_in_id(if_id)
      <4>1. pc' = pc /\ if_id' = if_id
        BY <1>1, <2>4, <3>2 DEF next_pc, next_if_id, id_if_instr_ready
      <4>2. if_id.valid /\ IsUncondJump(if_id.instr)
        BY <3>2 DEF uncond_jump_in_id, IsUncondJump
      <4>3. id_ex' = Decode(if_id.instr, if_id.pc)
        BY <1>1, <2>4, <3>1, <4>2 DEF next_id_ex
      <4>4. id_ex'.pc = if_id.pc
        BY <4>3, DecodeShape
      <4>5. if_id.instr = fetch(if_id.pc)
        BY <4>2 DEF ProgramOrder
      <4> QED
        BY <1>1, <4>1, <4>2, <4>3, <4>4, <4>5 DEF ProgramOrder, fetch
    <3>3. CASE ~uncond_jump_in_id(if_id)
      <4>1. id_if_instr_ready(if_id, ready(h))
        BY <3>1, <3>3 DEF id_if_instr_ready
      <4>2. pc' = Plus4(pc)
        BY <1>1, <2>4, <4>1 DEF next_pc
      <4>3. if_id' = [valid |-> TRUE, pc |-> pc, instr |-> fetch(pc)]
        BY <1>1, <2>4, <4>1
           DEF next_if_id, if_imem_arvalid, imem_if_rdata, fetch
      <4>4. CASE if_id.valid
        <5>1. id_ex' = Decode(if_id.instr, if_id.pc)
          BY <1>1, <2>4, <3>1, <4>4 DEF next_id_ex
        <5>2. id_ex'.pc = if_id.pc
          BY <5>1, DecodeShape
        <5>3. if_id.instr = fetch(if_id.pc) /\ pc = Plus4(if_id.pc)
          BY <4>4 DEF ProgramOrder
        <5>4. ~IsUncondJump(if_id.instr)
          BY <3>3, <4>4 DEF uncond_jump_in_id, IsUncondJump
        <5> QED
          BY <1>1, <4>2, <4>3, <5>1, <5>2, <5>3, <5>4 DEF ProgramOrder, fetch
      <4>5. CASE ~if_id.valid
        <5>1. ~id_ex.valid
          BY <4>5 DEF ProgramOrder
        <5>2. ~id_ex'.valid
          BY <1>1, <2>4, <4>5, <5>1 DEF next_id_ex
        <5> QED
          BY <1>1, <4>2, <4>3, <5>2 DEF ProgramOrder, fetch
      <4> QED
        BY <4>4, <4>5
    <3> QED
      BY <3>2, <3>3
  <2> QED
    BY <2>1, <2>2, <2>3, <2>4
<1>7. MissHeld'
  <2>1. CASE Miss(ex_lsu, hit(h))
    <3>1. ~ready(h)
      BY <2>1 DEF Miss, ready, lsu_ex_ready
    <3>2. lsu_state' = "WAITING" /\ pending' = request(ex_lsu)
      BY <1>2, <2>1 DEF next_lsu_state, next_pending, Miss, Answer
    <3>3. ex_lsu.valid /\ ex_lsu.ctrl # "NONE"
      BY <2>1 DEF Miss
    <3>4. id_ex' = id_ex
      BY <3>1, StalledHolds
    <3>5. CASE id_ex.valid
      <4>1. ex_lsu' = ex_lsu
        BY <3>1, <3>5, StalledHolds
      <4> QED
        BY <3>2, <3>3, <4>1 DEF MissHeld, request
    <3>6. CASE ~id_ex.valid
      <4>1. ~ex_lsu'.valid
        BY <3>1, <3>6, StalledHolds DEF NoExLsu
      <4> QED
        BY <3>2, <3>4, <3>6, <4>1 DEF MissHeld
    <3> QED
      BY <3>5, <3>6
  <2>2. CASE lsu_state = "WAITING" /\ ~hit(h)
    <3>1. ~ready(h)
      BY <2>2 DEF ready, lsu_ex_ready
    <3>2. lsu_state' = "WAITING" /\ pending' = pending
      BY <1>2, <2>2 DEF next_lsu_state, next_pending, Miss, Answer
    <3>3. id_ex' = id_ex
      BY <3>1, StalledHolds
    <3>4. CASE id_ex.valid
      <4>1. ex_lsu' = ex_lsu
        BY <3>1, <3>4, StalledHolds
      <4> QED
        BY <2>2, <3>2, <3>3, <3>4, <4>1 DEF MissHeld, request
    <3>5. CASE ~id_ex.valid
      <4>1. ~ex_lsu'.valid
        BY <3>1, <3>5, StalledHolds DEF NoExLsu
      <4> QED
        BY <3>2, <3>3, <3>5, <4>1 DEF MissHeld
    <3> QED
      BY <3>4, <3>5
  <2>3. CASE ~Miss(ex_lsu, hit(h)) /\ ~(lsu_state = "WAITING" /\ ~hit(h))
    <3>1. lsu_state' = "IDLE"
      BY <1>2, <1>3, <2>3 DEF next_lsu_state, Answer
    <3>2. pending' = NoPending
      BY <1>2, <1>3, <2>3 DEF next_pending, MissHeld
    <3> QED
      BY <3>1, <3>2 DEF MissHeld, NoPending
  <2> QED
    BY <2>1, <2>2, <2>3
<1>8. LoadUseSafe'
  <2>1. CASE ~ready(h)
    <3>1. CASE id_ex.valid
      BY <2>1, <3>1, StalledHolds DEF LoadUseSafe, fetch
    <3>2. CASE ~id_ex.valid
      BY <2>1, <3>2, StalledHolds DEF LoadUseSafe
    <3> QED
      BY <3>1, <3>2
  <2>2. CASE ready(h) /\ ~id_ex.valid
    <3>1. ~ex_lsu'.valid
      BY <1>1, <2>2 DEF next_ex_lsu, NoExLsu
    <3> QED
      BY <3>1 DEF LoadUseSafe
  <2>3. CASE ready(h) /\ id_ex.valid
    <3> SUFFICES ASSUME id_ex'.valid, ex_lsu'.ctrl = "READ", ex_lsu'.wb_rd # X0
                 PROVE  LET i == fetch(id_ex.pc)'
                        IN  /\ uses_rs1(i) => i.rs1 # ex_lsu'.wb_rd
                            /\ uses_rs2(i) => i.rs2 # ex_lsu'.wb_rd
      BY DEF LoadUseSafe, uses_rs1, uses_rs2
    <3>1. ex_lsu'.wb_rd = id_ex.rd /\ ex_lsu'.ctrl = ex_lsu_ctrl_nxt(id_ex)
      BY <1>1, <2>3 DEF next_ex_lsu, enter_lsu
    <3>2. id_ex_is_load
      BY <1>5, <2>3, <3>1, DecodeShape DEF ex_lsu_ctrl_nxt, id_ex_is_load
    <3>3. if_id.valid /\ ~id_glb_stall(if_id, ready(h))
      BY <1>1, <1>4, <2>3 DEF next_id_ex, Bubble, ProgramOrder
    <3>4. ~flush(h)
      BY <1>4
    <3>5. id_ex'.pc = if_id.pc
      <4>1. id_ex' = Decode(if_id.instr, if_id.pc)
        BY <1>1, <2>3, <3>3, <3>4 DEF next_id_ex, inst_ready_inter
      <4> QED
        BY <4>1, DecodeShape
    <3>6. fetch(id_ex.pc)' = if_id.instr
      BY <1>1, <3>3, <3>5 DEF ProgramOrder, fetch
    <3>7. ~load_use_hazard(if_id)
      BY <2>3, <3>3 DEF id_glb_stall
    <3> QED
      BY <3>1, <3>2, <3>3, <3>6, <3>7 DEF load_use_hazard
  <2> QED
    BY <2>1, <2>2, <2>3
<1>9. CsrInStep'
  <2>1. CASE ready(h) /\ id_ex.valid
    <3>1. lsu_state' = "IDLE"
      BY <2>1, ReadyIdle
    <3>2. /\ ex_lsu'.valid /\ ex_lsu'.pc = id_ex.pc
          /\ ex_lsu'.ctrl = ex_lsu_ctrl_nxt(id_ex)
      BY <1>1, <2>1 DEF next_ex_lsu, enter_lsu
    <3>3. /\ ex_csr'.wen = id_ex.csr_wen /\ ex_csr'.event = id_ex.csr_event
          /\ ex_csr'.pc = id_ex.pc
      BY <1>1, <2>1 DEF next_ex_csr, enter_csr
    <3>4. id_ex.csr_wen \/ id_ex.csr_event => ex_lsu_ctrl_nxt(id_ex) = "NONE"
      BY <1>5, <2>1, DecodeShape DEF ex_lsu_ctrl_nxt
    <3> QED
      BY <3>1, <3>2, <3>3, <3>4 DEF CsrInStep
  <2>2. CASE ~(ready(h) /\ id_ex.valid)
    <3>1. ex_csr' = NoExCsr
      BY <1>1, <2>2 DEF next_ex_csr, enter_csr
    <3> QED
      BY <3>1 DEF CsrInStep, NoExCsr
  <2> QED
    BY <2>1, <2>2
<1>10. TrapCommits'
  <2>1. ex_lsu'.ebreak => /\ ex_lsu'.valid
                          /\ ex_lsu'.ctrl = "NONE"
                          /\ IsEbreak(imem[WordAddr(ex_lsu'.pc)])
    <3>1. CASE ready(h) /\ id_ex.valid
      <4>1. /\ ex_lsu'.valid /\ ex_lsu'.pc = id_ex.pc
            /\ ex_lsu'.ctrl = ex_lsu_ctrl_nxt(id_ex)
            /\ ex_lsu'.ebreak = id_ex.ebreak
        BY <1>1, <3>1 DEF next_ex_lsu, enter_lsu
      <4>2. id_ex.ebreak => /\ ex_lsu_ctrl_nxt(id_ex) = "NONE"
                            /\ IsEbreak(fetch(id_ex.pc))
        BY <1>5, <3>1, DecodeShape DEF ex_lsu_ctrl_nxt
      <4> QED
        BY <4>1, <4>2 DEF fetch
    <3>2. CASE ~id_ex.valid
      BY <1>1, <3>2 DEF next_ex_lsu, NoExLsu
    <3>3. CASE ~ready(h) /\ id_ex.valid
      BY <3>3, StalledHolds DEF TrapCommits, fetch
    <3> QED
      BY <3>1, <3>2, <3>3
  <2>2. lsu_wbu'.ebreak => /\ lsu_wbu'.valid
                           /\ IsEbreak(imem[WordAddr(lsu_wbu'.pc)])
    <3>1. lsu_wbu'.ebreak = ex_lsu.ebreak
      BY <1>2 DEF next_lsu_wbu, NoLsuWbu
    <3>2. ex_lsu.ebreak => Answer(ex_lsu, hit(h))
      BY <1>3 DEF TrapCommits, MissHeld, Answer, Miss
    <3>3. Answer(ex_lsu, hit(h)) => lsu_wbu'.valid /\ lsu_wbu'.pc = ex_lsu.pc
      BY <1>2 DEF next_lsu_wbu
    <3> QED
      BY <3>1, <3>2, <3>3 DEF TrapCommits, fetch
  <2> QED
    BY <1>1, <2>1, <2>2 DEF TrapCommits, fetch
<1> QED
  BY <1>6, <1>7, <1>8, <1>9, <1>10

(* The invariant holds after reset and every step preserves it.            *)
THEOREM ControlCorrect == Spec => []ControlInv
<1>1. Init => ControlInv
  <2> SUFFICES ASSUME Init PROVE ControlInv
    OBVIOUS
  <2>1. TypeOK
    BY InitType
  <2>2. ProgramOrder
    BY DEF Init, IFUInit, IDUInit, Bubble, ProgramOrder
  <2>3. MissHeld
    BY DEF Init, LSUInit, MissHeld
  <2>4. LoadUseSafe
    BY DEF Init, IDUInit, Bubble, LoadUseSafe
  <2>5. CsrInStep
    BY DEF Init, EXUInit, NoExCsr, CsrInStep
  <2>6. TrapCommits
    BY DEF Init, EXUInit, NoExLsu, LSUInit, NoLsuWbu, TrapCommits
  <2> QED
    BY <2>1, <2>2, <2>3, <2>4, <2>5, <2>6 DEF ControlInv
<1>2. ControlInv /\ [Next]_vars => ControlInv'
  <2> SUFFICES ASSUME ControlInv, [Next]_vars PROVE ControlInv'
    OBVIOUS
  <2>1. TypeOK'
    BY StepType DEF ControlInv
  <2>2. ASSUME NEW h \in BOOLEAN, Cycle(h) PROVE ControlInv'
    BY <2>1, <2>2, CyclePreserves DEF ControlInv
  <2>3. CASE Panic \/ UNCHANGED vars
    <3>1. UNCHANGED <<imem, pc, if_id, id_ex, ex_lsu, ex_csr, lsu_state,
                      pending, lsu_wbu>>
      BY <2>3 DEF Panic, vars
    <3>2. ProgramOrder' /\ MissHeld' /\ LoadUseSafe'
      BY <3>1 DEF ControlInv, ProgramOrder, MissHeld, LoadUseSafe, fetch, request
    <3>3. CsrInStep' /\ TrapCommits'
      BY <3>1 DEF ControlInv, CsrInStep, TrapCommits, fetch
    <3> QED
      BY <2>1, <3>2, <3>3 DEF ControlInv
  <2> QED
    BY <2>2, <2>3 DEF Next
<1> QED
  BY <1>1, <1>2, PTL DEF Spec

(* IF/ID and ID/EX hold consecutive instructions of the program, whatever  *)
(* the program, the datapath and the answers of the cache (IFU.v, IDU.v).  *)
THEOREM FrontEndInOrder == Spec => []ProgramOrder
<1>1. ControlInv => ProgramOrder
  BY DEF ControlInv
<1> QED
  BY <1>1, ControlCorrect, PTL

(* A request that misses is the one LSU.v answers later.                   *)
THEOREM MissIsHeld == Spec => []MissHeld
<1>1. ControlInv => MissHeld
  BY DEF ControlInv
<1> QED
  BY <1>1, ControlCorrect, PTL

(* The one-cycle load-use stall of IDU.v covers a miss of any length.      *)
THEOREM LoadUseIsSafe == Spec => []LoadUseSafe
<1>1. ControlInv => LoadUseSafe
  BY DEF ControlInv
<1> QED
  BY <1>1, ControlCorrect, PTL

(* The CSR port of EXU.v acts in step with the instruction it belongs to.  *)
THEOREM CsrIsInStep == Spec => []CsrInStep
<1>1. ControlInv => CsrInStep
  BY DEF ControlInv
<1> QED
  BY <1>1, ControlCorrect, PTL

(* Only an ebreak that commits ends the run (WBU.v, npctrap).              *)
THEOREM TrapsCommit == Spec => []TrapCommits
<1>1. ControlInv => TrapCommits
  BY DEF ControlInv
<1> QED
  BY <1>1, ControlCorrect, PTL
=============================================================================
