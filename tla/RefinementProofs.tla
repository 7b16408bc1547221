-------------------------- MODULE RefinementProofs --------------------------
(***************************************************************************)
(* The pipeline implements the instruction set: theorems about Core and    *)
(* ISA, for every word size, register file and datapath that satisfy the   *)
(* assumptions of Macro.  The control invariant of CoreProofs says where   *)
(* the instructions are; the invariants here say that they carry the right *)
(* control bits and operands.                                              *)
(***************************************************************************)
EXTENDS CoreProofs

\* The ID/EX register that IDU.v makes of the instruction at p.
decoded(p) == Decode(fetch(p), p)

(* The instruction in LSU carries its own control bits, in EX/LSU, in the  *)
(* saved request and at the CSR port, also when EX/LSU has been cleared    *)
(* during a miss and only its pc is left.  Nothing is behind an ecall.     *)
Carried ==
  LET d == decoded(ex_lsu.pc) IN
  /\ ex_lsu.valid =>
       /\ ex_lsu.ctrl = ex_lsu_ctrl_nxt(d)
       /\ ex_lsu.size = size_of(d.lsu_ctrl)
       /\ ex_lsu.uload = d.uload
       /\ ex_lsu.wb_rd = d.rd
       /\ ex_lsu.wb_wen = d.rf_we
       /\ ex_lsu.ebreak = d.ebreak
       /\ ex_csr.wen = d.csr_wen
       /\ ex_csr.event = d.csr_event
  /\ lsu_state = "WAITING" =>
       /\ d.lsu_en
       /\ pending.wen = d.lsu_we
       /\ pending.size = size_of(d.lsu_ctrl)
       /\ pending.uload = d.uload
       /\ pending.rd = d.rd
  /\ ex_csr.wen => ex_csr.waddr = d.csr_addr
  /\ ex_csr.event => ~id_ex.valid

(* The registers after a clock edge.                                       *)
LEMMA CycleIs ==
  ASSUME ControlInv, NEW h \in BOOLEAN, Cycle(h)
  PROVE  /\ imem' = imem
         /\ pc' = next_pc(flush(h), alu, id_if_instr_ready(if_id, ready(h)))
         /\ if_id' = next_if_id(id_if_instr_ready(if_id, ready(h)), flush(h))
         /\ id_ex' = next_id_ex(if_id, ready(h), flush(h))
         /\ ex_lsu' = next_ex_lsu(id_ex, ready(h), rs2, alu)
         /\ ex_csr' = next_ex_csr(id_ex, ready(h), rs1)
         /\ lsu_state' = next_lsu_state(ex_lsu, hit(h))
         /\ pending' = next_pending(ex_lsu, hit(h))
         /\ lsu_wbu' = next_lsu_wbu(ex_lsu, hit(h))
         /\ pmem' = next_pmem(ex_lsu, hit(h))
         /\ regs' = next_regs(wb)
         /\ csr' = next_csr(ex_csr)
         /\ lsu_state \in {"IDLE", "WAITING"}
         /\ id_ex.valid => id_ex = decoded(id_ex.pc)
         /\ flush(h) => ~if_id'.valid /\ ~id_ex'.valid
<1>1. /\ imem' = imem
      /\ pc' = next_pc(flush(h), alu, id_if_instr_ready(if_id, ready(h)))
      /\ if_id' = next_if_id(id_if_instr_ready(if_id, ready(h)), flush(h))
      /\ id_ex' = next_id_ex(if_id, ready(h), flush(h))
      /\ ex_lsu' = next_ex_lsu(id_ex, ready(h), rs2, alu)
      /\ ex_csr' = next_ex_csr(id_ex, ready(h), rs1)
  BY DEF Cycle, IFUTick, IDUTick, EXUTick
<1>2. /\ lsu_state' = next_lsu_state(ex_lsu, hit(h))
      /\ pending' = next_pending(ex_lsu, hit(h))
      /\ lsu_wbu' = next_lsu_wbu(ex_lsu, hit(h))
      /\ pmem' = next_pmem(ex_lsu, hit(h))
      /\ regs' = next_regs(wb)
      /\ csr' = next_csr(ex_csr)
  BY DEF Cycle, LSUTick, RegCsrTick
<1>3. lsu_state \in {"IDLE", "WAITING"}
  BY DEF ControlInv, TypeOK, LSUTypeOK
<1>4. flush(h) => ~if_id'.valid /\ ~id_ex'.valid
  BY <1>1 DEF next_if_id, next_id_ex, Bubble, ControlInv, TypeOK, IFUTypeOK
<1>5. id_ex.valid => id_ex = decoded(id_ex.pc)
  BY DEF ControlInv, ProgramOrder, decoded
<1> QED
  BY <1>1, <1>2, <1>3, <1>4, <1>5

(* A jump that is not conditional redirects as soon as LSU is ready.       *)
LEMMA EcallRedirects ==
  ASSUME ControlInv, NEW h \in BOOLEAN, Cycle(h), ready(h), id_ex.valid,
         id_ex.csr_event
  PROVE  flush(h)
<1>1. id_ex = Decode(fetch(id_ex.pc), id_ex.pc)
  BY DEF ControlInv, ProgramOrder
<1>2. IsEcall(fetch(id_ex.pc))
  BY <1>1 DEF Decode
<1>3. id_ex.j_en /\ id_ex.j_cond = "J_UNCOND"
  BY <1>1, <1>2 DEF Decode, j_en_nxt, id_ex_J_cond_nxt, IsEcall, IsPriv
<1> QED
  BY <1>3 DEF flush, redirect, j_taken

(* Each clock edge keeps the control bits with their instruction.          *)
LEMMA CarriedStep ==
  ASSUME ControlInv, Carried, NEW h \in BOOLEAN, Cycle(h)
  PROVE  Carried'
<1>1. CASE ready(h) /\ id_ex.valid
  <2>1. lsu_state' = "IDLE"
    BY <1>1, ReadyIdle DEF ControlInv
  <2>2. ex_lsu' = enter_lsu(id_ex, rs2, alu) /\ ex_csr' = enter_csr(id_ex, rs1)
    BY <1>1, CycleIs DEF next_ex_lsu, next_ex_csr
  <2>3. ex_lsu'.pc = id_ex.pc
    BY <2>2 DEF enter_lsu
  <2>4. decoded(ex_lsu.pc)' = id_ex
    BY <1>1, <2>3, CycleIs DEF decoded, fetch
  <2>5. ex_csr'.event => ~id_ex'.valid
    BY <1>1, <2>2, EcallRedirects, CycleIs DEF enter_csr
  <2>6. /\ ex_lsu'.ctrl = ex_lsu_ctrl_nxt(id_ex)
        /\ ex_lsu'.size = size_of(id_ex.lsu_ctrl)
        /\ ex_lsu'.uload = id_ex.uload
        /\ ex_lsu'.wb_rd = id_ex.rd
        /\ ex_lsu'.wb_wen = id_ex.rf_we
        /\ ex_lsu'.ebreak = id_ex.ebreak
        /\ ex_csr'.wen = id_ex.csr_wen
        /\ ex_csr'.event = id_ex.csr_event
        /\ ex_csr'.waddr = id_ex.csr_addr
    BY <2>2 DEF enter_lsu, enter_csr
  <2> QED
    BY <2>1, <2>4, <2>5, <2>6 DEF Carried
<1>2. CASE ready(h) /\ ~id_ex.valid
  <2>1. lsu_state' = "IDLE"
    BY <1>2, ReadyIdle DEF ControlInv
  <2>2. ~ex_lsu'.valid /\ ~ex_csr'.wen /\ ~ex_csr'.event
    BY <1>2, CycleIs DEF next_ex_lsu, next_ex_csr, NoExLsu, NoExCsr
  <2> QED
    BY <2>1, <2>2 DEF Carried
<1>3. CASE ~ready(h)
  <2>1. /\ ex_csr' = NoExCsr
        /\ id_ex.valid => ex_lsu' = ex_lsu
        /\ ~id_ex.valid => ex_lsu' = NoExLsu("BYTE", ex_lsu.pc)
    BY <1>3, StalledHolds
  <2>2. ex_lsu'.pc = ex_lsu.pc
    BY <2>1 DEF NoExLsu
  <2>3. decoded(ex_lsu.pc)' = decoded(ex_lsu.pc)
    BY <2>2, CycleIs DEF decoded, fetch
  <2>4. PICK d : d = decoded(ex_lsu.pc)
    OBVIOUS
  <2>5. d.csr_wen \/ d.csr_event => ~d.lsu_en
    BY <2>4, DecodeShape DEF decoded
  <2>6. ex_lsu.valid => d.lsu_en
    <3>1. CASE lsu_state = "WAITING"
      BY <3>1, <2>4 DEF Carried
    <3>2. CASE lsu_state = "IDLE"
      BY <3>2, <1>3, <2>4 DEF Carried, ready, lsu_ex_ready, ex_lsu_ctrl_nxt
    <3> QED
      BY <3>1, <3>2, CycleIs
  <2>7. ~ex_csr'.wen /\ ~ex_csr'.event
    BY <2>1 DEF NoExCsr
  <2>8. d.csr_wen \in BOOLEAN /\ d.csr_event \in BOOLEAN
    BY <2>4 DEF decoded, Decode, IsCsrrw, IsEcall, IsPriv
  <2>9. ex_lsu.valid => /\ ex_csr'.wen = d.csr_wen
                        /\ ex_csr'.event = d.csr_event
    BY <2>1, <2>5, <2>6, <2>8 DEF NoExCsr
  <2>10. ex_lsu'.valid =>
           /\ ex_lsu'.ctrl = ex_lsu_ctrl_nxt(d)
           /\ ex_lsu'.size = size_of(d.lsu_ctrl)
           /\ ex_lsu'.uload = d.uload
           /\ ex_lsu'.wb_rd = d.rd
           /\ ex_lsu'.wb_wen = d.rf_we
           /\ ex_lsu'.ebreak = d.ebreak
           /\ ex_csr'.wen = d.csr_wen
           /\ ex_csr'.event = d.csr_event
    <3>1. ex_lsu'.valid => ex_lsu' = ex_lsu
      BY <2>1 DEF NoExLsu
    <3> QED
      BY <3>1, <2>4, <2>9 DEF Carried
  <2>11. lsu_state' = "WAITING" =>
           /\ d.lsu_en
           /\ pending'.wen = d.lsu_we
           /\ pending'.size = size_of(d.lsu_ctrl)
           /\ pending'.uload = d.uload
           /\ pending'.rd = d.rd
    <3>1. CASE lsu_state = "WAITING"
      <4>1. pending' = pending
        BY <3>1, <1>3, CycleIs DEF next_pending, Miss, ready, lsu_ex_ready
      <4> QED
        BY <3>1, <4>1, <2>4 DEF Carried
    <3>2. CASE Miss(ex_lsu, hit(h))
      <4>1. pending' = request(ex_lsu)
        BY <3>2, CycleIs DEF next_pending, Miss
      <4>2. ex_lsu.valid /\ ex_lsu.ctrl # "NONE"
        BY <3>2 DEF Miss
      <4>3. d.lsu_we \in BOOLEAN
        BY <2>4 DEF decoded, Decode, IsStore
      <4>4. pending'.wen = (ex_lsu.ctrl = "WRITE")
        BY <4>1, <4>2 DEF request
      <4>5. ex_lsu.ctrl = ex_lsu_ctrl_nxt(d)
        BY <4>2, <2>4 DEF Carried
      <4>6. pending'.wen = d.lsu_we
        BY <4>3, <4>4, <4>5, <2>6, <4>2 DEF ex_lsu_ctrl_nxt
      <4>7. /\ pending'.size = ex_lsu.size /\ pending'.uload = ex_lsu.uload
            /\ pending'.rd = ex_lsu.wb_rd
        BY <4>1 DEF request
      <4> QED
        BY <4>2, <4>6, <4>7, <2>4, <2>6 DEF Carried
    <3>3. CASE lsu_state # "WAITING" /\ ~Miss(ex_lsu, hit(h))
      BY <3>3, CycleIs DEF next_lsu_state
    <3> QED
      BY <3>1, <3>2, <3>3
  <2> QED
    BY <2>3, <2>4, <2>7, <2>10, <2>11 DEF Carried
<1> QED
  BY <1>1, <1>2, <1>3

CarriedInv == ControlInv /\ Carried

(* Reset leaves LSU empty, and every step keeps the control bits.          *)
LEMMA AlwaysCarried == Spec => []CarriedInv
<1>1. Init => Carried
  BY DEF Init, EXUInit, NoExLsu, NoExCsr, LSUInit, Carried
<1>2. ControlInv /\ Carried /\ [Next]_vars => Carried'
  <2> SUFFICES ASSUME ControlInv, Carried, [Next]_vars PROVE Carried'
    OBVIOUS
  <2>1. ASSUME NEW h \in BOOLEAN, Cycle(h) PROVE Carried'
    BY <2>1, CarriedStep
  <2>2. CASE Panic \/ UNCHANGED vars
    <3>1. UNCHANGED <<imem, id_ex, ex_lsu, ex_csr, lsu_state, pending>>
      BY <2>2 DEF Panic, vars
    <3>2. decoded(ex_lsu.pc)' = decoded(ex_lsu.pc)
      BY <3>1 DEF decoded, fetch
    <3> QED
      BY <3>1, <3>2 DEF Carried
  <2> QED
    BY <2>1, <2>2 DEF Next
<1> QED
  BY <1>1, <1>2, ControlCorrect, PTL DEF Spec, CarriedInv

----------------------------------------------------------------------------
(* Memory is accessed in the cycle in which a load or store leaves LSU,    *)
(* and in no other: once per instruction, however often a miss makes LSU.v *)
(* offer the request again.                                                *)
THEOREM AccessedOnce == Spec => AccessOnce
<1>1. ASSUME CarriedInv, NEW h \in BOOLEAN, Cycle(h)
      PROVE  hit(h) <=> lsu_wbu'.valid /\ (LET i == fetch(lsu_wbu'.pc)
                                          IN  IsLoad(i) \/ IsStore(i))
  <2>1. PICK d : d = decoded(ex_lsu.pc)
    OBVIOUS
  <2>2. d.lsu_en <=> IsLoad(fetch(ex_lsu.pc)) \/ IsStore(fetch(ex_lsu.pc))
    BY <2>1 DEF decoded, Decode
  <2>3. lsu_wbu'.valid <=> Answer(ex_lsu, hit(h))
    BY <1>1, CycleIs DEF CarriedInv, next_lsu_wbu, NoLsuWbu
  <2>4. lsu_wbu'.valid => lsu_wbu'.pc = ex_lsu.pc
    BY <1>1, <2>3, CycleIs DEF CarriedInv, next_lsu_wbu
  <2>5. ex_lsu.valid => (ex_lsu.ctrl # "NONE" <=> d.lsu_en)
    BY <1>1, <2>1 DEF CarriedInv, Carried, ex_lsu_ctrl_nxt
  <2>6. lsu_state = "WAITING" => d.lsu_en
    BY <1>1, <2>1 DEF CarriedInv, Carried
  <2>7. lsu_state \in {"IDLE", "WAITING"}
    BY <1>1, CycleIs DEF CarriedInv
  <2>8. hit(h) <=> Answer(ex_lsu, hit(h)) /\ d.lsu_en
    BY <2>5, <2>6, <2>7
       DEF hit, cache_lsu_hit, lsu_cache_valid, Answer, Miss
  <2> QED
    BY <2>2, <2>3, <2>4, <2>8
<1>2. CarriedInv /\ [Next]_vars =>
        [\A h \in BOOLEAN : Cycle(h) =>
           (hit(h) <=> lsu_wbu'.valid /\ LET i == fetch(lsu_wbu'.pc)
                                         IN  IsLoad(i) \/ IsStore(i))]_vars
  BY <1>1
<1> QED
  BY <1>2, AlwaysCarried, PTL DEF Spec, AccessOnce

----------------------------------------------------------------------------
(* The front of the pipeline *)

\* LSU has an instruction, in EX/LSU or only as a saved request.
busy == lsu_state = "WAITING" \/ ex_lsu.valid

\* The oldest instruction before LSU.
front_pc == IF id_ex.valid THEN id_ex.pc
            ELSE IF if_id.valid THEN if_id.pc ELSE pc

(* The refinement mapping of pc, in these terms.                           *)
LEMMA ArchPcIs == ArchPc = IF busy THEN ex_lsu.pc ELSE front_pc
<1>1. CASE busy
  BY <1>1 DEF ArchPc, busy
<1>2. CASE ~busy /\ id_ex.valid
  BY <1>2 DEF ArchPc, busy, front_pc
<1>3. CASE ~busy /\ ~id_ex.valid /\ if_id.valid
  BY <1>3 DEF ArchPc, busy, front_pc
<1>4. CASE ~busy /\ ~id_ex.valid /\ ~if_id.valid
  BY <1>4 DEF ArchPc, busy, front_pc
<1> QED
  BY <1>1, <1>2, <1>3, <1>4

(* Stalls and bubbles neither drop nor reorder: as long as nothing enters  *)
(* LSU, the oldest instruction before it stays the same.                   *)
LEMMA FrontHolds ==
  ASSUME ControlInv, NEW h \in BOOLEAN, Cycle(h), ~(ready(h) /\ id_ex.valid)
  PROVE  front_pc' = front_pc
<1>1. CASE ~ready(h)
  BY <1>1, StalledHolds DEF front_pc
<1>2. CASE ready(h) /\ ~id_ex.valid /\ if_id.valid
  <2>1. ~flush(h)
    BY <1>2 DEF flush, redirect
  <2>2. inst_ready_inter(if_id, ready(h)) /\ ~id_glb_stall(if_id, ready(h))
    BY <1>2 DEF inst_ready_inter, id_glb_stall, load_use_hazard, id_ex_is_load
  <2>3. id_ex' = Decode(if_id.instr, if_id.pc)
    BY <1>2, <2>1, <2>2, CycleIs DEF next_id_ex
  <2>4. id_ex'.valid /\ id_ex'.pc = if_id.pc
    BY <2>3, DecodeShape
  <2> QED
    BY <1>2, <2>4 DEF front_pc
<1>3. CASE ready(h) /\ ~id_ex.valid /\ ~if_id.valid
  <2>1. ~flush(h)
    BY <1>3 DEF flush, redirect
  <2>2. inst_ready_inter(if_id, ready(h)) /\ ~id_glb_stall(if_id, ready(h))
    BY <1>3 DEF inst_ready_inter, id_glb_stall, load_use_hazard, id_ex_is_load
  <2>3. id_if_instr_ready(if_id, ready(h))
    BY <1>3, <2>2 DEF id_if_instr_ready, uncond_jump_in_id
  <2>4. ~id_ex'.valid
    BY <1>3, <2>1, <2>2, CycleIs DEF next_id_ex
  <2>5. if_id' = [valid |-> TRUE, pc |-> pc, instr |-> imem_if_rdata]
    BY <2>1, <2>3, CycleIs DEF next_if_id, if_imem_arvalid
  <2> QED
    BY <1>3, <2>4, <2>5 DEF front_pc
<1> QED
  BY <1>1, <1>2, <1>3

(* When an instruction enters LSU, the next one is that at the redirect    *)
(* target, or the one after it.                                            *)
LEMMA FrontMoves ==
  ASSUME ControlInv, NEW h \in BOOLEAN, Cycle(h), ready(h), id_ex.valid
  PROVE  front_pc' = IF flush(h) THEN alu ELSE Plus4(id_ex.pc)
<1>1. CASE flush(h)
  <2>1. pc' = alu
    BY <1>1, CycleIs DEF next_pc
  <2>2. ~if_id'.valid /\ ~id_ex'.valid
    BY <1>1, CycleIs
  <2> QED
    BY <1>1, <2>1, <2>2 DEF front_pc
<1>2. CASE ~flush(h)
  <2>1. if_id.valid /\ if_id.pc = Plus4(id_ex.pc)
    <3>1. ~IsUncondJump(fetch(id_ex.pc))
      <4>1. id_ex = Decode(fetch(id_ex.pc), id_ex.pc)
        BY DEF ControlInv, ProgramOrder
      <4>2. /\ id_ex.j_en = j_en_nxt(fetch(id_ex.pc))
            /\ id_ex.j_cond = id_ex_J_cond_nxt(fetch(id_ex.pc))
        BY <4>1 DEF Decode
      <4> QED
        BY <1>2, <4>2 DEF IsUncondJump, flush, redirect, j_taken
    <3> QED
      BY <3>1 DEF ControlInv, ProgramOrder
  <2>2. CASE id_glb_stall(if_id, ready(h))
    <3>1. ~id_ex'.valid
      <4>1. id_ex' = Bubble(id_ex.pc)
        BY <2>2, CycleIs DEF next_id_ex
      <4> QED
        BY <4>1 DEF Bubble
    <3>2. if_id' = if_id
      BY <1>2, <2>2, CycleIs DEF next_if_id, id_if_instr_ready, inst_ready_inter
    <3> QED
      BY <1>2, <2>1, <3>1, <3>2 DEF front_pc
  <2>3. CASE ~id_glb_stall(if_id, ready(h))
    <3>1. id_ex' = Decode(if_id.instr, if_id.pc)
      BY <1>2, <2>1, <2>3, CycleIs DEF next_id_ex, inst_ready_inter
    <3>2. id_ex'.valid /\ id_ex'.pc = if_id.pc
      BY <3>1, DecodeShape
    <3> QED
      BY <1>2, <2>1, <3>2 DEF front_pc
  <2> QED
    BY <2>2, <2>3
<1> QED
  BY <1>1, <1>2

----------------------------------------------------------------------------
(* Registers and forwarding *)

(* What the decoder guarantees of loads and stores.                        *)
LEMMA AccessShape ==
  ASSUME NEW p
  PROVE  LET d == decoded(p) IN
         /\ d.lsu_en \in BOOLEAN /\ d.lsu_we \in BOOLEAN /\ d.rf_we \in BOOLEAN
         /\ d.lsu_we => d.lsu_en
         /\ d.lsu_en => d.rf_we = ~d.lsu_we
         /\ d.lsu_en <=> IsLoad(fetch(p)) \/ IsStore(fetch(p))
         /\ d.lsu_we <=> IsStore(fetch(p))
         /\ d.rd = fetch(p).rd
BY DEF decoded, Decode, IsLoad, IsStore, IsJalr, IsCsrrw, IsCsrrs,
       id_ex_rf_we_nxt

(* An instruction leaves LSU only in a cycle in which LSU is ready.        *)
LEMMA AnswerReady ==
  ASSUME NEW h \in BOOLEAN, Answer(ex_lsu, hit(h))
  PROVE  ready(h) /\ busy
BY DEF Answer, Miss, ready, lsu_ex_ready, busy

(* The registers of the abstract machine change when an instruction leaves *)
(* LSU, and only its destination does.                                     *)
LEMMA RegsAfter ==
  ASSUME CarriedInv, NEW h \in BOOLEAN, Cycle(h)
  PROVE  LET d == decoded(ex_lsu.pc) IN
         ArchRegs' = IF Answer(ex_lsu, hit(h)) /\ d.rf_we /\ d.rd # X0
                     THEN [ArchRegs EXCEPT ![d.rd] = wb_data(ex_lsu, hit(h))]
                     ELSE ArchRegs
<1>1. PICK d : d = decoded(ex_lsu.pc)
  OBVIOUS
<1>2. regs' = ArchRegs
  BY CycleIs DEF CarriedInv, ArchRegs
<1>3. ArchRegs' = IF lsu_wbu'.valid /\ lsu_wbu'.wen /\ lsu_wbu'.rd # X0
                  THEN [regs' EXCEPT ![lsu_wbu'.rd] = lsu_wbu'.data]
                  ELSE regs'
  BY DEF ArchRegs, next_regs, wb, wb_port
<1>4. CASE Answer(ex_lsu, hit(h))
  <2>1. /\ lsu_wbu'.valid
        /\ lsu_wbu'.data = wb_data(ex_lsu, hit(h))
        /\ lsu_wbu'.rd = IF lsu_state = "IDLE" THEN ex_lsu.wb_rd ELSE pending.rd
        /\ lsu_wbu'.wen = IF lsu_state = "IDLE" THEN ex_lsu.wb_wen
                                                ELSE ~pending.wen
    BY <1>4, CycleIs DEF CarriedInv, next_lsu_wbu
  <2>2. lsu_wbu'.rd = d.rd /\ lsu_wbu'.wen = d.rf_we
    <3>1. CASE lsu_state = "IDLE"
      <4>1. ex_lsu.valid
        BY <1>4, <3>1 DEF Answer
      <4> QED
        BY <1>1, <2>1, <3>1, <4>1 DEF CarriedInv, Carried
    <3>2. CASE lsu_state = "WAITING"
      <4>1. d.lsu_en /\ pending.wen = d.lsu_we /\ pending.rd = d.rd
        BY <1>1, <3>2 DEF CarriedInv, Carried
      <4>2. d.rf_we = ~d.lsu_we
        BY <1>1, <4>1, AccessShape
      <4> QED
        BY <2>1, <3>2, <4>1, <4>2
    <3> QED
      BY <3>1, <3>2, CycleIs DEF CarriedInv
  <2> QED
    BY <1>1, <1>2, <1>3, <1>4, <2>1, <2>2
<1>5. CASE ~Answer(ex_lsu, hit(h))
  <2>1. ~lsu_wbu'.valid
    BY <1>5, CycleIs DEF CarriedInv, next_lsu_wbu, NoLsuWbu
  <2> QED
    BY <1>2, <1>3, <1>5, <2>1
<1> QED
  BY <1>4, <1>5

(* An operand in EX is the newest value of its register: that of the       *)
(* instruction in EX/LSU, of the one in write-back, or of the file.        *)
LEMMA Forwarded ==
  ASSUME CarriedInv, NEW h \in BOOLEAN, Cycle(h), ready(h), id_ex.valid,
         NEW r \in Reg,
         (ex_lsu.valid /\ ex_lsu.ctrl = "READ" /\ ex_lsu.wb_rd # X0)
           => r # ex_lsu.wb_rd
  PROVE  fwd_data(r, wb, rf_read(r, wb)) = Arch!X(r)'
<1>1. PICK d : d = decoded(ex_lsu.pc)
  OBVIOUS
<1>2. regs \in [Reg -> Word] /\ wb.rd \in Reg
  BY WireType DEF CarriedInv, ControlInv, TypeOK, RegCsrTypeOK
<1>3. ArchRegs \in [Reg -> Word]
  BY <1>2, WireType
     DEF ArchRegs, next_regs, CarriedInv, ControlInv, TypeOK, RegCsrTypeOK
<1>4. rf_read(r, wb) = Arch!X(r)
  BY <1>2 DEF rf_read, Arch!X, ArchRegs, next_regs
<1>5. fwd_data(r, wb, rf_read(r, wb)) =
        IF ForwardsExLsu(r) THEN ex_lsu.wb_data ELSE Arch!X(r)
  BY <1>4 DEF fwd_data, rf_read
<1>6. d.rd \in Reg \/ ~busy
  BY <1>1 DEF busy, CarriedInv, Carried, ControlInv, TypeOK, EXUTypeOK, LSUTypeOK
<1>7. Arch!X(r)' = IF Answer(ex_lsu, hit(h)) /\ d.rf_we /\ d.rd # X0 /\ d.rd = r
                   THEN wb_data(ex_lsu, hit(h)) ELSE Arch!X(r)
  <2>1. Answer(ex_lsu, hit(h)) => busy
    BY AnswerReady
  <2>2. ArchRegs' = IF Answer(ex_lsu, hit(h)) /\ d.rf_we /\ d.rd # X0
                    THEN [ArchRegs EXCEPT ![d.rd] = wb_data(ex_lsu, hit(h))]
                    ELSE ArchRegs
    BY <1>1, RegsAfter
  <2> QED
    BY <1>3, <1>6, <2>1, <2>2 DEF Arch!X
<1>8. lsu_state = "WAITING" => ex_lsu.valid /\ ex_lsu.ctrl # "NONE"
  BY DEF CarriedInv, ControlInv, MissHeld
<1>9. ex_lsu.valid => Answer(ex_lsu, hit(h))
  BY <1>8, CycleIs DEF CarriedInv, Answer, Miss, ready, lsu_ex_ready
<1>10. ex_lsu.valid => /\ ex_lsu.wb_rd = d.rd
                       /\ ex_lsu.wb_wen = d.rf_we
                       /\ ex_lsu.ctrl = ex_lsu_ctrl_nxt(d)
  BY <1>1 DEF CarriedInv, Carried
<1>11. CASE ForwardsExLsu(r)
  <2>1. /\ ex_lsu.valid /\ ex_lsu.wb_wen /\ ex_lsu.wb_rd # X0
        /\ ex_lsu.wb_rd = r /\ ex_lsu.ctrl # "READ"
    BY <1>11 DEF ForwardsExLsu
  <2>2. ex_lsu.ctrl = "NONE"
    BY <1>1, <1>10, <2>1, AccessShape DEF ex_lsu_ctrl_nxt
  <2>3. ~hit(h)
    BY <1>8, <2>2 DEF hit, cache_lsu_hit, lsu_cache_valid
  <2>4. wb_data(ex_lsu, hit(h)) = ex_lsu.wb_data
    BY <2>3 DEF wb_data
  <2> QED
    BY <1>5, <1>7, <1>9, <1>10, <1>11, <2>1, <2>4
<1>12. CASE ~ForwardsExLsu(r)
  <2>1. ~(Answer(ex_lsu, hit(h)) /\ d.rf_we /\ d.rd # X0 /\ d.rd = r)
    <3> SUFFICES ASSUME Answer(ex_lsu, hit(h)), d.rf_we, d.rd # X0, d.rd = r
                 PROVE  FALSE
      OBVIOUS
    <3>1. ex_lsu.valid
      BY <1>8 DEF Answer
    <3>2. ex_lsu.ctrl = "READ"
      BY <1>10, <1>12, <3>1 DEF ForwardsExLsu
    <3> QED
      BY <1>10, <3>1, <3>2
  <2> QED
    BY <1>5, <1>7, <1>12, <2>1
<1> QED
  BY <1>11, <1>12

----------------------------------------------------------------------------
(* Operands and results *)

\* What EXU.v computes for the instruction at p from the registers and CSRs
\* of the abstract machine: the output of the ALU and the next pc.
arch_alu(p) ==
  LET d == decoded(p)
  IN  alu_out(d, Arch!X(d.rs1), Arch!X(d.rs2), csr_rdata(d.csr_addr))
arch_next(p) ==
  LET d == decoded(p)
  IN  IF j_taken(d, Arch!X(d.rs1), Arch!X(d.rs2)) THEN arch_alu(p) ELSE Plus4(p)

\* The program is one the core supports.
Proper == /\ CsrSpaced(imem)
          /\ \A a \in MemAddr : Supported(imem[a])

(* The instruction in LSU has the operands of the abstract machine, in     *)
(* EX/LSU, in the saved request and at the CSR port.                       *)
Operands ==
  LET d == decoded(ex_lsu.pc) IN
  /\ ex_lsu.valid =>
       /\ d.lsu_en => ex_lsu.addr = arch_alu(ex_lsu.pc)
       /\ d.lsu_we => ex_lsu.data = Arch!X(d.rs2)
       /\ d.rf_we /\ ~d.lsu_en /\ d.rd # X0
            => ex_lsu.wb_data = ex_lsu_wb_data_nxt(d, arch_alu(ex_lsu.pc))
  /\ lsu_state = "WAITING" =>
       /\ pending.addr = arch_alu(ex_lsu.pc)
       /\ d.lsu_we =>
            /\ pending.wdata = StoreData(pending.size, pending.addr, Arch!X(d.rs2))
            /\ pending.wmask = StoreMask(pending.size, pending.addr)
  /\ ex_csr.wen => ex_csr.wdata = Arch!X(d.rs1)

(* The instruction behind the one in LSU is the one the abstract machine   *)
(* executes next: no jump is missed and none is taken wrongly.             *)
Follows == busy => front_pc = arch_next(ex_lsu.pc)

DataInv == CarriedInv /\ Proper /\ Operands /\ Follows

(* Which operands the ALU uses, by the decoder.                            *)
LEMMA OperandShape ==
  ASSUME NEW i \in Instr, Supported(i), NEW p,
         i.op # "LUI", ~IsEbreak(i), ~(IsCsrrw(i) /\ i.rd = X0)
  PROVE  LET d == Decode(i, p) IN
         /\ d.opsel = "OP_PC_IMM" \/ uses_rs1(i)
         /\ d.opsel = "OP_RS1_RS2" => uses_rs2(i)
         /\ d.opsel = "OP_RS1_CSR" => ReadsCsr(i, d.csr_addr)
         /\ d.opsel \in {"OP_PC_IMM", "OP_RS1_IMM", "OP_RS1_CSR", "OP_RS1_RS2"}
         /\ d.rs1 = i.rs1 /\ d.rs2 = i.rs2
<1> DEFINE d == Decode(i, p)
<1>1. i.op \in Opcode
  BY DEF Instr
<1>2. d.opsel = alu_op_ctrl_nxt(i) /\ d.csr_addr = csr_addr_nxt(i)
      /\ d.rs1 = i.rs1 /\ d.rs2 = i.rs2
  BY DEF Decode
<1>3. CASE i.op \in {"R", "I", "AUIPC", "JAL", "B"}
  BY <1>2, <1>3 DEF alu_op_ctrl_nxt, uses_rs1, uses_rs2, PcPlusImm, Rs1PlusImm,
     IsJalr, IsLoad, IsStore, IsEcall, IsMret, IsPriv, IsCsrrw, IsCsrrs
<1>4. CASE i.op \in {"IL", "S", "JALR"}
  BY <1>2, <1>4 DEF Supported, alu_op_ctrl_nxt, uses_rs1, uses_rs2, PcPlusImm,
     Rs1PlusImm, IsJalr, IsLoad, IsStore, IsEcall, IsMret, IsPriv, IsCsrrw, IsCsrrs
<1>5. CASE i.op = "SYSTEM"
  <2>1. IsEcall(i) \/ IsMret(i) \/ IsCsrrw(i) \/ IsCsrrs(i)
    BY <1>5 DEF Supported
  <2>2. alu_op_ctrl_nxt(i) = "OP_RS1_CSR"
    BY <1>5, <2>1 DEF alu_op_ctrl_nxt, PcPlusImm, Rs1PlusImm, IsJalr, IsLoad,
       IsStore
  <2>3. ReadsCsr(i, csr_addr_nxt(i))
    BY <2>1 DEF ReadsCsr, csr_addr_nxt, IsEcall, IsMret, IsPriv, IsCsrrw, IsCsrrs
  <2> QED
    BY <1>2, <1>5, <2>2, <2>3 DEF uses_rs1
<1>6. i.op # "OTHER"
  BY DEF Supported
<1> QED
  BY <1>1, <1>3, <1>4, <1>5, <1>6 DEF Opcode

(* The operands of an instruction that enters LSU are those the abstract   *)
(* machine will have then.                                                 *)
LEMMA OperandsAgree ==
  ASSUME CarriedInv, NEW h \in BOOLEAN, Cycle(h), ready(h), id_ex.valid,
         NEW i, i = fetch(id_ex.pc)
  PROVE  /\ uses_rs1(i) => rs1 = Arch!X(i.rs1)'
         /\ uses_rs2(i) => rs2 = Arch!X(i.rs2)'
<1>1. id_ex = Decode(i, id_ex.pc)
  BY DEF CarriedInv, ControlInv, ProgramOrder
<1>2. id_ex.rs1 = i.rs1 /\ id_ex.rs2 = i.rs2
  BY <1>1 DEF Decode
<1>3. i.rs1 \in Reg /\ i.rs2 \in Reg
  BY <1>2 DEF CarriedInv, ControlInv, TypeOK, IDUTypeOK, IdExType
<1>4. (ex_lsu.valid /\ ex_lsu.ctrl = "READ" /\ ex_lsu.wb_rd # X0)
        => /\ uses_rs1(i) => i.rs1 # ex_lsu.wb_rd
           /\ uses_rs2(i) => i.rs2 # ex_lsu.wb_rd
  BY DEF CarriedInv, ControlInv, LoadUseSafe
<1>5. uses_rs1(i) => rs1 = Arch!X(i.rs1)'
  BY <1>2, <1>3, <1>4, Forwarded DEF rs1
<1>6. uses_rs2(i) => rs2 = Arch!X(i.rs2)'
  BY <1>2, <1>3, <1>4, Forwarded DEF rs2
<1> QED
  BY <1>5, <1>6

(* The CSR an instruction in EX reads is not being written: an ecall has   *)
(* nothing behind it, and a csrrw is not followed by a reader.             *)
LEMMA CsrAgrees ==
  ASSUME DataInv, NEW h \in BOOLEAN, Cycle(h), ready(h), id_ex.valid,
         NEW c, ReadsCsr(fetch(id_ex.pc), c)
  PROVE  csr_rdata(c)' = csr_rdata(c)
<1>1. ~ex_csr.event
  BY DEF DataInv, CarriedInv, Carried
<1>2. csr' = IF ex_csr.wen /\ ex_csr.waddr \in Csr
             THEN [csr EXCEPT ![ex_csr.waddr] = ex_csr.wdata] ELSE csr
  BY <1>1, CycleIs DEF DataInv, CarriedInv, next_csr
<1>3. CASE ~ex_csr.wen
  BY <1>2, <1>3 DEF csr_rdata
<1>4. CASE ex_csr.wen
  <2>1. PICK p \in Word : p = ex_lsu.pc
    BY DEF DataInv, CarriedInv, ControlInv, TypeOK, EXUTypeOK
  <2>2. ex_lsu.valid
    BY <1>4 DEF DataInv, CarriedInv, ControlInv, CsrInStep
  <2>3. decoded(p).csr_wen /\ ex_csr.waddr = decoded(p).csr_addr
    BY <1>4, <2>1, <2>2 DEF DataInv, CarriedInv, Carried
  <2>4. IsCsrrw(fetch(p))
    BY <2>3 DEF decoded, Decode
  <2>5. ex_csr.waddr = fetch(p).csr /\ ~decoded(p).j_en
    <3>1. /\ ~IsEcall(fetch(p)) /\ ~IsMret(fetch(p)) /\ ~IsJalr(fetch(p))
          /\ fetch(p).op \notin {"JAL", "B"}
      BY <2>4 DEF IsCsrrw, IsJalr, IsEcall, IsMret, IsPriv
    <3>2. csr_addr_nxt(fetch(p)) = fetch(p).csr /\ ~j_en_nxt(fetch(p))
      BY <3>1 DEF csr_addr_nxt, j_en_nxt
    <3> QED
      BY <2>3, <3>2 DEF decoded, Decode
  <2>6. id_ex.pc = Plus4(p)
    BY <2>1, <2>2, <2>5 DEF DataInv, Follows, busy, front_pc, arch_next, j_taken
  <2>7. ~ReadsCsr(fetch(id_ex.pc), ex_csr.waddr)
    BY <2>4, <2>5, <2>6 DEF DataInv, Proper, CsrSpaced, fetch
  <2>8. c # ex_csr.waddr
    BY <2>7
  <2> QED
    BY <1>2, <2>8 DEF csr_rdata, DataInv, CarriedInv, ControlInv, TypeOK,
                      RegCsrTypeOK
<1> QED
  BY <1>3, <1>4

(* So is the output of the ALU, where the instruction uses it.             *)
LEMMA AluAgrees ==
  ASSUME DataInv, NEW h \in BOOLEAN, Cycle(h), ready(h), id_ex.valid,
         NEW p \in Word, p = id_ex.pc, NEW i \in Instr, i = fetch(p),
         i.op # "LUI", ~IsEbreak(i), ~(IsCsrrw(i) /\ i.rd = X0)
  PROVE  alu = arch_alu(p)'
<1>1. decoded(p)' = Decode(i, p) /\ id_ex = Decode(i, p)
  BY CycleIs DEF DataInv, CarriedInv, decoded, fetch
<1>2. PICK d : d = Decode(i, p)
  OBVIOUS
<1>3. Supported(i)
  BY DatapathAssumption DEF DataInv, Proper, fetch
<1>4. /\ d.opsel = "OP_PC_IMM" \/ uses_rs1(i)
      /\ d.opsel = "OP_RS1_RS2" => uses_rs2(i)
      /\ d.opsel = "OP_RS1_CSR" => ReadsCsr(i, d.csr_addr)
      /\ d.opsel \in {"OP_PC_IMM", "OP_RS1_IMM", "OP_RS1_CSR", "OP_RS1_RS2"}
      /\ d.rs1 = i.rs1 /\ d.rs2 = i.rs2
  BY <1>2, <1>3, OperandShape
<1>5. /\ uses_rs1(i) => rs1 = Arch!X(d.rs1)'
      /\ uses_rs2(i) => rs2 = Arch!X(d.rs2)'
  BY <1>4, OperandsAgree DEF DataInv
<1>6. ReadsCsr(i, d.csr_addr) => csr_rdata(d.csr_addr)' = csr_rdata(d.csr_addr)
  BY CsrAgrees
<1>7. op1(d, rs1) = op1(d, Arch!X(d.rs1)')
  BY <1>4, <1>5 DEF op1
<1>8. op2(d, rs2, csr_rdata(d.csr_addr)) =
        op2(d, Arch!X(d.rs2)', csr_rdata(d.csr_addr)')
  BY <1>4, <1>5, <1>6 DEF op2
<1>9. alu = Alu(d.alu, op1(d, rs1), op2(d, rs2, csr_rdata(d.csr_addr)))
  BY <1>1, <1>2 DEF alu, alu_out
<1>10. arch_alu(p)' = Alu(d.alu, op1(d, Arch!X(d.rs1)'),
                          op2(d, Arch!X(d.rs2)', csr_rdata(d.csr_addr)'))
  BY <1>1, <1>2 DEF arch_alu, alu_out
<1> QED
  BY <1>7, <1>8, <1>9, <1>10

(* EXU.v redirects to where the abstract machine goes, and not otherwise.  *)
LEMMA JumpAgrees ==
  ASSUME DataInv, NEW h \in BOOLEAN, Cycle(h), ready(h), id_ex.valid,
         NEW p \in Word, p = id_ex.pc, NEW i \in Instr, i = fetch(p)
  PROVE  front_pc' = arch_next(p)'
<1>1. decoded(p)' = Decode(i, p) /\ id_ex = Decode(i, p)
  BY CycleIs DEF DataInv, CarriedInv, decoded, fetch
<1>2. PICK d : d = Decode(i, p)
  OBVIOUS
<1>3. /\ d.rs1 = i.rs1 /\ d.rs2 = i.rs2
      /\ d.j_en = j_en_nxt(i) /\ d.j_cond = id_ex_J_cond_nxt(i)
  BY <1>2 DEF Decode
<1>4. front_pc' = IF j_taken(d, rs1, rs2) THEN alu ELSE Plus4(p)
  BY <1>1, <1>2, FrontMoves DEF DataInv, CarriedInv, flush, redirect
<1>5. arch_next(p)' = IF j_taken(d, Arch!X(d.rs1)', Arch!X(d.rs2)')
                      THEN arch_alu(p)' ELSE Plus4(p)
  BY <1>1, <1>2 DEF arch_next
<1>6. CASE ~j_en_nxt(i)
  BY <1>3, <1>4, <1>5, <1>6 DEF j_taken
<1>7. CASE j_en_nxt(i)
  <2>1. i.op \in {"JAL", "B"} \/ IsJalr(i) \/ IsEcall(i) \/ IsMret(i)
    BY <1>7 DEF j_en_nxt
  <2>2. i.op # "LUI" /\ ~IsEbreak(i) /\ ~(IsCsrrw(i) /\ i.rd = X0)
    BY <2>1 DEF IsJalr, IsEcall, IsMret, IsEbreak, IsPriv, IsCsrrw
  <2>3. alu = arch_alu(p)'
    BY <2>2, AluAgrees
  <2>4. j_taken(d, rs1, rs2) = j_taken(d, Arch!X(d.rs1)', Arch!X(d.rs2)')
    <3>1. CASE d.j_cond = "J_UNCOND"
      BY <3>1 DEF j_taken
    <3>2. CASE d.j_cond # "J_UNCOND"
      <4>1. i.op = "B"
        BY <1>3, <3>2 DEF id_ex_J_cond_nxt
      <4>2. uses_rs1(i) /\ uses_rs2(i)
        BY <4>1 DEF uses_rs1, uses_rs2
      <4>3. rs1 = Arch!X(d.rs1)' /\ rs2 = Arch!X(d.rs2)'
        BY <1>3, <4>2, OperandsAgree DEF DataInv
      <4> QED
        BY <4>3
    <3> QED
      BY <3>1, <3>2
  <2> QED
    BY <1>4, <1>5, <2>3, <2>4
<1> QED
  BY <1>6, <1>7

(* A cycle in which no instruction leaves LSU changes no register and no   *)
(* CSR of the abstract machine.                                            *)
LEMMA StalledState ==
  ASSUME CarriedInv, NEW h \in BOOLEAN, Cycle(h), ~Answer(ex_lsu, hit(h))
  PROVE  /\ ArchRegs' = ArchRegs /\ csr' = csr /\ imem' = imem /\ pmem' = pmem
         /\ ~ex_lsu.ebreak
<1>1. ArchRegs' = ArchRegs
  BY RegsAfter
<1>2. ~ex_csr.wen /\ ~ex_csr.event
  BY DEF CarriedInv, ControlInv, CsrInStep, Answer, Miss
<1>3. csr' = csr
  BY <1>2, CycleIs DEF CarriedInv, next_csr
<1>4. ~hit(h)
  BY CycleIs DEF CarriedInv, hit, cache_lsu_hit, lsu_cache_valid, Answer, Miss
<1>5. pmem' = pmem
  BY <1>4, CycleIs DEF CarriedInv, next_pmem
<1>6. ~ex_lsu.ebreak
  BY CycleIs DEF CarriedInv, ControlInv, TrapCommits, MissHeld, Answer, Miss
<1> QED
  BY <1>1, <1>3, <1>5, <1>6, CycleIs DEF CarriedInv

(* What the abstract machine computes depends on its state only.           *)
LEMMA Unmoved ==
  ASSUME ArchRegs' = ArchRegs, csr' = csr, imem' = imem, NEW p, NEW r
  PROVE  /\ decoded(p)' = decoded(p)
         /\ arch_alu(p)' = arch_alu(p)
         /\ arch_next(p)' = arch_next(p)
         /\ Arch!X(r)' = Arch!X(r)
<1>1. decoded(p)' = decoded(p)
  BY DEF decoded, fetch
<1>2. \A q : Arch!X(q)' = Arch!X(q)
  BY DEF Arch!X
<1>3. \A c : csr_rdata(c)' = csr_rdata(c)
  BY DEF csr_rdata
<1>4. arch_alu(p)' = arch_alu(p)
  BY <1>1, <1>2, <1>3 DEF arch_alu
<1> QED
  BY <1>1, <1>2, <1>4 DEF arch_next

(* Each clock edge gives the instruction that enters LSU its operands, and *)
(* keeps those of one that waits.                                          *)
LEMMA DataStep ==
  ASSUME DataInv, NEW h \in BOOLEAN, Cycle(h)
  PROVE  Proper' /\ Operands' /\ Follows'
<1>1. Proper'
  <2>1. imem' = imem
    BY CycleIs DEF DataInv, CarriedInv
  <2> QED
    BY <2>1 DEF DataInv, Proper, CsrSpaced
<1>2. CASE ready(h) /\ id_ex.valid
  <2>1. lsu_state' = "IDLE"
    BY <1>2, ReadyIdle DEF DataInv, CarriedInv, ControlInv
  <2>2. ex_lsu' = enter_lsu(id_ex, rs2, alu) /\ ex_csr' = enter_csr(id_ex, rs1)
    BY <1>2, CycleIs DEF DataInv, CarriedInv, next_ex_lsu, next_ex_csr
  <2>3. PICK p \in Word : p = id_ex.pc
    BY DEF DataInv, CarriedInv, ControlInv, TypeOK, IDUTypeOK, IdExType
  <2>4. PICK i \in Instr : i = fetch(p)
    BY DatapathAssumption
       DEF DataInv, CarriedInv, ControlInv, TypeOK, IFUTypeOK, fetch
  <2>5. decoded(p)' = Decode(i, p) /\ id_ex = Decode(i, p)
    BY <1>2, <2>3, <2>4, CycleIs DEF DataInv, CarriedInv, decoded, fetch
  <2>6. PICK d : d = Decode(i, p)
    OBVIOUS
  <2>7. /\ ex_lsu'.pc = p /\ ex_lsu'.addr = alu /\ ex_lsu'.data = rs2
        /\ ex_lsu'.wb_data = ex_lsu_wb_data_nxt(d, alu)
        /\ ex_csr'.wen = d.csr_wen /\ ex_csr'.wdata = rs1
    BY <2>2, <2>3, <2>5, <2>6 DEF enter_lsu, enter_csr
  <2>8. /\ d.rs1 = i.rs1 /\ d.rs2 = i.rs2 /\ d.wb = wb_ctrl_nxt(i)
        /\ d.csr_wen = IsCsrrw(i) /\ d.lsu_en = (IsLoad(i) \/ IsStore(i))
        /\ d.lsu_we = IsStore(i) /\ d.rf_we = id_ex_rf_we_nxt(i) /\ d.rd = i.rd
    BY <2>6 DEF Decode
  <2>9. d.lsu_en => alu = arch_alu(p)'
    <3> SUFFICES ASSUME d.lsu_en PROVE alu = arch_alu(p)'
      OBVIOUS
    <3>1. IsLoad(i) \/ IsStore(i)
      BY <2>8
    <3>2. i.op # "LUI" /\ ~IsEbreak(i) /\ ~(IsCsrrw(i) /\ i.rd = X0)
      BY <3>1 DEF IsLoad, IsStore, IsEbreak, IsPriv, IsCsrrw
    <3> QED
      BY <1>2, <2>3, <2>4, <3>2, AluAgrees
  <2>10. d.lsu_we => rs2 = Arch!X(d.rs2)'
    <3> SUFFICES ASSUME d.lsu_we PROVE rs2 = Arch!X(d.rs2)'
      OBVIOUS
    <3>1. uses_rs2(i)
      BY <2>8 DEF IsStore, uses_rs2
    <3> QED
      BY <1>2, <2>3, <2>4, <2>8, <3>1, OperandsAgree DEF DataInv
  <2>11. d.rf_we /\ ~d.lsu_en /\ d.rd # X0
           => ex_lsu_wb_data_nxt(d, alu) = ex_lsu_wb_data_nxt(d, arch_alu(p)')
    <3> SUFFICES ASSUME d.rf_we, d.rd # X0
                 PROVE  ex_lsu_wb_data_nxt(d, alu) =
                          ex_lsu_wb_data_nxt(d, arch_alu(p)')
      OBVIOUS
    <3>1. CASE i.op = "LUI"
      <4>1. d.wb = "WB_IMM"
        BY <2>8, <3>1 DEF wb_ctrl_nxt, IsCsrrw, IsCsrrs, IsJalr, IsLoad
      <4> QED
        BY <4>1 DEF ex_lsu_wb_data_nxt
    <3>2. CASE i.op # "LUI"
      <4>1. ~IsEbreak(i)
        BY <2>8 DEF IsEbreak, IsPriv
      <4>2. alu = arch_alu(p)'
        BY <1>2, <2>3, <2>4, <2>8, <3>2, <4>1, AluAgrees
      <4> QED
        BY <4>2
    <3> QED
      BY <3>1, <3>2
  <2>12. d.csr_wen => rs1 = Arch!X(d.rs1)'
    <3> SUFFICES ASSUME d.csr_wen PROVE rs1 = Arch!X(d.rs1)'
      OBVIOUS
    <3>1. uses_rs1(i)
      BY <2>8 DEF IsCsrrw, uses_rs1
    <3> QED
      BY <1>2, <2>3, <2>4, <2>8, <3>1, OperandsAgree DEF DataInv
  <2>13. decoded(ex_lsu.pc)' = d /\ arch_alu(ex_lsu.pc)' = arch_alu(p)'
    BY <2>5, <2>6, <2>7
  <2>14. Operands'
    BY <2>1, <2>7, <2>9, <2>10, <2>11, <2>12, <2>13 DEF Operands
  <2>15. front_pc' = arch_next(p)'
    BY <1>2, <2>3, <2>4, JumpAgrees
  <2>16. arch_next(ex_lsu.pc)' = arch_next(p)'
    BY <2>7
  <2> QED
    BY <1>1, <2>14, <2>15, <2>16 DEF Follows
<1>3. CASE ready(h) /\ ~id_ex.valid
  <2>1. lsu_state' = "IDLE"
    BY <1>3, ReadyIdle DEF DataInv, CarriedInv, ControlInv
  <2>2. ~ex_lsu'.valid /\ ~ex_csr'.wen
    BY <1>3, CycleIs
       DEF DataInv, CarriedInv, next_ex_lsu, next_ex_csr, NoExLsu, NoExCsr
  <2> QED
    BY <1>1, <2>1, <2>2 DEF Operands, Follows, busy
<1>4. CASE ~ready(h)
  <2>1. ~Answer(ex_lsu, hit(h))
    BY <1>4, AnswerReady
  <2>2. ArchRegs' = ArchRegs /\ csr' = csr /\ imem' = imem
    BY <2>1, StalledState DEF DataInv
  <2>3. PICK p : p = ex_lsu.pc
    OBVIOUS
  <2>4. PICK d : d = decoded(p)
    OBVIOUS
  <2>5. /\ ~ex_csr'.wen
        /\ id_ex.valid => ex_lsu' = ex_lsu
        /\ ~id_ex.valid => ex_lsu' = NoExLsu("BYTE", ex_lsu.pc)
    BY <1>4, StalledHolds DEF NoExCsr
  <2>6. ex_lsu'.pc = p /\ (ex_lsu'.valid => ex_lsu' = ex_lsu)
    BY <2>3, <2>5 DEF NoExLsu
  <2>7. /\ decoded(p)' = d /\ arch_alu(p)' = arch_alu(p)
        /\ arch_next(p)' = arch_next(p)
        /\ Arch!X(d.rs2)' = Arch!X(d.rs2)
    BY <2>2, <2>4, Unmoved
  <2>8. /\ decoded(ex_lsu.pc)' = d /\ arch_alu(ex_lsu.pc)' = arch_alu(p)
        /\ arch_next(ex_lsu.pc)' = arch_next(p)
    BY <2>6, <2>7
  <2>9. ex_lsu'.valid =>
          /\ d.lsu_en => ex_lsu'.addr = arch_alu(p)
          /\ d.lsu_we => ex_lsu'.data = Arch!X(d.rs2)'
          /\ d.rf_we /\ ~d.lsu_en /\ d.rd # X0
               => ex_lsu'.wb_data = ex_lsu_wb_data_nxt(d, arch_alu(p))
    BY <2>3, <2>4, <2>6, <2>7 DEF DataInv, Operands
  <2>10. lsu_state' = "WAITING" =>
           /\ pending'.addr = arch_alu(p)
           /\ d.lsu_we =>
                /\ pending'.wdata = StoreData(pending'.size, pending'.addr,
                                              Arch!X(d.rs2)')
                /\ pending'.wmask = StoreMask(pending'.size, pending'.addr)
    <3>1. CASE lsu_state = "WAITING"
      <4>1. pending' = pending
        BY <3>1, <1>4, CycleIs
           DEF DataInv, CarriedInv, next_pending, Miss, ready, lsu_ex_ready
      <4> QED
        BY <3>1, <4>1, <2>3, <2>4, <2>7 DEF DataInv, Operands
    <3>2. CASE Miss(ex_lsu, hit(h))
      <4>1. pending' = request(ex_lsu)
        BY <3>2, CycleIs DEF DataInv, CarriedInv, next_pending, Miss
      <4>2. ex_lsu.valid /\ ex_lsu.ctrl # "NONE"
        BY <3>2 DEF Miss
      <4>3. d.lsu_en /\ (d.lsu_we => ex_lsu.ctrl = "WRITE")
        BY <4>2, <2>3, <2>4 DEF DataInv, CarriedInv, Carried, ex_lsu_ctrl_nxt
      <4>4. ex_lsu.addr = arch_alu(p) /\ (d.lsu_we => ex_lsu.data = Arch!X(d.rs2))
        BY <4>2, <4>3, <2>3, <2>4 DEF DataInv, Operands
      <4>5. pending'.addr = ex_lsu.addr /\ pending'.size = ex_lsu.size
        BY <4>1 DEF request
      <4>6. d.lsu_we =>
              /\ pending'.wdata = StoreData(ex_lsu.size, ex_lsu.addr, ex_lsu.data)
              /\ pending'.wmask = StoreMask(ex_lsu.size, ex_lsu.addr)
        BY <4>1, <4>2, <4>3 DEF request
      <4> QED
        BY <4>4, <4>5, <4>6, <2>7
    <3>3. CASE lsu_state # "WAITING" /\ ~Miss(ex_lsu, hit(h))
      BY <3>3, CycleIs DEF DataInv, CarriedInv, next_lsu_state
    <3> QED
      BY <3>1, <3>2, <3>3
  <2>11. Operands'
    BY <2>5, <2>8, <2>9, <2>10 DEF Operands
  <2>12. front_pc' = front_pc
    BY <1>4, FrontHolds DEF DataInv, CarriedInv
  <2>13. busy' => busy
    <3>1. lsu_state' = "WAITING" => busy
      BY CycleIs DEF DataInv, CarriedInv, next_lsu_state, Miss, busy
    <3> QED
      BY <2>6, <3>1 DEF busy
  <2>14. Follows'
    BY <2>3, <2>8, <2>12, <2>13 DEF DataInv, Follows
  <2> QED
    BY <1>1, <2>11, <2>14
<1> QED
  BY <1>2, <1>3, <1>4

----------------------------------------------------------------------------
(* The step of the abstract machine *)

\* execute() does not clock the core after the ebreak has committed.
Stops == npc.state = "END" => commit.valid

(* The pc of the abstract machine moves when an instruction leaves LSU.    *)
LEMMA PcAfter ==
  ASSUME DataInv, NEW h \in BOOLEAN, Cycle(h), NEW p, p = ex_lsu.pc
  PROVE  /\ Answer(ex_lsu, hit(h)) => ArchPc = p /\ ArchPc' = arch_next(p)
         /\ ~Answer(ex_lsu, hit(h)) => ArchPc' = ArchPc
<1>1. ArchPc = IF busy THEN ex_lsu.pc ELSE front_pc
  BY ArchPcIs
<1>2. ArchPc' = IF busy' THEN ex_lsu'.pc ELSE front_pc'
  <2>1. CASE busy'
    BY <2>1 DEF ArchPc, busy
  <2>2. CASE ~busy' /\ id_ex'.valid
    BY <2>2 DEF ArchPc, busy, front_pc
  <2>3. CASE ~busy' /\ ~id_ex'.valid /\ if_id'.valid
    BY <2>3 DEF ArchPc, busy, front_pc
  <2>4. CASE ~busy' /\ ~id_ex'.valid /\ ~if_id'.valid
    BY <2>4 DEF ArchPc, busy, front_pc
  <2> QED
    BY <2>1, <2>2, <2>3, <2>4
<1>3. ready(h) /\ id_ex.valid => busy' /\ ex_lsu'.pc = front_pc
  BY CycleIs DEF DataInv, CarriedInv, next_ex_lsu, enter_lsu, busy, front_pc
<1>4. ready(h) /\ ~id_ex.valid => ~busy' /\ front_pc' = front_pc
  <2> SUFFICES ASSUME ready(h), ~id_ex.valid
               PROVE  ~busy' /\ front_pc' = front_pc
    OBVIOUS
  <2>1. lsu_state' = "IDLE"
    BY ReadyIdle DEF DataInv, CarriedInv, ControlInv
  <2>2. ~ex_lsu'.valid
    BY CycleIs DEF DataInv, CarriedInv, next_ex_lsu, NoExLsu
  <2> QED
    BY <2>1, <2>2, FrontHolds DEF DataInv, CarriedInv, busy
<1>5. CASE Answer(ex_lsu, hit(h))
  <2>1. ready(h) /\ busy
    BY <1>5, AnswerReady
  <2>2. front_pc = arch_next(p)
    BY <2>1 DEF DataInv, Follows
  <2> QED
    BY <1>1, <1>2, <1>3, <1>4, <1>5, <2>1, <2>2
<1>6. CASE ~Answer(ex_lsu, hit(h)) /\ busy
  <2>1. ~ready(h)
    BY <1>6, CycleIs
       DEF DataInv, CarriedInv, ControlInv, MissHeld, Answer, Miss, ready,
           lsu_ex_ready, busy
  <2>2. lsu_state' = "WAITING"
    BY <1>6, CycleIs DEF DataInv, CarriedInv, Answer, Miss, busy, next_lsu_state
  <2>3. ex_lsu'.pc = ex_lsu.pc
    BY <2>1, StalledHolds DEF NoExLsu
  <2> QED
    BY <1>1, <1>2, <1>6, <2>2, <2>3 DEF busy
<1>7. CASE ~busy
  <2>1. ~Answer(ex_lsu, hit(h))
    BY <1>7, AnswerReady
  <2>2. CASE ready(h)
    BY <1>1, <1>2, <1>3, <1>4, <1>7, <2>1, <2>2
  <2>3. CASE ~ready(h)
    <3>1. front_pc' = front_pc
      BY <2>3, FrontHolds DEF DataInv, CarriedInv
    <3>2. lsu_state' # "WAITING"
      BY <1>7, CycleIs DEF DataInv, CarriedInv, next_lsu_state, Miss, Answer, busy
    <3>3. ~ex_lsu'.valid
      BY <1>7, <2>3, StalledHolds DEF NoExLsu, busy
    <3> QED
      BY <1>1, <1>2, <1>7, <2>1, <3>1, <3>2, <3>3 DEF busy
  <2> QED
    BY <2>2, <2>3
<1> QED
  BY <1>5, <1>6, <1>7

(* What the simulator is told about the end of the program is what the     *)
(* ebreak saw, although npctrap runs one cycle later.                      *)
LEMMA HaltAfter ==
  ASSUME CarriedInv, Stops, NEW h \in BOOLEAN, Cycle(h)
  PROVE  ArchHalt' = IF ArchHalt = <<>> /\ ex_lsu.ebreak
                     THEN <<ex_lsu.pc, ArchRegs[A0]>> ELSE ArchHalt
<1>1. npc.state # "END"
  BY DEF Stops, Cycle, Clocked
<1>2. ArchHalt = IF lsu_wbu.ebreak THEN <<lsu_wbu.pc, regs[A0]>> ELSE <<>>
  BY <1>1 DEF ArchHalt
<1>3. npc' = IF lsu_wbu.ebreak THEN npctrap(lsu_wbu, regs) ELSE npc
  BY DEF Cycle, WBUTick
<1>4. CASE lsu_wbu.ebreak
  <2>1. npc'.state = "END" /\ npc'.halt_pc = lsu_wbu.pc /\ npc'.halt_ret = regs[A0]
    BY <1>3, <1>4 DEF npctrap
  <2>2. ArchHalt' = <<lsu_wbu.pc, regs[A0]>>
    BY <2>1 DEF ArchHalt
  <2> QED
    BY <1>2, <1>4, <2>2
<1>5. CASE ~lsu_wbu.ebreak
  <2>1. npc'.state # "END"
    BY <1>1, <1>3, <1>5
  <2>2. ArchHalt' = IF lsu_wbu'.ebreak THEN <<lsu_wbu'.pc, regs'[A0]>> ELSE <<>>
    BY <2>1 DEF ArchHalt
  <2>3. lsu_wbu'.ebreak = ex_lsu.ebreak
    BY CycleIs DEF CarriedInv, next_lsu_wbu, NoLsuWbu
  <2>4. ex_lsu.ebreak => lsu_wbu'.pc = ex_lsu.pc
    <3>1. ex_lsu.ebreak => Answer(ex_lsu, hit(h))
      BY StalledState
    <3>2. Answer(ex_lsu, hit(h)) => lsu_wbu'.pc = ex_lsu.pc
      BY CycleIs DEF CarriedInv, next_lsu_wbu
    <3> QED
      BY <3>1, <3>2
  <2>5. regs' = ArchRegs
    BY CycleIs DEF CarriedInv, ArchRegs
  <2> QED
    BY <1>2, <1>5, <2>2, <2>3, <2>4, <2>5
<1> QED
  BY <1>4, <1>5

(* The value written back: what memory holds at the address, or the result *)
(* of EX.                                                                  *)
LEMMA ValueIs ==
  ASSUME DataInv, NEW h \in BOOLEAN, Cycle(h), Answer(ex_lsu, hit(h)),
         NEW p, p = ex_lsu.pc, NEW d, d = decoded(p), d.rf_we, d.rd # X0
  PROVE  wb_data(ex_lsu, hit(h)) =
           IF d.lsu_en
           THEN Extend(size_of(d.lsu_ctrl), d.uload,
                       ReadLanes(size_of(d.lsu_ctrl), arch_alu(p),
                                 pmem[WordAddr(arch_alu(p))]))
           ELSE ex_lsu_wb_data_nxt(d, arch_alu(p))
<1>1. CASE d.lsu_en
  <2>1. ~d.lsu_we
    BY <1>1, AccessShape
  <2>2. PICK req : req = cache_request(ex_lsu)
    OBVIOUS
  <2>3. /\ ~req.wen /\ req.addr = arch_alu(p)
        /\ req.size = size_of(d.lsu_ctrl) /\ req.uload = d.uload
    <3>1. CASE lsu_state = "WAITING"
      BY <2>1, <2>2, <3>1
         DEF DataInv, CarriedInv, Carried, Operands, cache_request
    <3>2. CASE lsu_state # "WAITING"
      <4>1. req = request(ex_lsu)
        BY <2>2, <3>2 DEF cache_request
      <4>2. ex_lsu.valid
        BY <3>2 DEF Answer
      <4>3. /\ ex_lsu.ctrl = "READ" /\ ex_lsu.size = size_of(d.lsu_ctrl)
            /\ ex_lsu.uload = d.uload /\ ex_lsu.addr = arch_alu(p)
        BY <1>1, <2>1, <4>2
           DEF DataInv, CarriedInv, Carried, Operands, ex_lsu_ctrl_nxt
      <4> QED
        BY <4>1, <4>3 DEF request
    <3> QED
      BY <3>1, <3>2
  <2>4. hit(h)
    BY <1>1 DEF Answer, Miss, DataInv, CarriedInv, Carried, ex_lsu_ctrl_nxt
  <2> QED
    BY <1>1, <2>2, <2>3, <2>4 DEF wb_data, cache_lsu_rdata
<1>2. CASE ~d.lsu_en
  <2>1. lsu_state # "WAITING"
    BY <1>2 DEF DataInv, CarriedInv, Carried
  <2>2. ex_lsu.valid /\ ex_lsu.ctrl = "NONE"
    BY <1>2, <2>1
       DEF Answer, DataInv, CarriedInv, Carried, ex_lsu_ctrl_nxt
  <2>3. ~hit(h)
    BY <2>1, <2>2 DEF hit, cache_lsu_hit, lsu_cache_valid
  <2> QED
    BY <1>2, <2>2, <2>3 DEF wb_data, DataInv, Operands
<1> QED
  BY <1>1, <1>2

(* Memory is written by the store that leaves LSU.                         *)
LEMMA MemAfter ==
  ASSUME DataInv, NEW h \in BOOLEAN, Cycle(h), Answer(ex_lsu, hit(h)),
         NEW p, p = ex_lsu.pc, NEW d, d = decoded(p),
         NEW a, a = arch_alu(p), NEW z, z = size_of(d.lsu_ctrl)
  PROVE  pmem' = IF d.lsu_we
                 THEN [pmem EXCEPT ![WordAddr(a)] =
                         MergeBytes(@, StoreData(z, a, Arch!X(d.rs2)),
                                    StoreMask(z, a))]
                 ELSE pmem
<1>1. PICK req : req = cache_request(ex_lsu)
  OBVIOUS
<1>2. pmem' = IF hit(h) /\ req.wen
              THEN [pmem EXCEPT ![WordAddr(req.addr)] =
                                   MergeBytes(@, req.wdata, req.wmask)]
              ELSE pmem
  BY <1>1, CycleIs DEF DataInv, CarriedInv, next_pmem
<1>3. hit(h) => d.lsu_en
  BY DEF hit, cache_lsu_hit, lsu_cache_valid, DataInv, CarriedInv, Carried,
         ex_lsu_ctrl_nxt
<1>4. d.lsu_en => hit(h)
  BY DEF Answer, Miss, DataInv, CarriedInv, Carried, ex_lsu_ctrl_nxt
<1>5. d.lsu_we => d.lsu_en
  BY AccessShape
<1>6. d.lsu_en => (req.wen <=> d.lsu_we)
  <2>1. CASE lsu_state = "WAITING"
    BY <1>1, <2>1 DEF DataInv, CarriedInv, Carried, cache_request
  <2>2. CASE lsu_state # "WAITING"
    <3>1. req = request(ex_lsu) /\ ex_lsu.valid
      BY <1>1, <2>2 DEF cache_request, Answer
    <3>2. ex_lsu.ctrl = ex_lsu_ctrl_nxt(d)
      BY <3>1 DEF DataInv, CarriedInv, Carried
    <3> QED
      BY <3>1, <3>2 DEF request, ex_lsu_ctrl_nxt
  <2> QED
    BY <2>1, <2>2
<1>7. d.lsu_we => /\ req.addr = a
                  /\ req.wdata = StoreData(z, a, Arch!X(d.rs2))
                  /\ req.wmask = StoreMask(z, a)
  <2> SUFFICES ASSUME d.lsu_we
               PROVE  /\ req.addr = a
                      /\ req.wdata = StoreData(z, a, Arch!X(d.rs2))
                      /\ req.wmask = StoreMask(z, a)
    OBVIOUS
  <2>1. CASE lsu_state = "WAITING"
    BY <1>1, <2>1 DEF DataInv, CarriedInv, Carried, Operands, cache_request
  <2>2. CASE lsu_state # "WAITING"
    <3>1. req = request(ex_lsu) /\ ex_lsu.valid
      BY <1>1, <2>2 DEF cache_request, Answer
    <3>2. /\ ex_lsu.ctrl = "WRITE" /\ ex_lsu.addr = a /\ ex_lsu.size = z
          /\ ex_lsu.data = Arch!X(d.rs2)
      BY <1>5, <3>1
         DEF DataInv, CarriedInv, Carried, Operands, ex_lsu_ctrl_nxt
    <3> QED
      BY <3>1, <3>2 DEF request
  <2> QED
    BY <2>1, <2>2
<1> QED
  BY <1>2, <1>3, <1>4, <1>5, <1>6, <1>7

(* The CSRs are written by the csrrw or ecall that leaves LSU.             *)
LEMMA CsrAfter ==
  ASSUME DataInv, NEW h \in BOOLEAN, Cycle(h), Answer(ex_lsu, hit(h)),
         NEW p, p = ex_lsu.pc, NEW d, d = decoded(p)
  PROVE  csr' = IF d.csr_event
                THEN [csr EXCEPT ![MEPC] = p,
                                 ![MCAUSE] = IF csr[MSTATUS] = MachineMode
                                             THEN EcallCause ELSE @]
                ELSE IF d.csr_wen /\ d.csr_addr \in Csr
                THEN [csr EXCEPT ![d.csr_addr] = Arch!X(d.rs1)]
                ELSE csr
<1>1. csr' = next_csr(ex_csr)
  BY CycleIs DEF DataInv, CarriedInv
<1>2. csr \in [Csr -> Word]
  BY DEF DataInv, CarriedInv, ControlInv, TypeOK, RegCsrTypeOK
<1>3. (ex_csr.wen <=> d.csr_wen) /\ (ex_csr.event <=> d.csr_event)
  <2>1. CASE lsu_state = "WAITING"
    <3>1. d.lsu_en
      BY <2>1 DEF DataInv, CarriedInv, Carried
    <3>2. ~d.csr_wen /\ ~d.csr_event
      BY <3>1, DecodeShape DEF decoded
    <3>3. ~ex_csr.wen /\ ~ex_csr.event
      BY <2>1 DEF DataInv, CarriedInv, ControlInv, CsrInStep
    <3> QED
      BY <3>2, <3>3
  <2>2. CASE lsu_state # "WAITING"
    <3>1. ex_lsu.valid
      BY <2>2 DEF Answer
    <3> QED
      BY <3>1 DEF DataInv, CarriedInv, Carried
  <2> QED
    BY <2>1, <2>2
<1>4. ex_csr.event => ex_csr.pc = p
  BY DEF DataInv, CarriedInv, ControlInv, CsrInStep
<1>5. ex_csr.wen => ex_csr.waddr = d.csr_addr /\ ex_csr.wdata = Arch!X(d.rs1)
  BY DEF DataInv, CarriedInv, Carried, Operands
<1>6. CASE d.csr_event
  <2> DEFINE new == [csr EXCEPT ![MEPC] = p,
                                ![MCAUSE] = IF csr[MSTATUS] = MachineMode
                                            THEN EcallCause ELSE @]
  <2>1. csr' = [c \in Csr |->
                  CASE c = MEPC -> p
                    [] c = MCAUSE /\ csr[MSTATUS] = MachineMode -> EcallCause
                    [] OTHER -> csr[c]]
    BY <1>1, <1>3, <1>4, <1>6 DEF next_csr
  <2>2. ASSUME NEW c \in Csr
        PROVE  csr'[c] = new[c]
    <3>1. c \in {MSTATUS, MTVEC, MEPC, MCAUSE}
      BY DEF Csr
    <3>2. csr'[c] = CASE c = MEPC -> p
                      [] c = MCAUSE /\ csr[MSTATUS] = MachineMode -> EcallCause
                      [] OTHER -> csr[c]
      BY <2>1
    <3> QED
      BY <1>2, <3>1, <3>2 DEF Csr, MSTATUS, MTVEC, MEPC, MCAUSE
  <2>3. csr' = new
    <3>1. csr' = [c \in Csr |-> csr'[c]]
      <4>1. TypeOK'
        BY StepType DEF DataInv, CarriedInv, ControlInv, Next
      <4>2. csr' \in [Csr -> Word]
        BY <4>1 DEF TypeOK, RegCsrTypeOK
      <4> QED
        BY <4>2
    <3>2. new = [c \in Csr |-> new[c]]
      BY <1>2
    <3> HIDE DEF new
    <3> QED
      BY <2>2, <3>1, <3>2, Zenon
  <2> QED
    BY <1>6, <2>3
<1>7. CASE ~d.csr_event
  BY <1>1, <1>3, <1>5, <1>7 DEF next_csr
<1> QED
  BY <1>6, <1>7

(* The instruction decodes to the operation that RV32I gives it.           *)
LEMMA OperationIs ==
  ASSUME NEW i \in Instr, Supported(i), i.op \in {"R", "I"}, i = Arch!i
  PROVE  id_ex_alu_ctrl_nxt(i) = Arch!Operation
<1>1. i.f3 \in 0..7 /\ i.f7 \in {"A", "B", "X"}
  BY DEF Instr, Funct7
<1>2. i.f3 \in {0, 1, 2, 3, 4, 5, 6, 7}
  BY <1>1
<1>3. CASE i.op = "R"
  <2>1. i.f7 = "A" \/ (i.f7 = "B" /\ i.f3 \in {0, 5})
    BY <1>3 DEF Supported
  <2>2. id_ex_alu_ctrl_nxt(i) = AluCtrlR(i)
    BY <1>3 DEF id_ex_alu_ctrl_nxt, PcPlusImm, Rs1PlusImm, IsJalr, IsLoad,
       IsStore, IsEcall, IsMret, IsPriv, IsCsrrw, IsCsrrs
  <2> QED
    BY <1>2, <1>3, <2>1, <2>2 DEF AluCtrlR, Arch!Operation
<1>4. CASE i.op = "I"
  <2>1. (i.f3 = 1 => i.f7 = "A") /\ (i.f3 = 5 => i.f7 # "X")
    BY <1>4 DEF Supported
  <2>2. id_ex_alu_ctrl_nxt(i) = AluCtrlI(i)
    BY <1>4 DEF id_ex_alu_ctrl_nxt, PcPlusImm, Rs1PlusImm, IsJalr, IsLoad,
       IsStore, IsEcall, IsMret, IsPriv, IsCsrrw, IsCsrrs
  <2> QED
    BY <1>1, <1>2, <1>4, <2>1, <2>2 DEF AluCtrlI, Arch!Operation
<1> QED
  BY <1>3, <1>4

(* An instruction that leaves LSU does what the abstract machine does with *)
(* it, whatever its class.                                                 *)
LEMMA AnswerStep ==
  ASSUME DataInv, Stops, NEW h \in BOOLEAN, Cycle(h), Answer(ex_lsu, hit(h))
  PROVE  Arch!Next
<1>1. PICK p \in Word : p = ex_lsu.pc
  BY DEF DataInv, CarriedInv, ControlInv, TypeOK, EXUTypeOK
<1>2. PICK i \in Instr : i = fetch(p)
  BY DatapathAssumption
     DEF DataInv, CarriedInv, ControlInv, TypeOK, IFUTypeOK, fetch
<1>3. Supported(i)
  BY <1>1, <1>2, DatapathAssumption DEF DataInv, Proper, fetch
<1>4. PICK d : d = Decode(i, p)
  OBVIOUS
<1>5. d = decoded(p)
  BY <1>2, <1>4 DEF decoded
<1>6. PICK a : a = arch_alu(p)
  OBVIOUS
<1>7. a = Alu(d.alu, op1(d, Arch!X(d.rs1)),
              op2(d, Arch!X(d.rs2), csr_rdata(d.csr_addr)))
  BY <1>5, <1>6 DEF arch_alu, alu_out
<1>8. PICK jump : jump = j_taken(d, Arch!X(d.rs1), Arch!X(d.rs2))
  OBVIOUS
<1>9. /\ ArchPc = p
      /\ ArchPc' = IF jump THEN a ELSE Plus4(p)
  <2>1. ArchPc = p /\ ArchPc' = arch_next(p)
    BY <1>1, PcAfter
  <2> QED
    BY <2>1, <1>5, <1>6, <1>8 DEF arch_next
<1>10. Arch!i = i
  BY <1>2, <1>9 DEF Arch!i, fetch
<1>11. lsu_wbu'.pc = p /\ imem' = imem
  BY <1>1, CycleIs DEF DataInv, CarriedInv, next_lsu_wbu
<1>12. /\ d.rs1 = i.rs1 /\ d.rs2 = i.rs2 /\ d.rd = i.rd /\ d.pc = p
       /\ d.imm = id_ex_imm_nxt(i) /\ d.alu = id_ex_alu_ctrl_nxt(i)
       /\ d.opsel = alu_op_ctrl_nxt(i) /\ d.wb = wb_ctrl_nxt(i)
       /\ d.lsu_ctrl = i.f3 /\ d.j_cond = id_ex_J_cond_nxt(i)
       /\ d.csr_addr = csr_addr_nxt(i)
  BY <1>4 DEF Decode
<1>13. /\ d.rf_we <=> id_ex_rf_we_nxt(i)
       /\ d.uload = (IsLoad(i) /\ i.f3 \in {4, 5})
       /\ d.lsu_en <=> (IsLoad(i) \/ IsStore(i))
       /\ d.lsu_we <=> IsStore(i)
       /\ d.ebreak <=> IsEbreak(i)
       /\ d.j_en <=> j_en_nxt(i)
       /\ d.csr_wen <=> IsCsrrw(i)
       /\ d.csr_event <=> IsEcall(i)
  BY <1>4 DEF Decode
<1>14. PICK v : v = IF d.lsu_en
                    THEN Extend(size_of(d.lsu_ctrl), d.uload,
                                ReadLanes(size_of(d.lsu_ctrl), a,
                                          pmem[WordAddr(a)]))
                    ELSE ex_lsu_wb_data_nxt(d, a)
  OBVIOUS
<1>15. ArchRegs' = IF d.rf_we /\ i.rd # X0
                   THEN [ArchRegs EXCEPT ![i.rd] = v] ELSE ArchRegs
  <2>1. ArchRegs' = IF d.rf_we /\ d.rd # X0
                    THEN [ArchRegs EXCEPT ![d.rd] = wb_data(ex_lsu, hit(h))]
                    ELSE ArchRegs
    BY <1>1, <1>5, RegsAfter DEF DataInv
  <2>2. d.rf_we /\ d.rd # X0 => wb_data(ex_lsu, hit(h)) = v
    BY <1>1, <1>5, <1>6, <1>14, ValueIs
  <2> QED
    BY <1>12, <2>1, <2>2
<1>16. pmem' = IF d.lsu_we
               THEN [pmem EXCEPT ![WordAddr(a)] =
                       MergeBytes(@, StoreData(size_of(i.f3), a, Arch!X(i.rs2)),
                                  StoreMask(size_of(i.f3), a))]
               ELSE pmem
  BY <1>1, <1>5, <1>6, <1>12, MemAfter
<1>17. csr' = IF d.csr_event
              THEN [csr EXCEPT ![MEPC] = p,
                               ![MCAUSE] = IF csr[MSTATUS] = MachineMode
                                           THEN EcallCause ELSE @]
              ELSE IF d.csr_wen /\ csr_addr_nxt(i) \in Csr
              THEN [csr EXCEPT ![csr_addr_nxt(i)] = Arch!X(i.rs1)]
              ELSE csr
  BY <1>1, <1>5, <1>12, CsrAfter
<1>18. ArchHalt' = IF ArchHalt = <<>> /\ d.ebreak
                   THEN <<p, ArchRegs[A0]>> ELSE ArchHalt
  <2>1. ex_lsu.ebreak <=> d.ebreak
    <3>1. CASE ex_lsu.valid
      BY <3>1, <1>1, <1>5 DEF DataInv, CarriedInv, Carried
    <3>2. CASE ~ex_lsu.valid
      <4>1. lsu_state = "WAITING"
        BY <3>2 DEF Answer
      <4>2. d.lsu_en
        BY <4>1, <1>1, <1>5 DEF DataInv, CarriedInv, Carried
      <4>3. ~d.ebreak
        BY <4>2, <1>13 DEF IsLoad, IsStore, IsEbreak, IsPriv
      <4>4. ~ex_lsu.ebreak
        BY <3>2 DEF DataInv, CarriedInv, ControlInv, TrapCommits
      <4> QED
        BY <4>3, <4>4
    <3> QED
      BY <3>1, <3>2
  <2> QED
    BY <1>1, <2>1, HaltAfter DEF DataInv
<1>19. ASSUME i.op \notin {"IL", "S", "SYSTEM"}
       PROVE  /\ ~d.lsu_en /\ ~d.lsu_we /\ ~d.ebreak /\ ~d.csr_wen
              /\ ~d.csr_event /\ ~IsMret(i) /\ ~IsCsrrs(i) /\ ~IsLoad(i)
              /\ ~IsStore(i) /\ ~IsEcall(i) /\ ~IsCsrrw(i)
  BY <1>13, <1>19 DEF IsLoad, IsStore, IsEbreak, IsCsrrw, IsEcall, IsMret,
                      IsPriv, IsCsrrs
<1>20. ~j_en_nxt(i) => jump = FALSE
  BY <1>8, <1>13 DEF j_taken
<1>21. CASE i.op \in {"R", "I", "LUI", "AUIPC"}
  <2>1. /\ ~d.lsu_en /\ ~d.lsu_we /\ ~d.ebreak /\ ~d.csr_wen /\ ~d.csr_event
        /\ ~IsMret(i) /\ ~IsCsrrs(i) /\ ~IsEcall(i) /\ ~IsCsrrw(i)
        /\ ~IsLoad(i) /\ ~IsStore(i) /\ ~IsJalr(i)
    BY <1>19, <1>21 DEF IsJalr
  <2>2. ~j_en_nxt(i) /\ d.rf_we
    BY <1>13, <1>21, <2>1 DEF j_en_nxt, id_ex_rf_we_nxt
  <2>3. ArchPc' = Plus4(p)
    BY <1>9, <1>20, <2>2
  <2>4. v = ex_lsu_wb_data_nxt(d, a)
    BY <1>14, <2>1
  <2>5. CASE i.op = "R"
    <3>1. d.opsel = "OP_RS1_RS2" /\ d.wb = "WB_ALU"
      BY <1>12, <2>1, <2>5 DEF alu_op_ctrl_nxt, wb_ctrl_nxt, PcPlusImm, Rs1PlusImm
    <3>2. v = Alu(Arch!Operation, Arch!X(i.rs1), Arch!X(i.rs2))
      BY <1>3, <1>7, <1>10, <1>12, <2>4, <2>5, <3>1, OperationIs
         DEF ex_lsu_wb_data_nxt, op1, op2
    <3>3. Arch!Arith
      BY <1>9, <1>10, <1>11, <1>15, <1>16, <1>17, <1>18, <2>1, <2>2, <2>3, <2>5,
         <3>2 DEF Arch!Arith, Arch!WriteRd, Arch!Goto
    <3> QED
      BY <3>3 DEF Arch!Next
  <2>6. CASE i.op = "I"
    <3>1. d.opsel = "OP_RS1_IMM" /\ d.wb = "WB_ALU" /\ d.imm = i.imm
      BY <1>12, <2>1, <2>6 DEF alu_op_ctrl_nxt, wb_ctrl_nxt, PcPlusImm,
         Rs1PlusImm, id_ex_imm_nxt
    <3>2. v = Alu(Arch!Operation, Arch!X(i.rs1), i.imm)
      BY <1>3, <1>7, <1>10, <1>12, <2>4, <2>6, <3>1, OperationIs
         DEF ex_lsu_wb_data_nxt, op1, op2
    <3>3. Arch!Arith
      BY <1>9, <1>10, <1>11, <1>15, <1>16, <1>17, <1>18, <2>1, <2>2, <2>3, <2>6,
         <3>2 DEF Arch!Arith, Arch!WriteRd, Arch!Goto
    <3> QED
      BY <3>3 DEF Arch!Next
  <2>7. CASE i.op = "LUI"
    <3>1. d.wb = "WB_IMM" /\ d.imm = i.imm
      BY <1>12, <2>1, <2>7 DEF wb_ctrl_nxt, id_ex_imm_nxt
    <3>2. v = i.imm
      BY <2>4, <3>1 DEF ex_lsu_wb_data_nxt
    <3>3. Arch!Arith
      BY <1>9, <1>10, <1>11, <1>15, <1>16, <1>17, <1>18, <2>1, <2>2, <2>3, <2>7,
         <3>2 DEF Arch!Arith, Arch!WriteRd, Arch!Goto
    <3> QED
      BY <3>3 DEF Arch!Next
  <2>8. CASE i.op = "AUIPC"
    <3>1. /\ d.opsel = "OP_PC_IMM" /\ d.wb = "WB_ALU" /\ d.imm = i.imm
          /\ d.alu = "ALU_ADD"
      BY <1>12, <2>1, <2>8 DEF alu_op_ctrl_nxt, wb_ctrl_nxt, PcPlusImm,
         Rs1PlusImm, id_ex_imm_nxt, id_ex_alu_ctrl_nxt
    <3>2. v = Arch!Add(p, i.imm)
      BY <1>7, <1>12, <2>4, <3>1 DEF ex_lsu_wb_data_nxt, op1, op2, Arch!Add
    <3>3. Arch!Arith
      BY <1>9, <1>10, <1>11, <1>15, <1>16, <1>17, <1>18, <2>1, <2>2, <2>3, <2>8,
         <3>2 DEF Arch!Arith, Arch!WriteRd, Arch!Goto
    <3> QED
      BY <3>3 DEF Arch!Next
  <2> QED
    BY <1>21, <2>5, <2>6, <2>7, <2>8
<1>22. CASE i.op \in {"JAL", "JALR"}
  <2>1. /\ ~d.lsu_en /\ ~d.lsu_we /\ ~d.ebreak /\ ~d.csr_wen /\ ~d.csr_event
        /\ ~IsMret(i) /\ ~IsCsrrs(i) /\ ~IsEcall(i) /\ ~IsCsrrw(i)
        /\ ~IsLoad(i) /\ ~IsStore(i)
    BY <1>19, <1>22
  <2>2. i.op = "JALR" <=> IsJalr(i)
    BY <1>3 DEF Supported, IsJalr
  <2>3. j_en_nxt(i) /\ d.rf_we /\ d.j_cond = "J_UNCOND" /\ d.wb = "WB_PC"
    BY <1>12, <1>13, <1>22, <2>1, <2>2
       DEF j_en_nxt, id_ex_rf_we_nxt, id_ex_J_cond_nxt, wb_ctrl_nxt
  <2>4. jump
    BY <1>8, <1>13, <2>3 DEF j_taken
  <2>5. d.alu = "ALU_ADD" /\ d.imm = i.imm
    BY <1>12, <1>22, <2>1, <2>2
       DEF id_ex_alu_ctrl_nxt, id_ex_imm_nxt, PcPlusImm, Rs1PlusImm
  <2>6. d.opsel = IF i.op = "JAL" THEN "OP_PC_IMM" ELSE "OP_RS1_IMM"
    BY <1>12, <1>22, <2>1, <2>2 DEF alu_op_ctrl_nxt, PcPlusImm, Rs1PlusImm
  <2>7. a = Arch!Add(IF i.op = "JAL" THEN p ELSE Arch!X(i.rs1), i.imm)
    BY <1>7, <1>12, <2>5, <2>6 DEF op1, op2, Arch!Add
  <2>8. v = Plus4(p)
    BY <1>12, <1>14, <2>1, <2>3 DEF ex_lsu_wb_data_nxt
  <2>9. Arch!Jump
    BY <1>9, <1>10, <1>11, <1>15, <1>16, <1>17, <1>18, <1>22, <2>1, <2>3, <2>4,
       <2>7, <2>8 DEF Arch!Jump, Arch!WriteRd, Arch!Goto
  <2> QED
    BY <2>9 DEF Arch!Next
<1>23. CASE i.op = "B"
  <2>1. /\ ~d.lsu_en /\ ~d.lsu_we /\ ~d.ebreak /\ ~d.csr_wen /\ ~d.csr_event
        /\ ~IsMret(i) /\ ~IsCsrrs(i) /\ ~IsEcall(i) /\ ~IsCsrrw(i)
        /\ ~IsLoad(i) /\ ~IsStore(i) /\ ~IsJalr(i)
    BY <1>19, <1>23 DEF IsJalr
  <2>2. d.j_en /\ ~d.rf_we
    BY <1>13, <1>23, <2>1 DEF j_en_nxt, id_ex_rf_we_nxt
  <2>3. i.f3 \in {0, 1, 4, 5, 6, 7}
    <3>1. i.f3 \in 0..7 /\ i.f3 \notin {2, 3}
      BY <1>3, <1>23 DEF Supported, Instr
    <3> QED
      BY <3>1
  <2>4. a = Arch!Add(p, i.imm)
    <3>1. d.opsel = "OP_PC_IMM" /\ d.imm = i.imm /\ d.alu = "ALU_ADD"
      BY <1>12, <1>23, <2>1 DEF alu_op_ctrl_nxt, PcPlusImm, Rs1PlusImm,
         id_ex_imm_nxt, id_ex_alu_ctrl_nxt
    <3> QED
      BY <1>7, <1>12, <3>1 DEF op1, op2, Arch!Add
  <2>5. jump = Arch!Taken(Arch!X(i.rs1), Arch!X(i.rs2))
    <3>1. /\ i.f3 = 0 => d.j_cond = "J_BEQ"
          /\ i.f3 = 1 => d.j_cond = "J_BNE"
          /\ i.f3 = 4 => d.j_cond = "J_BLT"
          /\ i.f3 = 5 => d.j_cond = "J_BGE"
          /\ i.f3 = 6 => d.j_cond = "J_BLT_U"
          /\ i.f3 = 7 => d.j_cond = "J_BGE_U"
      BY <1>12, <1>23 DEF id_ex_J_cond_nxt
    <3>2. PICK x \in Word, y \in Word : x = Arch!X(d.rs1) /\ y = Arch!X(d.rs2)
      <4>1. i.rs1 \in Reg /\ i.rs2 \in Reg
        BY DEF Instr
      <4>2. ArchRegs \in [Reg -> Word]
        BY WireType
           DEF ArchRegs, next_regs, DataInv, CarriedInv, ControlInv, TypeOK,
               RegCsrTypeOK
      <4> QED
        BY <1>12, <4>1, <4>2, WordAssumption DEF Arch!X
    <3>3. LessS(x, y) \in BOOLEAN /\ LessU(x, y) \in BOOLEAN
      BY DatapathAssumption
    <3>4. jump = j_taken(d, x, y)
      BY <1>8, <3>2
    <3>5. j_taken(d, x, y) = Arch!Taken(x, y)
      <4>1. CASE i.f3 = 0
        BY <1>10, <2>2, <3>1, <3>3, <4>1 DEF j_taken, Arch!Taken
      <4>2. CASE i.f3 = 1
        BY <1>10, <2>2, <3>1, <3>3, <4>2 DEF j_taken, Arch!Taken
      <4>3. CASE i.f3 = 4
        BY <1>10, <2>2, <3>1, <3>3, <4>3 DEF j_taken, Arch!Taken
      <4>4. CASE i.f3 = 5
        BY <1>10, <2>2, <3>1, <3>3, <4>4 DEF j_taken, Arch!Taken
      <4>5. CASE i.f3 = 6
        BY <1>10, <2>2, <3>1, <3>3, <4>5 DEF j_taken, Arch!Taken
      <4>6. CASE i.f3 = 7
        BY <1>10, <2>2, <3>1, <3>3, <4>6 DEF j_taken, Arch!Taken
      <4> QED
        BY <2>3, <4>1, <4>2, <4>3, <4>4, <4>5, <4>6
    <3> QED
      BY <1>12, <3>2, <3>4, <3>5
  <2>6. Arch!Branch
    BY <1>9, <1>10, <1>11, <1>15, <1>16, <1>17, <1>18, <1>23, <2>1, <2>2, <2>4,
       <2>5 DEF Arch!Branch, Arch!Goto
  <2> QED
    BY <2>6 DEF Arch!Next
<1>24. CASE i.op \in {"IL", "S"}
  <2>1. /\ ~d.ebreak /\ ~d.csr_wen /\ ~d.csr_event /\ ~IsMret(i)
        /\ ~IsCsrrs(i) /\ ~IsEcall(i) /\ ~IsCsrrw(i) /\ ~IsJalr(i)
        /\ i.op \notin {"JAL", "B", "AUIPC", "LUI", "I", "R"}
    BY <1>13, <1>24
       DEF IsEbreak, IsCsrrw, IsEcall, IsMret, IsPriv, IsCsrrs, IsJalr
  <2>2. IsLoad(i) \/ IsStore(i)
    BY <1>3, <1>24 DEF Supported
  <2>3. ArchPc' = Plus4(p)
    BY <1>9, <1>20, <2>1 DEF j_en_nxt
  <2>4. a = Arch!Add(Arch!X(i.rs1), i.imm)
    <3>1. d.opsel = "OP_RS1_IMM" /\ d.imm = i.imm /\ d.alu = "ALU_ADD"
      BY <1>12, <2>1, <2>2 DEF alu_op_ctrl_nxt, PcPlusImm, Rs1PlusImm,
         id_ex_imm_nxt, id_ex_alu_ctrl_nxt
    <3> QED
      BY <1>7, <1>12, <3>1 DEF op1, op2, Arch!Add
  <2>5. Arch!AccessSize = size_of(i.f3)
    BY <1>10 DEF Arch!AccessSize, size_of
  <2>6. CASE i.op = "IL"
    <3>1. IsLoad(i) /\ ~IsStore(i)
      BY <2>2, <2>6 DEF IsStore
    <3>2. d.lsu_en /\ ~d.lsu_we /\ d.rf_we
      BY <1>13, <3>1 DEF id_ex_rf_we_nxt
    <3>3. d.uload = (i.f3 \in {4, 5})
      BY <1>13, <3>1
    <3>4. v = Extend(Arch!AccessSize, i.f3 \in {4, 5},
                     ReadLanes(Arch!AccessSize, a, pmem[WordAddr(a)]))
      BY <1>12, <1>14, <2>5, <3>2, <3>3
    <3>5. Arch!Load
      BY <1>9, <1>10, <1>11, <1>15, <1>16, <1>17, <1>18, <2>1, <2>3, <2>4, <2>6,
         <3>2, <3>4 DEF Arch!Load, Arch!WriteRd, Arch!Goto
    <3> QED
      BY <3>5 DEF Arch!Next
  <2>7. CASE i.op = "S"
    <3>1. IsStore(i) /\ ~IsLoad(i)
      BY <2>2, <2>7 DEF IsLoad
    <3>2. d.lsu_we /\ ~d.rf_we
      BY <1>13, <2>1, <3>1 DEF id_ex_rf_we_nxt
    <3>3. Arch!Store
      BY <1>9, <1>10, <1>11, <1>15, <1>16, <1>17, <1>18, <2>1, <2>3, <2>4, <2>5,
         <2>7, <3>2 DEF Arch!Store, Arch!Goto
    <3> QED
      BY <3>3 DEF Arch!Next
  <2> QED
    BY <1>24, <2>6, <2>7
<1>25. CASE i.op = "SYSTEM"
  <2>1. /\ ~IsLoad(i) /\ ~IsStore(i) /\ ~IsJalr(i) /\ ~d.lsu_en /\ ~d.lsu_we
        /\ i.op \notin {"JAL", "B", "AUIPC", "LUI", "I", "R"}
        /\ ~PcPlusImm(i) /\ ~Rs1PlusImm(i)
    BY <1>13, <1>25 DEF IsLoad, IsStore, IsJalr, PcPlusImm, Rs1PlusImm
  <2>2. Arch!X(i.rs1) \in Word /\ csr_rdata(d.csr_addr) \in Word
    <3>1. i.rs1 \in Reg
      BY DEF Instr
    <3>2. ArchRegs \in [Reg -> Word]
      BY WireType
         DEF ArchRegs, next_regs, DataInv, CarriedInv, ControlInv, TypeOK,
             RegCsrTypeOK
    <3>3. csr_rdata(d.csr_addr) \in Word
      BY WordAssumption
         DEF csr_rdata, DataInv, CarriedInv, ControlInv, TypeOK, RegCsrTypeOK
    <3> QED
      BY <3>1, <3>2, <3>3, WordAssumption DEF Arch!X
  <2>3. CASE IsCsrrw(i) \/ (IsCsrrs(i) /\ i.rs1 = X0)
    <3>1. /\ ~IsEcall(i) /\ ~IsMret(i) /\ ~IsEbreak(i)
          /\ i.f3 \in {1, 2} /\ (IsCsrrw(i) <=> i.f3 = 1)
      BY <1>25, <2>3 DEF IsCsrrw, IsCsrrs, IsEcall, IsMret, IsEbreak, IsPriv
    <3>2. /\ d.rf_we /\ d.wb = "WB_ALU" /\ d.opsel = "OP_RS1_CSR"
          /\ d.csr_addr = i.csr /\ ~j_en_nxt(i)
          /\ d.alu = IF IsCsrrw(i) THEN "ALU_OP2" ELSE "ALU_OR"
      <4>1. d.rf_we /\ ~j_en_nxt(i)
        BY <1>13, <2>1, <2>3, <3>1 DEF id_ex_rf_we_nxt, j_en_nxt
      <4>2. d.wb = "WB_ALU"
        BY <1>12, <2>1, <2>3 DEF wb_ctrl_nxt
      <4>3. d.opsel = "OP_RS1_CSR" /\ d.csr_addr = i.csr
        BY <1>12, <2>1, <2>3, <3>1 DEF alu_op_ctrl_nxt, csr_addr_nxt
      <4>4. d.alu = IF IsCsrrw(i) THEN "ALU_OP2" ELSE "ALU_OR"
        <5>1. IsCsrrw(i) => ~IsCsrrs(i)
          BY DEF IsCsrrw, IsCsrrs
        <5> QED
          BY <1>12, <2>1, <2>3, <3>1, <5>1 DEF id_ex_alu_ctrl_nxt
      <4> QED
        BY <4>1, <4>2, <4>3, <4>4
    <3>3. v = a
      BY <1>14, <2>1, <3>2 DEF ex_lsu_wb_data_nxt
    <3>4. a = csr_rdata(i.csr)
      <4>1. a = Alu(d.alu, Arch!X(i.rs1), csr_rdata(i.csr))
        BY <1>7, <1>12, <3>2 DEF op1, op2
      <4>2. CASE IsCsrrw(i)
        BY <2>2, <3>2, <4>1, <4>2, AluMoveAssumption
      <4>3. CASE ~IsCsrrw(i)
        <5>1. Arch!X(i.rs1) = Zero
          BY <2>3, <4>3 DEF Arch!X
        <5> QED
          BY <2>2, <3>2, <4>1, <4>3, <5>1, AluMoveAssumption
      <4> QED
        BY <4>2, <4>3
    <3>5. Arch!Csr = Csr
      BY DEF Arch!Csr, Csr, Arch!MSTATUS, Arch!MTVEC, Arch!MEPC, Arch!MCAUSE,
             MSTATUS, MTVEC, MEPC, MCAUSE
    <3>6. a = IF i.csr \in Arch!Csr THEN csr[i.csr] ELSE Zero
      BY <3>4, <3>5 DEF csr_rdata
    <3>7. csr' = IF i.f3 = 1 /\ i.csr \in Arch!Csr
                 THEN [csr EXCEPT ![i.csr] = Arch!X(i.rs1)] ELSE csr
      BY <1>12, <1>13, <1>17, <3>1, <3>2, <3>5
    <3>8. ArchPc' = Plus4(p)
      BY <1>9, <1>20, <3>2
    <3>9. Arch!CsrAccess
      BY <1>9, <1>10, <1>11, <1>13, <1>15, <1>16, <1>18, <1>25, <2>1, <3>1, <3>2,
         <3>3, <3>6, <3>7, <3>8 DEF Arch!CsrAccess, Arch!WriteRd, Arch!Goto
    <3> QED
      BY <3>9 DEF Arch!Next
  <2>4. ASSUME IsEcall(i) \/ IsMret(i) \/ IsEbreak(i)
        PROVE  /\ ~IsCsrrw(i) /\ ~IsCsrrs(i) /\ ~d.rf_we /\ i.f3 = 0
               /\ IsEcall(i) <=> i.csr = 0
               /\ IsMret(i) <=> i.csr = 770
               /\ IsEbreak(i) <=> i.csr = 1
    <3>1. /\ ~IsCsrrw(i) /\ ~IsCsrrs(i) /\ i.f3 = 0
          /\ IsEcall(i) <=> i.csr = 0
          /\ IsMret(i) <=> i.csr = 770
          /\ IsEbreak(i) <=> i.csr = 1
      BY <2>4 DEF IsCsrrw, IsCsrrs, IsEcall, IsMret, IsEbreak, IsPriv
    <3> QED
      BY <1>13, <2>1, <3>1 DEF id_ex_rf_we_nxt
  <2>5. CASE IsEbreak(i)
    <3>1. /\ ~IsCsrrw(i) /\ ~IsCsrrs(i) /\ ~d.rf_we /\ i.f3 = 0 /\ i.csr = 1
          /\ ~IsEcall(i) /\ ~IsMret(i)
      BY <2>4, <2>5
    <3>2. ArchPc' = Plus4(p)
      BY <1>9, <1>20, <2>1, <3>1 DEF j_en_nxt
    <3>3. Arch!X(A0) = ArchRegs[A0]
      BY RegAssumption DEF Arch!X
    <3>4. Arch!Ebreak
      BY <1>9, <1>10, <1>11, <1>13, <1>15, <1>16, <1>17, <1>18, <1>25, <2>1, <2>5,
         <3>1, <3>2, <3>3 DEF Arch!Ebreak, Arch!Goto, Arch!NoHalt
    <3> QED
      BY <3>4 DEF Arch!Next
  <2>6. CASE IsEcall(i) \/ IsMret(i)
    <3>1. /\ ~IsCsrrw(i) /\ ~IsCsrrs(i) /\ ~d.rf_we /\ i.f3 = 0
          /\ IsEcall(i) <=> i.csr = 0
          /\ IsMret(i) <=> i.csr = 770
          /\ ~IsEbreak(i)
      BY <2>4, <2>6
    <3>2. /\ d.alu = "ALU_OP2" /\ d.opsel = "OP_RS1_CSR" /\ d.j_en
          /\ d.j_cond = "J_UNCOND"
          /\ d.csr_addr = IF IsEcall(i) THEN MTVEC ELSE MEPC
      BY <1>12, <1>13, <2>1, <2>6, <3>1
         DEF id_ex_alu_ctrl_nxt, alu_op_ctrl_nxt, j_en_nxt, id_ex_J_cond_nxt,
             csr_addr_nxt
    <3>3. jump
      BY <1>8, <3>2 DEF j_taken
    <3>4. a = csr[IF IsEcall(i) THEN MTVEC ELSE MEPC]
      <4>1. a = Alu("ALU_OP2", Arch!X(i.rs1), csr_rdata(d.csr_addr))
        BY <1>7, <1>12, <3>2 DEF op1, op2
      <4>2. a = csr_rdata(d.csr_addr)
        BY <2>2, <4>1, AluMoveAssumption
      <4> QED
        BY <3>2, <4>2 DEF csr_rdata, Csr
    <3>5. ArchPc' = a
      BY <1>9, <3>3
    <3>6. CASE IsEcall(i)
      <4>1. Arch!Ecall
        BY <1>9, <1>10, <1>11, <1>13, <1>15, <1>16, <1>17, <1>18, <1>25, <2>1,
           <3>1, <3>4, <3>5, <3>6
           DEF Arch!Ecall, Arch!Goto, Arch!MEPC, Arch!MCAUSE, Arch!MSTATUS,
               Arch!MTVEC, MEPC, MCAUSE, MSTATUS, MTVEC
      <4> QED
        BY <4>1 DEF Arch!Next
    <3>7. CASE ~IsEcall(i)
      <4>1. Arch!Mret
        BY <1>9, <1>10, <1>11, <1>13, <1>15, <1>16, <1>17, <1>18, <1>25, <2>1,
           <2>6, <3>1, <3>4, <3>5, <3>7 DEF Arch!Mret, Arch!Goto, Arch!MEPC, MEPC
      <4> QED
        BY <4>1 DEF Arch!Next
    <3> QED
      BY <3>6, <3>7
  <2> QED
    BY <1>3, <1>25, <2>3, <2>5, <2>6 DEF Supported
<1>26. i.op \in Opcode /\ i.op # "OTHER"
  BY <1>3 DEF Supported, Instr
<1> QED
  BY <1>21, <1>22, <1>23, <1>24, <1>25, <1>26 DEF Opcode

(* Every step of the core is a step of the abstract machine or invisible.  *)
LEMMA StepRefines ==
  ASSUME DataInv, Stops, [Next]_vars
  PROVE  Arch!Next \/ UNCHANGED Arch!archVars
<1>1. ASSUME NEW h \in BOOLEAN, Cycle(h), Answer(ex_lsu, hit(h))
      PROVE  Arch!Next
  BY <1>1, AnswerStep
<1>2. ASSUME NEW h \in BOOLEAN, Cycle(h), ~Answer(ex_lsu, hit(h))
      PROVE  UNCHANGED Arch!archVars
  <2>1. /\ ArchRegs' = ArchRegs /\ csr' = csr /\ imem' = imem /\ pmem' = pmem
        /\ ~ex_lsu.ebreak
    BY <1>2, StalledState DEF DataInv
  <2>2. ArchPc' = ArchPc
    BY <1>2, PcAfter
  <2>3. ArchHalt' = ArchHalt
    BY <1>2, <2>1, HaltAfter DEF DataInv
  <2>4. lsu_wbu'.pc = lsu_wbu.pc
    BY <1>2, CycleIs DEF DataInv, CarriedInv, next_lsu_wbu, NoLsuWbu
  <2> QED
    BY <2>1, <2>2, <2>3, <2>4 DEF Arch!archVars
<1>3. CASE Panic \/ UNCHANGED vars
  <2>1. UNCHANGED <<imem, pc, if_id, id_ex, ex_lsu, lsu_state, lsu_wbu, pmem,
                    regs, csr>>
    BY <1>3 DEF Panic, vars
  <2>2. npc' = npc \/ (npc.state # "END" /\ npc'.state # "END")
    <3>1. CASE Panic
      <4>1. npc.state # "END"
        BY <3>1 DEF Stops, Panic, Clocked
      <4>2. npc'.state = "PANIC"
        BY <3>1 DEF Panic, DataInv, CarriedInv, ControlInv, TypeOK, WBUTypeOK
      <4> QED
        BY <4>1, <4>2
    <3>2. CASE UNCHANGED vars
      BY <3>2 DEF vars
    <3> QED
      BY <1>3, <3>1, <3>2
  <2>3. ArchPc' = ArchPc /\ ArchRegs' = ArchRegs
    BY <2>1 DEF ArchPc, ArchRegs, next_regs, wb, wb_port
  <2>4. ArchHalt' = ArchHalt
    BY <2>1, <2>2 DEF ArchHalt
  <2> QED
    BY <2>1, <2>3, <2>4 DEF Arch!archVars
<1> QED
  BY <1>1, <1>2, <1>3 DEF Next

(* After reset the abstract machine is in its initial state.               *)
LEMMA InitRefines ==
  ASSUME Init
  PROVE  Arch!Init
<1>1. imem \in Programs /\ pmem \in [MemAddr -> Word]
  BY ProgramAssumption DEF Init
<1>2. ArchPc = ResetPc
  BY DEF Init, ArchPc, IFUInit, LSUInit, EXUInit, NoExLsu, IDUInit, Bubble
<1>3. ArchRegs = [r \in Reg |-> Zero]
  BY DEF Init, LSUInit, NoLsuWbu, RegCsrInit, ArchRegs, next_regs, wb, wb_port
<1>4. lsu_wbu.pc = Zero /\ ArchHalt = <<>>
  BY DEF Init, LSUInit, NoLsuWbu, WBUInit, ArchHalt
<1>5. csr = [c \in Csr |-> IF c = MSTATUS THEN MachineMode ELSE Zero]
  BY DEF Init, RegCsrInit
<1> QED
  BY <1>1, <1>2, <1>3, <1>4, <1>5
     DEF Arch!Init, Arch!NoHalt, Arch!Csr, Arch!MSTATUS, Arch!MTVEC, Arch!MEPC,
         Arch!MCAUSE, Csr, MSTATUS, MTVEC, MEPC, MCAUSE

(* The pipeline implements the instruction set: for every program of       *)
(* supported encodings in which no CSR write is directly followed by a     *)
(* read of that CSR, and whatever the cache answers, what top.v does is    *)
(* what a machine does that executes one whole instruction at a time.      *)
THEOREM ImplementsISA ==
  ASSUME \A m \in Programs : CsrSpaced(m) /\ \A a \in MemAddr : Supported(m[a])
  PROVE  Spec => RefinesISA
<1>1. Init => Proper /\ Operands /\ Follows /\ Stops
  <2> SUFFICES ASSUME Init PROVE Proper /\ Operands /\ Follows /\ Stops
    OBVIOUS
  <2>1. Proper
    BY DEF Init, Proper
  <2>2. Operands /\ Follows
    BY DEF Init, EXUInit, NoExLsu, NoExCsr, LSUInit, Operands, Follows, busy
  <2>3. Stops
    BY DEF Init, WBUInit, Stops
  <2> QED
    BY <2>1, <2>2, <2>3
<1>2. DataInv /\ Stops /\ [Next]_vars => Proper' /\ Operands' /\ Follows' /\ Stops'
  <2> SUFFICES ASSUME DataInv, Stops, [Next]_vars
               PROVE  Proper' /\ Operands' /\ Follows' /\ Stops'
    OBVIOUS
  <2>1. ASSUME NEW h \in BOOLEAN, Cycle(h)
        PROVE  Proper' /\ Operands' /\ Follows' /\ Stops'
    <3>1. Proper' /\ Operands' /\ Follows'
      BY <2>1, DataStep
    <3>2. npc.state # "END"
      BY <2>1 DEF Stops, Cycle, Clocked
    <3>3. /\ npc' = IF lsu_wbu.ebreak THEN npctrap(lsu_wbu, regs) ELSE npc
          /\ commit' = [valid |-> lsu_wbu.valid, pc |-> lsu_wbu.pc]
      BY <2>1 DEF Cycle, WBUTick
    <3>4. lsu_wbu.ebreak => lsu_wbu.valid
      BY DEF DataInv, CarriedInv, ControlInv, TrapCommits
    <3>5. Stops'
      BY <3>2, <3>3, <3>4 DEF Stops
    <3> QED
      BY <3>1, <3>5
  <2>2. CASE Panic \/ UNCHANGED vars
    <3>1. UNCHANGED <<imem, pc, if_id, id_ex, ex_lsu, ex_csr, lsu_state, pending,
                      lsu_wbu, regs, csr, commit>>
      BY <2>2 DEF Panic, vars
    <3>2. Proper'
      BY <3>1 DEF DataInv, Proper, CsrSpaced
    <3>3. ArchRegs' = ArchRegs
      BY <3>1 DEF ArchRegs, next_regs, wb, wb_port
    <3>4. PICK p : p = ex_lsu.pc
      OBVIOUS
    <3>5. PICK d : d = decoded(p)
      OBVIOUS
    <3>6. /\ decoded(p)' = d /\ arch_alu(p)' = arch_alu(p)
          /\ arch_next(p)' = arch_next(p)
          /\ Arch!X(d.rs1)' = Arch!X(d.rs1) /\ Arch!X(d.rs2)' = Arch!X(d.rs2)
      BY <3>1, <3>3, <3>5, Unmoved
    <3>7. /\ decoded(ex_lsu.pc)' = d /\ arch_alu(ex_lsu.pc)' = arch_alu(p)
          /\ arch_next(ex_lsu.pc)' = arch_next(p)
      BY <3>1, <3>4, <3>6
    <3>8. Operands'
      BY <3>1, <3>4, <3>5, <3>6, <3>7 DEF DataInv, Operands
    <3>9. Follows'
      BY <3>1, <3>4, <3>7 DEF DataInv, Follows, busy, front_pc
    <3>10. Stops'
      <4>1. CASE Panic
        <5>1. npc'.state = "PANIC"
          BY <4>1 DEF Panic, DataInv, CarriedInv, ControlInv, TypeOK, WBUTypeOK
        <5> QED
          BY <5>1 DEF Stops
      <4>2. CASE UNCHANGED vars
        BY <4>2 DEF vars, Stops
      <4> QED
        BY <2>2, <4>1, <4>2
    <3> QED
      BY <3>2, <3>8, <3>9, <3>10
  <2> QED
    BY <2>1, <2>2 DEF Next
<1>3. DataInv /\ Stops /\ [Next]_vars => [Arch!Next]_(Arch!archVars)
  BY StepRefines
<1>4. Init => Arch!Init
  BY InitRefines
<1> QED
  BY <1>1, <1>2, <1>3, <1>4, AlwaysCarried, PTL
     DEF Spec, DataInv, RefinesISA, Arch!Spec
=============================================================================
