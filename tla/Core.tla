-------------------------------- MODULE Core --------------------------------
(***************************************************************************)
(* The five-stage core (core/src/top.v): the stages clocked together.      *)
(* One step is one cycle as the simulator drives it (single_cycle in       *)
(* core/csrc/cpu/cpu-exec.cpp).  The only nondeterminism is whether the    *)
(* cache answers in this cycle.                                            *)
(***************************************************************************)
EXTENDS IFU, IDU, EXU, LSU, RegCsr, WBU

CONSTANTS
  Programs,           \* the programs a run may start with
  DataImages          \* the initial contents of data memory

ASSUME ProgramAssumption == /\ Programs \subseteq [MemAddr -> Instr]
                            /\ DataImages \subseteq [MemAddr -> Word]

vars == <<imem, pc, ex_if_pc_valid_r, if_id, id_ex, ex_lsu, ex_csr,
          lsu_state, pending, lsu_wbu, pmem, regs, csr, commit, npc>>

TypeOK ==
  /\ IFUTypeOK
  /\ IDUTypeOK
  /\ EXUTypeOK
  /\ LSUTypeOK
  /\ RegCsrTypeOK
  /\ WBUTypeOK

\* The state after the 12 reset cycles of init_cpu.
Init ==
  /\ imem \in Programs
  /\ pmem \in DataImages
  /\ IFUInit
  /\ IDUInit
  /\ EXUInit
  /\ LSUInit
  /\ RegCsrInit
  /\ WBUInit

----------------------------------------------------------------------------
(* The wires of top.v.  h is the hit bit of the cache in this cycle.       *)

wb  == wb_port(lsu_wbu)
rs1 == fwd_data(id_ex.rs1, wb, rf_read(id_ex.rs1, wb))
rs2 == fwd_data(id_ex.rs2, wb, rf_read(id_ex.rs2, wb))
alu == alu_out(id_ex, rs1, rs2, csr_rdata(id_ex.csr_addr))

hit(h)   == cache_lsu_hit(ex_lsu, h)
ready(h) == lsu_ex_ready(ex_lsu, hit(h))
flush(h) == redirect(id_ex, ready(h), rs1, rs2)

(* execute() keeps clocking until the state has left RUNNING and the       *)
(* instruction being waited for has committed.                             *)
Clocked == npc.state # "PANIC" /\ ~(npc.state = "END" /\ commit.valid)

(* One clock edge.  An unsupported CSR access passes only if npctrap runs  *)
(* in the same edge, and before it: WBU and CSR call into the simulator    *)
(* from different always blocks, in an order the build chooses.            *)
Cycle(h) ==
  /\ Clocked
  /\ unsupported(ex_csr) => lsu_wbu.ebreak
  /\ IFUTick(flush(h), alu, id_if_instr_ready(if_id, ready(h)), flush(h))
  /\ IDUTick(if_id, ready(h), flush(h))
  /\ EXUTick(id_ex, ready(h), rs1, rs2, alu)
  /\ LSUTick(ex_lsu, hit(h))
  /\ RegCsrTick(wb, ex_csr)
  /\ WBUTick(lsu_wbu, regs)

\* unknow_inst asserts that the state is not RUNNING: the simulator ends in
\* the middle of the edge.
Panic ==
  /\ Clocked
  /\ unsupported(ex_csr)
  /\ npc' = [npc EXCEPT !.state = "PANIC"]
  /\ UNCHANGED <<imem, pc, ex_if_pc_valid_r, if_id, id_ex, ex_lsu, ex_csr,
                 lsu_state, pending, lsu_wbu, pmem, regs, csr, commit>>

Next == (\E h \in BOOLEAN : Cycle(h)) \/ Panic

Spec == Init /\ [][Next]_vars

(* The simulator keeps clocking the core.  The LFSR of the cache is        *)
(* periodic and its period contains hits, so a request that stays up is    *)
(* answered.                                                               *)
FairSpec == Spec /\ WF_vars(Cycle(TRUE) \/ Panic)

----------------------------------------------------------------------------
(* Safety of the control *)

fetch(a) == imem[WordAddr(a)]

IsUncondJump(i) == j_en_nxt(i) /\ id_ex_J_cond_nxt(i) = "J_UNCOND"

(* IF/ID and ID/EX hold consecutive instructions of the program, decoded   *)
(* as fetched, and pc is the one after them; an unconditional jump in EX   *)
(* has its own copy, nothing younger, behind it (uncond_jump_in_id in      *)
(* IDU.v).  A stall, a flush or a miss neither drops an instruction nor    *)
(* lets one enter twice.                                                   *)
ProgramOrder ==
  /\ if_id.valid => /\ if_id.instr = fetch(if_id.pc)
                    /\ pc = Plus4(if_id.pc)
  /\ id_ex.valid =>
       /\ id_ex = Decode(fetch(id_ex.pc), id_ex.pc)
       /\ if_id.valid
       /\ if_id.pc = IF IsUncondJump(fetch(id_ex.pc)) THEN id_ex.pc
                                                      ELSE Plus4(id_ex.pc)

(* While LSU waits for the cache, the saved request is that of the         *)
(* instruction in EX/LSU.  EXU may have cleared EX/LSU (it does so for a   *)
(* bubble in ID/EX without looking at lsu_ex_ready), but then no           *)
(* instruction is behind it that could fill EX/LSU before the answer.      *)
MissHeld ==
  IF lsu_state = "WAITING"
  THEN IF ex_lsu.valid THEN ex_lsu.ctrl # "NONE" /\ pending = request(ex_lsu)
                       ELSE ~id_ex.valid
  ELSE pending = NoPending

(* An instruction in EX never needs the register a load in EX/LSU has yet  *)
(* to deliver: the one-cycle stall of IDU.v is enough although the load    *)
(* may miss, because ex_lsu_wb_data of a load is not forwarded (EXU.v).    *)
LoadUseSafe ==
  (id_ex.valid /\ ex_lsu.valid /\ ex_lsu.ctrl = "READ" /\ ex_lsu.wb_rd # X0)
    => LET i == fetch(id_ex.pc)
       IN  /\ uses_rs1(i) => i.rs1 # ex_lsu.wb_rd
           /\ uses_rs2(i) => i.rs2 # ex_lsu.wb_rd

(* A CSR write or trap is only ever at the CSR port together with its own  *)
(* instruction in EX/LSU, in the very cycle that instruction leaves for    *)
(* WBU, so it happens once, and never for a flushed or waiting one.        *)
CsrInStep ==
  (ex_csr.wen \/ ex_csr.event) =>
    /\ lsu_state = "IDLE"
    /\ ex_lsu.valid
    /\ ex_lsu.ctrl = "NONE"
    /\ ex_lsu.pc = ex_csr.pc

(* npctrap is called for an ebreak of the program that commits, although   *)
(* ebreak_lsu_wbu follows ebreak_exu_lsu in every cycle, whatever LSU.v is *)
(* waiting for: an ebreak in EX/LSU always leaves in that cycle.           *)
TrapCommits ==
  /\ ex_lsu.ebreak => /\ ex_lsu.valid
                      /\ ex_lsu.ctrl = "NONE"
                      /\ IsEbreak(fetch(ex_lsu.pc))
  /\ lsu_wbu.ebreak => lsu_wbu.valid /\ IsEbreak(fetch(lsu_wbu.pc))

(* pmem_read and pmem_write reach a device for the addresses outside pmem, *)
(* so an access must happen exactly once per load or store: the cache is   *)
(* accessed in the cycle, and only in the cycle, in which a load or store  *)
(* leaves LSU for WBU, never for one that is repeated after a miss, held,  *)
(* or flushed.                                                             *)
AccessOnce ==
  [][\A h \in BOOLEAN : Cycle(h) =>
       (hit(h) <=> lsu_wbu'.valid /\ LET i == fetch(lsu_wbu'.pc)
                                     IN  IsLoad(i) \/ IsStore(i))]_vars

(* Under a cache that keeps answering, instructions keep committing until  *)
(* the simulator stops: no stall, flush or miss wedges the pipeline.       *)
KeepsCommitting == []<>(commit.valid) \/ <>[](npc.state # "RUNNING")

----------------------------------------------------------------------------
(* Refinement mapping.  An instruction takes effect when it leaves LSU for *)
(* WBU: that edge writes memory and the CSRs, and the register write it    *)
(* leaves in LSU/WBU is the only one not yet in the register file.         *)

\* pc of the oldest instruction that has not taken effect yet.
ArchPc ==
  CASE lsu_state = "WAITING" \/ ex_lsu.valid -> ex_lsu.pc
    [] ~(lsu_state = "WAITING" \/ ex_lsu.valid) /\ id_ex.valid -> id_ex.pc
    [] ~(lsu_state = "WAITING" \/ ex_lsu.valid \/ id_ex.valid) /\ if_id.valid
         -> if_id.pc
    [] OTHER -> pc

ArchRegs == next_regs(wb)

ArchHalt ==
  CASE npc.state = "END" -> <<npc.halt_pc, npc.halt_ret>>
    [] npc.state # "END" /\ lsu_wbu.ebreak -> <<lsu_wbu.pc, regs[A0]>>
    [] OTHER -> <<>>

Arch == INSTANCE ISA WITH pc <- ArchPc, regs <- ArchRegs, mem <- pmem,
                          retired <- lsu_wbu.pc, halt <- ArchHalt

(* The encodings the core decodes (the others only print a message): those *)
(* of RV32I, with csrrs only as csrr, and the two traps and mret.          *)
Supported(i) ==
  CASE i.op = "R"    -> i.f7 = "A" \/ (i.f7 = "B" /\ i.f3 \in {0, 5})
    [] i.op = "I"    -> (i.f3 = 1 => i.f7 = "A") /\ (i.f3 = 5 => i.f7 # "X")
    [] i.op = "IL"   -> IsLoad(i)
    [] i.op = "S"    -> IsStore(i)
    [] i.op = "B"    -> i.f3 \notin {2, 3}
    [] i.op = "JALR" -> IsJalr(i)
    [] i.op = "SYSTEM" -> \/ IsEbreak(i) \/ IsEcall(i) \/ IsMret(i) \/ IsCsrrw(i)
                          \/ IsCsrrs(i) /\ i.rs1 = X0
    [] OTHER         -> i.op \in {"JAL", "LUI", "AUIPC"}

ReadsCsr(i, c) == \/ ((IsCsrrw(i) /\ i.rd # X0) \/ IsCsrrs(i)) /\ i.csr = c
                  \/ IsEcall(i) /\ c = MTVEC
                  \/ IsMret(i) /\ c = MEPC

(* A CSR write is not directly followed by a read of that CSR: the write   *)
(* port ex_csr of EXU.v is not forwarded.                                  *)
CsrSpaced(m) ==
  \A a \in Word : IsCsrrw(m[WordAddr(a)]) =>
    ~ReadsCsr(m[WordAddr(Plus4(a))], m[WordAddr(a)].csr)

(* The pipeline executes exactly the instructions of the program, in       *)
(* program order, each once and with the operands the ISA gives it: no     *)
(* stall, forwarding path, flush, miss or bubble of EXU.v, IDU.v, IFU.v    *)
(* and LSU.v is visible in the architectural state.                        *)
RefinesISA == Arch!Spec
=============================================================================
