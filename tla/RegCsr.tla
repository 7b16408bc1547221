------------------------------- MODULE RegCsr -------------------------------
(***************************************************************************)
(* The architectural register files: Regfile (core/src/Regfile.v) with its *)
(* write-through read ports, and CSR (core/src/CSR.v) with its             *)
(* combinational read port and registered write port ex_csr.               *)
(***************************************************************************)
EXTENDS Macro

VARIABLES
  regs,               \* the general purpose registers
  csr                 \* mstatus, mtvec, mepc, mcause

RegCsrTypeOK ==
  /\ regs \in [Reg -> Word]
  /\ csr \in [Csr -> Word]

RegCsrInit ==
  /\ regs = [r \in Reg |-> Zero]
  /\ csr = [c \in Csr |-> IF c = MSTATUS THEN MachineMode ELSE Zero]

\* rs1_data / rs2_data; wb is the write port
rf_read(rs, wb) ==
  IF rs = X0 THEN Zero
  ELSE IF wb.wen /\ wb.rd # X0 /\ wb.rd = rs THEN wb.data
  ELSE regs[rs]

next_regs(wb) ==
  IF wb.wen /\ wb.rd # X0 THEN [regs EXCEPT ![wb.rd] = wb.data] ELSE regs

csr_rdata(raddr) == IF raddr \in Csr THEN csr[raddr] ELSE Zero

\* The cases that call unknow_inst.
unsupported(ex_csr) ==
  \/ ex_csr.event /\ csr[MSTATUS] # MachineMode
  \/ ~ex_csr.event /\ ex_csr.wen /\ ex_csr.waddr \notin Csr

\* Mutation of next_csr: ecall saves the pc of the next instruction.
next_csr_pc4(ex_csr) ==
  IF ex_csr.event
  THEN [csr EXCEPT ![MEPC] = Plus4(ex_csr.pc), ![MCAUSE] = EcallCause]
  ELSE IF ex_csr.wen /\ ex_csr.waddr \in Csr
  THEN [csr EXCEPT ![ex_csr.waddr] = ex_csr.wdata]
  ELSE csr

next_csr(ex_csr) ==
  IF ex_csr.event
  THEN [c \in Csr |->
          CASE c = MEPC -> ex_csr.pc
            [] c = MCAUSE /\ csr[MSTATUS] = MachineMode -> EcallCause
            [] OTHER -> csr[c]]
  ELSE IF ex_csr.wen /\ ex_csr.waddr \in Csr
  THEN [csr EXCEPT ![ex_csr.waddr] = ex_csr.wdata]
  ELSE csr

RegCsrTick(wb, ex_csr) ==
  /\ regs' = next_regs(wb)
  /\ csr' = next_csr(ex_csr)
=============================================================================
