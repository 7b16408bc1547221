-------------------------------- MODULE IFU --------------------------------
(***************************************************************************)
(* Instruction fetch (core/src/IFU.v) with the combinational instruction   *)
(* memory port (core/src/IMEM.v).  The parameters of the operators are the *)
(* input wires of the Verilog module.                                      *)
(***************************************************************************)
EXTENDS Macro

VARIABLES
  imem,               \* the program text; constant during a run
  pc,                 \* the fetch pc
  ex_if_pc_valid_r,   \* a redirect arrived in the previous cycle
  if_id               \* the IF/ID register

IFUVars == <<imem, pc, ex_if_pc_valid_r, if_id>>

IFUTypeOK ==
  /\ imem \in [MemAddr -> Instr]
  /\ pc \in Word
  /\ ex_if_pc_valid_r \in BOOLEAN
  /\ if_id \in [valid : BOOLEAN, pc : Word, instr : Instr]

\* An all-zero instruction word decodes as an unknown opcode.
NoInstr == [op |-> "OTHER", f3 |-> 0, f7 |-> "A", rd |-> X0, rs1 |-> X0,
            rs2 |-> X0, imm |-> Zero, csr |-> 0]

IFUInit ==
  /\ pc = ResetPc
  /\ ex_if_pc_valid_r = FALSE
  /\ if_id = [valid |-> FALSE, pc |-> Zero, instr |-> NoInstr]

\* IMEM.v: pmem_read(if_imem_araddr), which drops the low address bits.
imem_if_rdata == imem[WordAddr(pc)]

if_imem_arvalid(id_if_instr_ready, ex_glb_flush) ==
  (id_if_instr_ready \/ ex_if_pc_valid_r) /\ ~ex_glb_flush

next_pc(ex_if_pc_valid, ex_if_pc, id_if_instr_ready) ==
  CASE ex_if_pc_valid                        -> ex_if_pc
    [] ~ex_if_pc_valid /\ id_if_instr_ready  -> Plus4(pc)
    [] OTHER                                 -> pc

\* Mutation of next_if_id: IF/ID is not held while ID is not ready.
next_if_id_no_hold(id_if_instr_ready, ex_glb_flush) ==
  IF ex_glb_flush THEN [if_id EXCEPT !.valid = FALSE]
  ELSE [valid |-> TRUE, pc |-> pc, instr |-> imem_if_rdata]

next_if_id(id_if_instr_ready, ex_glb_flush) ==
  IF ex_glb_flush THEN [if_id EXCEPT !.valid = FALSE]
  ELSE IF ~id_if_instr_ready THEN if_id
  ELSE IF if_imem_arvalid(id_if_instr_ready, ex_glb_flush)
       THEN [valid |-> TRUE, pc |-> pc, instr |-> imem_if_rdata]
       ELSE [if_id EXCEPT !.valid = TRUE]

IFUTick(ex_if_pc_valid, ex_if_pc, id_if_instr_ready, ex_glb_flush) ==
  /\ pc' = next_pc(ex_if_pc_valid, ex_if_pc, id_if_instr_ready)
  /\ ex_if_pc_valid_r' = ex_if_pc_valid
  /\ if_id' = next_if_id(id_if_instr_ready, ex_glb_flush)
  /\ imem' = imem
=============================================================================
