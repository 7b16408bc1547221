-------------------------------- MODULE WBU --------------------------------
(***************************************************************************)
(* Write-back (core/src/WBU.v) and what the simulator learns from it: the  *)
(* commit flag and pc polled by exec_one_inst, and the end of the run      *)
(* reported by npctrap and unknow_inst (core/csrc/cpu/cpu-exec.cpp).       *)
(***************************************************************************)
EXTENDS Macro

VARIABLES
  commit,             \* inst_cpmmit and commit_pc
  npc                 \* npc_state: state, halt_ret, halt_pc

NpcState == {"RUNNING", "END", "PANIC"}

WBUTypeOK ==
  /\ commit \in [valid : BOOLEAN, pc : Word]
  /\ npc \in [state : NpcState, halt_ret : Word, halt_pc : Word]

WBUInit ==
  /\ commit = [valid |-> FALSE, pc |-> Zero]
  /\ npc = [state |-> "RUNNING", halt_ret |-> Zero, halt_pc |-> Zero]

\* The write port of the register file, also the second forwarding source.
wb_port(lsu_wbu) == [wen  |-> lsu_wbu.valid /\ lsu_wbu.wen,
                     rd   |-> lsu_wbu.rd,
                     data |-> lsu_wbu.data]

\* npctrap reads x10 at the clock edge, before the write of that edge.
npctrap(lsu_wbu, regs) == [state |-> "END", halt_ret |-> regs[A0],
                           halt_pc |-> lsu_wbu.pc]

WBUTick(lsu_wbu, regs) ==
  /\ commit' = [valid |-> lsu_wbu.valid, pc |-> lsu_wbu.pc]
  /\ npc' = IF lsu_wbu.ebreak THEN npctrap(lsu_wbu, regs) ELSE npc
=============================================================================
