------------------------------ MODULE SimLoop ------------------------------
(***************************************************************************)
(* The instruction loop of the simulator (exec_one_inst and execute of     *)
(* core/csrc/cpu/cpu-exec.cpp) around LSU and WBU, with the hits decided   *)
(* by the shift register of the cache instead of by the environment.  The  *)
(* core runs a straight line of word loads: once the pipeline has filled,  *)
(* EX/LSU always holds one.                                                *)
(***************************************************************************)
EXTENDS Lfsr, LSU, WBU

CONSTANT MaxCycle     \* cycles a run is followed for

ASSUME MaxCycleAssumption == MaxCycle \in Nat

VARIABLES
  waited,             \* i of exec_one_inst: cycles without a commit
  cycle,              \* cycles since reset
  misses              \* cycles since the cache last hit

simVars == <<lfsr, lsu_state, pending, lsu_wbu, pmem, commit, npc, waited,
             cycle, misses>>

EXEC_LIMIT == 40

\* What EX/LSU holds: a word load, from the third cycle on.
load == [valid |-> cycle >= 3, addr |-> Zero, data |-> Zero, ctrl |-> "READ",
         size |-> "WORD", uload |-> FALSE, wb_data |-> Zero, wb_rd |-> A0,
         wb_wen |-> TRUE, pc |-> ResetPc, ebreak |-> FALSE]

SimInit ==
  /\ LfsrInit
  /\ LSUInit
  /\ pmem = [a \in MemAddr |-> Zero]
  /\ WBUInit
  /\ waited = 0
  /\ cycle = 0
  /\ misses = 0

\* Mutation of exec_one_inst: the count goes on after a commit.
exec_one_inst_no_reset ==
  /\ waited' = waited + 1
  /\ npc' = IF waited' = EXEC_LIMIT THEN [npc EXCEPT !.state = "PANIC"] ELSE npc

\* exec_one_inst returns on a commit and panics after EXEC_LIMIT cycles.
exec_one_inst ==
  /\ waited' = IF commit'.valid THEN 0 ELSE waited + 1
  /\ npc' = IF waited' = EXEC_LIMIT THEN [npc EXCEPT !.state = "PANIC"] ELSE npc

single_cycle ==
  /\ npc.state = "RUNNING"
  /\ cycle < MaxCycle
  /\ LfsrTick
  /\ LSUTick(load, cache_lsu_hit(load, cache_hit))
  /\ commit' = [valid |-> lsu_wbu.valid, pc |-> lsu_wbu.pc]
  /\ exec_one_inst
  /\ cycle' = cycle + 1
  /\ misses' = IF cache_hit THEN 0 ELSE misses + 1

SimSpec == SimInit /\ [][single_cycle]_simVars

----------------------------------------------------------------------------
(* exec_one_inst panics with "CPU don't finish inst in 40 cycle": a claim  *)
(* that every instruction commits within 40 cycles of the one before.      *)
FinishesIn40 == npc.state # "PANIC"

(* When exec_one_inst waits, it waits for the cache: unless an instruction *)
(* is about to commit, every cycle without a commit is one without a hit,  *)
(* but for the three that fill the pipeline.  A miss costs its own cycles  *)
(* and none for LSU to notice the answer.                                  *)
WaitsForCache == lsu_wbu.valid \/ waited <= misses + 3
=============================================================================
