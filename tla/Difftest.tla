------------------------------ MODULE Difftest ------------------------------
(***************************************************************************)
(* Differential testing (core/csrc/cpu/difftest/dut.c) on the commit       *)
(* stream of the core.  A load or store reaches pmem_read or pmem_write    *)
(* when it is in LSU, up to two commits before its own; an address outside *)
(* pmem raises is_skip_ref at that moment.  difftest_step runs at every    *)
(* commit and compares one commit late: the reference after n instructions *)
(* with the register copy taken at the n-th commit.                        *)
(***************************************************************************)
EXTENDS Naturals, Sequences

CONSTANTS
  Progs,              \* programs
  Pc, Gpr,            \* program counters, contents of the register file
  BootPc, BootGpr,    \* MEM_BASE and the registers after reset
  TrapPc,             \* where the reference goes when an access faults
  Exec(_, _),         \* the state [pc, gpr] after the instruction at pc
  IsDevice(_, _),     \* the instruction at pc accesses a device
  MaxFaults,          \* instructions the core may execute wrongly
  MaxSkips            \* accesses to devices, by the program or the debugger

State == [pc : Pc, gpr : Gpr]

ASSUME DifftestAssumption ==
  /\ BootPc \in Pc /\ BootGpr \in Gpr /\ TrapPc \in Pc
  /\ \A p \in Progs, s \in State : Exec(p, s) \in State
  /\ \A p \in Progs, pc \in Pc : IsDevice(p, pc) \in BOOLEAN
  /\ MaxFaults \in Nat /\ MaxSkips \in Nat

VARIABLES
  prog,               \* the program
  dut,                \* the state the next instruction to reach LSU starts from
  flight,             \* instructions between LSU and the commit, oldest first
  cpu,                \* the register copy of update_reg_state
  ref,                \* the state of the reference
  is_skip_ref,
  n_ignore_first,
  npc_state,
  faults,             \* instructions executed wrongly so far
  skips,              \* device accesses so far
  last                \* the previous instruction to commit was wrong

difftestVars == <<prog, dut, flight, cpu, ref, is_skip_ref, n_ignore_first, npc_state,
          faults, skips, last>>

\* LSU, LSU/WBU and the instruction whose commit flag is up.
InFlight == 3

\* init_difftest copies memory and registers to the reference.
DifftestInit ==
  /\ prog \in Progs
  /\ dut = [pc |-> BootPc, gpr |-> BootGpr]
  /\ flight = << >>
  /\ cpu = dut
  /\ ref = dut
  /\ is_skip_ref = FALSE
  /\ n_ignore_first = FALSE
  /\ npc_state = "RUNNING"
  /\ faults = 0
  /\ skips = 0
  /\ last = FALSE

----------------------------------------------------------------------------
(* The core.  An instruction in LSU has its result: s is the state after   *)
(* it.  A core with an error produces another result or another next pc.   *)

Issue(s) ==
  LET dev == IsDevice(prog, dut.pc)
      bad == ~dev /\ s # Exec(prog, dut)
  IN  /\ npc_state = "RUNNING"
      /\ Len(flight) < InFlight
      /\ bad => faults < MaxFaults
      /\ dev => skips < MaxSkips /\ s.pc = Exec(prog, dut).pc
      /\ flight' = Append(flight, [pc |-> dut.pc, gpr |-> s.gpr, bad |-> bad])
      /\ dut' = s
      /\ is_skip_ref' = (is_skip_ref \/ dev)          \* difftest_skip_ref
      /\ skips' = IF dev THEN skips + 1 ELSE skips
      /\ faults' = IF bad THEN faults + 1 ELSE faults
      /\ UNCHANGED <<prog, cpu, ref, n_ignore_first, npc_state, last>>

\* x and p of the debugger, and a watched dereference, call pmem_read too.
cmd_x ==
  /\ npc_state = "RUNNING"
  /\ skips < MaxSkips
  /\ is_skip_ref' = TRUE
  /\ skips' = skips + 1
  /\ UNCHANGED <<prog, dut, flight, cpu, ref, n_ignore_first, npc_state, faults, last>>

----------------------------------------------------------------------------
(* difftest_step, for the instruction c that has just committed            *)

\* ref_difftest_exec(1): the reference has no devices.
ref_difftest_exec(r) ==
  IF IsDevice(prog, r.pc) THEN [r EXCEPT !.pc = TrapPc] ELSE Exec(prog, r)

\* Mutation of difftest_checkregs: the pc is not compared.
difftest_checkregs_gpr(r, pc) == r.gpr = cpu.gpr

difftest_checkregs(r, pc) == r.gpr = cpu.gpr /\ r.pc = pc

update_reg_state(c) == cpu' = [pc |-> c.pc, gpr |-> c.gpr]

\* Mutation of difftest_step: the first commit is compared like any other.
difftest_step_first(c) ==
  IF is_skip_ref
  THEN /\ ref' = [pc |-> c.pc, gpr |-> c.gpr]
       /\ is_skip_ref' = FALSE
       /\ UNCHANGED <<n_ignore_first, npc_state>>
  ELSE /\ ref' = ref_difftest_exec(ref)
       /\ npc_state' = IF difftest_checkregs(ref', c.pc) THEN npc_state ELSE "ABORT"
       /\ UNCHANGED <<is_skip_ref, n_ignore_first>>

difftest_step(c) ==
  IF is_skip_ref
  THEN /\ ref' = [pc |-> c.pc, gpr |-> c.gpr]         \* the copy, to the reference
       /\ is_skip_ref' = FALSE
       /\ UNCHANGED <<n_ignore_first, npc_state>>
  ELSE IF n_ignore_first
  THEN /\ ref' = ref_difftest_exec(ref)
       /\ npc_state' = IF difftest_checkregs(ref', c.pc) THEN npc_state ELSE "ABORT"
       /\ UNCHANGED <<is_skip_ref, n_ignore_first>>
  ELSE /\ n_ignore_first' = TRUE
       /\ UNCHANGED <<ref, is_skip_ref, npc_state>>

Commit ==
  /\ npc_state = "RUNNING"
  /\ flight # << >>
  /\ difftest_step(Head(flight))
  /\ update_reg_state(Head(flight))
  /\ flight' = Tail(flight)
  /\ last' = Head(flight).bad
  /\ UNCHANGED <<prog, dut, faults, skips>>

DifftestNext == \/ \E s \in State : Issue(s)
        \/ Commit
        \/ cmd_x

DifftestSpec == DifftestInit /\ [][DifftestNext]_difftestVars

----------------------------------------------------------------------------
(* difftest_step reports no error of a core that makes none: as long as no *)
(* skip has been raised, an ABORT means that some instruction was executed *)
(* wrongly, although the copy compared is one commit old and the first     *)
(* commit is not compared at all.                                          *)
NoFalseAlarm == npc_state = "ABORT" => faults > 0 \/ skips > 0

(* A wrong result or a wrong jump is reported at the commit after that of  *)
(* the wrong instruction, neither later nor never, as long as no skip has  *)
(* been raised: the lag of one commit loses no instruction.                *)
DetectsNext ==
  [][Commit /\ last /\ skips = 0 => npc_state' = "ABORT"]_difftestVars

(* init_difftest prints "The result of every instruction will be compared  *)
(* with %s.": a wrong instruction is reported at the next commit.          *)
EveryResultCompared ==
  [][Commit /\ last => npc_state' = "ABORT"]_difftestVars
=============================================================================
