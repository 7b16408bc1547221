-------------------------------- MODULE Cte --------------------------------
(***************************************************************************)
(* Context switching on the core: trap entry and exit                      *)
(* (abstract-machine/am/src/riscv/core/trap.S), the event handler and      *)
(* kcontext (cte.c), and the scheduler of am-kernels/kernels/yield-os,     *)
(* whose two threads run on stacks that share a union with the pointer to  *)
(* their saved context.  A stack is a sequence of slots; one slot holds a  *)
(* local of a function or a whole Context.                                 *)
(***************************************************************************)
EXTENDS Naturals, Sequences

CONSTANTS
  STACK_SIZE,         \* slots of a stack; slot 0 is PCB.cp
  Locals,             \* values a function keeps on its stack
  MaxDepth            \* nested calls of a thread

\* The locals, the context of a yield and the pointer fit.
ASSUME StackAssumption ==
  /\ MaxDepth \in Nat /\ Locals \subseteq Nat
  /\ STACK_SIZE \in Nat /\ STACK_SIZE >= MaxDepth + 2

Boot    == 0
Threads == 1..2                       \* pcb[0] and pcb[1]
Pcb     == {Boot} \cup Threads

VARIABLES
  pc,                 \* where the hart is
  x,                  \* its registers but for the two below
  sp, a0,             \* stack pointer and argument: <<stack, slot>> and a word
  csr,                \* mepc, mcause, mstatus
  mem,                \* the three stacks
  current,            \* of yield-os
  out,                \* the last character printed
  frames              \* history: the locals each thread has pushed

cteVars == <<pc, x, sp, a0, csr, mem, current, out, frames>>

Garbage == 0                          \* whatever is in the register or slot

\* Mutation of kcontext: the argument is dropped.
kcontext_no_arg(entry, arg) ==
  [x |-> Garbage, a0 |-> Garbage, mepc |-> entry, mstatus |-> "0x1800",
   mcause |-> Garbage]

kcontext(entry, arg) ==
  [x |-> Garbage, a0 |-> arg, mepc |-> entry, mstatus |-> "0x1800", mcause |-> Garbage]

\* main up to its yield: cte_init and the two contexts at the ends of their
\* stacks.  Slot 0 of the boot stack stands for pcb_boot.cp.
CteInit ==
  /\ pc = "main"
  /\ x = Garbage
  /\ sp = <<Boot, STACK_SIZE>>
  /\ a0 = Garbage
  /\ csr = [mepc |-> Garbage, mcause |-> Garbage, mstatus |-> "0x1800"]
  /\ mem = [s \in Pcb |-> [i \in 0..(STACK_SIZE - 1) |->
              CASE s # Boot /\ i = 0              -> STACK_SIZE - 1
                [] s # Boot /\ i = STACK_SIZE - 1 -> kcontext("f", s)
                [] OTHER                          -> Garbage]]
  /\ current = Boot
  /\ out = Garbage
  /\ frames = [t \in Threads |-> << >>]

\* The slot below sp, and the memory with v stored there.
Below      == <<sp[1], sp[2] - 1>>
Pushed(v)  == [mem EXCEPT ![sp[1]][sp[2] - 1] = v]

----------------------------------------------------------------------------
(* The threads.  f prints and yields for ever; what it calls in between    *)
(* may push locals, and yield may be called at any depth.                  *)

Me == sp[1]

\* The prologue keeps the argument in a callee-saved register.
Enter ==
  /\ pc = "f"
  /\ x' = a0
  /\ pc' = "loop"
  /\ UNCHANGED <<sp, a0, csr, mem, current, out, frames>>

putch ==
  /\ pc = "loop"
  /\ out' = x
  /\ pc' = "yield_ecall"
  /\ UNCHANGED <<x, sp, a0, csr, mem, current, frames>>

Call(v) ==
  /\ pc = "yield_ecall"
  /\ Me \in Threads /\ Len(frames[Me]) < MaxDepth
  /\ mem' = Pushed(v)
  /\ sp' = Below
  /\ frames' = [frames EXCEPT ![Me] = Append(@, v)]
  /\ UNCHANGED <<pc, x, a0, csr, current, out>>

Return ==
  /\ pc = "yield_after"
  /\ frames[Me] # << >>
  /\ sp' = <<Me, sp[2] + 1>>
  /\ frames' = [frames EXCEPT ![Me] = SubSeq(@, 1, Len(@) - 1)]
  /\ UNCHANGED <<pc, x, a0, csr, mem, current, out>>

Again ==
  /\ pc = "yield_after"
  /\ pc' = "loop"
  /\ UNCHANGED <<x, sp, a0, csr, mem, current, out, frames>>

\* ecall from main or from a thread: mcause is 0xb, mepc the ecall itself.
ecall ==
  /\ pc \in {"main", "yield_ecall"}
  /\ csr' = [csr EXCEPT !.mepc = pc, !.mcause = "0xb"]
  /\ pc' = "trap_save"
  /\ UNCHANGED <<x, sp, a0, mem, current, out, frames>>

----------------------------------------------------------------------------
(* __am_asm_trap *)

\* All registers but sp, and the three CSRs; then t0..t2 are clobbered.
Save ==
  /\ pc = "trap_save"
  /\ mem' = Pushed([x |-> x, a0 |-> a0, mepc |-> csr.mepc, mstatus |-> csr.mstatus,
                    mcause |-> csr.mcause])
  /\ sp' = Below
  /\ x' = Garbage
  /\ pc' = "trap_handle"
  /\ UNCHANGED <<a0, csr, current, out, frames>>

\* The address after the ecall.
Plus4(a) == CASE a = "main" -> "main_after" [] a = "yield_ecall" -> "yield_after"
              [] OTHER -> a

\* Mutation of irq_mepc: the event does not move mepc.
irq_mepc_same(c) == c.mepc

\* The switch of __am_irq_handle; an ERROR leaves mepc alone.
irq_mepc(c) == IF c.mcause = "0xb" THEN Plus4(c.mepc) ELSE c.mepc

\* schedule
next_thread == IF current = 1 THEN 2 ELSE 1

\* __am_irq_handle(sp) with schedule as handler: the interrupted context goes
\* to PCB.cp, and the other thread's context comes back in a0.
am_irq_handle ==
  LET c == mem[sp[1]][sp[2]]
      m == [mem EXCEPT ![sp[1]][sp[2]].mepc = irq_mepc(c),
                       ![current][0] = sp[2]]
  IN  /\ pc = "trap_handle"
      /\ mem' = m
      /\ current' = next_thread
      /\ a0' = <<next_thread, m[next_thread][0]>>
      /\ pc' = "trap_restore"
      /\ UNCHANGED <<x, sp, csr, out, frames>>

\* mv sp, a0; the CSRs and registers of that context; mret.
Restore ==
  LET c == mem[a0[1]][a0[2]]
  IN  /\ pc = "trap_restore"
      /\ x' = c.x
      /\ a0' = c.a0
      /\ sp' = <<a0[1], a0[2] + 1>>
      /\ csr' = [csr EXCEPT !.mepc = c.mepc, !.mstatus = c.mstatus]
      /\ pc' = c.mepc
      /\ UNCHANGED <<mem, current, out, frames>>

CteNext ==
  \/ Enter \/ putch \/ Return \/ Again \/ ecall
  \/ \E v \in Locals : Call(v)
  \/ Save \/ am_irq_handle \/ Restore

(* The hart keeps executing. *)
CteSpec == CteInit /\ [][CteNext]_cteVars /\ WF_cteVars(CteNext)

----------------------------------------------------------------------------
Running == pc \in {"loop", "yield_ecall", "yield_after"}

(* A switch is invisible to the thread: while it runs, its register still  *)
(* holds the argument kcontext gave it, its stack pointer and its locals   *)
(* are those it left, and it runs on its own stack, whatever the other     *)
(* thread, the trap code and the contexts stored in between have done.     *)
(* The boot context is never resumed: main would panic with "Should not    *)
(* reach here!".                                                           *)
OwnState ==
  /\ pc # "main_after"
  /\ Running =>
       /\ current = Me /\ Me \in Threads
       /\ x = Me
       /\ sp[2] = STACK_SIZE - Len(frames[Me])
       /\ \A k \in 1..Len(frames[Me]) : mem[Me][STACK_SIZE - k] = frames[Me][k]

(* Both threads print again and again: yield, trap and schedule pass the   *)
(* hart on and come back after the ecall, not to it.                       *)
BothPrint == []<>(out = 1) /\ []<>(out = 2)
=============================================================================
