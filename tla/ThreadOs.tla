------------------------------ MODULE ThreadOs ------------------------------
(***************************************************************************)
(* am-kernels/kernels/thread-os on the native port of the abstract machine *)
(* (abstract-machine/am/src/native: cte.c, mpe.c): NCpu processes share    *)
(* the data section, a timer signal preempts each of them, and the tasks   *)
(* print under a spin lock.  The context of a preempted task lies on its   *)
(* own stack, and the handler that stores it runs on that stack too.       *)
(***************************************************************************)
EXTENDS Naturals

CONSTANTS
  NCpu,               \* cpu_count()
  NTasks              \* LENGTH(tasks)

\* on_interrupt does not return on a CPU that has no task.
ASSUME CpuAssumption ==
  /\ NCpu \in Nat \ {0} /\ NTasks \in Nat \ {0}
  /\ NCpu <= NTasks

CPU   == 0..(NCpu - 1)
Task  == 0..(NTasks - 1)
NULL  == NTasks                       \* currents[cpu] before the first interrupt

VARIABLES
  pc,                 \* where each CPU is
  on,                 \* whose stack it is on: a task's, or NULL for its boot stack
  sti,                \* are interrupts enabled (the signal mask)
  saved,              \* the context setup_stack left on that stack
  context,            \* task->context, the pc of it
  current,            \* currents[cpu]
  locked,             \* the lock word
  pipe,               \* bytes in sync_pipe
  forked,             \* CPUs that exist
  at                  \* history: where each task really is

osVars == <<pc, on, sti, saved, context, current, locked, pipe, forked, at>>

\* func: lock, printf, unlock, the delay loop
FuncPc == {"lock", "printf", "unlock", "delay"}

\* main up to mpe_init: every task has the context kcontext built.
Init ==
  /\ pc = [c \in CPU |-> IF c = 0 THEN "fork" ELSE "unborn"]
  /\ on = [c \in CPU |-> NULL]
  /\ sti = [c \in CPU |-> FALSE]
  /\ saved = [c \in CPU |-> "lock"]
  /\ context = [t \in Task |-> "lock"]
  /\ current = [c \in CPU |-> NULL]
  /\ locked = FALSE
  /\ pipe = 0
  /\ forked = 1
  /\ at = [t \in Task |-> "lock"]

----------------------------------------------------------------------------
(* mpe_init *)

fork ==
  /\ pc[0] = "fork"
  /\ IF forked < NCpu
     THEN /\ pc' = [pc EXCEPT ![forked] = "read"]
          /\ forked' = forked + 1
          /\ UNCHANGED pipe
     ELSE /\ pc' = [pc EXCEPT ![0] = "mp_entry"]
          /\ pipe' = NCpu - 1
          /\ UNCHANGED forked
  /\ UNCHANGED <<on, sti, saved, context, current, locked, at>>

read(c) ==
  /\ pc[c] = "read"
  /\ pipe > 0
  /\ pipe' = pipe - 1
  /\ pc' = [pc EXCEPT ![c] = "mp_entry"]
  /\ UNCHANGED <<on, sti, saved, context, current, locked, forked, at>>

\* iset(true)
mp_entry(c) ==
  /\ pc[c] = "mp_entry"
  /\ sti' = [sti EXCEPT ![c] = TRUE]
  /\ pc' = [pc EXCEPT ![c] = "yield"]
  /\ UNCHANGED <<on, saved, context, current, locked, pipe, forked, at>>

----------------------------------------------------------------------------
(* The tasks *)

\* The running task's next pc.
Goto(c, l) ==
  /\ pc' = [pc EXCEPT ![c] = l]
  /\ at' = [at EXCEPT ![on[c]] = l]
  /\ UNCHANGED <<on, sti, saved, context, current, pipe, forked>>

\* Mutation of lock: the word is tested, but not set.
lock_test_only(c) ==
  /\ pc[c] = "lock"
  /\ UNCHANGED locked
  /\ Goto(c, IF locked THEN "lock" ELSE "printf")

\* One round of the spin: the exchange is atomic.
lock(c) ==
  /\ pc[c] = "lock"
  /\ locked' = TRUE
  /\ Goto(c, IF locked THEN "lock" ELSE "printf")

printf(c) ==
  /\ pc[c] = "printf"
  /\ Goto(c, "unlock")
  /\ UNCHANGED locked

unlock(c) ==
  /\ pc[c] = "unlock"
  /\ locked' = FALSE
  /\ Goto(c, "delay")

delay(c) ==
  /\ pc[c] = "delay"
  /\ Goto(c, "lock")
  /\ UNCHANGED locked

----------------------------------------------------------------------------
(* Interrupts *)

\* setup_stack: the context goes onto the stack of whoever was interrupted,
\* and irq_handle runs there with interrupts disabled.
setup_stack(c, l) ==
  /\ saved' = [saved EXCEPT ![c] = l]
  /\ sti' = [sti EXCEPT ![c] = FALSE]
  /\ pc' = [pc EXCEPT ![c] = "irq_handle"]
  /\ UNCHANGED <<on, context, current, locked, pipe, forked, at>>

\* Mutation of timer: the exchange of lock counts as library code.
timer_library(c) ==
  /\ sti[c]
  /\ pc[c] \notin {"printf", "lock"}
  /\ setup_stack(c, pc[c])

\* SIGVTALRM; in a shared library, where printf is, it is refused.
timer(c) ==
  /\ sti[c]
  /\ pc[c] # "printf"
  /\ setup_stack(c, pc[c])

\* raise(SIGUSR2), never refused
yield(c) ==
  /\ pc[c] = "yield"
  /\ setup_stack(c, "return")

\* (current - tasks) % cpu_count() == cpu_current()
Pinned(t, c) == t % NCpu = c

\* The task n places further round the ring.
Ring(t, n) == (t + n) % NTasks

\* Mutation of next_task: the loop body runs once.
next_task_any(t, c) == Ring(t, 1)

\* The do loop of on_interrupt.
next_task(t, c) ==
  Ring(t, CHOOSE n \in 1..NTasks :
            /\ Pinned(Ring(t, n), c)
            /\ \A k \in 1..(n - 1) : ~Pinned(Ring(t, k), c))

\* Mutation of save_context: without the else.
save_context_boot(c) ==
  [context EXCEPT ![IF current[c] = NULL THEN 0 ELSE current[c]] = saved[c]]

\* The boot context is dropped, a task's is stored.
save_context(c) ==
  IF current[c] = NULL THEN context ELSE [context EXCEPT ![current[c]] = saved[c]]

\* irq_handle up to the magic call, on_interrupt included.
irq_handle(c) ==
  /\ pc[c] = "irq_handle"
  /\ context' = save_context(c)
  /\ current' = [current EXCEPT ![c] =
                   next_task(IF current[c] = NULL THEN 0 ELSE current[c], c)]
  /\ pc' = [pc EXCEPT ![c] = "iret"]
  /\ UNCHANGED <<on, sti, saved, locked, pipe, forked, at>>

\* The SEGV of the magic call: pc, stack and mask of the context.
iret(c) ==
  /\ pc[c] = "iret"
  /\ pc' = [pc EXCEPT ![c] = context[current[c]]]
  /\ on' = [on EXCEPT ![c] = current[c]]
  /\ sti' = [sti EXCEPT ![c] = TRUE]
  /\ UNCHANGED <<saved, context, current, locked, pipe, forked, at>>

----------------------------------------------------------------------------
func(c) == lock(c) \/ printf(c) \/ unlock(c) \/ delay(c)

Boot(c) == read(c) \/ mp_entry(c) \/ yield(c)

Trap(c) == irq_handle(c) \/ iret(c)

Next == fork \/ \E c \in CPU : Boot(c) \/ func(c) \/ Trap(c) \/ timer(c)

Spec == Init /\ [][Next]_osVars

(* Every process keeps running, and its interval timer keeps firing.  The  *)
(* timer counts the time the process itself runs, so that a task that is   *)
(* given the CPU again and again also gets on between two ticks.           *)
FairSpec ==
  /\ Spec
  /\ WF_osVars(fork)
  /\ \A c \in CPU : WF_osVars(Boot(c)) /\ WF_osVars(Trap(c)) /\ WF_osVars(timer(c))
  /\ \A t \in Task : SF_osVars(\E c \in CPU : on[c] = t /\ func(c))

----------------------------------------------------------------------------
(* Properties *)

TypeOK ==
  /\ pc \in [CPU -> FuncPc \cup {"fork", "unborn", "read", "mp_entry", "yield",
                                 "return", "irq_handle", "iret"}]
  /\ on \in [CPU -> Task \cup {NULL}]
  /\ sti \in [CPU -> BOOLEAN]
  /\ saved \in [CPU -> FuncPc \cup {"yield", "return"}]
  /\ context \in [Task -> FuncPc \cup {"yield", "return"}]
  /\ current \in [CPU -> Task \cup {NULL}]
  /\ locked \in BOOLEAN
  /\ pipe \in Nat /\ forked \in Nat
  /\ at \in [Task -> FuncPc]

(* No two CPUs are ever on the same stack, the handler that is about to    *)
(* leave one included: a task whose context has just been stored is still  *)
(* under the feet of the CPU that stored it.                               *)
OneStackEach ==
  \A c, d \in CPU : c # d /\ on[c] # NULL => on[c] # on[d]

(* A task goes on where it was interrupted, and mp_entry never returns     *)
(* (mpe_init would panic): the boot context is in no task's place.         *)
ResumesWhereLeft ==
  /\ TypeOK
  /\ \A c \in CPU :
       /\ pc[c] # "return"
       /\ pc[c] \in FuncPc => on[c] # NULL /\ pc[c] = at[on[c]]

(* One task at a time prints, whichever CPU it is on and whether it runs   *)
(* or has been preempted with the lock.                                    *)
OnePrints ==
  \A t, u \in Task :
    at[t] \in {"printf", "unlock"} /\ at[u] \in {"printf", "unlock"} => t = u

(* The lock is always released again, also by a task that was preempted    *)
(* while it held it and whose CPU spins for it meanwhile.                  *)
LockReleased == locked ~> ~locked
=============================================================================
