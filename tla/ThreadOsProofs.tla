--------------------------- MODULE ThreadOsProofs ---------------------------
(***************************************************************************)
(* thread-os: no two processors share a stack, a task goes on where it was *)
(* interrupted, and one task prints at a time, for every number of         *)
(* processors and tasks.                                                   *)
(***************************************************************************)
EXTENDS ThreadOs, NatLemmas

----------------------------------------------------------------------------
(* The inductive invariant *)

\* The processors fork has not reached, and those that have no task yet.
Booting(c) ==
  /\ c >= forked => pc[c] = "unborn"
  /\ pc[c] \in {"fork", "unborn", "read", "mp_entry", "yield"} =>
       on[c] = NULL /\ current[c] = NULL

\* While it is inside a task or the handler, a processor's stack is its
\* current task's; only iret, between the two, may leave the old one.
Running(c) ==
  /\ pc[c] \in FuncPc => on[c] = current[c] /\ on[c] # NULL /\ pc[c] = at[on[c]]
  /\ pc[c] = "irq_handle" =>
       /\ on[c] = current[c]
       /\ on[c] # NULL => saved[c] = at[on[c]]
  /\ pc[c] = "iret" => current[c] # NULL
  /\ pc[c] # "return"
  /\ sti[c] => pc[c] \in FuncPc \cup {"yield"}

\* A processor only ever has tasks of its own.
Own(c) ==
  /\ current[c] # NULL => Pinned(current[c], c)
  /\ on[c] # NULL => Pinned(on[c], c)

\* The task that is executing, whose stored context is stale.
Executing(t) ==
  \E c \in CPU : current[c] = t /\ pc[c] \in FuncPc \cup {"irq_handle"}

\* The stored context of every other task is where it really is.
Stored(t) == ~Executing(t) => context[t] = at[t]

\* A task between the exchange that got the lock and the one that frees it.
Holds(t) == at[t] \in {"printf", "unlock"}

HeldLocked == \A t \in Task : Holds(t) => locked

IInv ==
  /\ TypeOK
  /\ forked \in 1..NCpu
  /\ \A c \in CPU : Booting(c) /\ Running(c) /\ Own(c)
  /\ \A t \in Task : Stored(t)
  /\ HeldLocked
  /\ OnePrints

----------------------------------------------------------------------------
(* The ring of tasks *)

\* The search of on_interrupt comes round to a task of its own processor,
\* as every processor has one.
LEMMA RingReaches ==
  ASSUME NEW t \in Task, NEW c \in CPU
  PROVE  \E n \in 1..NTasks : Ring(t, n) \in Task /\ Pinned(Ring(t, n), c)
<1>1. /\ NCpu \in Nat \ {0} /\ NTasks \in Nat \ {0} /\ NCpu <= NTasks
      /\ t \in Nat /\ t < NTasks /\ c \in Nat /\ c < NCpu /\ c \in Task
  BY CpuAssumption DEF Task, CPU
<1>2. Pinned(c, c)
  BY <1>1, ModSmall DEF Pinned
<1>3. CASE t < c
  <2>1. c - t \in 1..NTasks /\ t + (c - t) = c
    BY <1>1, <1>3
  <2>2. c % NTasks = c
    BY <1>1, ModSmall
  <2>3. QED BY <1>1, <1>2, <2>1, <2>2 DEF Ring
<1>4. CASE c <= t
  <2>1. NTasks - t + c \in 1..NTasks /\ t + (NTasks - t + c) = NTasks * 1 + c
    BY <1>1, <1>4
  <2>2. (NTasks * 1 + c) % NTasks = c % NTasks
    BY <1>1, ModAdd
  <2>3. c % NTasks = c
    BY <1>1, ModSmall
  <2>4. QED BY <1>1, <1>2, <2>1, <2>2, <2>3 DEF Ring
<1>5. QED BY <1>1, <1>3, <1>4

\* The task on_interrupt chooses is pinned to the processor it runs on.
LEMMA NextTaskPinned ==
  ASSUME NEW t \in Task, NEW c \in CPU
  PROVE  next_task(t, c) \in Task /\ Pinned(next_task(t, c), c)
<1> DEFINE T == {n \in 1..NTasks : Pinned(Ring(t, n), c)}
           P(n) == /\ Pinned(Ring(t, n), c)
                   /\ \A k \in 1..(n - 1) : ~Pinned(Ring(t, k), c)
<1>1. NTasks \in Nat \ {0} /\ T \in SUBSET Nat /\ T # {}
  BY RingReaches, CpuAssumption
<1>2. PICK m \in T : \A k \in T : m <= k
  BY <1>1, LeastElement
<1>3. m \in 1..NTasks /\ P(m)
  BY <1>1, <1>2
<1> DEFINE x == CHOOSE n \in 1..NTasks : P(n)
<1>4. x \in 1..NTasks /\ P(x)
  BY <1>3
<1>5. next_task(t, c) = Ring(t, x)
  BY DEF next_task
<1>6. Ring(t, x) \in Task
  <2> HIDE DEF x
  <2>1. t + x \in Int
    BY <1>1, <1>4 DEF Task
  <2>2. (t + x) % NTasks \in 0..(NTasks - 1)
    BY <1>1, <2>1, ModRange
  <2>3. QED BY <2>2 DEF Ring, Task
<1>7. QED BY <1>4, <1>5, <1>6

\* Two processors never have the same task, nor the same stack.
LEMMA NotShared ==
  ASSUME IInv, NEW c \in CPU, NEW d \in CPU, c # d
  PROVE  /\ on[c] # NULL => on[c] # on[d]
         /\ current[c] # NULL => current[c] # current[d]
BY DEF IInv, Own, Pinned

----------------------------------------------------------------------------
(* Initial states *)

\* main up to mpe_init establishes it.
LEMMA InitIInv == Init => IInv
<1> SUFFICES ASSUME Init PROVE IInv
  OBVIOUS
<1>1. NCpu \in Nat \ {0} /\ NTasks \in Nat \ {0}
  BY CpuAssumption
<1>2. TypeOK
  BY <1>1 DEF Init, TypeOK, FuncPc
<1>3. forked \in 1..NCpu
  BY <1>1 DEF Init
<1>4. \A c \in CPU : Booting(c) /\ Running(c) /\ Own(c)
  BY <1>1 DEF Init, CPU, Booting, Running, Own, FuncPc
<1>5. (\A t \in Task : Stored(t)) /\ HeldLocked /\ OnePrints
  BY DEF Init, Stored, HeldLocked, Holds, OnePrints
<1>6. QED BY <1>2, <1>3, <1>4, <1>5 DEF IInv

----------------------------------------------------------------------------
(* Steps that move one processor and no task *)

\* A step of processor c outside the tasks: what it leaves alone holds for
\* the others as before.
LEMMA BootKeeps ==
  ASSUME IInv, NEW c \in CPU, NEW l \in {"read", "mp_entry", "yield"},
         pc[c] \in {"fork", "unborn", "read", "mp_entry"}, c < forked',
         pc' = [pc EXCEPT ![c] = l],
         sti' = sti \/ (l = "yield" /\ sti' = [sti EXCEPT ![c] = TRUE]),
         pipe' \in Nat, forked' \in forked..NCpu,
         UNCHANGED <<on, saved, context, current, locked, at>>
  PROVE  IInv'
<1>1. TypeOK /\ forked \in 1..NCpu
  BY DEF IInv
<1>2. TypeOK' /\ forked' \in 1..NCpu
  <2>1. forked' \in Nat /\ forked' \in 1..NCpu
    BY <1>1, CpuAssumption
  <2>2. sti' \in [CPU -> BOOLEAN]
    BY <1>1 DEF TypeOK
  <2>3. pc' \in [CPU -> FuncPc \cup {"fork", "unborn", "read", "mp_entry", "yield",
                                     "return", "irq_handle", "iret"}]
    BY <1>1 DEF TypeOK
  <2>4. QED BY <1>1, <2>1, <2>2, <2>3 DEF TypeOK
<1>3. ASSUME NEW d \in CPU PROVE Booting(d)' /\ Running(d)' /\ Own(d)'
  <2>1. Booting(d) /\ Running(d) /\ Own(d) /\ Booting(c)
    BY DEF IInv
  <2>2. pc'[d] = IF d = c THEN l ELSE pc[d]
    BY <1>1 DEF TypeOK
  <2>3. forked \in Nat /\ forked' \in Nat /\ c \in Nat /\ d \in Nat /\ forked <= forked'
    BY <1>1, CpuAssumption DEF CPU
  <2>4. Booting(d)'
    BY <2>1, <2>2, <2>3 DEF Booting
  <2>5. Running(d)'
    <3>1. sti'[d] => sti[d] \/ (d = c /\ l = "yield")
      BY <1>1 DEF TypeOK
    <3>2. QED BY <2>1, <2>2, <3>1 DEF Running, Booting, FuncPc
  <2>6. Own(d)'
    BY <2>1 DEF Own, Pinned
  <2>7. QED BY <2>4, <2>5, <2>6
<1>4. ASSUME NEW t \in Task PROVE Stored(t)'
  <2>1. Stored(t)
    BY DEF IInv
  <2>2. Executing(t) => Executing(t)'
    BY <1>1 DEF Executing, TypeOK, FuncPc
  <2>3. QED BY <2>1, <2>2 DEF Stored
<1>5. HeldLocked' /\ OnePrints'
  BY DEF IInv, HeldLocked, OnePrints, Holds
<1>6. QED BY <1>2, <1>3, <1>4, <1>5 DEF IInv

\* fork makes the next processor, or is done.
LEMMA StepFork == IInv /\ fork => IInv'
<1> SUFFICES ASSUME IInv, fork PROVE IInv'
  OBVIOUS
<1>1. /\ TypeOK /\ forked \in 1..NCpu /\ NCpu \in Nat \ {0}
      /\ \A c \in CPU : Booting(c)
  BY CpuAssumption DEF IInv
<1>2. CASE forked < NCpu
  <2>1. forked \in CPU /\ pc[forked] = "unborn"
    BY <1>1, <1>2 DEF Booting, CPU
  <2>2. /\ pc' = [pc EXCEPT ![forked] = "read"] /\ forked' = forked + 1
        /\ UNCHANGED <<on, sti, saved, context, current, locked, pipe, at>>
    BY <1>2 DEF fork
  <2>3. /\ pipe' \in Nat /\ forked' \in forked..NCpu /\ forked < forked'
    BY <1>1, <1>2, <2>2 DEF TypeOK
  <2>4. QED BY <2>1, <2>2, <2>3, BootKeeps
<1>3. CASE ~(forked < NCpu)
  <2>1. 0 \in CPU /\ pc[0] = "fork"
    BY <1>1 DEF fork, CPU
  <2>2. /\ pc' = [pc EXCEPT ![0] = "mp_entry"] /\ pipe' = NCpu - 1
        /\ UNCHANGED <<on, sti, saved, context, current, locked, forked, at>>
    BY <1>3 DEF fork
  <2>3. /\ pipe' \in Nat /\ forked' \in forked..NCpu /\ 0 < forked'
    BY <1>1, <2>2 DEF TypeOK
  <2>4. QED BY <2>1, <2>2, <2>3, BootKeeps
<1>4. QED BY <1>2, <1>3

\* A forked process waits for its byte.
LEMMA StepRead == ASSUME NEW c \in CPU PROVE IInv /\ read(c) => IInv'
<1> SUFFICES ASSUME IInv, read(c) PROVE IInv'
  OBVIOUS
<1>1. /\ TypeOK /\ forked \in 1..NCpu /\ NCpu \in Nat \ {0} /\ Booting(c) /\ c \in Nat
  BY CpuAssumption DEF IInv, CPU
<1>2. /\ pc[c] = "read" /\ pc' = [pc EXCEPT ![c] = "mp_entry"] /\ pipe > 0 /\ pipe' = pipe - 1
      /\ UNCHANGED <<on, sti, saved, context, current, locked, forked, at>>
  BY DEF read
<1>3. /\ pipe' \in Nat /\ forked' \in forked..NCpu /\ c < forked'
  BY <1>1, <1>2 DEF TypeOK, Booting
<1>4. QED BY <1>2, <1>3, BootKeeps

\* iset(true) of the entry of the other processors.
LEMMA StepMpEntry == ASSUME NEW c \in CPU PROVE IInv /\ mp_entry(c) => IInv'
<1> SUFFICES ASSUME IInv, mp_entry(c) PROVE IInv'
  OBVIOUS
<1>1. /\ TypeOK /\ forked \in 1..NCpu /\ NCpu \in Nat \ {0} /\ Booting(c) /\ c \in Nat
  BY CpuAssumption DEF IInv, CPU
<1>2. /\ pc[c] = "mp_entry" /\ pc' = [pc EXCEPT ![c] = "yield"]
      /\ sti' = [sti EXCEPT ![c] = TRUE]
      /\ UNCHANGED <<on, saved, context, current, locked, pipe, forked, at>>
  BY DEF mp_entry
<1>3. /\ pipe' \in Nat /\ forked' \in forked..NCpu /\ c < forked'
  BY <1>1, <1>2 DEF TypeOK, Booting
<1>4. QED BY <1>2, <1>3, BootKeeps

----------------------------------------------------------------------------
(* Steps of the tasks *)

\* A task that moves on keeps everything but the lock's two facts.
LEMMA GotoKeeps ==
  ASSUME IInv, NEW c \in CPU, NEW l \in FuncPc, pc[c] \in FuncPc, Goto(c, l),
         locked' \in BOOLEAN
  PROVE  /\ TypeOK' /\ forked' \in 1..NCpu
         /\ \A d \in CPU : Booting(d)' /\ Running(d)' /\ Own(d)'
         /\ \A t \in Task : Stored(t)'
         /\ on[c] \in Task /\ at[on[c]] = pc[c]
         /\ \A t \in Task : at'[t] = IF t = on[c] THEN l ELSE at[t]
<1>1. TypeOK /\ forked \in 1..NCpu /\ Running(c)
  BY DEF IInv
<1>2. /\ on[c] = current[c] /\ on[c] \in Task /\ at[on[c]] = pc[c]
  BY <1>1 DEF Running, TypeOK
<1>3. /\ UNCHANGED <<on, sti, saved, context, current, pipe, forked>>
      /\ \A d \in CPU : pc'[d] = IF d = c THEN l ELSE pc[d]
      /\ \A t \in Task : at'[t] = IF t = on[c] THEN l ELSE at[t]
  BY <1>1, <1>2 DEF Goto, TypeOK
<1>4. TypeOK' /\ forked' \in 1..NCpu
  BY <1>1, <1>2 DEF TypeOK, Goto
<1>5. ASSUME NEW d \in CPU PROVE Booting(d)' /\ Running(d)' /\ Own(d)'
  <2>1. Booting(d) /\ Running(d) /\ Own(d)
    BY DEF IInv
  <2>2. Booting(d)' /\ Own(d)'
    BY <2>1, <1>3 DEF Booting, Own, Pinned, FuncPc
  <2>3. CASE d = c
    <3>1. Running(d)'
      BY <2>3, <1>1, <1>2, <1>3 DEF Running, FuncPc
    <3>2. QED BY <2>2, <3>1
  <2>4. CASE d # c
    <3>1. on[c] # NULL /\ on[d] # on[c]
      BY <1>1, <1>2, <2>4, NotShared DEF Running
    <3>2. on[d] # NULL => at'[on[d]] = at[on[d]]
      BY <1>1, <1>3, <3>1 DEF TypeOK
    <3>3. Running(d)'
      BY <2>1, <2>4, <1>3, <3>2 DEF Running
    <3>4. QED BY <2>2, <3>3
  <2>5. QED BY <2>2, <2>3, <2>4
<1>6. ASSUME NEW t \in Task PROVE Stored(t)'
  <2>1. Stored(t)
    BY DEF IInv
  <2>2. Executing(t) => Executing(t)'
    BY <1>3 DEF Executing
  <2>3. CASE t = on[c]
    BY <2>3, <1>2, <1>3 DEF Stored, Executing
  <2>4. CASE t # on[c]
    BY <2>1, <2>2, <2>4, <1>3 DEF Stored
  <2>5. QED BY <2>3, <2>4
<1>7. QED BY <1>2, <1>3, <1>4, <1>5, <1>6

\* lock, printf, unlock and the delay loop: the exchange lets one task in.
LEMMA StepFunc == ASSUME NEW c \in CPU PROVE IInv /\ func(c) => IInv'
<1> SUFFICES ASSUME IInv, func(c) PROVE IInv'
  OBVIOUS
<1>1. TypeOK /\ HeldLocked /\ OnePrints
  BY DEF IInv
<1>2. PICK l \in FuncPc :
        /\ pc[c] \in FuncPc /\ Goto(c, l) /\ locked' \in BOOLEAN
        /\ \/ l \in {"lock", "delay"} /\ (locked' = locked \/ locked' = TRUE \/ pc[c] = "unlock")
           \/ l = "printf" /\ ~locked /\ locked'
           \/ l = "unlock" /\ pc[c] = "printf" /\ locked' = locked
  BY <1>1 DEF func, lock, printf, unlock, delay, FuncPc, TypeOK
<1>3. /\ TypeOK' /\ forked' \in 1..NCpu
      /\ \A d \in CPU : Booting(d)' /\ Running(d)' /\ Own(d)'
      /\ \A t \in Task : Stored(t)'
      /\ on[c] \in Task /\ at[on[c]] = pc[c]
      /\ \A t \in Task : at'[t] = IF t = on[c] THEN l ELSE at[t]
  BY <1>2, GotoKeeps
<1>4. HeldLocked' /\ OnePrints'
  BY <1>1, <1>2, <1>3 DEF HeldLocked, OnePrints, Holds, TypeOK
<1>5. QED BY <1>3, <1>4 DEF IInv

----------------------------------------------------------------------------
(* Steps of the handler *)

\* A signal: the handler runs on the stack of whoever it interrupted.
LEMMA SetupStackKeeps ==
  ASSUME IInv, NEW c \in CPU, NEW l \in FuncPc \cup {"yield", "return"},
         \/ pc[c] \in FuncPc /\ l = pc[c]
         \/ pc[c] = "yield",
         setup_stack(c, l)
  PROVE  IInv'
<1>1. TypeOK /\ forked \in 1..NCpu
  BY DEF IInv
<1>2. /\ UNCHANGED <<on, context, current, locked, pipe, forked, at>>
      /\ \A d \in CPU : /\ pc'[d] = IF d = c THEN "irq_handle" ELSE pc[d]
                        /\ sti'[d] = IF d = c THEN FALSE ELSE sti[d]
                        /\ saved'[d] = IF d = c THEN l ELSE saved[d]
  BY <1>1 DEF setup_stack, TypeOK
<1>3. TypeOK' /\ forked' \in 1..NCpu
  BY <1>1 DEF TypeOK, setup_stack
<1>4. ASSUME NEW d \in CPU PROVE Booting(d)' /\ Running(d)' /\ Own(d)'
  <2>1. Booting(d) /\ Running(d) /\ Own(d)
    BY DEF IInv
  <2>2. Booting(d)'
    BY <2>1, <1>2 DEF Booting, FuncPc
  <2>3. Running(d)'
    BY <2>1, <1>2 DEF Running, Booting, FuncPc
  <2>4. Own(d)'
    BY <2>1, <1>2 DEF Own, Pinned
  <2>5. QED BY <2>2, <2>3, <2>4
<1>5. ASSUME NEW t \in Task PROVE Stored(t)'
  <2>1. Stored(t)
    BY DEF IInv
  <2>2. Executing(t) => Executing(t)'
    BY <1>2 DEF Executing
  <2>3. QED BY <2>1, <2>2, <1>2 DEF Stored
<1>6. HeldLocked' /\ OnePrints'
  BY <1>2 DEF IInv, HeldLocked, OnePrints, Holds
<1>7. QED BY <1>3, <1>4, <1>5, <1>6 DEF IInv

\* The timer interrupts a task, or the loop of mp_entry.
LEMMA StepTimer == ASSUME NEW c \in CPU PROVE IInv /\ timer(c) => IInv'
<1> SUFFICES ASSUME IInv, timer(c) PROVE IInv'
  OBVIOUS
<1>1. Running(c) /\ sti[c] /\ setup_stack(c, pc[c])
  BY DEF IInv, timer
<1>2. pc[c] \in FuncPc \cup {"yield"}
  BY <1>1 DEF Running
<1>3. QED BY <1>1, <1>2, SetupStackKeeps

\* The first trap of a processor.
LEMMA StepYield == ASSUME NEW c \in CPU PROVE IInv /\ yield(c) => IInv'
BY SetupStackKeeps DEF yield

\* irq_handle stores the context of the task it interrupted, which is where
\* the task is, and goes on with a task of the same processor.
LEMMA StepIrqHandle == ASSUME NEW c \in CPU PROVE IInv /\ irq_handle(c) => IInv'
<1> SUFFICES ASSUME IInv, irq_handle(c) PROVE IInv'
  OBVIOUS
<1>1. TypeOK /\ forked \in 1..NCpu /\ Running(c) /\ NTasks \in Nat \ {0}
  BY CpuAssumption DEF IInv
<1> DEFINE old == current[c]
           new == next_task(IF old = NULL THEN 0 ELSE old, c)
<1>2. /\ pc[c] = "irq_handle" /\ on[c] = old /\ old \in Task \cup {NULL}
      /\ old # NULL => saved[c] = at[old]
  BY <1>1 DEF irq_handle, Running, TypeOK
<1>3. new \in Task /\ Pinned(new, c) /\ new # NULL
  <2>1. (IF old = NULL THEN 0 ELSE old) \in Task
    BY <1>1, <1>2 DEF Task
  <2>2. new \in Task /\ Pinned(new, c)
    BY <2>1, NextTaskPinned
  <2>3. QED BY <1>1, <2>2 DEF Task, NULL
<1>4. /\ UNCHANGED <<on, sti, saved, locked, pipe, forked, at>>
      /\ pc' = [pc EXCEPT ![c] = "iret"]
      /\ current' = [current EXCEPT ![c] = new]
      /\ context' = IF old = NULL THEN context ELSE [context EXCEPT ![old] = at[old]]
  BY <1>2 DEF irq_handle, save_context
<1> HIDE DEF new
<1>5. /\ \A d \in CPU : /\ pc'[d] = IF d = c THEN "iret" ELSE pc[d]
                        /\ current'[d] = IF d = c THEN new ELSE current[d]
      /\ \A t \in Task : context'[t] = IF t = old THEN at[old] ELSE context[t]
  BY <1>1, <1>2, <1>4 DEF TypeOK, Task, NULL
<1>6. TypeOK' /\ forked' \in 1..NCpu
  BY <1>1, <1>2, <1>3, <1>4 DEF TypeOK
<1>7. ASSUME NEW d \in CPU PROVE Booting(d)' /\ Running(d)' /\ Own(d)'
  <2>1. Booting(d) /\ Running(d) /\ Own(d)
    BY DEF IInv
  <2>2. Booting(d)'
    BY <2>1, <1>2, <1>4, <1>5 DEF Booting
  <2>3. Running(d)'
    BY <2>1, <1>2, <1>3, <1>4, <1>5 DEF Running, FuncPc
  <2>4. Own(d)'
    BY <2>1, <1>3, <1>4, <1>5 DEF Own, Pinned
  <2>5. QED BY <2>2, <2>3, <2>4
<1>8. ASSUME NEW t \in Task PROVE Stored(t)'
  <2>1. Stored(t)
    BY DEF IInv
  <2>2. CASE t = old
    BY <2>2, <1>4, <1>5 DEF Stored
  <2>3. CASE t # old
    <3>1. Executing(t) => Executing(t)'
      BY <1>5, <2>3 DEF Executing
    <3>2. QED BY <2>1, <2>3, <3>1, <1>4, <1>5 DEF Stored
  <2>4. QED BY <2>2, <2>3
<1>9. HeldLocked' /\ OnePrints'
  BY <1>4 DEF IInv, HeldLocked, OnePrints, Holds
<1>10. QED BY <1>6, <1>7, <1>8, <1>9 DEF IInv

\* The magic call enters the task where it is.
LEMMA StepIret == ASSUME NEW c \in CPU PROVE IInv /\ iret(c) => IInv'
<1> SUFFICES ASSUME IInv, iret(c) PROVE IInv'
  OBVIOUS
<1>1. TypeOK /\ forked \in 1..NCpu /\ Running(c) /\ Own(c)
  BY DEF IInv
<1> DEFINE t0 == current[c]
<1>2. pc[c] = "iret" /\ t0 \in Task /\ t0 # NULL
  BY <1>1 DEF iret, Running, TypeOK
<1>3. ~Executing(t0)
  <2> SUFFICES ASSUME NEW d \in CPU, current[d] = t0, pc[d] \in FuncPc \cup {"irq_handle"}
               PROVE  FALSE
    BY DEF Executing
  <2>1. d # c
    BY <1>2 DEF FuncPc
  <2>2. QED BY <1>2, <2>1, NotShared
<1>4. context[t0] = at[t0] /\ at[t0] \in FuncPc
  BY <1>1, <1>2, <1>3 DEF IInv, Stored, TypeOK
<1>5. /\ UNCHANGED <<saved, context, current, locked, pipe, forked, at>>
      /\ pc' = [pc EXCEPT ![c] = at[t0]]
      /\ on' = [on EXCEPT ![c] = t0]
      /\ sti' = [sti EXCEPT ![c] = TRUE]
  BY <1>4 DEF iret
<1>6. \A d \in CPU : /\ pc'[d] = IF d = c THEN at[t0] ELSE pc[d]
                     /\ on'[d] = IF d = c THEN t0 ELSE on[d]
                     /\ sti'[d] = IF d = c THEN TRUE ELSE sti[d]
  BY <1>1, <1>5 DEF TypeOK
<1>7. TypeOK' /\ forked' \in 1..NCpu
  BY <1>1, <1>2, <1>4, <1>5 DEF TypeOK
<1>8. ASSUME NEW d \in CPU PROVE Booting(d)' /\ Running(d)' /\ Own(d)'
  <2>1. Booting(d) /\ Running(d) /\ Own(d)
    BY DEF IInv
  <2>2. Booting(d)'
    BY <2>1, <1>2, <1>4, <1>5, <1>6 DEF Booting, FuncPc
  <2>3. Running(d)'
    BY <2>1, <1>2, <1>4, <1>5, <1>6 DEF Running, FuncPc
  <2>4. Own(d)'
    BY <2>1, <1>1, <1>5, <1>6 DEF Own, Pinned
  <2>5. QED BY <2>2, <2>3, <2>4
<1>9. ASSUME NEW t \in Task PROVE Stored(t)'
  <2>1. Stored(t)
    BY DEF IInv
  <2>2. Executing(t) => Executing(t)'
    BY <1>2, <1>5, <1>6 DEF Executing, FuncPc
  <2>3. QED BY <2>1, <2>2, <1>5 DEF Stored
<1>10. HeldLocked' /\ OnePrints'
  BY <1>5 DEF IInv, HeldLocked, OnePrints, Holds
<1>11. QED BY <1>7, <1>8, <1>9, <1>10 DEF IInv

----------------------------------------------------------------------------
(* The theorems *)

\* Every step keeps the inductive invariant.
LEMMA NextIInv == IInv /\ [Next]_osVars => IInv'
<1> SUFFICES ASSUME IInv, [Next]_osVars PROVE IInv'
  OBVIOUS
<1>1. CASE fork
  BY <1>1, StepFork
<1>2. ASSUME NEW c \in CPU, Boot(c) PROVE IInv'
  BY <1>2, StepRead, StepMpEntry, StepYield DEF Boot
<1>3. ASSUME NEW c \in CPU, func(c) PROVE IInv'
  BY <1>3, StepFunc
<1>4. ASSUME NEW c \in CPU, Trap(c) PROVE IInv'
  BY <1>4, StepIrqHandle, StepIret DEF Trap
<1>5. ASSUME NEW c \in CPU, timer(c) PROVE IInv'
  BY <1>5, StepTimer
<1>6. CASE UNCHANGED osVars
  BY <1>6 DEF IInv, osVars, TypeOK, Booting, Running, Own, Pinned, Stored, Executing,
              HeldLocked, Holds, OnePrints
<1>7. QED BY <1>1, <1>2, <1>3, <1>4, <1>5, <1>6 DEF Next

\* The invariant in every behaviour.
LEMMA SpecIInv == Spec => []IInv
BY InitIInv, NextIInv, PTL DEF Spec

\* No two processors are ever on one stack, the handler that stores a context
\* on the stack it runs on included: whatever the number of processors and of
\* tasks, pinning keeps their tasks apart.
THEOREM StacksAreApart == Spec => []OneStackEach
<1>1. IInv => OneStackEach
  BY NotShared DEF OneStackEach
<1>2. QED BY <1>1, SpecIInv, PTL

\* A task resumes exactly where a signal interrupted it, and the boot context
\* is never resumed.
THEOREM ResumesCorrectly == Spec => []ResumesWhereLeft
<1>1. IInv => ResumesWhereLeft
  BY DEF IInv, Running, ResumesWhereLeft
<1>2. QED BY <1>1, SpecIInv, PTL

\* One task at a time is between the exchange that takes the lock and the one
\* that releases it, also while it is preempted there.
THEOREM LockExcludes == Spec => []OnePrints
<1>1. IInv => OnePrints
  BY DEF IInv
<1>2. QED BY <1>1, SpecIInv, PTL
=============================================================================
