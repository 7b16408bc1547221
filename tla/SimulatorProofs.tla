-------------------------- MODULE SimulatorProofs --------------------------
(***************************************************************************)
(* The simulator around the core: differential testing raises no false     *)
(* alarm and misses no error for every instruction set, program and core,  *)
(* the clock of the devices is read in one piece for every word size, the  *)
(* instruction loop waits for nothing but the cache, however long, the     *)
(* traces show the last records for rings of every size, and the byte      *)
(* lanes are the byte memory of the architecture.                          *)
(***************************************************************************)
EXTENDS Difftest, Bus, SimLoop, Trace, Lanes, NatLemmas

----------------------------------------------------------------------------
(* Differential testing *)

InFlightInst == [pc : Pc, gpr : Gpr, bad : BOOLEAN]

DifftestTypeOK ==
  /\ prog \in Progs /\ dut \in State /\ cpu \in State /\ ref \in State
  /\ flight \in Seq(InFlightInst)
  /\ is_skip_ref \in BOOLEAN /\ n_ignore_first \in BOOLEAN /\ last \in BOOLEAN
  /\ npc_state \in {"RUNNING", "ABORT"}
  /\ faults \in Nat /\ skips \in Nat

\* In program pr an instruction at p that starts with registers g and ends with
\* h and the next pc q is marked wrong exactly when the reference says otherwise,
\* and then one of the f errors so far is counted.
Judged(pr, f, bad, p, g, q, h) ==
  /\ ~IsDevice(pr, p)
  /\ bad <=> (Exec(pr, [pc |-> p, gpr |-> g]) # [pc |-> q, gpr |-> h])
  /\ bad => f > 0

\* The registers the i-th instruction in flight starts with, and the pc of the
\* instruction after it.
PrevGpr(i) == IF i = 1 THEN cpu.gpr ELSE flight[i - 1].gpr
NextPc(i)  == IF i = Len(flight) THEN dut.pc ELSE flight[i + 1].pc

\* The next pc to commit.
FirstPc == IF Len(flight) = 0 THEN dut.pc ELSE flight[1].pc

\* The instructions between LSU and the commit are one execution.
Chain ==
  /\ \A i \in 1..Len(flight) :
       Judged(prog, faults, flight[i].bad, flight[i].pc, PrevGpr(i), NextPc(i),
              flight[i].gpr)
  /\ dut.gpr = IF Len(flight) = 0 THEN cpu.gpr ELSE flight[Len(flight)].gpr

\* The reference stands before the instruction that committed last, which is
\* the one the next commit will judge; before the first commit it stands at
\* the first instruction.
Lag ==
  /\ ~n_ignore_first =>
       /\ npc_state = "RUNNING" /\ ~last
       /\ ref.gpr = cpu.gpr /\ ref.pc = FirstPc
  /\ n_ignore_first /\ npc_state = "RUNNING" =>
       Judged(prog, faults, last, ref.pc, ref.gpr, FirstPc, cpu.gpr)

DifftestInv ==
  /\ DifftestTypeOK
  /\ skips = 0 => ~is_skip_ref /\ Chain /\ Lag
  /\ NoFalseAlarm

\* The states after init_difftest.
LEMMA DifftestInitInv == DifftestInit => DifftestInv
<1> SUFFICES ASSUME DifftestInit PROVE DifftestInv
  OBVIOUS
<1>1. DifftestTypeOK
  <2>1. dut \in State /\ flight \in Seq(InFlightInst)
    BY DifftestAssumption DEF DifftestInit, State
  <2>2. QED BY <2>1 DEF DifftestInit, DifftestTypeOK
<1>2. Len(flight) = 0
  BY DEF DifftestInit
<1>3. Chain /\ Lag /\ NoFalseAlarm /\ ~is_skip_ref
  BY <1>2 DEF DifftestInit, Chain, Lag, NoFalseAlarm, FirstPc
<1>4. QED BY <1>1, <1>3 DEF DifftestInv

\* An instruction reaches LSU: it extends the execution in flight.
LEMMA IssueInv ==
  ASSUME DifftestInv, NEW s \in State, Issue(s) PROVE DifftestInv'
<1> DEFINE dev == IsDevice(prog, dut.pc)
           bad == ~dev /\ s # Exec(prog, dut)
           new == [pc |-> dut.pc, gpr |-> s.gpr, bad |-> bad]
<1>1. DifftestTypeOK /\ npc_state = "RUNNING"
  BY DEF DifftestInv, Issue
<1>n. PICK n \in Nat : n = Len(flight)
  BY <1>1 DEF DifftestTypeOK
<1>2. /\ flight' = Append(flight, new) /\ dut' = s
      /\ is_skip_ref' = (is_skip_ref \/ dev)
      /\ skips' = IF dev THEN skips + 1 ELSE skips
      /\ faults' = IF bad THEN faults + 1 ELSE faults
      /\ UNCHANGED <<prog, cpu, ref, n_ignore_first, npc_state, last>>
  BY DEF Issue
<1>3. dev \in BOOLEAN /\ Exec(prog, dut) \in State
  BY <1>1, DifftestAssumption DEF DifftestTypeOK, State
<1>4. /\ dut = [pc |-> dut.pc, gpr |-> dut.gpr] /\ s = [pc |-> s.pc, gpr |-> s.gpr]
      /\ dut.pc \in Pc /\ dut.gpr \in Gpr /\ s.pc \in Pc /\ s.gpr \in Gpr
  BY <1>1 DEF DifftestTypeOK, State
<1> HIDE DEF dev
<1>5. /\ new \in InFlightInst /\ new.pc = dut.pc /\ new.gpr = s.gpr /\ new.bad = bad
      /\ bad \in BOOLEAN
  BY <1>3, <1>4 DEF InFlightInst
<1> HIDE DEF new
<1>6. /\ n \in Nat /\ Len(flight') = n + 1 /\ flight' \in Seq(InFlightInst)
      /\ \A i \in 1..n : flight'[i] = flight[i]
      /\ flight'[n + 1] = new
  BY <1>1, <1>n, <1>2, <1>5 DEF DifftestTypeOK
<1> HIDE DEF bad
<1>7. DifftestTypeOK' /\ NoFalseAlarm'
  <2>1. faults' \in Nat /\ skips' \in Nat
    BY <1>1, <1>2, <1>3, <1>5 DEF DifftestTypeOK
  <2>2. is_skip_ref' \in BOOLEAN
    BY <1>1, <1>2, <1>3 DEF DifftestTypeOK
  <2>3. QED BY <1>1, <1>2, <1>6, <2>1, <2>2 DEF DifftestTypeOK, NoFalseAlarm
<1>8. ASSUME skips' = 0 PROVE ~is_skip_ref' /\ Chain' /\ Lag'
  <2>1. skips = 0 /\ ~dev
    BY <1>1, <1>2, <1>3, <1>8 DEF DifftestTypeOK
  <2>2. ~is_skip_ref /\ Chain /\ Lag
    BY <2>1 DEF DifftestInv
  <2>3. ~is_skip_ref'
    BY <1>2, <2>1, <2>2
  <2>4. faults > 0 => faults' > 0
    BY <1>1, <1>2, <1>5 DEF DifftestTypeOK
  <2>5. Judged(prog, faults', bad, dut.pc, dut.gpr, s.pc, s.gpr)
    <3>1. bad <=> s # Exec(prog, dut)
      BY <2>1 DEF bad
    <3>2. bad => faults' > 0
      BY <1>1, <1>2 DEF DifftestTypeOK
    <3>3. QED BY <3>1, <3>2, <1>4, <2>1 DEF Judged, dev
  <2>6. dut'.gpr = flight'[n + 1].gpr /\ n + 1 # 0
    BY <1>2, <1>5, <1>6
  <2>7. PrevGpr(n + 1)' = dut.gpr /\ NextPc(n + 1)' = s.pc
    <3>1. CASE n = 0
      BY <3>1, <1>n, <1>2, <1>6, <2>2 DEF PrevGpr, NextPc, Chain
    <3>2. CASE n # 0
      BY <3>2, <1>n, <1>2, <1>6, <2>2 DEF PrevGpr, NextPc, Chain
    <3>3. QED BY <3>1, <3>2
  <2>8. ASSUME NEW i \in 1..n
        PROVE  /\ PrevGpr(i)' = PrevGpr(i) /\ NextPc(i)' = NextPc(i)
               /\ flight'[i] = flight[i]
    <3>1. PrevGpr(i)' = PrevGpr(i) /\ flight'[i] = flight[i]
      BY <1>2, <1>6 DEF PrevGpr
    <3>2. CASE i = n
      BY <3>1, <3>2, <1>n, <1>5, <1>6 DEF NextPc
    <3>3. CASE i # n
      BY <3>1, <3>3, <1>n, <1>6 DEF NextPc
    <3>4. QED BY <3>1, <3>2, <3>3
  <2>9. Chain'
    <3>1. ASSUME NEW i \in 1..(n + 1)
          PROVE  Judged(prog, faults', flight'[i].bad, flight'[i].pc, PrevGpr(i)', NextPc(i)',
                        flight'[i].gpr)
      <4>1. CASE i = n + 1
        BY <4>1, <1>5, <1>6, <2>5, <2>7
      <4>2. CASE i # n + 1
        <5>1. i \in 1..n
          BY <1>6, <4>2
        <5>2. Judged(prog, faults, flight[i].bad, flight[i].pc, PrevGpr(i), NextPc(i),
                     flight[i].gpr)
          BY <2>2, <5>1, <1>n DEF Chain
        <5>3. QED BY <5>1, <5>2, <2>4, <2>8 DEF Judged
      <4>3. QED BY <4>1, <4>2, <2>8, Zenon
    <3>2. QED BY <3>1, <2>6, <1>2, <1>6 DEF Chain
  <2>10. FirstPc' = FirstPc
    BY <1>n, <1>5, <1>6 DEF FirstPc
  <2>11. Lag'
    BY <2>2, <2>4, <2>10, <1>2 DEF Lag, Judged
  <2>12. QED BY <2>3, <2>9, <2>11
<1>9. QED BY <1>7, <1>8 DEF DifftestInv

\* A commit without a skip: the step compares the instruction before it, and
\* stops exactly when that one was wrong.
LEMMA CommitJudges ==
  ASSUME DifftestInv, Commit, skips = 0
  PROVE  /\ npc_state' = IF last THEN "ABORT" ELSE "RUNNING"
         /\ last => faults > 0
         /\ n_ignore_first' = TRUE /\ is_skip_ref' = FALSE
         /\ ~last => ref' = [pc |-> flight[1].pc, gpr |-> cpu.gpr]
         /\ last => ref' \in State
<1> DEFINE c == Head(flight)
<1>1. /\ DifftestTypeOK /\ npc_state = "RUNNING" /\ ~is_skip_ref /\ Chain /\ Lag
      /\ difftest_step(c)
  BY DEF DifftestInv, Commit
<1>2. flight # << >> /\ flight \in Seq(InFlightInst)
  BY <1>1 DEF DifftestTypeOK, Commit
<1>3. /\ Len(flight) \in Nat /\ Len(flight) # 0 /\ c = flight[1] /\ c \in InFlightInst
  BY <1>2
<1>4. FirstPc = c.pc
  BY <1>3 DEF FirstPc
<1>5. c.pc \in Pc /\ cpu.gpr \in Gpr /\ ref = [pc |-> ref.pc, gpr |-> ref.gpr] /\ ref \in State
  BY <1>1, <1>3 DEF DifftestTypeOK, State, InFlightInst
<1> HIDE DEF c
<1>6. CASE ~n_ignore_first
  <2>1. n_ignore_first' = TRUE /\ UNCHANGED <<ref, is_skip_ref, npc_state>>
    BY <1>1, <1>6 DEF difftest_step
  <2>2. ~last /\ ref.gpr = cpu.gpr /\ ref.pc = c.pc
    BY <1>1, <1>4, <1>6 DEF Lag
  <2>3. QED BY <1>1, <1>3, <1>5, <2>1, <2>2
<1>7. CASE n_ignore_first
  <2>1. /\ ref' = ref_difftest_exec(ref)
        /\ npc_state' = IF difftest_checkregs(ref', c.pc) THEN npc_state ELSE "ABORT"
        /\ UNCHANGED <<is_skip_ref, n_ignore_first>>
    BY <1>1, <1>7 DEF difftest_step
  <2>2. Judged(prog, faults, last, ref.pc, ref.gpr, c.pc, cpu.gpr)
    BY <1>1, <1>4, <1>7 DEF Lag
  <2>3. ref' = Exec(prog, ref)
    BY <2>1, <2>2 DEF ref_difftest_exec, Judged
  <2>4. ref' \in State /\ last \in BOOLEAN /\ n_ignore_first \in BOOLEAN
    BY <1>1, <1>5, <2>3, DifftestAssumption DEF DifftestTypeOK
  <2>5. last <=> ref' # [pc |-> c.pc, gpr |-> cpu.gpr]
    BY <1>5, <2>2, <2>3 DEF Judged
  <2>6. difftest_checkregs(ref', c.pc) <=> ref' = [pc |-> c.pc, gpr |-> cpu.gpr]
    BY <2>4 DEF difftest_checkregs, State
  <2>7. npc_state' = IF last THEN "ABORT" ELSE "RUNNING"
    BY <1>1, <2>1, <2>5, <2>6
  <2>8. last => faults > 0
    BY <2>2 DEF Judged
  <2>9. QED BY <1>1, <1>3, <1>7, <2>1, <2>4, <2>5, <2>7, <2>8
<1>8. QED BY <1>6, <1>7

\* A commit keeps the invariant: the execution in flight loses its first
\* instruction, and the reference stands before it.
LEMMA CommitInv == DifftestInv /\ Commit => DifftestInv'
<1> SUFFICES ASSUME DifftestInv, Commit PROVE DifftestInv'
  OBVIOUS
<1> DEFINE c == Head(flight)
<1>1. /\ DifftestTypeOK /\ npc_state = "RUNNING" /\ flight # << >>
      /\ difftest_step(c) /\ cpu' = [pc |-> c.pc, gpr |-> c.gpr]
      /\ flight' = Tail(flight) /\ last' = c.bad
      /\ UNCHANGED <<prog, dut, faults, skips>>
  BY DEF DifftestInv, Commit, update_reg_state
<1>2. PICK n \in Nat : n = Len(flight) /\ n # 0
  BY <1>1 DEF DifftestTypeOK
<1>3. /\ c = flight[1] /\ c \in InFlightInst
      /\ flight' \in Seq(InFlightInst) /\ Len(flight') = n - 1
      /\ \A i \in 1..(n - 1) : flight'[i] = flight[i + 1]
  BY <1>1, <1>2 DEF DifftestTypeOK
<1> HIDE DEF c
<1>4. /\ c.pc \in Pc /\ c.gpr \in Gpr /\ c.bad \in BOOLEAN
      /\ cpu' \in State /\ cpu'.gpr = c.gpr /\ cpu.gpr \in Gpr
  BY <1>1, <1>3 DEF InFlightInst, State, DifftestTypeOK
<1>5. CASE skips # 0
  <2>1. /\ ref' \in State /\ is_skip_ref' \in BOOLEAN /\ n_ignore_first' \in BOOLEAN
        /\ npc_state' \in {"RUNNING", "ABORT"}
    <3>1. ref_difftest_exec(ref) \in State
      BY <1>1, DifftestAssumption DEF ref_difftest_exec, DifftestTypeOK, State
    <3>2. [pc |-> c.pc, gpr |-> c.gpr] \in State
      BY <1>4 DEF State
    <3>3. QED BY <1>1, <3>1, <3>2 DEF difftest_step, DifftestTypeOK
  <2>2. DifftestTypeOK'
    BY <1>1, <1>3, <1>4, <2>1 DEF DifftestTypeOK
  <2>3. skips' # 0 /\ skips' > 0
    BY <1>1, <1>5 DEF DifftestTypeOK
  <2>4. QED BY <2>2, <2>3 DEF DifftestInv, NoFalseAlarm
<1>6. CASE skips = 0
  <2>1. /\ npc_state' = IF last THEN "ABORT" ELSE "RUNNING"
        /\ last => faults > 0
        /\ n_ignore_first' = TRUE /\ is_skip_ref' = FALSE
        /\ ~last => ref' = [pc |-> c.pc, gpr |-> cpu.gpr]
        /\ last => ref' \in State
    BY <1>3, <1>6, CommitJudges
  <2>2. last \in BOOLEAN /\ Chain
    BY <1>1, <1>6 DEF DifftestTypeOK, DifftestInv
  <2>3. ref' \in State
    <3>1. [pc |-> c.pc, gpr |-> cpu.gpr] \in State
      BY <1>4 DEF State
    <3>2. QED BY <2>1, <2>2, <3>1
  <2>4. npc_state' \in {"RUNNING", "ABORT"}
    BY <2>1, <2>2
  <2>5. DifftestTypeOK'
    BY <1>1, <1>3, <1>4, <2>1, <2>3, <2>4 DEF DifftestTypeOK
  <2>6. NoFalseAlarm'
    BY <1>1, <2>1, <2>2 DEF NoFalseAlarm
  <2>7. NextPc(1) = FirstPc'
    BY <1>1, <1>2, <1>3 DEF NextPc, FirstPc
  <2>8. Judged(prog, faults, c.bad, c.pc, cpu.gpr, NextPc(1), c.gpr)
    <3>1. 1 \in 1..Len(flight) /\ PrevGpr(1) = cpu.gpr
      BY <1>2 DEF PrevGpr
    <3>2. QED BY <1>3, <2>2, <3>1 DEF Chain
  <2>9. Lag'
    <3>1. CASE last
      BY <3>1, <2>1 DEF Lag
    <3>2. CASE ~last
      <4>1. ref'.pc = c.pc /\ ref'.gpr = cpu.gpr
        BY <2>1, <3>2
      <4>2. QED BY <1>1, <1>4, <2>1, <2>7, <2>8, <4>1 DEF Lag
    <3>3. QED BY <2>2, <3>1, <3>2
  <2>10. ASSUME NEW i \in 1..(n - 1)
         PROVE  /\ flight'[i] = flight[i + 1] /\ i + 1 \in 1..n
                /\ PrevGpr(i)' = PrevGpr(i + 1) /\ NextPc(i)' = NextPc(i + 1)
    <3>1. flight'[i] = flight[i + 1] /\ i + 1 \in 1..n /\ i + 1 # 1 /\ (i + 1) - 1 = i
      BY <1>2, <1>3
    <3>2. PrevGpr(i)' = PrevGpr(i + 1)
      <4>1. CASE i = 1
        BY <4>1, <1>3, <1>4, <3>1 DEF PrevGpr
      <4>2. CASE i # 1
        BY <4>2, <1>2, <1>3, <3>1 DEF PrevGpr
      <4>3. QED BY <4>1, <4>2, <2>8, Zenon
    <3>3. NextPc(i)' = NextPc(i + 1)
      <4>1. CASE i = n - 1
        BY <4>1, <1>1, <1>2, <1>3 DEF NextPc
      <4>2. CASE i # n - 1
        BY <4>2, <1>1, <1>2, <1>3 DEF NextPc
      <4>3. QED BY <4>1, <4>2, <2>8, Zenon
    <3>4. QED BY <3>1, <3>2, <3>3
  <2>11. dut'.gpr = IF Len(flight') = 0 THEN cpu'.gpr ELSE flight'[Len(flight')].gpr
    <3>1. dut.gpr = flight[n].gpr
      BY <1>2, <2>2 DEF Chain
    <3>2. CASE n = 1
      BY <3>1, <3>2, <1>1, <1>3, <1>4
    <3>3. CASE n # 1
      <4>1. n - 1 \in 1..(n - 1) /\ (n - 1) + 1 = n
        BY <1>2, <3>3
      <4>2. flight'[n - 1] = flight[n]
        BY <1>3, <4>1
      <4>3. QED BY <3>1, <3>3, <4>2, <1>1, <1>2, <1>3
    <3>4. QED BY <3>2, <3>3
  <2>12. Chain'
    <3>1. ASSUME NEW i \in 1..(n - 1)
          PROVE  Judged(prog, faults, flight'[i].bad, flight'[i].pc, PrevGpr(i)', NextPc(i)',
                        flight'[i].gpr)
      <4>1. Judged(prog, faults, flight[i + 1].bad, flight[i + 1].pc, PrevGpr(i + 1),
                   NextPc(i + 1), flight[i + 1].gpr)
        BY <1>2, <2>2, <2>10 DEF Chain
      <4>2. QED BY <2>10, <4>1
    <3>2. QED BY <3>1, <2>11, <1>1, <1>3 DEF Chain
  <2>13. QED BY <2>1, <2>5, <2>6, <2>9, <2>12 DEF DifftestInv
<1>7. QED BY <1>5, <1>6

\* The debugger's reads only raise the skip.
LEMMA CmdXInv == DifftestInv /\ cmd_x => DifftestInv'
<1> SUFFICES ASSUME DifftestInv, cmd_x PROVE DifftestInv'
  OBVIOUS
<1>1. skips' = skips + 1 /\ skips \in Nat
  BY DEF DifftestInv, DifftestTypeOK, cmd_x
<1>2. skips' # 0 /\ skips' > 0 /\ skips' \in Nat
  BY <1>1
<1>3. DifftestTypeOK'
  BY <1>2 DEF DifftestInv, DifftestTypeOK, cmd_x
<1>4. QED BY <1>2, <1>3 DEF DifftestInv, NoFalseAlarm

\* Every step keeps the invariant.
LEMMA DifftestNextInv == DifftestInv /\ [DifftestNext]_difftestVars => DifftestInv'
<1> SUFFICES ASSUME DifftestInv, [DifftestNext]_difftestVars PROVE DifftestInv'
  OBVIOUS
<1>1. ASSUME NEW s \in State, Issue(s) PROVE DifftestInv'
  BY <1>1, IssueInv
<1>2. CASE Commit
  BY <1>2, CommitInv
<1>3. CASE cmd_x
  BY <1>3, CmdXInv
<1>4. CASE UNCHANGED difftestVars
  BY <1>4 DEF difftestVars, DifftestInv, DifftestTypeOK, NoFalseAlarm, Chain, Lag, Judged,
              PrevGpr, NextPc, FirstPc
<1>5. QED BY <1>1, <1>2, <1>3, <1>4 DEF DifftestNext

\* Without a skip, ABORT means that the core erred: whatever the instruction
\* set, the program and the errors, comparing one commit late and not at all
\* at the first commit never blames a core that is right.
THEOREM BlamesNoRightCore == DifftestSpec => []NoFalseAlarm
<1>1. DifftestInv => NoFalseAlarm
  BY DEF DifftestInv
<1>2. QED BY <1>1, DifftestInitInv, DifftestNextInv, PTL DEF DifftestSpec

\* And without a skip every wrong instruction is reported at the very next
\* commit.
THEOREM MissesNoError == DifftestSpec => DetectsNext
<1>1. DifftestInv /\ [DifftestNext]_difftestVars =>
        [Commit /\ last /\ skips = 0 => npc_state' = "ABORT"]_difftestVars
  <2> SUFFICES ASSUME DifftestInv, Commit, last, skips = 0 PROVE npc_state' = "ABORT"
    OBVIOUS
  <2>1. QED BY CommitJudges
<1>2. QED BY <1>1, DifftestInitInv, DifftestNextInv, PTL DEF DifftestSpec, DetectsNext

----------------------------------------------------------------------------
(* The clock of the devices *)

GuestRead == [at : {"idle", "high", "done", "uptime"}, high : Nat, began : Nat,
              looked : BOOLEAN, value : Nat]

\* Between its two loads, and unless the debugger came in between, the latch
\* holds the low word of the time whose high word the guest has.
Latched ==
  guest.at = "high" /\ ~guest.looked =>
    rtc_port.lo = guest.began % WordSize /\ guest.high = guest.began \div WordSize

BusInv ==
  /\ us \in Nat /\ rtc_port \in [lo : Nat, hi : Nat] /\ guest \in GuestRead
  /\ Latched /\ ReadsATime

\* What a read of a device leaves in the latch.
LEMMA PortAfterRead ==
  ASSUME BusInv, NEW a \in Addr, pmem_read(a)
  PROVE  /\ rtc_port' \in [lo : Nat, hi : Nat]
         /\ a # "rtc_hi" => rtc_port' = rtc_port
         /\ a = "rtc_hi" => rtc_port' = rtc_port_update
<1>1. WordSize \in Nat \ {0} /\ us \in Nat /\ rtc_port \in [lo : Nat, hi : Nat]
  BY BusAssumption DEF BusInv
<1>2. us % WordSize \in Nat /\ us \div WordSize \in Nat
  <2>1. us \in Int
    BY <1>1
  <2>2. us % WordSize \in 0..(WordSize - 1)
    BY <1>1, <2>1, ModRange
  <2>3. QED BY <1>1, <2>2, DivMod
<1>3. rtc_port_update \in [lo : Nat, hi : Nat]
  BY <1>2 DEF rtc_port_update
<1>4. /\ a # "rtc_hi" => rtc_port' = rtc_port
      /\ a = "rtc_hi" => rtc_port' = rtc_port_update
  BY DEF pmem_read, mmio_read, Addr
<1>5. QED BY <1>1, <1>3, <1>4

\* Every step of the clock, the guest and the debugger keeps it.
LEMMA BusNextInv == BusInv /\ [BusNext]_busVars => BusInv'
<1> SUFFICES ASSUME BusInv, [BusNext]_busVars PROVE BusInv'
  OBVIOUS
<1>1. /\ WordSize \in Nat \ {0} /\ us \in Nat /\ rtc_port \in [lo : Nat, hi : Nat]
      /\ guest \in GuestRead /\ Latched /\ ReadsATime
  BY BusAssumption DEF BusInv
<1>2. CASE Tick
  BY <1>1, <1>2 DEF Tick, BusInv, Latched, ReadsATime
<1>3. CASE ReadHigh
  <2>1. /\ rtc_port' = rtc_port_update /\ rtc_port' \in [lo : Nat, hi : Nat] /\ us' = us
    BY <1>3, PortAfterRead DEF ReadHigh, Addr
  <2>2. guest' = [at |-> "high", high |-> us \div WordSize, began |-> us,
                  looked |-> FALSE, value |-> guest.value]
    BY <1>3 DEF ReadHigh, mmio_read, rtc_port_update
  <2>3. us \div WordSize \in Nat
    BY <1>1, DivMod
  <2>4. guest' \in GuestRead
    BY <1>1, <2>2, <2>3 DEF GuestRead
  <2>5. Latched' /\ ReadsATime'
    BY <2>1, <2>2 DEF Latched, ReadsATime, rtc_port_update
  <2>6. QED BY <1>1, <2>1, <2>4, <2>5 DEF BusInv
<1>4. CASE ReadLow
  <2>1. /\ rtc_port' = rtc_port /\ us' = us /\ guest.at = "high"
    BY <1>4, PortAfterRead DEF ReadLow, Addr
  <2>2. guest' = [guest EXCEPT !.at = "done",
                               !.value = guest.high * WordSize + rtc_port.lo]
    BY <1>4 DEF ReadLow, mmio_read
  <2>3. guest.high \in Nat /\ rtc_port.lo \in Nat /\ guest.began \in Nat
    BY <1>1 DEF GuestRead
  <2>4. guest.high * WordSize + rtc_port.lo \in Nat
    BY <1>1, <2>3
  <2>5. guest' \in GuestRead
    BY <1>1, <2>2, <2>4 DEF GuestRead
  <2>6. /\ guest'.at = "done" /\ guest'.began = guest.began /\ guest'.looked = guest.looked
        /\ guest'.value = guest.high * WordSize + rtc_port.lo
    BY <1>1, <2>2 DEF GuestRead
  <2>7. guest.began = (WordSize * (guest.began \div WordSize)) + (guest.began % WordSize)
    BY <1>1, <2>3, DivMod
  <2>8. ReadsATime'
    <3> SUFFICES ASSUME ~guest'.looked PROVE guest'.value = guest'.began
      BY DEF ReadsATime
    <3>1. rtc_port.lo = guest.began % WordSize /\ guest.high = guest.began \div WordSize
      BY <1>1, <2>1, <2>6 DEF Latched
    <3>2. guest.began = WordSize * guest.high + rtc_port.lo
      BY <2>7, <3>1
    <3>3. WordSize * guest.high = guest.high * WordSize
      BY <1>1, <2>3, SMT
    <3>4. QED BY <2>6, <3>2, <3>3
  <2>9. Latched'
    BY <2>6 DEF Latched
  <2>10. QED BY <1>1, <2>1, <2>5, <2>8, <2>9 DEF BusInv
<1>5. CASE Return
  <2>1. guest' \in GuestRead /\ guest'.at = "idle"
    BY <1>1, <1>5 DEF Return, GuestRead
  <2>2. QED BY <1>1, <1>5, <2>1 DEF Return, BusInv, Latched, ReadsATime
<1>6. CASE am_timer_uptime
  <2>1. guest' \in GuestRead /\ guest'.at = "uptime" /\ us' = us
    BY <1>1, <1>6 DEF am_timer_uptime, GuestRead
  <2>2. rtc_port' \in [lo : Nat, hi : Nat]
    BY <1>6, PortAfterRead DEF am_timer_uptime, Addr
  <2>3. QED BY <1>1, <2>1, <2>2 DEF BusInv, Latched, ReadsATime
<1>7. ASSUME NEW a \in Addr, MmioStore(a) PROVE BusInv'
  BY <1>1, <1>7 DEF MmioStore, BusInv, Latched, ReadsATime
<1>8. ASSUME NEW a \in Addr, Look(a) PROVE BusInv'
  <2>1. /\ guest' \in GuestRead /\ us' = us
        /\ guest'.at = guest.at /\ guest'.high = guest.high /\ guest'.began = guest.began
        /\ guest'.value = guest.value
        /\ guest'.looked = (guest.looked \/ a = "rtc_hi")
    BY <1>1, <1>8 DEF Look, GuestRead
  <2>2. /\ rtc_port' \in [lo : Nat, hi : Nat]
        /\ a # "rtc_hi" => rtc_port' = rtc_port
    BY <1>8, PortAfterRead DEF Look
  <2>3. guest'.looked \/ (rtc_port' = rtc_port /\ guest'.looked = guest.looked)
    BY <1>1, <2>1, <2>2 DEF GuestRead
  <2>4. Latched' /\ ReadsATime'
    BY <1>1, <2>1, <2>3 DEF Latched, ReadsATime
  <2>5. QED BY <1>1, <2>1, <2>2, <2>4 DEF BusInv
<1>9. CASE UNCHANGED busVars
  BY <1>1, <1>9 DEF busVars, BusInv, Latched, ReadsATime
<1>10. QED BY <1>2, <1>3, <1>4, <1>5, <1>6, <1>7, <1>8, <1>9 DEF BusNext

\* For every word size the two loads give a time the clock had, whatever
\* carries and reads of other registers come between them.
THEOREM ClockIsRead == BusSpec => []ReadsATime
<1>1. BusInit => BusInv
  BY DEF BusInit, BusInv, Idle, GuestRead, Latched, ReadsATime
<1>2. BusInv => ReadsATime
  BY DEF BusInv
<1>3. QED BY <1>1, <1>2, BusNextInv, PTL DEF BusSpec

----------------------------------------------------------------------------
(* The instruction loop *)

LoopInv ==
  /\ waited \in Nat /\ cycle \in Nat /\ misses \in Nat
  /\ lsu_state \in {"IDLE", "WAITING"} /\ lsu_wbu.valid \in BOOLEAN
  /\ waited <= cycle
  /\ WaitsForCache

\* A hit answers the load in LSU in the same cycle, from EX/LSU or pending.
LEMMA HitAnswers ==
  ASSUME LoopInv, cycle >= 3, cache_hit
  PROVE  Answer(load, cache_lsu_hit(load, cache_hit))
<1>1. load.valid /\ load.ctrl = "READ"
  BY DEF load
<1>2. lsu_state \in {"IDLE", "WAITING"}
  BY DEF LoopInv
<1> HIDE DEF load, cache_hit
<1>3. cache_lsu_hit(load, cache_hit)
  BY <1>1 DEF cache_lsu_hit, lsu_cache_valid
<1>4. QED BY <1>1, <1>2, <1>3 DEF Answer, Miss

\* A cycle keeps the invariant: whatever the shift register does, only a cycle
\* without a hit lets the count grow.
LEMMA CycleInv == LoopInv /\ [single_cycle]_simVars => LoopInv'
<1> SUFFICES ASSUME LoopInv, [single_cycle]_simVars PROVE LoopInv'
  OBVIOUS
<1>1. CASE single_cycle
  <2> DEFINE hit == cache_lsu_hit(load, cache_hit)
  <2>1. /\ commit' = [valid |-> lsu_wbu.valid, pc |-> lsu_wbu.pc]
        /\ waited' = IF commit'.valid THEN 0 ELSE waited + 1
        /\ cycle' = cycle + 1
        /\ misses' = IF cache_hit THEN 0 ELSE misses + 1
        /\ lsu_state' = next_lsu_state(load, hit)
        /\ lsu_wbu' = next_lsu_wbu(load, hit)
    BY <1>1 DEF single_cycle, exec_one_inst, LSUTick
  <2>2. /\ waited \in Nat /\ cycle \in Nat /\ misses \in Nat
        /\ lsu_state \in {"IDLE", "WAITING"} /\ lsu_wbu.valid \in BOOLEAN
        /\ waited <= cycle
        /\ lsu_wbu.valid \/ waited <= misses + 3
    BY DEF LoopInv, WaitsForCache
  <2>3. cycle >= 3 /\ cache_hit => Answer(load, hit)
    BY HitAnswers
  <2> HIDE DEF hit
  <2>4. lsu_state' \in {"IDLE", "WAITING"}
    BY <2>1, <2>2 DEF next_lsu_state
  <2>5. lsu_wbu'.valid \in BOOLEAN /\ (Answer(load, hit) => lsu_wbu'.valid)
    BY <2>1 DEF next_lsu_wbu, NoLsuWbu
  <2>6. waited' = IF lsu_wbu.valid THEN 0 ELSE waited + 1
    BY <2>1
  <2>7. cache_hit \in BOOLEAN
    BY DEF cache_hit
  <2> HIDE DEF cache_hit
  <2>8. waited' \in Nat /\ cycle' \in Nat /\ misses' \in Nat /\ waited' <= cycle'
    BY <2>1, <2>2, <2>6, <2>7
  <2>9. lsu_wbu'.valid \/ waited' <= misses' + 3
    <3>1. CASE lsu_wbu.valid
      <4>1. waited' = 0
        BY <3>1, <2>6
      <4>2. \A y \in Nat : 0 <= y + 3
        OBVIOUS
      <4>3. QED BY <4>1, <4>2, <2>8, Zenon
    <3>2. CASE ~lsu_wbu.valid /\ ~cache_hit
      BY <3>2, <2>1, <2>2, <2>6
    <3>3. CASE ~lsu_wbu.valid /\ cache_hit /\ cycle >= 3
      BY <3>3, <2>3, <2>5
    <3>4. CASE ~lsu_wbu.valid /\ cache_hit /\ ~(cycle >= 3)
      BY <3>4, <2>1, <2>2, <2>6
    <3>5. QED BY <3>1, <3>2, <3>3, <3>4
  <2>10. QED BY <2>4, <2>5, <2>8, <2>9 DEF LoopInv, WaitsForCache
<1>2. CASE UNCHANGED simVars
  BY <1>2 DEF simVars, LoopInv, WaitsForCache
<1>3. QED BY <1>1, <1>2

\* exec_one_inst waits for the cache and for nothing else, in a run of any
\* length; the proof uses nothing of what the shift register holds.
THEOREM WaitsOnlyForCache == SimSpec => []WaitsForCache
<1>1. SimInit => LoopInv
  BY DEF SimInit, LSUInit, NoLsuWbu, LoopInv, WaitsForCache
<1>2. LoopInv => WaitsForCache
  BY DEF LoopInv
<1>3. QED BY <1>1, <1>2, CycleInv, PTL DEF SimSpec

----------------------------------------------------------------------------
(* Traces.  Both rings are one ring with a next slot: it holds the oldest  *)
(* record, and a push overwrites it and moves on.                          *)

\* The k-th slot of a ring of n, from slot q on.
Slot(q, k, n) == IF q + k - 1 < n THEN q + k - 1 ELSE q + k - 1 - n

\* The k-th record of a ring of n that holds the records of recent.
Kth(recent, k, n) ==
  IF k <= n - Len(recent) THEN Empty ELSE recent[k - (n - Len(recent))]

\* From slot q on the ring holds empty records, then recent.
Ring(buf, q, n, recent) ==
  /\ q \in 0..(n - 1) /\ buf \in [0..(n - 1) -> Nat]
  /\ recent \in Seq(Nat \ {Empty}) /\ Len(recent) <= n
  /\ \A k \in 1..n : buf[Slot(q, k, n)] = Kth(recent, k, n)

\* Of n records those from a + 1 to b are not empty.
Filled(at, a, b, n) ==
  /\ n \in Nat /\ a \in 0..n /\ b \in a..n
  /\ \A k \in 1..n : at[k] = Empty <=> ~(a < k /\ k <= b)

Lines(line, a, b) == [i \in 1..(b - a) |-> line[a + i]]

LEMMA LineParts ==
  ASSUME NEW x, NEW y
  PROVE  LET l == [arrow |-> x, text |-> y] IN l.arrow = x /\ l.text = y
OBVIOUS

\* A print-out shows the lines of the records that are not empty.
LEMMA PrintsFilled ==
  ASSUME NEW n, NEW a, NEW b, NEW at, NEW line, Filled(at, a, b, n)
  PROVE  Printed(at, line, n) = Lines(line, a, b)
<1> DEFINE len(k) == IF k <= a THEN 0 ELSE IF k <= b THEN k - a ELSE b - a
           first(j) == [i \in 1..j |-> line[a + i]]
           w == [k \in 0..n |-> first(len(k))]
           round(k, s) == IF at[k] = Empty THEN s ELSE Append(s, line[k])
           P(f) == f = [k \in 0..n |-> IF k = 0 THEN << >>
                                       ELSE IF at[k] = Empty THEN f[k - 1]
                                       ELSE Append(f[k - 1], line[k])]
<1>0. /\ n \in Nat /\ a \in 0..n /\ b \in a..n
      /\ \A k \in 1..n : at[k] = Empty <=> ~(a < k /\ k <= b)
  BY DEF Filled
<1>1. w[0] = << >> /\ w[n] = first(b - a)
  <2>1. len(0) = 0 /\ len(n) = b - a
    BY <1>0
  <2>2. w[0] = first(len(0)) /\ w[n] = first(len(n))
    BY <1>0
  <2>3. first(0) = << >>
    OBVIOUS
  <2>4. QED BY <2>1, <2>2, <2>3, Zenon
<1>2. ASSUME NEW k \in 1..n PROVE w[k] = round(k, w[k - 1])
  <2>0. w[k] = first(len(k)) /\ w[k - 1] = first(len(k - 1))
    BY <1>0
  <2>1. CASE ~(a < k /\ k <= b)
    <3>1. len(k) = len(k - 1) /\ at[k] = Empty
      BY <1>0, <2>1
    <3> HIDE DEF len, first, w
    <3>2. QED BY <2>0, <3>1
  <2>2. CASE a < k /\ k <= b
    <3>1. PICK j \in 1..n : j = k - a /\ a + j = k
      BY <1>0, <2>2
    <3>2. len(k) = j /\ len(k - 1) = j - 1 /\ at[k] # Empty
      BY <1>0, <2>2, <3>1
    <3>3. first(j) = Append(first(j - 1), line[k])
      <4> DEFINE S == {line[a + i] : i \in 1..n}
      <4>1. first(j - 1) \in Seq(S) /\ Len(first(j - 1)) = j - 1
        <5>1. 1..(j - 1) \subseteq 1..n
          BY <1>0
        <5>1a. \A i \in 1..(j - 1) : line[a + i] \in S
          BY <5>1
        <5>2. j - 1 \in Nat
          BY <1>0
        <5>3. first(j - 1) \in [1..(j - 1) -> S]
          <6> HIDE DEF S
          <6>1. QED BY <5>1a
        <5> HIDE DEF S, first
        <5>4. QED BY <5>2, <5>3
      <4>2. Append(first(j - 1), line[k])
              = [i \in 1..j |-> IF i = j THEN line[k] ELSE first(j - 1)[i]]
        <5>1. (j - 1) + 1 = j
          BY <1>0
        <5> HIDE DEF first
        <5>2. QED BY <4>1, <5>1
      <4>3. \A i \in 1..j : line[a + i] = IF i = j THEN line[k] ELSE first(j - 1)[i]
        BY <1>0, <3>1
      <4>4. QED BY <4>2, <4>3
    <3> HIDE DEF len, first, w
    <3>4. QED BY <2>0, <3>2, <3>3
  <2>3. QED BY <2>1, <2>2
<1>3. w = [k \in 0..n |-> w[k]]
  OBVIOUS
<1> HIDE DEF w
<1>4. P(w)
  <2>1. ASSUME NEW k \in 0..n
        PROVE  w[k] = IF k = 0 THEN << >> ELSE round(k, w[k - 1])
    <3>1. k # 0 => k \in 1..n
      BY <1>0
    <3>2. QED BY <1>1, <1>2, <3>1
  <2>2. QED BY <1>3, <2>1
<1>5. ASSUME NEW f, P(f) PROVE f[n] = w[n]
  <2>1. \A k \in 0..n : f[k] = IF k = 0 THEN << >> ELSE round(k, f[k - 1])
    BY <1>5
  <2>2. f[0] = w[0]
    <3>1. 0 \in 0..n
      BY <1>0
    <3>2. QED BY <1>1, <2>1, <3>1
  <2>3. ASSUME NEW k \in 1..n, f[k - 1] = w[k - 1] PROVE f[k] = w[k]
    <3>1. k \in 0..n /\ k # 0
      BY <1>0
    <3>2. f[k] = round(k, f[k - 1])
      BY <2>1, <3>1
    <3>3. QED BY <1>2, <2>3, <3>2
  <2>4. RoundsAlike(f, w, n)
    BY <2>2, <2>3 DEF RoundsAlike
  <2>5. n \in 0..n
    BY <1>0
  <2>6. QED BY <1>0, <2>4, <2>5, SameRounds
<1>6. Printed(at, line, n) = (CHOOSE f : P(f))[n]
  BY DEF Printed
<1>7. P(CHOOSE f : P(f))
  BY <1>4
<1>8. Printed(at, line, n) = first(b - a)
  BY <1>1, <1>5, <1>6, <1>7
<1>9. QED BY <1>8 DEF Lines

\* r is recent with v at its end, and without its first record if it was full.
IsAppended(r, recent, v, n) ==
  /\ r \in Seq(Nat \ {Empty})
  /\ Len(r) = IF Len(recent) = n THEN n ELSE Len(recent) + 1
  /\ r[Len(r)] = v
  /\ \A i \in 1..(Len(r) - 1) : r[i] = recent[i + Len(recent) - Len(r) + 1]

\* What Last keeps when one record is added.
LEMMA LastAppended ==
  ASSUME NEW n \in Nat \ {0}, NEW recent \in Seq(Nat \ {Empty}), Len(recent) <= n,
         NEW v \in Nat \ {Empty}
  PROVE  IsAppended(Last(Append(recent, v), n), recent, v, n)
<1> DEFINE s == Append(recent, v)
           r == Last(s, n)
<1>1. s \in Seq(Nat \ {Empty}) /\ Len(s) = Len(recent) + 1 /\ s[Len(recent) + 1] = v
  OBVIOUS
<1>2. \A i \in 1..Len(recent) : s[i] = recent[i]
  OBVIOUS
<1> HIDE DEF s
<1>3. CASE Len(recent) = n
  <2>1. r = SubSeq(s, 2, n + 1)
    BY <1>1, <1>3 DEF Last
  <2>2. Len(r) = n /\ r \in Seq(Nat \ {Empty}) /\ \A i \in 1..n : r[i] = s[i + 1]
    BY <1>1, <1>3, <2>1
  <2> HIDE DEF r
  <2>3. r[Len(r)] = v
    BY <1>1, <1>3, <2>2
  <2>4. ASSUME NEW i \in 1..(Len(r) - 1) PROVE r[i] = recent[i + Len(recent) - Len(r) + 1]
    <3>1. i \in 1..n /\ i + 1 \in 1..Len(recent) /\ i + Len(recent) - Len(r) + 1 = i + 1
      BY <1>3, <2>2
    <3>2. QED BY <1>2, <2>2, <3>1
  <2>5. IsAppended(r, recent, v, n)
    BY <1>3, <2>2, <2>3, <2>4 DEF IsAppended
  <2>6. QED BY <2>5 DEF r, s
<1>4. CASE Len(recent) # n
  <2>1. r = s
    BY <1>1, <1>4 DEF Last
  <2>2. ASSUME NEW i \in 1..(Len(r) - 1) PROVE r[i] = recent[i + Len(recent) - Len(r) + 1]
    <3>1. i \in 1..Len(recent) /\ i + Len(recent) - Len(r) + 1 = i
      BY <1>1, <2>1
    <3>2. QED BY <1>2, <2>1, <3>1
  <2>3. IsAppended(r, recent, v, n)
    BY <1>1, <1>4, <2>1, <2>2 DEF IsAppended
  <2>4. QED BY <2>3 DEF s
<1>5. QED BY <1>3, <1>4

NextSlot(p, n) == IF p + 1 >= n THEN 0 ELSE p + 1

\* A push writes the next slot and keeps the last records.
LEMMA Pushes ==
  ASSUME NEW n \in Nat \ {0}, NEW buf, NEW q, NEW recent, Ring(buf, q, n, recent),
         NEW v \in Nat \ {Empty}
  PROVE  Ring([buf EXCEPT ![q] = v], NextSlot(q, n), n, Last(Append(recent, v), n))
<1> DEFINE b == [buf EXCEPT ![q] = v]
           p == NextSlot(q, n)
           r == Last(Append(recent, v), n)
<1>0. /\ q \in 0..(n - 1) /\ buf \in [0..(n - 1) -> Nat]
      /\ recent \in Seq(Nat \ {Empty}) /\ Len(recent) <= n
      /\ \A k \in 1..n : buf[Slot(q, k, n)] = Kth(recent, k, n)
  BY DEF Ring
<1>1. /\ r \in Seq(Nat \ {Empty})
      /\ Len(r) = IF Len(recent) = n THEN n ELSE Len(recent) + 1
      /\ r[Len(r)] = v
      /\ \A i \in 1..(Len(r) - 1) : r[i] = recent[i + Len(recent) - Len(r) + 1]
  <2>1. IsAppended(Last(Append(recent, v), n), recent, v, n)
    BY <1>0, LastAppended
  <2>2. QED BY <2>1, Zenon DEF IsAppended
<1>2. PICK l \in Nat : l = Len(recent)
  BY <1>0
<1>3. PICK m \in 1..n : m = Len(r) /\ (l < n => m = l + 1) /\ (l = n => m = n)
  BY <1>0, <1>1, <1>2
<1>4. p \in 0..(n - 1) /\ b \in [0..(n - 1) -> Nat]
  BY <1>0 DEF NextSlot
<1>5. b[q] = v /\ \A a \in 0..(n - 1) : a # q => b[a] = buf[a]
  BY <1>0
<1>6. Slot(p, n, n) = q
  BY <1>0 DEF Slot, NextSlot
<1>7. ASSUME NEW k \in 1..(n - 1)
      PROVE  Slot(p, k, n) = Slot(q, k + 1, n) /\ Slot(q, k + 1, n) \in 0..(n - 1) \ {q}
  BY <1>0 DEF Slot, NextSlot
<1>8. l <= n /\ n \in 1..n
  BY <1>0, <1>2
<1> HIDE DEF b, p, r
<1>9. b[Slot(p, n, n)] = Kth(r, n, n)
  <2>1. ~(n <= n - m) /\ n - (n - m) = m
    OBVIOUS
  <2>2. Kth(r, n, n) = r[m]
    BY <1>3, <2>1 DEF Kth
  <2>3. QED BY <1>1, <1>3, <1>5, <1>6, <2>2
<1>10. ASSUME NEW k \in 1..(n - 1) PROVE b[Slot(p, k, n)] = Kth(r, k, n)
  <2>1. b[Slot(p, k, n)] = Kth(recent, k + 1, n)
    <3>1. k + 1 \in 1..n
      OBVIOUS
    <3>2. QED BY <1>0, <1>5, <1>7, <3>1
  <2>2. CASE k + 1 <= n - l
    <3>1. k <= n - m
      BY <1>3, <1>8, <2>2
    <3>2. Kth(recent, k + 1, n) = Empty /\ Kth(r, k, n) = Empty
      BY <1>2, <1>3, <2>2, <3>1 DEF Kth
    <3>3. QED BY <2>1, <3>2
  <2>3. CASE ~(k + 1 <= n - l)
    <3>1. /\ ~(k <= n - m) /\ k - (n - m) \in 1..(m - 1)
          /\ (k - (n - m)) + l - m + 1 = (k + 1) - (n - l)
      BY <1>3, <1>8, <2>3
    <3>2. Kth(recent, k + 1, n) = recent[(k + 1) - (n - l)] /\ Kth(r, k, n) = r[k - (n - m)]
      BY <1>2, <1>3, <2>3, <3>1 DEF Kth
    <3>3. r[k - (n - m)] = recent[(k - (n - m)) + l - m + 1]
      BY <1>1, <1>2, <1>3, <3>1
    <3>4. QED BY <2>1, <3>1, <3>2, <3>3
  <2>4. QED BY <2>2, <2>3
<1>11. ASSUME NEW k \in 1..n PROVE b[Slot(p, k, n)] = Kth(r, k, n)
  <2>1. CASE k = n
    BY <1>9, <2>1
  <2>2. CASE k # n
    <3>1. k \in 1..(n - 1)
      BY <2>2
    <3>2. QED BY <1>10, <3>1
  <2>3. QED BY <2>1, <2>2
<1>12. r \in Seq(Nat \ {Empty}) /\ Len(r) <= n
  BY <1>1, <1>3
<1>13. Ring(b, p, n, r)
  BY <1>4, <1>11, <1>12 DEF Ring
<1>14. QED BY <1>13 DEF b, p, r

TraceInv ==
  /\ label \in Nat \ {Empty}
  /\ iring_ptr \in 0..(IRING_SIZE - 1)
  /\ Ring(iringbuf, NextSlot(iring_ptr, IRING_SIZE), IRING_SIZE, irecent)
  /\ Len(irecent) < IRING_SIZE => iring_ptr = Len(irecent)
  /\ Ring(fringbuf, fringbuf_ptr, FRING_SIZE, frecent)

\* A ring that starts empty.
LEMMA EmptyRing ==
  ASSUME NEW n \in Nat \ {0}, NEW q \in 0..(n - 1)
  PROVE  Ring([i \in 0..(n - 1) |-> Empty], q, n, << >>)
<1>1. \A k \in 1..n : Slot(q, k, n) \in 0..(n - 1)
  BY DEF Slot
<1>2. << >> \in Seq(Nat \ {Empty}) /\ Len(<< >>) = 0
  OBVIOUS
<1>3. \A k \in 1..n : Kth(<< >>, k, n) = Empty
  BY <1>2 DEF Kth
<1>4. [i \in 0..(n - 1) |-> Empty] \in [0..(n - 1) -> Nat]
  BY DEF Empty
<1>5. QED BY <1>1, <1>2, <1>3, <1>4 DEF Ring

\* The lines of iringbuf_print.
LEMMA RingLines ==
  ASSUME TraceInv
  PROVE  /\ Len(iringbuf_print) = Len(irecent)
         /\ irecent # << >> =>
              \E k \in 1..Len(irecent) : ReadFrom(iringbuf_print, k, irecent)
<1> DEFINE at == [k \in 1..IRING_SIZE |-> iringbuf[k - 1]]
           line == [k \in 1..IRING_SIZE |-> [arrow |-> k - 1 = iring_ptr, text |-> at[k]]]
<1>1. PICK n \in Nat \ {0} : n = IRING_SIZE
  BY TraceAssumption
<1>2. /\ iring_ptr \in 0..(n - 1) /\ iringbuf \in [0..(n - 1) -> Nat]
      /\ irecent \in Seq(Nat \ {Empty}) /\ Len(irecent) <= n
      /\ Len(irecent) < n => iring_ptr = Len(irecent)
  BY <1>1 DEF TraceInv, Ring
<1>3. ASSUME NEW k \in 1..n
      PROVE  /\ (iring_ptr + k) % n \in 0..(n - 1)
             /\ iringbuf[(iring_ptr + k) % n] = Kth(irecent, k, n)
  <2>1. /\ (iring_ptr + k) % n = Slot(NextSlot(iring_ptr, n), k, n)
        /\ (iring_ptr + k) % n \in 0..(n - 1)
    <3>1. CASE iring_ptr + k < n
      <4>1. PICK a \in 0..(n - 1) : a = iring_ptr + k
        BY <1>2, <3>1
      <4>2. a % n = a
        BY ModSmall
      <4>3. QED BY <1>2, <3>1, <4>1, <4>2 DEF Slot, NextSlot
    <3>2. CASE ~(iring_ptr + k < n)
      <4>1. PICK a \in 0..(n - 1) : a = iring_ptr + k - n /\ iring_ptr + k = n + a
        BY <1>2, <3>2
      <4>2. (n + a) % n = a
        OBVIOUS
      <4>3. QED BY <1>2, <3>2, <4>1, <4>2 DEF Slot, NextSlot
    <3>3. QED BY <3>1, <3>2
  <2>2. QED BY <1>1, <2>1 DEF TraceInv, Ring
<1>4. PICK m \in 0..n : m = Len(irecent)
  BY <1>2
<1>5. iringbuf_print = Printed(at, line, n)
  BY <1>1 DEF iringbuf_print
<1>6. \A i \in 1..m : irecent[i] \in Nat \ {Empty}
  BY <1>2, <1>4
<1>7. CASE m = n
  <2>1. ASSUME NEW k \in 1..n PROVE iringbuf[(iring_ptr + k) % n] = irecent[k]
    <3>1. ~(k <= n - m) /\ k - (n - m) = k
      BY <1>7
    <3>2. QED BY <1>3, <1>4, <3>1 DEF Kth
  <2>2. ASSUME NEW a \in 0..(n - 1) PROVE iringbuf[a] # Empty
    <3>1. \E k \in 1..n : (iring_ptr + k) % n = a
      <4>1. CASE a > iring_ptr
        <5>1. a - iring_ptr \in 1..n /\ iring_ptr + (a - iring_ptr) = a
          BY <1>2, <4>1
        <5>2. a % n = a
          BY ModSmall
        <5>3. QED BY <5>1, <5>2
      <4>2. CASE ~(a > iring_ptr)
        <5>1. /\ a - iring_ptr + n \in 1..n
              /\ iring_ptr + (a - iring_ptr + n) = n + a
          BY <1>2, <4>2
        <5>2. (n + a) % n = a
          OBVIOUS
        <5>3. QED BY <5>1, <5>2
      <4>3. QED BY <4>1, <4>2
    <3>2. QED BY <1>6, <1>7, <2>1, <3>1
  <2>3. \A k \in 1..n : at[k] = Empty <=> ~(0 < k /\ k <= n)
    BY <1>1, <2>2
  <2> DEFINE lines == [i \in 1..n |-> line[i]]
  <2>4. iringbuf_print = lines
    <3>1. 0 \in 0..n /\ n \in 0..n /\ n - 0 = n
      OBVIOUS
    <3>2. Lines(line, 0, n) = lines
      BY <3>1 DEF Lines
    <3> HIDE DEF at, line, lines
    <3>3. Filled(at, 0, n, n)
      BY <2>3, <3>1 DEF Filled
    <3>4. Printed(at, line, n) = Lines(line, 0, n)
      BY <3>3, PrintsFilled
    <3>5. QED BY <1>5, <3>2, <3>4, Zenon
  <2>5. Len(lines) = n
    OBVIOUS
  <2>6. ASSUME NEW j \in 1..n
        PROVE  lines[j].text = iringbuf[j - 1] /\ (lines[j].arrow <=> j = iring_ptr + 1)
    <3>1. line[j] = [arrow |-> j - 1 = iring_ptr, text |-> at[j]]
      BY <1>1
    <3>2. at[j] = iringbuf[j - 1] /\ lines[j] = line[j]
      BY <1>1
    <3>3. j - 1 = iring_ptr <=> j = iring_ptr + 1
      BY <1>2
    <3> HIDE DEF at, line, lines
    <3>4. lines[j].arrow = (j - 1 = iring_ptr) /\ lines[j].text = at[j]
      BY <3>1, <3>2, LineParts
    <3>5. QED BY <3>2, <3>3, <3>4, Zenon
  <2>7. iring_ptr + 1 \in 1..n
    BY <1>2
  <2> HIDE DEF lines
  <2>8. ASSUME NEW i \in 1..n
        PROVE  lines[(((iring_ptr + 1) + i - 1) % n) + 1].text = irecent[i]
    <3>1. PICK a \in 0..(n - 1) : a = (iring_ptr + i) % n
      BY <1>3
    <3>2. (iring_ptr + 1) + i - 1 = iring_ptr + i
      BY <1>2
    <3>3. a + 1 \in 1..n /\ (a + 1) - 1 = a
      OBVIOUS
    <3>4. lines[a + 1].text = irecent[i]
      BY <2>1, <2>6, <3>1, <3>3
    <3>5. QED BY <3>1, <3>2, <3>4
  <2>9. ReadFrom(lines, iring_ptr + 1, irecent)
    BY <2>5, <2>6, <2>8 DEF ReadFrom
  <2>10. QED BY <1>4, <1>7, <2>4, <2>5, <2>7, <2>9, Zenon
<1>8. CASE m # n
  <2>0. iring_ptr = m /\ m \in 0..(n - 1)
    BY <1>2, <1>4, <1>8
  <2>1. ASSUME NEW j \in 1..m PROVE iringbuf[j] = irecent[j]
    <3>1. (n - m) + j \in 1..n /\ m + ((n - m) + j) = n + j
      BY <2>0
    <3>2. CASE j < n
      <4>1. (n + j) % n = j
        BY <3>2
      <4>2. ~((n - m) + j <= n - m) /\ ((n - m) + j) - (n - m) = j
        OBVIOUS
      <4>3. iringbuf[j] = Kth(irecent, (n - m) + j, n)
        BY <1>3, <2>0, <3>1, <4>1
      <4>4. QED BY <1>4, <4>2, <4>3 DEF Kth
    <3>3. QED BY <2>0, <3>2
  <2>2. ASSUME NEW a \in 0..(n - 1), a = 0 \/ a > m PROVE iringbuf[a] = Empty
    <3>1. \E k \in 1..(n - m) : (m + k) % n = a
      <4>1. CASE a = 0
        <5>1. n - m \in 1..(n - m) /\ m + (n - m) = n + 0 /\ (n + 0) % n = 0
          BY <2>0
        <5>2. QED BY <4>1, <5>1
      <4>2. CASE a > m
        <5>1. a - m \in 1..(n - m) /\ m + (a - m) = a
          BY <4>2
        <5>2. a % n = a
          BY ModSmall
        <5>3. QED BY <5>1, <5>2
      <4>3. QED BY <2>2, <4>1, <4>2
    <3>2. PICK k \in 1..(n - m) : (m + k) % n = a
      BY <3>1
    <3>3. k \in 1..n /\ k <= n - m
      OBVIOUS
    <3>4. Kth(irecent, k, n) = Empty
      BY <1>4, <3>3 DEF Kth
    <3>5. QED BY <1>3, <2>0, <3>2, <3>3, <3>4
  <2>3. ASSUME NEW k \in 1..n PROVE at[k] = Empty <=> ~(1 < k /\ k <= m + 1)
    <3>1. k - 1 \in 0..(n - 1) /\ at[k] = iringbuf[k - 1]
      BY <1>1
    <3>2. CASE 1 < k /\ k <= m + 1
      <4>1. k - 1 \in 1..m
        BY <3>2
      <4>2. QED BY <1>6, <2>1, <3>1, <3>2, <4>1
    <3>3. CASE ~(1 < k /\ k <= m + 1)
      <4>1. k - 1 = 0 \/ k - 1 > m
        BY <3>3
      <4>2. QED BY <2>2, <3>1, <3>3, <4>1
    <3>4. QED BY <3>2, <3>3
  <2> DEFINE lines == [i \in 1..m |-> line[1 + i]]
  <2>4. iringbuf_print = lines
    <3>1. 1 \in 0..n /\ m + 1 \in 1..n /\ (m + 1) - 1 = m
      BY <2>0
    <3> HIDE DEF at, line
    <3>2. Filled(at, 1, m + 1, n)
      BY <2>3, <3>1 DEF Filled
    <3>3. Printed(at, line, n) = Lines(line, 1, m + 1)
      BY <3>2, PrintsFilled
    <3>4. Lines(line, 1, m + 1) = lines
      BY <3>1, Zenon DEF Lines
    <3>5. QED BY <1>5, <3>3, <3>4, Zenon
  <2>5. Len(lines) = m
    OBVIOUS
  <2>6. ASSUME NEW j \in 1..m
        PROVE  lines[j].text = irecent[j] /\ (lines[j].arrow <=> j = m)
    <3>1. 1 + j \in 1..n /\ (1 + j) - 1 = j
      BY <2>0
    <3>2. line[1 + j] = [arrow |-> (1 + j) - 1 = iring_ptr, text |-> at[1 + j]]
      BY <1>1, <3>1
    <3>3. at[1 + j] = irecent[j]
      BY <1>1, <2>1, <3>1
    <3>4. lines[j] = line[1 + j]
      OBVIOUS
    <3> HIDE DEF at, line, lines
    <3>5. lines[j].arrow = ((1 + j) - 1 = iring_ptr) /\ lines[j].text = at[1 + j]
      BY <3>2, <3>4, LineParts
    <3>6. QED BY <2>0, <3>1, <3>3, <3>5, Zenon
  <2> HIDE DEF lines
  <2>7. ASSUME m # 0 PROVE ReadFrom(lines, m, irecent) /\ m \in 1..m
    <3>1. ASSUME NEW i \in 1..m PROVE lines[((m + i - 1) % m) + 1].text = irecent[i]
      <4>1. m \in Nat \ {0} /\ i - 1 \in 0..(m - 1) /\ m + i - 1 = m + (i - 1)
        BY <2>7
      <4>2. (m + (i - 1)) % m = i - 1
        BY <4>1
      <4>3. ((m + i - 1) % m) + 1 = i
        BY <4>1, <4>2
      <4>4. QED BY <2>6, <4>3
    <3>2. ReadFrom(lines, m, irecent)
      BY <2>5, <2>6, <3>1 DEF ReadFrom
    <3>3. QED BY <2>7, <3>2
  <2>8. irecent # << >> => m # 0
    BY <1>2, <1>4
  <2>9. QED BY <1>4, <2>4, <2>5, <2>7, <2>8, Zenon
<1>9. QED BY <1>7, <1>8

\* The print-outs of the two rings.
LEMMA RingsPrint == TraceInv => LastRecords
<1> SUFFICES ASSUME TraceInv PROVE LastRecords
  OBVIOUS
<1>1. PICK n \in Nat \ {0} : n = FRING_SIZE
  BY TraceAssumption
<1>2. ftrace_print = frecent
  <2> DEFINE real_ptr(i) == IF fringbuf_ptr + i < FRING_SIZE THEN fringbuf_ptr + i
                            ELSE fringbuf_ptr + i - FRING_SIZE
             at == [k \in 1..FRING_SIZE |-> fringbuf[real_ptr(k - 1)]]
  <2>1. fringbuf_ptr \in 0..(n - 1)
    BY <1>1 DEF TraceInv, Ring
  <2>2. ASSUME NEW k \in 1..n
        PROVE  real_ptr(k - 1) = Slot(fringbuf_ptr, k, n)
    BY <1>1, <2>1 DEF Slot
  <2>3. ASSUME NEW k \in 1..n PROVE at[k] = Kth(frecent, k, n)
    BY <1>1, <2>2 DEF TraceInv, Ring
  <2>4. frecent \in Seq(Nat \ {Empty}) /\ Len(frecent) <= n
    BY <1>1 DEF TraceInv, Ring
  <2>5. ftrace_print = Printed(at, at, n)
    BY <1>1 DEF ftrace_print
  <2>6. PICK m \in 0..n : m = Len(frecent)
    BY <2>4
  <2> HIDE DEF at
  <2>7. ASSUME NEW k \in 1..n PROVE at[k] = Empty <=> ~(n - m < k /\ k <= n)
    <3>1. CASE k <= n - m
      BY <2>3, <2>6, <3>1 DEF Kth
    <3>2. CASE ~(k <= n - m)
      <4>1. k - (n - m) \in 1..m
        BY <3>2
      <4>2. frecent[k - (n - m)] # Empty
        BY <2>4, <2>6, <4>1
      <4>3. QED BY <2>3, <2>6, <3>2, <4>2 DEF Kth
    <3>3. QED BY <3>1, <3>2
  <2>8. n - m \in 0..n /\ n \in (n - m)..n /\ n - (n - m) = m
    OBVIOUS
  <2>9. Printed(at, at, n) = Lines(at, n - m, n)
    <3>1. Filled(at, n - m, n, n)
      BY <2>7, <2>8 DEF Filled
    <3>2. QED BY <3>1, PrintsFilled
  <2>10. ASSUME NEW i \in 1..m PROVE at[(n - m) + i] = frecent[i]
    <3>1. /\ (n - m) + i \in 1..n /\ ~((n - m) + i <= n - m)
          /\ ((n - m) + i) - (n - m) = i
      OBVIOUS
    <3>2. QED BY <2>3, <2>6, <3>1 DEF Kth
  <2>11. frecent = [i \in 1..m |-> frecent[i]]
    BY <2>4, <2>6
  <2>12. Lines(at, n - m, n) = [i \in 1..m |-> at[(n - m) + i]]
    BY <2>8, Zenon DEF Lines
  <2>13. QED BY <2>5, <2>9, <2>10, <2>11, <2>12
<1>3. QED BY <1>2, RingLines DEF LastRecords

LEMMA InitTrace == TraceInit => TraceInv
<1> SUFFICES ASSUME TraceInit PROVE TraceInv
  OBVIOUS
<1>1. IRING_SIZE \in Nat \ {0} /\ FRING_SIZE \in Nat \ {0}
  BY TraceAssumption
<1>2. NextSlot(0, IRING_SIZE) \in 0..(IRING_SIZE - 1) /\ 0 \in 0..(FRING_SIZE - 1)
  BY <1>1 DEF NextSlot
<1>3. /\ Ring([i \in 0..(IRING_SIZE - 1) |-> Empty], NextSlot(0, IRING_SIZE), IRING_SIZE, << >>)
      /\ Ring([i \in 0..(FRING_SIZE - 1) |-> Empty], 0, FRING_SIZE, << >>)
  BY <1>1, <1>2, EmptyRing
<1>4. label \in Nat \ {Empty} /\ iring_ptr \in 0..(IRING_SIZE - 1)
  BY <1>1 DEF TraceInit, Empty
<1>5. irecent = << >> /\ iring_ptr = 0 /\ Len(<< >>) = 0
  BY DEF TraceInit
<1>6. QED BY <1>3, <1>4, <1>5 DEF TraceInit, TraceInv

LEMMA ExecTrace ==
  ASSUME TraceInv, NEW i, NEW f, NEW dnpc, exec_once(i, f, dnpc) PROVE TraceInv'
<1>1. IRING_SIZE \in Nat \ {0} /\ FRING_SIZE \in Nat \ {0} /\ Labels \in Nat \ {0}
  BY TraceAssumption
<1>2. label \in Nat \ {Empty}
  BY DEF TraceInv
<1>3. /\ iring_ptr' \in 0..(IRING_SIZE - 1)
      /\ Ring(iringbuf', NextSlot(iring_ptr', IRING_SIZE), IRING_SIZE, irecent')
      /\ Len(irecent') < IRING_SIZE => iring_ptr' = Len(irecent')
  <2>1. PICK p : p = NextSlot(iring_ptr, IRING_SIZE)
    OBVIOUS
  <2>2. /\ iring_ptr' = p /\ iringbuf' = [iringbuf EXCEPT ![p] = label]
        /\ irecent' = Last(Append(irecent, label), IRING_SIZE)
    BY <2>1 DEF exec_once, iringbuf_push, NextSlot
  <2>3. Ring(iringbuf, p, IRING_SIZE, irecent)
    BY <2>1 DEF TraceInv
  <2>4. Ring([iringbuf EXCEPT ![p] = label], NextSlot(p, IRING_SIZE), IRING_SIZE,
             Last(Append(irecent, label), IRING_SIZE))
    BY <1>1, <1>2, <2>3, Pushes
  <2>5. p \in 0..(IRING_SIZE - 1)
    BY <2>3 DEF Ring
  <2>6. Len(irecent') < IRING_SIZE => p = Len(irecent')
    <3>1. irecent \in Seq(Nat \ {Empty}) /\ Len(irecent) <= IRING_SIZE
      BY <2>3 DEF Ring
    <3>2. Len(irecent') = IF Len(irecent) = IRING_SIZE THEN IRING_SIZE ELSE Len(irecent) + 1
      <4>1. IsAppended(Last(Append(irecent, label), IRING_SIZE), irecent, label, IRING_SIZE)
        BY <1>1, <1>2, <3>1, LastAppended
      <4>2. QED BY <2>2, <4>1, Zenon DEF IsAppended
    <3>3. Len(irecent) < IRING_SIZE => iring_ptr = Len(irecent)
      BY DEF TraceInv
    <3>4. QED BY <1>1, <2>1, <3>1, <3>2, <3>3 DEF NextSlot
  <2>7. QED BY <2>2, <2>4, <2>5, <2>6
<1>4. NoRecord \/ \E depth : fringbuf_push(depth)
  BY DEF exec_once, ftrace_rcd
<1>5. Ring(fringbuf', fringbuf_ptr', FRING_SIZE, frecent')
  <2>1. Ring(fringbuf, fringbuf_ptr, FRING_SIZE, frecent)
    BY DEF TraceInv
  <2>2. CASE NoRecord
    BY <2>1, <2>2 DEF NoRecord
  <2>3. CASE \E depth : fringbuf_push(depth)
    <3>1. /\ fringbuf' = [fringbuf EXCEPT ![fringbuf_ptr] = label]
          /\ fringbuf_ptr' = NextSlot(fringbuf_ptr, FRING_SIZE)
          /\ frecent' = Last(Append(frecent, label), FRING_SIZE)
      BY <2>3 DEF fringbuf_push, NextSlot
    <3>2. QED BY <1>1, <1>2, <2>1, <3>1, Pushes
  <2>4. QED BY <1>4, <2>2, <2>3
<1>6. label' \in Nat \ {Empty}
  <2>1. label' = (label % Labels) + 1
    BY DEF exec_once
  <2>2. label % Labels \in Nat
    BY <1>1, <1>2, ModRange
  <2>3. QED BY <2>1, <2>2 DEF Empty
<1>7. QED BY <1>3, <1>5, <1>6 DEF TraceInv

(* The print-out of the instruction ring has one line for each of the last *)
(* instructions, with the arrow at the newest and in the order of their    *)
(* execution going round from it, and that of the function trace has the   *)
(* last calls and returns, oldest first, for rings of every size and       *)
(* whatever the program and the targets ftrace_rcd sees.                   *)
THEOREM TracesShowLast == TraceSpec => []LastRecords
<1>1. TraceInv /\ [TraceNext]_traceVars => TraceInv'
  <2> SUFFICES ASSUME TraceInv, [TraceNext]_traceVars PROVE TraceInv'
    OBVIOUS
  <2>1. CASE TraceNext
    <3>1. CASE free_fp
      BY <3>1 DEF free_fp, trace, TraceInv
    <3>2. CASE \E i, f, dnpc : exec_once(i, f, dnpc)
      BY <3>2, ExecTrace
    <3>3. QED BY <2>1, <3>1, <3>2, Zenon DEF TraceNext
  <2>2. CASE UNCHANGED traceVars
    BY <2>2 DEF traceVars, trace, TraceInv
  <2>3. QED BY <2>1, <2>2
<1>2. QED BY <1>1, InitTrace, RingsPrint, PTL DEF TraceSpec

----------------------------------------------------------------------------
(* Byte lanes.  A word is four digits to the base Radix; shifting, masking *)
(* and merging are done on the digits.                                     *)

Radix == 2 ^ ByteBits

\* Powers of two by the number of whole bytes.
LEMMA Powers ==
  /\ Radix \in Nat \ {0}
  /\ 2 ^ (ByteBits * 0) = 1 /\ 2 ^ (ByteBits * 1) = Radix
  /\ 2 ^ (ByteBits * 2) = Radix * Radix
  /\ 2 ^ (ByteBits * 3) = Radix * Radix * Radix
  /\ Modulus = Radix * Radix * Radix * Radix
<1>1. ByteBits \in {1, 2, 4, 8}
  BY ByteBitsAssumption
<1>2. CASE ByteBits = 1
  BY <1>2, SMT DEF Radix, Modulus, Width
<1>3. CASE ByteBits = 2
  BY <1>3, SMT DEF Radix, Modulus, Width
<1>4. CASE ByteBits = 4
  BY <1>4, SMT DEF Radix, Modulus, Width
<1>5. CASE ByteBits = 8
  BY <1>5, SMT DEF Radix, Modulus, Width
<1>6. QED BY <1>1, <1>2, <1>3, <1>4, <1>5

LEMMA BasePowers ==
  /\ Radix ^ 0 = 1 /\ Radix ^ 1 = Radix /\ Radix ^ 2 = Radix * Radix
  /\ Radix ^ 3 = Radix * Radix * Radix
  /\ Radix ^ 4 = Radix * Radix * Radix * Radix
<1>1. ByteBits \in {1, 2, 4, 8}
  BY ByteBitsAssumption
<1>2. CASE ByteBits = 1
  BY <1>2, SMT DEF Radix
<1>3. CASE ByteBits = 2
  BY <1>3, SMT DEF Radix
<1>4. CASE ByteBits = 4
  BY <1>4, SMT DEF Radix
<1>5. CASE ByteBits = 8
  BY <1>5, SMT DEF Radix
<1>6. QED BY <1>1, <1>2, <1>3, <1>4, <1>5

LEMMA HalfPowers ==
  /\ 2 ^ (ByteBits - 1) \in Nat \ {0} /\ 2 * 2 ^ (ByteBits - 1) = Radix
  /\ 2 ^ (2 * ByteBits - 1) \in Nat \ {0} /\ 2 * 2 ^ (2 * ByteBits - 1) = Radix * Radix
  /\ 2 ^ (Width - 1) \in Nat \ {0} /\ 2 * 2 ^ (Width - 1) = Radix * Radix * Radix * Radix
<1>1. ByteBits \in {1, 2, 4, 8}
  BY ByteBitsAssumption
<1>2. CASE ByteBits = 1
  BY <1>2, SMT DEF Radix, Width
<1>3. CASE ByteBits = 2
  BY <1>3, SMT DEF Radix, Width
<1>4. CASE ByteBits = 4
  BY <1>4, SMT DEF Radix, Width
<1>5. CASE ByteBits = 8
  BY <1>5, SMT DEF Radix, Width
<1>6. QED BY <1>1, <1>2, <1>3, <1>4, <1>5

\* A word by its four bytes.
Composed(w, b0, b1, b2, b3) == w = Radix * (Radix * (Radix * b3 + b2) + b1) + b0

Digit == 0..(Radix - 1)

\* Every word is made of four bytes.
LEMMA HasBytes ==
  ASSUME NEW w \in Words
  PROVE  \E b0, b1, b2, b3 \in Digit : Composed(w, b0, b1, b2, b3)
<1>0. PICK m \in Nat \ {0} : m = Radix
  BY Powers
<1>1. w \in Nat /\ w < m * (m * (m * m))
  <2>1. Modulus = m * (m * (m * m))
    <3>1. m * m * m * m = m * (m * (m * m))
      BY SMT
    <3>2. QED BY <1>0, <3>1, Powers
  <2>2. m * (m * (m * m)) \in Nat
    BY SMT
  <2>3. QED BY <2>1, <2>2 DEF Words
<1>2. PICK x \in Nat, b0 \in 0..(m - 1) : w = m * x + b0
  BY <1>1, Splits
<1>3. PICK y \in Nat, b1 \in 0..(m - 1) : x = m * y + b1
  BY Splits
<1>4. PICK z \in Nat, b2 \in 0..(m - 1) : y = m * z + b2
  BY Splits
<1>5. z < m
  <2> DEFINE M2 == m * m
             M3 == m * M2
  <2>0. M2 \in Nat /\ M3 \in Nat
    BY SMT
  <2>1. x < M3
    <3>1. m * x < m * M3
      <4> DEFINE p == m * x
      <4>1. p \in Nat
        BY SMT
      <4> HIDE DEF p, M3
      <4>2. QED BY <1>1, <1>2, <4>1 DEF p, M3
    <3> HIDE DEF M3
    <3>2. QED BY <2>0, <3>1, LessTimes
  <2>2. y < M2
    <3>1. m * y < m * M2
      <4> DEFINE p == m * y
      <4>1. p \in Nat
        BY SMT
      <4>2. p < M3
        <5> HIDE DEF p, M3
        <5>1. QED BY <1>3, <2>0, <2>1, <4>1 DEF p
      <4>3. QED BY <4>2
    <3> HIDE DEF M2
    <3>2. QED BY <2>0, <3>1, LessTimes
  <2>3. m * z < m * m
    <3> DEFINE p == m * z
    <3>1. p \in Nat
      BY SMT
    <3>2. p < M2
      <4> HIDE DEF p, M2
      <4>1. QED BY <1>4, <2>0, <2>2, <3>1 DEF p
    <3>3. QED BY <3>2
  <2>4. QED BY <2>3, LessTimes
<1>6. z \in 0..(m - 1)
  BY <1>5
<1>7. w = m * (m * (m * z + b2) + b1) + b0
  BY <1>2, <1>3, <1>4
<1>8. QED BY <1>0, <1>6, <1>7 DEF Composed, Digit

\* Four digits to the base m.
Digits(m, w, b0, b1, b2, b3) ==
  /\ b0 \in 0..(m - 1) /\ b1 \in 0..(m - 1) /\ b2 \in 0..(m - 1) /\ b3 \in 0..(m - 1)
  /\ w = m * (m * (m * b3 + b2) + b1) + b0

\* What division by powers of m does to them.
DividesInto(m, w, b0, b1, b2, b3) ==
  /\ w \in 0..(m * m * m * m - 1)
  /\ w % m = b0 /\ w \div m = m * (m * b3 + b2) + b1
  /\ (w \div m) % m = b1
  /\ w % (m * m) = m * b1 + b0 /\ w \div (m * m) = m * b3 + b2
  /\ (w \div (m * m)) % m = b2 /\ (w \div (m * m)) % (m * m) = m * b3 + b2
  /\ w \div (m * m * m) = b3 /\ (w \div (m * m * m)) % m = b3

LEMMA Divided ==
  ASSUME NEW m \in Nat \ {0}, NEW b0, NEW b1, NEW b2, NEW b3, NEW w,
         Digits(m, w, b0, b1, b2, b3)
  PROVE  DividesInto(m, w, b0, b1, b2, b3)
<1> USE DEF Digits
<1> DEFINE M2 == m * m
           M3 == m * M2
           x2 == m * b3 + b2
           x1 == m * x2 + b1
           y1 == m * b1 + b0
           y2 == m * (m * b2 + b1) + b0
<1>0. M2 \in Nat \ {0} /\ M3 \in Nat \ {0} /\ m * M3 \in Nat
  BY SMT
<1>1. x2 \in 0..(M2 - 1) /\ y1 \in 0..(M2 - 1) /\ m * b2 + b1 \in 0..(M2 - 1)
  BY MoreDigits
<1>2. x1 \in 0..(M3 - 1) /\ y2 \in 0..(M3 - 1)
  <2>1. \A x \in 0..(M2 - 1), r \in 0..(m - 1) : m * x + r \in 0..(M3 - 1)
    <3> SUFFICES ASSUME NEW x \in 0..(M2 - 1), NEW r \in 0..(m - 1)
                 PROVE  m * x + r \in 0..(m * M2 - 1)
      OBVIOUS
    <3> HIDE DEF M2
    <3>1. x \in Nat /\ x < M2
      BY <1>0
    <3>2. QED BY <1>0, <3>1, MoreDigits
  <2> DEFINE z == m * b2 + b1
  <2> HIDE DEF x2, M2, M3, z
  <2>2. x1 \in 0..(M3 - 1)
    BY <1>1, <2>1
  <2>3. m * z + b0 \in 0..(M3 - 1)
    BY <1>1, <2>1 DEF z
  <2>4. QED BY <2>2, <2>3 DEF z
<1>3. w \in 0..(m * M3 - 1) /\ w = m * x1 + b0
  <2>1. w = m * x1 + b0
    OBVIOUS
  <2> HIDE DEF x1, M3
  <2>2. x1 \in Nat /\ x1 < M3
    BY <1>0, <1>2
  <2>3. QED BY <1>0, <2>1, <2>2, MoreDigits
<1>4. w % m = b0 /\ w \div m = x1
  <2> HIDE DEF x1
  <2>1. x1 \in Nat
    BY <1>2
  <2>2. QED BY <1>3, <2>1, DivUnique
<1>5. x1 % m = b1
  <2> HIDE DEF x2
  <2>1. x2 \in Nat
    BY <1>1
  <2>2. QED BY <2>1, DivUnique
<1>6. w % M2 = y1 /\ w \div M2 = x2
  <2>1. w = M2 * x2 + y1
    <3>1. m * (m * x2 + b1) + b0 = (m * m) * x2 + (m * b1 + b0)
      <4> HIDE DEF x2
      <4>1. x2 \in Nat
        BY <1>1
      <4>2. QED BY <4>1, SMT
    <3>2. QED BY <1>3, <3>1
  <2> HIDE DEF x2, y1, M2
  <2>2. x2 \in Nat
    BY <1>0, <1>1
  <2>3. QED BY <1>0, <1>1, <2>1, <2>2, DivUnique
<1>7. x2 % m = b2 /\ x2 % M2 = x2
  <2>1. x2 % m = b2
    <3>1. b3 \in Nat
      OBVIOUS
    <3>2. QED BY <3>1, DivUnique
  <2> HIDE DEF x2, M2
  <2>2. x2 \in Nat /\ x2 < M2
    BY <1>0, <1>1
  <2>3. QED BY <1>0, <2>1, <2>2, ModSmall
<1>8. w \div M3 = b3 /\ b3 % m = b3
  <2>1. w = M3 * b3 + y2
    BY SMT
  <2> HIDE DEF y2, M3
  <2>2. b3 \in Nat /\ b3 < m
    OBVIOUS
  <2>3. w \div M3 = b3
    BY <1>0, <1>2, <2>1, <2>2, DivUnique
  <2>4. QED BY <2>2, <2>3, ModSmall
<1>9. m * m * m = M3 /\ m * m * m * m = m * M3
  BY SMT
<1>10. QED BY <1>3, <1>4, <1>5, <1>6, <1>7, <1>8, <1>9 DEF DividesInto

\* The lanes of a word are its bytes.
LEMMA LanesOf ==
  ASSUME NEW b0 \in Digit, NEW b1 \in Digit, NEW b2 \in Digit, NEW b3 \in Digit,
         NEW w, Composed(w, b0, b1, b2, b3)
  PROVE  /\ w \in Words
         /\ Lane(w, 0) = b0 /\ Lane(w, 1) = b1 /\ Lane(w, 2) = b2 /\ Lane(w, 3) = b3
<1>0. PICK m \in Nat \ {0} : m = Radix
  BY Powers
<1>1. /\ 2 ^ (ByteBits * 0) = 1 /\ 2 ^ (ByteBits * 1) = m /\ 2 ^ (ByteBits * 2) = m * m
      /\ 2 ^ (ByteBits * 3) = m * m * m /\ Modulus = m * m * m * m
  BY <1>0, Powers
<1>2. w = m * (m * (m * b3 + b2) + b1) + b0
  BY <1>0 DEF Composed
<1>3. /\ b0 \in 0..(m - 1) /\ b1 \in 0..(m - 1) /\ b2 \in 0..(m - 1) /\ b3 \in 0..(m - 1)
  BY <1>0 DEF Digit
<1>4. /\ w \in 0..(m * m * m * m - 1) /\ w % m = b0 /\ (w \div m) % m = b1
      /\ (w \div (m * m)) % m = b2 /\ (w \div (m * m * m)) % m = b3
  <2>1. Digits(m, w, b0, b1, b2, b3)
    BY <1>2, <1>3 DEF Digits
  <2>2. DividesInto(m, w, b0, b1, b2, b3)
    BY <2>1, Divided
  <2>3. QED BY <2>2, Zenon DEF DividesInto
<1>5. w \div 1 = w
  <2>1. w \in Nat
    BY <1>4
  <2>2. QED BY <2>1, SMT
<1>6. w \in Words
  BY <1>1, <1>4 DEF Words
<1>7. \A n : Lane(w, n) = (w \div 2 ^ (ByteBits * n)) % m
  BY <1>0, Zenon DEF Lane, Radix
<1>8. QED BY <1>1, <1>4, <1>5, <1>6, <1>7, Zenon

LEMMA LaneIsByte ==
  ASSUME NEW w \in Words, NEW n \in 0..3
  PROVE  Lane(w, n) \in Digit
<1>1. PICK b0 \in Digit, b1 \in Digit, b2 \in Digit, b3 \in Digit : Composed(w, b0, b1, b2, b3)
  BY HasBytes
<1>2. Lane(w, 0) = b0 /\ Lane(w, 1) = b1 /\ Lane(w, 2) = b2 /\ Lane(w, 3) = b3
  BY <1>1, LanesOf
<1>3. n = 0 \/ n = 1 \/ n = 2 \/ n = 3
  OBVIOUS
<1>4. QED BY <1>2, <1>3, Zenon

\* A masked write takes the lanes of the mask from the data.
LEMMA Merges ==
  ASSUME NEW old \in Words, NEW wdata \in Words, NEW wmask
  PROVE  /\ DMergeBytes(old, wdata, wmask) \in Words
         /\ \A n \in 0..3 : Lane(DMergeBytes(old, wdata, wmask), n) =
                              IF n \in wmask THEN Lane(wdata, n) ELSE Lane(old, n)
<1> DEFINE c(n) == Lane(IF n \in wmask THEN wdata ELSE old, n)
           w == DMergeBytes(old, wdata, wmask)
<1>1. \A n \in 0..3 : c(n) \in Digit /\ c(n) = IF n \in wmask THEN Lane(wdata, n) ELSE Lane(old, n)
  BY LaneIsByte
<1>2. w = c(0) * 2 ^ (ByteBits * 0) + c(1) * 2 ^ (ByteBits * 1)
            + c(2) * 2 ^ (ByteBits * 2) + c(3) * 2 ^ (ByteBits * 3)
  BY Zenon DEF DMergeBytes
<1> HIDE DEF c, w
<1>3. PICK b0 \in Digit, b1 \in Digit, b2 \in Digit, b3 \in Digit :
        b0 = c(0) /\ b1 = c(1) /\ b2 = c(2) /\ b3 = c(3)
  <2>1. 0 \in 0..3 /\ 1 \in 0..3 /\ 2 \in 0..3 /\ 3 \in 0..3
    OBVIOUS
  <2>2. c(0) \in Digit /\ c(1) \in Digit /\ c(2) \in Digit /\ c(3) \in Digit
    BY <1>1, <2>1, Zenon
  <2>3. QED BY <2>2, Zenon
<1>4. Composed(w, b0, b1, b2, b3)
  <2>1. PICK m \in Nat \ {0} : m = Radix
    BY Powers
  <2>2. w = b0 * 1 + b1 * m + b2 * (m * m) + b3 * (m * m * m)
    <3>1. /\ 2 ^ (ByteBits * 0) = 1 /\ 2 ^ (ByteBits * 1) = m /\ 2 ^ (ByteBits * 2) = m * m
          /\ 2 ^ (ByteBits * 3) = m * m * m
      BY <2>1, Powers
    <3>2. QED BY <1>2, <1>3, <3>1, Zenon
  <2>3. b0 \in Nat /\ b1 \in Nat /\ b2 \in Nat /\ b3 \in Nat
    BY <2>1 DEF Digit
  <2>4. w = m * (m * (m * b3 + b2) + b1) + b0
    BY <2>2, <2>3, SMT
  <2>5. QED BY <2>1, <2>4 DEF Composed
<1>5. w \in Words /\ Lane(w, 0) = b0 /\ Lane(w, 1) = b1 /\ Lane(w, 2) = b2 /\ Lane(w, 3) = b3
  BY <1>4, LanesOf
<1>6. ASSUME NEW n \in 0..3 PROVE Lane(w, n) = c(n)
  <2>1. n = 0 \/ n = 1 \/ n = 2 \/ n = 3
    OBVIOUS
  <2>2. QED BY <1>3, <1>5, <2>1, Zenon
<1>7. QED BY <1>1, <1>5, <1>6, Zenon DEF w

\* The store data of an access at lane k begins with the low byte in that lane.
LEMMA ShiftsUp ==
  ASSUME NEW v \in Words, NEW k \in 0..3
  PROVE  LET w == (v * 2 ^ (ByteBits * k)) % Modulus
         IN  /\ w \in Words
             /\ \A n \in k..3 : Lane(w, n) = Lane(v, n - k)
<1> DEFINE w == (v * 2 ^ (ByteBits * k)) % Modulus
<1>0. PICK m \in Nat \ {0} : m = Radix
  BY Powers
<1>1. /\ 2 ^ (ByteBits * 0) = 1 /\ 2 ^ (ByteBits * 1) = m /\ 2 ^ (ByteBits * 2) = m * m
      /\ 2 ^ (ByteBits * 3) = m * m * m /\ Modulus = m * m * m * m
  BY <1>0, Powers
<1>2. PICK b0 \in Digit, b1 \in Digit, b2 \in Digit, b3 \in Digit : Composed(v, b0, b1, b2, b3)
  BY HasBytes
<1>3. Lane(v, 0) = b0 /\ Lane(v, 1) = b1 /\ Lane(v, 2) = b2 /\ Lane(v, 3) = b3
  BY <1>2, LanesOf
<1>4. /\ b0 \in 0..(m - 1) /\ b1 \in 0..(m - 1) /\ b2 \in 0..(m - 1) /\ b3 \in 0..(m - 1)
      /\ 0 \in 0..(m - 1) /\ 0 \in Digit
  BY <1>0 DEF Digit
<1>5. v = m * (m * (m * b3 + b2) + b1) + b0
  BY <1>0, <1>2 DEF Composed
<1> DEFINE F(c0, c1, c2, c3) == m * (m * (m * c3 + c2) + c1) + c0
<1>6. ASSUME NEW c0 \in Digit, NEW c1 \in Digit, NEW c2 \in Digit, NEW c3 \in Digit,
             NEW q \in Nat, v * 2 ^ (ByteBits * k) = (m * m * m * m) * q + F(c0, c1, c2, c3)
      PROVE  /\ w \in Words
             /\ Lane(w, 0) = c0 /\ Lane(w, 1) = c1 /\ Lane(w, 2) = c2 /\ Lane(w, 3) = c3
  <2> DEFINE M == m * m * m * m
             f == F(c0, c1, c2, c3)
  <2>1. Composed(f, c0, c1, c2, c3)
    BY <1>0 DEF Composed
  <2>2. f \in Words /\ Lane(f, 0) = c0 /\ Lane(f, 1) = c1 /\ Lane(f, 2) = c2 /\ Lane(f, 3) = c3
    <3> HIDE DEF f
    <3>1. QED BY <2>1, LanesOf
  <2>3. M \in Nat \ {0}
    BY SMT
  <2>4. f \in 0..(M - 1)
    BY <1>1, <2>2 DEF Words
  <2>5. (M * q + f) % M = f
    <3> HIDE DEF M, f
    <3>1. QED BY <2>3, <2>4, DivUnique
  <2>6. w = f
    <3>1. v * 2 ^ (ByteBits * k) = M * q + f /\ Modulus = M
      BY <1>1, <1>6
    <3> HIDE DEF M, f
    <3>2. QED BY <2>5, <3>1
  <2> HIDE DEF f, w
  <2>7. QED BY <2>2, <2>6
<1>7. CASE k = 0
  <2>1. v * 1 = (m * m * m * m) * 0 + F(b0, b1, b2, b3)
    BY <1>4, <1>5, SMT
  <2>2. w \in Words /\ Lane(w, 0) = b0 /\ Lane(w, 1) = b1 /\ Lane(w, 2) = b2 /\ Lane(w, 3) = b3
    BY <1>1, <1>6, <1>7, <2>1
  <2> HIDE DEF w
  <2>3. ASSUME NEW n \in k..3 PROVE Lane(w, n) = Lane(v, n - k)
    <3>1. (n = 0 \/ n = 1 \/ n = 2 \/ n = 3) /\ n - k = n
      BY <1>7
    <3>2. QED BY <1>3, <2>2, <3>1
  <2>4. QED BY <2>2, <2>3 DEF w
<1>8. CASE k = 1
  <2>1. v * m = (m * m * m * m) * b3 + F(0, b0, b1, b2)
    BY <1>4, <1>5, SMT
  <2>2. w \in Words /\ Lane(w, 1) = b0 /\ Lane(w, 2) = b1 /\ Lane(w, 3) = b2
    <3>1. v * 2 ^ (ByteBits * k) = (m * m * m * m) * b3 + F(0, b0, b1, b2)
      BY <1>1, <1>8, <2>1
    <3>2. b3 \in Nat
      BY <1>4
    <3> HIDE DEF w, F
    <3>3. QED BY <1>4, <1>6, <3>1, <3>2
  <2> HIDE DEF w
  <2>3. ASSUME NEW n \in k..3 PROVE Lane(w, n) = Lane(v, n - k)
    <3>1. (n = 1 /\ n - k = 0) \/ (n = 2 /\ n - k = 1) \/ (n = 3 /\ n - k = 2)
      BY <1>8
    <3>2. QED BY <1>3, <2>2, <3>1, Zenon
  <2>4. QED BY <2>2, <2>3 DEF w
<1>9. CASE k = 2
  <2>1. v * (m * m) = (m * m * m * m) * (m * b3 + b2) + F(0, 0, b0, b1)
    BY <1>4, <1>5, SMT
  <2>2. w \in Words /\ Lane(w, 2) = b0 /\ Lane(w, 3) = b1
    <3>1. v * 2 ^ (ByteBits * k) = (m * m * m * m) * (m * b3 + b2) + F(0, 0, b0, b1)
      BY <1>1, <1>9, <2>1
    <3>2. m * b3 + b2 \in Nat
      BY <1>4, SMT
    <3> HIDE DEF w, F
    <3>3. QED BY <1>4, <1>6, <3>1, <3>2
  <2> HIDE DEF w
  <2>3. ASSUME NEW n \in k..3 PROVE Lane(w, n) = Lane(v, n - k)
    <3>1. (n = 2 /\ n - k = 0) \/ (n = 3 /\ n - k = 1)
      BY <1>9
    <3>2. QED BY <1>3, <2>2, <3>1, Zenon
  <2>4. QED BY <2>2, <2>3 DEF w
<1>10. CASE k = 3
  <2>1. v * (m * m * m) = (m * m * m * m) * (m * (m * b3 + b2) + b1) + F(0, 0, 0, b0)
    BY <1>4, <1>5, SMT
  <2>2. w \in Words /\ Lane(w, 3) = b0
    <3>1. m * (m * b3 + b2) + b1 \in Nat
      BY <1>4, SMT
    <3>2. PICK q \in Nat : q = m * (m * b3 + b2) + b1
      BY <3>1
    <3>3. v * 2 ^ (ByteBits * k) = (m * m * m * m) * q + F(0, 0, 0, b0)
      BY <1>1, <1>10, <2>1, <3>2
    <3> HIDE DEF w, F
    <3>4. QED BY <1>4, <1>6, <3>3
  <2> HIDE DEF w
  <2>3. ASSUME NEW n \in k..3 PROVE Lane(w, n) = Lane(v, n - k)
    <3>1. n = 3 /\ n - k = 0
      BY <1>10
    <3>2. QED BY <1>3, <2>2, <3>1, Zenon
  <2>4. QED BY <2>2, <2>3 DEF w
<1>11. QED BY <1>7, <1>8, <1>9, <1>10

\* The digit of a number and its lane.
LEMMA LaneOfBase ==
  ASSUME NEW v, NEW j \in 0..3
  PROVE  (v \div (2 ^ ByteBits) ^ j) % 2 ^ ByteBits = Lane(v, j)
<1>1. j = 0 \/ j = 1 \/ j = 2 \/ j = 3
  OBVIOUS
<1>2. (2 ^ ByteBits) ^ j = 2 ^ (ByteBits * j)
  <2>1. /\ (2 ^ ByteBits) ^ 0 = 2 ^ (ByteBits * 0) /\ (2 ^ ByteBits) ^ 1 = 2 ^ (ByteBits * 1)
        /\ (2 ^ ByteBits) ^ 2 = 2 ^ (ByteBits * 2) /\ (2 ^ ByteBits) ^ 3 = 2 ^ (ByteBits * 3)
    BY Powers, BasePowers, Zenon DEF Radix
  <2>2. QED BY <1>1, <2>1, Zenon
<1>3. QED BY <1>2, Zenon DEF Lane

\* The top bit of the low part tells whether that part is negative.
LEMMA TopBit ==
  ASSUME NEW H \in Nat \ {0}, NEW M, M = 2 * H, NEW d \in Nat
  PROVE  (d \div H) % 2 = 1 <=> 2 * (d % M) >= M
<1>1. M \in Nat \ {0}
  OBVIOUS
<1>2. PICK q \in Nat, r \in 0..(M - 1) : d = M * q + r
  BY <1>1, Splits
<1>3. d % M = r
  BY <1>1, <1>2, DivUnique
<1>4. CASE r < H
  <2>1. d = H * (2 * q) + r /\ 2 * q \in Nat /\ r \in 0..(H - 1)
    BY <1>2, <1>4, SMT
  <2>2. d \div H = 2 * q
    BY <2>1, DivUnique
  <2>3. (2 * q) % 2 = 0
    BY SMT
  <2>4. QED BY <1>3, <1>4, <2>2, <2>3
<1>5. CASE ~(r < H)
  <2>1. d = H * (2 * q + 1) + (r - H) /\ 2 * q + 1 \in Nat /\ r - H \in 0..(H - 1)
    BY <1>1, <1>2, <1>5, SMT
  <2>2. d \div H = 2 * q + 1
    <3>1. PICK t \in 0..(H - 1), p \in Nat : t = r - H /\ p = 2 * q + 1
      BY <2>1
    <3>2. d = H * p + t
      BY <2>1, <3>1
    <3>3. d \div H = p
      BY <3>2, DivUnique
    <3>4. QED BY <3>1, <3>3
  <2>3. (2 * q + 1) % 2 = 1
    BY SMT
  <2>4. QED BY <1>3, <1>5, <2>2, <2>3
<1>6. QED BY <1>4, <1>5

\* DExtend, for M the values of its size.
HasSize(size, M, H) ==
  /\ M \in Nat \ {0} /\ M = 2 ^ SizeBits(size) /\ M <= Modulus /\ Modulus \in Nat
  /\ H \in Nat \ {0} /\ H = 2 ^ (SizeBits(size) - 1) /\ M = 2 * H

Extended(size, uload, d, M) ==
  LET u == d % M
      s == IF ~uload /\ 2 * u >= M THEN u - M ELSE u
  IN  DExtend(size, uload, d) = s % Modulus

LEMMA Extends ==
  ASSUME NEW size, NEW uload \in BOOLEAN, NEW d \in Nat, NEW M, NEW H,
         HasSize(size, M, H)
  PROVE  Extended(size, uload, d, M)
<1> USE DEF HasSize, Extended
<1> DEFINE u == d % M
<1>1. u \in 0..(M - 1)
  <2>1. d \in Int
    OBVIOUS
  <2>2. QED BY <2>1, ModRange, Zenon
<1>2. (d \div H) % 2 = 1 <=> 2 * u >= M
  BY TopBit
<1>3. CASE uload \/ ~(2 * u >= M)
  <2>1. DExtend(size, uload, d) = u
    BY <1>2, <1>3 DEF DExtend, SignExtend, Bit
  <2>2. u % Modulus = u
    <3> HIDE DEF u
    <3>1. u \in Nat /\ u < Modulus
      BY <1>1
    <3>2. QED BY <3>1, ModSmall
  <2>3. QED BY <1>3, <2>1, <2>2
<1>4. CASE ~uload /\ 2 * u >= M
  <2>1. DExtend(size, uload, d) = u + Modulus - M
    BY <1>2, <1>4 DEF DExtend, SignExtend, Bit
  <2>2. (u - M) % Modulus = u - M + Modulus
    <3> HIDE DEF u
    <3>1. u - M \in Int /\ 0 - Modulus <= u - M /\ u - M < 0 /\ Modulus \in Nat \ {0}
      BY <1>1
    <3>2. QED BY <3>1, ModBelow
  <2> HIDE DEF u
  <2>3. u + Modulus - M = u - M + Modulus
    BY <1>1
  <2>4. QED BY <1>4, <2>1, <2>2, <2>3 DEF u
<1>5. QED BY <1>3, <1>4

\* The unsigned value of the n bytes at a place.
Value(w, n, at) ==
  LET byte(k) == IF k < n THEN Lane(w, at + k) * Radix ^ k ELSE 0
  IN  byte(0) + byte(1) + byte(2) + byte(3)

\* The aligned accesses.
IsAligned(size, at) ==
  \/ size = "BYTE" /\ at \in 0..3
  \/ size = "HALF" /\ at \in {0, 2}
  \/ size = "WORD" /\ at = 0

LEMMA AlignedCases == ASSUME NEW a \in Aligned PROVE IsAligned(a[1], a[2])
BY DEF Aligned, IsAligned

\* What a load finds in the lanes, and the powers of its size.
LEMMA ReadsBytes ==
  ASSUME NEW w \in Words, NEW size, NEW at, IsAligned(size, at)
  PROVE  /\ DReadLanes(size, at, w) \in Nat
         /\ DReadLanes(size, at, w) % 2 ^ SizeBits(size) = Value(w, Bytes!Length(size), at)
         /\ 2 ^ SizeBits(size) = Radix ^ Bytes!Length(size)
         /\ 2 ^ SizeBits(size) \in Nat \ {0} /\ 2 ^ SizeBits(size) <= Modulus
         /\ 2 ^ (SizeBits(size) - 1) \in Nat \ {0}
         /\ 2 ^ SizeBits(size) = 2 * 2 ^ (SizeBits(size) - 1)
<1>0. PICK m \in Nat \ {0} : m = Radix
  BY Powers
<1>1. /\ 2 ^ (ByteBits * 0) = 1 /\ 2 ^ (ByteBits * 1) = m /\ 2 ^ (ByteBits * 2) = m * m
      /\ 2 ^ (ByteBits * 3) = m * m * m /\ Modulus = m * m * m * m /\ 2 ^ ByteBits = m
  BY <1>0, Powers DEF Radix
<1>2. /\ Radix ^ 0 = 1 /\ Radix ^ 1 = m /\ Radix ^ 2 = m * m /\ Radix ^ 3 = m * m * m
      /\ Radix ^ 4 = m * m * m * m
  BY <1>0, BasePowers
<1>3. PICK b0 \in Digit, b1 \in Digit, b2 \in Digit, b3 \in Digit : Composed(w, b0, b1, b2, b3)
  BY HasBytes
<1>4. Lane(w, 0) = b0 /\ Lane(w, 1) = b1 /\ Lane(w, 2) = b2 /\ Lane(w, 3) = b3
  BY <1>3, LanesOf
<1>5. b0 \in Nat /\ b1 \in Nat /\ b2 \in Nat /\ b3 \in Nat
  BY <1>0 DEF Digit
<1>6. DividesInto(m, w, b0, b1, b2, b3)
  <2>1. Digits(m, w, b0, b1, b2, b3)
    BY <1>0, <1>3 DEF Digits, Digit, Composed
  <2>2. QED BY <2>1, Divided
<1>7. w \in Nat /\ w \div 1 = w
  <2>1. w \in Nat
    BY <1>6 DEF DividesInto
  <2>2. QED BY <2>1, SMT
<1>8. /\ m <= m * m * m * m /\ m * m <= m * m * m * m
      /\ m * m \in Nat \ {0} /\ m * m * m * m \in Nat \ {0}
  <2>1. m * m \in Nat \ {0} /\ m * m * m \in Nat \ {0} /\ m * m * m * m \in Nat \ {0}
    BY SMT
  <2>2. m <= m * m /\ m * m <= m * m * m /\ m * m * m <= m * m * m * m
    <3>1. ASSUME NEW x \in Nat PROVE x <= x * m
      <4>1. x * (m - 1) \in Nat /\ x * m = x + x * (m - 1)
        BY SMT
      <4>2. QED BY <4>1, SMT
    <3>2. QED BY <2>1, <3>1
  <2>3. QED BY <2>1, <2>2
<1>9. CASE size = "BYTE" /\ at \in 0..3
  <2>1. SizeBits(size) = ByteBits /\ Bytes!Length(size) = 1
    BY <1>9 DEF SizeBits, Bytes!Length
  <2>2. Offset(at) = at
    BY <1>9 DEF Offset
  <2>3. DReadLanes(size, at, w) = w \div 2 ^ (ByteBits * at)
    BY <1>9, <2>2 DEF DReadLanes
  <2>4. w \div 2 ^ (ByteBits * at) \in Nat
    <3>1. 2 ^ (ByteBits * at) \in Nat \ {0}
      <4>1. at = 0 \/ at = 1 \/ at = 2 \/ at = 3
        BY <1>9
      <4>2. m * m * m \in Nat \ {0}
        BY SMT
      <4>3. QED BY <1>1, <1>8, <4>1, <4>2
    <3>2. QED BY <1>7, <3>1, DivMod
  <2>5. Value(w, 1, at) = Lane(w, at)
    <3>1. Lane(w, at) \in Nat /\ at + 0 = at
      <4>1. Lane(w, at) \in Digit
        BY <1>9, LaneIsByte
      <4>2. QED BY <1>0, <1>9, <4>1 DEF Digit
    <3>2. QED BY <1>2, <3>1 DEF Value
  <2>6. (w \div 2 ^ (ByteBits * at)) % 2 ^ ByteBits = Lane(w, at)
    BY Zenon DEF Lane
  <2>7. 2 ^ (ByteBits - 1) \in Nat \ {0} /\ 2 * 2 ^ (ByteBits - 1) = m
    BY <1>0, HalfPowers
  <2>8. QED BY <1>1, <1>2, <1>8, <2>1, <2>3, <2>4, <2>5, <2>6, <2>7
<1>10. CASE size = "HALF" /\ at \in {0, 2}
  <2>1. SizeBits(size) = 2 * ByteBits /\ Bytes!Length(size) = 2
    BY <1>10 DEF SizeBits, Bytes!Length
  <2>2. 2 ^ (2 * ByteBits) = m * m
    <3>1. 2 * ByteBits = ByteBits * 2
      BY ByteBitsAssumption
    <3>2. QED BY <1>1, <3>1
  <2>3. 2 ^ (2 * ByteBits - 1) \in Nat \ {0} /\ 2 * 2 ^ (2 * ByteBits - 1) = m * m
    BY <1>0, HalfPowers
  <2>4. Offset(at) \div 2 = IF at = 0 THEN 0 ELSE 1
    BY <1>10 DEF Offset
  <2>5. DReadLanes(size, at, w) = w \div 2 ^ (2 * ByteBits * (Offset(at) \div 2))
    BY <1>10 DEF DReadLanes
  <2>6. CASE at = 0
    <3>1. 2 * ByteBits * 0 = ByteBits * 0
      BY ByteBitsAssumption
    <3>2. DReadLanes(size, at, w) = w
      BY <1>1, <1>7, <2>4, <2>5, <2>6, <3>1
    <3>3. w % (m * m) = m * b1 + b0
      BY <1>6 DEF DividesInto
    <3>4. Value(w, 2, 0) = b0 * 1 + b1 * m + 0 + 0
      BY <1>2, <1>4 DEF Value
    <3>5. m * b1 + b0 = b0 * 1 + b1 * m + 0 + 0
      BY <1>5, SMT
    <3>6. w % (m * m) = Value(w, 2, at)
      BY <2>6, <3>3, <3>4, <3>5
    <3>7. QED BY <1>1, <1>2, <1>7, <1>8, <2>1, <2>2, <2>3, <3>2, <3>6
  <2>7. CASE at = 2
    <3>1. 2 * ByteBits * 1 = ByteBits * 2
      BY ByteBitsAssumption
    <3>2. DReadLanes(size, at, w) = w \div (m * m)
      BY <1>1, <2>4, <2>5, <2>7, <3>1
    <3>3. (w \div (m * m)) % (m * m) = m * b3 + b2 /\ w \div (m * m) = m * b3 + b2
      BY <1>6 DEF DividesInto
    <3>4. Value(w, 2, 2) = b2 * 1 + b3 * m + 0 + 0
      BY <1>2, <1>4 DEF Value
    <3>5. m * b3 + b2 = b2 * 1 + b3 * m + 0 + 0 /\ m * b3 + b2 \in Nat
      BY <1>5, SMT
    <3>6. (w \div (m * m)) % (m * m) = Value(w, 2, at) /\ w \div (m * m) \in Nat
      BY <2>7, <3>3, <3>4, <3>5
    <3>7. QED BY <1>1, <1>2, <1>8, <2>1, <2>2, <2>3, <3>2, <3>6
  <2>8. QED BY <1>10, <2>6, <2>7
<1>11. CASE size = "WORD" /\ at = 0
  <2>1. SizeBits(size) = Width /\ Bytes!Length(size) = 4 /\ 2 ^ Width = m * m * m * m
    BY <1>1, <1>11 DEF SizeBits, Bytes!Length, Modulus
  <2>2. 2 ^ (Width - 1) \in Nat \ {0} /\ 2 * 2 ^ (Width - 1) = m * m * m * m
    BY <1>0, HalfPowers
  <2>3. DReadLanes(size, at, w) = w
    BY <1>11 DEF DReadLanes
  <2>4. w % (m * m * m * m) = w
    <3>1. w < m * m * m * m
      BY <1>1, <1>8 DEF Words
    <3>2. QED BY <1>7, <1>8, <3>1, ModSmall
  <2>5. Value(w, 4, 0) = b0 * 1 + b1 * m + b2 * (m * m) + b3 * (m * m * m)
    BY <1>2, <1>4 DEF Value
  <2>6. w = m * (m * (m * b3 + b2) + b1) + b0
    BY <1>0, <1>3 DEF Composed
  <2>7. w = Value(w, 4, at)
    <3>1. m * (m * (m * b3 + b2) + b1) + b0 =
            b0 * 1 + b1 * m + b2 * (m * m) + b3 * (m * m * m)
      BY <1>5, SMT
    <3>2. QED BY <1>11, <2>5, <2>6, <3>1
  <2>8. QED BY <1>1, <1>2, <1>7, <1>8, <2>1, <2>2, <2>3, <2>4, <2>7
<1>12. QED BY <1>9, <1>10, <1>11 DEF IsAligned

\* What a store leaves in each lane.
Stored(old, v, size, at, w) ==
  /\ w \in Words
  /\ \A n \in 0..3 : Lane(w, n) = IF n \in at..(at + Bytes!Length(size) - 1)
                                  THEN Lane(v, n - at) ELSE Lane(old, n)

LEMMA StoresBytes ==
  ASSUME NEW old \in Words, NEW v \in Words, NEW size, NEW at, IsAligned(size, at)
  PROVE  Stored(old, v, size, at,
                DMergeBytes(old, DStoreData(size, at, v), DStoreMask(size, at)))
<1> USE DEF IsAligned
<1> DEFINE d == DStoreData(size, at, v)
           mask == DStoreMask(size, at)
           w == DMergeBytes(old, d, mask)
<1>0. at \in 0..3 /\ Offset(at) = at
  BY DEF Offset
<1>1. d \in Words /\ \A n \in at..3 : Lane(d, n) = Lane(v, n - at)
  <2>1. CASE size = "WORD"
    <3>1. d = v /\ at = 0
      BY <2>1 DEF DStoreData
    <3>2. ASSUME NEW n \in at..3 PROVE Lane(d, n) = Lane(v, n - at)
      <4>1. n - at = n
        BY <3>1
      <4>2. QED BY <3>1, <4>1
    <3>3. QED BY <3>1, <3>2
  <2>2. CASE size # "WORD"
    <3>1. d = (v * 2 ^ (ByteBits * at)) % Modulus
      BY <1>0, <2>2 DEF DStoreData
    <3> HIDE DEF d
    <3>2. QED BY <1>0, <3>1, ShiftsUp, Zenon
  <2>3. QED BY <2>1, <2>2
<1>2. \A n \in 0..3 : n \in mask <=> n \in at..(at + Bytes!Length(size) - 1)
  <2>1. CASE size = "BYTE" /\ at \in 0..3
    <3>1. mask = {at} /\ Bytes!Length(size) = 1
      BY <1>0, <2>1 DEF DStoreMask, Bytes!Length
    <3> HIDE DEF mask
    <3>2. QED BY <1>0, <3>1
  <2>2. CASE size = "HALF" /\ at \in {0, 2}
    <3>1. mask = {at, at + 1} \cap (0..3) /\ Bytes!Length(size) = 2
      BY <1>0, <2>2 DEF DStoreMask, Bytes!Length
    <3>2. \A n \in 0..3 : n \in {at, at + 1} <=> n \in at..(at + 2 - 1)
      BY <1>0
    <3> HIDE DEF mask
    <3>3. QED BY <3>1, <3>2
  <2>3. CASE size = "WORD" /\ at = 0
    <3>1. mask = 0..3 /\ Bytes!Length(size) = 4
      BY <2>3 DEF DStoreMask, Bytes!Length
    <3>2. at..(at + 4 - 1) = 0..3
      BY <2>3
    <3> HIDE DEF mask
    <3>3. QED BY <3>1, <3>2
  <2>4. QED BY <2>1, <2>2, <2>3
<1> HIDE DEF d, mask
<1>3. /\ w \in Words
      /\ \A n \in 0..3 : Lane(w, n) = IF n \in mask THEN Lane(d, n) ELSE Lane(old, n)
  BY <1>1, Merges
<1>4. \A n \in 0..3 : n \in at..(at + Bytes!Length(size) - 1) => n \in at..3
  <2>1. ASSUME NEW n \in 0..3, NEW l, n \in at..(at + l - 1) PROVE n \in at..3
    BY <1>0, <2>1
  <2>2. QED BY <2>1
<1> HIDE DEF w
<1>5. ASSUME NEW n \in 0..3
      PROVE  Lane(w, n) = IF n \in at..(at + Bytes!Length(size) - 1)
                          THEN Lane(v, n - at) ELSE Lane(old, n)
  BY <1>1, <1>2, <1>3, <1>4, Zenon
<1>6. QED BY <1>3, <1>5, Zenon DEF Stored, w, d, mask

\* A store is a store of bytes.
LEMMA StoreRefines ==
  ASSUME word \in Words, NEW a \in Accesses, NEW v \in Data, Store(a[1], a[2], v)
  PROVE  word' \in Words /\ Bytes!Next
<1> DEFINE n == Bytes!Length(a[1])
           at == a[2]
<1>0. a \in Aligned /\ v \in Words
  BY AccessAssumption
<1>1. /\ word' \in Words
      /\ \A b \in 0..3 : Lane(word', b) = IF b \in at..(at + n - 1)
                                          THEN Lane(v, b - at) ELSE Lane(word, b)
  <2>1. PICK size, p : size = a[1] /\ p = a[2]
    OBVIOUS
  <2>2. IsAligned(size, p)
    BY <1>0, <2>1, AlignedCases
  <2>3. word' = DMergeBytes(word, DStoreData(size, p, v), DStoreMask(size, p))
    BY <2>1 DEF Store
  <2>4. Stored(word, v, size, p, word')
    BY <1>0, <2>2, <2>3, StoresBytes
  <2>5. QED BY <2>1, <2>4, Zenon DEF Stored
<1>2. at \in 0..3 /\ n \in 1..4
  <2>1. at \in 0..3
    BY <1>0, AlignedCases DEF IsAligned
  <2>2. n \in 1..4
    BY <1>0, AlignedCases DEF IsAligned, Bytes!Length
  <2>3. QED BY <2>1, <2>2
<1> HIDE DEF n, at
<1>3. ASSUME NEW b \in 0..3
      PROVE  Lane(word', b) = IF b \in at..(at + n - 1)
                              THEN (v \div (2 ^ ByteBits) ^ (b - at)) % 2 ^ ByteBits
                              ELSE Lane(word, b)
  <2>1. CASE b \in at..(at + n - 1)
    <3>1. b - at \in 0..3
      BY <1>2, <2>1
    <3>2. Lane(word', b) = Lane(v, b - at)
      BY <1>1, <2>1
    <3>3. QED BY <2>1, <3>1, <3>2, LaneOfBase, Zenon
  <2>2. CASE b \notin at..(at + n - 1)
    BY <1>1, <2>2, Zenon
  <2>3. QED BY <2>1, <2>2
<1>4. [b \in 0..3 |-> Lane(word', b)] =
        [b \in 0..3 |-> IF b \in at..(at + n - 1)
                        THEN (v \div (2 ^ ByteBits) ^ (b - at)) % 2 ^ ByteBits
                        ELSE [i \in 0..3 |-> Lane(word, i)][b]]
  BY <1>3, Zenon
<1>5. loaded' = 0 /\ access' = <<"store", a[1], a[2], v>>
  BY DEF Store
<1>6. Bytes!Store(Bytes!Length(a[1]), a[2], v)
  BY <1>4, <1>5, Zenon DEF Bytes!Store, n, at
<1>7. QED BY <1>1, <1>5, <1>6, Zenon DEF Bytes!Next

\* A load is a load of bytes.
LEMMA LoadRefines ==
  ASSUME word \in Words, NEW a \in Accesses, NEW uload \in BOOLEAN, Load(a[1], uload, a[2])
  PROVE  word' \in Words /\ Bytes!Next
<1>0. a \in Aligned
  BY AccessAssumption
<1>1. PICK size, at : size = a[1] /\ at = a[2]
  OBVIOUS
<1>2. IsAligned(size, at)
  BY <1>0, <1>1, AlignedCases
<1> DEFINE n == Bytes!Length(size)
           d == DReadLanes(size, at, word)
<1>3. /\ d \in Nat /\ d % 2 ^ SizeBits(size) = Value(word, n, at)
      /\ 2 ^ SizeBits(size) = Radix ^ n
      /\ 2 ^ SizeBits(size) \in Nat \ {0} /\ 2 ^ SizeBits(size) <= Modulus
      /\ 2 ^ (SizeBits(size) - 1) \in Nat \ {0}
      /\ 2 ^ SizeBits(size) = 2 * 2 ^ (SizeBits(size) - 1)
  BY <1>2, ReadsBytes, Zenon
<1>4. Modulus \in Nat /\ Modulus = Radix ^ 4
  <2>1. PICK m \in Nat \ {0} : m = Radix
    BY Powers
  <2>2. m * m * m * m \in Nat
    BY SMT
  <2>3. QED BY <2>1, <2>2, Powers, BasePowers
<1> HIDE DEF n, d
<1>5. PICK M, H : M = 2 ^ SizeBits(size) /\ H = 2 ^ (SizeBits(size) - 1)
  OBVIOUS
<1>6. Extended(size, uload, d, M)
  <2>1. HasSize(size, M, H)
    BY <1>3, <1>4, <1>5 DEF HasSize
  <2>2. QED BY <1>3, <2>1, Extends
<1>7. loaded' = DExtend(size, uload, d) /\ word' = word
      /\ access' = <<"load", a[1], a[2], uload>>
  BY <1>1, Zenon DEF Load, d
<1>8. /\ at + 0 \in 0..3
      /\ 1 < n => at + 1 \in 0..3
      /\ 2 < n => at + 2 \in 0..3
      /\ 3 < n => at + 3 \in 0..3
  BY <1>2 DEF n, IsAligned, Bytes!Length
<1>9. Bytes!Load(n, at, uload)
  <2> DEFINE byte(k) == IF k < n THEN [i \in 0..3 |-> Lane(word, i)][at + k] * (2 ^ ByteBits) ^ k
                        ELSE 0
             u == byte(0) + byte(1) + byte(2) + byte(3)
             s == IF ~uload /\ 2 * u >= (2 ^ ByteBits) ^ n THEN u - (2 ^ ByteBits) ^ n ELSE u
  <2>1. /\ byte(0) = IF 0 < n THEN Lane(word, at + 0) * Radix ^ 0 ELSE 0
        /\ byte(1) = IF 1 < n THEN Lane(word, at + 1) * Radix ^ 1 ELSE 0
        /\ byte(2) = IF 2 < n THEN Lane(word, at + 2) * Radix ^ 2 ELSE 0
        /\ byte(3) = IF 3 < n THEN Lane(word, at + 3) * Radix ^ 3 ELSE 0
    <3>1. \A i \in 0..3 : [j \in 0..3 |-> Lane(word, j)][i] = Lane(word, i)
      BY Zenon
    <3>2. QED BY <1>8, <3>1, Zenon DEF Radix
  <2>2. u = Value(word, n, at)
    <3> HIDE DEF byte
    <3>1. QED BY <2>1, Zenon DEF Value
  <2>3. u = d % M /\ M = (2 ^ ByteBits) ^ n /\ Modulus = (2 ^ ByteBits) ^ 4
    <3> HIDE DEF u
    <3>1. QED BY <1>3, <1>4, <1>5, <2>2, Zenon DEF Radix
  <2>4. loaded' = s % (2 ^ ByteBits) ^ 4
    <3> HIDE DEF u
    <3>1. QED BY <1>6, <1>7, <2>3, Zenon DEF Extended
  <2>5. [i \in 0..3 |-> Lane(word, i)]' = [i \in 0..3 |-> Lane(word, i)]
    BY <1>7
  <2>6. QED BY <2>4, <2>5, Zenon DEF Bytes!Load
<1>10. QED BY <1>1, <1>7, <1>9, Zenon DEF Bytes!Next, n

(* Shifts, masks, merge and extension together are the byte memory of the  *)
(* architecture for every set of aligned accesses and all register values, *)
(* with bytes of 1, 2, 4 or the 8 bits of the core.                        *)
THEOREM LanesRefine == LanesSpec => RefinesByteMemory
<1>1. LanesInit => word \in Words /\ Bytes!Init
  <2> SUFFICES ASSUME LanesInit PROVE word \in Words /\ Bytes!Init
    OBVIOUS
  <2>0. PICK m \in Nat \ {0} : m = Radix
    BY Powers
  <2>1. 0 \in Digit
    BY <2>0 DEF Digit
  <2>2. Composed(0, 0, 0, 0, 0)
    <3>1. 0 = m * (m * (m * 0 + 0) + 0) + 0
      BY SMT
    <3>2. QED BY <2>0, <3>1 DEF Composed
  <2>3. 0 \in Words /\ Lane(0, 0) = 0 /\ Lane(0, 1) = 0 /\ Lane(0, 2) = 0 /\ Lane(0, 3) = 0
    BY <2>1, <2>2, LanesOf
  <2>4. \A n \in 0..3 : Lane(0, n) = 0
    <3>1. \A n \in 0..3 : n = 0 \/ n = 1 \/ n = 2 \/ n = 3
      OBVIOUS
    <3>2. QED BY <2>3, <3>1, Zenon
  <2>5. [n \in 0..3 |-> Lane(word, n)] = [n \in 0..3 |-> 0]
    BY <2>4, Zenon DEF LanesInit
  <2>6. QED BY <2>3, <2>5 DEF LanesInit, Bytes!Init
<1>2. word \in Words /\ [LanesNext]_lanesVars =>
        (word \in Words)' /\ [Bytes!Next]_<<[n \in 0..3 |-> Lane(word, n)], access, loaded>>
  <2> SUFFICES ASSUME word \in Words, [LanesNext]_lanesVars
               PROVE  /\ word' \in Words
                      /\ [Bytes!Next]_<<[n \in 0..3 |-> Lane(word, n)], access, loaded>>
    OBVIOUS
  <2>1. CASE LanesNext
    BY <2>1, StoreRefines, LoadRefines, Zenon DEF LanesNext
  <2>2. CASE UNCHANGED lanesVars
    <3>1. word' = word /\ access' = access /\ loaded' = loaded
      BY <2>2 DEF lanesVars
    <3>2. QED BY <3>1
  <2>3. QED BY <2>1, <2>2
<1>3. QED BY <1>1, <1>2, PTL DEF LanesSpec, RefinesByteMemory, Bytes!Spec
=============================================================================
