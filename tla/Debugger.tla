------------------------------ MODULE Debugger ------------------------------
(***************************************************************************)
(* The debugger of the simulator: the commands that change state           *)
(* (core/csrc/monitor/sdb/sdb.cpp), the pool of watchpoints                *)
(* (core/csrc/monitor/sdb/watchpoint.c), and the life of npc_state in      *)
(* cpu_exec and execute (core/csrc/cpu/cpu-exec.cpp).  What an instruction *)
(* does to the values of the watched expressions is left open.             *)
(***************************************************************************)
EXTENDS Naturals

CONSTANTS
  NR_WP,              \* watchpoints in the pool (32)
  Exprs,              \* expressions a user may watch
  Values,             \* their values
  Fail,               \* an evaluation that fails, as a division by zero does
  Difftest,           \* CONFIG_DIFFTEST
  MaxNO,              \* bound on the watchpoint numbers
  MaxSi               \* bound on the argument of si

ASSUME PoolAssumption == /\ NR_WP \in Nat \ {0}
                         /\ Difftest \in BOOLEAN
                         /\ MaxNO \in Nat
                         /\ MaxSi \in Nat
                         /\ 0 \in Values
                         /\ Fail \notin Values

VARIABLES
  wp_pool,            \* the watchpoints
  head, free_,        \* the lists in use and free; 0 is NULL
  value,              \* what each expression evaluates to now
  npc_state,          \* npc_state.state
  todo,               \* n of execute
  phase,              \* who runs: the prompt, execute, or nobody any more
  batch,              \* is_batch_mode
  ended,              \* the program has executed its ebreak
  halt_ret,           \* npc_state.halt_ret: x10 at the ebreak, 0 or not
  mismatched          \* differential testing has found a difference

pool == <<wp_pool, head, free_>>
vars == <<wp_pool, head, free_, value, npc_state, todo, phase, batch, ended,
          halt_ret, mismatched>>
verdict == <<halt_ret, mismatched>>

NULL    == 0
Slot    == 1..NR_WP
Forever == MaxSi + 1                 \* c is cpu_exec(-1)
NoExpr  == "no expression"           \* the empty e_str of an unused slot
NoTrap  == 2                         \* an instruction that is not an ebreak

TypeOK ==
  /\ wp_pool \in [Slot -> [NO : 0..(MaxNO + NR_WP), next : 0..NR_WP,
                           e : Exprs \cup {NoExpr}, pre_result : Values]]
  /\ head \in 0..NR_WP
  /\ free_ \in 0..NR_WP
  /\ value \in [Exprs -> Values \cup {Fail}]
  /\ npc_state \in {"RUNNING", "QUIT", "STOP", "ABORT", "END"}
  /\ todo \in 0..Forever
  /\ phase \in {"prompt", "execute", "exit", "abort"}
  /\ batch \in BOOLEAN
  /\ ended \in BOOLEAN
  /\ halt_ret \in 0..1
  /\ mismatched \in BOOLEAN

\* init_wp_pool and the initial npc_state.
Init ==
  /\ wp_pool = [i \in Slot |-> [NO |-> i - 1, next |-> IF i = NR_WP THEN NULL ELSE i + 1,
                                e |-> NoExpr, pre_result |-> 0]]
  /\ head = NULL
  /\ free_ = 1
  /\ value \in [Exprs -> Values \cup {Fail}]
  /\ npc_state = "STOP"
  /\ todo = 0
  /\ phase = "prompt"
  /\ batch \in BOOLEAN
  /\ ended = FALSE
  /\ halt_ret = 1
  /\ mismatched = FALSE

----------------------------------------------------------------------------
(* The lists *)

\* The nodes met by following next from start; NULL at the end of the list.
Walk(start) ==
  LET at[k \in 0..NR_WP] == IF k = 0 THEN start
                            ELSE IF at[k - 1] = NULL THEN NULL
                            ELSE wp_pool[at[k - 1]].next
  IN  at

Nodes(start) == {Walk(start)[k] : k \in 0..NR_WP} \ {NULL}

\* The first node of the list in use that satisfies P, NULL if none does.
First(P(_)) ==
  LET at   == Walk(head)
      meet == {k \in 0..NR_WP : at[k] # NULL /\ P(at[k])}
  IN  IF meet = {} THEN NULL
      ELSE at[CHOOSE k \in meet : \A j \in meet : k <= j]

\* Mutation of new_NO: the number is the index of the slot.
new_NO_slot == free_

new_NO == IF head = NULL THEN 1 ELSE wp_pool[head].NO + 1

\* An empty free list is an assert(0), an expression that fails is refused.
new_wp(e) ==
  /\ new_NO <= MaxNO
  /\ IF free_ = NULL
     THEN phase' = "abort" /\ UNCHANGED <<wp_pool, head, free_>>
     ELSE /\ value[e] # Fail
          /\ wp_pool' = [wp_pool EXCEPT ![free_] = [NO |-> new_NO, next |-> head,
                                                    e |-> e, pre_result |-> value[e]]]
          /\ head' = free_
          /\ free_' = wp_pool[free_].next
          /\ phase' = phase

\* Mutation of free_wp: a watchpoint that is not the head is not unlinked.
free_wp_head_only(wp) ==
  /\ head' = IF head = wp THEN wp_pool[wp].next ELSE head
  /\ wp_pool' = [wp_pool EXCEPT ![wp].next = free_]
  /\ free_' = wp

free_wp(wp) ==
  /\ head' = IF head = wp THEN wp_pool[wp].next ELSE head
  /\ wp_pool' = [p \in Slot |->
                   CASE p = wp -> [wp_pool[p] EXCEPT !.next = free_]
                     [] p # wp /\ head # wp /\ p \in Nodes(head) /\ wp_pool[p].next = wp
                          -> [wp_pool[p] EXCEPT !.next = wp_pool[wp].next]
                     [] OTHER -> wp_pool[p]]
  /\ free_' = wp

----------------------------------------------------------------------------
(* Commands.  In batch mode sdb_mainloop runs a single c and returns.      *)

Prompt == phase = "prompt" /\ ~batch

cmd_w(e) ==
  /\ Prompt
  /\ new_wp(e)
  /\ UNCHANGED <<value, npc_state, todo, batch, ended, verdict>>

\* delete_wp
cmd_d(N) ==
  LET wp == First(LAMBDA p : wp_pool[p].NO = N) IN
  /\ Prompt
  /\ wp # NULL
  /\ free_wp(wp)
  /\ UNCHANGED <<value, npc_state, todo, phase, batch, ended, verdict>>

\* Up to the loop of execute; with n = 0 the loop is not entered.
cpu_exec(n) ==
  /\ npc_state \notin {"END", "QUIT"}
  /\ npc_state' = IF n = 0 THEN "STOP" ELSE "RUNNING"
  /\ todo' = n
  /\ phase' = IF n = 0 THEN "prompt" ELSE "execute"
  /\ UNCHANGED <<wp_pool, head, free_, value, batch, ended, verdict>>

cmd_si(n) == Prompt /\ cpu_exec(n)
cmd_c     == phase = "prompt" /\ cpu_exec(Forever)

\* q, or the end of the input.
cmd_q ==
  /\ Prompt
  /\ npc_state' \in {"QUIT", npc_state}
  /\ phase' = "exit"
  /\ UNCHANGED <<wp_pool, head, free_, value, todo, batch, ended, verdict>>

----------------------------------------------------------------------------
(* One round of the loop of execute *)

\* Mutation of Triggered: only the newest watchpoint is compared.
Triggered_head(v) ==
  IF head # NULL /\ wp_pool[head].pre_result # v[wp_pool[head].e] THEN head ELSE NULL

\* The watchpoint at which scan_wp_diff stops, for the new values v.
Triggered(v) ==
  First(LAMBDA p : v[wp_pool[p].e] = Fail \/ wp_pool[p].pre_result # v[wp_pool[p].e])

\* Mutation of trace_and_difftest: a watchpoint always stops the run.
trace_and_difftest_stop(s, mismatch, wp) ==
  IF wp # NULL THEN "STOP" ELSE IF mismatch THEN "ABORT" ELSE s

\* npc_state after an instruction that left s: difftest may abort, then a
\* watchpoint may stop, and only END is kept.
trace_and_difftest(s, mismatch, wp) ==
  LET checked == IF mismatch THEN "ABORT" ELSE s
  IN  IF wp # NULL /\ checked # "END" THEN "STOP" ELSE checked

\* Execute one instruction with the new values v; an ebreak calls npctrap
\* with x10 = ret.
exec_once(v, ret, mismatch) ==
  LET ebreak == ret # NoTrap
      wp == Triggered(v)
      s0 == IF ebreak THEN "END" ELSE npc_state
      s  == trace_and_difftest(s0, mismatch, wp)
      n  == IF todo = Forever THEN Forever ELSE todo - 1
      go == s = "RUNNING" /\ n > 0
  IN  /\ phase = "execute"
      /\ mismatch => Difftest
      /\ value' = v
      /\ ended' = (ended \/ ebreak)
      /\ halt_ret' = IF ebreak THEN ret ELSE halt_ret
      /\ mismatched' = (mismatched \/ mismatch)
      /\ UNCHANGED <<head, free_, batch>>
      /\ IF wp # NULL /\ v[wp_pool[wp].e] = Fail
         THEN /\ phase' = "abort"                \* assert(success==true)
              /\ npc_state' = trace_and_difftest(s0, mismatch, NULL)
              /\ UNCHANGED <<wp_pool, todo>>
         ELSE /\ wp_pool' = IF wp = NULL THEN wp_pool
                            ELSE [wp_pool EXCEPT ![wp].pre_result = v[wp_pool[wp].e]]
              /\ npc_state' = IF s = "RUNNING" /\ ~go THEN "STOP" ELSE s
              /\ todo' = IF go THEN n ELSE 0
              /\ phase' = IF go THEN phase ELSE IF batch THEN "exit" ELSE "prompt"

\* The instruction does not finish: 40 cycles without a commit, or unknow_inst.
panic ==
  /\ phase = "execute"
  /\ phase' = "abort"
  /\ UNCHANGED <<wp_pool, head, free_, value, npc_state, todo, batch, ended, verdict>>

Next ==
  \/ panic
  \/ \E e \in Exprs : cmd_w(e)
  \/ \E N \in 0..MaxNO : cmd_d(N)
  \/ \E n \in 0..MaxSi : cmd_si(n)
  \/ cmd_c
  \/ cmd_q
  \/ \E v \in [Exprs -> Values \cup {Fail}], ret \in 0..NoTrap, mismatch \in BOOLEAN :
       exec_once(v, ret, mismatch)

Spec == Init /\ [][Next]_vars

\* Mutation of is_exit_status_bad: the return value of the program decides.
is_exit_status_bad_ret == halt_ret # 0

\* The exit status of the simulator.
is_exit_status_bad ==
  ~((npc_state = "END" /\ halt_ret = 0) \/ npc_state = "QUIT")

----------------------------------------------------------------------------
(* Both lists end, share no watchpoint, and together hold the whole pool:  *)
(* no sequence of w and d loses a watchpoint or puts one in both lists     *)
(* (new_wp and free_wp relink by hand), and no field leaves its type: the  *)
(* value of an expression that fails is never stored.                      *)
PoolOK ==
  /\ TypeOK
  /\ Walk(head)[NR_WP] = NULL
  /\ Walk(free_)[NR_WP] = NULL
  /\ Nodes(head) \cap Nodes(free_) = {}
  /\ Nodes(head) \cup Nodes(free_) = Slot

(* The numbers fall along the list, so no two watchpoints in use have the  *)
(* same one and d N means one of them, although new_wp looks at the head   *)
(* only and numbers are reused after a deletion.                           *)
NumbersFall ==
  \A p \in Nodes(head) :
    /\ wp_pool[p].NO > 0
    /\ wp_pool[p].next # NULL => wp_pool[wp_pool[p].next].NO < wp_pool[p].NO

(* While execute goes on to another instruction, every watched expression  *)
(* has the value that was last reported of it, or that it had when it was  *)
(* set.  scan_wp_diff stops at the first difference: one behind it is left *)
(* for the scan after the next instruction, which reports it if it is      *)
(* still there, so that it may stop a run that changed nothing, or be lost *)
(* if the value has come back; execution never goes on past one.           *)
GoesOnReported ==
  [][phase = "execute" /\ phase' = "execute" =>
       \A p \in Nodes(head) : wp_pool[p].pre_result = value'[wp_pool[p].e]]_vars

(* cpu_exec says "Program execution has ended. To restart the program,     *)
(* exit NPC and run again.": after the ebreak no instruction is executed,  *)
(* whatever a watchpoint makes of npc_state in the same round, unless      *)
(* difftest has found a difference (NoneAfterEnd).                         *)
EndIsFinal == ended /\ ~mismatched => phase # "execute"

(* The same without the exception, as the message of cpu_exec has it.      *)
NoneAfterEnd == ended => phase # "execute"

(* A test suite runs the simulator in batch mode and reads its exit status *)
(* (is_exit_status_bad): it is good only if the program ended by itself,   *)
(* returned 0, and difftest found no difference in any round, the one of   *)
(* the ebreak included.                                                    *)
BatchVerdict ==
  batch /\ phase = "exit" /\ ~is_exit_status_bad =>
    ended /\ halt_ret = 0 /\ ~mismatched
=============================================================================
