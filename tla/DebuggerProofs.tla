--------------------------- MODULE DebuggerProofs ---------------------------
(***************************************************************************)
(* The debugger, for every pool, every set of expressions and every        *)
(* sequence of commands: a program that has executed its ebreak is never   *)
(* continued, the exit status of a batch run tells the truth, the lists of *)
(* watchpoints stay two lists, and execution does not go on past a watched *)
(* value that differs from the one reported.  And its expressions, for     *)
(* every string of tokens and every expression: what gets a value is an    *)
(* expression, and the value is the one it has in C.                       *)
(***************************************************************************)
EXTENDS Debugger, Expr, NatLemmas

(* npc_state is RUNNING while execute runs, and END at the prompt once the *)
(* program has ended and difftest has had no objection: what makes         *)
(* EndIsFinal inductive.                                                   *)
EndInv ==
  /\ ended \in BOOLEAN
  /\ mismatched \in BOOLEAN
  /\ phase = "execute" => npc_state = "RUNNING"
  /\ phase = "execute" /\ ~mismatched => ~ended
  /\ phase = "prompt" /\ ended /\ ~mismatched => npc_state = "END"

(* A program ends for good: as long as differential testing has found no   *)
(* difference, no watchpoint and no command makes execute run an           *)
(* instruction after the ebreak.                                           *)
THEOREM EndStays == Spec => []EndIsFinal
<1>1. Init => EndInv
  BY DEF Init, EndInv
<1>2. EndInv /\ [Next]_vars => EndInv'
  <2> SUFFICES ASSUME EndInv, [Next]_vars
               PROVE  EndInv'
    OBVIOUS
  <2>1. ASSUME NEW e \in Exprs, cmd_w(e) PROVE EndInv'
    BY <2>1 DEF EndInv, cmd_w, Prompt, new_wp, verdict
  <2>2. ASSUME NEW N \in 0..MaxNO, cmd_d(N) PROVE EndInv'
    BY <2>2 DEF EndInv, cmd_d, verdict
  <2>3. ASSUME NEW n, phase = "prompt", cpu_exec(n) PROVE EndInv'
    BY <2>3 DEF EndInv, cpu_exec, verdict
  <2>4. CASE cmd_q
    BY <2>4 DEF EndInv, cmd_q, verdict
  <2>5. ASSUME NEW v, NEW ret \in 0..NoTrap, NEW mismatch \in BOOLEAN,
               exec_once(v, ret, mismatch)
        PROVE  EndInv'
    <3> DEFINE ebreak == ret # NoTrap
    <3>1. /\ phase = "execute" /\ npc_state = "RUNNING"
          /\ mismatched' \in BOOLEAN /\ ended' \in BOOLEAN
          /\ mismatched' = (mismatched \/ mismatch)
          /\ ended' = (ended \/ ebreak)
      BY <2>5 DEF exec_once, EndInv
    <3>2. ~mismatched' => ~mismatch /\ ~ended /\ ended' = ebreak
      BY <3>1 DEF EndInv
    <3>3. CASE phase' = "abort"
      BY <3>1, <3>3 DEF EndInv
    <3>4. CASE phase' # "abort"
      <4> DEFINE wp == Triggered(v)
                 s  == trace_and_difftest(IF ebreak THEN "END" ELSE npc_state,
                                          mismatch, wp)
                 go == s = "RUNNING" /\ (IF todo = Forever THEN Forever ELSE todo - 1) > 0
      <4>1. /\ npc_state' = IF s = "RUNNING" /\ ~go THEN "STOP" ELSE s
            /\ phase' = IF go THEN phase ELSE IF batch THEN "exit" ELSE "prompt"
        BY <2>5, <3>4 DEF exec_once
      <4>2. ebreak /\ ~mismatch => s = "END"
        BY DEF trace_and_difftest
      <4> HIDE DEF s
      <4>3. phase' = "execute" => npc_state' = "RUNNING" /\ s = "RUNNING"
        BY <4>1
      <4>4. s = "END" => npc_state' = "END"
        BY <4>1
      <4> QED
        BY <3>1, <3>2, <4>2, <4>3, <4>4 DEF EndInv
    <3> QED
      BY <3>3, <3>4
  <2>6. CASE UNCHANGED vars
    BY <2>6 DEF EndInv, vars
  <2>7. CASE panic
    BY <2>7 DEF EndInv, panic, verdict
  <2> QED
    BY <2>1, <2>2, <2>3, <2>4, <2>5, <2>6, <2>7 DEF Next, cmd_si, cmd_c, Prompt
<1>3. EndInv => EndIsFinal
  BY DEF EndInv, EndIsFinal
<1> QED
  BY <1>1, <1>2, <1>3, PTL DEF Spec

----------------------------------------------------------------------------
(* The exit status of a batch run *)

\* A batch run is one c: until execute returns, the program has not ended and
\* nothing has differed, and END is left only by a round that ended it.
VerdictInv ==
  /\ ended \in BOOLEAN /\ mismatched \in BOOLEAN /\ batch \in BOOLEAN
  /\ batch =>
       /\ npc_state # "QUIT"
       /\ phase \in {"prompt", "execute"} => ~ended /\ ~mismatched
       /\ phase = "prompt" => npc_state = "STOP"
       /\ phase = "execute" => npc_state = "RUNNING"
       /\ phase = "exit" /\ npc_state = "END" => ended /\ ~mismatched

\* A good exit status of a batch run means that the program ended, returned 0
\* and never differed from the reference, also in the round of the ebreak.
THEOREM VerdictIsTrue == Spec => []BatchVerdict
<1>1. Init => VerdictInv
  BY DEF Init, VerdictInv
<1>2. VerdictInv /\ [Next]_vars => VerdictInv'
  <2> SUFFICES ASSUME VerdictInv, [Next]_vars
               PROVE  VerdictInv'
    OBVIOUS
  <2>1. ASSUME NEW e \in Exprs, cmd_w(e) PROVE VerdictInv'
    BY <2>1 DEF VerdictInv, cmd_w, Prompt, verdict
  <2>2. ASSUME NEW N \in 0..MaxNO, cmd_d(N) PROVE VerdictInv'
    BY <2>2 DEF VerdictInv, cmd_d, Prompt, verdict
  <2>3. ASSUME NEW n \in 0..MaxSi, cmd_si(n) PROVE VerdictInv'
    BY <2>3 DEF VerdictInv, cmd_si, cpu_exec, Prompt, verdict
  <2>4. CASE cmd_c
    <3>1. Forever # 0
      BY PoolAssumption DEF Forever
    <3>2. QED BY <2>4, <3>1 DEF VerdictInv, cmd_c, cpu_exec, verdict
  <2>5. CASE cmd_q
    BY <2>5 DEF VerdictInv, cmd_q, Prompt, verdict
  <2>6. ASSUME NEW v, NEW ret \in 0..NoTrap, NEW mismatch \in BOOLEAN,
               exec_once(v, ret, mismatch)
        PROVE  VerdictInv'
    <3> DEFINE ebreak == ret # NoTrap
    <3>1. /\ phase = "execute" /\ batch' = batch
          /\ mismatched' = (mismatched \/ mismatch) /\ ended' = (ended \/ ebreak)
      BY <2>6 DEF exec_once
    <3>2. mismatched' \in BOOLEAN /\ ended' \in BOOLEAN
      BY <3>1 DEF VerdictInv
    <3>3. batch => /\ npc_state = "RUNNING" /\ ~ended /\ ~mismatched
                   /\ mismatched' = mismatch /\ ended' = ebreak
      BY <3>1 DEF VerdictInv
    <3>4. CASE phase' = "abort"
      <4>1. npc_state' = trace_and_difftest(IF ebreak THEN "END" ELSE npc_state,
                                            mismatch, NULL)
        BY <2>6, <3>1, <3>4 DEF exec_once
      <4>2. batch => npc_state' # "QUIT"
        BY <3>3, <4>1 DEF trace_and_difftest
      <4>3. QED BY <3>1, <3>2, <3>4, <4>2 DEF VerdictInv
    <3>5. CASE phase' # "abort"
      <4> DEFINE wp == Triggered(v)
                 s  == trace_and_difftest(IF ebreak THEN "END" ELSE npc_state,
                                          mismatch, wp)
                 go == s = "RUNNING" /\ (IF todo = Forever THEN Forever ELSE todo - 1) > 0
      <4>1. /\ npc_state' = IF s = "RUNNING" /\ ~go THEN "STOP" ELSE s
            /\ phase' = IF go THEN phase ELSE IF batch THEN "exit" ELSE "prompt"
        BY <2>6, <3>5 DEF exec_once
      <4>2. /\ s = "RUNNING" /\ batch => ~ebreak /\ ~mismatch
            /\ s = "END" /\ batch => ebreak /\ ~mismatch
            /\ batch => s # "QUIT"
        BY <3>3 DEF trace_and_difftest
      <4> HIDE DEF s
      <4>3. batch => /\ npc_state' # "QUIT" /\ phase' # "prompt"
                     /\ phase' = "execute" => s = "RUNNING" /\ npc_state' = "RUNNING"
                     /\ npc_state' = "END" => s = "END"
        BY <3>1, <4>1, <4>2
      <4>4. QED
        BY <3>1, <3>2, <3>3, <4>2, <4>3 DEF VerdictInv
    <3>6. QED BY <3>4, <3>5
  <2>7. CASE UNCHANGED vars
    BY <2>7 DEF VerdictInv, vars
  <2>8. CASE panic
    BY <2>8 DEF VerdictInv, panic, verdict
  <2>9. QED
    BY <2>1, <2>2, <2>3, <2>4, <2>5, <2>6, <2>7, <2>8 DEF Next
<1>3. VerdictInv => BatchVerdict
  BY DEF VerdictInv, BatchVerdict, is_exit_status_bad
<1>4. QED
  BY <1>1, <1>2, <1>3, PTL DEF Spec

----------------------------------------------------------------------------
(* The pool of watchpoints.  One ordering of the whole pool describes both *)
(* lists: its first n elements are the list in use, the others the free    *)
(* one.  new_wp moves the first free element to the front, free_wp moves   *)
(* an element in use to the place just before the free ones.               *)

\* order enumerates the pool, each watchpoint once.
Enumerates(order) ==
  /\ \A i, j \in Slot : order[i] = order[j] => i = j
  /\ \A p \in Slot : \E i \in Slot : order[i] = p

\* The links follow the order, and end after n elements and after all.
Linked(order, n) ==
  /\ \A i \in Slot : wp_pool[order[i]].next =
                       IF i = n \/ i = NR_WP THEN NULL ELSE order[i + 1]
  /\ head = IF n = 0 THEN NULL ELSE order[1]
  /\ free_ = IF n = NR_WP THEN NULL ELSE order[n + 1]

\* The first n watch something, and their numbers fall.
InUse(order, n) ==
  \A i \in 1..n : /\ wp_pool[order[i]].NO > 0
                  /\ wp_pool[order[i]].e \in Exprs
                  /\ i < n => wp_pool[order[i + 1]].NO < wp_pool[order[i]].NO

PoolInv ==
  /\ TypeOK
  /\ \E order \in [Slot -> Slot], n \in 0..NR_WP :
       Enumerates(order) /\ Linked(order, n) /\ InUse(order, n)

\* From x, m links follow the order after its a-th element.
IsList(order, a, m, x) ==
  /\ a + m <= NR_WP
  /\ x = IF m = 0 THEN NULL ELSE order[a + 1]
  /\ \A i \in 1..m : wp_pool[order[a + i]].next =
                       IF i = m THEN NULL ELSE order[a + i + 1]

\* Following next from x through m links of the order gives m elements of it
\* and then NULL for good.
LEMMA WalkFollows ==
  ASSUME NEW order \in [Slot -> Slot], NEW a \in Nat, NEW m \in Nat, NEW x,
         IsList(order, a, m, x)
  PROVE  Walk(x) = [k \in 0..NR_WP |-> IF k < m THEN order[a + k + 1] ELSE NULL]
<1> DEFINE N == 0..NR_WP
           w == [k \in N |-> IF k < m THEN order[a + k + 1] ELSE NULL]
           P(f) == f = [k \in N |-> IF k = 0 THEN x
                                    ELSE IF f[k - 1] = NULL THEN NULL
                                    ELSE wp_pool[f[k - 1]].next]
<1>0. /\ NR_WP \in Nat \ {0} /\ NULL = 0 /\ a + m <= NR_WP
      /\ x = IF m = 0 THEN NULL ELSE order[a + 1]
  BY PoolAssumption DEF NULL, IsList
<1>1. ASSUME NEW k \in N
      PROVE  w[k] = IF k = 0 THEN x ELSE IF w[k - 1] = NULL THEN NULL
                                    ELSE wp_pool[w[k - 1]].next
  <2>1. CASE k = 0
    BY <1>0, <2>1
  <2>2. CASE k # 0 /\ k - 1 < m
    <3>1. k \in 1..m /\ k - 1 \in N /\ a + k \in Slot
      BY <1>0, <2>2 DEF Slot
    <3>2. w[k - 1] = order[a + k]
      BY <1>0, <2>2, <3>1
    <3>3. order[a + k] # NULL
      BY <1>0, <3>1 DEF Slot
    <3>4. wp_pool[order[a + k]].next = IF k = m THEN NULL ELSE order[a + k + 1]
      BY <3>1 DEF IsList
    <3>5. w[k] = IF k = m THEN NULL ELSE order[a + k + 1]
      BY <1>0, <3>1
    <3>6. QED BY <2>2, <3>2, <3>3, <3>4, <3>5
  <2>3. CASE k # 0 /\ ~(k - 1 < m)
    <3>1. k - 1 \in N /\ ~(k < m)
      BY <1>0, <2>3
    <3>2. w[k - 1] = NULL /\ w[k] = NULL
      BY <2>3, <3>1
    <3>3. QED BY <2>3, <3>2
  <2>4. QED BY <2>1, <2>2, <2>3
<1> HIDE DEF w
<1>2. w = [k \in N |-> w[k]]
  BY DEF w
<1>3. P(w)
  BY <1>1, <1>2
<1>4. ASSUME NEW f, P(f) PROVE f = w
  <2> DEFINE S == {k \in Nat : k \in N => f[k] = w[k]}
  <2>1. ASSUME NEW k \in N
        PROVE  f[k] = IF k = 0 THEN x ELSE IF f[k - 1] = NULL THEN NULL
                                      ELSE wp_pool[f[k - 1]].next
    BY <1>4
  <2>2. 0 \in S
    <3>1. 0 \in N
      BY <1>0
    <3>2. QED BY <3>1, <1>1, <2>1
  <2>3. ASSUME NEW k \in Nat, k \in S PROVE k + 1 \in S
    <3> SUFFICES ASSUME k + 1 \in N PROVE f[k + 1] = w[k + 1]
      OBVIOUS
    <3>1. k \in N /\ k + 1 # 0 /\ (k + 1) - 1 = k
      BY <1>0
    <3>2. f[k] = w[k]
      BY <2>3, <3>1
    <3>3. f[k + 1] = IF f[k] = NULL THEN NULL ELSE wp_pool[f[k]].next
      BY <2>1, <3>1
    <3>4. w[k + 1] = IF w[k] = NULL THEN NULL ELSE wp_pool[w[k]].next
      BY <1>1, <3>1
    <3>5. QED BY <3>2, <3>3, <3>4
  <2> HIDE DEF S
  <2>4. \A k \in Nat : k \in S
    BY <2>2, <2>3, SetInduction
  <2>5. \A k \in N : f[k] = w[k]
    BY <2>4, <1>0 DEF S
  <2>6. f = [k \in N |-> f[k]]
    BY <1>4
  <2>7. QED BY <2>5, <2>6, <1>2
<1>5. Walk(x) = CHOOSE f : P(f)
  BY DEF Walk
<1>6. P(CHOOSE f : P(f))
  BY <1>3
<1>7. QED BY <1>4, <1>5, <1>6 DEF w

\* The two lists, as the order has them.
LEMMA ListsAre ==
  ASSUME NEW order \in [Slot -> Slot], NEW n \in 0..NR_WP, Linked(order, n)
  PROVE  /\ Walk(head) = [k \in 0..NR_WP |-> IF k < n THEN order[k + 1] ELSE NULL]
         /\ Walk(free_) = [k \in 0..NR_WP |-> IF k < NR_WP - n THEN order[n + k + 1]
                                              ELSE NULL]
         /\ Nodes(head) = {order[i] : i \in 1..n}
         /\ Nodes(free_) = {order[i] : i \in (n + 1)..NR_WP}
<1>0. NR_WP \in Nat \ {0} /\ n \in Nat /\ n <= NR_WP /\ NULL = 0
  BY PoolAssumption DEF NULL
<1>1. /\ \A i \in Slot : wp_pool[order[i]].next =
                           IF i = n \/ i = NR_WP THEN NULL ELSE order[i + 1]
      /\ head = IF n = 0 THEN NULL ELSE order[1]
      /\ free_ = IF n = NR_WP THEN NULL ELSE order[n + 1]
  BY DEF Linked
<1>2. Walk(head) = [k \in 0..NR_WP |-> IF k < n THEN order[k + 1] ELSE NULL]
  <2>1. ASSUME NEW i \in 1..n
        PROVE  wp_pool[order[0 + i]].next = IF i = n THEN NULL ELSE order[0 + i + 1]
    <3>1. i \in Slot /\ 0 + i = i /\ 0 + i + 1 = i + 1 /\ (i = n \/ i = NR_WP <=> i = n)
      BY <1>0 DEF Slot
    <3>2. QED BY <1>1, <3>1
  <2>2. 0 + n <= NR_WP /\ 0 + 1 = 1 /\ 0 \in Nat
    BY <1>0
  <2>3. Walk(head) = [k \in 0..NR_WP |-> IF k < n THEN order[0 + k + 1] ELSE NULL]
    <3>1. IsList(order, 0, n, head)
      BY <1>1, <2>1, <2>2 DEF IsList
    <3>2. QED BY <1>0, <2>2, <3>1, WalkFollows
  <2>4. \A k \in 0..NR_WP : 0 + k + 1 = k + 1
    BY <1>0
  <2>5. QED BY <2>3, <2>4
<1>3. Walk(free_) = [k \in 0..NR_WP |-> IF k < NR_WP - n THEN order[n + k + 1] ELSE NULL]
  <2> DEFINE m == NR_WP - n
  <2>1. m \in Nat /\ n + m <= NR_WP /\ (m = 0 <=> n = NR_WP)
    BY <1>0
  <2>2. ASSUME NEW i \in 1..m
        PROVE  wp_pool[order[n + i]].next = IF i = m THEN NULL ELSE order[n + i + 1]
    <3>1. n + i \in Slot /\ n + i # n /\ (n + i = NR_WP <=> i = m)
      BY <1>0 DEF Slot
    <3>2. QED BY <1>1, <3>1
  <2>3. free_ = IF m = 0 THEN NULL ELSE order[n + 1]
    BY <1>1, <2>1
  <2> HIDE DEF m
  <2>4. Walk(free_) = [k \in 0..NR_WP |-> IF k < m THEN order[n + k + 1] ELSE NULL]
    <3>1. IsList(order, n, m, free_)
      BY <2>1, <2>2, <2>3 DEF IsList
    <3>2. QED BY <1>0, <2>1, <3>1, WalkFollows
  <2>5. QED BY <2>4 DEF m
<1>4. \A i \in Slot : order[i] # NULL /\ order[i] \in Slot
  BY <1>0 DEF Slot
<1>5. Nodes(head) = {order[i] : i \in 1..n}
  <2>1. ASSUME NEW k \in 0..NR_WP, Walk(head)[k] # NULL
        PROVE  Walk(head)[k] \in {order[i] : i \in 1..n}
    <3>1. k < n /\ Walk(head)[k] = order[k + 1]
      BY <1>2, <2>1
    <3>2. k + 1 \in 1..n
      BY <1>0, <3>1
    <3>3. QED BY <3>1, <3>2
  <2>2. ASSUME NEW i \in 1..n PROVE order[i] \in Nodes(head)
    <3>1. i - 1 \in 0..NR_WP /\ i - 1 < n /\ (i - 1) + 1 = i /\ i \in Slot
      BY <1>0 DEF Slot
    <3>2. Walk(head)[i - 1] = order[i]
      BY <1>2, <3>1
    <3>3. QED BY <1>4, <3>1, <3>2 DEF Nodes
  <2>3. QED BY <2>1, <2>2 DEF Nodes
<1>6. Nodes(free_) = {order[i] : i \in (n + 1)..NR_WP}
  <2>1. ASSUME NEW k \in 0..NR_WP, Walk(free_)[k] # NULL
        PROVE  Walk(free_)[k] \in {order[i] : i \in (n + 1)..NR_WP}
    <3>1. k < NR_WP - n /\ Walk(free_)[k] = order[n + k + 1]
      BY <1>3, <2>1
    <3>2. n + k + 1 \in (n + 1)..NR_WP
      BY <1>0, <3>1
    <3>3. QED BY <3>1, <3>2
  <2>2. ASSUME NEW i \in (n + 1)..NR_WP PROVE order[i] \in Nodes(free_)
    <3>1. i - n - 1 \in 0..NR_WP /\ i - n - 1 < NR_WP - n /\ n + (i - n - 1) + 1 = i /\ i \in Slot
      BY <1>0 DEF Slot
    <3>2. Walk(free_)[i - n - 1] = order[i]
      BY <1>3, <3>1
    <3>3. QED BY <1>4, <3>1, <3>2 DEF Nodes
  <2>3. QED BY <2>1, <2>2 DEF Nodes
<1>7. QED BY <1>2, <1>3, <1>5, <1>6

\* The invariant gives both list properties.
LEMMA PoolInvImplies == PoolInv => PoolOK /\ NumbersFall
<1> SUFFICES ASSUME PoolInv PROVE PoolOK /\ NumbersFall
  OBVIOUS
<1>0. NR_WP \in Nat \ {0} /\ NULL = 0 /\ TypeOK
  BY PoolAssumption DEF NULL, PoolInv
<1>1. PICK order \in [Slot -> Slot], n \in 0..NR_WP :
        Enumerates(order) /\ Linked(order, n) /\ InUse(order, n)
  BY DEF PoolInv
<1>2. /\ Walk(head) = [k \in 0..NR_WP |-> IF k < n THEN order[k + 1] ELSE NULL]
      /\ Walk(free_) = [k \in 0..NR_WP |-> IF k < NR_WP - n THEN order[n + k + 1] ELSE NULL]
      /\ Nodes(head) = {order[i] : i \in 1..n}
      /\ Nodes(free_) = {order[i] : i \in (n + 1)..NR_WP}
  BY <1>1, ListsAre
<1>3. Walk(head)[NR_WP] = NULL /\ Walk(free_)[NR_WP] = NULL
  BY <1>0, <1>2
<1>4. Nodes(head) \cap Nodes(free_) = {}
  <2> SUFFICES ASSUME NEW i \in 1..n, NEW j \in (n + 1)..NR_WP, order[i] = order[j]
               PROVE  FALSE
    BY <1>2
  <2>1. i \in Slot /\ j \in Slot /\ i # j
    BY <1>0 DEF Slot
  <2>2. QED BY <1>1, <2>1 DEF Enumerates
<1>5. Nodes(head) \cup Nodes(free_) = Slot
  <2>1. ASSUME NEW p \in Slot PROVE p \in Nodes(head) \cup Nodes(free_)
    <3>1. PICK i \in Slot : order[i] = p
      BY <1>1 DEF Enumerates
    <3>2. i \in 1..n \/ i \in (n + 1)..NR_WP
      BY <1>0 DEF Slot
    <3>3. QED BY <1>2, <3>1, <3>2
  <2>2. \A i \in 1..n : order[i] \in Slot
    BY <1>0 DEF Slot
  <2>3. \A i \in (n + 1)..NR_WP : order[i] \in Slot
    BY <1>0 DEF Slot
  <2>4. QED BY <1>2, <2>1, <2>2, <2>3
<1>6. NumbersFall
  <2> SUFFICES ASSUME NEW i \in 1..n
               PROVE  /\ wp_pool[order[i]].NO > 0
                      /\ wp_pool[order[i]].next # NULL =>
                           wp_pool[wp_pool[order[i]].next].NO < wp_pool[order[i]].NO
    BY <1>2 DEF NumbersFall
  <2>1. i \in Slot /\ (i = NR_WP => i = n) /\ (i # n => i < n)
    BY <1>0 DEF Slot
  <2>2. wp_pool[order[i]].next = IF i = n THEN NULL ELSE order[i + 1]
    BY <1>1, <2>1 DEF Linked
  <2>3. QED BY <1>1, <2>1, <2>2 DEF InUse
<1>7. QED BY <1>0, <1>3, <1>4, <1>5, <1>6 DEF PoolOK

\* init_wp_pool: the whole pool is free, in the order of its indices.
LEMMA PoolInit == Init => PoolInv
<1> SUFFICES ASSUME Init PROVE PoolInv
  OBVIOUS
<1>0. NR_WP \in Nat \ {0} /\ MaxNO \in Nat /\ MaxSi \in Nat /\ 0 \in Values /\ NULL = 0
  BY PoolAssumption DEF NULL
<1> DEFINE order == [i \in Slot |-> i]
           WP == [NO : 0..(MaxNO + NR_WP), next : 0..NR_WP, e : Exprs \cup {NoExpr},
                  pre_result : Values]
<1>1. ASSUME NEW i \in Slot
      PROVE  [NO |-> i - 1, next |-> IF i = NR_WP THEN NULL ELSE i + 1,
              e |-> NoExpr, pre_result |-> 0] \in WP
  <2>1. i - 1 \in 0..(MaxNO + NR_WP) /\ (IF i = NR_WP THEN NULL ELSE i + 1) \in 0..NR_WP
    BY <1>0 DEF Slot
  <2>2. QED BY <1>0, <2>1
<1>2. wp_pool \in [Slot -> WP]
  BY <1>1 DEF Init
<1>3. TypeOK
  <2>1. head \in 0..NR_WP /\ free_ \in 0..NR_WP /\ todo \in 0..Forever /\ halt_ret \in 0..1
    BY <1>0 DEF Init, Forever
  <2>2. QED BY <1>2, <2>1 DEF Init, TypeOK
<1>4. order \in [Slot -> Slot] /\ 0 \in 0..NR_WP
  BY <1>0
<1>5. Enumerates(order)
  BY DEF Enumerates
<1>6. Linked(order, 0)
  <2>1. ASSUME NEW i \in Slot
        PROVE  wp_pool[order[i]].next = IF i = 0 \/ i = NR_WP THEN NULL ELSE order[i + 1]
    <3>1. i # 0 /\ (i # NR_WP => i + 1 \in Slot)
      BY <1>0 DEF Slot
    <3>2. QED BY <3>1 DEF Init
  <2>2. 1 \in Slot /\ 0 # NR_WP /\ 0 + 1 = 1
    BY <1>0 DEF Slot
  <2>3. QED BY <2>1, <2>2 DEF Init, Linked
<1>7. InUse(order, 0)
  BY DEF InUse
<1>8. QED BY <1>3, <1>4, <1>5, <1>6, <1>7 DEF PoolInv

\* Rearranging an order of the pool gives an order of the pool.
LEMMA Rearranged ==
  ASSUME NEW order \in [Slot -> Slot], Enumerates(order),
         NEW pi \in [Slot -> Slot], Enumerates(pi),
         NEW o, o = [i \in Slot |-> order[pi[i]]]
  PROVE  o \in [Slot -> Slot] /\ Enumerates(o)
<1>1. o \in [Slot -> Slot]
  OBVIOUS
<1>2. ASSUME NEW i \in Slot, NEW j \in Slot, o[i] = o[j] PROVE i = j
  BY <1>2 DEF Enumerates
<1>3. ASSUME NEW p \in Slot PROVE \E i \in Slot : o[i] = p
  <2>1. PICK i \in Slot : order[i] = p
    BY DEF Enumerates
  <2>2. PICK j \in Slot : pi[j] = i
    BY DEF Enumerates
  <2>3. QED BY <2>1, <2>2
<1>4. QED BY <1>1, <1>2, <1>3 DEF Enumerates

LEMMA SlotsUpTo ==
  ASSUME NEW n \in 0..NR_WP
  PROVE  \A i \in 1..n : i \in Slot /\ (i < n => i + 1 \in Slot)
BY PoolAssumption DEF Slot

\* What the pool invariant does not depend on.
LEMMA PoolKept ==
  ASSUME PoolInv, TypeOK', head' = head, free_' = free_,
         \A p \in Slot : /\ wp_pool'[p].next = wp_pool[p].next
                         /\ wp_pool'[p].NO = wp_pool[p].NO
                         /\ wp_pool'[p].e = wp_pool[p].e
  PROVE  PoolInv'
<1>0. NR_WP \in Nat \ {0}
  BY PoolAssumption
<1>1. PICK order \in [Slot -> Slot], n \in 0..NR_WP :
        Enumerates(order) /\ Linked(order, n) /\ InUse(order, n)
  BY DEF PoolInv
<1>2. \A i \in Slot : order[i] \in Slot
  OBVIOUS
<1>3. Linked(order, n)'
  BY <1>1, <1>2 DEF Linked
<1>4. \A i \in 1..n : i \in Slot /\ (i < n => i + 1 \in Slot)
  BY SlotsUpTo
<1>5. InUse(order, n)'
  BY <1>1, <1>2, <1>4 DEF InUse
<1>6. Enumerates(order)'
  BY <1>1 DEF Enumerates
<1>7. QED BY <1>3, <1>5, <1>6 DEF PoolInv

\* new_wp takes the first free watchpoint and puts it in front of the list.
LEMMA NewWp ==
  ASSUME PoolInv, NEW e \in Exprs, new_wp(e),
         UNCHANGED <<value, npc_state, todo, batch, ended, verdict>>
  PROVE  PoolInv'
<1>0. /\ NR_WP \in Nat \ {0} /\ MaxNO \in Nat /\ NULL = 0 /\ TypeOK
      /\ new_NO <= MaxNO
  BY PoolAssumption DEF NULL, PoolInv, new_wp
<1>1. CASE free_ = NULL
  <2>1. UNCHANGED <<wp_pool, head, free_>> /\ phase' = "abort"
    BY <1>1 DEF new_wp
  <2>2. TypeOK'
    BY <1>0, <2>1 DEF TypeOK, verdict
  <2>3. QED BY <2>1, <2>2, PoolKept
<1>2. CASE free_ # NULL
  <2> DEFINE new == [NO |-> new_NO, next |-> head, e |-> e, pre_result |-> value[e]]
  <2>1. /\ value[e] # Fail /\ wp_pool' = [wp_pool EXCEPT ![free_] = new]
        /\ head' = free_ /\ free_' = wp_pool[free_].next /\ phase' = phase
    BY <1>2 DEF new_wp
  <2>2. PICK order \in [Slot -> Slot], n \in 0..NR_WP :
          Enumerates(order) /\ Linked(order, n) /\ InUse(order, n)
    BY DEF PoolInv
  <2>3. /\ n \in Nat /\ n < NR_WP /\ n + 1 \in Slot /\ n + 1 \in 0..NR_WP
        /\ free_ = order[n + 1] /\ free_ \in Slot
    BY <1>0, <1>2, <2>2 DEF Linked, Slot
  <2>4. /\ new_NO \in Nat /\ new_NO > 0
        /\ n > 0 => head = order[1] /\ 1 \in Slot /\ new_NO = wp_pool[order[1]].NO + 1
        /\ n = 0 => head = NULL
    <3>1. CASE n = 0
      BY <3>1, <2>2 DEF Linked, new_NO
    <3>2. CASE n > 0
      <4>1. head = order[1] /\ 1 \in Slot /\ order[1] \in Slot /\ order[1] # 0
        BY <3>2, <1>0, <2>2 DEF Linked, Slot
      <4>2. new_NO = wp_pool[order[1]].NO + 1
        BY <1>0, <4>1 DEF new_NO
      <4>3. wp_pool[order[1]].NO \in Nat
        BY <1>0, <4>1 DEF TypeOK
      <4>4. QED BY <3>2, <4>1, <4>2, <4>3
    <3>3. QED BY <2>3, <3>1, <3>2
  <2>5. /\ new.NO = new_NO /\ new.next = head /\ new.e = e /\ new.pre_result = value[e]
        /\ new_NO \in 0..(MaxNO + NR_WP) /\ value[e] \in Values
    BY <1>0, <2>1, <2>4 DEF TypeOK
  <2> HIDE DEF new
  <2>6. \A p \in Slot : wp_pool'[p] = IF p = free_ THEN new ELSE wp_pool[p]
    BY <1>0, <2>1, <2>3 DEF TypeOK
  <2>7. TypeOK'
    <3>1. new \in [NO : 0..(MaxNO + NR_WP), next : 0..NR_WP, e : Exprs \cup {NoExpr},
                   pre_result : Values]
      BY <1>0, <2>5 DEF new, TypeOK
    <3>2. wp_pool' \in [Slot -> [NO : 0..(MaxNO + NR_WP), next : 0..NR_WP,
                                 e : Exprs \cup {NoExpr}, pre_result : Values]]
      BY <1>0, <2>1, <3>1 DEF TypeOK
    <3>3. head' \in 0..NR_WP /\ free_' \in 0..NR_WP
      BY <1>0, <2>1, <2>3 DEF TypeOK, Slot
    <3>4. QED BY <1>0, <2>1, <3>2, <3>3 DEF TypeOK, verdict
  <2> DEFINE pi == [i \in Slot |-> IF i = 1 THEN n + 1 ELSE IF i <= n + 1 THEN i - 1 ELSE i]
             o  == [i \in Slot |-> order[pi[i]]]
  <2>8. pi \in [Slot -> Slot] /\ Enumerates(pi)
    <3>1. pi \in [Slot -> Slot]
      BY <1>0, <2>3 DEF Slot
    <3>2. \A i, j \in Slot : pi[i] = pi[j] => i = j
      BY <1>0, <2>3 DEF Slot
    <3>3. ASSUME NEW i \in Slot PROVE \E j \in Slot : pi[j] = i
      <4> DEFINE j == IF i = n + 1 THEN 1 ELSE IF i <= n THEN i + 1 ELSE i
      <4>1. j \in Slot /\ pi[j] = i
        BY <1>0, <2>3 DEF Slot
      <4>2. QED BY <4>1
    <3>4. QED BY <3>1, <3>2, <3>3 DEF Enumerates
  <2>9. o \in [Slot -> Slot] /\ Enumerates(o)
    <3>1. o = [i \in Slot |-> order[pi[i]]]
      OBVIOUS
    <3> HIDE DEF pi, o
    <3>2. QED BY <2>2, <2>8, <3>1, Rearranged
  <2>10. \A i \in Slot : o[i] = IF i = 1 THEN order[n + 1]
                                ELSE IF i <= n + 1 THEN order[i - 1] ELSE order[i]
    BY <1>0, <2>3 DEF Slot
  <2> HIDE DEF pi, o
  <2>11. \A i \in Slot : wp_pool'[order[i]] = IF i = n + 1 THEN new ELSE wp_pool[order[i]]
    BY <2>2, <2>3, <2>6 DEF Enumerates
  <2>12. Linked(o, n + 1)'
    <3>1. ASSUME NEW i \in Slot
          PROVE  wp_pool'[o[i]].next = IF i = n + 1 \/ i = NR_WP THEN NULL ELSE o[i + 1]
      <4>1. i \in Nat /\ i >= 1 /\ i <= NR_WP /\ (i # NR_WP => i + 1 \in Slot)
        BY <1>0 DEF Slot
      <4>2. CASE i = 1
        <5>1. wp_pool'[o[i]].next = head
          BY <4>2, <2>3, <2>5, <2>10, <2>11
        <5>2. CASE n = 0
          BY <4>2, <5>1, <5>2, <2>4
        <5>3. CASE n > 0
          <6>1. i # n + 1 /\ i # NR_WP /\ i + 1 # 1 /\ i + 1 <= n + 1 /\ (i + 1) - 1 = 1
            BY <4>2, <5>3, <2>3
          <6>2. o[i + 1] = order[1]
            BY <4>1, <6>1, <2>10
          <6>3. QED BY <5>1, <5>3, <6>1, <6>2, <2>4
        <5>4. QED BY <5>2, <5>3, <2>3
      <4>3. CASE i # 1 /\ i <= n + 1
        <5>1. i - 1 \in Slot /\ i - 1 # n + 1 /\ i - 1 # NR_WP /\ (i - 1) + 1 = i
          BY <1>0, <4>1, <4>3, <2>3 DEF Slot
        <5>2. wp_pool'[o[i]] = wp_pool[order[i - 1]]
          BY <4>3, <5>1, <2>10, <2>11
        <5>3. wp_pool[order[i - 1]].next = IF i - 1 = n THEN NULL ELSE order[i]
          BY <5>1, <2>2 DEF Linked
        <5>4. CASE i = n + 1
          <6>1. i - 1 = n
            BY <5>4, <2>3
          <6>2. QED BY <5>2, <5>3, <5>4, <6>1
        <5>5. CASE i # n + 1
          <6>1. i - 1 # n /\ i # NR_WP /\ i + 1 # 1 /\ i + 1 <= n + 1 /\ (i + 1) - 1 = i
            BY <4>1, <4>3, <5>5, <2>3
          <6>2. o[i + 1] = order[i]
            BY <4>1, <6>1, <2>10
          <6>3. QED BY <5>2, <5>3, <5>5, <6>1, <6>2
        <5>6. QED BY <5>4, <5>5
      <4>4. CASE i > n + 1
        <5>1. i # 1 /\ ~(i <= n + 1) /\ i # n + 1 /\ i # n
          BY <4>1, <4>4, <2>3
        <5>2. wp_pool'[o[i]] = wp_pool[order[i]]
          BY <5>1, <2>10, <2>11
        <5>3. wp_pool[order[i]].next = IF i = NR_WP THEN NULL ELSE order[i + 1]
          BY <5>1, <2>2 DEF Linked
        <5>4. i # NR_WP => o[i + 1] = order[i + 1]
          <6>1. i + 1 # 1 /\ ~(i + 1 <= n + 1)
            BY <4>1, <4>4, <2>3
          <6>2. QED BY <4>1, <6>1, <2>10
        <5>5. QED BY <5>1, <5>2, <5>3, <5>4
      <4>5. QED BY <4>1, <4>2, <4>3, <4>4, <2>3
    <3>2. 1 \in Slot /\ n + 1 # 0 /\ o[1] = order[n + 1]
      BY <1>0, <2>3, <2>10 DEF Slot
    <3>3. free_' = IF n + 1 = NR_WP THEN NULL ELSE o[(n + 1) + 1]
      <4>1. wp_pool[free_].next = IF n + 1 = NR_WP THEN NULL ELSE order[(n + 1) + 1]
        <5>1. n + 1 # n
          BY <2>3
        <5>2. QED BY <5>1, <2>2, <2>3 DEF Linked
      <4>2. n + 1 # NR_WP => o[(n + 1) + 1] = order[(n + 1) + 1]
        <5>1. n + 1 # NR_WP => (n + 1) + 1 \in Slot /\ (n + 1) + 1 # 1 /\ ~((n + 1) + 1 <= n + 1)
          BY <1>0, <2>3 DEF Slot
        <5>2. QED BY <5>1, <2>10
      <4>3. QED BY <2>1, <4>1, <4>2
    <3>4. QED BY <3>1, <3>2, <3>3, <2>1, <2>3 DEF Linked
  <2>13. InUse(o, n + 1)'
    <3> SUFFICES ASSUME NEW i \in 1..(n + 1)
                 PROVE  /\ wp_pool'[o[i]].NO > 0 /\ wp_pool'[o[i]].e \in Exprs
                        /\ i < n + 1 => wp_pool'[o[i + 1]].NO < wp_pool'[o[i]].NO
      BY DEF InUse
    <3>1. i \in Slot /\ i \in Nat /\ i >= 1
      BY <1>0, <2>3 DEF Slot
    <3>2. ASSUME NEW k \in 2..(n + 1)
          PROVE  k \in Slot /\ k - 1 \in 1..n /\ wp_pool'[o[k]] = wp_pool[order[k - 1]]
      <4>1. /\ k \in Slot /\ k - 1 \in Slot /\ k # 1 /\ k <= n + 1 /\ k - 1 # n + 1
            /\ k - 1 \in 1..n
        BY <1>0, <2>3 DEF Slot
      <4>2. QED BY <4>1, <2>10, <2>11
    <3>3. CASE i = 1
      <4>1. wp_pool'[o[i]] = new
        BY <3>1, <3>3, <2>3, <2>10, <2>11
      <4>2. CASE n = 0
        BY <4>1, <4>2, <3>3, <2>4, <2>5
      <4>3. CASE n > 0
        <5>1. i + 1 \in 2..(n + 1) /\ (i + 1) - 1 = 1
          BY <3>3, <4>3, <2>3
        <5>2. wp_pool'[o[i + 1]] = wp_pool[order[1]]
          BY <5>1, <3>2
        <5>3. wp_pool[order[1]].NO \in Nat
          BY <1>0, <2>4, <4>3 DEF TypeOK
        <5>4. wp_pool[order[1]].NO < new_NO
          BY <2>4, <4>3, <5>3
        <5>5. QED BY <4>1, <5>2, <5>4, <2>4, <2>5
      <4>4. QED BY <4>2, <4>3, <2>3
    <3>4. CASE i # 1
      <4>1. i \in 2..(n + 1) /\ (i < n + 1 => i + 1 \in 2..(n + 1) /\ i - 1 < n)
            /\ (i - 1) + 1 = i /\ (i + 1) - 1 = i
        BY <3>1, <3>4, <2>3
      <4>2. i - 1 \in 1..n /\ wp_pool'[o[i]] = wp_pool[order[i - 1]]
        BY <4>1, <3>2
      <4>3. i < n + 1 => wp_pool'[o[i + 1]] = wp_pool[order[i]]
        BY <4>1, <3>2
      <4>4. /\ wp_pool[order[i - 1]].NO > 0 /\ wp_pool[order[i - 1]].e \in Exprs
            /\ i - 1 < n => wp_pool[order[i]].NO < wp_pool[order[i - 1]].NO
        BY <2>2, <4>1, <4>2 DEF InUse
      <4>5. QED BY <4>1, <4>2, <4>3, <4>4
    <3>5. QED BY <3>3, <3>4
  <2>14. Enumerates(o)'
    BY <2>9 DEF Enumerates
  <2>15. QED BY <2>3, <2>7, <2>9, <2>12, <2>13, <2>14 DEF PoolInv
<1>3. QED BY <1>1, <1>2

\* The watchpoint delete_wp frees is in use.
LEMMA DeletesInUse ==
  ASSUME NEW N, cmd_d(N)
  PROVE  /\ \E wp \in Nodes(head) : free_wp(wp)
         /\ UNCHANGED <<value, npc_state, todo, phase, batch, ended, verdict>>
<1> DEFINE meet == {k \in 0..NR_WP : Walk(head)[k] # NULL /\ wp_pool[Walk(head)[k]].NO = N}
           least == CHOOSE k \in meet : \A j \in meet : k <= j
           wp == IF meet = {} THEN NULL ELSE Walk(head)[least]
<1>1. /\ wp # NULL /\ free_wp(wp)
      /\ UNCHANGED <<value, npc_state, todo, phase, batch, ended, verdict>>
  BY DEF cmd_d, First
<1>2. meet # {}
  BY <1>1
<1>3. meet \in SUBSET Nat
  BY PoolAssumption
<1>4. least \in meet
  <2> HIDE DEF meet
  <2>1. QED BY <1>2, <1>3, LeastChosen
<1>5. wp \in Nodes(head)
  BY <1>2, <1>4 DEF Nodes
<1> HIDE DEF wp
<1>6. QED BY <1>1, <1>5

\* scan_wp_diff stops at a watchpoint in use, or none has changed or fails.
LEMMA TriggeredIs ==
  ASSUME NEW v
  PROVE  /\ Triggered(v) # NULL => Triggered(v) \in Nodes(head)
         /\ Triggered(v) = NULL =>
              \A p \in Nodes(head) : /\ v[wp_pool[p].e] # Fail
                                     /\ wp_pool[p].pre_result = v[wp_pool[p].e]
<1> DEFINE P(p) == v[wp_pool[p].e] = Fail \/ wp_pool[p].pre_result # v[wp_pool[p].e]
           meet == {k \in 0..NR_WP : Walk(head)[k] # NULL /\ P(Walk(head)[k])}
           least == CHOOSE k \in meet : \A j \in meet : k <= j
<1>1. Triggered(v) = IF meet = {} THEN NULL ELSE Walk(head)[least]
  BY DEF Triggered, First
<1>2. meet \in SUBSET Nat
  BY PoolAssumption
<1>3. CASE meet = {}
  <2>1. \A p \in Nodes(head) : ~P(p)
    BY <1>3 DEF Nodes
  <2>2. Triggered(v) = NULL
    BY <1>1, <1>3
  <2>3. QED BY <2>1, <2>2
<1>4. CASE meet # {}
  <2>1. least \in meet
    <3> HIDE DEF meet
    <3>1. QED BY <1>2, <1>4, LeastChosen
  <2>2. Walk(head)[least] \in Nodes(head) /\ Walk(head)[least] # NULL
    BY <2>1 DEF Nodes
  <2>3. QED BY <1>1, <1>4, <2>2
<1>5. QED BY <1>3, <1>4

\* Setting one field of a watchpoint.
LEMMA SetNext ==
  ASSUME NEW w \in [NO : 0..(MaxNO + NR_WP), next : 0..NR_WP,
                    e : Exprs \cup {NoExpr}, pre_result : Values],
         NEW x \in 0..NR_WP
  PROVE  /\ [w EXCEPT !.next = x] \in [NO : 0..(MaxNO + NR_WP), next : 0..NR_WP,
                                       e : Exprs \cup {NoExpr}, pre_result : Values]
         /\ [w EXCEPT !.next = x].next = x
         /\ [w EXCEPT !.next = x].NO = w.NO
         /\ [w EXCEPT !.next = x].e = w.e
OBVIOUS

\* free_wp takes a watchpoint out of the list, wherever it is, and puts it in
\* front of the free ones.
LEMMA FreeWp ==
  ASSUME PoolInv, NEW wp, wp \in Nodes(head), free_wp(wp),
         UNCHANGED <<value, npc_state, todo, phase, batch, ended, verdict>>
  PROVE  PoolInv'
<1>0. NR_WP \in Nat \ {0} /\ MaxNO \in Nat /\ NULL = 0 /\ TypeOK
  BY PoolAssumption DEF NULL, PoolInv
<1>1. PICK order \in [Slot -> Slot], n \in 0..NR_WP :
        Enumerates(order) /\ Linked(order, n) /\ InUse(order, n)
  BY DEF PoolInv
<1>2. Nodes(head) = {order[i] : i \in 1..n}
  BY <1>1, ListsAre
<1>3. PICK j \in 1..n : wp = order[j]
  BY <1>2
<1>4. /\ n \in Nat /\ j \in Nat /\ j >= 1 /\ j <= n /\ n <= NR_WP /\ n >= 1
      /\ j \in Slot /\ wp \in Slot /\ n - 1 \in 0..NR_WP /\ 1 \in Slot /\ n \in Slot
  BY <1>0, <1>3 DEF Slot
<1>5. \A i, k \in Slot : order[i] = order[k] => i = k
  BY <1>1 DEF Enumerates
<1>6. \A i \in Slot : wp_pool[order[i]].next =
                        IF i = n \/ i = NR_WP THEN NULL ELSE order[i + 1]
  BY <1>1 DEF Linked
<1>7. head = order[1] /\ free_ = IF n = NR_WP THEN NULL ELSE order[n + 1]
  BY <1>1, <1>4 DEF Linked
\* The links after free_wp.
<1> DEFINE WP == [NO : 0..(MaxNO + NR_WP), next : 0..NR_WP,
                  e : Exprs \cup {NoExpr}, pre_result : Values]
           relinked(p) == p # wp /\ head # wp /\ p \in Nodes(head) /\ wp_pool[p].next = wp
<1>8. ASSUME NEW p \in Slot
      PROVE  /\ wp_pool'[p] \in WP
             /\ wp_pool'[p].NO = wp_pool[p].NO /\ wp_pool'[p].e = wp_pool[p].e
             /\ wp_pool'[p].next = IF p = wp THEN free_
                                   ELSE IF relinked(p) THEN wp_pool[wp].next
                                   ELSE wp_pool[p].next
  <2>1. wp_pool[p] \in WP /\ free_ \in 0..NR_WP /\ wp_pool[wp].next \in 0..NR_WP
    BY <1>0, <1>4 DEF TypeOK
  <2>2. wp_pool'[p] = CASE p = wp -> [wp_pool[p] EXCEPT !.next = free_]
                        [] p # wp /\ head # wp /\ p \in Nodes(head) /\ wp_pool[p].next = wp
                             -> [wp_pool[p] EXCEPT !.next = wp_pool[wp].next]
                        [] OTHER -> wp_pool[p]
    BY DEF free_wp
  <2>3. CASE p = wp
    <3>1. wp_pool'[p] = [wp_pool[p] EXCEPT !.next = free_]
      BY <2>2, <2>3
    <3>2. QED BY <2>1, <2>3, <3>1, SetNext
  <2>4. CASE relinked(p)
    <3>1. wp_pool'[p] = [wp_pool[p] EXCEPT !.next = wp_pool[wp].next]
      BY <2>2, <2>4
    <3>2. QED BY <2>1, <2>4, <3>1, SetNext
  <2>5. CASE p # wp /\ ~relinked(p)
    <3>1. wp_pool'[p] = wp_pool[p]
      BY <2>2, <2>5
    <3>2. QED BY <2>1, <2>5, <3>1
  <2>6. QED BY <2>3, <2>4, <2>5
<1>9. TypeOK'
  <2>1. wp_pool' = [p \in Slot |-> wp_pool'[p]]
    BY DEF free_wp
  <2>2. wp_pool' \in [Slot -> WP]
    BY <1>8, <2>1
  <2>3. wp_pool[wp].next \in 0..NR_WP
    BY <1>0, <1>4 DEF TypeOK
  <2>4. head' \in 0..NR_WP /\ free_' \in 0..NR_WP
    BY <1>0, <1>4, <2>3 DEF free_wp, TypeOK, Slot
  <2>5. QED BY <1>0, <2>2, <2>4 DEF TypeOK, verdict
<1>10. ASSUME NEW i \in Slot
       PROVE  relinked(order[i]) <=> i + 1 = j
  <2>1. order[i] \in Nodes(head) <=> i \in 1..n
    <3>1. ASSUME NEW k \in 1..n, order[i] = order[k] PROVE i \in 1..n
      <4>1. k \in Slot
        BY <1>0, <1>4 DEF Slot
      <4>2. QED BY <3>1, <4>1, <1>5
    <3>2. QED BY <1>2, <3>1
  <2>2. ASSUME i + 1 = j PROVE relinked(order[i])
    <3>1. i # j /\ i # n /\ i # NR_WP /\ i \in 1..n /\ j # 1
      BY <1>4, <2>2 DEF Slot
    <3>2. wp_pool[order[i]].next = wp
      BY <1>3, <1>6, <2>2, <3>1
    <3>3. order[i] # wp /\ head # wp
      BY <1>3, <1>4, <1>5, <1>7, <3>1
    <3>4. QED BY <2>1, <3>1, <3>2, <3>3
  <2>3. ASSUME relinked(order[i]) PROVE i + 1 = j
    <3>1. wp_pool[order[i]].next = wp /\ wp # NULL
      BY <1>0, <1>4, <2>3 DEF Slot
    <3>2. i # NR_WP /\ order[i + 1] = order[j]
      BY <1>3, <1>6, <3>1
    <3>3. i + 1 \in Slot
      BY <1>0, <3>2 DEF Slot
    <3>4. QED BY <1>4, <1>5, <3>2, <3>3
  <2>4. QED BY <2>2, <2>3
<1> HIDE DEF relinked
<1>11. \A i \in Slot : /\ wp_pool'[order[i]].NO = wp_pool[order[i]].NO
                       /\ wp_pool'[order[i]].e = wp_pool[order[i]].e
                       /\ wp_pool'[order[i]].next =
                            IF i = j THEN free_ ELSE IF i + 1 = j THEN wp_pool[order[j]].next
                            ELSE wp_pool[order[i]].next
  BY <1>3, <1>4, <1>5, <1>8, <1>10
<1> DEFINE pi == [i \in Slot |-> IF i < j THEN i ELSE IF i < n THEN i + 1
                                 ELSE IF i = n THEN j ELSE i]
           o  == [i \in Slot |-> order[pi[i]]]
<1>12. pi \in [Slot -> Slot] /\ Enumerates(pi)
  <2>1. pi \in [Slot -> Slot]
    BY <1>0, <1>4 DEF Slot
  <2>2. \A i, k \in Slot : pi[i] = pi[k] => i = k
    BY <1>0, <1>4 DEF Slot
  <2>3. ASSUME NEW i \in Slot PROVE \E k \in Slot : pi[k] = i
    <3> DEFINE k == IF i < j THEN i ELSE IF i = j THEN n ELSE IF i <= n THEN i - 1 ELSE i
    <3>1. k \in Slot /\ pi[k] = i
      BY <1>0, <1>4 DEF Slot
    <3>2. QED BY <3>1
  <2>4. QED BY <2>1, <2>2, <2>3 DEF Enumerates
<1>13. o \in [Slot -> Slot] /\ Enumerates(o)
  <2>1. o = [i \in Slot |-> order[pi[i]]]
    OBVIOUS
  <2> HIDE DEF pi, o
  <2>2. QED BY <1>1, <1>12, <2>1, Rearranged
<1>14. \A i \in Slot : o[i] = IF i < j THEN order[i] ELSE IF i < n THEN order[i + 1]
                              ELSE IF i = n THEN order[j] ELSE order[i]
  BY <1>0, <1>4 DEF Slot
<1> HIDE DEF pi, o
<1>15. Linked(o, n - 1)'
  <2>1. ASSUME NEW i \in Slot
        PROVE  wp_pool'[o[i]].next = IF i = n - 1 \/ i = NR_WP THEN NULL ELSE o[i + 1]
    <3>1. i \in Nat /\ i >= 1 /\ i <= NR_WP /\ (i # NR_WP => i + 1 \in Slot)
      BY <1>0 DEF Slot
    <3>2. CASE i + 1 < j
      <4>1. /\ i < j /\ i # j /\ i + 1 # j /\ i # n /\ i # NR_WP /\ i # n - 1
        BY <1>4, <3>1, <3>2
      <4>2. o[i] = order[i] /\ o[i + 1] = order[i + 1]
        BY <3>1, <3>2, <4>1, <1>14
      <4>3. QED BY <4>1, <4>2, <1>6, <1>11
    <3>3. CASE i + 1 = j
      <4>1. /\ i < j /\ i # j /\ i # NR_WP /\ (i = n - 1 <=> j = n) /\ (j = NR_WP => j = n)
            /\ (j # n => j < n) /\ ~(j < j)
        BY <1>4, <3>1, <3>3
      <4>2. o[i] = order[i] /\ wp_pool'[order[i]].next = wp_pool[order[j]].next
        BY <3>3, <4>1, <1>11, <1>14
      <4>3. wp_pool[order[j]].next = IF j = n THEN NULL ELSE order[j + 1]
        BY <4>1, <1>4, <1>6
      <4>4. j # n => o[i + 1] = order[j + 1]
        BY <3>3, <4>1, <1>4, <1>14
      <4>5. QED BY <4>1, <4>2, <4>3, <4>4
    <3>4. CASE j <= i /\ i < n
      <4>1. /\ ~(i < j) /\ i + 1 \in Slot /\ i + 1 # j /\ (i + 1) + 1 # j /\ i # NR_WP
            /\ (i + 1 = n <=> i = n - 1) /\ (i + 1 = NR_WP => i = n - 1)
            /\ (i # n - 1 => i + 1 < n) /\ ~(i + 1 < j)
        BY <1>0, <1>4, <3>1, <3>4 DEF Slot
      <4>2. o[i] = order[i + 1] /\ wp_pool'[order[i + 1]].next = wp_pool[order[i + 1]].next
        BY <3>4, <4>1, <1>11, <1>14
      <4>3. wp_pool[order[i + 1]].next = IF i = n - 1 THEN NULL ELSE order[(i + 1) + 1]
        BY <4>1, <1>6
      <4>4. i # n - 1 => o[i + 1] = order[(i + 1) + 1]
        BY <4>1, <1>14
      <4>5. QED BY <4>1, <4>2, <4>3, <4>4
    <3>5. CASE i = n
      <4>1. ~(i < j) /\ ~(i < n) /\ i # n - 1 /\ ~(i + 1 < j) /\ ~(i + 1 < n) /\ i + 1 # n
        BY <1>4, <3>1, <3>5
      <4>2. o[i] = order[j] /\ wp_pool'[order[j]].next = free_
        BY <3>5, <4>1, <1>4, <1>11, <1>14
      <4>3. i # NR_WP => o[i + 1] = order[i + 1]
        BY <3>1, <4>1, <1>14
      <4>4. QED BY <3>5, <4>1, <4>2, <4>3, <1>7
    <3>6. CASE i > n
      <4>1. /\ ~(i < j) /\ ~(i < n) /\ i # n /\ i # j /\ i + 1 # j /\ i # n - 1
            /\ ~(i + 1 < j) /\ ~(i + 1 < n) /\ i + 1 # n
        BY <1>4, <3>1, <3>6
      <4>2. o[i] = order[i] /\ wp_pool'[order[i]].next = wp_pool[order[i]].next
        BY <4>1, <1>11, <1>14
      <4>3. i # NR_WP => o[i + 1] = order[i + 1]
        BY <3>1, <4>1, <1>14
      <4>4. QED BY <4>1, <4>2, <4>3, <1>6
    <3>7. QED BY <1>4, <3>1, <3>2, <3>3, <3>4, <3>5, <3>6
  <2>2. head' = IF n - 1 = 0 THEN NULL ELSE o[1]
    <3>1. CASE j = 1
      <4>1. head = wp /\ head' = wp_pool[wp].next
        BY <1>3, <1>7, <3>1 DEF free_wp
      <4>2. head' = IF n - 1 = 0 THEN NULL ELSE order[2]
        <5>1. (1 = n \/ 1 = NR_WP <=> n - 1 = 0) /\ 1 + 1 = 2
          BY <1>0, <1>4
        <5>2. QED BY <1>3, <1>4, <1>6, <3>1, <4>1, <5>1
      <4>3. n - 1 # 0 => o[1] = order[2]
        <5>1. ~(1 < j) /\ (n - 1 # 0 => 1 < n) /\ 1 + 1 = 2
          BY <1>4, <3>1
        <5>2. QED BY <5>1, <1>4, <1>14
      <4>4. QED BY <4>2, <4>3
    <3>2. CASE j # 1
      <4>1. 1 < j /\ n - 1 # 0
        BY <1>4, <3>2
      <4>2. head # wp /\ head' = head
        BY <1>3, <1>4, <1>5, <1>7, <3>2 DEF free_wp
      <4>3. o[1] = order[1]
        BY <4>1, <1>4, <1>14
      <4>4. QED BY <4>1, <4>2, <4>3, <1>7
    <3>3. QED BY <3>1, <3>2
  <2>3. free_' = IF n - 1 = NR_WP THEN NULL ELSE o[(n - 1) + 1]
    <3>1. n - 1 # NR_WP /\ (n - 1) + 1 = n /\ ~(n < j) /\ ~(n < n)
      BY <1>4
    <3>2. o[n] = order[j]
      BY <3>1, <1>4, <1>14
    <3>3. free_' = wp
      BY DEF free_wp
    <3>4. QED BY <3>1, <3>2, <3>3, <1>3
  <2>4. QED BY <2>1, <2>2, <2>3 DEF Linked
<1>16. InUse(o, n - 1)'
  <2> SUFFICES ASSUME NEW i \in 1..(n - 1)
               PROVE  /\ wp_pool'[o[i]].NO > 0 /\ wp_pool'[o[i]].e \in Exprs
                      /\ i < n - 1 => wp_pool'[o[i + 1]].NO < wp_pool'[o[i]].NO
    BY DEF InUse
  <2>1. /\ i \in Nat /\ i >= 1 /\ i < n /\ i \in Slot /\ i + 1 \in Slot
        /\ i \in 1..n /\ i + 1 \in 1..n /\ (i < n - 1 => i + 2 \in Slot /\ i + 2 \in 1..n /\ i + 1 < n)
        /\ (i + 1) + 1 = i + 2
    BY <1>0, <1>4 DEF Slot
  <2>2. \A k \in 1..n : /\ wp_pool[order[k]].NO > 0 /\ wp_pool[order[k]].e \in Exprs
                        /\ k < n => wp_pool[order[k + 1]].NO < wp_pool[order[k]].NO
    BY <1>1 DEF InUse
  <2>3. \A k \in Slot : wp_pool[order[k]].NO \in Nat
    BY <1>0 DEF TypeOK
  <2>4. CASE i + 1 < j
    <3>1. i < j
      BY <1>4, <2>1, <2>4
    <3>2. o[i] = order[i] /\ o[i + 1] = order[i + 1]
      BY <2>1, <2>4, <3>1, <1>14
    <3>3. QED BY <2>1, <2>2, <3>2, <1>11
  <2>5. CASE i + 1 = j
    <3>1. i < j /\ ~(i + 1 < j)
      BY <2>1, <2>5, <1>4
    <3>2. o[i] = order[i] /\ (i < n - 1 => o[i + 1] = order[i + 2])
      BY <2>1, <3>1, <1>14
    <3>3. wp_pool[order[i + 1]].NO < wp_pool[order[i]].NO
      BY <2>1, <2>2
    <3>4. i < n - 1 => wp_pool[order[i + 2]].NO < wp_pool[order[i + 1]].NO
      BY <2>1, <2>2
    <3>5. i < n - 1 => wp_pool[order[i + 2]].NO < wp_pool[order[i]].NO
      BY <2>1, <2>3, <3>3, <3>4
    <3>6. QED BY <2>1, <2>2, <3>2, <3>5, <1>11
  <2>6. CASE j <= i
    <3>1. ~(i < j) /\ ~(i + 1 < j)
      BY <2>1, <2>6, <1>4
    <3>2. o[i] = order[i + 1] /\ (i < n - 1 => o[i + 1] = order[i + 2])
      BY <2>1, <3>1, <1>14
    <3>3. QED BY <2>1, <2>2, <3>2, <1>11
  <2>7. QED BY <1>4, <2>1, <2>4, <2>5, <2>6
<1>17. Enumerates(o)'
  BY <1>13 DEF Enumerates
<1>18. QED BY <1>4, <1>9, <1>13, <1>15, <1>16, <1>17 DEF PoolInv

\* A round of execute stores a value in the watchpoint that triggered.
LEMMA ExecPool ==
  ASSUME PoolInv, NEW v \in [Exprs -> Values \cup {Fail}], NEW ret \in 0..NoTrap,
         NEW mismatch \in BOOLEAN, exec_once(v, ret, mismatch)
  PROVE  PoolInv'
<1> DEFINE ebreak == ret # NoTrap
           wp == Triggered(v)
           s0 == IF ebreak THEN "END" ELSE npc_state
           s  == trace_and_difftest(s0, mismatch, wp)
           n  == IF todo = Forever THEN Forever ELSE todo - 1
           go == s = "RUNNING" /\ n > 0
           WP == [NO : 0..(MaxNO + NR_WP), next : 0..NR_WP,
                  e : Exprs \cup {NoExpr}, pre_result : Values]
           fails == wp # NULL /\ v[wp_pool[wp].e] = Fail
           States == {"RUNNING", "QUIT", "STOP", "ABORT", "END"}
<1>0. NR_WP \in Nat \ {0} /\ MaxSi \in Nat /\ Forever \in Nat \ {0} /\ TypeOK
  BY PoolAssumption DEF PoolInv, Forever
<1>1. /\ phase = "execute" /\ value' = v /\ ended' = (ended \/ ebreak)
      /\ halt_ret' = IF ebreak THEN ret ELSE halt_ret
      /\ mismatched' = (mismatched \/ mismatch)
      /\ UNCHANGED <<head, free_, batch>>
  BY DEF exec_once
<1>2. wp # NULL => wp \in Slot /\ wp_pool[wp].e \in Exprs
  <2> SUFFICES ASSUME wp # NULL PROVE wp \in Slot /\ wp_pool[wp].e \in Exprs
    OBVIOUS
  <2>1. PICK order \in [Slot -> Slot], m \in 0..NR_WP :
          Enumerates(order) /\ Linked(order, m) /\ InUse(order, m)
    BY DEF PoolInv
  <2>2. wp \in {order[i] : i \in 1..m}
    BY <2>1, ListsAre, TriggeredIs
  <2> HIDE DEF wp
  <2>3. PICK i \in 1..m : wp = order[i]
    BY <2>2
  <2>4. i \in Slot
    BY <1>0 DEF Slot
  <2>5. QED BY <2>1, <2>3, <2>4 DEF InUse
<1>3. s0 \in States /\ s \in States /\ trace_and_difftest(s0, mismatch, NULL) \in States
  BY <1>0 DEF TypeOK, trace_and_difftest
<1>4. /\ fails => /\ phase' = "abort"
                  /\ npc_state' = trace_and_difftest(s0, mismatch, NULL)
                  /\ UNCHANGED <<wp_pool, todo>>
      /\ ~fails => /\ wp_pool' = IF wp = NULL THEN wp_pool
                                 ELSE [wp_pool EXCEPT ![wp].pre_result = v[wp_pool[wp].e]]
                   /\ npc_state' = IF s = "RUNNING" /\ ~go THEN "STOP" ELSE s
                   /\ todo' = IF go THEN n ELSE 0
                   /\ phase' = IF go THEN phase ELSE IF batch THEN "exit" ELSE "prompt"
  BY DEF exec_once
<1>5. n > 0 => n \in 0..Forever
  BY <1>0 DEF TypeOK
<1> HIDE DEF wp, s, s0
<1>6. /\ wp_pool' \in [Slot -> WP]
      /\ \A p \in Slot : /\ wp_pool'[p].next = wp_pool[p].next
                         /\ wp_pool'[p].NO = wp_pool[p].NO
                         /\ wp_pool'[p].e = wp_pool[p].e
  <2>1. wp_pool \in [Slot -> WP]
    BY <1>0 DEF TypeOK
  <2>2. CASE fails \/ wp = NULL
    <3>1. wp_pool' = wp_pool
      BY <1>4, <2>2
    <3>2. QED BY <2>1, <3>1
  <2>3. CASE ~fails /\ wp # NULL
    <3> DEFINE x == v[wp_pool[wp].e]
               q == [wp_pool[wp] EXCEPT !.pre_result = x]
    <3>1. wp \in Slot /\ wp_pool[wp] \in WP /\ x \in Values
      BY <1>2, <2>1, <2>3
    <3>2. wp_pool' = [wp_pool EXCEPT ![wp] = q]
      BY <1>4, <2>3
    <3> HIDE DEF x
    <3>3. q \in WP /\ q.next = wp_pool[wp].next /\ q.NO = wp_pool[wp].NO /\ q.e = wp_pool[wp].e
      BY <3>1
    <3> HIDE DEF q, WP
    <3>4. \A p \in Slot : wp_pool'[p] = IF p = wp THEN q ELSE wp_pool[p]
      BY <2>1, <3>2
    <3>5. wp_pool' \in [Slot -> WP]
      BY <2>1, <3>2, <3>3
    <3>6. QED BY <3>3, <3>4, <3>5
  <2>4. QED BY <2>2, <2>3
<1>7. /\ npc_state' \in States /\ todo' \in 0..Forever
      /\ phase' \in {"prompt", "execute", "exit", "abort"}
  <2>1. CASE fails
    BY <1>0, <1>3, <1>4, <2>1 DEF TypeOK
  <2>2. CASE ~fails
    <3>1. 0 \in 0..Forever
      BY <1>0
    <3>2. QED BY <1>1, <1>3, <1>4, <1>5, <2>2, <3>1
  <2>3. QED BY <2>1, <2>2
<1>8. halt_ret' \in 0..1
  BY <1>0, <1>1 DEF TypeOK, NoTrap
<1>9. ended' \in BOOLEAN /\ mismatched' \in BOOLEAN
  BY <1>0, <1>1 DEF TypeOK
<1>10. TypeOK'
  BY <1>0, <1>1, <1>6, <1>7, <1>8, <1>9 DEF TypeOK
<1>11. QED BY <1>1, <1>6, <1>10, PoolKept

\* Every command and every round of execute keeps the pool.
LEMMA PoolNext == PoolInv /\ [Next]_vars => PoolInv'
<1> SUFFICES ASSUME PoolInv, [Next]_vars PROVE PoolInv'
  OBVIOUS
<1>0. TypeOK /\ MaxSi \in Nat
  BY PoolAssumption DEF PoolInv
<1>1. ASSUME NEW e \in Exprs, cmd_w(e) PROVE PoolInv'
  BY <1>1, NewWp DEF cmd_w
<1>2. ASSUME NEW N \in 0..MaxNO, cmd_d(N) PROVE PoolInv'
  <2>1. /\ \E wp \in Nodes(head) : free_wp(wp)
        /\ UNCHANGED <<value, npc_state, todo, phase, batch, ended, verdict>>
    BY <1>2, DeletesInUse
  <2>2. QED BY <2>1, FreeWp
<1>3. ASSUME NEW n \in 0..Forever, cpu_exec(n) PROVE PoolInv'
  <2>1. TypeOK' /\ UNCHANGED <<wp_pool, head, free_>>
    BY <1>0, <1>3 DEF cpu_exec, TypeOK, verdict
  <2>2. QED BY <2>1, PoolKept
<1>4. CASE cmd_q
  <2>1. TypeOK' /\ UNCHANGED <<wp_pool, head, free_>>
    BY <1>0, <1>4 DEF cmd_q, TypeOK, verdict
  <2>2. QED BY <2>1, PoolKept
<1>5. CASE panic
  <2>1. TypeOK' /\ UNCHANGED <<wp_pool, head, free_>>
    BY <1>0, <1>5 DEF panic, TypeOK, verdict
  <2>2. QED BY <2>1, PoolKept
<1>6. ASSUME NEW v \in [Exprs -> Values \cup {Fail}], NEW ret \in 0..NoTrap,
             NEW mismatch \in BOOLEAN, exec_once(v, ret, mismatch)
      PROVE  PoolInv'
  BY <1>6, ExecPool
<1>7. CASE UNCHANGED vars
  <2>1. TypeOK' /\ UNCHANGED <<wp_pool, head, free_>>
    BY <1>0, <1>7 DEF vars, TypeOK
  <2>2. QED BY <2>1, PoolKept
<1>8. ASSUME NEW n \in 0..MaxSi, cmd_si(n) PROVE PoolInv'
  <2>1. n \in 0..Forever
    BY <1>0 DEF Forever
  <2>2. QED BY <1>3, <1>8, <2>1 DEF cmd_si
<1>9. CASE cmd_c
  <2>1. Forever \in 0..Forever
    BY <1>0 DEF Forever
  <2>2. QED BY <1>3, <1>9, <2>1 DEF cmd_c
<1>10. QED BY <1>1, <1>2, <1>4, <1>5, <1>6, <1>7, <1>8, <1>9 DEF Next

\* For a pool of any size no sequence of w and d loses a watchpoint, puts one
\* in both lists or makes a list that does not end.
THEOREM PoolStaysWhole == Spec => []PoolOK
<1>1. PoolInv => PoolOK
  BY PoolInvImplies
<1>2. QED BY <1>1, PoolInit, PoolNext, PTL DEF Spec

\* And the numbers of the watchpoints in use fall along the list, so that d
\* always means at most one of them.
THEOREM NumbersStayApart == Spec => []NumbersFall
<1>1. PoolInv => NumbersFall
  BY PoolInvImplies
<1>2. QED BY <1>1, PoolInit, PoolNext, PTL DEF Spec

\* execute only goes on when every watched expression has the value that was
\* last reported, whatever the number of watchpoints.
THEOREM StopsAtDifference == Spec => GoesOnReported
<1>1. [Next]_vars =>
        [phase = "execute" /\ phase' = "execute" =>
           \A p \in Nodes(head) : wp_pool[p].pre_result = value'[wp_pool[p].e]]_vars
  <2> SUFFICES ASSUME Next, phase = "execute", phase' = "execute"
               PROVE  \A p \in Nodes(head) : wp_pool[p].pre_result = value'[wp_pool[p].e]
    BY DEF vars
  <2>1. PICK v \in [Exprs -> Values \cup {Fail}], ret \in 0..NoTrap, mismatch \in BOOLEAN :
          exec_once(v, ret, mismatch)
    BY DEF Next, panic, cmd_w, cmd_d, cmd_si, cmd_c, cmd_q, Prompt
  <2> DEFINE s == trace_and_difftest(IF ret # NoTrap THEN "END" ELSE npc_state, mismatch,
                                     Triggered(v))
  <2>2. value' = v /\ s = "RUNNING"
    BY <2>1 DEF exec_once
  <2>3. Triggered(v) = NULL
    BY <2>2 DEF trace_and_difftest
  <2>4. QED BY <2>2, <2>3, TriggeredIs
<1>2. QED BY <1>1, PTL DEF Spec, GoesOnReported

----------------------------------------------------------------------------
(* The evaluator of expressions: what it gives a value for.               *)

\* C[i] is the number of parentheses open after token i.
Counts(C, ts, n) ==
  /\ C \in [0..n -> Int] /\ C[0] = 0
  /\ \A i \in 1..n : C[i] = C[i - 1] + (IF ts[i].type = "(" THEN 1
                                        ELSE IF ts[i].type = ")" THEN -1 ELSE 0)

\* Token l may follow token k; after a sign or star no operator with a left
\* operand.
Adjacent(k, l) ==
  /\ IF Ends(k) THEN l.type \notin {"num", "("} ELSE l.type # ")"
  /\ k.type \in Unary => op_hirc(l.type) <= 1

\* Tokens p..q are an expression.
Expression(ts, C, p, q) ==
  /\ p <= q /\ C[q] = C[p - 1] /\ \A i \in p..q : C[i] >= C[p - 1]
  /\ Ends(ts[q])
  /\ \A i \in p..(q - 1) : Adjacent(ts[i], ts[i + 1])

\* Parentheses around an expression make an expression,
LEMMA Surrounded ==
  ASSUME NEW ts, NEW n \in Nat, NEW C, Counts(C, ts, n), NEW p \in 1..n, NEW q \in 1..n,
         ts[p].type = "(", ts[q].type = ")", Expression(ts, C, p + 1, q - 1)
  PROVE  Expression(ts, C, p, q)
<1>1. p + 1 <= q - 1 /\ (p + 1) - 1 = p
  BY DEF Expression
<1>2. C[q - 1] = C[p] /\ \A i \in (p + 1)..(q - 1) : C[i] >= C[p]
  BY <1>1 DEF Expression
<1>3. Ends(ts[q - 1]) /\ \A i \in (p + 1)..(q - 2) : Adjacent(ts[i], ts[i + 1])
  <2>1. (q - 1) - 1 = q - 2
    OBVIOUS
  <2>2. QED BY <2>1 DEF Expression
<1>4. C[p] = C[p - 1] + 1 /\ C[q] = C[q - 1] - 1
  BY DEF Counts
<1>5. C[p - 1] \in Int /\ C[p] \in Int /\ \A i \in p..q : C[i] \in Int
  BY DEF Counts
<1>6. C[q] = C[p - 1]
  BY <1>2, <1>4, <1>5
<1>7. \A i \in p..q : C[i] >= C[p - 1]
  <2> SUFFICES ASSUME NEW i \in p..q PROVE C[i] >= C[p - 1]
    OBVIOUS
  <2>1. i = p \/ i = q \/ i \in (p + 1)..(q - 1)
    OBVIOUS
  <2>2. CASE i = p
    BY <1>4, <1>5, <2>2
  <2>3. CASE i = q
    BY <1>5, <1>6, <2>3
  <2>4. CASE i \in (p + 1)..(q - 1)
    BY <1>2, <1>4, <1>5, <2>4
  <2>5. QED BY <2>1, <2>2, <2>3, <2>4
<1>8. ts[p + 1].type # ")"
  <2>1. p + 1 \in 1..n /\ p + 1 \in (p + 1)..(q - 1)
    BY <1>1
  <2>2. C[p + 1] >= C[p] /\ C[p + 1] \in Int
    BY <1>2, <1>5, <2>1
  <2>3. ASSUME ts[p + 1].type = ")" PROVE C[p + 1] = C[p] - 1
    BY <1>1, <2>1, <2>3 DEF Counts
  <2>4. QED BY <1>5, <2>2, <2>3
<1>9. \A i \in p..(q - 1) : Adjacent(ts[i], ts[i + 1])
  <2> SUFFICES ASSUME NEW i \in p..(q - 1) PROVE Adjacent(ts[i], ts[i + 1])
    OBVIOUS
  <2>1. i = p \/ i = q - 1 \/ i \in (p + 1)..(q - 2)
    OBVIOUS
  <2>2. CASE i = p
    BY <1>8, <2>2 DEF Adjacent, Ends, Unary
  <2>3. CASE i = q - 1
    <3>1. i + 1 = q
      BY <2>3
    <3>2. QED BY <1>3, <2>3, <3>1 DEF Adjacent, Ends, Unary
  <2>4. CASE i \in (p + 1)..(q - 2)
    BY <1>3, <2>4
  <2>5. QED BY <2>1, <2>2, <2>3, <2>4
<1>10. Ends(ts[q]) /\ p <= q
  BY <1>1 DEF Ends
<1>11. QED BY <1>6, <1>7, <1>9, <1>10 DEF Expression

\* and so does an operator before one, with one or nothing on its left.
LEMMA Joined ==
  ASSUME NEW ts, NEW n \in Nat, NEW C, Counts(C, ts, n), NEW p \in 1..n, NEW q \in 1..n,
         NEW op \in p..q, ts[op].type \notin {"num", "(", ")"},
         \A j \in p..q : C[j] = C[q] => op_hirc(ts[j].type) <= op_hirc(ts[op].type),
         op # p => Expression(ts, C, p, op - 1), Expression(ts, C, op + 1, q)
  PROVE  Expression(ts, C, p, q)
<1>1. op \in 1..n /\ op + 1 <= q /\ (op + 1) - 1 = op
  BY DEF Expression
<1>2. C[q] = C[op] /\ (\A i \in (op + 1)..q : C[i] >= C[op]) /\ Ends(ts[q])
      /\ \A i \in (op + 1)..(q - 1) : Adjacent(ts[i], ts[i + 1])
  BY <1>1 DEF Expression
<1>3. op # p => /\ p <= op - 1 /\ C[op - 1] = C[p - 1]
                /\ \A i \in p..(op - 1) : C[i] >= C[p - 1]
                /\ Ends(ts[op - 1])
                /\ \A i \in p..(op - 2) : Adjacent(ts[i], ts[i + 1])
  <2>1. (op - 1) - 1 = op - 2
    OBVIOUS
  <2>2. QED BY <2>1 DEF Expression
<1>4. C[p - 1] \in Int /\ C[op] \in Int /\ C[op - 1] \in Int /\ \A i \in p..q : C[i] \in Int
  <2>1. p - 1 \in 0..n /\ op \in 0..n /\ op - 1 \in 0..n /\ \A i \in p..q : i \in 0..n
    BY <1>1
  <2>2. QED BY <2>1 DEF Counts
<1>5. C[op] = C[op - 1]
  <2>1. C[op] = C[op - 1] + 0
    BY <1>1 DEF Counts
  <2>2. QED BY <1>4, <2>1
<1>6. C[op] = C[p - 1]
  BY <1>3, <1>5
<1>7. \A i \in p..q : C[i] >= C[p - 1]
  <2> SUFFICES ASSUME NEW i \in p..q PROVE C[i] >= C[p - 1]
    OBVIOUS
  <2>1. CASE i < op
    BY <1>3, <1>4, <2>1
  <2>2. CASE i = op
    BY <1>4, <1>6, <2>2
  <2>3. CASE i > op
    BY <1>2, <1>4, <1>6, <2>3
  <2>4. QED BY <2>1, <2>2, <2>3
<1>8. ts[op + 1].type # ")"
  <2>1. op + 1 \in 1..n /\ op + 1 \in (op + 1)..q /\ op + 1 \in p..q
    BY <1>1
  <2>2. C[op + 1] >= C[op] /\ C[op + 1] \in Int
    BY <1>2, <1>4, <2>1
  <2>3. ASSUME ts[op + 1].type = ")" PROVE C[op + 1] = C[op] - 1
    BY <1>1, <2>1, <2>3 DEF Counts
  <2>4. QED BY <1>4, <2>2, <2>3
<1>9. \A i \in p..(q - 1) : Adjacent(ts[i], ts[i + 1])
  <2> SUFFICES ASSUME NEW i \in p..(q - 1) PROVE Adjacent(ts[i], ts[i + 1])
    OBVIOUS
  <2>1. i \in p..(op - 2) \/ (i = op - 1 /\ op # p) \/ i = op \/ i \in (op + 1)..(q - 1)
    OBVIOUS
  <2>2. CASE i \in p..(op - 2)
    BY <1>3, <2>2
  <2>3. CASE i = op - 1 /\ op # p
    <3>1. i + 1 = op
      BY <2>3
    <3>2. QED BY <1>3, <2>3, <3>1 DEF Adjacent, Ends, Unary
  <2>4. CASE i = op
    <3>1. ASSUME ts[op].type \in Unary PROVE op_hirc(ts[op + 1].type) <= 1
      <4>1. op_hirc(ts[op].type) = 1
        BY <3>1 DEF op_hirc, Unary
      <4>2. CASE ts[op + 1].type \in {"(", ")"}
        BY <4>2 DEF op_hirc
      <4>3. CASE ts[op + 1].type \notin {"(", ")"}
        <5>1. op + 1 \in 1..n /\ op + 1 \in p..q /\ (op + 1) - 1 = op
          BY <1>1
        <5>2. C[op + 1] = C[op] + 0
          BY <4>3, <5>1 DEF Counts
        <5>3. C[op + 1] = C[q]
          BY <1>2, <1>4, <5>2
        <5>4. QED BY <4>1, <5>1, <5>3
      <4>4. QED BY <4>2, <4>3
    <3>2. QED BY <1>8, <2>4, <3>1 DEF Adjacent, Ends
  <2>5. CASE i \in (op + 1)..(q - 1)
    BY <1>2, <2>5
  <2>6. QED BY <2>1, <2>2, <2>3, <2>4, <2>5
<1>10. QED BY <1>2, <1>6, <1>7, <1>9 DEF Expression

\* The count of open parentheses from the first token on.
Step(k) == IF k.type = "(" THEN 1 ELSE IF k.type = ")" THEN -1 ELSE 0

LEMMA CountsExist ==
  ASSUME NEW ts, NEW n \in Nat
  PROVE  \E C : Counts(C, ts, n)
<1> DEFINE S == {k \in Nat : \E C : Counts(C, ts, k)}
<1>1. 0 \in S
  <2>1. Counts([i \in 0..0 |-> 0], ts, 0)
    BY DEF Counts
  <2>2. QED BY <2>1
<1>2. ASSUME NEW k \in Nat, k \in S PROVE k + 1 \in S
  <2>1. PICK f : Counts(f, ts, k)
    BY <1>2
  <2>2. f \in [0..k -> Int] /\ f[0] = 0 /\ \A i \in 1..k : f[i] = f[i - 1] + Step(ts[i])
    BY <2>1 DEF Counts, Step
  <2>3. \A i \in 1..(k + 1) : Step(ts[i]) \in Int
    BY DEF Step
  <2> DEFINE v == f[k] + Step(ts[k + 1])
             g == [i \in 0..(k + 1) |-> IF i = k + 1 THEN v ELSE f[i]]
  <2>4. v \in Int
    BY <2>2, <2>3
  <2> HIDE DEF v
  <2>5. g \in [0..(k + 1) -> Int] /\ g[0] = 0
    BY <2>2, <2>4
  <2>6. ASSUME NEW i \in 1..(k + 1) PROVE g[i] = g[i - 1] + Step(ts[i])
    <3>1. CASE i = k + 1
      <4>1. g[i] = v /\ g[i - 1] = f[k]
        BY <3>1
      <4>2. QED BY <3>1, <4>1 DEF v
    <3>2. CASE i # k + 1
      <4>1. i \in 1..k /\ g[i] = f[i] /\ g[i - 1] = f[i - 1]
        BY <3>2
      <4>2. QED BY <2>2, <4>1
    <3>3. QED BY <3>1, <3>2
  <2> HIDE DEF g
  <2>7. Counts(g, ts, k + 1)
    BY <2>5, <2>6 DEF Counts, Step
  <2>8. QED BY <2>7
<1>3. \A k \in Nat : k \in S
  <2> HIDE DEF S
  <2>1. QED BY <1>1, <1>2, SetInduction
<1>4. QED BY <1>3

LEMMA OpenCounts ==
  ASSUME NEW ts, NEW l \in Nat, NEW C, Counts(C, ts, l), NEW a \in 1..(l + 1),
         NEW b \in (a - 1)..l
  PROVE  \A i \in (a - 1)..b : Open(ts, a, b)[i] = C[i] - C[a - 1]
<1> DEFINE case(k) == CASE k.type = "(" -> 1 [] k.type = ")" -> -1 [] OTHER -> 0
           P(f) == f = [i \in (a - 1)..b |-> IF i < a THEN 0 ELSE f[i - 1] + case(ts[i])]
           Q(f) == f = [i \in (a - 1)..b |-> IF i < a THEN 0 ELSE f[i - 1] + Step(ts[i])]
           g == CHOOSE f : P(f)
           w == [i \in (a - 1)..b |-> C[i] - C[a - 1]]
<1>1. Open(ts, a, b) = g
  BY DEF Open
<1>2. \A k : case(k) = Step(k)
  BY DEF Step
<1> HIDE DEF case
<1>3. \A f : P(f) <=> Q(f)
  BY <1>2
<1>4. ASSUME NEW i \in (a - 1)..b PROVE w[i] = IF i < a THEN 0 ELSE w[i - 1] + Step(ts[i])
  <2>1. i \in 0..l /\ a - 1 \in 0..l
    OBVIOUS
  <2>2. C[i] \in Int /\ C[a - 1] \in Int
    BY <2>1 DEF Counts
  <2>3. CASE i < a
    <3>1. i = a - 1
      BY <2>3
    <3>2. QED BY <2>2, <2>3, <3>1
  <2>4. CASE ~(i < a)
    <3>1. i \in 1..l /\ i - 1 \in 0..l /\ i - 1 \in (a - 1)..b
      BY <2>4
    <3>2. C[i] = C[i - 1] + Step(ts[i]) /\ C[i - 1] \in Int /\ Step(ts[i]) \in Int
      BY <3>1 DEF Counts, Step
    <3>3. w[i - 1] = C[i - 1] - C[a - 1]
      BY <3>1
    <3>4. QED BY <2>2, <2>4, <3>2, <3>3
  <2>5. QED BY <2>3, <2>4
<1>5. w = [i \in (a - 1)..b |-> w[i]] /\ \A i \in (a - 1)..b : w[i] = C[i] - C[a - 1]
  OBVIOUS
<1> HIDE DEF w
<1>6. Q(w)
  BY <1>4, <1>5, Zenon
<1> HIDE DEF P
<1>7. Q(g)
  BY <1>3, <1>6
<1> HIDE DEF g
<1>8. \A i \in (a - 1)..b : g[i] = IF i < a THEN 0 ELSE g[i - 1] + Step(ts[i])
  BY <1>7
<1> HIDE DEF Q
<1>9. PICK n \in Nat : n = b - (a - 1)
  OBVIOUS
<1> DEFINE gg == [j \in 0..n |-> g[(a - 1) + j]]
           ww == [j \in 0..n |-> w[(a - 1) + j]]
<1>10. RoundsAlike(gg, ww, n)
  <2>1. gg[0] = ww[0]
    <3>1. (a - 1) + 0 \in (a - 1)..b /\ (a - 1) + 0 < a /\ 0 \in 0..n
      OBVIOUS
    <3>2. g[(a - 1) + 0] = 0 /\ w[(a - 1) + 0] = 0
      BY <1>4, <1>8, <3>1
    <3>3. QED BY <3>1, <3>2
  <2>2. ASSUME NEW j \in 1..n, gg[j - 1] = ww[j - 1] PROVE gg[j] = ww[j]
    <3>1. PICK i : i = (a - 1) + j
      OBVIOUS
    <3>2. i \in (a - 1)..b /\ ~(i < a) /\ i - 1 = (a - 1) + (j - 1) /\ j \in 0..n /\ j - 1 \in 0..n
      BY <1>9, <3>1
    <3>3. gg[j] = g[i] /\ ww[j] = w[i] /\ gg[j - 1] = g[i - 1] /\ ww[j - 1] = w[i - 1]
      BY <3>1, <3>2
    <3>4. g[i] = g[i - 1] + Step(ts[i]) /\ w[i] = w[i - 1] + Step(ts[i])
      BY <1>4, <1>8, <3>2
    <3> HIDE DEF gg, ww
    <3>5. QED BY <2>2, <3>3, <3>4
  <2> HIDE DEF gg, ww
  <2>3. QED BY <2>1, <2>2 DEF RoundsAlike
<1>11. \A j \in 0..n : gg[j] = ww[j]
  <2> HIDE DEF gg, ww
  <2>1. QED BY <1>10, SameRounds
<1>12. ASSUME NEW i \in (a - 1)..b PROVE g[i] = w[i]
  <2>1. PICK j \in 0..n : j = i - (a - 1)
    BY <1>9
  <2>2. (a - 1) + j = i
    BY <2>1
  <2>3. gg[j] = g[i] /\ ww[j] = w[i]
    BY <2>1, <2>2
  <2>4. QED BY <1>11, <2>1, <2>3
<1>13. QED BY <1>1, <1>5, <1>12

\* The main operator is an operator, and none outside parentheses is looser.
LEMMA MainOpIs ==
  ASSUME NEW ts, NEW p \in Nat, NEW q \in Nat, find_main_op(ts, p, q) # 0
  PROVE  LET op == find_main_op(ts, p, q)
             c  == Open(ts, p, q)
         IN  /\ op \in p..q /\ op_hirc(ts[op].type) > 0
             /\ \A j \in p..q : c[j] = c[q] => op_hirc(ts[j].type) <= op_hirc(ts[op].type)
<1> DEFINE c    == Open(ts, p, q)
           h(i) == op_hirc(ts[i].type)
           free == {i \in p..q : c[i] = c[q] /\ h(i) > 0}
           top  == {i \in free : \A j \in free : h(j) <= h(i)}
<1>1. free # {} /\ find_main_op(ts, p, q) = CHOOSE i \in top : \A j \in top : j <= i
  BY DEF find_main_op
<1>2. \A i \in free : h(i) \in 0..5 /\ i \in p..q /\ h(i) > 0
  BY DEF op_hirc
<1> HIDE DEF h
<1>3. top # {}
  <2> DEFINE T == {5 - h(i) : i \in free}
  <2>1. T \in SUBSET Nat /\ T # {}
    BY <1>1, <1>2
  <2>2. PICK m \in T : \A k \in T : m <= k
    BY <2>1, LeastElement
  <2>3. PICK i \in free : m = 5 - h(i)
    OBVIOUS
  <2>4. ASSUME NEW j \in free PROVE h(j) <= h(i)
    <3>1. 5 - h(i) <= 5 - h(j)
      BY <2>2, <2>3
    <3>2. QED BY <1>2, <3>1
  <2>5. QED BY <2>4
<1>3a. \A j \in p..q : c[j] = c[q] /\ h(j) > 0 => j \in free
  OBVIOUS
<1>3b. \A i : h(i) \in 0..5
  BY DEF op_hirc, h
<1> HIDE DEF free
<1>4. \A i \in top : i \in free /\ \A j \in free : h(j) <= h(i)
  OBVIOUS
<1> HIDE DEF top
<1>5. \E i \in top : \A j \in top : j <= i
  <2> DEFINE T == {q - i : i \in top}
  <2>1. T \in SUBSET Nat /\ T # {}
    BY <1>2, <1>3, <1>4
  <2>2. PICK m \in T : \A k \in T : m <= k
    BY <2>1, LeastElement
  <2>3. PICK i \in top : m = q - i
    OBVIOUS
  <2>4. ASSUME NEW j \in top PROVE j <= i
    <3>1. q - i <= q - j
      BY <2>2, <2>3
    <3>2. i \in Int /\ j \in Int
      BY <1>2, <1>4
    <3>3. QED BY <3>1, <3>2
  <2>5. QED BY <2>4
<1>6. find_main_op(ts, p, q) \in top
  BY <1>1, <1>5
<1>7. PICK op : op = find_main_op(ts, p, q)
  OBVIOUS
<1>8. op \in p..q /\ h(op) > 0
  BY <1>2, <1>4, <1>6, <1>7
<1>9. ASSUME NEW j \in p..q, c[j] = c[q] PROVE h(j) <= h(op)
  <2>1. CASE h(j) > 0
    BY <1>3a, <1>4, <1>6, <1>7, <1>9, <2>1
  <2>2. CASE ~(h(j) > 0)
    BY <1>3b, <1>8, <2>2
  <2>3. QED BY <2>1, <2>2
<1>10. QED BY <1>7, <1>8, <1>9 DEF h

States == {"ok", "fail", "panic"}

\* Applying an operator has one of the three outcomes.
LEMMA ApplyState ==
  ASSUME NEW t, op_hirc(t) > 0, NEW a, NEW b
  PROVE  Apply(t, a, b).s \in States /\ t \notin {"num", "(", ")"}
<1>1. t \in {"INV", "DEREF", "*", "/", "+", "-", "==", "!=", "&&"}
  BY DEF op_hirc
<1>2. Panic.s = "panic" /\ Failed.s = "fail" /\ \A v : Value(v).s = "ok"
  BY DEF Panic, Failed, Value
<1>3. Divide(a, b).s \in States
  BY <1>2 DEF Divide, States
<1>4. CASE t = "/"
  BY <1>2, <1>3, <1>4 DEF Apply, States
<1>5. CASE t # "/"
  BY <1>1, <1>2, <1>5 DEF Apply, States
<1>6. QED BY <1>1, <1>4, <1>5

\* What a result r of the call c says: if it is a value, there was no failure
\* before, and the tokens are an expression.
Sound(r, ts, C, c) ==
  r.s \in States /\ (r.s = "ok" => c[3] = "ok" /\ Expression(ts, C, c[1], c[2]))

\* e is right about the calls with fewer than n tokens.
SoundBelow(e, ts, C, n) ==
  \A c \in Calls(ts) : 0 <= (c[2] + 1) - c[1] /\ (c[2] + 1) - c[1] < n => Sound(e[c], ts, C, c)

LEMMA BodySound ==
  ASSUME NEW ts, Len(ts) \in Nat, NEW C, Counts(C, ts, Len(ts)), NEW n \in Nat, NEW e,
         SoundBelow(e, ts, C, n),
         NEW p \in 1..(Len(ts) + 1), NEW q \in 0..Len(ts), NEW s \in States,
         0 <= (q + 1) - p, (q + 1) - p < n + 1
  PROVE  Sound(EvalBody(e, ts, <<p, q, s>>), ts, C, <<p, q, s>>)
<1> DEFINE c == <<p, q, s>>
           b == EvalBody(e, ts, c)
<1>0. PICK l \in Nat : l = Len(ts)
  OBVIOUS
<1>1. ASSUME NEW p1 \in 1..(l + 1), NEW q1 \in 0..l, NEW s1 \in States,
             0 <= (q1 + 1) - p1, (q1 + 1) - p1 < n
      PROVE  /\ e[<<p1, q1, s1>>].s \in States
             /\ e[<<p1, q1, s1>>].s = "ok" => s1 = "ok" /\ Expression(ts, C, p1, q1)
  <2> DEFINE d == <<p1, q1, s1>>
  <2>1. d \in Calls(ts) /\ d[1] = p1 /\ d[2] = q1 /\ d[3] = s1
    BY <1>0 DEF Calls, States
  <2> HIDE DEF d
  <2>2. Sound(e[d], ts, C, d)
    BY <1>1, <2>1 DEF SoundBelow
  <2>3. QED BY <2>1, <2>2 DEF Sound, d
<1>2. c[1] = p /\ c[2] = q /\ c[3] = s
  OBVIOUS
<1> DEFINE pr    == check_parentheses(ts, p, q)
           t     == IF pr.ok THEN s ELSE "fail"
           op    == find_main_op(ts, p, q)
           left  == IF op = p THEN [s |-> t, v |-> 0] ELSE e[<<p, op - 1, t>>]
           right == e[<<op + 1, q, left.s>>]
           r     == Apply(ts[op].type, left.v, right.v)
<1>3. b = IF p > q THEN Panic
          ELSE IF p = q THEN Single(ts[p], s)
          ELSE IF pr.ret THEN e[<<p + 1, q - 1, t>>]
          ELSE IF op = 0 \/ t # "ok" THEN Failed
          ELSE IF left.s = "panic" \/ right.s = "panic" THEN Panic
          ELSE IF r.s # "ok" THEN r
          ELSE [s |-> right.s, v |-> r.v]
  BY <1>2 DEF EvalBody
<1> SUFFICES /\ b.s \in States
             /\ b.s = "ok" => s = "ok" /\ Expression(ts, C, p, q)
  BY <1>2 DEF Sound
<1>4. t \in States /\ (t = "ok" => s = "ok")
  BY DEF States
<1>5. Panic.s = "panic" /\ Failed.s = "fail" /\ "panic" \in States /\ "fail" \in States
  BY DEF Panic, Failed, States
<1> HIDE DEF b, t, c
<1>6. CASE p > q
  <2>1. b = Panic
    BY <1>3, <1>6
  <2>2. QED BY <1>5, <2>1
<1>7. CASE p = q
  <2>1. b = Single(ts[p], s)
    BY <1>3, <1>7
  <2>2. b.s = IF ts[p].type = "num" THEN s ELSE "fail"
    BY <2>1 DEF Single
  <2>3. ASSUME ts[p].type = "num" PROVE Expression(ts, C, p, q)
    <3>1. p \in 1..l /\ C[p - 1] \in Int
      BY <1>0, <1>7 DEF Counts
    <3>2. C[p] = C[p - 1] + 0
      BY <1>0, <2>3, <3>1 DEF Counts
    <3>3. C[p] = C[p - 1]
      BY <3>1, <3>2
    <3>4. \A i \in p..q : C[i] >= C[p - 1]
      BY <1>7, <3>1, <3>3
    <3>5. \A i \in p..(q - 1) : FALSE
      BY <1>7
    <3>6. Ends(ts[q])
      BY <1>7, <2>3 DEF Ends
    <3>7. QED BY <1>7, <3>3, <3>4, <3>5, <3>6 DEF Expression
  <2>4. QED BY <1>5, <2>2, <2>3
<1>8. CASE p < q /\ pr.ret
  <2>1. b = e[<<p + 1, q - 1, t>>]
    BY <1>3, <1>8
  <2>2. p + 1 \in 1..(l + 1) /\ q - 1 \in 0..l /\ p \in 1..l /\ q \in 1..l
        /\ 0 <= ((q - 1) + 1) - (p + 1) /\ ((q - 1) + 1) - (p + 1) < n
    BY <1>0, <1>8
  <2>3. /\ b.s \in States
        /\ b.s = "ok" => t = "ok" /\ Expression(ts, C, p + 1, q - 1)
    BY <1>1, <1>4, <2>1, <2>2
  <2>4. ts[p].type = "(" /\ ts[q].type = ")"
    BY <1>8 DEF check_parentheses
  <2>5. Expression(ts, C, p + 1, q - 1) => Expression(ts, C, p, q)
    BY <1>0, <2>2, <2>4, Surrounded
  <2>6. QED BY <1>4, <2>3, <2>5
<1>9. CASE p < q /\ ~pr.ret /\ (op = 0 \/ t # "ok")
  <2>1. b = Failed
    BY <1>3, <1>9
  <2>2. QED BY <1>5, <2>1
<1>10. CASE p < q /\ ~pr.ret /\ op # 0 /\ t = "ok"
  <2>0. p \in Nat /\ q \in Nat /\ q \in 0..l /\ p \in 1..l /\ q \in p..l /\ p \in 1..(l + 1)
    BY <1>0, <1>10
  <2>1. op \in p..q /\ op_hirc(ts[op].type) > 0
    BY <1>10, <2>0, MainOpIs
  <2>1a. \A j \in p..q : C[j] = C[q] => op_hirc(ts[j].type) <= op_hirc(ts[op].type)
    <3>1. \A j \in p..q : Open(ts, p, q)[j] = Open(ts, p, q)[q]
                            => op_hirc(ts[j].type) <= op_hirc(ts[op].type)
      BY <1>10, <2>0, MainOpIs
    <3>2. PICK c1 : c1 = Open(ts, p, q)
      OBVIOUS
    <3>2a. Counts(C, ts, l) /\ q \in (p - 1)..l
      BY <1>0, <2>0
    <3>2b. \A j \in (p - 1)..q : Open(ts, p, q)[j] = C[j] - C[p - 1]
      BY <2>0, <3>2a, OpenCounts
    <3>3. \A j \in (p - 1)..q : c1[j] = C[j] - C[p - 1]
      BY <3>2, <3>2b, Zenon
    <3>4. \A j \in p..q : c1[j] = c1[q] <=> C[j] = C[q]
      <4>1. \A j \in (p - 1)..q : j \in 0..l
        BY <2>0
      <4>2. \A j \in (p - 1)..q : C[j] \in Int
        BY <3>2a, <4>1 DEF Counts
      <4>3. p - 1 \in (p - 1)..q /\ \A j \in p..q : j \in (p - 1)..q
        BY <2>0
      <4>4. q \in p..q
        BY <2>0
      <4>5. QED BY <3>3, <4>2, <4>3, <4>4
    <3>5. QED BY <3>1, <3>2, <3>4, Zenon
  <2>2. r.s \in States /\ ts[op].type \notin {"num", "(", ")"}
    BY <2>1, ApplyState
  <2>3. b = IF left.s = "panic" \/ right.s = "panic" THEN Panic
            ELSE IF r.s # "ok" THEN r
            ELSE [s |-> right.s, v |-> r.v]
    BY <1>3, <1>10
  <2> HIDE DEF r, op, pr
  <2>4. left.s \in States /\ (left.s = "ok" /\ op # p => Expression(ts, C, p, op - 1))
    <3>1. CASE op = p
      BY <1>4, <3>1
    <3>2. CASE op # p
      <4>1. op - 1 \in 0..l /\ p \in 1..(l + 1)
            /\ 0 <= ((op - 1) + 1) - p /\ ((op - 1) + 1) - p < n
        BY <1>0, <2>1, <3>2
      <4>2. left = e[<<p, op - 1, t>>]
        BY <3>2
      <4>3. QED BY <1>1, <1>4, <4>1, <4>2
    <3>3. QED BY <3>1, <3>2
  <2> HIDE DEF left
  <2>5. right.s \in States /\ (right.s = "ok" => left.s = "ok" /\ Expression(ts, C, op + 1, q))
    <3>1. op + 1 \in 1..(l + 1) /\ q \in 0..l
          /\ 0 <= (q + 1) - (op + 1) /\ (q + 1) - (op + 1) < n
      BY <1>0, <2>1
    <3>2. QED BY <1>1, <2>4, <3>1
  <2> HIDE DEF right
  <2>6. ASSUME right.s = "ok" PROVE Expression(ts, C, p, q)
    <3>1. p \in 1..l /\ q \in 1..l
      BY <1>0, <1>10
    <3>2. Expression(ts, C, op + 1, q) /\ (op # p => Expression(ts, C, p, op - 1))
      BY <2>4, <2>5, <2>6
    <3>3. QED BY <1>0, <2>1, <2>1a, <2>2, <3>1, <3>2, Joined
  <2>7. s = "ok"
    BY <1>4, <1>10
  <2>8. CASE left.s = "panic" \/ right.s = "panic"
    <3>1. b = Panic
      BY <2>3, <2>8
    <3>2. QED BY <1>5, <3>1
  <2>9. CASE ~(left.s = "panic" \/ right.s = "panic") /\ r.s # "ok"
    <3>1. b = r
      BY <2>3, <2>9
    <3>2. QED BY <2>2, <2>9, <3>1
  <2>10. CASE ~(left.s = "panic" \/ right.s = "panic") /\ r.s = "ok"
    <3>1. b.s = right.s
      BY <2>3, <2>10
    <3>2. QED BY <2>5, <2>6, <2>7, <3>1
  <2>11. QED BY <2>8, <2>9, <2>10
<1>11. p > q \/ p = q \/ p < q
  OBVIOUS
<1>12. QED BY <1>6, <1>7, <1>8, <1>9, <1>10, <1>11

\* The levels of eval.
Levels(f, ts, n) ==
  /\ f = [k \in 0..n |-> f[k]]
  /\ f[0] = [c \in Calls(ts) |-> Panic]
  /\ \A k \in 1..n : f[k] = [c \in Calls(ts) |-> EvalBody(f[k - 1], ts, c)]

LEMMA LevelsExist ==
  ASSUME NEW ts, NEW n \in Nat
  PROVE  \E f : Levels(f, ts, n)
<1> DEFINE S == {k \in Nat : \E f : Levels(f, ts, k)}
           none == [c \in Calls(ts) |-> Panic]
           next(x) == [c \in Calls(ts) |-> EvalBody(x, ts, c)]
<1>1. 0 \in S
  <2> DEFINE f == [i \in 0..0 |-> none]
  <2> HIDE DEF none
  <2>1. f[0] = none /\ f = [k \in 0..0 |-> f[k]] /\ \A k \in 1..0 : FALSE
    OBVIOUS
  <2> HIDE DEF f
  <2>2. Levels(f, ts, 0)
    BY <2>1 DEF Levels, none
  <2>3. QED BY <2>2
<1>2. ASSUME NEW k \in Nat, k \in S PROVE k + 1 \in S
  <2>1. PICK f : Levels(f, ts, k)
    BY <1>2
  <2>2. f[0] = none /\ \A i \in 1..k : f[i] = next(f[i - 1])
    BY <2>1 DEF Levels
  <2>3. PICK v : v = next(f[k])
    OBVIOUS
  <2> DEFINE g == [i \in 0..(k + 1) |-> IF i = k + 1 THEN v ELSE f[i]]
  <2> HIDE DEF next, none
  <2>4. g[0] = none /\ g = [i \in 0..(k + 1) |-> g[i]]
    BY <2>2
  <2>5. ASSUME NEW i \in 1..(k + 1) PROVE g[i] = next(g[i - 1])
    <3>1. CASE i = k + 1
      <4>1. g[i] = v /\ g[i - 1] = f[k]
        BY <3>1
      <4>2. QED BY <2>3, <4>1
    <3>2. CASE i # k + 1
      <4>1. i \in 1..k /\ g[i] = f[i] /\ g[i - 1] = f[i - 1]
        BY <3>2
      <4>2. QED BY <2>2, <4>1
    <3>3. QED BY <3>1, <3>2
  <2> HIDE DEF g
  <2>6. Levels(g, ts, k + 1)
    BY <2>4, <2>5 DEF Levels, next, none
  <2>7. QED BY <2>6
<1>3. \A k \in Nat : k \in S
  <2> HIDE DEF S
  <2>1. QED BY <1>1, <1>2, SetInduction
<1>4. QED BY <1>3

\* eval is its last level.
LEMMA EvalLevels ==
  ASSUME NEW ts, NEW l \in Nat, l = Len(ts)
  PROVE  \E g : Levels(g, ts, l + 1) /\ eval(ts, 1, l, "ok") = g[l + 1][<<1, l, "ok">>]
<1> DEFINE P(f) == f = [n \in 0..(Len(ts) + 1) |->
                          IF n = 0 THEN [c \in Calls(ts) |-> Panic]
                          ELSE [c \in Calls(ts) |-> EvalBody(f[n - 1], ts, c)]]
           g == CHOOSE f : P(f)
           none == [c \in Calls(ts) |-> Panic]
           next(x) == [c \in Calls(ts) |-> EvalBody(x, ts, c)]
<1>1. eval(ts, 1, l, "ok") = g[l + 1][<<1, l, "ok">>]
  BY DEF eval
<1>2. P(g)
  <2>1. l + 1 \in Nat
    OBVIOUS
  <2>2. PICK f : Levels(f, ts, l + 1)
    BY <2>1, LevelsExist
  <2>3. /\ f = [k \in 0..(l + 1) |-> f[k]] /\ f[0] = none
        /\ \A k \in 1..(l + 1) : f[k] = next(f[k - 1])
    BY <2>2 DEF Levels
  <2>4. ASSUME NEW k \in 0..(l + 1) PROVE f[k] = IF k = 0 THEN none ELSE next(f[k - 1])
    <3> HIDE DEF none, next
    <3>1. k # 0 => k \in 1..(l + 1)
      OBVIOUS
    <3>2. QED BY <2>3, <3>1
  <2>5. f = [k \in 0..(l + 1) |-> IF k = 0 THEN none ELSE next(f[k - 1])]
    <3> HIDE DEF none, next
    <3>1. QED BY <2>3, <2>4, Zenon
  <2>6. P(f)
    BY <2>5, Zenon
  <2>7. QED BY <2>6
<1> HIDE DEF g
<1>3. g = [n \in 0..(l + 1) |-> IF n = 0 THEN none ELSE next(g[n - 1])]
  BY <1>2, Zenon
<1> HIDE DEF P, next, none
<1>4. 0 \in 0..(l + 1) /\ \A n \in 1..(l + 1) : n \in 0..(l + 1) /\ n # 0
  OBVIOUS
<1>5. g[0] = none /\ \A n \in 1..(l + 1) : g[n] = next(g[n - 1])
  BY <1>3, <1>4
<1>6. g = [k \in 0..(l + 1) |-> g[k]]
  BY <1>3
<1>7. Levels(g, ts, l + 1)
  BY <1>5, <1>6 DEF Levels, none, next
<1>8. QED BY <1>1, <1>7

\* A level is the body with the calls of the level below.
LEMMA LevelIs ==
  ASSUME NEW ts, NEW l \in Nat, l = Len(ts), NEW g, Levels(g, ts, l + 1), NEW n \in 1..(l + 1),
         NEW p \in 1..(l + 1), NEW q \in 0..l, NEW s \in States
  PROVE  g[n][<<p, q, s>>] = EvalBody(g[n - 1], ts, <<p, q, s>>)
<1> DEFINE d == <<p, q, s>>
<1>1. d \in Calls(ts)
  BY DEF Calls, States
<1> HIDE DEF d
<1>2. g[n] = [c \in Calls(ts) |-> EvalBody(g[n - 1], ts, c)]
  BY DEF Levels
<1>3. QED BY <1>1, <1>2, Zenon DEF d

\* Every level is right about the calls it is deep enough for.
LEMMA LevelsSound ==
  ASSUME NEW ts, NEW l \in Nat, l = Len(ts), NEW C, Counts(C, ts, l),
         NEW g, Levels(g, ts, l + 1), NEW m \in 0..(l + 1)
  PROVE  SoundBelow(g[m], ts, C, m)
<1> DEFINE S == {n \in Nat : n <= l + 1 => SoundBelow(g[n], ts, C, n)}
<1>1. 0 \in S
  <2>1. \A c \in Calls(ts) : ~(0 <= (c[2] + 1) - c[1] /\ (c[2] + 1) - c[1] < 0)
    BY DEF Calls
  <2>2. QED BY <2>1 DEF SoundBelow
<1>2. ASSUME NEW n \in Nat, n \in S PROVE n + 1 \in S
  <2> SUFFICES ASSUME n + 1 <= l + 1 PROVE SoundBelow(g[n + 1], ts, C, n + 1)
    OBVIOUS
  <2>1. SoundBelow(g[n], ts, C, n)
    BY <1>2
  <2>2. n + 1 \in 1..(l + 1) /\ (n + 1) - 1 = n
    OBVIOUS
  <2> SUFFICES ASSUME NEW c \in Calls(ts),
                      0 <= (c[2] + 1) - c[1], (c[2] + 1) - c[1] < n + 1
               PROVE  Sound(g[n + 1][c], ts, C, c)
    BY DEF SoundBelow
  <2>3. PICK p \in 1..(l + 1), q \in 0..l, s \in States : c = <<p, q, s>>
    BY DEF Calls, States
  <2>4. c[1] = p /\ c[2] = q
    BY <2>3
  <2>5. 0 <= (q + 1) - p /\ (q + 1) - p < n + 1
    BY <2>4
  <2>6. Sound(EvalBody(g[n], ts, <<p, q, s>>), ts, C, <<p, q, s>>)
    BY <2>1, <2>5, BodySound
  <2>7. g[n + 1][<<p, q, s>>] = EvalBody(g[n], ts, <<p, q, s>>)
    BY <2>2, LevelIs
  <2>8. QED BY <2>3, <2>6, <2>7, Zenon
<1>3. \A n \in Nat : n \in S
  <2> HIDE DEF S
  <2>1. QED BY <1>1, <1>2, SetInduction
<1>4. QED BY <1>3

\* A value of eval is that of an expression.
LEMMA EvalSound ==
  ASSUME NEW ts, NEW l \in Nat, l = Len(ts), NEW C, Counts(C, ts, l),
         eval(ts, 1, l, "ok").s = "ok"
  PROVE  Expression(ts, C, 1, l)
<1>1. PICK g : Levels(g, ts, l + 1) /\ eval(ts, 1, l, "ok") = g[l + 1][<<1, l, "ok">>]
  BY EvalLevels
<1>2. l + 1 \in 0..(l + 1)
  OBVIOUS
<1>3. SoundBelow(g[l + 1], ts, C, l + 1)
  BY <1>1, <1>2, LevelsSound
<1> DEFINE d == <<1, l, "ok">>
<1>4. d \in Calls(ts) /\ d[1] = 1 /\ d[2] = l
      /\ 0 <= (l + 1) - 1 /\ (l + 1) - 1 < l + 1
  BY DEF Calls
<1>5. g[l + 1][d].s = "ok"
  BY <1>1
<1> HIDE DEF d
<1>6. Sound(g[l + 1][d], ts, C, d)
  BY <1>3, <1>4 DEF SoundBelow
<1>7. QED BY <1>4, <1>5, <1>6 DEF Sound

\* f[i] is token i as the pass leaves it.
Rewritten(f, ts, n) ==
  /\ f = [i \in 0..n |-> f[i]] /\ f[0] = Tok("(")
  /\ \A i \in 1..n : f[i] = Marked(ts[i], f[i - 1])

LEMMA RewrittenExists ==
  ASSUME NEW ts, NEW n \in Nat
  PROVE  \E f : Rewritten(f, ts, n)
<1> DEFINE S == {k \in Nat : \E f : Rewritten(f, ts, k)}
<1>1. 0 \in S
  <2> DEFINE f == [i \in 0..0 |-> Tok("(")]
  <2>1. f[0] = Tok("(") /\ f = [k \in 0..0 |-> f[k]] /\ \A k \in 1..0 : FALSE
    OBVIOUS
  <2> HIDE DEF f
  <2>2. Rewritten(f, ts, 0)
    BY <2>1 DEF Rewritten
  <2>3. QED BY <2>2
<1>2. ASSUME NEW k \in Nat, k \in S PROVE k + 1 \in S
  <2>1. PICK f : Rewritten(f, ts, k)
    BY <1>2
  <2>2. f[0] = Tok("(") /\ \A i \in 1..k : f[i] = Marked(ts[i], f[i - 1])
    BY <2>1 DEF Rewritten
  <2>3. PICK v : v = Marked(ts[k + 1], f[k])
    OBVIOUS
  <2> DEFINE g == [i \in 0..(k + 1) |-> IF i = k + 1 THEN v ELSE f[i]]
  <2>4. g[0] = Tok("(") /\ g = [i \in 0..(k + 1) |-> g[i]]
    BY <2>2
  <2>5. ASSUME NEW i \in 1..(k + 1) PROVE g[i] = Marked(ts[i], g[i - 1])
    <3>1. CASE i = k + 1
      <4>1. g[i] = v /\ g[i - 1] = f[k]
        BY <3>1
      <4>2. QED BY <2>3, <3>1, <4>1
    <3>2. CASE i # k + 1
      <4>1. i \in 1..k /\ g[i] = f[i] /\ g[i - 1] = f[i - 1]
        BY <3>2
      <4>2. QED BY <2>2, <4>1
    <3>3. QED BY <3>1, <3>2
  <2> HIDE DEF g
  <2>6. Rewritten(g, ts, k + 1)
    BY <2>4, <2>5 DEF Rewritten
  <2>7. QED BY <2>6
<1>3. \A k \in Nat : k \in S
  <2> HIDE DEF S
  <2>1. QED BY <1>1, <1>2, SetInduction
<1>4. QED BY <1>3

LEMMA RewriteIs ==
  ASSUME NEW ts, NEW n \in Nat, n = Len(ts), NEW f, Rewritten(f, ts, n)
  PROVE  Rewrite(ts) = [i \in 1..n |-> f[i]]
<1> DEFINE P(g) == g = [i \in 0..Len(ts) |-> IF i = 0 THEN Tok("(") ELSE Marked(ts[i], g[i - 1])]
           g == CHOOSE g : P(g)
<1>1. Rewrite(ts) = [i \in 1..n |-> g[i]]
  <2>1. Rewrite(ts) = [i \in 1..Len(ts) |-> g[i]]
    BY DEF Rewrite
  <2> HIDE DEF g
  <2>2. QED BY <2>1
<1>2. /\ f = [i \in 0..n |-> f[i]] /\ f[0] = Tok("(")
      /\ \A i \in 1..n : f[i] = Marked(ts[i], f[i - 1])
  BY DEF Rewritten
<1>3. ASSUME NEW i \in 0..n
      PROVE  f[i] = IF i = 0 THEN Tok("(") ELSE Marked(ts[i], f[i - 1])
  <2>1. i # 0 => i \in 1..n
    OBVIOUS
  <2>2. QED BY <1>2, <2>1
<1>4. P(f)
  BY <1>2, <1>3, Zenon
<1>5. P(g)
  BY <1>4
<1> HIDE DEF g
<1>6. \A i \in 0..n : g[i] = IF i = 0 THEN Tok("(") ELSE Marked(ts[i], g[i - 1])
  BY <1>5
<1>7. RoundsAlike(g, f, n)
  <2>1. 0 \in 0..n /\ \A i \in 1..n : i \in 0..n /\ i # 0
    OBVIOUS
  <2>2. g[0] = f[0]
    BY <1>2, <1>6, <2>1, Zenon
  <2>3. ASSUME NEW i \in 1..n, g[i - 1] = f[i - 1] PROVE g[i] = f[i]
    <3>1. g[i] = Marked(ts[i], g[i - 1])
      BY <1>6, <2>1, Zenon
    <3>2. f[i] = Marked(ts[i], f[i - 1])
      BY <1>2
    <3>3. QED BY <2>3, <3>1, <3>2
  <2>4. QED BY <2>2, <2>3 DEF RoundsAlike
<1>8. \A i \in 0..n : g[i] = f[i]
  BY <1>7, SameRounds
<1>9. \A i \in 1..n : g[i] = f[i]
  BY <1>8
<1>10. QED BY <1>1, <1>9

\* Rewriting touches signs and stars only.
LEMMA RewriteKeeps ==
  ASSUME NEW ts, NEW n \in Nat, Len(ts) = n
  PROVE  /\ Len(Rewrite(ts)) = n
         /\ \A i \in 1..n, t \in {"num", "(", ")"} : Rewrite(ts)[i].type = t <=> ts[i].type = t
<1>1. PICK f : Rewritten(f, ts, n)
  BY RewrittenExists
<1>2. PICK r : r = Rewrite(ts)
  OBVIOUS
<1>3. r = [i \in 1..n |-> f[i]]
  BY <1>1, <1>2, RewriteIs
<1>4. Len(r) = n
  BY <1>3
<1>5. ASSUME NEW i \in 1..n, NEW t \in {"num", "(", ")"} PROVE r[i].type = t <=> ts[i].type = t
  <2>1. r[i] = Marked(ts[i], f[i - 1])
    BY <1>1, <1>3 DEF Rewritten
  <2>2. r[i] = ts[i] \/ (ts[i].type \in {"*", "-"} /\ r[i].type \in {"DEREF", "INV"})
    BY <2>1 DEF Marked, Tok
  <2>3. QED BY <2>2
<1>6. QED BY <1>2, <1>4, <1>5

LEMMA AcceptsOnly ==
  ASSUME tokens \in Seq(Alphabet)
  PROVE  AcceptsExpressions
<1> SUFFICES ASSUME expr(tokens).s = "ok" PROVE AcceptsExpressions
  BY DEF AcceptsExpressions
<1>1. PICK n \in Nat : n = Len(tokens) /\ DOMAIN tokens = 1..n
  OBVIOUS
<1>2. PICK r : r = Rewrite(tokens)
  OBVIOUS
<1>3. Len(r) = n /\ \A i \in 1..n, t \in {"num", "(", ")"} : r[i].type = t <=> tokens[i].type = t
  BY <1>1, <1>2, RewriteKeeps
<1>4. PICK C : Counts(C, tokens, n)
  BY CountsExist
<1>5. Counts(C, r, n)
  BY <1>3, <1>4 DEF Counts
<1>6. Expression(r, C, 1, n)
  <2>1. eval(r, 1, Len(r), "ok").s = "ok"
    BY <1>1, <1>2, <1>3 DEF expr
  <2>2. QED BY <1>3, <1>5, <2>1, EvalSound
<1>7. PICK c : c = Open(tokens, 1, n)
  OBVIOUS
<1>8. \A i \in 0..n : c[i] = C[i]
  <2>1. 1 \in 1..(n + 1) /\ n \in (1 - 1)..n /\ 1 - 1 = 0
    OBVIOUS
  <2>2. \A i \in 0..n : c[i] = C[i] - C[0]
    <3>1. \A i \in (1 - 1)..n : Open(tokens, 1, n)[i] = C[i] - C[1 - 1]
      BY <1>4, <2>1, OpenCounts
    <3>2. QED BY <1>7, <2>1, <3>1
  <2>3. C[0] = 0 /\ \A i \in 0..n : C[i] \in Int
    BY <1>4 DEF Counts
  <2>4. QED BY <2>2, <2>3
<1>9. n >= 1 /\ C[0] = 0 /\ 1 - 1 = 0
  BY <1>4, <1>6 DEF Expression, Counts
<1>10. c[n] = 0 /\ \A i \in 1..n : c[i] >= 0
  <2>1. C[n] = C[1 - 1] /\ \A i \in 1..n : C[i] >= C[1 - 1]
    BY <1>6 DEF Expression
  <2>2. \A i \in 1..n : i \in 0..n
    OBVIOUS
  <2>3. QED BY <1>8, <1>9, <2>1, <2>2
<1>11. \A i \in 1..n : Ends(r[i]) <=> Ends(tokens[i])
  BY <1>3 DEF Ends
<1>12. Ends(tokens[n])
  BY <1>6, <1>9, <1>11 DEF Expression
<1>13. ASSUME NEW i \in 1..(n - 1)
       PROVE  IF Ends(tokens[i]) THEN tokens[i + 1].type \notin {"num", "("}
                                 ELSE tokens[i + 1].type # ")"
  <2>1. i \in 1..n /\ i + 1 \in 1..n
    OBVIOUS
  <2>2. Adjacent(r[i], r[i + 1])
    BY <1>6 DEF Expression
  <2>3. QED BY <1>3, <1>11, <2>1, <2>2 DEF Adjacent
<1>14. QED BY <1>1, <1>7, <1>10, <1>12, <1>13 DEF AcceptsExpressions

(* Whatever is typed, what the debugger gives a value for is an expression *)
(* but for a missing left operand: eval finds neither a main operator nor  *)
(* a pair of parentheses that would hide a gap (expr.c).                   *)
THEOREM ValuesAreOfExpressions == TypeSpec => []AcceptsExpressions
<1> DEFINE Inv == tokens \in Seq(Alphabet)
<1>1. TypeInit => Inv
  BY DEF TypeInit
<1>2. Inv /\ [Type]_tokens => Inv'
  BY DEF Type
<1>3. Inv => AcceptsExpressions
  BY AcceptsOnly
<1>4. QED BY <1>1, <1>2, <1>3, PTL DEF TypeSpec

----------------------------------------------------------------------------
(* The evaluator of expressions: the value it gives.                       *)

\* Tokens p..q have all their parentheses and an operand at the end, and no
\* operator outside parentheses is looser than h.
Region(ts, C, p, q, h) ==
  /\ p <= q /\ C[q] = C[p - 1] /\ (\A i \in p..q : C[i] >= C[p - 1])
  /\ Ends(ts[q])
  /\ \A i \in p..q : C[i] = C[p - 1] => op_hirc(ts[i].type) <= h

\* The levels deep enough for tokens p..q agree with what they mean.
Agree(g, ts, p, q, mean) ==
  \A n \in 1..(Len(ts) + 1) : (q + 1) - p < n =>
    /\ g[n][<<p, q, "ok">>].s = "ok" <=> mean.s = "ok"
    /\ g[n][<<p, q, "ok">>].s = "ok" => g[n][<<p, q, "ok">>].v = mean.v

\* The main operator of a region.
LEMMA MainOpOf ==
  ASSUME NEW ts, NEW l \in Nat, NEW C, Counts(C, ts, l), NEW p \in 1..l, NEW q \in p..l,
         C[q] = C[p - 1], NEW op \in p..q, C[op] = C[p - 1], NEW h \in Nat,
         op_hirc(ts[op].type) = h, h > 0,
         \A i \in p..q : C[i] = C[p - 1] => op_hirc(ts[i].type) <= h,
         \A i \in (op + 1)..q : C[i] = C[p - 1] => op_hirc(ts[i].type) < h
  PROVE  find_main_op(ts, p, q) = op
<1> DEFINE c    == Open(ts, p, q)
           o(i) == op_hirc(ts[i].type)
           free == {i \in p..q : c[i] = c[q] /\ o(i) > 0}
           top  == {i \in free : \A j \in free : o(j) <= o(i)}
<1>1. find_main_op(ts, p, q) = IF free = {} THEN 0 ELSE CHOOSE i \in top : \A j \in top : j <= i
  BY DEF find_main_op
<1>2. \A i \in p..q : c[i] = c[q] <=> C[i] = C[p - 1]
  <2>1. p \in 1..(l + 1) /\ q \in (p - 1)..l /\ \A i \in p..q : i \in (p - 1)..q /\ i \in 0..l
    OBVIOUS
  <2>2. \A i \in (p - 1)..q : Open(ts, p, q)[i] = C[i] - C[p - 1]
    BY <2>1, OpenCounts
  <2>3. C[p - 1] \in Int /\ \A i \in p..q : C[i] \in Int
    BY <2>1 DEF Counts
  <2>4. q \in p..q
    OBVIOUS
  <2>5. QED BY <2>1, <2>2, <2>3, <2>4
<1> HIDE DEF c
<1>3. \A i : o(i) \in Int
  BY DEF op_hirc
<1> HIDE DEF o
<1>4. /\ o(op) = h
      /\ \A i \in p..q : C[i] = C[p - 1] => o(i) <= h
      /\ \A i \in (op + 1)..q : C[i] = C[p - 1] => o(i) < h
  BY DEF o
<1>5. op \in free
  BY <1>2, <1>4
<1>6. \A i \in free : i \in p..q /\ C[i] = C[p - 1]
  BY <1>2
<1> HIDE DEF free
<1>7. op \in top
  BY <1>4, <1>5, <1>6
<1>8. ASSUME NEW i \in top PROVE i <= op
  <2>1. i \in free /\ h <= o(i) /\ i \in p..q
    BY <1>4, <1>5, <1>6
  <2>2. ~(i \in (op + 1)..q)
    BY <1>3, <1>4, <1>6, <2>1
  <2>3. QED BY <2>1, <2>2
<1>9. \A i \in top : i \in Int
  BY <1>6
<1> HIDE DEF top
<1>10. PICK m : m = CHOOSE i \in top : \A j \in top : j <= i
  OBVIOUS
<1>11. m \in top /\ \A j \in top : j <= m
  BY <1>7, <1>8, <1>10
<1>12. m = op
  BY <1>7, <1>8, <1>9, <1>11
<1>13. QED BY <1>1, <1>5, <1>10, <1>12

LEMMA OpenInside ==
  ASSUME NEW ts, NEW l \in Nat, NEW C, Counts(C, ts, l), NEW p \in 1..l, NEW q \in 1..l
  PROVE  \A i \in (p + 1)..(q - 1) : Open(ts, p + 1, q - 1)[i] = C[i] - C[p]
<1> SUFFICES ASSUME NEW i \in (p + 1)..(q - 1)
             PROVE  Open(ts, p + 1, q - 1)[i] = C[i] - C[p]
  OBVIOUS
<1>1. PICK a, b : a = p + 1 /\ b = q - 1
  OBVIOUS
<1>2. a \in 1..(l + 1) /\ b \in (a - 1)..l /\ i \in (a - 1)..b /\ a - 1 = p
  BY <1>1
<1>3. \A j \in (a - 1)..b : Open(ts, a, b)[j] = C[j] - C[a - 1]
  BY <1>2, OpenCounts
<1>4. Open(ts, a, b)[i] = C[i] - C[a - 1]
  BY <1>2, <1>3, Zenon
<1>5. QED BY <1>1, <1>2, <1>4, Zenon

\* A region in parentheses is recognised as such,
LEMMA InParentheses ==
  ASSUME NEW ts, NEW l \in Nat, NEW C, Counts(C, ts, l), NEW p \in 1..l, NEW q \in 1..l,
         ts[p].type = "(", ts[q].type = ")", NEW h, Region(ts, C, p + 1, q - 1, h)
  PROVE  check_parentheses(ts, p, q) = [ret |-> TRUE, ok |-> TRUE]
<1>1. p + 1 <= q - 1 /\ (p + 1) - 1 = p
  BY DEF Region
<1>2. C[q - 1] = C[p] /\ \A i \in (p + 1)..(q - 1) : C[i] >= C[p]
  BY <1>1 DEF Region
<1> DEFINE c == Open(ts, p + 1, q - 1)
<1>3. \A i \in (p + 1)..(q - 1) : c[i] = C[i] - C[p]
  BY OpenInside
<1>4. C[p] \in Int /\ \A i \in (p + 1)..(q - 1) : C[i] \in Int
  BY DEF Counts
<1>5. q - 1 \in (p + 1)..(q - 1)
  BY <1>1
<1>6. check_parentheses(ts, p, q) =
        [ret |-> \A i \in (p + 1)..(q - 1) : c[i] # -1,
         ok  |-> c[q - 1] = 0 /\ \A i \in (p + 1)..(q - 1) : c[i] >= -1]
  BY DEF check_parentheses
<1> HIDE DEF c
<1>7. \A i \in (p + 1)..(q - 1) : c[i] >= 0 /\ c[i] \in Int
  BY <1>2, <1>3, <1>4
<1>8. c[q - 1] = 0
  BY <1>2, <1>3, <1>4, <1>5
<1>9. (\A i \in (p + 1)..(q - 1) : c[i] # -1) /\ (\A i \in (p + 1)..(q - 1) : c[i] >= -1)
  BY <1>7
<1>10. QED BY <1>6, <1>8, <1>9

\* and two regions side by side are not taken for one.
LEMMA NotInParentheses ==
  ASSUME NEW ts, NEW l \in Nat, NEW C, Counts(C, ts, l), NEW p \in 1..l, NEW q \in p..l,
         C[q] = C[p - 1], \A i \in p..q : C[i] >= C[p - 1],
         NEW m \in p..(q - 1), C[m] = C[p - 1]
  PROVE  check_parentheses(ts, p, q) = [ret |-> FALSE, ok |-> TRUE]
<1>1. CASE ts[p].type # "(" \/ ts[q].type # ")"
  BY <1>1 DEF check_parentheses
<1>2. CASE ts[p].type = "(" /\ ts[q].type = ")"
  <2>1. p < q /\ p - 1 \in 0..l /\ q - 1 \in 0..l /\ p \in 1..l /\ q \in 1..l
    OBVIOUS
  <2>2. C[p - 1] \in Int /\ C[q - 1] \in Int /\ \A i \in p..q : C[i] \in Int
    BY <2>1 DEF Counts
  <2>3. C[p] = C[p - 1] + 1 /\ C[q] = C[q - 1] - 1
    BY <1>2, <2>1 DEF Counts
  <2>4. m \in (p + 1)..(q - 1)
    BY <2>2, <2>3
  <2> DEFINE c == Open(ts, p + 1, q - 1)
  <2>5. \A i \in (p + 1)..(q - 1) : c[i] = C[i] - C[p]
    BY <2>1, OpenInside
  <2>6. check_parentheses(ts, p, q) =
          [ret |-> \A i \in (p + 1)..(q - 1) : c[i] # -1,
           ok  |-> c[q - 1] = 0 /\ \A i \in (p + 1)..(q - 1) : c[i] >= -1]
    BY <1>2 DEF check_parentheses
  <2> HIDE DEF c
  <2>7. c[m] = -1
    BY <2>2, <2>3, <2>4, <2>5
  <2>8. c[q - 1] = 0
    <3>1. q - 1 \in (p + 1)..(q - 1)
      BY <2>4
    <3>2. QED BY <2>2, <2>3, <2>5, <3>1
  <2>9. \A i \in (p + 1)..(q - 1) : c[i] >= -1
    BY <2>2, <2>3, <2>5
  <2>10. ~(\A i \in (p + 1)..(q - 1) : c[i] # -1)
    BY <2>4, <2>7
  <2>11. QED BY <2>6, <2>8, <2>9, <2>10
<1>3. QED BY <1>1, <1>2

LEMMA ParenRegion ==
  ASSUME NEW ts, NEW l \in Nat, NEW C, Counts(C, ts, l), NEW p \in 1..l, NEW q \in 1..l,
         ts[p].type = "(", ts[q].type = ")", NEW h, Region(ts, C, p + 1, q - 1, h)
  PROVE  Region(ts, C, p, q, 0)
<1>1. p + 1 <= q - 1 /\ (p + 1) - 1 = p
  BY DEF Region
<1>2. C[q - 1] = C[p] /\ \A i \in (p + 1)..(q - 1) : C[i] >= C[p]
  BY <1>1 DEF Region
<1>3. C[p] = C[p - 1] + 1 /\ C[q] = C[q - 1] - 1
  BY DEF Counts
<1>4. C[p - 1] \in Int /\ \A i \in p..q : C[i] \in Int
  BY DEF Counts
<1>5. p \in p..q /\ q - 1 \in p..q /\ q \in p..q
  BY <1>1
<1>6. C[q] = C[p - 1]
  BY <1>2, <1>3, <1>4, <1>5
<1>7. op_hirc(ts[q].type) = 0
  BY DEF op_hirc
<1>8. ASSUME NEW i \in p..q
      PROVE  C[i] >= C[p - 1] /\ (C[i] = C[p - 1] => op_hirc(ts[i].type) <= 0)
  <2>1. i = q \/ i = p \/ i \in (p + 1)..(q - 1)
    OBVIOUS
  <2>2. CASE i = q
    BY <1>4, <1>6, <1>7, <2>2
  <2>3. CASE i = p
    BY <1>3, <1>4, <2>3
  <2>4. CASE i \in (p + 1)..(q - 1)
    BY <1>2, <1>3, <1>4, <1>5, <2>4
  <2>5. QED BY <2>1, <2>2, <2>3, <2>4
<1>9. Ends(ts[q]) /\ p <= q
  BY <1>1 DEF Ends
<1>10. QED BY <1>6, <1>8, <1>9 DEF Region

\* A region after an operator as loose as h, behind one or nothing.
OperatorAt(ts, l, C, p, q, op, h, k) ==
  /\ l \in Nat /\ Counts(C, ts, l) /\ p \in 1..l /\ q \in p..l /\ op \in p..q
  /\ h \in Nat /\ op_hirc(ts[op].type) = h /\ h > 0
  /\ op # p => Region(ts, C, p, op - 1, h)
  /\ k \in Nat /\ k < h /\ Region(ts, C, op + 1, q, k)

LEMMA OperatorRegion ==
  ASSUME NEW ts, NEW l, NEW C, NEW p, NEW q, NEW op, NEW h, NEW k,
         OperatorAt(ts, l, C, p, q, op, h, k)
  PROVE  /\ Region(ts, C, p, q, h) /\ op < q /\ C[op] = C[p - 1]
         /\ (op # p => C[op - 1] = C[p - 1])
         /\ find_main_op(ts, p, q) = op
<1> SUFFICES ASSUME l \in Nat, Counts(C, ts, l), p \in 1..l, q \in p..l, op \in p..q,
                    h \in Nat, op_hirc(ts[op].type) = h, h > 0,
                    op # p => Region(ts, C, p, op - 1, h),
                    k \in Nat, k < h, Region(ts, C, op + 1, q, k)
             PROVE  /\ Region(ts, C, p, q, h) /\ op < q /\ C[op] = C[p - 1]
                    /\ (op # p => C[op - 1] = C[p - 1])
                    /\ find_main_op(ts, p, q) = op
  BY DEF OperatorAt
<1>1. op \in 1..l /\ op + 1 <= q /\ (op + 1) - 1 = op
  BY DEF Region
<1>2. /\ C[q] = C[op] /\ (\A i \in (op + 1)..q : C[i] >= C[op]) /\ Ends(ts[q])
      /\ \A i \in (op + 1)..q : C[i] = C[op] => op_hirc(ts[i].type) <= k
  BY <1>1 DEF Region
<1>3. op # p => /\ p <= op - 1 /\ C[op - 1] = C[p - 1]
                /\ \A i \in p..(op - 1) : C[i] >= C[p - 1]
                /\ \A i \in p..(op - 1) : C[i] = C[p - 1] => op_hirc(ts[i].type) <= h
  BY DEF Region
<1>4. C[p - 1] \in Int /\ C[op - 1] \in Int /\ \A i \in p..q : C[i] \in Int
  <2>1. p - 1 \in 0..l /\ op - 1 \in 0..l /\ \A i \in p..q : i \in 0..l
    BY <1>1
  <2>2. QED BY <2>1 DEF Counts
<1>5. C[op] = C[op - 1]
  <2>1. ts[op].type # "(" /\ ts[op].type # ")"
    BY DEF op_hirc
  <2>2. C[op] = C[op - 1] + 0
    BY <1>1, <2>1 DEF Counts
  <2>3. QED BY <1>4, <2>2
<1>6. C[op] = C[p - 1]
  BY <1>3, <1>5
<1>7. \A i : op_hirc(ts[i].type) \in Int
  BY DEF op_hirc
<1>8. ASSUME NEW i \in p..q
      PROVE  C[i] >= C[p - 1] /\ (C[i] = C[p - 1] => op_hirc(ts[i].type) <= h)
  <2>1. CASE i < op
    BY <1>3, <1>4, <2>1
  <2>2. CASE i = op
    BY <1>4, <1>6, <2>2
  <2>3. CASE i > op
    BY <1>2, <1>4, <1>6, <1>7, <2>3
  <2>4. QED BY <2>1, <2>2, <2>3
<1>9. Region(ts, C, p, q, h)
  <2>1. C[q] = C[p - 1] /\ p <= q
    BY <1>2, <1>6
  <2>2. QED BY <1>2, <1>8, <2>1 DEF Region
<1>10. \A i \in (op + 1)..q : C[i] = C[p - 1] => op_hirc(ts[i].type) < h
  BY <1>2, <1>6, <1>7
<1>11. find_main_op(ts, p, q) = op
  <2>1. C[q] = C[p - 1]
    BY <1>2, <1>6
  <2>2. \A i \in p..q : C[i] = C[p - 1] => op_hirc(ts[i].type) <= h
    BY <1>8
  <2>3. QED BY <1>6, <1>10, <2>1, <2>2, MainOpOf
<1>12. QED BY <1>1, <1>3, <1>6, <1>9, <1>11

\* The body of eval, for tokens in parentheses
LEMMA ParenBody ==
  ASSUME NEW e, NEW ts, NEW p \in Nat, NEW q \in Nat, p < q,
         check_parentheses(ts, p, q) = [ret |-> TRUE, ok |-> TRUE]
  PROVE  EvalBody(e, ts, <<p, q, "ok">>) = e[<<p + 1, q - 1, "ok">>]
BY DEF EvalBody

\* and with a main operator.
OperatorResult(e, ts, p, q, op) ==
  LET left  == IF op = p THEN [s |-> "ok", v |-> 0] ELSE e[<<p, op - 1, "ok">>]
      right == e[<<op + 1, q, left.s>>]
      r     == Apply(ts[op].type, left.v, right.v)
  IN  IF left.s = "panic" \/ right.s = "panic" THEN Panic
      ELSE IF r.s # "ok" THEN r
      ELSE [s |-> right.s, v |-> r.v]

LEMMA OperatorBody ==
  ASSUME NEW e, NEW ts, NEW p \in Nat, NEW q \in Nat, p < q,
         check_parentheses(ts, p, q) = [ret |-> FALSE, ok |-> TRUE],
         NEW op \in Nat \ {0}, find_main_op(ts, p, q) = op
  PROVE  EvalBody(e, ts, <<p, q, "ok">>) = OperatorResult(e, ts, p, q, op)
BY DEF EvalBody, OperatorResult

LEMMA ParenAgrees ==
  ASSUME NEW ts, NEW l \in Nat, l = Len(ts), NEW g, Levels(g, ts, l + 1),
         NEW p \in 1..l, NEW q \in 1..l, p < q - 1, NEW mean,
         check_parentheses(ts, p, q) = [ret |-> TRUE, ok |-> TRUE],
         Agree(g, ts, p + 1, q - 1, mean)
  PROVE  Agree(g, ts, p, q, mean)
<1> SUFFICES ASSUME NEW n \in 1..(l + 1), (q + 1) - p < n
             PROVE  /\ g[n][<<p, q, "ok">>].s = "ok" <=> mean.s = "ok"
                    /\ g[n][<<p, q, "ok">>].s = "ok" => g[n][<<p, q, "ok">>].v = mean.v
  BY DEF Agree
<1>1. p \in 1..(l + 1) /\ q \in 0..l /\ "ok" \in States /\ p \in Nat /\ q \in Nat /\ p < q
  BY DEF States
<1>2. g[n][<<p, q, "ok">>] = g[n - 1][<<p + 1, q - 1, "ok">>]
  <2>1. g[n][<<p, q, "ok">>] = EvalBody(g[n - 1], ts, <<p, q, "ok">>)
    BY <1>1, LevelIs
  <2>2. EvalBody(g[n - 1], ts, <<p, q, "ok">>) = g[n - 1][<<p + 1, q - 1, "ok">>]
    BY <1>1, ParenBody
  <2>3. QED BY <2>1, <2>2, Zenon
<1>3. n - 1 \in 1..(l + 1) /\ ((q - 1) + 1) - (p + 1) < n - 1
  OBVIOUS
<1>4. PICK k : k = n - 1
  OBVIOUS
<1>5. /\ g[k][<<p + 1, q - 1, "ok">>].s = "ok" <=> mean.s = "ok"
      /\ g[k][<<p + 1, q - 1, "ok">>].s = "ok" => g[k][<<p + 1, q - 1, "ok">>].v = mean.v
  BY <1>3, <1>4 DEF Agree
<1>6. QED BY <1>2, <1>4, <1>5, Zenon

LEMMA OperatorAgrees ==
  ASSUME NEW ts, NEW l \in Nat, l = Len(ts), NEW C, Counts(C, ts, l),
         NEW g, Levels(g, ts, l + 1),
         NEW p \in 1..l, NEW q \in p..l, NEW op \in p..(q - 1), NEW lm, NEW rm,
         check_parentheses(ts, p, q) = [ret |-> FALSE, ok |-> TRUE],
         find_main_op(ts, p, q) = op,
         IF op = p THEN lm = Value(0) ELSE Agree(g, ts, p, op - 1, lm),
         Agree(g, ts, op + 1, q, rm)
  PROVE  Agree(g, ts, p, q, Strict(ts[op].type, lm, rm))
<1> DEFINE t == ts[op].type
<1>a. \A n \in 1..(l + 1), i \in 1..(l + 1), j \in 0..l :
        g[n][<<i, j, "ok">>] = EvalBody(g[n - 1], ts, <<i, j, "ok">>)
  <2>1. "ok" \in States
    BY DEF States
  <2>2. QED BY <2>1, LevelIs
<1>0. PICK mean : mean = Strict(t, lm, rm)
  OBVIOUS
<1> SUFFICES ASSUME NEW n \in 1..(l + 1), (q + 1) - p < n
             PROVE  /\ g[n][<<p, q, "ok">>].s = "ok" <=> mean.s = "ok"
                    /\ g[n][<<p, q, "ok">>].s = "ok" => g[n][<<p, q, "ok">>].v = mean.v
  BY <1>0 DEF Agree
<1>1. p \in 1..(l + 1) /\ q \in 0..l /\ "ok" \in States /\ p \in Nat /\ q \in Nat /\ p < q
      /\ op \in Nat \ {0}
  BY DEF States
<1>2. PICK k : k = n - 1
  OBVIOUS
<1>3. k \in 1..(l + 1) /\ k \in 0..(l + 1)
  BY <1>2
<1> DEFINE left  == IF op = p THEN [s |-> "ok", v |-> 0] ELSE g[k][<<p, op - 1, "ok">>]
           right == g[k][<<op + 1, q, left.s>>]
           r     == Apply(t, left.v, right.v)
           b     == g[n][<<p, q, "ok">>]
<1>4. b = IF left.s = "panic" \/ right.s = "panic" THEN Panic
          ELSE IF r.s # "ok" THEN r
          ELSE [s |-> right.s, v |-> r.v]
  <2>1. g[n][<<p, q, "ok">>] = EvalBody(g[k], ts, <<p, q, "ok">>)
    <3>1. g[n][<<p, q, "ok">>] = EvalBody(g[n - 1], ts, <<p, q, "ok">>)
      BY <1>1, <1>a, Zenon
    <3>2. QED BY <1>2, <3>1, Zenon
  <2>2. EvalBody(g[k], ts, <<p, q, "ok">>) =
          IF left.s = "panic" \/ right.s = "panic" THEN Panic
          ELSE IF r.s # "ok" THEN r
          ELSE [s |-> right.s, v |-> r.v]
    <3>1. EvalBody(g[k], ts, <<p, q, "ok">>) = OperatorResult(g[k], ts, p, q, op)
      BY <1>1, OperatorBody
    <3>2. QED BY <3>1, Zenon DEF OperatorResult
  <2>3. QED BY <2>1, <2>2, Zenon
<1>5. SoundBelow(g[k], ts, C, k)
  BY <1>3, LevelsSound
<1>6. left.s \in States /\ (left.s = "ok" <=> lm.s = "ok") /\ (left.s = "ok" => left.v = lm.v)
  <2>1. CASE op = p
    BY <1>1, <2>1 DEF Value
  <2>2. CASE op # p
    <3> DEFINE d == <<p, op - 1, "ok">>
    <3>1. left = g[k][d]
      BY <2>2
    <3>2. d \in Calls(ts) /\ d[1] = p /\ d[2] = op - 1 /\ 0 <= ((op - 1) + 1) - p
          /\ ((op - 1) + 1) - p < k
      BY <1>2 DEF Calls
    <3>3. /\ g[k][d].s = "ok" <=> lm.s = "ok"
          /\ g[k][d].s = "ok" => g[k][d].v = lm.v
      BY <1>3, <2>2, <3>2 DEF Agree
    <3> HIDE DEF d
    <3>4. Sound(g[k][d], ts, C, d)
      BY <1>5, <3>2 DEF SoundBelow
    <3> HIDE DEF left
    <3>5. QED BY <3>1, <3>3, <3>4, Zenon DEF Sound
  <2>3. QED BY <2>1, <2>2
<1> HIDE DEF left
<1>7. right.s = "ok" => left.s = "ok"
  <2> DEFINE d == <<op + 1, q, left.s>>
  <2>1. d \in Calls(ts) /\ d[1] = op + 1 /\ d[2] = q /\ d[3] = left.s
    BY <1>6 DEF Calls, States
  <2>2. 0 <= (q + 1) - (op + 1) /\ (q + 1) - (op + 1) < k
    BY <1>2
  <2>3. right = g[k][d]
    OBVIOUS
  <2> HIDE DEF d, right
  <2>4. Sound(g[k][d], ts, C, d)
    BY <1>5, <2>1, <2>2 DEF SoundBelow
  <2>5. QED BY <2>1, <2>3, <2>4, Zenon DEF Sound
<1>8. left.s = "ok" => (right.s = "ok" <=> rm.s = "ok") /\ (right.s = "ok" => right.v = rm.v)
  <2>1. (q + 1) - (op + 1) < k
    BY <1>2
  <2>2. /\ g[k][<<op + 1, q, "ok">>].s = "ok" <=> rm.s = "ok"
        /\ g[k][<<op + 1, q, "ok">>].s = "ok" => g[k][<<op + 1, q, "ok">>].v = rm.v
    BY <1>3, <2>1 DEF Agree
  <2>3. QED BY <2>2, Zenon
<1> HIDE DEF right, b
<1>9. mean = IF lm.s # "ok" THEN lm ELSE IF rm.s # "ok" THEN rm ELSE Apply(t, lm.v, rm.v)
  BY <1>0 DEF Strict
<1>10. Panic.s = "panic"
  BY DEF Panic
<1>11. CASE right.s = "ok"
  <2>1. left.s = "ok" /\ lm.s = "ok" /\ rm.s = "ok" /\ left.v = lm.v /\ right.v = rm.v
    BY <1>6, <1>7, <1>8, <1>11
  <2>2. r = mean
    BY <1>9, <2>1, Zenon
  <2> HIDE DEF r, t
  <2>3. b = IF r.s # "ok" THEN r ELSE [s |-> "ok", v |-> r.v]
    BY <1>4, <1>11, <2>1
  <2>4. QED BY <2>2, <2>3 DEF b
<1>12. CASE right.s # "ok"
  <2>1. mean.s # "ok"
    BY <1>6, <1>8, <1>9, <1>12
  <2>2. b.s # "ok"
    <3> HIDE DEF r
    <3>1. QED BY <1>4, <1>10, <1>12
  <2>3. QED BY <2>1, <2>2 DEF b
<1>13. QED BY <1>11, <1>12

\* The symbols of expressions.
Symbols == [type : {"num", "(", ")"} \cup Binary, val : Leaves \cup {0}]

\* The tokens w stand at p..q of ts.
Placed(w, ts, p, q) ==
  /\ p \in Nat \ {0} /\ q = (p - 1) + Len(w)
  /\ \A i \in 1..Len(w) : ts[(p - 1) + i] = w[i]

LEMMA PlacedJoin ==
  ASSUME NEW S, NEW v \in Seq(S), NEW w \in Seq(S), NEW ts, NEW p, NEW q, Placed(v \o w, ts, p, q)
  PROVE  LET m == (p - 1) + Len(v) IN Placed(v, ts, p, m) /\ Placed(w, ts, m + 1, q)
<1> DEFINE m == (p - 1) + Len(v)
<1>1. PICK a \in Nat, b \in Nat : a = Len(v) /\ b = Len(w)
  OBVIOUS
<1>2. PICK u : u = v \o w
  OBVIOUS
<1>3. /\ Len(u) = a + b
      /\ \A i \in 1..a : u[i] = v[i]
      /\ \A i \in 1..b : u[a + i] = w[i]
  BY <1>1, <1>2
<1>4. /\ p \in Nat \ {0} /\ q = (p - 1) + (a + b)
      /\ \A i \in 1..(a + b) : ts[(p - 1) + i] = u[i]
  BY <1>2, <1>3 DEF Placed
<1>5. Placed(v, ts, p, m)
  BY <1>1, <1>3, <1>4 DEF Placed
<1>6. Placed(w, ts, m + 1, q)
  <2>1. m + 1 \in Nat \ {0} /\ q = ((m + 1) - 1) + b
    BY <1>1, <1>4
  <2>2. ASSUME NEW i \in 1..b PROVE ts[((m + 1) - 1) + i] = w[i]
    <3>1. ((m + 1) - 1) + i = (p - 1) + (a + i) /\ a + i \in 1..(a + b)
      BY <1>1, <1>4
    <3>2. QED BY <1>3, <1>4, <3>1
  <2>3. QED BY <1>1, <2>1, <2>2 DEF Placed
<1>7. QED BY <1>5, <1>6

LEMMA PlacedOne ==
  ASSUME NEW k, NEW ts, NEW p, NEW q, Placed(<<k>>, ts, p, q)
  PROVE  p \in Nat \ {0} /\ q = p /\ ts[p] = k
<1>1. Len(<<k>>) = 1 /\ <<k>>[1] = k
  OBVIOUS
<1>2. p \in Nat \ {0} /\ q = (p - 1) + 1 /\ ts[(p - 1) + 1] = k
  BY <1>1 DEF Placed
<1>3. QED BY <1>2

\* The pass, the counts and the levels of a string of l tokens.
Context(ts, l, f, r, C, g) ==
  /\ l \in Nat /\ Rewritten(f, ts, l)
  /\ r = [i \in 1..l |-> f[i]]
  /\ Counts(C, r, l) /\ Levels(g, r, l + 1)

\* Token k, with before on its left, is taken for a sign or star if it is '-' or '*'.
Starts(k, before) ==
  k.type \in {"*", "-"} => is_operator(before.type) \/ before.type = "("

Evaluates(w, h, mean, ts, l, f, r, C, g) ==
  \A p, q : Placed(w, ts, p, q) /\ q <= l /\ Starts(ts[p], f[p - 1])
              => Region(r, C, p, q, h) /\ Agree(g, r, p, q, mean)

\* Wherever w stands and is not mistaken, it is a region no looser than h, and
\* evaluates to mean.
Good(w, h, mean) ==
  /\ w \in Seq(Symbols) /\ Len(w) >= 1
  /\ h = 0 => w[1].type \notin {"*", "-"}
  /\ \A ts, l, f, r, C, g : Context(ts, l, f, r, C, g) => Evaluates(w, h, mean, ts, l, f, r, C, g)

LEMMA ContextIs ==
  ASSUME NEW ts, NEW l, NEW f, NEW r, NEW C, NEW g, Context(ts, l, f, r, C, g)
  PROVE  /\ l \in Nat /\ Len(r) = l /\ Counts(C, r, l) /\ Levels(g, r, l + 1)
         /\ \A i \in 1..l : r[i] = f[i] /\ f[i] = Marked(ts[i], f[i - 1])
<1>1. l \in Nat /\ r = [i \in 1..l |-> f[i]] /\ Counts(C, r, l) /\ Levels(g, r, l + 1)
  BY DEF Context
<1>2. \A i \in 1..l : f[i] = Marked(ts[i], f[i - 1])
  BY DEF Context, Rewritten
<1>3. Len(r) = l
  BY <1>1
<1>4. \A i \in 1..l : r[i] = f[i]
  BY <1>1
<1>5. QED BY <1>1, <1>2, <1>3, <1>4

LEMMA LeafGood ==
  ASSUME NEW v \in Leaves
  PROVE  Good(<<Num(v)>>, 0, Value(v))
<1> DEFINE w == <<Num(v)>>
<1>1. w \in Seq(Symbols) /\ Len(w) = 1 /\ w[1].type = "num"
  <2>1. Num(v) \in Symbols /\ Num(v).type = "num"
    BY DEF Symbols, Num
  <2>2. QED BY <2>1
<1>2. ASSUME NEW ts, NEW l, NEW f, NEW r, NEW C, NEW g, Context(ts, l, f, r, C, g),
             NEW p, NEW q, Placed(w, ts, p, q), q <= l
      PROVE  Region(r, C, p, q, 0) /\ Agree(g, r, p, q, Value(v))
  <2>1. p \in Nat \ {0} /\ q = p /\ ts[p] = Num(v)
    BY <1>2, PlacedOne
  <2>2. /\ l \in Nat /\ Len(r) = l /\ Counts(C, r, l) /\ Levels(g, r, l + 1)
        /\ \A i \in 1..l : r[i] = f[i] /\ f[i] = Marked(ts[i], f[i - 1])
    BY <1>2, ContextIs
  <2>3. p \in 1..l
    BY <1>2, <2>1, <2>2
  <2>4. r[p] = Num(v)
    <3>1. r[p] = Marked(Num(v), f[p - 1])
      BY <2>1, <2>2, <2>3
    <3>2. QED BY <3>1 DEF Marked, Num
  <2>5. C[p] = C[p - 1] /\ C[p] \in Int
    <3>1. r[p].type = "num" /\ p - 1 \in 0..l
      BY <2>2, <2>3, <2>4 DEF Num
    <3>2. C[p] = C[p - 1] + 0 /\ C[p - 1] \in Int
      BY <2>2, <2>3, <3>1 DEF Counts
    <3>3. QED BY <3>2
  <2>6. Region(r, C, p, p, 0)
    BY <2>1, <2>4, <2>5 DEF Region, Num, Ends, op_hirc
  <2>7. ASSUME NEW n \in 1..(l + 1) PROVE g[n][<<p, p, "ok">>] = Value(v)
    <3>1. p \in 1..(l + 1) /\ p \in 0..l /\ "ok" \in States
      BY <2>2, <2>3 DEF States
    <3>2. g[n][<<p, p, "ok">>] = EvalBody(g[n - 1], r, <<p, p, "ok">>)
      BY <2>2, <3>1, LevelIs
    <3>3. EvalBody(g[n - 1], r, <<p, p, "ok">>) = Single(r[p], "ok")
      BY <2>1 DEF EvalBody
    <3>4. Single(r[p], "ok") = Value(v)
      BY <2>4 DEF Single, Num, Value
    <3>5. QED BY <3>2, <3>3, <3>4, Zenon
  <2>8. Agree(g, r, p, p, Value(v))
    BY <2>2, <2>7 DEF Agree
  <2>9. QED BY <2>1, <2>6, <2>8
<1> HIDE DEF w
<1>3. QED BY <1>1, <1>2 DEF Good, Evaluates, w

LEMMA FirstOfJoin ==
  ASSUME NEW S, NEW v \in Seq(S), NEW w \in Seq(S), Len(v) >= 1
  PROVE  v \o w \in Seq(S) /\ Len(v \o w) = Len(v) + Len(w) /\ (v \o w)[1] = v[1]
OBVIOUS

LEMMA SymbolsAre ==
  /\ \A t \in {"(", ")"} \cup Binary : Tok(t) \in Symbols /\ <<Tok(t)>> \in Seq(Symbols)
  /\ \A t : Tok(t).type = t
BY DEF Symbols, Tok

\* The pass leaves a parenthesis,
LEMMA MarkedParen ==
  ASSUME NEW t \in {"(", ")"}, NEW b
  PROVE  Marked(Tok(t), b) = Tok(t)
BY DEF Marked, Tok

\* makes a sign or star of one without a left operand,
LEMMA MarkedPrefix ==
  ASSUME NEW t \in Unary, NEW k, k = Tok(IF t = "INV" THEN "-" ELSE "*"), NEW b, Starts(k, b)
  PROVE  Marked(k, b) = Tok(t)
BY DEF Marked, Tok, Starts, Unary

\* and leaves an operator with one.
LEMMA MarkedInfix ==
  ASSUME NEW t, NEW b, Ends(b)
  PROVE  Marked(Tok(t), b) = Tok(t)
BY DEF Marked, Tok, Ends, is_operator

LEMMA ParenGood ==
  ASSUME NEW w, NEW h, NEW mean, Good(w, h, mean)
  PROVE  Good(<<Tok("(")>> \o w \o <<Tok(")")>>, 0, mean)
<1> DEFINE o == <<Tok("(")>>
           e == <<Tok(")")>>
           u == o \o w
           x == u \o e
<1>1. /\ o \in Seq(Symbols) /\ e \in Seq(Symbols) /\ Len(o) = 1 /\ Len(e) = 1 /\ o[1] = Tok("(")
      /\ w \in Seq(Symbols) /\ Len(w) \in Nat /\ Len(w) >= 1
  <2>1. w \in Seq(Symbols) /\ Len(w) >= 1
    BY DEF Good
  <2>2. QED BY <2>1, SymbolsAre
<1>2. u \in Seq(Symbols) /\ Len(u) = 1 + Len(w) /\ u[1] = Tok("(")
  <2> HIDE DEF o
  <2>1. u \in Seq(Symbols) /\ Len(u) = Len(o) + Len(w) /\ u[1] = o[1]
    <3>1. Len(o) >= 1
      BY <1>1
    <3>2. QED BY <1>1, <3>1, FirstOfJoin, Zenon
  <2>2. QED BY <1>1, <2>1
<1>3. x \in Seq(Symbols) /\ Len(x) >= 1 /\ x[1].type = "("
  <2> HIDE DEF u, e
  <2>1. x \in Seq(Symbols) /\ Len(x) = Len(u) + Len(e) /\ x[1] = Tok("(")
    <3>1. Len(u) >= 1
      BY <1>1, <1>2
    <3>2. QED BY <1>1, <1>2, <3>1, FirstOfJoin, Zenon
  <2>2. QED BY <1>1, <1>2, <2>1, SymbolsAre
<1>4. ASSUME NEW ts, NEW l, NEW f, NEW r, NEW C, NEW g, Context(ts, l, f, r, C, g),
             NEW p, NEW q, Placed(x, ts, p, q), q <= l
      PROVE  Region(r, C, p, q, 0) /\ Agree(g, r, p, q, mean)
  <2>1. PICK m : m = (p - 1) + Len(u)
    OBVIOUS
  <2>2. Placed(u, ts, p, m) /\ Placed(e, ts, m + 1, q)
    <3> HIDE DEF u, e
    <3>1. QED BY <1>1, <1>2, <1>4, <2>1, PlacedJoin
  <2>3. PICK k : k = (p - 1) + Len(o)
    OBVIOUS
  <2>4. Placed(o, ts, p, k) /\ Placed(w, ts, k + 1, m)
    <3> HIDE DEF o
    <3>1. QED BY <1>1, <2>2, <2>3, PlacedJoin
  <2>5. q = m + 1 /\ ts[m + 1] = Tok(")") /\ k = p /\ ts[p] = Tok("(") /\ p \in Nat \ {0}
    BY <2>2, <2>4, PlacedOne
  <2>6. Placed(w, ts, p + 1, m) /\ ts[q] = Tok(")")
    BY <2>4, <2>5
  <2>7. m = p + Len(w) /\ m = q - 1
    BY <1>1, <1>2, <2>1, <2>5
  <2>8. /\ l \in Nat /\ Len(r) = l /\ Counts(C, r, l) /\ Levels(g, r, l + 1)
        /\ \A i \in 1..l : r[i] = f[i] /\ f[i] = Marked(ts[i], f[i - 1])
    BY <1>4, ContextIs
  <2>9. p \in 1..l /\ q \in 1..l /\ p < q - 1 /\ m <= l
    BY <1>1, <1>4, <2>5, <2>7, <2>8
  <2>10. r[p] = Tok("(") /\ f[p] = Tok("(")
    BY <2>5, <2>8, <2>9, MarkedParen
  <2>11. r[q] = Tok(")")
    BY <2>6, <2>8, <2>9, MarkedParen
  <2>12. Starts(ts[p + 1], f[(p + 1) - 1])
    <3>1. (p + 1) - 1 = p
      BY <2>5
    <3>2. QED BY <2>10, <3>1, SymbolsAre DEF Starts
  <2>13. Evaluates(w, h, mean, ts, l, f, r, C, g)
    BY <1>4 DEF Good
  <2>14. Region(r, C, p + 1, m, h) /\ Agree(g, r, p + 1, m, mean)
    BY <2>6, <2>9, <2>12, <2>13 DEF Evaluates
  <2>15. Region(r, C, p + 1, q - 1, h) /\ Agree(g, r, p + 1, q - 1, mean)
    BY <2>7, <2>14
  <2>16. r[p].type = "(" /\ r[q].type = ")"
    BY <2>10, <2>11, SymbolsAre
  <2>17. Region(r, C, p, q, 0)
    BY <2>8, <2>9, <2>15, <2>16, ParenRegion
  <2>18. check_parentheses(r, p, q) = [ret |-> TRUE, ok |-> TRUE]
    BY <2>8, <2>9, <2>15, <2>16, InParentheses
  <2>19. Agree(g, r, p, q, mean)
    BY <2>8, <2>9, <2>15, <2>18, ParenAgrees
  <2>20. QED BY <2>17, <2>19
<1> HIDE DEF x
<1>5. Good(x, 0, mean)
  BY <1>3, <1>4 DEF Good, Evaluates
<1>6. QED BY <1>5 DEF x

\* Text that is looser than k, or no operand of a sign, is put into parentheses.
LEMMA ParenOrNot ==
  ASSUME NEW w, NEW h, NEW mean, Good(w, h, mean), NEW need, NEW k,
         (need /\ k = 0) \/ (~need /\ k = h)
  PROVE  Good(Paren(need, w), k, mean)
<1>1. CASE need /\ k = 0
  BY <1>1, ParenGood DEF Paren
<1>2. CASE ~need /\ k = h
  BY <1>2 DEF Paren
<1>3. QED BY <1>1, <1>2

LEMMA PrefixGood ==
  ASSUME NEW w, NEW mean, Good(w, 0, mean), NEW t \in Unary
  PROVE  Good(<<Tok(IF t = "INV" THEN "-" ELSE "*")>> \o w, 1, Strict(t, Value(0), mean))
<1> DEFINE k == Tok(IF t = "INV" THEN "-" ELSE "*")
           o == <<k>>
           x == o \o w
           M == Strict(t, Value(0), mean)
<1>1. /\ o \in Seq(Symbols) /\ Len(o) = 1
      /\ w \in Seq(Symbols) /\ Len(w) \in Nat /\ Len(w) >= 1 /\ w[1].type \notin {"*", "-"}
  <2>1. w \in Seq(Symbols) /\ Len(w) >= 1 /\ w[1].type \notin {"*", "-"}
    BY DEF Good
  <2>2. (IF t = "INV" THEN "-" ELSE "*") \in Binary
    BY DEF Binary
  <2>3. QED BY <2>1, <2>2, SymbolsAre
<1>2. x \in Seq(Symbols) /\ Len(x) = Len(o) + Len(w)
  <2> HIDE DEF o
  <2>1. Len(o) >= 1
    BY <1>1
  <2>2. QED BY <1>1, <2>1, FirstOfJoin, Zenon
<1>3. op_hirc(t) = 1 /\ t # "("
  BY DEF op_hirc, Unary
<1>4. ASSUME NEW ts, NEW l, NEW f, NEW r, NEW C, NEW g, Context(ts, l, f, r, C, g),
             NEW p, NEW q, Placed(x, ts, p, q), q <= l, Starts(ts[p], f[p - 1])
      PROVE  Region(r, C, p, q, 1) /\ Agree(g, r, p, q, M)
  <2>1. PICK m : m = (p - 1) + Len(o)
    OBVIOUS
  <2>2. Placed(o, ts, p, m) /\ Placed(w, ts, m + 1, q)
    <3> HIDE DEF o
    <3>1. QED BY <1>1, <1>4, <2>1, PlacedJoin
  <2>3. p \in Nat \ {0} /\ m = p /\ ts[p] = k
    BY <2>2, PlacedOne
  <2>4. Placed(w, ts, p + 1, q) /\ q = p + Len(w) /\ ts[p + 1] = w[1]
    <3>1. Placed(w, ts, p + 1, q)
      BY <2>2, <2>3
    <3>2. q = ((p + 1) - 1) + Len(w) /\ ts[((p + 1) - 1) + 1] = w[1]
      BY <1>1, <3>1 DEF Placed
    <3>3. ((p + 1) - 1) + 1 = p + 1 /\ (p + 1) - 1 = p
      BY <2>3
    <3>4. QED BY <3>1, <3>2, <3>3
  <2>5. /\ l \in Nat /\ Len(r) = l /\ Counts(C, r, l) /\ Levels(g, r, l + 1)
        /\ \A i \in 1..l : r[i] = f[i] /\ f[i] = Marked(ts[i], f[i - 1])
    BY <1>4, ContextIs
  <2>6. p \in 1..l /\ q \in p..l /\ p \in p..q /\ p \in p..(q - 1)
    BY <1>1, <1>4, <2>3, <2>4, <2>5
  <2>7. r[p] = Tok(t)
    <3>1. r[p] = Marked(k, f[p - 1]) /\ Starts(k, f[p - 1])
      BY <1>4, <2>3, <2>5, <2>6
    <3>2. QED BY <3>1, MarkedPrefix
  <2>8. Starts(ts[p + 1], f[(p + 1) - 1])
    BY <1>1, <2>4 DEF Starts
  <2>9. Evaluates(w, 0, mean, ts, l, f, r, C, g)
    BY <1>4 DEF Good
  <2>10. Region(r, C, p + 1, q, 0) /\ Agree(g, r, p + 1, q, mean)
    BY <1>4, <2>4, <2>8, <2>9 DEF Evaluates
  <2>11. r[p].type = t
    BY <2>7, SymbolsAre
  <2>12. Region(r, C, p, q, 1) /\ find_main_op(r, p, q) = p
    <3>1. op_hirc(r[p].type) = 1
      BY <1>3, <2>11
    <3>2. 1 \in Nat /\ 1 > 0 /\ 0 \in Nat /\ 0 < 1
      OBVIOUS
    <3>3. OperatorAt(r, l, C, p, q, p, 1, 0)
      BY <2>5, <2>6, <2>10, <3>1, <3>2 DEF OperatorAt
    <3>4. QED BY <3>3, OperatorRegion
  <2>13. check_parentheses(r, p, q) = [ret |-> FALSE, ok |-> TRUE]
    BY <1>3, <2>11 DEF check_parentheses
  <2>14. Agree(g, r, p, q, Strict(r[p].type, Value(0), mean))
    BY <2>5, <2>6, <2>10, <2>12, <2>13, OperatorAgrees
  <2>15. QED BY <2>11, <2>12, <2>14
<1> HIDE DEF x, M
<1>5. Len(x) >= 1
  BY <1>1, <1>2
<1>6. Good(x, 1, M)
  BY <1>2, <1>4, <1>5 DEF Good, Evaluates
<1>7. QED BY <1>6 DEF x, M

\* A region is also one of looser operators.
LEMMA RegionLooser ==
  ASSUME NEW ts, NEW C, NEW p, NEW q, NEW h \in 0..5, NEW k \in 0..5, h <= k,
         Region(ts, C, p, q, h)
  PROVE  Region(ts, C, p, q, k)
<1>1. \A i : op_hirc(ts[i].type) \in Int
  BY DEF op_hirc
<1>2. QED BY <1>1 DEF Region

LEMMA LevelIsHierarchy ==
  ASSUME NEW t \in Binary
  PROVE  Level(t) = op_hirc(t) /\ Level(t) \in 2..5 /\ is_operator(t)
<1>1. is_operator(t)
  BY DEF Binary, is_operator
<1>2. t \notin Unary
  BY DEF Binary, Unary
<1>3. Level(t) = IF t \in {"*", "/"} THEN 2 ELSE IF t \in {"+", "-"} THEN 3
                 ELSE IF t \in {"==", "!="} THEN 4 ELSE 5
  BY <1>2 DEF Level, Binary
<1>4. op_hirc(t) = IF t \in {"*", "/"} THEN 2 ELSE IF t \in {"+", "-"} THEN 3
                   ELSE IF t \in {"==", "!="} THEN 4 ELSE 5
  BY DEF op_hirc, Binary
<1>5. QED BY <1>1, <1>3, <1>4

LEMMA InfixGood ==
  ASSUME NEW v, NEW w, NEW lm, NEW rm, NEW t \in Binary, NEW a \in 0..5, NEW b \in 0..5,
         Good(v, a, lm), Good(w, b, rm), a <= Level(t), b < Level(t)
  PROVE  Good(v \o <<Tok(t)>> \o w, Level(t), Strict(t, lm, rm))
<1> DEFINE o == <<Tok(t)>>
           u == v \o o
           x == u \o w
           M == Strict(t, lm, rm)
<1>1. /\ o \in Seq(Symbols) /\ Len(o) = 1
      /\ v \in Seq(Symbols) /\ Len(v) \in Nat /\ Len(v) >= 1
      /\ w \in Seq(Symbols) /\ Len(w) \in Nat /\ Len(w) >= 1
  <2>1. v \in Seq(Symbols) /\ Len(v) >= 1 /\ w \in Seq(Symbols) /\ Len(w) >= 1
    BY DEF Good
  <2>2. o \in Seq(Symbols)
    BY SymbolsAre, Zenon
  <2>3. Len(o) = 1
    OBVIOUS
  <2>4. Len(v) \in Nat /\ Len(w) \in Nat
    BY <2>1
  <2>5. QED BY <2>1, <2>2, <2>3, <2>4
<1>2. u \in Seq(Symbols) /\ Len(u) = Len(v) + Len(o)
  <2> HIDE DEF o
  <2>1. QED BY <1>1, FirstOfJoin, Zenon
<1>3. PICK h \in 2..5 : h = Level(t) /\ op_hirc(t) = h
  BY LevelIsHierarchy
<1>4. x \in Seq(Symbols) /\ Len(x) >= 1
  <2> HIDE DEF u
  <2>1. Len(u) >= 1
    BY <1>1, <1>2
  <2>2. x \in Seq(Symbols) /\ Len(x) = Len(u) + Len(w)
    BY <1>1, <1>2, <2>1, FirstOfJoin, Zenon
  <2>3. QED BY <1>1, <1>2, <2>2
<1>5. ASSUME NEW ts, NEW l, NEW f, NEW r, NEW C, NEW g, Context(ts, l, f, r, C, g),
             NEW p, NEW q, Placed(x, ts, p, q), q <= l, Starts(ts[p], f[p - 1])
      PROVE  Region(r, C, p, q, h) /\ Agree(g, r, p, q, M)
  <2>1. PICK m : m = (p - 1) + Len(u)
    OBVIOUS
  <2>2. Placed(u, ts, p, m) /\ Placed(w, ts, m + 1, q)
    <3> HIDE DEF u
    <3>1. QED BY <1>1, <1>2, <1>5, <2>1, PlacedJoin
  <2>3. PICK n : n = (p - 1) + Len(v)
    OBVIOUS
  <2>4. Placed(v, ts, p, n) /\ Placed(o, ts, n + 1, m)
    <3> HIDE DEF o
    <3>1. QED BY <1>1, <2>2, <2>3, PlacedJoin
  <2>5. n + 1 \in Nat \ {0} /\ m = n + 1 /\ ts[m] = Tok(t)
    BY <2>4, PlacedOne
  <2>6. /\ l \in Nat /\ Len(r) = l /\ Counts(C, r, l) /\ Levels(g, r, l + 1)
        /\ \A i \in 1..l : r[i] = f[i] /\ f[i] = Marked(ts[i], f[i - 1])
    BY <1>5, ContextIs
  <2>7. p \in Nat \ {0} /\ q = m + Len(w)
    BY <2>1, <2>2, <2>4, <1>1, <1>2 DEF Placed
  <2>8. /\ p \in 1..l /\ q \in p..l /\ m \in p..q /\ m \in p..(q - 1) /\ m # p /\ n = m - 1
        /\ n <= l /\ n \in 1..l /\ m \in 1..l /\ (m + 1) - 1 = m
    <3>1. PICK c \in Nat, d \in Nat : c = Len(v) /\ d = Len(w) /\ c >= 1 /\ d >= 1
      BY <1>1
    <3>2. l \in Nat /\ p \in Nat \ {0} /\ n = (p - 1) + c /\ m = n + 1 /\ q = m + d /\ q <= l
      BY <1>5, <2>3, <2>5, <2>6, <2>7, <3>1
    <3>3. QED BY <3>1, <3>2
  <2>9. Evaluates(v, a, lm, ts, l, f, r, C, g) /\ Evaluates(w, b, rm, ts, l, f, r, C, g)
    BY <1>5 DEF Good
  <2>10. Region(r, C, p, n, a) /\ Agree(g, r, p, n, lm)
    BY <1>5, <2>4, <2>8, <2>9 DEF Evaluates
  <2>11. Ends(f[n])
    BY <2>6, <2>8, <2>10 DEF Region
  <2>12. r[m] = Tok(t) /\ f[m] = Tok(t)
    <3>1. f[m] = Marked(Tok(t), f[n]) /\ r[m] = f[m]
      BY <2>5, <2>6, <2>8
    <3>2. QED BY <2>11, <3>1, MarkedInfix
  <2>13. Starts(ts[m + 1], f[(m + 1) - 1])
    <3>1. is_operator(f[m].type)
      BY <2>12, LevelIsHierarchy, SymbolsAre
    <3>2. QED BY <2>8, <3>1 DEF Starts
  <2>14. Region(r, C, m + 1, q, b) /\ Agree(g, r, m + 1, q, rm)
    BY <1>5, <2>2, <2>9, <2>13 DEF Evaluates
  <2>15. Region(r, C, p, n, h)
    <3>1. h \in 0..5 /\ a <= h
      BY <1>3
    <3>2. QED BY <2>10, <3>1, RegionLooser
  <2>16. r[m].type = t /\ op_hirc(r[m].type) = h
    BY <1>3, <2>12, SymbolsAre
  <2>17. OperatorAt(r, l, C, p, q, m, h, b)
    <3>1. b < h /\ b \in Nat /\ h \in Nat /\ h > 0
      BY <1>3
    <3>2. QED BY <2>6, <2>8, <2>14, <2>15, <2>16, <3>1 DEF OperatorAt
  <2>18. Region(r, C, p, q, h) /\ C[m] = C[p - 1] /\ find_main_op(r, p, q) = m
    BY <2>17, OperatorRegion
  <2>19. check_parentheses(r, p, q) = [ret |-> FALSE, ok |-> TRUE]
    <3>1. C[q] = C[p - 1] /\ \A i \in p..q : C[i] >= C[p - 1]
      BY <2>18 DEF Region
    <3>2. QED BY <2>6, <2>8, <2>18, <3>1, NotInParentheses
  <2>20. Agree(g, r, p, q, Strict(r[m].type, lm, rm))
    <3>1. Agree(g, r, p, m - 1, lm)
      BY <2>8, <2>10
    <3>2. IF m = p THEN lm = Value(0) ELSE Agree(g, r, p, m - 1, lm)
      BY <2>8, <3>1
    <3>3. QED BY <2>6, <2>8, <2>14, <2>18, <2>19, <3>2, OperatorAgrees
  <2>21. QED BY <2>16, <2>18, <2>20
<1> HIDE DEF x, M
<1>6. h # 0
  BY <1>3
<1>7. Good(x, h, M)
  BY <1>4, <1>5, <1>6 DEF Good, Evaluates
<1>8. QED BY <1>3, <1>7 DEF x, M

\* In tokens p..q a sign or star has an operator with a left operand after it.
Stuck(r, p, q) ==
  \E i \in p..(q - 1) : r[i].type \in Unary /\ r[i + 1].type \in {"*", "-"}

Stumbles(w, ts, l, f, r) ==
  \A p, q : Placed(w, ts, p, q) /\ q <= l /\ Starts(ts[p], f[p - 1]) => Stuck(r, p, q)

\* Wherever w stands and is not mistaken, the second of two signs or stars in
\* a row is left an operator.
Bad(w) ==
  /\ w \in Seq(Symbols) /\ Len(w) >= 1
  /\ \A ts, l, f, r, C, g : Context(ts, l, f, r, C, g) => Stumbles(w, ts, l, f, r)

LEMMA StuckInside ==
  ASSUME NEW r, NEW p \in Int, NEW q \in Int, NEW a \in Int, NEW b \in Int, p <= a, b <= q,
         Stuck(r, a, b)
  PROVE  Stuck(r, p, q)
<1>1. PICK i \in a..(b - 1) : r[i].type \in Unary /\ r[i + 1].type \in {"*", "-"}
  BY DEF Stuck
<1>2. i \in p..(q - 1)
  OBVIOUS
<1>3. QED BY <1>1, <1>2 DEF Stuck

LEMMA ParenText ==
  ASSUME NEW w \in Seq(Symbols), Len(w) >= 1
  PROVE  LET x == <<Tok("(")>> \o w \o <<Tok(")")>>
         IN  x \in Seq(Symbols) /\ Len(x) >= 1 /\ x[1].type = "("
<1> DEFINE o == <<Tok("(")>>
           e == <<Tok(")")>>
           u == o \o w
           x == u \o e
<1>1. o \in Seq(Symbols) /\ e \in Seq(Symbols) /\ Len(o) = 1 /\ Len(e) = 1 /\ o[1] = Tok("(")
      /\ Len(w) \in Nat
  BY SymbolsAre
<1>2. u \in Seq(Symbols) /\ Len(u) = Len(o) + Len(w) /\ u[1] = o[1]
  <2>1. Len(o) >= 1
    BY <1>1
  <2> HIDE DEF o
  <2>2. QED BY <1>1, <2>1, FirstOfJoin, Zenon
<1>3. Len(u) >= 1
  BY <1>1, <1>2
<1>4. x \in Seq(Symbols) /\ Len(x) = Len(u) + Len(e) /\ x[1] = u[1]
  <2> HIDE DEF u, e
  <2>1. QED BY <1>1, <1>2, <1>3, FirstOfJoin, Zenon
<1>5. Len(x) >= 1
  <2> HIDE DEF x, u, e
  <2>1. QED BY <1>1, <1>3, <1>4
<1>6. x[1].type = "("
  <2> HIDE DEF x
  <2>1. QED BY <1>1, <1>2, <1>4, SymbolsAre
<1>7. QED BY <1>4, <1>5, <1>6

LEMMA ParenBad ==
  ASSUME NEW w, Bad(w)
  PROVE  Bad(<<Tok("(")>> \o w \o <<Tok(")")>>)
<1> DEFINE o == <<Tok("(")>>
           e == <<Tok(")")>>
           u == o \o w
           x == u \o e
<1>1. /\ o \in Seq(Symbols) /\ e \in Seq(Symbols) /\ Len(o) = 1 /\ Len(e) = 1 /\ o[1] = Tok("(")
      /\ w \in Seq(Symbols) /\ Len(w) \in Nat /\ Len(w) >= 1
  <2>1. w \in Seq(Symbols) /\ Len(w) >= 1
    BY DEF Bad
  <2>2. QED BY <2>1, SymbolsAre
<1>2. u \in Seq(Symbols) /\ Len(u) = 1 + Len(w)
  <2> HIDE DEF o
  <2>1. u \in Seq(Symbols) /\ Len(u) = Len(o) + Len(w)
    <3>1. Len(o) >= 1
      BY <1>1
    <3>2. QED BY <1>1, <3>1, FirstOfJoin, Zenon
  <2>2. QED BY <1>1, <2>1
<1>3. x \in Seq(Symbols) /\ Len(x) >= 1
  BY <1>1, ParenText, Zenon
<1>4. ASSUME NEW ts, NEW l, NEW f, NEW r, NEW C, NEW g, Context(ts, l, f, r, C, g),
             NEW p, NEW q, Placed(x, ts, p, q), q <= l
      PROVE  Stuck(r, p, q)
  <2>1. PICK m : m = (p - 1) + Len(u)
    OBVIOUS
  <2>2. Placed(u, ts, p, m) /\ Placed(e, ts, m + 1, q)
    <3> HIDE DEF u, e
    <3>1. QED BY <1>1, <1>2, <1>4, <2>1, PlacedJoin
  <2>3. PICK k : k = (p - 1) + Len(o)
    OBVIOUS
  <2>4. Placed(o, ts, p, k) /\ Placed(w, ts, k + 1, m)
    <3> HIDE DEF o
    <3>1. QED BY <1>1, <2>2, <2>3, PlacedJoin
  <2>5. q = m + 1 /\ ts[m + 1] = Tok(")") /\ k = p /\ ts[p] = Tok("(") /\ p \in Nat \ {0}
    BY <2>2, <2>4, PlacedOne
  <2>6. Placed(w, ts, p + 1, m)
    BY <2>4, <2>5
  <2>7. m = p + Len(w) /\ m = q - 1
    BY <1>1, <1>2, <2>1, <2>5
  <2>8. /\ l \in Nat
        /\ \A i \in 1..l : r[i] = f[i] /\ f[i] = Marked(ts[i], f[i - 1])
    BY <1>4, ContextIs
  <2>9. p \in 1..l /\ m <= l /\ m \in Int /\ q \in Int
    BY <1>1, <1>4, <2>5, <2>7, <2>8
  <2>10. f[p] = Tok("(")
    BY <2>5, <2>8, <2>9, MarkedParen
  <2>11. Starts(ts[p + 1], f[(p + 1) - 1])
    <3>1. (p + 1) - 1 = p
      BY <2>5
    <3>2. QED BY <2>10, <3>1, SymbolsAre DEF Starts
  <2>12. Stumbles(w, ts, l, f, r)
    BY <1>4 DEF Bad
  <2>13. Stuck(r, p + 1, m)
    BY <2>6, <2>9, <2>11, <2>12 DEF Stumbles
  <2>14. p <= p + 1 /\ m <= q /\ p \in Int /\ p + 1 \in Int
    BY <2>5, <2>7, <2>9
  <2>15. QED BY <2>9, <2>13, <2>14, StuckInside
<1> HIDE DEF x
<1>5. Bad(x)
  BY <1>3, <1>4 DEF Bad, Stumbles
<1>6. QED BY <1>5 DEF x

LEMMA PrefixText ==
  ASSUME NEW w \in Seq(Symbols), Len(w) >= 1, NEW t \in Unary
  PROVE  LET k == Tok(IF t = "INV" THEN "-" ELSE "*")
             x == <<k>> \o w
         IN  /\ <<k>> \in Seq(Symbols)
             /\ x \in Seq(Symbols) /\ Len(x) >= 1 /\ x[1].type \in {"*", "-"}
<1> DEFINE k == Tok(IF t = "INV" THEN "-" ELSE "*")
           o == <<k>>
           x == o \o w
<1>1. o \in Seq(Symbols) /\ Len(o) = 1 /\ o[1] = k /\ k.type \in {"*", "-"} /\ Len(w) \in Nat
  <2>1. (IF t = "INV" THEN "-" ELSE "*") \in Binary
    BY DEF Binary
  <2>2. QED BY <2>1, SymbolsAre
<1>2. x \in Seq(Symbols) /\ Len(x) = Len(o) + Len(w) /\ x[1] = o[1]
  <2>1. Len(o) >= 1
    BY <1>1
  <2> HIDE DEF o
  <2>2. QED BY <1>1, <2>1, FirstOfJoin, Zenon
<1>3. Len(x) >= 1
  <2> HIDE DEF x, o
  <2>1. QED BY <1>1, <1>2
<1>4. x[1].type \in {"*", "-"}
  <2> HIDE DEF x, o, k
  <2>1. QED BY <1>1, <1>2
<1>5. QED BY <1>1, <1>2, <1>3, <1>4

\* A sign or star before another, or before parentheses with such a pair.
LEMMA PrefixBad ==
  ASSUME NEW w \in Seq(Symbols), Len(w) >= 1, NEW t \in Unary,
         w[1].type \in {"*", "-"} \/ (Bad(w) /\ w[1].type = "(")
  PROVE  Bad(<<Tok(IF t = "INV" THEN "-" ELSE "*")>> \o w)
<1> DEFINE k == Tok(IF t = "INV" THEN "-" ELSE "*")
           o == <<k>>
           x == o \o w
<1>1. o \in Seq(Symbols) /\ x \in Seq(Symbols) /\ Len(x) >= 1
  BY PrefixText, Zenon
<1>2. Len(o) = 1 /\ Len(w) \in Nat
  OBVIOUS
<1>3. ASSUME NEW ts, NEW l, NEW f, NEW r, NEW C, NEW g, Context(ts, l, f, r, C, g),
             NEW p, NEW q, Placed(x, ts, p, q), q <= l, Starts(ts[p], f[p - 1])
      PROVE  Stuck(r, p, q)
  <2>1. PICK m : m = (p - 1) + Len(o)
    OBVIOUS
  <2>2. Placed(o, ts, p, m) /\ Placed(w, ts, m + 1, q)
    <3> HIDE DEF o
    <3>1. QED BY <1>1, <1>3, <2>1, PlacedJoin
  <2>3. p \in Nat \ {0} /\ m = p /\ ts[p] = k
    BY <2>2, PlacedOne
  <2>4. Placed(w, ts, p + 1, q) /\ q = p + Len(w) /\ ts[p + 1] = w[1]
    <3>1. Placed(w, ts, p + 1, q)
      BY <2>2, <2>3
    <3>2. q = ((p + 1) - 1) + Len(w) /\ ts[((p + 1) - 1) + 1] = w[1]
      BY <1>2, <3>1 DEF Placed
    <3>3. ((p + 1) - 1) + 1 = p + 1 /\ (p + 1) - 1 = p
      BY <2>3
    <3>4. QED BY <3>1, <3>2, <3>3
  <2>5. /\ l \in Nat
        /\ \A i \in 1..l : r[i] = f[i] /\ f[i] = Marked(ts[i], f[i - 1])
    BY <1>3, ContextIs
  <2>6. p \in 1..l /\ p + 1 \in 1..l /\ p \in p..(q - 1) /\ q \in Int /\ (p + 1) - 1 = p
    BY <1>2, <1>3, <2>3, <2>4, <2>5
  <2>7. CASE w[1].type \in {"*", "-"}
    <3>1. r[p] = Tok(t) /\ f[p] = Tok(t)
      <4>1. f[p] = Marked(k, f[p - 1]) /\ Starts(k, f[p - 1]) /\ r[p] = f[p]
        BY <1>3, <2>3, <2>5, <2>6
      <4>2. QED BY <4>1, MarkedPrefix
    <3>2. r[p].type = t /\ ~is_operator(f[p].type) /\ f[p].type # "("
      <4>1. f[p].type = t
        BY <3>1, SymbolsAre
      <4>2. QED BY <3>1, <4>1 DEF is_operator, Unary
    <3>3. r[p + 1] = Marked(w[1], f[p])
      BY <2>4, <2>5, <2>6
    <3>4. Marked(w[1], f[p]) = w[1]
      BY <3>2 DEF Marked
    <3>5. QED BY <2>6, <2>7, <3>2, <3>3, <3>4 DEF Stuck
  <2>8. CASE Bad(w) /\ w[1].type = "("
    <3>1. Starts(ts[p + 1], f[(p + 1) - 1])
      BY <2>4, <2>8 DEF Starts
    <3>2. Stumbles(w, ts, l, f, r)
      BY <1>3, <2>8 DEF Bad
    <3>3. Stuck(r, p + 1, q)
      BY <1>3, <2>4, <3>1, <3>2 DEF Stumbles
    <3>4. p <= p + 1 /\ q <= q /\ p \in Int /\ p + 1 \in Int
      BY <2>3, <2>6
    <3>5. QED BY <2>6, <3>3, <3>4, StuckInside
  <2>9. QED BY <2>7, <2>8
<1> HIDE DEF x
<1>4. Bad(x)
  BY <1>1, <1>3 DEF Bad, Stumbles
<1>5. QED BY <1>4 DEF x

LEMMA InfixText ==
  ASSUME NEW v \in Seq(Symbols), Len(v) >= 1, NEW w \in Seq(Symbols), Len(w) >= 1,
         NEW t \in Binary
  PROVE  LET o == <<Tok(t)>>
         IN  /\ o \in Seq(Symbols) /\ Len(o) = 1
             /\ v \o o \in Seq(Symbols) /\ Len(v \o o) = Len(v) + 1
             /\ v \o o \o w \in Seq(Symbols) /\ Len(v \o o \o w) >= 1
<1> DEFINE o == <<Tok(t)>>
           u == v \o o
           x == u \o w
<1>1. o \in Seq(Symbols) /\ Len(o) = 1 /\ Len(v) \in Nat /\ Len(w) \in Nat
  <2>1. o \in Seq(Symbols)
    BY SymbolsAre, Zenon
  <2>2. QED BY <2>1
<1>2. u \in Seq(Symbols) /\ Len(u) = Len(v) + Len(o)
  <2> HIDE DEF o
  <2>1. QED BY <1>1, FirstOfJoin, Zenon
<1>3. Len(u) >= 1 /\ Len(u) = Len(v) + 1
  <2> HIDE DEF u, o
  <2>1. QED BY <1>1, <1>2
<1>4. x \in Seq(Symbols) /\ Len(x) = Len(u) + Len(w)
  <2> HIDE DEF u
  <2>1. QED BY <1>2, <1>3, FirstOfJoin, Zenon
<1>5. Len(x) >= 1
  <2> HIDE DEF x, u
  <2>1. QED BY <1>1, <1>3, <1>4
<1>6. QED BY <1>1, <1>2, <1>3, <1>4, <1>5

\* Two signs or stars in a row in an operand.
LEMMA InfixBad ==
  ASSUME NEW v \in Seq(Symbols), Len(v) >= 1, NEW w \in Seq(Symbols), Len(w) >= 1,
         NEW t \in Binary, NEW a, NEW lm, Bad(v) \/ (Good(v, a, lm) /\ Bad(w))
  PROVE  Bad(v \o <<Tok(t)>> \o w)
<1> DEFINE o == <<Tok(t)>>
           u == v \o o
           x == u \o w
<1>1. /\ o \in Seq(Symbols) /\ Len(o) = 1
      /\ u \in Seq(Symbols) /\ Len(u) = Len(v) + 1
      /\ x \in Seq(Symbols) /\ Len(x) >= 1
  BY InfixText, Zenon
<1>2. ASSUME NEW ts, NEW l, NEW f, NEW r, NEW C, NEW g, Context(ts, l, f, r, C, g),
             NEW p, NEW q, Placed(x, ts, p, q), q <= l, Starts(ts[p], f[p - 1])
      PROVE  Stuck(r, p, q)
  <2>1. PICK m : m = (p - 1) + Len(u)
    OBVIOUS
  <2>2. Placed(u, ts, p, m) /\ Placed(w, ts, m + 1, q)
    <3> HIDE DEF u
    <3>1. QED BY <1>1, <1>2, <2>1, PlacedJoin
  <2>3. PICK n : n = (p - 1) + Len(v)
    OBVIOUS
  <2>4. Placed(v, ts, p, n) /\ Placed(o, ts, n + 1, m)
    <3> HIDE DEF o
    <3>1. QED BY <1>1, <2>2, <2>3, PlacedJoin
  <2>5. n + 1 \in Nat \ {0} /\ m = n + 1 /\ ts[m] = Tok(t)
    BY <2>4, PlacedOne
  <2>6. /\ l \in Nat
        /\ \A i \in 1..l : r[i] = f[i] /\ f[i] = Marked(ts[i], f[i - 1])
    BY <1>2, ContextIs
  <2>7. p \in Nat \ {0} /\ q = m + Len(w)
    <3>1. p \in Nat \ {0} /\ q = ((m + 1) - 1) + Len(w)
      BY <2>2 DEF Placed
    <3>2. m \in Int
      BY <2>5
    <3>3. QED BY <3>1, <3>2
  <2>8. /\ p \in Int /\ q \in Int /\ n \in Int /\ m + 1 \in Int /\ p <= m + 1 /\ n <= q
        /\ p <= p /\ q <= q
        /\ n <= l /\ n \in 1..l /\ m \in 1..l /\ (m + 1) - 1 = m /\ n = m - 1
    <3>1. PICK c \in Nat, d \in Nat : c = Len(v) /\ d = Len(w) /\ c >= 1 /\ d >= 1
      OBVIOUS
    <3>2. l \in Nat /\ p \in Nat \ {0} /\ n = (p - 1) + c /\ m = n + 1 /\ q = m + d /\ q <= l
      BY <1>2, <2>3, <2>5, <2>6, <2>7, <3>1
    <3>3. QED BY <3>1, <3>2
  <2>9. CASE Bad(v)
    <3>1. Stumbles(v, ts, l, f, r)
      BY <1>2, <2>9 DEF Bad
    <3>2. Stuck(r, p, n)
      BY <1>2, <2>4, <2>8, <3>1 DEF Stumbles
    <3>3. QED BY <2>8, <3>2, StuckInside
  <2>10. CASE Good(v, a, lm) /\ Bad(w)
    <3>1. Evaluates(v, a, lm, ts, l, f, r, C, g)
      BY <1>2, <2>10 DEF Good
    <3>2. Region(r, C, p, n, a)
      BY <1>2, <2>4, <2>8, <3>1 DEF Evaluates
    <3>3. Ends(f[n])
      BY <2>6, <2>8, <3>2 DEF Region
    <3>4. f[m] = Tok(t)
      <4>1. f[m] = Marked(Tok(t), f[n])
        BY <2>5, <2>6, <2>8
      <4>2. QED BY <3>3, <4>1, MarkedInfix
    <3>5. Starts(ts[m + 1], f[(m + 1) - 1])
      <4>1. is_operator(f[m].type)
        BY <3>4, LevelIsHierarchy, SymbolsAre
      <4>2. QED BY <2>8, <4>1 DEF Starts
    <3>6. Stumbles(w, ts, l, f, r)
      BY <1>2, <2>10 DEF Bad
    <3>7. Stuck(r, m + 1, q)
      BY <1>2, <2>2, <3>5, <3>6 DEF Stumbles
    <3>8. QED BY <2>8, <3>7, StuckInside
  <2>11. QED BY <2>9, <2>10
<1> HIDE DEF x
<1>3. Bad(x)
  BY <1>1, <1>2 DEF Bad, Stumbles
<1>4. QED BY <1>3 DEF x

\* Where nothing is left out in C either, the two meanings are the same value.
Known(strict, mean) ==
  strict.s = "ok" => mean = strict /\ strict = Value(strict.v)

LEMMA KnownStep ==
  ASSUME NEW t, op_hirc(t) > 0, NEW ls, NEW l, NEW rs, NEW r, Known(ls, l), Known(rs, r)
  PROVE  Known(Strict(t, ls, rs), Meaning(t, l, r))
<1> SUFFICES ASSUME Strict(t, ls, rs).s = "ok"
             PROVE  /\ Meaning(t, l, r) = Strict(t, ls, rs)
                    /\ Strict(t, ls, rs) = Value(Strict(t, ls, rs).v)
  BY DEF Known
<1>1. ls.s = "ok" /\ rs.s = "ok"
  BY DEF Strict
<1>2. l = ls /\ r = rs
  BY <1>1 DEF Known
<1>3. Strict(t, ls, rs) = Apply(t, ls.v, rs.v)
  BY <1>1 DEF Strict
<1>4. PICK a, b, m : a = ls.v /\ b = rs.v /\ m = Apply(t, a, b)
  OBVIOUS
<1>5. m.s = "ok"
  BY <1>3, <1>4
<1>6. \E v : m = Value(v)
  <2>1. t \in {"INV", "DEREF", "*", "/", "+", "-", "==", "!=", "&&"}
    BY DEF op_hirc
  <2>2. Panic.s # "ok" /\ Failed.s # "ok"
    BY DEF Panic, Failed
  <2>3. Divide(a, b) = Panic \/ \E v : Divide(a, b) = Value(v)
    BY DEF Divide
  <2>4. m = Panic \/ m = Failed \/ \E v : m = Value(v)
    <3>1. CASE t = "/"
      BY <1>4, <2>3, <3>1 DEF Apply
    <3>2. CASE t = "DEREF"
      BY <1>4, <3>2 DEF Apply
    <3>3. CASE t \notin {"/", "DEREF"}
      BY <1>4, <2>1, <3>3 DEF Apply
    <3>4. QED BY <3>1, <3>2, <3>3
  <2>5. QED BY <1>5, <2>2, <2>4
<1>7. m = Value(m.v)
  <2>1. \A v : Value(v).v = v
    BY DEF Value
  <2>2. QED BY <1>6, <2>1
<1>8. CASE t = "&&" /\ l = Value(0)
  <2>1. a = 0
    BY <1>2, <1>4, <1>8 DEF Value
  <2>2. m = Value(Bool(a # 0 /\ b # 0))
    BY <1>4, <1>8 DEF Apply
  <2>3. Bool(a # 0 /\ b # 0) = 0
    BY <2>1 DEF Bool
  <2>4. Meaning(t, l, r) = Value(0)
    BY <1>8 DEF Meaning
  <2>5. QED BY <1>3, <1>4, <1>7, <2>2, <2>3, <2>4
<1>9. CASE ~(t = "&&" /\ l = Value(0))
  <2>1. Meaning(t, l, r) = Strict(t, ls, rs)
    BY <1>2, <1>9 DEF Meaning
  <2>2. QED BY <1>3, <1>4, <1>7, <2>1
<1>10. QED BY <1>8, <1>9

\* An expression as it is built.
GoodExpr(x) ==
  /\ x.level \in 0..5 /\ x.doubled \in BOOLEAN
  /\ x.text \in Seq(Symbols) /\ Len(x.text) >= 1
  /\ x.level = 1 => x.text[1].type \in {"*", "-"}
  /\ x.level = 0 => ~x.doubled
  /\ Known(x.strict, x.mean)
  /\ IF x.doubled THEN Bad(x.text) ELSE Good(x.text, x.level, x.strict)

LEMMA LeafStep ==
  ASSUME NEW v \in Leaves
  PROVE  GoodExpr(Leaf(v))
<1>1. PICK x : x = Leaf(v)
  OBVIOUS
<1>2. /\ x.text = <<Num(v)>> /\ x.level = 0 /\ x.mean = Value(v) /\ x.strict = Value(v)
      /\ x.doubled = FALSE
  BY <1>1 DEF Leaf
<1>3. Good(x.text, x.level, x.strict)
  BY <1>2, LeafGood
<1>4. x.text \in Seq(Symbols) /\ Len(x.text) >= 1
  BY <1>3 DEF Good
<1>5. Known(x.strict, x.mean)
  BY <1>2 DEF Known, Value
<1>6. x.level \in 0..5 /\ x.level # 1
  BY <1>2
<1>7. x.doubled \in BOOLEAN /\ ~x.doubled
  BY <1>2, Zenon
<1>8. GoodExpr(x)
  BY <1>3, <1>4, <1>5, <1>6, <1>7, Zenon DEF GoodExpr
<1>9. QED BY <1>1, <1>8

\* Parentheses around an expression, or none.
LEMMA Enclosed ==
  ASSUME NEW x, GoodExpr(x), NEW need, NEW k,
         (need /\ k = 0) \/ (~need /\ k = x.level)
  PROVE  LET w == Paren(need, x.text)
         IN  /\ w \in Seq(Symbols) /\ Len(w) >= 1
             /\ need => w[1].type = "("
             /\ IF x.doubled THEN Bad(w) ELSE Good(w, k, x.strict)
<1>0. PICK w : w = Paren(need, x.text)
  OBVIOUS
<1>1. x.text \in Seq(Symbols) /\ Len(x.text) >= 1
  BY DEF GoodExpr
<1>2. IF x.doubled THEN Bad(x.text) ELSE Good(x.text, x.level, x.strict)
  BY DEF GoodExpr
<1>3. CASE need
  <2>1. w = <<Tok("(")>> \o x.text \o <<Tok(")")>>
    BY <1>0, <1>3 DEF Paren
  <2>2. w \in Seq(Symbols) /\ Len(w) >= 1 /\ w[1].type = "("
    BY <1>1, <2>1, ParenText, Zenon
  <2>3. x.doubled => Bad(w)
    BY <1>2, <2>1, ParenBad, Zenon
  <2>4. ~x.doubled => Good(w, 0, x.strict)
    BY <1>2, <2>1, ParenGood, Zenon
  <2>5. k = 0
    BY <1>3
  <2>6. QED BY <1>0, <2>2, <2>3, <2>4, <2>5, Zenon
<1>4. CASE ~need
  <2>1. w = x.text /\ k = x.level
    BY <1>0, <1>4 DEF Paren
  <2>2. QED BY <1>0, <1>1, <1>2, <1>4, <2>1, Zenon
<1>5. QED BY <1>3, <1>4

LEMMA PrefixStep ==
  ASSUME NEW x, GoodExpr(x), NEW t \in Unary
  PROVE  GoodExpr(Prefix(t, x))
<1>1. PICK h \in 0..5 : h = x.level
  BY DEF GoodExpr
<1>2. /\ x.doubled \in BOOLEAN /\ Known(x.strict, x.mean) /\ (h = 0 => ~x.doubled)
      /\ (h = 1 => x.text[1].type \in {"*", "-"})
  BY <1>1 DEF GoodExpr
<1>3. PICK k \in 0..5 : (h > 1 /\ k = 0) \/ (~(h > 1) /\ k = h)
  OBVIOUS
<1>4. (h > 1 /\ k = 0) \/ (~(h > 1) /\ k = x.level)
  BY <1>1, <1>3
<1>5. PICK w : w = Paren(h > 1, x.text)
  OBVIOUS
<1>6. /\ w \in Seq(Symbols) /\ Len(w) >= 1 /\ (h > 1 => w[1].type = "(")
      /\ IF x.doubled THEN Bad(w) ELSE Good(w, k, x.strict)
  BY <1>4, <1>5, Enclosed, Zenon
<1>7. PICK y : y = Prefix(t, x)
  OBVIOUS
<1>8. /\ y.text = <<Tok(IF t = "INV" THEN "-" ELSE "*")>> \o w /\ y.level = 1
      /\ y.mean = Meaning(t, Value(0), x.mean)
      /\ y.strict = Strict(t, Value(0), x.strict)
      /\ y.doubled = (x.doubled \/ x.level = 1)
  <2>1. w = Paren(x.level > 1, x.text)
    BY <1>1, <1>5, Zenon
  <2>2. QED BY <1>7, <2>1 DEF Prefix
<1>9. y.text \in Seq(Symbols) /\ Len(y.text) >= 1 /\ y.text[1].type \in {"*", "-"}
  BY <1>6, <1>8, PrefixText, Zenon
<1>10. Known(y.strict, y.mean)
  <2>1. op_hirc(t) > 0
    BY DEF op_hirc, Unary
  <2>2. Known(Value(0), Value(0))
    BY DEF Known, Value
  <2>3. QED BY <1>2, <1>8, <2>1, <2>2, KnownStep, Zenon
<1>11. h = 1 => w[1].type \in {"*", "-"}
  <2>1. h = 1 => ~(h > 1)
    OBVIOUS
  <2>2. ~(h > 1) => w = x.text
    BY <1>5 DEF Paren
  <2>3. QED BY <1>2, <2>1, <2>2
<1>12. CASE x.doubled \/ h = 1
  <2>1. w[1].type \in {"*", "-"} \/ (Bad(w) /\ w[1].type = "(")
    <3>1. CASE h = 1
      BY <1>11, <3>1
    <3>2. CASE x.doubled /\ h # 1
      <4>1. h > 1
        BY <1>2, <3>2
      <4>2. QED BY <1>6, <3>2, <4>1
    <3>3. QED BY <1>12, <3>1, <3>2
  <2>2. Bad(y.text)
    BY <1>6, <1>8, <2>1, PrefixBad, Zenon
  <2>3. y.doubled = TRUE
    BY <1>1, <1>8, <1>12, Zenon
  <2>4. GoodExpr(y)
    BY <1>8, <1>9, <1>10, <2>2, <2>3 DEF GoodExpr
  <2>5. QED BY <1>7, <2>4
<1>13. CASE ~(x.doubled \/ h = 1)
  <2>1. k = 0
    BY <1>3, <1>13
  <2>2. Good(w, 0, x.strict)
    BY <1>6, <1>13, <2>1
  <2>3. Good(y.text, y.level, y.strict)
    BY <1>8, <2>2, PrefixGood, Zenon
  <2>4. y.doubled = FALSE
    BY <1>1, <1>8, <1>13, Zenon
  <2>5. GoodExpr(y)
    BY <1>8, <1>9, <1>10, <2>3, <2>4 DEF GoodExpr
  <2>6. QED BY <1>7, <2>5
<1>14. QED BY <1>12, <1>13

LEMMA InfixStep ==
  ASSUME NEW x, GoodExpr(x), NEW y, GoodExpr(y), NEW t \in Binary
  PROVE  GoodExpr(Infix(t, x, y))
<1>1. PICK a \in 0..5, b \in 0..5 : a = x.level /\ b = y.level
  BY DEF GoodExpr
<1>2. /\ x.doubled \in BOOLEAN /\ y.doubled \in BOOLEAN
      /\ Known(x.strict, x.mean) /\ Known(y.strict, y.mean)
  BY DEF GoodExpr
<1>3. PICK h \in 2..5 : h = Level(t) /\ op_hirc(t) = h
  BY LevelIsHierarchy
<1>4. PICK c \in 0..5 : c <= h /\ ((a > h /\ c = 0) \/ (~(a > h) /\ c = a))
  OBVIOUS
<1>5. PICK d \in 0..5 : d < h /\ ((b >= h /\ d = 0) \/ (~(b >= h) /\ d = b))
  OBVIOUS
<1>6. /\ (a > h /\ c = 0) \/ (~(a > h) /\ c = x.level)
      /\ (b >= h /\ d = 0) \/ (~(b >= h) /\ d = y.level)
  BY <1>1, <1>4, <1>5
<1>7. PICK v, w : v = Paren(a > h, x.text) /\ w = Paren(b >= h, y.text)
  OBVIOUS
<1>8. /\ v \in Seq(Symbols) /\ Len(v) >= 1
      /\ IF x.doubled THEN Bad(v) ELSE Good(v, c, x.strict)
  BY <1>6, <1>7, Enclosed, Zenon
<1>9. /\ w \in Seq(Symbols) /\ Len(w) >= 1
      /\ IF y.doubled THEN Bad(w) ELSE Good(w, d, y.strict)
  BY <1>6, <1>7, Enclosed, Zenon
<1>10. PICK z : z = Infix(t, x, y)
  OBVIOUS
<1>11. /\ z.text = v \o <<Tok(t)>> \o w /\ z.level = Level(t)
       /\ z.mean = Meaning(t, x.mean, y.mean) /\ z.strict = Strict(t, x.strict, y.strict)
       /\ z.doubled = (x.doubled \/ y.doubled)
  <2>1. v = Paren(x.level > Level(t), x.text) /\ w = Paren(y.level >= Level(t), y.text)
    BY <1>1, <1>3, <1>7, Zenon
  <2>2. QED BY <1>10, <2>1 DEF Infix
<1>12. z.text \in Seq(Symbols) /\ Len(z.text) >= 1
  BY <1>8, <1>9, <1>11, InfixText, Zenon
<1>13. z.level \in 0..5 /\ z.level # 1 /\ z.level # 0
  BY <1>3, <1>11
<1>14. Known(z.strict, z.mean)
  <2>1. op_hirc(t) > 0
    BY <1>3
  <2>2. QED BY <1>2, <1>11, <2>1, KnownStep, Zenon
<1>15. CASE x.doubled \/ y.doubled
  <2>1. Bad(v) \/ (Good(v, c, x.strict) /\ Bad(w))
    BY <1>2, <1>8, <1>9, <1>15, Zenon
  <2>2. Bad(z.text)
    BY <1>8, <1>9, <1>11, <2>1, InfixBad, Zenon
  <2>3. z.doubled = TRUE
    BY <1>11, <1>15, Zenon
  <2>4. GoodExpr(z)
    BY <1>12, <1>13, <1>14, <2>2, <2>3 DEF GoodExpr
  <2>5. QED BY <1>10, <2>4
<1>16. CASE ~(x.doubled \/ y.doubled)
  <2>1. Good(v, c, x.strict) /\ Good(w, d, y.strict)
    BY <1>8, <1>9, <1>16, Zenon
  <2>2. c <= Level(t) /\ d < Level(t)
    BY <1>3, <1>4, <1>5
  <2>3. Good(z.text, z.level, z.strict)
    BY <1>11, <2>1, <2>2, InfixGood, Zenon
  <2>4. z.doubled = FALSE
    BY <1>11, <1>16, Zenon
  <2>5. GoodExpr(z)
    BY <1>12, <1>13, <1>14, <2>3, <2>4 DEF GoodExpr
  <2>6. QED BY <1>10, <2>5
<1>17. QED BY <1>15, <1>16

\* The pass, the counts and the levels of a string.
LEMMA ContextOf ==
  ASSUME NEW ts, NEW l \in Nat, l = Len(ts), l >= 1
  PROVE  \E f, r, C, g :
           /\ Context(ts, l, f, r, C, g) /\ Len(r) = l
           /\ Placed(ts, ts, 1, l) /\ Starts(ts[1], f[1 - 1])
           /\ expr(ts) = eval(r, 1, l, "ok") /\ expr(ts) = g[l + 1][<<1, l, "ok">>]
<1>2. PICK f : Rewritten(f, ts, l)
  BY RewrittenExists
<1>3. PICK r : r = Rewrite(ts)
  OBVIOUS
<1>4. r = [i \in 1..l |-> f[i]]
  BY <1>2, <1>3, RewriteIs
<1>5. Len(r) = l
  BY <1>4
<1>6. PICK C : Counts(C, r, l)
  BY CountsExist
<1>7. PICK g : Levels(g, r, l + 1) /\ eval(r, 1, l, "ok") = g[l + 1][<<1, l, "ok">>]
  BY <1>5, EvalLevels
<1>8. Context(ts, l, f, r, C, g)
  BY <1>2, <1>4, <1>6, <1>7 DEF Context
<1>10. Placed(ts, ts, 1, l)
  BY DEF Placed
<1>11. Starts(ts[1], f[1 - 1])
  <2>1. f[1 - 1] = Tok("(")
    BY <1>2 DEF Rewritten
  <2>2. QED BY <2>1, SymbolsAre DEF Starts
<1>12. expr(ts) = eval(r, 1, l, "ok")
  BY <1>3, Zenon DEF expr
<1>13. QED BY <1>5, <1>7, <1>8, <1>10, <1>11, <1>12, Zenon

\* What stumbles has no value.
LEMMA BadFails ==
  ASSUME NEW ts, Bad(ts)
  PROVE  expr(ts).s # "ok"
<1>1. PICK l \in Nat : l = Len(ts) /\ l >= 1
  BY DEF Bad
<1>2. PICK f, r, C, g :
        /\ Context(ts, l, f, r, C, g) /\ Len(r) = l
        /\ Placed(ts, ts, 1, l) /\ Starts(ts[1], f[1 - 1])
        /\ expr(ts) = eval(r, 1, l, "ok")
  BY <1>1, ContextOf, Zenon
<1>3. Stumbles(ts, ts, l, f, r)
  BY <1>2 DEF Bad
<1>4. Stuck(r, 1, l)
  <2>1. l <= l
    OBVIOUS
  <2>2. QED BY <1>2, <1>3, <2>1 DEF Stumbles
<1>5. PICK i \in 1..(l - 1) : r[i].type \in Unary /\ r[i + 1].type \in {"*", "-"}
  BY <1>4 DEF Stuck
<1>6. Counts(C, r, l)
  BY <1>2 DEF Context
<1>7. ASSUME expr(ts).s = "ok" PROVE FALSE
  <2>1. Expression(r, C, 1, l)
    BY <1>2, <1>6, <1>7, EvalSound
  <2>2. Adjacent(r[i], r[i + 1])
    BY <2>1 DEF Expression
  <2>3. op_hirc(r[i + 1].type) <= 1
    BY <1>5, <2>2 DEF Adjacent
  <2>4. QED BY <1>5, <2>3 DEF op_hirc
<1>8. QED BY <1>7

LEMMA GoodEvaluates ==
  ASSUME NEW ts, NEW h, NEW mean, Good(ts, h, mean)
  PROVE  /\ expr(ts).s = "ok" <=> mean.s = "ok"
         /\ expr(ts).s = "ok" => expr(ts).v = mean.v
<1>1. PICK l \in Nat : l = Len(ts) /\ l >= 1
  BY DEF Good
<1>2. PICK f, r, C, g :
        /\ Context(ts, l, f, r, C, g) /\ Len(r) = l
        /\ Placed(ts, ts, 1, l) /\ Starts(ts[1], f[1 - 1])
        /\ expr(ts) = eval(r, 1, l, "ok") /\ expr(ts) = g[l + 1][<<1, l, "ok">>]
  BY <1>1, ContextOf, Zenon
<1>3. Evaluates(ts, h, mean, ts, l, f, r, C, g)
  BY <1>2 DEF Good
<1>4. Agree(g, r, 1, l, mean)
  <2>1. l <= l
    OBVIOUS
  <2>2. QED BY <1>2, <1>3, <2>1 DEF Evaluates
<1>5. PICK e : e = g[l + 1][<<1, l, "ok">>]
  OBVIOUS
<1>6. (e.s = "ok" <=> mean.s = "ok") /\ (e.s = "ok" => e.v = mean.v)
  <2>1. PICK n : n = l + 1
    OBVIOUS
  <2>2. n \in 1..(Len(r) + 1) /\ (l + 1) - 1 < n
    BY <1>2, <2>1
  <2>3. e = g[n][<<1, l, "ok">>]
    BY <1>5, <2>1
  <2>4. QED BY <1>4, <2>2, <2>3 DEF Agree
<1>7. QED BY <1>2, <1>5, <1>6

\* What EvaluatesTree says of an expression.
LEMMA TreeIsEvaluated ==
  ASSUME NEW x, GoodExpr(x)
  PROVE  /\ expr(x.text).s = "ok" <=> x.strict.s = "ok" /\ ~x.doubled
         /\ expr(x.text).s = "ok" => x.mean = Value(expr(x.text).v)
<1>1. x.doubled \in BOOLEAN /\ Known(x.strict, x.mean)
  BY DEF GoodExpr
<1>2. CASE x.doubled
  <2>1. Bad(x.text)
    BY <1>2 DEF GoodExpr
  <2>2. QED BY <1>2, <2>1, BadFails
<1>3. CASE ~x.doubled
  <2>1. Good(x.text, x.level, x.strict)
    BY <1>3 DEF GoodExpr
  <2>2. PICK e : e = expr(x.text)
    OBVIOUS
  <2>3. (e.s = "ok" <=> x.strict.s = "ok") /\ (e.s = "ok" => e.v = x.strict.v)
    BY <2>1, <2>2, GoodEvaluates
  <2>4. QED BY <1>1, <1>3, <2>2, <2>3 DEF Known
<1>4. QED BY <1>2, <1>3

\* What has been built is a sequence of good expressions.
BuiltInv ==
  /\ \E S : built \in Seq(S)
  /\ \A i \in 1..Len(built) : GoodExpr(built[i])

LEMMA SeqOfMore ==
  ASSUME NEW S, NEW T, S \subseteq T, NEW s \in Seq(S)
  PROVE  s \in Seq(T)
OBVIOUS

LEMMA BuiltStep ==
  ASSUME BuiltInv, Build
  PROVE  BuiltInv'
<1>1. PICK S : built \in Seq(S)
  BY DEF BuiltInv
<1>2. PICK n \in Nat : n = Len(built)
  BY <1>1
<1>3. \A i \in 1..n : GoodExpr(built[i])
  BY <1>2 DEF BuiltInv
<1>4. ASSUME NEW x, GoodExpr(x), NEW s \in Seq(S), built' = Append(s, x),
             \A i \in 1..Len(s) : GoodExpr(s[i])
      PROVE  BuiltInv'
  <2>1. PICK T : T = S \cup {x}
    OBVIOUS
  <2>2. s \in Seq(T) /\ x \in T
    BY <2>1, SeqOfMore
  <2>3. built' \in Seq(T) /\ Len(built') = Len(s) + 1 /\ Len(s) \in Nat
        /\ \A i \in 1..(Len(s) + 1) : built'[i] = IF i = Len(s) + 1 THEN x ELSE s[i]
    BY <1>4, <2>2
  <2>4. ASSUME NEW i \in 1..Len(built') PROVE GoodExpr(built'[i])
    <3>1. CASE i = Len(s) + 1
      BY <1>4, <2>3, <3>1
    <3>2. CASE i # Len(s) + 1
      <4>1. i \in 1..Len(s) /\ built'[i] = s[i]
        BY <2>3, <3>2
      <4>2. QED BY <1>4, <4>1
    <3>3. QED BY <3>1, <3>2
  <2>5. QED BY <2>3, <2>4 DEF BuiltInv, GoodExpr
<1>5. CASE \E v \in Leaves : PutNumber(v)
  <2>1. PICK v \in Leaves : PutNumber(v)
    BY <1>5
  <2>2. built' = Append(built, Leaf(v)) /\ GoodExpr(Leaf(v))
    BY <2>1, LeafStep DEF PutNumber
  <2>3. QED BY <1>1, <1>2, <1>3, <1>4, <2>2
<1>6. CASE \E t \in Unary : PutPrefix(t)
  <2>1. PICK t \in Unary : PutPrefix(t)
    BY <1>6
  <2>2. PICK x : x = Prefix(t, built[n])
    OBVIOUS
  <2>3. n > 0 /\ built' = [built EXCEPT ![n] = x]
    BY <1>2, <2>1, <2>2 DEF PutPrefix
  <2>4. GoodExpr(x)
    BY <1>3, <2>2, <2>3, PrefixStep
  <2>5. PICK T : T = S \cup {x}
    OBVIOUS
  <2>6. built \in Seq(T) /\ x \in T
    BY <1>1, <2>5, SeqOfMore
  <2>7. built' \in Seq(T) /\ Len(built') = n
        /\ \A i \in 1..n : built'[i] = IF i = n THEN x ELSE built[i]
    BY <1>2, <2>3, <2>6
  <2>8. \A i \in 1..n : GoodExpr(built'[i])
    BY <1>3, <2>4, <2>7
  <2>9. QED BY <2>7, <2>8 DEF BuiltInv, GoodExpr
<1>7. CASE \E t \in Binary : PutInfix(t)
  <2>1. PICK t \in Binary : PutInfix(t)
    BY <1>7
  <2>2. PICK x, s : x = Infix(t, built[n - 1], built[n]) /\ s = SubSeq(built, 1, n - 2)
    OBVIOUS
  <2>3. n > 1 /\ built' = Append(s, x)
    BY <1>2, <2>1, <2>2 DEF PutInfix
  <2>4. GoodExpr(x)
    <3>1. GoodExpr(built[n - 1]) /\ GoodExpr(built[n])
      BY <1>3, <2>3
    <3>2. QED BY <2>2, <3>1, InfixStep
  <2>5. s \in Seq(S) /\ Len(s) = n - 2 /\ \A i \in 1..(n - 2) : s[i] = built[i]
    BY <1>1, <1>2, <2>2, <2>3
  <2>6. \A i \in 1..Len(s) : GoodExpr(s[i])
    BY <1>3, <2>5
  <2>7. QED BY <1>4, <2>3, <2>4, <2>5, <2>6
<1>8. QED BY <1>5, <1>6, <1>7 DEF Build

(* An expression written as in C, of any length: a value expr gives is the *)
(* one it has in C, for the main operator eval finds (expr.c:244) is the   *)
(* last of the loosest, signs and stars are told from operators            *)
(* (expr.c:337), and the parentheses that are there are the ones that      *)
(* count.  expr gives one unless some operand has none, be it one C does   *)
(* not evaluate, or a sign or star follows another.                        *)
THEOREM ExpressionsAreEvaluated == TreeSpec => []EvaluatesTree
<1>1. TreeInit => BuiltInv
  <2> SUFFICES ASSUME TreeInit PROVE BuiltInv
    OBVIOUS
  <2>1. built = << >>
    BY DEF TreeInit
  <2>2. built \in Seq({}) /\ \A i \in 1..Len(built) : FALSE
    BY <2>1
  <2>3. QED BY <2>2 DEF BuiltInv
<1>2. BuiltInv /\ [Build]_treeVars => BuiltInv'
  <2>1. ASSUME BuiltInv, UNCHANGED treeVars PROVE BuiltInv'
    BY <2>1 DEF BuiltInv, GoodExpr, treeVars
  <2>2. QED BY <2>1, BuiltStep
<1>3. BuiltInv => EvaluatesTree
  BY TreeIsEvaluated DEF BuiltInv, EvaluatesTree
<1>4. QED BY <1>1, <1>2, <1>3, PTL DEF TreeSpec
=============================================================================
