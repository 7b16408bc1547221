------------------------------- MODULE Trace -------------------------------
(***************************************************************************)
(* The traces of the simulator: the ring of the last instructions          *)
(* (iringbuf of core/csrc/cpu/cpu-exec.cpp) and the trace of calls and     *)
(* returns (core/csrc/monitor/sdb/ftrace.cpp), fed by a program whose      *)
(* calls and returns match.  Both rings are printed when the simulator     *)
(* stops.  exec_once sets pc and inst of its Decode and never dnpc, so the *)
(* target ftrace_rcd looks at is whatever the stack held.                  *)
(***************************************************************************)
EXTENDS Naturals, Sequences

CONSTANTS
  IRING_SIZE, FRING_SIZE,
  Funcs,              \* functions with a symbol of the ELF file
  Bare,               \* code without one
  MaxDepth,           \* bound on the program's call depth and on stack_ptr
  Labels              \* what tells the records of the rings apart

ASSUME TraceAssumption ==
  /\ IRING_SIZE \in Nat \ {0} /\ FRING_SIZE \in Nat \ {0}
  /\ MaxDepth \in Nat \ {0} /\ Labels \in Nat \ {0}
  /\ Bare \notin Funcs /\ Funcs # {}

VARIABLES
  frames,             \* the program's real call stack, innermost first
  label,              \* numbers the instructions
  iringbuf, iring_ptr,
  fringbuf, fringbuf_ptr, stack_ptr,
  head,               \* the list of functions: FALSE once free_fp emptied it
  status,             \* the simulator runs, has stopped, or died in ftrace_rcd
  irecent, frecent    \* history: the last records of each ring, oldest first

trace == <<iringbuf, iring_ptr, fringbuf, fringbuf_ptr, stack_ptr, irecent, frecent>>
traceVars == <<frames, label, trace, head, status>>

Empty == 0                           \* a record whose first byte is '\0'

\* A function and whether the address is its first one.
Target == [fn : Funcs \cup {Bare}, start : BOOLEAN]

TraceInit ==
  /\ \E f \in Funcs : frames = <<f>>
  /\ label = 1
  /\ iringbuf = [i \in 0..(IRING_SIZE - 1) |-> Empty]
  /\ iring_ptr = 0
  /\ fringbuf = [i \in 0..(FRING_SIZE - 1) |-> Empty]
  /\ fringbuf_ptr = 0
  /\ stack_ptr = 0
  /\ head \in BOOLEAN                \* an ELF file was given, or not
  /\ status = "run"
  /\ irecent = << >>
  /\ frecent = << >>

----------------------------------------------------------------------------
\* The last n elements of s.
Last(s, n) == IF Len(s) > n THEN SubSeq(s, Len(s) - n + 1, Len(s)) ELSE s

\* Mutation of iringbuf_push: the pointer moves after the record is written.
iringbuf_push_post ==
  /\ iring_ptr' = IF iring_ptr + 1 >= IRING_SIZE THEN 0 ELSE iring_ptr + 1
  /\ iringbuf' = [iringbuf EXCEPT ![iring_ptr] = label]
  /\ irecent' = Last(Append(irecent, label), IRING_SIZE)

iringbuf_push ==
  LET p == IF iring_ptr + 1 >= IRING_SIZE THEN 0 ELSE iring_ptr + 1
  IN  /\ iring_ptr' = p
      /\ iringbuf' = [iringbuf EXCEPT ![p] = label]
      /\ irecent' = Last(Append(irecent, label), IRING_SIZE)

\* Mutation of fringbuf_push: the pointer moves before the record is written.
fringbuf_push_pre(depth) ==
  LET p == IF fringbuf_ptr + 1 >= FRING_SIZE THEN 0 ELSE fringbuf_ptr + 1
  IN  /\ fringbuf_ptr' = p
      /\ fringbuf' = [fringbuf EXCEPT ![p] = label]
      /\ stack_ptr' = depth
      /\ frecent' = Last(Append(frecent, label), FRING_SIZE)

fringbuf_push(depth) ==
  /\ fringbuf' = [fringbuf EXCEPT ![fringbuf_ptr] = label]
  /\ fringbuf_ptr' = IF fringbuf_ptr + 1 >= FRING_SIZE THEN 0 ELSE fringbuf_ptr + 1
  /\ stack_ptr' = depth
  /\ frecent' = Last(Append(frecent, label), FRING_SIZE)

NoRecord == UNCHANGED <<fringbuf, fringbuf_ptr, stack_ptr, frecent>>

\* The jump i at current, for the target dnpc: recorded as unknown, call or
\* return.  A return from code without a symbol reads through NULL.
ftrace_rcd(i, current, dnpc) ==
  LET jump == i \in {"call", "tail", "jr", "ret"}
      call == i = "call" /\ dnpc.start
      ret  == i \in {"jr", "ret"} /\ ~dnpc.start /\ dnpc.fn # current
  IN  CASE ~head \/ ~jump    -> NoRecord /\ status' = status
        [] head /\ jump /\ dnpc.fn = Bare
                             -> fringbuf_push(stack_ptr) /\ status' = status
        [] head /\ call /\ dnpc.fn # Bare
                             -> fringbuf_push(stack_ptr + 1) /\ status' = status
        [] head /\ ret /\ dnpc.fn # Bare /\ current # Bare /\ stack_ptr > 0
                             -> fringbuf_push(stack_ptr - 1) /\ status' = status
        [] head /\ ret /\ dnpc.fn # Bare /\ current = Bare
                             -> NoRecord /\ status' = "crash"
        [] head /\ ret /\ dnpc.fn # Bare /\ current # Bare /\ stack_ptr = 0
                             -> NoRecord /\ status' = "panic"
        [] OTHER             -> NoRecord /\ status' = status

\* One instruction of the program; every return matches a call.  A tail call
\* is a jal or, like the return, a jalr that links nowhere.
exec_once(i, f, dnpc) ==
  /\ status = "run"
  /\ frames' = CASE i = "call" -> <<f>> \o frames
                 [] i \in {"tail", "jr"} -> <<f>> \o Tail(frames)
                 [] i = "ret"  -> Tail(frames)
                 [] OTHER      -> frames
  /\ Len(frames') \in 1..MaxDepth
  /\ iringbuf_push
  /\ ftrace_rcd(i, Head(frames), dnpc)
  /\ stack_ptr' <= MaxDepth
  /\ label' = (label % Labels) + 1
  /\ UNCHANGED head

\* cpu_exec at ABORT, END or QUIT prints and empties the list of functions;
\* from ABORT the debugger may go on.
free_fp ==
  /\ status = "run"
  /\ head' = FALSE
  /\ status' \in {"run", "stop"}
  /\ UNCHANGED <<frames, label, trace>>

TraceNext ==
  \/ \E dnpc \in Target :
       \/ \E f \in Funcs \cup {Bare}, i \in {"call", "tail", "jr"} : exec_once(i, f, dnpc)
       \/ \E i \in {"ret", "other"} : exec_once(i, Bare, dnpc)
  \/ free_fp

TraceSpec == TraceInit /\ [][TraceNext]_traceVars

----------------------------------------------------------------------------
\* The loop of a print-out over n records: the line of each that is not empty.
Printed(at, line, n) ==
  LET out[k \in 0..n] == IF k = 0 THEN << >>
                         ELSE IF at[k] = Empty THEN out[k - 1]
                         ELSE Append(out[k - 1], line[k])
  IN  out[n]

\* The lines of iringbuf_print, in the order of the array: an arrow before
\* the record at iring_ptr.
iringbuf_print ==
  LET at == [k \in 1..IRING_SIZE |-> iringbuf[k - 1]]
  IN  Printed(at, [k \in 1..IRING_SIZE |-> [arrow |-> k - 1 = iring_ptr, text |-> at[k]]],
              IRING_SIZE)

\* What ftrace_print prints, in its order.
ftrace_print ==
  LET real_ptr(i) == IF fringbuf_ptr + i < FRING_SIZE THEN fringbuf_ptr + i
                     ELSE fringbuf_ptr + i - FRING_SIZE
      at == [k \in 1..FRING_SIZE |-> fringbuf[real_ptr(k - 1)]]
  IN  Printed(at, at, FRING_SIZE)

\* Exactly line k of the lines has the arrow, and read round from the line
\* after it they show the records of recent, oldest first.
ReadFrom(lines, k, recent) ==
  /\ \A j \in 1..Len(lines) : lines[j].arrow <=> j = k
  /\ \A i \in 1..Len(lines) : lines[((k + i - 1) % Len(lines)) + 1].text = recent[i]

(* What the simulator prints when it stops is the last records, before and *)
(* after the rings have wrapped.  iringbuf_print shows each of the last    *)
(* instructions once, in the order of the array: one line has the arrow,   *)
(* it is the newest, and going round from the line after it they are in    *)
(* the order of execution.  ftrace_print shows the last calls and returns, *)
(* oldest first.  One ring moves its pointer before it writes and the      *)
(* other after.                                                            *)
LastRecords ==
  /\ Len(iringbuf_print) = Len(irecent)
  /\ irecent # << >> =>
       \E k \in 1..Len(irecent) : ReadFrom(iringbuf_print, k, irecent)
  /\ ftrace_print = frecent

(* ftrace_rcd panics with "return before call": on a program whose returns *)
(* all match a call it does not.                                           *)
ReturnAfterCall == status # "panic"
=============================================================================
