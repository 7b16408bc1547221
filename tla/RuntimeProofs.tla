--------------------------- MODULE RuntimeProofs ---------------------------
(***************************************************************************)
(* Proofs about the runtime ports and the typing game: the console of      *)
(* Htif, the ring of KeyQueue, the address spaces of Vme, the threads of   *)
(* Cte, and the score of TypingGame.                                       *)
(***************************************************************************)
EXTENDS Cte, Vme, KeyQueue, Htif, TypingGame, NatLemmas, FiniteSetTheorems,
        SequenceTheorems

----------------------------------------------------------------------------
(* The console.  A word is described by what it asks for.                  *)

IsRead(w) == w.dev = 1 /\ w.cmd = 0
IsCall(w) == w.dev = 0 /\ w.data >= 0
IsPut(w)  == (w.dev = 0 /\ w.data > 0) \/ (w.dev = 1 /\ w.cmd = 1)
IsRequest(w) ==
  \/ w.dev = 1 /\ w.cmd = 0
  \/ w.dev = 1 /\ w.cmd = 1 /\ w.data > 0
  \/ w.dev = 0 /\ w.cmd = 0 /\ w.data >= 0

Words == [dev : Int, cmd : Int, data : Int]

Sending == htif_pc = "set_tohost"

HtifFlags == reading \in BOOLEAN /\ exited \in BOOLEAN

HtifTypes ==
  /\ xlen \in {32, 64}
  /\ htif_pc \in {"idle", "take", "set_tohost", "do_fromhost", "off"}
  /\ tohost \in Words /\ (tohost \in {Zero, EXIT} \/ IsRequest(tohost))
  /\ fromhost \in Words
  /\ fromhost = Zero \/ (fromhost.dev \in {0, 1} /\ fromhost.cmd = 0)
  /\ request \in Words
  /\ htif_console_buf \in Int /\ htif_console_buf >= -1
  /\ wrote \in Nat /\ received \in Nat /\ typed \in Nat /\ printed \in Nat /\ prints \in Nat
  /\ HtifFlags
  /\ answers \in Nat
  /\ htif_pc = "take" => xlen = 64

\* The guest sends EXIT last.
ExitLast ==
  /\ exited => htif_pc = "off"
  /\ htif_pc = "off" => tohost \in {Zero, EXIT}
  /\ htif_pc # "off" => tohost # EXIT
  /\ Sending => IsRequest(request)

One(b) == IF b THEN 1 ELSE 0

\* A system call is with the host, or answered, exactly while the guest waits.
CallsOpen ==
  htif_pc # "off" =>
    /\ One(IsCall(tohost)) + answers + One(fromhost.dev = 0) = One(htif_pc = "do_fromhost")
    /\ htif_pc = "do_fromhost" => request.dev = 0 /\ request.cmd = 0

\* What putchar has taken is printed, or the command is in tohost or next;
\* power-off loses the one in tohost.
Printing ==
  /\ prints = printed
  /\ htif_pc # "off" =>
       /\ wrote = printed + One(IsPut(tohost)) + One(Sending /\ IsPut(request))
       /\ IsPut(tohost) => tohost.data = printed + 1
       /\ Sending /\ IsPut(request) => request.data = wrote
  /\ htif_pc = "off" => wrote = printed \/ wrote = printed + 1
  /\ xlen = 32 =>
       /\ htif_pc = "off" => printed = wrote
       /\ tohost.dev # 1 /\ (Sending => request.dev # 1)

\* One read is open at a time: the right to read is in exactly one place.
OneRead ==
  htif_pc # "off" =>
    /\ One(htif_console_buf >= 0) + One(Sending /\ IsRead(request)) + One(IsRead(tohost))
         + One(reading) + One(fromhost.dev = 1) = 1
    /\ IF htif_console_buf > 0
       THEN htif_console_buf = 1 + typed /\ received = typed - 1
       ELSE IF fromhost.dev = 1 THEN fromhost.data = typed /\ received = typed - 1
       ELSE received = typed

HtifInv == HtifTypes /\ ExitLast /\ CallsOpen /\ Printing /\ OneRead

\* A word is equal to a command when its fields are.
LEMMA WordFields ==
  ASSUME NEW a \in Int, NEW b \in Int, NEW d \in Int
  PROVE  /\ Cmd(a, b, d) \in Words
         /\ Cmd(a, b, d).dev = a /\ Cmd(a, b, d).cmd = b /\ Cmd(a, b, d).data = d
         /\ \A w \in Words : w.dev \in Int /\ w.cmd \in Int /\ w.data \in Int
         /\ \A w \in Words : w = Cmd(a, b, d) <=> w.dev = a /\ w.cmd = b /\ w.data = d
BY DEF Cmd, Words

\* The words that do not depend on the state.
LEMMA FixedWords ==
  /\ \A w \in Words : w.dev \in Int /\ w.cmd \in Int /\ w.data \in Int
  /\ Zero \in Words /\ Zero.dev = -1 /\ Zero.cmd = -1 /\ Zero.data = -1
  /\ EXIT \in Words /\ EXIT.dev = 0 /\ EXIT.cmd = 0 /\ EXIT.data = -1
  /\ SYS \in Words /\ SYS.dev = 0 /\ SYS.cmd = 0 /\ SYS.data = 0
  /\ \A w \in Words : w = EXIT <=> w.dev = 0 /\ w.cmd = 0 /\ w.data = -1
  /\ \A w \in Words : w = SYS <=> w.dev = 0 /\ w.cmd = 0 /\ w.data = 0
  /\ \A w \in Words : w = Zero <=> w.dev = -1 /\ w.cmd = -1 /\ w.data = -1
BY WordFields DEF Zero, EXIT, SYS

\* The invariant of the console holds at the start.
LEMMA HtifStart == HtifInit => HtifInv
<1> SUFFICES ASSUME HtifInit PROVE HtifInv
  OBVIOUS
<1> USE FixedWords DEF HtifInit
<1>1. HtifTypes
  <2>1. reading \in BOOLEAN /\ exited \in BOOLEAN
    BY Zenon
  <2>2. 0 \in Nat /\ 0 \in Int /\ 0 >= -1
    OBVIOUS
  <2>3. QED BY <2>1, <2>2, Zenon DEF HtifTypes, HtifFlags
<1>2. ExitLast
  BY DEF ExitLast, Sending
<1>3. CallsOpen
  BY DEF CallsOpen, One, IsCall
<1>4. Printing
  BY DEF Printing, One, IsPut, Sending
<1>5. OneRead
  BY DEF OneRead, One, IsRead, Sending
<1>6. QED BY <1>1, <1>2, <1>3, <1>4, <1>5 DEF HtifInv

\* What check_fromhost does: an answer moves from fromhost to the buffer.
AnswerTaken ==
  /\ fromhost' = Zero /\ htif_console_buf' \in Int /\ htif_console_buf' >= -1
  /\ fromhost.dev # 0
  /\ One(htif_console_buf' >= 0) = One(htif_console_buf >= 0) + One(fromhost.dev = 1)
  /\ IF htif_console_buf' > 0
     THEN htif_console_buf' = 1 + typed /\ received = typed - 1
     ELSE received = typed

\* Nothing is in the buffer when it does so, as one read is open at a time.
LEMMA Checked ==
  ASSUME HtifInv, check_fromhost, htif_pc # "off"
  PROVE  AnswerTaken
BY FixedWords
   DEF HtifInv, HtifTypes, OneRead, One, IsRead, Sending, check_fromhost, console_answer,
       AnswerTaken

\* The two promises of OutputOnce about a step.
InTurn ==
  /\ prints' # prints => printed' = prints'
  /\ exited' => wrote' - printed' \in (IF xlen = 32 THEN {0} ELSE {0, 1})

\* Every step of the console keeps its invariant, and none prints out of turn.
LEMMA HtifStep ==
  ASSUME HtifInv, [HtifNext]_htifVars
  PROVE  HtifInv' /\ InTurn
<1> USE FixedWords DEF HtifInv, hostVars, guestVars
<1>1. CASE htif_console_getchar
  <2>1. HtifTypes'
    BY <1>1, Checked DEF htif_console_getchar, AnswerTaken, HtifTypes, IsRequest, ExitLast, Sending, HtifFlags
  <2>2. ExitLast'
    BY <1>1, Checked DEF htif_console_getchar, AnswerTaken, ExitLast, Sending, HtifTypes, IsRequest, CallsOpen
  <2>3. CallsOpen'
    BY <1>1, Checked DEF htif_console_getchar, AnswerTaken, HtifTypes, ExitLast, CallsOpen, One, IsCall, IsRequest, Sending
  <2>4. Printing'
    BY <1>1, Checked DEF htif_console_getchar, AnswerTaken, HtifTypes, ExitLast, CallsOpen, IsCall, Printing, One, IsPut, IsRequest, Sending
  <2>5. OneRead'
    BY <1>1, Checked DEF htif_console_getchar, AnswerTaken, HtifTypes, ExitLast, CallsOpen, OneRead, One, IsRead, IsRequest, Sending
  <2>6. InTurn
    BY <1>1, Checked DEF htif_console_getchar, AnswerTaken, HtifTypes, ExitLast, CallsOpen, IsCall, Printing, InTurn, One, IsPut, IsRequest, Sending
  <2>7. QED BY <2>1, <2>2, <2>3, <2>4, <2>5, <2>6
<1>2. CASE htif_console_putchar
  <2>0. /\ request' \in Words /\ request'.data = wrote + 1
        /\ xlen = 64 => request'.dev = 1 /\ request'.cmd = 1
        /\ xlen = 32 => request'.dev = 0 /\ request'.cmd = 0
    <3>1. wrote + 1 \in Int /\ 0 \in Int /\ 1 \in Int /\ xlen \in {32, 64}
      BY DEF HtifTypes
    <3>2. Cmd(1, 1, wrote + 1) \in Words /\ Cmd(1, 1, wrote + 1).dev = 1
          /\ Cmd(1, 1, wrote + 1).cmd = 1 /\ Cmd(1, 1, wrote + 1).data = wrote + 1
      BY <3>1, WordFields
    <3>3. Cmd(0, 0, wrote + 1) \in Words /\ Cmd(0, 0, wrote + 1).dev = 0
          /\ Cmd(0, 0, wrote + 1).cmd = 0 /\ Cmd(0, 0, wrote + 1).data = wrote + 1
      BY <3>1, WordFields
    <3>4. QED BY <1>2, <3>1, <3>2, <3>3 DEF htif_console_putchar
  <2>1. HtifTypes'
    BY <1>2, <2>0 DEF htif_console_putchar, HtifTypes, IsRequest, ExitLast, Sending, HtifFlags
  <2>2. ExitLast'
    BY <1>2, <2>0 DEF htif_console_putchar, ExitLast, Sending, HtifTypes, IsRequest, CallsOpen
  <2>3. CallsOpen'
    BY <1>2, <2>0 DEF htif_console_putchar, HtifTypes, ExitLast, CallsOpen, One, IsCall, IsRequest, Sending
  <2>4. Printing'
    BY <1>2, <2>0 DEF htif_console_putchar, HtifTypes, ExitLast, CallsOpen, IsCall, Printing, One, IsPut, IsRequest, Sending
  <2>5. OneRead'
    BY <1>2, <2>0 DEF htif_console_putchar, HtifTypes, ExitLast, CallsOpen, OneRead, One, IsRead, IsRequest, Sending
  <2>6. InTurn
    BY <1>2, <2>0 DEF htif_console_putchar, HtifTypes, ExitLast, CallsOpen, IsCall, Printing, InTurn, One, IsPut, IsRequest, Sending
  <2>7. QED BY <2>1, <2>2, <2>3, <2>4, <2>5, <2>6
<1>3. CASE htif_syscall
  <2>1. HtifTypes'
    BY <1>3 DEF htif_syscall, HtifTypes, IsRequest, ExitLast, Sending, HtifFlags
  <2>2. ExitLast'
    BY <1>3 DEF htif_syscall, ExitLast, Sending, HtifTypes, IsRequest, CallsOpen
  <2>3. CallsOpen'
    BY <1>3 DEF htif_syscall, HtifTypes, ExitLast, CallsOpen, One, IsCall, IsRequest, Sending
  <2>4. Printing'
    BY <1>3 DEF htif_syscall, HtifTypes, ExitLast, CallsOpen, IsCall, Printing, One, IsPut, IsRequest, Sending
  <2>5. OneRead'
    BY <1>3 DEF htif_syscall, HtifTypes, ExitLast, CallsOpen, OneRead, One, IsRead, IsRequest, Sending
  <2>6. InTurn
    BY <1>3 DEF htif_syscall, HtifTypes, ExitLast, CallsOpen, IsCall, Printing, InTurn, One, IsPut, IsRequest, Sending
  <2>7. QED BY <2>1, <2>2, <2>3, <2>4, <2>5, <2>6
<1>4. CASE htif_poweroff
  <2>1. HtifTypes'
    BY <1>4 DEF htif_poweroff, HtifTypes, IsRequest, ExitLast, Sending, HtifFlags
  <2>2. ExitLast'
    BY <1>4 DEF htif_poweroff, ExitLast, Sending, HtifTypes, IsRequest, CallsOpen
  <2>3. CallsOpen'
    BY <1>4 DEF htif_poweroff, HtifTypes, ExitLast, CallsOpen, One, IsCall, IsRequest, Sending
  <2>4. Printing'
    BY <1>4 DEF htif_poweroff, HtifTypes, ExitLast, CallsOpen, IsCall, Printing, One, IsPut, IsRequest, Sending
  <2>5. OneRead'
    BY <1>4 DEF htif_poweroff, HtifTypes, ExitLast, CallsOpen, OneRead, One, IsRead, IsRequest, Sending
  <2>6. InTurn
    BY <1>4 DEF htif_poweroff, HtifTypes, ExitLast, CallsOpen, IsCall, Printing, InTurn, One, IsPut, IsRequest, Sending
  <2>7. QED BY <2>1, <2>2, <2>3, <2>4, <2>5, <2>6
<1>5. CASE take
  <2>0. CASE htif_console_buf >= 0
    <3>0. /\ request' \in Words /\ request'.dev = 1 /\ request'.cmd = 0 /\ request'.data = 0
          /\ htif_pc' = "set_tohost" /\ htif_console_buf' = -1 /\ htif_pc = "take"
          /\ received' = IF htif_console_buf > 0 THEN htif_console_buf - 1 ELSE received
          /\ UNCHANGED <<tohost, fromhost, wrote, hostVars, xlen>>
      <4>1. Cmd(1, 0, 0) \in Words /\ Cmd(1, 0, 0).dev = 1
            /\ Cmd(1, 0, 0).cmd = 0 /\ Cmd(1, 0, 0).data = 0
        BY WordFields
      <4>2. QED BY <1>5, <2>0, <4>1 DEF take
    <3>1. HtifTypes'
      BY <2>0, <3>0 DEF hostVars, HtifTypes, IsRequest, ExitLast, Sending, HtifFlags
    <3>2. ExitLast'
      BY <2>0, <3>0 DEF hostVars, ExitLast, Sending, HtifTypes, IsRequest, CallsOpen
    <3>3. CallsOpen'
      BY <2>0, <3>0 DEF hostVars, HtifTypes, ExitLast, CallsOpen, One, IsCall, IsRequest, Sending
    <3>4. Printing'
      BY <2>0, <3>0 DEF hostVars, HtifTypes, ExitLast, CallsOpen, IsCall, Printing, One, IsPut, IsRequest, Sending
    <3>5. OneRead'
      BY <2>0, <3>0 DEF hostVars, HtifTypes, ExitLast, CallsOpen, OneRead, One, IsRead, IsRequest, Sending
    <3>6. InTurn
      BY <2>0, <3>0 DEF hostVars, HtifTypes, ExitLast, CallsOpen, IsCall, Printing, InTurn, One, IsPut, IsRequest, Sending
    <3>7. QED BY <3>1, <3>2, <3>3, <3>4, <3>5, <3>6
  <2>1. CASE ~ (htif_console_buf >= 0)
    <3>1. HtifTypes'
      BY <1>5, <2>1 DEF take, HtifTypes, IsRequest, ExitLast, Sending, HtifFlags
    <3>2. ExitLast'
      BY <1>5, <2>1 DEF take, ExitLast, Sending, HtifTypes, IsRequest, CallsOpen
    <3>3. CallsOpen'
      BY <1>5, <2>1 DEF take, HtifTypes, ExitLast, CallsOpen, One, IsCall, IsRequest, Sending
    <3>4. Printing'
      BY <1>5, <2>1 DEF take, HtifTypes, ExitLast, CallsOpen, IsCall, Printing, One, IsPut, IsRequest, Sending
    <3>5. OneRead'
      BY <1>5, <2>1 DEF take, HtifTypes, ExitLast, CallsOpen, OneRead, One, IsRead, IsRequest, Sending
    <3>6. InTurn
      BY <1>5, <2>1 DEF take, HtifTypes, ExitLast, CallsOpen, IsCall, Printing, InTurn, One, IsPut, IsRequest, Sending
    <3>7. QED BY <3>1, <3>2, <3>3, <3>4, <3>5, <3>6
  <2>2. QED BY <2>0, <2>1
<1>6. CASE set_tohost
  <2>0. CASE may_send
    <3>1. HtifTypes'
      BY <1>6, <2>0 DEF set_tohost, may_send, HtifTypes, IsRequest, ExitLast, Sending, HtifFlags
    <3>2. ExitLast'
      BY <1>6, <2>0 DEF set_tohost, may_send, ExitLast, Sending, HtifTypes, IsRequest, CallsOpen
    <3>3. CallsOpen'
      BY <1>6, <2>0 DEF set_tohost, may_send, HtifTypes, ExitLast, CallsOpen, One, IsCall, IsRequest, Sending
    <3>4. Printing'
      BY <1>6, <2>0 DEF set_tohost, may_send, HtifTypes, ExitLast, CallsOpen, IsCall, Printing, One, IsPut, IsRequest, Sending
    <3>5. OneRead'
      BY <1>6, <2>0 DEF set_tohost, may_send, HtifTypes, ExitLast, CallsOpen, OneRead, One, IsRead, IsRequest, Sending
    <3>6. InTurn
      BY <1>6, <2>0 DEF set_tohost, may_send, HtifTypes, ExitLast, CallsOpen, IsCall, Printing, InTurn, One, IsPut, IsRequest, Sending
    <3>7. QED BY <3>1, <3>2, <3>3, <3>4, <3>5, <3>6
  <2>1. CASE ~ may_send
    <3>0. /\ check_fromhost /\ htif_pc = "set_tohost" /\ htif_pc # "off"
          /\ UNCHANGED <<tohost, htif_pc, request, wrote, received, hostVars, xlen>>
      BY <1>6, <2>1 DEF set_tohost
    <3>a. AnswerTaken
      BY <3>0, Checked
    <3>1. HtifTypes'
      BY <3>0, <3>a DEF AnswerTaken, HtifTypes, IsRequest, ExitLast, Sending, HtifFlags
    <3>2. ExitLast'
      BY <3>0, <3>a DEF AnswerTaken, ExitLast, Sending, HtifTypes, IsRequest, CallsOpen
    <3>3. CallsOpen'
      BY <3>0, <3>a DEF AnswerTaken, HtifTypes, ExitLast, CallsOpen, One, IsCall, IsRequest, Sending
    <3>4. Printing'
      BY <3>0, <3>a DEF AnswerTaken, HtifTypes, ExitLast, CallsOpen, IsCall, Printing, One, IsPut, IsRequest, Sending
    <3>5. OneRead'
      BY <3>0, <3>a DEF AnswerTaken, HtifTypes, ExitLast, CallsOpen, OneRead, One, IsRead, IsRequest, Sending
    <3>6. InTurn
      BY <3>0, <3>a DEF AnswerTaken, HtifTypes, ExitLast, CallsOpen, IsCall, Printing, InTurn, One, IsPut, IsRequest, Sending
    <3>7. QED BY <3>1, <3>2, <3>3, <3>4, <3>5, <3>6
  <2>2. QED BY <2>0, <2>1
<1>7. CASE do_fromhost
  <2>0. CASE answered
    <3>1. HtifTypes'
      BY <1>7, <2>0 DEF do_fromhost, answered, HtifTypes, IsRequest, ExitLast, Sending, HtifFlags
    <3>2. ExitLast'
      BY <1>7, <2>0 DEF do_fromhost, answered, ExitLast, Sending, HtifTypes, IsRequest, CallsOpen
    <3>3. CallsOpen'
      BY <1>7, <2>0 DEF do_fromhost, answered, HtifTypes, ExitLast, CallsOpen, One, IsCall, IsRequest, Sending
    <3>4. Printing'
      BY <1>7, <2>0 DEF do_fromhost, answered, HtifTypes, ExitLast, CallsOpen, IsCall, Printing, One, IsPut, IsRequest, Sending
    <3>5. OneRead'
      BY <1>7, <2>0 DEF do_fromhost, answered, HtifTypes, ExitLast, CallsOpen, OneRead, One, IsRead, IsRequest, Sending
    <3>6. InTurn
      BY <1>7, <2>0 DEF do_fromhost, answered, HtifTypes, ExitLast, CallsOpen, IsCall, Printing, InTurn, One, IsPut, IsRequest, Sending
    <3>7. QED BY <3>1, <3>2, <3>3, <3>4, <3>5, <3>6
  <2>1. CASE ~ answered
    <3>0. /\ check_fromhost /\ htif_pc = "do_fromhost" /\ htif_pc # "off"
          /\ UNCHANGED <<tohost, htif_pc, request, wrote, received, hostVars, xlen>>
      BY <1>7, <2>1 DEF do_fromhost
    <3>a. AnswerTaken
      BY <3>0, Checked
    <3>1. HtifTypes'
      BY <3>0, <3>a DEF AnswerTaken, HtifTypes, IsRequest, ExitLast, Sending, HtifFlags
    <3>2. ExitLast'
      BY <3>0, <3>a DEF AnswerTaken, ExitLast, Sending, HtifTypes, IsRequest, CallsOpen
    <3>3. CallsOpen'
      BY <3>0, <3>a DEF AnswerTaken, HtifTypes, ExitLast, CallsOpen, One, IsCall, IsRequest, Sending
    <3>4. Printing'
      BY <3>0, <3>a DEF AnswerTaken, HtifTypes, ExitLast, CallsOpen, IsCall, Printing, One, IsPut, IsRequest, Sending
    <3>5. OneRead'
      BY <3>0, <3>a DEF AnswerTaken, HtifTypes, ExitLast, CallsOpen, OneRead, One, IsRead, IsRequest, Sending
    <3>6. InTurn
      BY <3>0, <3>a DEF AnswerTaken, HtifTypes, ExitLast, CallsOpen, IsCall, Printing, InTurn, One, IsPut, IsRequest, Sending
    <3>7. QED BY <3>1, <3>2, <3>3, <3>4, <3>5, <3>6
  <2>2. QED BY <2>0, <2>1
<1>8. CASE Serve
  <2>a. /\ tohost # Zero /\ tohost' = Zero /\ ~ exited
        /\ exited' = (tohost = EXIT)
        /\ reading' = (reading \/ (tohost.dev = 1 /\ tohost.cmd = 0))
        /\ reading' \in BOOLEAN /\ exited' \in BOOLEAN
        /\ UNCHANGED <<fromhost, xlen, htif_console_buf, htif_pc, request, wrote, received, typed>>
    BY <1>8, Zenon DEF Serve
  <2>f. HtifFlags'
    BY <2>a, Zenon DEF HtifFlags
  <2>b. /\ printed' = IF IsPut(tohost) THEN tohost.data ELSE printed
        /\ prints' = IF IsPut(tohost) THEN prints + 1 ELSE prints
        /\ answers' = IF IsCall(tohost) THEN answers + 1 ELSE answers
        /\ One(reading') = IF IsRead(tohost) THEN 1 ELSE One(reading)
        /\ IsRequest(tohost) \/ tohost = EXIT
        /\ exited' <=> tohost = EXIT
        /\ ~ IsRead(Zero) /\ ~ IsPut(Zero) /\ ~ IsCall(Zero)
    <3>1. /\ IsRequest(tohost) \/ tohost = EXIT
          /\ ~ IsRead(Zero) /\ ~ IsPut(Zero) /\ ~ IsCall(Zero)
      BY <2>a DEF HtifTypes, IsPut, IsCall, IsRead, IsRequest
    <3>2. /\ printed' = IF IsPut(tohost) THEN tohost.data ELSE printed
          /\ prints' = IF IsPut(tohost) THEN prints + 1 ELSE prints
      <4>1. Prints(tohost) <=> IsPut(tohost)
        BY <3>1 DEF HtifTypes, IsPut, IsRequest, Prints
      <4>2. /\ printed' = IF Prints(tohost) THEN tohost.data ELSE printed
            /\ prints' = IF Prints(tohost) THEN prints + 1 ELSE prints
        BY <1>8, Zenon DEF Serve
      <4>3. QED BY <4>1, <4>2, Zenon
    <3>3. answers' = IF IsCall(tohost) THEN answers + 1 ELSE answers
      BY <1>8, <3>1 DEF Serve, HtifTypes, IsCall, IsRequest
    <3>4. One(reading') = IF IsRead(tohost) THEN 1 ELSE One(reading)
      BY <2>a DEF IsRead, One
    <3>5. exited' <=> tohost = EXIT
      BY <2>a, Zenon
    <3>6. QED BY <3>1, <3>2, <3>3, <3>4, <3>5
  <2>c. printed' \in Nat /\ prints' \in Nat /\ answers' \in Nat
    BY <2>b DEF HtifTypes, IsPut, IsRequest
  <2>1. HtifTypes'
    BY <2>a, <2>b, <2>c, <2>f DEF hostVars, HtifTypes, IsRequest, ExitLast, Sending
  <2>2. ExitLast'
    BY <2>a, <2>b DEF hostVars, ExitLast, Sending, HtifTypes, IsRequest, CallsOpen
  <2>3. CallsOpen'
    BY <2>a, <2>b DEF hostVars, HtifTypes, ExitLast, CallsOpen, One, IsCall, IsRequest, Sending
  <2>4. Printing'
    BY <2>a, <2>b DEF hostVars, HtifTypes, ExitLast, CallsOpen, IsCall, Printing, One, IsPut, IsRequest, Sending
  <2>5. OneRead'
    BY <2>a, <2>b DEF hostVars, HtifTypes, ExitLast, CallsOpen, OneRead, One, IsRead, IsRequest, Sending
  <2>6. InTurn
    BY <2>a, <2>b DEF hostVars, HtifTypes, ExitLast, CallsOpen, IsCall, Printing, InTurn, One, IsPut, IsRequest, Sending
  <2>7. QED BY <2>1, <2>2, <2>3, <2>4, <2>5, <2>6
<1>9. CASE Reply
  <2>0. fromhost' \in Words /\ fromhost'.dev = 0 /\ fromhost'.cmd = 0 /\ fromhost'.data = 0
    <3>1. Cmd(0, 0, 0) \in Words /\ Cmd(0, 0, 0).dev = 0
          /\ Cmd(0, 0, 0).cmd = 0 /\ Cmd(0, 0, 0).data = 0
      BY WordFields
    <3>2. QED BY <1>9, <3>1 DEF Reply
  <2>1. HtifTypes'
    BY <1>9, <2>0 DEF Reply, HtifTypes, IsRequest, ExitLast, Sending, HtifFlags
  <2>2. ExitLast'
    BY <1>9, <2>0 DEF Reply, ExitLast, Sending, HtifTypes, IsRequest, CallsOpen
  <2>3. CallsOpen'
    BY <1>9, <2>0 DEF Reply, HtifTypes, ExitLast, CallsOpen, One, IsCall, IsRequest, Sending
  <2>4. Printing'
    BY <1>9, <2>0 DEF Reply, HtifTypes, ExitLast, CallsOpen, IsCall, Printing, One, IsPut, IsRequest, Sending
  <2>5. OneRead'
    BY <1>9, <2>0 DEF Reply, HtifTypes, ExitLast, CallsOpen, OneRead, One, IsRead, IsRequest, Sending
  <2>6. InTurn
    BY <1>9, <2>0 DEF Reply, HtifTypes, ExitLast, CallsOpen, IsCall, Printing, InTurn, One, IsPut, IsRequest, Sending
  <2>7. QED BY <2>1, <2>2, <2>3, <2>4, <2>5, <2>6
<1>10. CASE Type
  <2>0. /\ fromhost' \in Words /\ fromhost'.dev = 1 /\ fromhost'.cmd = 0
        /\ fromhost'.data = typed + 1
    <3>1. typed + 1 \in Int
      BY DEF HtifTypes
    <3>2. Cmd(1, 0, typed + 1) \in Words /\ Cmd(1, 0, typed + 1).dev = 1
          /\ Cmd(1, 0, typed + 1).cmd = 0 /\ Cmd(1, 0, typed + 1).data = typed + 1
      BY <3>1, WordFields
    <3>3. QED BY <1>10, <3>2 DEF Type
  <2>f. HtifFlags'
    BY <1>10, Zenon DEF Type, HtifTypes, HtifFlags
  <2>1. HtifTypes'
    BY <1>10, <2>0, <2>f DEF Type, HtifTypes, IsRequest, ExitLast, Sending
  <2>2. ExitLast'
    BY <1>10, <2>0 DEF Type, ExitLast, Sending, HtifTypes, IsRequest, CallsOpen
  <2>3. CallsOpen'
    BY <1>10, <2>0 DEF Type, HtifTypes, ExitLast, CallsOpen, One, IsCall, IsRequest, Sending
  <2>4. Printing'
    BY <1>10, <2>0 DEF Type, HtifTypes, ExitLast, CallsOpen, IsCall, Printing, One, IsPut, IsRequest, Sending
  <2>5. OneRead'
    BY <1>10, <2>0 DEF Type, HtifTypes, ExitLast, CallsOpen, OneRead, One, IsRead, IsRequest, Sending
  <2>6. InTurn
    BY <1>10, <2>0 DEF Type, HtifTypes, ExitLast, CallsOpen, IsCall, Printing, InTurn, One, IsPut, IsRequest, Sending
  <2>7. QED BY <2>1, <2>2, <2>3, <2>4, <2>5, <2>6
<1>11. CASE UNCHANGED htifVars
  BY <1>11 DEF htifVars, InTurn, HtifTypes, HtifFlags, HtifFlags, ExitLast, CallsOpen, Printing, OneRead, Sending
<1>12. QED
  BY <1>1, <1>2, <1>3, <1>4, <1>5, <1>6, <1>7, <1>8, <1>9, <1>10, <1>11 DEF HtifNext, InCall

\* The invariant gives the places a character can be in.
LEMMA HtifKeeps == HtifInv => InputKept
<1> SUFFICES ASSUME HtifInv, htif_pc # "off" PROVE InputKept
  BY DEF InputKept
<1>1. typed \in Nat /\ 1 \in Int /\ 0 \in Int
  BY DEF HtifInv, HtifTypes
<1>2. fromhost = Cmd(1, 0, typed) <=> fromhost.dev = 1 /\ fromhost.cmd = 0 /\ fromhost.data = typed
  BY <1>1, WordFields DEF HtifInv, HtifTypes
<1>3. QED
  BY <1>2, FixedWords
     DEF HtifInv, HtifTypes, OneRead, One, InputKept

(***************************************************************************)
(* A character typed at the console of the Spike port is read, or is on    *)
(* its way in exactly one place (InputKept), for any number of characters  *)
(* in and out: __check_fromhost never overwrites htif_console_buf, because *)
(* a new read is requested only when the last one has been taken.          *)
(***************************************************************************)
THEOREM InputIsKept == HtifSpec => []InputKept
<1>1. HtifInit => HtifInv
  BY HtifStart
<1>2. HtifInv /\ [HtifNext]_htifVars => HtifInv'
  BY HtifStep
<1>3. HtifInv => InputKept
  BY HtifKeeps
<1>4. QED BY <1>1, <1>2, <1>3, PTL DEF HtifSpec

(***************************************************************************)
(* The host prints the n-th character the n-th time it prints, has printed *)
(* all of them when the power goes off on RV32, and all but at most the    *)
(* last on RV64 (OutputOnce): __set_tohost waits for the host to clear the *)
(* word, a system call waits for its own answer, and power-off for neither.*)
(***************************************************************************)
THEOREM OutputIsOnce == HtifSpec => OutputOnce
<1>1. HtifInit => HtifInv
  BY HtifStart
<1>2. HtifInv /\ [HtifNext]_htifVars => HtifInv'
  BY HtifStep
<1>3. HtifInv /\ [HtifNext]_htifVars => [InTurn]_htifVars
  BY HtifStep
<1>4. QED BY <1>1, <1>2, <1>3, PTL DEF HtifSpec, OutputOnce, InTurn

----------------------------------------------------------------------------
(* The keyboard.  Event e is stored in slot (e - 1) % KEY_QUEUE_LEN, so    *)
(* both counters are an index and a whole number of rounds of the ring.    *)

Rounds == {n * KEY_QUEUE_LEN : n \in Nat}

\* Whole rounds are a ring's length apart.
LEMMA RoundsApart ==
  /\ Rounds \subseteq Nat /\ 0 \in Rounds
  /\ \A K \in Rounds : K + KEY_QUEUE_LEN \in Rounds /\ (K # 0 => K - KEY_QUEUE_LEN \in Rounds)
  /\ \A K, J \in Rounds : K < J => K + KEY_QUEUE_LEN <= J
<1> DEFINE L == KEY_QUEUE_LEN
<1>0. L \in Nat \ {0}
  BY LenAssumption
<1> HIDE DEF L
<1>1. \A n \in Nat : n * L \in Nat /\ (n + 1) * L = n * L + L /\ (n - 1) * L = n * L - L
  BY <1>0
<1>2. 0 * L = 0
  BY <1>0
<1>3. ASSUME NEW m \in Nat, NEW n \in Nat, m * L < n * L PROVE m * L + L <= n * L
  <2>1. m < n
    BY <1>0, <1>3
  <2>2. (m + 1) * L <= n * L
    BY <1>0, <2>1
  <2>3. QED BY <1>1, <2>2
<1>4. \A n \in Nat : n * L # 0 => n - 1 \in Nat
  BY <1>2
<1>5. Rounds = {n * L : n \in Nat}
  BY DEF Rounds, L
<1>6. \A K \in Rounds : K + L \in Rounds /\ (K # 0 => K - L \in Rounds)
  BY <1>1, <1>4, <1>5
<1>7. \A K, J \in Rounds : K < J => K + L <= J
  BY <1>3, <1>5
<1>8. Rounds \subseteq Nat /\ 0 \in Rounds
  BY <1>1, <1>2, <1>5
<1>9. QED BY <1>6, <1>7, <1>8 DEF L

\* What slot i holds in round K, when the last event went to the slot before r.
InSlot(i, r, K) ==
  IF i < r THEN K + i + 1 ELSE IF K # 0 THEN K - KEY_QUEUE_LEN + i + 1 ELSE NONE

KeyState(K, J) ==
  /\ key_f \in 0..(KEY_QUEUE_LEN - 1) /\ key_r \in 0..(KEY_QUEUE_LEN - 1)
  /\ sent = K + key_r /\ seen = J + key_f
  /\ seen <= sent
  /\ ~ full => sent - seen < KEY_QUEUE_LEN
  /\ key_queue = [i \in 0..(KEY_QUEUE_LEN - 1) |-> InSlot(i, key_r, K)]

KeyInv == full \in BOOLEAN /\ \E K, J \in Rounds : KeyState(K, J)

\* The promise of InOrder about a step.
KeyTurn == reads' # reads => seen < kbd' /\ kbd' <= sent /\ (~full => kbd' = seen + 1)

\* An event is written to its slot, and the slot before the new index is its.
LEMMA KeyPut ==
  ASSUME KeyInv, event_thread
  PROVE  KeyInv' /\ KeyTurn
<1> DEFINE L == KEY_QUEUE_LEN
<1>0. L \in Nat \ {0}
  BY LenAssumption
<1>1. PICK K \in Rounds, J \in Rounds : KeyState(K, J)
  BY DEF KeyInv
<1>2. K \in Nat /\ J \in Nat /\ (K # 0 => K >= L)
  BY <1>0, RoundsApart
<1>3. /\ key_queue' = [key_queue EXCEPT ![key_r] = sent + 1]
      /\ sent' = sent + 1 /\ key_f' = key_f /\ seen' = seen /\ reads' = reads
      /\ key_r' = IF key_r + 1 = L THEN 0 ELSE key_r + 1
  BY <1>0, <1>1, ModNext DEF event_thread, KeyState
<1>4. full' \in BOOLEAN /\ (~ full' => sent' - seen' < L)
  <2>1. full' \in BOOLEAN /\ (~ full' => ~ (sent + 1 - seen >= L))
    BY Zenon DEF event_thread
  <2>2. sent \in Nat /\ seen \in Nat
    BY <1>0, <1>1, <1>2 DEF KeyState
  <2>3. QED BY <1>0, <1>3, <2>1, <2>2
<1>5. CASE key_r + 1 = L
  <2>1. K + L \in Rounds
    BY RoundsApart
  <2>2. key_queue' = [i \in 0..(L - 1) |-> InSlot(i, key_r', K + L)]
    <3>1. \A i \in 0..(L - 1) :
            IF i = key_r THEN InSlot(i, key_r', K + L) = sent + 1
            ELSE InSlot(i, key_r', K + L) = InSlot(i, key_r, K)
      BY <1>0, <1>1, <1>2, <1>3, <1>5 DEF KeyState, InSlot, NONE
    <3>2. QED BY <1>1, <1>3, <3>1 DEF KeyState
  <2>3. KeyState(K + L, J)'
    BY <1>0, <1>1, <1>2, <1>3, <1>4, <1>5, <2>2 DEF KeyState
  <2>4. QED BY <1>3, <1>4, <2>1, <2>3 DEF KeyInv, KeyTurn
<1>6. CASE key_r + 1 # L
  <2>1. key_queue' = [i \in 0..(L - 1) |-> InSlot(i, key_r', K)]
    <3>1. \A i \in 0..(L - 1) :
            IF i = key_r THEN InSlot(i, key_r', K) = sent + 1
            ELSE InSlot(i, key_r', K) = InSlot(i, key_r, K)
      BY <1>0, <1>1, <1>2, <1>3, <1>6 DEF KeyState, InSlot, NONE
    <3>2. QED BY <1>1, <1>3, <3>1 DEF KeyState
  <2>2. KeyState(K, J)'
    BY <1>0, <1>1, <1>2, <1>3, <1>4, <1>6, <2>1 DEF KeyState
  <2>3. QED BY <1>3, <1>4, <2>2 DEF KeyInv, KeyTurn
<1>7. QED BY <1>5, <1>6

\* A read returns the event of its slot: the next, or a later one of an
\* overrun ring.
LEMMA KeyTake ==
  ASSUME KeyInv, am_input_keybrd
  PROVE  KeyInv' /\ KeyTurn
<1> DEFINE L == KEY_QUEUE_LEN
<1>0. L \in Nat \ {0}
  BY LenAssumption
<1>1. PICK K \in Rounds, J \in Rounds : KeyState(K, J)
  BY DEF KeyInv
<1>2. K \in Nat /\ J \in Nat /\ (K # 0 => K >= L) /\ (K < J => K + L <= J)
      /\ (J < K => J + L <= K)
  BY <1>0, RoundsApart
<1>3. full' \in BOOLEAN /\ full' = full
  BY DEF am_input_keybrd, KeyInv
<1>4. CASE ~ Waiting
  <2>1. UNCHANGED <<key_queue, key_f, key_r, sent, seen, reads, full>>
    BY <1>4 DEF am_input_keybrd
  <2>2. KeyState(K, J)'
    BY <1>1, <2>1 DEF KeyState
  <2>3. QED BY <1>3, <2>1, <2>2 DEF KeyInv, KeyTurn
<1>5. CASE Waiting
  <2>1. /\ key_f' = IF key_f + 1 = L THEN 0 ELSE key_f + 1
        /\ seen' = key_queue[key_f] /\ kbd' = seen' /\ key_f # key_r
        /\ UNCHANGED <<key_queue, key_r, sent>>
    BY <1>0, <1>1, <1>5, ModNext DEF am_input_keybrd, KeyState, Waiting
  <2>2. key_f \in Nat /\ key_r \in Nat /\ key_f < L /\ key_r < L
    BY <1>0, <1>1 DEF KeyState
  <2>3. PICK B \in Rounds : /\ J <= B /\ B = IF key_f < key_r THEN K ELSE K - L
                            /\ (key_f > key_r => K # 0)
    <3>1. CASE key_f < key_r
      <4>1. J <= K
        BY <1>0, <1>1, <1>2, <2>2, <3>1 DEF KeyState
      <4>2. QED BY <2>2, <3>1, <4>1
    <3>2. CASE key_f > key_r
      <4>1. J < K
        BY <1>0, <1>1, <1>2, <2>2, <3>2 DEF KeyState
      <4>2. K - L \in Rounds /\ J <= K - L /\ K # 0
        BY <1>0, <1>2, <4>1, RoundsApart
      <4>3. QED BY <2>2, <3>2, <4>2
    <3>3. QED BY <2>1, <2>2, <3>1, <3>2
  <2>4. B \in Nat /\ B + L \in Rounds /\ (J < B => J + L <= B)
    BY <2>3, RoundsApart
  <2>5. seen' = B + key_f + 1
    <3>1. seen' = InSlot(key_f, key_r, K)
      BY <1>1, <2>1 DEF KeyState
    <3>2. QED BY <1>0, <1>2, <2>1, <2>2, <2>3, <3>1 DEF InSlot, NONE
  <2>6. seen < seen' /\ seen' <= sent
    BY <1>0, <1>1, <1>2, <2>1, <2>2, <2>3, <2>4, <2>5 DEF KeyState
  <2>7. ~ full => seen' = seen + 1
    BY <1>0, <1>1, <1>2, <2>1, <2>2, <2>3, <2>4, <2>5 DEF KeyState
  <2>8. CASE key_f + 1 = L
    <3>1. KeyState(K, B + L)'
      BY <1>0, <1>1, <1>2, <1>3, <2>1, <2>2, <2>4, <2>5, <2>6, <2>8 DEF KeyState
    <3>2. QED BY <1>3, <2>1, <2>4, <2>6, <2>7, <3>1 DEF KeyInv, KeyTurn
  <2>9. CASE key_f + 1 # L
    <3>1. KeyState(K, B)'
      BY <1>0, <1>1, <1>2, <1>3, <2>1, <2>2, <2>4, <2>5, <2>6, <2>9 DEF KeyState
    <3>2. QED BY <1>3, <2>1, <2>3, <2>6, <2>7, <3>1 DEF KeyInv, KeyTurn
  <2>10. QED BY <2>8, <2>9
<1>6. QED BY <1>4, <1>5

(***************************************************************************)
(* Every read of a program on the native port that returns an event        *)
(* returns a later one than the reads before it, and the next one while    *)
(* the ring has not overrun (InOrder), for every length of the ring and    *)
(* any number of events: an overrun ring loses whole rounds, and neither   *)
(* repeats nor reorders.                                                   *)
(***************************************************************************)
THEOREM KeysInOrder == KeySpec => InOrder
<1>1. KeyInit => KeyInv
  <2> SUFFICES ASSUME KeyInit PROVE KeyInv
    OBVIOUS
  <2>1. KEY_QUEUE_LEN \in Nat \ {0}
    BY LenAssumption
  <2>2. full \in BOOLEAN
    BY Zenon DEF KeyInit
  <2>3. KeyState(0, 0)
    BY <2>1 DEF KeyInit, KeyState, InSlot
  <2>4. QED BY <2>2, <2>3, RoundsApart DEF KeyInv
<1>2. ASSUME KeyInv, [KeyNext]_keyVars PROVE KeyInv' /\ [KeyTurn]_keyVars
  <2>1. CASE UNCHANGED keyVars
    BY <1>2, <2>1 DEF keyVars, KeyInv, KeyState
  <2>2. QED BY <1>2, <2>1, KeyPut, KeyTake DEF KeyNext
<1>3. QED BY <1>1, <1>2, PTL DEF KeySpec, InOrder, KeyTurn

----------------------------------------------------------------------------
(* The typing game.  A slot is free, or its letter falls, rises after a    *)
(* hit, or stays at the bottom after a miss.                               *)

Chars == [ch : Letters \cup {None}, y : Int, v : Int, t : Nat]

IsFalling(c) == c.ch # None /\ c.v > 0

CharOK(c) ==
  c.ch # None =>
    /\ c.t = 0 => c.y < Bottom
    /\ c.v > 0 => c.t = 0 /\ c.y >= 0

Counter == 0..(IntSize - 1)

GameInv ==
  /\ chars \in [Slot -> Chars]
  /\ \A i \in Slot : CharOK(chars[i])
  /\ hit \in Counter /\ miss \in Counter /\ created \in Counter
  /\ ScoredOnce

\* The falling letters of an array of slots.
FallingIn(cs) == {i \in Slot : IsFalling(cs[i])}
LandingIn(cs) == {i \in Slot : lands(cs[i])}

\* A new letter falls, and a letter that has been typed rises.
LEMMA SpeedSigns ==
  /\ \A v \in Speeds : v \in Nat /\ v > 0
  /\ (Bottom + 1) \div FPS \in Nat
<1>1. /\ FPS \in Nat \ {0} /\ Bottom \in Nat /\ Bottom + 1 >= FPS * 2 /\ IntSize \in Nat \ {0}
  BY GameAssumption
<1>2. (FPS * 3) \div 2 \in Nat /\ (FPS * 3) \div 2 > 0
  BY <1>1
<1>3. ASSUME NEW n \in ((FPS * 3) \div 2)..(FPS * 2)
      PROVE  (Bottom + 1) \div n \in Nat /\ (Bottom + 1) \div n > 0
  <2>1. n \in Nat \ {0} /\ n <= Bottom + 1
    BY <1>1, <1>2
  <2>2. Bottom + 1 \in Nat
    BY <1>1
  <2>3. (Bottom + 1) \div n \in Nat /\ Bottom + 1 = (n * ((Bottom + 1) \div n)) + ((Bottom + 1) % n)
    BY <2>1, <2>2, DivMod
  <2>4. (Bottom + 1) % n \in 0..(n - 1)
    <3>1. Bottom + 1 \in Int
      BY <2>2
    <3>2. QED BY <2>1, <3>1, ModRange
  <2>5. (Bottom + 1) \div n # 0
    <3>1. SUFFICES ASSUME (Bottom + 1) \div n = 0 PROVE FALSE
      OBVIOUS
    <3>2. n * ((Bottom + 1) \div n) = 0
      BY <2>1, <3>1
    <3>3. QED BY <2>1, <2>2, <2>3, <2>4, <3>2
  <2>6. QED BY <2>3, <2>5
<1>4. (Bottom + 1) \div FPS \in Nat
  BY <1>1
<1>5. QED BY <1>3, <1>4 DEF Speeds

\* A frame takes a slot from one right state to another: what falls goes on
\* falling, unless it lands, and nothing else begins to fall.
LEMMA FallRight ==
  ASSUME NEW c \in Chars, CharOK(c)
  PROVE  /\ fall(c) \in Chars /\ CharOK(fall(c))
         /\ IsFalling(fall(c)) <=> IsFalling(c) /\ ~ lands(c)
         /\ lands(c) => IsFalling(c)
<1>1. FPS \in Nat \ {0} /\ Bottom \in Nat /\ None \notin Letters
  BY GameAssumption
<1>2. CASE c.ch = None
  BY <1>2 DEF fall, CharOK, IsFalling, lands
<1>3. CASE c.ch # None /\ c.t > 0
  <2>1. c.t - 1 \in Nat /\ c.t # 0 /\ None \in Letters \cup {None} /\ c.ch \in Letters \cup {None}
        /\ c.y \in Int /\ c.v \in Int
    BY <1>3 DEF Chars
  <2>2. fall(c) = [c EXCEPT !.t = c.t - 1, !.ch = IF c.t = 1 THEN None ELSE c.ch]
    BY <1>3, <2>1, Zenon DEF fall, lands
  <2>3. PICK h \in Letters \cup {None} : h = IF c.t = 1 THEN None ELSE c.ch
    BY <2>1
  <2>4. fall(c) \in Chars /\ fall(c).v = c.v /\ fall(c).y = c.y /\ fall(c).t = c.t - 1
        /\ fall(c).ch = h
    <3>1. PICK t \in Nat : t = c.t - 1
      BY <2>1
    <3> DEFINE d == [c EXCEPT !.t = t, !.ch = h]
    <3>2. fall(c) = d
      BY <2>2, <2>3, <3>1, Zenon
    <3>3. d \in Chars /\ d.v = c.v /\ d.y = c.y /\ d.t = t /\ d.ch = h
      BY DEF Chars
    <3>4. QED BY <3>1, <3>2, <3>3, Zenon
  <2>5. QED BY <1>3, <2>1, <2>3, <2>4 DEF CharOK, IsFalling, lands
<1>4. CASE lands(c)
  <2>1. ~ (c.t > 0)
    BY <1>4 DEF lands
  <2>2. fall(c) = [c EXCEPT !.y = Bottom, !.v = 0, !.t = FPS]
    BY <1>4, <2>1, Zenon DEF fall, lands
  <2>3. fall(c) \in Chars /\ fall(c).v = 0 /\ fall(c).y = Bottom /\ fall(c).t = FPS
    <3>1. Bottom \in Int /\ 0 \in Int /\ FPS \in Nat
      BY <1>1
    <3> DEFINE d == [c EXCEPT !.y = Bottom, !.v = 0, !.t = FPS]
    <3>2. d \in Chars /\ d.v = 0 /\ d.y = Bottom /\ d.t = FPS
      BY <3>1 DEF Chars
    <3>3. QED BY <2>2, <3>2, Zenon
  <2>4. c.y \in Int /\ c.v \in Int
    BY DEF Chars
  <2>5. QED BY <1>1, <1>4, <2>3, <2>4 DEF CharOK, IsFalling, lands
<1>5. CASE c.ch # None /\ c.t = 0 /\ ~ lands(c)
  <2>1. c.y \in Int /\ c.v \in Int /\ c.t \in Nat /\ ~ (c.t > 0)
        /\ None \in Letters \cup {None} /\ c.ch \in Letters \cup {None}
    BY <1>5 DEF Chars
  <2>2. fall(c) = [c EXCEPT !.y = c.y + c.v, !.ch = IF c.y + c.v < 0 THEN None ELSE c.ch]
    BY <1>5, <2>1, Zenon DEF fall
  <2>3. PICK h \in Letters \cup {None} : h = IF c.y + c.v < 0 THEN None ELSE c.ch
    BY <2>1
  <2>4. PICK y \in Int : y = c.y + c.v
    BY <2>1
  <2>5. fall(c) \in Chars /\ fall(c).v = c.v /\ fall(c).y = y /\ fall(c).t = c.t
        /\ fall(c).ch = h
    <3> DEFINE d == [c EXCEPT !.y = y, !.ch = h]
    <3>1. fall(c) = d
      BY <2>2, <2>3, <2>4, Zenon
    <3>2. d \in Chars /\ d.v = c.v /\ d.y = y /\ d.t = c.t /\ d.ch = h
      BY DEF Chars
    <3>3. QED BY <3>1, <3>2, Zenon
  <2>6. QED BY <1>1, <1>5, <2>1, <2>3, <2>4, <2>5 DEF CharOK, IsFalling, lands
<1>6. QED BY <1>2, <1>3, <1>4, <1>5 DEF Chars, lands

\* An array of slots in right states.
SlotsOK(cs) == cs \in [Slot -> Chars] /\ \A i \in Slot : CharOK(cs[i])

\* Sets of slots are finite.
LEMMA SlotSets ==
  ASSUME NEW T \in SUBSET Slot
  PROVE  IsFiniteSet(T) /\ Cardinality(T) \in Nat
<1>1. NCHAR \in Int /\ 1 \in Int
  BY GameAssumption
<1>2. IsFiniteSet(Slot)
  BY <1>1, FS_Interval DEF Slot
<1>3. IsFiniteSet(T)
  BY <1>2, FS_Subset
<1>4. QED BY <1>3, FS_CardinalityType

\* A frame takes away from the falling letters those that land.
LEMMA FrameCounts ==
  ASSUME NEW cs, SlotsOK(cs)
  PROVE  LET ds == [i \in Slot |-> fall(cs[i])]
         IN  /\ SlotsOK(ds)
             /\ Cardinality(FallingIn(ds)) = Cardinality(FallingIn(cs)) - Cardinality(LandingIn(cs))
<1> DEFINE ds == [i \in Slot |-> fall(cs[i])]
<1>1. ASSUME NEW i \in Slot
      PROVE  /\ ds[i] \in Chars /\ CharOK(ds[i])
             /\ IsFalling(ds[i]) <=> IsFalling(cs[i]) /\ ~ lands(cs[i])
             /\ lands(cs[i]) => IsFalling(cs[i])
  <2>1. cs[i] \in Chars /\ CharOK(cs[i]) /\ ds[i] = fall(cs[i])
    BY DEF SlotsOK
  <2>2. QED BY <2>1, FallRight, Zenon
<1>2. SlotsOK(ds)
  <2>1. ds = [i \in Slot |-> ds[i]]
    OBVIOUS
  <2> HIDE DEF ds
  <2>2. QED BY <1>1, <2>1 DEF SlotsOK
<1> HIDE DEF ds
<1>3. FallingIn(ds) = FallingIn(cs) \ LandingIn(cs) /\ LandingIn(cs) \subseteq FallingIn(cs)
  BY <1>1 DEF FallingIn, LandingIn
<1>4. FallingIn(cs) \cap LandingIn(cs) = LandingIn(cs)
  BY <1>3
<1>5. IsFiniteSet(FallingIn(cs))
  BY SlotSets DEF FallingIn
<1>6. Cardinality(FallingIn(cs) \ LandingIn(cs))
        = Cardinality(FallingIn(cs)) - Cardinality(FallingIn(cs) \cap LandingIn(cs))
  BY <1>5, FS_Difference
<1>7. QED BY <1>2, <1>3, <1>4, <1>6 DEF ds

\* A new letter goes to a slot that held none.
LEMMA NewCounts ==
  ASSUME SlotsOK(chars), NEW h \in Letters, NEW v \in Speeds, Free(chars) # {}
  PROVE  /\ SlotsOK(new_char(h, v))
         /\ Cardinality(FallingIn(new_char(h, v))) = Cardinality(FallingIn(chars)) + 1
<1> DEFINE c == [ch |-> h, y |-> 0, v |-> v, t |-> 0]
<1>1. PICK i \in Free(chars) : new_char(h, v) = [chars EXCEPT ![i] = c]
  <2>1. Free(chars) \in SUBSET Nat
    BY GameAssumption DEF Free, Slot
  <2>2. (CHOOSE j \in Free(chars) : \A k \in Free(chars) : j <= k) \in Free(chars)
    BY <2>1, LeastChosen
  <2>3. QED BY <2>2, Zenon DEF new_char
<1>2. i \in Slot /\ chars[i].ch = None
  BY <1>1 DEF Free
<1>3. c \in Chars /\ CharOK(c) /\ IsFalling(c)
  <2>1. v \in Nat /\ v > 0
    BY SpeedSigns
  <2>2. Bottom > 0 /\ Bottom \in Nat /\ None \notin Letters
    BY GameAssumption
  <2>3. QED BY <2>1, <2>2 DEF Chars, CharOK, IsFalling
<1> HIDE DEF c
<1>4. SlotsOK(new_char(h, v))
  BY <1>1, <1>2, <1>3 DEF SlotsOK
<1>5. FallingIn(new_char(h, v)) = FallingIn(chars) \cup {i} /\ i \notin FallingIn(chars)
  <2>1. i \notin FallingIn(chars)
    BY <1>2 DEF FallingIn, IsFalling
  <2>2. ASSUME NEW j \in Slot
        PROVE  IsFalling(new_char(h, v)[j]) <=> j = i \/ IsFalling(chars[j])
    BY <1>1, <1>2, <1>3 DEF SlotsOK
  <2>3. QED BY <1>2, <2>1, <2>2 DEF FallingIn
<1>6. IsFiniteSet(FallingIn(chars))
  BY SlotSets DEF FallingIn
<1>7. QED BY <1>4, <1>5, <1>6, FS_AddElement

\* The arithmetic of the score, where every counter wraps.
LEMMA ScoreAdds ==
  ASSUME NEW h \in Counter, NEW m \in Counter, NEW F \in Nat, NEW k \in Nat, NEW l \in Nat, l <= F + k
  PROVE  Add(Add(h + m, F), k) = Add(h + Add(m, l), F + k - l)
<1>0. IntSize \in Nat \ {0} /\ h \in Nat /\ m \in Nat
  BY GameAssumption DEF Counter
<1>1. Add(Add(h + m, F), k) = (h + m + F + k) % IntSize
  <2>1. h + m + F \in Nat
    BY <1>0
  <2>2. QED BY <1>0, <2>1, ModSum DEF Add
<1>2. Add(h + Add(m, l), F + k - l) = (h + m + F + k) % IntSize
  <2> DEFINE b == h + F + k - l
  <2>1. m + l \in Nat /\ b \in Nat /\ (m + l) % IntSize \in Nat
    <3>1. m + l \in Int
      BY <1>0
    <3>2. QED BY <1>0, <3>1, ModRange
  <2>2. (((m + l) % IntSize) + b) % IntSize = ((m + l) + b) % IntSize
    <3> HIDE DEF b
    <3>1. QED BY <1>0, <2>1, ModSum
  <2>3. h + ((m + l) % IntSize) + (F + k - l) = ((m + l) % IntSize) + b
    BY <1>0, <2>1
  <2>4. (m + l) + b = h + m + F + k
    BY <1>0
  <2>5. QED BY <2>2, <2>3, <2>4, Zenon DEF Add
<1>3. QED BY <1>1, <1>2

\* A frame scores what lands in it.
LEMMA FrameScores ==
  ASSUME GameInv, NEW h \in Letters, NEW v \in Speeds, game_logic_update(h, v)
  PROVE  GameInv'
<1> DEFINE new == frame % (FPS \div CPS) = 0
           cs == IF new THEN new_char(h, v) ELSE chars
<1>0. SlotsOK(chars) /\ IntSize \in Nat \ {0}
  BY GameAssumption DEF GameInv, SlotsOK
<1>1. PICK k \in {0, 1} :
        /\ SlotsOK(cs) /\ Cardinality(FallingIn(cs)) = Cardinality(FallingIn(chars)) + k
        /\ created' = IF k = 1 THEN Add(created, 1) ELSE created
  <2>1. CASE new /\ Free(chars) # {}
    <3>1. cs = new_char(h, v) /\ created' = Add(created, 1)
      BY <2>1 DEF game_logic_update
    <3>2. QED BY <1>0, <2>1, <3>1, NewCounts
  <2>2. CASE ~ (new /\ Free(chars) # {})
    <3>1. cs = chars /\ created' = created
      BY <2>2 DEF game_logic_update, new_char
    <3>2. Cardinality(FallingIn(chars)) \in Nat
      BY SlotSets DEF FallingIn
    <3>3. QED BY <1>0, <3>1, <3>2
  <2>3. QED BY <2>1, <2>2
<1>2. /\ chars' = [i \in Slot |-> fall(cs[i])]
      /\ miss' = Add(miss, Cardinality(LandingIn(cs))) /\ hit' = hit
  BY DEF game_logic_update, LandingIn
<1> HIDE DEF cs
<1>3. SlotsOK(chars') /\ Cardinality(FallingIn(chars'))
        = Cardinality(FallingIn(cs)) - Cardinality(LandingIn(cs))
  BY <1>1, <1>2, FrameCounts
<1>4. PICK F \in Nat, l \in Nat, F2 \in Nat :
        F = Cardinality(FallingIn(chars)) /\ l = Cardinality(LandingIn(cs))
        /\ F2 = Cardinality(FallingIn(chars'))
  BY SlotSets DEF FallingIn, LandingIn
<1>5. F2 = F + k - l /\ l <= F + k /\ k \in Nat
  BY <1>1, <1>3, <1>4
<1>6. hit \in Counter /\ miss \in Counter /\ created \in Counter /\ created = Add(hit + miss, F)
  BY <1>4 DEF GameInv, ScoredOnce, Falling, FallingIn, IsFalling
<1>7. created' = Add(created, k)
  <2>1. created % IntSize = created /\ created + 0 = created
    BY <1>0, <1>6, ModSmall DEF Counter
  <2>2. QED BY <1>1, <2>1 DEF Add
<1>8. created' = Add(hit' + miss', F2)
  BY <1>2, <1>4, <1>5, <1>6, <1>7, ScoreAdds
<1>9. miss' \in Counter /\ created' \in Counter
  <2>1. miss + l \in Int /\ created + k \in Int
    BY <1>0, <1>5, <1>6 DEF Counter
  <2>2. QED BY <1>0, <1>2, <1>4, <1>7, <2>1, ModRange DEF Add, Counter
<1>10. QED
  BY <1>2, <1>3, <1>4, <1>6, <1>8, <1>9
     DEF GameInv, ScoredOnce, Falling, FallingIn, IsFalling, SlotsOK

\* The letter of a hit is one of those that match.
LEMMA HitExists ==
  ASSUME GameInv, NEW h \in Letters, matches(h) # {}
  PROVE  \E i \in matches(h) : \A j \in matches(h) :
           chars[i].y > chars[j].y \/ (chars[i].y = chars[j].y /\ i <= j)
<1> DEFINE M == matches(h)
           H == {Bottom - chars[i].y : i \in M}
<1>0. Bottom \in Nat /\ None \notin Letters /\ M \subseteq Slot /\ Slot \subseteq Nat
  BY GameAssumption DEF matches, Slot
<1>1. ASSUME NEW i \in M PROVE chars[i].y \in Int /\ chars[i].y < Bottom
  BY <1>0 DEF GameInv, Chars, CharOK, matches
<1>2. H \in SUBSET Nat /\ H # {}
  BY <1>0, <1>1
<1>3. PICK b \in H : \A d \in H : b <= d
  BY <1>2, LeastElement
<1> DEFINE E == {i \in M : Bottom - chars[i].y = b}
<1>4. E \in SUBSET Nat /\ E # {}
  BY <1>0, <1>3
<1>5. PICK i \in E : \A j \in E : i <= j
  BY <1>4, LeastElement
<1>6. ASSUME NEW j \in M
      PROVE  chars[i].y > chars[j].y \/ (chars[i].y = chars[j].y /\ i <= j)
  <2>1. chars[i].y \in Int /\ chars[j].y \in Int /\ Bottom - chars[i].y <= Bottom - chars[j].y
    BY <1>1, <1>3, <1>5
  <2>2. CASE Bottom - chars[j].y = b
    BY <1>0, <1>5, <2>1, <2>2
  <2>3. CASE Bottom - chars[j].y # b
    BY <1>0, <1>5, <2>1, <2>3
  <2>4. QED BY <2>2, <2>3
<1>7. QED BY <1>5, <1>6

\* A key takes one letter from those that fall, or is wrong.
LEMMA HitScores ==
  ASSUME GameInv, NEW h \in Letters, check_hit(h)
  PROVE  GameInv'
<1>0. SlotsOK(chars) /\ IntSize \in Nat \ {0} /\ None \notin Letters
  BY GameAssumption DEF GameInv, SlotsOK
<1>1. CASE matches(h) = {}
  <2>1. UNCHANGED <<chars, hit, miss, created>>
    BY <1>1 DEF check_hit
  <2>2. QED BY <2>1 DEF GameInv, ScoredOnce, Falling
<1>2. CASE matches(h) # {}
  <2> DEFINE u == -((Bottom + 1) \div FPS)
  <2>1. PICK m \in matches(h) : chars' = [chars EXCEPT ![m].v = u]
    BY <1>2, HitExists DEF check_hit
  <2>2. hit' = Add(hit, 1) /\ miss' = miss /\ created' = created
    BY <1>2 DEF check_hit
  <2>3. u \in Int /\ ~ (u > 0)
    BY SpeedSigns
  <2> HIDE DEF u
  <2>4. m \in Slot /\ m \in FallingIn(chars)
    BY <1>0, <2>1 DEF matches, FallingIn, IsFalling
  <2>5. ASSUME NEW i \in Slot
        PROVE  /\ chars'[i] \in Chars /\ CharOK(chars'[i])
               /\ IsFalling(chars'[i]) <=> i # m /\ IsFalling(chars[i])
    <3>1. chars[i] \in Chars /\ CharOK(chars[i])
      BY <1>0 DEF SlotsOK
    <3>2. CASE i = m
      <4> DEFINE d == [chars[i] EXCEPT !.v = u]
      <4>1. d \in Chars /\ d.ch = chars[i].ch /\ d.y = chars[i].y /\ d.v = u /\ d.t = chars[i].t
        BY <2>3, <3>1 DEF Chars
      <4>2. chars'[i] = d
        BY <1>0, <2>1, <2>4, <3>2 DEF SlotsOK
      <4> HIDE DEF d
      <4>3. QED BY <2>3, <3>1, <3>2, <4>1, <4>2 DEF CharOK, IsFalling
    <3>3. CASE i # m
      <4>1. chars'[i] = chars[i]
        BY <1>0, <2>1, <3>3 DEF SlotsOK
      <4>2. QED BY <3>1, <3>3, <4>1
    <3>4. QED BY <3>2, <3>3
  <2>6. SlotsOK(chars')
    <3>1. chars' = [i \in Slot |-> chars'[i]]
      BY <1>0, <2>1 DEF SlotsOK
    <3>2. QED BY <2>5, <3>1 DEF SlotsOK
  <2>7. FallingIn(chars') = FallingIn(chars) \ {m}
    BY <2>5 DEF FallingIn
  <2>8. PICK F \in Nat, F2 \in Nat :
          F = Cardinality(FallingIn(chars)) /\ F2 = Cardinality(FallingIn(chars')) /\ F2 = F - 1
    <3>1. IsFiniteSet(FallingIn(chars)) /\ Cardinality(FallingIn(chars)) \in Nat
          /\ Cardinality(FallingIn(chars')) \in Nat
      BY SlotSets DEF FallingIn
    <3>2. QED BY <2>4, <2>7, <3>1, FS_RemoveElement
  <2>9. hit \in Counter /\ miss \in Counter /\ created \in Counter /\ created = Add(hit + miss, F)
    BY <2>8 DEF GameInv, ScoredOnce, Falling, FallingIn, IsFalling
  <2>10. Add(hit + miss, F) \in Nat /\ Add(hit + miss, F) < IntSize
    BY <1>0, <2>9 DEF Counter
  <2>11. created' = Add(hit' + miss', F2)
    <3>1. Add(Add(miss + hit, F), 0) = Add(miss + Add(hit, 1), F + 0 - 1)
      <4>1. 1 <= F + 0
        BY <2>8
      <4>2. QED BY <2>9, <4>1, ScoreAdds
    <3>2. Add(Add(hit + miss, F), 0) = Add(hit + miss, F)
      BY <1>0, <2>10, ModSmall DEF Add
    <3>3. miss + hit = hit + miss /\ F + 0 - 1 = F2
      BY <2>8, <2>9 DEF Counter
    <3>4. hit' \in Int /\ miss' \in Int
      <4>1. hit + 1 \in Int
        BY <2>9 DEF Counter
      <4>2. QED BY <1>0, <2>2, <2>9, <4>1, ModRange DEF Add, Counter
    <3>5. miss + Add(hit, 1) = hit' + miss'
      BY <2>2, <3>4
    <3>6. QED BY <2>2, <2>9, <3>1, <3>2, <3>3, <3>5
  <2>12. hit' \in Counter
    <3>1. hit + 1 \in Int
      BY <2>9 DEF Counter
    <3>2. QED BY <1>0, <2>2, <3>1, ModRange DEF Add, Counter
  <2>13. QED
    BY <2>2, <2>6, <2>8, <2>9, <2>11, <2>12
       DEF GameInv, ScoredOnce, Falling, FallingIn, IsFalling, SlotsOK
<1>3. QED BY <1>1, <1>2

(***************************************************************************)
(* Every letter of the typing game is scored once (ScoredOnce), for every  *)
(* number of slots, size of the screen, rate of frames and of letters and  *)
(* width of the counters: a letter that was hit keeps its place with a     *)
(* negative speed, so it can neither land nor be hit again.                *)
(***************************************************************************)
THEOREM LettersScoredOnce == GameSpec => []ScoredOnce
<1>1. GameInit => GameInv
  <2> SUFFICES ASSUME GameInit PROVE GameInv
    OBVIOUS
  <2>1. IntSize \in Nat \ {0}
    BY GameAssumption
  <2>2. chars \in [Slot -> Chars] /\ \A i \in Slot : chars[i].ch = None
    BY DEF GameInit, Chars
  <2>3. Falling = {}
    BY <2>2 DEF Falling
  <2>4. Cardinality(Falling) = 0
    BY <2>3, FS_EmptySet
  <2>5. ScoredOnce
    BY <2>1, <2>4, ModSmall DEF ScoredOnce, GameInit, Add
  <2>6. QED BY <2>1, <2>2, <2>5 DEF GameInv, GameInit, CharOK, Counter
<1>2. GameInv /\ [GameNext]_gameVars => GameInv'
  <2> SUFFICES ASSUME GameInv, [GameNext]_gameVars PROVE GameInv'
    OBVIOUS
  <2>1. CASE UNCHANGED gameVars
    BY <2>1 DEF gameVars, GameInv, ScoredOnce, Falling
  <2>2. QED BY <2>1, FrameScores, HitScores DEF GameNext, Frame
<1>3. GameInv => ScoredOnce
  BY DEF GameInv
<1>4. QED BY <1>1, <1>2, <1>3, PTL DEF GameSpec

----------------------------------------------------------------------------
(* Address spaces.  The list of a space no page of which was mapped twice  *)
(* is described by what lies on it from each record on; the list of any    *)
(* other by a set of records that none of them leads out of.               *)

Pages     == PageMap \cup {NULL}
AnySpace  == Space \cup {NULL}
LiveOf(s) == {p \in PageMap : p[1] = s /\ pa[p] # NULL}

Linked    == {p \in PageMap : pa[p] # NULL} \cup {NULL}

Switches  == [at : {"idle", "unmap", "map"}, pp : Pages, to : AnySpace]

VmeTypes ==
  /\ head \in [Space -> Pages] /\ next \in [PageMap -> Pages]
  /\ pa \in [PageMap -> Pa \cup {NULL}]
  /\ is_mapped \in [PageMap -> BOOLEAN]
  /\ host \in [CPU -> [Va -> Pa \cup {NULL}]]
  /\ vm_head \in [CPU -> AnySpace]
  /\ sw \in [CPU -> Switches]
  /\ twice \subseteq Space

\* A record is on the list of its own space, and a switch goes through the
\* list of the space it leaves or enters.
OfSpace(p, s) == p # NULL => p[1] = s

Through(c) == IF sw[c].at = "unmap" THEN vm_head[c] ELSE sw[c].to

SameSpace ==
  /\ \A s \in Space : OfSpace(head[s], s)
  /\ \A p \in PageMap : OfSpace(next[p], p[1])
  /\ \A c \in CPU : OfSpace(sw[c].pp, Through(c)) /\ (sw[c].at = "idle" => sw[c].pp = NULL)

\* A process that has not shared a space has its spaces to itself.
Alone(c) == \A d \in CPU, s \in Space : c # d => ~ (In(c, s) /\ In(d, s))

NoShare == \A c \in CPU \ strays : Alone(c)

\* onward[p]: the records from p to the end of its list.
Lists(onward) ==
  /\ onward \in [Pages -> SUBSET PageMap] /\ onward[NULL] = {}
  /\ \A s \in Space \ twice : head[s] \in Linked /\ onward[head[s]] = LiveOf(s)
  /\ \A p \in PageMap : pa[p] # NULL /\ p[1] \notin twice =>
       /\ next[p] \in Linked
       /\ onward[p] = onward[next[p]] \cup {p} /\ p \notin onward[next[p]]
       /\ onward[p] \subseteq LiveOf(p[1])

\* Once on a list that was linked twice, there is no end of it.
Endless(K) ==
  /\ K \subseteq PageMap
  /\ \A p \in K : next[p] \in K /\ p[1] \in twice
  /\ \A s \in twice : head[s] \in K

\* Process c has the pages T of space s mapped, and no other.
Shown(c, s, T) ==
  /\ \A p \in T : is_mapped[p]
  /\ \A v \in Va : host[c][v] = IF <<s, v>> \in T THEN pa[<<s, v>>] ELSE NULL

\* What c has mapped, wherever it is in a switch.
Staying(c) == sw[c].at = "idle" => Shown(c, vm_head[c], LiveOf(vm_head[c]))

OnList(p, onward, s) == onward[p] \subseteq LiveOf(s) /\ (p # NULL => p \in onward[p])

Leaving(c, onward, K) ==
  sw[c].at = "unmap" =>
    /\ vm_head[c] \in twice => sw[c].pp \in K
    /\ vm_head[c] \notin twice =>
         /\ OnList(sw[c].pp, onward, vm_head[c])
         /\ Shown(c, vm_head[c], onward[sw[c].pp])

Entering(c, onward, K) ==
  sw[c].at = "map" =>
    /\ vm_head[c] \notin twice
    /\ sw[c].to \in twice => sw[c].pp \in K
    /\ sw[c].to \notin twice =>
         /\ OnList(sw[c].pp, onward, sw[c].to)
         /\ Shown(c, sw[c].to, LiveOf(sw[c].to) \ onward[sw[c].pp])

Place(c, onward, K) == Staying(c) /\ Leaving(c, onward, K) /\ Entering(c, onward, K)

Described(onward, K) ==
  /\ Lists(onward) /\ Endless(K)
  /\ \A c \in CPU \ strays : Place(c, onward, K)

VmeInv ==
  /\ VmeTypes /\ SameSpace /\ NoShare
  /\ \E onward \in [Pages -> SUBSET PageMap], K \in SUBSET PageMap : Described(onward, K)

\* A record is its space and its page.
LEMMA Records ==
  /\ \A p \in PageMap : p[1] \in Space /\ p[2] \in Va /\ p = <<p[1], p[2]>>
  /\ \A s \in Space, v \in Va : <<s, v>> \in PageMap /\ <<s, v>>[1] = s /\ <<s, v>>[2] = v
  /\ NULL \notin PageMap /\ NULL \notin Space /\ NULL \notin Pa
BY NullAssumption DEF PageMap

\* A switch begins at the head of a list that holds the space's pages, or has
\* no end.
LEMMA FromHead ==
  ASSUME VmeTypes, SameSpace, NEW onward, Lists(onward), NEW K, Endless(K),
         NEW s \in AnySpace
  PROVE  /\ First(s) \in Pages
         /\ s \in twice => First(s) \in K
         /\ s \notin twice => onward[First(s)] = LiveOf(s) /\ OnList(First(s), onward, s)
<1>1. CASE s = NULL
  <2>1. LiveOf(s) = {}
    BY <1>1, Records DEF LiveOf
  <2>2. First(s) = NULL /\ s \notin twice
    BY <1>1, Records DEF First, VmeTypes
  <2>3. QED BY <2>1, <2>2 DEF Lists, Pages, OnList
<1>2. CASE s \in Space
  <2>1. First(s) = head[s] /\ head[s] \in Pages
    BY <1>2, Records DEF First, VmeTypes
  <2>2. s \in twice => head[s] \in K
    BY DEF Endless
  <2>3. ASSUME s \notin twice PROVE onward[head[s]] = LiveOf(s) /\ OnList(head[s], onward, s)
    <3>1. head[s] \in Linked /\ onward[head[s]] = LiveOf(s)
      BY <1>2, <2>3 DEF Lists
    <3>2. ASSUME head[s] # NULL PROVE head[s] \in onward[head[s]]
      <4>1. PICK h \in PageMap : h = head[s] /\ pa[h] # NULL
        BY <3>1, <3>2 DEF Linked
      <4>2. h[1] = s
        BY <1>2, <3>2, <4>1 DEF SameSpace, OfSpace
      <4>3. QED BY <2>3, <4>1, <4>2 DEF Lists
    <3>3. QED BY <3>1, <3>2 DEF OnList
  <2>4. QED BY <2>1, <2>2, <2>3
<1>3. QED BY <1>1, <1>2 DEF AnySpace

\* What the steps of others and its own calls of map for another space leave
\* alone of the spaces c is in.
Apart(c) ==
  /\ sw'[c] = sw[c] /\ vm_head'[c] = vm_head[c] /\ host'[c] = host[c]
  /\ \A p \in PageMap : In(c, p[1]) => is_mapped'[p] = is_mapped[p] /\ pa'[p] = pa[p]
  /\ \A s \in Space : In(c, s) => (s \in twice' <=> s \in twice)

\* The lists may change elsewhere.
Elsewhere(c, onward, new) ==
  new[NULL] = onward[NULL] /\ \A p \in PageMap : In(c, p[1]) => new[p] = onward[p]

\* Where c was it still is.
LEMMA ApartKeeps ==
  ASSUME VmeTypes, VmeTypes', SameSpace, NEW c \in CPU, Apart(c),
         NEW onward, NEW K, Place(c, onward, K),
         NEW new, Elsewhere(c, onward, new), NEW L, K \subseteq L
  PROVE  Place(c, new, L)'
<1>0. PICK o, t, p, at : o = vm_head[c] /\ t = sw[c].to /\ p = sw[c].pp /\ at = sw[c].at
  OBVIOUS
<1>1. /\ vm_head'[c] = o /\ sw'[c].to = t /\ sw'[c].pp = p /\ sw'[c].at = at
      /\ o \in AnySpace /\ t \in AnySpace /\ p \in Pages
  BY <1>0 DEF VmeTypes, Apart, Switches
<1>2. ASSUME NEW s \in AnySpace, s = NULL \/ In(c, s)
      PROVE  /\ LiveOf(s)' = LiveOf(s)
             /\ s \in twice' <=> s \in twice
             /\ \A T : T \subseteq LiveOf(s) /\ Shown(c, s, T) => Shown(c, s, T)'
             /\ \A q \in Pages : OfSpace(q, s) => new[q] = onward[q]
  <2>1. \A q \in PageMap : q[1] = s => In(c, s)
    BY <1>2, Records
  <2>2. \A q \in PageMap : q[1] = s => is_mapped'[q] = is_mapped[q] /\ pa'[q] = pa[q]
    BY <2>1 DEF Apart
  <2>3. LiveOf(s)' = LiveOf(s)
    BY <2>2 DEF LiveOf
  <2>4. s \in twice' <=> s \in twice
    BY <1>2, Records DEF VmeTypes, Apart, AnySpace
  <2>5. ASSUME NEW T, T \subseteq LiveOf(s), Shown(c, s, T) PROVE Shown(c, s, T)'
    <3>1. \A q \in T : q \in PageMap /\ q[1] = s
      BY <2>5 DEF LiveOf
    <3>2. \A q \in T : is_mapped'[q]
      BY <2>2, <2>5, <3>1 DEF Shown
    <3>3. \A v \in Va : <<s, v>> \in T => pa'[<<s, v>>] = pa[<<s, v>>]
      BY <2>2, <3>1
    <3>4. host'[c] = host[c]
      BY DEF Apart
    <3>5. QED BY <2>5, <3>2, <3>3, <3>4 DEF Shown
  <2>6. \A q \in Pages : OfSpace(q, s) => new[q] = onward[q]
    BY <2>1 DEF Pages, OfSpace, Elsewhere
  <2>7. QED BY <2>3, <2>4, <2>5, <2>6
<1>3. o = NULL \/ In(c, o)
  BY <1>0 DEF In
<1>4. at # "idle" => t = NULL \/ In(c, t)
  BY <1>0 DEF In
<1>5. Staying(c)'
  BY <1>0, <1>1, <1>2, <1>3 DEF Place, Staying
<1>6. ASSUME at = "unmap" PROVE OfSpace(p, o)
  BY <1>0, <1>6 DEF SameSpace, Through
<1>7. ASSUME at = "map" PROVE OfSpace(p, t)
  BY <1>0, <1>7 DEF SameSpace, Through
<1>8. Leaving(c, new, L)'
  <2> SUFFICES ASSUME at = "unmap"
               PROVE  /\ o \in twice' => p \in L
                      /\ o \notin twice' => OnList(p, new, o)' /\ Shown(c, o, new[p])'
    BY <1>1 DEF Leaving
  <2>1. /\ o \in twice => p \in K
        /\ o \notin twice => OnList(p, onward, o) /\ Shown(c, o, onward[p])
    BY <1>0 DEF Place, Leaving
  <2>2. /\ LiveOf(o)' = LiveOf(o) /\ (o \in twice' <=> o \in twice)
        /\ \A T : T \subseteq LiveOf(o) /\ Shown(c, o, T) => Shown(c, o, T)'
        /\ new[p] = onward[p]
    BY <1>1, <1>2, <1>3, <1>6
  <2>3. QED BY <2>1, <2>2 DEF OnList
<1>9. Entering(c, new, L)'
  <2> SUFFICES ASSUME at = "map"
               PROVE  /\ o \notin twice'
                      /\ t \in twice' => p \in L
                      /\ t \notin twice' => OnList(p, new, t)' /\ Shown(c, t, LiveOf(t) \ new[p])'
    BY <1>1 DEF Entering
  <2>1. /\ o \notin twice
        /\ t \in twice => p \in K
        /\ t \notin twice => OnList(p, onward, t) /\ Shown(c, t, LiveOf(t) \ onward[p])
    BY <1>0 DEF Place, Entering
  <2>2. o \in twice' <=> o \in twice
    BY <1>1, <1>2, <1>3
  <2>3. /\ LiveOf(t)' = LiveOf(t) /\ (t \in twice' <=> t \in twice)
        /\ \A T : T \subseteq LiveOf(t) /\ Shown(c, t, T) => Shown(c, t, T)'
        /\ new[p] = onward[p]
    BY <1>1, <1>2, <1>4, <1>7
  <2>4. LiveOf(t) \ onward[p] \subseteq LiveOf(t)
    OBVIOUS
  <2>5. t \notin twice => Shown(c, t, LiveOf(t) \ onward[p])'
    BY <2>1, <2>3, <2>4
  <2>6. QED BY <2>1, <2>2, <2>3, <2>5 DEF OnList
<1>10. QED BY <1>5, <1>8, <1>9 DEF Place

\* A step of a switch, or its beginning.
Switch(c) == SwitchStep(c) \/ \E s \in AnySpace : am_switch(c, s)

\* What a switch of d changes: its own place, and flags of a space it is in.
Only(d) ==
  /\ UNCHANGED <<head, next, pa, twice>>
  /\ \A c \in CPU : c # d => sw'[c] = sw[c] /\ vm_head'[c] = vm_head[c] /\ host'[c] = host[c]
  /\ \A p \in PageMap : ~ In(d, p[1]) => is_mapped'[p] = is_mapped[p]

\* A switch keeps types, goes through its own space's list, and changes nothing else.
LEMMA SwitchTypes ==
  ASSUME VmeTypes, SameSpace, NEW d \in CPU, Switch(d)
  PROVE  VmeTypes' /\ SameSpace' /\ Only(d)
<1>0. sw[d] \in Switches /\ vm_head[d] \in AnySpace
  BY DEF VmeTypes
<1>1. ASSUME NEW s \in AnySpace PROVE First(s) \in Pages /\ OfSpace(First(s), s)
  BY Records DEF First, VmeTypes, SameSpace, OfSpace, AnySpace, Pages
<1>2. ASSUME NEW rec \in Switches, NEW o \in AnySpace, sw' = [sw EXCEPT ![d] = rec],
             vm_head' = [vm_head EXCEPT ![d] = o], UNCHANGED <<head, next>>,
             OfSpace(rec.pp, IF rec.at = "unmap" THEN o ELSE rec.to), rec.at = "idle" => rec.pp = NULL
      PROVE  SameSpace'
  <2>1. ASSUME NEW c \in CPU
        PROVE  OfSpace(sw'[c].pp, Through(c)') /\ (sw'[c].at = "idle" => sw'[c].pp = NULL)
    <3>1. CASE c = d
      BY <1>2, <3>1 DEF VmeTypes, Through
    <3>2. CASE c # d
      <4>1. sw'[c] = sw[c] /\ vm_head'[c] = vm_head[c]
        BY <1>2, <3>2 DEF VmeTypes
      <4>2. QED BY <4>1 DEF SameSpace, Through
    <3>3. QED BY <3>1, <3>2
  <2>2. QED BY <1>2, <2>1 DEF SameSpace
<1>3. \A c \in CPU : (vm_head' = vm_head => vm_head' = [vm_head EXCEPT ![d] = vm_head[d]])
  BY DEF VmeTypes
<1>4. ASSUME NEW s \in AnySpace, am_switch(d, s) PROVE VmeTypes' /\ SameSpace' /\ Only(d)
  <2>1. PICK rec : rec = [at |-> "unmap", pp |-> First(vm_head[d]), to |-> s]
    OBVIOUS
  <2>2. sw' = [sw EXCEPT ![d] = rec] /\ UNCHANGED <<head, next, pa, is_mapped, vm_head, host, twice>>
    BY <1>4, <2>1 DEF am_switch
  <2>3. /\ rec \in Switches /\ rec.at = "unmap" /\ OfSpace(rec.pp, vm_head[d])
    BY <1>0, <1>1, <2>1 DEF Switches
  <2>4. VmeTypes'
    BY <2>2, <2>3 DEF VmeTypes
  <2>5. SameSpace'
    BY <1>0, <1>2, <1>3, <2>2, <2>3
  <2>6. QED BY <2>2, <2>4, <2>5 DEF Only, VmeTypes
<1>5. ASSUME unmapped(d) PROVE VmeTypes' /\ SameSpace' /\ Only(d)
  <2>1. PICK rec : rec = [sw[d] EXCEPT !.at = "map", !.pp = First(sw[d].to)]
    OBVIOUS
  <2>2. sw' = [sw EXCEPT ![d] = rec] /\ UNCHANGED <<head, next, pa, is_mapped, vm_head, host, twice>>
    BY <1>0, <1>5, <2>1 DEF unmapped, vmeHistory, VmeTypes
  <2>3. /\ rec \in Switches /\ rec.at = "map" /\ OfSpace(rec.pp, rec.to)
    BY <1>0, <1>1, <2>1 DEF Switches
  <2>4. VmeTypes'
    BY <2>2, <2>3 DEF VmeTypes
  <2>5. SameSpace'
    BY <1>0, <1>2, <1>3, <2>2, <2>3
  <2>6. QED BY <2>2, <2>4, <2>5 DEF Only, VmeTypes
<1>6. ASSUME switched(d) PROVE VmeTypes' /\ SameSpace' /\ Only(d)
  <2>1. PICK o : o = sw[d].to
    OBVIOUS
  <2>2. /\ sw' = [sw EXCEPT ![d] = Idle] /\ vm_head' = [vm_head EXCEPT ![d] = o]
        /\ UNCHANGED <<head, next, pa, is_mapped, host, twice>> /\ o \in AnySpace
    BY <1>0, <1>6, <2>1 DEF switched, vmeHistory, Switches
  <2>3. Idle \in Switches /\ Idle.at = "idle" /\ Idle.pp = NULL
    BY DEF Idle, Switches, Pages, AnySpace
  <2>4. VmeTypes'
    BY <2>2, <2>3 DEF VmeTypes
  <2>5. SameSpace'
    BY <1>2, <2>2, <2>3 DEF OfSpace
  <2>6. QED BY <2>2, <2>4, <2>5 DEF Only, VmeTypes
<1>7. ASSUME unmap_page(d) \/ map_page(d) PROVE VmeTypes' /\ SameSpace' /\ Only(d)
  <2>1. PICK p : p = sw[d].pp
    OBVIOUS
  <2>2. PICK rec : rec = [sw[d] EXCEPT !.pp = next[p]]
    OBVIOUS
  <2>3. /\ sw[d].at # "idle" /\ p # NULL /\ sw' = [sw EXCEPT ![d] = rec]
        /\ UNCHANGED <<head, next, pa, vm_head, twice>>
    BY <1>0, <1>7, <2>1, <2>2 DEF unmap_page, map_page, vmeHistory, VmeTypes
  <2>4. p \in PageMap /\ p[1] = Through(d) /\ In(d, p[1])
    <3>1. p \in PageMap
      BY <1>0, <2>1, <2>3 DEF Switches, Pages
    <3>2. p[1] = Through(d)
      BY <2>1, <2>3 DEF SameSpace, OfSpace
    <3>3. QED BY <2>3, <3>1, <3>2 DEF Through, In
  <2>5. next[p] \in Pages /\ OfSpace(next[p], p[1])
    BY <2>4 DEF VmeTypes, SameSpace
  <2>6. /\ rec \in Switches /\ rec.at = sw[d].at /\ rec.pp = next[p] /\ rec.to = sw[d].to
    BY <1>0, <2>2, <2>5 DEF Switches
  <2>7. PICK b \in BOOLEAN : is_mapped' = [is_mapped EXCEPT ![p] = b]
    BY <1>7, <2>1 DEF unmap_page, map_page
  <2>8. PICK f \in [Va -> Pa \cup {NULL}] : host' = [host EXCEPT ![d] = f]
    <3>1. p[2] \in Va /\ pa[p] \in Pa \cup {NULL} /\ host[d] \in [Va -> Pa \cup {NULL}]
      BY <2>4, Records DEF VmeTypes
    <3>2. \/ host' = host
          \/ host' = [host EXCEPT ![d][p[2]] = NULL]
          \/ host' = [host EXCEPT ![d][p[2]] = pa[p]]
      BY <1>7, <2>1 DEF unmap_page, map_page
    <3>3. \/ host' = [host EXCEPT ![d] = host[d]]
          \/ host' = [host EXCEPT ![d] = [host[d] EXCEPT ![p[2]] = NULL]]
          \/ host' = [host EXCEPT ![d] = [host[d] EXCEPT ![p[2]] = pa[p]]]
      BY <3>2 DEF VmeTypes
    <3>4. /\ [host[d] EXCEPT ![p[2]] = NULL] \in [Va -> Pa \cup {NULL}]
          /\ [host[d] EXCEPT ![p[2]] = pa[p]] \in [Va -> Pa \cup {NULL}]
      BY <3>1
    <3>5. QED BY <3>1, <3>3, <3>4
  <2>9. VmeTypes'
    BY <2>3, <2>6, <2>7, <2>8 DEF VmeTypes
  <2>10. SameSpace'
    <3>1. OfSpace(rec.pp, IF rec.at = "unmap" THEN vm_head[d] ELSE rec.to)
      BY <2>4, <2>5, <2>6 DEF Through
    <3>2. QED BY <1>0, <1>2, <1>3, <2>3, <2>6, <3>1
  <2>11. QED BY <2>3, <2>4, <2>7, <2>8, <2>9, <2>10 DEF Only, VmeTypes
<1>8. QED BY <1>4, <1>5, <1>6, <1>7 DEF Switch, SwitchStep

\* Whoever comes to share a space is a stray from then on.
LEMMA ShareKept ==
  ASSUME VmeTypes, NoShare, NEW d \in CPU,
         Switch(d) \/ \E s \in Space, v \in Va, p \in Pa : map(d, s, v, p)
  PROVE  NoShare' /\ strays \subseteq strays'
<1>1. ASSUME UNCHANGED <<vm_head, sw>>, strays \subseteq strays' PROVE NoShare'
  BY <1>1 DEF NoShare, Alone, In
<1>2. ASSUME NEW s \in Space, NEW v \in Va, NEW p \in Pa, map(d, s, v, p)
      PROVE  NoShare' /\ strays \subseteq strays'
  BY <1>1, <1>2 DEF map
<1>3. ASSUME NEW s \in AnySpace, am_switch(d, s) PROVE NoShare' /\ strays \subseteq strays'
  <2>1. /\ vm_head' = vm_head /\ sw[d].at = "idle"
        /\ sw' = [sw EXCEPT ![d] = [at |-> "unmap", pp |-> First(vm_head[d]), to |-> s]]
        /\ strays' = IF s = NULL \/ Others(d, s) = {} THEN strays
                     ELSE strays \cup Others(d, s) \cup {d}
    BY <1>3 DEF am_switch
  <2>2. \A c \in CPU : \A r : In(c, r)' <=> In(c, r) \/ (c = d /\ r = s)
    BY <2>1 DEF In, VmeTypes
  <2>3. strays \subseteq strays'
    BY <2>1
  <2>4. ASSUME NEW c \in CPU \ strays', NEW b \in CPU, NEW r \in Space, c # b, In(c, r)', In(b, r)'
        PROVE  FALSE
    <3>1. ~ (In(c, r) /\ In(b, r))
      BY <2>3, <2>4 DEF NoShare, Alone
    <3>2. CASE c = d /\ r = s
      <4>1. b \in Others(d, s)
        BY <2>2, <2>4, <3>2 DEF Others
      <4>2. QED BY <2>1, <2>4, <3>2, <4>1, Records
    <3>3. CASE b = d /\ r = s
      <4>1. c \in Others(d, s)
        BY <2>2, <2>4, <3>3 DEF Others
      <4>2. QED BY <2>1, <2>4, <3>3, <4>1, Records
    <3>4. QED BY <2>2, <2>4, <3>1, <3>2, <3>3
  <2>5. QED BY <2>3, <2>4 DEF NoShare, Alone
<1>4. ASSUME SwitchStep(d) PROVE NoShare' /\ strays \subseteq strays'
  <2>1. strays' = strays
    BY <1>4 DEF SwitchStep, unmap_page, unmapped, map_page, switched, vmeHistory
  <2>2. \A c \in CPU, r \in Space : In(c, r)' => In(c, r)
    <3>1. CASE switched(d)
      <4>1. sw' = [sw EXCEPT ![d] = Idle] /\ vm_head' = [vm_head EXCEPT ![d] = sw[d].to]
            /\ sw[d].at = "map"
        BY <3>1 DEF switched
      <4>2. QED BY <4>1 DEF In, VmeTypes, Idle
    <3>2. CASE unmap_page(d) \/ unmapped(d) \/ map_page(d)
      <4>1. /\ vm_head' = vm_head /\ sw[d].at # "idle"
            /\ \A c \in CPU : sw'[c].to = sw[c].to /\ (sw'[c].at # "idle" => sw[c].at # "idle")
        BY <3>2 DEF unmap_page, unmapped, map_page, VmeTypes, Switches
      <4>2. QED BY <4>1 DEF In
    <3>3. QED BY <1>4, <3>1, <3>2 DEF SwitchStep
  <2>3. QED BY <2>1, <2>2 DEF NoShare, Alone
<1>5. QED BY <1>2, <1>3, <1>4 DEF Switch

\* The place of c in its own switch.
LEMMA OwnKept ==
  ASSUME VmeTypes, VmeTypes', SameSpace, NEW c \in CPU, Switch(c),
         NEW onward, Lists(onward), NEW K, Endless(K), Place(c, onward, K)
  PROVE  Place(c, onward, K)'
<1>1. PICK o, t, p : o = vm_head[c] /\ t = sw[c].to /\ p = sw[c].pp
  OBVIOUS
<1>2. sw[c] \in Switches /\ o \in AnySpace /\ t \in AnySpace /\ p \in Pages
  BY <1>1 DEF VmeTypes, Switches
<1>3. UNCHANGED <<pa, twice>> /\ \A s : LiveOf(s)' = LiveOf(s)
  BY DEF Switch, SwitchStep, am_switch, unmap_page, unmapped, map_page, switched, vmeHistory, LiveOf
<1>4. \A s, T : UNCHANGED <<is_mapped, host>> /\ Shown(c, s, T) => Shown(c, s, T)'
  BY <1>3 DEF Shown
<1>5. ASSUME NEW s \in AnySpace, am_switch(c, s) PROVE Place(c, onward, K)'
  <2>1. /\ sw[c].at = "idle" /\ UNCHANGED <<is_mapped, vm_head, host>>
        /\ sw'[c].at = "unmap" /\ sw'[c].pp = First(o) /\ vm_head'[c] = o
    BY <1>1, <1>5 DEF am_switch, VmeTypes
  <2>2. PICK f, T : f = First(o) /\ T = LiveOf(o)
    OBVIOUS
  <2>3. /\ o \in twice => f \in K
        /\ o \notin twice => onward[f] = T /\ OnList(f, onward, o)
    BY <1>2, <2>2, FromHead
  <2>4. Shown(c, o, T)'
    BY <1>1, <1>4, <2>1, <2>2 DEF Place, Staying
  <2>5. Leaving(c, onward, K)'
    BY <1>3, <2>1, <2>2, <2>3, <2>4 DEF Leaving, OnList
  <2>6. QED BY <2>1, <2>5 DEF Place, Staying, Entering
<1>6. ASSUME unmapped(c) PROVE Place(c, onward, K)'
  <2>1. /\ sw[c].at = "unmap" /\ p = NULL /\ UNCHANGED <<is_mapped, vm_head, host>>
        /\ sw'[c].at = "map" /\ sw'[c].pp = First(t) /\ sw'[c].to = t /\ vm_head'[c] = o
    BY <1>1, <1>2, <1>6 DEF unmapped, VmeTypes, Switches
  <2>2. PICK f : f = First(t)
    OBVIOUS
  <2>3. /\ t \in twice => f \in K
        /\ t \notin twice => onward[f] = LiveOf(t) /\ OnList(f, onward, t)
    BY <1>2, <2>2, FromHead
  <2>4. o \notin twice /\ Shown(c, o, onward[NULL])
    BY <1>1, <2>1, Records DEF Place, Leaving, Endless
  <2>5. Shown(c, t, {})'
    <3>1. Shown(c, o, {})
      BY <2>4 DEF Lists
    <3>2. QED BY <2>1, <3>1 DEF Shown
  <2>6. Entering(c, onward, K)'
    <3>1. t \notin twice => LiveOf(t)' \ onward[f] = {} /\ OnList(f, onward, t)'
      BY <1>3, <2>3 DEF OnList
    <3>2. t \notin twice => Shown(c, t, LiveOf(t) \ onward[f])'
      BY <2>5, <3>1 DEF Shown
    <3>3. QED BY <1>3, <2>1, <2>2, <2>3, <2>4, <3>1, <3>2 DEF Entering
  <2>7. QED BY <2>1, <2>6 DEF Place, Staying, Leaving
<1>7. ASSUME switched(c) PROVE Place(c, onward, K)'
  <2>1. /\ sw[c].at = "map" /\ p = NULL /\ UNCHANGED <<is_mapped, host>>
        /\ sw'[c].at = "idle" /\ vm_head'[c] = t
    BY <1>1, <1>2, <1>7 DEF switched, VmeTypes, Idle
  <2>2. t \notin twice /\ Shown(c, t, LiveOf(t) \ onward[NULL])
    BY <1>1, <2>1, Records DEF Place, Entering, Endless
  <2>3. LiveOf(t) \ onward[NULL] = LiveOf(t)
    BY DEF Lists
  <2>4. Shown(c, t, LiveOf(t))
    BY <2>2, <2>3, Zenon
  <2>5. Staying(c)'
    BY <1>3, <1>4, <2>1, <2>4 DEF Staying
  <2>6. QED BY <2>1, <2>5 DEF Place, Leaving, Entering
<1>8. ASSUME unmap_page(c) PROVE Place(c, onward, K)'
  <2>0. PICK n : n = next[p]
    OBVIOUS
  <2>1. /\ sw[c].at = "unmap" /\ p # NULL /\ vm_head' = vm_head
        /\ host' = IF is_mapped[p] THEN [host EXCEPT ![c][p[2]] = NULL] ELSE host
        /\ is_mapped' = [is_mapped EXCEPT ![p] = FALSE]
        /\ sw'[c].at = "unmap" /\ sw'[c].pp = n /\ vm_head'[c] = o
    BY <1>1, <1>2, <1>8, <2>0 DEF unmap_page, VmeTypes, Switches
  <2>2. o \in twice => n \in K
    BY <1>1, <2>0, <2>1 DEF Place, Leaving, Endless
  <2>3. ASSUME o \notin twice
        PROVE  OnList(n, onward, o)' /\ Shown(c, o, onward[n])'
    <3>1. p \in onward[p] /\ onward[p] \subseteq LiveOf(o) /\ Shown(c, o, onward[p])
      BY <1>1, <2>1, <2>3 DEF Place, Leaving, OnList
    <3>2. p \in PageMap /\ p[1] = o /\ pa[p] # NULL
      BY <3>1 DEF LiveOf
    <3>3. /\ n \in Linked /\ onward[n] = onward[p] \ {p}
          /\ OfSpace(n, o)
      BY <2>0, <2>3, <3>2 DEF Lists, SameSpace
    <3>4. n # NULL => n \in onward[n]
      BY <2>3, <3>3 DEF Lists, Linked, OfSpace
    <3>5. /\ \A q \in onward[p] \ {p} : is_mapped'[q]
          /\ \A v \in Va : host'[c][v] = IF v = p[2] THEN NULL ELSE host[c][v]
      <4>1. is_mapped[p] /\ host' = [host EXCEPT ![c][p[2]] = NULL]
        BY <2>1, <3>1 DEF Shown
      <4>2. \A q \in onward[p] : q \in PageMap /\ is_mapped[q]
        BY <3>1 DEF Shown, LiveOf
      <4>3. QED BY <2>1, <3>2, <4>1, <4>2 DEF VmeTypes
    <3>6. \A v \in Va : <<o, v>> = p <=> v = p[2]
      BY <3>2, Records
    <3>7. Shown(c, o, onward[p] \ {p})'
      BY <1>3, <3>1, <3>5, <3>6 DEF Shown
    <3>8. QED BY <1>3, <3>1, <3>3, <3>4, <3>7 DEF OnList
  <2>4. Leaving(c, onward, K)'
    BY <1>3, <2>1, <2>2, <2>3 DEF Leaving
  <2>5. QED BY <2>1, <2>4 DEF Place, Staying, Entering
<1>9. ASSUME map_page(c) PROVE Place(c, onward, K)'
  <2>0. PICK n : n = next[p]
    OBVIOUS
  <2>1. /\ sw[c].at = "map" /\ p # NULL /\ vm_head' = vm_head
        /\ host' = [host EXCEPT ![c][p[2]] = pa[p]]
        /\ is_mapped' = [is_mapped EXCEPT ![p] = TRUE]
        /\ sw'[c].at = "map" /\ sw'[c].pp = n /\ sw'[c].to = t /\ vm_head'[c] = o
    BY <1>1, <1>2, <1>9, <2>0 DEF map_page, VmeTypes, Switches
  <2>2. o \notin twice /\ (t \in twice => n \in K)
    BY <1>1, <2>0, <2>1 DEF Place, Entering, Endless
  <2>3. ASSUME t \notin twice
        PROVE  OnList(n, onward, t)' /\ Shown(c, t, LiveOf(t) \ onward[n])'
    <3>1. p \in onward[p] /\ onward[p] \subseteq LiveOf(t) /\ Shown(c, t, LiveOf(t) \ onward[p])
      BY <1>1, <2>1, <2>3 DEF Place, Entering, OnList
    <3>2. p \in PageMap /\ p[1] = t /\ pa[p] # NULL
      BY <3>1 DEF LiveOf
    <3>3. /\ n \in Linked /\ onward[n] = onward[p] \ {p}
          /\ OfSpace(n, t)
      BY <2>0, <2>3, <3>2 DEF Lists, SameSpace
    <3>4. n # NULL => n \in onward[n]
      BY <2>3, <3>3 DEF Lists, Linked, OfSpace
    <3>5. /\ \A q \in (LiveOf(t) \ onward[p]) \cup {p} : is_mapped'[q]
          /\ \A v \in Va : host'[c][v] = IF v = p[2] THEN pa[p] ELSE host[c][v]
      <4>1. \A q \in LiveOf(t) \ onward[p] : q \in PageMap /\ is_mapped[q]
        BY <3>1 DEF Shown, LiveOf
      <4>2. QED BY <2>1, <3>2, <4>1 DEF VmeTypes
    <3>6. \A v \in Va : <<t, v>> = p <=> v = p[2]
      BY <3>2, Records
    <3>7. Shown(c, t, (LiveOf(t) \ onward[p]) \cup {p})'
      <4>1. \A v \in Va : host[c][v] = IF <<t, v>> \in LiveOf(t) \ onward[p]
                                       THEN pa[<<t, v>>] ELSE NULL
        BY <3>1 DEF Shown
      <4>2. LiveOf(t)' = LiveOf(t) /\ pa' = pa
        BY <1>3
      <4>3. QED BY <3>5, <3>6, <4>1, <4>2 DEF Shown
    <3>8. (LiveOf(t) \ onward[p]) \cup {p} = LiveOf(t) \ onward[n]
      BY <3>1, <3>3
    <3>9. LiveOf(t)' = LiveOf(t)
      BY <1>3
    <3>10. Shown(c, t, LiveOf(t) \ onward[n])'
      BY <3>7, <3>8, <3>9
    <3>11. QED BY <3>1, <3>3, <3>4, <3>9, <3>10 DEF OnList
  <2>4. Entering(c, onward, K)'
    BY <1>3, <2>1, <2>2, <2>3 DEF Entering
  <2>5. QED BY <2>1, <2>4 DEF Place, Staying, Leaving
<1>10. QED BY <1>5, <1>6, <1>7, <1>8, <1>9 DEF Switch, SwitchStep

\* A switch of one process keeps the invariant of all.
LEMMA SwitchKeeps ==
  ASSUME VmeInv, NEW d \in CPU, Switch(d)
  PROVE  VmeInv'
<1>1. VmeTypes /\ SameSpace /\ NoShare
  BY DEF VmeInv
<1>2. PICK onward \in [Pages -> SUBSET PageMap], K \in SUBSET PageMap : Described(onward, K)
  BY DEF VmeInv
<1>3. VmeTypes' /\ SameSpace' /\ Only(d)
  BY <1>1, SwitchTypes
<1>4. NoShare' /\ strays \subseteq strays'
  BY <1>1, ShareKept
<1>5. Lists(onward)' /\ Endless(K)'
  BY <1>2, <1>3 DEF Described, Lists, Endless, LiveOf, Linked, Only
<1>6. ASSUME NEW c \in CPU \ strays' PROVE Place(c, onward, K)'
  <2>1. Place(c, onward, K) /\ Alone(c) /\ c \in CPU
    BY <1>1, <1>2, <1>4 DEF Described, NoShare
  <2>2. CASE c = d
    BY <1>1, <1>2, <1>3, <2>1, <2>2, OwnKept DEF Described
  <2>3. CASE c # d
    <3>1. \A p \in PageMap : In(c, p[1]) => ~ In(d, p[1])
      BY <2>1, <2>3, Records DEF Alone
    <3>2. Apart(c)
      BY <1>3, <2>1, <2>3, <3>1 DEF Apart, Only
    <3>3. Elsewhere(c, onward, onward) /\ K \subseteq K
      BY DEF Elsewhere
    <3>4. QED BY <1>1, <1>3, <2>1, <3>2, <3>3, ApartKeeps
  <2>4. QED BY <2>2, <2>3
<1>7. QED BY <1>3, <1>4, <1>5, <1>6 DEF VmeInv, Described

\* What map does to the page record pp of space s.
Put(d, s, pp, p) ==
  /\ pa' = [pa EXCEPT ![pp] = p]
  /\ next' = [next EXCEPT ![pp] = head[s]]
  /\ head' = [head EXCEPT ![s] = pp]
  /\ is_mapped' = [is_mapped EXCEPT ![pp] = (vm_head[d] = s)]
  /\ host' = IF vm_head[d] = s THEN [host EXCEPT ![d][pp[2]] = p] ELSE host
  /\ twice' = IF pa[pp] = NULL THEN twice ELSE twice \cup {s}
  /\ strays' = strays \cup Others(d, s)
  /\ sw[d].at = "idle" /\ UNCHANGED <<vm_head, sw>>

\* The lists after map: the record is the first of its list, or the list has
\* no end any more.
LEMMA MapLists ==
  ASSUME VmeTypes, SameSpace, NEW d \in CPU, NEW s \in Space, NEW pp \in PageMap, pp[1] = s,
         NEW p \in Pa, Put(d, s, pp, p), NEW onward, Lists(onward), NEW K, Endless(K)
  PROVE  \E new \in [Pages -> SUBSET PageMap], L \in SUBSET PageMap :
           /\ Lists(new)' /\ Endless(L)' /\ K \subseteq L
           /\ \A q \in Pages : OfSpace(q, s) \/ new[q] = onward[q]
           /\ new[NULL] = onward[NULL]
<1>0. p # NULL /\ NULL \notin PageMap
  BY Records
<1>1. /\ \A q \in PageMap : pa'[q] = (IF q = pp THEN p ELSE pa[q])
      /\ \A q \in PageMap : next'[q] = (IF q = pp THEN head[s] ELSE next[q])
      /\ \A r \in Space : head'[r] = (IF r = s THEN pp ELSE head[r])
  BY DEF Put, VmeTypes
<1>2. \A r : r # s => LiveOf(r)' = LiveOf(r)
  BY <1>1 DEF LiveOf
<1>3. LiveOf(s)' = LiveOf(s) \cup {pp} /\ Linked' = Linked \cup {pp}
  BY <1>0, <1>1 DEF LiveOf, Linked
<1>4. twice \subseteq Space /\ K \subseteq PageMap
  BY DEF VmeTypes, Endless
<1>5. CASE pa[pp] = NULL /\ s \notin twice
  <2>1. twice' = twice
    BY <1>5 DEF Put
  <2>2. PICK new : new = [onward EXCEPT ![pp] = LiveOf(s) \cup {pp}]
    OBVIOUS
  <2>3. onward \in [Pages -> SUBSET PageMap] /\ pp \in Pages /\ LiveOf(s) \cup {pp} \in SUBSET PageMap
    BY DEF Lists, Pages, LiveOf
  <2>4. /\ new \in [Pages -> SUBSET PageMap] /\ new[pp] = LiveOf(s) \cup {pp}
        /\ \A q \in Pages : q # pp => new[q] = onward[q]
    BY <2>2, <2>3
  <2>5. NULL # pp /\ pp \notin Linked /\ pp \notin LiveOf(s)
    BY <1>0, <1>5 DEF Linked, LiveOf
  <2>6. new[NULL] = onward[NULL] /\ \A q \in Pages : OfSpace(q, s) \/ new[q] = onward[q]
    BY <2>4, <2>5 DEF OfSpace, Pages
  <2>7. head[s] \in Linked /\ onward[head[s]] = LiveOf(s) /\ Linked \subseteq Pages
    BY <1>5 DEF Lists, Linked, Pages
  <2>8. ASSUME NEW r \in Space \ twice PROVE head'[r] \in Linked' /\ new[head'[r]] = LiveOf(r)'
    <3>1. CASE r = s
      BY <1>1, <1>3, <2>4, <3>1
    <3>2. CASE r # s
      <4>1. head[r] \in Linked /\ onward[head[r]] = LiveOf(r)
        BY <2>8 DEF Lists
      <4>2. QED BY <1>1, <1>2, <1>3, <2>4, <2>5, <2>7, <3>2, <4>1
    <3>3. QED BY <3>1, <3>2
  <2>9. ASSUME NEW q \in PageMap, pa'[q] # NULL, q[1] \notin twice
        PROVE  /\ next'[q] \in Linked'
               /\ new[q] = new[next'[q]] \cup {q} /\ q \notin new[next'[q]]
               /\ new[q] \subseteq LiveOf(q[1])'
    <3>1. CASE q = pp
      BY <1>1, <1>3, <2>4, <2>5, <2>7, <3>1
    <3>2. CASE q # pp
      <4>1. /\ next[q] \in Linked /\ onward[q] = onward[next[q]] \cup {q}
            /\ q \notin onward[next[q]] /\ onward[q] \subseteq LiveOf(q[1])
        BY <1>1, <2>9, <3>2 DEF Lists
      <4>2. LiveOf(q[1]) \subseteq LiveOf(q[1])'
        BY <1>2, <1>3
      <4>3. next[q] # pp /\ next[q] \in Pages /\ q \in Pages
        BY <2>5, <2>7, <4>1 DEF Pages
      <4>4. QED BY <1>1, <1>3, <2>4, <3>2, <4>1, <4>2, <4>3
    <3>3. QED BY <3>1, <3>2
  <2>10. Lists(new)'
    <3>1. new[NULL] = {}
      BY <2>6 DEF Lists
    <3>2. QED BY <2>1, <2>4, <2>8, <2>9, <3>1 DEF Lists
  <2>11. Endless(K)'
    <3>1. \A q \in K : q # pp
      BY <1>5 DEF Endless
    <3>2. QED BY <1>1, <1>4, <1>5, <2>1, <3>1 DEF Endless
  <2>12. QED BY <1>4, <2>4, <2>6, <2>10, <2>11
<1>6. ASSUME s \in twice', NEW L \in SUBSET PageMap, K \subseteq L, Endless(L)'
      PROVE  Lists(onward)'
  <2>1. twice \subseteq twice'
    BY DEF Put
  <2>2. \A r \in Space \ twice' : r # s /\ r \in Space \ twice
    BY <1>6, <2>1
  <2>3. \A r \in Space \ twice' : head'[r] \in Linked' /\ onward[head'[r]] = LiveOf(r)'
    BY <1>1, <1>2, <1>3, <2>2 DEF Lists
  <2>4. ASSUME NEW q \in PageMap, pa'[q] # NULL, q[1] \notin twice'
        PROVE  /\ next'[q] \in Linked'
               /\ onward[q] = onward[next'[q]] \cup {q} /\ q \notin onward[next'[q]]
               /\ onward[q] \subseteq LiveOf(q[1])'
    <3>1. q # pp /\ q[1] # s /\ q[1] \notin twice
      BY <1>6, <2>1, <2>4
    <3>2. pa[q] # NULL /\ next'[q] = next[q] /\ LiveOf(q[1])' = LiveOf(q[1])
      BY <1>1, <1>2, <2>4, <3>1
    <3>3. QED BY <1>3, <3>1, <3>2 DEF Lists
  <2>5. QED BY <2>3, <2>4 DEF Lists
<1>7. CASE s \in twice
  <2>1. twice' = twice
    BY <1>7 DEF Put
  <2>2. head[s] \in K
    BY <1>7 DEF Endless
  <2>3. Endless(K \cup {pp})'
    BY <1>1, <1>4, <1>7, <2>1, <2>2 DEF Endless
  <2>4. Lists(onward)'
    BY <1>4, <1>6, <1>7, <2>1, <2>3
  <2>5. K \cup {pp} \in SUBSET PageMap /\ onward \in [Pages -> SUBSET PageMap]
    BY <1>4 DEF Lists
  <2>6. QED BY <2>3, <2>4, <2>5
<1>8. CASE pa[pp] # NULL /\ s \notin twice
  <2>1. twice' = twice \cup {s}
    BY <1>8 DEF Put
  <2>2. PICK M : M = {q \in LiveOf(s) : pp \in onward[q]}
    OBVIOUS
  <2>3. M \subseteq PageMap /\ \A q \in M : q[1] = s /\ pa[q] # NULL
    BY <2>2 DEF LiveOf
  <2>4. head[s] \in M
    <3>1. pp \in LiveOf(s) /\ head[s] \in Linked /\ onward[head[s]] = LiveOf(s)
      BY <1>8 DEF Lists, LiveOf
    <3>2. head[s] # NULL
      BY <3>1 DEF Lists
    <3>3. head[s] \in LiveOf(s)
      BY <3>1, <3>2 DEF Linked, LiveOf, SameSpace, OfSpace
    <3>4. QED BY <2>2, <3>1, <3>3
  <2>5. ASSUME NEW q \in M, q # pp PROVE next[q] \in M
    <3>1. /\ next[q] \in Linked /\ onward[q] = onward[next[q]] \cup {q}
      BY <1>8, <2>3 DEF Lists
    <3>2. pp \in onward[next[q]]
      BY <2>2, <2>5, <3>1
    <3>3. next[q] # NULL
      BY <3>2 DEF Lists
    <3>4. next[q] \in LiveOf(s)
      BY <2>3, <3>1, <3>3 DEF Linked, LiveOf, SameSpace, OfSpace
    <3>5. QED BY <2>2, <3>2, <3>4
  <2>6. pp \in M
    <3>1. pp \in LiveOf(s) /\ pp \in onward[pp]
      BY <1>8 DEF LiveOf, Lists
    <3>2. QED BY <2>2, <3>1
  <2>7. Endless(K \cup M)'
    <3>1. ASSUME NEW q \in K \cup M PROVE next'[q] \in K \cup M /\ q[1] \in twice'
      <4>1. CASE q \in M
        BY <1>1, <2>1, <2>3, <2>4, <2>5, <4>1
      <4>2. CASE q \in K
        <5>1. q # pp /\ next[q] \in K /\ q[1] \in twice
          BY <1>8, <4>2 DEF Endless
        <5>2. QED BY <1>1, <1>4, <2>1, <4>2, <5>1
      <4>3. QED BY <4>1, <4>2
    <3>2. ASSUME NEW r \in twice' PROVE head'[r] \in K \cup M
      BY <1>1, <1>4, <2>1, <2>6, <3>2 DEF Endless
    <3>3. QED BY <1>4, <2>3, <3>1, <3>2 DEF Endless
  <2>8. K \cup M \in SUBSET PageMap /\ K \subseteq K \cup M /\ onward \in [Pages -> SUBSET PageMap]
    BY <1>4, <2>3 DEF Lists
  <2>9. Lists(onward)'
    BY <1>6, <2>1, <2>7, <2>8
  <2>10. QED BY <2>7, <2>8, <2>9
<1>9. QED BY <1>5, <1>7, <1>8

\* A call of map keeps the invariant of all processes.
LEMMA MapKeeps ==
  ASSUME VmeInv, NEW d \in CPU, NEW s \in Space, NEW v \in Va, NEW p \in Pa, map(d, s, v, p)
  PROVE  VmeInv'
<1>1. VmeTypes /\ SameSpace /\ NoShare
  BY DEF VmeInv
<1>2. PICK onward \in [Pages -> SUBSET PageMap], K \in SUBSET PageMap : Described(onward, K)
  BY DEF VmeInv
<1>3. PICK pp \in PageMap : pp = <<s, v>> /\ pp[1] = s /\ pp[2] = v
  BY Records
<1>4. Put(d, s, pp, p)
  BY <1>3 DEF map, Put, map_now, link
<1>5. VmeTypes'
  <2>1. pp \in Pages /\ (vm_head[d] = s) \in BOOLEAN /\ pp[2] \in Va
    BY <1>3 DEF Pages
  <2>2. [host EXCEPT ![d][pp[2]] = p] \in [CPU -> [Va -> Pa \cup {NULL}]]
    BY <1>1, <2>1 DEF VmeTypes
  <2>3. QED BY <1>1, <1>4, <2>1, <2>2 DEF VmeTypes, Put
<1>6. SameSpace'
  <2>1. \A r \in Space : OfSpace(head'[r], r)
    BY <1>1, <1>3, <1>4 DEF Put, VmeTypes, SameSpace, OfSpace
  <2>2. \A q \in PageMap : OfSpace(next'[q], q[1])
    BY <1>1, <1>3, <1>4 DEF Put, VmeTypes, SameSpace, OfSpace
  <2>3. QED BY <1>1, <1>4, <2>1, <2>2 DEF Put, SameSpace, Through
<1>7. NoShare' /\ strays \subseteq strays'
  BY <1>1, ShareKept
<1>8. PICK new \in [Pages -> SUBSET PageMap], L \in SUBSET PageMap :
        /\ Lists(new)' /\ Endless(L)' /\ K \subseteq L
        /\ \A q \in Pages : OfSpace(q, s) \/ new[q] = onward[q]
        /\ new[NULL] = onward[NULL]
  BY <1>1, <1>2, <1>3, <1>4, MapLists DEF Described
<1>9. ASSUME NEW c \in CPU \ strays' PROVE Place(c, new, L)'
  <2>1. Place(c, onward, K) /\ c \in CPU /\ (c # d => ~ In(c, s))
    BY <1>2, <1>4, <1>7 DEF Described, Put, Others
  <2>2. CASE ~ In(c, s)
    <3>1. \A q \in PageMap : In(c, q[1]) => q # pp
      BY <1>3, <2>2
    <3>2. \A q \in PageMap : In(c, q[1]) => is_mapped'[q] = is_mapped[q] /\ pa'[q] = pa[q]
      BY <1>1, <1>4, <3>1 DEF Put, VmeTypes
    <3>3. host'[c] = host[c]
      BY <1>1, <1>4, <2>1, <2>2 DEF Put, VmeTypes, In
    <3>4. \A r \in Space : In(c, r) => (r \in twice' <=> r \in twice)
      BY <1>4, <2>2 DEF Put
    <3>5. Apart(c)
      BY <1>4, <3>2, <3>3, <3>4 DEF Apart, Put
    <3>6. Elsewhere(c, onward, new)
      BY <1>8, <2>2, Records DEF Elsewhere, OfSpace, Pages
    <3>7. QED BY <1>1, <1>5, <1>8, <2>1, <3>5, <3>6, ApartKeeps
  <2>3. CASE In(c, s)
    <3>1. c = d /\ vm_head[c] = s /\ sw[c].at = "idle"
      BY <1>4, <2>1, <2>3 DEF Put, In
    <3>2. Shown(c, s, LiveOf(s))
      BY <2>1, <3>1 DEF Place, Staying
    <3>3. /\ \A q \in PageMap : is_mapped'[q] = (IF q = pp THEN TRUE ELSE is_mapped[q])
          /\ \A q \in PageMap : pa'[q] = (IF q = pp THEN p ELSE pa[q])
          /\ \A u \in Va : host'[c][u] = (IF u = v THEN p ELSE host[c][u])
      BY <1>1, <1>3, <1>4, <3>1 DEF Put, VmeTypes
    <3>4. LiveOf(s)' = LiveOf(s) \cup {pp}
      BY <1>3, <3>3, Records DEF LiveOf
    <3>5. \A u \in Va : <<s, u>> \in PageMap /\ (<<s, u>> = pp <=> u = v)
      BY <1>3, Records
    <3>6. Shown(c, s, LiveOf(s))'
      <4>1. \A q \in LiveOf(s) \cup {pp} : is_mapped'[q]
        BY <3>2, <3>3 DEF Shown, LiveOf
      <4>2. \A u \in Va : host[c][u] = IF <<s, u>> \in LiveOf(s) THEN pa[<<s, u>>] ELSE NULL
        BY <3>2 DEF Shown
      <4>3. \A u \in Va : host'[c][u] = IF <<s, u>> \in LiveOf(s) \cup {pp}
                                        THEN pa'[<<s, u>>] ELSE NULL
        BY <3>3, <3>5, <4>2
      <4>4. QED BY <3>4, <4>1, <4>3 DEF Shown
    <3>7. QED BY <1>4, <3>1, <3>6 DEF Put, Place, Staying, Leaving, Entering
  <2>4. QED BY <2>2, <2>3
<1>10. Described(new, L)'
  BY <1>8, <1>9 DEF Described
<1>11. QED BY <1>5, <1>6, <1>7, <1>10 DEF VmeInv

\* At the start every list is empty.
LEMMA VmeStart == VmeInit => VmeInv
<1> SUFFICES ASSUME VmeInit PROVE VmeInv
  OBVIOUS
<1>1. VmeTypes
  BY DEF VmeInit, VmeTypes, Idle, Pages, AnySpace, Switches
<1>2. SameSpace /\ NoShare
  BY Records DEF VmeInit, SameSpace, NoShare, Alone, In, OfSpace, Idle
<1>3. \A s : LiveOf(s) = {}
  BY DEF VmeInit, LiveOf
<1>4. PICK onward \in [Pages -> SUBSET PageMap] : onward = [p \in Pages |-> {}]
  OBVIOUS
<1>5. Lists(onward) /\ Endless({})
  BY <1>3, <1>4 DEF Lists, Endless, VmeInit, Pages, Linked
<1>6. \A c \in CPU : Shown(c, NULL, {})
  BY DEF Shown, VmeInit
<1>7. \A c \in CPU : Place(c, onward, {})
  BY <1>3, <1>6 DEF Place, Staying, Leaving, Entering, VmeInit, Idle
<1>8. QED BY <1>1, <1>2, <1>4, <1>5, <1>7 DEF VmeInv, Described

\* The invariant is inductive.
LEMMA VmeStep == VmeInv /\ [VmeNext]_vmeVars => VmeInv'
<1> SUFFICES ASSUME VmeInv, [VmeNext]_vmeVars PROVE VmeInv'
  OBVIOUS
<1>1. CASE UNCHANGED vmeVars
  <2>1. UNCHANGED <<head, next, pa, is_mapped, vm_head, host, sw, twice, strays>>
    BY <1>1 DEF vmeVars, vmeHistory
  <2>2. VmeTypes' /\ SameSpace' /\ NoShare'
    BY <2>1 DEF VmeInv, VmeTypes, SameSpace, NoShare, Through, Alone, In
  <2>3. \A onward, K : Described(onward, K) => Described(onward, K)'
    BY <2>1 DEF Described, Lists, Endless, Place, Staying, Leaving, Entering, OnList, Shown,
                LiveOf, Linked
  <2>4. QED BY <2>2, <2>3 DEF VmeInv
<1>2. ASSUME NEW d \in CPU, NEW s \in Space, NEW v \in Va, NEW p \in Pa, map(d, s, v, p)
      PROVE  VmeInv'
  BY <1>2, MapKeeps
<1>3. ASSUME NEW d \in CPU, Switch(d) PROVE VmeInv'
  BY <1>3, SwitchKeeps
<1>4. QED BY <1>1, <1>2, <1>3 DEF VmeNext, Switch, AnySpace

(***************************************************************************)
(* A process of the native port that is not switching has exactly the      *)
(* pages of its space mapped (ExactlyItsPages), for every number of        *)
(* processes, all spaces and pages and every sequence of map and           *)
(* __am_switch, interleaved page by page, a page mapped again included;    *)
(* unless it has shared a space with another process.                      *)
(***************************************************************************)
THEOREM PagesAreExact == VmeSpec => []ExactlyItsPages
<1>1. VmeInv => ExactlyItsPages
  <2> SUFFICES ASSUME VmeInv, NEW c \in CPU \ strays, NEW v \in Va, sw[c].at = "idle"
               PROVE  host[c][v] = IF vm_head[c] = NULL THEN NULL ELSE pa[<<vm_head[c], v>>]
    BY DEF ExactlyItsPages
  <2>1. Shown(c, vm_head[c], LiveOf(vm_head[c])) /\ vm_head[c] \in AnySpace
    BY DEF VmeInv, VmeTypes, Described, Place, Staying
  <2>2. host[c][v] = IF <<vm_head[c], v>> \in LiveOf(vm_head[c])
                     THEN pa[<<vm_head[c], v>>] ELSE NULL
    BY <2>1 DEF Shown
  <2>3. QED BY <2>1, <2>2, Records DEF LiveOf, AnySpace
<1>2. QED BY <1>1, VmeStart, VmeStep, PTL DEF VmeSpec

(***************************************************************************)
(* A switch of the native port into or out of a space one page of which    *)
(* was mapped twice never ends (RemappedHangs): map links the record it    *)
(* found in the hash a second time, and the list becomes a cycle.          *)
(***************************************************************************)
THEOREM SecondMapHangs == VmeSpec => RemappedHangs
<1>1. ASSUME VmeInv, VmeNext, NEW c \in CPU \ strays, sw[c].at # "idle", sw'[c].at = "idle"
      PROVE  ~ Remapped(c)
  <2>1. switched(c)
    <3>1. PICK d \in CPU : Switch(d) \/ \E s \in Space, v \in Va, p \in Pa : map(d, s, v, p)
      BY <1>1 DEF VmeNext, Switch, AnySpace
    <3>2. sw'[c] # sw[c]
      BY <1>1
    <3>3. VmeTypes /\ SameSpace
      BY <1>1 DEF VmeInv
    <3>4. Switch(d)
      BY <3>1, <3>2 DEF map
    <3>5. c = d
      BY <1>1, <3>2, <3>3, <3>4, SwitchTypes DEF Only
    <3>6. QED
      BY <1>1, <3>3, <3>4, <3>5
         DEF Switch, SwitchStep, am_switch, unmap_page, unmapped, map_page, VmeTypes, Switches
  <2>2. PICK onward \in [Pages -> SUBSET PageMap], K \in SUBSET PageMap : Described(onward, K)
    BY <1>1 DEF VmeInv
  <2>3. sw[c].at = "map" /\ sw[c].pp = NULL
    BY <2>1 DEF switched
  <2>4. NULL \notin K
    BY Records
  <2>5. QED BY <1>1, <2>2, <2>3, <2>4 DEF Described, Place, Entering, Remapped
<1>2. VmeInv /\ [VmeNext]_vmeVars
      => [\A c \in CPU \ strays : sw[c].at # "idle" /\ sw[c].at' = "idle" => ~ Remapped(c)]_vmeVars
  BY <1>1
<1>3. QED BY <1>2, VmeStart, VmeStep, PTL DEF VmeSpec, RemappedHangs

----------------------------------------------------------------------------
(* Context switching.  A thread that does not have the hart has a context  *)
(* below its locals, and PCB.cp points to it.                              *)

Top(s) == IF s = Boot THEN STACK_SIZE ELSE STACK_SIZE - Len(frames[s])

Slots == 0..(STACK_SIZE - 1)

IsMem(m)     == m = [s \in Pcb |-> [i \in Slots |-> m[s][i]]]
IsContext(c) == c = [x |-> c.x, a0 |-> c.a0, mepc |-> c.mepc, mstatus |-> c.mstatus,
                     mcause |-> c.mcause]

\* A context from which thread t goes on as it should.
Resumes(c, t) == /\ IsContext(c)
                 /\ (c.mepc = "f" /\ c.a0 = t) \/ (c.mepc = "yield_after" /\ c.x = t)

Saved(t) == mem[t][0] = Top(t) - 1 /\ Resumes(mem[t][Top(t) - 1], t)

LocalsKept(t) == \A k \in 1..Len(frames[t]) : mem[t][STACK_SIZE - k] = frames[t][k]

CteTypes ==
  /\ pc \in {"main", "f", "loop", "yield_ecall", "yield_after", "trap_save", "trap_handle",
             "trap_restore"}
  /\ current \in Pcb
  /\ frames \in [Threads -> Seq(Locals)]
  /\ \A t \in Threads : Len(frames[t]) <= MaxDepth
  /\ IsMem(mem)
  /\ csr = [mepc |-> csr.mepc, mcause |-> csr.mcause, mstatus |-> csr.mstatus]

\* What the hart holds of the thread, or of main, that it is executing.
OnHart ==
  /\ pc = "main" => current = Boot /\ sp = <<Boot, Top(Boot)>>
  /\ pc = "f" => current \in Threads /\ sp = <<current, Top(current)>> /\ a0 = current
  /\ Running => current \in Threads /\ sp = <<current, Top(current)>> /\ x = current

\* What the trap code holds of it.
InTrap ==
  /\ pc = "trap_save" =>
       /\ sp = <<current, Top(current)>> /\ csr.mcause = "0xb"
       /\ current \in Threads => csr.mepc = "yield_ecall" /\ x = current
  /\ pc = "trap_handle" =>
       /\ sp = <<current, Top(current) - 1>>
       /\ IsContext(mem[current][Top(current) - 1])
       /\ mem[current][Top(current) - 1].mcause = "0xb"
       /\ current \in Threads =>
            /\ mem[current][Top(current) - 1].mepc = "yield_ecall"
            /\ mem[current][Top(current) - 1].x = current
  /\ pc = "trap_restore" => current \in Threads /\ a0 = <<current, Top(current) - 1>>

CteInv ==
  /\ CteTypes /\ OnHart /\ InTrap
  /\ \A t \in Threads : LocalsKept(t)
  /\ \A t \in Threads : t # current \/ pc = "trap_restore" => Saved(t)

\* The memory with v stored at slot i of stack s.
Stored(m, s, i, v) == [m EXCEPT ![s][i] = v]

\* Storing to one slot of a stack changes that slot.
LEMMA MemUpdate ==
  ASSUME NEW m, IsMem(m), NEW s \in Pcb, NEW i \in Slots, NEW v
  PROVE  /\ IsMem(Stored(m, s, i, v))
         /\ \A t \in Pcb, j \in Slots :
              Stored(m, s, i, v)[t][j] = IF t = s /\ j = i THEN v ELSE m[t][j]
<1> DEFINE f == [t \in Pcb |-> [j \in Slots |-> IF t = s /\ j = i THEN v ELSE m[t][j]]]
<1>1. Stored(m, s, i, v) = f
  BY DEF IsMem, Stored
<1>2. \A t \in Pcb, j \in Slots : f[t][j] = IF t = s /\ j = i THEN v ELSE m[t][j]
  OBVIOUS
<1>3. f = [t \in Pcb |-> [j \in Slots |-> f[t][j]]]
  BY <1>2
<1> HIDE DEF f
<1>4. IsMem(f)
  BY <1>3 DEF IsMem
<1>5. QED BY <1>1, <1>2, <1>4, Zenon

\* A thread's context lies above PCB.cp, whatever its locals.
LEMMA TopRange ==
  ASSUME CteTypes, NEW s \in Pcb
  PROVE  /\ Top(s) \in Nat /\ Top(s) - 1 \in Slots /\ Top(s) - 1 # 0 /\ 0 \in Slots
         /\ s \in Threads => s # Boot /\ frames[s] \in Seq(Locals) /\ Len(frames[s]) \in Nat
                             /\ Top(s) = STACK_SIZE - Len(frames[s])
<1>1. MaxDepth \in Nat /\ STACK_SIZE \in Nat /\ STACK_SIZE >= MaxDepth + 2
  BY StackAssumption
<1>2. CASE s = Boot
  BY <1>1, <1>2 DEF Top, Slots, Boot, Threads
<1>3. CASE s \in Threads
  <2>1. frames[s] \in Seq(Locals) /\ Len(frames[s]) <= MaxDepth /\ s # Boot
    BY <1>3 DEF CteTypes, Threads, Boot
  <2>2. Len(frames[s]) \in Nat
    BY <2>1
  <2>3. Top(s) = STACK_SIZE - Len(frames[s])
    BY <2>1 DEF Top
  <2>4. QED BY <1>1, <2>1, <2>2, <2>3 DEF Slots
<1>4. QED BY <1>2, <1>3 DEF Pcb

\* The invariant holds when main is about to yield.
LEMMA CteStart == CteInit => CteInv
<1> SUFFICES ASSUME CteInit PROVE CteInv
  OBVIOUS
<1>0. MaxDepth \in Nat /\ STACK_SIZE \in Nat /\ STACK_SIZE >= MaxDepth + 2
  BY StackAssumption
<1>1. CteTypes
  <2>1. frames \in [Threads -> Seq(Locals)] /\ \A t \in Threads : Len(frames[t]) <= MaxDepth
    BY <1>0 DEF CteInit
  <2>2. IsMem(mem)
    BY DEF CteInit, IsMem, Slots
  <2>3. QED BY <2>1, <2>2 DEF CteInit, CteTypes, Pcb
<1>2. OnHart /\ InTrap
  BY DEF CteInit, OnHart, InTrap, Running, Top, Boot
<1>3. ASSUME NEW t \in Threads PROVE LocalsKept(t) /\ Saved(t)
  <2>1. Len(frames[t]) = 0 /\ Top(t) = STACK_SIZE /\ t # Boot /\ t \in Pcb
    BY <1>0 DEF CteInit, Top, Threads, Boot, Pcb
  <2>2. mem[t][0] = STACK_SIZE - 1 /\ mem[t][STACK_SIZE - 1] = kcontext("f", t)
    BY <1>0, <2>1 DEF CteInit
  <2>3. Resumes(kcontext("f", t), t)
    BY DEF kcontext, Resumes, IsContext
  <2>4. QED BY <2>1, <2>2, <2>3 DEF LocalsKept, Saved
<1>4. QED BY <1>1, <1>2, <1>3 DEF CteInv

\* A step that leaves the memory, the locals and current alone keeps what the
\* waiting threads have stored.
LEMMA StoredKept ==
  ASSUME CteInv, UNCHANGED <<mem, frames, current>>, pc # "trap_restore", pc' # "trap_restore"
  PROVE  /\ \A t \in Threads : LocalsKept(t)'
         /\ \A t \in Threads : t # current' \/ pc' = "trap_restore" => Saved(t)'
BY DEF CteInv, LocalsKept, Saved, Top

\* The steps of a thread that store nothing.
LEMMA QuietSteps ==
  ASSUME CteInv, Enter \/ putch \/ Again \/ ecall
  PROVE  CteInv'
<1>1. /\ UNCHANGED <<sp, a0, mem, current, frames>> /\ pc # "trap_restore" /\ pc' # "trap_restore"
  BY DEF Enter, putch, Again, ecall
<1>2. CteTypes'
  BY <1>1 DEF CteInv, CteTypes, Enter, putch, Again, ecall
<1>3. OnHart' /\ InTrap'
  <2>1. CASE Enter
    BY <1>1, <2>1 DEF Enter, CteInv, OnHart, InTrap, Running, Top
  <2>2. CASE putch \/ Again
    BY <1>1, <2>2 DEF putch, Again, CteInv, OnHart, InTrap, Running, Top
  <2>3. CASE ecall
    <3>1. csr'.mepc = pc /\ csr'.mcause = "0xb"
      BY <2>3 DEF ecall, CteInv, CteTypes
    <3>2. Boot \notin Threads
      BY DEF Boot, Threads
    <3>3. QED BY <1>1, <2>3, <3>1, <3>2 DEF ecall, CteInv, OnHart, InTrap, Running, Top
  <2>4. QED BY <2>1, <2>2, <2>3
<1>4. QED BY <1>1, <1>2, <1>3, StoredKept DEF CteInv

\* A call pushes a local below the others.
LEMMA CallKeeps ==
  ASSUME CteInv, NEW v \in Locals, Call(v)
  PROVE  CteInv'
<1>1. PICK t \in Threads : t = current /\ sp = <<t, Top(t)>> /\ x = t
  BY DEF Call, CteInv, OnHart, Running
<1>2. /\ pc = "yield_ecall" /\ pc' = pc /\ Len(frames[t]) < MaxDepth
      /\ mem' = [mem EXCEPT ![t][Top(t) - 1] = v] /\ sp' = <<t, Top(t) - 1>>
      /\ frames' = [frames EXCEPT ![t] = Append(frames[t], v)]
      /\ UNCHANGED <<x, a0, csr, current>>
  BY <1>1 DEF Call, Pushed, Below, Me
<1>3. /\ t \in Pcb /\ Top(t) \in Nat /\ Top(t) - 1 \in Slots /\ Top(t) - 1 # 0
      /\ t # Boot /\ frames[t] \in Seq(Locals) /\ Len(frames[t]) \in Nat
      /\ Top(t) = STACK_SIZE - Len(frames[t])
  BY TopRange DEF CteInv, Pcb
<1>4. STACK_SIZE \in Nat /\ MaxDepth \in Nat /\ \A u \in Threads : u \in Pcb /\ u # Boot
  BY StackAssumption DEF Pcb, Threads, Boot
<1>5. IsMem(mem') /\ \A u \in Pcb, j \in Slots :
        mem'[u][j] = IF u = t /\ j = Top(t) - 1 THEN v ELSE mem[u][j]
  <2>1. PICK i \in Slots : i = Top(t) - 1
    BY <1>3
  <2>2. IsMem(mem) /\ mem' = Stored(mem, t, i, v)
    BY <1>2, <2>1 DEF CteInv, CteTypes, Stored
  <2>3. QED BY <1>3, <2>1, <2>2, MemUpdate
<1>6. /\ frames'[t] = Append(frames[t], v) /\ Len(frames'[t]) = Len(frames[t]) + 1
      /\ frames'[t] \in Seq(Locals)
      /\ \A u \in Threads : u # t => frames'[u] = frames[u]
      /\ frames' \in [Threads -> Seq(Locals)]
  BY <1>2, <1>3 DEF CteInv, CteTypes
<1>7. CteTypes'
  BY <1>2, <1>3, <1>4, <1>5, <1>6 DEF CteInv, CteTypes
<1>8. Top(t)' = Top(t) - 1 /\ \A u \in Threads : u # t => Top(u)' = Top(u)
  <2>1. Top(t)' = STACK_SIZE - Len(frames'[t])
    BY <1>3 DEF Top
  <2>2. \A u \in Threads : u # t => Top(u)' = Top(u)
    BY <1>4, <1>6 DEF Top
  <2>3. QED BY <1>3, <1>4, <1>6, <2>1, <2>2
<1>9. OnHart' /\ InTrap'
  BY <1>1, <1>2, <1>8 DEF OnHart, InTrap, Running
<1>10. ASSUME NEW u \in Threads PROVE LocalsKept(u)'
  <2>1. CASE u = t
    <3>1. ASSUME NEW k \in 1..(Len(frames[t]) + 1) PROVE mem'[t][STACK_SIZE - k] = frames'[t][k]
      <4>1. STACK_SIZE - k \in Slots
        BY <1>3, <1>4 DEF Slots
      <4>2. CASE k = Len(frames[t]) + 1
        BY <1>3, <1>4, <1>5, <1>6, <4>1, <4>2
      <4>3. CASE k \in 1..Len(frames[t])
        <5>1. STACK_SIZE - k # Top(t) - 1 /\ frames'[t][k] = frames[t][k]
          BY <1>3, <1>4, <1>6, <4>3
        <5>2. mem[t][STACK_SIZE - k] = frames[t][k]
          BY <4>3 DEF CteInv, LocalsKept
        <5>3. QED BY <1>3, <1>5, <4>1, <5>1, <5>2
      <4>4. QED BY <1>3, <4>2, <4>3
    <3>2. QED BY <1>6, <2>1, <3>1 DEF LocalsKept
  <2>2. CASE u # t
    <3>1. \A k \in 1..Len(frames[u]) : STACK_SIZE - k \in Slots
      <4>1. Len(frames[u]) \in Nat /\ Len(frames[u]) <= MaxDepth
        BY TopRange, <1>4 DEF CteInv, CteTypes
      <4>2. QED BY <4>1, StackAssumption DEF Slots
    <3>2. QED BY <1>4, <1>5, <1>6, <2>2, <3>1 DEF CteInv, LocalsKept
  <2>3. QED BY <2>1, <2>2
<1>11. ASSUME NEW u \in Threads, u # t PROVE Saved(u)'
  <2>1. Saved(u)
    BY <1>1, <1>11 DEF CteInv
  <2>2. Top(u) - 1 \in Slots /\ 0 \in Slots
    BY <1>4, TopRange DEF CteInv
  <2>3. mem'[u][0] = mem[u][0] /\ mem'[u][Top(u) - 1] = mem[u][Top(u) - 1] /\ Top(u)' = Top(u)
    BY <1>4, <1>5, <1>8, <1>11, <2>2
  <2>4. QED BY <2>1, <2>3 DEF Saved
<1>12. QED BY <1>1, <1>2, <1>7, <1>9, <1>10, <1>11 DEF CteInv

\* A return drops the last local.
LEMMA ReturnKeeps ==
  ASSUME CteInv, Return
  PROVE  CteInv'
<1>1. PICK t \in Threads : t = current /\ sp = <<t, Top(t)>> /\ x = t
  BY DEF Return, CteInv, OnHart, Running
<1>2. /\ pc = "yield_after" /\ pc' = pc /\ frames[t] # << >> /\ sp' = <<t, Top(t) + 1>>
      /\ frames' = [frames EXCEPT ![t] = SubSeq(frames[t], 1, Len(frames[t]) - 1)]
      /\ UNCHANGED <<x, a0, csr, mem, current>>
  BY <1>1 DEF Return, Me
<1>3. /\ t \in Pcb /\ t # Boot /\ frames[t] \in Seq(Locals) /\ Len(frames[t]) \in Nat \ {0}
      /\ Top(t) = STACK_SIZE - Len(frames[t]) /\ STACK_SIZE \in Nat
  BY <1>2, TopRange, StackAssumption DEF CteInv, Pcb
<1>4. /\ frames'[t] \in Seq(Locals) /\ Len(frames'[t]) = Len(frames[t]) - 1
      /\ \A k \in 1..(Len(frames[t]) - 1) : frames'[t][k] = frames[t][k]
      /\ frames' \in [Threads -> Seq(Locals)]
      /\ \A u \in Threads : u # t => frames'[u] = frames[u]
  <2> DEFINE s == frames[t]
             r == SubSeq(s, 1, Len(s) - 1)
  <2>1. r \in Seq(Locals) /\ Len(r) = Len(s) - 1 /\ \A k \in 1..(Len(s) - 1) : r[k] = s[k]
    <3>1. s \in Seq(Locals) /\ Len(s) - 1 \in Nat /\ Len(s) - 1 <= Len(s)
      BY <1>3
    <3>2. 1 \in Int /\ Len(s) - 1 \in Int /\ \A i \in 1..(Len(s) - 1) : s[i] \in Locals
      BY <3>1
    <3> HIDE DEF s
    <3>3. /\ r \in Seq(Locals) /\ Len(r) = IF 1 <= Len(s) - 1 THEN (Len(s) - 1) - 1 + 1 ELSE 0
          /\ \A i \in 1..((Len(s) - 1) - 1 + 1) : r[i] = s[1 + i - 1]
      BY <3>2, SubSeqProperties
    <3>4. PICK n \in Nat : n = Len(s) - 1 /\ Len(s) = n + 1
      BY <3>1
    <3> HIDE DEF r
    <3>5. QED BY <3>3, <3>4
  <2>2. frames'[t] = r
    BY <1>2 DEF CteInv, CteTypes
  <2> HIDE DEF r
  <2>3. frames' = [frames EXCEPT ![t] = r]
    BY <1>2 DEF r
  <2>4. frames' \in [Threads -> Seq(Locals)] /\ \A u \in Threads : u # t => frames'[u] = frames[u]
    BY <2>1, <2>3 DEF CteInv, CteTypes
  <2>5. QED BY <2>1, <2>2, <2>4
<1>5. CteTypes'
  <2>1. Len(frames[t]) <= MaxDepth /\ MaxDepth \in Nat
    BY StackAssumption DEF CteInv, CteTypes
  <2>2. Len(frames'[t]) <= MaxDepth
    BY <1>3, <1>4, <2>1
  <2>3. QED BY <1>2, <1>4, <2>2 DEF CteInv, CteTypes
<1>6. Top(t)' = Top(t) + 1 /\ \A u \in Threads : u # t => Top(u)' = Top(u)
  BY <1>3, <1>4 DEF Top
<1>7. OnHart' /\ InTrap'
  BY <1>1, <1>2, <1>6 DEF OnHart, InTrap, Running
<1>8. ASSUME NEW u \in Threads PROVE LocalsKept(u)' /\ (u # t => Saved(u)')
  <2>1. LocalsKept(u) /\ (u # t => Saved(u))
    BY <1>1 DEF CteInv
  <2>2. CASE u = t
    <3>1. \A k \in 1..Len(frames'[t]) : k \in 1..Len(frames[t]) /\ frames'[t][k] = frames[t][k]
      <4>1. PICK n \in Nat \ {0} : n = Len(frames[t])
        BY <1>3
      <4>2. Len(frames'[t]) = n - 1 /\ \A k \in 1..(n - 1) : frames'[t][k] = frames[t][k]
        BY <1>4, <4>1, Zenon
      <4>3. \A k \in 1..(n - 1) : k \in 1..n
        OBVIOUS
      <4>4. QED BY <4>1, <4>2, <4>3, Zenon
    <3>2. QED BY <1>2, <2>1, <2>2, <3>1 DEF LocalsKept
  <2>3. CASE u # t
    BY <1>2, <1>4, <1>6, <2>1, <2>3 DEF LocalsKept, Saved
  <2>4. QED BY <2>2, <2>3
<1>9. QED BY <1>1, <1>2, <1>5, <1>7, <1>8 DEF CteInv

\* The slots of locals, and a thread's slots when others are written.
LEMMA LocalSlots ==
  ASSUME CteTypes, NEW u \in Threads
  PROVE  /\ u \in Pcb /\ Top(u) - 1 \in Slots /\ 0 \in Slots /\ Top(u) - 1 # 0
         /\ \A k \in 1..Len(frames[u]) : STACK_SIZE - k \in Slots /\ STACK_SIZE - k # 0
                                         /\ STACK_SIZE - k # Top(u) - 1
<1>0. u \in Pcb
  BY DEF Pcb
<1>1. /\ Top(u) - 1 \in Slots /\ 0 \in Slots /\ Len(frames[u]) \in Nat /\ Top(u) - 1 # 0
      /\ Top(u) = STACK_SIZE - Len(frames[u])
  BY <1>0, TopRange
<1>2. Len(frames[u]) <= MaxDepth
  BY DEF CteTypes
<1>3. PICK n \in Nat : n = Len(frames[u])
  BY <1>1
<1>4. QED BY <1>0, <1>1, <1>2, <1>3, StackAssumption DEF Slots

\* __am_asm_trap stores the context below the locals of the interrupted thread.
LEMMA SaveKeeps ==
  ASSUME CteInv, Save
  PROVE  CteInv'
<1>1. PICK c : c = [x |-> x, a0 |-> a0, mepc |-> csr.mepc, mstatus |-> csr.mstatus,
                    mcause |-> csr.mcause]
  OBVIOUS
<1>2. PICK t \in Pcb : t = current
  BY DEF CteInv, CteTypes
<1>3. sp = <<t, Top(t)>> /\ csr.mcause = "0xb" /\ (t \in Threads => csr.mepc = "yield_ecall" /\ x = t)
  BY <1>2 DEF Save, CteInv, InTrap
<1>4. /\ mem' = Stored(mem, t, Top(t) - 1, c) /\ sp' = <<t, Top(t) - 1>>
      /\ pc = "trap_save" /\ pc' = "trap_handle" /\ UNCHANGED <<a0, csr, current, frames>>
  BY <1>1, <1>3 DEF Save, Pushed, Below, Stored
<1>5. Top(t) - 1 \in Slots /\ Top(t) - 1 # 0
  BY TopRange DEF CteInv
<1>6. IsMem(mem') /\ \A u \in Pcb, j \in Slots :
        mem'[u][j] = IF u = t /\ j = Top(t) - 1 THEN c ELSE mem[u][j]
  <2>1. IsMem(mem)
    BY DEF CteInv, CteTypes
  <2>2. QED BY <1>4, <1>5, <2>1, MemUpdate
<1>7. CteTypes'
  BY <1>4, <1>6 DEF CteInv, CteTypes
<1>8. \A u : Top(u)' = Top(u)
  BY <1>4 DEF Top
<1>9. IsContext(c) /\ c.mcause = csr.mcause /\ c.mepc = csr.mepc /\ c.x = x
  BY <1>1 DEF IsContext
<1>10. mem'[t][Top(t) - 1] = c
  BY <1>5, <1>6
<1>11. OnHart' /\ InTrap'
  BY <1>2, <1>3, <1>4, <1>8, <1>9, <1>10 DEF OnHart, InTrap, Running
<1>12. ASSUME NEW u \in Threads PROVE LocalsKept(u)' /\ (u # t => Saved(u)')
  <2>1. /\ u \in Pcb /\ Top(u) - 1 \in Slots /\ 0 \in Slots
        /\ \A k \in 1..Len(frames[u]) : STACK_SIZE - k \in Slots /\ STACK_SIZE - k # Top(u) - 1
    BY LocalSlots DEF CteInv
  <2>2. LocalsKept(u)'
    BY <1>4, <1>6, <2>1 DEF CteInv, LocalsKept
  <2>3. ASSUME u # t PROVE Saved(u)'
    <3>1. Saved(u)
      BY <1>2, <2>3 DEF CteInv
    <3>2. mem'[u][0] = mem[u][0] /\ mem'[u][Top(u) - 1] = mem[u][Top(u) - 1]
      BY <1>6, <2>1, <2>3
    <3>3. QED BY <1>8, <3>1, <3>2 DEF Saved
  <2>4. QED BY <2>2, <2>3
<1>13. QED BY <1>2, <1>4, <1>7, <1>11, <1>12 DEF CteInv

\* __am_irq_handle leaves two threads that can resume, and returns the other.
LEMMA HandleKeeps ==
  ASSUME CteInv, am_irq_handle
  PROVE  CteInv'
<1>1. PICK t \in Pcb : t = current
  BY DEF CteInv, CteTypes
<1>2. PICK i \in Slots : i = Top(t) - 1 /\ i # 0
  BY TopRange DEF CteInv
<1>3. PICK c : c = mem[t][i]
  OBVIOUS
<1>4. /\ pc = "trap_handle" /\ sp = <<t, i>> /\ IsContext(c) /\ c.mcause = "0xb"
      /\ t \in Threads => c.mepc = "yield_ecall" /\ c.x = t
  BY <1>1, <1>2, <1>3 DEF am_irq_handle, CteInv, InTrap
<1>5. PICK e : e = irq_mepc(c)
  OBVIOUS
<1>6. PICK d : d = [c EXCEPT !.mepc = e]
  OBVIOUS
<1>7. /\ IsContext(d) /\ d.mepc = e /\ d.x = c.x /\ d.a0 = c.a0
  <2>1. d = [x |-> c.x, a0 |-> c.a0, mepc |-> e, mstatus |-> c.mstatus, mcause |-> c.mcause]
    BY <1>4, <1>6 DEF IsContext
  <2>2. QED BY <2>1 DEF IsContext
<1>8. t \in Threads => Resumes(d, t)
  <2>1. t \in Threads => e = "yield_after"
    BY <1>4, <1>5 DEF irq_mepc, Plus4
  <2>2. QED BY <1>4, <1>7, <2>1 DEF Resumes
<1>9. PICK m : m = Stored(Stored(mem, t, i, d), t, 0, i)
  OBVIOUS
<1>10. IsMem(mem) /\ 0 \in Slots
  BY TopRange DEF CteInv, CteTypes
<1>11. IsMem(m) /\ \A u \in Pcb, j \in Slots :
         m[u][j] = IF u = t /\ j = 0 THEN i ELSE IF u = t /\ j = i THEN d ELSE mem[u][j]
  <2>1. IsMem(Stored(mem, t, i, d)) /\ \A u \in Pcb, j \in Slots :
          Stored(mem, t, i, d)[u][j] = IF u = t /\ j = i THEN d ELSE mem[u][j]
    BY <1>10, MemUpdate
  <2>2. PICK n : n = Stored(mem, t, i, d)
    OBVIOUS
  <2>3. IsMem(n) /\ m = Stored(n, t, 0, i)
    BY <1>9, <2>1, <2>2, Zenon
  <2>4. IsMem(m) /\ \A u \in Pcb, j \in Slots : m[u][j] = IF u = t /\ j = 0 THEN i ELSE n[u][j]
    BY <1>10, <2>3, MemUpdate
  <2>5. QED BY <2>1, <2>2, <2>4
<1>12. /\ mem' = m /\ current' = next_thread /\ a0' = <<next_thread, m[next_thread][0]>>
       /\ pc' = "trap_restore" /\ UNCHANGED <<x, sp, csr, frames>>
  <2>1. [mem EXCEPT ![sp[1]][sp[2]].mepc = irq_mepc(mem[sp[1]][sp[2]]), ![current][0] = sp[2]] = m
    BY <1>1, <1>3, <1>4, <1>5, <1>6, <1>9 DEF Stored
  <2>2. QED BY <2>1 DEF am_irq_handle
<1>13. next_thread \in Threads /\ next_thread # t /\ \A u \in Threads : u \in Pcb
  BY <1>1 DEF next_thread, Threads, Pcb
<1>14. \A u : Top(u)' = Top(u)
  BY <1>12 DEF Top
<1>15. ASSUME NEW u \in Threads PROVE LocalsKept(u)' /\ Saved(u)'
  <2>1. /\ u \in Pcb /\ Top(u) - 1 \in Slots /\ 0 \in Slots /\ Top(u) - 1 # 0
        /\ \A k \in 1..Len(frames[u]) : STACK_SIZE - k \in Slots /\ STACK_SIZE - k # 0
                                        /\ STACK_SIZE - k # Top(u) - 1
    BY LocalSlots DEF CteInv
  <2>2. LocalsKept(u)'
    BY <1>2, <1>11, <1>12, <2>1 DEF CteInv, LocalsKept
  <2>3. CASE u = t
    <3>1. m[t][0] = i /\ m[t][i] = d
      BY <1>2, <1>10, <1>11
    <3>2. QED BY <1>2, <1>8, <1>12, <1>14, <2>2, <2>3, <3>1 DEF Saved
  <2>4. CASE u # t
    <3>1. Saved(u)
      BY <1>1, <2>4 DEF CteInv
    <3>2. m[u][0] = mem[u][0] /\ m[u][Top(u) - 1] = mem[u][Top(u) - 1]
      BY <1>11, <2>1, <2>4
    <3>3. QED BY <1>12, <1>14, <2>2, <3>1, <3>2 DEF Saved
  <2>5. QED BY <2>3, <2>4
<1>16. m[next_thread][0] = Top(next_thread) - 1
  BY <1>12, <1>13, <1>14, <1>15 DEF Saved
<1>17. CteTypes'
  BY <1>11, <1>12, <1>13 DEF CteInv, CteTypes
<1>18. OnHart' /\ InTrap'
  BY <1>12, <1>13, <1>14, <1>16 DEF OnHart, InTrap, Running
<1>19. QED BY <1>15, <1>17, <1>18 DEF CteInv

\* mret goes on where the thread yielded, with its register and stack pointer.
LEMMA RestoreKeeps ==
  ASSUME CteInv, Restore
  PROVE  CteInv'
<1>1. PICK t \in Threads : t = current /\ a0 = <<t, Top(t) - 1>> /\ Saved(t) /\ pc = "trap_restore"
  BY DEF Restore, CteInv, InTrap
<1>2. PICK c : c = mem[t][Top(t) - 1]
  OBVIOUS
<1>3. /\ x' = c.x /\ a0' = c.a0 /\ sp' = <<t, (Top(t) - 1) + 1>> /\ pc' = c.mepc
      /\ csr' = [csr EXCEPT !.mepc = c.mepc, !.mstatus = c.mstatus]
      /\ UNCHANGED <<mem, current, frames>>
  BY <1>1, <1>2 DEF Restore
<1>4. (c.mepc = "f" /\ c.a0 = t) \/ (c.mepc = "yield_after" /\ c.x = t)
  BY <1>1, <1>2 DEF Saved, Resumes
<1>5. Top(t) \in Nat /\ (Top(t) - 1) + 1 = Top(t)
  BY TopRange DEF CteInv, Pcb
<1>6. CteTypes'
  <2>1. csr' = [mepc |-> c.mepc, mcause |-> csr.mcause, mstatus |-> c.mstatus]
    BY <1>3 DEF CteInv, CteTypes
  <2>2. csr' = [mepc |-> csr'.mepc, mcause |-> csr'.mcause, mstatus |-> csr'.mstatus]
    BY <2>1
  <2>3. QED BY <1>3, <1>4, <2>2 DEF CteInv, CteTypes
<1>7. OnHart' /\ InTrap'
  BY <1>1, <1>3, <1>4, <1>5 DEF OnHart, InTrap, Running, Top
<1>8. (\A u \in Threads : LocalsKept(u)') /\ \A u \in Threads : Saved(u)'
  BY <1>1, <1>3 DEF CteInv, LocalsKept, Saved, Top
<1>9. QED BY <1>6, <1>7, <1>8 DEF CteInv

(***************************************************************************)
(* A context switch of yield-os is invisible to the thread (OwnState), for *)
(* every size of stack, depth of calls and locals that fit it: the trap    *)
(* code, the event handler and schedule return to each thread with the     *)
(* register, stack pointer and locals it yielded with, and never to main.  *)
(***************************************************************************)
THEOREM SwitchIsInvisible == CteSpec => []OwnState
<1>1. CteInit => CteInv
  BY CteStart
<1>2. CteInv /\ [CteNext]_cteVars => CteInv'
  <2> SUFFICES ASSUME CteInv, [CteNext]_cteVars PROVE CteInv'
    OBVIOUS
  <2>1. CASE UNCHANGED cteVars
    BY <2>1 DEF cteVars, CteInv, CteTypes, OnHart, InTrap, Running, LocalsKept, Saved, Top
  <2>2. QED
    BY <2>1, QuietSteps, CallKeeps, ReturnKeeps, SaveKeeps, HandleKeeps, RestoreKeeps DEF CteNext
<1>3. CteInv => OwnState
  <2> SUFFICES ASSUME CteInv PROVE OwnState
    OBVIOUS
  <2>1. pc # "main_after"
    BY DEF CteInv, CteTypes
  <2>2. ASSUME Running
        PROVE  /\ current = Me /\ Me \in Threads /\ x = Me
               /\ sp[2] = STACK_SIZE - Len(frames[Me]) /\ LocalsKept(Me)
    <3>1. current \in Threads /\ sp = <<current, Top(current)>> /\ x = current
      BY <2>2 DEF CteInv, OnHart
    <3>2. current # Boot
      BY <3>1 DEF Threads, Boot
    <3>3. QED BY <3>1, <3>2 DEF CteInv, Me, Top
  <2>3. QED BY <2>1, <2>2 DEF OwnState, LocalsKept
<1>4. QED BY <1>1, <1>2, <1>3, PTL DEF CteSpec

=============================================================================
