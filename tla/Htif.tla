-------------------------------- MODULE Htif --------------------------------
(***************************************************************************)
(* The console of the Spike port (abstract-machine/am/src/riscv/spike:     *)
(* htif.c, trm.c): two words shared with the host, tohost for commands and *)
(* fromhost for answers.  The guest may only send when tohost is 0, and    *)
(* while it waits an answer to an earlier request may arrive.  A character *)
(* is its number in the output, or in the input.                           *)
(***************************************************************************)
EXTENDS Integers

CONSTANTS
  MaxOut, MaxIn       \* bounds on the characters written and typed

ASSUME HtifAssumption == MaxOut \in Nat /\ MaxIn \in Nat

\* TOHOST_CMD; a fromhost word has the same fields.
Cmd(dev, cmd, data) == [dev |-> dev, cmd |-> cmd, data |-> data]
Zero == Cmd(-1, -1, -1)               \* the word 0
EXIT == Cmd(0, 0, -1)                 \* the word 1
SYS  == Cmd(0, 0, 0)                  \* a system call that prints nothing

VARIABLES
  xlen,               \* __riscv_xlen of the build, 32 or 64
  tohost, fromhost,
  htif_console_buf,
  htif_pc,            \* where the guest is
  request,            \* the command __set_tohost is to send
  wrote, received,    \* characters putchar has taken and getchar has returned
  reading, answers,   \* host: a read request is open; answers it owes
  typed, printed,     \* host: characters typed so far, the last one printed
  prints,             \* host: how many times it has printed
  exited              \* host: has seen EXIT

guestVars == <<xlen, htif_console_buf, htif_pc, request, wrote, received>>
hostVars  == <<reading, answers, typed, printed, prints, exited>>
htifVars  == <<tohost, fromhost, guestVars, hostVars>>

HtifInit ==
  /\ xlen \in {32, 64}
  /\ tohost = Zero /\ fromhost = Zero
  /\ htif_console_buf = 0
  /\ htif_pc = "idle" /\ request = Zero
  /\ wrote = 0 /\ received = 0
  /\ reading = FALSE /\ answers = 0
  /\ typed = 0 /\ printed = 0 /\ prints = 0
  /\ exited = FALSE

----------------------------------------------------------------------------
(* The guest *)

\* The switch of __check_fromhost.
console_answer(fh) == IF fh.cmd = 0 THEN 1 + fh.data ELSE htif_console_buf

\* Mutation of check_fromhost: the word is not cleared.
check_fromhost_keep ==
  /\ htif_console_buf' = IF fromhost = Zero THEN htif_console_buf
                         ELSE console_answer(fromhost)
  /\ UNCHANGED fromhost

check_fromhost ==
  IF fromhost = Zero
  THEN UNCHANGED <<fromhost, htif_console_buf>>
  ELSE /\ fromhost.dev = 1            \* else the assertion stops the guest
       /\ htif_console_buf' = console_answer(fromhost)
       /\ fromhost' = Zero

\* htif_console_getchar up to __set_tohost: nothing on RV32.
htif_console_getchar ==
  /\ xlen = 64 /\ htif_pc = "idle"
  /\ check_fromhost
  /\ htif_pc' = "take"
  /\ UNCHANGED <<tohost, request, wrote, received, hostVars, xlen>>

take ==
  /\ htif_pc = "take"
  /\ IF htif_console_buf >= 0
     THEN /\ received' = IF htif_console_buf > 0 THEN htif_console_buf - 1
                        ELSE received
          /\ htif_console_buf' = -1
          /\ request' = Cmd(1, 0, 0)
          /\ htif_pc' = "set_tohost"
     ELSE /\ htif_pc' = "idle"
          /\ UNCHANGED <<received, htif_console_buf, request>>
  /\ UNCHANGED <<tohost, fromhost, wrote, hostVars, xlen>>

\* On RV32 a write system call whose arguments lie in memory.
htif_console_putchar ==
  /\ htif_pc = "idle" /\ wrote < MaxOut
  /\ wrote' = wrote + 1
  /\ request' = IF xlen = 64 THEN Cmd(1, 1, wrote + 1) ELSE Cmd(0, 0, wrote + 1)
  /\ htif_pc' = "set_tohost"
  /\ UNCHANGED <<tohost, fromhost, htif_console_buf, received, hostVars, xlen>>

htif_syscall ==
  /\ htif_pc = "idle"
  /\ request' = SYS
  /\ htif_pc' = "set_tohost"
  /\ UNCHANGED <<tohost, fromhost, htif_console_buf, wrote, received, hostVars,
                 xlen>>

\* Mutation of may_send: the guest does not wait for the host.
may_send_now == TRUE

may_send == tohost = Zero

\* Mutation of set_tohost: it may send once more, not knowing that the host
\* has been faster.
set_tohost_again ==
  /\ htif_pc = "set_tohost"
  /\ IF may_send
     THEN /\ tohost' = request
          /\ htif_pc' \in {"set_tohost", IF request.dev = 0 THEN "do_fromhost" ELSE "idle"}
          /\ UNCHANGED <<fromhost, htif_console_buf>>
     ELSE /\ check_fromhost
          /\ UNCHANGED <<tohost, htif_pc>>
  /\ UNCHANGED <<request, wrote, received, hostVars, xlen>>

\* __set_tohost; a system call then waits for its answer.
set_tohost ==
  /\ htif_pc = "set_tohost"
  /\ IF may_send
     THEN /\ tohost' = request
          /\ htif_pc' = IF request.dev = 0 THEN "do_fromhost" ELSE "idle"
          /\ UNCHANGED <<fromhost, htif_console_buf>>
     ELSE /\ check_fromhost
          /\ UNCHANGED <<tohost, htif_pc>>
  /\ UNCHANGED <<request, wrote, received, hostVars, xlen>>

\* Mutation of answered: any answer will do.
answered_any == fromhost # Zero

answered ==
  fromhost # Zero /\ fromhost.dev = request.dev /\ fromhost.cmd = request.cmd

\* The loop of do_tohost_fromhost.
do_fromhost ==
  /\ htif_pc = "do_fromhost"
  /\ IF answered
     THEN /\ fromhost' = Zero
          /\ htif_pc' = "idle"
          /\ UNCHANGED htif_console_buf
     ELSE /\ check_fromhost
          /\ UNCHANGED htif_pc
  /\ UNCHANGED <<tohost, request, wrote, received, hostVars, xlen>>

\* halt: the two stores are repeated for ever.
htif_poweroff ==
  /\ htif_pc \in {"idle", "off"}
  /\ htif_pc' = "off"
  /\ fromhost' = Zero
  /\ tohost' = EXIT
  /\ UNCHANGED <<htif_console_buf, request, wrote, received, hostVars, xlen>>

InCall == take \/ set_tohost \/ do_fromhost

----------------------------------------------------------------------------
(* The host, from how the guest uses it *)

\* A character to print: of the console, or a write system call.
Prints(word) == word \notin {EXIT, SYS} /\ (word.dev = 0 \/ word.cmd = 1)

\* It takes a command, and clears the word.
Serve ==
  /\ ~exited /\ tohost # Zero
  /\ tohost' = Zero
  /\ exited' = (tohost = EXIT)
  /\ reading' = (reading \/ (tohost.dev = 1 /\ tohost.cmd = 0))
  /\ printed' = IF Prints(tohost) THEN tohost.data ELSE printed
  /\ prints' = IF Prints(tohost) THEN prints + 1 ELSE prints
  /\ answers' = IF tohost # EXIT /\ tohost.dev = 0 THEN answers + 1 ELSE answers
  /\ UNCHANGED <<fromhost, guestVars, typed>>

\* It answers when the guest has taken the last answer.
Reply ==
  /\ ~exited /\ fromhost = Zero /\ answers > 0
  /\ fromhost' = Cmd(0, 0, 0)
  /\ answers' = answers - 1
  /\ UNCHANGED <<tohost, guestVars, reading, typed, printed, prints, exited>>

\* The user types a character that has been asked for.
Type ==
  /\ ~exited /\ fromhost = Zero /\ reading /\ typed < MaxIn
  /\ typed' = typed + 1
  /\ reading' = FALSE
  /\ fromhost' = Cmd(1, 0, typed + 1)
  /\ UNCHANGED <<tohost, guestVars, answers, printed, prints, exited>>

HtifNext ==
  \/ htif_console_getchar \/ htif_console_putchar \/ htif_syscall
  \/ htif_poweroff \/ InCall
  \/ Serve \/ Reply \/ Type

(* The guest goes on with a call, and the host keeps polling. *)
HtifSpec ==
  /\ HtifInit /\ [][HtifNext]_htifVars
  /\ WF_htifVars(InCall) /\ WF_htifVars(Serve) /\ WF_htifVars(Reply)

----------------------------------------------------------------------------
(* The n-th time the host prints, it prints the n-th character putchar has *)
(* taken: no command is overwritten before the host has seen it, and none  *)
(* is seen twice.  When the power goes off everything has been printed on  *)
(* RV32, where putchar waits for its answer; on RV64 the last character    *)
(* may be lost, as htif_poweroff does not wait for tohost (htif.c:109).    *)
OutputOnce ==
  [][/\ prints' # prints => printed' = prints'
     /\ exited' => wrote' - printed' \in (IF xlen = 32 THEN {0} ELSE {0, 1})]_htifVars

(* A character that was typed has been read, or is on its way in exactly  *)
(* one place: an answer that arrives while the guest waits to send, or for *)
(* another answer, is neither lost nor overwritten.                        *)
InputKept ==
  LET Buffered == htif_console_buf = 1 + typed
      Arriving == fromhost = Cmd(1, 0, typed)
  IN  htif_pc # "off" =>
        \/ received = typed /\ htif_console_buf <= 0
        \/ received = typed - 1 /\ (Buffered \/ Arriving) /\ ~(Buffered /\ Arriving)

(* No call waits for ever.                                                 *)
CallsReturn == htif_pc \notin {"idle", "off"} ~> htif_pc = "idle"
=============================================================================
