-------------------------------- MODULE Bus --------------------------------
(***************************************************************************)
(* What an access does outside pmem: the dispatch of pmem_read and         *)
(* pmem_write (core/csrc/memory.cpp) and the registers of                  *)
(* core/csrc/device/mmio.cpp.  The 64-bit clock at 0xa0000048 is read by   *)
(* two word loads, the high word first since only it updates the latch;    *)
(* between the two time passes and the debugger may look at the registers. *)
(* The runtime of the core, __am_timer_uptime, reads the clock at          *)
(* 0x200bff8 instead.                                                      *)
(***************************************************************************)
EXTENDS Naturals

CONSTANTS
  WordSize,           \* 2^32
  MaxTime,            \* bound on the clock
  MaxPrinted          \* bound on the bytes printed

ASSUME BusAssumption == WordSize \in Nat \ {0} /\ MaxTime \in Nat /\ MaxPrinted \in Nat

VARIABLES
  us,                 \* get_time(): microseconds since boot
  rtc_port,           \* the latch: low word, high word
  guest,              \* the guest's read of the clock
  printed,            \* bytes the serial port has written
  skip_ref,           \* difftest_skip_ref has been called
  stopped             \* panic("illegal access for pmem")

busVars == <<us, rtc_port, guest, printed, skip_ref, stopped>>

\* What in_mem and the comparisons of mmio.cpp tell apart.
Addr == {"pmem", "rtc_lo", "rtc_hi", "serial", "clint", "hole"}

Idle == [at |-> "idle", high |-> 0, began |-> 0, looked |-> FALSE, value |-> 0]

BusInit ==
  /\ us = 0
  /\ rtc_port = [lo |-> 0, hi |-> 0]
  /\ guest = Idle
  /\ printed = 0
  /\ skip_ref = FALSE
  /\ stopped = FALSE

----------------------------------------------------------------------------
\* Mutation of rtc_port_update: the high word is not latched with the low one.
rtc_port_update_low == [rtc_port EXCEPT !.lo = us % WordSize]

rtc_port_update == [lo |-> us % WordSize, hi |-> us \div WordSize]

\* The latch and the word an access to addr reads; pmem is Lanes's subject.
mmio_read(addr) ==
  CASE addr = "rtc_lo" -> [port |-> rtc_port, word |-> rtc_port.lo]
    [] addr = "rtc_hi" -> [port |-> rtc_port_update, word |-> rtc_port_update.hi]

pmem_read(addr) ==
  CASE addr = "pmem"               -> UNCHANGED <<rtc_port, skip_ref, stopped>>
    [] addr \in {"rtc_lo", "rtc_hi"} ->
         skip_ref' = TRUE /\ rtc_port' = mmio_read(addr).port /\ UNCHANGED stopped
    [] OTHER -> skip_ref' = TRUE /\ stopped' = TRUE /\ UNCHANGED rtc_port

pmem_write(addr) ==
  CASE addr = "pmem"   -> UNCHANGED <<printed, skip_ref, stopped>>
    [] addr = "serial" -> skip_ref' = TRUE /\ printed' = printed + 1 /\ UNCHANGED stopped
    [] OTHER           -> skip_ref' = TRUE /\ stopped' = TRUE /\ UNCHANGED printed

----------------------------------------------------------------------------
(* The clock runs whatever the simulator does. *)
Tick ==
  /\ us < MaxTime
  /\ us' = us + 1
  /\ UNCHANGED <<rtc_port, guest, printed, skip_ref, stopped>>

(* The two loads of a guest that reads the clock of mmio.cpp, as the lines *)
(* timer.c has commented out do; each is one access of the cache.          *)
ReadHigh ==
  /\ ~stopped
  /\ guest.at = "idle"
  /\ pmem_read("rtc_hi")
  /\ guest' = [at |-> "high", high |-> mmio_read("rtc_hi").word, began |-> us,
               looked |-> FALSE, value |-> guest.value]
  /\ UNCHANGED <<us, printed>>

ReadLow ==
  /\ ~stopped
  /\ guest.at = "high"
  /\ pmem_read("rtc_lo")
  /\ guest' = [guest EXCEPT !.at = "done",
                            !.value = guest.high * WordSize + mmio_read("rtc_lo").word]
  /\ UNCHANGED <<us, printed>>

Return ==
  /\ guest.at = "done"
  /\ guest' = [guest EXCEPT !.at = "idle"]
  /\ UNCHANGED <<us, rtc_port, printed, skip_ref, stopped>>

(* The first load of __am_timer_uptime.  It does not return, so the second *)
(* and the arithmetic after it are never reached.                          *)
am_timer_uptime ==
  /\ ~stopped
  /\ guest.at = "idle"
  /\ pmem_read("clint")
  /\ guest' = [guest EXCEPT !.at = "uptime"]
  /\ UNCHANGED <<us, printed>>

(* putch, and a store that no register takes. *)
MmioStore(addr) ==
  /\ ~stopped
  /\ guest.at = "idle"
  /\ printed < MaxPrinted
  /\ pmem_write(addr)
  /\ UNCHANGED <<us, rtc_port, guest>>

(* x and p of the debugger, or a watched dereference, between two          *)
(* instructions of the guest.                                              *)
Look(addr) ==
  /\ ~stopped
  /\ pmem_read(addr)
  /\ guest' = [guest EXCEPT !.looked = @ \/ addr = "rtc_hi"]
  /\ UNCHANGED <<us, printed>>

BusNext == \/ Tick \/ ReadHigh \/ ReadLow \/ Return \/ am_timer_uptime
        \/ \E a \in Addr : MmioStore(a) \/ Look(a)

BusSpec == BusInit /\ [][BusNext]_busVars

----------------------------------------------------------------------------
(* The guest gets a time the clock had: the two words belong together      *)
(* although a carry may come between the loads, because only the high word *)
(* updates the latch and is read first; only a debugger that reads the     *)
(* high word in between can tear them apart.                               *)
ReadsATime ==
  guest.at = "done" /\ ~guest.looked => guest.value = guest.began

(* The runtime's clock is readable: coremark, which the README says to run *)
(* on the core, calls __am_timer_uptime before and after its timed part.   *)
ClockAnswers == guest.at = "uptime" => ~stopped
=============================================================================
