------------------------------ MODULE KeyQueue ------------------------------
(***************************************************************************)
(* The keyboard of the native port (abstract-machine/am/src/native/ioe/    *)
(* input.c): the event thread appends to a ring that has no test for full, *)
(* the program takes from it.  Both do so under key_queue_lock, so each is *)
(* one step.  A key is the number of its event.                            *)
(***************************************************************************)
EXTENDS Naturals

CONSTANTS
  KEY_QUEUE_LEN,
  MaxEvents           \* bound on the events of a run

ASSUME LenAssumption == KEY_QUEUE_LEN \in Nat \ {0} /\ MaxEvents \in Nat

NONE == 0                             \* AM_KEY_NONE

VARIABLES
  key_queue, key_f, key_r,
  sent,               \* events so far
  kbd,                \* what the program's last read returned
  seen,               \* history: the last event it has read
  reads,              \* history: how many reads have returned an event
  full                \* history: whether KEY_QUEUE_LEN events have ever waited

keyVars == <<key_queue, key_f, key_r, sent, kbd, seen, reads, full>>

KeyInit ==
  /\ key_queue = [i \in 0..(KEY_QUEUE_LEN - 1) |-> NONE]
  /\ key_f = 0 /\ key_r = 0
  /\ sent = 0 /\ kbd = NONE /\ seen = 0 /\ reads = 0
  /\ full = FALSE

\* A key of the key map goes up or down.
event_thread ==
  /\ sent < MaxEvents
  /\ key_queue' = [key_queue EXCEPT ![key_r] = sent + 1]
  /\ key_r' = (key_r + 1) % KEY_QUEUE_LEN
  /\ sent' = sent + 1
  /\ full' = (full \/ sent + 1 - seen >= KEY_QUEUE_LEN)
  /\ UNCHANGED <<key_f, kbd, seen, reads>>

\* The ring is not empty, as far as its indices tell.
Waiting == key_f # key_r

\* Mutation of am_input_keybrd: the front stays where it is.
am_input_keybrd_keep ==
  /\ IF Waiting
     THEN /\ kbd' = key_queue[key_f]
          /\ seen' = key_queue[key_f]
          /\ reads' = reads + 1
     ELSE /\ kbd' = NONE
          /\ UNCHANGED <<seen, reads>>
  /\ UNCHANGED <<key_queue, key_f, key_r, sent, full>>

am_input_keybrd ==
  /\ IF Waiting
     THEN /\ kbd' = key_queue[key_f]
          /\ key_f' = (key_f + 1) % KEY_QUEUE_LEN
          /\ seen' = key_queue[key_f]
          /\ reads' = reads + 1
     ELSE /\ kbd' = NONE
          /\ UNCHANGED <<key_f, seen, reads>>
  /\ UNCHANGED <<key_queue, key_r, sent, full>>

KeyNext == event_thread \/ am_input_keybrd

KeySpec == KeyInit /\ [][KeyNext]_keyVars

----------------------------------------------------------------------------
(* A read that returns an event returns one that happened, and a later one *)
(* than every read before it, even after the ring has overrun: none comes  *)
(* twice, the last one either.  As long as fewer than KEY_QUEUE_LEN wait,  *)
(* it is the next one.                                                     *)
InOrder ==
  [][reads' # reads => seen < kbd' /\ kbd' <= sent /\ (~full => kbd' = seen + 1)]_keyVars
=============================================================================
