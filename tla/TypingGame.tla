----------------------------- MODULE TypingGame -----------------------------
(***************************************************************************)
(* The typing game (am-kernels/kernels/typing-game/game.c): letters fall   *)
(* and are missed at the bottom, or are typed and rise.  The loop of main  *)
(* catches up with the clock and then takes the keys that wait, so frames  *)
(* and keys interleave freely.  Counters are ints: they wrap at IntSize.   *)
(***************************************************************************)
EXTENDS Integers, FiniteSets

CONSTANTS
  NCHAR, FPS, CPS,
  Bottom,             \* screen_h - CHAR_H
  Letters,
  None,               \* ch = '\0'
  IntSize

ASSUME GameAssumption ==
  /\ {NCHAR, FPS, CPS, IntSize} \subseteq Nat \ {0}
  /\ CPS <= FPS /\ Bottom \in Nat
  /\ Bottom + 1 >= FPS * 2           \* a screen on which letters move
  /\ None \notin Letters

VARIABLES
  chars, hit, miss, wrong,
  frame,              \* current, modulo FPS / CPS
  created             \* history: letters so far

gameVars == <<chars, hit, miss, wrong, frame, created>>

Slot == 1..NCHAR

Add(n, k) == (n + k) % IntSize

GameInit ==
  /\ chars = [i \in Slot |-> [ch |-> None, y |-> 0, v |-> 0, t |-> 0]]
  /\ hit = 0 /\ miss = 0 /\ wrong = 0
  /\ frame = 0
  /\ created = 0

----------------------------------------------------------------------------
Free(cs) == {i \in Slot : cs[i].ch = None}

\* The speeds of c->v, rounded down by the division.
Speeds == {(Bottom + 1) \div n : n \in ((FPS * 3) \div 2)..(FPS * 2)}

\* The letter goes to the first free slot, and nowhere if there is none.
new_char(ch, v) ==
  LET i == CHOOSE j \in Free(chars) : \A k \in Free(chars) : j <= k
  IN  IF Free(chars) = {} THEN chars
      ELSE [chars EXCEPT ![i] = [ch |-> ch, y |-> 0, v |-> v, t |-> 0]]

lands(c) == c.ch # None /\ c.t = 0 /\ c.y + c.v >= Bottom

\* One frame of one slot: the last second at the bottom, or falling or rising.
fall(c) ==
  CASE c.ch = None -> c
    [] c.ch # None /\ c.t > 0 ->
         [c EXCEPT !.t = @ - 1, !.ch = IF c.t = 1 THEN None ELSE @]
    [] lands(c) -> [c EXCEPT !.y = Bottom, !.v = 0, !.t = FPS]
    [] OTHER -> [c EXCEPT !.y = @ + c.v, !.ch = IF c.y + c.v < 0 THEN None ELSE @]

game_logic_update(ch, v) ==
  LET new == frame % (FPS \div CPS) = 0
      cs == IF new THEN new_char(ch, v) ELSE chars
  IN  /\ chars' = [i \in Slot |-> fall(cs[i])]
      /\ miss' = Add(miss, Cardinality({i \in Slot : lands(cs[i])}))
      /\ created' = IF new /\ Free(chars) # {} THEN Add(created, 1) ELSE created
      /\ frame' = (frame + 1) % (FPS \div CPS)
      /\ UNCHANGED <<hit, wrong>>

----------------------------------------------------------------------------
\* Mutation of matches: a letter that has been typed or missed counts again.
matches_any(ch) == {i \in Slot : chars[i].ch = ch}

matches(ch) == {i \in Slot : chars[i].ch = ch /\ chars[i].v > 0}

\* The lowest falling letter of the key, the first of equals.
check_hit(ch) ==
  LET ms == matches(ch)
      m == CHOOSE i \in ms : \A j \in ms :
             chars[i].y > chars[j].y \/ (chars[i].y = chars[j].y /\ i <= j)
  IN  /\ IF ms = {}
         THEN wrong' = Add(wrong, 1) /\ UNCHANGED <<chars, hit>>
         ELSE /\ hit' = Add(hit, 1)
              /\ chars' = [chars EXCEPT ![m].v = -((Bottom + 1) \div FPS)]
              /\ UNCHANGED wrong
      /\ UNCHANGED <<miss, frame, created>>

Frame == \E ch \in Letters, v \in Speeds : game_logic_update(ch, v)

GameNext == Frame \/ \E ch \in Letters : check_hit(ch)

GameSpec == GameInit /\ [][GameNext]_gameVars

----------------------------------------------------------------------------
Falling == {i \in Slot : chars[i].ch # None /\ chars[i].v > 0}

(* Every letter is scored once: it falls, or has been counted as hit or as *)
(* missed and not both, whenever the key comes before, in or after the     *)
(* frame in which it reaches the bottom.                                   *)
ScoredOnce == created = Add(hit + miss, Cardinality(Falling))
=============================================================================
