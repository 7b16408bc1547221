------------------------------- MODULE Snake -------------------------------
(***************************************************************************)
(* The snake game (am-kernels/kernels/snake/snake.c).  The body is a ring  *)
(* of MAX_LENGTH cells of which the last length count; the screen is never *)
(* redrawn: each round paints the new head and erases the cell that the    *)
(* tail has left, so ring, length and screen must stay in step.  A cell of *)
(* the snake is not shown when it has been erased, or food put on it.      *)
(***************************************************************************)
EXTENDS Integers, FiniteSets

CONSTANTS
  MAX_LENGTH,
  Width, Height       \* game_size

ASSUME SnakeAssumption ==
  MAX_LENGTH \in Nat /\ MAX_LENGTH > 2 /\ Width \in Nat \ {0} /\ Height \in Nat \ {0}

VARIABLES
  body, length, index, dead, dir, food,
  red,                \* tiles that show a part of the snake
  drawn,              \* whether this round has painted the head yet
  onTail,             \* history: a food was eaten on the cell the tail had just left
  hidden              \* history: where the snake is never painted, erased, or under food

snakeVars == <<body, length, index, dead, dir, food, red, drawn, onTail, hidden>>

Point == [x : 0..(Width - 1), y : 0..(Height - 1)]
Ring == 0..(MAX_LENGTH - 1)

SnakeInit ==
  /\ body = [i \in Ring |->
               CASE i = 0 -> [x |-> Width \div 2, y |-> Height \div 2]
                 [] i = 1 -> [x |-> Width \div 2, y |-> Height \div 2 + 1]
                 [] OTHER -> [x |-> 0, y |-> 0]]
  /\ length = 2
  /\ index = 1
  /\ dead = FALSE
  /\ dir = "RIGHT"
  /\ food \in Point                  \* create_food
  /\ red = {}
  /\ drawn = FALSE
  /\ onTail = FALSE
  /\ hidden = {body[0]}              \* print_head starts with body[1]

\* Where the loops of clear_tail and is_dead look for the i-th cell behind.
Behind(i) == IF index - i < 0 THEN index - i + MAX_LENGTH ELSE index - i

\* Mutation of clear_tail: one cell further back, already erased.
clear_tail_late == {body[Behind((length + 1) % MAX_LENGTH)]}

\* The cell to erase.  One more than the ring holds and an index of 0 make the
\* code read body[-1].
clear_tail == IF Behind(length) \in Ring THEN {body[Behind(length)]} ELSE Point

Cells == {body[Behind(i)] : i \in 0..(length - 1)}

\* print_head, then clear_tail, which may be the same tile.
Draw ==
  /\ ~dead /\ ~drawn
  /\ \E tail \in clear_tail :
       /\ red' = (red \cup {body[index]}) \ {tail}
       /\ hidden' = Cells \cap IF tail = body[index] THEN hidden \cup {tail}
                                ELSE hidden \ {body[index]}
  /\ drawn' = TRUE
  /\ UNCHANGED <<body, length, index, dead, dir, food, onTail>>

----------------------------------------------------------------------------
Opposite == [UP |-> "DOWN", DOWN |-> "UP", LEFT |-> "RIGHT", RIGHT |-> "LEFT"]

\* A key that would turn the snake round is ignored.
turn(key) == IF key \in DOMAIN Opposite /\ dir # Opposite[key] THEN key ELSE dir

ahead(d) ==
  LET p == body[index]
  IN  CASE d = "LEFT"  -> [p EXCEPT !.x = @ - 1]
        [] d = "DOWN"  -> [p EXCEPT !.y = @ + 1]
        [] d = "RIGHT" -> [p EXCEPT !.x = @ + 1]
        [] d = "UP"    -> [p EXCEPT !.y = @ - 1]

move_snake(d) ==
  /\ index' = IF index + 1 = MAX_LENGTH THEN 0 ELSE index + 1
  /\ body' = [body EXCEPT ![index'] = ahead(d)]

is_dead ==
  \/ body'[index'].x \in {-1, Width} \/ body'[index'].y \in {-1, Height}
  \/ \E i \in 1..(length - 1) : body'[index'] = body'[Behind(i)']

has_food == body'[index'] = food

\* The rest of the round, for the key read and the next food.
Move(key, next) ==
  /\ ~dead /\ drawn
  /\ dir' = turn(key)
  /\ move_snake(dir')
  /\ dead' = is_dead
  /\ IF has_food
     THEN /\ length' = length + 1
          /\ food' = next
          /\ red' = red \ {next}                       \* print_food
          /\ hidden' = hidden \cup {next}
          /\ onTail' =
                \/ onTail
                \/ length <= MAX_LENGTH /\ food = body[Behind(length - 1)]
     ELSE /\ next = food
          /\ UNCHANGED <<length, food, red, onTail, hidden>>
  /\ drawn' = FALSE

SnakeNext ==
  \/ Draw
  \/ \E key \in DOMAIN Opposite \cup {"NONE"}, next \in Point : Move(key, next)

SnakeSpec == SnakeInit /\ [][SnakeNext]_snakeVars

----------------------------------------------------------------------------
(* While the body is shorter than its ring, and unless the snake ate on    *)
(* the cell its tail had just left (is_dead runs before the body grows by  *)
(* it), a tile shows the snake just where it is, but for the cell it       *)
(* started from, cells food was put on, and cells it entered in the very   *)
(* round its tail left them: there clear_tail erases the head that         *)
(* print_head has drawn (snake.c:158), and no later round paints it.  No   *)
(* tile ever shows the snake where it is not; a living snake covers no     *)
(* cell twice; and one longer than the ring, which has no test for full,   *)
(* is ended by is_dead, whose loop then meets the head itself.             *)
ScreenShowsSnake ==
  /\ drawn /\ length < MAX_LENGTH => red \subseteq Cells
  /\ drawn /\ length < MAX_LENGTH /\ ~onTail => red = Cells \ hidden
  /\ ~dead /\ ~onTail /\ length <= MAX_LENGTH => Cardinality(Cells) = length
  /\ length <= MAX_LENGTH + 2 /\ (length > MAX_LENGTH + 1 => dead)
=============================================================================
