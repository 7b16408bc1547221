------------------------------ MODULE MCGuest ------------------------------
(***************************************************************************)
(* The guest library and sequential guest programs for TLC: the string     *)
(* functions and the formatting of klib, its malloc and the allocator of   *)
(* microbench, and the snake game.  They share no variable, so each is     *)
(* explored alone: part is the one that moves.                             *)
(***************************************************************************)
EXTENDS Klib, Printf, Heap, Snake

VARIABLE part

\* The inputs of a part that does not move are of no interest.
Inputs(p, S, one) == IF part = p THEN S ELSE {one}

GuestInit ==
  /\ part \in {"string", "stdio", "heap", "snake"}
  /\ mem \in Inputs("string", Memory, [a \in Addr |-> 0])
  /\ value \in Inputs("stdio", Ints, 0)
  /\ bench \in Inputs("heap", BOOLEAN, FALSE)
  /\ dirty \in Inputs("heap", {{}, {HeapStart}}, {})
  /\ food \in Inputs("snake", Point, [x |-> 0, y |-> 0])
  /\ KlibInit /\ PrintfInit /\ HeapInit /\ SnakeInit
  /\ part # "stdio" => fmt = [conv |-> "d", pad |-> 0, width |-> 0]

GuestNext ==
  /\ UNCHANGED part
  /\ \/ part = "string" /\ KlibNext /\ UNCHANGED <<printfVars, heapVars, snakeVars>>
     \/ part = "stdio" /\ vsprintf /\ UNCHANGED <<klibVars, heapVars, snakeVars>>
     \/ part = "heap" /\ HeapNext /\ UNCHANGED <<klibVars, printfVars, snakeVars>>
     \/ part = "snake" /\ SnakeNext /\ UNCHANGED <<klibVars, printfVars, heapVars>>

GuestSpec ==
  GuestInit /\ [][GuestNext]_<<part, klibVars, printfVars, heapVars, snakeVars>>
=============================================================================
