---------------------------- MODULE GuestProofs ----------------------------
(***************************************************************************)
(* Proofs about the guest programs: malloc and bench_alloc return disjoint *)
(* blocks, and bench_alloc zeroed ones, for every heap, every sequence of  *)
(* sizes and every address width; ring, length and screen of the snake     *)
(* stay in step for every ring and board; the string functions move, copy  *)
(* and compare what their names say, for every memory; and the formatting  *)
(* of numbers writes what reading them back gives, for every word width.   *)
(***************************************************************************)
EXTENDS Heap, Snake, Klib, Printf, NatLemmas, FiniteSetTheorems

Block == [start : Nat, size : Nat]

Below(bs, p) == \A i \in DOMAIN bs : bs[i].start + bs[i].size <= p

HeapInv ==
  /\ bench \in BOOLEAN /\ wrapped \in BOOLEAN /\ aborted \in BOOLEAN
  /\ addr \in Nat /\ hbrk \in Nat
  /\ addr < AddressSpace /\ hbrk < AddressSpace
  /\ blocks \in Seq(Block) /\ arena \in Seq(Block)
  /\ ~wrapped =>
       /\ HeapStart <= addr /\ addr <= HeapEnd
       /\ Below(blocks, addr) /\ MallocDisjoint
  /\ ~wrapped =>
       /\ ~aborted => HeapStart <= hbrk /\ hbrk <= HeapEnd /\ Below(arena, hbrk)
       /\ ArenaDisjoint

\* Rounding up loses nothing unless it wraps.
LEMMA RoundsUp ==
  ASSUME NEW n \in Nat, n < AddressSpace
  PROVE  /\ ROUNDUP(n) \in Nat
         /\ n + 7 < AddressSpace => n <= ROUNDUP(n)
<1>1. AddressSpace \in Nat /\ AddressSpace > 0
  BY HeapAssumption
<1>2. (n + 7) % AddressSpace \in Nat
  BY <1>1, SMT
<1>3. ASSUME NEW k \in Nat PROVE (k \div 8) * 8 \in Nat /\ k <= (k \div 8) * 8 + 7
  BY SMT
<1>4. ROUNDUP(n) \in Nat
  BY <1>2, <1>3 DEF ROUNDUP
<1>5. CASE n + 7 < AddressSpace
  <2>1. (n + 7) % AddressSpace = n + 7
    BY <1>1, <1>5, SMT
  <2>2. QED BY <2>1, <1>3, <1>4, SMT DEF ROUNDUP
<1>6. QED BY <1>4, <1>5

\* Appending a block that starts where the others end.
LEMMA AppendApart ==
  ASSUME NEW bs \in Seq(Block), NEW p \in Nat, NEW n \in Nat, NEW q \in Nat,
         Below(bs, p), Apart(bs), Inside(bs),
         HeapStart <= p, p + n <= q, q <= HeapEnd
  PROVE  LET cs == Append(bs, [start |-> p, size |-> n])
         IN  cs \in Seq(Block) /\ Below(cs, q) /\ Apart(cs) /\ Inside(cs)
<1> DEFINE b == [start |-> p, size |-> n]
           cs == Append(bs, b)
<1>1. /\ b \in Block /\ b.start = p /\ b.size = n
      /\ cs \in Seq(Block)
      /\ Len(cs) = Len(bs) + 1 /\ Len(bs) \in Nat
      /\ DOMAIN bs = 1..Len(bs) /\ DOMAIN cs = 1..(Len(bs) + 1)
      /\ \A i \in 1..Len(bs) : cs[i] = bs[i] /\ bs[i] \in Block
      /\ cs[Len(bs) + 1] = b
  <2>1. b \in Block /\ b.start = p /\ b.size = n
    BY DEF Block
  <2> HIDE DEF b
  <2>2. QED BY <2>1
<1>2. HeapStart \in Nat /\ HeapEnd \in Nat
  BY HeapAssumption
<1>3. \A i \in DOMAIN cs : i \in DOMAIN bs \/ cs[i] = b
  BY <1>1
<1>4. \A i \in DOMAIN bs : bs[i].start \in Nat /\ bs[i].size \in Nat
  BY <1>1 DEF Block
<1>5. Below(cs, q)
  BY <1>1, <1>2, <1>3, <1>4 DEF Below
<1>6. Apart(cs)
  <2> SUFFICES ASSUME NEW i \in DOMAIN cs, NEW j \in DOMAIN cs, i < j
               PROVE  cs[i].start + cs[i].size <= cs[j].start
    BY DEF Apart
  <2>1. i \in 1..Len(bs)
    BY <1>1
  <2>2. CASE j \in 1..Len(bs)
    BY <1>1, <2>1, <2>2 DEF Apart
  <2>3. CASE j = Len(bs) + 1
    BY <1>1, <2>1, <2>3 DEF Below
  <2>4. QED BY <1>1, <2>2, <2>3
<1>7. Inside(cs)
  BY <1>1, <1>2, <1>3, <1>4 DEF Inside
<1>8. QED BY <1>1, <1>5, <1>6, <1>7

\* A sum that does not wrap is the sum.
LEMMA SumFits ==
  ASSUME NEW p \in Nat, NEW n \in Sizes, p < AddressSpace
  PROVE  /\ (p + ROUNDUP(n)) % AddressSpace \in Nat
         /\ (p + ROUNDUP(n)) % AddressSpace < AddressSpace
         /\ ~Wraps(p, n) => /\ (p + ROUNDUP(n)) % AddressSpace = p + ROUNDUP(n)
                            /\ n <= ROUNDUP(n)
<1>1. AddressSpace \in Nat /\ AddressSpace > 0 /\ n \in Nat /\ n < AddressSpace
  BY HeapAssumption
<1>2. ROUNDUP(n) \in Nat /\ (n + 7 < AddressSpace => n <= ROUNDUP(n))
  BY <1>1, RoundsUp
<1>3. ASSUME NEW k \in Nat
      PROVE  /\ k % AddressSpace \in Nat /\ k % AddressSpace < AddressSpace
             /\ k < AddressSpace => k % AddressSpace = k
  BY <1>1, SMT
<1>4. QED BY <1>1, <1>2, <1>3 DEF Wraps

\* The heap is not empty and the pointers start at its lower end.
LEMMA InitHeap == HeapInit => HeapInv
<1> SUFFICES ASSUME HeapInit PROVE HeapInv
  OBVIOUS
<1>1. << >> \in Seq(Block) /\ Below(<< >>, HeapStart) /\ Apart(<< >>) /\ Inside(<< >>)
  BY DEF Below, Apart, Inside
<1>2. HeapStart \in Nat /\ HeapStart <= HeapEnd /\ HeapStart < AddressSpace
  BY HeapAssumption
<1>3. HeapStart <= HeapStart
  BY <1>2
<1>4. MallocDisjoint /\ ArenaDisjoint /\ Below(blocks, addr) /\ Below(arena, hbrk)
  BY <1>1 DEF HeapInit, MallocDisjoint, ArenaDisjoint
<1>5. QED BY <1>1, <1>2, <1>3, <1>4, Zenon DEF HeapInit, HeapInv

\* Every call keeps the pointers above the blocks they have left behind.
LEMMA StepHeap == HeapInv /\ [HeapNext]_heapVars => HeapInv'
<1> SUFFICES ASSUME HeapInv, [HeapNext]_heapVars PROVE HeapInv'
  OBVIOUS
<1> USE DEF HeapInv
<1>0. HeapEnd \in Nat /\ HeapEnd < AddressSpace /\ HeapStart \in Nat /\ HeapStart < HeapEnd
      /\ AddressSpace \in Nat
  BY HeapAssumption
<1>1. ASSUME NEW n \in Sizes, malloc(n) PROVE HeapInv'
  <2> DEFINE top == (addr + ROUNDUP(n)) % AddressSpace
             b == [start |-> addr, size |-> n]
  <2>1. n \in Nat /\ top \in Nat /\ top < AddressSpace
        /\ (~Wraps(addr, n) => top = addr + ROUNDUP(n) /\ n <= ROUNDUP(n))
    BY SumFits, HeapAssumption
  <2>2. ROUNDUP(n) \in Nat
    BY <2>1, RoundsUp, HeapAssumption
  <2>3. /\ wrapped' = (wrapped \/ Wraps(addr, n))
        /\ UNCHANGED <<bench, hbrk, arena, aborted>>
        /\ \/ UNCHANGED <<addr, blocks>>
           \/ top <= HeapEnd /\ blocks' = Append(blocks, b) /\ addr' = top
    BY <1>0, <1>1, <2>1 DEF malloc
  <2>4. b \in Block
    BY <2>1 DEF Block
  <2>5. wrapped' \in BOOLEAN /\ (~wrapped' => ~wrapped /\ ~Wraps(addr, n))
    BY <2>3 DEF Wraps
  <2>6. addr' \in Nat /\ addr' < AddressSpace /\ blocks' \in Seq(Block)
    <3>1. Append(blocks, b) \in Seq(Block)
      <4> HIDE DEF b
      <4>1. QED BY <2>4
    <3> HIDE DEF top, b
    <3>2. QED BY <2>1, <2>3, <3>1
  <2>7. ASSUME ~wrapped'
        PROVE  HeapStart <= addr' /\ addr' <= HeapEnd /\ Below(blocks', addr')
               /\ Apart(blocks') /\ Inside(blocks')
    <3>1. CASE UNCHANGED <<addr, blocks>>
      BY <2>5, <2>7, <3>1 DEF MallocDisjoint
    <3>2. CASE top <= HeapEnd /\ blocks' = Append(blocks, b) /\ addr' = top
      <4>1. Below(blocks, addr) /\ Apart(blocks) /\ Inside(blocks)
            /\ HeapStart <= addr /\ addr + n <= top
        BY <1>0, <2>1, <2>2, <2>5, <2>7 DEF MallocDisjoint
      <4> HIDE DEF top
      <4>2. QED BY <1>0, <2>1, <3>2, <4>1, AppendApart
    <3>3. QED BY <2>3, <3>1, <3>2
  <2>8. ~wrapped' => (~aborted' => HeapStart <= hbrk' /\ hbrk' <= HeapEnd
                                   /\ Below(arena', hbrk')) /\ ArenaDisjoint'
    BY <2>3, <2>5 DEF ArenaDisjoint
  <2>9. QED BY <2>3, <2>5, <2>6, <2>7, <2>8 DEF MallocDisjoint
<1>2. ASSUME NEW n \in Sizes, bench_alloc(n) PROVE HeapInv'
  <2> DEFINE top == (hbrk + ROUNDUP(n)) % AddressSpace
             b == [start |-> hbrk, size |-> n]
  <2>1. n \in Nat /\ top \in Nat /\ top < AddressSpace
        /\ (~Wraps(hbrk, n) => top = hbrk + ROUNDUP(n) /\ n <= ROUNDUP(n))
    BY SumFits, HeapAssumption
  <2>2. ROUNDUP(n) \in Nat
    BY <2>1, RoundsUp, HeapAssumption
  <2>3. /\ ~aborted
        /\ wrapped' = (wrapped \/ Wraps(hbrk, n))
        /\ UNCHANGED <<bench, addr, blocks>>
        /\ hbrk' = top
        /\ \/ arena' = arena /\ aborted' = TRUE
           \/ top < HeapEnd /\ arena' = Append(arena, b) /\ aborted' = aborted
    BY <1>2 DEF bench_alloc
  <2>4. b \in Block
    BY <2>1 DEF Block
  <2>5. wrapped' \in BOOLEAN /\ (~wrapped' => ~wrapped /\ ~Wraps(hbrk, n))
    BY <2>3 DEF Wraps
  <2>6. hbrk' \in Nat /\ hbrk' < AddressSpace /\ arena' \in Seq(Block) /\ aborted' \in BOOLEAN
    <3>1. Append(arena, b) \in Seq(Block)
      <4> HIDE DEF b
      <4>1. QED BY <2>4
    <3> HIDE DEF top, b
    <3>2. QED BY <2>1, <2>3, <3>1
  <2>7. ASSUME ~wrapped'
        PROVE  /\ ~aborted' => HeapStart <= hbrk' /\ hbrk' <= HeapEnd /\ Below(arena', hbrk')
               /\ Apart(arena') /\ Inside(arena')
    <3>1. CASE arena' = arena /\ aborted' = TRUE
      BY <2>5, <2>7, <3>1 DEF ArenaDisjoint
    <3>2. CASE top < HeapEnd /\ arena' = Append(arena, b) /\ aborted' = aborted
      <4>1. Below(arena, hbrk) /\ Apart(arena) /\ Inside(arena)
            /\ HeapStart <= hbrk /\ hbrk + n <= top /\ top <= HeapEnd
        BY <1>0, <2>1, <2>2, <2>3, <2>5, <2>7, <3>2 DEF ArenaDisjoint
      <4>2. hbrk' = top
        BY <2>3
      <4> HIDE DEF top
      <4>3. QED BY <1>0, <2>1, <3>2, <4>1, <4>2, AppendApart
    <3>3. QED BY <2>3, <3>1, <3>2
  <2>8. ~wrapped' => HeapStart <= addr' /\ addr' <= HeapEnd
                     /\ Below(blocks', addr') /\ MallocDisjoint'
    BY <2>3, <2>5 DEF MallocDisjoint
  <2>9. QED BY <2>3, <2>5, <2>6, <2>7, <2>8 DEF ArenaDisjoint
<1>3. CASE bench_reset
  <2>1. ROUNDUP(HeapStart) = HeapStart
    <3>1. HeapStart % 8 = 0 /\ AddressSpace % 8 = 0 /\ HeapStart < AddressSpace
      BY HeapAssumption
    <3>2. HeapStart + 7 < AddressSpace
      BY <1>0, <3>1, SMT
    <3>3. (HeapStart + 7) % AddressSpace = HeapStart + 7
      BY <1>0, <3>2, SMT
    <3>4. ((HeapStart + 7) \div 8) * 8 = HeapStart
      BY <1>0, <3>1, SMT
    <3>5. QED BY <3>3, <3>4 DEF ROUNDUP
  <2>2. << >> \in Seq(Block) /\ Below(<< >>, HeapStart) /\ Apart(<< >>) /\ Inside(<< >>)
    BY DEF Below, Apart, Inside
  <2>3. QED BY <1>0, <1>3, <2>1, <2>2 DEF bench_reset, MallocDisjoint, ArenaDisjoint
<1>4. ASSUME NEW i \in DOMAIN arena, Use(i) PROVE HeapInv'
  BY <1>4 DEF Use, MallocDisjoint, ArenaDisjoint
<1>5. CASE UNCHANGED heapVars
  BY <1>5 DEF heapVars, MallocDisjoint, ArenaDisjoint
<1>6. QED BY <1>1, <1>2, <1>3, <1>4, <1>5 DEF HeapNext

(* malloc returns disjoint blocks of the heap for every heap, every set of *)
(* sizes and every address width, and so does bench_alloc between two      *)
(* resets of its arena.                                                    *)
THEOREM BlocksAreDisjoint == HeapSpec => []BlocksDisjoint
<1>1. HeapInv => BlocksDisjoint
  BY DEF HeapInv, BlocksDisjoint, MallocDisjoint, ArenaDisjoint
<1>2. QED BY <1>1, InitHeap, StepHeap, PTL DEF HeapSpec

(* The block bench_alloc has just returned is zero, whatever an earlier    *)
(* benchmark left in that memory: the loop clears the size rounded up,     *)
(* which covers the block.                                                 *)
THEOREM ArenaIsZeroed == HeapSpec => ArenaZeroed
<1>1. ASSUME HeapInv, [HeapNext]_heapVars, Len(arena') > Len(arena), ~wrapped'
      PROVE  Words(arena'[Len(arena')].start, arena'[Len(arena')].size) \cap dirty' = {}
  <2>1. ASSUME arena' = arena \/ arena' = << >> PROVE FALSE
    <3>1. Len(arena) \in Nat /\ Len(arena') > Len(arena)
      BY <1>1 DEF HeapInv
    <3>2. QED BY <2>1, <3>1
  <2>2. PICK n \in Sizes : bench_alloc(n)
    BY <1>1, <2>1 DEF HeapNext, malloc, bench_reset, Use, heapVars
  <2> DEFINE k == ROUNDUP(n)
             b == [start |-> hbrk, size |-> n]
  <2>3. /\ hbrk <= (hbrk + k) % AddressSpace
        /\ arena' = Append(arena, b)
        /\ dirty' = dirty \ Words(hbrk, k)
        /\ ~Wraps(hbrk, n)
    BY <1>1, <2>1, <2>2 DEF bench_alloc
  <2>4. hbrk \in Nat /\ n \in Nat /\ k \in Nat /\ n <= k
    <3>1. n \in Nat /\ n < AddressSpace /\ AddressSpace \in Nat /\ hbrk \in Nat /\ hbrk < AddressSpace
      BY <1>1, HeapAssumption DEF HeapInv
    <3>2. QED BY <2>3, <3>1, RoundsUp, SumFits
  <2>5. arena'[Len(arena')] = b /\ b.start = hbrk /\ b.size = n
    <3>1. b \in Block /\ b.start = hbrk /\ b.size = n
      BY <2>4 DEF Block
    <3> HIDE DEF b
    <3>2. arena \in Seq(Block)
      BY <1>1 DEF HeapInv
    <3>3. QED BY <2>3, <3>1, <3>2
  <2> HIDE DEF k, b
  <2>6. Words(hbrk, n) \subseteq Words(hbrk, k)
    BY <2>4, HeapAssumption DEF Words
  <2>7. QED BY <2>3, <2>5, <2>6
<1>2. QED BY <1>1, InitHeap, StepHeap, PTL DEF HeapSpec, ArenaZeroed

----------------------------------------------------------------------------
(* The snake.  A cell of the body keeps its place in the ring, so in each  *)
(* round every cell is one further behind, and only the slot farthest      *)
(* behind is overwritten.                                                  *)

\* The cells of the first n places behind the head, itself included.
Trail(n) == {body[Behind(i)] : i \in 0..(n - 1)}

NoneTwice ==
  \A i, j \in 0..(length - 1) : i # j => body[Behind(i)] # body[Behind(j)]

SnakeInv ==
  /\ DOMAIN body = Ring /\ body = [r \in Ring |-> body[r]]
  /\ index \in Ring /\ length \in Nat /\ length >= 2
  /\ dead \in BOOLEAN /\ drawn \in BOOLEAN /\ (drawn => ~dead)
  /\ drawn /\ length < MAX_LENGTH => red \subseteq Trail(length)
  /\ ~drawn /\ length < MAX_LENGTH => red \subseteq Trail(length + 1)
  /\ ~dead /\ ~onTail /\ length <= MAX_LENGTH => NoneTwice
  /\ length <= MAX_LENGTH + 2
  /\ length > MAX_LENGTH + 1 => dead

\* Places behind the head are places of the ring, and different ones.
LEMMA BehindRing ==
  ASSUME index \in Ring
  PROVE  /\ \A i \in 0..(MAX_LENGTH - 1) : Behind(i) \in Ring
         /\ Behind(0) = index
         /\ \A i, j \in 0..(MAX_LENGTH - 1) : Behind(i) = Behind(j) => i = j
BY SnakeAssumption DEF Ring, Behind

\* A round moves every place one further behind, and writes only the new head.
LEMMA Shifts ==
  ASSUME SnakeInv, NEW d, move_snake(d)
  PROVE  /\ index' \in Ring /\ DOMAIN body' = Ring /\ body' = [r \in Ring |-> body'[r]]
         /\ \A i \in 1..(MAX_LENGTH - 1) : body'[Behind(i)'] = body[Behind(i - 1)]
         /\ Behind(0)' = index' /\ Behind(MAX_LENGTH)' = index'
<1>1. MAX_LENGTH \in Nat /\ MAX_LENGTH > 2 /\ index \in Ring /\ DOMAIN body = Ring
  BY SnakeAssumption DEF SnakeInv
<1>2. index' = IF index + 1 = MAX_LENGTH THEN 0 ELSE index + 1
  BY DEF move_snake
<1>3. index' \in Ring
  BY <1>1, <1>2 DEF Ring
<1>4. Behind(0)' = index' /\ Behind(MAX_LENGTH)' = index'
  <2>1. PICK k : k = index'
    OBVIOUS
  <2>2. k \in 0..(MAX_LENGTH - 1)
    BY <1>3, <2>1 DEF Ring
  <2>3. (IF k - 0 < 0 THEN k - 0 + MAX_LENGTH ELSE k - 0) = k
        /\ (IF k - MAX_LENGTH < 0 THEN k - MAX_LENGTH + MAX_LENGTH ELSE k - MAX_LENGTH) = k
    BY <1>1, <2>2
  <2>4. QED BY <2>1, <2>3 DEF Behind
<1>5. body' = [body EXCEPT ![index'] = ahead(d)]
  BY DEF move_snake
<1> DEFINE new == ahead(d)
<1> HIDE DEF new
<1>6. body' = [body EXCEPT ![index'] = new]
  BY <1>5 DEF new
<1>7. DOMAIN body' = Ring /\ body' = [r \in Ring |-> body'[r]]
  BY <1>1, <1>6
<1>8. ASSUME NEW i \in 1..(MAX_LENGTH - 1)
      PROVE  body'[Behind(i)'] = body[Behind(i - 1)]
  <2>1. Behind(i)' = Behind(i - 1)
    BY <1>1, <1>2 DEF Ring, Behind
  <2>2. Behind(i - 1) \in Ring /\ Behind(i - 1) # index'
    BY <1>1, <1>2 DEF Ring, Behind
  <2> DEFINE p == Behind(i - 1)
  <2> HIDE DEF p
  <2>3. p \in Ring /\ p # index'
    BY <2>2 DEF p
  <2>4. body'[p] = body[p]
    BY <1>1, <1>6, <2>3
  <2>5. QED BY <2>1, <2>4 DEF p
<1>9. QED BY <1>3, <1>4, <1>7, <1>8

LEMMA InitSnake == SnakeInit => SnakeInv
<1> SUFFICES ASSUME SnakeInit PROVE SnakeInv
  OBVIOUS
<1>1. MAX_LENGTH \in Nat /\ MAX_LENGTH > 2 /\ Height \in Nat
  BY SnakeAssumption
<1>2. DOMAIN body = Ring /\ body = [r \in Ring |-> body[r]]
  BY DEF SnakeInit
<1>3. index \in Ring /\ length = 2 /\ index = 1
  BY <1>1 DEF SnakeInit, Ring
<1>4. body[0] # body[1]
  <2>1. 0 \in Ring /\ 1 \in Ring
    BY <1>1 DEF Ring
  <2>2. body[0].y = Height \div 2 /\ body[1].y = Height \div 2 + 1
    BY <2>1 DEF SnakeInit
  <2>3. Height \div 2 \in Int
    BY <1>1, SMT
  <2>4. QED BY <2>2, <2>3
<1>5. NoneTwice
  BY <1>1, <1>3, <1>4 DEF NoneTwice, Behind
<1>6. red = {} /\ drawn = FALSE /\ dead = FALSE
  BY DEF SnakeInit
<1>7. /\ length \in Nat /\ length >= 2 /\ length <= MAX_LENGTH + 2
      /\ ~(length > MAX_LENGTH + 1)
  BY <1>1, <1>3
<1>8. QED BY <1>2, <1>3, <1>5, <1>6, <1>7, Zenon DEF SnakeInv

LEMMA StepSnake == SnakeInv /\ [SnakeNext]_snakeVars => SnakeInv'
<1> SUFFICES ASSUME SnakeInv, [SnakeNext]_snakeVars PROVE SnakeInv'
  OBVIOUS
<1>1. MAX_LENGTH \in Nat /\ MAX_LENGTH > 2
  BY SnakeAssumption
<1>2. /\ DOMAIN body = Ring /\ index \in Ring /\ length \in Nat /\ length >= 2
      /\ length <= MAX_LENGTH + 2 /\ (length > MAX_LENGTH + 1 => dead)
  BY DEF SnakeInv
<1>2a. dead \in BOOLEAN /\ drawn \in BOOLEAN
  BY DEF SnakeInv
<1>3. CASE Draw
  <2>1. /\ UNCHANGED <<body, length, index, dead, onTail>> /\ drawn' = TRUE /\ drawn = FALSE
        /\ ~dead
    BY <1>3 DEF Draw
  <2>2. ASSUME length < MAX_LENGTH PROVE red' \subseteq Trail(length)
    <3>1. red \subseteq Trail(length + 1)
      BY <2>1, <2>2 DEF SnakeInv
    <3>2. Behind(length) \in Ring /\ Behind(0) = index
      BY <1>1, <1>2, <2>2, BehindRing
    <3>3. red' = (red \cup {body[index]}) \ {body[Behind(length)]}
      BY <1>3, <3>2 DEF Draw, clear_tail
    <3>4. body[index] \in Trail(length)
      BY <1>2, <3>2 DEF Trail
    <3>5. Trail(length + 1) \subseteq Trail(length) \cup {body[Behind(length)]}
      BY <1>2 DEF Trail
    <3>6. QED BY <3>1, <3>3, <3>4, <3>5
  <2>3. Trail(length)' = Trail(length) /\ (NoneTwice' <=> NoneTwice)
    BY <2>1 DEF Trail, NoneTwice, Behind
  <2>4. QED BY <2>1, <2>2, <2>3 DEF SnakeInv
<1>4. ASSUME NEW key, NEW next \in Point, Move(key, next) PROVE SnakeInv'
  <2>0. PICK n : n = length'
    OBVIOUS
  <2>1. /\ dead = FALSE /\ drawn = TRUE /\ drawn' = FALSE
        /\ dead' = is_dead /\ move_snake(dir')
        /\ \/ /\ length' = length + 1 /\ body'[index'] = food /\ red' \subseteq red
              /\ ~onTail' => ~onTail
              /\ ~onTail' /\ length <= MAX_LENGTH => food # body[Behind(length - 1)]
           \/ length' = length /\ red' \subseteq red /\ (~onTail' => ~onTail)
    <3>1. dead = FALSE /\ drawn = TRUE /\ drawn' = FALSE /\ dead' = is_dead /\ move_snake(dir')
      BY <1>4, <1>2a DEF Move
    <3>2. CASE has_food
      <4>1. /\ length' = length + 1 /\ red' = red \ {next}
            /\ onTail' = (onTail \/ (length <= MAX_LENGTH /\ food = body[Behind(length - 1)]))
        BY <1>4, <3>2, Zenon DEF Move
      <4>2. /\ ~onTail' => ~onTail
            /\ ~onTail' /\ length <= MAX_LENGTH => food # body[Behind(length - 1)]
        BY <4>1, Zenon
      <4>3. QED BY <3>1, <3>2, <4>1, <4>2, Zenon DEF has_food
    <3>3. CASE ~has_food
      <4>1. length' = length /\ red' = red /\ onTail' = onTail
        BY <1>4, <3>3, Zenon DEF Move
      <4>2. QED BY <3>1, <4>1, Zenon
    <3>4. QED BY <3>2, <3>3
  <2>2. /\ index' \in Ring /\ DOMAIN body' = Ring /\ body' = [r \in Ring |-> body'[r]]
        /\ \A i \in 1..(MAX_LENGTH - 1) : body'[Behind(i)'] = body[Behind(i - 1)]
        /\ Behind(0)' = index' /\ Behind(MAX_LENGTH)' = index'
    BY <2>1, Shifts
  <2>3. n = length' /\ n \in Nat /\ n >= length /\ n <= length + 1 /\ length <= MAX_LENGTH + 1
    BY <1>1, <1>2, <2>0, <2>1
  <2>3a. MAX_LENGTH \in Nat /\ MAX_LENGTH > 2 /\ n \in Nat /\ length \in Nat /\ length >= 2
    BY <1>1, <1>2, <2>3
  <2>3b. n >= length /\ n <= length + 1 /\ length <= MAX_LENGTH + 1
    BY <2>3
  <2>4. ASSUME n < MAX_LENGTH PROVE red' \subseteq Trail(length + 1)'
    <3>1. red' \subseteq red /\ red \subseteq Trail(length)
      BY <1>1, <1>2, <2>1, <2>3, <2>4 DEF SnakeInv
    <3>2. ASSUME NEW i \in 0..(length - 1)
          PROVE  body[Behind(i)] = body'[Behind(i + 1)'] /\ i + 1 \in 0..n
      <4>1. i + 1 \in 1..(MAX_LENGTH - 1) /\ (i + 1) - 1 = i /\ i + 1 \in 0..n
        BY <1>1, <1>2, <2>3, <2>4
      <4>2. QED BY <2>2, <4>1
    <3>3. Trail(length) \subseteq Trail(length + 1)'
      <4>1. Trail(length + 1)' = {body'[Behind(i)'] : i \in 0..((n + 1) - 1)} /\ (n + 1) - 1 = n
        <5>1. (n + 1) - 1 = n
          BY <2>3a
        <5>2. length' = n
          BY <2>3
        <5>3. QED BY <5>1, <5>2, Zenon DEF Trail
      <4>2. QED BY <3>2, <4>1 DEF Trail
    <3>4. QED BY <3>1, <3>3
  <2>5. ASSUME ~dead', ~onTail', n <= MAX_LENGTH PROVE NoneTwice'
    <3>1. NoneTwice /\ length <= MAX_LENGTH
      <4>1. ~onTail /\ length <= MAX_LENGTH
        <5>1. length <= MAX_LENGTH
          BY <2>3a, <2>3b, <2>5
        <5>2. ~onTail
          BY <2>1, <2>5, Zenon
        <5>3. QED BY <5>1, <5>2
      <4>2. QED BY <2>1, <4>1 DEF SnakeInv
    <3>2. ASSUME NEW i \in 1..(n - 1)
          PROVE  i \in 1..(MAX_LENGTH - 1) /\ i - 1 \in 0..(length - 1)
      <4>1. n <= MAX_LENGTH
        BY <2>5
      <4>2. QED BY <2>3a, <2>3b, <4>1
    <3>3. ASSUME NEW i \in 1..(n - 1) PROVE body'[Behind(i)'] # body'[index']
      <4>1. CASE i \in 1..(length - 1)
        BY <2>1, <2>5, <4>1 DEF is_dead
      <4>2. CASE i = length
        <5>1. n = length + 1
          BY <2>3a, <2>3b, <4>2
        <5>2. body'[index'] = food /\ food # body[Behind(length - 1)]
          <6>1. length' # length
            BY <2>3a, <2>3, <5>1
          <6>2. QED BY <2>1, <2>5, <3>1, <6>1, Zenon
        <5>3. body'[Behind(i)'] = body[Behind(i - 1)]
          BY <2>2, <3>2
        <5>4. QED BY <4>2, <5>2, <5>3
      <4>3. QED BY <2>3a, <2>3b, <4>1, <4>2
    <3>4. ASSUME NEW i \in 1..(n - 1), NEW j \in 1..(n - 1), i # j
          PROVE  body'[Behind(i)'] # body'[Behind(j)']
      <4>1. i - 1 \in 0..(length - 1) /\ j - 1 \in 0..(length - 1) /\ i - 1 # j - 1
        BY <3>2, <3>4
      <4>2. body[Behind(i - 1)] # body[Behind(j - 1)]
        BY <3>1, <4>1 DEF NoneTwice
      <4>3. QED BY <2>2, <3>2, <4>2
    <3>5. ASSUME NEW i \in 0..(n - 1), NEW j \in 0..(n - 1), i # j
          PROVE  body'[Behind(i)'] # body'[Behind(j)']
      <4>1. CASE i = 0
        <5>1. j \in 1..(n - 1)
          BY <2>3a, <3>5, <4>1
        <5>2. Behind(i)' = index'
          BY <2>2, <4>1
        <5>3. QED BY <3>3, <5>1, <5>2
      <4>2. CASE j = 0
        <5>1. i \in 1..(n - 1)
          BY <2>3a, <3>5, <4>2
        <5>2. Behind(j)' = index'
          BY <2>2, <4>2
        <5>3. QED BY <3>3, <5>1, <5>2
      <4>3. CASE i # 0 /\ j # 0
        <5>1. i \in 1..(n - 1) /\ j \in 1..(n - 1)
          BY <2>3a, <3>5, <4>3
        <5>2. QED BY <3>4, <3>5, <5>1
      <4>4. QED BY <4>1, <4>2, <4>3
    <3>6. QED BY <2>3, <3>5 DEF NoneTwice
  <2>6. n > MAX_LENGTH + 1 => dead'
    <3> SUFFICES ASSUME n > MAX_LENGTH + 1 PROVE dead'
      OBVIOUS
    <3>1. MAX_LENGTH \in 1..(length - 1)
      BY <1>1, <1>2, <2>3
    <3>2. body'[index'] = body'[Behind(MAX_LENGTH)']
      BY <2>2
    <3>3. is_dead
      BY <3>1, <3>2 DEF is_dead
    <3>4. QED BY <2>1, <3>3
  <2>7. n <= MAX_LENGTH + 2 /\ n >= 2
    BY <1>1, <1>2, <2>3
  <2>8. dead' \in BOOLEAN /\ drawn' \in BOOLEAN
    BY <2>1, Zenon DEF is_dead
  <2>9. QED BY <2>8, <2>1, <2>2, <2>3, <2>4, <2>5, <2>6, <2>7 DEF SnakeInv
<1>5. CASE UNCHANGED snakeVars
  BY <1>5 DEF snakeVars, SnakeInv, Trail, NoneTwice, Behind
<1>6. QED BY <1>3, <1>4, <1>5 DEF SnakeNext

\* The snake without its head, and the cell its tail left last.
Neck == {body[Behind(i)] : i \in 1..(length - 1)}
Left == body[Behind(length)]

(* Between painting the head and the next move the tiles are the snake but *)
(* for the hidden cells; before it they lack the head and still have the   *)
(* cell the tail has left.  A part of the snake on that cell is hidden: it *)
(* went there in the round that erased it.                                 *)
Painted ==
  ~onTail /\ length < MAX_LENGTH =>
    IF drawn
    THEN red = Trail(length) \ hidden /\ (Left \in Trail(length) => Left \in hidden)
    ELSE /\ Neck \ hidden \subseteq red /\ red \subseteq (Neck \cup {Left}) \ hidden
         /\ Left \in Neck => Left \in hidden

\* What painting the head h and erasing t do to tiles r and hidden cells d.
LEMMA HeadThenTail ==
  ASSUME NEW h, NEW t, NEW N, NEW r, NEW d, NEW r1, NEW d1,
         h \notin N, N \ d \subseteq r, r \subseteq (N \cup {t}) \ d, t \in N => t \in d,
         r1 = (r \cup {h}) \ {t},
         d1 = (N \cup {h}) \cap IF t = h THEN d \cup {t} ELSE d \ {h}
  PROVE  r1 = (N \cup {h}) \ d1 /\ (t \in N \cup {h} => t \in d1)
<1>1. CASE t = h
  BY <1>1
<1>2. CASE t # h
  BY <1>2
<1>3. QED BY <1>1, <1>2

LEMMA PaintedStart == SnakeInit => Painted
<1> SUFFICES ASSUME SnakeInit PROVE Painted
  OBVIOUS
<1>1. length = 2 /\ index = 1 /\ drawn = FALSE /\ red = {} /\ hidden = {body[0]}
  BY DEF SnakeInit
<1>2. \A i \in 1..(length - 1) : Behind(i) = 0
  BY <1>1, SnakeAssumption DEF Behind
<1>3. Neck \subseteq {body[0]}
  BY <1>2 DEF Neck
<1>4. QED BY <1>1, <1>3 DEF Painted

LEMMA PaintedStep ==
  SnakeInv /\ Painted /\ [SnakeNext]_snakeVars => Painted'
<1> SUFFICES ASSUME SnakeInv, Painted, [SnakeNext]_snakeVars PROVE Painted'
  OBVIOUS
<1>1. /\ MAX_LENGTH \in Nat /\ MAX_LENGTH > 2 /\ index \in Ring /\ length \in Nat
      /\ length >= 2 /\ dead \in BOOLEAN /\ drawn \in BOOLEAN /\ (drawn => ~dead)
      /\ ~dead /\ ~onTail /\ length <= MAX_LENGTH => NoneTwice
  BY SnakeAssumption DEF SnakeInv
<1>2. Behind(0) = index /\ \A i \in 0..(MAX_LENGTH - 1) : Behind(i) \in Ring
  BY <1>1, BehindRing
<1>3. Trail(length) = Neck \cup {body[index]}
  <2>1. \A i \in 0..(length - 1) : i = 0 \/ i \in 1..(length - 1)
    BY <1>1
  <2>2. 0 \in 0..(length - 1) /\ 1..(length - 1) \subseteq 0..(length - 1)
    BY <1>1
  <2>3. QED BY <1>2, <2>1, <2>2 DEF Trail, Neck
<1>4. CASE Draw
  <2>1. UNCHANGED <<body, length, index, onTail>> /\ drawn' = TRUE /\ ~drawn /\ ~dead
    BY <1>4 DEF Draw
  <2>2. Trail(length)' = Trail(length) /\ Left' = Left
    BY <2>1 DEF Trail, Left, Behind
  <2>3. SUFFICES ASSUME ~onTail, length < MAX_LENGTH
                 PROVE  red' = Trail(length) \ hidden' /\ (Left \in Trail(length) => Left \in hidden')
    BY <2>1, <2>2 DEF Painted
  <2>4. /\ red' = (red \cup {body[index]}) \ {Left}
        /\ hidden' = Cells \cap IF Left = body[index] THEN hidden \cup {Left}
                                ELSE hidden \ {body[index]}
    <3>1. Behind(length) \in Ring
      BY <1>1, <1>2, <2>3
    <3>2. QED BY <1>4, <3>1, Zenon DEF Draw, clear_tail, Left
  <2>5. body[index] \notin Neck
    <3>1. NoneTwice
      BY <1>1, <2>1, <2>3
    <3>2. \A i \in 1..(length - 1) : i \in 0..(length - 1) /\ 0 \in 0..(length - 1) /\ i # 0
      BY <1>1
    <3>3. QED BY <1>2, <3>1, <3>2 DEF NoneTwice, Neck
  <2>6. /\ Neck \ hidden \subseteq red /\ red \subseteq (Neck \cup {Left}) \ hidden
        /\ Left \in Neck => Left \in hidden
    BY <2>1, <2>3 DEF Painted
  <2>7. Cells = Neck \cup {body[index]}
    BY <1>3 DEF Cells, Trail
  <2>8. PICK h, t, N : h = body[index] /\ t = Left /\ N = Neck
    OBVIOUS
  <2>9. /\ h \notin N /\ N \ hidden \subseteq red /\ red \subseteq (N \cup {t}) \ hidden
        /\ t \in N => t \in hidden
        /\ red' = (red \cup {h}) \ {t}
        /\ hidden' = (N \cup {h}) \cap IF t = h THEN hidden \cup {t} ELSE hidden \ {h}
    BY <2>4, <2>5, <2>6, <2>7, <2>8
  <2>10. red' = (N \cup {h}) \ hidden' /\ (t \in N \cup {h} => t \in hidden')
    BY ONLY <2>9, HeadThenTail
  <2>11. QED BY <1>3, <2>8, <2>10
<1>5. ASSUME NEW key, NEW next \in Point, Move(key, next) PROVE Painted'
  <2>1. ~dead /\ drawn /\ drawn' = FALSE /\ move_snake(dir')
    BY <1>5 DEF Move
  <2>2. /\ \A i \in 1..(MAX_LENGTH - 1) : body'[Behind(i)'] = body[Behind(i - 1)]
    BY <2>1, Shifts
  <2>3. /\ ~onTail' => ~onTail
        /\ \/ length' = length /\ red' = red /\ hidden' = hidden
           \/ length' = length + 1 /\ red' = red \ {next} /\ hidden' = hidden \cup {next}
    <3>1. CASE has_food
      <4>1. /\ length' = length + 1 /\ red' = red \ {next} /\ hidden' = hidden \cup {next}
            /\ onTail' = (onTail \/ (length <= MAX_LENGTH /\ food = body[Behind(length - 1)]))
        BY <1>5, <3>1, Zenon DEF Move
      <4>2. ~onTail' => ~onTail
        BY <4>1, Zenon
      <4>3. QED BY <4>1, <4>2
    <3>2. CASE ~has_food
      <4>1. length' = length /\ red' = red /\ onTail' = onTail /\ hidden' = hidden
        BY <1>5, <3>2, Zenon DEF Move
      <4>2. QED BY <4>1, Zenon
    <3>3. QED BY <3>1, <3>2
  <2>4. SUFFICES ASSUME ~onTail', length' < MAX_LENGTH
                 PROVE  /\ Neck' \ hidden' \subseteq red'
                        /\ red' \subseteq (Neck' \cup {Left'}) \ hidden'
                        /\ Left' \in Neck' => Left' \in hidden'
    BY <2>1 DEF Painted
  <2>5. ~onTail /\ length < MAX_LENGTH
    BY <1>1, <2>3, <2>4
  <2>6. red = Trail(length) \ hidden /\ (Left \in Trail(length) => Left \in hidden)
    BY <2>1, <2>5 DEF Painted
  <2>7. PICK n : n = length'
    OBVIOUS
  <2>8. n \in {length, length + 1} /\ n < MAX_LENGTH
    BY <2>3, <2>4, <2>7
  <2>9. Left' = body[Behind(n - 1)] /\ Neck' = {body[Behind(i)] : i \in 0..(n - 2)}
    <3>1. n \in 1..(MAX_LENGTH - 1)
      BY <1>1, <2>8
    <3>2. Left' = body[Behind(n - 1)]
      BY <2>2, <2>7, <3>1 DEF Left
    <3>3. Neck' = {body'[Behind(i)'] : i \in 1..(n - 1)}
      BY <2>7 DEF Neck
    <3>4. \A i \in 1..(n - 1) :
            i - 1 \in 0..(n - 2) /\ body'[Behind(i)'] = body[Behind(i - 1)]
      <4> SUFFICES ASSUME NEW i \in 1..(n - 1)
                   PROVE  i - 1 \in 0..(n - 2) /\ body'[Behind(i)'] = body[Behind(i - 1)]
        OBVIOUS
      <4>1. i \in 1..(MAX_LENGTH - 1) /\ i - 1 \in 0..(n - 2)
        BY <1>1, <2>8
      <4>2. QED BY <2>2, <4>1
    <3>5. \A i \in 0..(n - 2) :
            i + 1 \in 1..(n - 1) /\ body'[Behind(i + 1)'] = body[Behind(i)]
      <4> SUFFICES ASSUME NEW i \in 0..(n - 2)
                   PROVE  i + 1 \in 1..(n - 1) /\ body'[Behind(i + 1)'] = body[Behind(i)]
        OBVIOUS
      <4>1. i + 1 \in 1..(n - 1) /\ (i + 1) - 1 = i
        BY <1>1, <2>8
      <4>2. QED BY <3>4, <4>1
    <3>6. QED BY <3>2, <3>3, <3>4, <3>5
  <2>10. CASE n = length + 1
    <3>1. Neck' = Trail(length) /\ Left' = Left
      <4>1. n - 2 = length - 1 /\ n - 1 = length
        BY <1>1, <2>10
      <4>2. QED BY <2>9, <4>1 DEF Trail, Left
    <3>2. red' = red \ {next} /\ hidden' = hidden \cup {next}
      BY <1>1, <2>3, <2>7, <2>10
    <3>3. QED BY <2>6, <3>1, <3>2
  <2>11. CASE n = length
    <3>1. red' = red /\ hidden' = hidden
      BY <1>1, <2>3, <2>7, <2>11
    <3>2. \A i \in 0..(n - 2) : i \in 0..(length - 1) /\ i # n - 1
      BY <1>1, <2>11
    <3>3. n - 1 \in 0..(length - 1) /\ \A i \in 0..(length - 1) : i = n - 1 \/ i \in 0..(n - 2)
      BY <1>1, <2>11
    <3>4. Trail(length) = Neck' \cup {Left'}
      BY <2>9, <3>2, <3>3 DEF Trail
    <3>5. NoneTwice
      BY <1>1, <2>1, <2>5
    <3>6. Left' \notin Neck'
      BY <2>9, <3>2, <3>3, <3>5 DEF NoneTwice
    <3>7. QED BY <2>6, <3>1, <3>4, <3>6
  <2>12. QED BY <2>8, <2>10, <2>11
<1>6. CASE UNCHANGED snakeVars
  BY <1>6 DEF snakeVars, Painted, Trail, Neck, Left, Behind
<1>7. QED BY <1>4, <1>5, <1>6 DEF SnakeNext

(* What the screen shows is the snake but for its hidden cells, among them *)
(* the head in a round in which it enters the cell its tail leaves, a      *)
(* living snake covers no cell twice unless it ate on the cell its tail    *)
(* had just left, and a snake longer than its ring dies at once            *)
(* (ScreenShowsSnake), for every ring and board, every key and food.       *)
THEOREM ScreenIsRight == SnakeSpec => []ScreenShowsSnake
<1>1. ASSUME SnakeInv, Painted PROVE ScreenShowsSnake
  <2>1. length \in Nat /\ Cells = Trail(length)
    BY <1>1 DEF SnakeInv, Cells, Trail
  <2>2. ASSUME NoneTwice PROVE Cardinality(Cells) = length
    <3> DEFINE S == 0..(length - 1)
               f == [i \in S |-> body[Behind(i)]]
    <3>1. f \in [S -> Cells]
      BY DEF Cells
    <3>2. \A i, j \in S : f[i] = f[j] => i = j
      BY <2>2 DEF NoneTwice
    <3>3. \A c \in Cells : \E i \in S : f[i] = c
      BY DEF Cells
    <3> HIDE DEF f
    <3>4. f \in Bijection(S, Cells)
      BY <3>1, <3>2, <3>3 DEF Bijection, Injection, Surjection, IsInjective
    <3>5. ExistsBijection(S, Cells)
      BY <3>4 DEF ExistsBijection
    <3>6. IsFiniteSet(S) /\ Cardinality(S) = length
      BY <2>1, FS_Interval
    <3>7. QED BY <3>5, <3>6, FS_Bijection
  <2>3. QED BY <1>1, <2>1, <2>2 DEF SnakeInv, Painted, ScreenShowsSnake
<1>2. QED BY <1>1, InitSnake, StepSnake, PaintedStart, PaintedStep, PTL DEF SnakeSpec

----------------------------------------------------------------------------
(* The string functions.  What each loop leaves behind after i rounds is   *)
(* known, and the loop is the only function that makes those rounds.       *)

\* A function of one argument with one value changed.
LEMMA ByteChanged ==
  ASSUME NEW m, DOMAIN m = Addr, NEW a \in Addr, NEW v
  PROVE  [m EXCEPT ![a] = v] = [b \in Addr |-> IF b = a THEN v ELSE m[b]]
OBVIOUS

\* Moving no byte, or moving to the same place, changes nothing.
LEMMA MovedNothing ==
  ASSUME NEW m \in Memory, NEW d \in Nat, NEW s \in Nat, NEW n \in Nat, n = 0 \/ d = s
  PROVE  Moved(m, d, s, n) = m
<1>1. ASSUME NEW a \in Addr
      PROVE  m[a] = IF a \in d..(d + n - 1) THEN m[s + a - d] ELSE m[a]
  <2>1. a \in Int
    BY ByteAssumption DEF Addr
  <2>2. CASE n = 0
    <3>1. a \notin d..(d + n - 1)
      BY <2>1, <2>2
    <3>2. QED BY <3>1
  <2>3. CASE d = s
    <3>1. s + a - d = a
      BY <2>1, <2>3
    <3>2. QED BY <3>1
  <2>4. QED BY <2>2, <2>3
<1>2. m = [a \in Addr |-> m[a]]
  BY DEF Memory
<1>3. QED BY <1>1, <1>2, Zenon DEF Moved

\* Going up is right when the source is not overwritten before it is read.
LEMMA CopyUpMoves ==
  ASSUME NEW m \in Memory, NEW d \in Nat, NEW s \in Nat, NEW n \in Nat,
         Fits(d, n), Fits(s, n), d <= s \/ s + n <= d
  PROVE  CopyUp(m, d, s, n) = Moved(m, d, s, n)
<1> DEFINE w == [i \in 0..n |-> Moved(m, d, s, i)]
           P(f) == f = [i \in 0..n |-> IF i = 0 THEN m
                          ELSE [f[i - 1] EXCEPT ![d + i - 1] = f[i - 1][s + i - 1]]]
<1>0. MemSize \in Nat /\ DOMAIN m = Addr /\ m = [a \in Addr |-> m[a]]
  BY ByteAssumption DEF Memory
<1>1. Moved(m, d, s, 0) = m
  BY MovedNothing
<1>2. ASSUME NEW i \in 1..n
      PROVE  Moved(m, d, s, i) = [Moved(m, d, s, i - 1) EXCEPT
                                    ![d + i - 1] = Moved(m, d, s, i - 1)[s + i - 1]]
  <2> DEFINE q == Moved(m, d, s, i - 1)
             a == d + i - 1
             v == q[s + i - 1]
  <2>1. a \in Addr /\ s + i - 1 \in Addr /\ s + i - 1 \notin d..(d + (i - 1) - 1)
    BY <1>0 DEF Fits, Addr
  <2>2. v = m[s + i - 1] /\ s + a - d = s + i - 1
    BY <2>1 DEF Moved, Addr
  <2>3. DOMAIN q = Addr /\ \A b \in Addr : q[b] = IF b \in d..(d + (i - 1) - 1) THEN m[s + b - d] ELSE m[b]
    BY DEF Moved
  <2> HIDE DEF q, v, a
  <2>4. [q EXCEPT ![a] = v] = [b \in Addr |-> IF b = a THEN v ELSE q[b]]
    BY <2>1, <2>3, ByteChanged
  <2>5. ASSUME NEW b \in Addr
        PROVE  (IF b = a THEN v ELSE q[b]) = IF b \in d..(d + i - 1) THEN m[s + b - d] ELSE m[b]
    <3>1. b \in Int /\ a = d + i - 1
      BY <1>0 DEF Addr, a
    <3>2. CASE b = a
      BY <2>2, <3>1, <3>2
    <3>3. CASE b # a
      <4>1. b \in d..(d + i - 1) <=> b \in d..(d + (i - 1) - 1)
        BY <3>1, <3>3
      <4>2. QED BY <2>3, <3>3, <4>1
    <3>4. QED BY <3>2, <3>3
  <2>6. Moved(m, d, s, i) = [q EXCEPT ![a] = v]
    BY <2>4, <2>5, Zenon DEF Moved
  <2>7. QED BY <2>6 DEF q, a, v
<1>3. ASSUME NEW i \in 0..n
      PROVE  w[i] = IF i = 0 THEN m ELSE [w[i - 1] EXCEPT ![d + i - 1] = w[i - 1][s + i - 1]]
  <2>1. CASE i = 0
    BY <1>1, <2>1
  <2>2. CASE i # 0
    <3>1. i \in 1..n /\ i - 1 \in 0..n
      BY <2>2
    <3>2. QED BY <1>2, <2>2, <3>1
  <2>3. QED BY <2>1, <2>2
<1>4. w = [i \in 0..n |-> w[i]] /\ w[n] = Moved(m, d, s, n)
  OBVIOUS
<1> HIDE DEF w
<1>5. P(w)
  BY <1>3, <1>4
<1>6. ASSUME NEW f, P(f) PROVE f[n] = w[n]
  <2>1. \A i \in 0..n : f[i] = IF i = 0 THEN m ELSE [f[i - 1] EXCEPT ![d + i - 1] = f[i - 1][s + i - 1]]
    BY <1>6
  <2>2. f[0] = w[0]
    <3>1. 0 \in 0..n
      OBVIOUS
    <3>2. QED BY <1>3, <2>1, <3>1, Zenon
  <2>3. ASSUME NEW i \in 1..n, f[i - 1] = w[i - 1] PROVE f[i] = w[i]
    <3>1. i \in 0..n /\ i # 0
      OBVIOUS
    <3>2. f[i] = [f[i - 1] EXCEPT ![d + i - 1] = f[i - 1][s + i - 1]]
      BY <2>1, <3>1
    <3>3. w[i] = [w[i - 1] EXCEPT ![d + i - 1] = w[i - 1][s + i - 1]]
      BY <1>3, <3>1
    <3>4. QED BY <2>3, <3>2, <3>3
  <2>4. RoundsAlike(f, w, n)
    BY <2>2, <2>3 DEF RoundsAlike
  <2>5. n \in 0..n
    OBVIOUS
  <2>6. QED BY <2>4, <2>5, SameRounds
<1>7. CopyUp(m, d, s, n) = (CHOOSE f : P(f))[n]
  BY DEF CopyUp
<1>8. P(CHOOSE f : P(f))
  BY <1>5
<1>9. QED BY <1>4, <1>6, <1>7, <1>8

\* Going down is right when the destination is above the source.
LEMMA CopyDownMoves ==
  ASSUME NEW m \in Memory, NEW d \in Nat, NEW s \in Nat, NEW n \in Nat,
         Fits(d, n), Fits(s, n), s <= d
  PROVE  CopyDown(m, d, s, n) = Moved(m, d, s, n)
<1> DEFINE w == [i \in 0..n |-> Moved(m, d + n - i, s + n - i, i)]
           P(f) == f = [i \in 0..n |-> IF i = 0 THEN m
                          ELSE [f[i - 1] EXCEPT ![d + n - i] = f[i - 1][s + n - i]]]
<1>0. MemSize \in Nat /\ DOMAIN m = Addr /\ m = [a \in Addr |-> m[a]]
  BY ByteAssumption DEF Memory
<1>1. Moved(m, d + n - 0, s + n - 0, 0) = m
  BY MovedNothing
<1>2. ASSUME NEW i \in 1..n
      PROVE  Moved(m, d + n - i, s + n - i, i)
               = [Moved(m, d + n - (i - 1), s + n - (i - 1), i - 1) EXCEPT
                    ![d + n - i] = Moved(m, d + n - (i - 1), s + n - (i - 1), i - 1)[s + n - i]]
  <2> DEFINE a == d + n - i
             z == s + n - i
             q == Moved(m, d + n - (i - 1), s + n - (i - 1), i - 1)
             v == q[z]
  <2>1. a \in Addr /\ z \in Addr /\ a \in Nat /\ z \in Nat /\ z <= a
        /\ d + n - (i - 1) = a + 1 /\ s + n - (i - 1) = z + 1
    <3>1. d + n <= MemSize /\ s + n <= MemSize /\ i \in Nat /\ 1 <= i /\ i <= n
      BY DEF Fits
    <3>2. a \in 0..(MemSize - 1) /\ z \in 0..(MemSize - 1) /\ z <= a
      BY <1>0, <3>1
    <3>3. d + n - (i - 1) = a + 1 /\ s + n - (i - 1) = z + 1
      BY <3>1
    <3>4. QED BY <1>0, <3>2, <3>3 DEF Addr
  <2> HIDE DEF a, z
  <2>2. q = Moved(m, a + 1, z + 1, i - 1)
    BY <2>1
  <2> HIDE DEF q
  <2>3. DOMAIN q = Addr /\ \A b \in Addr : q[b] = IF b \in (a + 1)..((a + 1) + (i - 1) - 1)
                                                 THEN m[(z + 1) + b - (a + 1)] ELSE m[b]
    BY <2>2 DEF Moved
  <2>4. v = m[z]
    BY <2>1, <2>3
  <2> HIDE DEF v
  <2>5. [q EXCEPT ![a] = v] = [b \in Addr |-> IF b = a THEN v ELSE q[b]]
    BY <2>1, <2>3, ByteChanged
  <2>6. ASSUME NEW b \in Addr
        PROVE  (IF b = a THEN v ELSE q[b]) = IF b \in a..(a + i - 1) THEN m[z + b - a] ELSE m[b]
    <3>1. b \in Int
      BY <1>0 DEF Addr
    <3>2. CASE b = a
      <4>1. b \in a..(a + i - 1) /\ z + b - a = z
        BY <2>1, <3>2
      <4>2. QED BY <2>4, <3>2, <4>1
    <3>3. CASE b # a
      <4>1. /\ b \in a..(a + i - 1) <=> b \in (a + 1)..((a + 1) + (i - 1) - 1)
            /\ (z + 1) + b - (a + 1) = z + b - a
        BY <2>1, <3>1, <3>3
      <4>2. QED BY <2>3, <3>3, <4>1
    <3>4. QED BY <3>2, <3>3
  <2>7. Moved(m, a, z, i) = [q EXCEPT ![a] = v]
    BY <2>5, <2>6, Zenon DEF Moved
  <2>8. QED BY <2>7 DEF q, a, z, v
<1>3. ASSUME NEW i \in 0..n
      PROVE  w[i] = IF i = 0 THEN m ELSE [w[i - 1] EXCEPT ![d + n - i] = w[i - 1][s + n - i]]
  <2>1. CASE i = 0
    BY <1>1, <2>1
  <2>2. CASE i # 0
    <3>1. i \in 1..n /\ i - 1 \in 0..n
      BY <2>2
    <3>2. QED BY <1>2, <2>2, <3>1
  <2>3. QED BY <2>1, <2>2
<1>4. w = [i \in 0..n |-> w[i]] /\ w[n] = Moved(m, d, s, n)
  <2>1. d + n - n = d /\ s + n - n = s /\ n \in 0..n
    OBVIOUS
  <2>2. QED BY <2>1
<1> HIDE DEF w
<1>5. P(w)
  BY <1>3, <1>4
<1>6. ASSUME NEW f, P(f) PROVE f[n] = w[n]
  <2>1. \A i \in 0..n : f[i] = IF i = 0 THEN m ELSE [f[i - 1] EXCEPT ![d + n - i] = f[i - 1][s + n - i]]
    BY <1>6
  <2>2. f[0] = w[0]
    <3>1. 0 \in 0..n
      OBVIOUS
    <3>2. QED BY <1>3, <2>1, <3>1, Zenon
  <2>3. ASSUME NEW i \in 1..n, f[i - 1] = w[i - 1] PROVE f[i] = w[i]
    <3>1. i \in 0..n /\ i # 0
      OBVIOUS
    <3>2. f[i] = [f[i - 1] EXCEPT ![d + n - i] = f[i - 1][s + n - i]]
      BY <2>1, <3>1
    <3>3. w[i] = [w[i - 1] EXCEPT ![d + n - i] = w[i - 1][s + n - i]]
      BY <1>3, <3>1
    <3>4. QED BY <2>3, <3>2, <3>3
  <2>4. RoundsAlike(f, w, n)
    BY <2>2, <2>3 DEF RoundsAlike
  <2>5. n \in 0..n
    OBVIOUS
  <2>6. QED BY <2>4, <2>5, SameRounds
<1>7. CopyDown(m, d, s, n) = (CHOOSE f : P(f))[n]
  BY DEF CopyDown
<1>8. P(CHOOSE f : P(f))
  BY <1>5
<1>9. QED BY <1>4, <1>6, <1>7, <1>8

\* memset writes the byte to every place.
LEMMA MemsetFills ==
  ASSUME NEW m \in Memory, NEW s \in Nat, NEW c, NEW n \in Nat, Fits(s, n)
  PROVE  memset(m, s, c, n) = [a \in Addr |-> IF a \in s..(s + n - 1) THEN c ELSE m[a]]
<1> DEFINE g(i) == [a \in Addr |-> IF a \in s..(s + i - 1) THEN c ELSE m[a]]
           w == [i \in 0..n |-> g(i)]
           P(f) == f = [i \in 0..n |-> IF i = 0 THEN m ELSE [f[i - 1] EXCEPT ![s + i - 1] = c]]
<1>0. MemSize \in Nat /\ m = [a \in Addr |-> m[a]] /\ \A a \in Addr : a \in Int
  BY ByteAssumption DEF Memory, Addr
<1>1. g(0) = m
  <2>1. \A a \in Addr : a \notin s..(s + 0 - 1)
    BY <1>0
  <2>2. QED BY <1>0, <2>1
<1>2. ASSUME NEW i \in 1..n PROVE g(i) = [g(i - 1) EXCEPT ![s + i - 1] = c]
  <2>1. s + i - 1 \in Addr
    BY <1>0 DEF Fits, Addr
  <2>2. [g(i - 1) EXCEPT ![s + i - 1] = c]
          = [b \in Addr |-> IF b = s + i - 1 THEN c ELSE g(i - 1)[b]]
    BY <2>1, ByteChanged
  <2>3. ASSUME NEW b \in Addr
        PROVE  (IF b = s + i - 1 THEN c ELSE g(i - 1)[b]) = IF b \in s..(s + i - 1) THEN c ELSE m[b]
    <3>1. b \in s..(s + i - 1) <=> b = s + i - 1 \/ b \in s..(s + (i - 1) - 1)
      BY <1>0
    <3>2. QED BY <3>1
  <2>4. QED BY <2>2, <2>3, Zenon
<1> HIDE DEF g
<1>3. ASSUME NEW i \in 0..n
      PROVE  w[i] = IF i = 0 THEN m ELSE [w[i - 1] EXCEPT ![s + i - 1] = c]
  <2>1. CASE i = 0
    BY <1>1, <2>1
  <2>2. CASE i # 0
    <3>1. i \in 1..n /\ i - 1 \in 0..n
      BY <2>2
    <3>2. QED BY <1>2, <2>2, <3>1
  <2>3. QED BY <2>1, <2>2
<1>4. w = [i \in 0..n |-> w[i]] /\ w[n] = g(n)
  OBVIOUS
<1> HIDE DEF w
<1>5. P(w)
  BY <1>3, <1>4
<1>6. ASSUME NEW f, P(f) PROVE f[n] = w[n]
  <2>1. \A i \in 0..n : f[i] = IF i = 0 THEN m ELSE [f[i - 1] EXCEPT ![s + i - 1] = c]
    BY <1>6
  <2>2. f[0] = w[0]
    <3>1. 0 \in 0..n
      OBVIOUS
    <3>2. QED BY <1>3, <2>1, <3>1, Zenon
  <2>3. ASSUME NEW i \in 1..n, f[i - 1] = w[i - 1] PROVE f[i] = w[i]
    <3>1. i \in 0..n /\ i # 0
      OBVIOUS
    <3>2. f[i] = [f[i - 1] EXCEPT ![s + i - 1] = c]
      BY <2>1, <3>1
    <3>3. w[i] = [w[i - 1] EXCEPT ![s + i - 1] = c]
      BY <1>3, <3>1
    <3>4. QED BY <2>3, <3>2, <3>3
  <2>4. RoundsAlike(f, w, n)
    BY <2>2, <2>3 DEF RoundsAlike
  <2>5. n \in 0..n
    OBVIOUS
  <2>6. QED BY <2>4, <2>5, SameRounds
<1>7. memset(m, s, c, n) = (CHOOSE f : P(f))[n]
  BY DEF memset
<1>8. P(CHOOSE f : P(f))
  BY <1>5
<1>9. QED BY <1>4, <1>6, <1>7, <1>8 DEF g

\* strlen is the distance to the first zero.
LEMMA StrlenIs ==
  ASSUME NEW m \in Memory, NEW s \in Nat, NEW k \in Nat, s + k \in Addr, m[s + k] = 0,
         \A j \in 0..(k - 1) : m[s + j] # 0
  PROVE  strlen(m, s) = k
<1> DEFINE Stop == {a \in 0..MemSize : a = MemSize \/ m[a] = 0}
           P(f) == f = [a \in 0..MemSize |-> IF a = MemSize \/ m[a] = 0 THEN 0 ELSE 1 + f[a + 1]]
           Q(f) == f = [a \in 0..MemSize |-> IF a \in Stop THEN 0 ELSE 1 + f[a + 1]]
<1>0. MemSize \in Nat /\ MemSize \in Stop
  BY ByteAssumption
<1>1. \A f : P(f) <=> Q(f)
  OBVIOUS
<1>2. \E f : Q(f)
  <2> HIDE DEF Stop
  <2>1. QED BY <1>0, CountDefined
<1>3. strlen(m, s) = (CHOOSE f : P(f))[s]
  BY DEF strlen
<1> DEFINE f == CHOOSE f : P(f)
<1>4. Q(f)
  <2>1. P(f)
    BY <1>1, <1>2
  <2>2. QED BY <1>1, <2>1
<1> HIDE DEF f
<1>5. s \in 0..MemSize /\ s + k \in s..MemSize /\ s + k \in Stop
  BY <1>0 DEF Addr
<1>6. ASSUME NEW j \in s..((s + k) - 1) PROVE j \notin Stop
  <2>1. j - s \in 0..(k - 1) /\ s + (j - s) = j /\ j # MemSize
    BY <1>0, <1>5
  <2>2. QED BY <2>1
<1>7. f[s] = (s + k) - s
  <2> HIDE DEF Stop
  <2>1. QED BY <1>0, <1>4, <1>5, <1>6, CountFinds
<1>8. QED BY <1>3, <1>7 DEF f

\* A string that ends has a first zero.
LEMMA StringEnds ==
  ASSUME NEW m \in Memory, NEW s \in Addr, Terminated(m, s)
  PROVE  /\ strlen(m, s) \in Nat /\ s + strlen(m, s) \in Addr
         /\ m[s + strlen(m, s)] = 0
         /\ \A j \in 0..(strlen(m, s) - 1) : m[s + j] # 0
<1> DEFINE T == {k \in Nat : s + k \in Addr /\ m[s + k] = 0}
<1>0. MemSize \in Nat /\ s \in Nat
  BY ByteAssumption DEF Addr
<1>1. T # {}
  <2>1. PICK a \in Addr : a >= s /\ m[a] = 0
    BY DEF Terminated
  <2>2. a - s \in Nat /\ s + (a - s) = a
    BY <1>0, <2>1 DEF Addr
  <2>3. a - s \in T
    BY <2>1, <2>2
  <2>4. QED BY <2>3
<1>2. PICK k \in T : \A j \in T : k <= j
  <2>1. T \in SUBSET Nat
    OBVIOUS
  <2> HIDE DEF T
  <2>2. QED BY <1>1, <2>1, LeastElement
<1>3. ASSUME NEW j \in 0..(k - 1) PROVE m[s + j] # 0
  <2>1. s + j \in Addr /\ j \in Nat /\ ~(k <= j)
    BY <1>0, <1>2 DEF Addr
  <2>2. QED BY <1>2, <2>1
<1>4. strlen(m, s) = k
  BY <1>0, <1>2, <1>3, StrlenIs
<1>5. QED BY <1>2, <1>3, <1>4

----------------------------------------------------------------------------
(* Comparisons.  All three loops stop at the first place k where there is  *)
(* a reason to.                                                            *)

\* The first k bytes are the same, and the loop has returned ret for place k
\* of N; strings says whether a zero ends it.
StoppedAt(m, s1, s2, N, strings, ret, k) ==
  /\ \A j \in 0..(k - 1) : m[s1 + j] = m[s2 + j] /\ (strings => m[s1 + j] # 0)
  /\ \/ k = N /\ ret = 0
     \/ k < N /\ strings /\ m[s1 + k] = m[s2 + k] /\ m[s1 + k] = 0 /\ ret = 0
     \/ /\ k < N /\ m[s1 + k] # m[s2 + k]
        /\ m[s1 + k] \in Nat /\ m[s2 + k] \in Nat /\ ret = m[s1 + k] - m[s2 + k]

\* The sign of ret is that of the first difference.
Signed(m, s1, s2, N, strings, ret) ==
  LET diff == FirstDifference(m, s1, s2, N, strings)
  IN  /\ ret = 0 <=> diff = {}
      /\ \A i \in diff : ret < 0 <=> m[s1 + i] < m[s2 + i]

LEMMA SignIsRight ==
  ASSUME NEW m, NEW s1 \in Nat, NEW s2 \in Nat, NEW N \in Nat, NEW strings \in BOOLEAN,
         NEW ret, NEW k \in 0..N, StoppedAt(m, s1, s2, N, strings, ret, k)
  PROVE  Signed(m, s1, s2, N, strings, ret)
<1> USE DEF Signed
<1> DEFINE diff == FirstDifference(m, s1, s2, N, strings)
           Same(j) == m[s1 + j] = m[s2 + j] /\ (strings => m[s1 + j] # 0)
<1>0. \A i : i \in diff <=> /\ i \in 0..(N - 1) /\ m[s1 + i] # m[s2 + i]
                            /\ \A j \in 0..(i - 1) : Same(j)
  BY DEF FirstDifference
<1>1. \A j \in 0..(k - 1) : Same(j)
  BY DEF StoppedAt
<1>2. ASSUME NEW i \in diff PROVE i = k /\ k < N /\ m[s1 + k] # m[s2 + k]
  <2>1. i \in 0..(N - 1) /\ m[s1 + i] # m[s2 + i] /\ \A j \in 0..(i - 1) : Same(j)
    BY <1>0
  <2>2. ~(i < k)
    <3> SUFFICES ASSUME i < k PROVE FALSE
      OBVIOUS
    <3>1. i \in 0..(k - 1)
      BY <2>1
    <3>2. QED BY <1>1, <2>1, <3>1
  <2>3. ~(k < i)
    <3> SUFFICES ASSUME k < i PROVE FALSE
      OBVIOUS
    <3>1. k \in 0..(i - 1) /\ k < N
      BY <2>1
    <3>2. Same(k)
      BY <2>1, <3>1
    <3>3. QED BY <3>1, <3>2 DEF StoppedAt
  <2>4. i = k
    BY <2>1, <2>2, <2>3
  <2>5. QED BY <2>1, <2>4
<1>3. CASE k < N /\ m[s1 + k] # m[s2 + k]
  <2>1. k \in diff
    BY <1>0, <1>1, <1>3
  <2>2. m[s1 + k] \in Nat /\ m[s2 + k] \in Nat /\ ret = m[s1 + k] - m[s2 + k]
    BY <1>3 DEF StoppedAt
  <2> HIDE DEF diff
  <2>3. ret # 0 /\ (ret < 0 <=> m[s1 + k] < m[s2 + k])
    BY <1>3, <2>2
  <2>4. QED BY <1>2, <2>1, <2>3 DEF diff
<1>4. CASE ~(k < N /\ m[s1 + k] # m[s2 + k])
  <2>1. ret = 0
    BY <1>4 DEF StoppedAt
  <2>2. diff = {}
    BY <1>2, <1>4
  <2>3. QED BY <2>1, <2>2
<1>5. QED BY <1>3, <1>4

LEMMA MemcmpStops ==
  ASSUME NEW m \in Memory, NEW s1 \in Addr, NEW s2 \in Addr, NEW n \in Nat,
         Fits(s1, n), Fits(s2, n)
  PROVE  \E k \in 0..n : StoppedAt(m, s1, s2, n, FALSE, memcmp(m, s1, s2, n), k)
<1> DEFINE Stop == {i \in 0..n : i = n \/ m[s1 + i] # m[s2 + i]}
           r == [i \in 0..n |-> IF i = n THEN 0 ELSE m[s1 + i] - m[s2 + i]]
           P(f) == f = [i \in 0..n |->
                          CASE i = n                          -> 0
                            [] i # n /\ m[s1 + i] # m[s2 + i] -> m[s1 + i] - m[s2 + i]
                            [] OTHER                          -> f[i + 1]]
           Q(f) == f = [i \in 0..n |-> IF i \in Stop THEN r[i] ELSE f[i + 1]]
<1>0. n \in Stop /\ 0 \in 0..n
  OBVIOUS
<1>1. ASSUME NEW f PROVE P(f) <=> Q(f)
  <2>1. ASSUME NEW i \in 0..n
        PROVE  (CASE i = n                          -> 0
                  [] i # n /\ m[s1 + i] # m[s2 + i] -> m[s1 + i] - m[s2 + i]
                  [] OTHER                          -> f[i + 1])
                 = IF i \in Stop THEN r[i] ELSE f[i + 1]
    OBVIOUS
  <2>2. QED BY <2>1, Zenon
<1>2. \E f : Q(f)
  <2> HIDE DEF Stop, r
  <2>1. QED BY <1>0, SearchDefined
<1>3. memcmp(m, s1, s2, n) = (CHOOSE f : P(f))[0]
  BY DEF memcmp
<1> DEFINE f == CHOOSE f : P(f)
<1>4. Q(f)
  <2>1. P(f)
    BY <1>1, <1>2
  <2>2. QED BY <1>1, <2>1
<1> HIDE DEF f
<1>5. PICK k \in 0..n : k \in Stop /\ \A j \in 0..(k - 1) : j \notin Stop
  <2> HIDE DEF Stop
  <2>1. QED BY <1>0, FirstStopIs
<1>6. f[0] = r[k]
  <2> HIDE DEF Stop, r
  <2>1. QED BY <1>0, <1>4, <1>5, SearchFinds
<1>7. \A i \in 0..(n - 1) : m[s1 + i] \in Nat /\ m[s2 + i] \in Nat
  <2>1. \A a \in Addr : m[a] \in Nat
    BY ByteAssumption DEF Memory
  <2>2. \A i \in 0..(n - 1) : s1 + i \in Addr /\ s2 + i \in Addr
    BY ByteAssumption DEF Fits, Addr
  <2>3. QED BY <2>1, <2>2
<1>8. \A j \in 0..(k - 1) : m[s1 + j] = m[s2 + j]
  BY <1>5
<1>9. StoppedAt(m, s1, s2, n, FALSE, r[k], k)
  <2>1. CASE k = n
    BY <1>8, <2>1 DEF StoppedAt
  <2>2. CASE k # n
    <3>1. k < n /\ k \in 0..(n - 1) /\ m[s1 + k] # m[s2 + k] /\ r[k] = m[s1 + k] - m[s2 + k]
      BY <1>5, <2>2
    <3>2. QED BY <1>7, <1>8, <3>1, Zenon DEF StoppedAt
  <2>3. QED BY <2>1, <2>2
<1>10. QED BY <1>3, <1>6, <1>9 DEF f

\* What a comparison may read before it must have met the end of a string.
Room(s1, s2) == MemSize - (IF s1 > s2 THEN s1 ELSE s2)

\* One of two strings ends while both are still in memory.
LEMMA OneEnds ==
  ASSUME NEW m \in Memory, NEW s1 \in Addr, NEW s2 \in Addr,
         Terminated(m, s1), Terminated(m, s2)
  PROVE  /\ Room(s1, s2) \in Nat /\ Room(s1, s2) <= MemSize
         /\ \A i \in 0..(Room(s1, s2) - 1) : m[s1 + i] \in Nat /\ m[s2 + i] \in Nat
         /\ \E j \in Nat : j < Room(s1, s2) /\ (m[s1 + j] = 0 \/ m[s2 + j] = 0)
<1>0. MemSize \in Nat /\ s1 \in Nat /\ s2 \in Nat /\ s1 < MemSize /\ s2 < MemSize
  BY ByteAssumption DEF Addr
<1>1. Room(s1, s2) \in Nat /\ Room(s1, s2) <= MemSize
  BY <1>0 DEF Room
<1>2. \A i \in 0..(Room(s1, s2) - 1) : m[s1 + i] \in Nat /\ m[s2 + i] \in Nat
  <2>1. \A a \in Addr : m[a] \in Nat
    BY ByteAssumption DEF Memory
  <2>2. \A i \in 0..(Room(s1, s2) - 1) : s1 + i \in Addr /\ s2 + i \in Addr
    BY <1>0 DEF Room, Addr
  <2>3. QED BY <2>1, <2>2
<1>3. CASE s1 > s2
  <2>1. PICK a \in Addr : a >= s1 /\ m[a] = 0
    BY DEF Terminated
  <2>2. a - s1 \in Nat /\ a - s1 < Room(s1, s2) /\ s1 + (a - s1) = a
    BY <1>0, <1>3, <2>1 DEF Room, Addr
  <2>3. QED BY <1>1, <1>2, <2>1, <2>2
<1>4. CASE ~(s1 > s2)
  <2>1. PICK a \in Addr : a >= s2 /\ m[a] = 0
    BY DEF Terminated
  <2>2. a - s2 \in Nat /\ a - s2 < Room(s1, s2) /\ s2 + (a - s2) = a
    BY <1>0, <1>4, <2>1 DEF Room, Addr
  <2>3. QED BY <1>1, <1>2, <2>1, <2>2
<1>5. QED BY <1>3, <1>4

LEMMA StrcmpStops ==
  ASSUME NEW m \in Memory, NEW s1 \in Addr, NEW s2 \in Addr,
         Terminated(m, s1), Terminated(m, s2)
  PROVE  \E k \in 0..Room(s1, s2) :
           StoppedAt(m, s1, s2, Room(s1, s2), TRUE, strcmp(m, s1, s2), k)
<1> DEFINE n == MemSize
           Stop == {i \in 0..n : ~(i < MemSize /\ m[s1 + i] # 0 /\ m[s1 + i] = m[s2 + i])}
           r == [i \in 0..n |-> m[s1 + i] - m[s2 + i]]
           P(f) == f = [i \in 0..MemSize |->
                          IF i < MemSize /\ m[s1 + i] # 0 /\ m[s1 + i] = m[s2 + i]
                          THEN f[i + 1] ELSE m[s1 + i] - m[s2 + i]]
           Q(f) == f = [i \in 0..n |-> IF i \in Stop THEN r[i] ELSE f[i + 1]]
<1>0. n \in Nat /\ n \in Stop /\ 0 \in 0..n
  BY ByteAssumption
<1>1. ASSUME NEW f PROVE P(f) <=> Q(f)
  <2>1. ASSUME NEW i \in 0..n
        PROVE  (IF i < MemSize /\ m[s1 + i] # 0 /\ m[s1 + i] = m[s2 + i]
                THEN f[i + 1] ELSE m[s1 + i] - m[s2 + i])
                 = IF i \in Stop THEN r[i] ELSE f[i + 1]
    OBVIOUS
  <2>2. QED BY <2>1, Zenon
<1>2. \E f : Q(f)
  <2> HIDE DEF Stop, r, n
  <2>1. QED BY <1>0, SearchDefined
<1>3. strcmp(m, s1, s2) = (CHOOSE f : P(f))[0]
  BY DEF strcmp
<1> DEFINE f == CHOOSE f : P(f)
<1>4. Q(f)
  <2>1. P(f)
    BY <1>1, <1>2
  <2>2. QED BY <1>1, <2>1
<1> HIDE DEF f
<1>5. PICK k \in 0..n : k \in Stop /\ \A j \in 0..(k - 1) : j \notin Stop
  <2> HIDE DEF Stop, n
  <2>1. QED BY <1>0, FirstStopIs
<1>6. f[0] = r[k]
  <2> HIDE DEF Stop, r, n
  <2>1. QED BY <1>0, <1>4, <1>5, SearchFinds
<1>7. PICK j \in Nat : j < Room(s1, s2) /\ (m[s1 + j] = 0 \/ m[s2 + j] = 0)
  BY OneEnds
<1>8. Room(s1, s2) \in Nat /\ Room(s1, s2) <= n
  BY OneEnds
<1>9. k < Room(s1, s2) /\ k \in 0..(Room(s1, s2) - 1)
  <2>1. j \in Stop
    BY <1>0, <1>7, <1>8
  <2>2. ~(j < k)
    <3> SUFFICES ASSUME j < k PROVE FALSE
      OBVIOUS
    <3>1. j \in 0..(k - 1)
      BY <1>0
    <3>2. QED BY <1>5, <2>1, <3>1
  <2>3. QED BY <1>0, <1>7, <1>8, <2>2
<1>10. m[s1 + k] \in Nat /\ m[s2 + k] \in Nat
  BY <1>9, OneEnds
<1>11. \A i \in 0..(k - 1) : m[s1 + i] = m[s2 + i] /\ m[s1 + i] # 0
  BY <1>0, <1>5
<1>12. StoppedAt(m, s1, s2, Room(s1, s2), TRUE, r[k], k)
  <2>1. r[k] = m[s1 + k] - m[s2 + k]
    OBVIOUS
  <2>2. CASE m[s1 + k] = m[s2 + k]
    <3>1. m[s1 + k] = 0
      BY <1>0, <1>5, <1>8, <1>9, <2>2
    <3>2. r[k] = 0
      BY <2>1, <2>2, <3>1
    <3>3. QED BY <1>9, <1>11, <2>2, <3>1, <3>2, Zenon DEF StoppedAt
  <2>3. CASE m[s1 + k] # m[s2 + k]
    BY <1>9, <1>10, <1>11, <2>1, <2>3, Zenon DEF StoppedAt
  <2>4. QED BY <2>2, <2>3
<1>13. k \in 0..Room(s1, s2)
  BY <1>8, <1>9
<1>14. QED BY <1>3, <1>6, <1>12, <1>13 DEF f

\* The length ComparesRight looks at.
Within(s1, s2, n) == IF Fits(s1, n) /\ Fits(s2, n) THEN n ELSE Room(s1, s2)

LEMMA StrncmpStops ==
  ASSUME NEW m \in Memory, NEW s1 \in Addr, NEW s2 \in Addr, NEW n \in Nat,
         Terminated(m, s1), Terminated(m, s2)
  PROVE  \E k \in 0..Within(s1, s2, n) :
           StoppedAt(m, s1, s2, Within(s1, s2, n), TRUE, strncmp(m, s1, s2, n), k)
<1> DEFINE Stop == {i \in 0..n : i = n \/ m[s1 + i] # m[s2 + i] \/ m[s1 + i] = 0}
           r == [i \in 0..n |-> IF i = n \/ m[s1 + i] = m[s2 + i] THEN 0
                                ELSE m[s1 + i] - m[s2 + i]]
           P(f) == f = [i \in 0..n |->
                     CASE i = n                             -> 0
                       [] i # n /\ m[s1 + i] # m[s2 + i]    -> m[s1 + i] - m[s2 + i]
                       [] i # n /\ m[s1 + i] = m[s2 + i] /\ m[s1 + i] = 0 -> 0
                       [] OTHER                             -> f[i + 1]]
           Q(f) == f = [i \in 0..n |-> IF i \in Stop THEN r[i] ELSE f[i + 1]]
<1>0. n \in Stop /\ 0 \in 0..n
  OBVIOUS
<1>1. MemSize \in Nat /\ s1 \in Nat /\ s2 \in Nat
  BY ByteAssumption DEF Addr
<1>2. ASSUME NEW f PROVE P(f) <=> Q(f)
  <2>1. ASSUME NEW i \in 0..n
        PROVE  (CASE i = n                             -> 0
                  [] i # n /\ m[s1 + i] # m[s2 + i]    -> m[s1 + i] - m[s2 + i]
                  [] i # n /\ m[s1 + i] = m[s2 + i] /\ m[s1 + i] = 0 -> 0
                  [] OTHER                             -> f[i + 1])
                 = IF i \in Stop THEN r[i] ELSE f[i + 1]
    OBVIOUS
  <2>2. QED BY <2>1, Zenon
<1>3. \E f : Q(f)
  <2> HIDE DEF Stop, r
  <2>1. QED BY <1>0, SearchDefined
<1>4. strncmp(m, s1, s2, n) = (CHOOSE f : P(f))[0]
  BY DEF strncmp
<1> DEFINE f == CHOOSE f : P(f)
<1>5. Q(f)
  <2>1. P(f)
    BY <1>2, <1>3
  <2>2. QED BY <1>2, <2>1
<1> HIDE DEF f
<1>6. PICK k \in 0..n : k \in Stop /\ \A j \in 0..(k - 1) : j \notin Stop
  <2> HIDE DEF Stop
  <2>1. QED BY <1>0, FirstStopIs
<1>7. f[0] = r[k]
  <2> HIDE DEF Stop, r
  <2>1. QED BY <1>0, <1>5, <1>6, SearchFinds
<1> DEFINE N == Within(s1, s2, n)
<1>8. PICK j \in Nat : j < Room(s1, s2) /\ (m[s1 + j] = 0 \/ m[s2 + j] = 0)
  BY OneEnds
<1>9. Room(s1, s2) \in Nat /\ Room(s1, s2) <= MemSize
  BY OneEnds
<1>10. N \in Nat
  BY <1>9 DEF Within
<1>11. k \in 0..N /\ (k < N => k < n /\ k < Room(s1, s2)) /\ (k = N => k = n)
  <2>1. CASE Fits(s1, n) /\ Fits(s2, n)
    <3>1. N = n /\ n <= Room(s1, s2)
      BY <1>1, <2>1 DEF Fits, Room, Within
    <3>2. QED BY <1>9, <3>1
  <2>2. CASE ~(Fits(s1, n) /\ Fits(s2, n))
    <3>1. N = Room(s1, s2) /\ N < n
      BY <1>1, <2>2 DEF Fits, Room, Within
    <3>2. j \in Stop
      BY <1>8, <1>9, <3>1
    <3>3. ~(j < k)
      <4> SUFFICES ASSUME j < k PROVE FALSE
        OBVIOUS
      <4>1. j \in 0..(k - 1)
        OBVIOUS
      <4>2. QED BY <1>6, <3>2, <4>1
    <3>4. QED BY <1>8, <1>9, <3>1, <3>3
  <2>3. QED BY <2>1, <2>2
<1> HIDE DEF N
<1>12. k < N => m[s1 + k] \in Nat /\ m[s2 + k] \in Nat
  <2>1. k < N => k \in 0..(Room(s1, s2) - 1)
    BY <1>9, <1>11, <1>10
  <2>2. QED BY <2>1, OneEnds
<1>13. \A i \in 0..(k - 1) : m[s1 + i] = m[s2 + i] /\ m[s1 + i] # 0
  BY <1>6
<1>14. StoppedAt(m, s1, s2, N, TRUE, r[k], k)
  <2>1. CASE k = N
    <3>1. r[k] = 0
      BY <1>11, <2>1
    <3>2. QED BY <1>13, <2>1, <3>1, Zenon DEF StoppedAt
  <2>2. CASE k < N /\ m[s1 + k] = m[s2 + k]
    <3>1. m[s1 + k] = 0 /\ r[k] = 0
      BY <1>6, <1>11, <2>2
    <3>2. QED BY <1>13, <2>2, <3>1, Zenon DEF StoppedAt
  <2>3. CASE k < N /\ m[s1 + k] # m[s2 + k]
    <3>1. r[k] = m[s1 + k] - m[s2 + k]
      BY <1>11, <2>3
    <3>2. k < N /\ m[s1 + k] \in Nat /\ m[s2 + k] \in Nat
      BY <1>12, <2>3
    <3> HIDE DEF r
    <3>3. QED BY <1>13, <2>3, <3>1, <3>2, Zenon DEF StoppedAt
  <2>4. k = N \/ k < N
    BY <1>10, <1>11
  <2>5. QED BY <2>1, <2>2, <2>3, <2>4, Zenon
<1>15. QED BY <1>4, <1>7, <1>11, <1>14 DEF f, N

----------------------------------------------------------------------------
(* Strings.  A copy lands at d + k, after k bytes that are not zero.       *)

Lands(b, d, s, k, L, after) ==
  /\ L = strlen(b, s) /\ Terminated(b, s)
  /\ \A i \in 0..(k - 1) : b[d + i] # 0
  /\ Fits(d + k, L + 1) /\ (s + L + 1 <= d \/ d + k + L + 1 <= s)
  /\ after = Moved(b, d + k, s, L + 1)

\* What CopiesString says of the copy.
Landed(b, d, s, k, L, after) ==
  /\ Terminated(after, d)
  /\ StringAt(after, s) = StringAt(b, s)
  /\ StringAt(after, d) = [i \in 0..(k + L - 1) |->
                             IF i < k THEN b[d + i] ELSE b[s + i - k]]

LEMMA StringLands ==
  ASSUME NEW b \in Memory, NEW d \in Addr, NEW s \in Addr, NEW k \in Nat,
         NEW L \in Nat, NEW after, Lands(b, d, s, k, L, after)
  PROVE  Landed(b, d, s, k, L, after)
<1> USE DEF Lands
<1>0. MemSize \in Nat /\ d \in Nat /\ s \in Nat
  BY ByteAssumption DEF Addr
<1>1. s + L \in Addr /\ b[s + L] = 0 /\ \A j \in 0..(L - 1) : b[s + j] # 0
  BY StringEnds
<1>2. \A a \in Addr : after[a] = IF a \in (d + k)..(d + k + (L + 1) - 1)
                                 THEN b[s + a - (d + k)] ELSE b[a]
  BY DEF Moved
<1>3. \A i \in 0..L : after[s + i] = b[s + i]
  <2>1. \A i \in 0..L : s + i \in Addr /\ s + i \notin (d + k)..(d + k + (L + 1) - 1)
    BY <1>0, <1>1 DEF Addr
  <2>2. QED BY <1>2, <2>1
<1>4. \A i \in 0..(k - 1) : after[d + i] = b[d + i]
  <2>1. \A i \in 0..(k - 1) : d + i \in Addr /\ d + i \notin (d + k)..(d + k + (L + 1) - 1)
    BY <1>0 DEF Addr, Fits
  <2>2. QED BY <1>2, <2>1
<1>5. ASSUME NEW i \in k..(k + L)
      PROVE  after[d + i] = b[s + i - k] /\ i - k \in 0..L /\ s + i - k = s + (i - k)
  <2>1. d + i \in Addr /\ d + i \in (d + k)..(d + k + (L + 1) - 1)
    BY <1>0 DEF Addr, Fits
  <2>2. s + (d + i) - (d + k) = s + i - k
    BY <1>0
  <2>3. after[d + i] = b[s + (d + i) - (d + k)]
    BY <1>2, <2>1
  <2>4. QED BY <1>0, <2>2, <2>3
<1>6. after[d + (k + L)] = 0 /\ d + (k + L) \in Addr
  <2>1. k + L \in k..(k + L) /\ s + (k + L) - k = s + L
    BY <1>0
  <2>2. QED BY <1>0, <1>1, <1>5, <2>1 DEF Addr, Fits
<1>7. ASSUME NEW i \in 0..(k + L - 1)
      PROVE  after[d + i] # 0 /\ after[d + i] = IF i < k THEN b[d + i] ELSE b[s + i - k]
  <2>1. CASE i < k
    <3>1. i \in 0..(k - 1)
      BY <2>1
    <3>2. QED BY <1>4, <2>1, <3>1
  <2>2. CASE ~(i < k)
    <3>1. i \in k..(k + L) /\ i - k \in 0..(L - 1)
      BY <2>2
    <3>2. b[s + (i - k)] # 0
      BY <1>1, <3>1
    <3>3. QED BY <1>5, <2>2, <3>1, <3>2
  <2>3. QED BY <2>1, <2>2
<1>8. after \in Memory
  <2>1. ASSUME NEW a \in Addr, a \in (d + k)..(d + k + (L + 1) - 1)
        PROVE  s + a - (d + k) \in Addr
    BY <1>0, <1>1, <2>1 DEF Addr
  <2>2. QED BY <2>1 DEF Moved, Memory
<1>9. Terminated(after, d)
  <2>1. d + (k + L) >= d
    BY <1>0
  <2>2. QED BY <1>6, <2>1 DEF Terminated
<1>10. strlen(after, d) = k + L
  <2>1. PICK q \in Nat : q = k + L
    BY <1>0
  <2>2. after[d + q] = 0 /\ d + q \in Addr /\ \A i \in 0..(q - 1) : after[d + i] # 0
    BY <1>6, <1>7, <2>1
  <2>3. strlen(after, d) = q
    BY <1>0, <1>8, <2>2, StrlenIs
  <2>4. QED BY <2>1, <2>3
<1>11. strlen(after, s) = L
  <2>1. after[s + L] = 0 /\ \A j \in 0..(L - 1) : after[s + j] # 0
    BY <1>1, <1>3
  <2>2. QED BY <1>0, <1>1, <1>8, <2>1, StrlenIs
<1>12. StringAt(after, s) = StringAt(b, s)
  <2>1. \A i \in 0..(L - 1) : after[s + i] = b[s + i]
    BY <1>3
  <2>2. QED BY <1>11, <2>1, Zenon DEF StringAt
<1>13. StringAt(after, d) = [i \in 0..(k + L - 1) |->
                               IF i < k THEN b[d + i] ELSE b[s + i - k]]
  <2>1. StringAt(after, d) = [i \in 0..(k + L - 1) |-> after[d + i]]
    BY <1>10 DEF StringAt
  <2>2. QED BY <1>7, <2>1, Zenon
<1>14. QED BY <1>9, <1>12, <1>13 DEF Landed

\* strcpy moves the string and its terminator.
LEMMA StrcpyMoves ==
  ASSUME NEW m \in Memory, NEW d \in Nat, NEW s \in Addr, Terminated(m, s),
         Fits(d, strlen(m, s) + 1),
         s + strlen(m, s) + 1 <= d \/ d + strlen(m, s) + 1 <= s
  PROVE  strcpy(m, d, s) = Moved(m, d, s, strlen(m, s) + 1)
<1>1. strlen(m, s) \in Nat /\ s + strlen(m, s) \in Addr
  BY StringEnds
<1>2. MemSize \in Nat /\ s \in Nat
  BY ByteAssumption DEF Addr
<1>3. PICK n \in Nat : n = strlen(m, s) + 1
  BY <1>1
<1>4. Fits(d, n) /\ Fits(s, n) /\ (d <= s \/ s + n <= d)
  BY <1>1, <1>2, <1>3 DEF Fits, Addr
<1>5. CopyUp(m, d, s, n) = Moved(m, d, s, n)
  BY <1>2, <1>4, CopyUpMoves
<1>6. QED BY <1>3, <1>5 DEF strcpy

----------------------------------------------------------------------------
(* The calls *)

KlibInv == (call.fn = "none" => mem \in Memory) /\ StringsRight

LEMMA MovesRight == ASSUME mem \in Memory, Moves PROVE StringsRight'
<1>1. PICK d \in Addr, s \in Addr, n \in 0..MemSize :
        /\ Fits(d, n) /\ Fits(s, n)
        /\ \/ Writes("move", d, s, n, memmove(mem, d, s, n))
           \/ Separate(d, s, n) /\ Writes("move", d, s, n, memcpy(mem, d, s, n))
  BY DEF Moves
<1>2. d \in Nat /\ s \in Nat /\ n \in Nat
  BY ByteAssumption DEF Addr
<1>3. memmove(mem, d, s, n) = Moved(mem, d, s, n)
  <2>1. CASE d = s \/ n = 0
    <3>1. ~(d < s /\ n # 0)
      BY <1>2, <2>1
    <3>2. memmove(mem, d, s, n) = mem
      BY <2>1, <3>1 DEF memmove
    <3>3. QED BY <1>2, <2>1, <3>2, MovedNothing
  <2>2. CASE ~(d = s \/ n = 0) /\ d < s
    <3>1. memmove(mem, d, s, n) = CopyUp(mem, d, s, n)
      BY <2>2 DEF memmove
    <3>2. d <= s
      BY <1>2, <2>2
    <3>3. QED BY <1>1, <1>2, <3>1, <3>2, CopyUpMoves
  <2>3. CASE ~(d = s \/ n = 0) /\ ~(d < s)
    <3>1. memmove(mem, d, s, n) = CopyDown(mem, d, s, n)
      BY <2>3 DEF memmove
    <3>2. s <= d
      BY <1>2, <2>3
    <3>3. QED BY <1>1, <1>2, <3>1, <3>2, CopyDownMoves
  <2>4. QED BY <2>1, <2>2, <2>3
<1>4. Separate(d, s, n) => memcpy(mem, d, s, n) = Moved(mem, d, s, n)
  <2>1. Separate(d, s, n) => d <= s \/ s + n <= d
    BY <1>2 DEF Separate
  <2>2. QED BY <1>1, <1>2, <2>1, CopyUpMoves DEF memcpy
<1>5. Writes("move", d, s, n, Moved(mem, d, s, n))
  BY <1>1, <1>3, <1>4
<1>6. /\ mem' = Moved(mem, d, s, n) /\ call'.fn = "move" /\ call'.d = d
      /\ call'.s = s /\ call'.n = n /\ call'.before = mem
  BY <1>5 DEF Writes
<1>7. QED BY <1>6 DEF StringsRight, MovesBytes, CopiesString, ComparesRight, Moved

LEMMA FillRight == ASSUME mem \in Memory, Fill PROVE StringsRight'
<1>1. PICK s \in Addr, c \in Byte, n \in 0..MemSize :
        Fits(s, n) /\ Writes("fill", s, c, n, memset(mem, s, c, n))
  BY DEF Fill
<1>2. s \in Nat /\ n \in Nat
  BY ByteAssumption DEF Addr
<1>3. memset(mem, s, c, n) = [a \in Addr |-> IF a \in s..(s + n - 1) THEN c ELSE mem[a]]
  BY <1>1, <1>2, MemsetFills
<1>4. /\ mem' = [a \in Addr |-> IF a \in s..(s + n - 1) THEN c ELSE mem[a]]
      /\ call'.fn = "fill" /\ call'.d = s /\ call'.s = c /\ call'.n = n
      /\ call'.before = mem
  BY <1>1, <1>3 DEF Writes
<1>5. QED BY <1>4 DEF StringsRight, MovesBytes, CopiesString, ComparesRight

LEMMA CopyRight == ASSUME mem \in Memory, Copy PROVE StringsRight'
<1>1. PICK d \in Addr, s \in Addr :
        /\ Terminated(mem, s)
        /\ Fits(d, strlen(mem, s) + 1) /\ Separate(d, s, strlen(mem, s) + 1)
        /\ Writes("copy", d, s, 0, strcpy(mem, d, s))
  BY DEF Copy
<1>2. d \in Nat /\ s \in Nat
  BY ByteAssumption DEF Addr
<1>3. strlen(mem, s) \in Nat
  BY <1>1, StringEnds
<1>4. PICK L \in Nat : L = strlen(mem, s)
  BY <1>3
<1>5. Fits(d, L + 1) /\ (s + L + 1 <= d \/ d + L + 1 <= s)
  BY <1>1, <1>2, <1>4 DEF Separate
<1>6. strcpy(mem, d, s) = Moved(mem, d, s, L + 1)
  BY <1>1, <1>2, <1>4, <1>5, StrcpyMoves
<1>7. PICK after : after = Moved(mem, d, s, L + 1)
  OBVIOUS
<1>8. /\ mem' = after /\ call'.fn = "copy" /\ call'.d = d
      /\ call'.s = s /\ call'.before = mem
  BY <1>1, <1>6, <1>7 DEF Writes
<1>9. Lands(mem, d, s, 0, L, after)
  <2>1. d + 0 = d
    BY <1>2
  <2>2. 0..(0 - 1) = {}
    OBVIOUS
  <2>3. QED BY <1>1, <1>4, <1>5, <1>7, <2>1, <2>2 DEF Lands
<1>10. Landed(mem, d, s, 0, L, after)
  BY <1>9, StringLands
<1>11. CopiesString'
  BY <1>4, <1>8, <1>10, Zenon DEF CopiesString, Landed
<1>12. MovesBytes' /\ ComparesRight'
  BY <1>8 DEF MovesBytes, ComparesRight
<1>13. QED BY <1>11, <1>12 DEF StringsRight

LEMMA CatRight == ASSUME mem \in Memory, Cat PROVE StringsRight'
<1>1. PICK d \in Addr, s \in Addr :
        /\ Terminated(mem, s) /\ Terminated(mem, d)
        /\ LET end == d + strlen(mem, d)
               len == strlen(mem, s) + 1
           IN  Fits(end, len) /\ (s + len <= d \/ end + len <= s)
        /\ Writes("cat", d, s, 0, strcat(mem, d, s))
  BY DEF Cat
<1>2. d \in Nat /\ s \in Nat
  BY ByteAssumption DEF Addr
<1>3. strlen(mem, s) \in Nat /\ strlen(mem, d) \in Nat
  BY <1>1, StringEnds
<1>4. PICK L \in Nat : L = strlen(mem, s)
  BY <1>3
<1>5. PICK k \in Nat : k = strlen(mem, d)
  BY <1>3
<1>6. \A i \in 0..(k - 1) : mem[d + i] # 0
  BY <1>1, <1>5, StringEnds
<1>7. /\ Fits(d + k, L + 1)
      /\ s + L + 1 <= d \/ d + k + L + 1 <= s
      /\ s + L + 1 <= d + k \/ d + k + L + 1 <= s
  <2>1. Fits(d + k, L + 1) /\ (s + (L + 1) <= d \/ d + k + (L + 1) <= s)
    BY <1>1, <1>4, <1>5
  <2>2. QED BY <1>2, <2>1
<1>8. strcat(mem, d, s) = Moved(mem, d + k, s, L + 1)
  <2>1. PICK e \in Nat : e = d + k
    BY <1>2
  <2>2. Fits(e, L + 1) /\ (s + L + 1 <= e \/ e + L + 1 <= s)
    BY <1>7, <2>1
  <2>3. strcpy(mem, e, s) = Moved(mem, e, s, L + 1)
    BY <1>1, <1>4, <2>2, StrcpyMoves
  <2>4. QED BY <1>5, <2>1, <2>3 DEF strcat
<1>9. PICK after : after = Moved(mem, d + k, s, L + 1)
  OBVIOUS
<1>10. /\ mem' = after /\ call'.fn = "cat" /\ call'.d = d
       /\ call'.s = s /\ call'.before = mem
  BY <1>1, <1>8, <1>9 DEF Writes
<1>11. Landed(mem, d, s, k, L, after)
  <2>1. Lands(mem, d, s, k, L, after)
    BY <1>1, <1>4, <1>6, <1>7, <1>9 DEF Lands
  <2>2. QED BY <2>1, StringLands
<1>12. CopiesString'
  BY <1>4, <1>5, <1>10, <1>11, Zenon DEF CopiesString, Landed
<1>13. MovesBytes' /\ ComparesRight'
  BY <1>10 DEF MovesBytes, ComparesRight
<1>14. QED BY <1>12, <1>13 DEF StringsRight

\* What a call of a comparison leaves behind.
LEMMA ReturnsRight ==
  ASSUME NEW fn \in {"cmp", "memcmp"}, NEW s1 \in Nat, NEW s2 \in Nat, NEW n,
         NEW N \in Nat, N = Within(s1, s2, n), NEW ret, NEW k \in 0..N,
         StoppedAt(mem, s1, s2, N, fn = "cmp", ret, k), Returns(fn, s1, s2, n, ret)
  PROVE  StringsRight'
<1>1. /\ mem' = mem /\ call'.fn = fn /\ call'.d = s1 /\ call'.s = s2 /\ call'.n = n
      /\ call'.ret = ret
  BY DEF Returns
<1>2. PICK strings \in BOOLEAN : strings = (fn = "cmp")
  OBVIOUS
<1>3. PICK m : m = mem
  OBVIOUS
<1>4. Signed(m, s1, s2, N, strings, ret)
  <2>1. StoppedAt(m, s1, s2, N, strings, ret, k)
    BY <1>2, <1>3, Zenon
  <2>2. QED BY <2>1, SignIsRight
<1>5. ComparesRight'
  BY <1>1, <1>2, <1>3, <1>4, Zenon DEF ComparesRight, Within, Room, Signed
<1>6. MovesBytes' /\ CopiesString'
  BY <1>1 DEF MovesBytes, CopiesString
<1>7. QED BY <1>5, <1>6 DEF StringsRight

LEMMA CompareRight == ASSUME mem \in Memory, Compare PROVE StringsRight'
<1>1. PICK s1 \in Addr, s2 \in Addr :
        /\ Terminated(mem, s1) /\ Terminated(mem, s2)
        /\ \/ Returns("cmp", s1, s2, MemSize, strcmp(mem, s1, s2))
           \/ \E n \in 0..MemSize : Returns("cmp", s1, s2, n, strncmp(mem, s1, s2, n))
  BY DEF Compare
<1>2. s1 \in Nat /\ s2 \in Nat /\ MemSize \in Nat
  BY ByteAssumption DEF Addr
<1>3. Room(s1, s2) \in Nat
  BY <1>1, OneEnds
<1>4. CASE Returns("cmp", s1, s2, MemSize, strcmp(mem, s1, s2))
  <2>1. PICK k \in 0..Room(s1, s2) :
          StoppedAt(mem, s1, s2, Room(s1, s2), TRUE, strcmp(mem, s1, s2), k)
    BY <1>1, StrcmpStops
  <2>2. Room(s1, s2) = Within(s1, s2, MemSize)
    BY <1>2 DEF Room, Within, Fits
  <2>3. PICK N \in Nat : N = Room(s1, s2)
    BY <1>3
  <2>4. StoppedAt(mem, s1, s2, N, "cmp" = "cmp", strcmp(mem, s1, s2), k)
    BY <2>1, <2>3, Zenon
  <2>5. QED BY <1>2, <1>4, <2>1, <2>2, <2>3, <2>4, ReturnsRight
<1>5. CASE \E n \in 0..MemSize : Returns("cmp", s1, s2, n, strncmp(mem, s1, s2, n))
  <2>1. PICK n \in 0..MemSize : Returns("cmp", s1, s2, n, strncmp(mem, s1, s2, n))
    BY <1>5
  <2>2. n \in Nat
    BY <1>2
  <2>3. PICK k \in 0..Within(s1, s2, n) :
          StoppedAt(mem, s1, s2, Within(s1, s2, n), TRUE, strncmp(mem, s1, s2, n), k)
    BY <1>1, <2>2, StrncmpStops
  <2>4. PICK N \in Nat : N = Within(s1, s2, n)
    BY <1>3, <2>2 DEF Within
  <2>5. StoppedAt(mem, s1, s2, N, "cmp" = "cmp", strncmp(mem, s1, s2, n), k)
    BY <2>3, <2>4, Zenon
  <2>6. QED BY <1>2, <2>1, <2>3, <2>4, <2>5, ReturnsRight
<1>6. QED BY <1>1, <1>4, <1>5

LEMMA CompareBytesRight == ASSUME mem \in Memory, CompareBytes PROVE StringsRight'
<1>1. PICK s1 \in Addr, s2 \in Addr, n \in 0..MemSize :
        /\ Fits(s1, n) /\ Fits(s2, n)
        /\ Returns("memcmp", s1, s2, n, memcmp(mem, s1, s2, n))
  BY DEF CompareBytes
<1>2. s1 \in Nat /\ s2 \in Nat /\ n \in Nat
  BY ByteAssumption DEF Addr
<1>3. PICK k \in 0..n : StoppedAt(mem, s1, s2, n, FALSE, memcmp(mem, s1, s2, n), k)
  BY <1>1, <1>2, MemcmpStops
<1>4. StoppedAt(mem, s1, s2, n, "memcmp" = "cmp", memcmp(mem, s1, s2, n), k)
  <2>1. ("memcmp" = "cmp") = FALSE
    OBVIOUS
  <2>2. QED BY <1>3, <2>1, Zenon
<1>5. n = Within(s1, s2, n)
  BY <1>1 DEF Within
<1>6. QED BY <1>1, <1>2, <1>4, <1>5, ReturnsRight

(* Every call of a string function does to memory, or answers, what its    *)
(* name says, for a memory of any size and bytes of any range.             *)
THEOREM StringsAreRight == KlibSpec => []StringsRight
<1>1. KlibInit => KlibInv
  BY DEF KlibInit, KlibInv, StringsRight, MovesBytes, CopiesString, ComparesRight
<1>2. KlibInv /\ [KlibNext]_klibVars => KlibInv'
  <2> SUFFICES ASSUME KlibInv, [KlibNext]_klibVars PROVE KlibInv'
    OBVIOUS
  <2>1. CASE KlibNext
    <3>1. mem \in Memory
      BY <2>1 DEF KlibNext, KlibInv
    <3>2. StringsRight'
      BY <2>1, <3>1, MovesRight, FillRight, CopyRight, CatRight, CompareRight,
         CompareBytesRight DEF KlibNext
    <3>3. call'.fn # "none"
      BY <2>1 DEF KlibNext, Moves, Fill, Copy, Cat, Compare, CompareBytes, Writes, Returns
    <3>4. QED BY <3>2, <3>3 DEF KlibInv
  <2>2. CASE UNCHANGED klibVars
    BY <2>2 DEF klibVars, KlibInv, StringsRight, MovesBytes, CopiesString, ComparesRight
  <2>3. QED BY <2>1, <2>2
<1>3. KlibInv => StringsRight
  BY DEF KlibInv
<1>4. QED BY <1>1, <1>2, <1>3, PTL DEF KlibSpec

----------------------------------------------------------------------------
(* Formatting.  Both directions are loops: Horner's rule reads digits, and *)
(* division writes them.                                                   *)

\* f[i] is the number the first i digits of s stand for.
Horner(f, s, b, n) ==
  /\ f \in [0..n -> Nat] /\ f[0] = 0
  /\ \A i \in 1..n : f[i] = f[i - 1] * b + s[i]

LEMMA HornerExists ==
  ASSUME NEW s, NEW b \in Nat, NEW n \in Nat, \A i \in 1..n : s[i] \in Nat
  PROVE  \E f : Horner(f, s, b, n)
<1> DEFINE S == {k \in Nat : k <= n => \E f : Horner(f, s, b, k)}
<1>1. 0 \in S
  <2>1. Horner([i \in 0..0 |-> 0], s, b, 0)
    BY DEF Horner
  <2>2. QED BY <2>1
<1>2. ASSUME NEW k \in Nat, k \in S PROVE k + 1 \in S
  <2> SUFFICES ASSUME k + 1 <= n PROVE \E f : Horner(f, s, b, k + 1)
    OBVIOUS
  <2>1. PICK f : Horner(f, s, b, k)
    BY <1>2
  <2> DEFINE v == f[k] * b + s[k + 1]
             g == [i \in 0..(k + 1) |-> IF i = k + 1 THEN v ELSE f[i]]
  <2>2. v \in Nat
    <3>1. f[k] \in Nat /\ s[k + 1] \in Nat
      BY <2>1 DEF Horner
    <3>2. f[k] * b \in Nat
      BY <3>1, SMT
    <3>3. QED BY <3>1, <3>2
  <2> HIDE DEF v
  <2>3. g \in [0..(k + 1) -> Nat] /\ g[0] = 0
    BY <2>1, <2>2 DEF Horner
  <2>4. ASSUME NEW i \in 1..(k + 1) PROVE g[i] = g[i - 1] * b + s[i]
    <3>1. CASE i = k + 1
      <4>1. g[i] = v /\ g[i - 1] = f[k] /\ s[i] = s[k + 1]
        BY <3>1
      <4>2. QED BY <4>1 DEF v
    <3>2. CASE i # k + 1
      <4>1. i \in 1..k /\ g[i] = f[i] /\ g[i - 1] = f[i - 1]
        BY <3>2
      <4>2. QED BY <2>1, <4>1 DEF Horner
    <3>3. QED BY <3>1, <3>2
  <2> HIDE DEF g
  <2>5. Horner(g, s, b, k + 1)
    BY <2>3, <2>4 DEF Horner
  <2>6. QED BY <2>5
<1>3. \A k \in Nat : k \in S
  <2> HIDE DEF S
  <2>1. QED BY <1>1, <1>2, SetInduction
<1>4. n <= n
  OBVIOUS
<1>5. QED BY <1>3, <1>4

LEMMA HornerIs ==
  ASSUME NEW s \in Seq(Nat), NEW b \in Nat, NEW f, Horner(f, s, b, Len(s))
  PROVE  Number(s, b) = f[Len(s)] /\ f[Len(s)] \in Nat
<1> DEFINE P(g) == g = [i \in 0..Len(s) |-> IF i = 0 THEN 0 ELSE g[i - 1] * b + s[i]]
<1>0. PICK n \in Nat : n = Len(s)
  OBVIOUS
<1>1. f = [i \in 0..n |-> f[i]] /\ f[0] = 0 /\ \A i \in 1..n : f[i] = f[i - 1] * b + s[i]
  BY <1>0 DEF Horner
<1>2. ASSUME NEW i \in 0..n PROVE f[i] = IF i = 0 THEN 0 ELSE f[i - 1] * b + s[i]
  <2>1. i # 0 => i \in 1..n
    OBVIOUS
  <2>2. QED BY <1>1, <2>1
<1>3. P(f)
  BY <1>0, <1>1, <1>2, Zenon
<1>4. Number(s, b) = (CHOOSE g : P(g))[n]
  BY <1>0 DEF Number
<1> DEFINE g == CHOOSE g : P(g)
<1>5. P(g)
  BY <1>3
<1> HIDE DEF g
<1>6. \A i \in 0..n : g[i] = IF i = 0 THEN 0 ELSE g[i - 1] * b + s[i]
  BY <1>0, <1>5
<1>7. g[0] = f[0]
  <2>1. 0 \in 0..n
    OBVIOUS
  <2>2. QED BY <1>1, <1>6, <2>1, Zenon
<1>8. ASSUME NEW i \in 1..n, g[i - 1] = f[i - 1] PROVE g[i] = f[i]
  <2>1. i \in 0..n /\ i # 0
    OBVIOUS
  <2>2. QED BY <1>1, <1>6, <1>8, <2>1, Zenon
<1>9. \A i \in 0..n : g[i] = f[i]
  <2>1. RoundsAlike(g, f, n)
    BY <1>7, <1>8 DEF RoundsAlike
  <2>2. QED BY <2>1, SameRounds
<1>10. n \in 0..n /\ f[n] \in Nat
  BY <1>0 DEF Horner
<1>11. QED BY <1>0, <1>4, <1>9, <1>10 DEF g

\* One more digit.
LEMMA NumberAppend ==
  ASSUME NEW s \in Seq(Nat), NEW b \in Nat, NEW d \in Nat
  PROVE  Number(Append(s, d), b) = Number(s, b) * b + d /\ Number(s, b) \in Nat
<1> DEFINE t == Append(s, d)
<1>0. PICK n \in Nat : n = Len(s)
  OBVIOUS
<1>1. t \in Seq(Nat) /\ Len(t) = n + 1 /\ t[n + 1] = d /\ \A i \in 1..n : t[i] = s[i]
  BY <1>0
<1> HIDE DEF t
<1>2. PICK f : Horner(f, t, b, n + 1)
  <2>1. n + 1 \in Nat /\ \A i \in 1..(n + 1) : t[i] \in Nat
    BY <1>1
  <2>2. QED BY <2>1, HornerExists
<1> DEFINE h == [i \in 0..n |-> f[i]]
<1>3. Horner(h, s, b, n)
  <2>1. h \in [0..n -> Nat] /\ h[0] = 0
    BY <1>2 DEF Horner
  <2>2. ASSUME NEW i \in 1..n PROVE h[i] = h[i - 1] * b + s[i]
    <3>1. h[i] = f[i] /\ h[i - 1] = f[i - 1] /\ i \in 1..(n + 1)
      OBVIOUS
    <3>2. f[i] = f[i - 1] * b + t[i]
      BY <1>2, <3>1 DEF Horner
    <3>3. QED BY <1>1, <3>1, <3>2
  <2> HIDE DEF h
  <2>3. QED BY <2>1, <2>2 DEF Horner
<1>4. h[n] = f[n] /\ f[n + 1] = f[n] * b + d
  <2>1. n + 1 \in 1..(n + 1) /\ (n + 1) - 1 = n /\ n \in 0..n
    OBVIOUS
  <2>2. f[n + 1] = f[(n + 1) - 1] * b + t[n + 1]
    BY <1>2, <2>1 DEF Horner
  <2>3. QED BY <1>1, <2>1, <2>2
<1> HIDE DEF h
<1>5. Number(s, b) = h[n] /\ h[n] \in Nat
  BY <1>0, <1>3, HornerIs
<1>6. Number(t, b) = f[n + 1]
  BY <1>1, <1>2, HornerIs
<1>7. QED BY <1>4, <1>5, <1>6 DEF t

\* Leading zeros.
LEMMA NumberPadded ==
  ASSUME NEW s \in Seq(Nat), NEW b \in Nat, NEW k \in Nat,
         NEW t \in Seq(Nat), Len(t) = k + Len(s),
         \A i \in 1..k : t[i] = 0, \A i \in 1..Len(s) : t[k + i] = s[i]
  PROVE  Number(t, b) = Number(s, b)
<1>0. PICK n \in Nat : n = Len(s)
  OBVIOUS
<1>1. PICK f : Horner(f, t, b, k + n)
  <2>1. k + n \in Nat /\ \A i \in 1..(k + n) : t[i] \in Nat
    BY <1>0
  <2>2. QED BY <2>1, HornerExists
<1>2. \A i \in 0..k : f[i] = 0
  <2> DEFINE w == [i \in 0..k |-> 0]
  <2>1. f[0] = w[0]
    BY <1>1 DEF Horner
  <2>2. ASSUME NEW i \in 1..k, f[i - 1] = w[i - 1] PROVE f[i] = w[i]
    <3>1. i \in 1..(k + n) /\ w[i - 1] = 0 /\ w[i] = 0
      OBVIOUS
    <3>2. f[i] = f[i - 1] * b + t[i]
      BY <1>1, <3>1 DEF Horner
    <3>3. t[i] = 0
      OBVIOUS
    <3>4. f[i] = 0 * b + 0
      BY <2>2, <3>1, <3>2, <3>3
    <3>5. 0 * b + 0 = 0
      BY SMT
    <3>6. QED BY <3>1, <3>4, <3>5
  <2>3. \A i \in 0..k : w[i] = 0
    OBVIOUS
  <2> HIDE DEF w
  <2>4. \A i \in 0..k : f[i] = w[i]
    <3>1. RoundsAlike(f, w, k)
      BY <2>1, <2>2 DEF RoundsAlike
    <3>2. QED BY <3>1, SameRounds
  <2>5. QED BY <2>3, <2>4
<1> DEFINE h == [i \in 0..n |-> f[k + i]]
<1>3. Horner(h, s, b, n)
  <2>1. h \in [0..n -> Nat] /\ h[0] = 0
    <3>1. \A i \in 0..n : k + i \in 0..(k + n)
      OBVIOUS
    <3>2. k + 0 \in 0..k /\ 0 \in 0..n
      OBVIOUS
    <3>3. QED BY <1>1, <1>2, <3>1, <3>2 DEF Horner
  <2>2. ASSUME NEW i \in 1..n PROVE h[i] = h[i - 1] * b + s[i]
    <3>1. h[i] = f[k + i] /\ h[i - 1] = f[k + (i - 1)] /\ k + i \in 1..(k + n)
          /\ (k + i) - 1 = k + (i - 1)
      OBVIOUS
    <3>2. f[k + i] = f[(k + i) - 1] * b + t[k + i]
      BY <1>1, <3>1 DEF Horner
    <3>3. t[k + i] = s[i]
      BY <1>0
    <3>4. QED BY <3>1, <3>2, <3>3
  <2> HIDE DEF h
  <2>3. QED BY <2>1, <2>2 DEF Horner
<1>4. h[n] = f[k + n]
  OBVIOUS
<1> HIDE DEF h
<1>5. Number(s, b) = h[n]
  BY <1>0, <1>3, HornerIs
<1>6. Number(t, b) = f[k + n]
  <2>1. Len(t) = k + n
    BY <1>0
  <2>2. Horner(f, t, b, Len(t))
    BY <1>1, <2>1
  <2>3. QED BY <2>1, <2>2, HornerIs
<1>7. QED BY <1>4, <1>5, <1>6

LEMMA NumberEmpty == ASSUME NEW b \in Nat PROVE Number(<< >>, b) = 0
<1> DEFINE f == [i \in 0..0 |-> 0]
<1>1. << >> \in Seq(Nat) /\ Len(<< >>) = 0
  OBVIOUS
<1>2. Horner(f, << >>, b, 0) /\ f[0] = 0
  BY DEF Horner
<1> HIDE DEF f
<1>3. QED BY <1>1, <1>2, HornerIs

\* f[n] is what the loop writes of n.
Rests(f, b, v) ==
  /\ f \in [0..v -> Seq(0..(b - 1))] /\ f[0] = << >>
  /\ \A n \in 1..v : f[n] = Append(f[n \div b], n % b)

LEMMA RestsExist ==
  ASSUME NEW b \in Nat, b > 1, NEW v \in Nat
  PROVE  \E f : Rests(f, b, v)
<1> DEFINE S == {k \in Nat : \E f : Rests(f, b, k)}
<1>1. 0 \in S
  <2>1. Rests([i \in 0..0 |-> << >>], b, 0)
    BY DEF Rests
  <2>2. QED BY <2>1
<1>2. ASSUME NEW k \in Nat, k \in S PROVE k + 1 \in S
  <2>1. PICK f : Rests(f, b, k)
    BY <1>2
  <2>2. PICK q \in 0..k, r \in 0..(b - 1) : q = (k + 1) \div b /\ r = (k + 1) % b
    <3>1. k + 1 \in Nat \ {0} /\ (k + 1) - 1 = k
      OBVIOUS
    <3>2. QED BY <3>1, DivLess
  <2> DEFINE e == Append(f[q], r)
             g == [i \in 0..(k + 1) |-> IF i = k + 1 THEN e ELSE f[i]]
  <2>3. e \in Seq(0..(b - 1))
    <3>1. f[q] \in Seq(0..(b - 1))
      BY <2>1 DEF Rests
    <3>2. QED BY <3>1
  <2> HIDE DEF e
  <2>4. g \in [0..(k + 1) -> Seq(0..(b - 1))] /\ g[0] = << >>
    <3> DEFINE T == Seq(0..(b - 1))
    <3>1. f \in [0..k -> T] /\ f[0] = << >> /\ e \in T
      BY <2>1, <2>3 DEF Rests
    <3> HIDE DEF T
    <3>2. g \in [0..(k + 1) -> T] /\ g[0] = << >>
      BY <3>1
    <3>3. QED BY <3>2 DEF T
  <2>5. ASSUME NEW n \in 1..(k + 1) PROVE g[n] = Append(g[n \div b], n % b)
    <3>1. CASE n = k + 1
      <4>1. g[n] = e /\ g[q] = f[q]
        BY <3>1
      <4>2. e = Append(f[q], r)
        BY DEF e
      <4> HIDE DEF g
      <4>3. QED BY <2>2, <3>1, <4>1, <4>2
    <3>2. CASE n # k + 1
      <4>1. n \in 1..k /\ n \in Nat \ {0}
        BY <3>2
      <4>2. PICK p \in 0..(n - 1) : p = n \div b
        BY <4>1, DivLess
      <4>3. g[n] = f[n] /\ g[p] = f[p]
        BY <4>1
      <4> HIDE DEF g
      <4>4. f[n] = Append(f[n \div b], n % b)
        BY <2>1, <4>1 DEF Rests
      <4>5. QED BY <4>2, <4>3, <4>4
    <3>3. QED BY <3>1, <3>2
  <2> HIDE DEF g
  <2>6. Rests(g, b, k + 1)
    BY <2>4, <2>5 DEF Rests
  <2>7. QED BY <2>6
<1>3. \A k \in Nat : k \in S
  <2> HIDE DEF S
  <2>1. QED BY <1>1, <1>2, SetInduction
<1>4. QED BY <1>3

LEMMA DigitsIs ==
  ASSUME NEW b \in Nat, b > 1, NEW v \in Nat, v > 0, NEW f, Rests(f, b, v)
  PROVE  Digits(v, b) = f[v]
<1> DEFINE P(g) == g = [n \in 0..v |-> IF n = 0 THEN << >> ELSE Append(g[n \div b], n % b)]
<1>1. f = [n \in 0..v |-> f[n]] /\ f[0] = << >>
      /\ \A n \in 1..v : f[n] = Append(f[n \div b], n % b)
  BY DEF Rests
<1>2. ASSUME NEW n \in 0..v
      PROVE  f[n] = IF n = 0 THEN << >> ELSE Append(f[n \div b], n % b)
  <2>1. n # 0 => n \in 1..v
    OBVIOUS
  <2>2. QED BY <1>1, <2>1
<1>3. P(f)
  BY <1>1, <1>2, Zenon
<1>4. Digits(v, b) = (CHOOSE g : P(g))[v]
  BY DEF Digits
<1> DEFINE g == CHOOSE g : P(g)
<1>5. P(g)
  BY <1>3
<1> HIDE DEF g
<1>6. \A n \in 0..v : g[n] = IF n = 0 THEN << >> ELSE Append(g[n \div b], n % b)
  BY <1>5
<1> DEFINE S == {n \in 0..v : g[n] = f[n]}
<1>7. ASSUME NEW n \in 0..v, \A j \in 0..(n - 1) : j \in S PROVE n \in S
  <2>1. CASE n = 0
    BY <1>1, <1>6, <2>1
  <2>2. CASE n # 0
    <3>1. n \in Nat \ {0}
      BY <2>2
    <3>2. PICK p \in 0..(n - 1) : p = n \div b
      BY <3>1, DivLess
    <3>3. g[p] = f[p]
      BY <1>7
    <3>4. g[n] = Append(g[p], n % b)
      BY <1>6, <2>2, <3>2, Zenon
    <3>5. f[n] = Append(f[p], n % b)
      BY <1>2, <2>2, <3>2, Zenon
    <3>6. QED BY <3>3, <3>4, <3>5
  <2>3. QED BY <2>1, <2>2
<1>8. \A n \in 0..v : n \in S
  <2> HIDE DEF S
  <2>1. \A n \in 0..v : (\A j \in 0..(n - 1) : j \in S) => n \in S
    BY <1>7
  <2>2. QED BY <2>1, StrongInduction
<1>9. g[v] = f[v]
  BY <1>8
<1>10. QED BY <1>4, <1>9 DEF g

\* The digits of a number: there is one at least, they stand for the number,
\* and the first is zero for zero only.
LEMMA DigitsRight ==
  ASSUME NEW b \in Nat, b > 1, NEW v \in Nat
  PROVE  /\ Digits(v, b) \in Seq(0..(b - 1)) /\ Len(Digits(v, b)) > 0
         /\ Number(Digits(v, b), b) = v
         /\ IF v = 0 THEN Len(Digits(v, b)) = 1 ELSE Digits(v, b)[1] # 0
<1>1. CASE v = 0
  <2>1. Digits(v, b) = <<0>>
    <3>1. 0 \div b = 0 /\ b * 0 = 0 /\ 0 - 0 = 0
      BY SMT
    <3>2. Remainder(0, b) = 0
      <4>1. Quotient(0, b) = 0
        BY <3>1 DEF Quotient
      <4>2. QED BY <3>1, <4>1 DEF Remainder
    <3>3. Digits(0, b) = <<Remainder(0, b)>>
      BY DEF Digits
    <3>4. QED BY <1>1, <3>2, <3>3
  <2>2. << >> \in Seq(Nat) /\ <<0>> = Append(<< >>, 0)
    OBVIOUS
  <2>3. Number(<<0>>, b) = 0 * b + 0
    <3>1. Number(Append(<< >>, 0), b) = Number(<< >>, b) * b + 0
      BY <2>2, NumberAppend
    <3>2. Number(<< >>, b) = 0
      BY NumberEmpty
    <3>3. QED BY <2>2, <3>1, <3>2
  <2>4. 0 * b + 0 = 0
    BY SMT
  <2>5. <<0>> \in Seq(0..(b - 1)) /\ Len(<<0>>) = 1
    OBVIOUS
  <2>6. PICK t : t = Digits(v, b)
    OBVIOUS
  <2>7. t \in Seq(0..(b - 1)) /\ Len(t) = 1
    BY <2>1, <2>5, <2>6
  <2>8. Number(t, b) = v
    BY <1>1, <2>1, <2>3, <2>4, <2>6, Zenon
  <2>9. Len(t) > 0
    BY <2>7
  <2>10. QED BY <1>1, <2>6, <2>7, <2>8, <2>9, Zenon
<1>2. CASE v > 0
  <2>1. PICK f : Rests(f, b, v)
    BY RestsExist
  <2> DEFINE S == {n \in 0..v : /\ f[n] \in Seq(0..(b - 1)) /\ Number(f[n], b) = n
                                /\ n > 0 => Len(f[n]) > 0 /\ f[n][1] # 0}
  <2>2. ASSUME NEW n \in 0..v, \A j \in 0..(n - 1) : j \in S PROVE n \in S
    <3>1. CASE n = 0
      <4>1. f[n] = << >>
        BY <2>1, <3>1 DEF Rests
      <4>2. Number(<< >>, b) = 0
        BY NumberEmpty
      <4>3. << >> \in Seq(0..(b - 1))
        OBVIOUS
      <4>4. f[n] \in Seq(0..(b - 1)) /\ Number(f[n], b) = n
        BY <3>1, <4>1, <4>2, <4>3, Zenon
      <4>5. QED BY <3>1, <4>4
    <3>2. CASE n # 0
      <4>1. n \in Nat \ {0} /\ n \in 1..v
        BY <3>2
      <4>2. PICK p \in 0..(n - 1), r \in 0..(b - 1) :
                   p = n \div b /\ r = n % b /\ n = p * b + r
        BY <4>1, DivLess
      <4>3. f[n] = Append(f[p], r)
        BY <2>1, <4>1, <4>2 DEF Rests
      <4>4. /\ f[p] \in Seq(0..(b - 1)) /\ Number(f[p], b) = p
            /\ p > 0 => Len(f[p]) > 0 /\ f[p][1] # 0
        BY <2>2
      <4>5. f[n] \in Seq(0..(b - 1)) /\ Len(f[n]) > 0
        BY <4>3, <4>4
      <4>6. Number(f[n], b) = n
        <5>1. f[p] \in Seq(Nat) /\ r \in Nat
          BY <4>4
        <5>2. Number(Append(f[p], r), b) = Number(f[p], b) * b + r
          BY <5>1, NumberAppend
        <5>3. QED BY <4>2, <4>3, <4>4, <5>2
      <4>7. f[n][1] # 0
        <5>1. CASE p = 0
          <6>1. f[p] = << >>
            BY <2>1, <5>1 DEF Rests
          <6>2. f[n] = <<r>>
            BY <4>3, <6>1
          <6>3. 0 * b = 0
            BY SMT
          <6>4. r # 0
            BY <3>2, <4>2, <5>1, <6>3
          <6>5. QED BY <6>2, <6>4
        <5>2. CASE p > 0
          BY <4>3, <4>4, <5>2
        <5>3. QED BY <5>1, <5>2
      <4>8. QED BY <4>5, <4>6, <4>7
    <3>3. QED BY <3>1, <3>2
  <2>3. \A n \in 0..v : n \in S
    <3> HIDE DEF S
    <3>1. \A n \in 0..v : (\A j \in 0..(n - 1) : j \in S) => n \in S
      BY <2>2
    <3>2. QED BY <3>1, StrongInduction
  <2>4. v \in S
    <3> HIDE DEF S
    <3>1. QED BY <2>3
  <2>5. Digits(v, b) = f[v]
    BY <1>2, <2>1, DigitsIs
  <2>6. QED BY <1>2, <2>4, <2>5
<1>3. QED BY <1>1, <1>2

\* Past skips the characters of S and no more.
LEMMA PastIs ==
  ASSUME NEW s, NEW n \in Nat, n = Len(s), NEW S, NEW k \in 1..(n + 1),
         k = n + 1 \/ s[k] \notin S, \A j \in 1..(k - 1) : s[j] \in S
  PROVE  Past(s, S) = k
<1> DEFINE P(m) == (m = n + 1 \/ s[m] \notin S) /\ \A j \in 1..(m - 1) : s[j] \in S
<1>1. P(k)
  OBVIOUS
<1>2. Past(s, S) = CHOOSE m \in 1..(n + 1) : P(m)
  BY DEF Past
<1>3. ASSUME NEW m \in 1..(n + 1), P(m) PROVE m = k
  <2>1. CASE m < k
    <3>1. m \in 1..(k - 1) /\ m # n + 1
      BY <2>1
    <3>2. QED BY <1>3, <3>1
  <2>2. CASE k < m
    <3>1. k \in 1..(m - 1) /\ k # n + 1
      BY <2>2
    <3>2. QED BY <1>1, <1>3, <3>1
  <2>3. QED BY <2>1, <2>2
<1> HIDE DEF P
<1>4. QED BY <1>1, <1>2, <1>3

\* A field: the padding, then the digits.
PadLen(n, w) == IF n < w THEN w - n ELSE 0

Field(t, k, ds, pad) ==
  /\ t \in Seq(Int) /\ Len(t) = k + Len(ds)
  /\ \A i \in 1..k : t[i] = pad
  /\ \A i \in 1..Len(ds) : t[k + i] = ds[i]

LEMMA FieldIs ==
  ASSUME NEW ds \in Seq(Int), NEW w \in Nat, NEW pad \in {Space, 0}
  PROVE  Field(Padding(Len(ds), w, pad) \o ds, PadLen(Len(ds), w), ds, pad)
<1>0. PICK n \in Nat : n = Len(ds)
  OBVIOUS
<1>1. PICK k \in Nat : k = PadLen(n, w)
  <2>1. PadLen(n, w) \in Nat
    BY DEF PadLen
  <2>2. QED BY <2>1
<1>2. PICK p : p = Padding(n, w, pad)
  OBVIOUS
<1>3. p = [i \in 1..k |-> pad]
  BY <1>1, <1>2 DEF Padding, PadLen
<1>4. pad \in Int /\ ds \in Seq(Int)
  BY DEF Space
<1>5. p \in Seq(Int) /\ Len(p) = k /\ \A i \in 1..k : p[i] = pad
  BY <1>3, <1>4
<1>6. PICK t : t = p \o ds
  OBVIOUS
<1>7. t \in Seq(Int) /\ Len(t) = Len(p) + Len(ds)
  <2>1. \A a, c \in Seq(Int) : a \o c \in Seq(Int)
    OBVIOUS
  <2>2. \A a, c \in Seq(Int) : Len(a \o c) = Len(a) + Len(c)
    OBVIOUS
  <2>3. QED BY <1>4, <1>5, <1>6, <2>1, <2>2, Zenon
<1>8. \A i \in 1..k : t[i] = pad
  BY <1>0, <1>4, <1>5, <1>6
<1>9. \A i \in 1..n : t[k + i] = ds[i]
  BY <1>0, <1>4, <1>5, <1>6
<1>10. Field(t, k, ds, pad)
  BY <1>0, <1>5, <1>7, <1>8, <1>9 DEF Field
<1>11. QED BY <1>0, <1>1, <1>2, <1>6, <1>10

\* A field is as wide as asked for, or as its digits.
LEMMA FieldFits ==
  ASSUME NEW ds \in Seq(Int), Len(ds) > 0, Len(ds) = 1 \/ ds[1] # 0, NEW w \in Nat, NEW pad,
         NEW t, Field(t, PadLen(Len(ds), w), ds, pad)
  PROVE  FillsField(t, w)
<1>1. PICK n \in Nat : n = Len(ds) /\ n > 0
  OBVIOUS
<1>2. PICK k : k = PadLen(n, w)
  OBVIOUS
<1>3. Len(t) = k + n /\ \A i \in 1..n : t[k + i] = ds[i]
  BY <1>1, <1>2 DEF Field
<1>4. CASE n <= w
  <2>1. k = w - n
    BY <1>2, <1>4 DEF PadLen
  <2>2. QED BY <1>3, <1>4, <2>1 DEF FillsField
<1>5. CASE n > w
  <2>1. k = 0
    BY <1>2, <1>5 DEF PadLen
  <2>2. Len(t) = n
    BY <1>3, <2>1
  <2>3. t[1] = ds[1]
    <3>1. 1 \in 1..n /\ 0 + 1 = 1
      BY <1>1
    <3>2. QED BY <1>3, <2>1, <3>1
  <2>4. QED BY <1>1, <1>5, <2>2, <2>3 DEF FillsField
<1>6. QED BY <1>1, <1>4, <1>5

\* Past its spaces a field reads as its digits do.
LEMMA FieldReads ==
  ASSUME NEW b \in Nat, b > 1, NEW ds \in Seq(0..(b - 1)), Len(ds) > 0, NEW w \in Nat,
         NEW pad \in {Space, 0}
  PROVE  LET u == Skipped(Padding(Len(ds), w, pad) \o ds)
         IN  u \in Seq(0..(b - 1)) /\ Number(u, b) = Number(ds, b)
<1>0. PICK n \in Nat : n = Len(ds) /\ n > 0
  OBVIOUS
<1>1. PICK k \in Nat : k = PadLen(n, w)
  <2>1. PadLen(n, w) \in Nat
    BY DEF PadLen
  <2>2. QED BY <2>1
<1>2. PICK t : t = Padding(n, w, pad) \o ds
  OBVIOUS
<1>3. /\ t \in Seq(Int) /\ Len(t) = k + n
      /\ \A i \in 1..k : t[i] = pad
      /\ \A i \in 1..n : t[k + i] = ds[i]
  <2>1. Field(t, k, ds, pad)
    <3>1. ds \in Seq(Int)
      OBVIOUS
    <3>2. QED BY <1>0, <1>1, <1>2, <3>1, FieldIs
  <2>2. QED BY <1>0, <2>1 DEF Field
<1>4. \A i \in 1..n : ds[i] \in 0..(b - 1) /\ ds[i] \notin {Space}
  BY <1>0 DEF Space
<1>5. PICK l \in Nat : l = k + n
  OBVIOUS
<1>6. CASE pad = Space
  <2>1. Past(t, {Space}) = k + 1
    <3>1. k + 1 \in 1..(l + 1) /\ (k + 1) - 1 = k /\ 1 \in 1..n
      BY <1>0, <1>5
    <3>2. t[k + 1] \notin {Space} /\ \A j \in 1..k : t[j] \in {Space}
      BY <1>3, <1>4, <1>6, <3>1
    <3>3. QED BY <1>3, <1>5, <3>1, <3>2, PastIs
  <2>2. Skipped(t) = SubSeq(t, k + 1, l)
    BY <1>3, <1>5, <2>1 DEF Skipped
  <2>3. SubSeq(t, k + 1, l) = ds
    <3> DEFINE u == SubSeq(t, k + 1, l)
    <3>1. u = [i \in 1..n |-> t[i + (k + 1) - 1]]
      BY <1>3, <1>5
    <3>2. \A i \in 1..n : t[i + (k + 1) - 1] = ds[i]
      <4>1. \A i \in 1..n : i + (k + 1) - 1 = k + i
        OBVIOUS
      <4>2. QED BY <1>3, <4>1
    <3>3. ds = [i \in 1..n |-> ds[i]]
      BY <1>0
    <3> HIDE DEF u
    <3>4. QED BY <3>1, <3>2, <3>3 DEF u
  <2>4. QED BY <1>0, <1>2, <2>2, <2>3
<1>7. CASE pad = 0
  <2>1. \A i \in 1..l : t[i] \in 0..(b - 1)
    <3> SUFFICES ASSUME NEW i \in 1..l PROVE t[i] \in 0..(b - 1)
      OBVIOUS
    <3>1. CASE i \in 1..k
      BY <1>3, <1>7, <3>1
    <3>2. CASE i \notin 1..k
      <4>1. i - k \in 1..n /\ k + (i - k) = i
        BY <1>5, <3>2
      <4>2. t[k + (i - k)] = ds[i - k]
        BY <1>3, <4>1
      <4>3. QED BY <1>4, <4>1, <4>2
    <3>3. QED BY <3>1, <3>2
  <2>2. t \in Seq(0..(b - 1)) /\ t \in Seq(Nat) /\ ds \in Seq(Nat)
    <3>1. t = [i \in 1..l |-> t[i]]
      BY <1>3, <1>5
    <3>2. t \in [1..l -> 0..(b - 1)]
      BY <2>1, <3>1
    <3>3. QED BY <3>2
  <2>3. Past(t, {Space}) = 1
    <3>1. 1 \in 1..(l + 1) /\ 1 \in 1..l
      BY <1>0, <1>5
    <3>2. t[1] \notin {Space} /\ \A j \in 1..(1 - 1) : t[j] \in {Space}
      BY <2>1, <3>1 DEF Space
    <3>3. QED BY <1>3, <1>5, <3>1, <3>2, PastIs
  <2>4. Skipped(t) = SubSeq(t, 1, Len(t))
    BY <2>3 DEF Skipped
  <2>5. SubSeq(t, 1, Len(t)) = t
    BY <1>3
  <2>6. Number(t, b) = Number(ds, b)
    BY <1>0, <1>3, <1>7, <2>2, NumberPadded
  <2>7. QED BY <1>0, <1>2, <2>2, <2>4, <2>5, <2>6
<1>8. QED BY <1>6, <1>7

\* atoi reads a decimal field.
LEMMA AtoiReads ==
  ASSUME NEW ds \in Seq(0..9), Len(ds) > 0, NEW w \in Nat, NEW pad \in {Space, 0}
  PROVE  atoi(Padding(Len(ds), w, pad) \o ds) = Number(ds, 10)
<1>1. PICK t : t = Padding(Len(ds), w, pad) \o ds
  OBVIOUS
<1>2. PICK u : u = Skipped(t)
  OBVIOUS
<1>3. u \in Seq(0..9) /\ Number(u, 10) = Number(ds, 10)
  <2>1. 10 \in Nat /\ 10 > 1 /\ 0..(10 - 1) = 0..9
    OBVIOUS
  <2>2. QED BY <1>1, <1>2, <2>1, FieldReads
<1>4. PICK n \in Nat : n = Len(u)
  BY <1>3
<1>5. Past(u, 0..9) = n + 1
  <2>1. n + 1 \in 1..(n + 1) /\ (n + 1) - 1 = n
    OBVIOUS
  <2>2. \A j \in 1..n : u[j] \in 0..9
    BY <1>3, <1>4
  <2>3. QED BY <1>4, <2>1, <2>2, PastIs
<1>6. SubSeq(u, 1, (n + 1) - 1) = u
  BY <1>3, <1>4
<1>7. atoi(t) = Number(SubSeq(u, 1, Past(u, 0..9) - 1), 10)
  BY <1>2 DEF atoi
<1>8. QED BY <1>1, <1>3, <1>5, <1>6, <1>7

\* -v has a representation unless v is the least number.
LEMMA MagnitudeIs ==
  ASSUME NEW v \in Ints, v # MIN
  PROVE  Magnitude(v) = (IF v < 0 THEN -v ELSE v) /\ Magnitude(v) \in Nat
<1>1. PICK h \in Nat \ {0} : h = Half
  BY HalfAssumption
<1>2. v \in Int /\ v > -h /\ v < h
  BY <1>1 DEF Ints, MIN
<1>3. CASE v < 0
  <2>1. (-v) - (-h) \in Nat /\ (-v) - (-h) < 2 * h /\ 2 * h \in Nat
    BY <1>2, <1>3
  <2>2. ((-v) - (-h)) % (2 * h) = (-v) - (-h)
    BY <2>1, ModSmall
  <2>3. Wrap(-v) = ((-v) - (-h)) + (-h)
    BY <1>1, <2>2 DEF Wrap, MIN, Modulus
  <2>4. ((-v) - (-h)) + (-h) = -v /\ -v \in Nat
    BY <1>2, <1>3
  <2>5. QED BY <1>3, <2>3, <2>4 DEF Magnitude
<1>4. CASE ~(v < 0)
  BY <1>2, <1>4 DEF Magnitude
<1>5. QED BY <1>3, <1>4

\* The least number is its own negative, and has one character for digits.
LEMMA LeastDigits ==
  /\ Magnitude(MIN) = MIN
  /\ \E c \in -9..0 : Digits(MIN, 10) = <<c>>
<1>1. PICK h \in Nat \ {0} : h = Half
  BY HalfAssumption
<1>2. MIN = -h /\ -h < 0 /\ -(-h) = h
  BY <1>1 DEF MIN
<1>3. Wrap(h) = -h
  <2>1. (h - (-h)) % (2 * h) = 0
    <3>1. h - (-h) = (2 * h) * 1 + 0 /\ 2 * h \in Nat \ {0} /\ 0 \in 0..(2 * h - 1)
      OBVIOUS
    <3>2. QED BY <3>1, DivUnique
  <2>2. QED BY <1>1, <1>2, <2>1 DEF Wrap, Modulus
<1>4. Magnitude(MIN) = MIN
  BY <1>2, <1>3 DEF Magnitude
<1>5. PICK q \in Nat, c \in 0..9 : q = h \div 10 /\ h = 10 * q + c
  <2>1. 10 \in Nat \ {0} /\ h \in Nat /\ h \in Int
    OBVIOUS
  <2>2. h \div 10 \in Nat /\ h = (10 * (h \div 10)) + (h % 10)
    BY <2>1, DivMod
  <2>3. h % 10 \in 0..(10 - 1)
    BY <2>1, ModRange
  <2>4. QED BY <2>2, <2>3
<1>6. Remainder(MIN, 10) = -c
  <2>1. ~(-h >= 0)
    BY <1>2
  <2>2. Quotient(-h, 10) = -q
    BY <1>2, <1>5, <2>1 DEF Quotient
  <2>3. (-h) - 10 * (-q) = -c
    BY <1>5
  <2>4. QED BY <1>2, <2>2, <2>3 DEF Remainder
<1>7. Digits(MIN, 10) = <<Remainder(MIN, 10)>>
  BY <1>2 DEF Digits
<1>8. QED BY <1>4, <1>6, <1>7

\* Its field reads as nothing: the character is a zero, or none of the digits.
LEMMA LeastReads ==
  ASSUME NEW c \in -9..0, NEW w \in Nat, NEW pad \in {Space, 0}
  PROVE  atoi(Padding(1, w, pad) \o <<c>>) = 0
<1>0. PICK ds : ds = <<c>>
  OBVIOUS
<1>1. ds \in Seq(Int) /\ Len(ds) = 1 /\ ds[1] = c
  BY <1>0
<1>2. PICK k \in Nat : k = PadLen(1, w)
  <2>1. PadLen(1, w) \in Nat
    BY DEF PadLen
  <2>2. QED BY <2>1
<1>3. PICK t : t = Padding(1, w, pad) \o ds
  OBVIOUS
<1>4. /\ t \in Seq(Int) /\ Len(t) = k + 1
      /\ \A i \in 1..k : t[i] = pad
      /\ t[k + 1] = c
  <2>1. Field(t, k, ds, pad)
    BY <1>1, <1>2, <1>3, FieldIs
  <2>2. QED BY <1>1, <2>1 DEF Field
<1>5. CASE c = 0
  <2>1. ds \in Seq(0..9) /\ Len(ds) > 0
    BY <1>0, <1>5
  <2>2. atoi(t) = Number(ds, 10)
    BY <1>1, <1>3, <2>1, AtoiReads
  <2>3. Number(ds, 10) = 0
    <3>1. << >> \in Seq(Nat) /\ ds \in Seq(Nat) /\ 10 \in Nat /\ 1 \in Nat
          /\ Len(<< >>) = 0 /\ Len(ds) = 1 + Len(<< >>)
      BY <1>1, <2>1
    <3>2. /\ \A i \in 1..1 : ds[i] = 0
          /\ \A i \in 1..Len(<< >>) : ds[1 + i] = << >>[i]
      BY <1>1, <1>5, <3>1
    <3>3. Number(ds, 10) = Number(<< >>, 10)
      BY <3>1, <3>2, NumberPadded
    <3>4. QED BY <3>1, <3>3, NumberEmpty
  <2>4. QED BY <1>0, <1>3, <2>2, <2>3
<1>6. CASE c # 0
  <2>0. c \notin 0..9 /\ c \notin {Space}
    BY <1>6 DEF Space
  <2>1. CASE pad = Space
    <3>1. Past(t, {Space}) = k + 1
      <4>1. PICK l \in Nat : l = k + 1
        OBVIOUS
      <4>2. k + 1 \in 1..(l + 1) /\ (k + 1) - 1 = k
        BY <4>1
      <4>3. \A j \in 1..k : t[j] \in {Space}
        BY <1>4, <2>1
      <4>4. QED BY <1>4, <2>0, <4>1, <4>2, <4>3, PastIs
    <3>2. Skipped(t) = SubSeq(t, k + 1, k + 1)
      BY <1>4, <3>1 DEF Skipped
    <3>3. PICK u : u = SubSeq(t, k + 1, k + 1)
      OBVIOUS
    <3>4. u \in Seq(Int) /\ Len(u) = 1 /\ u[1] = c
      BY <1>4, <3>3
    <3>5. Past(u, 0..9) = 1
      <4>1. 1 \in Nat /\ 1 \in 1..(1 + 1) /\ \A j \in 1..(1 - 1) : u[j] \in 0..9
        OBVIOUS
      <4>2. QED BY <2>0, <3>4, <4>1, PastIs
    <3>6. SubSeq(u, 1, 1 - 1) = << >>
      BY <3>4
    <3>7. atoi(t) = Number(SubSeq(u, 1, Past(u, 0..9) - 1), 10)
      BY <3>2, <3>3 DEF atoi
    <3>8. Number(<< >>, 10) = 0
      BY NumberEmpty
    <3>9. QED BY <1>0, <1>3, <3>5, <3>6, <3>7, <3>8
  <2>2. CASE pad = 0
    <3>1. Past(t, {Space}) = 1
      <4>1. PICK l \in Nat : l = k + 1
        OBVIOUS
      <4>2. 1 \in 1..(l + 1) /\ \A j \in 1..(1 - 1) : t[j] \in {Space}
        BY <4>1
      <4>3. t[1] \notin {Space}
        <5>1. CASE k = 0
          BY <1>4, <2>0, <5>1
        <5>2. CASE k # 0
          <6>1. 1 \in 1..k
            BY <5>2
          <6>2. QED BY <1>4, <2>2, <6>1 DEF Space
        <5>3. QED BY <5>1, <5>2
      <4>4. QED BY <1>4, <4>1, <4>2, <4>3, PastIs
    <3>2. Skipped(t) = t
      <4>1. Skipped(t) = SubSeq(t, 1, Len(t))
        BY <3>1 DEF Skipped
      <4>2. SubSeq(t, 1, Len(t)) = t
        BY <1>4
      <4>3. QED BY <4>1, <4>2
    <3>3. Past(t, 0..9) = k + 1
      <4>1. PICK l \in Nat : l = k + 1
        OBVIOUS
      <4>2. k + 1 \in 1..(l + 1) /\ (k + 1) - 1 = k
        BY <4>1
      <4>3. \A j \in 1..k : t[j] \in 0..9
        BY <1>4, <2>2
      <4>4. QED BY <1>4, <2>0, <4>1, <4>2, <4>3, PastIs
    <3>4. PICK u : u = SubSeq(t, 1, k)
      OBVIOUS
    <3>5. u \in Seq(Nat) /\ Len(u) = k /\ \A i \in 1..k : u[i] = 0
      <4>1. u = [i \in 1..k |-> t[i]]
        BY <1>4, <3>4
      <4>2. \A i \in 1..k : t[i] = 0
        BY <1>4, <2>2
      <4>3. u = [i \in 1..k |-> 0]
        BY <4>1, <4>2
      <4>4. QED BY <4>3
    <3>6. Number(u, 10) = 0
      <4>1. << >> \in Seq(Nat) /\ 10 \in Nat /\ Len(<< >>) = 0 /\ Len(u) = k + Len(<< >>)
        BY <3>5
      <4>2. \A i \in 1..Len(<< >>) : u[k + i] = << >>[i]
        BY <4>1
      <4>3. Number(u, 10) = Number(<< >>, 10)
        BY <3>5, <4>1, <4>2, NumberPadded
      <4>4. QED BY <4>1, <4>3, NumberEmpty
    <3>7. atoi(t) = Number(SubSeq(t, 1, Past(t, 0..9) - 1), 10)
      BY <3>2 DEF atoi
    <3>8. (k + 1) - 1 = k
      OBVIOUS
    <3>9. QED BY <1>0, <1>3, <3>3, <3>4, <3>6, <3>7, <3>8
  <2>3. QED BY <2>1, <2>2
<1>7. QED BY <1>5, <1>6

Formats == [conv : {"d", "x"}, pad : {Space, 0}, width : 0..MaxWidth]

\* The digits of v for %d, in a field: they read as its magnitude, or as nothing.
DigitsOf(v, w, pad, ds) ==
  /\ ds = Digits(Magnitude(v), 10) /\ Len(ds) > 0 /\ (Len(ds) = 1 \/ ds[1] # 0)
  /\ atoi(Padding(Len(ds), w, pad) \o ds) = IF v = MIN THEN 0 ELSE IF v < 0 THEN -v ELSE v

LEMMA DecimalDigits ==
  ASSUME NEW v \in Ints, NEW w \in Nat, NEW pad \in {Space, 0}
  PROVE  \E ds \in Seq(Int) : DigitsOf(v, w, pad, ds)
<1>1. CASE v = MIN
  <2>1. PICK c \in -9..0 : Digits(MIN, 10) = <<c>>
    BY LeastDigits
  <2>2. PICK ds : ds = <<c>>
    OBVIOUS
  <2>3. ds \in Seq(Int) /\ Len(ds) = 1
    BY <2>2
  <2>4. atoi(Padding(Len(ds), w, pad) \o ds) = 0
    BY <2>2, <2>3, LeastReads
  <2>5. ds = Digits(Magnitude(v), 10)
    BY <1>1, <2>1, <2>2, LeastDigits
  <2>6. DigitsOf(v, w, pad, ds)
    BY <1>1, <2>3, <2>4, <2>5 DEF DigitsOf
  <2>7. QED BY <2>3, <2>6
<1>2. CASE v # MIN
  <2>1. PICK m \in Nat : m = Magnitude(v) /\ m = IF v < 0 THEN -v ELSE v
    BY <1>2, MagnitudeIs
  <2>2. PICK ds : ds = Digits(m, 10)
    OBVIOUS
  <2>3. /\ ds \in Seq(0..9) /\ Len(ds) > 0 /\ Number(ds, 10) = m
        /\ IF m = 0 THEN Len(ds) = 1 ELSE ds[1] # 0
    <3>1. 10 \in Nat /\ 10 > 1 /\ 0..(10 - 1) = 0..9
      OBVIOUS
    <3>2. QED BY <2>2, <3>1, DigitsRight
  <2>4. atoi(Padding(Len(ds), w, pad) \o ds) = m
    BY <2>3, AtoiReads
  <2>5. ds \in Seq(Int) /\ (Len(ds) = 1 \/ ds[1] # 0)
    BY <2>3
  <2>6. ds = Digits(Magnitude(v), 10) /\ Len(ds) > 0
    BY <2>1, <2>2, <2>3
  <2>7. atoi(Padding(Len(ds), w, pad) \o ds) = IF v = MIN THEN 0 ELSE IF v < 0 THEN -v ELSE v
    BY <1>2, <2>1, <2>4, Zenon
  <2>8. DigitsOf(v, w, pad, ds)
    BY <2>5, <2>6, <2>7 DEF DigitsOf
  <2>9. QED BY <2>5, <2>8
<1>3. QED BY <1>1, <1>2

\* What %d writes,
LEMMA DecimalRight ==
  ASSUME NEW v \in Ints, NEW w \in Nat, NEW pad \in {Space, 0}
  PROVE  LET d == Decimal(v, pad, w)
         IN  /\ v >= 0 => atoi(d) = v /\ FillsField(d, w)
             /\ v < 0 => /\ d[1] = Minus
                         /\ atoi(Tail(d)) = IF v = MIN THEN 0 ELSE -v
                         /\ FillsField(Tail(d), w)
<1>0. v \in Int /\ (v >= 0 => v # MIN)
  BY HalfAssumption DEF Ints, MIN
<1>1. PICK ds \in Seq(Int) :
        /\ ds = Digits(Magnitude(v), 10) /\ Len(ds) > 0 /\ (Len(ds) = 1 \/ ds[1] # 0)
        /\ atoi(Padding(Len(ds), w, pad) \o ds) =
             IF v = MIN THEN 0 ELSE IF v < 0 THEN -v ELSE v
  BY DecimalDigits DEF DigitsOf
<1>2. PICK p : p = Padding(Len(ds), w, pad)
  OBVIOUS
<1>3. PICK t : t = p \o ds
  OBVIOUS
<1>4. atoi(t) = IF v = MIN THEN 0 ELSE IF v < 0 THEN -v ELSE v
  BY <1>1, <1>2, <1>3
<1>5. t \in Seq(Int) /\ FillsField(t, w)
  <2>1. Field(t, PadLen(Len(ds), w), ds, pad)
    BY <1>2, <1>3, FieldIs
  <2>2. t \in Seq(Int)
    BY <2>1, Zenon DEF Field
  <2>3. FillsField(t, w)
    BY <1>1, <2>1, FieldFits
  <2>4. QED BY <2>2, <2>3
<1>6. p \in Seq(Int)
  <2>1. pad \in Int /\ Len(ds) \in Nat
    BY DEF Space
  <2>2. PICK k \in Nat : k = PadLen(Len(ds), w)
    <3>1. PadLen(Len(ds), w) \in Nat
      BY <2>1 DEF PadLen
    <3>2. QED BY <3>1
  <2>3. p = [i \in 1..k |-> pad]
    BY <1>2, <2>2 DEF Padding, PadLen
  <2>4. QED BY <2>1, <2>3
<1>7. CASE v >= 0
  <2>0. ~(v < 0)
    BY <1>0, <1>7
  <2>1. Decimal(v, pad, w) = (<< >> \o p) \o ds
    BY <1>1, <1>2, <2>0 DEF Decimal
  <2>2. << >> \o p = p
    BY <1>6
  <2>3. Decimal(v, pad, w) = t
    BY <1>3, <2>1, <2>2
  <2>4. atoi(t) = v
    BY <1>0, <1>4, <1>7, <2>0
  <2>5. QED BY <1>5, <2>0, <2>3, <2>4
<1>8. CASE v < 0
  <2>1. PICK d : d = Decimal(v, pad, w)
    OBVIOUS
  <2>2. d = (<<Minus>> \o p) \o ds
    BY <1>1, <1>2, <1>8, <2>1 DEF Decimal
  <2>3. d = <<Minus>> \o t
    <3>1. \A a, b, c \in Seq(Int) : (a \o b) \o c = a \o (b \o c)
      OBVIOUS
    <3>2. <<Minus>> \in Seq(Int)
      BY DEF Minus
    <3>3. QED BY <1>3, <1>6, <2>2, <3>1, <3>2, Zenon
  <2>4. d[1] = Minus /\ Tail(d) = t
    <3>1. \A x \in Int, a \in Seq(Int) : (<<x>> \o a)[1] = x /\ Tail(<<x>> \o a) = a
      OBVIOUS
    <3>2. Minus \in Int
      BY DEF Minus
    <3>3. QED BY <1>5, <2>3, <3>1, <3>2
  <2>5. atoi(t) = IF v = MIN THEN 0 ELSE -v
    BY <1>4, <1>8
  <2>6. ~(v >= 0)
    BY <1>0, <1>8
  <2>7. QED BY <1>5, <2>1, <2>4, <2>5, <2>6, Zenon
<1>9. QED BY <1>0, <1>7, <1>8

\* and %x.
LEMMA HexRight ==
  ASSUME NEW v \in Ints, NEW w \in Nat, NEW pad \in {Space, 0}
  PROVE  LET t == Hex(v, pad, w)
             u == Skipped(t)
         IN  /\ \A i \in DOMAIN u : u[i] \in 0..15
             /\ Number(u, 16) = v % Modulus
             /\ FillsField(t, w)
<1>1. PICK m \in Nat : m = Unsigned(v) /\ m = v % Modulus
  <2>1. v \in Int /\ Modulus \in Nat \ {0}
    BY HalfAssumption DEF Ints, MIN, Modulus
  <2>2. (v % Modulus) \in Nat
    BY <2>1, ModRange
  <2>3. QED BY <2>2 DEF Unsigned
<1>2. PICK ds : ds = Digits(m, 16)
  OBVIOUS
<1>3. 16 \in Nat /\ 16 > 1 /\ 0..(16 - 1) = 0..15
  OBVIOUS
<1>4. /\ ds \in Seq(0..15) /\ Len(ds) > 0 /\ Number(ds, 16) = m
      /\ IF m = 0 THEN Len(ds) = 1 ELSE ds[1] # 0
  BY <1>2, <1>3, DigitsRight
<1>5. PICK t : t = Padding(Len(ds), w, pad) \o ds
  OBVIOUS
<1>6. Hex(v, pad, w) = t
  BY <1>1, <1>2, <1>5 DEF Hex, Nibbles
<1>7. PICK u : u = Skipped(t)
  OBVIOUS
<1>8. u \in Seq(0..15) /\ Number(u, 16) = m
  BY <1>3, <1>4, <1>5, <1>7, FieldReads
<1>9. \A i \in DOMAIN u : u[i] \in 0..15
  BY <1>8
<1>10. FillsField(t, w)
  <2>1. ds \in Seq(Int) /\ (Len(ds) = 1 \/ ds[1] # 0)
    BY <1>4
  <2>2. Field(t, PadLen(Len(ds), w), ds, pad)
    BY <1>5, <2>1, FieldIs
  <2>3. QED BY <1>4, <2>1, <2>2, FieldFits
<1>11. QED BY <1>1, <1>6, <1>7, <1>8, <1>9, <1>10

\* One conversion is one step, from an empty buffer.
PrintfInv ==
  /\ fmt \in Formats /\ value \in Ints
  /\ out # << >> => out = IF fmt.conv = "d" THEN Decimal(value, fmt.pad, fmt.width)
                          ELSE Hex(value, fmt.pad, fmt.width)

LEMMA PrintfInvPrints ==
  ASSUME PrintfInv
  PROVE  PrintsNumber
<1> SUFFICES ASSUME out # << >> PROVE PrintsNumber
  BY DEF PrintsNumber, RoundTrip, SignAndMagnitude, HexIsUnsigned
<1>1. PICK w \in Nat, pad \in {Space, 0} : w = fmt.width /\ pad = fmt.pad
  BY HalfAssumption DEF PrintfInv, Formats
<1>2. value \in Ints
  BY DEF PrintfInv
<1>3. CASE fmt.conv = "d"
  <2>1. out = Decimal(value, pad, w)
    BY <1>1, <1>3 DEF PrintfInv
  <2>2. /\ value >= 0 => atoi(out) = value /\ FillsField(out, w)
        /\ value < 0 => /\ out[1] = Minus
                        /\ atoi(Tail(out)) = IF value = MIN THEN 0 ELSE -value
                        /\ FillsField(Tail(out), w)
    BY <1>2, <2>1, DecimalRight
  <2>3. QED BY <1>1, <1>3, <2>2 DEF PrintsNumber, RoundTrip, SignAndMagnitude, HexIsUnsigned
<1>4. CASE fmt.conv # "d"
  <2>1. out = Hex(value, pad, w)
    BY <1>1, <1>4 DEF PrintfInv
  <2>2. /\ \A i \in DOMAIN Skipped(out) : Skipped(out)[i] \in 0..15
        /\ Number(Skipped(out), 16) = value % Modulus
        /\ FillsField(out, w)
    BY <1>2, <2>1, HexRight
  <2>3. QED BY <1>1, <1>4, <2>2 DEF PrintsNumber, RoundTrip, SignAndMagnitude, HexIsUnsigned
<1>5. QED BY <1>3, <1>4

(* Whatever the width of a word, the field width and the padding, reading  *)
(* back what vsprintf writes of a number gives that number: %d by atoi,    *)
(* for all but the least, whose text reads as 0, and %x as an unsigned     *)
(* one; the field is as wide as asked for, the sign not counted (stdio.c,  *)
(* stdlib.c).                                                              *)
THEOREM NumbersArePrinted == PrintfSpec => []PrintsNumber
<1>1. PrintfInit => PrintfInv
  BY DEF PrintfInit, PrintfInv, Formats
<1>2. PrintfInv /\ [vsprintf]_printfVars => PrintfInv'
  BY DEF PrintfInv, vsprintf, printfVars
<1>3. PrintfInv => PrintsNumber
  BY PrintfInvPrints
<1>4. QED BY <1>1, <1>2, <1>3, PTL DEF PrintfSpec
=============================================================================
