-------------------------------- MODULE Heap --------------------------------
(***************************************************************************)
(* The two allocators of guest programs, both of which only move a pointer *)
(* up the heap: malloc of klib/src/stdlib.c, whose blocks stay for good,   *)
(* and bench_alloc of microbench/src/bench.c, which hands out zeroed       *)
(* memory and starts again with every benchmark.  Addresses have the width *)
(* of the machine: AddressSpace is 2^XLEN.                                 *)
(***************************************************************************)
EXTENDS Naturals, Sequences

CONSTANTS
  AddressSpace,
  HeapStart, HeapEnd, \* heap.start, aligned by the linker script, and heap.end
  mlim,               \* memory limit of the benchmark's setting
  Sizes,              \* the sizes asked for
  MaxBlocks           \* bound on the blocks of a run

ASSUME HeapAssumption ==
  /\ {AddressSpace, HeapStart, HeapEnd, mlim, MaxBlocks} \subseteq Nat
  /\ HeapStart < HeapEnd /\ HeapEnd < AddressSpace
  /\ Sizes \subseteq 0..(AddressSpace - 1)
  /\ HeapStart % 8 = 0 /\ AddressSpace % 8 = 0

VARIABLES
  bench,              \* the program is microbench, and calls bench_alloc only
  addr,               \* malloc's pointer
  blocks,             \* the blocks malloc returned, in order
  hbrk,               \* bench_alloc's pointer
  arena,              \* the blocks bench_alloc returned since bench_reset
  dirty,              \* words of the heap that are not zero
  wrapped,            \* a size or a sum has left the address space
  aborted             \* an assertion of bench_alloc failed

heapVars == <<bench, addr, blocks, hbrk, arena, dirty, wrapped, aborted>>

HeapInit ==
  /\ bench \in BOOLEAN
  /\ addr = HeapStart
  /\ blocks = << >>
  /\ hbrk = HeapStart
  /\ arena = << >>
  /\ dirty \in {{}, {HeapStart}}     \* memory is not cleared before main
  /\ wrapped = FALSE
  /\ aborted = FALSE

----------------------------------------------------------------------------
\* Mutation of ROUNDUP: rounds down.
ROUNDUP_down(n) == (n \div 8) * 8

ROUNDUP(n) == (((n + 7) % AddressSpace) \div 8) * 8

Wraps(p, n) == n + 7 >= AddressSpace \/ p + ROUNDUP(n) >= AddressSpace

Words(p, n) == {w \in HeapStart..(HeapEnd - 1) : w % 8 = 0 /\ p <= w /\ w < p + n}

\* size bytes; a block that does not fit is refused and changes nothing.
malloc(size) ==
  LET top == (addr + ROUNDUP(size)) % AddressSpace
  IN  /\ ~bench
      /\ Len(blocks) < MaxBlocks
      /\ wrapped' = (wrapped \/ Wraps(addr, size))
      /\ IF top > HeapEnd
         THEN UNCHANGED <<addr, blocks>>
         ELSE /\ blocks' = Append(blocks, [start |-> addr, size |-> size])
              /\ addr' = top
      /\ UNCHANGED <<bench, hbrk, arena, dirty, aborted>>

\* Mutation of bench_alloc: relies on memory that is zero at the start.
bench_alloc_unzeroed(size) ==
  LET n == ROUNDUP(size)
      top == (hbrk + n) % AddressSpace
  IN  /\ bench /\ ~aborted
      /\ Len(arena) < MaxBlocks
      /\ wrapped' = (wrapped \/ Wraps(hbrk, size))
      /\ hbrk' = top
      /\ IF hbrk <= top /\ HeapStart <= top /\ top < HeapEnd /\ top - HeapStart <= mlim
         THEN /\ arena' = Append(arena, [start |-> hbrk, size |-> size])
              /\ UNCHANGED aborted
         ELSE aborted' = TRUE /\ UNCHANGED arena
      /\ UNCHANGED <<bench, addr, blocks, dirty>>

\* The pointer moves before it is checked, and the limit is checked after the
\* loop that zeroes the block; below hbrk the loop runs off the heap.
bench_alloc(size) ==
  LET n == ROUNDUP(size)
      top == (hbrk + n) % AddressSpace
      inside == hbrk <= top /\ HeapStart <= top /\ top < HeapEnd
  IN  /\ bench /\ ~aborted
      /\ Len(arena) < MaxBlocks
      /\ wrapped' = (wrapped \/ Wraps(hbrk, size))
      /\ hbrk' = top
      /\ dirty' = IF inside THEN dirty \ Words(hbrk, n) ELSE dirty
      /\ IF inside /\ top - HeapStart <= mlim
         THEN /\ arena' = Append(arena, [start |-> hbrk, size |-> size])
              /\ UNCHANGED aborted
         ELSE aborted' = TRUE /\ UNCHANGED arena
      /\ UNCHANGED <<bench, addr, blocks>>

\* run_once, before the next benchmark prepares its data.
bench_reset ==
  /\ bench /\ ~aborted
  /\ hbrk' = ROUNDUP(HeapStart)
  /\ arena' = << >>
  /\ UNCHANGED <<bench, addr, blocks, dirty, wrapped, aborted>>

\* The benchmark fills one of its blocks.
Use(i) ==
  /\ ~aborted
  /\ dirty' = dirty \cup Words(arena[i].start, arena[i].size)
  /\ UNCHANGED <<bench, addr, blocks, hbrk, arena, wrapped, aborted>>

HeapNext ==
  \/ \E n \in Sizes : malloc(n) \/ bench_alloc(n)
  \/ bench_reset
  \/ \E i \in DOMAIN arena : Use(i)

HeapSpec == HeapInit /\ [][HeapNext]_heapVars

----------------------------------------------------------------------------
Apart(bs) ==
  \A i, j \in DOMAIN bs : i < j => bs[i].start + bs[i].size <= bs[j].start

Inside(bs) ==
  \A i \in DOMAIN bs : HeapStart <= bs[i].start /\ bs[i].start + bs[i].size <= HeapEnd

(* malloc returns blocks inside the heap that do not overlap, whatever was *)
(* refused in between, as long as no size near 2^XLEN has made the         *)
(* rounding or the sum with the pointer wrap: the code tests neither.      *)
MallocDisjoint == ~wrapped => Apart(blocks) /\ Inside(blocks)

(* So does bench_alloc between two resets.                                 *)
ArenaDisjoint == ~wrapped => Apart(arena) /\ Inside(arena)

(* Blocks of the same heap never overlap, whichever allocator made them.   *)
BlocksDisjoint == MallocDisjoint /\ ArenaDisjoint

(* The block bench_alloc has just returned is zero although an earlier     *)
(* benchmark has filled the same memory.                                   *)
ArenaZeroed ==
  [][Len(arena') > Len(arena) /\ ~wrapped' =>
       Words(arena'[Len(arena')].start, arena'[Len(arena')].size) \cap dirty' = {}]_heapVars
=============================================================================
