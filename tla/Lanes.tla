------------------------------- MODULE Lanes -------------------------------
(***************************************************************************)
(* The path of an access through the lanes: LSU shifts the data and makes  *)
(* a mask, pmem_write merges the masked bytes into a word, L1_cache shifts *)
(* the word read, LSU extends it.                                          *)
(***************************************************************************)
EXTENDS Datapath

CONSTANTS
  Accesses,           \* the <<size, address>> pairs in use
  Data                \* the register values stored

\* The naturally aligned ones, which compilers emit.
Aligned == ({"BYTE"} \X (0..3)) \cup ({"HALF"} \X {0, 2}) \cup {<<"WORD", 0>>}

ASSUME AccessAssumption == Accesses \subseteq Aligned /\ Data \subseteq Words

VARIABLES
  word,               \* one word of pmem
  access,             \* the last access: <<kind, size, address, operand>>
  loaded              \* what it wrote back, 0 for a store

LanesInit ==
  /\ word = 0
  /\ access = <<>>
  /\ loaded = 0

Store(size, addr, v) ==
  /\ access' = <<"store", size, addr, v>>
  /\ word' = DMergeBytes(word, DStoreData(size, addr, v), DStoreMask(size, addr))
  /\ loaded' = 0

Load(size, uload, addr) ==
  /\ access' = <<"load", size, addr, uload>>
  /\ loaded' = DExtend(size, uload, DReadLanes(size, addr, word))
  /\ word' = word

LanesNext ==
  \E a \in Accesses :
    \/ \E v \in Data : Store(a[1], a[2], v)
    \/ \E uload \in BOOLEAN : Load(a[1], uload, a[2])

lanesVars == <<word, access, loaded>>

LanesSpec == LanesInit /\ [][LanesNext]_lanesVars

----------------------------------------------------------------------------
Bytes == INSTANCE ByteMemory WITH
           Base <- 2 ^ ByteBits, result <- loaded,
           bytes <- [n \in 0..3 |-> Lane(word, n)]

(* Shifts, masks, merge and extension together are the byte memory of the  *)
(* architecture: a load of any size returns what stores of any sizes left  *)
(* there, and a store touches no byte but its own.                         *)
RefinesByteMemory == Bytes!Spec
=============================================================================
