-------------------------------- MODULE LSU --------------------------------
(***************************************************************************)
(* Load/store unit (core/src/LSU.v), the data cache port                   *)
(* (core/src/L1_cache.v) and the memory behind it (pmem_read and           *)
(* pmem_write of core/csrc/memory.cpp).  The cache keeps no data: it       *)
(* answers a request in the cycle its LFSR says "hit".  cache_hit is that  *)
(* bit, chosen by the environment in every cycle; module Lfsr has the      *)
(* generator itself.                                                       *)
(***************************************************************************)
EXTENDS Macro

VARIABLES
  lsu_state,          \* "IDLE" or "WAITING"
  pending,            \* the request saved on a miss
  lsu_wbu,            \* the LSU/WBU register
  pmem                \* data memory

LSUVars == <<lsu_state, pending, lsu_wbu, pmem>>

LSUTypeOK ==
  /\ lsu_state \in {"IDLE", "WAITING"}
  /\ pending \in [wen : BOOLEAN, addr : Word, wdata : Word, wmask : Lanes,
                  size : Size, rd : Reg, uload : BOOLEAN]
  /\ lsu_wbu \in [valid : BOOLEAN, data : Word, rd : Reg, wen : BOOLEAN,
                  pc : Word, ebreak : BOOLEAN]
  /\ pmem \in [MemAddr -> Word]

NoPending == [wen |-> FALSE, addr |-> Zero, wdata |-> Zero, wmask |-> {},
              size |-> "BYTE", rd |-> X0, uload |-> FALSE]

NoLsuWbu(keep_pc, ebreak) ==
  [valid |-> FALSE, data |-> Zero, rd |-> X0, wen |-> FALSE, pc |-> keep_pc,
   ebreak |-> ebreak]

LSUInit ==
  /\ lsu_state = "IDLE"
  /\ pending = NoPending
  /\ lsu_wbu = NoLsuWbu(Zero, FALSE)

----------------------------------------------------------------------------
\* The request EX/LSU presents: what is saved on a miss.
request(ex_lsu) ==
  LET write == ex_lsu.valid /\ ex_lsu.ctrl = "WRITE"
  IN  [wen   |-> write,
       addr  |-> ex_lsu.addr,
       wdata |-> IF write THEN StoreData(ex_lsu.size, ex_lsu.addr, ex_lsu.data)
                          ELSE ex_lsu.data,
       wmask |-> IF write THEN StoreMask(ex_lsu.size, ex_lsu.addr) ELSE {},
       size  |-> ex_lsu.size,
       rd    |-> ex_lsu.wb_rd,
       uload |-> ex_lsu.uload]

\* The request on the cache port: the saved one while waiting.
cache_request(ex_lsu) ==
  IF lsu_state = "WAITING" THEN pending ELSE request(ex_lsu)

lsu_cache_valid(ex_lsu) ==
  lsu_state = "WAITING" \/ (ex_lsu.valid /\ ex_lsu.ctrl # "NONE")

\* L1_cache: hit is only raised for a valid request
cache_lsu_hit(ex_lsu, cache_hit) == cache_hit /\ lsu_cache_valid(ex_lsu)

lsu_ex_ready(ex_lsu, hit) ==
  \/ lsu_state = "IDLE" /\ ex_lsu.ctrl = "NONE"
  \/ lsu_state = "IDLE" /\ ex_lsu.valid /\ ex_lsu.ctrl # "NONE" /\ hit
  \/ lsu_state = "WAITING" /\ hit

cache_lsu_rdata(req) == ReadLanes(req.size, req.addr, pmem[WordAddr(req.addr)])

wb_data(ex_lsu, hit) ==
  LET req == cache_request(ex_lsu)
  IN  IF hit /\ ~req.wen
      THEN Extend(req.size, req.uload, cache_lsu_rdata(req))
      ELSE ex_lsu.wb_data

----------------------------------------------------------------------------
\* Mutation of Miss: every access is saved and issued again.
Miss_always(ex_lsu, hit) ==
  lsu_state = "IDLE" /\ ex_lsu.valid /\ ex_lsu.ctrl # "NONE"

\* The case statement of the state machine.
Miss(ex_lsu, hit) ==
  lsu_state = "IDLE" /\ ex_lsu.valid /\ ex_lsu.ctrl # "NONE" /\ ~hit

\* An instruction leaves for WBU, from EX/LSU or from the pending request.
Answer(ex_lsu, hit) ==
  \/ lsu_state = "IDLE" /\ ex_lsu.valid /\ ~Miss(ex_lsu, hit)
  \/ lsu_state = "WAITING" /\ hit

next_lsu_state(ex_lsu, hit) ==
  CASE Miss(ex_lsu, hit)   -> "WAITING"
    [] Answer(ex_lsu, hit) -> "IDLE"
    [] OTHER               -> lsu_state

next_pending(ex_lsu, hit) ==
  CASE Miss(ex_lsu, hit)               -> request(ex_lsu)
    [] lsu_state = "WAITING" /\ hit    -> NoPending
    [] OTHER                           -> pending

next_lsu_wbu(ex_lsu, hit) ==
  IF Answer(ex_lsu, hit)
  THEN [valid  |-> TRUE,
        data   |-> wb_data(ex_lsu, hit),
        rd     |-> IF lsu_state = "IDLE" THEN ex_lsu.wb_rd ELSE pending.rd,
        wen    |-> IF lsu_state = "IDLE" THEN ex_lsu.wb_wen ELSE ~pending.wen,
        pc     |-> ex_lsu.pc,
        ebreak |-> ex_lsu.ebreak]
  ELSE NoLsuWbu(lsu_wbu.pc, ex_lsu.ebreak)

\* L1_cache calls pmem_write on a write hit.
next_pmem(ex_lsu, hit) ==
  LET req == cache_request(ex_lsu)
  IN  IF hit /\ req.wen
      THEN [pmem EXCEPT ![WordAddr(req.addr)] =
                           MergeBytes(@, req.wdata, req.wmask)]
      ELSE pmem

LSUTick(ex_lsu, hit) ==
  /\ lsu_state' = next_lsu_state(ex_lsu, hit)
  /\ pending' = next_pending(ex_lsu, hit)
  /\ lsu_wbu' = next_lsu_wbu(ex_lsu, hit)
  /\ pmem' = next_pmem(ex_lsu, hit)
=============================================================================
