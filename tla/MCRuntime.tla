----------------------------- MODULE MCRuntime -----------------------------
(***************************************************************************)
(* Runtime ports and what runs on them, for TLC: the threads of yield-os   *)
(* on the core, the address spaces and the keyboard of the native port,    *)
(* the console of the Spike port, and the typing game.  They share no      *)
(* variable, so each is explored alone: part is the one that moves.        *)
(***************************************************************************)
EXTENDS Cte, Vme, KeyQueue, Htif, TypingGame

VARIABLE part

runtimeVars == <<part, cteVars, vmeVars, keyVars, htifVars, gameVars>>

RuntimeInit ==
  /\ part \in {"yield", "vme", "keys", "htif", "game"}
  /\ CteInit /\ VmeInit /\ KeyInit /\ HtifInit /\ GameInit
  /\ part # "htif" => xlen = 64

YieldOs == /\ part = "yield" /\ CteNext
           /\ UNCHANGED <<part, vmeVars, keyVars, htifVars, gameVars>>
Spaces  == /\ part = "vme" /\ VmeNext
           /\ UNCHANGED <<part, cteVars, keyVars, htifVars, gameVars>>
Keys    == /\ part = "keys" /\ KeyNext
           /\ UNCHANGED <<part, cteVars, vmeVars, htifVars, gameVars>>
Console == /\ part = "htif" /\ HtifNext
           /\ UNCHANGED <<part, cteVars, vmeVars, keyVars, gameVars>>
Typing  == /\ part = "game" /\ GameNext
           /\ UNCHANGED <<part, cteVars, vmeVars, keyVars, htifVars>>

(* The fairness of each part, while it is the one that moves. *)
RuntimeSpec ==
  /\ RuntimeInit
  /\ [][YieldOs \/ Spaces \/ Keys \/ Console \/ Typing]_runtimeVars
  /\ WF_cteVars(part = "yield" /\ CteNext)
  /\ \A c \in CPU : WF_vmeVars(part = "vme" /\ SwitchStep(c))
  /\ WF_htifVars(part = "htif" /\ InCall)
  /\ WF_htifVars(part = "htif" /\ Serve)
  /\ WF_htifVars(part = "htif" /\ Reply)

(* In yield-os, both threads print again and again (BothPrint of Cte).     *)
YieldBothPrint == part = "yield" => BothPrint
=============================================================================
