------------------------------- MODULE MCSim -------------------------------
(***************************************************************************)
(* Instances of SimLoop for TLC: 4-bit words and a memory of four words.   *)
(***************************************************************************)
EXTENDS SimLoop, Datapath

MCReg   == 0..1
MCAddrs == {a \in Words : a % 4 = 0}
=============================================================================
