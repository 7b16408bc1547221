------------------------------ MODULE MCLanes ------------------------------
(***************************************************************************)
(* Lanes on bytes of two bits.  The stored values have four different      *)
(* bytes, in both orders, so that no byte can take another's place.        *)
(***************************************************************************)
EXTENDS Lanes

MCData == {27, 228}                          \* 00 01 10 11 and 11 10 01 00
=============================================================================
