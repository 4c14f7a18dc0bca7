------------------------------- MODULE MCCroton -------------------------------
(* Croton for TLC: one task of two little tasks, the first of which starts  *)
(* at position 0 and cannot be downloaded; slave 1 may take it for done,    *)
(* by what its memory holds.                                               *)
EXTENDS Croton

MCFragments == <<2>>

MCUnclean == {<<1, <<1, 0>>>>}
===============================================================================
