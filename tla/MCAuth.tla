-------------------------------- MODULE MCAuth --------------------------------
(***************************************************************************)
(* Instances of Auth for TLC.                                              *)
(***************************************************************************)
EXTENDS Auth, TLC

CONSTANTS w1, w2, w3, a1, p1, p2, bad, d1, d2
===============================================================================
