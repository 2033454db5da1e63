------------------------------ MODULE MCNetwork ------------------------------
(* Instance of Network for TLC.                                               *)
EXTENDS Network

CONSTANTS s1, s2, netA, netB, c1, c2
=============================================================================
