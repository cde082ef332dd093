----------------------------- MODULE MCReliable -----------------------------
(* Instances of Reliable for TLC.                                          *)
EXTENDS Reliable
=============================================================================
