------------------------------ MODULE MCExchange ------------------------------
(* The instance of Exchange for TLC.  Its run checks liveness, so it uses  *)
(* no symmetry.                                                            *)
EXTENDS Exchange
=============================================================================
