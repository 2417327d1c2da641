------------------------------- MODULE MCFork -------------------------------
(* Constants of Fork for TLC: those of Threadstat. *)
EXTENDS Fork, MCThreadstat
=============================================================================
