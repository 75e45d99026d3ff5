------------------------------- MODULE MCCpu -------------------------------
(* Instances of Cpu for TLC: every constant is given in the .cfg files.     *)
EXTENDS CpuRefinement
=============================================================================
