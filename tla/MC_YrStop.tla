------------------------------ MODULE MC_YrStop ------------------------------
(***************************************************************************)
(* The instance of YrStop for TLC: the node of MC_StopProcesses, and the   *)
(* spinner's row of dots clearing after RepeatCount of them.                *)
(***************************************************************************)
EXTENDS YrStop, MC_StopProcesses
=============================================================================
