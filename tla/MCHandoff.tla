----------------------------- MODULE MCHandoff ------------------------------
(***************************************************************************)
(* Handoff on a 32-bit heap that has room for the structure and for a        *)
(* command line of three words, with numbers that tell the fields apart and  *)
(* lie outside the heap, as NumbersApart has it.                             *)
(***************************************************************************)
EXTENDS Handoff

MCMagic == <<151, 152>>
MCCmdline == <<131, 132, 0>>
=============================================================================
