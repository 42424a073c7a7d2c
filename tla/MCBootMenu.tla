----------------------------- MODULE MCBootMenu -----------------------------
(***************************************************************************)
(* BootMenu with three options, as kernel_options has, a timeout of two     *)
(* seconds and a few ticks to the second.  The counters keep their          *)
(* proportions: a 64-bit one never wraps, a 32-bit one outlasts the timeout *)
(* a few times and may start anywhere, the RP2040's SysTick wraps several   *)
(* times a second.                                                          *)
(***************************************************************************)
EXTENDS BootMenu

AllCounts == 0 .. CounterMod - 1
=============================================================================
