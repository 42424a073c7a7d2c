---------------------------- MODULE MCSoftFloat -----------------------------
(***************************************************************************)
(* SoftFloat on the integers every loop of the loader counts with.  The      *)
(* format is that of the library's run: a mantissa of five bits, with halves *)
(* of five bits, so that a product has two.                                  *)
(***************************************************************************)
EXTENDS SoftFloat

SmallIntegers == {FromInteger(n) : n \in -9 .. 9}
=============================================================================
