------------------------------- MODULE MCHeap -------------------------------
(***************************************************************************)
(* Heap on small heaps.  A heap a few blocks long fills up after a handful  *)
(* of calls, so exhaustion, the growth of a block in place and by a move,   *)
(* and the sizes around the 8-byte rounding all happen.  In         *)
(* heap64.cfg no sum wraps, as on the 64-bit builds.                        *)
(***************************************************************************)
EXTENDS Heap

MCCallocArgs == {<<2, 4>>}
=============================================================================
