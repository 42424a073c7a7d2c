----------------------------- MODULE MCAtomics ------------------------------
(***************************************************************************)
(* Atomics with a main program and one handler, an object of two words, and  *)
(* every kind of operation.                                                  *)
(***************************************************************************)
EXTENDS Atomics

V(n) == Digits(n)
R(kind, arg, want, nested) ==
  [kind |-> kind, arg |-> V(arg), want |-> V(want), nested |-> nested]

\* Sums and differences wrap, compare-exchanges succeed and fail, and one has an
\* operand that is an atomic operation.
AllKinds ==
  {R("load", 0, 0, FALSE), R("store", 3, 0, FALSE), R("exchange", 2, 0, FALSE),
   R("add", 1, 0, FALSE), R("sub", 3, 0, FALSE), R("or", 1, 0, FALSE),
   R("xor", 3, 0, FALSE), R("and", 2, 0, FALSE), R("cas", 3, 0, TRUE)}
=============================================================================
