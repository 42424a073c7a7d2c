------------------------------ MODULE Atomics -------------------------------
(***************************************************************************)
(* The C11 atomics of compat/include/stdatomic.h for ARMv6-M (the RP2040),   *)
(* which has no instruction for them: interrupts are masked, the object is   *)
(* read and written, and interrupts are enabled.  The main program and       *)
(* handlers of rising priority share one object of several machine words     *)
(* (an atomic_llong has two).  A word has one bit here.                      *)
(***************************************************************************)
EXTENDS Integers

CONSTANTS
  MaxLevel,       \* the highest priority; 0 is the main program
  NumWords,       \* the words of the object
  Requests        \* the operations called

Levels == 0 .. MaxLevel
Words == 0 .. NumWords - 1
Value == [Words -> {0, 1}]
Blank == [w \in Words |-> 0]
Kinds == {"load", "store", "exchange", "add", "sub", "or", "xor", "and", "cas"}

\* nested: the operand is itself an atomic operation on another object.  Only
\* __sage_cas evaluates it before it masks interrupts.
RequestType == [kind : Kinds, arg : Value, want : Value, nested : BOOLEAN]

ASSUME SizesAssumption == MaxLevel \in Nat /\ NumWords \in Nat \ {0}
ASSUME RequestsAssumption ==
  /\ Requests \subseteq RequestType
  /\ \A r \in Requests : r.nested => r.kind = "cas"

VARIABLES
  mask,     \* whether interrupts are masked (PRIMASK)
  active,   \* the levels begun and not left; the highest one runs
  object,   \* the object, word by word
  pc,       \* where each level is: "idle", or in an operation
  req,      \* the operation it is in
  old,      \* __old
  todo      \* the words it has still to read or to write

vars == <<mask, active, object, pc, req, old, todo>>

-----------------------------------------------------------------------------
(* The operations as functions *)

Number(v) ==
  LET sum[k \in 0 .. NumWords] == IF k = 0 THEN 0 ELSE sum[k - 1] + v[k - 1] * 2 ^ (k - 1)
  IN  sum[NumWords]

Bit(p) == IF p THEN 1 ELSE 0

\* Fault: the highest word takes the carry.
FaultDigits(n) ==
  [w \in Words |-> IF w = NumWords - 1 THEN n \div 2 ^ w ELSE (n \div 2 ^ w) % 2]

\* An integer cut to the width of the object.
Digits(n) == [w \in Words |-> Bit((n \div 2 ^ w) % 2 = 1)]

Or(v, a) == [w \in Words |-> Bit(v[w] = 1 \/ a[w] = 1)]
And(v, a) == [w \in Words |-> Bit(v[w] = 1 /\ a[w] = 1)]
Xor(v, a) == [w \in Words |-> Bit(v[w] # a[w])]

Reads(r) == r.kind # "store"
Writes(r, v) == r.kind # "load" /\ (r.kind = "cas" => v = r.want)

\* What an operation makes of an object that holds v.
After(r, v) ==
  CASE r.kind = "load" -> v
    [] r.kind \in {"store", "exchange"} -> r.arg
    [] r.kind = "add" -> Digits(Number(v) + Number(r.arg))
    [] r.kind = "sub" -> Digits(Number(v) - Number(r.arg))
    [] r.kind = "or" -> Or(v, r.arg)
    [] r.kind = "xor" -> Xor(v, r.arg)
    [] r.kind = "and" -> And(v, r.arg)
    [] r.kind = "cas" -> IF v = r.want THEN r.arg ELSE v

-----------------------------------------------------------------------------
(* Interrupts *)

Runs(l) == l \in active /\ \A k \in active : k <= l

Interrupt(l) ==
  /\ ~mask
  /\ \A k \in active : k < l
  /\ active' = active \cup {l}
  /\ UNCHANGED <<mask, object, pc, req, old, todo>>

LeaveHandler(l) ==
  /\ Runs(l) /\ l # 0 /\ pc[l] = "idle"
  /\ active' = active \ {l}
  /\ UNCHANGED <<mask, object, pc, req, old, todo>>

-----------------------------------------------------------------------------
(* An operation *)

Goto(l, label) == pc' = [pc EXCEPT ![l] = label]

Call(l) ==
  /\ Runs(l) /\ pc[l] = "idle"
  /\ \E r \in Requests :
       /\ req' = [req EXCEPT ![l] = r]
       /\ Goto(l, IF r.kind = "cas" THEN "operand" ELSE "enter")
  /\ old' = [old EXCEPT ![l] = Blank]
  /\ UNCHANGED <<mask, active, object, todo>>

\* Fault: a load is taken for one instruction.
FaultEnter(l) ==
  /\ Runs(l) /\ pc[l] = "enter"
  /\ mask' = (req[l].kind # "load")
  /\ Goto(l, IF Reads(req[l]) THEN "read" ELSE "operand")
  /\ todo' = [todo EXCEPT ![l] = Words]
  /\ UNCHANGED <<active, object, req, old>>

\* __sage_atomic_enter
Enter(l) ==
  /\ Runs(l) /\ pc[l] = "enter"
  /\ mask' = TRUE
  /\ Goto(l, IF Reads(req[l]) THEN "read" ELSE "operand")
  /\ todo' = [todo EXCEPT ![l] = Words]
  /\ UNCHANGED <<active, object, req, old>>

\* The operand is evaluated where the macro names it: before __sage_cas enters,
\* and inside the section of the others.  A nested operation enables interrupts.
EvaluateOperand(l) ==
  /\ Runs(l) /\ pc[l] = "operand"
  /\ mask' = (mask /\ ~req[l].nested)
  /\ Goto(l, IF req[l].kind = "cas" THEN "enter" ELSE "write")
  /\ UNCHANGED <<active, object, req, old, todo>>

\* __old = *(obj), in whatever order the compiler reads the words
ReadWord(l) ==
  /\ Runs(l) /\ pc[l] = "read"
  /\ \E w \in todo[l] :
       /\ old' = [old EXCEPT ![l][w] = object[w]]
       /\ todo' = [todo EXCEPT ![l] = @ \ {w}]
  /\ UNCHANGED <<mask, active, object, pc, req>>

\* A load, and a compare-exchange that fails, have nothing to write.
WasRead(l) ==
  /\ Runs(l) /\ pc[l] = "read" /\ todo[l] = {}
  /\ Goto(l, IF req[l].kind \in {"load", "cas"} THEN "write" ELSE "operand")
  /\ todo' = [todo EXCEPT ![l] = IF Writes(req[l], old[l]) THEN Words ELSE {}]
  /\ UNCHANGED <<mask, active, object, req, old>>

WriteWord(l) ==
  /\ Runs(l) /\ pc[l] = "write"
  /\ \E w \in todo[l] :
       /\ object' = [object EXCEPT ![w] = After(req[l], old[l])[w]]
       /\ todo' = [todo EXCEPT ![l] = @ \ {w}]
  /\ UNCHANGED <<mask, active, pc, req, old>>

\* Fault: a compare-exchange that fails returns before it enables interrupts.
FaultExit(l) ==
  /\ Runs(l) /\ pc[l] = "write" /\ todo[l] = {}
  /\ mask' = (req[l].kind = "cas" /\ ~Writes(req[l], old[l]))
  /\ Goto(l, "return")
  /\ UNCHANGED <<active, object, req, old, todo>>

\* __sage_atomic_exit enables interrupts, whether or not they were before.
Exit(l) ==
  /\ Runs(l) /\ pc[l] = "write" /\ todo[l] = {}
  /\ mask' = FALSE
  /\ Goto(l, "return")
  /\ UNCHANGED <<active, object, req, old, todo>>

\* The value is __old, and of a compare-exchange whether it is what was wanted.
Return(l) ==
  /\ Runs(l) /\ pc[l] = "return"
  /\ Goto(l, "idle")
  /\ UNCHANGED <<mask, active, object, req, old, todo>>

Init ==
  /\ mask = FALSE /\ active = {0}
  /\ object = Blank
  /\ pc = [l \in Levels |-> "idle"]
  /\ req \in [Levels -> Requests]
  /\ old = [l \in Levels |-> Blank]
  /\ todo = [l \in Levels |-> {}]

\* A step of an operation that has been called.
Operate(l) ==
  \/ Enter(l) \/ EvaluateOperand(l) \/ ReadWord(l) \/ WasRead(l)
  \/ WriteWord(l) \/ Exit(l) \/ Return(l)

Next == \E l \in Levels : Interrupt(l) \/ LeaveHandler(l) \/ Call(l) \/ Operate(l)

\* The processor goes on with the level that runs.
Spec == Init /\ [][Next]_vars /\ WF_vars(\E l \in Levels : Operate(l))

-----------------------------------------------------------------------------
(* Properties *)

\* Type correctness.
TypeOK ==
  /\ mask \in BOOLEAN
  /\ active \subseteq Levels
  /\ object \in Value
  /\ pc \in [Levels -> {"idle", "enter", "operand", "read", "write", "return"}]
  /\ req \in [Levels -> Requests]
  /\ old \in [Levels -> Value]
  /\ todo \in [Levels -> SUBSET Words]

\* An operation takes effect when its last operand is known: from then on the
\* object is what the operation makes of it, written or not.
Applied(l) == pc[l] \in {"write", "return"}
Writing == {l \in Levels : pc[l] = "write"}
SeenObject ==
  IF Writing = {} THEN object
  ELSE LET l == CHOOSE k \in Writing : TRUE IN After(req[l], old[l])
SeenPhase == [l \in Levels |-> IF pc[l] = "idle" THEN "idle"
                              ELSE IF Applied(l) THEN "applied" ELSE "called"]
SeenAnswer == [l \in Levels |-> IF Applied(l) THEN old[l] ELSE Blank]

Promise == INSTANCE AtomicObject WITH
  obj <- SeenObject, phase <- SeenPhase, asked <- req, answer <- SeenAnswer

\* Every operation of stdatomic.h is atomic, whoever calls it and whatever
\* interrupts it: no lost update, no torn read, no compare-exchange that succeeds
\* on an object that has changed.
ImplementsAtomicObject == Promise!Spec

\* Interrupts are never shut out for good: every way through every operation
\* enables them.
InterruptsComeThrough == []<>~mask
=============================================================================
