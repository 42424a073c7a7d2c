--------------------------- MODULE Atomics_proofs ----------------------------
(***************************************************************************)
(* Proofs about Atomics, for any number of priorities and words and any      *)
(* operations: type correctness, that a critical section is never left to    *)
(* another level, and that every operation is atomic.                        *)
(***************************************************************************)
EXTENDS Atomics, FiniteSetTheorems, TLAPS

\* The words a level has still to read or write are the only ones in which what
\* it holds and the object may differ; and whoever is in a section runs, masked.
InSection(l) ==
  pc[l] \in {"read", "write"} \/ (pc[l] = "operand" /\ req[l].kind # "cas")

SectionRuns == \A l \in Levels : InSection(l) => mask /\ Runs(l)
StoresBlank == \A l \in Levels : pc[l] # "idle" /\ ~Reads(req[l]) => old[l] = Blank
ReadSoFar == \A l \in Levels : pc[l] = "read" =>
  Reads(req[l]) /\ \A w \in Words \ todo[l] : old[l][w] = object[w]
ReadAll == \A l \in Levels : pc[l] = "operand" /\ req[l].kind # "cas" =>
  todo[l] = Words /\ (Reads(req[l]) => old[l] = object)
WrittenSoFar == \A l \in Levels : pc[l] = "write" =>
  \A w \in Words \ todo[l] : object[w] = After(req[l], old[l])[w]

Inv == TypeOK /\ SectionRuns /\ StoresBlank /\ ReadSoFar /\ ReadAll /\ WrittenSoFar

-----------------------------------------------------------------------------
(* Types *)

\* What an operation makes of a value is a value.
LEMMA AfterType ==
  ASSUME NEW r \in Requests, NEW v \in Value
  PROVE  After(r, v) \in Value
<1>1. r \in RequestType
  BY RequestsAssumption
<1>2. \A n : Digits(n) \in Value
  BY DEF Digits, Bit, Value
<1>3. Or(v, r.arg) \in Value /\ And(v, r.arg) \in Value /\ Xor(v, r.arg) \in Value
  BY DEF Or, And, Xor, Bit, Value
<1>4. r.arg \in Value /\ r.kind \in Kinds
  BY <1>1 DEF RequestType
<1>. QED
  BY <1>2, <1>3, <1>4 DEF After, Kinds

LEMMA BlankType == Blank \in Value
BY DEF Blank, Value

\* Two levels that both run are the same.
LEMMA OneRuns ==
  ASSUME NEW k \in Levels, NEW l \in Levels, Runs(k), Runs(l)
  PROVE  k = l
BY SizesAssumption DEF Runs, Levels

\* Type correctness is inductive.
LEMMA TypeInit == Init => TypeOK
<1> SUFFICES ASSUME Init PROVE TypeOK
  OBVIOUS
<1>1. mask \in BOOLEAN
  BY DEF Init
<1>2. active \subseteq Levels
  BY SizesAssumption DEF Init, Levels
<1>3. object \in Value /\ old \in [Levels -> Value]
  BY BlankType DEF Init
<1>4. pc \in [Levels -> {"idle", "enter", "operand", "read", "write", "return"}]
  BY DEF Init
<1>5. req \in [Levels -> Requests] /\ todo \in [Levels -> SUBSET Words]
  BY DEF Init
<1>. QED
  BY <1>1, <1>2, <1>3, <1>4, <1>5 DEF TypeOK

LEMMA TypeNext == TypeOK /\ [Next]_vars => TypeOK'
<1> SUFFICES ASSUME TypeOK, [Next]_vars PROVE TypeOK'
  OBVIOUS
<1> USE DEF TypeOK
<1>1. CASE UNCHANGED vars
  BY <1>1 DEF vars
<1>2. ASSUME NEW l \in Levels, Interrupt(l) PROVE TypeOK'
  BY <1>2 DEF Interrupt
<1>3. ASSUME NEW l \in Levels, LeaveHandler(l) PROVE TypeOK'
  BY <1>3 DEF LeaveHandler
<1>4. ASSUME NEW l \in Levels, Call(l) PROVE TypeOK'
  BY <1>4, BlankType DEF Call, Goto
<1>5. ASSUME NEW l \in Levels, Enter(l) PROVE TypeOK'
  BY <1>5 DEF Enter, Goto
<1>6. ASSUME NEW l \in Levels, EvaluateOperand(l) PROVE TypeOK'
  <2>1. (mask /\ ~req[l].nested) \in BOOLEAN
    OBVIOUS
  <2>. QED
    BY <1>6, <2>1 DEF EvaluateOperand, Goto
<1>7. ASSUME NEW l \in Levels, ReadWord(l) PROVE TypeOK'
  <2>1. PICK w \in todo[l] : /\ old' = [old EXCEPT ![l][w] = object[w]]
                             /\ todo' = [todo EXCEPT ![l] = @ \ {w}]
    BY <1>7 DEF ReadWord
  <2>2. w \in Words
    OBVIOUS
  <2>3. [old[l] EXCEPT ![w] = object[w]] \in Value
    BY <2>2 DEF Value
  <2>. QED
    BY <1>7, <2>1, <2>3 DEF ReadWord
<1>8. ASSUME NEW l \in Levels, WasRead(l) PROVE TypeOK'
  BY <1>8 DEF WasRead, Goto
<1>9. ASSUME NEW l \in Levels, WriteWord(l) PROVE TypeOK'
  <2>1. PICK w \in todo[l] : /\ object' = [object EXCEPT ![w] = After(req[l], old[l])[w]]
                             /\ todo' = [todo EXCEPT ![l] = @ \ {w}]
    BY <1>9 DEF WriteWord
  <2>2. After(req[l], old[l]) \in Value
    BY AfterType
  <2>3. object' \in Value
    BY <2>1, <2>2 DEF Value
  <2>. QED
    BY <1>9, <2>1, <2>3 DEF WriteWord
<1>10. ASSUME NEW l \in Levels, Exit(l) PROVE TypeOK'
  BY <1>10 DEF Exit, Goto
<1>11. ASSUME NEW l \in Levels, Return(l) PROVE TypeOK'
  BY <1>11 DEF Return, Goto
<1>. QED
  BY <1>1, <1>2, <1>3, <1>4, <1>5, <1>6, <1>7, <1>8, <1>9, <1>10, <1>11 DEF Next, Operate

\* Type correctness of the atomics, for every number of levels and words.
THEOREM TypeCorrect == Spec => []TypeOK
BY TypeInit, TypeNext, PTL DEF Spec

-----------------------------------------------------------------------------
(* Sections *)

\* Whoever is in a section keeps the processor until it leaves, and what it holds
\* of the object is true.
LEMMA InvInit == Init => Inv
<1> SUFFICES ASSUME Init PROVE Inv
  OBVIOUS
<1>1. TypeOK
  BY TypeInit
<1>2. \A l \in Levels : pc[l] = "idle"
  BY DEF Init
<1>. QED
  BY <1>1, <1>2 DEF Inv, SectionRuns, InSection, StoresBlank, ReadSoFar, ReadAll,
                   WrittenSoFar

\* A step of one level leaves what the others know of the object alone, because
\* none of them is in a section; so it is enough to look at that level.
LEMMA OthersOutside ==
  ASSUME Inv, NEW l \in Levels, Runs(l), NEW k \in Levels, k # l
  PROVE  ~InSection(k)
BY OneRuns DEF Inv, SectionRuns

LEMMA InvNext == Inv /\ [Next]_vars => Inv'
<1> SUFFICES ASSUME Inv, [Next]_vars PROVE Inv'
  OBVIOUS
<1> USE DEF InSection
<1>0. TypeOK /\ TypeOK'
  BY TypeNext DEF Inv
<1>1. CASE UNCHANGED vars
  BY <1>0, <1>1 DEF vars, Inv, SectionRuns, StoresBlank, ReadSoFar, ReadAll,
                    WrittenSoFar, Runs
<1>2. ASSUME NEW l \in Levels, Interrupt(l) PROVE Inv'
  <2>1. \A k \in Levels : ~InSection(k)
    BY <1>2 DEF Interrupt, Inv, SectionRuns
  <2>. QED
    BY <1>0, <1>2, <2>1 DEF Interrupt, Inv, SectionRuns, StoresBlank, ReadSoFar,
                            ReadAll, WrittenSoFar
<1>3. ASSUME NEW l \in Levels, LeaveHandler(l) PROVE Inv'
  <2>1. \A k \in Levels : ~InSection(k)
    BY <1>3, OthersOutside DEF LeaveHandler
  <2>. QED
    BY <1>0, <1>3, <2>1 DEF LeaveHandler, Inv, SectionRuns, StoresBlank, ReadSoFar,
                            ReadAll, WrittenSoFar
<1>4. ASSUME NEW l \in Levels, Call(l) PROVE Inv'
  <2>1. \A k \in Levels : k # l => ~InSection(k)
    BY <1>4, OthersOutside DEF Call
  <2>2. PICK r \in Requests : /\ req' = [req EXCEPT ![l] = r]
                              /\ Goto(l, IF r.kind = "cas" THEN "operand" ELSE "enter")
    BY <1>4 DEF Call
  <2>3. \A k \in Levels : k # l =>
          pc'[k] = pc[k] /\ req'[k] = req[k] /\ old'[k] = old[k]
    BY <1>0, <1>4, <2>2 DEF Call, Goto, TypeOK
  <2>4. /\ pc'[l] = IF r.kind = "cas" THEN "operand" ELSE "enter"
        /\ req'[l] = r /\ old'[l] = Blank
    BY <1>0, <1>4, <2>2 DEF Call, Goto, TypeOK
  <2>5. \A k \in Levels : ~InSection(k)'
    BY <2>1, <2>3, <2>4
  <2>6. StoresBlank'
    BY <2>3, <2>4 DEF Inv, StoresBlank, Reads
  <2>. QED
    BY <1>0, <2>5, <2>6 DEF Inv, SectionRuns, ReadSoFar, ReadAll, WrittenSoFar
<1>5. ASSUME NEW l \in Levels, Enter(l) PROVE Inv'
  <2>1. \A k \in Levels : k # l => ~InSection(k)
    BY <1>5, OthersOutside DEF Enter
  <2>2. \A k \in Levels : k # l => pc'[k] = pc[k] /\ req'[k] = req[k] /\ old'[k] = old[k]
    BY <1>0, <1>5 DEF Enter, Goto, TypeOK
  <2>3. /\ pc'[l] = IF Reads(req[l]) THEN "read" ELSE "operand"
        /\ req'[l] = req[l] /\ old'[l] = old[l] /\ todo'[l] = Words
        /\ pc[l] = "enter"
    BY <1>0, <1>5 DEF Enter, Goto, TypeOK
  <2>4. SectionRuns'
    BY <1>5, <2>1, <2>2 DEF Enter, SectionRuns, Runs
  <2>5. StoresBlank'
    BY <2>2, <2>3 DEF Inv, StoresBlank, Reads
  <2>6. ReadSoFar' /\ ReadAll' /\ WrittenSoFar'
    BY <2>1, <2>2, <2>3 DEF ReadSoFar, ReadAll, WrittenSoFar, Reads
  <2>. QED
    BY <1>0, <2>4, <2>5, <2>6 DEF Inv
<1>6. ASSUME NEW l \in Levels, EvaluateOperand(l) PROVE Inv'
  <2>1. \A k \in Levels : k # l => ~InSection(k)
    BY <1>6, OthersOutside DEF EvaluateOperand
  <2>2. \A k \in Levels : k # l => pc'[k] = pc[k] /\ req'[k] = req[k] /\ old'[k] = old[k]
    BY <1>0, <1>6 DEF EvaluateOperand, Goto, TypeOK
  <2>3. /\ pc'[l] = IF req[l].kind = "cas" THEN "enter" ELSE "write"
        /\ req' = req /\ old' = old /\ todo' = todo /\ object' = object
        /\ pc[l] = "operand"
    BY <1>0, <1>6 DEF EvaluateOperand, Goto, TypeOK
  <2>4. SectionRuns'
    <3>1. req[l] \in Requests
      BY <1>0 DEF TypeOK
    <3>2. req[l].kind # "cas" => mask'
      BY <1>6, <3>1, RequestsAssumption DEF EvaluateOperand, Inv, SectionRuns
    <3>3. Runs(l)'
      BY <1>6 DEF EvaluateOperand, Runs
    <3>. QED
      BY <2>1, <2>2, <2>3, <3>2, <3>3 DEF SectionRuns
  <2>5. StoresBlank'
    BY <2>2, <2>3 DEF Inv, StoresBlank
  <2>6. ReadSoFar' /\ ReadAll'
    BY <2>1, <2>2, <2>3 DEF ReadSoFar, ReadAll
  <2>7. WrittenSoFar'
    BY <2>1, <2>2, <2>3 DEF WrittenSoFar, Inv, ReadAll
  <2>. QED
    BY <1>0, <2>4, <2>5, <2>6, <2>7 DEF Inv
<1>7. ASSUME NEW l \in Levels, ReadWord(l) PROVE Inv'
  <2>1. \A k \in Levels : k # l => ~InSection(k)
    BY <1>7, OthersOutside DEF ReadWord
  <2>2. PICK w \in todo[l] : /\ old' = [old EXCEPT ![l][w] = object[w]]
                             /\ todo' = [todo EXCEPT ![l] = @ \ {w}]
    BY <1>7 DEF ReadWord
  <2>3. /\ \A k \in Levels : k # l => old'[k] = old[k] /\ todo'[k] = todo[k]
        /\ old'[l] = [old[l] EXCEPT ![w] = object[w]]
        /\ todo'[l] = todo[l] \ {w} /\ w \in Words
    BY <1>0, <2>2 DEF TypeOK
  <2>4. pc[l] = "read" /\ UNCHANGED <<mask, active, object, pc, req>>
    BY <1>7 DEF ReadWord
  <2>5. ReadSoFar'
    <3>1. Reads(req[l]) /\ \A x \in Words \ todo[l] : old[l][x] = object[x]
      BY <2>4 DEF Inv, ReadSoFar
    <3>2. old[l] \in [Words -> {0, 1}]
      BY <1>0 DEF TypeOK, Value
    <3>3. \A x \in Words \ todo'[l] : old'[l][x] = object[x]
      BY <2>3, <3>1, <3>2
    <3>. QED
      BY <2>1, <2>3, <2>4, <3>1, <3>3 DEF ReadSoFar, Reads
  <2>6. SectionRuns'
    BY <2>4 DEF Inv, SectionRuns, Runs
  <2>7. StoresBlank'
    BY <2>3, <2>4 DEF Inv, StoresBlank, ReadSoFar, Reads
  <2>8. ReadAll' /\ WrittenSoFar'
    BY <2>1, <2>4 DEF ReadAll, WrittenSoFar
  <2>. QED
    BY <1>0, <2>5, <2>6, <2>7, <2>8 DEF Inv
<1>8. ASSUME NEW l \in Levels, WasRead(l) PROVE Inv'
  <2>1. \A k \in Levels : k # l => ~InSection(k)
    BY <1>8, OthersOutside DEF WasRead
  <2>2. /\ \A k \in Levels : k # l => pc'[k] = pc[k]
        /\ pc'[l] = IF req[l].kind \in {"load", "cas"} THEN "write" ELSE "operand"
        /\ todo'[l] = IF Writes(req[l], old[l]) THEN Words ELSE {}
        /\ pc[l] = "read" /\ todo[l] = {} /\ Runs(l)
        /\ UNCHANGED <<mask, active, object, req, old>>
    BY <1>8, <1>0 DEF WasRead, Goto, TypeOK
  <2>3. old[l] = object
    BY <1>0, <2>2 DEF Inv, ReadSoFar, TypeOK, Value
  <2>4. SectionRuns'
    BY <2>1, <2>2 DEF Inv, SectionRuns, Runs
  <2>5. StoresBlank' /\ ReadSoFar'
    BY <2>1, <2>2 DEF Inv, StoresBlank, ReadSoFar, Reads
  <2>6. ReadAll'
    BY <2>1, <2>2, <2>3 DEF ReadAll, Writes
  <2>7. WrittenSoFar'
    <3>1. ~Writes(req[l], old[l]) => After(req[l], old[l]) = old[l]
      BY DEF Writes, After
    <3>. QED
      BY <2>1, <2>2, <2>3, <3>1 DEF WrittenSoFar
  <2>. QED
    BY <1>0, <2>4, <2>5, <2>6, <2>7 DEF Inv
<1>9. ASSUME NEW l \in Levels, WriteWord(l) PROVE Inv'
  <2>1. \A k \in Levels : k # l => ~InSection(k)
    BY <1>9, OthersOutside DEF WriteWord
  <2>2. PICK w \in todo[l] : /\ object' = [object EXCEPT ![w] = After(req[l], old[l])[w]]
                             /\ todo' = [todo EXCEPT ![l] = @ \ {w}]
    BY <1>9 DEF WriteWord
  <2>3. pc[l] = "write" /\ UNCHANGED <<mask, active, pc, req, old>>
    BY <1>9 DEF WriteWord
  <2>4. todo'[l] = todo[l] \ {w} /\ w \in Words
    BY <1>0, <2>2 DEF TypeOK
  <2>5. \A x \in Words \ todo'[l] : object'[x] = After(req[l], old[l])[x]
    <3>1. \A x \in Words \ todo[l] : object[x] = After(req[l], old[l])[x]
      BY <2>3 DEF Inv, WrittenSoFar
    <3>2. object \in [Words -> {0, 1}]
      BY <1>0 DEF TypeOK, Value
    <3>. QED
      BY <2>2, <2>4, <3>1, <3>2
  <2>6. SectionRuns' /\ StoresBlank'
    BY <2>3 DEF Inv, SectionRuns, StoresBlank, Runs
  <2>7. ReadSoFar' /\ ReadAll' /\ WrittenSoFar'
    BY <2>1, <2>3, <2>5 DEF ReadSoFar, ReadAll, WrittenSoFar
  <2>. QED
    BY <1>0, <2>6, <2>7 DEF Inv
<1>10. ASSUME NEW l \in Levels, Exit(l) PROVE Inv'
  <2>1. \A k \in Levels : k # l => ~InSection(k)
    BY <1>10, OthersOutside DEF Exit
  <2>2. /\ \A k \in Levels : k # l => pc'[k] = pc[k]
        /\ pc'[l] = "return" /\ pc[l] = "write"
        /\ UNCHANGED <<active, object, req, old, todo>>
    BY <1>10, <1>0 DEF Exit, Goto, TypeOK
  <2>3. \A k \in Levels : ~InSection(k)'
    BY <2>1, <2>2
  <2>. QED
    BY <1>0, <2>2, <2>3 DEF Inv, SectionRuns, StoresBlank, ReadSoFar, ReadAll, WrittenSoFar
<1>11. ASSUME NEW l \in Levels, Return(l) PROVE Inv'
  <2>1. /\ \A k \in Levels : k # l => pc'[k] = pc[k]
        /\ pc'[l] = "idle" /\ pc[l] = "return"
        /\ UNCHANGED <<mask, active, object, req, old, todo>>
    BY <1>11, <1>0 DEF Return, Goto, TypeOK
  <2>. QED
    BY <1>0, <2>1 DEF Inv, SectionRuns, StoresBlank, ReadSoFar, ReadAll, WrittenSoFar, Runs
<1>. QED
  BY <1>1, <1>2, <1>3, <1>4, <1>5, <1>6, <1>7, <1>8, <1>9, <1>10, <1>11 DEF Next, Operate

LEMMA InvAlways == Spec => []Inv
BY InvInit, InvNext, PTL DEF Spec

-----------------------------------------------------------------------------
(* Atomicity *)

\* The object as the promise sees it: the one of the level that writes, if one
\* does.
LEMMA SeenWriting ==
  Inv => \A l \in Levels : pc[l] = "write" => SeenObject = After(req[l], old[l])
<1> SUFFICES ASSUME Inv, NEW l \in Levels, pc[l] = "write"
             PROVE  SeenObject = After(req[l], old[l])
  OBVIOUS
<1>1. \A k \in Writing : k = l
  BY OneRuns DEF Inv, SectionRuns, InSection, Writing
<1>2. (CHOOSE k \in Writing : TRUE) = l
  BY <1>1 DEF Writing
<1>. QED
  BY <1>2 DEF SeenObject, Writing

LEMMA SeenQuiet == (\A l \in Levels : pc[l] # "write") => SeenObject = object
BY DEF SeenObject, Writing

LEMMA PromiseInit == Init => Promise!Init
<1> SUFFICES ASSUME Init PROVE Promise!Init
  OBVIOUS
<1>1. \A l \in Levels : pc[l] = "idle"
  BY DEF Init
<1>2. SeenObject = Blank
  BY <1>1, SeenQuiet DEF Init
<1>3. SeenPhase = [l \in Levels |-> "idle"] /\ SeenAnswer = [l \in Levels |-> Blank]
  BY <1>1 DEF SeenPhase, SeenAnswer, Applied
<1>. QED
  BY <1>2, <1>3 DEF Init, Promise!Init

\* A step that changes neither what is seen of the object nor where any level is.
LEMMA Unseen ==
  ASSUME UNCHANGED <<SeenObject, pc, req, old>>
  PROVE  UNCHANGED Promise!vars
BY DEF Promise!vars, SeenPhase, SeenAnswer, Applied

LEMMA PromiseNext == Inv /\ Inv' /\ [Next]_vars => [Promise!Next]_(Promise!vars)
<1> SUFFICES ASSUME Inv, Inv', [Next]_vars PROVE [Promise!Next]_(Promise!vars)
  OBVIOUS
<1>0. TypeOK /\ TypeOK'
  BY DEF Inv
<1>a. \A l \in Levels : pc[l] = "write" => SeenObject = After(req[l], old[l])
  BY SeenWriting
<1>b. (\A l \in Levels : pc[l] = "write" => SeenObject = After(req[l], old[l]))'
  BY SeenWriting, PTL
<1>c. (\A l \in Levels : pc'[l] # "write") => SeenObject' = object'
  BY DEF SeenObject, Writing
<1>1. CASE UNCHANGED vars
  <2>1. UNCHANGED <<SeenObject, pc, req, old>>
    BY <1>1 DEF vars, SeenObject, Writing
  <2>. QED
    BY <2>1, Unseen
<1>2. ASSUME NEW l \in Levels, Interrupt(l) \/ LeaveHandler(l) PROVE UNCHANGED Promise!vars
  <2>1. UNCHANGED <<object, pc, req, old>>
    BY <1>2 DEF Interrupt, LeaveHandler
  <2>2. SeenObject' = SeenObject
    BY <2>1 DEF SeenObject, Writing
  <2>. QED
    BY <2>1, <2>2, Unseen
<1>3. ASSUME NEW l \in Levels, Call(l) PROVE Promise!Call(l)
  <2>1. PICK r \in Requests : /\ req' = [req EXCEPT ![l] = r]
                              /\ Goto(l, IF r.kind = "cas" THEN "operand" ELSE "enter")
    BY <1>3 DEF Call
  <2>2. /\ \A k \in Levels : k # l => pc'[k] = pc[k] /\ old'[k] = old[k]
        /\ pc[l] = "idle" /\ pc'[l] \in {"operand", "enter"}
        /\ UNCHANGED <<mask, active, object, todo>> /\ Runs(l)
    BY <1>0, <1>3, <2>1 DEF Call, Goto, TypeOK
  <2>3. \A k \in Levels : pc[k] # "write" /\ pc'[k] # "write"
    BY <2>2, OthersOutside DEF InSection
  <2>4. SeenObject' = SeenObject
    BY <2>2, <2>3, <1>c, SeenQuiet
  <2>5. SeenPhase[l] = "idle" /\ SeenPhase' = [SeenPhase EXCEPT ![l] = "called"]
    BY <2>2 DEF SeenPhase, Applied
  <2>6. SeenAnswer' = SeenAnswer
    BY <2>2 DEF SeenAnswer, Applied
  <2>. QED
    BY <2>1, <2>4, <2>5, <2>6 DEF Promise!Call
<1>4. ASSUME NEW l \in Levels, Enter(l) PROVE UNCHANGED Promise!vars
  <2>1. /\ \A k \in Levels : k # l => pc'[k] = pc[k]
        /\ pc[l] = "enter" /\ pc'[l] \in {"read", "operand"}
        /\ UNCHANGED <<active, object, req, old>> /\ Runs(l)
    BY <1>0, <1>4 DEF Enter, Goto, TypeOK
  <2>2. SeenObject' = SeenObject
    BY <2>1, <1>c, OthersOutside, SeenQuiet DEF InSection
  <2>3. SeenPhase' = SeenPhase /\ SeenAnswer' = SeenAnswer
    BY <2>1 DEF SeenPhase, SeenAnswer, Applied
  <2>. QED
    BY <2>1, <2>2, <2>3 DEF Promise!vars
<1>5. ASSUME NEW l \in Levels, EvaluateOperand(l)
      PROVE  Promise!Apply(l) \/ UNCHANGED Promise!vars
  <2>1. /\ \A k \in Levels : k # l => pc'[k] = pc[k]
        /\ pc[l] = "operand"
        /\ pc'[l] = IF req[l].kind = "cas" THEN "enter" ELSE "write"
        /\ UNCHANGED <<active, object, req, old, todo>> /\ Runs(l)
    BY <1>0, <1>5 DEF EvaluateOperand, Goto, TypeOK
  <2>2. SeenObject = object
    BY <2>1, OthersOutside, SeenQuiet DEF InSection
  <2>3. CASE req[l].kind = "cas"
    <3>1. SeenObject' = SeenObject
      BY <2>1, <2>2, <2>3, <1>c, OthersOutside DEF InSection
    <3>2. SeenPhase' = SeenPhase /\ SeenAnswer' = SeenAnswer
      BY <2>1, <2>3 DEF SeenPhase, SeenAnswer, Applied
    <3>. QED
      BY <2>1, <3>1, <3>2 DEF Promise!vars
  <2>4. CASE req[l].kind # "cas"
    <3>1. SeenObject' = After(req[l], old[l])
      BY <2>1, <2>4, <1>b
    <3>2. Reads(req[l]) => old[l] = object
      BY <2>1, <2>4 DEF Inv, ReadAll
    <3>3. ~Reads(req[l]) => old[l] = Blank
      BY <2>1 DEF Inv, StoresBlank
    <3>4. ~Reads(req[l]) => After(req[l], old[l]) = After(req[l], object)
      BY DEF Reads, After
    <3>5. SeenObject' = After(req[l], SeenObject)
      BY <2>2, <3>1, <3>2, <3>4
    <3>6. SeenPhase[l] = "called" /\ SeenPhase' = [SeenPhase EXCEPT ![l] = "applied"]
      BY <2>1, <2>4 DEF SeenPhase, Applied
    <3>7. SeenAnswer' = [SeenAnswer EXCEPT ![l] = IF Reads(req[l]) THEN SeenObject ELSE Blank]
      BY <2>1, <2>2, <2>4, <3>2, <3>3 DEF SeenAnswer, Applied
    <3>. QED
      BY <2>1, <3>5, <3>6, <3>7 DEF Promise!Apply
  <2>. QED
    BY <2>3, <2>4
<1>6. ASSUME NEW l \in Levels, ReadWord(l) PROVE UNCHANGED Promise!vars
  <2>1. PICK w \in todo[l] : old' = [old EXCEPT ![l][w] = object[w]]
    BY <1>6 DEF ReadWord
  <2>2. /\ pc[l] = "read" /\ UNCHANGED <<active, object, pc, req>> /\ Runs(l)
        /\ \A k \in Levels : k # l => old'[k] = old[k]
    BY <1>0, <1>6, <2>1 DEF ReadWord, TypeOK
  <2>3. SeenObject' = SeenObject
    BY <2>2, <1>c, OthersOutside, SeenQuiet DEF InSection
  <2>4. SeenPhase' = SeenPhase /\ SeenAnswer' = SeenAnswer
    BY <2>2 DEF SeenPhase, SeenAnswer, Applied
  <2>. QED
    BY <2>2, <2>3, <2>4 DEF Promise!vars
<1>7. ASSUME NEW l \in Levels, WasRead(l)
      PROVE  Promise!Apply(l) \/ UNCHANGED Promise!vars
  <2>1. /\ \A k \in Levels : k # l => pc'[k] = pc[k]
        /\ pc[l] = "read" /\ todo[l] = {} /\ Runs(l)
        /\ pc'[l] = IF req[l].kind \in {"load", "cas"} THEN "write" ELSE "operand"
        /\ UNCHANGED <<active, object, req, old>>
    BY <1>0, <1>7 DEF WasRead, Goto, TypeOK
  <2>2. SeenObject = object
    BY <2>1, OthersOutside, SeenQuiet DEF InSection
  <2>3. Reads(req[l]) /\ old[l] = object
    BY <1>0, <2>1 DEF Inv, ReadSoFar, TypeOK, Value
  <2>4. CASE req[l].kind \in {"load", "cas"}
    <3>1. SeenObject' = After(req[l], SeenObject)
      BY <2>1, <2>2, <2>3, <2>4, <1>b
    <3>2. SeenPhase[l] = "called" /\ SeenPhase' = [SeenPhase EXCEPT ![l] = "applied"]
      BY <2>1, <2>4 DEF SeenPhase, Applied
    <3>3. SeenAnswer' = [SeenAnswer EXCEPT ![l] = IF Reads(req[l]) THEN SeenObject ELSE Blank]
      BY <2>1, <2>2, <2>3, <2>4 DEF SeenAnswer, Applied
    <3>. QED
      BY <2>1, <3>1, <3>2, <3>3 DEF Promise!Apply
  <2>5. CASE req[l].kind \notin {"load", "cas"}
    <3>1. SeenObject' = SeenObject
      BY <2>1, <2>2, <2>5, <1>c, OthersOutside DEF InSection
    <3>2. SeenPhase' = SeenPhase /\ SeenAnswer' = SeenAnswer
      BY <2>1, <2>5 DEF SeenPhase, SeenAnswer, Applied
    <3>. QED
      BY <2>1, <3>1, <3>2 DEF Promise!vars
  <2>. QED
    BY <2>4, <2>5
<1>8. ASSUME NEW l \in Levels, WriteWord(l) PROVE UNCHANGED Promise!vars
  <2>1. pc[l] = "write" /\ UNCHANGED <<pc, req, old>>
    BY <1>8 DEF WriteWord
  <2>2. SeenObject' = SeenObject
    BY <2>1, <1>a, <1>b
  <2>. QED
    BY <2>1, <2>2, Unseen
<1>9. ASSUME NEW l \in Levels, Exit(l) PROVE UNCHANGED Promise!vars
  <2>1. /\ \A k \in Levels : k # l => pc'[k] = pc[k]
        /\ pc[l] = "write" /\ pc'[l] = "return" /\ todo[l] = {} /\ Runs(l)
        /\ UNCHANGED <<active, object, req, old>>
    BY <1>0, <1>9 DEF Exit, Goto, TypeOK
  <2>2. object = After(req[l], old[l])
    <3>1. \A w \in Words : object[w] = After(req[l], old[l])[w]
      BY <2>1 DEF Inv, WrittenSoFar
    <3>2. After(req[l], old[l]) \in Value /\ object \in Value
      BY <1>0, AfterType DEF TypeOK
    <3>. QED
      BY <3>1, <3>2 DEF Value
  <2>3. SeenObject' = SeenObject
    BY <2>1, <2>2, <1>a, <1>c, OthersOutside DEF InSection
  <2>4. SeenPhase' = SeenPhase /\ SeenAnswer' = SeenAnswer
    BY <2>1 DEF SeenPhase, SeenAnswer, Applied
  <2>. QED
    BY <2>1, <2>3, <2>4 DEF Promise!vars
<1>10. ASSUME NEW l \in Levels, Return(l) PROVE Promise!Return(l)
  <2>1. /\ \A k \in Levels : k # l => pc'[k] = pc[k]
        /\ pc[l] = "return" /\ pc'[l] = "idle" /\ Runs(l)
        /\ UNCHANGED <<active, object, req, old>>
    BY <1>0, <1>10 DEF Return, Goto, TypeOK
  <2>2. SeenObject' = SeenObject
    BY <2>1, <1>c, OthersOutside, SeenQuiet DEF InSection
  <2>3. SeenPhase[l] = "applied" /\ SeenPhase' = [SeenPhase EXCEPT ![l] = "idle"]
    BY <2>1 DEF SeenPhase, Applied
  <2>4. SeenAnswer' = [SeenAnswer EXCEPT ![l] = Blank]
    BY <2>1 DEF SeenAnswer, Applied
  <2>. QED
    BY <2>1, <2>2, <2>3, <2>4 DEF Promise!Return
<1>. QED
  BY <1>1, <1>2, <1>3, <1>4, <1>5, <1>6, <1>7, <1>8, <1>9, <1>10
     DEF Next, Operate, Promise!Next

\* Every operation of stdatomic.h takes effect in one step between its call and
\* its return, for any number of priorities and words.
THEOREM OperationsAreAtomic == Spec => ImplementsAtomicObject
BY InvAlways, PromiseInit, PromiseNext, PTL DEF Spec, ImplementsAtomicObject, Promise!Spec

-----------------------------------------------------------------------------
(* Interrupts *)

\* Interrupts are masked on behalf of a level that is in a section.
MaskHasOwner == mask => \E l \in Levels : InSection(l)

\* The steps a level still takes in its section: the words it has to read, the end
\* of the reading, the operand, the words it has to write, and the exit.
StepsLeft(l) ==
  CASE pc[l] = "read" -> Cardinality(todo[l]) + NumWords + 3
    [] pc[l] = "operand" -> NumWords + 2
    [] pc[l] = "write" -> Cardinality(todo[l]) + 1

LongestSection == 2 * NumWords + 3

SectionsBounded ==
  \A l \in Levels : InSection(l) => StepsLeft(l) \in 1 .. LongestSection

SectionGoesOn ==
  \A l \in Levels :
    InSection(l) => ~mask' \/ (InSection(l)' /\ StepsLeft(l)' < StepsLeft(l))

LEMMA WordsCounted == IsFiniteSet(Words) /\ Cardinality(Words) = NumWords
<1>1. NumWords \in Nat \ {0}
  BY SizesAssumption
<1>. QED
  BY <1>1, FS_Interval DEF Words

LEMMA StepsLeftIs ==
  ASSUME NEW l \in Levels
  PROVE  /\ pc[l] = "read" => StepsLeft(l) = Cardinality(todo[l]) + NumWords + 3
         /\ pc[l] = "operand" => StepsLeft(l) = NumWords + 2
         /\ pc[l] = "write" => StepsLeft(l) = Cardinality(todo[l]) + 1
BY Zenon DEF StepsLeft

LEMMA TodoCounted ==
  ASSUME TypeOK, NEW l \in Levels
  PROVE  IsFiniteSet(todo[l]) /\ Cardinality(todo[l]) \in 0 .. NumWords
<1>1. todo[l] \subseteq Words
  BY DEF TypeOK
<1>2. IsFiniteSet(todo[l]) /\ Cardinality(todo[l]) <= NumWords
  BY <1>1, WordsCounted, FS_Subset
<1>3. Cardinality(todo[l]) \in Nat /\ NumWords \in Nat
  BY <1>2, FS_CardinalityType, SizesAssumption
<1>. QED
  BY <1>2, <1>3

LEMMA SectionsAreBounded == ASSUME Inv PROVE SectionsBounded
<1> SUFFICES ASSUME NEW l \in Levels, InSection(l)
             PROVE  StepsLeft(l) \in 1 .. LongestSection
  BY DEF SectionsBounded
<1>1. Cardinality(todo[l]) \in 0 .. NumWords /\ NumWords \in Nat
  BY TodoCounted, SizesAssumption DEF Inv
<1>2. pc[l] \in {"read", "operand", "write"}
  BY DEF InSection
<1>. QED
  BY <1>1, <1>2, StepsLeftIs DEF LongestSection

\* In a section, only the level whose section it is can move, and only in it.
LEMMA OnlyOwnerMoves ==
  ASSUME Inv, NEW l \in Levels, InSection(l), Next
  PROVE  \/ EvaluateOperand(l) /\ req[l].kind # "cas"
         \/ ReadWord(l) \/ WasRead(l) \/ WriteWord(l) \/ Exit(l)
<1>1. mask /\ Runs(l) /\ pc[l] \in {"read", "operand", "write"}
  BY DEF Inv, SectionRuns, InSection
<1>2. \A k \in Levels : ~Interrupt(k)
  BY <1>1 DEF Interrupt
<1>3. ASSUME NEW k \in Levels, LeaveHandler(k) \/ Call(k) \/ Operate(k) PROVE k = l
  <2>1. Runs(k)
    BY <1>3 DEF LeaveHandler, Call, Operate, Enter, EvaluateOperand, ReadWord, WasRead,
               WriteWord, Exit, Return
  <2>. QED
    BY <1>1, <2>1, OneRuns
<1>4. LeaveHandler(l) \/ Call(l) \/ Operate(l)
  BY <1>2, <1>3 DEF Next
<1>. QED
  BY <1>1, <1>4 DEF LeaveHandler, Call, Operate, Enter, EvaluateOperand, Return, InSection

LEMMA SectionStep ==
  ASSUME Inv, NEW l \in Levels, InSection(l), Next
  PROVE  ~mask' \/ (InSection(l)' /\ StepsLeft(l)' < StepsLeft(l))
<1>0. /\ pc \in [Levels -> {"idle", "enter", "operand", "read", "write", "return"}]
      /\ todo \in [Levels -> SUBSET Words]
      /\ IsFiniteSet(todo[l]) /\ Cardinality(todo[l]) \in Nat /\ NumWords \in Nat
  BY TodoCounted, SizesAssumption DEF Inv, TypeOK
<1>1. /\ pc'[l] = "read" => StepsLeft(l)' = Cardinality(todo'[l]) + NumWords + 3
      /\ pc'[l] = "operand" => StepsLeft(l)' = NumWords + 2
      /\ pc'[l] = "write" => StepsLeft(l)' = Cardinality(todo'[l]) + 1
  BY Zenon DEF StepsLeft
<1>2. ASSUME NEW w \in todo[l], todo'[l] = todo[l] \ {w}
      PROVE  Cardinality(todo'[l]) = Cardinality(todo[l]) - 1
  <2> DEFINE before == todo[l]
  <2>1. IsFiniteSet(before) /\ w \in before
    BY <1>0
  <2> HIDE DEF before
  <2>2. Cardinality(before \ {w}) = Cardinality(before) - 1
    BY <2>1, FS_RemoveElement
  <2>. QED
    BY <1>2, <2>2 DEF before
<1>3. CASE EvaluateOperand(l) /\ req[l].kind # "cas"
  <2>1. /\ pc[l] = "operand" /\ pc'[l] = "write" /\ todo' = todo
    BY <1>0, <1>3 DEF EvaluateOperand, Goto
  <2>2. todo[l] = Words
    BY <1>3, <2>1 DEF Inv, ReadAll
  <2>3. Cardinality(todo'[l]) = NumWords
    BY <2>1, <2>2, WordsCounted
  <2>. QED
    BY <1>0, <1>1, <2>1, <2>3, StepsLeftIs DEF InSection
<1>4. CASE ReadWord(l)
  <2>1. PICK w \in todo[l] : todo' = [todo EXCEPT ![l] = @ \ {w}]
    BY <1>4 DEF ReadWord
  <2>2. todo'[l] = todo[l] \ {w}
    BY <1>0, <2>1
  <2>3. Cardinality(todo'[l]) = Cardinality(todo[l]) - 1
    BY <1>2, <2>2
  <2>4. pc[l] = "read" /\ pc' = pc
    BY <1>4 DEF ReadWord
  <2>. QED
    BY <1>0, <1>1, <2>3, <2>4, StepsLeftIs DEF InSection
<1>5. CASE WasRead(l)
  <2>1. /\ pc[l] = "read" /\ todo[l] = {} /\ req' = req
        /\ pc'[l] = IF req[l].kind \in {"load", "cas"} THEN "write" ELSE "operand"
        /\ todo'[l] \in {Words, {}}
    BY <1>0, <1>5 DEF WasRead, Goto
  <2>2. Cardinality(todo[l]) = 0 /\ Cardinality(todo'[l]) \in {0, NumWords}
    BY <2>1, FS_EmptySet, WordsCounted
  <2>. QED
    BY <1>0, <1>1, <2>1, <2>2, StepsLeftIs DEF InSection
<1>6. CASE WriteWord(l)
  <2>1. PICK w \in todo[l] : todo' = [todo EXCEPT ![l] = @ \ {w}]
    BY <1>6 DEF WriteWord
  <2>2. todo'[l] = todo[l] \ {w}
    BY <1>0, <2>1
  <2>3. Cardinality(todo'[l]) = Cardinality(todo[l]) - 1
    BY <1>2, <2>2
  <2>4. pc[l] = "write" /\ pc' = pc
    BY <1>6 DEF WriteWord
  <2>. QED
    BY <1>0, <1>1, <2>3, <2>4, StepsLeftIs DEF InSection
<1>7. CASE Exit(l)
  BY <1>7 DEF Exit
<1>. QED
  BY <1>3, <1>4, <1>5, <1>6, <1>7, OnlyOwnerMoves

LEMMA MaskOwnerNext ==
  ASSUME Inv, MaskHasOwner, [Next]_vars PROVE MaskHasOwner'
<1> SUFFICES ASSUME mask' PROVE \E l \in Levels : InSection(l)'
  BY DEF MaskHasOwner
<1>0. pc \in [Levels -> {"idle", "enter", "operand", "read", "write", "return"}]
  BY DEF Inv, TypeOK
<1>1. CASE mask /\ Next
  <2>1. PICK l \in Levels : InSection(l)
    BY <1>1 DEF MaskHasOwner
  <2>. QED
    BY <1>1, <2>1, SectionStep
<1>2. CASE ~mask /\ Next
  <2>1. PICK l \in Levels : Enter(l)
    BY <1>2 DEF Next, Operate, Interrupt, LeaveHandler, Call, EvaluateOperand, ReadWord,
               WasRead, WriteWord, Exit, Return
  <2>2. /\ req' = req /\ req[l] \in Requests
        /\ pc'[l] = IF Reads(req[l]) THEN "read" ELSE "operand"
    BY <1>0, <2>1 DEF Enter, Goto, Inv, TypeOK
  <2>. QED
    BY <2>2 DEF InSection, Reads
<1>3. CASE UNCHANGED vars
  BY <1>3 DEF vars, MaskHasOwner, InSection
<1>. QED
  BY <1>1, <1>2, <1>3

\* Interrupts are never off for longer than one operation's section, and no section
\* for longer than LongestSection steps, whatever its operation and its operands:
\* each step taken while they are off brings the exit nearer, and no handler can
\* come between.  With the fairness of Spec, this is why interrupts come through.
THEOREM SectionsAreShort ==
  Spec => [](MaskHasOwner /\ SectionsBounded) /\ [][SectionGoesOn]_vars
<1>1. Init => MaskHasOwner
  BY DEF Init, MaskHasOwner
<1>2. Inv => SectionsBounded
  BY SectionsAreBounded
<1>3. Inv /\ [Next]_vars => [SectionGoesOn]_vars
  BY SectionStep DEF SectionGoesOn
<1>. QED
  BY <1>1, <1>2, <1>3, InvInit, InvNext, MaskOwnerNext, PTL DEF Spec

=============================================================================
