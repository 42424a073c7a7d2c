---------------------------- MODULE AtomicObject ----------------------------
(***************************************************************************)
(* What <stdatomic.h> promises of an object: whoever calls an operation, the *)
(* main program or an interrupt handler, the operation reads and changes the *)
(* object in one step between its call and its return.                       *)
(***************************************************************************)
CONSTANTS
  Levels,         \* who calls: the main program and the handlers
  Requests,       \* what they call
  Blank,          \* no answer
  Reads(_),       \* whether a request looks at the object
  After(_, _)     \* what a request makes of an object

VARIABLES
  obj,      \* the object
  phase,    \* of each level: "idle", "called" or "applied"
  asked,    \* its request
  answer    \* what the request found

vars == <<obj, phase, asked, answer>>

Init ==
  /\ obj = Blank
  /\ phase = [l \in Levels |-> "idle"]
  /\ asked \in [Levels -> Requests]
  /\ answer = [l \in Levels |-> Blank]

Call(l) ==
  /\ phase[l] = "idle"
  /\ phase' = [phase EXCEPT ![l] = "called"]
  /\ \E r \in Requests : asked' = [asked EXCEPT ![l] = r]
  /\ UNCHANGED <<obj, answer>>

Apply(l) ==
  /\ phase[l] = "called"
  /\ phase' = [phase EXCEPT ![l] = "applied"]
  /\ obj' = After(asked[l], obj)
  /\ answer' = [answer EXCEPT ![l] = IF Reads(asked[l]) THEN obj ELSE Blank]
  /\ UNCHANGED asked

Return(l) ==
  /\ phase[l] = "applied"
  /\ phase' = [phase EXCEPT ![l] = "idle"]
  /\ answer' = [answer EXCEPT ![l] = Blank]
  /\ UNCHANGED <<obj, asked>>

Next == \E l \in Levels : Call(l) \/ Apply(l) \/ Return(l)

Spec == Init /\ [][Next]_vars
=============================================================================
