------------------------------ MODULE Strings -------------------------------
(***************************************************************************)
(* The memory and string functions of compat/compat.c: memset, memcpy,      *)
(* memmove, memcmp, strlen, strcmp, strncmp, strcpy, strcat, strdup, strchr  *)
(* and strstr.  One call runs in one memory, a turn of its loop at a time;   *)
(* what it promises is a statement about the memory it was called in.        *)
(*                                                                         *)
(* A call names its pointers d and s: dest and src, s1 and s2, haystack and  *)
(* needle.  Functions of one string take it in d.                           *)
(***************************************************************************)
EXTENDS Integers

CONSTANTS
  Addr,       \* the addresses of memory; NULL is none of them
  Fresh,      \* where malloc finds room for strdup
  Requests    \* the calls, each with the memory it is made in

NULL == 0
Byte == 0 .. 255

Compares == {"memcmp", "strcmp", "strncmp"}
Functions == Compares \union {"memset", "memcpy", "memmove", "strlen", "strcpy",
                              "strcat", "strdup", "strchr", "strstr"}

Request == [fn : Functions, d : Int, s : Int, n : Nat, c : Byte, mem : [Addr -> Byte]]

-----------------------------------------------------------------------------
(* What C asks of a call *)

Span(p, n) == p .. p + n - 1

\* A string of n characters lies at p.
Ends(m, p, n) ==
  /\ Span(p, n + 1) \subseteq Addr
  /\ m[p + n] = 0
  /\ \A k \in 0 .. n - 1 : m[p + k] # 0

Sizes == {a - b : a, b \in Addr} \intersect Nat
Terminated(m, p) == \E n \in Sizes : Ends(m, p, n)
Length(m, p) == CHOOSE n \in Sizes : Ends(m, p, n)

\* n bytes may be copied upwards from s to d.
Copyable(d, s, n) ==
  /\ Span(d, n) \subseteq Addr /\ Span(s, n) \subseteq Addr
  /\ d <= s \/ s + n <= d

Proper(r) ==
  /\ r.fn = "memset" => Span(r.d, r.n) \subseteq Addr
  /\ r.fn = "memcpy" => Copyable(r.d, r.s, r.n)
  /\ r.fn \in {"memmove", "memcmp"} =>
       Span(r.d, r.n) \subseteq Addr /\ Span(r.s, r.n) \subseteq Addr
  /\ r.fn \in {"strlen", "strcmp", "strncmp", "strcat", "strdup", "strchr", "strstr"} =>
       Terminated(r.mem, r.d)
  /\ r.fn \in {"strcmp", "strncmp", "strcpy", "strcat", "strstr"} =>
       Terminated(r.mem, r.s)
  /\ r.fn = "strcpy" => Copyable(r.d, r.s, Length(r.mem, r.s) + 1)
  /\ r.fn = "strcat" =>
       Copyable(r.d + Length(r.mem, r.d), r.s, Length(r.mem, r.s) + 1)
  /\ r.fn = "strdup" => Copyable(Fresh, r.d, Length(r.mem, r.d) + 1)

ASSUME StringsAssumption ==
  /\ Addr \subseteq Nat \ {NULL}
  /\ Fresh \in Addr
  /\ Requests \subseteq Request
  /\ \A r \in Requests : Proper(r)

VARIABLES
  call,     \* the call
  loop,     \* the loop it is in, or "returned"
  to, from, \* the pointers of the loop
  count,    \* the bytes it is to deal with, if it counts them
  i,        \* its turns so far
  mem,      \* memory
  ret       \* what the call returned

stringsVars == <<call, loop, to, from, count, i, mem, ret>>

-----------------------------------------------------------------------------
\* Fault: memmove always copies upwards.
FaultMoveLoop(r) == "up"

MoveLoop(r) ==
  IF r.d < r.s THEN "up" ELSE IF r.d > r.s THEN "down" ELSE "still"

Loops == {"fill", "up", "down", "still", "compare", "length", "end", "copy", "find",
          "search", "returned"}

\* The loop a call starts with.
Starts(r, l) ==
  /\ r.fn = "memset" => l = "fill"
  /\ r.fn = "memcpy" => l = "up"
  /\ r.fn = "memmove" => l = MoveLoop(r)
  /\ r.fn \in Compares => l = "compare"
  /\ r.fn \in {"strlen", "strdup"} => l = "length"
  /\ r.fn = "strcpy" => l = "copy"
  /\ r.fn = "strcat" => l = "end"
  /\ r.fn = "strchr" => l = "find"
  /\ r.fn = "strstr" => l = "search"

StringsInit ==
  /\ call \in Requests
  /\ loop \in Loops /\ Starts(call, loop)
  /\ to = call.d /\ from = call.s /\ count = call.n /\ i = 0
  /\ mem = call.mem
  /\ ret = NULL

Turn == i' = i + 1 /\ UNCHANGED <<call, loop, to, from, count, ret>>

Answer(v) ==
  /\ loop' = "returned" /\ ret' = v
  /\ UNCHANGED <<call, to, from, count, i>>

Store(a, v) == mem' = [mem EXCEPT ![a] = v]

\* The bytes the two pointers are at.
A == mem[to + i]
B == mem[from + i]

-----------------------------------------------------------------------------
(* memset, memcpy, memmove *)

Fill == loop = "fill" /\ i < count /\ Store(to + i, call.c) /\ Turn

CopyUp == loop = "up" /\ i < count /\ Store(to + i, B) /\ Turn

CopyDown ==
  /\ loop = "down" /\ i < count
  /\ Store(to + count - 1 - i, mem[from + count - 1 - i])
  /\ Turn

BytesDone ==
  /\ loop = "still" \/ (loop \in {"fill", "up", "down"} /\ i >= count)
  /\ Answer(to)
  /\ UNCHANGED mem

-----------------------------------------------------------------------------
(* memcmp, strcmp, strncmp *)

\* The loops go on while the bytes are alike.
Alike ==
  /\ call.fn # "strcmp" => i < count
  /\ call.fn # "memcmp" => A # 0
  /\ A = B

CompareOn == loop = "compare" /\ Alike /\ Turn /\ UNCHANGED mem

CompareDone ==
  /\ loop = "compare" /\ ~Alike
  /\ Answer(IF call.fn # "strcmp" /\ i >= count THEN 0 ELSE A - B)
  /\ UNCHANGED mem

-----------------------------------------------------------------------------
(* strlen, strdup, strcpy, strcat *)

Measure == loop \in {"length", "end"} /\ A # 0 /\ Turn /\ UNCHANGED mem

LengthKnown ==
  /\ loop = "length" /\ A = 0 /\ call.fn = "strlen"
  /\ Answer(i)
  /\ UNCHANGED mem

\* strdup: malloc has no room and returns NULL, or memcpy fills its block.
NoRoom ==
  /\ loop = "length" /\ A = 0 /\ call.fn = "strdup"
  /\ Answer(NULL)
  /\ UNCHANGED mem

Duplicate ==
  /\ loop = "length" /\ A = 0 /\ call.fn = "strdup"
  /\ loop' = "up"
  /\ to' = Fresh /\ from' = call.d /\ count' = i + 1 /\ i' = 0
  /\ UNCHANGED <<call, mem, ret>>

\* strcat has found the end of dest.
EndFound ==
  /\ loop = "end" /\ A = 0
  /\ loop' = "copy" /\ to' = to + i /\ i' = 0
  /\ UNCHANGED <<call, from, count, mem, ret>>

CopyChar == loop = "copy" /\ B # 0 /\ Store(to + i, B) /\ Turn

CopyTerminator == loop = "copy" /\ B = 0 /\ Store(to + i, B) /\ Answer(call.d)

-----------------------------------------------------------------------------
(* strchr, strstr *)

Look == loop = "find" /\ A # 0 /\ A # call.c /\ Turn /\ UNCHANGED mem

LookDone ==
  /\ loop = "find" /\ (A = 0 \/ A = call.c)
  /\ Answer(IF A = call.c THEN to + i ELSE NULL)
  /\ UNCHANGED mem

Match == loop = "search" /\ A # 0 /\ B # 0 /\ A = B /\ Turn /\ UNCHANGED mem

\* The whole needle matches; an empty one does at once.
Found == loop = "search" /\ B = 0 /\ Answer(to) /\ UNCHANGED mem

\* Fault: the search goes on behind what did match.
FaultMismatch ==
  /\ loop = "search" /\ B # 0 /\ A # B
  /\ ~(i = 0 /\ A = 0)
  /\ to' = to + i + 1 /\ i' = 0
  /\ UNCHANGED <<call, loop, from, count, mem, ret>>

\* No match here: one character further on.
Mismatch ==
  /\ loop = "search" /\ B # 0 /\ A # B
  /\ ~(i = 0 /\ A = 0)
  /\ to' = to + 1 /\ i' = 0
  /\ UNCHANGED <<call, loop, from, count, mem, ret>>

NotFound ==
  /\ loop = "search" /\ B # 0 /\ i = 0 /\ A = 0
  /\ Answer(NULL)
  /\ UNCHANGED mem

-----------------------------------------------------------------------------
StringsNext ==
  \/ Fill \/ CopyUp \/ CopyDown \/ BytesDone
  \/ CompareOn \/ CompareDone
  \/ Measure \/ LengthKnown \/ NoRoom \/ Duplicate \/ EndFound
  \/ CopyChar \/ CopyTerminator
  \/ Look \/ LookDone \/ Match \/ Found \/ Mismatch \/ NotFound

StringsSpec == StringsInit /\ [][StringsNext]_stringsVars

-----------------------------------------------------------------------------
(* Properties *)

\* Type correctness of the call, of its loop and of memory.
StringsTypeOK ==
  /\ call \in Requests
  /\ loop \in Loops
  /\ to \in Int /\ from \in Int /\ count \in Nat /\ i \in Nat /\ ret \in Int
  /\ mem \in [Addr -> Byte]

\* Memory m with n bytes of it set to c from d on.
Filled(m, d, n, c) == [a \in Addr |-> IF a \in Span(d, n) THEN c ELSE m[a]]

\* Memory m with n bytes of it moved from s to d at once.
Moved(m, d, s, n) ==
  [a \in Addr |-> IF a \in Span(d, n) THEN m[s + (a - d)] ELSE m[a]]

\* memset fills its bytes, the copying functions leave memory as if all their
\* bytes had been moved at once, whatever overlap they allow, and nothing else is
\* written: nor by the functions that only look.
MemoryAsPromised ==
  loop = "returned" =>
    LET m == call.mem
        d == call.d
        s == call.s
    IN  /\ call.fn = "memset" => mem = Filled(m, d, call.n, call.c)
        /\ call.fn \in {"memcpy", "memmove"} => mem = Moved(m, d, s, call.n)
        /\ call.fn = "strcpy" => mem = Moved(m, d, s, Length(m, s) + 1)
        /\ call.fn = "strcat" => mem = Moved(m, d + Length(m, d), s, Length(m, s) + 1)
        /\ call.fn = "strdup" =>
             mem = IF ret = NULL THEN m ELSE Moved(m, ret, d, Length(m, d) + 1)
        /\ call.fn \in Compares \union {"strlen", "strchr", "strstr"} => mem = m

\* The k-th byte a comparison compares: of memory, or of a string that ends.
Char(p, k) ==
  IF call.fn # "memcmp" /\ \E j \in 0 .. k - 1 : call.mem[p + j] = 0
  THEN 0 ELSE call.mem[p + k]
Compared == IF call.fn = "strcmp" THEN Length(call.mem, call.d) + 1 ELSE call.n
Before(p, q) ==
  \E k \in 0 .. Compared - 1 :
    /\ Char(p, k) < Char(q, k)
    /\ \A j \in 0 .. k - 1 : Char(p, j) = Char(q, j)

\* Where the byte is and where the needle stands, from d to the end of its string.
Places == call.d .. call.d + Length(call.mem, call.d)
Hits ==
  IF call.fn = "strchr" THEN {p \in Places : call.mem[p] = call.c}
  ELSE {p \in Places : \A k \in 0 .. Length(call.mem, call.s) - 1 :
                         call.mem[p + k] = call.mem[call.s + k]}

\* The functions that answer a question answer it: comparisons give the order of
\* the bytes, taken as unsigned, and 0 for none; lengths and places are right; what
\* is found is the first; strdup gives NULL or its block, the others return dest.
AnswerAsPromised ==
  loop = "returned" =>
    /\ call.fn \in Compares =>
         /\ ret < 0 <=> Before(call.d, call.s)
         /\ ret > 0 <=> Before(call.s, call.d)
    /\ call.fn = "strlen" => ret = Length(call.mem, call.d)
    /\ call.fn \in {"strchr", "strstr"} =>
         IF Hits = {} THEN ret = NULL ELSE ret \in Hits /\ \A p \in Hits : ret <= p
    /\ call.fn = "strdup" => ret \in {NULL, Fresh}
    /\ call.fn \in {"memset", "memcpy", "memmove", "strcpy", "strcat"} => ret = call.d
=============================================================================
